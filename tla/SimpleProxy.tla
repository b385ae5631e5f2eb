---------------------------- MODULE SimpleProxy ----------------------------
(***************************************************************************)
(* apps/simple_proxy: the process made of the main thread, the proxy       *)
(* thread (MitmThread) and the control thread (CtlThread), the control     *)
(* sessions (CtlApp), the command line tool that talks to them, and the    *)
(* CaptureFilter that the threads share.                                   *)
(*                                                                         *)
(* Each server thread runs one handler at a time.  What the two threads do *)
(* at the same time without a lock is split into steps: set_filters in the *)
(* control thread, the iteration of is_collectable in the proxy thread.    *)
(* When they overlap, the list is torn and the outcome is undefined.       *)
(*                                                                         *)
(* A TcpServer is here what its threads see of it: listen() returns some   *)
(* time after terminate(), or never, when the sweep finds no accept to     *)
(* cancel (module TcpServer).  Control clients do not pipeline.            *)
(***************************************************************************)
EXTENDS Integers, Sequences, SequencesExt

CONSTANTS
  Clients,          \* users of the control port
  Regexes,          \* strings given as filters
  Malformed,        \* the ones std::regex rejects
  Hosts,            \* hosts of CONNECT requests
  Ports,            \* ports of CONNECT requests
  Matching,         \* pairs <<regex, host>> that match
  Numbers,          \* numbers a user types after filter_remove
  IntSpan,          \* 2^32 in the code: number of values of an int
  MaxRequests,      \* bound: control requests
  MaxChecks         \* bound: CONNECT requests

ASSUME ProxyAssumption ==
  /\ IntSpan \in Nat \ {0} /\ Numbers \subseteq Nat
  /\ Malformed \subseteq Regexes /\ Matching \subseteq (Regexes \ Malformed) \X Hosts
  /\ MaxRequests \in Nat /\ MaxChecks \in Nat

VARIABLES
  main,             \* "start", "proxy", "both", "joined", "exited"
  server,           \* [Servers -> "none" (m_server_uptr is null), "made", "listening", "returned"]
  asked,            \* servers whose terminate() was called
  missed,           \* servers whose sweep found no accept to cancel
  dead,             \* the process was ended by an exception or a bad pointer
  session,          \* [Clients -> control session]
  cli,              \* [Clients -> the list the tool displayed last, if any]
  overtaken,        \* clients whose list another client has edited since it was read
  m_filters,        \* the CaptureFilter's list (its flag is in module Collectors)
  storing,          \* the list set_filters is assigning: a set of one list, or of none
  check,            \* the proxy thread in is_collectable
  intercepted,      \* its last result
  requests, checks  \* counters for the bounds

threads  == <<main, server, asked, missed, dead>>
control  == <<session, cli, overtaken, storing, requests>>
traffic  == <<check, intercepted, checks>>
vars     == <<threads, control, m_filters, traffic>>

Servers == {"mitm", "ctl"}
None == [none |-> TRUE]

Init ==
  /\ main = "start"
  /\ server = [s \in Servers |-> "none"]
  /\ asked = {} /\ missed = {} /\ dead = FALSE
  /\ session = [c \in Clients |-> [at |-> "none"]]
  /\ cli = [c \in Clients |-> {}] /\ overtaken = {}
  /\ m_filters \in {<<r>> : r \in Regexes}
  /\ storing = {} /\ check = None /\ intercepted = FALSE
  /\ requests = 0 /\ checks = 0

-----------------------------------------------------------------------------
(* main, and the two threads it starts.                                     *)

Alive == ~dead /\ main # "exited"

\* main constructs MitmThread and then CtlThread, whose constructors start
\* the threads, and joins them in the other order.
MainStarts ==
  /\ Alive
  /\ \/ main = "start" /\ main' = "proxy"
     \/ main = "proxy" /\ main' = "both"
  /\ UNCHANGED <<server, asked, missed, dead, control, m_filters, traffic>>

MainJoins ==
  /\ Alive
  /\ \/ main = "both" /\ server["ctl"] = "returned" /\ main' = "joined"
     \/ main = "joined" /\ server["mitm"] = "returned" /\ main' = "exited"
  /\ UNCHANGED <<server, asked, missed, dead, control, m_filters, traffic>>

Started(s) == IF s = "mitm" THEN main # "start" ELSE main \notin {"start", "proxy"}

\* The thread function: m_server_uptr is assigned, then listen() is entered;
\* an exception that leaves it (the port is taken) ends the process.
ThreadRuns(s) ==
  /\ Alive /\ Started(s)
  /\ \/ /\ server[s] = "none"
        /\ server' = [server EXCEPT ![s] = "made"]
        /\ UNCHANGED dead
     \/ /\ server[s] = "made"
        /\ \/ server' = [server EXCEPT ![s] = "listening"] /\ UNCHANGED dead
           \/ dead' = TRUE /\ UNCHANGED server
  /\ UNCHANGED <<main, asked, missed, control, m_filters, traffic>>

\* The thread is between two handlers.
Free(s) ==
  /\ Alive /\ server[s] = "listening"
  /\ IF s = "mitm" THEN check = None ELSE storing = {}

\* The heartbeat after terminate(): listen() returns when there was an accept
\* to cancel.
Sweep(s) ==
  /\ Free(s) /\ s \in asked /\ s \notin missed
  /\ \/ server' = [server EXCEPT ![s] = "returned"] /\ UNCHANGED missed
     \/ missed' = missed \cup {s} /\ UNCHANGED server
  /\ UNCHANGED <<main, asked, dead, control, m_filters, traffic>>

-----------------------------------------------------------------------------
(* The command line tool and what a control session does with a request.    *)

\* The requests of the tool's commands.  "filter_list" stands for every other
\* /filter path and for a filter_remove without a number, which leave the list
\* alone like it, "bodies" for bodies_on and bodies_off, "other" for unknown paths.
Requests ==
  [cmd : {"stop", "filter_list", "bodies", "other"}]
    \cup [cmd : {"filter_remove"}, index : Numbers]
    \cup [cmd : {"filter_add"}, regex : Regexes]

\* The dispatch table: its first pattern that matches.
Handled(r) ==
  CASE r.cmd = "stop" -> "stop"
    [] r.cmd \in {"filter_list", "filter_remove", "filter_add"} -> "filter"
    [] r.cmd = "bodies" -> "bodies"
    [] OTHER -> "other"

\* std::atoi into an int.
Atoi(n) == LET m == n % IntSpan IN IF 2 * m >= IntSpan THEN m - IntSpan ELSE m

\* Mutation: the first filter has number 1.
Edited_FromOne(list, r) ==
  CASE r.cmd = "filter_remove" /\ r.index \in 1..Len(list) -> RemoveAt(list, r.index)
    [] r.cmd = "filter_add" -> Append(list, r.regex)
    [] OTHER -> list

\* p_handle_filter: the list after the request.  A negative index is compared
\* as an unsigned number, and is too big.
Edited(list, r) ==
  CASE r.cmd = "filter_remove" /\ Atoi(r.index) \in 0..Len(list) - 1
         -> RemoveAt(list, Atoi(r.index) + 1)
    [] r.cmd = "filter_add" -> Append(list, r.regex)
    [] OTHER -> list

\* A client connects: CtlApp::handle reads the first message.
Connects(c) ==
  /\ Free("ctl") /\ session[c].at = "none" /\ requests < MaxRequests
  /\ session' = [session EXCEPT ![c] = [at |-> "reading"]]
  /\ UNCHANGED <<threads, cli, overtaken, storing, requests, m_filters, traffic>>

\* The session answers: m_wrtr->async_write of the list it reports, if any.
\* stop: the callback of p_handle_stop, not the one of the other handlers.
Replies(c, stop, says) ==
  session' = [session EXCEPT ![c] = [at |-> "writing", stop |-> stop, says |-> says]]

\* The reader has the message: the handler the dispatch table finds is called.
Arrives(c) ==
  /\ Free("ctl") /\ session[c].at = "reading" /\ requests < MaxRequests
  /\ requests' = requests + 1

\* p_handle_bodies.  The flag it sets is for the collectors (module Collectors).
HandleBodies(c, r) ==
  /\ Arrives(c) /\ Handled(r) = "bodies"
  /\ Replies(c, FALSE, {})
  /\ UNCHANGED <<threads, cli, overtaken, storing, m_filters, traffic>>

\* p_handle_stop and p_invalid_request, which answer alone.
HandleOther(c, r) ==
  /\ Arrives(c) /\ Handled(r) \in {"stop", "other"}
  /\ Replies(c, Handled(r) = "stop", {})
  /\ UNCHANGED <<threads, cli, overtaken, storing, m_filters, traffic>>

\* p_handle_filter up to the call of set_filters, which it makes for every
\* request, filter_list included.
HandleFilter(c, r) ==
  /\ Arrives(c) /\ Handled(r) = "filter"
  /\ storing' = {Edited(m_filters, r)}
  /\ session' = [session EXCEPT ![c] = 
       [at |-> "storing", req |-> r, view |-> IF c \in overtaken THEN {} ELSE cli[c]]]
  /\ overtaken' = IF Edited(m_filters, r) = m_filters THEN overtaken \ {c} ELSE Clients \ {c}
  /\ cli' = [cli EXCEPT ![c] = {}]
  /\ check' = IF check = None THEN None ELSE [check EXCEPT !.torn = TRUE]
  /\ UNCHANGED <<threads, m_filters, intercepted, checks>>

\* ... and from its return: the reply lists get_filters().
FilterStored(c) ==
  /\ Alive /\ session[c].at = "storing"
  /\ m_filters' \in storing
  /\ storing' = {}
  /\ Replies(c, FALSE, storing)
  /\ UNCHANGED <<threads, cli, overtaken, requests, traffic>>

\* The done callback, called on the stack: the server deletes the session.
Done(c) == session' = [session EXCEPT ![c] = [at |-> "none"]]

\* p_req_resp_cycle_complete: another read when the request said Keep-Alive,
\* otherwise shutdown() and done.  shutdown() asserts m_closed_already, which an
\* accepted Connection never sets, and throws when the client has gone: the
\* process may end here.
CycleComplete(c) ==
  \/ session' = [session EXCEPT ![c] = [at |-> "reading"]] /\ UNCHANGED dead
  \/ Done(c) /\ dead' \in BOOLEAN

\* What the tool shows of a reply: its loop also ends when curl is no longer
\* running, and then the rest of the output is lost.
Displays(c) ==
  \/ cli' = [cli EXCEPT ![c] = session[c].says]
  \/ session[c].says # {} /\ cli' = [cli EXCEPT ![c] = {}]

\* The write of a reply other than the one to stop succeeds.
ReplyWritten(c) ==
  /\ Free("ctl") /\ session[c].at = "writing" /\ ~session[c].stop
  /\ CycleComplete(c)
  /\ Displays(c)
  /\ UNCHANGED <<main, server, asked, missed, overtaken, storing, requests, m_filters, traffic>>

\* Mutation: only the control server is asked to stop.
StopWritten_CtlOnly(c) ==
  /\ Free("ctl") /\ session[c].at = "writing" /\ session[c].stop
  /\ asked' = asked \cup {"ctl"}
  /\ CycleComplete(c)
  /\ UNCHANGED <<main, server, missed, cli, overtaken, storing, requests, m_filters, traffic>>

\* ... of the one to stop: terminate() of the proxy's server, through a pointer
\* that is null until its thread has assigned it, and of its own.
StopWritten(c) ==
  /\ Free("ctl") /\ session[c].at = "writing" /\ session[c].stop
  /\ \/ /\ server["mitm"] = "none"
        /\ dead' = TRUE /\ UNCHANGED <<session, asked>>
     \/ /\ server["mitm"] # "none"
        /\ asked' = asked \cup Servers /\ CycleComplete(c)
  /\ UNCHANGED <<main, server, missed, cli, overtaken, storing, requests, m_filters, traffic>>

\* p_on_write_error, p_on_read_error: done, without shutdown().
SessionFails(c) ==
  /\ Free("ctl") /\ session[c].at \in {"reading", "writing"}
  /\ Done(c)
  /\ UNCHANGED <<threads, cli, overtaken, storing, requests, m_filters, traffic>>

\* p_on_read_error for a message the parser rejects: the loop of the reader
\* that called it goes on in the reader just deleted.
SessionRejects(c) ==
  /\ Free("ctl") /\ session[c].at = "reading"
  /\ Done(c)
  /\ dead' \in BOOLEAN
  /\ UNCHANGED <<main, server, asked, missed, cli, overtaken, storing, requests, m_filters, traffic>>

-----------------------------------------------------------------------------
(* The proxy thread: MitmApp::p_determine_action for a CONNECT, which is    *)
(* given the port too and asks the filter about the host.                   *)

CheckBegins(h, port) ==
  /\ Free("mitm") /\ checks < MaxChecks
  /\ checks' = checks + 1
  /\ check' = [host |-> h, port |-> port, next |-> 1, torn |-> storing # {}]
  /\ UNCHANGED <<threads, control, m_filters, intercepted>>

Decides(answer) == intercepted' = answer /\ check' = None

\* Mutation: the first filter decides.
CheckStep_FirstOnly ==
  /\ Alive /\ check # None
  /\ \E answer \in BOOLEAN :
       /\ ~check.torn =>
            answer = (m_filters # <<>> /\ <<m_filters[1], check.host>> \in Matching)
       /\ Decides(answer)
  /\ UNCHANGED <<threads, control, m_filters, checks>>

\* One turn of the loop of is_collectable: std::regex throws for a malformed
\* string.  A torn list gives any answer, or ends the process.
CheckStep ==
  /\ Alive /\ check # None
  /\ \/ /\ check.torn
        /\ \/ \E answer \in BOOLEAN : Decides(answer) /\ UNCHANGED dead
           \/ dead' = TRUE /\ UNCHANGED <<check, intercepted>>
     \/ /\ ~check.torn /\ check.next > Len(m_filters)
        /\ Decides(FALSE) /\ UNCHANGED dead
     \/ /\ ~check.torn /\ check.next <= Len(m_filters)
        /\ LET r == m_filters[check.next]
           IN \/ /\ r \in Malformed
                 /\ dead' = TRUE /\ UNCHANGED <<check, intercepted>>
              \/ /\ <<r, check.host>> \in Matching
                 /\ Decides(TRUE) /\ UNCHANGED dead
              \/ /\ r \notin Malformed /\ <<r, check.host>> \notin Matching
                 /\ check' = [check EXCEPT !.next = @ + 1]
                 /\ UNCHANGED <<intercepted, dead>>
  /\ UNCHANGED <<main, server, asked, missed, control, m_filters, checks>>

Next ==
  \/ MainStarts \/ MainJoins
  \/ \E s \in Servers : ThreadRuns(s) \/ Sweep(s)
  \/ \E c \in Clients :
       \/ Connects(c) \/ FilterStored(c) \/ ReplyWritten(c) \/ StopWritten(c)
       \/ SessionFails(c) \/ SessionRejects(c)
       \/ \E r \in Requests : HandleBodies(c, r) \/ HandleOther(c, r) \/ HandleFilter(c, r)
  \/ \E h \in Hosts, port \in Ports : CheckBegins(h, port)
  \/ CheckStep

\* Threads are scheduled, handlers return and the heartbeat beats; clients and
\* their connections owe nothing.
Fairness ==
  /\ WF_vars(MainStarts) /\ WF_vars(MainJoins) /\ WF_vars(CheckStep)
  /\ \A s \in Servers : WF_vars(ThreadRuns(s)) /\ SF_vars(Sweep(s))
  /\ \A c \in Clients : WF_vars(FilterStored(c))

Spec == Init /\ [][Next]_vars /\ Fairness

-----------------------------------------------------------------------------
(* Properties.                                                              *)

\* The types of the state.
TypeOK ==
  /\ main \in {"start", "proxy", "both", "joined", "exited"}
  /\ server \in [Servers -> {"none", "made", "listening", "returned"}]
  /\ asked \subseteq Servers /\ missed \subseteq asked /\ dead \in BOOLEAN
  /\ \A c \in Clients : session[c].at \in {"none", "reading", "storing", "writing"}
  /\ m_filters \in Seq(Regexes)
  /\ storing # {} <=> \E c \in Clients : session[c].at = "storing"
  /\ requests \in 0..MaxRequests /\ checks \in 0..MaxChecks

\* What is left of a displayed list without the filter that has number n in it.
WithoutNumber(view, n) ==
  IF n >= Len(view) THEN view ELSE SubSeq(view, 1, n) \o SubSeq(view, n + 2, Len(view))

\* A user who saw a list, and removes by number when nobody has edited since,
\* removes the filter with that number in what the tool displayed and no other,
\* or nothing when there is none: unless the number does not fit an int.
EditsAsShown ==
  [][\A c \in Clients :
       session[c].at = "storing" /\ session'[c].at = "writing" =>
         \A view \in session[c].view :
           session[c].req.cmd = "filter_remove"
             /\ session[c].req.index \in 0..(IntSpan \div 2) - 1 =>
               m_filters' = WithoutNumber(view, session[c].req.index)]_vars

\* A CONNECT is intercepted exactly when some filter in force matches its
\* host, wherever it stands in the list and whatever the port, unless the list
\* was being replaced while it was searched.  (The comment on p_determine_action,
\* mitm_app.cpp:223-225, would have it tunnelled unless "the port is 443".)
InterceptsAsFiltered ==
  [][check # None /\ check' = None /\ ~check.torn =>
       (intercepted' <=> \E i \in DOMAIN m_filters : <<m_filters[i], check.host>> \in Matching)]_vars

\* Once the answer to stop is written both servers return and main ends,
\* whatever the proxy was doing, unless a sweep found no accept to cancel.
StopEndsProcess ==
  (asked # {}) ~> (main = "exited" \/ missed # {} \/ dead)
=============================================================================
