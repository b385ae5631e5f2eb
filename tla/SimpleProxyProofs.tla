-------------------------- MODULE SimpleProxyProofs --------------------------
(***************************************************************************)
(* Proofs about SimpleProxy for any clients, filters, hosts and width of   *)
(* an int.  Both results are about what two actors know of one list: what  *)
(* the user of the tool saw of it when the control thread edits it, and    *)
(* what the proxy thread has read of it when it decides.                   *)
(***************************************************************************)
EXTENDS SimpleProxy, TLAPS

Lists == Seq(Regexes)

Sessions ==
  [at : {"none", "reading"}]
    \cup [at : {"storing"}, req : Requests, view : SUBSET Lists]
    \cup [at : {"writing"}, stop : BOOLEAN, says : SUBSET Lists]

Checks == [host : Hosts, port : Ports, next : Nat \ {0}, torn : BOOLEAN]

Typed ==
  /\ main \in {"start", "proxy", "both", "joined", "exited"}
  /\ server \in [Servers -> {"none", "made", "listening", "returned"}]
  /\ asked \subseteq Servers /\ missed \subseteq asked /\ dead \in BOOLEAN
  /\ session \in [Clients -> Sessions]
  /\ cli \in [Clients -> SUBSET Lists]
  /\ overtaken \subseteq Clients
  /\ m_filters \in Lists
  /\ storing \subseteq Lists
  /\ check = None \/ check \in Checks
  /\ intercepted \in BOOLEAN
  /\ requests \in 0..MaxRequests /\ checks \in 0..MaxChecks

\* One session at a time is in set_filters, called with the edit of the list
\* in force, and its user has seen that list or none.
Storing ==
  /\ \A c \in Clients : session[c].at = "storing" =>
       /\ storing = {Edited(m_filters, session[c].req)}
       /\ session[c].view \subseteq {m_filters}
       /\ \A d \in Clients : session[d].at = "storing" => d = c
  /\ (\A c \in Clients : session[c].at # "storing") => storing = {}

\* The list that will be in force when set_filters, if it runs, has returned.
Upcoming == IF storing = {} THEN {m_filters} ELSE storing

\* What a user has seen, or is about to see, is that list, unless another
\* user has edited it since.
Seen ==
  \A c \in Clients \ overtaken :
    /\ cli[c] \subseteq Upcoming
    /\ session[c].at = "writing" => session[c].says \subseteq Upcoming

\* A search that nothing has disturbed runs beside no set_filters, and no
\* filter it has passed matches.
Searched ==
  check # None /\ ~check.torn =>
    /\ storing = {}
    /\ \A i \in DOMAIN m_filters :
         i < check.next => <<m_filters[i], check.host>> \notin Matching

IInv == Typed /\ Storing /\ Seen /\ Searched

-----------------------------------------------------------------------------
(* The edits.                                                               *)

\* A number that fits an int is read as itself.
LEMMA AtoiFits ==
  ASSUME NEW n \in Nat, n \in 0..(IntSpan \div 2) - 1
  PROVE  Atoi(n) = n
<1>1. IntSpan \in Nat \ {0}
  BY ProxyAssumption
<1>2. n < IntSpan /\ ~(2 * n >= IntSpan)
  BY <1>1
<1>3. n % IntSpan = n
  BY <1>1, <1>2
<1> QED
  BY <1>2, <1>3 DEF Atoi

\* std::atoi gives an integer.
LEMMA AtoiType ==
  ASSUME NEW n \in Nat
  PROVE  Atoi(n) \in Int
<1>1. IntSpan \in Nat \ {0}
  BY ProxyAssumption
<1>2. n % IntSpan \in Int
  BY <1>1
<1> QED
  BY <1>1, <1>2 DEF Atoi

\* Removing an element of a list leaves a list.
LEMMA RemoveAtType ==
  ASSUME NEW s \in Lists, NEW i \in 1..Len(s)
  PROVE  RemoveAt(s, i) \in Lists
<1>1. SubSeq(s, 1, i - 1) \in Lists /\ SubSeq(s, i + 1, Len(s)) \in Lists
  BY DEF Lists
<1> QED
  BY <1>1 DEF RemoveAt, Lists

\* An edit of a list is a list.
LEMMA EditedType ==
  ASSUME NEW s \in Lists, NEW r \in Requests
  PROVE  Edited(s, r) \in Lists
<1>1. CASE r.cmd = "filter_remove"
  <2>1. r.index \in Nat
    BY <1>1, ProxyAssumption DEF Requests
  <2>2. Atoi(r.index) \in Int
    BY <2>1, AtoiType
  <2>3. PICK a \in Int : a = Atoi(r.index)
    BY <2>2
  <2>4. CASE a \in 0..Len(s) - 1
    <3>1. a + 1 \in 1..Len(s)
      BY <2>4 DEF Lists
    <3>2. RemoveAt(s, a + 1) \in Lists
      BY <3>1, RemoveAtType
    <3> QED
      BY <1>1, <2>3, <2>4, <3>2 DEF Edited
  <2>5. CASE a \notin 0..Len(s) - 1
    BY <1>1, <2>3, <2>5 DEF Edited
  <2> QED
    BY <2>4, <2>5
<1>2. CASE r.cmd = "filter_add"
  <2>1. r.regex \in Regexes
    BY <1>2 DEF Requests
  <2> QED
    BY <1>2, <2>1 DEF Edited, Lists
<1>3. CASE r.cmd \notin {"filter_remove", "filter_add"}
  BY <1>3 DEF Edited
<1> QED
  BY <1>1, <1>2, <1>3

-----------------------------------------------------------------------------
(* Every step keeps the invariant.                                          *)

\* A record is not the absence of one.
LEMMA CheckSome ==
  ASSUME NEW k \in Checks
  PROVE  k # None
<1>1. DOMAIN k = {"host", "port", "next", "torn"}
  BY DEF Checks
<1>2. DOMAIN None = {"none"}
  BY DEF None
<1> QED
  BY <1>1, <1>2

\* The initial state satisfies the invariant.
LEMMA InitInv ==
  Init => IInv
<1> SUFFICES ASSUME Init PROVE IInv
  OBVIOUS
<1>1. m_filters \in Lists
  <2>1. PICK r \in Regexes : m_filters = <<r>>
    BY DEF Init
  <2> QED
    BY <2>1 DEF Lists
<1>2. Typed
  <2>1. session \in [Clients -> Sessions]
    BY DEF Init, Sessions
  <2>2. cli \in [Clients -> SUBSET Lists]
    BY DEF Init
  <2>3. requests \in 0..MaxRequests /\ checks \in 0..MaxChecks
    BY ProxyAssumption DEF Init
  <2> QED
    BY <1>1, <2>1, <2>2, <2>3 DEF Init, Typed
<1>3. Storing
  BY DEF Init, Storing
<1>4. Seen
  BY DEF Init, Seen
<1>5. Searched
  BY DEF Init, Searched
<1> QED
  BY <1>2, <1>3, <1>4, <1>5 DEF IInv

\* The part of the state that the list, its editors and its readers form.
lists == <<session, cli, overtaken, m_filters, storing, check>>

\* The three relations of the invariant depend on that part alone.
LEMMA ListsKept ==
  ASSUME IInv, UNCHANGED lists
  PROVE  Storing' /\ Seen' /\ Searched'
<1>1. Storing'
  BY DEF IInv, Storing, lists
<1>2. Seen'
  BY DEF IInv, Seen, Upcoming, lists
<1>3. Searched'
  BY DEF IInv, Searched, lists
<1> QED
  BY <1>1, <1>2, <1>3

\* The steps of main and of the two threads outside their handlers.
LEMMA ThreadsKeep ==
  ASSUME IInv,
         MainStarts \/ MainJoins \/ \E s \in Servers : ThreadRuns(s) \/ Sweep(s)
  PROVE  IInv'
<1>1. UNCHANGED lists
  BY DEF MainStarts, MainJoins, ThreadRuns, Sweep, control, traffic, lists
<1>2. Typed'
  <2>1. CASE MainStarts
    BY <2>1 DEF IInv, Typed, MainStarts, control, traffic
  <2>2. CASE MainJoins
    BY <2>2 DEF IInv, Typed, MainJoins, control, traffic
  <2>3. ASSUME NEW s \in Servers, ThreadRuns(s) PROVE Typed'
    BY <2>3 DEF IInv, Typed, ThreadRuns, control, traffic
  <2>4. ASSUME NEW s \in Servers, Sweep(s) PROVE Typed'
    BY <2>4 DEF IInv, Typed, Sweep, control, traffic
  <2> QED
    BY <2>1, <2>2, <2>3, <2>4
<1> QED
  BY <1>1, <1>2, ListsKept DEF IInv

\* A session that becomes one of another kind, outside of set_filters, keeps
\* every relation when what it will say, if anything, is the list in force.
LEMMA SessionKeeps ==
  ASSUME IInv, NEW c \in Clients, NEW s \in Sessions,
         session[c].at # "storing", s.at # "storing",
         s.at = "writing" => s.says = {},
         session' = [session EXCEPT ![c] = s],
         UNCHANGED <<cli, overtaken, m_filters, storing, check>>
  PROVE  session' \in [Clients -> Sessions] /\ Storing' /\ Seen' /\ Searched'
<1>0. session \in [Clients -> Sessions]
  BY DEF IInv, Typed
<1>1. session' \in [Clients -> Sessions]
  BY <1>0
<1>2. session'[c] = s /\ \A d \in Clients \ {c} : session'[d] = session[d]
  BY <1>0
<1>3. \A d \in Clients : session'[d].at = "storing" <=> session[d].at = "storing"
  BY <1>2
<1>4. \A d \in Clients : session[d].at = "storing" => session'[d] = session[d]
  BY <1>2
<1>5. Storing'
  BY <1>3, <1>4 DEF IInv, Storing
<1>6. Seen'
  BY <1>2 DEF IInv, Seen, Upcoming
<1>7. Searched'
  BY DEF IInv, Searched
<1> QED
  BY <1>1, <1>5, <1>6, <1>7

\* The steps of a session that do not touch the list.
LEMMA SessionsKeep ==
  ASSUME IInv, NEW c \in Clients,
         \/ Connects(c) \/ StopWritten(c) \/ SessionFails(c) \/ SessionRejects(c)
         \/ \E r \in Requests : HandleBodies(c, r) \/ HandleOther(c, r)
  PROVE  IInv'
<1> USE DEF IInv, Typed
<1>a. CASE Connects(c)
  <2>1. [at |-> "reading"] \in Sessions
    BY DEF Sessions
  <2>2. session' \in [Clients -> Sessions] /\ Storing' /\ Seen' /\ Searched'
    BY <1>a, <2>1, SessionKeeps DEF Connects, traffic
  <2> QED
    BY <1>a, <2>2 DEF Connects, threads, traffic
<1>b. CASE StopWritten(c)
  <2>0. session[c].at # "storing" /\ storing = {}
    BY <1>b DEF StopWritten, Free
  <2>1. [at |-> "reading"] \in Sessions /\ [at |-> "none"] \in Sessions
    BY DEF Sessions
  <2>2. CASE session' = [session EXCEPT ![c] = [at |-> "reading"]]
    <3>1. session' \in [Clients -> Sessions] /\ Storing' /\ Seen' /\ Searched'
      BY <1>b, <2>0, <2>1, <2>2, SessionKeeps DEF StopWritten, traffic
    <3> QED
      BY <1>b, <3>1 DEF StopWritten, CycleComplete, traffic
  <2>3. CASE session' = [session EXCEPT ![c] = [at |-> "none"]]
    <3>1. session' \in [Clients -> Sessions] /\ Storing' /\ Seen' /\ Searched'
      BY <1>b, <2>0, <2>1, <2>3, SessionKeeps DEF StopWritten, traffic
    <3> QED
      BY <1>b, <3>1 DEF StopWritten, CycleComplete, traffic
  <2>4. CASE UNCHANGED session
    <3>1. Storing' /\ Seen' /\ Searched'
      BY <1>b, <2>4, ListsKept DEF StopWritten, traffic, lists
    <3> QED
      BY <1>b, <2>4, <3>1 DEF StopWritten, CycleComplete, traffic
  <2> QED
    BY <1>b, <2>2, <2>3, <2>4 DEF StopWritten, CycleComplete, Done
<1>c. CASE SessionFails(c) \/ SessionRejects(c)
  <2>1. [at |-> "none"] \in Sessions
    BY DEF Sessions
  <2>2. session' \in [Clients -> Sessions] /\ Storing' /\ Seen' /\ Searched'
    BY <1>c, <2>1, SessionKeeps DEF SessionFails, SessionRejects, Done, traffic
  <2> QED
    BY <1>c, <2>2 DEF SessionFails, SessionRejects, threads, traffic
<1>d. ASSUME NEW r \in Requests, HandleBodies(c, r) \/ HandleOther(c, r) PROVE IInv'
  <2>1. PICK b \in BOOLEAN :
          session' = [session EXCEPT ![c] = [at |-> "writing", stop |-> b, says |-> {}]]
    BY <1>d DEF HandleBodies, HandleOther, Replies
  <2>2. [at |-> "writing", stop |-> b, says |-> {}] \in Sessions
    BY DEF Sessions
  <2>3. session' \in [Clients -> Sessions] /\ Storing' /\ Seen' /\ Searched'
    BY <1>d, <2>1, <2>2, SessionKeeps DEF HandleBodies, HandleOther, Arrives, traffic
  <2>4. requests' = requests + 1 /\ requests < MaxRequests
    BY <1>d DEF HandleBodies, HandleOther, Arrives
  <2>5. requests' \in 0..MaxRequests
    BY <2>4, ProxyAssumption
  <2> QED
    BY <1>d, <2>3, <2>5 DEF HandleBodies, HandleOther, threads, traffic
<1> QED
  BY <1>a, <1>b, <1>c, <1>d

\* The tool displays a reply.
LEMMA ReplyKeeps ==
  ASSUME IInv, NEW c \in Clients, ReplyWritten(c)
  PROVE  IInv'
<1> USE DEF IInv, Typed
<1>1. session[c].at = "writing" /\ storing = {} /\ storing' = {}
  BY DEF ReplyWritten, Free
<1>2. session[c].says \in SUBSET Lists
  <2>1. session[c] \in [at : {"writing"}, stop : BOOLEAN, says : SUBSET Lists]
    BY <1>1 DEF Sessions
  <2> QED
    BY <2>1
<1>3. PICK s \in Sessions : s.at \in {"none", "reading"}
                            /\ session' = [session EXCEPT ![c] = s]
  BY DEF ReplyWritten, CycleComplete, Done, Sessions
<1>4. PICK v \in SUBSET session[c].says : cli' = [cli EXCEPT ![c] = v]
  BY DEF ReplyWritten, Displays
<1>5. /\ session' \in [Clients -> Sessions]
      /\ session'[c] = s
      /\ \A d \in Clients \ {c} : session'[d] = session[d]
  BY <1>3
<1>6. /\ cli' \in [Clients -> SUBSET Lists]
      /\ cli'[c] = v
      /\ \A d \in Clients \ {c} : cli'[d] = cli[d]
  BY <1>2, <1>4
<1>7. Storing'
  <2>1. \A d \in Clients : session'[d].at # "storing"
    <3>1. \A d \in Clients : session[d].at # "storing"
      BY <1>1 DEF Storing
    <3> QED
      BY <1>3, <1>5, <3>1
  <2> QED
    BY <1>1, <2>1 DEF Storing
<1>8. Seen'
  <2>1. Upcoming' = Upcoming
    BY DEF ReplyWritten, Upcoming
  <2>2. overtaken' = overtaken
    BY DEF ReplyWritten
  <2>3. SUFFICES ASSUME NEW d \in Clients \ overtaken
                 PROVE  /\ cli'[d] \subseteq Upcoming
                        /\ session'[d].at = "writing" => session'[d].says \subseteq Upcoming
    BY <2>1, <2>2 DEF Seen
  <2>4. CASE d = c
    BY <1>1, <1>3, <1>5, <1>6, <2>4 DEF Seen
  <2>5. CASE d # c
    BY <1>5, <1>6, <2>5 DEF Seen
  <2> QED
    BY <2>4, <2>5
<1>9. Searched'
  BY DEF ReplyWritten, Searched, traffic
<1>10. Typed'
  BY <1>5, <1>6 DEF ReplyWritten, CycleComplete, traffic
<1> QED
  BY <1>7, <1>8, <1>9, <1>10

\* set_filters is called: the users who had seen the list and did not edit it
\* no longer know it, and a search that runs is disturbed.
LEMMA HandleFilterKeeps ==
  ASSUME IInv, NEW c \in Clients, NEW r \in Requests, HandleFilter(c, r)
  PROVE  IInv'
<1> USE DEF IInv, Typed
<1> DEFINE new == Edited(m_filters, r)
           view == IF c \in overtaken THEN {} ELSE cli[c]
           s == [at |-> "storing", req |-> r, view |-> view]
<1>1. new \in Lists
  BY EditedType
<1>2. storing = {} /\ Upcoming = {m_filters} /\ \A d \in Clients : session[d].at # "storing"
  BY DEF HandleFilter, Arrives, Free, Storing, Upcoming
<1>3. view \subseteq {m_filters}
  BY <1>2 DEF Seen
<1>4. s \in Sessions
  BY <1>3 DEF Sessions
<1>5. storing' = {new} /\ m_filters' = m_filters /\ session' = [session EXCEPT ![c] = s]
  BY DEF HandleFilter
<1>6. /\ session' \in [Clients -> Sessions]
      /\ session'[c] = s
      /\ \A d \in Clients \ {c} : session'[d] = session[d]
  BY <1>4, <1>5
<1>7. /\ cli' \in [Clients -> SUBSET Lists]
      /\ cli'[c] = {}
      /\ \A d \in Clients \ {c} : cli'[d] = cli[d]
  BY DEF HandleFilter
<1>8. check' = None \/ (check' \in Checks /\ check'.torn)
  <2>1. CASE check = None
    BY <2>1 DEF HandleFilter
  <2>2. CASE check # None
    <3>1. check \in Checks /\ check' = [check EXCEPT !.torn = TRUE]
      BY <2>2 DEF HandleFilter
    <3> QED
      BY <3>1 DEF Checks
  <2> QED
    BY <2>1, <2>2
<1>9. requests' \in 0..MaxRequests
  BY ProxyAssumption DEF HandleFilter, Arrives
<1>10. Typed'
  BY <1>1, <1>5, <1>6, <1>7, <1>8, <1>9 DEF HandleFilter, threads
<1>11. Storing'
  <2>1. \A d \in Clients : session'[d].at = "storing" <=> d = c
    BY <1>2, <1>6
  <2>2. session'[c].req = r /\ session'[c].view \subseteq {m_filters}
    BY <1>3, <1>6
  <2> QED
    BY <1>5, <2>1, <2>2 DEF Storing
<1>12. Seen'
  <2>1. Upcoming' = {new}
    BY <1>5 DEF Upcoming
  <2>2. CASE new = m_filters
    <3>1. overtaken' = overtaken \ {c}
      BY <2>2 DEF HandleFilter
    <3>2. session'[c].at # "writing"
      BY <1>6
    <3> QED
      BY <1>2, <1>6, <1>7, <2>1, <2>2, <3>1, <3>2 DEF Seen
  <2>3. CASE new # m_filters
    <3>1. overtaken' = Clients \ {c}
      BY <2>3 DEF HandleFilter
    <3>2. session'[c].at # "writing"
      BY <1>6
    <3> QED
      BY <1>7, <3>1, <3>2 DEF Seen
  <2> QED
    BY <2>2, <2>3
<1>13. Searched'
  BY <1>8 DEF Searched
<1> QED
  BY <1>10, <1>11, <1>12, <1>13

\* set_filters returns: the list it was given is in force.
LEMMA FilterStoredKeeps ==
  ASSUME IInv, NEW c \in Clients, FilterStored(c)
  PROVE  IInv'
<1> USE DEF IInv, Typed
<1>1. session[c].at = "storing" /\ \A d \in Clients : session[d].at = "storing" => d = c
  BY DEF FilterStored, Storing
<1>2. storing = {m_filters'} /\ storing' = {} /\ m_filters' \in Lists
  BY <1>1 DEF FilterStored, Storing
<1> DEFINE s == [at |-> "writing", stop |-> FALSE, says |-> storing]
<1>3. s \in Sessions /\ session' = [session EXCEPT ![c] = s]
  BY DEF FilterStored, Replies, Sessions
<1>4. /\ session' \in [Clients -> Sessions]
      /\ session'[c] = s
      /\ \A d \in Clients \ {c} : session'[d] = session[d]
  BY <1>3
<1>5. Typed'
  BY <1>2, <1>4 DEF FilterStored, threads, traffic
<1>6. Storing'
  <2>1. \A d \in Clients : session'[d].at # "storing"
    BY <1>1, <1>4
  <2> QED
    BY <1>2, <2>1 DEF Storing
<1>7. Seen'
  <2>1. Upcoming' = Upcoming /\ Upcoming = storing
    BY <1>2 DEF Upcoming
  <2>2. session'[c].says = storing
    BY <1>4
  <2> QED
    BY <1>4, <2>1, <2>2 DEF Seen, FilterStored
<1>8. Searched'
  BY <1>2 DEF Searched, FilterStored, traffic
<1> QED
  BY <1>5, <1>6, <1>7, <1>8

\* The proxy thread searches the list.
LEMMA SearchKeeps ==
  ASSUME IInv, (\E h \in Hosts, port \in Ports : CheckBegins(h, port)) \/ CheckStep
  PROVE  IInv'
<1> USE DEF IInv, Typed
<1>1. Storing'
  BY DEF CheckBegins, CheckStep, control, Storing
<1>2. Seen'
  BY DEF CheckBegins, CheckStep, control, Seen, Upcoming
<1>3. ASSUME NEW h \in Hosts, NEW port \in Ports, CheckBegins(h, port) PROVE Typed' /\ Searched'
  <2> DEFINE k == [host |-> h, port |-> port, next |-> 1, torn |-> storing # {}]
  <2>1. check' = k /\ k \in Checks
    BY <1>3 DEF CheckBegins, Checks
  <2>2. checks' \in 0..MaxChecks
    BY <1>3, ProxyAssumption DEF CheckBegins
  <2>3. Typed'
    BY <1>3, <2>1, <2>2 DEF CheckBegins, threads, control
  <2>4. storing' = storing /\ m_filters' = m_filters
    BY <1>3 DEF CheckBegins, control
  <2>5. k.torn = (storing # {}) /\ k.next = 1
    OBVIOUS
  <2>6. \A i \in DOMAIN m_filters : ~(i < 1)
    BY DEF Lists
  <2>7. Searched'
    BY <2>1, <2>4, <2>5, <2>6 DEF Searched
  <2> QED
    BY <2>3, <2>7
<1>4. CASE CheckStep
  <2>0. storing' = storing /\ m_filters' = m_filters
    BY <1>4 DEF CheckStep, control
  <2>1. check \in Checks
    BY <1>4 DEF CheckStep
  <2>2. CASE check' = None
    <3>1. Typed'
      BY <1>4, <2>2 DEF CheckStep, control, Decides
    <3>2. Searched'
      BY <2>2 DEF Searched
    <3> QED
      BY <1>1, <1>2, <3>1, <3>2
  <2>3. CASE UNCHANGED check
    <3>1. Typed'
      BY <1>4, <2>3 DEF CheckStep, control, Decides
    <3>2. Searched'
      BY <2>0, <2>3 DEF Searched
    <3> QED
      BY <1>1, <1>2, <3>1, <3>2
  <2>4. CASE /\ ~check.torn /\ check.next <= Len(m_filters)
             /\ <<m_filters[check.next], check.host>> \notin Matching
             /\ check' = [check EXCEPT !.next = @ + 1]
             /\ UNCHANGED <<intercepted, dead>>
    <3>1. /\ check' \in Checks /\ check'.next = check.next + 1
          /\ check'.host = check.host /\ check'.torn = check.torn
          /\ check.next \in Nat
      BY <2>1, <2>4 DEF Checks
    <3>2. Typed'
      BY <1>4, <2>4, <3>1 DEF CheckStep, control
    <3>3. check # None
      BY <1>4 DEF CheckStep
    <3>4. storing = {} /\ \A i \in DOMAIN m_filters :
                            i < check.next => <<m_filters[i], check.host>> \notin Matching
      BY <2>4, <3>3 DEF Searched
    <3>5. \A i \in DOMAIN m_filters :
            i < check.next + 1 => <<m_filters[i], check.host>> \notin Matching
      <4>1. \A i \in DOMAIN m_filters : i < check.next + 1 => i < check.next \/ i = check.next
        BY <3>1 DEF Lists
      <4> QED
        BY <2>4, <3>4, <4>1
    <3>6. Searched'
      BY <2>0, <3>1, <3>4, <3>5 DEF Searched
    <3> QED
      BY <1>1, <1>2, <3>2, <3>6
  <2> QED
    BY <1>4, <2>2, <2>3, <2>4 DEF CheckStep, Decides
<1> QED
  BY <1>1, <1>2, <1>3, <1>4

\* The invariant holds in every reachable state.
THEOREM Invariance ==
  Spec => []IInv
<1>1. Init => IInv
  BY InitInv
<1>2. IInv /\ [Next]_vars => IInv'
  <2> SUFFICES ASSUME IInv, [Next]_vars PROVE IInv'
    OBVIOUS
  <2>1. CASE MainStarts \/ MainJoins \/ \E s \in Servers : ThreadRuns(s) \/ Sweep(s)
    BY <2>1, ThreadsKeep
  <2>2. ASSUME NEW c \in Clients,
               \/ Connects(c) \/ StopWritten(c) \/ SessionFails(c) \/ SessionRejects(c)
               \/ \E r \in Requests : HandleBodies(c, r) \/ HandleOther(c, r)
        PROVE  IInv'
    BY <2>2, SessionsKeep
  <2>3. ASSUME NEW c \in Clients, ReplyWritten(c) PROVE IInv'
    BY <2>3, ReplyKeeps
  <2>4. ASSUME NEW c \in Clients, FilterStored(c) PROVE IInv'
    BY <2>4, FilterStoredKeeps
  <2>5. ASSUME NEW c \in Clients, NEW r \in Requests, HandleFilter(c, r) PROVE IInv'
    BY <2>5, HandleFilterKeeps
  <2>6. CASE (\E h \in Hosts, port \in Ports : CheckBegins(h, port)) \/ CheckStep
    BY <2>6, SearchKeeps
  <2>7. CASE UNCHANGED vars
    <3>1. UNCHANGED lists
      BY <2>7 DEF vars, control, traffic, lists
    <3>2. Typed'
      BY <2>7 DEF vars, threads, control, traffic, IInv, Typed
    <3> QED
      BY <3>1, <3>2, ListsKept DEF IInv
  <2> QED
    BY <2>1, <2>2, <2>3, <2>4, <2>5, <2>6, <2>7 DEF Next
<1> QED
  BY <1>1, <1>2, PTL DEF Spec

\* The state of the process keeps its types, and set_filters runs exactly
\* while a session is in it.
THEOREM TypeCorrect ==
  Spec => []TypeOK
<1>1. IInv => TypeOK
  <2> SUFFICES ASSUME IInv PROVE TypeOK
    OBVIOUS
  <2>1. \A c \in Clients : session[c].at \in {"none", "reading", "storing", "writing"}
    BY DEF IInv, Typed, Sessions
  <2>2. (storing # {}) <=> \E c \in Clients : session[c].at = "storing"
    BY DEF IInv, Storing
  <2> QED
    BY <2>1, <2>2 DEF IInv, Typed, TypeOK, Lists
<1> QED
  BY <1>1, Invariance, PTL

\* What the tool's filter_remove takes out of a list is the filter that has
\* the number in it, for a number that fits an int.
LEMMA RemovesTheNumber ==
  ASSUME NEW s \in Lists, NEW r \in Requests, r.cmd = "filter_remove",
         r.index \in 0..(IntSpan \div 2) - 1
  PROVE  Edited(s, r) = WithoutNumber(s, r.index)
<1>1. r.index \in Nat
  BY ProxyAssumption DEF Requests
<1>2. PICK n \in Nat : n = r.index
  BY <1>1
<1>3. Atoi(n) = n
  BY <1>2, AtoiFits
<1>4. Len(s) \in Nat
  BY DEF Lists
<1>5. CASE n < Len(s)
  <2>1. n \in 0..Len(s) - 1
    BY <1>4, <1>5
  <2>2. Edited(s, r) = RemoveAt(s, n + 1)
    BY <1>2, <1>3, <2>1 DEF Edited
  <2>3. n + 1 - 1 = n /\ n + 1 + 1 = n + 2 /\ ~(n >= Len(s))
    BY <1>4, <1>5
  <2>4. RemoveAt(s, n + 1) = SubSeq(s, 1, n) \o SubSeq(s, n + 2, Len(s))
    <3>1. PICK k \in Nat : k = n + 1
      OBVIOUS
    <3>2. k - 1 = n /\ k + 1 = n + 2
      BY <3>1
    <3>3. RemoveAt(s, k) = SubSeq(s, 1, k - 1) \o SubSeq(s, k + 1, Len(s))
      BY DEF RemoveAt
    <3>4. RemoveAt(s, k) = SubSeq(s, 1, n) \o SubSeq(s, n + 2, Len(s))
      BY <3>2, <3>3, Zenon
    <3> QED
      BY <3>1, <3>4, Zenon
  <2> QED
    BY <1>2, <2>2, <2>3, <2>4 DEF WithoutNumber
<1>6. CASE ~(n < Len(s))
  <2>1. n \notin 0..Len(s) - 1 /\ n >= Len(s)
    BY <1>4, <1>6
  <2> QED
    BY <1>2, <1>3, <2>1 DEF Edited, WithoutNumber
<1> QED
  BY <1>5, <1>6

\* A user who saw the list and removes a filter by its number, nobody having
\* edited in between, removes the filter the tool displayed with that number:
\* for any number of users, any lists and any width of an int.
THEOREM EditsHold ==
  Spec => EditsAsShown
<1> DEFINE Removes(c) == session[c].req.cmd = "filter_remove"
             /\ session[c].req.index \in 0..(IntSpan \div 2) - 1
<1>1. ASSUME IInv, [Next]_vars, NEW c \in Clients,
             session[c].at = "storing", session'[c].at = "writing",
             NEW view \in session[c].view, Removes(c)
      PROVE  m_filters' = WithoutNumber(view, session[c].req.index)
  <2>0. session \in [Clients -> Sessions] /\ m_filters \in Lists
    BY <1>1 DEF IInv, Typed
  <2>1. session[c].req \in Requests /\ storing = {Edited(m_filters, session[c].req)}
        /\ view = m_filters /\ storing # {}
    <3>1. session[c] \in [at : {"storing"}, req : Requests, view : SUBSET Lists]
      BY <1>1, <2>0 DEF Sessions
    <3> QED
      BY <1>1, <3>1 DEF IInv, Storing
  <2>2. ~Free("ctl")
    BY <2>1 DEF Free
  <2>3. session'[c].at # session[c].at
    BY <1>1
  <2>4. PICK d \in Clients : FilterStored(d)
    BY <1>1, <2>2, <2>3 DEF Next, vars, threads, control, traffic, MainStarts, MainJoins,
         ThreadRuns, Sweep, Connects, ReplyWritten, StopWritten, SessionFails,
         SessionRejects, HandleBodies, HandleOther, HandleFilter, Arrives, CheckBegins,
         CheckStep
  <2>5. m_filters' = Edited(m_filters, session[c].req)
    BY <2>1, <2>4 DEF FilterStored
  <2> QED
    BY <1>1, <2>0, <2>1, <2>5, RemovesTheNumber
<1>2. IInv /\ [Next]_vars =>
        [\A c \in Clients :
           session[c].at = "storing" /\ session'[c].at = "writing" =>
             \A view \in session[c].view :
               session[c].req.cmd = "filter_remove"
                 /\ session[c].req.index \in 0..(IntSpan \div 2) - 1 =>
                   m_filters' = WithoutNumber(view, session[c].req.index)]_vars
  BY <1>1
<1> QED
  BY <1>2, Invariance, PTL DEF Spec, EditsAsShown

\* A search that no set_filters disturbs intercepts the CONNECT exactly when
\* some filter of the list in force matches its host: for any list.
THEOREM InterceptsHold ==
  Spec => InterceptsAsFiltered
<1>1. ASSUME IInv, [Next]_vars, check # None, check' = None, ~check.torn
      PROVE  intercepted' <=> \E i \in DOMAIN m_filters :
                                <<m_filters[i], check.host>> \in Matching
  <2>1. check \in Checks /\ storing = {} /\ m_filters \in Lists
        /\ \A i \in DOMAIN m_filters :
             i < check.next => <<m_filters[i], check.host>> \notin Matching
    BY <1>1 DEF IInv, Typed, Searched
  <2>2. ~Free("mitm") /\ check' # check
    BY <1>1 DEF Free
  <2>3. \A c \in Clients, r \in Requests : ~HandleFilter(c, r)
    <3>1. ASSUME NEW c \in Clients, NEW r \in Requests, HandleFilter(c, r) PROVE FALSE
      <4>1. check' = [check EXCEPT !.torn = TRUE]
        BY <1>1, <3>1 DEF HandleFilter
      <4>2. check' \in Checks
        BY <2>1, <4>1 DEF Checks
      <4> QED
        BY <1>1, <4>2, CheckSome
    <3> QED
      BY <3>1
  <2>4. CheckStep
    BY <1>1, <2>2, <2>3 DEF Next, vars, threads, control, traffic, MainStarts, MainJoins,
         ThreadRuns, Sweep, Connects, ReplyWritten, StopWritten, SessionFails,
         SessionRejects, HandleBodies, HandleOther, FilterStored, CheckBegins
  <2>5. check.next \in Nat \ {0} /\ DOMAIN m_filters = 1..Len(m_filters) /\ Len(m_filters) \in Nat
    BY <2>1 DEF Checks, Lists
  <2>6. CASE check.next > Len(m_filters)
    <3>1. intercepted' = FALSE
      BY <1>1, <2>4, <2>5, <2>6 DEF CheckStep, Decides
    <3>2. \A i \in DOMAIN m_filters : i < check.next
      BY <2>5, <2>6
    <3> QED
      BY <2>1, <3>1, <3>2
  <2>7. CASE check.next <= Len(m_filters)
    <3>1. check.next \in DOMAIN m_filters
      BY <2>5, <2>7
    <3>2. check' # [check EXCEPT !.next = @ + 1]
      <4>1. [check EXCEPT !.next = @ + 1] \in Checks
        BY <2>1, <2>5 DEF Checks
      <4> QED
        BY <1>1, <4>1, CheckSome
    <3>3. intercepted' = TRUE /\ <<m_filters[check.next], check.host>> \in Matching
      BY <1>1, <2>2, <2>4, <2>5, <2>7, <3>2 DEF CheckStep, Decides
    <3> QED
      BY <3>1, <3>3
  <2> QED
    BY <2>5, <2>6, <2>7
<1>2. IInv /\ [Next]_vars =>
        [check # None /\ check' = None /\ ~check.torn =>
           (intercepted' <=> \E i \in DOMAIN m_filters :
                               <<m_filters[i], check.host>> \in Matching)]_vars
  BY <1>1
<1> QED
  BY <1>2, Invariance, PTL DEF Spec, InterceptsAsFiltered
=============================================================================
