------------------------------ MODULE Request ------------------------------
(***************************************************************************)
(* marvin/client: class Request, an http client object that is told the    *)
(* parts of a request one call at a time.                                  *)
(*                                                                         *)
(* Two facts of the code shape every behaviour.  m_is_connected is set by  *)
(* the constructors and nowhere else: a Request made from a server name    *)
(* connects again for every call.  m_headers_written is set by the calls   *)
(* that write headers and by none that writes a whole message.  And the    *)
(* writer serialises its own m_current_message, not the message it is      *)
(* given: that is null until a whole message was written.                  *)
(*                                                                         *)
(* The application calls one operation, waits until all it started is      *)
(* over, and calls the next.  An exception, an assert, a null pointer and  *)
(* an unbounded recursion all end the process.  A reader that is left with *)
(* bytes it rejects, or that follow the response, calls back again and     *)
(* again (p_parse_some in MessageReader): that read is never over.         *)
(***************************************************************************)
EXTENDS Naturals, Sequences, FiniteSets

CONSTANTS
  MaxCalls,   \* bound: operations the application calls
  MaxWrites,  \* bound: writes under way for one call
  MaxAnswers  \* bound: answers counted for one call whose reader's loop turns

VARIABLES
  req,        \* the members of the object, and the socket it stands on
  handlers,   \* which of the four response handlers are set
  pending,    \* asynchronous operations under way
  calls,      \* the kinds of the operations called so far
  answers,    \* ghost: how often each call was answered
  ended       \* why the process ended, or "no"

request == <<req, handlers, pending, calls, answers, ended>>

\* Constructors from a server name and from a connection (the third, from a
\* Uri, asserts FALSE).  framing is the header of m_current_request that gives
\* the length of its body; joined is the environment's: the socket is connected.
Request(conn) ==
  [m_conn_shared_ptr |-> TRUE, m_wrtr |-> TRUE, m_current_message |-> FALSE,
   m_is_connected |-> conn, m_headers_written |-> FALSE,
   framing |-> "none", joined |-> conn]

Init ==
  /\ req \in {Request(conn) : conn \in BOOLEAN}
  /\ handlers = {} /\ pending = {} /\ calls = <<>>
  /\ answers = [c \in 1..MaxCalls |-> 0] /\ ended = "no"

-----------------------------------------------------------------------------
(* The tails of calls and callbacks.  over holds the operation whose callback *)
(* it is, if any; r is the object so far.                                     *)

Ends(why) == ended' = why /\ pending' = {} /\ UNCHANGED req

Starts(over, started, r) ==
  /\ pending' = (pending \ over) \cup started /\ req' = r /\ UNCHANGED ended

Writes(c) == Cardinality({p \in pending : p.call = c /\ p.op = "write"})

Operation(op, c, then) == [op |-> op, call |-> c, then |-> then, nth |-> Writes(c)]

\* p_prep_write_complete_headers() throws otherwise.
Framed(r) == r.framing \in {"length", "chunked"}

\* asyncConnect(): a connect whose callback goes on with then.
connect(over, c, then, r) ==
  IF r.m_conn_shared_ptr
  THEN Starts(over, {Operation("connect", c, then)}, r)
  ELSE Ends("null pointer")

\* A write of the whole message by m_wrtr, which remembers the message.
write(over, c, then, r) ==
  IF r.m_wrtr
  THEN Starts(over, {Operation("write", c, then)}, [r EXCEPT !.m_current_message = TRUE])
  ELSE Ends("null pointer")

\* MessageWriter::async_write_headers().
write_headers(over, c, started, r) ==
  IF r.m_wrtr /\ r.m_current_message
  THEN Starts(over, started \cup {Operation("write", c, "headers")}, r)
  ELSE Ends("null pointer")

\* p_hbc_write(): it writes the headers, and not the chunk of the body.
hbc_write(over, c, r) ==
  IF r.m_headers_written THEN Ends("assert")
  ELSE IF ~Framed(r) THEN Ends("exception")
  ELSE write_headers(over, c, {}, r)

\* p_msg_write(): p_set_content_length() comes first.
msg_write(over, c, r) == write(over, c, "message", [r EXCEPT !.framing = "length"])

\* p_internal_write_headers() checks the connection again, as its caller did.
\* Connected, the two call each other for ever; otherwise it connects once
\* more and writes at the same time.
internal_write_headers(over, c, r) ==
  IF r.m_headers_written THEN Ends("assert")
  ELSE IF ~Framed(r) THEN Ends("exception")
  ELSE IF r.m_is_connected THEN Ends("recursion")
  ELSE IF ~r.m_conn_shared_ptr THEN Ends("null pointer")
  ELSE /\ Writes(c) < MaxWrites
       /\ write_headers(over, c, {Operation("connect", c, "write_headers")}, r)

-----------------------------------------------------------------------------
(* The operations.                                                          *)

Quiet == ended = "no" /\ pending = {}

Call(kind) ==
  /\ Quiet /\ Len(calls) < MaxCalls
  /\ calls' = Append(calls, kind)
  /\ UNCHANGED <<handlers, answers>>

This == Len(calls) + 1

\* asyncConnect().
asyncConnect == Call("connect") /\ connect({}, This, "answer", req)

\* asyncWriteBodyData(), whose three overloads differ in how they are given
\* the bytes.  The call after the one that wrote the headers does nothing.
asyncWriteBodyData ==
  /\ Call("body")
  /\ IF req.m_headers_written THEN Starts({}, {}, req)
     ELSE IF ~Framed(req) THEN Ends("exception")
     ELSE IF req.m_is_connected THEN hbc_write({}, This, req)
     ELSE connect({}, This, "hbc_write", req)

\* asyncWriteLastBodyData() of a string: the whole message and its response.
asyncWriteLastBodyData ==
  /\ Call("last")
  /\ IF req.m_headers_written THEN Starts({}, {}, req)
     ELSE IF req.m_is_connected THEN msg_write({}, This, req)
     ELSE connect({}, This, "msg_write", req)

\* asyncWriteLastBodyData() of a buffer or a chain: it neither connects nor
\* reads the response.
asyncWriteLastBodyBuffer ==
  /\ Call("last")
  /\ IF req.m_headers_written THEN Starts({}, {}, req) ELSE write({}, This, "answer", req)

asyncWriteHeaders ==
  /\ Call("headers")
  /\ IF req.m_is_connected
     THEN internal_write_headers({}, This, req)
     ELSE connect({}, This, "write_headers", req)

\* asyncWriteTrailers(): the writer's function is empty and never calls back,
\* so that m_trailers_written stays false.
asyncWriteTrailers == Call("trailers") /\ Starts({}, {}, req)

\* header(key, value), as far as it says how long the body is.  Every setter
\* of the message calls p_test_good_to_go().
header(value) ==
  /\ Quiet /\ req.framing # value
  /\ IF req.m_conn_shared_ptr
     THEN Starts({}, {}, [req EXCEPT !.framing = value])
     ELSE Ends("exception")
  /\ UNCHANGED <<handlers, calls, answers>>

\* setOnResponse, setOnHeaders, setOnData, setOnError.
setOn(h) ==
  /\ Quiet /\ h \notin handlers /\ handlers' = handlers \cup {h}
  /\ UNCHANGED <<req, pending, calls, answers, ended>>

close ==
  /\ Quiet
  /\ IF req.m_conn_shared_ptr
     THEN Starts({}, {}, [req EXCEPT !.m_conn_shared_ptr = FALSE, !.m_wrtr = FALSE, !.joined = FALSE])
     ELSE Ends("null pointer")
  /\ UNCHANGED <<handlers, calls, answers>>

-----------------------------------------------------------------------------
(* The callbacks of p, which ended with success or with an error.           *)

Told(p) == answers' = [answers EXCEPT ![p.call] = @ + 1]

Answered(p, r) == Told(p) /\ Starts({p}, {}, r)

Continues == UNCHANGED answers

\* A failure resets the pointer to the connection; the calls that write
\* headers then call m_response_handler, which nothing sets.
ConnectDone(p, ok) ==
  LET r == [req EXCEPT !.joined = ok, !.m_conn_shared_ptr = @ /\ ok] IN
  /\ p.op = "connect"
  /\ CASE p.then = "answer"                -> Answered(p, r)
       [] p.then = "msg_write" /\ ~ok      -> Answered(p, r)
       [] p.then = "msg_write" /\ ok       -> Continues /\ msg_write({p}, p.call, r)
       [] p.then = "hbc_write" /\ ok       -> Continues /\ hbc_write({p}, p.call, r)
       [] p.then = "write_headers" /\ ok   -> Continues /\ internal_write_headers({p}, p.call, r)
       [] OTHER                            -> Continues /\ Ends("exception")

\* Fault: the caller hears of the write as well, and then of the response.
WriteDone_Both(p, ok) ==
  /\ p.op = "write" /\ (ok => req.joined)
  /\ CASE p.then = "headers"  -> Answered(p, [req EXCEPT !.m_headers_written = TRUE])
       [] p.then = "message" /\ ok ->
            Told(p) /\ Starts({p}, {[p EXCEPT !.op = "read"]}, req)
       [] OTHER -> Answered(p, req)

\* A whole message is followed by its response: its caller hears of an error
\* of the write only.
WriteDone(p, ok) ==
  /\ p.op = "write" /\ (ok => req.joined)
  /\ CASE p.then = "headers"  -> Answered(p, [req EXCEPT !.m_headers_written = TRUE])
       [] p.then = "message" /\ ok ->
            Continues /\ Starts({p}, {[p EXCEPT !.op = "read"]}, req)
       [] OTHER -> Answered(p, req)

\* The handlers the response needs: each of p_resp_on_error, p_resp_on_headers,
\* p_resp_on_data and p_resp_on_complete throws if its own is not set.
Needed(ok) == IF ok THEN {"headers", "data", "complete"} ELSE {"error"}

\* The response is there, or an error; bytes may be left in the buffer.
ReadDone(p, ok) ==
  /\ p.op = "read"
  /\ IF ~(Needed(ok) \subseteq handlers) THEN Continues /\ Ends("exception")
     ELSE Told(p) /\ \E left \in {{}, {[p EXCEPT !.op = "turn"]}} : Starts({p}, left, req)

\* The reader calls back with the same again.
ReadAgain(p) ==
  /\ p.op = "turn" /\ answers[p.call] < MaxAnswers
  /\ Told(p) /\ Starts({}, {}, req)

Done ==
  \E p \in pending :
    /\ ReadAgain(p) \/ \E ok \in BOOLEAN : ConnectDone(p, ok) \/ WriteDone(p, ok) \/ ReadDone(p, ok)
    /\ UNCHANGED <<handlers, calls>>

Next ==
  \/ asyncConnect \/ asyncWriteBodyData \/ asyncWriteLastBodyData \/ asyncWriteLastBodyBuffer
  \/ asyncWriteHeaders \/ asyncWriteTrailers \/ close
  \/ \E value \in {"length", "chunked", "other"} : header(value)
  \/ \E h \in {"error", "headers", "data", "complete"} : setOn(h)
  \/ Done

-----------------------------------------------------------------------------
(* Properties.                                                              *)

\* Every call that is over was answered exactly once, by its own callback or by
\* the handlers of the response, and no other is answered twice while it is under
\* way than one whose reader's loop will never let it be over; the exceptions are asyncWriteHeaders, which may
\* write the headers several times and report each; asyncWriteTrailers, which
\* does nothing; and any call that sends body data after a call that wrote
\* headers was answered: it is dropped without a word.
AnsweredOnce ==
  \A c \in DOMAIN calls :
    calls[c] \notin {"headers", "trailers"} =>
      /\ answers[c] <= 1 \/ \E p \in pending : p.op = "turn" /\ p.call = c
      /\ Quiet /\ answers[c] = 0 =>
           /\ calls[c] \in {"body", "last"}
           /\ \E d \in 1..(c - 1) : calls[d] \in {"body", "headers"} /\ answers[d] > 0

=============================================================================
