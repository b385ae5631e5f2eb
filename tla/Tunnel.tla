------------------------------- MODULE Tunnel -------------------------------
(***************************************************************************)
(* marvin/connection: TunnelHandler and its two HalfTunnels, the byte pipe *)
(* between a client and a server after a CONNECT that is not intercepted.  *)
(*                                                                         *)
(* Half h reads its read end and writes the other half's read end: the     *)
(* "up" half reads the downstream socket and writes the upstream one.  A   *)
(* read is timed (Connection); when its timeout expires the whole socket   *)
(* is cancelled, and with it the write the other half may have there.      *)
(*                                                                         *)
(* The n-th block read by a half is the number n.  A socket operation that *)
(* ended has a result until the half's handler runs.                       *)
(***************************************************************************)
EXTENDS Naturals, Sequences

CONSTANT MaxBlocks      \* bound: blocks each peer sends

ASSUME BlocksAssumption == MaxBlocks \in Nat

VARIABLES
  op,               \* per half: its socket operation, "idle" before start, or "done"
  result,           \* per half: how that operation ended, or "none"
  sent, closed,     \* per half: blocks sent by the peer at its read end; it closed
  taken,            \* per half: blocks read
  m_buffer,         \* per half: the block in m_bufferSPtr
  out,              \* per half: the blocks written, in order
  m_first_err,      \* TunnelHandler::m_first_err
  finished,         \* halves that called back, in order, with their errors
  reported          \* what m_callback was called with

socketState == <<sent, closed, taken, m_buffer, out>>
handlerState == <<m_first_err, finished, reported>>
vars == <<op, result, socketState, handlerState>>

Halves == {"up", "down"}
Other(h) == CHOOSE g \in Halves : g # h
Errors == {"eof", "reset", "aborted"}

TypeOK ==
  /\ op \in [Halves -> {"idle", "read", "write", "done"}]
  /\ result \in [Halves -> {"none", "ok"} \cup Errors]
  /\ sent \in [Halves -> 0..MaxBlocks] /\ taken \in [Halves -> 0..MaxBlocks]
  /\ closed \in [Halves -> BOOLEAN]
  /\ m_buffer \in [Halves -> 0..MaxBlocks]
  /\ out \in [Halves -> Seq(1..MaxBlocks)]
  /\ m_first_err \in {"ok"} \cup Errors
  /\ finished \in Seq(Halves \X Errors)
  /\ reported \in Seq({"ok"} \cup Errors)
  /\ \A h \in Halves : op[h] \in {"idle", "done"} => result[h] = "none"

Init ==
  /\ op = [h \in Halves |-> "idle"]
  /\ result = [h \in Halves |-> "none"]
  /\ sent = [h \in Halves |-> 0] /\ taken = [h \in Halves |-> 0]
  /\ closed = [h \in Halves |-> FALSE]
  /\ m_buffer = [h \in Halves |-> 0]
  /\ out = [h \in Halves |-> <<>>]
  /\ m_first_err = "ok"
  /\ finished = <<>> /\ reported = <<>>

-----------------------------------------------------------------------------
(* The peers and the sockets.                                               *)

PeerSends(h) ==
  /\ ~closed[h] /\ sent[h] < MaxBlocks
  /\ sent' = [sent EXCEPT ![h] = @ + 1]
  /\ UNCHANGED <<op, result, closed, taken, m_buffer, out, handlerState>>

PeerCloses(h) ==
  /\ ~closed[h]
  /\ closed' = [closed EXCEPT ![h] = TRUE]
  /\ UNCHANGED <<op, result, sent, taken, m_buffer, out, handlerState>>

Running(h, name) == op[h] = name /\ result[h] = "none"

ReadCompletes(h) ==
  /\ Running(h, "read")
  /\ \/ /\ taken[h] < sent[h]
        /\ taken' = [taken EXCEPT ![h] = @ + 1]
        /\ m_buffer' = [m_buffer EXCEPT ![h] = taken[h] + 1]
        /\ result' = [result EXCEPT ![h] = "ok"]
     \/ /\ taken[h] = sent[h] /\ closed[h]
        /\ result' = [result EXCEPT ![h] = "eof"]
        /\ UNCHANGED <<taken, m_buffer>>
  /\ UNCHANGED <<op, sent, closed, out, handlerState>>

WriteCompletes(h) ==
  /\ Running(h, "write")
  /\ \/ /\ result' = [result EXCEPT ![h] = "ok"]
        /\ out' = [out EXCEPT ![h] = Append(@, m_buffer[h])]
     \/ /\ result' = [result EXCEPT ![h] = "reset"]
        /\ UNCHANGED out
  /\ UNCHANGED <<op, sent, closed, taken, m_buffer, handlerState>>

\* The read timeout of half h expires and cancels its read end.  The read may
\* have ended while the expire handler waited to run.
ReadTimesOut(h) ==
  /\ op[h] = "read"
  /\ result' = [g \in Halves |->
       IF (g = h /\ Running(h, "read")) \/ (g = Other(h) /\ Running(g, "write"))
         THEN "aborted" ELSE result[g]]
  /\ result' # result
  /\ UNCHANGED <<op, socketState, handlerState>>

-----------------------------------------------------------------------------
(* HalfTunnel and TunnelHandler.                                            *)

\* TunnelHandler::start, each half with p_start_read.
Start ==
  /\ op = [h \in Halves |-> "idle"]
  /\ op' = [h \in Halves |-> "read"]
  /\ UNCHANGED <<result, socketState, handlerState>>

\* Mutation: the last error is kept.
FirstErr_Last(err) == err

\* The error that strikes first is the one to report.
FirstErr(err) == IF m_first_err = "ok" THEN err ELSE m_first_err

\* Mutation: one half is enough.
TryDone_Either(h, err) == reported' = Append(reported, err)

\* tryDone, when a half has just finished and m_first_err is err.
TryDone(h, err) ==
  IF op[Other(h)] = "done" THEN reported' = Append(reported, err) ELSE UNCHANGED reported

\* The callback TunnelHandler gave to half h.
HalfDone(h, err) ==
  /\ op' = [op EXCEPT ![h] = "done"]
  /\ m_first_err' = FirstErr(err)
  /\ finished' = Append(finished, <<h, err>>)
  /\ TryDone(h, FirstErr(err))

Ended(h, name) == op[h] = name /\ result[h] # "none"

\* Mutation: a failed read is tried again.
HandleRead_Retries(h) ==
  /\ Ended(h, "read")
  /\ op' = [op EXCEPT ![h] = IF result[h] = "ok" THEN "write" ELSE "read"]
  /\ result' = [result EXCEPT ![h] = "none"]
  /\ UNCHANGED <<socketState, handlerState>>

\* p_handle_read: write what was read, or finish.
HandleRead(h) ==
  /\ Ended(h, "read")
  /\ \/ /\ result[h] = "ok"
        /\ op' = [op EXCEPT ![h] = "write"]
        /\ UNCHANGED handlerState
     \/ /\ result[h] # "ok"
        /\ HalfDone(h, result[h])
  /\ result' = [result EXCEPT ![h] = "none"]
  /\ UNCHANGED socketState

\* Mutation: after an error the half reads on.
HandleWrite_IgnoresErr(h) ==
  /\ Ended(h, "write")
  /\ op' = [op EXCEPT ![h] = "read"]
  /\ result' = [result EXCEPT ![h] = "none"]
  /\ UNCHANGED <<socketState, handlerState>>

\* p_handle_write: read again, or finish.
HandleWrite(h) ==
  /\ Ended(h, "write")
  /\ \/ /\ result[h] = "ok"
        /\ op' = [op EXCEPT ![h] = "read"]
        /\ UNCHANGED handlerState
     \/ /\ result[h] # "ok"
        /\ HalfDone(h, result[h])
  /\ result' = [result EXCEPT ![h] = "none"]
  /\ UNCHANGED socketState

Handler(h) == HandleRead(h) \/ HandleWrite(h)

Next ==
  \/ Start
  \/ \E h \in Halves : \/ PeerSends(h) \/ PeerCloses(h)
                       \/ ReadCompletes(h) \/ WriteCompletes(h) \/ ReadTimesOut(h)
                       \/ HandleRead(h) \/ HandleWrite(h)

\* Handlers run and timed reads end.  A write has no timeout and its peer need
\* not read: nothing is assumed of WriteCompletes.
Fairness ==
  \A h \in Halves : WF_vars(Handler(h)) /\ WF_vars(ReadCompletes(h) \/ ReadTimesOut(h))

Spec == Init /\ [][Next]_vars /\ Fairness

-----------------------------------------------------------------------------
(* Properties.                                                              *)

\* m_callback runs at most once, and only when neither half has an operation
\* on either socket: MitmTunnel then lets the connections go.
CallbackWhenQuiet ==
  /\ Len(reported) <= 1
  /\ reported # <<>> <=> \A h \in Halves : op[h] = "done"

\* The error reported is that of the half that finished first ("the error to
\* record is the one that strikes first").
FirstErrorReported == reported # <<>> => reported[1] = finished[1][2]

\* Each direction forwards the blocks in order, without gap or repetition, and
\* while the half is alive only the block in its buffer is missing.
InOrder ==
  \A h \in Halves :
    /\ \A i \in DOMAIN out[h] : out[h][i] = i
    /\ op[h] = "read" /\ result[h] # "ok" => Len(out[h]) = taken[h]
    /\ taken[h] <= Len(out[h]) + 1

\* A write nobody will cancel: the other half reads no more.
Blocked == \E h \in Halves : Running(h, "write") /\ op[Other(h)] \in {"write", "done"}

\* A started tunnel ends, because silent peers are timed out, unless a peer
\* stops reading and the half that could time it out is finished or itself
\* stuck in a write.
TunnelEnds == op["up"] # "idle" ~> (reported # <<>> \/ []Blocked)

\* half_tunnel.hpp: a HalfTunnel "streams data until eof", so what it has read
\* is not dropped while both peers are there and reading.
StreamsUntilEof ==
  \A i \in DOMAIN finished :
    finished[i][2] = "aborted" => Len(out[finished[i][1]]) = taken[finished[i][1]]
=============================================================================
