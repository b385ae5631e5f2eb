---------------------------- MODULE Connection ----------------------------
(***************************************************************************)
(* marvin/connection: one Connection and the Timeout it owns, from         *)
(* async_connect (or an accepted socket) through a series of timed reads,  *)
(* with an untimed write in flight beside them.                            *)
(*                                                                         *)
(* One io thread takes handlers in the order in which they became ready    *)
(* (queue): Timeout is written for exactly that ("uses no locking").  The  *)
(* socket, the timer and the resolver complete whenever they like, and the *)
(* peer may stay silent for ever.  The user is any component of the proxy: *)
(* it has one read and one write outstanding at most and gives up after an *)
(* error.  It closes the connection, or lets it go, when nothing of its    *)
(* own is outstanding; what Timeout or the queue still hold it cannot see. *)
(*                                                                         *)
(* Every timed operation (a connection attempt or a read) has a number,    *)
(* the value of op when it started.                                        *)
(***************************************************************************)
EXTENDS Naturals, Sequences, FiniteSets

CONSTANTS
  MaxEndpoints,     \* bound: addresses a name can resolve to
  MaxReads,         \* bound: reads the user starts
  MaxWrites         \* bound: writes the user starts

ASSUME BoundsAssumption ==
  MaxEndpoints \in Nat \ {0} /\ MaxReads \in Nat /\ MaxWrites \in Nat

VARIABLES
  queue,            \* ready handlers of m_io
  phase,            \* how far the connection has got
  secure,           \* m_mode # NOTSECURE
  iter,             \* endpoints left in the resolver's iterator
  op,               \* number of the latest timed operation
  pending,          \* timed operations the socket is performing
  handshake,        \* the SSL handshake is being performed
  writing,          \* the socket is performing a write
  waiting,          \* m_timer has an async_wait outstanding
  m_active,         \* Timeout::m_active, not initialised by its constructor
  m_expire,         \* number of the operation m_expire_handler aborts, or 0
  m_cancel,         \* <<operation, result>> in m_cancel_handler, or <<0, "ok">>
  done,             \* operations whose outcome was acted upon
  ends,             \* connect callbacks run for the current async_connect or async_handshake
  reads, writes     \* reads and writes the user started

resolution == <<phase, secure, iter>>
socket     == <<pending, handshake, writing>>
timeout    == <<waiting, m_active, m_expire, m_cancel>>
user       == <<ends, reads, writes>>
vars       == <<queue, resolution, op, socket, timeout, done, user>>

MaxOps == MaxEndpoints + MaxReads
NoHandler == <<0, "ok">>

\* The handlers that can be ready.  "io" is the completion of a timed
\* operation, "timer" is p_handle_timeout, "expire" and "cancel" are what
\* Timeout posted, "sized" is the wrapper async_read puts around the callback
\* of a ContigBuffer read, "callback" the user's read callback.
Tokens == {"io", "timer", "expire", "cancel", "sized", "callback", "resolved",
           "handshaken", "connected", "written", "writeCallback"}
            \X (0..MaxOps) \X {"ok", "err", "aborted"}

Phases == {"new", "accepted", "resolving", "resolved", "connecting",
            "handshaking", "open", "failed", "closed", "destroyed"}

TypeOK ==
  /\ queue \in Seq(Tokens)
  /\ phase \in Phases
  /\ secure \in BOOLEAN /\ handshake \in BOOLEAN /\ writing \in BOOLEAN
  /\ iter \in 0..MaxEndpoints
  /\ op \in 0..MaxOps /\ m_expire \in 0..MaxOps
  /\ pending \subseteq 1..op /\ done \subseteq 1..op
  /\ waiting \in BOOLEAN /\ m_active \in BOOLEAN
  /\ m_cancel \in (0..MaxOps) \X {"ok", "err", "aborted"}
  /\ ends \in Nat
  /\ reads \in 0..MaxReads /\ writes \in 0..MaxWrites

\* A client connection before async_connect, or a socket just accepted.
Init ==
  /\ queue = <<>>
  /\ \/ phase = "new" /\ secure \in BOOLEAN
     \/ phase = "accepted" /\ secure = FALSE
  /\ iter = 0
  /\ op = 0
  /\ pending = {} /\ handshake = FALSE /\ writing = FALSE
  /\ waiting = FALSE
  /\ m_active \in BOOLEAN
  /\ m_expire = 0
  /\ m_cancel = NoHandler
  /\ done = {}
  /\ ends = 0 /\ reads = 0 /\ writes = 0

AtHead(name) == queue # <<>> /\ Head(queue)[1] = name
HeadOp  == Head(queue)[2]
HeadRes == Head(queue)[3]

-----------------------------------------------------------------------------
(* Timeout.  Each operator is a whole method; what it adds to the queue     *)
(* comes after rest, the handlers that stay in it.                          *)

\* expires_from_now and cancel abort an outstanding wait.
AbortedWait == IF waiting THEN <<<<"timer", 0, "aborted">>>> ELSE <<>>

\* Mutation: async_wait is forgotten.
SetTimeout_NoWait(n, rest) ==
  /\ m_expire' = n
  /\ m_cancel' = NoHandler
  /\ m_active' = TRUE
  /\ queue' = rest
  /\ UNCHANGED waiting

\* set_timeout, for operation n.
SetTimeout(n, rest) ==
  /\ m_expire' = n
  /\ m_cancel' = NoHandler
  /\ m_active' = TRUE
  /\ waiting' = TRUE
  /\ queue' = rest \o AbortedWait

\* Mutation: the handler is posted at once, whether or not the timer runs.
CancelTimeout_Early(n, res) ==
  /\ waiting' = FALSE
  /\ m_expire' = 0
  /\ m_cancel' = <<n, res>>
  /\ queue' = Tail(queue) \o AbortedWait \o <<<<"cancel", n, res>>>>
  /\ UNCHANGED m_active

\* Mutation: the deadline is left running.
CancelTimeout_LeavesTimer(n, res) ==
  /\ queue' = Append(Tail(queue), <<"cancel", n, res>>)
  /\ UNCHANGED timeout

\* cancel_timeout, from the completion of operation n: the handler waits for
\* p_handle_timeout while the timer is active, and is posted at once otherwise.
CancelTimeout(n, res) ==
  /\ waiting' = FALSE
  /\ IF m_active
       THEN /\ m_cancel' = <<n, res>>
            /\ m_expire' = 0
            /\ queue' = Tail(queue) \o AbortedWait
       ELSE /\ m_cancel' = NoHandler
            /\ queue' = Tail(queue) \o AbortedWait \o <<<<"cancel", n, res>>>>
            /\ UNCHANGED m_expire
  /\ UNCHANGED m_active

\* p_handle_timeout(operation_aborted): the stored handler is posted.
HandleTimeoutAborted ==
  /\ AtHead("timer") /\ HeadRes = "aborted"
  /\ m_active' = FALSE
  /\ m_cancel' = NoHandler
  /\ queue' = Append(Tail(queue), <<"cancel", m_cancel[1], m_cancel[2]>>)
  /\ UNCHANGED <<resolution, op, socket, waiting, m_expire, done, user>>

\* Mutation: m_expire_handler is not cleared.
HandleTimeoutExpired_KeepsExpire ==
  /\ AtHead("timer") /\ HeadRes = "ok"
  /\ m_expire # 0
  /\ m_active' = FALSE
  /\ queue' = Append(Tail(queue), <<"expire", m_expire, "ok">>)
  /\ UNCHANGED <<resolution, op, socket, waiting, m_expire, m_cancel, done, user>>

\* p_handle_timeout without error: the expire handler is posted.
HandleTimeoutExpired ==
  /\ AtHead("timer") /\ HeadRes = "ok"
  /\ m_expire # 0
  /\ m_active' = FALSE
  /\ m_expire' = 0
  /\ queue' = Append(Tail(queue), <<"expire", m_expire, "ok">>)
  /\ UNCHANGED <<resolution, op, socket, waiting, m_cancel, done, user>>

\* p_handle_timeout without error and without an expire handler ("this is a
\* hack"): it returns, m_active and m_cancel_handler stay as they are.
HandleTimeoutLate ==
  /\ AtHead("timer") /\ HeadRes = "ok"
  /\ m_expire = 0
  /\ queue' = Tail(queue)
  /\ UNCHANGED <<resolution, op, socket, timeout, done, user>>

\* The deadline passes.
TimerExpires ==
  /\ waiting
  /\ waiting' = FALSE
  /\ queue' = Append(queue, <<"timer", 0, "ok">>)
  /\ UNCHANGED <<resolution, op, socket, m_active, m_expire, m_cancel, done, user>>

-----------------------------------------------------------------------------
(* The socket and the resolver.                                             *)

SocketCompletes ==
  \E n \in pending, res \in {"ok", "err"} :
    /\ pending' = pending \ {n}
    /\ queue' = Append(queue, <<"io", n, res>>)
    /\ UNCHANGED <<resolution, op, handshake, writing, timeout, done, user>>

WriteCompletes ==
  \E res \in {"ok", "err"} :
    /\ writing
    /\ writing' = FALSE
    /\ queue' = Append(queue, <<"written", 0, res>>)
    /\ UNCHANGED <<resolution, op, pending, handshake, timeout, done, user>>

HandshakeCompletes ==
  \E res \in {"ok", "err"} :
    /\ handshake
    /\ handshake' = FALSE
    /\ queue' = Append(queue, <<"handshaken", 0, res>>)
    /\ UNCHANGED <<resolution, op, pending, writing, timeout, done, user>>

\* The name resolves to k addresses, or resolution fails.
Resolves ==
  \E res \in {"ok", "err"}, k \in 0..MaxEndpoints :
    /\ phase = "resolving"
    /\ phase' = "resolved"
    /\ res = "err" => k = 0
    /\ iter' = k
    /\ queue' = Append(queue, <<"resolved", 0, res>>)
    /\ UNCHANGED <<secure, op, socket, timeout, done, user>>

\* The expire handler of every timed operation is m_tcp_socket.cancel(): it
\* aborts whatever the socket is performing, the write included.
RunExpire ==
  /\ AtHead("expire")
  /\ pending' = {} /\ writing' = FALSE
  /\ queue' = Tail(queue)
               \o (IF pending # {} THEN <<<<"io", CHOOSE n \in pending : TRUE, "aborted">>>> ELSE <<>>)
               \o (IF writing THEN <<<<"written", 0, "aborted">>>> ELSE <<>>)
  /\ UNCHANGED <<resolution, op, handshake, timeout, done, user>>

-----------------------------------------------------------------------------
(* Connecting.                                                              *)

AsyncConnect ==
  /\ phase = "new"
  /\ phase' = "resolving"
  /\ UNCHANGED <<queue, secure, iter, op, socket, timeout, done, user>>

\* set_timeout, then async_connect to the iterator's endpoint.
TryEndpoint(rest) ==
  /\ iter > 0
  /\ iter' = iter - 1
  /\ op' = op + 1
  /\ pending' = pending \cup {op + 1}
  /\ SetTimeout(op + 1, rest)
  /\ phase' = "connecting"
  /\ UNCHANGED <<secure, handshake, writing>>

\* p_post_connect_cb.
PostConnectCb(res) == queue' = Append(Tail(queue), <<"connected", 0, res>>)

HandleResolve ==
  /\ AtHead("resolved")
  /\ \/ /\ HeadRes = "ok" /\ TryEndpoint(Tail(queue))
     \/ /\ HeadRes = "err" \/ iter = 0
        /\ PostConnectCb("err")
        /\ UNCHANGED <<resolution, op, socket, timeout>>
  /\ UNCHANGED <<done, user>>

\* The completion of any timed operation calls cancel_timeout first.
HandleIo ==
  /\ AtHead("io")
  /\ CancelTimeout(HeadOp, HeadRes)
  /\ UNCHANGED <<resolution, op, socket, done, user>>

ConnectCancelled == AtHead("cancel") /\ phase = "connecting"

StartHandshake == handshake' = TRUE /\ phase' = "handshaking"

\* Mutation: the handshake starts and the callback is posted as well.
HandleConnectOk_PostsAnyway ==
  /\ ConnectCancelled /\ HeadRes = "ok"
  /\ done' = done \cup {HeadOp}
  /\ PostConnectCb("ok")
  /\ IF secure THEN StartHandshake ELSE UNCHANGED <<phase, handshake>>
  /\ UNCHANGED <<secure, iter, op, pending, writing, timeout, user>>

\* p_handle_connect, reached through the cancel handler: connected.
HandleConnectOk ==
  /\ ConnectCancelled /\ HeadRes = "ok"
  /\ done' = done \cup {HeadOp}
  /\ \/ /\ ~secure
        /\ PostConnectCb("ok")
        /\ UNCHANGED <<phase, handshake>>
     \/ /\ secure
        /\ StartHandshake
        /\ queue' = Tail(queue)
  /\ UNCHANGED <<secure, iter, op, pending, writing, timeout, user>>

\* Mutation: the error of the last endpoint is dropped.
HandleConnectErr_Silent ==
  /\ ConnectCancelled /\ HeadRes # "ok"
  /\ done' = done \cup {HeadOp}
  /\ \/ TryEndpoint(Tail(queue))
     \/ /\ iter = 0
        /\ queue' = Tail(queue)
        /\ UNCHANGED <<resolution, op, socket, timeout>>
  /\ UNCHANGED user

\* p_handle_connect: this endpoint failed or timed out; the next one is tried.
HandleConnectErr ==
  /\ ConnectCancelled /\ HeadRes # "ok"
  /\ done' = done \cup {HeadOp}
  /\ \/ TryEndpoint(Tail(queue))
     \/ /\ iter = 0
        /\ PostConnectCb("err")
        /\ UNCHANGED <<resolution, op, socket, timeout>>
  /\ UNCHANGED user

HandleHandshake ==
  /\ AtHead("handshaken")
  /\ PostConnectCb(HeadRes)
  /\ UNCHANGED <<resolution, op, socket, timeout, done, user>>

\* The callback given to async_connect or async_handshake runs.
ConnectCallback ==
  /\ AtHead("connected")
  /\ ends' = ends + 1
  /\ phase' = IF HeadRes = "ok" THEN "open" ELSE "failed"
  /\ queue' = Tail(queue)
  /\ UNCHANGED <<secure, iter, op, socket, timeout, done, reads, writes>>

-----------------------------------------------------------------------------
(* Reading, writing and securing an accepted socket.                        *)

Usable == phase \in {"accepted", "open"}

\* The user has no read outstanding: all operations were acted upon.
Quiet == done = 1..op

\* The user has no write outstanding.
NoWrite == ~writing /\ ~ \E i \in DOMAIN queue : queue[i][1] \in {"written", "writeCallback"}

\* async_handshake, after become_secure_server on an accepted socket.
AsyncHandshake ==
  /\ phase = "accepted" /\ Quiet /\ NoWrite
  /\ secure' = TRUE
  /\ StartHandshake
  /\ UNCHANGED <<queue, iter, op, pending, writing, timeout, done, user>>

AsyncRead ==
  /\ Usable /\ Quiet
  /\ reads < MaxReads
  /\ reads' = reads + 1
  /\ op' = op + 1
  /\ pending' = pending \cup {op + 1}
  /\ SetTimeout(op + 1, queue)
  /\ UNCHANGED <<resolution, handshake, writing, done, ends, writes>>

\* The read's cancel handler: p_post_read_cb, of the user's callback or of
\* the wrapper that stores the size in a ContigBuffer first.
PostReadCb ==
  /\ AtHead("cancel") /\ phase # "connecting"
  /\ \E name \in {"sized", "callback"} :
       queue' = Append(Tail(queue), <<name, HeadOp, HeadRes>>)
  /\ UNCHANGED <<resolution, op, socket, timeout, done, user>>

SetSize ==
  /\ AtHead("sized")
  /\ queue' = Append(Tail(queue), <<"callback", HeadOp, HeadRes>>)
  /\ UNCHANGED <<resolution, op, socket, timeout, done, user>>

\* The read callback runs; after an error the user gives the connection up.
ReadCallback ==
  /\ AtHead("callback")
  /\ done' = done \cup {HeadOp}
  /\ phase' = IF HeadRes = "ok" THEN phase ELSE "failed"
  /\ queue' = Tail(queue)
  /\ UNCHANGED <<secure, iter, op, socket, timeout, user>>

\* async_write in all its forms: no timeout.
AsyncWrite ==
  /\ Usable /\ NoWrite
  /\ writes < MaxWrites
  /\ writes' = writes + 1
  /\ writing' = TRUE
  /\ UNCHANGED <<queue, resolution, op, pending, handshake, timeout, done, ends, reads>>

\* The completion of a write: p_post_write_cb.
PostWriteCb ==
  /\ AtHead("written")
  /\ queue' = Append(Tail(queue), <<"writeCallback", 0, HeadRes>>)
  /\ UNCHANGED <<resolution, op, socket, timeout, done, user>>

WriteCallback ==
  /\ AtHead("writeCallback")
  /\ phase' = IF HeadRes = "ok" THEN phase ELSE "failed"
  /\ queue' = Tail(queue)
  /\ UNCHANGED <<secure, iter, op, socket, timeout, done, user>>

\* All callbacks of the user have run.
Idle == Quiet /\ NoWrite /\ phase \in {"accepted", "open", "failed"}

\* close(), called once, on a socket that was opened.
Close ==
  /\ Idle /\ (op > 0 \/ phase = "accepted")
  /\ phase' = "closed"
  /\ UNCHANGED <<queue, secure, iter, op, socket, timeout, done, user>>

\* The last reference is dropped; the destructor closes what is still open.
Destroyed ==
  /\ Idle \/ phase \in {"new", "closed"}
  /\ phase' = "destroyed"
  /\ UNCHANGED <<queue, secure, iter, op, socket, timeout, done, user>>

-----------------------------------------------------------------------------
(* The handlers the io thread runs, and the specification.                  *)

IoStep ==
  \/ HandleTimeoutAborted \/ HandleTimeoutExpired \/ HandleTimeoutLate
  \/ RunExpire
  \/ HandleResolve \/ HandleIo \/ HandleConnectOk \/ HandleConnectErr
  \/ HandleHandshake \/ ConnectCallback
  \/ PostReadCb \/ SetSize \/ ReadCallback
  \/ PostWriteCb \/ WriteCallback

Environment ==
  \/ TimerExpires \/ Resolves
  \/ SocketCompletes \/ WriteCompletes \/ HandshakeCompletes
  \/ AsyncConnect \/ AsyncHandshake \/ AsyncRead \/ AsyncWrite
  \/ Close \/ Destroyed

Next == IoStep \/ Environment

\* The io thread runs ready handlers, deadlines pass and the resolver answers.
\* The peer owes nothing: neither connect, read, write nor handshake is fair.
Fairness == WF_vars(IoStep) /\ WF_vars(TimerExpires) /\ WF_vars(Resolves)

Spec == Init /\ [][Next]_vars /\ Fairness

-----------------------------------------------------------------------------
(* Properties.                                                              *)

Count(name) == Cardinality({i \in DOMAIN queue : queue[i][1] = name})
Queued(names) == {queue[i][2] : i \in {j \in DOMAIN queue : queue[j][1] \in names}}

Stored == IF m_cancel = NoHandler THEN {} ELSE {m_cancel[1]}

\* The handlers through which the outcome of a timed operation travels.
Carriers == {"io", "cancel", "sized", "callback"}

\* An operation that was started and not yet acted upon is in exactly one
\* place: performed by the socket, in one queued handler, or in
\* m_cancel_handler.  Hence no outcome is delivered twice (async_read,
\* p_handle_resolve and p_handle_connect start one operation after another
\* on the same socket and Timeout) and none is dropped on the way.
SingleFlight ==
  /\ (1..op) \ done = pending \cup Queued(Carriers) \cup Stored
  /\ Cardinality(pending) + Cardinality(Stored)
       + Count("io") + Count("cancel") + Count("sized") + Count("callback") <= 1

\* When the handler given to cancel_timeout runs, the I/O and the timeout are
\* both over: no wait, no timer handler and no expire handler is left that
\* could cancel the socket under a later operation (the comment in
\* async_read, "knowing that both the IO and tineout are both done").  So when
\* the user has closed the connection or let it go no handler is left that
\* would use it: cancel() on a closed socket throws.
QuietWhenDelivered ==
  /\ AtHead("cancel") => /\ ~waiting /\ m_expire = 0 /\ pending = {}
                         /\ Queued({"timer", "expire"}) = {}
  /\ phase \in {"closed", "destroyed"} =>
       queue = <<>> /\ ~waiting /\ pending = {} /\ ~handshake /\ ~writing

\* The assertions of Timeout::cancel_timeout and p_handle_timeout hold
\* whenever those functions run.
TimeoutAsserts ==
  /\ AtHead("io") /\ ~m_active => m_expire = 0
  /\ AtHead("timer") => m_active
  /\ AtHead("timer") /\ HeadRes = "aborted" => m_cancel # NoHandler

\* async_connect and async_handshake post their callback once, and only when
\* no connection attempt and no handshake is left.
ConnectOnce ==
  /\ ends + Count("connected") + Count("handshaken") <= 1
  /\ ends = 1 \/ Count("connected") = 1 =>
       ~handshake /\ (phase = "connecting" => Quiet)

\* cancel_timeout was called after the timer's handler had been queued for
\* expiry: p_handle_timeout returned early and the stored handler stays.
Lost == m_cancel # NoHandler /\ ~waiting /\ Count("timer") = 0

\* A timed operation ends although the peer never answers: the timer expires,
\* the socket is cancelled and the callback runs, unless expiry and completion
\* meet in the queue (Lost).
OperationEnds ==
  \A n \in 1..MaxOps : (op = n /\ n \notin done) ~> (n \in done \/ Lost)

\* async_connect ends in its callback whatever the addresses do; only a
\* handshake, which has no timeout, may keep it.
ConnectEnds ==
  phase = "resolving" ~> (ends = 1 \/ handshake \/ Lost)

\* What timeout.hpp says of cancel_timeout: it "calls/posts the cancel_handler
\* when the internal timeout handler is finally called", so a stored handler
\* still has a call of p_handle_timeout to wait for.
CancelHandlerPosted == ~Lost
=============================================================================
