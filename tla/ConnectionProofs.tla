-------------------------- MODULE ConnectionProofs --------------------------
(***************************************************************************)
(* Proofs about Connection and Timeout for any number of endpoints, reads  *)
(* and writes.                                                             *)
(*                                                                         *)
(* The queue is reasoned about through the handlers that are in it and the *)
(* order between two of them.                                              *)
(***************************************************************************)
EXTENDS Connection, FiniteSetTheorems, TLAPS

Timers   == {"timer", "expire"}
Connects == {"resolved", "handshaken", "connected"}
Writes   == {"written", "writeCallback"}

Ready(q) == {q[i] : i \in DOMAIN q}

\* A handler of this name is in q, or of one of these names.
Has(q, name) == \E t \in Ready(q) : t[1] = name
HasOf(names) == \E name \in names : Has(queue, name)

\* A handler named m comes before one named n.
Precedes(q, m, n) == \E i, j \in DOMAIN q : i < j /\ q[i][1] = m /\ q[j][1] = n

\* There is one handler on its way for an operation, one of the timer, one of
\* connecting; and the socket is never cancelled after a cancel handler.
Orderly(m, n) ==
  /\ ~(m \in Carriers /\ n \in Carriers)
  /\ ~(m = "timer" /\ n = "timer")
  /\ ~(m \in Connects /\ n \in Connects)
  /\ ~(m = "cancel" /\ n = "expire")

Sorted(q) == \A m, n : Precedes(q, m, n) => Orderly(m, n)
InOrder == Sorted(queue)

\* The latest timed operation has not been acted upon.
Busy == op \in Nat \ {0} /\ done = 1..(op - 1)

\* What handler t carries when n is the latest operation and c the stored
\* handler.
Carries(t, n, c) ==
  /\ t[1] \in Carriers => t[2] = n
  /\ t[1] = "timer" /\ t[3] = "aborted" => c # NoHandler

Marked == \A t \in Ready(queue) : Carries(t, op, m_cancel)

\* Where the outcome of the latest operation is.
Flight ==
  /\ Quiet \/ Busy
  /\ HasOf(Carriers \cup Timers) => Busy
  /\ Quiet => pending = {} /\ m_cancel = NoHandler /\ ~waiting /\ m_expire = 0
  /\ pending = {} \/ pending = {op}
  /\ m_cancel = NoHandler \/ m_cancel[1] = op
  /\ pending # {} => m_cancel = NoHandler /\ ~HasOf(Carriers)
  /\ m_cancel # NoHandler => ~HasOf(Carriers)
  /\ Busy => pending # {} \/ m_cancel # NoHandler \/ HasOf(Carriers)

\* What m_active says of the timer and of the handlers Timeout has posted.
Timing ==
  /\ ~m_active => m_expire = 0 /\ ~waiting
  /\ m_cancel # NoHandler => m_active /\ m_expire = 0 /\ ~waiting
  /\ Has(queue, "timer") => m_active /\ ~waiting
  /\ HasOf({"expire", "cancel", "sized", "callback"}) => ~m_active
  /\ ~(HasOf({"sized", "callback"}) /\ Has(queue, "expire"))

\* What each phase allows.
Phased ==
  /\ Has(queue, "resolved") => phase = "resolved"
  /\ Has(queue, "handshaken") => phase = "handshaking" /\ ~handshake
  /\ Has(queue, "connected") =>
       phase \in {"resolved", "connecting", "handshaking"} /\ ~handshake /\ Quiet
  /\ handshake => phase = "handshaking"
  /\ ends = 0 \/ (ends = 1 /\ phase \in {"open", "failed", "closed", "destroyed"})
  /\ Busy => phase \in {"accepted", "open", "failed", "connecting"}
  /\ phase \in {"new", "resolving"} => op = 0
  /\ HasOf({"sized", "callback"}) => phase \in {"accepted", "open", "failed"}
  /\ writing \/ HasOf(Writes) => phase \in {"accepted", "open", "failed"}
  /\ phase \in {"closed", "destroyed"} => queue = <<>>

\* Operations are started for an endpoint or for a read.
Bounded == op + iter <= MaxEndpoints + reads

\* The inductive invariant.
IInv == TypeOK /\ InOrder /\ Marked /\ Flight /\ Timing /\ Phased /\ Bounded

-----------------------------------------------------------------------------
(* The queue.                                                               *)

\* Every handler but the first is preceded by the first one.
LEMMA TailQueue ==
  ASSUME NEW q \in Seq(Tokens), q # <<>>
  PROVE  /\ Tail(q) \in Seq(Tokens)
         /\ Head(q) \in Tokens
         /\ Ready(q) = {Head(q)} \cup Ready(Tail(q))
         /\ \A u \in Ready(Tail(q)) : Precedes(q, Head(q)[1], u[1])
         /\ \A m, n : Precedes(Tail(q), m, n) => Precedes(q, m, n)
<1> DEFINE r == Tail(q)
<1>1. /\ r \in Seq(Tokens) /\ Len(q) \in Nat \ {0} /\ Len(r) = Len(q) - 1
      /\ DOMAIN q = 1..Len(q) /\ DOMAIN r = 1..Len(r)
      /\ \A i \in 1..Len(r) : i + 1 \in 1..Len(q) /\ r[i] = q[i + 1]
      /\ Head(q) = q[1] /\ Head(q) \in Tokens
  OBVIOUS
<1> HIDE DEF r
<1>2. Ready(q) = {Head(q)} \cup Ready(r)
  <2>1. ASSUME NEW i \in 1..Len(q) PROVE q[i] \in {Head(q)} \cup Ready(r)
    <3>1. CASE i = 1
      BY <1>1, <3>1
    <3>2. CASE i # 1
      <4>1. i - 1 \in 1..Len(r) /\ r[i - 1] = q[i]
        BY <1>1, <3>2
      <4> QED BY <1>1, <4>1 DEF Ready
    <3> QED BY <3>1, <3>2
  <2>2. \A i \in 1..Len(r) : r[i] \in Ready(q)
    BY <1>1 DEF Ready
  <2>3. Head(q) \in Ready(q)
    BY <1>1 DEF Ready
  <2>4. Ready(r) \subseteq Ready(q)
    BY <1>1, <2>2 DEF Ready
  <2>5. Ready(q) \subseteq {Head(q)} \cup Ready(r)
    BY <1>1, <2>1 DEF Ready
  <2> QED BY <2>3, <2>4, <2>5
<1>3. ASSUME NEW u \in Ready(r) PROVE Precedes(q, Head(q)[1], u[1])
  <2>1. PICK i \in 1..Len(r) : u = r[i]
    BY <1>1 DEF Ready
  <2>2. 1 \in DOMAIN q /\ i + 1 \in DOMAIN q /\ 1 < i + 1 /\ q[1] = Head(q) /\ q[i + 1] = u
    BY <1>1, <2>1
  <2> QED BY <2>2 DEF Precedes
<1>4. ASSUME NEW m, NEW n, Precedes(r, m, n) PROVE Precedes(q, m, n)
  <2>1. PICK i, j \in 1..Len(r) : i < j /\ r[i][1] = m /\ r[j][1] = n
    BY <1>1, <1>4 DEF Precedes
  <2>2. /\ i + 1 \in DOMAIN q /\ j + 1 \in DOMAIN q /\ i + 1 < j + 1
        /\ q[i + 1][1] = m /\ q[j + 1][1] = n
    BY <1>1, <2>1
  <2> QED BY <2>2 DEF Precedes
<1> QED BY <1>1, <1>2, <1>3, <1>4 DEF r

\* A handler that is queued comes after all the others.
LEMMA AppendQueue ==
  ASSUME NEW q \in Seq(Tokens), NEW x \in Tokens
  PROVE  /\ Append(q, x) \in Seq(Tokens)
         /\ Ready(Append(q, x)) = Ready(q) \cup {x}
         /\ \A m, n : Precedes(Append(q, x), m, n) => Precedes(q, m, n) \/ (Has(q, m) /\ n = x[1])
<1> DEFINE r == Append(q, x)
<1>1. /\ r \in Seq(Tokens) /\ Len(q) \in Nat /\ Len(r) = Len(q) + 1
      /\ DOMAIN q = 1..Len(q) /\ DOMAIN r = 1..Len(r)
      /\ \A i \in 1..Len(q) : r[i] = q[i]
      /\ r[Len(q) + 1] = x
  OBVIOUS
<1> HIDE DEF r
<1>2. Ready(r) = Ready(q) \cup {x}
  <2>1. \A i \in 1..Len(r) : r[i] \in Ready(q) \cup {x}
    BY <1>1 DEF Ready
  <2>2. \A i \in 1..Len(q) : q[i] \in Ready(r)
    BY <1>1 DEF Ready
  <2>3. x \in Ready(r)
    BY <1>1 DEF Ready
  <2>4. Ready(r) \subseteq Ready(q) \cup {x}
    BY <1>1, <2>1 DEF Ready
  <2>5. Ready(q) \subseteq Ready(r)
    BY <1>1, <2>2 DEF Ready
  <2> QED BY <2>3, <2>4, <2>5
<1>3. ASSUME NEW m, NEW n, Precedes(r, m, n)
      PROVE  Precedes(q, m, n) \/ (Has(q, m) /\ n = x[1])
  <2>1. PICK i, j \in 1..Len(r) : i < j /\ r[i][1] = m /\ r[j][1] = n
    BY <1>1, <1>3 DEF Precedes
  <2>2. i \in 1..Len(q) /\ m = q[i][1] /\ q[i] \in Ready(q)
    BY <1>1, <2>1 DEF Ready
  <2>3. CASE j \in 1..Len(q)
    <3>1. i \in DOMAIN q /\ j \in DOMAIN q /\ i < j /\ q[i][1] = m /\ q[j][1] = n
      BY <1>1, <2>1, <2>2, <2>3
    <3> QED BY <3>1 DEF Precedes
  <2>4. CASE j \notin 1..Len(q)
    <3>1. j = Len(q) + 1
      BY <1>1, <2>1, <2>4
    <3> QED BY <1>1, <2>1, <2>2, <3>1 DEF Has
  <2> QED BY <2>3, <2>4
<1> QED BY <1>1, <1>2, <1>3 DEF r

\* Queueing nothing, and queueing one handler.
LEMMA Concatenated ==
  ASSUME NEW q \in Seq(Tokens), NEW x \in Tokens
  PROVE  q \o <<>> = q /\ q \o <<x>> = Append(q, x)
  OBVIOUS

\* The first handler is taken off the queue.
LEMMA Taken ==
  ASSUME queue \in Seq(Tokens), InOrder, queue # <<>>
  PROVE  /\ Tail(queue) \in Seq(Tokens) /\ Sorted(Tail(queue))
         /\ Head(queue) \in Tokens
         /\ Ready(queue) = {Head(queue)} \cup Ready(Tail(queue))
         /\ \A n : Has(queue, n) <=> n = Head(queue)[1] \/ Has(Tail(queue), n)
         /\ \A n : Has(Tail(queue), n) => Orderly(Head(queue)[1], n)
<1>1. /\ Tail(queue) \in Seq(Tokens)
      /\ Head(queue) \in Tokens
      /\ Ready(queue) = {Head(queue)} \cup Ready(Tail(queue))
      /\ \A u \in Ready(Tail(queue)) : Precedes(queue, Head(queue)[1], u[1])
      /\ \A m, n : Precedes(Tail(queue), m, n) => Precedes(queue, m, n)
  BY TailQueue
<1>2. \A n : Has(queue, n) <=> n = Head(queue)[1] \/ Has(Tail(queue), n)
  BY <1>1 DEF Has
<1>3. \A n : Has(Tail(queue), n) => Orderly(Head(queue)[1], n)
  BY <1>1 DEF Has, InOrder, Sorted
<1>4. Sorted(Tail(queue))
  BY <1>1 DEF InOrder, Sorted
<1> QED BY <1>1, <1>2, <1>3, <1>4

\* A handler is queued behind others it may follow.
LEMMA Posted ==
  ASSUME NEW q \in Seq(Tokens), Sorted(q), NEW x \in Tokens,
         \A m : Has(q, m) => Orderly(m, x[1])
  PROVE  /\ Append(q, x) \in Seq(Tokens) /\ Sorted(Append(q, x))
         /\ Ready(Append(q, x)) = Ready(q) \cup {x}
         /\ \A n : Has(Append(q, x), n) <=> n = x[1] \/ Has(q, n)
<1>1. /\ Append(q, x) \in Seq(Tokens)
      /\ Ready(Append(q, x)) = Ready(q) \cup {x}
      /\ \A m, n : Precedes(Append(q, x), m, n) => Precedes(q, m, n) \/ (Has(q, m) /\ n = x[1])
  BY AppendQueue
<1>2. Sorted(Append(q, x))
  BY <1>1 DEF Sorted
<1>3. \A n : Has(Append(q, x), n) <=> n = x[1] \/ Has(q, n)
  BY <1>1 DEF Has
<1> QED BY <1>1, <1>2, <1>3

\* An empty queue is one with no handler in it.
LEMMA EmptyQueue ==
  ASSUME NEW q \in Seq(Tokens)
  PROVE  q = <<>> <=> \A n : ~Has(q, n)
<1>1. DOMAIN q = 1..Len(q) /\ Len(q) \in Nat /\ (q = <<>> <=> Len(q) = 0)
  OBVIOUS
<1>2. Len(q) # 0 => q[1] \in Ready(q)
  BY <1>1 DEF Ready
<1>3. Len(q) = 0 => Ready(q) = {}
  BY <1>1 DEF Ready
<1> QED BY <1>1, <1>2, <1>3 DEF Has

-----------------------------------------------------------------------------
(* Operations.                                                              *)

\* The latest operation is acted upon, or not.
LEMMA Numbering ==
  ASSUME op \in Nat
  PROVE  /\ ~(Quiet /\ Busy)
         /\ Busy => op # 0 /\ done \cup {op} = 1..op /\ (1..op) \ done = {op}
         /\ Quiet => (1..op) \ done = {}
         /\ Quiet /\ op' = op + 1 /\ done' = done => Busy'
         /\ op' = op /\ done' = done => (Quiet' <=> Quiet) /\ (Busy' <=> Busy)
<1>1. ~(Quiet /\ Busy)
  <2>1. Busy => op \in 1..op /\ op \notin 1..(op - 1)
    BY DEF Busy
  <2> QED BY <2>1 DEF Quiet, Busy
<1>2. Busy => op # 0 /\ done \cup {op} = 1..op /\ (1..op) \ done = {op}
  BY DEF Busy
<1>3. Quiet => (1..op) \ done = {}
  BY DEF Quiet
<1>4. Quiet /\ op' = op + 1 /\ done' = done => Busy'
  <2>1. op' = op + 1 => op' \in Nat \ {0} /\ op' - 1 = op
    OBVIOUS
  <2> QED BY <2>1 DEF Quiet, Busy
<1>5. op' = op /\ done' = done => (Quiet' <=> Quiet) /\ (Busy' <=> Busy)
  BY DEF Quiet, Busy
<1> QED BY <1>1, <1>2, <1>3, <1>4, <1>5

\* What the type invariant says of the numbers.
LEMMA Types ==
  ASSUME TypeOK
  PROVE  /\ queue \in Seq(Tokens) /\ op \in Nat /\ MaxOps \in Nat /\ op <= MaxOps /\ 0 \in 0..MaxOps
         /\ MaxEndpoints \in Nat /\ reads \in Nat /\ reads <= MaxReads /\ MaxReads \in Nat
         /\ iter \in Nat /\ iter <= MaxEndpoints
         /\ m_cancel \in (0..MaxOps) \X {"ok", "err", "aborted"}
         /\ NoHandler \in (0..MaxOps) \X {"ok", "err", "aborted"}
         /\ \A t \in Tokens : t = <<t[1], t[2], t[3]>> /\ t[2] \in 0..MaxOps
                              /\ t[3] \in {"ok", "err", "aborted"}
  BY BoundsAssumption DEF TypeOK, MaxOps, Tokens, NoHandler

-----------------------------------------------------------------------------
(* What is known when a handler runs, and when an operation starts.         *)

\* What the handlers that stay in the queue carry.
LEMMA RestMarked ==
  ASSUME NEW q \in Seq(Tokens)
  PROVE  \A t \in Ready(q) : t \in Tokens /\ Has(q, t[1])
<1>1. \A i \in DOMAIN q : q[i] \in Tokens
  OBVIOUS
<1> QED BY <1>1 DEF Ready, Has

\* A handler given to cancel_timeout runs when nothing of the operation is
\* left: only a write can still be on its way.
LEMMA AtCancel ==
  ASSUME IInv, AtHead("cancel")
  PROVE  /\ Busy /\ HeadOp = op /\ HeadRes \in {"ok", "err", "aborted"}
         /\ ~m_active /\ m_expire = 0 /\ ~waiting /\ pending = {} /\ m_cancel = NoHandler
         /\ \A n : Has(Tail(queue), n) => n \in Writes
<1> DEFINE r == Tail(queue)
           h == Head(queue)
<1>1. queue # <<>> /\ h[1] = "cancel" /\ HeadOp = h[2] /\ HeadRes = h[3]
  BY DEF AtHead, HeadOp, HeadRes
<1>2. /\ r \in Seq(Tokens) /\ Sorted(r) /\ h \in Tokens
      /\ Ready(queue) = {h} \cup Ready(r)
      /\ \A n : Has(queue, n) <=> n = h[1] \/ Has(r, n)
      /\ \A n : Has(r, n) => Orderly(h[1], n)
  BY <1>1, Taken, Types DEF IInv
<1> HIDE DEF r, h
<1>3. Busy /\ pending = {} /\ m_cancel = NoHandler
  BY <1>1, <1>2 DEF IInv, Flight, HasOf, Carriers
<1>4. ~m_active /\ m_expire = 0 /\ ~waiting
  BY <1>1, <1>2 DEF IInv, Timing, HasOf
<1>5. h[2] = op /\ h[3] \in {"ok", "err", "aborted"}
  BY <1>1, <1>2, Types DEF IInv, Marked, Carries, Carriers
<1>6. ~Quiet
  BY <1>3, Numbering, Types DEF IInv
<1>7. \A n : Has(r, n) => n \notin Carriers \cup Timers
  BY <1>1, <1>2, <1>4 DEF IInv, Timing, Orderly, Carriers, Timers
<1>8. \A n : Has(r, n) => n \notin Connects
  BY <1>2, <1>3, <1>6 DEF IInv, Phased, Connects
<1>9. \A n : Has(r, n) => n \in Carriers \cup Timers \cup Connects \cup Writes
  BY <1>2, RestMarked DEF Has, Tokens, Carriers, Timers, Connects, Writes
<1> QED BY <1>1, <1>3, <1>4, <1>5, <1>7, <1>8, <1>9 DEF r

\* An operation starts when the last one is over and the timer is at rest.
LEMMA Starts ==
  ASSUME IInv, NEW q \in Seq(Tokens), Sorted(q), ~waiting, pending = {},
         \A n : Has(q, n) => n \notin Carriers \cup Timers,
         op' = op + 1, done' = 1..op, pending' = pending \cup {op + 1}, SetTimeout(op + 1, q)
  PROVE  /\ queue' = q /\ InOrder' /\ Marked' /\ Flight' /\ Timing' /\ Busy' /\ ~Quiet'
         /\ m_expire' = op + 1 /\ m_cancel' = NoHandler /\ m_active' = TRUE /\ waiting' = TRUE
<1>1. /\ m_expire' = op + 1 /\ m_cancel' = NoHandler /\ m_active' = TRUE /\ waiting' = TRUE
      /\ queue' = q
  <2>1. q \o <<>> = q
    OBVIOUS
  <2> QED BY <2>1 DEF SetTimeout, AbortedWait
<1>2. op \in Nat
  BY Types DEF IInv
<1>3. Busy' /\ ~Quiet'
  <2>1. op' \in Nat \ {0} /\ op' - 1 = op /\ op' \in 1..op' /\ op' \notin 1..op
    BY <1>2
  <2> QED BY <2>1 DEF Busy, Quiet
<1>4. InOrder' /\ Marked'
  BY <1>1, RestMarked DEF InOrder, Marked, Carries, Carriers, Timers
<1>5. Flight'
  BY <1>1, <1>3 DEF Flight, HasOf
<1>6. Timing'
  BY <1>1 DEF Timing, HasOf, Carriers, Timers
<1> QED BY <1>1, <1>3, <1>4, <1>5, <1>6

-----------------------------------------------------------------------------
(* One lemma per action.                                                    *)
\* p_handle_timeout(operation_aborted): the stored handler is posted.
LEMMA HandleTimeoutAbortedKeeps == IInv /\ HandleTimeoutAborted => IInv'
<1> SUFFICES ASSUME IInv, HandleTimeoutAborted PROVE IInv'
  OBVIOUS
<1> DEFINE r == Tail(queue)
           h == Head(queue)
           x == <<"cancel", m_cancel[1], m_cancel[2]>>
<1>1. /\ queue # <<>> /\ h[1] = "timer"
      /\ queue' = Append(r, x)
      /\ h[3] = "aborted" /\ m_active' = FALSE /\ m_cancel' = NoHandler
      /\ UNCHANGED <<phase, secure, iter, op, pending, handshake, writing, waiting, m_expire,
                     done, ends, reads, writes>>
  BY DEF HandleTimeoutAborted, AtHead, HeadOp, HeadRes, resolution, socket, user
<1>2. /\ r \in Seq(Tokens) /\ Sorted(r) /\ h \in Tokens
      /\ Ready(queue) = {h} \cup Ready(r)
      /\ \A n : Has(queue, n) <=> n = h[1] \/ Has(r, n)
      /\ \A n : Has(r, n) => Orderly(h[1], n)
  BY <1>1, Taken, Types DEF IInv
<1> HIDE DEF r, h
<1>3. /\ m_cancel # NoHandler /\ m_cancel[1] = op /\ ~HasOf(Carriers) /\ Busy
      /\ m_active /\ m_expire = 0 /\ ~waiting /\ pending = {}
  BY <1>1, <1>2, Numbering, Types DEF IInv, Marked, Carries, Flight, Timing, Timers, HasOf
<1>4. \A n : Has(r, n) => n \notin Carriers \cup Timers
  BY <1>1, <1>2, <1>3
     DEF IInv, Flight, Timing, Phased, HasOf, Orderly, Carriers, Timers, Connects, Writes
<1>5. x \in Tokens
  BY <1>1, <1>2, <1>3, Types DEF IInv, Tokens
<1>6. \A n : Has(r, n) => Orderly(n, x[1])
  BY <1>4 DEF Orderly, Carriers, Connects, Timers
<1>7. /\ queue' \in Seq(Tokens) /\ InOrder'
      /\ Ready(queue') = Ready(r) \cup {x}
      /\ \A n : Has(queue', n) <=> n = "cancel" \/ Has(r, n)
  BY <1>1, <1>2, <1>5, <1>6, Posted, SMTT(30) DEF InOrder
<1>8. (Quiet' <=> Quiet) /\ (Busy' <=> Busy) /\ ~(Quiet /\ Busy)
  BY <1>1, Numbering, Types DEF IInv
<1>9. TypeOK'
  BY <1>1, <1>3, <1>7, Types DEF IInv, TypeOK
<1>10. Marked'
  <2>1. \A t \in Ready(r) : Carries(t, op', m_cancel')
    BY <1>1, <1>2, <1>3, <1>4, RestMarked DEF IInv, Marked, Carries, Carriers, Timers
  <2>2. Carries(x, op', m_cancel')
    BY <1>1, <1>2, <1>3 DEF IInv, Marked, Carries, Carriers
  <2> QED BY <1>7, <2>1, <2>2 DEF Marked
<1>11. Flight'
  BY <1>1, <1>2, <1>3, <1>4, <1>7, <1>8 DEF IInv, Flight, HasOf, Carriers, Timers
<1>12. Timing'
  BY <1>1, <1>2, <1>3, <1>4, <1>7, <1>8 DEF IInv, Timing, HasOf, Carriers, Timers
<1>13. Phased'
  BY <1>1, <1>2, <1>3, <1>4, <1>7, <1>8 DEF IInv, Phased, HasOf, Writes, Connects, Carriers
<1>14. Bounded'
  BY <1>1 DEF IInv, Bounded
<1> QED BY <1>7, <1>9, <1>10, <1>11, <1>12, <1>13, <1>14 DEF IInv

\* p_handle_timeout without error: the expire handler is posted.
LEMMA HandleTimeoutExpiredKeeps == IInv /\ HandleTimeoutExpired => IInv'
<1> SUFFICES ASSUME IInv, HandleTimeoutExpired PROVE IInv'
  OBVIOUS
<1> DEFINE r == Tail(queue)
           h == Head(queue)
           x == <<"expire", m_expire, "ok">>
<1>1. /\ queue # <<>> /\ h[1] = "timer"
      /\ queue' = Append(r, x)
      /\ m_expire # 0 /\ m_active' = FALSE /\ m_expire' = 0
      /\ UNCHANGED <<phase, secure, iter, op, pending, handshake, writing, waiting, m_cancel,
                     done, ends, reads, writes>>
  BY DEF HandleTimeoutExpired, AtHead, HeadOp, HeadRes, resolution, socket, user
<1>2. /\ r \in Seq(Tokens) /\ Sorted(r) /\ h \in Tokens
      /\ Ready(queue) = {h} \cup Ready(r)
      /\ \A n : Has(queue, n) <=> n = h[1] \/ Has(r, n)
      /\ \A n : Has(r, n) => Orderly(h[1], n)
  BY <1>1, Taken, Types DEF IInv
<1> HIDE DEF r, h
<1>3. m_cancel = NoHandler /\ m_active /\ ~waiting /\ Busy /\ m_expire \in 0..MaxOps
  BY <1>1, <1>2, Numbering, Types DEF IInv, TypeOK, Flight, Timing, Timers, HasOf
<1>4. \A n : Has(r, n) => n \notin Timers \cup {"cancel", "sized", "callback"}
  BY <1>1, <1>2, <1>3
     DEF IInv, Flight, Timing, Phased, HasOf, Orderly, Carriers, Timers, Connects, Writes
<1>5. x \in Tokens
  BY <1>1, <1>2, <1>3, Types DEF IInv, Tokens
<1>6. \A n : Has(r, n) => Orderly(n, x[1])
  BY <1>4 DEF Orderly, Carriers, Connects, Timers
<1>7. /\ queue' \in Seq(Tokens) /\ InOrder'
      /\ Ready(queue') = Ready(r) \cup {x}
      /\ \A n : Has(queue', n) <=> n = "expire" \/ Has(r, n)
  BY <1>1, <1>2, <1>5, <1>6, Posted DEF InOrder
<1>8. (Quiet' <=> Quiet) /\ (Busy' <=> Busy) /\ ~(Quiet /\ Busy)
  BY <1>1, Numbering, Types DEF IInv
<1>9. TypeOK'
  BY <1>1, <1>3, <1>7, Types DEF IInv, TypeOK
<1>10. Marked'
  <2>1. \A t \in Ready(r) : Carries(t, op', m_cancel')
    BY <1>1, <1>2, <1>3, <1>4, RestMarked DEF IInv, Marked, Carries, Carriers, Timers
  <2>2. Carries(x, op', m_cancel')
    BY <1>1, <1>2, <1>3 DEF IInv, Marked, Carries, Carriers
  <2> QED BY <1>7, <2>1, <2>2 DEF Marked
<1>11. Flight'
  BY <1>1, <1>2, <1>3, <1>4, <1>7, <1>8 DEF IInv, Flight, HasOf, Carriers, Timers
<1>12. Timing'
  BY <1>1, <1>2, <1>3, <1>4, <1>7, <1>8 DEF IInv, Timing, HasOf, Carriers, Timers
<1>13. Phased'
  BY <1>1, <1>2, <1>3, <1>4, <1>7, <1>8 DEF IInv, Phased, HasOf, Writes, Connects, Carriers
<1>14. Bounded'
  BY <1>1 DEF IInv, Bounded
<1> QED BY <1>7, <1>9, <1>10, <1>11, <1>12, <1>13, <1>14 DEF IInv

\* p_handle_timeout without an expire handler: it returns.
LEMMA HandleTimeoutLateKeeps == IInv /\ HandleTimeoutLate => IInv'
<1> SUFFICES ASSUME IInv, HandleTimeoutLate PROVE IInv'
  OBVIOUS
<1> DEFINE r == Tail(queue)
           h == Head(queue)
<1>1. /\ queue # <<>> /\ h[1] = "timer"
      /\ queue' = r
      /\ UNCHANGED <<phase, secure, iter, op, pending, handshake, writing, waiting, m_active,
                     m_expire, m_cancel, done, ends, reads, writes>>
  BY DEF HandleTimeoutLate, AtHead, HeadOp, HeadRes, resolution, socket, timeout, user
<1>2. /\ r \in Seq(Tokens) /\ Sorted(r) /\ h \in Tokens
      /\ Ready(queue) = {h} \cup Ready(r)
      /\ \A n : Has(queue, n) <=> n = h[1] \/ Has(r, n)
      /\ \A n : Has(r, n) => Orderly(h[1], n)
  BY <1>1, Taken, Types DEF IInv
<1> HIDE DEF r, h
<1>3. m_active /\ ~waiting /\ Busy
  BY <1>1, <1>2, Numbering, Types DEF IInv, Flight, Timing, Timers, HasOf
<1>4. \A n : Has(r, n) => n \notin Timers \cup {"cancel", "sized", "callback"}
  BY <1>1, <1>2, <1>3
     DEF IInv, Flight, Timing, Phased, HasOf, Orderly, Carriers, Timers, Connects, Writes
<1>7. queue' \in Seq(Tokens) /\ InOrder'
  BY <1>1, <1>2 DEF InOrder
<1>8. (Quiet' <=> Quiet) /\ (Busy' <=> Busy) /\ ~(Quiet /\ Busy)
  BY <1>1, Numbering, Types DEF IInv
<1>9. TypeOK'
  BY <1>1, <1>3, <1>7, Types DEF IInv, TypeOK
<1>10. Marked'
  <2>1. \A t \in Ready(r) : Carries(t, op', m_cancel')
    BY <1>1, <1>2, <1>3, <1>4, RestMarked DEF IInv, Marked, Carries, Carriers, Timers
  <2> QED BY <1>1, <2>1 DEF Marked
<1>11. Flight'
  BY <1>1, <1>2, <1>3, <1>4, <1>7, <1>8 DEF IInv, Flight, HasOf, Carriers, Timers
<1>12. Timing'
  BY <1>1, <1>2, <1>3, <1>4, <1>7, <1>8 DEF IInv, Timing, HasOf, Carriers, Timers
<1>13. Phased'
  BY <1>1, <1>2, <1>3, <1>4, <1>7, <1>8 DEF IInv, Phased, HasOf, Writes, Connects, Carriers
<1>14. Bounded'
  BY <1>1 DEF IInv, Bounded
<1> QED BY <1>7, <1>9, <1>10, <1>11, <1>12, <1>13, <1>14 DEF IInv

\* The deadline passes: p_handle_timeout is queued.
LEMMA TimerExpiresKeeps == IInv /\ TimerExpires => IInv'
<1> SUFFICES ASSUME IInv, TimerExpires PROVE IInv'
  OBVIOUS
<1> DEFINE x == <<"timer", 0, "ok">>
<1>1. /\ queue' = Append(queue, x)
      /\ waiting /\ waiting' = FALSE
      /\ UNCHANGED <<phase, secure, iter, op, pending, handshake, writing, m_active, m_expire,
                     m_cancel, done, ends, reads, writes>>
  BY DEF TimerExpires, resolution, socket, user
<1>2. queue \in Seq(Tokens) /\ Sorted(queue)
  BY Types DEF IInv, InOrder
<1>3. m_active /\ m_cancel = NoHandler /\ Busy
  BY <1>1, <1>2, Numbering, Types DEF IInv, Flight, Timing, HasOf
<1>4. \A n : Has(queue, n) => n \notin Timers \cup {"cancel", "sized", "callback"}
  BY <1>1, <1>2, <1>3
     DEF IInv, Flight, Timing, Phased, HasOf, Orderly, Carriers, Timers, Connects, Writes
<1>5. x \in Tokens
  BY <1>1, <1>2, <1>3, Types DEF IInv, Tokens
<1>6. \A n : Has(queue, n) => Orderly(n, x[1])
  BY <1>4 DEF Orderly, Carriers, Connects, Timers
<1>7. /\ queue' \in Seq(Tokens) /\ InOrder'
      /\ Ready(queue') = Ready(queue) \cup {x}
      /\ \A n : Has(queue', n) <=> n = "timer" \/ Has(queue, n)
  BY <1>1, <1>2, <1>5, <1>6, Posted DEF InOrder
<1>8. (Quiet' <=> Quiet) /\ (Busy' <=> Busy) /\ ~(Quiet /\ Busy)
  BY <1>1, Numbering, Types DEF IInv
<1>9. TypeOK'
  BY <1>1, <1>3, <1>7, Types DEF IInv, TypeOK
<1>10. Marked'
  <2>1. \A t \in Ready(queue) : Carries(t, op', m_cancel')
    BY <1>1, <1>2, <1>3, <1>4, RestMarked DEF IInv, Marked, Carries, Carriers, Timers
  <2>2. Carries(x, op', m_cancel')
    BY <1>1, <1>2, <1>3 DEF IInv, Marked, Carries, Carriers
  <2> QED BY <1>7, <2>1, <2>2 DEF Marked
<1>11. Flight'
  BY <1>1, <1>2, <1>3, <1>4, <1>7, <1>8 DEF IInv, Flight, HasOf, Carriers, Timers
<1>12. Timing'
  BY <1>1, <1>2, <1>3, <1>4, <1>7, <1>8 DEF IInv, Timing, HasOf, Carriers, Timers
<1>13. Phased'
  BY <1>1, <1>2, <1>3, <1>4, <1>7, <1>8 DEF IInv, Phased, HasOf, Writes, Connects, Carriers
<1>14. Bounded'
  BY <1>1 DEF IInv, Bounded
<1> QED BY <1>7, <1>9, <1>10, <1>11, <1>12, <1>13, <1>14 DEF IInv

\* The socket completes what it performs for the latest operation.
LEMMA SocketCompletesKeeps == IInv /\ SocketCompletes => IInv'
<1> SUFFICES ASSUME IInv, SocketCompletes PROVE IInv'
  OBVIOUS
<1>0. PICK res \in {"ok", "err"} :
        /\ pending = {op} /\ pending' = {}
        /\ queue' = Append(queue, <<"io", op, res>>)
        /\ UNCHANGED <<resolution, op, handshake, writing, timeout, done, user>>
  BY DEF SocketCompletes, IInv, Flight
<1> DEFINE x == <<"io", op, res>>
<1>1. /\ queue' = Append(queue, x)
      /\ pending = {op} /\ pending' = {}
      /\ UNCHANGED <<phase, secure, iter, op, handshake, writing, waiting, m_active, m_expire,
                     m_cancel, done, ends, reads, writes>>
  BY <1>0 DEF SocketCompletes, resolution, timeout, user
<1>2. queue \in Seq(Tokens) /\ Sorted(queue)
  BY Types DEF IInv, InOrder
<1>3. /\ m_cancel = NoHandler /\ ~HasOf(Carriers) /\ Busy
  BY <1>1, <1>2, Numbering, Types DEF IInv, Flight, HasOf
<1>4. \A n : Has(queue, n) => n \notin Carriers
  BY <1>1, <1>2, <1>3
     DEF IInv, Flight, Timing, Phased, HasOf, Orderly, Carriers, Timers, Connects, Writes
<1>5. x \in Tokens
  BY <1>1, <1>2, <1>3, Types DEF IInv, Tokens
<1>6. \A n : Has(queue, n) => Orderly(n, x[1])
  BY <1>4 DEF Orderly, Carriers, Connects, Timers
<1>7. /\ queue' \in Seq(Tokens) /\ InOrder'
      /\ Ready(queue') = Ready(queue) \cup {x}
      /\ \A n : Has(queue', n) <=> n = "io" \/ Has(queue, n)
  BY <1>1, <1>2, <1>5, <1>6, Posted DEF InOrder
<1>8. (Quiet' <=> Quiet) /\ (Busy' <=> Busy) /\ ~(Quiet /\ Busy)
  BY <1>1, Numbering, Types DEF IInv
<1>9. TypeOK'
  BY <1>1, <1>3, <1>7, Types DEF IInv, TypeOK
<1>10. Marked'
  <2>1. \A t \in Ready(queue) : Carries(t, op', m_cancel')
    BY <1>1, <1>2, <1>3, <1>4, RestMarked DEF IInv, Marked, Carries, Carriers, Timers
  <2>2. Carries(x, op', m_cancel')
    BY <1>1, <1>2, <1>3 DEF IInv, Marked, Carries, Carriers
  <2> QED BY <1>7, <2>1, <2>2 DEF Marked
<1>11. Flight'
  BY <1>1, <1>2, <1>3, <1>4, <1>7, <1>8 DEF IInv, Flight, HasOf, Carriers, Timers
<1>12. Timing'
  BY <1>1, <1>2, <1>3, <1>4, <1>7, <1>8 DEF IInv, Timing, HasOf, Carriers, Timers
<1>13. Phased'
  BY <1>1, <1>2, <1>3, <1>4, <1>7, <1>8 DEF IInv, Phased, HasOf, Writes, Connects, Carriers
<1>14. Bounded'
  BY <1>1 DEF IInv, Bounded
<1> QED BY <1>7, <1>9, <1>10, <1>11, <1>12, <1>13, <1>14 DEF IInv

\* The socket completes a write.
LEMMA WriteCompletesKeeps == IInv /\ WriteCompletes => IInv'
<1> SUFFICES ASSUME IInv, WriteCompletes PROVE IInv'
  OBVIOUS
<1>0. PICK res \in {"ok", "err"} :
        /\ writing /\ writing' = FALSE
        /\ queue' = Append(queue, <<"written", 0, res>>)
        /\ UNCHANGED <<resolution, op, pending, handshake, timeout, done, user>>
  BY DEF WriteCompletes
<1> DEFINE x == <<"written", 0, res>>
<1>1. /\ queue' = Append(queue, x)
      /\ writing /\ writing' = FALSE
      /\ UNCHANGED <<phase, secure, iter, op, pending, handshake, waiting, m_active, m_expire,
                     m_cancel, done, ends, reads, writes>>
  BY <1>0 DEF WriteCompletes, resolution, timeout, user
<1>2. queue \in Seq(Tokens) /\ Sorted(queue)
  BY Types DEF IInv, InOrder
<1>3. phase \in {"accepted", "open", "failed"}
  BY <1>1, <1>2, Numbering, Types DEF IInv, Phased
<1>4. \A n : Has(queue, n) => n \notin {}
  BY <1>1, <1>2, <1>3
     DEF IInv, Flight, Timing, Phased, HasOf, Orderly, Carriers, Timers, Connects, Writes
<1>5. x \in Tokens
  BY <1>1, <1>2, <1>3, Types DEF IInv, Tokens
<1>6. \A n : Has(queue, n) => Orderly(n, x[1])
  BY <1>4 DEF Orderly, Carriers, Connects, Timers
<1>7. /\ queue' \in Seq(Tokens) /\ InOrder'
      /\ Ready(queue') = Ready(queue) \cup {x}
      /\ \A n : Has(queue', n) <=> n = "written" \/ Has(queue, n)
  BY <1>1, <1>2, <1>5, <1>6, Posted DEF InOrder
<1>8. (Quiet' <=> Quiet) /\ (Busy' <=> Busy) /\ ~(Quiet /\ Busy)
  BY <1>1, Numbering, Types DEF IInv
<1>9. TypeOK'
  BY <1>1, <1>3, <1>7, Types DEF IInv, TypeOK
<1>10. Marked'
  <2>1. \A t \in Ready(queue) : Carries(t, op', m_cancel')
    BY <1>1, <1>2, <1>3, <1>4, RestMarked DEF IInv, Marked, Carries, Carriers, Timers
  <2>2. Carries(x, op', m_cancel')
    BY <1>1, <1>2, <1>3 DEF IInv, Marked, Carries, Carriers
  <2> QED BY <1>7, <2>1, <2>2 DEF Marked
<1>11. Flight'
  BY <1>1, <1>2, <1>3, <1>4, <1>7, <1>8 DEF IInv, Flight, HasOf, Carriers, Timers
<1>12. Timing'
  BY <1>1, <1>2, <1>3, <1>4, <1>7, <1>8 DEF IInv, Timing, HasOf, Carriers, Timers
<1>13. Phased'
  BY <1>1, <1>2, <1>3, <1>4, <1>7, <1>8 DEF IInv, Phased, HasOf, Writes, Connects, Carriers
<1>14. Bounded'
  BY <1>1 DEF IInv, Bounded
<1> QED BY <1>7, <1>9, <1>10, <1>11, <1>12, <1>13, <1>14 DEF IInv

\* The handshake completes.
LEMMA HandshakeCompletesKeeps == IInv /\ HandshakeCompletes => IInv'
<1> SUFFICES ASSUME IInv, HandshakeCompletes PROVE IInv'
  OBVIOUS
<1>0. PICK res \in {"ok", "err"} :
        /\ handshake /\ handshake' = FALSE
        /\ queue' = Append(queue, <<"handshaken", 0, res>>)
        /\ UNCHANGED <<resolution, op, pending, writing, timeout, done, user>>
  BY DEF HandshakeCompletes
<1> DEFINE x == <<"handshaken", 0, res>>
<1>1. /\ queue' = Append(queue, x)
      /\ handshake /\ handshake' = FALSE
      /\ UNCHANGED <<phase, secure, iter, op, pending, writing, waiting, m_active, m_expire,
                     m_cancel, done, ends, reads, writes>>
  BY <1>0 DEF HandshakeCompletes, resolution, timeout, user
<1>2. queue \in Seq(Tokens) /\ Sorted(queue)
  BY Types DEF IInv, InOrder
<1>3. phase = "handshaking"
  BY <1>1, <1>2, Numbering, Types DEF IInv, Phased
<1>4. \A n : Has(queue, n) => n \notin Connects
  BY <1>1, <1>2, <1>3
     DEF IInv, Flight, Timing, Phased, HasOf, Orderly, Carriers, Timers, Connects, Writes
<1>5. x \in Tokens
  BY <1>1, <1>2, <1>3, Types DEF IInv, Tokens
<1>6. \A n : Has(queue, n) => Orderly(n, x[1])
  BY <1>4 DEF Orderly, Carriers, Connects, Timers
<1>7. /\ queue' \in Seq(Tokens) /\ InOrder'
      /\ Ready(queue') = Ready(queue) \cup {x}
      /\ \A n : Has(queue', n) <=> n = "handshaken" \/ Has(queue, n)
  BY <1>1, <1>2, <1>5, <1>6, Posted DEF InOrder
<1>8. (Quiet' <=> Quiet) /\ (Busy' <=> Busy) /\ ~(Quiet /\ Busy)
  BY <1>1, Numbering, Types DEF IInv
<1>9. TypeOK'
  BY <1>1, <1>3, <1>7, Types DEF IInv, TypeOK
<1>10. Marked'
  <2>1. \A t \in Ready(queue) : Carries(t, op', m_cancel')
    BY <1>1, <1>2, <1>3, <1>4, RestMarked DEF IInv, Marked, Carries, Carriers, Timers
  <2>2. Carries(x, op', m_cancel')
    BY <1>1, <1>2, <1>3 DEF IInv, Marked, Carries, Carriers
  <2> QED BY <1>7, <2>1, <2>2 DEF Marked
<1>11. Flight'
  BY <1>1, <1>2, <1>3, <1>4, <1>7, <1>8 DEF IInv, Flight, HasOf, Carriers, Timers
<1>12. Timing'
  BY <1>1, <1>2, <1>3, <1>4, <1>7, <1>8 DEF IInv, Timing, HasOf, Carriers, Timers
<1>13. Phased'
  BY <1>1, <1>2, <1>3, <1>4, <1>7, <1>8 DEF IInv, Phased, HasOf, Writes, Connects, Carriers
<1>14. Bounded'
  BY <1>1 DEF IInv, Bounded
<1> QED BY <1>7, <1>9, <1>10, <1>11, <1>12, <1>13, <1>14 DEF IInv

\* The resolver answers.
LEMMA ResolvesKeeps == IInv /\ Resolves => IInv'
<1> SUFFICES ASSUME IInv, Resolves PROVE IInv'
  OBVIOUS
<1>0. PICK res \in {"ok", "err"}, k \in 0..MaxEndpoints :
        /\ phase = "resolving" /\ phase' = "resolved" /\ iter' = k
        /\ queue' = Append(queue, <<"resolved", 0, res>>)
        /\ UNCHANGED <<secure, op, socket, timeout, done, user>>
  BY DEF Resolves
<1> DEFINE x == <<"resolved", 0, res>>
<1>1. /\ queue' = Append(queue, x)
      /\ phase = "resolving" /\ phase' = "resolved" /\ iter' = k
      /\ UNCHANGED <<secure, op, pending, handshake, writing, waiting, m_active, m_expire,
                     m_cancel, done, ends, reads, writes>>
  BY <1>0 DEF Resolves, socket, timeout, user
<1>2. queue \in Seq(Tokens) /\ Sorted(queue)
  BY Types DEF IInv, InOrder
<1>3. op = 0 /\ ~Busy
  BY <1>1, <1>2, Numbering, Types DEF IInv, Phased, Busy
<1>4. \A n : Has(queue, n) => n \notin Connects \cup Writes \cup {"sized", "callback"}
  BY <1>1, <1>2, <1>3
     DEF IInv, Flight, Timing, Phased, HasOf, Orderly, Carriers, Timers, Connects, Writes
<1>5. x \in Tokens
  BY <1>1, <1>2, <1>3, Types DEF IInv, Tokens
<1>6. \A n : Has(queue, n) => Orderly(n, x[1])
  BY <1>4 DEF Orderly, Carriers, Connects, Timers
<1>7. /\ queue' \in Seq(Tokens) /\ InOrder'
      /\ Ready(queue') = Ready(queue) \cup {x}
      /\ \A n : Has(queue', n) <=> n = "resolved" \/ Has(queue, n)
  BY <1>1, <1>2, <1>5, <1>6, Posted DEF InOrder
<1>8. (Quiet' <=> Quiet) /\ (Busy' <=> Busy) /\ ~(Quiet /\ Busy)
  BY <1>1, Numbering, Types DEF IInv
<1>9. TypeOK'
  BY <1>1, <1>3, <1>7, Types, <1>0 DEF IInv, TypeOK, Phases
<1>10. Marked'
  <2>1. \A t \in Ready(queue) : Carries(t, op', m_cancel')
    BY <1>1, <1>2, <1>3, <1>4, RestMarked DEF IInv, Marked, Carries, Carriers, Timers
  <2>2. Carries(x, op', m_cancel')
    BY <1>1, <1>2, <1>3 DEF IInv, Marked, Carries, Carriers
  <2> QED BY <1>7, <2>1, <2>2 DEF Marked
<1>11. Flight'
  BY <1>1, <1>2, <1>3, <1>4, <1>7, <1>8 DEF IInv, Flight, HasOf, Carriers, Timers
<1>12. Timing'
  BY <1>1, <1>2, <1>3, <1>4, <1>7, <1>8 DEF IInv, Timing, HasOf, Carriers, Timers
<1>13. Phased'
  BY <1>1, <1>2, <1>3, <1>4, <1>7, <1>8 DEF IInv, Phased, HasOf, Writes, Connects, Carriers
<1>14. Bounded'
  BY <1>0, <1>1, <1>3, Types DEF IInv, Bounded
<1> QED BY <1>7, <1>9, <1>10, <1>11, <1>12, <1>13, <1>14 DEF IInv

\* The handshake's completion posts the connect callback.
LEMMA HandleHandshakeKeeps == IInv /\ HandleHandshake => IInv'
<1> SUFFICES ASSUME IInv, HandleHandshake PROVE IInv'
  OBVIOUS
<1> DEFINE r == Tail(queue)
           h == Head(queue)
           x == <<"connected", 0, h[3]>>
<1>1. /\ queue # <<>> /\ h[1] = "handshaken"
      /\ queue' = Append(r, x)
      /\ UNCHANGED <<phase, secure, iter, op, pending, handshake, writing, waiting, m_active,
                     m_expire, m_cancel, done, ends, reads, writes>>
  BY
     DEF HandleHandshake, AtHead, HeadOp, HeadRes, PostConnectCb, resolution, socket, timeout,
         user
<1>2. /\ r \in Seq(Tokens) /\ Sorted(r) /\ h \in Tokens
      /\ Ready(queue) = {h} \cup Ready(r)
      /\ \A n : Has(queue, n) <=> n = h[1] \/ Has(r, n)
      /\ \A n : Has(r, n) => Orderly(h[1], n)
  BY <1>1, Taken, Types DEF IInv
<1> HIDE DEF r, h
<1>3. /\ phase = "handshaking" /\ ~handshake
      /\ Quiet
  BY <1>1, <1>2, Numbering, Types DEF IInv, Phased, Flight
<1>4. \A n : Has(r, n) => n \notin Connects
  BY <1>1, <1>2, <1>3
     DEF IInv, Flight, Timing, Phased, HasOf, Orderly, Carriers, Timers, Connects, Writes
<1>5. x \in Tokens
  BY <1>1, <1>2, <1>3, Types DEF IInv, Tokens
<1>6. \A n : Has(r, n) => Orderly(n, x[1])
  BY <1>4 DEF Orderly, Carriers, Connects, Timers
<1>7. /\ queue' \in Seq(Tokens) /\ InOrder'
      /\ Ready(queue') = Ready(r) \cup {x}
      /\ \A n : Has(queue', n) <=> n = "connected" \/ Has(r, n)
  BY <1>1, <1>2, <1>5, <1>6, Posted DEF InOrder
<1>8. (Quiet' <=> Quiet) /\ (Busy' <=> Busy) /\ ~(Quiet /\ Busy)
  BY <1>1, Numbering, Types DEF IInv
<1>9. TypeOK'
  BY <1>1, <1>3, <1>7, Types DEF IInv, TypeOK
<1>10. Marked'
  <2>1. \A t \in Ready(r) : Carries(t, op', m_cancel')
    BY <1>1, <1>2, <1>3, <1>4, RestMarked DEF IInv, Marked, Carries, Carriers, Timers
  <2>2. Carries(x, op', m_cancel')
    BY <1>1, <1>2, <1>3 DEF IInv, Marked, Carries, Carriers
  <2> QED BY <1>7, <2>1, <2>2 DEF Marked
<1>11. Flight'
  BY <1>1, <1>2, <1>3, <1>4, <1>7, <1>8 DEF IInv, Flight, HasOf, Carriers, Timers
<1>12. Timing'
  BY <1>1, <1>2, <1>3, <1>4, <1>7, <1>8 DEF IInv, Timing, HasOf, Carriers, Timers
<1>13. Phased'
  BY <1>1, <1>2, <1>3, <1>4, <1>7, <1>8 DEF IInv, Phased, HasOf, Writes, Connects, Carriers
<1>14. Bounded'
  BY <1>1 DEF IInv, Bounded
<1> QED BY <1>7, <1>9, <1>10, <1>11, <1>12, <1>13, <1>14 DEF IInv

\* The callback of async_connect or async_handshake runs.
LEMMA ConnectCallbackKeeps == IInv /\ ConnectCallback => IInv'
<1> SUFFICES ASSUME IInv, ConnectCallback PROVE IInv'
  OBVIOUS
<1> DEFINE r == Tail(queue)
           h == Head(queue)
<1>1. /\ queue # <<>> /\ h[1] = "connected"
      /\ queue' = r
      /\ ends' = ends + 1 /\ phase' \in {"open", "failed"}
      /\ UNCHANGED <<secure, iter, op, pending, handshake, writing, waiting, m_active,
                     m_expire, m_cancel, done, reads, writes>>
  BY DEF ConnectCallback, AtHead, HeadOp, HeadRes, socket, timeout, user
<1>2. /\ r \in Seq(Tokens) /\ Sorted(r) /\ h \in Tokens
      /\ Ready(queue) = {h} \cup Ready(r)
      /\ \A n : Has(queue, n) <=> n = h[1] \/ Has(r, n)
      /\ \A n : Has(r, n) => Orderly(h[1], n)
  BY <1>1, Taken, Types DEF IInv
<1> HIDE DEF r, h
<1>3. /\ phase \in {"resolved", "connecting", "handshaking"} /\ ~handshake
      /\ Quiet /\ ~Busy /\ ends = 0
  BY <1>1, <1>2, Numbering, Types DEF IInv, Phased
<1>4. \A n : Has(r, n) => n \notin Connects \cup Carriers \cup Timers \cup Writes
  BY <1>1, <1>2, <1>3
     DEF IInv, Flight, Timing, Phased, HasOf, Orderly, Carriers, Timers, Connects, Writes
<1>7. queue' \in Seq(Tokens) /\ InOrder'
  BY <1>1, <1>2 DEF InOrder
<1>8. (Quiet' <=> Quiet) /\ (Busy' <=> Busy) /\ ~(Quiet /\ Busy)
  BY <1>1, Numbering, Types DEF IInv
<1>9. TypeOK'
  BY <1>1, <1>3, <1>7, Types, SMTT(30) DEF IInv, TypeOK, Phases
<1>10. Marked'
  <2>1. \A t \in Ready(r) : Carries(t, op', m_cancel')
    BY <1>1, <1>2, <1>3, <1>4, RestMarked DEF IInv, Marked, Carries, Carriers, Timers
  <2> QED BY <1>1, <2>1 DEF Marked
<1>11. Flight'
  BY <1>1, <1>2, <1>3, <1>4, <1>7, <1>8 DEF IInv, Flight, HasOf, Carriers, Timers
<1>12. Timing'
  BY <1>1, <1>2, <1>3, <1>4, <1>7, <1>8 DEF IInv, Timing, HasOf, Carriers, Timers
<1>13. Phased'
  BY <1>1, <1>2, <1>3, <1>4, <1>7, <1>8 DEF IInv, Phased, HasOf, Writes, Connects, Carriers
<1>14. Bounded'
  BY <1>1 DEF IInv, Bounded
<1> QED BY <1>7, <1>9, <1>10, <1>11, <1>12, <1>13, <1>14 DEF IInv

\* The read's cancel handler posts the callback or its wrapper.
LEMMA PostReadCbKeeps == IInv /\ PostReadCb => IInv'
<1> SUFFICES ASSUME IInv, PostReadCb PROVE IInv'
  OBVIOUS
<1>0. PICK name \in {"sized", "callback"} :
        queue' = Append(Tail(queue), <<name, HeadOp, HeadRes>>)
  BY DEF PostReadCb
<1> DEFINE r == Tail(queue)
           h == Head(queue)
           x == <<name, h[2], h[3]>>
<1>1. /\ queue # <<>> /\ h[1] = "cancel"
      /\ queue' = Append(r, x)
      /\ phase # "connecting"
      /\ UNCHANGED <<phase, secure, iter, op, pending, handshake, writing, waiting, m_active,
                     m_expire, m_cancel, done, ends, reads, writes>>
  BY <1>0 DEF PostReadCb, AtHead, HeadOp, HeadRes, resolution, socket, timeout, user
<1>2. /\ r \in Seq(Tokens) /\ Sorted(r) /\ h \in Tokens
      /\ Ready(queue) = {h} \cup Ready(r)
      /\ \A n : Has(queue, n) <=> n = h[1] \/ Has(r, n)
      /\ \A n : Has(r, n) => Orderly(h[1], n)
  BY <1>1, Taken, Types DEF IInv
<1> HIDE DEF r, h
<1>3. /\ Busy /\ ~m_active /\ m_expire = 0 /\ ~waiting /\ pending = {} /\ m_cancel = NoHandler
      /\ phase \in {"accepted", "open", "failed"} /\ h[2] = op
  BY <1>1, AtCancel DEF IInv, Phased, AtHead, HeadOp, r, h
<1>4. \A n : Has(r, n) => n \notin Carriers \cup Timers
  BY <1>1, <1>2, <1>3
     DEF IInv, Flight, Timing, Phased, HasOf, Orderly, Carriers, Timers, Connects, Writes
<1>5. x \in Tokens
  BY <1>1, <1>2, <1>3, Types DEF IInv, Tokens
<1>6. \A n : Has(r, n) => Orderly(n, x[1])
  BY <1>4 DEF Orderly, Carriers, Connects, Timers
<1>7. /\ queue' \in Seq(Tokens) /\ InOrder'
      /\ Ready(queue') = Ready(r) \cup {x}
      /\ \A n : Has(queue', n) <=> n = name \/ Has(r, n)
  BY <1>1, <1>2, <1>5, <1>6, Posted DEF InOrder
<1>8. (Quiet' <=> Quiet) /\ (Busy' <=> Busy) /\ ~(Quiet /\ Busy)
  BY <1>1, Numbering, Types DEF IInv
<1>9. TypeOK'
  BY <1>1, <1>3, <1>7, Types DEF IInv, TypeOK
<1>10. Marked'
  <2>1. \A t \in Ready(r) : Carries(t, op', m_cancel')
    BY <1>1, <1>2, <1>3, <1>4, RestMarked DEF IInv, Marked, Carries, Carriers, Timers
  <2>2. Carries(x, op', m_cancel')
    BY <1>1, <1>2, <1>3 DEF IInv, Marked, Carries, Carriers
  <2> QED BY <1>7, <2>1, <2>2 DEF Marked
<1>11. Flight'
  BY <1>1, <1>2, <1>3, <1>4, <1>7, <1>8 DEF IInv, Flight, HasOf, Carriers, Timers
<1>12. Timing'
  BY <1>1, <1>2, <1>3, <1>4, <1>7, <1>8 DEF IInv, Timing, HasOf, Carriers, Timers
<1>13. Phased'
  BY <1>1, <1>2, <1>3, <1>4, <1>7, <1>8 DEF IInv, Phased, HasOf, Writes, Connects, Carriers
<1>14. Bounded'
  BY <1>1 DEF IInv, Bounded
<1> QED BY <1>7, <1>9, <1>10, <1>11, <1>12, <1>13, <1>14 DEF IInv

\* The wrapper stores the size and posts the callback.
LEMMA SetSizeKeeps == IInv /\ SetSize => IInv'
<1> SUFFICES ASSUME IInv, SetSize PROVE IInv'
  OBVIOUS
<1> DEFINE r == Tail(queue)
           h == Head(queue)
           x == <<"callback", h[2], h[3]>>
<1>1. /\ queue # <<>> /\ h[1] = "sized"
      /\ queue' = Append(r, x)
      /\ UNCHANGED <<phase, secure, iter, op, pending, handshake, writing, waiting, m_active,
                     m_expire, m_cancel, done, ends, reads, writes>>
  BY DEF SetSize, AtHead, HeadOp, HeadRes, resolution, socket, timeout, user
<1>2. /\ r \in Seq(Tokens) /\ Sorted(r) /\ h \in Tokens
      /\ Ready(queue) = {h} \cup Ready(r)
      /\ \A n : Has(queue, n) <=> n = h[1] \/ Has(r, n)
      /\ \A n : Has(r, n) => Orderly(h[1], n)
  BY <1>1, Taken, Types DEF IInv
<1> HIDE DEF r, h
<1>3. /\ Busy /\ ~m_active /\ m_expire = 0 /\ ~waiting /\ pending = {} /\ m_cancel = NoHandler
      /\ phase \in {"accepted", "open", "failed"} /\ h[2] = op
  BY <1>1, <1>2, Numbering, Types
     DEF IInv, Marked, Carries, Flight, Timing, Phased, HasOf, Carriers
<1>4. \A n : Has(r, n) => n \notin Carriers \cup Timers
  BY <1>1, <1>2, <1>3
     DEF IInv, Flight, Timing, Phased, HasOf, Orderly, Carriers, Timers, Connects, Writes
<1>5. x \in Tokens
  BY <1>1, <1>2, <1>3, Types DEF IInv, Tokens
<1>6. \A n : Has(r, n) => Orderly(n, x[1])
  BY <1>4 DEF Orderly, Carriers, Connects, Timers
<1>7. /\ queue' \in Seq(Tokens) /\ InOrder'
      /\ Ready(queue') = Ready(r) \cup {x}
      /\ \A n : Has(queue', n) <=> n = "callback" \/ Has(r, n)
  BY <1>1, <1>2, <1>5, <1>6, Posted DEF InOrder
<1>8. (Quiet' <=> Quiet) /\ (Busy' <=> Busy) /\ ~(Quiet /\ Busy)
  BY <1>1, Numbering, Types DEF IInv
<1>9. TypeOK'
  BY <1>1, <1>3, <1>7, Types DEF IInv, TypeOK
<1>10. Marked'
  <2>1. \A t \in Ready(r) : Carries(t, op', m_cancel')
    BY <1>1, <1>2, <1>3, <1>4, RestMarked DEF IInv, Marked, Carries, Carriers, Timers
  <2>2. Carries(x, op', m_cancel')
    BY <1>1, <1>2, <1>3 DEF IInv, Marked, Carries, Carriers
  <2> QED BY <1>7, <2>1, <2>2 DEF Marked
<1>11. Flight'
  BY <1>1, <1>2, <1>3, <1>4, <1>7, <1>8 DEF IInv, Flight, HasOf, Carriers, Timers
<1>12. Timing'
  BY <1>1, <1>2, <1>3, <1>4, <1>7, <1>8 DEF IInv, Timing, HasOf, Carriers, Timers
<1>13. Phased'
  BY <1>1, <1>2, <1>3, <1>4, <1>7, <1>8 DEF IInv, Phased, HasOf, Writes, Connects, Carriers
<1>14. Bounded'
  BY <1>1 DEF IInv, Bounded
<1> QED BY <1>7, <1>9, <1>10, <1>11, <1>12, <1>13, <1>14 DEF IInv

\* The read callback runs.
LEMMA ReadCallbackKeeps == IInv /\ ReadCallback => IInv'
<1> SUFFICES ASSUME IInv, ReadCallback PROVE IInv'
  OBVIOUS
<1> DEFINE r == Tail(queue)
           h == Head(queue)
<1>1. /\ queue # <<>> /\ h[1] = "callback"
      /\ queue' = r
      /\ done' = done \cup {h[2]} /\ phase' \in {phase, "failed"}
      /\ UNCHANGED <<secure, iter, op, pending, handshake, writing, waiting, m_active,
                     m_expire, m_cancel, ends, reads, writes>>
  BY DEF ReadCallback, AtHead, HeadOp, HeadRes, socket, timeout, user
<1>2. /\ r \in Seq(Tokens) /\ Sorted(r) /\ h \in Tokens
      /\ Ready(queue) = {h} \cup Ready(r)
      /\ \A n : Has(queue, n) <=> n = h[1] \/ Has(r, n)
      /\ \A n : Has(r, n) => Orderly(h[1], n)
  BY <1>1, Taken, Types DEF IInv
<1> HIDE DEF r, h
<1>3. /\ Busy /\ ~m_active /\ m_expire = 0 /\ ~waiting /\ pending = {} /\ m_cancel = NoHandler
      /\ phase \in {"accepted", "open", "failed"} /\ h[2] = op
  BY <1>1, <1>2, Numbering, Types
     DEF IInv, Marked, Carries, Flight, Timing, Phased, HasOf, Carriers
<1>4. \A n : Has(r, n) => n \notin Carriers \cup Timers \cup Connects
  BY <1>1, <1>2, <1>3
     DEF IInv, Flight, Timing, Phased, HasOf, Orderly, Carriers, Timers, Connects, Writes
<1>7. queue' \in Seq(Tokens) /\ InOrder'
  BY <1>1, <1>2 DEF InOrder
<1>8. Quiet' /\ ~Busy' /\ Busy /\ ~Quiet
  <2>1. done' = 1..op /\ op' = op /\ op \in Nat
    BY <1>1, <1>3, Numbering, Types DEF IInv
  <2>2. Quiet' /\ op' \in Nat
    BY <2>1 DEF Quiet
  <2> QED BY <2>1, <2>2, <1>3, Numbering DEF Quiet, Busy
<1>9. TypeOK'
  BY <1>1, <1>3, <1>7, Types, <1>8 DEF IInv, TypeOK, Quiet, Phases
<1>10. Marked'
  <2>1. \A t \in Ready(r) : Carries(t, op', m_cancel')
    BY <1>1, <1>2, <1>3, <1>4, RestMarked DEF IInv, Marked, Carries, Carriers, Timers
  <2> QED BY <1>1, <2>1 DEF Marked
<1>11. Flight'
  BY <1>1, <1>2, <1>3, <1>4, <1>7, <1>8 DEF IInv, Flight, HasOf, Carriers, Timers
<1>12. Timing'
  BY <1>1, <1>2, <1>3, <1>4, <1>7, <1>8 DEF IInv, Timing, HasOf, Carriers, Timers
<1>13. Phased'
  BY <1>1, <1>2, <1>3, <1>4, <1>7, <1>8 DEF IInv, Phased, HasOf, Writes, Connects, Carriers
<1>14. Bounded'
  BY <1>1 DEF IInv, Bounded
<1> QED BY <1>7, <1>9, <1>10, <1>11, <1>12, <1>13, <1>14 DEF IInv

\* The completion of a write posts the callback.
LEMMA PostWriteCbKeeps == IInv /\ PostWriteCb => IInv'
<1> SUFFICES ASSUME IInv, PostWriteCb PROVE IInv'
  OBVIOUS
<1> DEFINE r == Tail(queue)
           h == Head(queue)
           x == <<"writeCallback", 0, h[3]>>
<1>1. /\ queue # <<>> /\ h[1] = "written"
      /\ queue' = Append(r, x)
      /\ UNCHANGED <<phase, secure, iter, op, pending, handshake, writing, waiting, m_active,
                     m_expire, m_cancel, done, ends, reads, writes>>
  BY DEF PostWriteCb, AtHead, HeadOp, HeadRes, resolution, socket, timeout, user
<1>2. /\ r \in Seq(Tokens) /\ Sorted(r) /\ h \in Tokens
      /\ Ready(queue) = {h} \cup Ready(r)
      /\ \A n : Has(queue, n) <=> n = h[1] \/ Has(r, n)
      /\ \A n : Has(r, n) => Orderly(h[1], n)
  BY <1>1, Taken, Types DEF IInv
<1> HIDE DEF r, h
<1>3. phase \in {"accepted", "open", "failed"}
  BY <1>1, <1>2, Numbering, Types DEF IInv, Phased, HasOf, Writes
<1>4. \A n : Has(r, n) => n \notin {}
  BY <1>1, <1>2, <1>3
     DEF IInv, Flight, Timing, Phased, HasOf, Orderly, Carriers, Timers, Connects, Writes
<1>5. x \in Tokens
  BY <1>1, <1>2, <1>3, Types DEF IInv, Tokens
<1>6. \A n : Has(r, n) => Orderly(n, x[1])
  BY <1>4 DEF Orderly, Carriers, Connects, Timers
<1>7. /\ queue' \in Seq(Tokens) /\ InOrder'
      /\ Ready(queue') = Ready(r) \cup {x}
      /\ \A n : Has(queue', n) <=> n = "writeCallback" \/ Has(r, n)
  BY <1>1, <1>2, <1>5, <1>6, Posted DEF InOrder
<1>8. (Quiet' <=> Quiet) /\ (Busy' <=> Busy) /\ ~(Quiet /\ Busy)
  BY <1>1, Numbering, Types DEF IInv
<1>9. TypeOK'
  BY <1>1, <1>3, <1>7, Types DEF IInv, TypeOK
<1>10. Marked'
  <2>1. \A t \in Ready(r) : Carries(t, op', m_cancel')
    BY <1>1, <1>2, <1>3, <1>4, RestMarked DEF IInv, Marked, Carries, Carriers, Timers
  <2>2. Carries(x, op', m_cancel')
    BY <1>1, <1>2, <1>3 DEF IInv, Marked, Carries, Carriers
  <2> QED BY <1>7, <2>1, <2>2 DEF Marked
<1>11. Flight'
  BY <1>1, <1>2, <1>3, <1>4, <1>7, <1>8 DEF IInv, Flight, HasOf, Carriers, Timers
<1>12. Timing'
  BY <1>1, <1>2, <1>3, <1>4, <1>7, <1>8 DEF IInv, Timing, HasOf, Carriers, Timers
<1>13. Phased'
  BY <1>1, <1>2, <1>3, <1>4, <1>7, <1>8 DEF IInv, Phased, HasOf, Writes, Connects, Carriers
<1>14. Bounded'
  BY <1>1 DEF IInv, Bounded
<1> QED BY <1>7, <1>9, <1>10, <1>11, <1>12, <1>13, <1>14 DEF IInv

\* The write callback runs.
LEMMA WriteCallbackKeeps == IInv /\ WriteCallback => IInv'
<1> SUFFICES ASSUME IInv, WriteCallback PROVE IInv'
  OBVIOUS
<1> DEFINE r == Tail(queue)
           h == Head(queue)
<1>1. /\ queue # <<>> /\ h[1] = "writeCallback"
      /\ queue' = r
      /\ phase' \in {phase, "failed"}
      /\ UNCHANGED <<secure, iter, op, pending, handshake, writing, waiting, m_active,
                     m_expire, m_cancel, done, ends, reads, writes>>
  BY DEF WriteCallback, AtHead, HeadOp, HeadRes, socket, timeout, user
<1>2. /\ r \in Seq(Tokens) /\ Sorted(r) /\ h \in Tokens
      /\ Ready(queue) = {h} \cup Ready(r)
      /\ \A n : Has(queue, n) <=> n = h[1] \/ Has(r, n)
      /\ \A n : Has(r, n) => Orderly(h[1], n)
  BY <1>1, Taken, Types DEF IInv
<1> HIDE DEF r, h
<1>3. phase \in {"accepted", "open", "failed"}
  BY <1>1, <1>2, Numbering, Types DEF IInv, Phased, HasOf, Writes
<1>4. \A n : Has(r, n) => n \notin Connects
  BY <1>1, <1>2, <1>3
     DEF IInv, Flight, Timing, Phased, HasOf, Orderly, Carriers, Timers, Connects, Writes
<1>7. queue' \in Seq(Tokens) /\ InOrder'
  BY <1>1, <1>2 DEF InOrder
<1>8. (Quiet' <=> Quiet) /\ (Busy' <=> Busy) /\ ~(Quiet /\ Busy)
  BY <1>1, Numbering, Types DEF IInv
<1>9. TypeOK'
  BY <1>1, <1>3, <1>7, Types DEF IInv, TypeOK, Phases
<1>10. Marked'
  <2>1. \A t \in Ready(r) : Carries(t, op', m_cancel')
    BY <1>1, <1>2, <1>3, <1>4, RestMarked DEF IInv, Marked, Carries, Carriers, Timers
  <2> QED BY <1>1, <2>1 DEF Marked
<1>11. Flight'
  BY <1>1, <1>2, <1>3, <1>4, <1>7, <1>8 DEF IInv, Flight, HasOf, Carriers, Timers
<1>12. Timing'
  BY <1>1, <1>2, <1>3, <1>4, <1>7, <1>8 DEF IInv, Timing, HasOf, Carriers, Timers
<1>13. Phased'
  BY <1>1, <1>2, <1>3, <1>4, <1>7, <1>8 DEF IInv, Phased, HasOf, Writes, Connects, Carriers
<1>14. Bounded'
  BY <1>1 DEF IInv, Bounded
<1> QED BY <1>7, <1>9, <1>10, <1>11, <1>12, <1>13, <1>14 DEF IInv

\* An operation completes while the timer waits: its handler is stored.
LEMMA HandleIoWaitingKeeps == IInv /\ HandleIo /\ m_active /\ waiting => IInv'
<1> SUFFICES ASSUME IInv, HandleIo, m_active, waiting PROVE IInv'
  OBVIOUS
<1> DEFINE r == Tail(queue)
           h == Head(queue)
           x == <<"timer", 0, "aborted">>
<1>1. /\ queue # <<>> /\ h[1] = "io"
      /\ queue' = Append(r, x)
      /\ m_cancel' = <<h[2], h[3]>> /\ m_expire' = 0 /\ waiting' = FALSE
      /\ UNCHANGED <<phase, secure, iter, op, pending, handshake, writing, m_active, done,
                     ends, reads, writes>>
  BY DEF HandleIo, AtHead, HeadOp, HeadRes, CancelTimeout, AbortedWait, resolution, socket, user
<1>2. /\ r \in Seq(Tokens) /\ Sorted(r) /\ h \in Tokens
      /\ Ready(queue) = {h} \cup Ready(r)
      /\ \A n : Has(queue, n) <=> n = h[1] \/ Has(r, n)
      /\ \A n : Has(r, n) => Orderly(h[1], n)
  BY <1>1, Taken, Types DEF IInv
<1> HIDE DEF r, h
<1>3. /\ Busy /\ pending = {} /\ m_cancel = NoHandler /\ h[2] = op /\ op # 0
      /\ phase \in {"accepted", "open", "failed", "connecting"}
      /\ <<h[2], h[3]>> \in (0..MaxOps) \X {"ok", "err", "aborted"} /\ <<h[2], h[3]>> # NoHandler
  BY <1>1, <1>2, Numbering, Types
     DEF IInv, Marked, Carries, Flight, Timing, Phased, HasOf, Carriers, NoHandler
<1>4. \A n : Has(r, n) => n \notin Carriers \cup Timers
  BY <1>1, <1>2, <1>3
     DEF IInv, Flight, Timing, Phased, HasOf, Orderly, Carriers, Timers, Connects, Writes
<1>5. x \in Tokens
  BY <1>1, <1>2, <1>3, Types DEF IInv, Tokens
<1>6. \A n : Has(r, n) => Orderly(n, x[1])
  BY <1>4 DEF Orderly, Carriers, Connects, Timers
<1>7. /\ queue' \in Seq(Tokens) /\ InOrder'
      /\ Ready(queue') = Ready(r) \cup {x}
      /\ \A n : Has(queue', n) <=> n = "timer" \/ Has(r, n)
  BY <1>1, <1>2, <1>5, <1>6, Posted DEF InOrder
<1>8. (Quiet' <=> Quiet) /\ (Busy' <=> Busy) /\ ~(Quiet /\ Busy)
  BY <1>1, Numbering, Types DEF IInv
<1>9. TypeOK'
  BY <1>1, <1>3, <1>7, Types DEF IInv, TypeOK
<1>10. Marked'
  <2>1. \A t \in Ready(r) : Carries(t, op', m_cancel')
    BY <1>1, <1>2, <1>3, <1>4, RestMarked DEF IInv, Marked, Carries, Carriers, Timers
  <2>2. Carries(x, op', m_cancel')
    BY <1>1, <1>2, <1>3 DEF IInv, Marked, Carries, Carriers
  <2> QED BY <1>7, <2>1, <2>2 DEF Marked
<1>11. Flight'
  BY <1>1, <1>2, <1>3, <1>4, <1>7, <1>8 DEF IInv, Flight, HasOf, Carriers, Timers
<1>12. Timing'
  BY <1>1, <1>2, <1>3, <1>4, <1>7, <1>8 DEF IInv, Timing, HasOf, Carriers, Timers
<1>13. Phased'
  BY <1>1, <1>2, <1>3, <1>4, <1>7, <1>8 DEF IInv, Phased, HasOf, Writes, Connects, Carriers
<1>14. Bounded'
  BY <1>1 DEF IInv, Bounded
<1> QED BY <1>7, <1>9, <1>10, <1>11, <1>12, <1>13, <1>14 DEF IInv

\* An operation completes when the timer has expired but not yet run: its
\* handler is stored all the same.
LEMMA HandleIoLateKeeps == IInv /\ HandleIo /\ m_active /\ ~waiting => IInv'
<1> SUFFICES ASSUME IInv, HandleIo, m_active, ~waiting PROVE IInv'
  OBVIOUS
<1> DEFINE r == Tail(queue)
           h == Head(queue)
<1>1. /\ queue # <<>> /\ h[1] = "io"
      /\ queue' = r
      /\ m_cancel' = <<h[2], h[3]>> /\ m_expire' = 0 /\ waiting' = FALSE
      /\ UNCHANGED <<phase, secure, iter, op, pending, handshake, writing, m_active, done,
                     ends, reads, writes>>
  BY DEF HandleIo, AtHead, HeadOp, HeadRes, CancelTimeout, AbortedWait, resolution, socket, user
<1>2. /\ r \in Seq(Tokens) /\ Sorted(r) /\ h \in Tokens
      /\ Ready(queue) = {h} \cup Ready(r)
      /\ \A n : Has(queue, n) <=> n = h[1] \/ Has(r, n)
      /\ \A n : Has(r, n) => Orderly(h[1], n)
  BY <1>1, Taken, Types DEF IInv
<1> HIDE DEF r, h
<1>3. /\ Busy /\ pending = {} /\ m_cancel = NoHandler /\ h[2] = op /\ op # 0
      /\ phase \in {"accepted", "open", "failed", "connecting"}
      /\ <<h[2], h[3]>> \in (0..MaxOps) \X {"ok", "err", "aborted"} /\ <<h[2], h[3]>> # NoHandler
  BY <1>1, <1>2, Numbering, Types
     DEF IInv, Marked, Carries, Flight, Timing, Phased, HasOf, Carriers, NoHandler
<1>4. \A n : Has(r, n) => n \notin Carriers
  BY <1>1, <1>2, <1>3
     DEF IInv, Flight, Timing, Phased, HasOf, Orderly, Carriers, Timers, Connects, Writes
<1>7. queue' \in Seq(Tokens) /\ InOrder'
  BY <1>1, <1>2 DEF InOrder
<1>8. (Quiet' <=> Quiet) /\ (Busy' <=> Busy) /\ ~(Quiet /\ Busy)
  BY <1>1, Numbering, Types DEF IInv
<1>9. TypeOK'
  BY <1>1, <1>3, <1>7, Types DEF IInv, TypeOK
<1>10. Marked'
  <2>1. \A t \in Ready(r) : Carries(t, op', m_cancel')
    BY <1>1, <1>2, <1>3, <1>4, RestMarked DEF IInv, Marked, Carries, Carriers, Timers
  <2> QED BY <1>1, <2>1 DEF Marked
<1>11. Flight'
  BY <1>1, <1>2, <1>3, <1>4, <1>7, <1>8 DEF IInv, Flight, HasOf, Carriers, Timers
<1>12. Timing'
  BY <1>1, <1>2, <1>3, <1>4, <1>7, <1>8 DEF IInv, Timing, HasOf, Carriers, Timers
<1>13. Phased'
  BY <1>1, <1>2, <1>3, <1>4, <1>7, <1>8 DEF IInv, Phased, HasOf, Writes, Connects, Carriers
<1>14. Bounded'
  BY <1>1 DEF IInv, Bounded
<1> QED BY <1>7, <1>9, <1>10, <1>11, <1>12, <1>13, <1>14 DEF IInv

\* An operation completes after the timer: its handler is posted.
LEMMA HandleIoExpiredKeeps == IInv /\ HandleIo /\ ~m_active => IInv'
<1> SUFFICES ASSUME IInv, HandleIo, ~m_active PROVE IInv'
  OBVIOUS
<1> DEFINE r == Tail(queue)
           h == Head(queue)
           x == <<"cancel", h[2], h[3]>>
<1>1. /\ queue # <<>> /\ h[1] = "io"
      /\ queue' = Append(r, x)
      /\ m_cancel' = NoHandler /\ waiting' = FALSE
      /\ UNCHANGED <<phase, secure, iter, op, pending, handshake, writing, m_active, m_expire,
                     done, ends, reads, writes>>
  <2>1. queue # <<>> /\ h \in Tokens /\ r \in Seq(Tokens) /\ x \in Tokens
    BY Types, TailQueue DEF IInv, HandleIo, AtHead, Tokens
  <2>2. queue' = r \o <<>> \o <<x>>
    BY DEF IInv, Timing, HandleIo, HeadOp, HeadRes, CancelTimeout, AbortedWait
  <2>3. queue' = Append(r, x)
    BY <2>1, <2>2, Concatenated
  <2> QED BY <2>1, <2>3
          DEF HandleIo, AtHead, CancelTimeout, resolution, socket, user
<1>2. /\ r \in Seq(Tokens) /\ Sorted(r) /\ h \in Tokens
      /\ Ready(queue) = {h} \cup Ready(r)
      /\ \A n : Has(queue, n) <=> n = h[1] \/ Has(r, n)
      /\ \A n : Has(r, n) => Orderly(h[1], n)
  BY <1>1, Taken, Types DEF IInv
<1> HIDE DEF r, h
<1>3. /\ Busy /\ pending = {} /\ m_cancel = NoHandler /\ h[2] = op /\ op # 0
      /\ phase \in {"accepted", "open", "failed", "connecting"}
      /\ <<h[2], h[3]>> \in (0..MaxOps) \X {"ok", "err", "aborted"} /\ <<h[2], h[3]>> # NoHandler
      /\ m_expire = 0 /\ ~waiting
  BY <1>1, <1>2, Numbering, Types
     DEF IInv, Marked, Carries, Flight, Timing, Phased, HasOf, Carriers, NoHandler
<1>4. \A n : Has(r, n) => n \notin Carriers
  BY <1>1, <1>2, <1>3
     DEF IInv, Flight, Timing, Phased, HasOf, Orderly, Carriers, Timers, Connects, Writes
<1>5. x \in Tokens
  BY <1>1, <1>2, <1>3, Types DEF IInv, Tokens
<1>6. \A n : Has(r, n) => Orderly(n, x[1])
  BY <1>4 DEF Orderly, Carriers, Connects, Timers
<1>7. /\ queue' \in Seq(Tokens) /\ InOrder'
      /\ Ready(queue') = Ready(r) \cup {x}
      /\ \A n : Has(queue', n) <=> n = "cancel" \/ Has(r, n)
  BY <1>1, <1>2, <1>5, <1>6, Posted DEF InOrder
<1>8. (Quiet' <=> Quiet) /\ (Busy' <=> Busy) /\ ~(Quiet /\ Busy)
  BY <1>1, Numbering, Types DEF IInv
<1>9. TypeOK'
  BY <1>1, <1>3, <1>7, Types DEF IInv, TypeOK
<1>10. Marked'
  <2>1. \A t \in Ready(r) : Carries(t, op', m_cancel')
    BY <1>1, <1>2, <1>3, <1>4, RestMarked DEF IInv, Marked, Carries, Carriers, Timers
  <2>2. Carries(x, op', m_cancel')
    BY <1>1, <1>2, <1>3 DEF IInv, Marked, Carries, Carriers
  <2> QED BY <1>7, <2>1, <2>2 DEF Marked
<1>11. Flight'
  BY <1>1, <1>2, <1>3, <1>4, <1>7, <1>8 DEF IInv, Flight, HasOf, Carriers, Timers
<1>12. Timing'
  BY <1>1, <1>2, <1>3, <1>4, <1>7, <1>8 DEF IInv, Timing, HasOf, Carriers, Timers
<1>13. Phased'
  BY <1>1, <1>2, <1>3, <1>4, <1>7, <1>8 DEF IInv, Phased, HasOf, Writes, Connects, Carriers
<1>14. Bounded'
  BY <1>1 DEF IInv, Bounded
<1> QED BY <1>7, <1>9, <1>10, <1>11, <1>12, <1>13, <1>14 DEF IInv

\* An unsecured connection is made.
LEMMA ConnectedPlainKeeps == IInv /\ HandleConnectOk /\ ~secure => IInv'
<1> SUFFICES ASSUME IInv, HandleConnectOk, ~secure PROVE IInv'
  OBVIOUS
<1> DEFINE r == Tail(queue)
           h == Head(queue)
           x == <<"connected", 0, "ok">>
<1>1. /\ queue # <<>> /\ h[1] = "cancel"
      /\ queue' = Append(r, x)
      /\ done' = done \cup {h[2]} /\ phase = "connecting"
      /\ UNCHANGED <<phase, secure, iter, op, pending, handshake, writing, waiting, m_active,
                     m_expire, m_cancel, ends, reads, writes>>
  BY DEF HandleConnectOk, AtHead, HeadOp, HeadRes, ConnectCancelled, PostConnectCb, timeout, user
<1>2. /\ r \in Seq(Tokens) /\ Sorted(r) /\ h \in Tokens
      /\ Ready(queue) = {h} \cup Ready(r)
      /\ \A n : Has(queue, n) <=> n = h[1] \/ Has(r, n)
      /\ \A n : Has(r, n) => Orderly(h[1], n)
  BY <1>1, Taken, Types DEF IInv
<1> HIDE DEF r, h
<1>3. /\ Busy /\ ~m_active /\ m_expire = 0 /\ ~waiting /\ pending = {} /\ m_cancel = NoHandler
      /\ phase = "connecting" /\ ~handshake /\ h[2] = op
      /\ \A n : Has(r, n) => n \in Writes
  BY <1>1, AtCancel DEF IInv, Phased, AtHead, HeadOp, r, h
<1>4. \A n : Has(r, n) => n \notin Carriers \cup Timers \cup Connects
  BY <1>1, <1>2, <1>3
     DEF IInv, Flight, Timing, Phased, HasOf, Orderly, Carriers, Timers, Connects, Writes
<1>5. x \in Tokens
  BY <1>1, <1>2, <1>3, Types DEF IInv, Tokens
<1>6. \A n : Has(r, n) => Orderly(n, x[1])
  BY <1>4 DEF Orderly, Carriers, Connects, Timers
<1>7. /\ queue' \in Seq(Tokens) /\ InOrder'
      /\ Ready(queue') = Ready(r) \cup {x}
      /\ \A n : Has(queue', n) <=> n = "connected" \/ Has(r, n)
  BY <1>1, <1>2, <1>5, <1>6, Posted DEF InOrder
<1>8. Quiet' /\ ~Busy' /\ Busy /\ ~Quiet
  <2>1. done' = 1..op /\ op' = op /\ op \in Nat
    BY <1>1, <1>3, Numbering, Types DEF IInv
  <2>2. Quiet' /\ op' \in Nat
    BY <2>1 DEF Quiet
  <2> QED BY <2>1, <2>2, <1>3, Numbering DEF Quiet, Busy
<1>9. TypeOK'
  BY <1>1, <1>3, <1>7, Types, <1>8 DEF IInv, TypeOK, Quiet
<1>10. Marked'
  <2>1. \A t \in Ready(r) : Carries(t, op', m_cancel')
    BY <1>1, <1>2, <1>3, <1>4, RestMarked DEF IInv, Marked, Carries, Carriers, Timers
  <2>2. Carries(x, op', m_cancel')
    BY <1>1, <1>2, <1>3 DEF IInv, Marked, Carries, Carriers
  <2> QED BY <1>7, <2>1, <2>2 DEF Marked
<1>11. Flight'
  BY <1>1, <1>2, <1>3, <1>4, <1>7, <1>8 DEF IInv, Flight, HasOf, Carriers, Timers
<1>12. Timing'
  BY <1>1, <1>2, <1>3, <1>4, <1>7, <1>8 DEF IInv, Timing, HasOf, Carriers, Timers
<1>13. Phased'
  BY <1>1, <1>2, <1>3, <1>4, <1>7, <1>8 DEF IInv, Phased, HasOf, Writes, Connects, Carriers
<1>14. Bounded'
  BY <1>1 DEF IInv, Bounded
<1> QED BY <1>7, <1>9, <1>10, <1>11, <1>12, <1>13, <1>14 DEF IInv

\* A connection is made and the handshake starts.
LEMMA ConnectedSecureKeeps == IInv /\ HandleConnectOk /\ secure => IInv'
<1> SUFFICES ASSUME IInv, HandleConnectOk, secure PROVE IInv'
  OBVIOUS
<1> DEFINE r == Tail(queue)
           h == Head(queue)
<1>1. /\ queue # <<>> /\ h[1] = "cancel"
      /\ queue' = r
      /\ done' = done \cup {h[2]} /\ phase = "connecting"
      /\ handshake' = TRUE /\ phase' = "handshaking"
      /\ UNCHANGED <<secure, iter, op, pending, writing, waiting, m_active, m_expire, m_cancel,
                     ends, reads, writes>>
  BY DEF HandleConnectOk, AtHead, HeadOp, HeadRes, ConnectCancelled, StartHandshake, timeout, user
<1>2. /\ r \in Seq(Tokens) /\ Sorted(r) /\ h \in Tokens
      /\ Ready(queue) = {h} \cup Ready(r)
      /\ \A n : Has(queue, n) <=> n = h[1] \/ Has(r, n)
      /\ \A n : Has(r, n) => Orderly(h[1], n)
  BY <1>1, Taken, Types DEF IInv
<1> HIDE DEF r, h
<1>3. /\ Busy /\ ~m_active /\ m_expire = 0 /\ ~waiting /\ pending = {} /\ m_cancel = NoHandler
      /\ phase = "connecting" /\ ~handshake /\ h[2] = op
      /\ \A n : Has(r, n) => n \in Writes
  BY <1>1, AtCancel DEF IInv, Phased, AtHead, HeadOp, r, h
<1>4. \A n : Has(r, n) => n \notin Carriers \cup Timers \cup Connects \cup Writes
  BY <1>1, <1>2, <1>3
     DEF IInv, Flight, Timing, Phased, HasOf, Orderly, Carriers, Timers, Connects, Writes
<1>7. queue' \in Seq(Tokens) /\ InOrder'
  BY <1>1, <1>2 DEF InOrder
<1>8. Quiet' /\ ~Busy' /\ Busy /\ ~Quiet
  <2>1. done' = 1..op /\ op' = op /\ op \in Nat
    BY <1>1, <1>3, Numbering, Types DEF IInv
  <2>2. Quiet' /\ op' \in Nat
    BY <2>1 DEF Quiet
  <2> QED BY <2>1, <2>2, <1>3, Numbering DEF Quiet, Busy
<1>9. TypeOK'
  BY <1>1, <1>3, <1>7, Types, <1>8 DEF IInv, TypeOK, Quiet, Phases
<1>10. Marked'
  <2>1. \A t \in Ready(r) : Carries(t, op', m_cancel')
    BY <1>1, <1>2, <1>3, <1>4, RestMarked DEF IInv, Marked, Carries, Carriers, Timers
  <2> QED BY <1>1, <2>1 DEF Marked
<1>11. Flight'
  BY <1>1, <1>2, <1>3, <1>4, <1>7, <1>8 DEF IInv, Flight, HasOf, Carriers, Timers
<1>12. Timing'
  BY <1>1, <1>2, <1>3, <1>4, <1>7, <1>8 DEF IInv, Timing, HasOf, Carriers, Timers
<1>13. Phased'
  BY <1>1, <1>2, <1>3, <1>4, <1>7, <1>8 DEF IInv, Phased, HasOf, Writes, Connects, Carriers
<1>14. Bounded'
  BY <1>1 DEF IInv, Bounded
<1> QED BY <1>7, <1>9, <1>10, <1>11, <1>12, <1>13, <1>14 DEF IInv

\* The last endpoint failed.
LEMMA LastEndpointKeeps == IInv /\ HandleConnectErr /\ iter = 0 => IInv'
<1> SUFFICES ASSUME IInv, HandleConnectErr, iter = 0 PROVE IInv'
  OBVIOUS
<1> DEFINE r == Tail(queue)
           h == Head(queue)
           x == <<"connected", 0, "err">>
<1>1. /\ queue # <<>> /\ h[1] = "cancel"
      /\ queue' = Append(r, x)
      /\ done' = done \cup {h[2]} /\ phase = "connecting"
      /\ UNCHANGED <<phase, secure, iter, op, pending, handshake, writing, waiting, m_active,
                     m_expire, m_cancel, ends, reads, writes>>
  BY
     DEF HandleConnectErr, AtHead, HeadOp, HeadRes, TryEndpoint, ConnectCancelled,
         PostConnectCb, resolution, socket, timeout, user
<1>2. /\ r \in Seq(Tokens) /\ Sorted(r) /\ h \in Tokens
      /\ Ready(queue) = {h} \cup Ready(r)
      /\ \A n : Has(queue, n) <=> n = h[1] \/ Has(r, n)
      /\ \A n : Has(r, n) => Orderly(h[1], n)
  BY <1>1, Taken, Types DEF IInv
<1> HIDE DEF r, h
<1>3. /\ Busy /\ ~m_active /\ m_expire = 0 /\ ~waiting /\ pending = {} /\ m_cancel = NoHandler
      /\ phase = "connecting" /\ ~handshake /\ h[2] = op
      /\ \A n : Has(r, n) => n \in Writes
  BY <1>1, AtCancel DEF IInv, Phased, AtHead, HeadOp, r, h
<1>4. \A n : Has(r, n) => n \notin Carriers \cup Timers \cup Connects
  BY <1>1, <1>2, <1>3
     DEF IInv, Flight, Timing, Phased, HasOf, Orderly, Carriers, Timers, Connects, Writes
<1>5. x \in Tokens
  BY <1>1, <1>2, <1>3, Types DEF IInv, Tokens
<1>6. \A n : Has(r, n) => Orderly(n, x[1])
  BY <1>4 DEF Orderly, Carriers, Connects, Timers
<1>7. /\ queue' \in Seq(Tokens) /\ InOrder'
      /\ Ready(queue') = Ready(r) \cup {x}
      /\ \A n : Has(queue', n) <=> n = "connected" \/ Has(r, n)
  BY <1>1, <1>2, <1>5, <1>6, Posted DEF InOrder
<1>8. Quiet' /\ ~Busy' /\ Busy /\ ~Quiet
  <2>1. done' = 1..op /\ op' = op /\ op \in Nat
    BY <1>1, <1>3, Numbering, Types DEF IInv
  <2>2. Quiet' /\ op' \in Nat
    BY <2>1 DEF Quiet
  <2> QED BY <2>1, <2>2, <1>3, Numbering DEF Quiet, Busy
<1>9. TypeOK'
  BY <1>1, <1>3, <1>7, Types, <1>8 DEF IInv, TypeOK, Quiet
<1>10. Marked'
  <2>1. \A t \in Ready(r) : Carries(t, op', m_cancel')
    BY <1>1, <1>2, <1>3, <1>4, RestMarked DEF IInv, Marked, Carries, Carriers, Timers
  <2>2. Carries(x, op', m_cancel')
    BY <1>1, <1>2, <1>3 DEF IInv, Marked, Carries, Carriers
  <2> QED BY <1>7, <2>1, <2>2 DEF Marked
<1>11. Flight'
  BY <1>1, <1>2, <1>3, <1>4, <1>7, <1>8 DEF IInv, Flight, HasOf, Carriers, Timers
<1>12. Timing'
  BY <1>1, <1>2, <1>3, <1>4, <1>7, <1>8 DEF IInv, Timing, HasOf, Carriers, Timers
<1>13. Phased'
  BY <1>1, <1>2, <1>3, <1>4, <1>7, <1>8 DEF IInv, Phased, HasOf, Writes, Connects, Carriers
<1>14. Bounded'
  BY <1>1 DEF IInv, Bounded
<1> QED BY <1>7, <1>9, <1>10, <1>11, <1>12, <1>13, <1>14 DEF IInv

\* The name does not resolve.
LEMMA UnresolvedKeeps == IInv /\ HandleResolve /\ (HeadRes = "err" \/ iter = 0) => IInv'
<1> SUFFICES ASSUME IInv, HandleResolve, (HeadRes = "err" \/ iter = 0) PROVE IInv'
  OBVIOUS
<1> DEFINE r == Tail(queue)
           h == Head(queue)
           x == <<"connected", 0, "err">>
<1>1. /\ queue # <<>> /\ h[1] = "resolved"
      /\ queue' = Append(r, x)
      /\ UNCHANGED <<phase, secure, iter, op, pending, handshake, writing, waiting, m_active,
                     m_expire, m_cancel, done, ends, reads, writes>>
  BY
     DEF HandleResolve, AtHead, HeadOp, HeadRes, TryEndpoint, PostConnectCb, resolution,
         socket, timeout, user
<1>2. /\ r \in Seq(Tokens) /\ Sorted(r) /\ h \in Tokens
      /\ Ready(queue) = {h} \cup Ready(r)
      /\ \A n : Has(queue, n) <=> n = h[1] \/ Has(r, n)
      /\ \A n : Has(r, n) => Orderly(h[1], n)
  BY <1>1, Taken, Types DEF IInv
<1> HIDE DEF r, h
<1>3. /\ phase = "resolved" /\ Quiet /\ ~Busy /\ ~handshake
  BY <1>1, <1>2, Numbering, Types DEF IInv, Phased, Flight
<1>4. \A n : Has(r, n) => n \notin Carriers \cup Timers \cup Connects
  BY <1>1, <1>2, <1>3
     DEF IInv, Flight, Timing, Phased, HasOf, Orderly, Carriers, Timers, Connects, Writes
<1>5. x \in Tokens
  BY <1>1, <1>2, <1>3, Types DEF IInv, Tokens
<1>6. \A n : Has(r, n) => Orderly(n, x[1])
  BY <1>4 DEF Orderly, Carriers, Connects, Timers
<1>7. /\ queue' \in Seq(Tokens) /\ InOrder'
      /\ Ready(queue') = Ready(r) \cup {x}
      /\ \A n : Has(queue', n) <=> n = "connected" \/ Has(r, n)
  BY <1>1, <1>2, <1>5, <1>6, Posted DEF InOrder
<1>8. (Quiet' <=> Quiet) /\ (Busy' <=> Busy) /\ ~(Quiet /\ Busy)
  BY <1>1, Numbering, Types DEF IInv
<1>9. TypeOK'
  BY <1>1, <1>3, <1>7, Types DEF IInv, TypeOK
<1>10. Marked'
  <2>1. \A t \in Ready(r) : Carries(t, op', m_cancel')
    BY <1>1, <1>2, <1>3, <1>4, RestMarked DEF IInv, Marked, Carries, Carriers, Timers
  <2>2. Carries(x, op', m_cancel')
    BY <1>1, <1>2, <1>3 DEF IInv, Marked, Carries, Carriers
  <2> QED BY <1>7, <2>1, <2>2 DEF Marked
<1>11. Flight'
  BY <1>1, <1>2, <1>3, <1>4, <1>7, <1>8 DEF IInv, Flight, HasOf, Carriers, Timers
<1>12. Timing'
  BY <1>1, <1>2, <1>3, <1>4, <1>7, <1>8 DEF IInv, Timing, HasOf, Carriers, Timers
<1>13. Phased'
  BY <1>1, <1>2, <1>3, <1>4, <1>7, <1>8 DEF IInv, Phased, HasOf, Writes, Connects, Carriers
<1>14. Bounded'
  BY <1>1 DEF IInv, Bounded
<1> QED BY <1>7, <1>9, <1>10, <1>11, <1>12, <1>13, <1>14 DEF IInv

\* m_tcp_socket.cancel() aborts the operation and the write in flight.
LEMMA RunExpireKeeps == IInv /\ RunExpire => IInv'
<1> SUFFICES ASSUME IInv, RunExpire PROVE IInv'
  OBVIOUS
<1> DEFINE r == Tail(queue)
           h == Head(queue)
           x == <<"io", op, "aborted">>
           y == <<"written", 0, "aborted">>
           s == IF pending # {} THEN Append(r, x) ELSE r
           q == IF writing THEN Append(s, y) ELSE s
<1>1. /\ queue # <<>> /\ h[1] = "expire"
      /\ pending' = {} /\ writing' = FALSE
      /\ UNCHANGED <<phase, secure, iter, op, handshake, waiting, m_active, m_expire, m_cancel,
                     done, ends, reads, writes>>
  BY DEF RunExpire, AtHead, resolution, timeout, user
<1>2. /\ r \in Seq(Tokens) /\ Sorted(r) /\ h \in Tokens
      /\ Ready(queue) = {h} \cup Ready(r)
      /\ \A n : Has(queue, n) <=> n = h[1] \/ Has(r, n)
      /\ \A n : Has(r, n) => Orderly(h[1], n)
  BY <1>1, Taken, Types DEF IInv
<1>3. x \in Tokens /\ y \in Tokens
  BY Types DEF IInv, Tokens
<1>4. s \in Seq(Tokens) /\ q \in Seq(Tokens) /\ queue' = q
  <2>1. pending # {} => (CHOOSE n \in pending : TRUE) = op
    BY DEF IInv, Flight
  <2>2. r \o (IF pending # {} THEN <<<<"io", CHOOSE n \in pending : TRUE, "aborted">>>> ELSE <<>>)
          = s
    BY <1>2, <1>3, <2>1, Concatenated
  <2>3. s \in Seq(Tokens)
    BY <1>2, <1>3
  <2>4. s \o (IF writing THEN <<<<"written", 0, "aborted">>>> ELSE <<>>) = q
    BY <1>3, <2>3, Concatenated
  <2>5. q \in Seq(Tokens)
    BY <1>3, <2>3
  <2> QED BY <2>2, <2>3, <2>4, <2>5 DEF RunExpire
<1> HIDE DEF r, h
<1>5. Busy /\ ~Quiet /\ ~m_active /\ m_expire = 0 /\ ~waiting /\ m_cancel = NoHandler
  BY <1>1, <1>2, Numbering, Types DEF IInv, Flight, Timing, HasOf, Timers
<1>6. \A n : Has(r, n) => n \notin {"timer", "sized", "callback"}
  BY <1>1, <1>2, <1>5 DEF IInv, Timing, HasOf
<1>7. pending # {} => pending = {op} /\ \A n : Has(r, n) => n \notin Carriers
  BY <1>2 DEF IInv, Flight, HasOf
<1>8. /\ Sorted(s)
      /\ Ready(s) \subseteq Ready(r) \cup {x}
      /\ \A n : Has(s, n) <=> Has(r, n) \/ (n = "io" /\ pending # {})
  <2>1. CASE pending # {}
    <3>1. \A n : Has(r, n) => Orderly(n, x[1])
      BY <1>7, <2>1 DEF Orderly, Carriers, Connects
    <3> QED BY <1>2, <1>3, <2>1, <3>1, Posted
  <2>2. CASE pending = {}
    BY <1>2, <2>2
  <2> QED BY <2>1, <2>2
<1> HIDE DEF s
<1>9. /\ Sorted(q)
      /\ Ready(q) \subseteq Ready(r) \cup {x, y}
      /\ \A n : Has(q, n) <=> Has(s, n) \/ (n = "written" /\ writing)
  <2>1. CASE writing
    <3>1. \A n : Has(s, n) => Orderly(n, y[1])
      BY DEF Orderly, Carriers, Connects
    <3> QED BY <1>3, <1>4, <1>8, <2>1, <3>1, Posted
  <2>2. CASE ~writing
    BY <1>8, <2>2
  <2> QED BY <2>1, <2>2
<1> HIDE DEF q
<1>10. (Quiet' <=> Quiet) /\ (Busy' <=> Busy)
  BY <1>1, Numbering, Types DEF IInv
<1>11. TypeOK' /\ InOrder'
  BY <1>1, <1>4, <1>9 DEF IInv, TypeOK, InOrder
<1>12. Marked'
  <2>1. \A t \in Ready(r) : Carries(t, op', m_cancel')
    BY <1>1, <1>2 DEF IInv, Marked
  <2>2. Carries(x, op', m_cancel') /\ Carries(y, op', m_cancel')
    BY <1>1 DEF Carries, Carriers
  <2> QED BY <1>4, <1>9, <2>1, <2>2 DEF Marked
<1>13. Flight'
  BY <1>1, <1>2, <1>4, <1>5, <1>7, <1>8, <1>9, <1>10 DEF IInv, Flight, HasOf, Carriers, Timers
<1>14. Timing'
  BY <1>1, <1>2, <1>4, <1>5, <1>6, <1>8, <1>9 DEF IInv, Timing, HasOf
<1>15. Phased'
  BY <1>1, <1>2, <1>4, <1>5, <1>8, <1>9, <1>10 DEF IInv, Phased, HasOf, Writes
<1>16. Bounded'
  BY <1>1 DEF IInv, Bounded
<1> QED BY <1>11, <1>12, <1>13, <1>14, <1>15, <1>16 DEF IInv

\* An endpoint is tried when nothing else is on its way.
LEMMA TryEndpointKeeps ==
  ASSUME IInv, NEW q \in Seq(Tokens), Sorted(q), \A n : ~Has(q, n),
         TryEndpoint(q), done' = 1..op, UNCHANGED user,
         ~waiting, pending = {}, ~handshake, ~writing, ends = 0
  PROVE  IInv'
<1>1. /\ iter > 0 /\ iter' = iter - 1 /\ op' = op + 1
      /\ pending' = pending \cup {op + 1} /\ SetTimeout(op + 1, q)
      /\ phase' = "connecting"
      /\ UNCHANGED <<secure, handshake, writing, ends, reads, writes>>
  BY DEF TryEndpoint, user
<1>2. /\ queue' = q /\ InOrder' /\ Marked' /\ Flight' /\ Timing' /\ Busy' /\ ~Quiet'
      /\ m_expire' = op + 1 /\ m_cancel' = NoHandler /\ m_active' = TRUE /\ waiting' = TRUE
  BY <1>1, Starts
<1>3. iter' \in 0..MaxEndpoints /\ op' \in 0..MaxOps /\ op + 1 \in 1..op' /\ Bounded'
  <2>1. /\ op \in Nat /\ iter \in Nat /\ iter <= MaxEndpoints /\ reads \in Nat /\ reads <= MaxReads
        /\ MaxReads \in Nat /\ MaxEndpoints \in Nat
    BY Types DEF IInv
  <2>2. op + iter <= MaxEndpoints + reads
    BY DEF IInv, Bounded
  <2>3. op + 1 + (iter - 1) <= MaxEndpoints + reads
    BY <2>1, <2>2
  <2> QED BY <1>1, <2>1, <2>2, <2>3 DEF Bounded, MaxOps
<1>4. done' \subseteq 1..op' /\ pending' \subseteq 1..op'
  BY <1>1, <1>3, Types DEF IInv
<1>5. TypeOK'
  BY <1>1, <1>2, <1>3, <1>4, Types DEF IInv, TypeOK, Phases
<1>6. Phased'
  BY <1>1, <1>2 DEF IInv, Phased, HasOf
<1> QED BY <1>2, <1>3, <1>5, <1>6 DEF IInv

\* The name resolves and the first endpoint is tried.
LEMMA ResolvedKeeps == IInv /\ HandleResolve => IInv'
<1> SUFFICES ASSUME IInv, HandleResolve, ~(HeadRes = "err" \/ iter = 0) PROVE IInv'
  BY UnresolvedKeeps
<1> DEFINE r == Tail(queue)
           h == Head(queue)
<1>1. queue # <<>> /\ h[1] = "resolved" /\ TryEndpoint(r) /\ UNCHANGED <<done, user>>
  BY DEF HandleResolve, AtHead
<1>2. /\ r \in Seq(Tokens) /\ Sorted(r) /\ h \in Tokens
      /\ Ready(queue) = {h} \cup Ready(r)
      /\ \A n : Has(queue, n) <=> n = h[1] \/ Has(r, n)
      /\ \A n : Has(r, n) => Orderly(h[1], n)
  BY <1>1, Taken, Types DEF IInv
<1> HIDE DEF r, h
<1>3. phase = "resolved" /\ Quiet /\ ~Busy /\ ~handshake /\ ~writing /\ ends = 0
  BY <1>1, <1>2, Numbering, Types DEF IInv, Phased, Flight
<1>4. pending = {} /\ ~waiting /\ done' = 1..op
  BY <1>1, <1>3 DEF IInv, Flight, Quiet
<1>5. \A n : Has(r, n) => n \notin Carriers \cup Timers \cup Connects \cup Writes
  BY <1>1, <1>2, <1>3 DEF IInv, Flight, Phased, HasOf, Orderly, Connects, Writes
<1>6. \A n : Has(r, n) => n \in Carriers \cup Timers \cup Connects \cup Writes
  BY <1>2, RestMarked DEF Has, Tokens, Carriers, Timers, Connects, Writes
<1> QED BY <1>1, <1>2, <1>3, <1>4, <1>5, <1>6, TryEndpointKeeps

\* An endpoint failed and the next one is tried.
LEMMA HandleConnectErrKeeps == IInv /\ HandleConnectErr => IInv'
<1> SUFFICES ASSUME IInv, HandleConnectErr, iter # 0 PROVE IInv'
  BY LastEndpointKeeps
<1>1. /\ AtHead("cancel") /\ phase = "connecting" /\ TryEndpoint(Tail(queue))
      /\ done' = done \cup {HeadOp} /\ UNCHANGED user
  BY DEF HandleConnectErr, ConnectCancelled
<1>2. /\ Busy /\ HeadOp = op /\ ~waiting /\ pending = {}
      /\ \A n : Has(Tail(queue), n) => n \in Writes
  BY <1>1, AtCancel
<1>3. Tail(queue) \in Seq(Tokens) /\ Sorted(Tail(queue))
      /\ \A n : Has(queue, n) <=> n = Head(queue)[1] \/ Has(Tail(queue), n)
  BY <1>1, Taken, Types DEF IInv, AtHead
<1>4. ~handshake /\ ~writing /\ ends = 0 /\ \A n : ~Has(Tail(queue), n)
  BY <1>1, <1>2, <1>3 DEF IInv, Phased, HasOf
<1>5. done' = 1..op
  BY <1>1, <1>2, Numbering, Types DEF IInv
<1> QED BY <1>1, <1>2, <1>3, <1>4, <1>5, TryEndpointKeeps

\* A read starts.
LEMMA AsyncReadKeeps == IInv /\ AsyncRead => IInv'
<1> SUFFICES ASSUME IInv, AsyncRead PROVE IInv'
  OBVIOUS
<1>1. /\ phase \in {"accepted", "open"} /\ Quiet /\ reads < MaxReads /\ reads' = reads + 1
      /\ op' = op + 1 /\ pending' = pending \cup {op + 1} /\ SetTimeout(op + 1, queue)
      /\ UNCHANGED <<phase, secure, iter, handshake, writing, done, ends, writes>>
  BY DEF AsyncRead, Usable, resolution
<1>2. ~waiting /\ pending = {} /\ done' = 1..op /\ ~Busy
  BY <1>1, Numbering, Types DEF IInv, Flight, Quiet
<1>3. \A n : Has(queue, n) => n \notin Carriers \cup Timers
  BY <1>2 DEF IInv, Flight, HasOf
<1>4. /\ queue' = queue /\ InOrder' /\ Marked' /\ Flight' /\ Timing' /\ Busy' /\ ~Quiet'
      /\ m_expire' = op + 1 /\ m_cancel' = NoHandler /\ m_active' = TRUE /\ waiting' = TRUE
  BY <1>1, <1>2, <1>3, Starts, Types DEF IInv, InOrder
<1>5. op' \in 0..MaxOps /\ op + 1 \in 1..op' /\ reads' \in 0..MaxReads /\ Bounded'
  <2>1. op \in Nat /\ iter \in Nat /\ reads \in Nat /\ MaxReads \in Nat /\ MaxEndpoints \in Nat
    BY Types DEF IInv
  <2>2. op + iter <= MaxEndpoints + reads
    BY DEF IInv, Bounded
  <2>3. op + 1 + iter <= MaxEndpoints + (reads + 1)
    BY <2>1, <2>2
  <2> QED BY <1>1, <2>1, <2>2, <2>3 DEF Bounded, MaxOps
<1>6. done' \subseteq 1..op' /\ pending' \subseteq 1..op'
  BY <1>1, <1>2, <1>5, Types DEF IInv
<1>7. TypeOK'
  BY <1>1, <1>4, <1>5, <1>6, Types DEF IInv, TypeOK
<1>8. Phased'
  BY <1>1, <1>2, <1>3, <1>4, EmptyQueue, Types DEF IInv, Phased, HasOf
<1> QED BY <1>4, <1>5, <1>7, <1>8 DEF IInv

\* A step that touches neither the operations nor the timer nor the queue.
LEMMA Undisturbed ==
  ASSUME IInv, UNCHANGED <<queue, iter, op, pending, timeout, done, ends, reads>>,
         secure' \in BOOLEAN, handshake' \in BOOLEAN, writing' \in BOOLEAN,
         phase' \in Phases, writes' \in 0..MaxWrites, Phased'
  PROVE  IInv'
<1>1. UNCHANGED <<queue, iter, op, pending, waiting, m_active, m_expire, m_cancel, done, ends,
                  reads>>
  BY DEF timeout
<1>2. TypeOK'
  BY <1>1 DEF IInv, TypeOK
<1>3. (InOrder /\ Marked /\ Bounded)'
  BY <1>1 DEF IInv, InOrder, Marked, Bounded
<1>4. (Flight /\ Timing)'
  BY <1>1 DEF IInv, Flight, Timing, HasOf, Quiet, Busy
<1> QED BY <1>2, <1>3, <1>4 DEF IInv

\* When all callbacks of the user have run there is no handler left.
LEMMA IdleIsEmpty ==
  ASSUME IInv, Idle \/ phase \in {"new", "closed"}
  PROVE  queue = <<>> /\ ~waiting /\ pending = {} /\ ~handshake /\ ~writing /\ Quiet
<1>1. CASE phase = "closed"
  <2>1. Quiet
    BY <1>1 DEF IInv, Flight, Phased
  <2> QED BY <1>1, <2>1 DEF IInv, Flight, Phased
<1>2. CASE phase # "closed"
  <2>1. Quiet /\ phase \in {"new", "accepted", "open", "failed"}
    BY <1>2 DEF IInv, Flight, Phased, Idle
  <2>2. ~Busy /\ pending = {} /\ ~waiting /\ ~handshake
    BY <2>1, Numbering, Types DEF IInv, Flight, Phased
  <2>3. ~writing /\ \A n \in Writes : ~Has(queue, n)
    <3>1. CASE phase = "new"
      BY <3>1 DEF IInv, Phased, HasOf
    <3>2. CASE Idle
      BY <3>2 DEF Idle, NoWrite, Has, Ready, Writes
    <3> QED BY <1>2, <3>1, <3>2
  <2>4. \A n : Has(queue, n) => n \notin Carriers \cup Timers \cup Connects \cup Writes
    BY <2>1, <2>2, <2>3 DEF IInv, Flight, Phased, HasOf, Connects
  <2>5. \A n : Has(queue, n) => n \in Carriers \cup Timers \cup Connects \cup Writes
    BY RestMarked, Types DEF IInv, Has, Tokens, Carriers, Timers, Connects, Writes
  <2>6. queue = <<>>
    BY <2>4, <2>5, EmptyQueue, Types DEF IInv
  <2> QED BY <2>1, <2>2, <2>3, <2>6
<1> QED BY <1>1, <1>2

\* What the user does apart from reading.
LEMMA UserKeeps ==
  IInv /\ (AsyncConnect \/ AsyncHandshake \/ AsyncWrite \/ Close \/ Destroyed) => IInv'
<1> SUFFICES ASSUME IInv, AsyncConnect \/ AsyncHandshake \/ AsyncWrite \/ Close \/ Destroyed
             PROVE  IInv'
  OBVIOUS
<1> USE Numbering, Types DEF IInv, resolution, socket, user, timeout
<1>1. CASE AsyncConnect
  <2>1. (Quiet' <=> Quiet) /\ (Busy' <=> Busy)
    BY <1>1 DEF AsyncConnect
  <2>2. Phased'
    BY <1>1, <2>1 DEF AsyncConnect, Phased, HasOf
  <2> QED BY <1>1, <2>2, Undisturbed DEF AsyncConnect, TypeOK, Phases
<1>2. CASE AsyncHandshake
  <2>1. (Quiet' <=> Quiet) /\ (Busy' <=> Busy) /\ Quiet /\ ~Busy /\ queue = <<>> /\ ~writing
    BY <1>2, IdleIsEmpty DEF AsyncHandshake, Idle
  <2>2. \A n : ~Has(queue, n)
    BY <2>1, EmptyQueue
  <2>3. Phased'
    BY <1>2, <2>1, <2>2 DEF AsyncHandshake, StartHandshake, Phased, HasOf
  <2> QED BY <1>2, <2>3, Undisturbed DEF AsyncHandshake, StartHandshake, TypeOK, Phases
<1>3. CASE AsyncWrite
  <2>1. (Quiet' <=> Quiet) /\ (Busy' <=> Busy)
    BY <1>3 DEF AsyncWrite
  <2>2. Phased'
    BY <1>3, <2>1 DEF AsyncWrite, Usable, Phased, HasOf
  <2>3. writes' \in 0..MaxWrites
    BY <1>3, BoundsAssumption, SMTT(30) DEF AsyncWrite, TypeOK
  <2> QED BY <1>3, <2>2, <2>3, Undisturbed DEF AsyncWrite, TypeOK
<1>4. CASE Close \/ Destroyed
  <2>1. queue = <<>> /\ ~writing /\ ~handshake /\ Quiet /\ ~Busy
    BY <1>4, IdleIsEmpty DEF Close, Destroyed
  <2>2. (Quiet' <=> Quiet) /\ (Busy' <=> Busy)
    BY <1>4 DEF Close, Destroyed
  <2>3. \A n : ~Has(queue, n)
    BY <2>1, EmptyQueue
  <2>4. Phased'
    BY <1>4, <2>1, <2>2, <2>3 DEF Close, Destroyed, Idle, Phased, HasOf
  <2> QED BY <1>4, <2>4, Undisturbed DEF Close, Destroyed, TypeOK, Phases
<1> QED BY <1>1, <1>2, <1>3, <1>4

-----------------------------------------------------------------------------
(* The invariant and the theorems.                                          *)

\* A new connection, whatever Timeout::m_active happens to be.
LEMMA InitInv == Init => IInv
<1> SUFFICES ASSUME Init PROVE IInv
  OBVIOUS
<1>1. queue = <<>> /\ queue \in Seq(Tokens)
  BY DEF Init
<1>2. Ready(queue) = {} /\ \A n : ~Has(queue, n)
  BY <1>1 DEF Ready, Has
<1>3. InOrder /\ Marked
  BY <1>1, <1>2 DEF InOrder, Sorted, Precedes, Marked
<1>4. op = 0 /\ done = {} /\ Quiet /\ ~Busy
  BY DEF Init, Quiet, Busy
<1>5. Flight
  BY <1>2, <1>4 DEF Init, Flight, HasOf
<1>6. Timing /\ Phased
  BY <1>2, <1>4 DEF Init, Timing, Phased, HasOf
<1>7. /\ MaxOps \in Nat /\ NoHandler \in (0..MaxOps) \X {"ok", "err", "aborted"}
      /\ MaxEndpoints \in Nat /\ MaxReads \in Nat /\ MaxWrites \in Nat
  BY BoundsAssumption DEF MaxOps, NoHandler
<1>8. Bounded
  BY <1>7 DEF Init, Bounded
<1>9. TypeOK
  <2>1. phase \in Phases /\ secure \in BOOLEAN /\ handshake \in BOOLEAN /\ writing \in BOOLEAN
        /\ waiting \in BOOLEAN /\ m_active \in BOOLEAN
    BY DEF Init, Phases
  <2> QED BY <1>1, <1>4, <1>7, <2>1 DEF Init, TypeOK
<1> QED BY <1>3, <1>5, <1>6, <1>8, <1>9 DEF IInv

\* Every step keeps the invariant.
LEMMA NextInv == IInv /\ [Next]_vars => IInv'
<1> SUFFICES ASSUME IInv, [Next]_vars PROVE IInv'
  OBVIOUS
<1>1. CASE IoStep
  <2>1. CASE HandleIo
    BY <2>1, HandleIoWaitingKeeps, HandleIoLateKeeps, HandleIoExpiredKeeps
  <2>2. CASE HandleConnectOk
    BY <2>2, ConnectedPlainKeeps, ConnectedSecureKeeps
  <2>3. CASE HandleTimeoutAborted \/ HandleTimeoutExpired \/ HandleTimeoutLate \/ RunExpire
    BY <2>3, HandleTimeoutAbortedKeeps, HandleTimeoutExpiredKeeps, HandleTimeoutLateKeeps,
       RunExpireKeeps
  <2>4. CASE HandleResolve \/ HandleConnectErr \/ HandleHandshake \/ ConnectCallback
    BY <2>4, ResolvedKeeps, HandleConnectErrKeeps, HandleHandshakeKeeps, ConnectCallbackKeeps
  <2>5. CASE PostReadCb \/ SetSize \/ ReadCallback \/ PostWriteCb \/ WriteCallback
    BY <2>5, PostReadCbKeeps, SetSizeKeeps, ReadCallbackKeeps, PostWriteCbKeeps, WriteCallbackKeeps
  <2> QED BY <1>1, <2>1, <2>2, <2>3, <2>4, <2>5 DEF IoStep
<1>2. CASE Environment
  BY <1>2, TimerExpiresKeeps, ResolvesKeeps, SocketCompletesKeeps, WriteCompletesKeeps,
     HandshakeCompletesKeeps, AsyncReadKeeps, UserKeeps DEF Environment
<1>3. CASE UNCHANGED vars
  <2>1. UNCHANGED <<queue, phase, secure, iter, op, pending, handshake, writing, waiting, m_active,
                    m_expire, m_cancel, done, ends, reads, writes>>
    BY <1>3 DEF vars, resolution, socket, timeout, user
  <2>2. TypeOK' /\ InOrder' /\ Marked' /\ Bounded'
    BY <2>1 DEF IInv, TypeOK, InOrder, Marked, Bounded
  <2>3. Flight' /\ Timing' /\ Phased'
    BY <2>1 DEF IInv, Flight, Timing, Phased, HasOf, Quiet, Busy
  <2> QED BY <2>2, <2>3 DEF IInv
<1> QED BY <1>1, <1>2, <1>3 DEF Next

\* The inductive invariant holds in every state of a connection.
THEOREM Invariance == Spec => []IInv
  BY InitInv, NextInv, PTL DEF Spec

\* The variables of a connection keep their types; in particular async_connect
\* tries at most as many endpoints as the resolver returned.
THEOREM TypeCorrect == Spec => []TypeOK
<1>1. IInv => TypeOK
  BY DEF IInv
<1> QED BY <1>1, Invariance, PTL

\* The assertions in Timeout::cancel_timeout and p_handle_timeout never fail.
THEOREM TimeoutAssertsHold == Spec => []TimeoutAsserts
<1>1. IInv => TimeoutAsserts
  <2> SUFFICES ASSUME IInv, queue # <<>> PROVE TimeoutAsserts
    BY DEF TimeoutAsserts, AtHead
  <2>1. Head(queue) \in Ready(queue) /\ Has(queue, Head(queue)[1])
    BY Taken, Types DEF IInv
  <2> QED BY <2>1 DEF IInv, TimeoutAsserts, AtHead, HeadRes, Timing, Marked, Carries
<1> QED BY <1>1, Invariance, PTL

\* A handler given to cancel_timeout runs when I/O and timeout are both over,
\* and a connection that was closed or let go has no handler left.
THEOREM QuietHolds == Spec => []QuietWhenDelivered
<1>1. IInv => QuietWhenDelivered
  <2> SUFFICES ASSUME IInv PROVE QuietWhenDelivered
    OBVIOUS
  <2>1. ASSUME AtHead("cancel")
        PROVE  /\ ~waiting /\ m_expire = 0 /\ pending = {}
               /\ Queued({"timer", "expire"}) = {}
    <3>1. /\ ~waiting /\ m_expire = 0 /\ pending = {}
          /\ \A n : Has(Tail(queue), n) => n \in Writes
      BY <2>1, AtCancel
    <3>2. \A n : Has(queue, n) => n = "cancel" \/ Has(Tail(queue), n)
      BY <2>1, Taken, Types DEF IInv, AtHead
    <3>3. ~Has(queue, "timer") /\ ~Has(queue, "expire")
      BY <3>1, <3>2 DEF Writes
    <3>4. Queued({"timer", "expire"}) = {}
      BY <3>3 DEF Queued, Has, Ready
    <3> QED BY <3>1, <3>4
  <2>2. ASSUME phase \in {"closed", "destroyed"}
        PROVE  queue = <<>> /\ ~waiting /\ pending = {} /\ ~handshake /\ ~writing
    BY <2>2 DEF IInv, Phased, Flight
  <2> QED BY <2>1, <2>2 DEF QuietWhenDelivered
<1> QED BY <1>1, Invariance, PTL

\* Two places in the queue are the same if their handlers may not follow each
\* other.
LEMMA SamePlace ==
  ASSUME IInv, NEW i \in DOMAIN queue, NEW j \in DOMAIN queue,
         ~Orderly(queue[i][1], queue[j][1]), ~Orderly(queue[j][1], queue[i][1])
  PROVE  i = j
<1>1. i \in Nat /\ j \in Nat
  BY Types, SMTT(30) DEF IInv
<1>2. ~(i < j) /\ ~(j < i)
  BY DEF IInv, InOrder, Sorted, Precedes
<1> QED BY <1>1, <1>2

\* How many handlers have a name that only place i can have.
LEMMA CountOne ==
  ASSUME NEW name, NEW i \in DOMAIN queue,
         \A j \in DOMAIN queue : queue[j][1] = name => i = j
  PROVE  Count(name) = IF queue[i][1] = name THEN 1 ELSE 0
<1>1. CASE queue[i][1] = name
  <2>1. {j \in DOMAIN queue : queue[j][1] = name} = {i}
    BY <1>1
  <2> QED BY <1>1, <2>1, FS_Singleton DEF Count
<1>2. CASE queue[i][1] # name
  <2>1. {j \in DOMAIN queue : queue[j][1] = name} = {}
    BY <1>2
  <2> QED BY <1>2, <2>1, FS_EmptySet DEF Count
<1> QED BY <1>1, <1>2

\* No handler of this name.
LEMMA CountNone ==
  ASSUME NEW name, \A j \in DOMAIN queue : queue[j][1] # name
  PROVE  Count(name) = 0
<1>1. {j \in DOMAIN queue : queue[j][1] = name} = {}
  OBVIOUS
<1> QED BY <1>1, FS_EmptySet DEF Count

\* The outcome of every timed operation that has been started and not acted upon
\* is in exactly one place.
THEOREM SingleFlightHolds == Spec => []SingleFlight
<1>1. IInv => SingleFlight
  <2> SUFFICES ASSUME IInv PROVE SingleFlight
    OBVIOUS
  <2>1. \A i \in DOMAIN queue : queue[i] \in Ready(queue)
    BY DEF Ready
  <2>2. \A i \in DOMAIN queue : queue[i][1] \in Carriers => queue[i][2] = op
    BY <2>1 DEF IInv, Marked, Carries
  <2>3. HasOf(Carriers) <=> \E i \in DOMAIN queue : queue[i][1] \in Carriers
    BY DEF HasOf, Has, Ready
  <2>4. Stored = IF m_cancel = NoHandler THEN {} ELSE {op}
    BY DEF IInv, Flight, Stored
  <2>5. (1..op) \ done = pending \cup Queued(Carriers) \cup Stored
    <3>1. Queued(Carriers) = IF HasOf(Carriers) THEN {op} ELSE {}
      BY <2>2, <2>3 DEF Queued
    <3>2. CASE Quiet
      <4>1. ~Busy /\ (1..op) \ done = {}
        BY <3>2, Numbering, Types DEF IInv
      <4>2. pending = {} /\ m_cancel = NoHandler /\ ~HasOf(Carriers)
        BY <3>2, <4>1 DEF IInv, Flight, HasOf
      <4> QED BY <2>4, <3>1, <4>1, <4>2
    <3>3. CASE Busy
      <4>1. (1..op) \ done = {op}
        BY <3>3, Numbering, Types DEF IInv
      <4>2. /\ pending = {} \/ pending = {op}
            /\ pending # {} \/ m_cancel # NoHandler \/ HasOf(Carriers)
        BY <3>3 DEF IInv, Flight
      <4> QED BY <2>4, <3>1, <4>1, <4>2
    <3> QED BY <3>2, <3>3 DEF IInv, Flight
  <2>6. Cardinality(pending) = (IF pending = {} THEN 0 ELSE 1)
    <3>1. pending = {} \/ pending = {op}
      BY DEF IInv, Flight
    <3> QED BY <3>1, FS_EmptySet, FS_Singleton
  <2>7. Cardinality(Stored) = (IF m_cancel = NoHandler THEN 0 ELSE 1)
    BY <2>4, FS_EmptySet, FS_Singleton
  <2>8. Cardinality(pending) + Cardinality(Stored)
          + Count("io") + Count("cancel") + Count("sized") + Count("callback") <= 1
    <3>1. CASE \E i \in DOMAIN queue : queue[i][1] \in Carriers
      <4>1. PICK i \in DOMAIN queue : queue[i][1] \in Carriers
        BY <3>1
      <4>2. pending = {} /\ m_cancel = NoHandler
        BY <2>3, <3>1 DEF IInv, Flight
      <4>3. \A j \in DOMAIN queue : queue[j][1] \in Carriers => i = j
        BY <4>1, SamePlace DEF Orderly
      <4>4. \A name \in Carriers : Count(name) = IF queue[i][1] = name THEN 1 ELSE 0
        BY <4>3, CountOne
      <4>5. /\ Count("io") = IF queue[i][1] = "io" THEN 1 ELSE 0
            /\ Count("cancel") = IF queue[i][1] = "cancel" THEN 1 ELSE 0
            /\ Count("sized") = IF queue[i][1] = "sized" THEN 1 ELSE 0
            /\ Count("callback") = IF queue[i][1] = "callback" THEN 1 ELSE 0
        BY <4>4 DEF Carriers
      <4> QED BY <2>6, <2>7, <4>2, <4>5
    <3>2. CASE ~ \E i \in DOMAIN queue : queue[i][1] \in Carriers
      <4>1. Count("io") = 0 /\ Count("cancel") = 0 /\ Count("sized") = 0 /\ Count("callback") = 0
        BY <3>2, CountNone DEF Carriers
      <4>2. pending = {} \/ m_cancel = NoHandler
        BY DEF IInv, Flight
      <4> QED BY <2>6, <2>7, <4>1, <4>2
    <3> QED BY <3>1, <3>2
  <2> QED BY <2>5, <2>8 DEF SingleFlight
<1> QED BY <1>1, Invariance, PTL

\* The connect callback is posted once, after the last attempt and the handshake.
THEOREM ConnectOnceHolds == Spec => []ConnectOnce
<1>1. IInv => ConnectOnce
  <2> SUFFICES ASSUME IInv PROVE ConnectOnce
    OBVIOUS
  <2> DEFINE C == {"connected", "handshaken"}
  <2>1. HasOf(C) <=> \E i \in DOMAIN queue : queue[i][1] \in C
    BY DEF HasOf, Has, Ready
  <2>2. CASE \E i \in DOMAIN queue : queue[i][1] \in C
    <3>1. PICK i \in DOMAIN queue : queue[i][1] \in C
      BY <2>2
    <3>2. ends = 0 /\ ~handshake
      BY <2>1, <2>2 DEF IInv, Phased, HasOf
    <3>3. \A j \in DOMAIN queue : queue[j][1] \in C => i = j
      BY <3>1, SamePlace DEF Orderly, Connects
    <3>4. /\ Count("connected") = IF queue[i][1] = "connected" THEN 1 ELSE 0
          /\ Count("handshaken") = IF queue[i][1] = "handshaken" THEN 1 ELSE 0
      BY <3>3, CountOne
    <3>5. queue[i][1] = "connected" => Quiet
      BY DEF IInv, Phased, Has, Ready
    <3> QED BY <3>2, <3>4, <3>5 DEF ConnectOnce
  <2>3. CASE ~ \E i \in DOMAIN queue : queue[i][1] \in C
    <3>1. Count("connected") = 0 /\ Count("handshaken") = 0
      BY <2>3, CountNone
    <3>2. /\ ends \in {0, 1}
          /\ ends = 1 => ~handshake /\ phase # "connecting"
      BY DEF IInv, Phased
    <3> QED BY <3>1, <3>2 DEF ConnectOnce
  <2> QED BY <2>2, <2>3
<1> QED BY <1>1, Invariance, PTL
=============================================================================
