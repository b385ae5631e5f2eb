---------------------------- MODULE TunnelProofs ----------------------------
(***************************************************************************)
(* Proofs about Tunnel for any number of blocks: its type invariant, when  *)
(* and with what the TunnelHandler calls back, and the order in which each *)
(* half forwards.                                                          *)
(***************************************************************************)
EXTENDS Tunnel, TLAPS

\* m_first_err and finished agree, and what was reported is the first error.
FirstKept ==
  /\ m_first_err = "ok" <=> finished = <<>>
  /\ finished # <<>> => m_first_err = finished[1][2]
  /\ reported # <<>> => finished # <<>> /\ reported[1] = finished[1][2]

\* Where the last block read by half h is: in its buffer, or written.
Held(h) ==
  /\ \A i \in 1..Len(out[h]) : out[h][i] = i
  /\ op[h] = "idle" => taken[h] = Len(out[h])
  /\ op[h] = "read" /\ result[h] # "ok" => taken[h] = Len(out[h])
  /\ op[h] = "read" /\ result[h] = "ok" => taken[h] = Len(out[h]) + 1 /\ m_buffer[h] = taken[h]
  /\ op[h] = "write" /\ result[h] # "ok" => taken[h] = Len(out[h]) + 1 /\ m_buffer[h] = taken[h]
  /\ op[h] = "write" /\ result[h] = "ok" => taken[h] = Len(out[h])
  /\ op[h] = "done" => taken[h] \in {Len(out[h]), Len(out[h]) + 1}

\* The inductive invariant.
IInv == TypeOK /\ CallbackWhenQuiet /\ FirstKept /\ \A h \in Halves : Held(h)

\* The two halves are each other's other half.
LEMMA OtherHalf ==
  /\ Other("up") = "down" /\ Other("down") = "up"
  /\ \A h \in Halves : Other(h) \in Halves /\ Other(h) # h
                       /\ \A g \in Halves : g = h \/ g = Other(h)
  BY DEF Other, Halves

\* What the type invariant says of one half.
LEMMA HalfType ==
  ASSUME TypeOK, NEW h \in Halves
  PROVE  /\ sent[h] \in Nat /\ sent[h] <= MaxBlocks
         /\ taken[h] \in Nat /\ taken[h] <= MaxBlocks
         /\ m_buffer[h] \in Nat
         /\ out[h] \in Seq(1..MaxBlocks) /\ Len(out[h]) \in Nat
         /\ DOMAIN out[h] = 1..Len(out[h])
         /\ op[h] \in {"idle", "read", "write", "done"}
<1>1. sent[h] \in 0..MaxBlocks /\ taken[h] \in 0..MaxBlocks /\ m_buffer[h] \in 0..MaxBlocks
  BY DEF TypeOK
<1>2. out[h] \in Seq(1..MaxBlocks) /\ op[h] \in {"idle", "read", "write", "done"}
  BY DEF TypeOK
<1> QED BY <1>1, <1>2, BlocksAssumption

\* The inductive invariant holds before the tunnel starts.
LEMMA InitInv == Init => IInv
  BY BlocksAssumption DEF Init, IInv, TypeOK, CallbackWhenQuiet, FirstKept, Held, Halves, Errors

\* A half that finishes reports if it is the last one, with the first error.
LEMMA HalfDoneKeeps ==
  ASSUME TypeOK, CallbackWhenQuiet, FirstKept,
         NEW h \in Halves, NEW err \in Errors, op[h] \in {"read", "write"},
         HalfDone(h, err)
  PROVE  /\ op' \in [Halves -> {"idle", "read", "write", "done"}]
         /\ m_first_err' \in {"ok"} \cup Errors
         /\ finished' \in Seq(Halves \X Errors)
         /\ reported' \in Seq({"ok"} \cup Errors)
         /\ CallbackWhenQuiet'
         /\ FirstKept'
<1> USE DEF HalfDone, Errors
<1>1. /\ op' \in [Halves -> {"idle", "read", "write", "done"}]
      /\ FirstErr(err) \in Errors /\ m_first_err' = FirstErr(err)
      /\ finished' = Append(finished, <<h, err>>)
      /\ finished' \in Seq(Halves \X Errors)
  <2>1. FirstErr(err) \in Errors
    BY DEF TypeOK, FirstErr
  <2>2. <<h, err>> \in Halves \X Errors
    OBVIOUS
  <2> QED BY <2>1, <2>2 DEF TypeOK
<1>2. reported = <<>>
  BY DEF CallbackWhenQuiet
<1>5. finished' # <<>> /\ FirstErr(err) = finished'[1][2] /\ FirstErr(err) # "ok"
  <2>1. CASE finished = <<>>
    <3>1. finished' = <<<<h, err>>>>
      BY <1>1, <2>1
    <3>2. FirstErr(err) = err
      BY <2>1 DEF FirstKept, FirstErr
    <3> QED BY <3>1, <3>2
  <2>2. CASE finished # <<>>
    <3>1. finished'[1] = finished[1] /\ finished' # <<>>
      BY <1>1, <2>2, SMTT(30) DEF TypeOK
    <3>2. FirstErr(err) = m_first_err /\ m_first_err = finished[1][2]
      BY <2>2 DEF FirstKept, FirstErr
    <3> QED BY <1>1, <3>1, <3>2
  <2> QED BY <2>1, <2>2
<1>3. CASE op[Other(h)] = "done"
  <2>1. reported' = <<FirstErr(err)>>
    BY BlocksAssumption, <1>2, <1>3 DEF TryDone
  <2>2. \A g \in Halves : op'[g] = "done"
    BY BlocksAssumption, <1>3, OtherHalf DEF TypeOK
  <2>3. reported' \in Seq({"ok"} \cup Errors) /\ CallbackWhenQuiet'
    BY <1>1, <2>1, <2>2 DEF CallbackWhenQuiet
  <2>4. FirstKept'
    BY <1>1, <1>5, <2>1 DEF FirstKept
  <2> QED BY <1>1, <2>3, <2>4
<1>4. CASE op[Other(h)] # "done"
  <2>1. reported' = <<>>
    BY BlocksAssumption, <1>2, <1>4 DEF TryDone
  <2>2. op'[Other(h)] # "done" /\ Other(h) \in Halves
    BY BlocksAssumption, <1>4, OtherHalf DEF TypeOK
  <2>3. reported' \in Seq({"ok"} \cup Errors) /\ CallbackWhenQuiet'
    BY <2>1, <2>2 DEF CallbackWhenQuiet
  <2>4. FirstKept'
    BY <1>1, <1>5, <2>1 DEF FirstKept
  <2> QED BY <1>1, <2>3, <2>4
<1> QED BY <1>3, <1>4

\* Every step keeps the inductive invariant.
LEMMA NextInv == IInv /\ [Next]_vars => IInv'
<1> SUFFICES ASSUME IInv, [Next]_vars PROVE IInv'
  OBVIOUS
<1> USE DEF IInv, socketState, handlerState
<1>1. CASE Start
  BY <1>1 DEF Start, TypeOK, CallbackWhenQuiet, FirstKept, Held, Halves
<1>2. ASSUME NEW h \in Halves, PeerSends(h) PROVE IInv'
  <2>1. sent[h] + 1 \in 0..MaxBlocks
    BY <1>2, HalfType, BlocksAssumption DEF PeerSends
  <2>2. sent' \in [Halves -> 0..MaxBlocks]
    BY <1>2, <2>1 DEF PeerSends, TypeOK
  <2> QED BY <1>2, <2>2 DEF PeerSends, TypeOK, CallbackWhenQuiet, FirstKept, Held
<1>3. ASSUME NEW h \in Halves, PeerCloses(h) PROVE IInv'
  BY BlocksAssumption, <1>3 DEF PeerCloses, TypeOK, CallbackWhenQuiet, FirstKept, Held
<1>4. ASSUME NEW h \in Halves, ReadCompletes(h) PROVE IInv'
  <2>1. taken' \in [Halves -> 0..MaxBlocks] /\ m_buffer' \in [Halves -> 0..MaxBlocks]
    <3>1. CASE /\ taken[h] < sent[h]
               /\ taken' = [taken EXCEPT ![h] = taken[h] + 1]
               /\ m_buffer' = [m_buffer EXCEPT ![h] = taken[h] + 1]
      <4>1. taken[h] + 1 \in 0..MaxBlocks
        BY <3>1, HalfType, BlocksAssumption
      <4> QED BY <3>1, <4>1 DEF TypeOK
    <3>2. CASE UNCHANGED <<taken, m_buffer>>
      BY <3>2 DEF TypeOK
    <3>3. \/ /\ taken[h] < sent[h]
             /\ taken' = [taken EXCEPT ![h] = taken[h] + 1]
             /\ m_buffer' = [m_buffer EXCEPT ![h] = taken[h] + 1]
          \/ UNCHANGED <<taken, m_buffer>>
      BY <1>4 DEF ReadCompletes
    <3> QED BY <3>1, <3>2, <3>3
  <2>2. TypeOK'
    BY <1>4, <2>1 DEF ReadCompletes, Running, TypeOK, Errors
  <2>3. CallbackWhenQuiet' /\ FirstKept'
    BY <1>4 DEF ReadCompletes, CallbackWhenQuiet, FirstKept
  <2>4. Held(h)'
    <3>1. op[h] = "read" /\ taken[h] = Len(out[h]) /\ op' = op /\ out' = out
      BY <1>4 DEF ReadCompletes, Running, Held
    <3>2. \/ taken'[h] = taken[h] + 1 /\ m_buffer'[h] = taken[h] + 1 /\ result'[h] = "ok"
          \/ taken'[h] = taken[h] /\ result'[h] = "eof"
      BY <1>4 DEF ReadCompletes, TypeOK
    <3> QED BY <3>1, <3>2 DEF Held
  <2>5. ASSUME NEW g \in Halves, g # h PROVE Held(g)'
    <3>1. taken'[g] = taken[g] /\ m_buffer'[g] = m_buffer[g] /\ result'[g] = result[g]
          /\ op' = op /\ out' = out
      BY <1>4, <2>5 DEF ReadCompletes, TypeOK
    <3> QED BY <3>1 DEF Held
  <2> QED BY <2>2, <2>3, <2>4, <2>5
<1>5. ASSUME NEW h \in Halves, WriteCompletes(h) PROVE IInv'
  <2>1. m_buffer[h] = Len(out[h]) + 1 /\ taken[h] = m_buffer[h] /\ op[h] = "write"
        /\ m_buffer[h] \in 1..MaxBlocks
    BY <1>5, HalfType, BlocksAssumption DEF WriteCompletes, Running, Held
  <2>2. Append(out[h], m_buffer[h]) \in Seq(1..MaxBlocks)
    BY <2>1, HalfType
  <2>3. TypeOK'
    BY <1>5, <2>1, <2>2, ZenonT(60) DEF WriteCompletes, TypeOK, Errors
  <2>4. CallbackWhenQuiet' /\ FirstKept'
    BY <1>5 DEF WriteCompletes, CallbackWhenQuiet, FirstKept
  <2>5. /\ op' = op /\ taken' = taken /\ m_buffer' = m_buffer
        /\ \/ /\ result' = [result EXCEPT ![h] = "ok"]
              /\ out' = [out EXCEPT ![h] = Append(out[h], m_buffer[h])]
           \/ /\ result' = [result EXCEPT ![h] = "reset"]
              /\ out' = out
    BY <1>5 DEF WriteCompletes
  <2>6. Held(h)'
    <3>1. CASE result'[h] = "ok" /\ out'[h] = Append(out[h], m_buffer[h])
      <4>1. Len(out'[h]) = Len(out[h]) + 1 /\ \A i \in 1..Len(out'[h]) : out'[h][i] = i
        BY <2>1, <3>1, HalfType DEF Held
      <4> QED BY <2>1, <2>5, <3>1, <4>1 DEF Held
    <3>2. CASE result'[h] = "reset" /\ out' = out
      BY <2>1, <2>5, <3>2 DEF Held
    <3> QED BY <2>5, <3>1, <3>2 DEF TypeOK
  <2>7. ASSUME NEW g \in Halves, g # h PROVE Held(g)'
    <3>1. result'[g] = result[g] /\ out'[g] = out[g]
      BY <2>5, <2>7 DEF TypeOK
    <3> QED BY <2>5, <3>1 DEF Held
  <2> QED BY <2>3, <2>4, <2>6, <2>7
<1>6. ASSUME NEW h \in Halves, ReadTimesOut(h) PROVE IInv'
  <2>1. TypeOK'
    BY <1>6, OtherHalf DEF ReadTimesOut, Running, TypeOK, Errors
  <2>2. CallbackWhenQuiet' /\ FirstKept'
    BY <1>6 DEF ReadTimesOut, CallbackWhenQuiet, FirstKept
  <2>3. ASSUME NEW g \in Halves PROVE Held(g)'
    BY <1>6 DEF ReadTimesOut, Running, TypeOK, Held
  <2> QED BY <2>1, <2>2, <2>3
<1>7. ASSUME NEW h \in Halves, HandleRead(h) PROVE IInv'
  <2>1. CASE result[h] = "ok"
    BY <1>7, <2>1, ZenonT(60) DEF HandleRead, Ended, TypeOK, CallbackWhenQuiet, FirstKept, Held
  <2>2. CASE result[h] # "ok"
    <3>1. result[h] \in Errors /\ HalfDone(h, result[h]) /\ op[h] = "read"
      BY <1>7, <2>2 DEF HandleRead, Ended, TypeOK
    <3>2. TypeOK' /\ CallbackWhenQuiet' /\ FirstKept'
      BY <1>7, <3>1, HalfDoneKeeps DEF HandleRead, TypeOK, HalfDone
    <3>3. ASSUME NEW g \in Halves PROVE Held(g)'
      BY <1>7, <2>2, <3>1 DEF HandleRead, HalfDone, TypeOK, Held
    <3> QED BY <3>2, <3>3
  <2> QED BY <2>1, <2>2
<1>8. ASSUME NEW h \in Halves, HandleWrite(h) PROVE IInv'
  <2>1. CASE result[h] = "ok"
    BY <1>8, <2>1 DEF HandleWrite, Ended, TypeOK, CallbackWhenQuiet, FirstKept, Held
  <2>2. CASE result[h] # "ok"
    <3>1. result[h] \in Errors /\ HalfDone(h, result[h]) /\ op[h] = "write"
      BY <1>8, <2>2 DEF HandleWrite, Ended, TypeOK
    <3>2. TypeOK' /\ CallbackWhenQuiet' /\ FirstKept'
      BY <1>8, <3>1, HalfDoneKeeps DEF HandleWrite, TypeOK, HalfDone
    <3>3. ASSUME NEW g \in Halves PROVE Held(g)'
      BY <1>8, <2>2, <3>1 DEF HandleWrite, HalfDone, TypeOK, Held
    <3> QED BY <3>2, <3>3
  <2> QED BY <2>1, <2>2
<1>9. CASE UNCHANGED vars
  BY <1>9 DEF vars, TypeOK, CallbackWhenQuiet, FirstKept, Held
<1> QED
  BY <1>1, <1>2, <1>3, <1>4, <1>5, <1>6, <1>7, <1>8, <1>9 DEF Next

\* The inductive invariant holds in every behaviour of the tunnel.
THEOREM Invariance == Spec => []IInv
  BY InitInv, NextInv, PTL DEF Spec

\* The type invariant holds for any number of blocks.
THEOREM TypeCorrect == Spec => []TypeOK
  BY Invariance, PTL DEF IInv

\* TunnelHandler::tryDone calls back once, when both halves have finished and
\* no operation is left on either socket.
THEOREM CallbackHolds == Spec => []CallbackWhenQuiet
  BY Invariance, PTL DEF IInv

\* TunnelHandler::start: the error of the half that finished first is reported.
THEOREM FirstErrorHolds == Spec => []FirstErrorReported
<1>1. IInv => FirstErrorReported
  BY DEF IInv, FirstKept, FirstErrorReported
<1> QED BY <1>1, Invariance, PTL

\* HalfTunnel forwards block after block, in order and without loss while it
\* runs, however long the stream is.
THEOREM OrderHolds == Spec => []InOrder
<1>1. ASSUME IInv, NEW h \in Halves
      PROVE  /\ \A i \in DOMAIN out[h] : out[h][i] = i
             /\ op[h] = "read" /\ result[h] # "ok" => Len(out[h]) = taken[h]
             /\ taken[h] <= Len(out[h]) + 1
  BY <1>1, HalfType DEF IInv, Held
<1>2. IInv => InOrder
  BY <1>1 DEF InOrder
<1> QED BY <1>2, Invariance, PTL
=============================================================================
