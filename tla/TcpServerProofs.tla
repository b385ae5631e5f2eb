-------------------------- MODULE TcpServerProofs --------------------------
(***************************************************************************)
(* Proofs about TcpServer for every set of handlers and descriptors and    *)
(* every limit: its type invariant, the connection limit, the single       *)
(* accept cycle, the agreement of the tables, and that it implements       *)
(* Admission.                                                              *)
(***************************************************************************)
EXTENDS TcpServer, FiniteSetTheorems, TLAPS

-----------------------------------------------------------------------------
(* The inductive invariant.  The accept cycle is described by where its     *)
(* baton is; the limit is tied to the baton by Room: the accept is deferred *)
(* exactly when the table is full, so an accept in progress has a place.    *)

OneAccept == \A g, h \in InAccept : g = h

BatonOnce ==
  /\ startPosted \in {0, 1}
  /\ startPosted = 1 => InAccept = {} /\ ~m_allow_more
  /\ m_allow_more => InAccept = {}

BatonHeld ==
  /\ io = "running" => InAccept # {} \/ startPosted = 1 \/ m_allow_more
  /\ io = "init" => InAccept = {} /\ startPosted = 0 /\ ~m_allow_more

Room ==
  /\ IsFiniteSet(m_connections)
  /\ Cardinality(m_connections) <= MaxConnections
  /\ m_allow_more <=> Cardinality(m_connections) = MaxConnections

\* Only open sockets have a descriptor.
FreeHasNoFd ==
  \A h \in Handlers : hstate[h] \in {"free", "accepting"} => fd[h] = NoFd

\* A registered socket is open.
RegisteredHasFd == \A h \in m_connections : fd[h] \in Fds

\* The completed accept that carries no error has a descriptor.
AcceptedHasFd ==
  \A h \in Handlers :
    hstate[h] \in {"accepted", "posted"} /\ ~acceptErr[h] => fd[h] \in Fds

IInv ==
  /\ TypeOK
  /\ OneAccept
  /\ BatonOnce
  /\ BatonHeld
  /\ Room
  /\ TablesAgree
  /\ FreeHasNoFd
  /\ RegisteredHasFd
  /\ AcceptedHasFd

-----------------------------------------------------------------------------
(* Type correctness.                                                        *)

\* A handler run from the queue leaves a queue of handlers.
LEMMA RunType ==
  ASSUME queue \in Seq(Tokens), NEW tok, NEW new \in Seq(Tokens), Run(tok, new)
  PROVE  queue' \in Seq(Tokens)
BY DEF Run

\* The handlers that the actions post are handlers of the io_service queue.
LEMMA TokenTypes ==
  /\ \A h \in Handlers : \A cb \in {"accepted", "posted", "done"} :
       Ready(h, cb) \in Tokens
  /\ \A cb \in {"p_start_accept", "p_on_heartbeat", "p_do_stop"} :
       Own(cb) \in Tokens
BY DEF Ready, Own, Tokens

\* The state the constructor leaves has the right types.
LEMMA InitType == Init => TypeOK
<1> SUFFICES ASSUME Init PROVE TypeOK
  OBVIOUS
<1>1. queue \in Seq(Tokens)
  BY DEF Init
<1>2. acceptErr \in [Handlers -> BOOLEAN] /\ m_allow_more \in BOOLEAN
      /\ m_terminate_requested \in BOOLEAN
  BY DEF Init
<1> QED
  BY <1>1, <1>2 DEF Init, TypeOK, HState

\* Every step keeps the types; registering needs the descriptor of an accepted
\* socket.
LEMMA NextType == TypeOK /\ AcceptedHasFd /\ [Next]_vars => TypeOK'
<1> SUFFICES ASSUME TypeOK, AcceptedHasFd, [Next]_vars PROVE TypeOK'
  OBVIOUS
<1> USE DEF TypeOK, HState
<1>1. CASE Listen
  BY <1>1, TokenTypes DEF Listen, Post, manager
<1>2. CASE BindFails
  BY <1>2 DEF BindFails, manager
<1>3. ASSUME NEW h \in Handlers, StartAccept(h) PROVE TypeOK'
  BY <1>3 DEF Run, StartAccept, manager, lifecycle
<1>4. ASSUME NEW h \in Handlers, PostAcceptCb(h) PROVE TypeOK'
  BY <1>4, TokenTypes DEF Run, PostAcceptCb, manager, lifecycle
<1>5. ASSUME NEW h \in Handlers, HandleAcceptErr(h) PROVE TypeOK'
  BY <1>5 DEF Run, HandleAcceptErr, manager, lifecycle
<1>6. CASE HeartbeatIdle
  BY <1>6 DEF Run, HeartbeatIdle, manager
<1>7. CASE HeartbeatRearm
  BY <1>7 DEF HeartbeatRearm, manager
<1>8. ASSUME NEW h \in Handlers, HeartbeatSweep(h) PROVE TypeOK'
  BY <1>8, TokenTypes DEF Run, HeartbeatSweep, manager
<1>9. ASSUME NEW h \in Handlers, HeartbeatSweepArrived(h) PROVE TypeOK'
  BY <1>9 DEF Run, HeartbeatSweepArrived, manager
<1>10. CASE HeartbeatSweepNothing
  BY <1>10 DEF Run, HeartbeatSweepNothing, manager
<1>11. CASE DoStop
  BY <1>11, TokenTypes DEF Run, DoStop, CancelHeartbeat, BeatOnCancel, manager
<1>12. ASSUME NEW h \in Handlers, NEW f \in Fds, ClientConnects(h, f) PROVE TypeOK'
  BY <1>12, TokenTypes DEF ClientConnects, Post, manager, lifecycle
<1>13. ASSUME NEW h \in Handlers, AcceptFails(h) PROVE TypeOK'
  BY <1>13, TokenTypes DEF AcceptFails, Post, manager, lifecycle
<1>14. ASSUME NEW h \in Handlers, ServeDone(h) PROVE TypeOK'
  BY <1>14, TokenTypes DEF ServeDone, Post, manager, lifecycle
<1>15. CASE HeartbeatFires
  BY <1>15, TokenTypes DEF HeartbeatFires, Post, manager
<1>16. CASE SignalArrives
  BY <1>16, TokenTypes DEF SignalArrives, Post, manager
<1>17. CASE Terminate
  BY <1>17 DEF Terminate, manager
<1>18. CASE TerminateCancel
  BY <1>18, TokenTypes DEF TerminateCancel, CancelHeartbeat, BeatOnCancel, manager
<1>19. ASSUME NEW h \in Handlers, RunDone(h) PROVE TypeOK'
  <2>1. /\ m_connections' \in SUBSET Handlers
        /\ m_fd_list' \in SUBSET Fds
        /\ m_allow_more' \in BOOLEAN
        /\ startPosted' \in Nat
    BY <1>19 DEF RunDone, Deregister
  <2>2. queue' \in Seq(Tokens)
    <3> DEFINE new == IF startPosted' = startPosted THEN <<>>
                      ELSE <<Own("p_start_accept")>>
    <3>1. new \in Seq(Tokens)
      BY TokenTypes
    <3>2. Run(Ready(h, "done"), new)
      BY <1>19 DEF RunDone
    <3> HIDE DEF new
    <3> QED
      BY <3>1, <3>2, RunType
  <2> QED
    BY <1>19, <2>1, <2>2 DEF RunDone, lifecycle
<1>20. ASSUME NEW h \in Handlers, HandleAcceptOk(h) PROVE TypeOK'
  <2>1. /\ m_connections' \in SUBSET Handlers
        /\ m_fd_list' \in SUBSET Fds
        /\ m_allow_more' \in BOOLEAN
    BY <1>20 DEF HandleAcceptOk, Register, AllowAnother, AcceptedHasFd
  <2>2. hstate' \in [Handlers -> HState]
    BY <1>20 DEF HandleAcceptOk, Register
  <2>3. queue' \in Seq(Tokens)
    BY <1>20 DEF Run, HandleAcceptOk, Register
  <2> QED
    BY <1>20, <2>1, <2>2, <2>3 DEF HandleAcceptOk, Register, lifecycle
<1>21. CASE UNCHANGED vars
  BY <1>21 DEF vars
<1> QED
  BY <1>1, <1>2, <1>3, <1>4, <1>5, <1>6, <1>7, <1>8, <1>9, <1>10, <1>11,
     <1>12, <1>13, <1>14, <1>15, <1>16, <1>17, <1>18, <1>19, <1>20, <1>21
  DEF Next, IoStep, Environment

-----------------------------------------------------------------------------
(* The invariant is inductive.                                              *)

\* The inductive invariant holds before listen() is called.
LEMMA InitInv == Init => IInv
<1> SUFFICES ASSUME Init PROVE IInv
  OBVIOUS
<1>1. InAccept = {}
  BY DEF Init, InAccept
<1>2. Room
  BY FS_EmptySet, MaxAssumption DEF Init, Room
<1>3. TablesAgree
  BY DEF Init, TablesAgree
<1> QED
  BY <1>1, <1>2, <1>3, InitType, FdAssumption
  DEF Init, IInv, OneAccept, BatonOnce, BatonHeld, FreeHasNoFd,
      RegisteredHasFd, AcceptedHasFd

\* Steps that touch neither the handlers nor the manager.
LEMMA QuietInv ==
  ASSUME IInv, TypeOK',
         UNCHANGED <<hstate, acceptErr, fd, manager>>,
         \/ UNCHANGED <<io, startPosted>>
         \/ io = "init" /\ io' = "running" /\ startPosted' = startPosted + 1
         \/ io = "init" /\ io' = "failed" /\ UNCHANGED startPosted
  PROVE  IInv'
<1>1. InAccept' = InAccept
  BY DEF InAccept
<1>2. OneAccept' /\ BatonOnce' /\ BatonHeld'
  BY <1>1 DEF IInv, OneAccept, BatonOnce, BatonHeld, manager
<1>3. Room' /\ TablesAgree'
  BY DEF IInv, Room, TablesAgree, manager
<1>4. FreeHasNoFd' /\ RegisteredHasFd' /\ AcceptedHasFd'
  BY DEF IInv, FreeHasNoFd, RegisteredHasFd, AcceptedHasFd, manager
<1> QED
  BY <1>2, <1>3, <1>4 DEF IInv

\* Steps of the handler that is being accepted, up to its registration.
LEMMA AcceptingInv ==
  ASSUME IInv, TypeOK', NEW h \in InAccept, NEW s \in {"accepted", "posted"},
         UNCHANGED <<io, startPosted, manager>>,
         hstate' = [hstate EXCEPT ![h] = s],
         \A g \in Handlers \ {h} : fd'[g] = fd[g] /\ acceptErr'[g] = acceptErr[g],
         \A g \in Handlers \ {h} : fd[g] # fd'[h] \/ fd'[h] = NoFd,
         ~acceptErr'[h] => fd'[h] \in Fds
  PROVE  IInv'
<1> USE DEF IInv
<1>1. h \in Handlers /\ InAccept' = InAccept
  BY DEF InAccept, TypeOK
<1>2. OneAccept' /\ BatonOnce' /\ BatonHeld'
  BY <1>1 DEF OneAccept, BatonOnce, BatonHeld, manager
<1>3. h \notin m_connections /\ m_connections' = m_connections
  BY <1>1 DEF TablesAgree, InAccept, manager
<1>4. Room'
  BY DEF Room, manager
<1>5. TablesAgree'
  <2>1. m_connections' = {g \in Handlers : hstate'[g] \in {"serving", "done"}}
    BY <1>1, <1>3 DEF TablesAgree, TypeOK
  <2>2. m_fd_list' = {fd'[g] : g \in m_connections'}
    BY <1>1, <1>3 DEF TablesAgree, TypeOK, manager
  <2>3. \A g, k \in Handlers : fd'[g] = fd'[k] /\ fd'[g] # NoFd => g = k
    BY <1>1 DEF TablesAgree
  <2>4. \A g \in Handlers : hstate'[g] = "posted" /\ ~acceptErr'[g] => fd'[g] \in Fds
    BY <1>1 DEF TablesAgree, TypeOK
  <2> QED
    BY <2>1, <2>2, <2>3, <2>4 DEF TablesAgree
<1>6. FreeHasNoFd' /\ RegisteredHasFd' /\ AcceptedHasFd'
  BY <1>1, <1>3 DEF FreeHasNoFd, RegisteredHasFd, AcceptedHasFd, TypeOK
<1> QED
  BY <1>2, <1>4, <1>5, <1>6

\* p_start_accept run from the queue.
LEMMA StartAcceptInv ==
  ASSUME IInv, TypeOK', NEW h \in Handlers, StartAccept(h)
  PROVE  IInv'
<1> USE DEF IInv
<1>1. InAccept = {} /\ startPosted = 1 /\ ~m_allow_more /\ startPosted' = 0
  BY DEF StartAccept, BatonOnce, TypeOK
<1>2. InAccept' = {h}
  BY <1>1 DEF StartAccept, InAccept, TypeOK
<1>3. OneAccept' /\ BatonOnce' /\ BatonHeld'
  BY <1>1, <1>2 DEF OneAccept, BatonOnce, BatonHeld, StartAccept, manager, Run, IoIdle
<1>4. Room'
  BY DEF Room, StartAccept, manager
<1>5. TablesAgree'
  BY DEF TablesAgree, StartAccept, manager, TypeOK
<1>6. FreeHasNoFd' /\ RegisteredHasFd' /\ AcceptedHasFd'
  BY DEF FreeHasNoFd, RegisteredHasFd, AcceptedHasFd, StartAccept, manager, TypeOK
<1> QED
  BY <1>3, <1>4, <1>5, <1>6

\* p_handle_accept without error: the table grows by one and the baton goes
\* to a new accept or to the deferred callback.
LEMMA HandleAcceptOkInv ==
  ASSUME IInv, TypeOK', NEW h \in Handlers, HandleAcceptOk(h)
  PROVE  IInv'
<1> USE DEF IInv
<1>1. h \in InAccept /\ InAccept = {h} /\ h \notin m_connections
      /\ fd[h] \in Fds /\ startPosted = 0 /\ ~m_allow_more
  BY DEF HandleAcceptOk, Register, InAccept, OneAccept, BatonOnce, TablesAgree
<1>2. /\ IsFiniteSet(m_connections')
      /\ Cardinality(m_connections) \in Nat
      /\ Cardinality(m_connections') = Cardinality(m_connections) + 1
  BY <1>1, FS_AddElement, FS_CardinalityType DEF HandleAcceptOk, Register, Room
<1>3. Room'
  <2>1. Cardinality(m_connections) < MaxConnections
    BY <1>1, <1>2, MaxAssumption DEF Room
  <2>2. m_allow_more' = (Cardinality(m_connections') >= MaxConnections)
    BY DEF HandleAcceptOk, Register, AllowAnother
  <2>3. Cardinality(m_connections') >= MaxConnections
          <=> Cardinality(m_connections') = MaxConnections
    BY <1>2, <2>1, MaxAssumption
  <2>4. Cardinality(m_connections') <= MaxConnections
    BY <1>2, <2>1, MaxAssumption
  <2> QED
    BY <1>2, <2>2, <2>3, <2>4 DEF Room
<1>4. PICK g \in Handlers :
        \/ m_allow_more' /\ hstate' = [hstate EXCEPT ![h] = "serving"]
        \/ /\ ~m_allow_more' /\ hstate[g] = "free"
           /\ hstate' = [hstate EXCEPT ![h] = "serving", ![g] = "accepting"]
  BY DEF HandleAcceptOk, Register
<1>5. InAccept' = IF m_allow_more' THEN {} ELSE {g}
  BY <1>1, <1>4 DEF InAccept, TypeOK
<1>6. OneAccept' /\ BatonOnce' /\ BatonHeld'
  BY <1>1, <1>5 DEF OneAccept, BatonOnce, BatonHeld, HandleAcceptOk, Register, Run, IoIdle
<1>7. TablesAgree'
  <2>1. m_connections' = {k \in Handlers : hstate'[k] \in {"serving", "done"}}
    BY <1>4 DEF TablesAgree, HandleAcceptOk, Register, TypeOK
  <2>2. m_fd_list' = {fd'[k] : k \in m_connections'}
    BY DEF TablesAgree, HandleAcceptOk, Register
  <2>3. \A j, k \in Handlers : fd'[j] = fd'[k] /\ fd'[j] # NoFd => j = k
    BY DEF TablesAgree, HandleAcceptOk, Register
  <2>4. \A k \in Handlers : hstate'[k] = "posted" /\ ~acceptErr'[k] => fd'[k] \in Fds
    BY <1>4 DEF TablesAgree, HandleAcceptOk, Register, TypeOK
  <2> QED
    BY <2>1, <2>2, <2>3, <2>4 DEF TablesAgree
<1>8. FreeHasNoFd' /\ RegisteredHasFd' /\ AcceptedHasFd'
  BY <1>1, <1>4 DEF FreeHasNoFd, RegisteredHasFd, AcceptedHasFd, HandleAcceptOk, Register, TypeOK
<1> QED
  BY <1>3, <1>6, <1>7, <1>8

\* p_handle_accept with an error: the baton is dropped as the io_service stops.
LEMMA HandleAcceptErrInv ==
  ASSUME IInv, TypeOK', NEW h \in Handlers, HandleAcceptErr(h)
  PROVE  IInv'
<1> USE DEF IInv
<1>1. InAccept = {h} /\ h \notin m_connections
  BY DEF HandleAcceptErr, InAccept, OneAccept, TablesAgree
<1>2. InAccept' = {}
  BY <1>1 DEF HandleAcceptErr, InAccept, TypeOK
<1>3. OneAccept' /\ BatonOnce' /\ BatonHeld'
  BY <1>1, <1>2 DEF OneAccept, BatonOnce, BatonHeld, HandleAcceptErr, manager
<1>4. Room'
  BY DEF Room, HandleAcceptErr, manager
<1>5. TablesAgree'
  <2>1. m_connections' = {k \in Handlers : hstate'[k] \in {"serving", "done"}}
    BY DEF TablesAgree, HandleAcceptErr, manager, TypeOK
  <2>2. m_fd_list' = {fd'[k] : k \in m_connections'}
    BY <1>1 DEF TablesAgree, HandleAcceptErr, manager, TypeOK
  <2>3. \A j, k \in Handlers : fd'[j] = fd'[k] /\ fd'[j] # NoFd => j = k
    BY DEF TablesAgree, HandleAcceptErr, TypeOK
  <2>4. \A k \in Handlers : hstate'[k] = "posted" /\ ~acceptErr'[k] => fd'[k] \in Fds
    BY DEF TablesAgree, HandleAcceptErr, TypeOK
  <2> QED
    BY <2>1, <2>2, <2>3, <2>4 DEF TablesAgree
<1>6. FreeHasNoFd' /\ RegisteredHasFd' /\ AcceptedHasFd'
  BY <1>1 DEF FreeHasNoFd, RegisteredHasFd, AcceptedHasFd, HandleAcceptErr,
              manager, TypeOK
<1> QED
  BY <1>3, <1>4, <1>5, <1>6

\* The done callback: the table shrinks by one and a deferred accept is posted.
LEMMA RunDoneInv ==
  ASSUME IInv, TypeOK', NEW h \in Handlers, RunDone(h)
  PROVE  IInv'
<1> USE DEF IInv
<1>1. h \in m_connections /\ fd[h] \in Fds
  BY DEF RunDone, TablesAgree, RegisteredHasFd
<1>2. /\ IsFiniteSet(m_connections')
      /\ Cardinality(m_connections) \in Nat
      /\ Cardinality(m_connections') = Cardinality(m_connections) - 1
  BY <1>1, FS_RemoveElement, FS_CardinalityType DEF RunDone, Deregister, Room
<1>3. Cardinality(m_connections') < MaxConnections
  BY <1>2, MaxAssumption DEF Room
<1>4. /\ ~m_allow_more'
      /\ startPosted' = IF m_allow_more THEN startPosted + 1 ELSE startPosted
  BY <1>3 DEF RunDone, Deregister
<1>5. Room'
  BY <1>2, <1>3, <1>4, MaxAssumption DEF Room
<1>6. InAccept' = InAccept
  BY DEF InAccept, RunDone, TypeOK
<1>7. OneAccept' /\ BatonOnce' /\ BatonHeld'
  BY <1>4, <1>6 DEF OneAccept, BatonOnce, BatonHeld, RunDone, TypeOK
<1>8. TablesAgree'
  <2>1. m_connections' = {k \in Handlers : hstate'[k] \in {"serving", "done"}}
    BY DEF TablesAgree, RunDone, Deregister, TypeOK
  <2>2. m_fd_list' = {fd'[k] : k \in m_connections'}
    BY <1>1, FdAssumption DEF TablesAgree, RunDone, Deregister, TypeOK
  <2>3. \A j, k \in Handlers : fd'[j] = fd'[k] /\ fd'[j] # NoFd => j = k
    BY DEF TablesAgree, RunDone, TypeOK
  <2>4. \A k \in Handlers : hstate'[k] = "posted" /\ ~acceptErr'[k] => fd'[k] \in Fds
    BY DEF TablesAgree, RunDone, TypeOK
  <2> QED
    BY <2>1, <2>2, <2>3, <2>4 DEF TablesAgree
<1>9. FreeHasNoFd' /\ RegisteredHasFd' /\ AcceptedHasFd'
  BY DEF FreeHasNoFd, RegisteredHasFd, AcceptedHasFd, RunDone, Deregister, TypeOK
<1> QED
  BY <1>5, <1>7, <1>8, <1>9

\* The request handler completes.
LEMMA ServeDoneInv ==
  ASSUME IInv, TypeOK', NEW h \in Handlers, ServeDone(h)
  PROVE  IInv'
<1> USE DEF IInv
<1>1. InAccept' = InAccept
  BY DEF InAccept, ServeDone, TypeOK
<1>2. OneAccept' /\ BatonOnce' /\ BatonHeld' /\ Room'
  BY <1>1 DEF OneAccept, BatonOnce, BatonHeld, Room, ServeDone, manager
<1>3. TablesAgree'
  BY DEF TablesAgree, ServeDone, manager, TypeOK
<1>4. FreeHasNoFd' /\ RegisteredHasFd' /\ AcceptedHasFd'
  BY DEF FreeHasNoFd, RegisteredHasFd, AcceptedHasFd, ServeDone, manager, TypeOK
<1> QED
  BY <1>2, <1>3, <1>4

\* Every step of the io_service, of the timers and of other threads keeps the
\* inductive invariant.
LEMMA NextInv == IInv /\ [Next]_vars => IInv'
<1> SUFFICES ASSUME IInv, [Next]_vars PROVE IInv'
  OBVIOUS
<1>0. TypeOK'
  BY NextType DEF IInv
<1>1. CASE Listen
  BY <1>0, <1>1, QuietInv DEF Listen
<1>2. CASE BindFails
  BY <1>0, <1>2, QuietInv DEF BindFails
<1>3. ASSUME NEW h \in Handlers, StartAccept(h) PROVE IInv'
  BY <1>0, <1>3, StartAcceptInv
<1>4. ASSUME NEW h \in Handlers, PostAcceptCb(h) PROVE IInv'
  <2>1. h \in InAccept /\ (~acceptErr[h] => fd[h] \in Fds)
        /\ \A g \in Handlers \ {h} : fd[g] # fd[h] \/ fd[h] = NoFd
    BY <1>4 DEF PostAcceptCb, InAccept, IInv, AcceptedHasFd, TablesAgree
  <2> QED
    BY <1>0, <1>4, <2>1, AcceptingInv DEF PostAcceptCb
<1>5. ASSUME NEW h \in Handlers, HandleAcceptErr(h) PROVE IInv'
  BY <1>0, <1>5, HandleAcceptErrInv
<1>6. CASE HeartbeatIdle
  BY <1>0, <1>6, QuietInv DEF HeartbeatIdle
<1>7. CASE HeartbeatRearm
  BY <1>0, <1>7, QuietInv DEF HeartbeatRearm
<1>8. ASSUME NEW h \in Handlers, HeartbeatSweep(h) PROVE IInv'
  <2>1. h \in InAccept /\ fd[h] = NoFd
    BY <1>8 DEF HeartbeatSweep, InAccept, IInv, FreeHasNoFd
  <2>2. acceptErr'[h] /\ \A g \in Handlers \ {h} : acceptErr'[g] = acceptErr[g]
    BY <1>8 DEF HeartbeatSweep, IInv, TypeOK
  <2> QED
    BY <1>0, <1>8, <2>1, <2>2, AcceptingInv DEF HeartbeatSweep
<1>9. ASSUME NEW h \in Handlers, HeartbeatSweepArrived(h) PROVE IInv'
  <2>1. h \in InAccept /\ hstate' = [hstate EXCEPT ![h] = "accepted"]
    BY <1>9 DEF HeartbeatSweepArrived, InAccept, IInv, TypeOK
  <2>2. acceptErr'[h] /\ \A g \in Handlers \ {h} : acceptErr'[g] = acceptErr[g]
    BY <1>9 DEF HeartbeatSweepArrived, IInv, TypeOK
  <2>3. fd'[h] = NoFd /\ \A g \in Handlers \ {h} : fd'[g] = fd[g]
    BY <1>9 DEF HeartbeatSweepArrived, IInv, TypeOK
  <2> QED
    BY <1>0, <1>9, <2>1, <2>2, <2>3, AcceptingInv DEF HeartbeatSweepArrived
<1>10. CASE HeartbeatSweepNothing
  BY <1>0, <1>10, QuietInv DEF HeartbeatSweepNothing
<1>11. CASE DoStop
  BY <1>0, <1>11, QuietInv DEF DoStop
<1>12. ASSUME NEW h \in Handlers, NEW f \in Fds, ClientConnects(h, f) PROVE IInv'
  <2>1. h \in InAccept
    BY <1>12 DEF ClientConnects, InAccept
  <2>2. \A g \in Handlers \ {h} : acceptErr'[g] = acceptErr[g]
    BY <1>12 DEF ClientConnects, IInv, TypeOK
  <2>3. fd'[h] = f /\ \A g \in Handlers \ {h} : fd'[g] = fd[g] /\ fd[g] # f
    BY <1>12 DEF ClientConnects, IInv, TypeOK
  <2> QED
    BY <1>0, <1>12, <2>1, <2>2, <2>3, AcceptingInv, ZenonT(60) DEF ClientConnects
<1>13. ASSUME NEW h \in Handlers, AcceptFails(h) PROVE IInv'
  <2>1. h \in InAccept /\ fd[h] = NoFd
    BY <1>13 DEF AcceptFails, InAccept, IInv, FreeHasNoFd
  <2>2. acceptErr'[h] /\ \A g \in Handlers \ {h} : acceptErr'[g] = acceptErr[g]
    BY <1>13 DEF AcceptFails, IInv, TypeOK
  <2> QED
    BY <1>0, <1>13, <2>1, <2>2, AcceptingInv DEF AcceptFails
<1>14. ASSUME NEW h \in Handlers, ServeDone(h) PROVE IInv'
  BY <1>0, <1>14, ServeDoneInv
<1>15. CASE HeartbeatFires
  BY <1>0, <1>15, QuietInv DEF HeartbeatFires
<1>16. CASE SignalArrives
  BY <1>0, <1>16, QuietInv DEF SignalArrives
<1>17. CASE Terminate
  BY <1>0, <1>17, QuietInv DEF Terminate
<1>18. CASE TerminateCancel
  BY <1>0, <1>18, QuietInv DEF TerminateCancel
<1>19. ASSUME NEW h \in Handlers, RunDone(h) PROVE IInv'
  BY <1>0, <1>19, RunDoneInv
<1>20. ASSUME NEW h \in Handlers, HandleAcceptOk(h) PROVE IInv'
  BY <1>0, <1>20, HandleAcceptOkInv
<1>21. CASE UNCHANGED vars
  BY <1>0, <1>21, QuietInv DEF vars, manager
<1> QED
  BY <1>1, <1>2, <1>3, <1>4, <1>5, <1>6, <1>7, <1>8, <1>9, <1>10, <1>11,
     <1>12, <1>13, <1>14, <1>15, <1>16, <1>17, <1>18, <1>19, <1>20, <1>21
  DEF Next, IoStep, Environment

\* The inductive invariant holds in every reachable state.
THEOREM Invariance == Spec => []IInv
<1>1. Init => IInv
  BY InitInv
<1>2. IInv /\ [Next]_vars => IInv'
  BY NextInv
<1> QED
  BY <1>1, <1>2, PTL DEF Spec

-----------------------------------------------------------------------------
(* The properties of TcpServer.                                             *)

\* Type correctness.  m_fd_list holds only descriptors of open sockets because
\* p_handle_accept registers a handler only after an accept without error.
THEOREM TypeCorrect == Spec => []TypeOK
<1>1. IInv => TypeOK
  BY DEF IInv
<1> QED
  BY <1>1, Invariance, PTL

\* The limit of ServerConnectionManager is never exceeded, whatever the limit
\* and however many handlers exist.
THEOREM LimitHolds == Spec => []ConnectionLimit
<1>1. IInv => ConnectionLimit
  <2> SUFFICES ASSUME IInv PROVE ConnectionLimit
    OBVIOUS
  <2> USE DEF IInv
  <2>1. Cardinality(m_connections) \in Nat
    BY FS_CardinalityType DEF Room
  <2>2. CASE InAccept = {}
    <3>1. m_connections \cup InAccept = m_connections
      BY <2>2
    <3> QED
      BY <3>1 DEF ConnectionLimit, Room
  <2>3. CASE InAccept # {}
    <3>1. PICK g \in InAccept : InAccept = {g}
      BY <2>3 DEF OneAccept
    <3>2. m_connections \cup InAccept = m_connections \cup {g}
      BY <3>1
    <3>3. g \notin m_connections
      BY <3>1 DEF InAccept, TablesAgree
    <3>4. Cardinality(m_connections \cup {g}) = Cardinality(m_connections) + 1
      BY <3>3, FS_AddElement DEF Room
    <3>5. Cardinality(m_connections) # MaxConnections
      BY <2>3 DEF Room, BatonOnce
    <3> QED
      BY <2>1, <3>2, <3>4, <3>5, MaxAssumption DEF ConnectionLimit, Room
  <2> QED
    BY <2>2, <2>3
<1> QED
  BY <1>1, Invariance, PTL

\* The accept cycle is neither lost nor doubled while run() is active.
THEOREM BatonHolds == Spec => []AcceptBaton
<1>1. IInv => AcceptBaton
  <2> SUFFICES ASSUME IInv, io = "running" PROVE AcceptBaton
    BY DEF AcceptBaton
  <2> USE DEF IInv
  <2>1. CASE InAccept = {}
    BY <2>1, FS_EmptySet DEF AcceptBaton, BatonOnce, BatonHeld
  <2>2. CASE InAccept # {}
    <3>1. PICK g \in InAccept : InAccept = {g}
      BY <2>2 DEF OneAccept
    <3>2. Cardinality(InAccept) = 1
      BY <3>1, FS_Singleton
    <3> QED
      BY <2>2, <3>2 DEF AcceptBaton, BatonOnce
  <2> QED
    BY <2>1, <2>2
<1> QED
  BY <1>1, Invariance, PTL

\* A deferred accept always has a connection whose end starts it again.
THEOREM WakerHolds == Spec => []DeferredHasWaker
<1>1. IInv => DeferredHasWaker
  BY FS_EmptySet, MaxAssumption DEF IInv, Room, DeferredHasWaker
<1> QED
  BY <1>1, Invariance, PTL

\* The asserts of register_connection_handler and p_deregister cannot fail.
THEOREM TablesHold == Spec => []TablesAgree
<1>1. IInv => TablesAgree
  BY DEF IInv
<1> QED
  BY <1>1, Invariance, PTL

-----------------------------------------------------------------------------
(* TcpServer implements Admission.                                          *)

\* A server before listen() is an admission with nobody in it.
LEMMA AdmInit == Init => Adm!AdmissionInit
BY DEF Init, Adm!AdmissionInit, InAccept

\* Steps that the abstract specification does not see.
LEMMA AdmStutter ==
  ASSUME UNCHANGED m_connections, InAccept' = InAccept,
         (io' \in {"stopped", "failed"}) = (io \in {"stopped", "failed"})
  PROVE  UNCHANGED Adm!avars
BY DEF Adm!avars

\* Every step of the server is a step of Admission or is not seen by it.
LEMMA AdmNext == IInv /\ [Next]_vars => [Adm!AdmissionNext]_(Adm!avars)
<1> SUFFICES ASSUME IInv, [Next]_vars
             PROVE  Adm!AdmissionNext \/ UNCHANGED Adm!avars
  OBVIOUS
<1> USE DEF IInv
<1>1. CASE UNCHANGED <<hstate, m_connections>> /\ (UNCHANGED io \/ Listen)
  <2>1. InAccept' = InAccept
    BY <1>1 DEF InAccept
  <2> QED
    BY <1>1, <2>1, AdmStutter DEF Listen
<1>2. CASE BindFails
  <2>1. InAccept = {} /\ InAccept' = {} /\ io = "init" /\ io' = "failed"
    BY <1>2 DEF BindFails, BatonHeld, InAccept
  <2>2. Adm!End
    BY <1>2, <2>1 DEF Adm!End, BindFails, manager
  <2> QED
    BY <2>2 DEF Adm!AdmissionNext
<1>3. ASSUME NEW h \in Handlers, StartAccept(h) PROVE Adm!AdmissionNext
  <2>1. InAccept = {} /\ InAccept' = {h} /\ ~m_allow_more
    BY <1>3 DEF StartAccept, BatonOnce, InAccept, TypeOK
  <2>2. h \notin m_connections
    BY <1>3 DEF StartAccept, TablesAgree
  <2>3. Cardinality(m_connections) < MaxConnections
    BY <2>1, FS_CardinalityType, MaxAssumption DEF Room
  <2>4. io = "running" /\ io' = "running" /\ m_connections' = m_connections
    BY <1>3 DEF StartAccept, Run, IoIdle, manager
  <2>5. Adm!Offer(h)
    BY <2>1, <2>2, <2>3, <2>4 DEF Adm!Offer, Adm!HasPlace, Adm!Cardinality, Cardinality
  <2> QED
    BY <2>5 DEF Adm!AdmissionNext
<1>4. ASSUME NEW h \in Handlers, HandleAcceptErr(h) PROVE Adm!AdmissionNext
  <2>1. InAccept' = {}
    BY <1>4 DEF HandleAcceptErr, InAccept, OneAccept, TypeOK
  <2>2. Adm!End
    BY <1>4, <2>1 DEF Adm!End, HandleAcceptErr, Run, IoIdle, manager
  <2> QED
    BY <2>2 DEF Adm!AdmissionNext
<1>5. ASSUME NEW h \in Handlers, RunDone(h) PROVE Adm!AdmissionNext
  <2>1. InAccept' = InAccept /\ h \in m_connections
    BY <1>5 DEF RunDone, InAccept, TablesAgree, TypeOK
  <2>2. Adm!Leave(h)
    BY <1>5, <2>1 DEF Adm!Leave, RunDone, Deregister, Run, IoIdle
  <2> QED
    BY <2>2 DEF Adm!AdmissionNext
<1>6. ASSUME NEW h \in Handlers, HandleAcceptOk(h) PROVE Adm!AdmissionNext
  <2>1. InAccept = {h}
    BY <1>6 DEF HandleAcceptOk, Register, InAccept, OneAccept
  <2>2. m_connections' = m_connections \cup {h}
    BY <1>6 DEF HandleAcceptOk, Register
  <2>3. IF Cardinality(m_connections') < MaxConnections
          THEN \E g \in Handlers \ m_connections' : InAccept' = {g}
          ELSE InAccept' = {}
    <3>1. /\ Cardinality(m_connections') \in Nat
          /\ m_allow_more' <=> Cardinality(m_connections') >= MaxConnections
      BY <1>6, <2>2, FS_AddElement, FS_CardinalityType
      DEF HandleAcceptOk, Register, AllowAnother, Room
    <3>2. CASE m_allow_more'
      <4>1. InAccept' = {}
        BY <1>6, <2>1, <3>2 DEF HandleAcceptOk, Register, InAccept, TypeOK
      <4>2. ~(Cardinality(m_connections') < MaxConnections)
        BY <3>1, <3>2, MaxAssumption
      <4> QED
        BY <4>1, <4>2
    <3>3. CASE ~m_allow_more'
      <4>1. PICK g \in Handlers : hstate[g] = "free" /\
              hstate' = [hstate EXCEPT ![h] = "serving", ![g] = "accepting"]
        BY <1>6, <3>3 DEF HandleAcceptOk, Register
      <4>2. InAccept' = {g}
        BY <1>6, <2>1, <4>1 DEF InAccept, HandleAcceptOk, Register, TypeOK
      <4>3. g \notin m_connections'
        BY <1>6, <2>2, <4>1 DEF TablesAgree, HandleAcceptOk, Register
      <4>4. Cardinality(m_connections') < MaxConnections
        BY <3>1, <3>3, MaxAssumption
      <4> QED
        BY <4>2, <4>3, <4>4
    <3> QED
      BY <3>1, <3>2, <3>3
  <2>4. io = "running" /\ io' = "running"
    BY <1>6 DEF HandleAcceptOk, Register, Run, IoIdle
  <2>5. Adm!Admit(h)
    BY <2>1, <2>2, <2>3, <2>4 DEF Adm!Admit, Adm!HasPlace, Adm!Cardinality, Cardinality
  <2> QED
    BY <2>5 DEF Adm!AdmissionNext
<1>7. ASSUME NEW h \in InAccept, NEW s \in {"accepted", "posted"},
             hstate' = [hstate EXCEPT ![h] = s], UNCHANGED <<io, m_connections>>
      PROVE  UNCHANGED Adm!avars
  <2>1. InAccept' = InAccept
    BY <1>7 DEF InAccept, TypeOK
  <2> QED
    BY <1>7, <2>1, AdmStutter
<1>8. ASSUME NEW h \in Handlers, ServeDone(h) PROVE UNCHANGED Adm!avars
  <2>1. InAccept' = InAccept
    BY <1>8 DEF ServeDone, InAccept, TypeOK
  <2> QED
    BY <1>8, <2>1, AdmStutter DEF ServeDone, manager
<1>9. ASSUME NEW h \in Handlers,
             PostAcceptCb(h) \/ HeartbeatSweep(h) \/ AcceptFails(h)
               \/ \E f \in Fds : ClientConnects(h, f)
      PROVE  UNCHANGED Adm!avars
  <2>1. h \in InAccept
    BY <1>9 DEF InAccept, PostAcceptCb, HeartbeatSweep, AcceptFails, ClientConnects
  <2>2. UNCHANGED <<io, m_connections>>
        /\ \E s \in {"accepted", "posted"} : hstate' = [hstate EXCEPT ![h] = s]
    BY <1>9 DEF PostAcceptCb, HeartbeatSweep, AcceptFails, ClientConnects, manager
  <2> QED
    BY <1>7, <2>1, <2>2
<1>10. ASSUME HeartbeatIdle \/ HeartbeatRearm \/ HeartbeatSweepNothing \/ DoStop
                \/ HeartbeatFires \/ SignalArrives \/ Terminate \/ TerminateCancel
                \/ UNCHANGED vars \/ \E h \in Handlers : HeartbeatSweepArrived(h)
       PROVE  UNCHANGED Adm!avars
  <2>1. UNCHANGED <<io, hstate, m_connections>>
    BY <1>10 DEF HeartbeatIdle, HeartbeatRearm, HeartbeatSweepNothing, DoStop,
                 HeartbeatFires, SignalArrives, Terminate, TerminateCancel, vars,
                 HeartbeatSweepArrived, manager
  <2>2. InAccept' = InAccept
    BY <2>1 DEF InAccept
  <2> QED
    BY <2>1, <2>2, AdmStutter
<1>11. CASE Listen
  BY <1>1, <1>11 DEF Listen, manager
<1> QED
  BY <1>2, <1>3, <1>4, <1>5, <1>6, <1>8, <1>9, <1>10, <1>11
  DEF Next, IoStep, Environment

\* Every behaviour of the server is a behaviour of bounded admission.
THEOREM Refinement == Spec => ImplementsAdmission
<1>1. Init => Adm!AdmissionInit
  BY AdmInit
<1>2. IInv /\ [Next]_vars => [Adm!AdmissionNext]_(Adm!avars)
  BY AdmNext
<1> QED
  BY <1>1, <1>2, Invariance, PTL DEF Spec, ImplementsAdmission, Adm!AdmissionSpec
=============================================================================
