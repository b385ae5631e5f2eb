----------------------------- MODULE TcpServer -----------------------------
(***************************************************************************)
(* marvin/server: TcpServer, its ServerConnectionManager and the life of   *)
(* the ConnectionHandlers they create.                                     *)
(*                                                                         *)
(* One io thread runs the handlers of the server's io_service in the order *)
(* in which they became ready (queue).  What each queued handler is about  *)
(* is also part of the state it belongs to: the state of a                 *)
(* ConnectionHandler, startPosted, hb and sig.  A second thread may call   *)
(* terminate() at any time.                                                *)
(*                                                                         *)
(* Not modelled: the acceptor is never closed by any code path, so the     *)
(* "acceptor not open" return of p_handle_accept cannot be taken; ready_cb *)
(* does not touch the server.                                              *)
(***************************************************************************)
EXTENDS Naturals, FiniteSets, Sequences

CONSTANTS
  Handlers,         \* addresses at which a ConnectionHandler can be allocated
  Fds,              \* file descriptors the OS can give an accepted socket
  MaxConnections,   \* m_maxNumberOfConnections
  NoFd              \* the descriptor of a socket that is not open

ASSUME MaxAssumption == MaxConnections \in Nat \ {0}
ASSUME FdAssumption == NoFd \notin Fds

VARIABLES
  queue,            \* the ready handlers of m_io
  io,               \* "init", "running", "stopped", or "failed" (bind threw)
  hstate,           \* [Handlers -> state of that ConnectionHandler]
  acceptErr,        \* [Handlers -> did its accept complete with an error]
  fd,               \* [Handlers -> native_socket_fd()]
  startPosted,      \* number of p_start_accept calls posted on m_io
  m_connections,    \* keys of the map of the same name
  m_fd_list,        \* keys of the map of the same name
  m_allow_more,     \* m_allow_more_callback != nullptr
  hb,               \* heartbeat: "off", "armed", "ready", "rearming", "swept"
  sig,              \* signal wait: "off", "armed", "ready", "handled"
  m_terminate_requested,
  tpc               \* the thread in terminate(): "idle" or "cancel"

vars == <<queue, io, hstate, acceptErr, fd, startPosted, m_connections, m_fd_list,
          m_allow_more, hb, sig, m_terminate_requested, tpc>>

manager   == <<m_connections, m_fd_list, m_allow_more>>
lifecycle == <<hb, sig, m_terminate_requested, tpc>>

\* "free": not allocated.  "accepting": async_accept pending.  "accepted":
\* the completion of async_accept is ready.  "posted": p_handle_accept is
\* posted.  "serving": the request handler runs.  "done": its done callback
\* is posted.
HState == {"free", "accepting", "accepted", "posted", "serving", "done"}

\* What can be queued on m_io: a completion of ConnectionHandler h, or one of
\* the server's own handlers.
Ready(h, cb) == <<h, cb>>
Own(cb) == <<"server", cb>>
Tokens == (Handlers \X {"accepted", "posted", "done"})
            \cup ({"server"} \X {"p_start_accept", "p_on_heartbeat", "p_do_stop"})

\* The handlers created by p_start_accept and not yet registered or deleted.
InAccept == {h \in Handlers : hstate[h] \in {"accepting", "accepted", "posted"}}

TypeOK ==
  /\ queue \in Seq(Tokens)
  /\ io \in {"init", "running", "stopped", "failed"}
  /\ hstate \in [Handlers -> HState]
  /\ acceptErr \in [Handlers -> BOOLEAN]
  /\ fd \in [Handlers -> Fds \cup {NoFd}]
  /\ startPosted \in Nat
  /\ m_connections \in SUBSET Handlers
  /\ m_fd_list \in SUBSET Fds
  /\ m_allow_more \in BOOLEAN
  /\ hb \in {"off", "armed", "ready", "rearming", "swept"}
  /\ sig \in {"off", "armed", "ready", "handled"}
  /\ m_terminate_requested \in BOOLEAN
  /\ tpc \in {"idle", "cancel"}

Init ==
  /\ queue = <<>>
  /\ io = "init"
  /\ hstate = [h \in Handlers |-> "free"]
  /\ acceptErr = [h \in Handlers |-> FALSE]
  /\ fd = [h \in Handlers |-> NoFd]
  /\ startPosted = 0
  /\ m_connections = {}
  /\ m_fd_list = {}
  /\ m_allow_more = FALSE
  /\ hb = "off"
  /\ sig = "off"
  /\ m_terminate_requested = FALSE
  /\ tpc = "idle"

\* The io thread can pick its next handler: run() has not returned and the
\* thread is not in the middle of p_on_heartbeat.
IoIdle == io = "running" /\ hb # "rearming"

\* The io thread takes the handler tok, which queues the handlers in new.
Run(tok, new) ==
  /\ IoIdle
  /\ queue # <<>>
  /\ Head(queue) = tok
  /\ queue' = Tail(queue) \o new

Post(tok) == queue' = Append(queue, tok)

-----------------------------------------------------------------------------
(* listen: p_initialize arms the signal wait, binds, and starts the         *)
(* heartbeat; then the first p_start_accept is posted and run() is entered. *)
(* A failing bind throws out of listen.                                     *)

Listen ==
  /\ io = "init"
  /\ io' = "running"
  /\ sig' = "armed"
  /\ hb' = "armed"
  /\ startPosted' = startPosted + 1
  /\ Post(Own("p_start_accept"))
  /\ UNCHANGED <<hstate, acceptErr, fd, manager, m_terminate_requested, tpc>>

BindFails ==
  /\ io = "init"
  /\ io' = "failed"
  /\ sig' = "armed"
  /\ UNCHANGED <<queue, hstate, acceptErr, fd, startPosted, manager, hb,
                 m_terminate_requested, tpc>>

-----------------------------------------------------------------------------
(* The accept cycle.                                                        *)

\* Mutation: the limit is not tested.
AllowAnother_NoLimit(cs) == m_allow_more' = FALSE

\* Mutation: > instead of >= in the test of the limit.
AllowAnother_OffByOne(cs) ==
  m_allow_more' = (Cardinality(cs) > MaxConnections)

\* ServerConnectionManager::allow_another_connection, called with the table
\* cs: at the limit the callback is stored, otherwise it is called.
AllowAnother(cs) ==
  m_allow_more' = (Cardinality(cs) >= MaxConnections)

\* p_start_accept run from the queue: a new handler with a pending accept.
StartAccept(h) ==
  /\ Run(Own("p_start_accept"), <<>>)
  /\ startPosted > 0
  /\ hstate[h] = "free"
  /\ startPosted' = startPosted - 1
  /\ hstate' = [hstate EXCEPT ![h] = "accepting"]
  /\ UNCHANGED <<io, acceptErr, fd, manager, lifecycle>>

\* A client connects: the OS gives the socket a descriptor that no open
\* socket has and the completion becomes ready.
ClientConnects(h, f) ==
  /\ io = "running"
  /\ hstate[h] = "accepting"
  /\ f \notin {fd[g] : g \in Handlers}
  /\ hstate' = [hstate EXCEPT ![h] = "accepted"]
  /\ acceptErr' = [acceptErr EXCEPT ![h] = FALSE]
  /\ Post(Ready(h, "accepted"))
  /\ fd' = [fd EXCEPT ![h] = f]
  /\ UNCHANGED <<io, startPosted, manager, lifecycle>>

\* The pending accept fails in the OS (no descriptors, for instance).
AcceptFails(h) ==
  /\ io = "running"
  /\ hstate[h] = "accepting"
  /\ hstate' = [hstate EXCEPT ![h] = "accepted"]
  /\ acceptErr' = [acceptErr EXCEPT ![h] = TRUE]
  /\ Post(Ready(h, "accepted"))
  /\ UNCHANGED <<io, fd, startPosted, manager, lifecycle>>

\* Connection::async_accept's completion posts the callback once more.
PostAcceptCb(h) ==
  /\ Run(Ready(h, "accepted"), <<Ready(h, "posted")>>)
  /\ hstate[h] = "accepted"
  /\ hstate' = [hstate EXCEPT ![h] = "posted"]
  /\ UNCHANGED <<io, acceptErr, fd, startPosted, manager, lifecycle>>

\* ServerConnectionManager::register_connection_handler: the handler, and the
\* descriptor of its socket.
Register(h) ==
  /\ m_connections' = m_connections \cup {h}
  /\ m_fd_list' = m_fd_list \cup {fd[h]}

\* p_handle_accept without error: register, allow another connection (the
\* callback, called at once when there is room, is p_start_accept on a new
\* handler g), serve.
HandleAcceptOk(h) ==
  /\ Run(Ready(h, "posted"), <<>>)
  /\ hstate[h] = "posted"
  /\ ~acceptErr[h]
  /\ Register(h)
  /\ AllowAnother(m_connections')
  /\ IF m_allow_more'
       THEN hstate' = [hstate EXCEPT ![h] = "serving"]
       ELSE \E g \in Handlers :
              /\ hstate[g] = "free"
              /\ hstate' = [hstate EXCEPT ![h] = "serving", ![g] = "accepting"]
  /\ UNCHANGED <<io, acceptErr, fd, startPosted, lifecycle>>

\* p_handle_accept with an error: the handler is deleted and the io_service
\* stopped.
HandleAcceptErr(h) ==
  /\ Run(Ready(h, "posted"), <<>>)
  /\ hstate[h] = "posted"
  /\ acceptErr[h]
  /\ hstate' = [hstate EXCEPT ![h] = "free"]
  /\ fd' = [fd EXCEPT ![h] = NoFd]
  /\ io' = "stopped"
  /\ UNCHANGED <<acceptErr, startPosted, manager, lifecycle>>

-----------------------------------------------------------------------------
(* The end of a connection.                                                 *)

\* The request handler completes: MitmApp posts the done callback it was given.
ServeDone(h) ==
  /\ IoIdle
  /\ hstate[h] = "serving"
  /\ hstate' = [hstate EXCEPT ![h] = "done"]
  /\ Post(Ready(h, "done"))
  /\ UNCHANGED <<io, acceptErr, fd, startPosted, manager, lifecycle>>

\* Mutation: the stored callback is posted but not cleared.
Deregister_KeepsCallback(h) ==
  LET left   == m_connections \ {h}
      resume == m_allow_more /\ Cardinality(left) < MaxConnections
  IN /\ m_connections' = left
     /\ m_fd_list' = m_fd_list \ {fd[h]}
     /\ startPosted' = IF resume THEN startPosted + 1 ELSE startPosted
     /\ UNCHANGED m_allow_more

\* Mutation: the descriptor is left in the list.
Deregister_KeepsFd(h) ==
  LET left   == m_connections \ {h}
      resume == m_allow_more /\ Cardinality(left) < MaxConnections
  IN /\ m_connections' = left
     /\ m_allow_more' = (m_allow_more /\ ~resume)
     /\ startPosted' = IF resume THEN startPosted + 1 ELSE startPosted
     /\ UNCHANGED m_fd_list

\* Mutation: the limit is tested before the connection is erased.
Deregister_TestsFirst(h) ==
  LET resume == m_allow_more /\ Cardinality(m_connections) < MaxConnections
  IN /\ m_connections' = m_connections \ {h}
     /\ m_fd_list' = m_fd_list \ {fd[h]}
     /\ m_allow_more' = (m_allow_more /\ ~resume)
     /\ startPosted' = IF resume THEN startPosted + 1 ELSE startPosted

\* Mutation: the deferred accept is not posted when there is room again.
Deregister_NoResume(h) ==
  /\ m_connections' = m_connections \ {h}
  /\ m_fd_list' = m_fd_list \ {fd[h]}
  /\ UNCHANGED <<m_allow_more, startPosted>>

\* ServerConnectionManager::p_deregister: both tables are updated and, when
\* an accept was deferred and there is room again, it is posted.
Deregister(h) ==
  LET left   == m_connections \ {h}
      resume == m_allow_more /\ Cardinality(left) < MaxConnections
  IN /\ m_connections' = left
     /\ m_fd_list' = m_fd_list \ {fd[h]}
     /\ m_allow_more' = (m_allow_more /\ ~resume)
     /\ startPosted' = IF resume THEN startPosted + 1 ELSE startPosted

\* The done callback of ConnectionHandler::serve: deregister, which deletes
\* the handler and so closes its socket.
RunDone(h) ==
  /\ hstate[h] = "done"
  /\ Deregister(h)
  /\ Run(Ready(h, "done"),
         IF startPosted' = startPosted THEN <<>> ELSE <<Own("p_start_accept")>>)
  /\ hstate' = [hstate EXCEPT ![h] = "free"]
  /\ fd' = [fd EXCEPT ![h] = NoFd]
  /\ UNCHANGED <<io, acceptErr, lifecycle>>

-----------------------------------------------------------------------------
(* Heartbeat and termination.                                               *)

\* The heartbeat interval elapses.
HeartbeatFires ==
  /\ io = "running"
  /\ hb = "armed"
  /\ hb' = "ready"
  /\ Post(Own("p_on_heartbeat"))
  /\ UNCHANGED <<io, hstate, acceptErr, fd, startPosted, manager, sig,
                 m_terminate_requested, tpc>>

\* Mutation: the heartbeat does not re-arm itself.
HeartbeatIdle_Once ==
  /\ Run(Own("p_on_heartbeat"), <<>>)
  /\ hb = "ready"
  /\ ~m_terminate_requested
  /\ hb' = "off"
  /\ UNCHANGED <<io, hstate, acceptErr, fd, startPosted, manager, sig,
                 m_terminate_requested, tpc>>

\* p_on_heartbeat reads m_terminate_requested as false.
HeartbeatIdle ==
  /\ Run(Own("p_on_heartbeat"), <<>>)
  /\ hb = "ready"
  /\ ~m_terminate_requested
  /\ hb' = "rearming"
  /\ UNCHANGED <<io, hstate, acceptErr, fd, startPosted, manager, sig,
                 m_terminate_requested, tpc>>

\* ... and then arms the timer again; terminate() may run in between.
HeartbeatRearm ==
  /\ io = "running"
  /\ hb = "rearming"
  /\ hb' = "armed"
  /\ UNCHANGED <<queue, io, hstate, acceptErr, fd, startPosted, manager, sig,
                 m_terminate_requested, tpc>>

\* p_on_heartbeat after a request to terminate: stop_all() does nothing and
\* the timer is not armed again.  acceptor.cancel() aborts the pending accept
\* of h ...
HeartbeatSweep(h) ==
  /\ hb = "ready"
  /\ m_terminate_requested
  /\ hstate[h] = "accepting"
  /\ Run(Own("p_on_heartbeat"), <<Ready(h, "accepted")>>)
  /\ hb' = "swept"
  /\ hstate' = [hstate EXCEPT ![h] = "accepted"]
  /\ acceptErr' = [acceptErr EXCEPT ![h] = TRUE]
  /\ UNCHANGED <<io, fd, startPosted, manager, sig, m_terminate_requested, tpc>>

\* ... or the accept of h whose connection has arrived but has not been taken
\* from the OS yet (the reactor takes it when the completion runs) ...
HeartbeatSweepArrived(h) ==
  /\ hb = "ready"
  /\ m_terminate_requested
  /\ hstate[h] = "accepted"
  /\ Run(Own("p_on_heartbeat"), <<>>)
  /\ hb' = "swept"
  /\ acceptErr' = [acceptErr EXCEPT ![h] = TRUE]
  /\ fd' = [fd EXCEPT ![h] = NoFd]
  /\ UNCHANGED <<io, hstate, startPosted, manager, sig, m_terminate_requested, tpc>>

\* ... and has no effect when no accept is pending in the acceptor.
HeartbeatSweepNothing ==
  /\ Run(Own("p_on_heartbeat"), <<>>)
  /\ hb = "ready"
  /\ m_terminate_requested
  /\ \A h \in Handlers : hstate[h] # "accepting"
  /\ hb' = "swept"
  /\ UNCHANGED <<io, hstate, acceptErr, fd, startPosted, manager, sig,
                 m_terminate_requested, tpc>>

\* terminate(), called by another thread: first the flag ...
Terminate ==
  /\ tpc = "idle"
  /\ m_terminate_requested' = TRUE
  /\ tpc' = "cancel"
  /\ UNCHANGED <<queue, io, hstate, acceptErr, fd, startPosted, manager, hb, sig>>

\* m_heartbeat_timer.cancel(): a pending wait completes at once.
CancelHeartbeat == hb' = IF hb = "armed" THEN "ready" ELSE hb
BeatOnCancel == IF hb = "armed" THEN <<Own("p_on_heartbeat")>> ELSE <<>>

\* ... then the timer.
TerminateCancel ==
  /\ tpc = "cancel"
  /\ CancelHeartbeat
  /\ queue' = queue \o BeatOnCancel
  /\ tpc' = "idle"
  /\ UNCHANGED <<io, hstate, acceptErr, fd, startPosted, manager, sig,
                 m_terminate_requested>>

\* SIGINT, SIGTERM or SIGQUIT arrives.
SignalArrives ==
  /\ io = "running"
  /\ sig = "armed"
  /\ sig' = "ready"
  /\ Post(Own("p_do_stop"))
  /\ UNCHANGED <<io, hstate, acceptErr, fd, startPosted, manager, hb,
                 m_terminate_requested, tpc>>

\* p_do_stop; the statements after its return are dead code.
DoStop ==
  /\ Run(Own("p_do_stop"), BeatOnCancel)
  /\ sig = "ready"
  /\ sig' = "handled"
  /\ m_terminate_requested' = TRUE
  /\ CancelHeartbeat
  /\ UNCHANGED <<io, hstate, acceptErr, fd, startPosted, manager, tpc>>

-----------------------------------------------------------------------------
\* The handlers the io thread runs from its queue, or is in the middle of.
IoStep ==
  \/ \E h \in Handlers : \/ StartAccept(h)
                         \/ PostAcceptCb(h)
                         \/ HandleAcceptOk(h)
                         \/ HandleAcceptErr(h)
                         \/ RunDone(h)
                         \/ HeartbeatSweep(h)
                         \/ HeartbeatSweepArrived(h)
  \/ HeartbeatIdle \/ HeartbeatRearm \/ HeartbeatSweepNothing
  \/ DoStop

Environment ==
  \/ \E h \in Handlers : \/ \E f \in Fds : ClientConnects(h, f)
                         \/ AcceptFails(h)
                         \/ ServeDone(h)
  \/ HeartbeatFires
  \/ SignalArrives
  \/ Terminate \/ TerminateCancel

Next == Listen \/ BindFails \/ IoStep \/ Environment

\* The io thread keeps running handlers, a thread inside terminate() returns
\* from it, and time passes.  Nothing is assumed of clients, of signals, of
\* the callers of terminate() or of request handlers.
Fairness ==
  /\ WF_vars(IoStep)
  /\ WF_vars(HeartbeatFires)
  /\ WF_vars(TerminateCancel)

Spec == Init /\ [][Next]_vars /\ Fairness

\* The same server in the best of environments: clients keep connecting and
\* every request handler completes.
BusySpec ==
  /\ Spec
  /\ WF_vars(\E h \in Handlers, f \in Fds : ClientConnects(h, f))
  /\ \A h \in Handlers : SF_vars(ServeDone(h))

-----------------------------------------------------------------------------
(* Properties.                                                              *)

\* The limit given to ServerConnectionManager holds for the registered
\* connections together with the one that is being accepted: the test in
\* allow_another_connection is made after the new handler is registered, and
\* a deferred accept is posted only after the erase in p_deregister.
ConnectionLimit == Cardinality(m_connections \cup InAccept) <= MaxConnections

\* The accept cycle is neither lost nor doubled while run() is active: exactly
\* one of an accept in progress, a posted p_start_accept and a deferred callback
\* exists.  A doubled cycle would fail allow_another_connection's assert, a lost
\* one would leave a server that listens and never accepts.
AcceptBaton ==
  io = "running" =>
    Cardinality(InAccept) + startPosted + (IF m_allow_more THEN 1 ELSE 0) = 1

\* The comment in p_handle_accept: when the accept is deferred there is still
\* an outstanding connection whose end will start it again.
DeferredHasWaker == m_allow_more => m_connections # {}

\* The tables of ServerConnectionManager agree with the handlers and with each
\* other, so that no assert of register_connection_handler or p_deregister
\* fails: a handler about to be registered is in neither table, one about to
\* be deregistered is in both.
TablesAgree ==
  /\ m_connections = {h \in Handlers : hstate[h] \in {"serving", "done"}}
  /\ m_fd_list = {fd[h] : h \in m_connections}
  /\ \A g, h \in Handlers : fd[g] = fd[h] /\ fd[g] # NoFd => g = h
  /\ \A h \in Handlers : hstate[h] = "posted" /\ ~acceptErr[h] => fd[h] \in Fds

\* A connection that ends at the limit makes the server accept again.
AcceptResumes ==
  (m_allow_more /\ \E h \in Handlers : hstate[h] = "done")
    ~> (InAccept # {} \/ io # "running")

\* A request to terminate, by signal or from another thread, reaches the
\* heartbeat even when it lands between the test of m_terminate_requested and
\* the re-arming of the timer in p_on_heartbeat.
TerminateSeen ==
  (m_terminate_requested /\ io = "running") ~> (hb = "swept" \/ io # "running")

\* What the declaration of m_terminate_requested says: "heartbeat will
\* terminate server if this is set".
HeartbeatTerminates ==
  (m_terminate_requested /\ io = "running") ~> io # "running"

Adm == INSTANCE Admission WITH
         active  <- m_connections,
         offered <- InAccept,
         ended   <- io \in {"stopped", "failed"}

\* TcpServer and ServerConnectionManager implement bounded admission.
ImplementsAdmission == Adm!AdmissionSpec
=============================================================================
