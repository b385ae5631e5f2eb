----------------------------- MODULE ProxyApp ------------------------------
(***************************************************************************)
(* apps/proxy_app: a main thread that starts the proxy in a thread of its  *)
(* own, waits for it to listen, and shows what was captured from a timer;  *)
(* and the control thread of the same directory, which a program may start *)
(* once the proxy is up (main does not).                                   *)
(*                                                                         *)
(* MitmThread::start is split where the two threads can interleave: at the *)
(* mutex, at the test of the condition and at the notification.  A control *)
(* server is here what its clients see of it (module TcpServer).           *)
(***************************************************************************)
EXTENDS Naturals, Sequences

CONSTANTS
  Users,          \* clients of the control port
  MaxCaptures,    \* bound: exchanges collected
  MaxCommands     \* bound: control requests

VARIABLES
  main,              \* where the main thread is
  proxy,             \* where the proxy thread is
  m_mutex,           \* the threads that hold it
  m_server_ready,
  ctl,               \* where the control thread is
  io_ctl,            \* handlers posted to the io_context of the main thread
  traffic, shown,    \* exchanges captured; how many the timer showed last
  collects,          \* exchanges collected so far
  session,           \* [Users -> control session]
  terminated,        \* servers whose terminate() was called
  commands           \* counter for the bound

threads  == <<main, proxy, m_mutex, m_server_ready>>
timer    == <<io_ctl, traffic, shown, collects>>
sessions == <<ctl, session, terminated, commands>>
vars     == <<threads, timer, sessions>>

Init ==
  /\ main = "parsing" /\ proxy = "none"
  /\ m_mutex = {} /\ m_server_ready \in BOOLEAN
  /\ io_ctl = <<>> /\ traffic = 0 /\ shown = 0 /\ collects = 0
  /\ ctl = "none" /\ session = [u \in Users |-> [at |-> "none"]]
  /\ terminated = {} /\ commands = 0

\* main is back from start(): the proxy is up, as far as main knows.
Up == main \in {"started", "running"}

\* m_server_uptr is not null.
HasServer == proxy \notin {"none", "created"}

\* main reads its options.  They decide on ports and on the filter, which are
\* not modelled; but CLI11_PARSE returns when it cannot parse them or was asked
\* for help, without --marvin-home main exits, and Certificates::init throws
\* when there is no store in that directory.
Options == {"--proxy-port", "--marvin-home", "--https-mitm-regexes",
            "--https-mitm-ports", "--config-file", "--ctl-port"}
Parses ==
  /\ main = "parsing"
  /\ \E given \in SUBSET Options, parsed, store \in BOOLEAN :
       main' = IF parsed /\ "--marvin-home" \in given /\ store THEN "constructed" ELSE "exited"
  /\ UNCHANGED <<proxy, m_mutex, m_server_ready, timer, sessions>>

-----------------------------------------------------------------------------
(* MitmThread::start, in the main thread.                                   *)

\* The flag is cleared, and then the thread is created.
Creates ==
  /\ main = "constructed"
  /\ m_server_ready' = FALSE
  /\ proxy' = "created" /\ main' = "locking"
  /\ UNCHANGED <<m_mutex, timer, sessions>>

WaiterLocks ==
  /\ main = "locking" /\ m_mutex = {}
  /\ m_mutex' = {"main"} /\ main' = "testing"
  /\ UNCHANGED <<proxy, m_server_ready, timer, sessions>>

\* m_cond_var.wait: the predicate is tested under the mutex, which is released
\* when it holds; otherwise with the start of the wait.
WaiterTests ==
  /\ main = "testing"
  /\ \/ m_server_ready /\ main' = "started" /\ m_mutex' = {}
     \/ ~m_server_ready /\ main' = "waiting" /\ UNCHANGED m_mutex
  /\ UNCHANGED <<proxy, m_server_ready, timer, sessions>>

WaiterSleeps ==
  /\ main = "waiting" /\ main' = "asleep"
  /\ m_mutex' = {}
  /\ UNCHANGED <<proxy, m_server_ready, timer, sessions>>

\* A condition variable may also wake up without a notification.
WakesUp ==
  /\ main = "asleep" /\ main' = "locking"
  /\ UNCHANGED <<proxy, m_mutex, m_server_ready, timer, sessions>>

-----------------------------------------------------------------------------
(* The thread function, in the proxy thread.                                *)

\* m_server_uptr is assigned; listen() binds and posts the callback.  (When it
\* cannot bind, it throws, and the process ends.)
ThreadRuns ==
  /\ \/ proxy = "created" /\ proxy' = "made"
     \/ proxy = "made" /\ proxy' = "listening"
  /\ UNCHANGED <<main, m_mutex, m_server_ready, timer, sessions>>

\* Mutation: the flag is set without the mutex.
CallbackLocks_NoLock ==
  /\ proxy = "listening" /\ proxy' = "locked"
  /\ UNCHANGED <<main, m_mutex, m_server_ready, timer, sessions>>

\* The callback that listen() posted, run by the server's own thread.
CallbackLocks ==
  /\ proxy = "listening" /\ m_mutex = {}
  /\ m_mutex' = {"proxy"} /\ proxy' = "locked"
  /\ UNCHANGED <<main, m_server_ready, timer, sessions>>

CallbackSets ==
  /\ proxy = "locked"
  /\ m_server_ready' = TRUE /\ m_mutex' = m_mutex \ {"proxy"}
  /\ proxy' = "unlocked"
  /\ UNCHANGED <<main, timer, sessions>>

\* notify_all, after the mutex was released.
CallbackNotifies ==
  /\ proxy = "unlocked" /\ proxy' = "serving"
  /\ main' = IF main = "asleep" THEN "locking" ELSE main
  /\ UNCHANGED <<m_mutex, m_server_ready, timer, sessions>>

\* A session of the proxy collects: CaptureCollector posts to io_ctl.
Collects ==
  /\ proxy = "serving" /\ collects < MaxCaptures
  /\ collects' = collects + 1
  /\ io_ctl' = Append(io_ctl, "collect")
  /\ UNCHANGED <<threads, traffic, shown, sessions>>

-----------------------------------------------------------------------------
(* main after start(): io_ctl runs the timer and what collectors posted.    *)

\* timer.arm and io_ctl.run().  setup_next arms the timer again before it
\* calls back, and nobody calls MyTimer::terminate: run() does not return, and
\* main does not come to the join().
Arms ==
  /\ main = "started" /\ main' = "running"
  /\ UNCHANGED <<proxy, m_mutex, m_server_ready, timer, sessions>>

\* The timer expires: setup_next, then the callback that main gave it, which
\* shows what get_captures() returns.
TimerFires ==
  /\ main = "running"
  /\ shown' = traffic
  /\ UNCHANGED <<threads, io_ctl, traffic, collects, sessions>>

PostedRuns ==
  /\ main = "running" /\ io_ctl # <<>>
  /\ io_ctl' = Tail(io_ctl) /\ traffic' = traffic + 1
  /\ UNCHANGED <<threads, shown, collects, sessions>>

-----------------------------------------------------------------------------
(* CtlThread and CtlApp.                                                    *)

\* The constructor starts the thread, which makes its server and listens.
ControlRuns ==
  /\ \/ Up /\ ctl = "none" /\ ctl' = "made"
     \/ ctl = "made" /\ ctl' = "listening"
  /\ UNCHANGED <<threads, timer, session, terminated, commands>>

\* CtlApp::handle: a reader and a writer are made, and a message is read.
handle(u) ==
  /\ ctl = "listening" /\ session[u].at = "none" /\ commands < MaxCommands
  /\ session' = [session EXCEPT ![u] = [at |-> "reading"]]
  /\ UNCHANGED <<threads, timer, ctl, terminated, commands>>

\* The targets of requests, and what the dispatch table has for each of them:
\* the first pattern that matches all of it.
Targets == {"/stop", "/list", "/list_filters", "/echo", "/delay/2", "/"}
find(target) ==
  CASE target = "/stop" -> "p_handle_stop"
    [] target \in {"/list", "/list_filters"} -> "p_handle_list_filters"
    [] target = "/echo" -> "p_handle_echo"
    [] OTHER -> "p_invalid_request"

\* make_200_response, and m_wrtr->async_write of it.
Replies(u, body, then) ==
  session' = [session EXCEPT ![u] = [at |-> "writing", body |-> body, then |-> then]]

\* p_internal_handle: the callback of the read finds a handler and calls it.
p_internal_handle(u) ==
  /\ ctl = "listening" /\ session[u].at = "reading" /\ commands < MaxCommands
  /\ commands' = commands + 1
  /\ UNCHANGED <<threads, timer, ctl, terminated>>

p_invalid_request(u, target) ==
  /\ p_internal_handle(u) /\ find(target) = "p_invalid_request"
  /\ Replies(u, "INVALID REQUEST", "complete")

p_handle_echo(u, target) ==
  /\ p_internal_handle(u) /\ find(target) = "p_handle_echo"
  /\ Replies(u, "THIS IS A RESPONSE BODY", "complete")

p_handle_stop(u, target) ==
  /\ p_internal_handle(u) /\ find(target) = "p_handle_stop"
  /\ Replies(u, "stop not yet implemented", "terminate")

\* The ports are none, the hosts the static list of MitmApp.
p_handle_list_filters(u, target) ==
  /\ p_internal_handle(u) /\ find(target) = "p_handle_list_filters"
  /\ Replies(u, "ports and hosts", "complete")

\* p_req_resp_cycle_complete: another read for "Keep-Alive", written so, and
\* otherwise shutdown() and the done callback.
p_req_resp_cycle_complete(u) ==
  \/ session' = [session EXCEPT ![u] = [at |-> "reading"]]
  \/ session' = [session EXCEPT ![u] = [at |-> "none"]]

\* The callback of a write that succeeds.  After the reply to stop, terminate()
\* of the proxy's server and of its own.
ReplyWritten(u) ==
  /\ ctl = "listening" /\ session[u].at = "writing"
  /\ terminated' = IF session[u].then = "terminate" THEN {"mitm", "ctl"} ELSE terminated
  /\ p_req_resp_cycle_complete(u)
  /\ UNCHANGED <<threads, timer, ctl, commands>>

\* p_on_read_error, p_on_write_error: done.
SessionFails(u) ==
  /\ ctl = "listening" /\ session[u].at \in {"reading", "writing"}
  /\ session' = [session EXCEPT ![u] = [at |-> "none"]]
  /\ UNCHANGED <<threads, timer, ctl, terminated, commands>>

\* The heartbeat after terminate(): listen() returns.
Returns ==
  /\ \/ /\ "ctl" \in terminated /\ ctl = "listening"
        /\ ctl' = "returned" /\ UNCHANGED proxy
     \/ /\ "mitm" \in terminated /\ proxy = "serving"
        /\ proxy' = "returned" /\ UNCHANGED ctl
  /\ UNCHANGED <<main, m_mutex, m_server_ready, timer, session, terminated, commands>>

Next ==
  \/ Parses \/ Creates \/ WaiterLocks \/ WaiterTests \/ WaiterSleeps \/ WakesUp
  \/ ThreadRuns \/ CallbackLocks \/ CallbackSets \/ CallbackNotifies
  \/ Collects \/ Arms \/ TimerFires \/ PostedRuns
  \/ ControlRuns \/ Returns
  \/ \E u \in Users :
       \/ handle(u) \/ ReplyWritten(u) \/ SessionFails(u)
       \/ \E target \in Targets :
            \/ p_invalid_request(u, target) \/ p_handle_echo(u, target)
            \/ p_handle_stop(u, target) \/ p_handle_list_filters(u, target)

Spec == Init /\ [][Next]_vars

-----------------------------------------------------------------------------
(* Properties.                                                              *)

\* The handshake of start(): main sleeps with the flag set only while the
\* notification is still to come (no wake-up is lost, whatever the flag was
\* before), start() returns only when the server listens, and so terminate()
\* is not called through a null m_server_uptr.
StartSynchronised ==
  /\ main = "asleep" /\ m_server_ready => proxy = "unlocked"
  /\ Up => proxy \in {"unlocked", "serving", "returned"}
  /\ terminated # {} => HasServer
=============================================================================
