------------------------------ MODULE Library ------------------------------
(***************************************************************************)
(* The parts of the library and of its applications that do not share      *)
(* state, in one model: a behaviour is one of a single part, and the       *)
(* variables of the others stay 0.                                         *)
(***************************************************************************)
EXTENDS Naturals, Sequences

CONSTANTS
  Chains, MinSize, MaxSize, BlockSize, Slack, MaxBytes, MaxBlocks,      \* Buffers
  Hosts, Keep, Threads, MaxExchanges, MaxPosted,                        \* Collectors
  MaxCalls, MaxWrites, MaxAnswers,                                      \* Request
  Contexts, MaxConfigs,                                                 \* Certificates
  MaxRebuilds, MaxHosts, Servers, Skipped, Certs,                       \* Handshake
  MaxChanges, MaxFields, Urls,                                          \* Messages
  Users, MaxCaptures, MaxCommands,                                      \* ProxyApp
  Holds, Signer, AltNames,                                              \* CertFileTest
  TrafficHosts, MaxCollected, MaxClears                                 \* CocoaTraffic

ASSUME LibraryAssumption == MaxCalls \in Nat /\ MaxHosts \in Nat /\ Keep \in Nat /\ MaxFields \in Nat

\* The sizes of blocks, of which the strategy takes the least.
ASSUME BuffersAssumption ==
  /\ MinSize \in Nat /\ MaxSize \in Nat /\ MinSize <= MaxSize
  /\ BlockSize \in Nat /\ Slack \in Nat /\ MaxBytes \in Nat

\* The names of hosts, and those in certificates, are sequences of labels.
ASSUME NamesAssumption ==
  /\ Servers \subseteq Seq(STRING)
  /\ \A c \in Certs : c.cn \in Seq(STRING) /\ \A a \in c.alt : a.name \in Seq(STRING)

VARIABLES
  part,
  chain, put, ended, content, assigned,
  m_io, collected, m_captured_traffic, seen, m_show_message_bodies, printed,
  caller, s_mutex, s_atomic_instance, made, reader, alive,
  req, handlers, pending, calls, answers, requestEnded,
  env, disk, config, configs, maker, instance, refs, contexts, aborted,
  hosts, marvin_flag, at, line, cert, reports,
  msg, sent, wire, back, changes,
  main, proxy, m_mutex, m_server_ready, ctl, io_ctl, traffic, shown, collects,
  session, terminated, commands,
  case, testAt, ctx, success, where, _subjectAltnames, thrown, passed,
  main_thread, background, _delegateObj, _anonDelegate, ioLoop, mainQueue, _hosts, _hostsArray, _traffic,
  rows, open_rows, dirty, _expandedRow, gathered, clears, filed

B == INSTANCE Buffers
L == INSTANCE Collectors
R == INSTANCE Request WITH ended <- requestEnded
C == INSTANCE Certificates
H == INSTANCE Handshake WITH
  Contexts <- {"outer", "socket"}, MaxConfigs <- MaxRebuilds, Hosts <- Servers
M == INSTANCE Messages
A == INSTANCE ProxyApp
T == INSTANCE CertFileTest WITH at <- testAt
O == INSTANCE CocoaTraffic

-----------------------------------------------------------------------------

Init ==
  /\ part \in {"buffers", "capture", "pipe", "request", "certificates", "handshake", "messages",
               "proxy_app", "cert_files", "cocoa"}
  /\ IF part = "buffers" THEN B!Init
     ELSE chain = 0 /\ put = 0 /\ ended = 0 /\ content = 0 /\ assigned = 0
  /\ IF part \in {"capture", "pipe"} THEN L!Init
     ELSE /\ m_io = 0 /\ collected = 0 /\ m_captured_traffic = 0 /\ seen = 0
          /\ m_show_message_bodies = 0 /\ printed = 0
          /\ caller = 0 /\ s_mutex = 0 /\ s_atomic_instance = 0 /\ made = 0 /\ reader = 0 /\ alive = 0
  /\ IF part = "request" THEN R!Init
     ELSE req = 0 /\ handlers = 0 /\ pending = 0 /\ calls = 0 /\ answers = 0 /\ requestEnded = 0
  /\ IF part = "certificates" THEN C!Init
     ELSE part # "handshake" =>
            /\ env = 0 /\ disk = 0 /\ config = 0 /\ configs = 0 /\ maker = 0
            /\ instance = 0 /\ refs = 0 /\ contexts = 0 /\ aborted = 0
  /\ IF part = "handshake" THEN H!HandshakeInit
     ELSE hosts = 0 /\ marvin_flag = 0 /\ at = 0 /\ line = 0 /\ cert = 0 /\ reports = 0
  /\ IF part = "messages" THEN M!Init
     ELSE msg = 0 /\ sent = 0 /\ wire = 0 /\ back = 0 /\ changes = 0
  /\ IF part = "proxy_app" THEN A!Init
     ELSE /\ main = 0 /\ proxy = 0 /\ m_mutex = 0 /\ m_server_ready = 0 /\ ctl = 0
          /\ io_ctl = 0 /\ traffic = 0 /\ shown = 0 /\ collects = 0
          /\ session = 0 /\ terminated = 0 /\ commands = 0
  /\ IF part = "cert_files" THEN T!Init
     ELSE /\ case = 0 /\ testAt = 0 /\ ctx = 0 /\ success = 0 /\ where = 0 /\ _subjectAltnames = 0
          /\ thrown = 0 /\ passed = 0
  /\ IF part = "cocoa" THEN O!Init
     ELSE /\ main_thread = 0 /\ background = 0 /\ _delegateObj = 0 /\ _anonDelegate = 0 /\ ioLoop = 0
          /\ mainQueue = 0 /\ _hosts = 0 /\ _hostsArray = 0 /\ _traffic = 0 /\ rows = 0 /\ open_rows = 0 /\ dirty = 0
          /\ _expandedRow = 0 /\ gathered = 0 /\ clears = 0 /\ filed = 0

buffers == <<chain, put, ended, content, assigned>>
collectors == <<m_io, collected, m_captured_traffic, seen, m_show_message_bodies, printed,
                caller, s_mutex, s_atomic_instance, made, reader, alive>>
request == <<req, handlers, pending, calls, answers, requestEnded>>
certificates == <<env, disk, config, configs, maker, instance, refs, contexts, aborted>>
handshake == <<hosts, marvin_flag, at, line, cert, reports>>
messages == <<msg, sent, wire, back, changes>>
proxy_app == <<main, proxy, m_mutex, m_server_ready, ctl, io_ctl, traffic, shown, collects,
               session, terminated, commands>>
cert_files == <<case, testAt, ctx, success, where, _subjectAltnames, thrown, passed>>
cocoa == <<main_thread, background, _delegateObj, _anonDelegate, ioLoop, mainQueue, _hosts, _hostsArray,
           _traffic, rows, open_rows, dirty, _expandedRow, gathered, clears, filed>>

Next ==
  /\ UNCHANGED part
  /\ \/ /\ part = "buffers" /\ B!Next
        /\ UNCHANGED <<collectors, request, certificates, handshake, messages, proxy_app, cert_files, cocoa>>
     \/ /\ part = "capture" /\ L!CaptureNext
        /\ UNCHANGED <<buffers, request, certificates, handshake, messages, proxy_app, cert_files, cocoa>>
     \/ /\ part = "pipe" /\ L!PipeNext
        /\ UNCHANGED <<buffers, request, certificates, handshake, messages, proxy_app, cert_files, cocoa>>
     \/ /\ part = "request" /\ R!Next
        /\ UNCHANGED <<buffers, collectors, certificates, handshake, messages, proxy_app, cert_files, cocoa>>
     \/ /\ part = "certificates" /\ C!Next
        /\ UNCHANGED <<buffers, collectors, request, handshake, messages, proxy_app, cert_files, cocoa>>
     \/ /\ part = "handshake" /\ H!HandshakeNext
        /\ UNCHANGED <<buffers, collectors, request, messages, proxy_app, cert_files, cocoa>>
     \/ /\ part = "messages" /\ M!Next
        /\ UNCHANGED <<buffers, collectors, request, certificates, handshake, proxy_app, cert_files, cocoa>>
     \/ /\ part = "proxy_app" /\ A!Next
        /\ UNCHANGED <<buffers, collectors, request, certificates, handshake, messages, cert_files, cocoa>>
     \/ /\ part = "cert_files" /\ T!Next
        /\ UNCHANGED <<buffers, collectors, request, certificates, handshake, messages, proxy_app, cocoa>>
     \/ /\ part = "cocoa" /\ O!Next
        /\ UNCHANGED <<buffers, collectors, request, certificates, handshake, messages, proxy_app, cert_files>>

vars == <<part, buffers, collectors, request, certificates, handshake, messages, proxy_app, cert_files, cocoa>>

Spec == Init /\ [][Next]_vars

-----------------------------------------------------------------------------
(* The properties of the parts.                                             *)

\* Buffers!ChainHolds: a buffer chain holds the bytes it was given, in order.
ChainHolds == part = "buffers" => B!ChainHolds

\* Collectors!LatestKept: per host, the captures kept are the latest ones; and
\* Collectors!OneInstance: double-checked locking makes one PipeCollector; and
\* CocoaTraffic!TrafficFiled: what ObjcCollector hands over is filed and shown.
CollectorsKept ==
  /\ part = "capture" => L!LatestKept
  /\ part = "pipe" => L!OneInstance
  /\ part = "cocoa" => O!TrafficFiled

\* Request!AnsweredOnce: no call on a Request that gets to its end is answered
\* twice.
AnsweredOnce == part = "request" => R!AnsweredOnce

\* Certificates!StoreHeld: the X509_STORE outlives every context that uses it;
\* and Certificates!RootsTrusted: a store the utility completed holds the roots.
TrustKept == part = "certificates" => C!TrustKept

\* Handshake!VerdictSound: a verdict is that of the certificate shown; and
\* CertFileTest!Judged: a test of a file of roots that passes tells the truth.
VerdictsSound ==
  /\ part = "handshake" => H!VerdictSound
  /\ part = "cert_files" => T!Judged

\* Messages!RoundTrip: a message written and parsed again says the same.
RoundTrip == part = "messages" => M!RoundTrip

\* ProxyApp!StartSynchronised: start() returns once the server listens.
StartSynchronised == part = "proxy_app" => A!StartSynchronised

=============================================================================
