---------------------------- MODULE Collectors -----------------------------
(***************************************************************************)
(* marvin/collector: CaptureCollector, CoutCollector, CollectorBase, and   *)
(* PipeCollector with its one instance.                                    *)
(*                                                                         *)
(* collect() posts to an io_service that one thread runs: the posted       *)
(* handlers are called one at a time, in the order they were posted.       *)
(* getInstance() is called by any thread, and is split where threads can   *)
(* interleave.  An exchange is a number: the n-th that was collected.      *)
(***************************************************************************)
EXTENDS Integers, Sequences, FiniteSets

CONSTANTS
  Hosts,           \* hosts of the intercepted sessions
  Keep,            \* 10: what a list may hold before one is pushed, and not more
  Threads,         \* callers of PipeCollector::getInstance
  MaxExchanges,    \* bound: exchanges collected
  MaxPosted        \* bound: handlers posted and not yet called

VARIABLES
  m_io,                   \* posted handlers: [to, id, host]
  collected,              \* exchanges collected so far
  m_captured_traffic,     \* HostCaptures: [host, exchanges]
  seen,                   \* ghost: the posted exchanges that were captured, in order
  m_show_message_bodies,  \* the flag of the CaptureFilter, set by the control thread
  printed,                \* what was printed last
  caller,                 \* [Threads -> state of its getInstance call]
  s_mutex,                \* the threads that hold it
  s_atomic_instance,      \* the instance: 0 is nullptr
  made,                   \* PipeCollectors constructed
  reader,                 \* whether a process has the named pipe open for reading
  alive                   \* the process was not ended by SIGPIPE

captures == <<m_captured_traffic, seen>>
display  == <<m_show_message_bodies, printed>>
pipe     == <<caller, s_mutex, s_atomic_instance, made, reader, alive>>
collectors == <<m_io, collected, captures, display, pipe>>

Init ==
  /\ m_io = <<>> /\ collected = 0
  /\ m_captured_traffic = <<>> /\ seen = <<>>
  /\ m_show_message_bodies \in BOOLEAN /\ printed = [bodies |-> {}]
  /\ caller = [t \in Threads |-> [at |-> "idle", got |-> 0]]
  /\ s_mutex = {} /\ s_atomic_instance = 0 /\ made = 0 /\ reader \in BOOLEAN /\ alive = TRUE

-----------------------------------------------------------------------------
(* CaptureCollector and CoutCollector.                                      *)

\* collect(): the CaptureCollector keeps no message, where its header says that
\* it copies both: it stores null pointers for them.
collect(to, h) ==
  /\ collected < MaxExchanges /\ Len(m_io) < MaxPosted
  /\ collected' = collected + 1
  /\ m_io' = Append(m_io, [to |-> to, id |-> collected + 1, host |-> h])
  /\ UNCHANGED <<captures, display, pipe>>

\* Mutation: the newest entries are dropped.
Trimmed_Newest(list) == IF Len(list) > Keep THEN SubSeq(list, 1, Keep) ELSE list

\* while (size() > 10) pop_front(), before the push.
Trimmed(list) == IF Len(list) > Keep THEN SubSeq(list, Len(list) - Keep + 1, Len(list)) ELSE list

\* The posted handler: into the entry of its host, or a new entry.
Captured(traffic, id, h) ==
  LET found == {i \in DOMAIN traffic : traffic[i].host = h}
  IN  IF found # {}
        THEN [i \in DOMAIN traffic |->
               IF i \in found THEN [traffic[i] EXCEPT !.exchanges = Append(Trimmed(@), id)]
                              ELSE traffic[i]]
        ELSE Append(Trimmed(traffic), [host |-> h, exchanges |-> <<id>>])

PostedCapture ==
  /\ m_io # <<>> /\ Head(m_io).to = "capture"
  /\ m_captured_traffic' = Captured(m_captured_traffic, Head(m_io).id, Head(m_io).host)
  /\ seen' = Append(seen, [id |-> Head(m_io).id, host |-> Head(m_io).host])
  /\ m_io' = Tail(m_io)
  /\ UNCHANGED <<collected, display, pipe>>

\* CoutCollector::posted_collect: the request with its body, the response with
\* its body when the flag says so now.
PostedPrint ==
  /\ m_io # <<>> /\ Head(m_io).to = "cout"
  /\ printed' = [bodies |-> {"request"} \cup IF m_show_message_bodies THEN {"response"} ELSE {}]
  /\ m_io' = Tail(m_io)
  /\ UNCHANGED <<collected, captures, m_show_message_bodies, pipe>>

\* CollectorBase::posted_collect, on its strand: the body of the request, and never
\* that of the response.
PostedBase ==
  /\ m_io # <<>> /\ Head(m_io).to = "base"
  /\ printed' = [bodies |-> {"request"}]
  /\ m_io' = Tail(m_io)
  /\ UNCHANGED <<collected, captures, m_show_message_bodies, pipe>>

set_show_message_bodies(on) ==
  /\ m_show_message_bodies' = on
  /\ UNCHANGED <<m_io, collected, captures, printed, pipe>>

-----------------------------------------------------------------------------
(* PipeCollector::getInstance: double-checked locking.                      *)

At(t, where) == caller' = [caller EXCEPT ![t].at = where]
Returns(t, i) == caller' = [caller EXCEPT ![t] = [at |-> "returned", got |-> i]]

\* The first load, without the mutex.
FirstLoad(t) ==
  /\ caller[t].at \in {"idle", "returned", "threw"}
  /\ IF s_atomic_instance # 0 THEN Returns(t, s_atomic_instance) ELSE At(t, "locking")
  /\ UNCHANGED <<m_io, collected, captures, display, s_mutex, s_atomic_instance, made, reader, alive>>

Locks(t) ==
  /\ caller[t].at = "locking" /\ s_mutex = {}
  /\ s_mutex' = {t} /\ At(t, "locked")
  /\ UNCHANGED <<m_io, collected, captures, display, s_atomic_instance, made, reader, alive>>

\* Mutation: the second load is left out.
SecondLoad_None(t) ==
  /\ caller[t].at = "locked" /\ At(t, "making")
  /\ UNCHANGED <<m_io, collected, captures, display, s_mutex, s_atomic_instance, made, reader, alive>>

\* The second load, under the mutex, which its return releases.
SecondLoad(t) ==
  /\ caller[t].at = "locked"
  /\ \/ s_atomic_instance # 0 /\ Returns(t, s_atomic_instance) /\ s_mutex' = {}
     \/ s_atomic_instance = 0 /\ At(t, "making") /\ UNCHANGED s_mutex
  /\ UNCHANGED <<m_io, collected, captures, display, s_atomic_instance, made, reader, alive>>

\* The constructor: testPipeReaderExists throws when the pipe has no reader,
\* which releases the mutex.
Constructs(t) ==
  /\ caller[t].at = "making"
  /\ \/ ~reader /\ At(t, "threw") /\ s_mutex' = {}
     \/ reader /\ At(t, "opening") /\ UNCHANGED s_mutex
  /\ UNCHANGED <<m_io, collected, captures, display, s_atomic_instance, made, reader, alive>>

\* m_out_pipe.open blocks, under the mutex, when the reader has gone since;
\* then the instance is stored and the mutex released.
Opens(t) ==
  /\ caller[t].at = "opening" /\ reader
  /\ made' = made + 1 /\ s_atomic_instance' = made + 1
  /\ Returns(t, made + 1) /\ s_mutex' = {}
  /\ UNCHANGED <<m_io, collected, captures, display, reader, alive>>

\* A process opens or closes the pipe.
ReaderChanges ==
  /\ reader' = ~reader
  /\ UNCHANGED <<m_io, collected, captures, display, caller, s_mutex, s_atomic_instance, made, alive>>

\* collect() of the instance a caller was given.  The content types of request
\* and response are looked at in the posted handler.
collectToPipe(t, types) ==
  /\ caller[t].at = "returned"
  /\ collected < MaxExchanges /\ Len(m_io) < MaxPosted
  /\ collected' = collected + 1
  /\ m_io' = Append(m_io, [to |-> "pipe", types |-> types])
  /\ UNCHANGED <<captures, display, pipe>>

\* bodyIsCollectable: the second expression, "^application\/(.)*$/", matches
\* nothing, so that only bodies of a text type are written.
bodyIsCollectable(type) == type = "text"

\* posted_collect: written to the pipe.  A pipe whose reader has gone raises
\* SIGPIPE, which ends the process.
PostedPipe ==
  /\ m_io # <<>> /\ Head(m_io).to = "pipe"
  /\ m_io' = Tail(m_io)
  /\ \/ /\ reader
        /\ printed' = [bodies |-> {m \in {"request", "response"} : bodyIsCollectable(Head(m_io).types[m])}]
        /\ UNCHANGED alive
     \/ ~reader /\ alive' = FALSE /\ UNCHANGED printed
  /\ UNCHANGED <<collected, captures, m_show_message_bodies, caller, s_mutex, s_atomic_instance, made, reader>>

CaptureNext ==
  \/ \E h \in Hosts, to \in {"capture", "cout", "base"} : collect(to, h)
  \/ PostedCapture \/ PostedPrint \/ PostedBase
  \/ \E on \in BOOLEAN : set_show_message_bodies(on)

PipeNext ==
  /\ alive
  /\ \/ \E t \in Threads :
          \/ FirstLoad(t) \/ Locks(t) \/ SecondLoad(t) \/ Constructs(t) \/ Opens(t)
          \/ \E types \in [{"request", "response"} -> {"text", "application"}] : collectToPipe(t, types)
     \/ PostedPipe \/ ReaderChanges

-----------------------------------------------------------------------------
\* The captured exchanges of a host are the latest ones of the host, in the
\* order they were collected and with none left out between two; there are never
\* more than Keep + 1 of them, nor of hosts, and the host that was captured last
\* is there with its exchange: eviction takes the oldest entries only.
LatestKept ==
  LET of(h) == {seen[k].id : k \in {k \in DOMAIN seen : seen[k].host = h}}
  IN  /\ Len(m_captured_traffic) <= Keep + 1
      /\ \A i, j \in DOMAIN m_captured_traffic :
           m_captured_traffic[i].host = m_captured_traffic[j].host => i = j
      /\ \A i \in DOMAIN m_captured_traffic :
           LET entry == m_captured_traffic[i]
               ids   == entry.exchanges
           IN  /\ Len(ids) \in 1..(Keep + 1)
               /\ \A j, k \in DOMAIN ids : j < k => ids[j] < ids[k]
               /\ {ids[k] : k \in DOMAIN ids} = {id \in of(entry.host) : id >= ids[1]}
      /\ seen # <<>> =>
           \E i \in DOMAIN m_captured_traffic :
             LET ids == m_captured_traffic[i].exchanges IN ids[Len(ids)] = seen[Len(seen)].id

\* However calls of getInstance interleave, and however often the constructor
\* has thrown, at most one PipeCollector is made and every call that returns
\* returns it; only one thread is inside the locked part.
OneInstance ==
  /\ made <= 1
  /\ \A t \in Threads :
       /\ caller[t].at = "returned" => caller[t].got = s_atomic_instance /\ s_atomic_instance # 0
       /\ caller[t].at \in {"locked", "making", "opening"} <=> s_mutex = {t}
=============================================================================
