# A TLA+ model of marvin-cpp

marvin-cpp (`src/marvin`) is a library for HTTP servers, clients and
man-in-the-middle proxies on top of asio; `src/apps/simple_proxy` is the proxy
built from it. This directory holds TLA+ models of its control logic, the TLC
configurations that check them, and TLAPS proofs of the results that matter
most. `PROJECT.json` maps every definition to the lines it models.

## 1. Inventory of the system

| Component | Source | State | Operations | Modelled in |
|---|---|---|---|---|
| TcpServer, ServerConnectionManager, ConnectionHandler | `server/tcp_server`, `server/server_connection_manager`, `server/connection_handler` | acceptor, heartbeat timer, signal wait, `m_terminate_requested`; `m_connections`, `m_fd_list`, `m_allow_more_callback` | listen, accept, register, deregister, heartbeat, `terminate()`, signal | `TcpServer`, `Admission` |
| Connection, Timeout | `connection/connection`, `connection/timeout` | socket, `m_active`, expire and cancel handlers, resolver iterator | connect, handshake, timed read, untimed write, close, destruction | `Connection` |
| FullMessageReader, MessageReaderV2, Parser | `message/full_msg_rdr`, `http/parser` | stream buffer and its strategy, parser state, message | `async_read_message`, `p_parse_some`, read completion | `MessageReader`; callbacks of the header lines in `MessageTransform`, start lines in `Messages` |
| TunnelHandler, HalfTunnel | `connection/tunnel_handler`, `connection/half_tunnel` | one buffer per half, first error, done flags | start, read, write, half done | `Tunnel` |
| MitmApp, MitmHttp, MitmHttps, MitmTunnel | `server/mitm_*` | the messages of the exchange, which sub-handler exists | a session from first message to done callback | `MitmSession` |
| Client, MessageWriter | `client/client`, `message/message_writer` | connection, reader, writer; the body chain | round trip; headers then body | `MitmSession` (as the session uses them), `Request`, `Messages` |
| Request | `client/request*` | connection, writer, what was written | connect, write all, headers, body data, last, trailers | `Request` |
| Request and response transformation | `helpers/mitm` | vector of fields | copy, remove, replace | `MessageTransform` (the forced `Connection: CLOSE` also in `MitmSession`) |
| HeaderFields, MessageBase, message factory, Uri | `http/header_fields`, `http/message_base`, `http/message_factory`, `http/uri` | fields, start line, body | set, remove, copy, move, serialise, parse again | `HeaderFields`, `Messages` |
| Buffers | `buffer/` | chain of blocks, size, asio view | append, copy, move, clear, amalgamate of a chain; append to a block | `Buffers` |
| Collectors, CaptureFilter | `collector/` | bounded lists, posted handlers, singleton, pipe, filter list | collect, `getInstance`, filter | `Collectors`; the filter in `SimpleProxy` |
| Certificates, config utility | `certificates/`, `apps/config` | environment, store on disk, singleton, reference count | build the store step by step, `init`, `getInstance`, secure a context | `Certificates` |
| Handshake utility | `apps/handshake` | list of hosts, connection, reports | resolve, connect, handshake, compare names | `Handshake` |
| simple_proxy | `apps/simple_proxy` | three threads, two servers, control sessions, filters | start, stop, list and edit filters, decide a CONNECT | `SimpleProxy` |
| proxy_app | `apps/proxy_app` | mutex, condition and flag; timer; control sessions | start, wait, display, control requests | `ProxyApp` |
| Cocoa front end | `marvin_objc`, `apps/proxy_cocoa` | delegates, queues, filed traffic, rows of the view | collect, notify, file, draw, expand, clear | `CocoaTraffic` |
| Certificate file tests | `experiments/ssl` | suites, context, verdict | one test after another | `CertFileTest` |
| Errors, configuration, logging, file helpers, older copies | `error/`, `configuration/`, ... | none of their own | | not modelled |

### Interaction

A `TcpServer` owns an `io_service` run by one thread. Every accepted socket is
a `ConnectionHandler` in the tables of the manager; its request handler (a
`MitmApp` in the proxy) gets the `Connection` and a done callback, and works
with a `MessageReaderV2` and a `MessageWriter` on that connection, a `Client`
on the upstream side, or a `TunnelHandler` between both. The done callback
deregisters and so deletes the whole session. `TcpServer::terminate()` is
called by another thread (the control server, a test). Everything else on a
server happens in handlers of its io thread, in the order in which they became
ready. Two servers (proxy and control) run on two threads and share the
filters of the collector. Sessions give their exchanges to a collector, which
posts them to the io thread (`CaptureCollector`), to a pipe (`PipeCollector`) or
to the main thread of an application (`ObjcCollector`). Every ssl context shares
the X509_STORE of the one `Certificates` object.

### What is hard to test here

* Order of completions: an operation and its timeout become ready in any
  order, and each cancels the other (`Timeout`).
* The accept cycle: at the connection limit it is handed to the manager as a
  callback and must come back exactly once.
* Termination from another thread against a heartbeat that tests, then re-arms.
* Callbacks on the stack: `p_parse_some` loops while its callback may start
  the next message in the same buffer, and calls back again, and again, when it
  does not; the users of the reader are not prepared for a second callback.
* A Content-Length that is negative or does not fit an int, as `atoi` reads it,
  becomes the size of a buffer.
* Cutting of the stream: headers, bodies and following messages share reads.
* Lifetime: the done callback deletes the session, so no operation may be
  outstanding, and it must run exactly once whichever of a dozen steps failed.
* Two halves of a tunnel share two sockets, and the timeout of a read cancels
  everything on its socket.
* Writes and handshakes have no timeout.
* The control thread edits the filter list while the proxy thread iterates over
  it, and uses a server pointer the proxy thread may not have set.
* A filter is removed by its place in a list that was shown earlier.
* Double-checked locking around a constructor that may block or throw; a
  condition variable whose flag may be set before anyone waits.
* A chain of buffers keeps the same bytes in three forms, and nothing rebuilds
  the one that is written.
* The certificate store is removed and rebuilt in steps; each context gives back
  a reference to the shared store.

`PROJECT.json` lists each of these under "hazards" with the line where it
bites.

### What makes each component correct

* Server: never more connections than the limit; the accept cycle is neither
  lost nor doubled; the tables agree with the handlers; a deferred accept
  resumes; a request to terminate is seen.
* Connection: each timed operation is delivered exactly once, when neither
  the socket nor the timer has a handler left that could hit a later operation;
  it ends although the peer is silent.
* Reader: the c-th call gets the c-th message, whole, whatever the reads were;
  nothing is lost between messages; each call is answered.
* Tunnel: blocks in order without loss while alive; one callback, when both
  halves are over, with the first error.
* Header fields: put together whole from the parser's pieces; nothing hop by
  hop is sent on, the rest once, and the length fits the body.
* simple_proxy: an edit changes what the client was shown; a CONNECT is decided
  by a list that was in force; a stop ends the process.
* Buffers: all forms of a chain hold the bytes it was given.
* Collectors: the latest exchanges are kept, in order; one pipe collector.
* Request: each call is answered once.
* Certificates: the store outlives its users; a finished store is trusted.
* Messages: written and parsed again, a message says the same.
* proxy_app: `start()` returns when the server listens, and no wake-up is lost.
* Handshake utility and certificate tests: OK and PASS are said only when true.
* Session: done once, when nothing is outstanding; each response belongs to its
  request; an intercepted session is answered under TLS.

## 2. Modules

Each component module declares its CONSTANTS with their assumptions, its state,
one action per handler, `Spec`, and its properties at the end. `MCx` extends `x`
for TLC; the values of the constants are in the `.cfg` files. No symmetry
is used, as most runs check liveness. Definitions named
`Operation_Variant`, next to the operation, are faulty variants of the code; no
specification uses them, they exist to show that each property can fail.

**TcpServer.** `queue` is the FIFO of ready handlers of the io_service; the
state of each `ConnectionHandler` goes through
free, accepting, accepted, posted, serving, done. `Listen` is
`TcpServer::listen`; `StartAccept` is `p_start_accept`; `PostAcceptCb` the
completion in `Connection::async_accept`; `HandleAcceptOk/Err` are
`p_handle_accept`; `RunDone`
is the posted done callback with the whole of `p_deregister`;
`HeartbeatIdle` and `HeartbeatRearm` split `p_on_heartbeat` between the test of
`m_terminate_requested` and the re-arming of the timer, because
`Terminate`/`TerminateCancel` run on another thread. `HeartbeatSweep*` are the
branch that cancels the acceptor, with the accept pending, just completed, or
absent. `SignalArrives`/`DoStop` are the signal path.

**Admission.** The abstract specification: a set of active connections, the
one on offer, and the limit. It knows no queue, no descriptors and no callbacks.
`TcpServer!ImplementsAdmission` maps `m_connections`, the handler in accept
and the end of `run()` to it.

**Connection.** One `Connection` and its `Timeout`. Each timed operation (a
connection attempt or a read) has a number. `SetTimeout` and `CancelTimeout` are
the functions of the same names; `HandleTimeout*` are the three ways through
`p_handle_timeout` (aborted wait, expired, expired but already cancelled).
`m_active` is not initialised by the constructor and so starts with either
value. `HandleResolve`, `ConnectCancelled`, `HandleConnectOk/Err`,
`HandleHandshake`, `AsyncHandshake`, `AsyncRead`, `AsyncWrite` and their
completions follow the functions of the source, including the posts between
them (a handler that posts its callback takes two turns of the queue).
`Close` and `Destroyed` end the use of a connection at any point at which its
user has nothing outstanding; what `Timeout` or the queue still hold then, the
user cannot see. An operation on a closed socket fails.

**MessageReader.** The bytes of a message are abstracted to symbols (part of the
headers, end of headers, body, end of body, rejected). The socket hands over
any non-empty prefix of what has arrived. `Taken` is what `Parser::consume`
accepts up to its pause, `ParseMore`, `ParseDone` and `ParseError` are one turn
of the loop of `p_parse_some`, callback included. The sizes of the reads follow
`ReadBufferStrategy` (`Doubled`, and the choice made once the headers are there).
`Atoi` wraps a Content-Length to the width of an int (`IntSpan`) and `FromLength`
its sum with the slack to that of a `size_t` (`SizeSpan`), so that a length may ask
for a buffer of no bytes; `ReadNothing` is the read into it, which succeeds with none
and ends in neither a read nor a callback.
`NewParser` is the state its constructor leaves the parser in.
`use`, fixed at the start of a behaviour, says what kind of peer and user it has.

**Tunnel.** Both `HalfTunnel`s with their single buffers and
`TunnelHandler::p_half_*`. `ReadTimesOut` carries the effect the expire handler
has on the write of the other half.

**MitmSession.** `ops` is the set of outstanding asynchronous operations of the
session; each action is the handler of one of them, in success (`Ok`) or with
its error (`Failure`). An operation calls back once, except a read: while bytes are
left over or rejected, `p_parse_some` calls back with the same again. `loop` says
with what it does so and `FailsAgain`, `MessageAgain` and `ResponseAgain` are its
turns. As it holds the thread, no other handler runs, not even the posted done
callback (`DoneRuns`), which the turns of a failed read post again and again.

**HeaderFields.** The class as operators on its vector: `SetAtKey`,
`RemoveAtKey`, `CopyExcept`, the search by name or pair, iteration, and what a move
leaves behind. The loops are recursive functions, so that they can be reasoned
about. `MessageTransform` and `Messages` use it.

**MessageTransform.** The header fields of one message. `HeaderField`,
`HeaderValue` and `HeadersComplete` are the callbacks of `Parser` with their two
string buffers; `MakeUpstreamRequest` and `MakeDownstreamResponse` are
`helpers/mitm.cpp`, with the Content-Length the `Client` sets before it writes.
`erase_at_index` calls `erase(end())`, which is undefined: the model drops the
last field, as libstdc++ does, or crashes (`UpstreamCrashes`). A message is
parsed and sent on once; the state space is the set of bounded messages and
of the ways in which the parser can report them.

**SimpleProxy.** The process: `MainStarts`, `ThreadRuns` and `MainJoins` are the
life of its threads, `Sweep` is the heartbeat of a `TcpServer` as its thread sees
it, `Connects` to `SessionRejects` are a control session with the tool at its
other end, `CheckBegins` and `CheckStep` are `is_collectable` turn by turn.
The port of a CONNECT is a parameter of `CheckBegins` that the code does not look at.
`HandleFilter` and `FilterStored` are the two ends of `set_filters`; a check that
overlaps them is torn and its outcome open. `Atoi` wraps at the width of an int.

**Buffers.** Blocks with capacity, length and an identity of their memory; a
chain as `m_chain`, `m_size` and `m_asio_chain`. `content` is a ghost: the bytes
given to the chain. A build may leave any value as the result of `reallocate`,
which has no return statement: a call of it ends the behaviour.

**Collectors.** `collect` posts, `PostedCapture`, `PostedPrint`, `PostedBase` and
`PostedPipe` are the posted handlers; `FirstLoad` to `Opens` split
`PipeCollector::getInstance` where threads can interleave.

**Request.** The members of the object, the operations under way, and how often
each call was answered. A read that is done may leave the loop of its reader turning
(`ReadDone`, `ReadAgain`), which answers the same call again. Whatever ends the process (exception, assert, null
pointer, unbounded recursion) sets `ended`.

**Certificates.** `ConfigStarts`, `RemoveStep`, `BuildStep` and `BuildStops` are
the config utility, stopped anywhere; `init`, `getInstance`, `Secures` and
`Releases` are the object and the contexts that hold its store. **Handshake**
extends it with the utility's two clients and the comparison of names by labels
(`Compared`). `Allowed` is the rule the comments of the code state: a
wildcard only as the leftmost label; `Stray` and `Covers` describe the names the code
accepts besides.

**Messages.** The start line and fields of a message, set by hand or by the
factory, copied, moved, serialised, parsed and written again; and the rules of
`helpers/mitm` for keep-alive, as operators.

**ProxyApp.** The options of `main`; `MitmThread::start` at the grain of mutex, condition and flag; the
timer of the display; the control sessions.

**CertFileTest.** The suites of `client.cpp`, run one test at a time against servers
on the internet, which are external: they answer, fail or are silent.

**CocoaTraffic.** The way of an exchange from the proxy thread through the
strand and the main queue into `CapturedTraffic`, and the outline view that asks
it for rows. A double click names a row as the view numbers them, children of open
hosts included (`ShownRows`), and not a place in the list of hosts.

**Library.** The modules from `Buffers` on share no state, so one model holds
them all: `part` says which of them a behaviour is about and the variables of the
others stay 0. The state space is the sum of theirs, not the product. What is
assumed of external code is said at the head of each module: http-parser and its
`on_status`, uri-parser, `Store::load`, OpenSSL, NSOutlineView.

**TcpServerProofs, TunnelProofs, MitmSessionProofs, ConnectionProofs,
MessageReaderProofs, SimpleProxyProofs, MessageTransformProofs.** Theorems about the
module of that name, with their proofs (section 5). **LibraryProofs** holds those
about `Library`, part by part.

## 3. Runs

| Run | Shows | Bounds |
|---|---|---|
| `tcp_server` | limit, accept cycle, tables, resumption, visibility of terminate, refinement of `Admission` | 3 handlers, 3 descriptors, limit 2 |
| `tcp_terminate` (violation) | a terminate swept while no accept is pending does not end the server | 2 handlers, limit 1 |
| `connection` | one delivery per timed operation, quiet when delivered, the asserts of `Timeout`, one connect callback, progress, with closing and destruction | 2 addresses, 2 reads, 1 write |
| `connection_lost` (violation) | expiry and completion meet: the stored handler is never posted | 1 address, 1 read |
| `reader` | framing, nothing lost, one outcome, bounded reads, every call answered: with peers that wait, send ahead or send nonsense and users that read again inside the callback or later | 3 messages, 4 calls, buffers of 0 to 7, ints of 4 bits, sizes of 5 |
| `reader_remainder` (violation) | left-over bytes are given to a finished parser | 2 messages, 2 calls |
| `tunnel` | order, one callback when quiet, first error, end of the tunnel | 2 blocks in each direction |
| `tunnel_abort` (violation) | a quiet direction kills a busy one | 1 block |
| `message_transform` | fields put together whole, hop-by-hop headers dropped, others kept once, length of the body | 5 names, 3 lines, bodies of 0 and 1 |
| `mitm_session` | done once and quiet, matched responses, TLS, end of the session | 3 requests, 2 repeated callbacks |
| `simple_proxy` | edits as shown, interception as filtered on a port other than 443, a stop ends the process | 2 clients, 3 regexes, 3 requests, 1 CONNECT, ints of 3 bits |
| `library` | one invariant for each of the remaining parts (below) | in `MCLibrary.cfg` and `MCLibrary.tla` |

The invariants of `library`: `ChainHolds` (`Buffers`); `CollectorsKept`, which is
`LatestKept` and `OneInstance` of `Collectors` and `TrafficFiled` of
`CocoaTraffic`; `AnsweredOnce` (`Request`); `TrustKept`, which is `StoreHeld` and
`RootsTrusted` of `Certificates`; `VerdictsSound`, which is `VerdictSound` of
`Handshake` and `Judged` of `CertFileTest`; `RoundTrip` (`Messages`);
`StartSynchronised` (`ProxyApp`).

The type invariants `TypeOK` of the component modules are not in the
configurations. Those of the modules with a run of their own are proved (for
`SimpleProxy` and `MessageTransform` from the sharper `Typed`), as `TypeCorrect`.

Why the bounds are enough. The server needs a limit of at least two to
distinguish a full table from a table that just lost one entry, and one handler
and descriptor more than the limit so that an object and a descriptor can be
used again while others are registered; the proofs remove the bound for the
safety properties. Two addresses make a retry after a failed attempt, two reads
make a timer of one operation meet the next operation, and one write is the
other user of the socket. Three messages give a middle one with neighbours on
both sides; the fourth call meets the end of the stream. Two blocks make a
half reuse its buffer; the proofs remove the bound. Three requests let a client send
more than the session serves: it serves one, as the forced `Connection: CLOSE` makes
no response keep the connection. Three lines give a
repeated name with a line between, a listed header before and after its
Connection line, and two trailers of a chunked message (the last trailer is
never stored, so one would show nothing). `MaxRepeats` bounds what is counted of
the loop of the reader, which otherwise reports for ever, in `MessageReader` and
`MitmSession`; a second repeat shows that it goes on after the first. The buffer sizes of
the reader keep the order of the code's constants, with the lengths below, between
and above them; with ints of 4 bits 10 is a negative number, which makes a size above
all buffers, and 15 is -1, which the slack makes 0 as it does -100 in the code.

Two control clients make an edit between what one was shown and what it asks for;
three requests are list, edit, edit; of the regexes one matches, one does not and
one is malformed; 9 does not fit an int of three bits. In `library`: four bytes fill
two blocks of the usual size, or one block of the largest; five exchanges over
three hosts overflow both lists, which keep one entry before a push; three threads
put a waiter behind a waiter at the mutex; three calls on a `Request` are an
operation before, the one in question and one after, and `MaxAnswers` ends the count
of the answers of a turning loop; three contexts are two that
hold the store and one that is released; two lines of the handshake
utility make one host follow a failure; three changes fill, copy and change a
message before it is written; two users of the control port and three exchanges of
two hosts are the least that interleave.

Deadlock checking is off except in the server runs: a connection, a reader, a
tunnel, a session, a process and an object of the library really come to an end. A server may always be asked to
terminate, even when it has stopped.

## 4. Fairness

The io thread keeps running ready handlers (`io_service::run` returns only when
stopped or out of work), timers expire, the resolver answers, and a thread in
`terminate()` returns from it. Nothing is assumed of peers: a connect, read,
write or handshake may stay pending for ever, and only the timer ends a timed
operation. `Tunnel`, `MessageReader` and `MitmSession` assume of a timed read
what `Connection!OperationEnds` establishes, leaving aside the case `Lost` that
`connection_lost` reports. A loop on the stack turns (`Parse`, `Again`), and a read
into no room returns at once (`ReadNothing`). No request handler is assumed to complete in
`TcpServer!Spec`. `BusySpec`, used only for `tcp_terminate`, adds that clients
keep connecting and handlers complete, so the counterexample does not rest on an
idle environment. Writes, handshakes and tunnels without timeout appear as the
escape clause in `ConnectEnds`, `TunnelEnds` and `SessionEnds`: the properties
state exactly which wait can be unbounded. `SessionEnds` has as a further escape a
reader whose loop holds the thread, and `CallAnswered` the read into no room (6 and 5 of
section 6).

In `SimpleProxy` threads are scheduled, handlers return and the heartbeat beats.
The sweep has strong fairness: it is enabled between the handlers of its thread
and the expired timer stays in the queue of the io_service behind them. Clients
and their connections owe nothing, so that a reply may never be written. The
property `StopEndsProcess` has the escape that a sweep missed, which is the
finding of `tcp_terminate`, or that the process died of undefined behaviour.
The parts of `library` have safety properties only, and no fairness.

## 5. Proofs

The theorems hold for every value of the constants that satisfies the named
assumption of the module; those assumptions only give numbers their range,
except where the text says more. The argument is the same each time: an inductive
invariant, one lemma or step per action, and the property from the invariant.

| Module | Theorems (besides `TypeCorrect`) |
|---|---|
| `TcpServerProofs` | `LimitHolds`, `BatonHolds`, `WakerHolds`, `TablesHold`, `Refinement` |
| `TunnelProofs` | `CallbackHolds`, `FirstErrorHolds`, `OrderHolds` |
| `MitmSessionProofs` | `DoneOnceHolds`, `MatchedHolds`, `SecureRepliesHolds` |
| `ConnectionProofs` | `TimeoutAssertsHold`, `QuietHolds`, `SingleFlightHolds`, `ConnectOnceHolds` |
| `MessageReaderProofs` | `FramingHolds`, `NothingLostHolds`, `OneOutcomeHolds`, `BufferBoundedHolds` |
| `SimpleProxyProofs` | `EditsHold`, `InterceptsHold` |
| `MessageTransformProofs` | `AccumulatedHolds`, `NoHopByHopHolds`, `EndToEndKeptHolds`, `FramedByLengthHolds` |
| `LibraryProofs` | `StartSynchronisedHolds`, `OneInstanceHolds`, `TrustKeptHolds`, `AnsweredOnceHolds`, `VerdictsSoundHolds`, `CollectorsKeptHolds`, `ChainHoldsAlways`, `RoundTripHolds` |

`TcpServerProofs` rests on `MaxAssumption` (the limit is a positive number) and
`FdAssumption` (no socket is not a descriptor); neither the handlers nor the
descriptors need to be finite. The inductive
invariant is

* `TypeOK`;
* `OneAccept`: at most one handler is between allocation and registration;
* `BatonOnce`, `BatonHeld`: exactly one of a handler in accept, a posted
  `p_start_accept` and a deferred callback exists while the server runs;
* `Room`: the registered connections are a finite set within the limit, and
  the accept is deferred exactly when they fill it;
* `TablesAgree`, with `FreeHasNoFd`, `RegisteredHasFd` and `AcceptedHasFd`,
  which tie descriptors to the state of their handlers.

`ConnectionLimit` is not inductive alone: an accept may start at any time
unless one knows that the cycle exists only once (`BatonOnce`) and only while
there is room (`Room`). `Room` is re-established where the code tests the limit
(`allow_another_connection`, after registration) and where it posts the deferred
accept (`p_deregister`, after the erase). From the invariant follow `TypeCorrect`,
`LimitHolds`, `BatonHolds`, `WakerHolds`, `TablesHold` and `Refinement`
(the server implements `Admission`: initial states map to initial states, each
action to an abstract step or a stutter).

`TunnelProofs` rests on `BlocksAssumption`. Its invariant is `TypeOK`,
`CallbackWhenQuiet`, `FirstKept` (`m_first_err` is the error of the first half
that finished) and `Held(h)`, which says for each half and each stage of its
read and write where the block in the buffer stands with respect to the blocks
written. It gives `TypeCorrect`, `CallbackHolds`, `FirstErrorHolds` and
`OrderHolds` for streams of any length.

`MitmSessionProofs`, for any number of requests. `DoneOnce` is not
inductive, as a handler may go on to another operation while it knows nothing of
what else is outstanding. The invariant says that exactly one operation is, until
the callback is posted, and none after, and that the callback is posted once or, by a
failed read whose loop turns, once in each turn (`OneOperation`); what the loop
has started (`Looping`); to which handler and which
state of the socket each operation belongs (`Stage`); that the request in the reader
is the one being answered (`Current`); and what was written and collected so far
(`Fresh`, `Delivered`, `Untouched`). So done runs once not because it is posted once,
but because the loop that posts it again never returns. `Matched` needs `Current`, which holds
because the forced `Connection: CLOSE` ends `MitmHttp` before a second request.

`ConnectionProofs`, for any number of endpoints, reads and writes. The queue of
ready handlers is described by what is in it (`Marked`) and by which handler may
stand before which (`InOrder`): at most one handler on its way for an operation, one
of the timer, one of connecting, and no expire handler behind a cancel handler.
`Flight` says where the outcome of the latest operation is, `Timing` what `m_active`
tells of the timer and of the handlers posted, `Phased` what each phase of the
connection allows. `QuietWhenDelivered` is the one that needs the order: a cancel
handler may be queued while the expire handler is, but only behind it.

`MessageReaderProofs`, for any messages, any cutting of the stream into reads and
any buffer sizes of which `ReaderAssumption` holds: all positive, neither the
header buffer nor the least body buffer above the system's, a `size_t` no narrower than
an int, twice the slack within an int and twice the system's buffer within a `size_t`.
(The code has 1024 or 8192, 100 and 212922, and 32 and 64 bits.) `BufferBounded` says
with it that whatever number `atoi` makes of the header, no read asks for twice the
system's buffer or more, and that the only length that asks for nothing is the one
that wraps to minus the slack. `Framing` is not inductive, as
it speaks of results only; the invariant adds that what was not yet given to a
callback, in the parser, the buffer and the wire, is the current message
followed by the later ones (`Stream`, with an offset for each message instead of a
recursive flattening), that the parser has not passed the end of a message
(`Unstopped`), when a call is open (`Control`) and the sizes of the reads (`Sized`).
`NothingLost` is a second invariant, `Kept`, on top. `OneOutcomeHolds` has
the hypothesis `ReadsOn`: a user whose peer sends ahead reads again inside the
callback, and calls more often than there are messages. Without it the theorem is
false: that is the finding of `reader_remainder`. The configuration `reader`
satisfies it.

`SimpleProxyProofs`, for any clients, regexes, hosts and any width of an int. Both
results are action properties. `Storing` says that one session at a time is in
`set_filters`, with the edit of the list in force; `Seen` that what a user was shown
is the list that will be in force, unless another user overtook it; `Searched`
that a search nothing has disturbed has passed no filter that matches.

`MessageTransformProofs`, for any header names, any number of lines and any way in
which they are cut into callbacks. `TransformAssumption` has the options a Connection
line may list finite, as the tokens of a line are. `Buffered` gives the contents of
the two string buffers after each callback, `Stored` the fields as a function of the
lines; `SentOn`, proved on top, the fields of the message made from them. On a vector
without repeated keys the operations of `HeaderFields` are operations on its set of
fields, which is what the properties speak of. What the loops of `copy_except` and
`remove_hop_by_hop` compute is proved by induction on the number of turns.

`LibraryProofs` is about `Library`, whose constants are all those of its parts: a
behaviour is one of a single part, and the invariant of each theorem speaks of its
part only. Its assumptions: `LibraryAssumption`, the bounds on calls, hosts, fields and
kept captures are numbers; `BuffersAssumption`, so are the sizes of blocks, and the
least is not above the largest, as of the two constants of the strategy;
`NamesAssumption`, the names of hosts and in certificates are sequences of labels, which
is what the utility splits them into.
`StartSynchronised`: which thread holds the mutex where (`Exclusion`), and
that the flag is set only by a listening server (`FlagTrue`). `OneInstance`, the part
of `CollectorsKept` about `getInstance`: the instance is stored under the mutex, by a
thread that saw under the mutex that there is none (`InstanceStored`), for any number
of threads. `TrustKept`: the reference count is two more than the contexts
(`References`), and a store of the config utility has its roots before its
configuration (`RootsFirst`), at whichever step of building it the utility was
stopped; a stop while the store before it was being removed leaves the remains of that
store, of which nothing is said. `AnsweredOnce`, for any number of calls: all that is
under way is of the last call, and of a call that may be answered only once it is one
operation, or the loop of the reader that has answered it and does so again
(`UnderWay`); who has been answered (`Heard`).

`VerdictsSound` is two invariants. That of the handshake utility (`HandshakeInv`) says
how far the list has come and that a verdict is that of the line and the certificate at
hand; the comparison of names label by label, a loop with wildcards, is shown to accept
only names the comments of the code allow, or such with a wildcard inside as cover the host
label by label (`MatchAgrees`, `MatchVouches`, by induction on the labels). The second
alternative is 8 of section 6. That of the
tests of certificate files (`TestInv`) says at each stage of the client which roots its
context has and what its verdict is. The proof showed that the clause of `Judged` about a program ended by a
successful exchange had to allow for a file that holds the root it is thought to lack:
the files of the repository do not, but no code tests it.

`CollectorsKept` is three. Captures (`CaptureInv`): what is posted has the numbers that
follow those seen (`InTurn`), and each entry holds the latest exchanges of its host
(`EntriesLatest`), through a push that evicts and a host that comes back. `PipeInv` is
the invariant of `OneInstance`. The Cocoa front end (`CocoaInv`): the numbers on the way
through the strand and the main queue (`UnderWayTo`), who the delegate is and when
(`Delegated`), that the dictionary and the array of hosts agree (`Dictionary`), that the
exchanges filed under a host are its own in order (`FiledUnder`), and which rows the view
was given (`RowsShown`, `OpenRows`).

`ChainHolds` (`BufferInv`): a chain is well formed (`InForm`), its blocks joined are the
bytes it was given (`Whole`), and the asio chain points at its blocks. What the loops over
the blocks compute (the size counted by `push_back`, the string, the amalgam) is
proved by induction on the blocks; `append` to the last block, which changes its length in
place, is the case that needs the memory of a block to be its own. Chains that
were assigned to are left out, as in the property: `operator=` does not clear them.

`RoundTrip` (`MessagesInv`): the objects are well formed, and of a message that
is under way the head is one that `serialize_headers` may write for the object written
last. Well formed says one thing that is not a type: the value of a Content-Length is a
size, so that trimming leaves it alone. The iteration of the writer visits all fields
in order (`VisitedAll`), the parser's appended lines are these fields (`LinesAppended`),
and storing the last of them by `header` changes the first field with its key or adds one
(`RereadFacts`); fields that are alike are found at the same place (`AlikeFound`), so
the questions about length and connection have the same answers. A response without a
reason is left out, as in the property: the parser may take it for a request.

Induction over data. The induction theorems of the library take an operator as
parameter, which the provers cannot instantiate. Where a proof needs induction, a
lemma `UpTo` or `LeastNumber`, derived from the well-foundedness of the naturals,
takes the property as a set of numbers.

Only model-checked: the liveness properties (`AcceptResumes`, `TerminateSeen`,
`OperationEnds`, `ConnectEnds`, `CallAnswered`, `TunnelEnds`, `SessionEnds`,
`StopEndsProcess`), as fairness and ENABLED are beyond the prover. Every invariant and
every action property of a passing run, and the refinement, is stated by a theorem; the
properties of the four runs that expect a violation are false.

## 6. Disagreements between code and documentation

1. `tcp_server.hpp:137` "heartbeat will terminate server if this is set": the
   sweep ends the server only when an accept is pending at that moment
   (`tcp_terminate`).
2. `timeout.hpp:43` says the cancel handler is posted when the internal timeout
   handler is finally called: not when the timer had expired before
   `cancel_timeout` was called (`connection_lost`).
3. `parser.hpp:126` says data left over belongs to the next message:
   `p_parse_some` gives it at once to the finished parser (`reader_remainder`).
4. `half_tunnel.hpp:18` "streams data until eof": a timeout of the opposite
   direction cancels the write (`tunnel_abort`).

Four more are behaviours of the passing runs. The property named allows for what the code
does in a clause of its own; without that clause TLC finds it violated.

5. `full_msg_rdr.hpp:63` "if there is a content length header try for a buffer that
   size but dont make it bigger than the system r_mem_max": a length that `atoi`
   makes negative gets another size, and with -100 none, after which the call is
   never answered (`CallAnswered` of `reader`).
6. `parser.hpp:96` "A Parse error is unrecoverable. The connection should be
   closed.": `full_msg_rdr.cpp:95` reports and goes on with the rejected bytes,
   on a thread that never gets to the done callback (`SessionEnds` of `mitm_session`).
   In a control session the callback deletes the reader whose loop is running
   (`ctl_thread.cpp:197`, `SimpleProxy!SessionRejects`).
7. `mitm_app.cpp:223` has a CONNECT tunnelled unless its port is 443: the code
   asks the collector for the host alone. The port of `simple_proxy` is 80, and
   `InterceptsAsFiltered` holds.
8. `check_host.cpp:108` says that a wildcard must be the leftmost label of both
   names: its branch cannot be reached and a wildcard matches anywhere
   (`VerdictsSound` of `library`, the alternative `Stray`).

Others met while reading, which the models follow but no run is about.

* `capture_collector.hpp:58` "this function copies both messages [...] The copy is
  made before returning.": `capture_collector.cpp:81` keeps neither, both are null.
* `connection.cpp:85`: the constructor for accepted sockets leaves
  `m_closed_already` uninitialised. `shutdown()` throws when the peer is gone, and
  `cancel()` throws on a closed socket.
* `simple_proxy_cli.cpp:63`: the loop that reads from curl loses what is left when
  curl ends first; `:162`: the subcommand `start` has no handler; `:111`: "* or
  'all'" is not implemented.
* `pipe_collector.cpp:109`: the second regular expression never matches; `:70`:
  the pipe is opened, and waits for a reader, under the mutex.
* `buffer_allocator.hpp:54`: `reallocate` returns nothing. `client.cpp:97`: a body
  of more than 1 MB throws in `amalgamate`. `buffer_chain.hpp:79`: assignment by
  copy does not clear `m_chain`; `:100`: assignment by move leaves `m_asio_chain`.
  (`Buffers!assigned` holds the chains concerned.)
* `certificates.cpp:147`: the result of `load_locations` is ignored; `:70`:
  `getInstance` is not safe for threads. `config.cpp:62`: any answer continues.
* `cert_handshaker.cpp:79`: a host that does not resolve ends the whole list.
* `parser.cpp:211`: a response without reason phrase stays a request where
  http-parser does not call `on_status`; `:256`: the last header line replaces an
  earlier one of the same name.
* `message_writer.cpp:29`: the overload for strings with an empty body sends the
  chain of the message before; `:78`: headers written alone come from
  `m_current_message`, which is null at first.
* `request.hpp:48` "connection is only established once": a `Request` made from a
  name connects for every call.
* `header_fields.cpp:258`: `same_values` compares presence only.
* `message_factory`: the response for 502 says 503.
* proxy_app prints the port of its control server, and nothing listens there.
* `experiments/ssl/client.cpp:20` claims two variations of each test; the one with
  a file goes through an X509_STORE as well.
* `MarvinObjc` listens on port 9991 whatever `setPort` was given.

## 7. Not modelled

Known limits of the code that the properties leave out on purpose: when a request
has several Connection lines only the first is honoured (`NoHopByHop` speaks of a
single one); of several lines with one name a single value survives, not always
the last (`EndToEndKept`); the Connection line of a response is not honoured; a
response with an empty chunked body goes on without a length and is delimited by
the close that `Connection: CLOSE` announces.

Left out: copying, moving, `clear` and `setSize` of a single `ContigBuffer` (its
blocks are copied and moved only inside a chain); the contents of certificates and keys, the calls into OpenSSL and the
X509 library, the vendored http-parser and uri-parser (external, see the modules
that use them); error values, logging, configuration constants, file helpers and
printing; the layout, cells and selection of the Cocoa window; the option parsing
of the programs other than proxy_app; `Connection::shutdown` and `cancel` and `Client::close` (no
caller in the proxy; only a control session calls `shutdown`, when it is over);
the error response of `helpers/mitm` and the query
splitter of `Uri` (no caller); and the acceptor-not-open branch of
`p_handle_accept` (no code closes the acceptor).

Earlier versions and trial programs that no build uses are not modelled either:
`request_backup`, `message_reader`, `adapter`, `io_service_pool`, `ctl_app`,
`cert_handshaker_w1` to `w4`, `validate_host.c`, `buffer_junk`, the echo server
`experiments/ssl/server.cpp` (that of the Boost.Asio examples) and the other
experiments.

## 8. Plan

Done, in this order: `TcpServer` with `Admission`, `Connection`,
`MessageReader`, `Tunnel`, `MitmSession`, `MessageTransform`; proofs for the server
and the tunnel; then `SimpleProxy`, the parts of `Library`, the closing of
connections and the buffer sizes of the reader; then the proofs of section 5 for
every module with a run of its own, and for all parts of the library.

Next: an abstract timed operation (started, then delivered once) implemented by
`Connection`.
