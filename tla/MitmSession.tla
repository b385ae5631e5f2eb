---------------------------- MODULE MitmSession ----------------------------
(***************************************************************************)
(* marvin/server: what the request handler of one connection does, that is *)
(* MitmApp with the MitmHttp, MitmHttps or MitmTunnel it hands over to,    *)
(* the Client that makes the round trip upstream and the MessageWriter of  *)
(* the downstream socket.                                                  *)
(*                                                                         *)
(* ops is the set of asynchronous operations outstanding for the session:  *)
(* each action below is the handler of one of them, with the error it may  *)
(* be given.  When the done callback runs the TcpServer deletes the whole  *)
(* session (ServeDone and RunDone in TcpServer).                           *)
(*                                                                         *)
(* An operation calls back once, except a read: while bytes are left over  *)
(* or rejected p_parse_some turns and calls back again and again, on the   *)
(* one thread there is, as no callback here reads on (MessageReader).  The *)
(* loop holds the thread: no other handler runs.                           *)
(*                                                                         *)
(* Requests are numbered in the order in which the client sent them; a     *)
(* response carries the number of the request it was made for.             *)
(***************************************************************************)
EXTENDS Naturals, Sequences

CONSTANTS
  MaxRequests,      \* bound: requests the client sends on the connection
  MaxRepeats        \* bound: turns of a reader's loop that are counted

ASSUME RequestsAssumption == MaxRequests \in Nat \ {0} /\ MaxRepeats \in Nat

VARIABLES
  ops,              \* asynchronous operations outstanding
  mode,             \* which of m_mitm_http, m_mitm_secure, m_mitm_tunnel exists
  tls,              \* the downstream socket has become a secure server
  arrived,          \* number of the request in the downstream reader
  keepAlive,        \* that request asks for keep-alive
  hasBody,          \* that request has a body
  m_request,        \* number of m_downstream_request_sptr
  m_response,       \* m_downstream_response_sptr
  m_body,           \* the response whose body the downstream writer holds, 0: no body
  written,          \* responses written downstream
  collected,        \* pairs given to the collector
  posted,           \* m_done_callbacks in the queue of the io_service
  ended,            \* how often m_done_callback has run
  loop,             \* what the p_parse_some that holds the thread calls back
                    \* with: "first", "next", "response", "failed"; "no": none does
  repeats           \* how often it has called back again

requests  == <<arrived, keepAlive, hasBody, m_request>>
responses == <<m_response, m_body, written, collected>>
session   == <<mode, tls, posted>>
thread    == <<ended, loop, repeats>>
vars      == <<ops, session, requests, responses, thread>>

\* Operations that end by themselves: timed ones, and handlers just posted.
Timed   == {"readFirst", "downRead", "upConnect", "rtConnect", "rtRead",
            "bodyPosted", "rtBodyPosted"}
Untimed == {"writeHead", "writeBody", "upHandshake", "downHandshake",
            "rtSecureConnect", "rtWriteHead", "rtWriteBody", "tunnel"}

Numbers == 0..MaxRequests
Kinds   == {"connected", "badGateway", "reply"}
NoResponse == [kind |-> "reply", to |-> 0]

TypeOK ==
  /\ ops \subseteq (Timed \cup Untimed)
  /\ mode \in {"none", "http", "https", "tunnel"}
  /\ tls \in BOOLEAN /\ keepAlive \in BOOLEAN /\ hasBody \in BOOLEAN
  /\ arrived \in Numbers /\ m_request \in Numbers /\ m_body \in Numbers
  /\ m_response \in [kind : Kinds, to : Numbers]
  /\ written \in Seq([kind : Kinds, to : Numbers, body : Numbers, tls : BOOLEAN])
  /\ collected \in Seq(Numbers \X Numbers)
  /\ posted \in 0..(MaxRepeats + 1) /\ ended \in 0..1 /\ repeats \in 0..MaxRepeats
  /\ loop \in {"no", "first", "next", "response", "failed"}
  /\ mode = "none" => m_request = 0 /\ ~tls

\* MitmApp::handle has called p_read_first_message.
Init ==
  /\ ops = {"readFirst"}
  /\ mode = "none" /\ tls = FALSE
  /\ arrived = 0 /\ keepAlive = FALSE /\ hasBody = FALSE /\ m_request = 0
  /\ m_response = NoResponse /\ m_body = 0
  /\ written = <<>> /\ collected = <<>>
  /\ posted = 0 /\ ended = 0 /\ loop = "no" /\ repeats = 0

\* The handler of operation a runs, and starts the operations of next.
Runs(a, next) ==
  /\ loop = "no" /\ a \in ops
  /\ ops' = (ops \ {a}) \cup next
  /\ UNCHANGED <<ended, repeats>>

\* The handler of a returns to the io_service.
Goes(a, next) == Runs(a, next) /\ loop' = "no"

\* The callback of a reader, called by p_parse_some: with nothing left over that
\* returns as well, otherwise it calls back with the same again.
Reads(a, next, again) == Runs(a, next) /\ loop' \in {"no", again}

\* p_connection_end, which every error handler of MitmApp calls: p_on_completed.
ConnectionEnd == posted' = posted + 1

Readers == {"readFirst", "downRead", "rtRead"}

\* The handler of a is given an error it has no other answer to.  That of a
\* reader may be a parse error, with the rejected bytes still in the buffer.
Fails(a) ==
  /\ IF a \in Readers THEN Reads(a, {}, "failed") ELSE Goes(a, {})
  /\ ConnectionEnd
  /\ UNCHANGED <<mode, tls, requests, responses>>

-----------------------------------------------------------------------------
(* MitmApp: the first message.                                              *)

\* A request with some Connection header and some body is in the reader.
Arrives ==
  /\ arrived < MaxRequests
  /\ arrived' = arrived + 1
  /\ keepAlive' \in BOOLEAN
  /\ hasBody' \in BOOLEAN

\* A request that is no CONNECT: MitmHttp, whose handle() starts the round trip
\* through a new Client.
StartHttp == Reads("readFirst", {"rtConnect"}, "first") /\ mode' = "http"

\* A CONNECT is intercepted if its host is collectable and tunnelled otherwise
\* (p_determine_action).
StartConnect == Reads("readFirst", {"upConnect"}, "first") /\ mode' \in {"https", "tunnel"}

\* p_on_first_message.
FirstMessage ==
  /\ StartHttp \/ StartConnect
  /\ Arrives
  /\ m_request' = arrived + 1
  /\ UNCHANGED <<tls, responses, posted>>

\* p_on_downstream_read_error.
FirstMessageFails == Fails("readFirst")

-----------------------------------------------------------------------------
(* Writing downstream: MessageWriter::async_write.                          *)

\* A reply with its body, which may be empty, or a response of the proxy's own,
\* for which the writer is given no body and keeps the one it had.
WriteReply(n)  == m_response' = [kind |-> "reply", to |-> n] /\ m_body' \in {0, n}
WriteOwn(kind) == m_response' = [kind |-> kind, to |-> m_request] /\ UNCHANGED m_body

\* The headers are out: p_async_write_full_body, which only posts its callback
\* when there is no body.
HeadWritten ==
  /\ Goes("writeHead", {IF m_body = 0 THEN "bodyPosted" ELSE "writeBody"})
  /\ UNCHANGED <<session, requests, responses>>

HeadFails == Fails("writeHead")
BodyFails == Fails("writeBody")

\* The message is out.
BodyGoes(next) == \E a \in {"writeBody", "bodyPosted"} : Goes(a, next)

Sent == written' = Append(written, [kind |-> m_response.kind, to |-> m_response.to,
                                    body |-> m_body, tls |-> tls])

\* Mutation: the connection header of the origin server is passed on.
ResponseKeepAlive_PassedOn == TRUE

\* make_downstream_good_response sets Connection: CLOSE in every response.
ResponseKeepAlive == FALSE

\* The connection is kept when the request and the response both ask for it.
ReadsAnother == keepAlive /\ ResponseKeepAlive

\* p_on_request_completed of MitmHttp and MitmHttps.
RequestCompleted ==
  /\ m_response.kind = "reply"
  /\ BodyGoes(IF ReadsAnother THEN {"downRead"} ELSE {})
  /\ IF ReadsAnother THEN UNCHANGED posted ELSE ConnectionEnd
  /\ Sent
  /\ UNCHANGED <<mode, tls, requests, m_response, m_body, collected>>

\* The 502 is out: p_connection_end or p_on_tunnel_completed.
BadGatewaySent ==
  /\ m_response.kind = "badGateway"
  /\ BodyGoes({})
  /\ ConnectionEnd
  /\ Sent
  /\ UNCHANGED <<mode, tls, requests, m_response, m_body, collected>>

\* Mutation: the first request is read before the handshake.
ConnectedSent_NoHandshake ==
  /\ m_response.kind = "connected"
  /\ BodyGoes({IF mode = "https" THEN "downRead" ELSE "tunnel"})
  /\ Sent
  /\ UNCHANGED <<session, requests, m_response, m_body, collected>>

\* The 200 is out: MitmHttps turns the socket into a secure server and shakes
\* hands, MitmTunnel starts its TunnelHandler.
ConnectedSent ==
  /\ m_response.kind = "connected"
  /\ BodyGoes({IF mode = "https" THEN "downHandshake" ELSE "tunnel"})
  /\ tls' = (mode = "https")
  /\ Sent
  /\ UNCHANGED <<mode, requests, m_response, m_body, collected, posted>>

-----------------------------------------------------------------------------
(* MitmHttps and MitmTunnel: before the first response.                     *)

\* async_connect to the server of the CONNECT request succeeded.
UpConnected ==
  /\ Goes("upConnect", {IF mode = "https" THEN "upHandshake" ELSE "writeHead"})
  /\ IF mode = "https" THEN UNCHANGED <<m_response, m_body>> ELSE WriteOwn("connected")
  /\ UNCHANGED <<session, requests, written, collected>>

\* It failed: a 502 is written (p_on_upstream_connect_handshake_error in
\* MitmHttps).
UpConnectFails ==
  /\ Goes("upConnect", {"writeHead"})
  /\ WriteOwn("badGateway")
  /\ UNCHANGED <<session, requests, written, collected>>

\* p_handshake_upstream: the server's certificate is known, answer the CONNECT.
UpHandshaken ==
  /\ Goes("upHandshake", {"writeHead"})
  /\ WriteOwn("connected")
  /\ UNCHANGED <<session, requests, written, collected>>

UpHandshakeFails == Fails("upHandshake")

DownHandshaken ==
  /\ Goes("downHandshake", {"downRead"})
  /\ UNCHANGED <<session, requests, responses>>

DownHandshakeFails == Fails("downHandshake")

\* The TunnelHandler's callback, with or without an error.
TunnelDone == Fails("tunnel")

-----------------------------------------------------------------------------
(* Round trips: MitmHttp, MitmHttps and Client.                             *)

\* p_initiate_upstream_roundtrip: MitmHttp makes a Client that connects by
\* itself, MitmHttps connects a secure socket (with a handshake) for it.
Roundtrip == IF mode = "https" THEN "rtSecureConnect" ELSE "rtConnect"

\* p_downstream_read_message: MitmHttps takes the new message for its request,
\* MitmHttp keeps the one it was made with.
NextMessage ==
  /\ Reads("downRead", {Roundtrip}, "next")
  /\ Arrives
  /\ m_request' = IF mode = "https" THEN arrived + 1 ELSE m_request
  /\ UNCHANGED <<session, responses>>

NextMessageFails == Fails("downRead")

\* p_roundtrip_upstream, Client::p_internal_write.
RtConnected ==
  /\ \E a \in {"rtConnect", "rtSecureConnect"} : Goes(a, {"rtWriteHead"})
  /\ UNCHANGED <<session, requests, responses>>

RtHeadWritten ==
  /\ Goes("rtWriteHead", {IF hasBody THEN "rtWriteBody" ELSE "rtBodyPosted"})
  /\ UNCHANGED <<session, requests, responses>>

RtBodyWritten ==
  /\ \E a \in {"rtWriteBody", "rtBodyPosted"} : Goes(a, {"rtRead"})
  /\ UNCHANGED <<session, requests, responses>>

\* The response is there: make_downstream_response, collect, write.
RtRead ==
  /\ Reads("rtRead", {"writeHead"}, "response")
  /\ WriteReply(m_request)
  /\ collected' = Append(collected, <<m_request, m_response'.to>>)
  /\ UNCHANGED <<session, requests, written>>

RtOps == {"rtConnect", "rtSecureConnect", "rtWriteHead", "rtWriteBody", "rtRead"}

\* Mutation: an error response is written after the session was ended.
RtFails_RepliesToo ==
  \E a \in RtOps :
    /\ Goes(a, {"writeHead"})
    /\ WriteOwn("badGateway")
    /\ ConnectionEnd
    /\ UNCHANGED <<mode, tls, requests, written, collected>>

\* Mutation: an error of the Client is dropped ("TODO: how to handle error").
RtFails_Dropped ==
  \E a \in RtOps :
    /\ Goes(a, {})
    /\ UNCHANGED <<session, requests, responses>>

\* m_response_handler with an error, or a failed connect: the session ends.
RtFails == \E a \in RtOps : Fails(a)

-----------------------------------------------------------------------------
(* p_parse_some calls back again.                                           *)

Turns(what) ==
  /\ loop = what /\ repeats < MaxRepeats
  /\ repeats' = repeats + 1
  /\ UNCHANGED <<ops, mode, tls, requests, m_response, m_body, written, ended, loop>>

\* The error handler posts the done callback again.
FailsAgain == Turns("failed") /\ ConnectionEnd /\ UNCHANGED collected

\* p_on_first_message replaces the MitmHttp, MitmHttps or MitmTunnel, whose
\* operation is under way, by another that starts the same; the request read
\* by MitmHttps starts another round trip.
MessageAgain == (Turns("first") \/ Turns("next")) /\ UNCHANGED <<posted, collected>>

\* The response handler makes, collects and writes the response again.
ResponseAgain ==
  /\ Turns("response")
  /\ collected' = Append(collected, <<m_request, m_response.to>>)
  /\ UNCHANGED posted

\* m_done_callback runs.
DoneRuns ==
  /\ loop = "no" /\ posted > 0
  /\ posted' = posted - 1
  /\ ended' = ended + 1
  /\ UNCHANGED <<ops, mode, tls, requests, responses, loop, repeats>>

-----------------------------------------------------------------------------
Ok ==
  \/ FirstMessage \/ HeadWritten \/ RequestCompleted \/ BadGatewaySent \/ ConnectedSent
  \/ UpConnected \/ UpHandshaken \/ DownHandshaken \/ NextMessage
  \/ RtConnected \/ RtHeadWritten \/ RtBodyWritten \/ RtRead

Failure ==
  \/ FirstMessageFails \/ HeadFails \/ BodyFails \/ UpConnectFails \/ UpHandshakeFails
  \/ DownHandshakeFails \/ TunnelDone \/ NextMessageFails \/ RtFails

Again == FailsAgain \/ MessageAgain \/ ResponseAgain

Next == Ok \/ Failure \/ Again \/ DoneRuns

\* Timed operations end (Connection!OperationEnds, MessageReader!CallAnswered).
\* Nothing is assumed of writes, handshakes and tunnels, which may wait for
\* a peer for ever.  What is posted runs, and a loop goes on.
Fairness ==
  /\ \A a \in Timed : WF_vars(Next /\ a \in ops /\ a \notin ops')
  /\ WF_vars(DoneRuns) /\ WF_vars(Again)

Spec == Init /\ [][Next]_vars /\ Fairness

-----------------------------------------------------------------------------
(* Properties.                                                              *)

\* The done callback runs at most once, and once it is posted no operation is
\* left whose handler would find the session deleted (ConnectionHandler::serve
\* deletes it through deregister).  It is posted twice only by a loop that will
\* not let it run.
DoneOnce ==
  /\ ended <= 1
  /\ posted + ended > 0 => ops = {}
  /\ posted + ended > 1 => loop = "failed" /\ ended = 0

\* Every response the client gets belongs to the latest request, headers and
\* body alike, and no exchange is given to the collector twice unless the loop
\* of the response's reader turns.  (In MitmHttp this rests on the forced
\* Connection: CLOSE, as a second request would not become
\* m_downstream_request_sptr.)
Matched ==
  /\ \A i \in DOMAIN written :
       written[i].body \in {0, IF written[i].kind = "reply" THEN written[i].to ELSE 0}
  /\ m_response.kind = "reply" /\ ops \cap {"writeHead", "writeBody", "bodyPosted"} # {} =>
       m_response.to = arrived
  /\ \A i, j \in DOMAIN collected : collected[i][1] = collected[j][1] => i = j \/ loop = "response"

\* An intercepted session answers its CONNECT in the clear and everything
\* after it under TLS.
SecureReplies ==
  \A i \in DOMAIN written :
    IF mode = "https" /\ written[i].kind = "reply" THEN written[i].tls ELSE ~written[i].tls

\* A session ends in its done callback unless a peer holds up a write, a
\* handshake or a tunnel, or a reader's loop holds the thread.
SessionEnds == <>(ended = 1) \/ <>[](ops \cap Untimed # {}) \/ <>[](loop # "no")
=============================================================================
