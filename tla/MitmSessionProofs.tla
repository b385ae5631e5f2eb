------------------------- MODULE MitmSessionProofs -------------------------
(***************************************************************************)
(* Proofs that the safety invariants of MitmSession hold however many      *)
(* requests the client sends.                                              *)
(***************************************************************************)
EXTENDS MitmSession, TLAPS

Writes == {"writeHead", "writeBody", "bodyPosted"}
Roundtrips == {"rtConnect", "rtSecureConnect", "rtWriteHead", "rtWriteBody",
               "rtBodyPosted", "rtRead"}

\* One operation is outstanding until the callback is posted, and none after;
\* only the loop that reports an error posts it again, and it does not run then.
OneOperation ==
  \/ posted = 0 /\ ended = 0 /\ loop # "failed" /\ \E a \in Timed \cup Untimed : ops = {a}
  \/ posted = 1 /\ ended = 0 /\ loop = "no" /\ ops = {}
  \/ posted = repeats + 1 /\ ended = 0 /\ loop = "failed" /\ ops = {}
  \/ posted = 0 /\ ended = 1 /\ loop = "no" /\ ops = {}

\* What the loop that holds the thread has started.
Looping ==
  /\ loop = "no" => repeats = 0
  /\ loop = "response" => ops \cap Writes # {} /\ m_response.kind = "reply"

\* Which of the three handlers the operation belongs to, and whether the
\* downstream socket is secure by then.
Stage ==
  /\ "readFirst" \in ops => mode = "none"
  /\ "upConnect" \in ops => mode \in {"https", "tunnel"} /\ ~tls
  /\ "upHandshake" \in ops => mode = "https" /\ ~tls
  /\ ops \cap {"downHandshake", "downRead"} # {} => mode = "https" /\ tls
  /\ "tunnel" \in ops => mode = "tunnel" /\ ~tls
  /\ ops \cap Roundtrips # {} => mode \in {"http", "https"} /\ (tls <=> mode = "https")
  /\ ops \cap Writes # {} =>
       IF m_response.kind = "reply"
         THEN mode \in {"http", "https"} /\ (tls <=> mode = "https") /\ m_response.to = arrived
         ELSE mode \in {"https", "tunnel"} /\ ~tls

\* The reader's request is the handler's.
Current == arrived = m_request

\* Nothing has been collected, and the writer has been given no body, until the
\* reply is written; there is one reply.
Fresh ==
  /\ ops # {} /\ (ops \cap Writes = {} \/ m_response.kind # "reply") =>
       m_body = 0 /\ collected = <<>>
  /\ ops \cap Writes # {} => m_body \in {0, m_response.to}
  /\ Len(collected) <= 1 \/ loop = "response"

\* What the client has been sent.
Delivered ==
  \A i \in DOMAIN written :
    /\ written[i].body \in {0, IF written[i].kind = "reply" THEN written[i].to ELSE 0}
    /\ written[i].tls <=> mode = "https" /\ written[i].kind = "reply"

\* Nothing is written before the mode is known.
Untouched == mode = "none" => written = <<>>

IInv == TypeOK /\ OneOperation /\ Looping /\ Stage /\ Current /\ Fresh /\ Delivered /\ Untouched

-----------------------------------------------------------------------------
\* The thread is free and the session not over.
Free == ended = 0 /\ loop = "no" /\ repeats = 0

\* The handler of operation a runs alone and leaves the operations it starts.
LEMMA RunsAlone ==
  ASSUME OneOperation, Looping, NEW a, NEW next, Runs(a, next)
  PROVE  ops = {a} /\ posted = 0 /\ ops' = next /\ Free /\ ended' = 0 /\ repeats' = 0
  BY DEF OneOperation, Looping, Runs, Free

\* And when it returns, the thread is free again.
LEMMA GoesAlone ==
  ASSUME OneOperation, Looping, NEW a, NEW next, Goes(a, next)
  PROVE  ops = {a} /\ posted = 0 /\ ops' = next /\ Free /\ Free'
  BY RunsAlone DEF Goes, Free

\* A reader's handler may leave its loop turning.
LEMMA ReadsAlone ==
  ASSUME OneOperation, Looping, NEW a, NEW next, NEW again, Reads(a, next, again)
  PROVE  /\ ops = {a} /\ posted = 0 /\ ops' = next /\ Free /\ ended' = 0 /\ repeats' = 0
         /\ loop' \in {"no", again}
  BY RunsAlone DEF Reads

\* Session starts.
LEMMA InitInv == Init => IInv
<1> SUFFICES ASSUME Init PROVE IInv
  OBVIOUS
<1>1. 0 \in Numbers
  BY RequestsAssumption DEF Numbers
<1>2. TypeOK
  <2>1. /\ written \in Seq([kind : Kinds, to : Numbers, body : Numbers, tls : BOOLEAN])
        /\ collected \in Seq(Numbers \X Numbers)
        /\ m_response \in [kind : Kinds, to : Numbers]
    BY <1>1 DEF Init, Kinds, NoResponse
  <2>2. tls \in BOOLEAN /\ keepAlive \in BOOLEAN /\ hasBody \in BOOLEAN /\ ~tls
    BY DEF Init
  <2> QED BY <1>1, <2>1, <2>2, RequestsAssumption DEF Init, TypeOK, Timed
<1>3. OneOperation /\ Looping
  BY DEF Init, OneOperation, Looping, Timed
<1>4. Stage /\ Current /\ Fresh /\ Delivered /\ Untouched
  BY DEF Init, Stage, Current, Fresh, Delivered, Untouched, Roundtrips, Writes
<1> QED BY <1>2, <1>3, <1>4 DEF IInv

\* A handler that ends the session keeps the invariant.
LEMMA FailsKeeps ==
  ASSUME IInv, NEW a, Fails(a)
  PROVE  IInv'
<1> USE DEF IInv, Fails
<1>1. /\ ops' = {} /\ posted = 0 /\ posted' = 1 /\ ended = 0 /\ ended' = 0 /\ repeats = 0 /\ repeats' = 0
      /\ loop = "no" /\ loop' \in {"no", "failed"}
  <2>1. Runs(a, {}) /\ loop' \in {"no", "failed"}
    BY DEF Goes, Reads
  <2> QED BY <2>1, RunsAlone DEF ConnectionEnd, Free
<1>2. UNCHANGED <<mode, tls, arrived, keepAlive, hasBody, m_request, m_response, m_body,
                  written, collected>>
  BY DEF requests, responses
<1>3. TypeOK'
  BY <1>1, <1>2, RequestsAssumption DEF TypeOK
<1>4. (OneOperation /\ Looping)'
  BY <1>1 DEF OneOperation, Looping
<1>5. (Stage /\ Current /\ Fresh /\ Delivered /\ Untouched)'
  BY <1>1, <1>2 DEF Stage, Current, Fresh, Delivered, Untouched, Roundtrips, Writes
<1> QED BY <1>3, <1>4, <1>5

\* A handler that only starts the next operation, in a stage where that may run,
\* keeps the invariant.
LEMMA ProceedsKeeps ==
  ASSUME IInv, NEW a, NEW b \in Timed \cup Untimed, Goes(a, {b}),
         UNCHANGED <<session, requests, responses>>, Stage', Fresh'
  PROVE  IInv'
<1> USE DEF IInv
<1>1. ops' = {b} /\ posted = 0 /\ Free /\ Free'
  BY GoesAlone
<1>2. UNCHANGED <<mode, tls, posted, arrived, keepAlive, hasBody, m_request, m_response, m_body,
                  written, collected>>
  BY DEF session, requests, responses
<1>3. TypeOK'
  BY <1>1, <1>2, RequestsAssumption DEF TypeOK, Free
<1>4. (OneOperation /\ Looping)'
  BY <1>1, <1>2 DEF OneOperation, Looping, Free
<1>5. (Current /\ Delivered /\ Untouched)'
  BY <1>2 DEF Current, Delivered, Untouched
<1> QED BY <1>3, <1>4, <1>5

\* A response of the proxy's own is handed to the writer.
LEMMA OwnKeeps ==
  ASSUME IInv, NEW a \in {"upConnect", "upHandshake"}, NEW kind \in {"connected", "badGateway"},
         Goes(a, {"writeHead"}), WriteOwn(kind), UNCHANGED <<session, requests, written, collected>>
  PROVE  IInv'
<1> USE DEF IInv
<1>1. ops = {a} /\ ops' = {"writeHead"} /\ posted = 0 /\ Free /\ Free'
  BY GoesAlone
<1>2. UNCHANGED <<mode, tls, posted, arrived, keepAlive, hasBody, m_request, m_body,
                  written, collected>>
  BY DEF session, requests, WriteOwn
<1>3. m_response' = [kind |-> kind, to |-> m_request]
  BY DEF WriteOwn
<1>4. TypeOK'
  BY <1>1, <1>2, <1>3, RequestsAssumption DEF TypeOK, Free, Kinds, Timed, Untimed
<1>5. (OneOperation /\ Looping)'
  BY <1>1, <1>2 DEF OneOperation, Looping, Free, Untimed
<1>6. Stage'
  BY <1>1, <1>2, <1>3 DEF Stage, Roundtrips, Writes
<1>7. Fresh'
  BY <1>1, <1>2, <1>3 DEF Fresh, Writes
<1>8. (Current /\ Delivered /\ Untouched)'
  BY <1>2 DEF Current, Delivered, Untouched
<1> QED BY <1>4, <1>5, <1>6, <1>7, <1>8

\* What the client gets when a message is out.
LEMMA SentDelivers ==
  ASSUME IInv, NEW a \in {"writeBody", "bodyPosted"}, a \in ops, Sent, mode' = mode
  PROVE  /\ Delivered'
         /\ written' \in Seq([kind : Kinds, to : Numbers, body : Numbers, tls : BOOLEAN])
         /\ mode # "none"
<1> USE DEF IInv
<1> DEFINE r == [kind |-> m_response.kind, to |-> m_response.to, body |-> m_body, tls |-> tls]
<1>1. /\ ops \cap Writes # {}
      /\ posted = 0
  BY DEF Writes, OneOperation
<1>2. r \in [kind : Kinds, to : Numbers, body : Numbers, tls : BOOLEAN]
  BY DEF TypeOK
<1>3. /\ r.body \in {0, IF r.kind = "reply" THEN r.to ELSE 0}
      /\ (r.tls <=> mode = "https" /\ r.kind = "reply")
      /\ mode # "none"
  <2>1. IF m_response.kind = "reply"
          THEN mode \in {"http", "https"} /\ (tls <=> mode = "https")
          ELSE mode \in {"https", "tunnel"} /\ ~tls
    BY <1>1 DEF Stage
  <2>2. m_body \in {0, m_response.to} /\ (m_response.kind # "reply" => m_body = 0)
    BY <1>1 DEF Fresh
  <2> QED BY <2>1, <2>2
<1>4. written' = Append(written, r)
  BY DEF Sent
<1>5. written \in Seq([kind : Kinds, to : Numbers, body : Numbers, tls : BOOLEAN])
  BY DEF TypeOK
<1> HIDE DEF r
<1>6. written' \in Seq([kind : Kinds, to : Numbers, body : Numbers, tls : BOOLEAN])
  BY <1>2, <1>4, <1>5
<1>7. \A i \in DOMAIN written' :
        \/ written'[i] = r
        \/ i \in DOMAIN written /\ written'[i] = written[i]
  BY <1>2, <1>4, <1>5
<1>8. Delivered'
  BY <1>3, <1>7 DEF Delivered
<1> QED BY <1>3, <1>6, <1>8

\* A message is out and the session ends.
LEMMA LastSentKeeps ==
  ASSUME IInv, BodyGoes({}), ConnectionEnd, Sent,
         UNCHANGED <<mode, tls, requests, m_response, m_body, collected>>
  PROVE  IInv'
<1> USE DEF IInv
<1>1. PICK a \in {"writeBody", "bodyPosted"} : Goes(a, {})
  BY DEF BodyGoes
<1>2. ops = {a} /\ ops' = {} /\ posted = 0 /\ posted' = 1 /\ Free /\ Free'
  BY <1>1, GoesAlone DEF ConnectionEnd
<1>3. UNCHANGED <<mode, tls, arrived, keepAlive, hasBody, m_request, m_response, m_body, collected>>
  BY DEF requests
<1>4. /\ Delivered'
      /\ written' \in Seq([kind : Kinds, to : Numbers, body : Numbers, tls : BOOLEAN])
      /\ mode # "none"
  BY <1>2, <1>3, SentDelivers
<1>5. TypeOK'
  BY <1>2, <1>3, <1>4, RequestsAssumption DEF TypeOK, Free
<1>6. (OneOperation /\ Looping)'
  BY <1>2 DEF OneOperation, Looping, Free
<1>7. (Stage /\ Current /\ Fresh /\ Untouched)'
  BY <1>2, <1>3, <1>4 DEF Stage, Current, Fresh, Untouched, Roundtrips, Writes
<1> QED BY <1>4, <1>5, <1>6, <1>7

-----------------------------------------------------------------------------
(* One lemma per action that neither fails nor only proceeds.               *)

\* The first message of a session: what is made of it starts afresh.
LEMMA FirstMessageKeeps == IInv /\ FirstMessage => IInv'
<1> SUFFICES ASSUME IInv, FirstMessage PROVE IInv'
  OBVIOUS
<1> USE DEF IInv
<1>1. PICK b \in {"rtConnect", "upConnect"} :
        /\ Reads("readFirst", {b}, "first")
        /\ mode' \in (IF b = "rtConnect" THEN {"http"} ELSE {"https", "tunnel"})
  BY DEF FirstMessage, StartHttp, StartConnect
<1>2. ops = {"readFirst"} /\ ops' = {b} /\ posted = 0 /\ Free /\ ended' = 0 /\ repeats' = 0 /\ loop' \in {"no", "first"}
  BY <1>1, ReadsAlone
<1>3. UNCHANGED <<tls, m_response, m_body, written, collected, posted>>
  BY DEF FirstMessage, responses
<1>4. mode = "none" /\ ~tls /\ arrived = 0
  BY <1>2 DEF Stage, TypeOK, Current
<1>5. arrived' = 1 /\ m_request' = 1 /\ keepAlive' \in BOOLEAN /\ hasBody' \in BOOLEAN
  BY <1>4 DEF FirstMessage, Arrives
<1>6. 1 \in Numbers
  BY RequestsAssumption DEF Numbers
<1>7. TypeOK'
  BY <1>1, <1>2, <1>3, <1>5, <1>6, RequestsAssumption DEF TypeOK, Free, Timed
<1>8. (OneOperation /\ Looping)'
  BY <1>2, <1>3 DEF OneOperation, Looping, Free, Writes, Timed
<1>9. Stage'
  BY <1>1, <1>2, <1>3, <1>4 DEF Stage, Roundtrips, Writes
<1>10. (Current /\ Fresh)'
  BY <1>2, <1>3, <1>5 DEF Current, Fresh, Writes
<1>11. (Delivered /\ Untouched)'
  BY <1>1, <1>3, <1>4 DEF Delivered, Untouched
<1> QED BY <1>7, <1>8, <1>9, <1>10, <1>11

\* A further message on the same connection.
LEMMA NextMessageKeeps == IInv /\ NextMessage => IInv'
<1> SUFFICES ASSUME IInv, NextMessage PROVE IInv'
  OBVIOUS
<1> USE DEF IInv
<1>1. /\ ops = {"downRead"} /\ ops' = {Roundtrip} /\ posted = 0
      /\ Free /\ ended' = 0 /\ repeats' = 0 /\ loop' \in {"no", "next"}
  BY ReadsAlone DEF NextMessage
<1>2. mode = "https" /\ tls
  BY <1>1 DEF Stage
<1>3. UNCHANGED <<mode, tls, posted, m_response, m_body, written, collected>>
  BY DEF NextMessage, session, responses
<1>4. /\ arrived' = arrived + 1 /\ m_request' = arrived + 1 /\ arrived + 1 \in Numbers
      /\ keepAlive' \in BOOLEAN /\ hasBody' \in BOOLEAN
  BY <1>2, RequestsAssumption DEF NextMessage, Arrives, TypeOK, Numbers
<1>5. ops' = {"rtSecureConnect"}
  BY <1>1, <1>2 DEF Roundtrip
<1>6. TypeOK'
  BY <1>1, <1>2, <1>3, <1>4, <1>5, RequestsAssumption DEF TypeOK, Free, Untimed
<1>7. (OneOperation /\ Looping)'
  BY <1>1, <1>3, <1>5 DEF OneOperation, Looping, Free, Writes, Untimed
<1>8. Stage'
  BY <1>2, <1>3, <1>5 DEF Stage, Roundtrips, Writes
<1>9. (Current /\ Fresh)'
  BY <1>1, <1>3, <1>4, <1>5 DEF Current, Fresh, Writes
<1>10. (Delivered /\ Untouched)'
  BY <1>3 DEF Delivered, Untouched
<1> QED BY <1>6, <1>7, <1>8, <1>9, <1>10

\* The response of the upstream server is matched with the request sent.
LEMMA RtReadKeeps == IInv /\ RtRead => IInv'
<1> SUFFICES ASSUME IInv, RtRead PROVE IInv'
  OBVIOUS
<1> USE DEF IInv
<1>1. /\ ops = {"rtRead"} /\ ops' = {"writeHead"} /\ posted = 0
      /\ Free /\ ended' = 0 /\ repeats' = 0 /\ loop' \in {"no", "response"}
  BY ReadsAlone DEF RtRead
<1>2. mode \in {"http", "https"} /\ (tls <=> mode = "https") /\ collected = <<>>
  BY <1>1 DEF Stage, Fresh, Roundtrips, Writes
<1>3. UNCHANGED <<mode, tls, posted, arrived, keepAlive, hasBody, m_request, written>>
  BY DEF RtRead, session, requests
<1>4. /\ m_response' = [kind |-> "reply", to |-> m_request]
      /\ m_body' \in {0, m_request}
      /\ m_request \in Numbers /\ 0 \in Numbers
  BY RequestsAssumption DEF RtRead, WriteReply, TypeOK, Numbers
<1>5. collected' = <<<<m_request, m_request>>>>
  BY <1>2, <1>4 DEF RtRead
<1>6. collected' \in Seq(Numbers \X Numbers) /\ Len(collected') <= 1
  BY <1>4, <1>5
<1>7. m_response' \in [kind : Kinds, to : Numbers]
  BY <1>4 DEF Kinds
<1>8. TypeOK'
  BY <1>1, <1>3, <1>4, <1>6, <1>7, RequestsAssumption DEF TypeOK, Free, Untimed
<1>9. (OneOperation /\ Looping)'
  BY <1>1, <1>3, <1>4 DEF OneOperation, Looping, Free, Writes, Untimed
<1>10. Stage'
  BY <1>1, <1>2, <1>3, <1>4 DEF Stage, Current, Roundtrips, Writes
<1>11. (Current /\ Fresh)'
  BY <1>1, <1>3, <1>4, <1>6 DEF Current, Fresh, Writes
<1>12. (Delivered /\ Untouched)'
  BY <1>3 DEF Delivered, Untouched
<1> QED BY <1>8, <1>9, <1>10, <1>11, <1>12

\* The 200 reply to CONNECT was sent: the session goes on with the handshake
\* downstream, or as a tunnel.
LEMMA ConnectedSentKeeps == IInv /\ ConnectedSent => IInv'
<1> SUFFICES ASSUME IInv, ConnectedSent PROVE IInv'
  OBVIOUS
<1> USE DEF IInv
<1> DEFINE b == IF mode = "https" THEN "downHandshake" ELSE "tunnel"
<1>1. PICK a \in {"writeBody", "bodyPosted"} : Goes(a, {b})
  BY DEF ConnectedSent, BodyGoes
<1>2. ops = {a} /\ ops' = {b} /\ posted = 0 /\ Free /\ Free' /\ m_response.kind = "connected"
  BY <1>1, GoesAlone DEF ConnectedSent
<1>3. UNCHANGED <<mode, posted, arrived, keepAlive, hasBody, m_request, m_response, m_body,
                  collected>>
  BY DEF ConnectedSent, requests
<1>4. /\ Delivered'
      /\ written' \in Seq([kind : Kinds, to : Numbers, body : Numbers, tls : BOOLEAN])
  BY <1>2, <1>3, SentDelivers DEF ConnectedSent
<1>5. mode \in {"https", "tunnel"} /\ m_body = 0 /\ collected = <<>>
  BY <1>2 DEF Stage, Fresh, Writes
<1>6. tls' \in BOOLEAN /\ (tls' <=> mode = "https")
  BY DEF ConnectedSent
<1>7. TypeOK'
  BY <1>2, <1>3, <1>4, <1>5, <1>6, RequestsAssumption DEF TypeOK, Free, Untimed
<1>8. (OneOperation /\ Looping)'
  BY <1>2, <1>3 DEF OneOperation, Looping, Free, Untimed
<1>9. Stage'
  BY <1>2, <1>3, <1>5, <1>6 DEF Stage, Roundtrips, Writes
<1>10. (Current /\ Fresh /\ Untouched)'
  BY <1>2, <1>3, <1>5 DEF Current, Fresh, Untouched, Writes
<1> QED BY <1>4, <1>7, <1>8, <1>9, <1>10

\* The upstream connection of a CONNECT is there (async_connect succeeded).
LEMMA UpConnectedKeeps == IInv /\ UpConnected => IInv'
<1> SUFFICES ASSUME IInv, UpConnected PROVE IInv'
  OBVIOUS
<1>1. CASE mode = "https"
  <2>1. /\ Goes("upConnect", {"upHandshake"})
        /\ UNCHANGED <<session, requests, responses>>
    BY <1>1 DEF UpConnected, responses
  <2>2. ops = {"upConnect"} /\ ops' = {"upHandshake"}
    BY <2>1, GoesAlone DEF IInv
  <2>3. UNCHANGED <<mode, tls, posted, m_response, m_body, collected>>
    BY <2>1 DEF session, responses
  <2>4. Stage' /\ Fresh'
    BY <1>1, <2>2, <2>3 DEF IInv, Stage, Fresh, Roundtrips, Writes
  <2> QED BY <2>1, <2>4, ProceedsKeeps DEF Untimed
<1>2. CASE mode # "https"
  BY <1>2, OwnKeeps DEF UpConnected
<1> QED BY <1>1, <1>2

\* The handlers that only start the next operation.
LEMMA ProceedingKeeps ==
  IInv /\ (HeadWritten \/ DownHandshaken \/ RtConnected \/ RtHeadWritten \/ RtBodyWritten) => IInv'
<1> SUFFICES ASSUME IInv,
                    HeadWritten \/ DownHandshaken \/ RtConnected \/ RtHeadWritten \/ RtBodyWritten
             PROVE  IInv'
  OBVIOUS
<1> USE DEF IInv
<1>1. PICK a, b :
        /\ Goes(a, {b})
        /\ \/ a = "writeHead" /\ b \in {"bodyPosted", "writeBody"}
           \/ a = "downHandshake" /\ b = "downRead"
           \/ a \in Roundtrips /\ b \in Roundtrips
        /\ UNCHANGED <<session, requests, responses>>
  BY Zenon DEF HeadWritten, DownHandshaken, RtConnected, RtHeadWritten, RtBodyWritten, Roundtrips
<1>2. ops = {a} /\ ops' = {b} /\ posted = 0 /\ Free /\ Free'
  BY <1>1, GoesAlone
<1>3. UNCHANGED <<mode, tls, posted, arrived, m_response, m_body, collected>>
  BY <1>1 DEF session, requests, responses
<1>4. Stage'
  BY <1>1, <1>2, <1>3 DEF Stage, Roundtrips, Writes
<1>5. Fresh'
  BY <1>1, <1>2, <1>3 DEF Fresh, Roundtrips, Writes
<1>6. b \in Timed \cup Untimed
  BY <1>1 DEF Timed, Untimed, Roundtrips
<1> QED BY <1>1, <1>4, <1>5, <1>6, ProceedsKeeps

\* RequestCompleted never reads another message: ReadsAnother is false.
LEMMA SendingKeeps == IInv /\ (RequestCompleted \/ BadGatewaySent) => IInv'
<1> SUFFICES ASSUME IInv, RequestCompleted \/ BadGatewaySent PROVE IInv'
  OBVIOUS
<1>1. /\ BodyGoes({}) /\ ConnectionEnd /\ Sent
      /\ UNCHANGED <<mode, tls, requests, m_response, m_body, collected>>
  BY DEF RequestCompleted, BadGatewaySent, ReadsAnother, ResponseKeepAlive
<1> QED BY <1>1, LastSentKeeps

\* A turn of the loop: what is under way stays, the callback is posted or the
\* response collected once more.
LEMMA AgainKeeps == IInv /\ Again => IInv'
<1> SUFFICES ASSUME IInv, Again PROVE IInv'
  OBVIOUS
<1> USE DEF IInv
<1>1. /\ UNCHANGED <<ops, mode, tls, arrived, keepAlive, hasBody, m_request, m_response, m_body,
                     written, ended, loop>>
      /\ repeats < MaxRepeats /\ repeats' = repeats + 1 /\ loop # "no"
      /\ \/ loop = "failed" /\ posted' = posted + 1 /\ collected' = collected
         \/ loop \in {"first", "next"} /\ posted' = posted /\ collected' = collected
         \/ loop = "response" /\ posted' = posted /\ collected' = Append(collected, <<m_request, m_response.to>>)
  BY DEF Again, FailsAgain, MessageAgain, ResponseAgain, Turns, ConnectionEnd, requests
<1>2. repeats \in Nat /\ MaxRepeats \in Nat /\ repeats' \in 0..MaxRepeats
  BY <1>1, RequestsAssumption DEF TypeOK
<1>3. posted' \in 0..(MaxRepeats + 1)
  BY <1>1, <1>2 DEF OneOperation
<1>4. collected' \in Seq(Numbers \X Numbers) /\ (loop # "response" => collected' = collected)
  <2>1. <<m_request, m_response.to>> \in Numbers \X Numbers /\ collected \in Seq(Numbers \X Numbers)
    BY DEF TypeOK
  <2> QED BY <1>1, <2>1
<1>5. TypeOK'
  BY <1>1, <1>2, <1>3, <1>4 DEF TypeOK
<1>6. (OneOperation /\ Looping)'
  BY <1>1, <1>2 DEF OneOperation, Looping
<1>7. Fresh'
  <2>1. loop = "response" => ops \cap Writes # {} /\ m_response.kind = "reply"
    BY DEF Looping
  <2> QED BY <1>1, <1>4, <2>1 DEF Fresh
<1>8. (Stage /\ Current /\ Delivered /\ Untouched)'
  BY <1>1 DEF Stage, Current, Delivered, Untouched
<1> QED BY <1>5, <1>6, <1>7, <1>8

\* The done callback runs: it was the only one posted.
LEMMA DoneRunsKeeps == IInv /\ DoneRuns => IInv'
<1> SUFFICES ASSUME IInv, DoneRuns PROVE IInv'
  OBVIOUS
<1> USE DEF IInv
<1>1. /\ ops = {} /\ ops' = {} /\ posted' = 0 /\ ended' = 1 /\ loop = "no"
      /\ UNCHANGED <<mode, tls, arrived, keepAlive, hasBody, m_request, m_response, m_body,
                     written, collected, loop, repeats>>
  BY DEF DoneRuns, OneOperation, requests, responses
<1>2. TypeOK'
  BY <1>1, RequestsAssumption DEF TypeOK
<1>3. (OneOperation /\ Looping)'
  BY <1>1 DEF OneOperation, Looping
<1>4. (Stage /\ Current /\ Fresh /\ Delivered /\ Untouched)'
  BY <1>1 DEF Stage, Current, Fresh, Delivered, Untouched, Roundtrips, Writes
<1> QED BY <1>2, <1>3, <1>4

\* Every step of a session keeps the invariant.
LEMMA NextInv == IInv /\ [Next]_vars => IInv'
<1> SUFFICES ASSUME IInv, [Next]_vars PROVE IInv'
  OBVIOUS
<1>1. CASE Ok
  <2>1. CASE UpHandshaken
    BY <2>1, OwnKeeps DEF UpHandshaken
  <2> QED BY <1>1, <2>1, FirstMessageKeeps, NextMessageKeeps, RtReadKeeps, ConnectedSentKeeps,
             UpConnectedKeeps, ProceedingKeeps, SendingKeeps DEF Ok
<1>2. CASE Failure
  <2>1. CASE UpConnectFails
    BY <2>1, OwnKeeps DEF UpConnectFails
  <2>2. CASE \E a : Fails(a)
    BY <2>2, FailsKeeps
  <2> QED BY <1>2, <2>1, <2>2 DEF Failure, FirstMessageFails, HeadFails, BodyFails,
             UpHandshakeFails, DownHandshakeFails, TunnelDone, NextMessageFails, RtFails
<1>3. CASE UNCHANGED vars
  BY <1>3 DEF vars, session, requests, responses, thread, IInv, TypeOK, OneOperation, Looping, Stage,
     Current, Fresh, Delivered, Untouched
<1> QED BY <1>1, <1>2, <1>3, AgainKeeps, DoneRunsKeeps DEF Next

\* The inductive invariant holds in every state of a session.
THEOREM Invariance == Spec => []IInv
  BY InitInv, NextInv, PTL DEF Spec

-----------------------------------------------------------------------------
\* The variables of a session keep their types.
THEOREM TypeCorrect == Spec => []TypeOK
<1>1. IInv => TypeOK
  BY DEF IInv
<1> QED BY <1>1, Invariance, PTL

\* m_done_callback runs at most once, and no handler is left to run when it is
\* posted (p_connection_end of MitmHttp and MitmHttps, p_on_completed of
\* MitmApp); it is posted again only by a reader's loop that never lets it run.
THEOREM DoneOnceHolds == Spec => []DoneOnce
<1>1. IInv => DoneOnce
  BY DEF IInv, TypeOK, OneOperation, DoneOnce
<1> QED BY <1>1, Invariance, PTL

\* Every response the client gets, body included, is that of its latest
\* request, and no exchange is collected twice but by a loop of the reader's.
THEOREM MatchedHolds == Spec => []Matched
<1>1. IInv => Matched
  <2> SUFFICES ASSUME IInv PROVE Matched
    OBVIOUS
  <2>1. \A i \in DOMAIN written :
          written[i].body \in {0, IF written[i].kind = "reply" THEN written[i].to ELSE 0}
    BY DEF IInv, Delivered
  <2>2. m_response.kind = "reply" /\ ops \cap Writes # {} => m_response.to = arrived
    BY DEF IInv, Stage
  <2>3. \A i, j \in DOMAIN collected : collected[i][1] = collected[j][1] => i = j \/ loop = "response"
    <3>1. collected \in Seq(Numbers \X Numbers) /\ (Len(collected) <= 1 \/ loop = "response")
      BY DEF IInv, TypeOK, Fresh
    <3> QED BY <3>1
  <2> QED BY <2>1, <2>2, <2>3 DEF Matched, Writes
<1> QED BY <1>1, Invariance, PTL

\* An intercepted client sees the answer to its CONNECT in the clear and the
\* replies under TLS; no other session writes under TLS.
THEOREM SecureRepliesHolds == Spec => []SecureReplies
<1>1. IInv => SecureReplies
  BY DEF IInv, Delivered, SecureReplies
<1> QED BY <1>1, Invariance, PTL
=============================================================================
