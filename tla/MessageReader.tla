-------------------------- MODULE MessageReader --------------------------
(***************************************************************************)
(* marvin/message and marvin/http/parser: FullMessageReader (used through  *)
(* MessageReaderV2) reading HTTP messages from a socket with a Parser.     *)
(*                                                                         *)
(* The bytes of a message are abstracted to symbols <<k, part>>: part of   *)
(* the k-th message the peer sent.                                         *)
(*   "head"   some of the start line and headers                           *)
(*   "end"    the end of the headers of a message without body             *)
(*   "sized"  the end of the headers, a body of known length follows       *)
(*   "eof"    the end of the headers, the body ends when the peer closes   *)
(*   "body"   some of the body        "last"  the end of a sized body      *)
(*   "bad"    something the HTTP parser rejects                            *)
(* The socket hands over any non-empty part of what has arrived, and it    *)
(* reports an error (end of file, reset, timeout) with no bytes; but a     *)
(* read into a buffer of no bytes succeeds at once, with none.             *)
(*                                                                         *)
(* p_parse_some runs its callback on the stack.  A callback that calls     *)
(* async_read_message again starts an inner p_parse_some; every loop on    *)
(* the stack has the same condition, so looping stands for all of them.    *)
(***************************************************************************)
EXTENDS Integers, Sequences

CONSTANTS
  MaxMessages,      \* bound: messages the peer sends
  MaxCalls,         \* bound: calls of async_read_message
  MaxRepeats,       \* bound: callbacks run for one call
  Uses,             \* the kinds of peer and user a behaviour may have
  Lengths,          \* values of Content-Length
  HeaderBuffer,     \* m_header_buffer, 1024
  BodyBufferMin,    \* m_body_buffer_min, 8192
  Slack,            \* 100, added to the Content-Length
  IntSpan,          \* 2^32: number of values of an int
  SizeSpan,         \* 2^64: number of values of a size_t, and of a long
  SystemRmem,       \* m_system_rmem, 212922
  BodyBufferMax     \* m_body_buffer_max, 262144

ASSUME ReaderAssumption ==
  /\ MaxMessages \in Nat /\ MaxCalls \in Nat /\ MaxRepeats \in Nat \ {0}
  /\ Uses \subseteq [pipelined : BOOLEAN, malformed : BOOLEAN, readsAgain : BOOLEAN]
  /\ Lengths \subseteq Nat
  /\ {Slack, HeaderBuffer, BodyBufferMin, SystemRmem, BodyBufferMax} \subseteq Nat \ {0}
  /\ HeaderBuffer <= SystemRmem /\ BodyBufferMin <= SystemRmem
  /\ {IntSpan, SizeSpan} \subseteq Nat \ {0}
  /\ IntSpan <= SizeSpan /\ 2 * Slack < IntSpan /\ 2 * SystemRmem < SizeSpan

VARIABLES
  use,              \* pipelined: the peer may send before it is asked; malformed:
                    \* it may send what the parser rejects; readsAgain: the user
                    \* reads the next message inside the callback
  sent,             \* the messages sent so far, each a sequence of parts
  wire,             \* symbols on their way
  closed,           \* the socket only reports errors from now on
  m_streambuffer,   \* symbols read and not yet consumed
  content,          \* what the parser has consumed of the current message
  verdict,          \* the parser: "more", "done" (message_done) or "error"
  looping,          \* a p_parse_some is on the stack
  reading,          \* m_read_sock_sptr has an async_read outstanding
  m_current_body_buffer_size,
  buf_size,         \* bytes the outstanding or the last async_read has room for
  content_length,   \* the Content-Length that size was last taken from, 0: none
  outcome           \* per call: the results its callback was given

strategy == <<m_current_body_buffer_size, buf_size, content_length>>
reader   == <<m_streambuffer, content, verdict, looping, reading>>

vars == <<use, sent, wire, closed, reader, strategy, outcome>>

Shapes ==
  {<<"head", "end">>, <<"head", "sized", "body", "last">>, <<"head", "eof", "body", "body", "body">>}
    \cup (IF use.malformed THEN {<<"head", "bad">>} ELSE {})

Parts   == {"head", "end", "sized", "eof", "body", "last", "bad"}
Symbols == (1..MaxMessages) \X Parts
Results == [kind : {"ok", "parse", "read"}, content : Seq(Symbols)]

\* The symbols of message k.
Message(k) == [i \in 1..Len(sent[k]) |-> <<k, sent[k][i]>>]

Calls == Len(outcome)

TypeOK ==
  /\ use \in Uses /\ sent \in Seq(Shapes) /\ Len(sent) <= MaxMessages
  /\ wire \in Seq(Symbols) /\ m_streambuffer \in Seq(Symbols)
  /\ content \in Seq(Symbols)
  /\ closed \in BOOLEAN /\ looping \in BOOLEAN /\ reading \in BOOLEAN
  /\ verdict \in {"more", "done", "error"}
  /\ outcome \in Seq(Seq(Results)) /\ Calls <= MaxCalls
  /\ m_current_body_buffer_size \in Nat /\ buf_size \in Nat /\ content_length \in Nat
  /\ looping => m_streambuffer # <<>> /\ Calls > 0

\* Parser::Parser.
NewParser == content = <<>> /\ verdict = "more"

Init ==
  /\ use \in Uses
  /\ sent = <<>> /\ wire = <<>> /\ closed = FALSE
  /\ m_streambuffer = <<>>
  /\ NewParser
  /\ looping = FALSE /\ reading = FALSE
  /\ m_current_body_buffer_size = 0 /\ buf_size = 0 /\ content_length = 0
  /\ outcome = <<>>

-----------------------------------------------------------------------------
(* The parser.                                                              *)

HeaderDone(s) == \E i \in DOMAIN s : s[i][2] \in {"end", "sized", "eof"}

\* The symbols that stop http_parser_execute: the end of a message pauses it
\* (p_on_message_complete), a bad one is an error.
Stops == {i \in DOMAIN m_streambuffer : m_streambuffer[i][2] \in {"end", "last", "bad"}}
First == CHOOSE i \in Stops : \A j \in Stops : i <= j

\* Mutation: the parser is not paused at the end of a message.
Taken_NoPause == IF verdict # "more" THEN 0 ELSE Len(m_streambuffer)

\* How many symbols consume() takes: none once the parser is paused or failed,
\* the offending symbol of a bad message is left.
Taken ==
  IF verdict # "more" THEN 0
  ELSE IF Stops = {} THEN Len(m_streambuffer)
  ELSE IF m_streambuffer[First][2] = "bad" THEN First - 1 ELSE First

\* http_errno after http_parser_execute, and what is_error() makes of it.
http_errno ==
  IF Stops = {} THEN "HPE_OK" ELSE IF m_streambuffer[First][2] = "bad" THEN "HPE_UNKNOWN" ELSE "HPE_PAUSED"
is_error == http_errno \notin {"HPE_OK", "HPE_PAUSED"}

\* What the parser says after consume().
Verdict ==
  IF verdict # "more" \/ Stops = {} THEN verdict
  ELSE IF is_error THEN "error" ELSE "done"

\* Mutation: the parser keeps the message it was working on.
Begin_KeepsMessage == verdict' = "more" /\ UNCHANGED content

\* Parser::begin.
Begin == verdict' = "more" /\ content' = <<>>

\* Parser::end: only a body that lasts until the close is then complete.
End == IF \E i \in DOMAIN content : content[i][2] = "eof" THEN "done" ELSE "error"

-----------------------------------------------------------------------------
(* ReadBufferStrategy.                                                      *)

Smaller(m, n) == IF m < n THEN m ELSE n

\* Mutation: the size is doubled at the limit too.
Doubled_AtLimit(size) == 2 * size

\* A body buffer that was too small for what came is doubled below the limit.
Doubled(size) == IF size < Smaller(SystemRmem, BodyBufferMax) THEN 2 * size ELSE size

\* atoi(): strtol() stops at LONG_MAX, and the int keeps its low bits.
Atoi(n) ==
  LET m == Smaller(n, (SizeSpan \div 2) - 1) % IntSpan
  IN  IF 2 * m >= IntSpan THEN m - IntSpan ELSE m

\* Mutation: 100 is not added, so that a length of 0 makes a buffer of 0.
FromLength_NoSlack(cl) == Smaller(Atoi(cl) % SizeSpan, SystemRmem)

\* The size taken from a Content-Length: the int becomes a size_t, and the sum
\* wraps around.
FromLength(cl) == Smaller(((Atoi(cl) % SizeSpan) + Slack) % SizeSpan, SystemRmem)

\* recommended_buffer_size(), called by p_read_some when the parser has taken
\* parsed.  The member is set to 0 by the reads for headers alone: a message
\* whose headers were in the buffer already goes on from the size that the one
\* before it ended with.
RecommendedBufferSize(parsed) ==
  IF ~HeaderDone(parsed)
  THEN m_current_body_buffer_size' = 0 /\ buf_size' = HeaderBuffer /\ content_length' = 0
  ELSE /\ IF m_current_body_buffer_size # 0
          THEN /\ m_current_body_buffer_size' = Doubled(m_current_body_buffer_size)
               /\ UNCHANGED content_length
          ELSE IF \E i \in DOMAIN parsed : parsed[i][2] = "sized"
          THEN /\ content_length' \in Lengths
               /\ m_current_body_buffer_size' = FromLength(content_length')
          ELSE m_current_body_buffer_size' = BodyBufferMin /\ content_length' = 0
       /\ buf_size' = m_current_body_buffer_size'

-----------------------------------------------------------------------------
(* FullMessageReader.                                                       *)

\* async_read_message: what an earlier read left in the buffer is parsed at
\* once, otherwise the socket is read.
AsyncReadMessage(results, buffer) ==
  /\ outcome' = Append(results, <<>>)
  /\ Begin
  /\ looping' = (buffer # <<>>)
  /\ reading' = (buffer = <<>>)
  /\ IF buffer = <<>> THEN RecommendedBufferSize(<<>>) ELSE UNCHANGED strategy

\* The user keeps reading after a good message, up to the bound.
Good == Calls > 0 => outcome[Calls] # <<>> /\ outcome[Calls][1].kind = "ok"

\* A call from some handler of the user's.
UserReads ==
  /\ ~looping /\ ~reading
  /\ Good /\ Calls < MaxCalls
  /\ AsyncReadMessage(outcome, m_streambuffer)
  /\ UNCHANGED <<use, sent, wire, closed, m_streambuffer>>

\* m_read_cb, called with buffer left over: the user notes the result, and may
\* read again before it returns.  The parser is then in state v.
Callback(kind, what, v, buffer) ==
  LET results == [outcome EXCEPT ![Calls] = Append(@, [kind |-> kind, content |-> what])]
      again   == use.readsAgain /\ kind = "ok" /\ Calls < MaxCalls
  IN  /\ Len(outcome[Calls]) < MaxRepeats
      /\ \/ /\ again
            /\ AsyncReadMessage(results, buffer)
         \/ /\ ~again
            /\ outcome' = results
            /\ looping' = (looping /\ buffer # <<>>)
            /\ reading' = FALSE /\ UNCHANGED strategy
            /\ verdict' = v /\ content' = what

\* Mutation: the symbol after the end of a message is lost.
Rest_Skips == SubSeq(m_streambuffer, Taken + (IF Verdict = "done" THEN 2 ELSE 1), Len(m_streambuffer))

\* What consume() leaves in the buffer, and the message with what it took.
Rest     == SubSeq(m_streambuffer, Taken + 1, Len(m_streambuffer))
Consumed == content \o SubSeq(m_streambuffer, 1, Taken)

\* Mutation: nothing more is read after the headers.
ParseMore_NoRead ==
  /\ looping /\ Verdict = "more"
  /\ m_streambuffer' = Rest
  /\ content' = Consumed
  /\ reading' = ~HeaderDone(Consumed) /\ UNCHANGED strategy
  /\ looping' = FALSE
  /\ UNCHANGED <<use, sent, wire, closed, verdict, outcome>>

\* One turn of the loop in p_parse_some.  end_of_data or end_of_header: all
\* was consumed, p_read_some asks for more.
ParseMore ==
  /\ looping /\ Verdict = "more"
  /\ m_streambuffer' = Rest
  /\ content' = Consumed
  /\ reading' = TRUE /\ RecommendedBufferSize(Consumed)
  /\ looping' = FALSE
  /\ UNCHANGED <<use, sent, wire, closed, verdict, outcome>>

\* end_of_message: p_on_done.
ParseDone ==
  /\ looping /\ Verdict = "done"
  /\ m_streambuffer' = Rest
  /\ Callback("ok", Consumed, "done", Rest)
  /\ UNCHANGED <<use, sent, wire, closed>>

\* error: p_on_parse_error.
ParseError ==
  /\ looping /\ Verdict = "error"
  /\ m_streambuffer' = Rest
  /\ Callback("parse", Consumed, "error", Rest)
  /\ UNCHANGED <<use, sent, wire, closed>>

\* The read in p_read_some completes: commit, then p_parse_some.
ReadOk ==
  /\ reading /\ buf_size > 0
  /\ \E n \in 1..Len(wire) :
       /\ m_streambuffer' = m_streambuffer \o SubSeq(wire, 1, n)
       /\ wire' = SubSeq(wire, n + 1, Len(wire))
  /\ reading' = FALSE
  /\ looping' = TRUE
  /\ UNCHANGED <<use, sent, closed, content, verdict, strategy, outcome>>

\* The same of a read without room: the loop is not entered.
ReadNothing ==
  /\ reading /\ buf_size = 0
  /\ reading' = FALSE
  /\ looping' = (m_streambuffer # <<>>)
  /\ UNCHANGED <<use, sent, wire, closed, m_streambuffer, content, verdict, strategy, outcome>>

\* Mutation: end of file is reported as a good message whatever was parsed.
ReadError_AlwaysDone ==
  /\ reading /\ closed
  /\ IF content = <<>> THEN Callback("read", content, verdict, m_streambuffer)
                       ELSE Callback("ok", content, "done", m_streambuffer)
  /\ UNCHANGED <<use, sent, wire, closed, m_streambuffer>>

\* Mutation: p_on_eof and then p_on_read_error.
ReadError_Twice ==
  /\ reading /\ closed
  /\ outcome' = [outcome EXCEPT ![Calls] =
       @ \o <<[kind |-> "ok", content |-> content], [kind |-> "read", content |-> content]>>]
  /\ HeaderDone(content)
  /\ content[2][2] = "eof"
  /\ reading' = FALSE
  /\ UNCHANGED <<use, sent, wire, closed, m_streambuffer, content, verdict, looping, strategy>>

\* The read fails: any error in the middle of a message is taken for the end
\* of file (p_on_eof), otherwise it is reported as it is.
ReadError ==
  /\ reading /\ closed /\ buf_size > 0
  /\ \/ /\ content = <<>>
        /\ Callback("read", content, verdict, m_streambuffer)
     \/ /\ content # <<>> /\ End = "done"
        /\ Callback("ok", content, "done", m_streambuffer)
     \/ /\ content # <<>> /\ End = "error"
        /\ Callback("parse", content, "error", m_streambuffer)
  /\ UNCHANGED <<use, sent, wire, closed, m_streambuffer>>

-----------------------------------------------------------------------------
(* The peer.                                                                *)

AnsweredCalls == {c \in 1..Calls : outcome[c] # <<>>}

\* The peer sends a message, in answer to the last one unless it pipelines.
Send ==
  /\ ~closed /\ Len(sent) < MaxMessages
  /\ sent # <<>> => \A i \in DOMAIN sent[Len(sent)] : sent[Len(sent)][i] \notin {"eof", "bad"}
  /\ use.pipelined \/ \A k \in DOMAIN sent : k \in AnsweredCalls
  /\ \E shape \in Shapes :
       /\ sent' = Append(sent, shape)
       /\ wire' = wire \o [i \in 1..Len(shape) |-> <<Len(sent) + 1, shape[i]>>]
  /\ UNCHANGED <<use, closed, reader, strategy, outcome>>

\* The peer closes, the connection breaks, or the read times out.
Close ==
  /\ ~closed
  /\ closed' = TRUE
  /\ UNCHANGED <<use, sent, wire, reader, strategy, outcome>>

Parse == ParseMore \/ ParseDone \/ ParseError

Next == UserReads \/ Parse \/ ReadOk \/ ReadNothing \/ ReadError \/ Send \/ Close

\* A running loop goes on, a timed read ends (Connection!OperationEnds), and a
\* silent peer is timed out.
Fairness == WF_vars(Parse) /\ WF_vars(ReadOk \/ ReadNothing \/ ReadError) /\ WF_vars(Close)

Spec == Init /\ [][Next]_vars /\ Fairness

-----------------------------------------------------------------------------
(* Properties.                                                              *)

\* A call of async_read_message that ends in a good message or a read error
\* runs its callback once.  (After a parse error p_parse_some turns with the
\* rejected bytes still in its buffer and reports them again.)
OneOutcome ==
  \A c \in DOMAIN outcome : Len(outcome[c]) > 1 => outcome[c][1].kind = "parse"

\* However the stream is cut into reads, the c-th good outcome is the c-th
\* message the peer sent, complete, and holds nothing of its neighbours; only
\* a body that lasts until the peer closes may be short.
Framing ==
  \A c \in DOMAIN outcome : \A i \in DOMAIN outcome[c] :
    LET r == outcome[c][i]
    IN  r.kind = "ok" =>
          \/ r.content = Message(c)
          \/ /\ sent[c][2] = "eof" /\ Len(r.content) >= 2
             /\ r.content = SubSeq(Message(c), 1, Len(r.content))

\* What callbacks have handed over, the unfinished message, the buffer and the
\* wire hold every symbol sent, once and in order: p_parse_some, consume and
\* the buffer they share lose and repeat nothing between messages.
Flat(ss) == LET f[k \in 0..Len(ss)] == IF k = 0 THEN <<>> ELSE f[k - 1] \o ss[k]
            IN  f[Len(ss)]
NothingLost ==
  LET given == [c \in 1..Calls |-> IF outcome[c] = <<>> THEN content ELSE outcome[c][1].content]
  IN  Flat(given) \o m_streambuffer \o wire = Flat([k \in 1..Len(sent) |-> Message(k)])

\* No read asks for twice what the system buffers: doubling stops in time, also
\* when the size is carried over from message to message.  And none asks for
\* nothing, except for the body of a message whose Content-Length atoi() turns
\* into -100.
BufferBounded ==
  reading =>
    /\ buf_size < 2 * SystemRmem
    /\ buf_size = 0 => HeaderDone(content) /\ Atoi(content_length) + Slack = 0

\* Every call is answered, even when the peer stays silent; only after a read
\* that had room for nothing does the reader neither read nor call back.
CallAnswered ==
  \A c \in 1..MaxCalls :
    Calls = c ~> \/ Calls >= c /\ outcome[c] # <<>>
                 \/ ~reading /\ ~looping /\ buf_size = 0

\* parser.hpp of data left by consume() after end_of_message: it "belongs to
\* the next message and the data needs to be retained and presented as the
\* first buffer once parsing of the new message is underway".
RemainderWaits == looping => verdict = "more"
=============================================================================
