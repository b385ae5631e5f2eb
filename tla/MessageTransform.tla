-------------------------- MODULE MessageTransform --------------------------
(***************************************************************************)
(* marvin/http and marvin/helpers: the header fields of one message, from  *)
(* the callbacks of the HTTP parser through HeaderFields and MessageBase   *)
(* to the message that the proxy sends on (helpers/mitm.cpp, Client).      *)
(*                                                                         *)
(* A header line is a name in some spelling, a value, and, for Connection, *)
(* the names its value lists.  The parser reports the name and the value   *)
(* of a line in pieces: here each has two, reported together or one by     *)
(* one.  A piece is the number of its line, so that a buffer shows what    *)
(* was put into it.  A chunked message may end with trailer lines, which   *)
(* are reported like header lines.                                         *)
(*                                                                         *)
(* erase_at_index calls erase(end()), which is undefined: libstdc++ then   *)
(* drops the last field, as the code wants; other libraries run off the    *)
(* vector ("crashed").  Not modelled: the spelling of values, the start    *)
(* line, and requests for an upgrade, which make_upstream_request asserts  *)
(* away.                                                                   *)
(***************************************************************************)
EXTENDS HeaderFields

CONSTANTS
  Names,            \* header names a peer uses, in upper case
  Options,          \* the names among them that a Connection line may list
  Sizes,            \* body sizes
  MaxLines          \* bound: header and trailer lines of the message

ASSUME TransformAssumption ==
  MaxLines \in Nat /\ Sizes \subseteq Nat /\ Options \subseteq Names /\ IsFiniteSet(Options)

VARIABLES
  lines,            \* the lines the peer sent, so far
  headLines,        \* number of them before the end of the headers
  given,            \* pieces of the last line the parser has reported
  stage,            \* "headers", "trailers", "parsed", "sent" or "crashed"
  header_state, name_stringbuf, value_stringbuf,
  fields,           \* m_fields_vector of the message parsed
  body,             \* size of its body
  route,            \* what is made of it: "http" or "https" request, or response "down"
  out               \* m_fields_vector of the message sent on

peer == <<lines, headLines, given, body, route>>
parser == <<header_state, name_stringbuf, value_stringbuf>>
vars == <<peer, stage, parser, fields, out>>

Lines == {l \in [name : Names, upper : BOOLEAN, lists : SUBSET Options] :
            l.name # "CONNECTION" => l.lists = {}}

Init ==
  /\ lines = <<>> /\ headLines = 0 /\ given = 4 /\ stage = "headers"
  /\ header_state = "NOTHING" /\ name_stringbuf = <<>> /\ value_stringbuf = <<>>
  /\ fields = <<>> /\ out = <<>>
  /\ body \in Sizes /\ route \in {"http", "https", "down"}

-----------------------------------------------------------------------------
(* The callbacks of the parser.                                             *)

\* A value is made of pieces of lines, put in by the proxy, or a Size(n).
Pieces(ps) == [kind |-> "line", of |-> ps]
Own(kind) == [kind |-> kind, of |-> <<>>]

\* toupper_copy of a name put together from pieces: pieces of two lines, or
\* half a line, make a name that nobody sent.
Key(name) == Up(IF Len(name) = 2 /\ name[1] = name[2] THEN lines[name[1]].name ELSE "GARBLED")

\* p_on_header_field_data: the first piece of a name stores the line before
\* it, with set_at_key(std::string*, std::string*), which always appends.
HeaderField(ps) ==
  LET stores == header_state # "FIELD" /\ name_stringbuf # <<>>
  IN /\ fields' = IF stores THEN Append(fields, Field(Key(name_stringbuf), Pieces(value_stringbuf)))
                            ELSE fields
     /\ name_stringbuf' = IF stores THEN ps ELSE name_stringbuf \o ps
     /\ value_stringbuf' = IF stores THEN <<>> ELSE value_stringbuf
     /\ header_state' = "FIELD"

\* Mutation: every piece of a value starts it afresh.
HeaderValue_Restarts(ps) ==
  /\ value_stringbuf' = ps
  /\ header_state' = "VALUE"
  /\ UNCHANGED <<name_stringbuf, fields>>

\* p_on_header_value_data.
HeaderValue(ps) ==
  /\ value_stringbuf' = IF header_state = "FIELD" THEN ps ELSE value_stringbuf \o ps
  /\ header_state' = "VALUE"
  /\ UNCHANGED <<name_stringbuf, fields>>

\* Parts n of line k, as a callback gets them.
Part(k, n) == [i \in 1..n |-> k]

\* The parser meets a new line and reports one or both pieces of its name.
\* It rejects a second Content-Length among the headers.
NewLine(l, n) ==
  /\ stage \in {"headers", "trailers"} /\ given = 4 /\ Len(lines) < MaxLines
  /\ l.name = "CONTENT-LENGTH" => \A i \in DOMAIN lines : lines[i].name # l.name
  /\ lines' = Append(lines, l)
  /\ given' = n
  /\ HeaderField(Part(Len(lines) + 1, n))
  /\ UNCHANGED <<headLines, stage, body, route, out>>

RestOfName ==
  /\ given = 1
  /\ given' = 2
  /\ HeaderField(Part(Len(lines), 1))
  /\ UNCHANGED <<lines, headLines, stage, body, route, out>>

ValueData(n) ==
  /\ given \in {2, 3} /\ given + n <= 4
  /\ given' = given + n
  /\ HeaderValue(Part(Len(lines), n))
  /\ UNCHANGED <<lines, headLines, stage, body, route, out>>

Sent(name) == \E i \in DOMAIN lines : lines[i].name = name

\* p_on_headers_complete: the last line goes through set_at_key(FieldKeyArg,
\* std::string) instead.  Only a chunked message has trailers; a request has a
\* body only when it says so.
HeadersComplete ==
  /\ stage = "headers" /\ given = 4
  /\ body > 0 /\ route # "down" => Sent("CONTENT-LENGTH") \/ Sent("TRANSFER-ENCODING")
  /\ fields' = IF name_stringbuf = <<>> THEN fields
               ELSE SetAtKey(fields, Key(name_stringbuf).name, Pieces(value_stringbuf))
  /\ name_stringbuf' = <<>> /\ value_stringbuf' = <<>>
  /\ headLines' = Len(lines)
  /\ stage' = IF Sent("TRANSFER-ENCODING") THEN "trailers" ELSE "parsed"
  /\ UNCHANGED <<lines, given, body, route, header_state, out>>

\* p_on_message_complete after the trailers: the last one is still in the buffers.
MessageComplete ==
  /\ stage = "trailers" /\ given = 4
  /\ stage' = "parsed"
  /\ UNCHANGED <<peer, parser, fields, out>>

-----------------------------------------------------------------------------
(* The message sent on.                                                     *)

\* dontCopyList of request_transform_common and make_downstream_good_response.
RequestDrops ==
  {Up(n) : n \in {"HOST", "PROXY-CONNECTION", "PROXY-AUTHORIZATION", "PROXY-AUTHENTICATION",
                  "CONNECTION", "ETAG", "TRANSFER-ENCODING", "TE", "TRAILER", "UPGRADE"}}
ResponseDrops ==
  {Up(n) : n \in {"HOST", "PROXY-CONNECTION", "CONNECTION", "TRANSFER-ENCODING", "ETAG"}}

\* The tokens of the first Connection field.
Listed ==
  IF Has(fields, "CONNECTION") THEN lines[AtKey(fields, "CONNECTION").of[1]].lists ELSE {}

\* remove_hop_by_hop: removed[n] is fs without the first n of the tokens.
RemoveHopByHop(fs) ==
  LET tokens == SetToSeq(Listed)
      removed[n \in 0..Len(tokens)] ==
        IF n = 0 THEN fs ELSE RemoveAtKey(removed[n - 1], tokens[n])
  IN  removed[Len(tokens)]

\* Mutation: the listed headers are removed before the headers are copied.
Forwarded_Early(start) == CopyExcept(fields, RemoveHopByHop(start), RequestDrops)

\* The headers of the client that go upstream.
Forwarded(start) == RemoveHopByHop(CopyExcept(fields, start, RequestDrops))

\* Client::p_set_content_length, before the request is written.
SetContentLength(fs) == SetAtKey(fs, "CONTENT-LENGTH", Size(body))

\* request_transform_common, on a message that has its Host already.
UpstreamFields(start) ==
  LET closed   == SetAtKey(Forwarded(start), "CONNECTION", Own("CLOSE"))
      identity == SetAtKey(closed, "ACCEPT-ENCODING", Own("identity"))
      noTe     == SetAtKey(identity, "TE", Own(""))
  IN  SetBody(noTe, body)

\* make_upstream_request takes Host from the target,
\* make_upstream_https_request from the request, which must have one.
HostField == SetAtKey(<<>>, "HOST", IF route = "http" THEN Own("uri") ELSE AtKey(fields, "HOST"))

HasHost == route = "https" => Has(fields, "HOST")

MakeUpstreamRequest ==
  /\ stage = "parsed" /\ route # "down"
  /\ HasHost
  /\ out' = SetContentLength(UpstreamFields(HostField))
  /\ stage' = "sent"
  /\ UNCHANGED <<peer, parser, fields>>

\* Undefined: get() of an empty optional, or erase(end()) of a header that
\* Connection lists.
UpstreamCrashes ==
  /\ stage = "parsed" /\ route # "down"
  /\ HasHost => \E n \in Listed : Has(CopyExcept(fields, HostField, RequestDrops), n)
  /\ stage' = "crashed"
  /\ UNCHANGED <<peer, parser, fields, out>>

\* make_downstream_good_response; the error response is never asked for.
MakeDownstreamResponse ==
  /\ stage = "parsed" /\ route = "down"
  /\ LET closed == SetAtKey(CopyExcept(fields, <<>>, ResponseDrops), "CONNECTION", Own("CLOSE"))
     IN  out' = IF body > 0 THEN SetBody(closed, body) ELSE closed
  /\ stage' = "sent"
  /\ UNCHANGED <<peer, parser, fields>>

Next ==
  \/ \E l \in Lines, n \in 1..2 : NewLine(l, n)
  \/ RestOfName
  \/ \E n \in 1..2 : ValueData(n)
  \/ HeadersComplete \/ MessageComplete
  \/ MakeUpstreamRequest \/ UpstreamCrashes \/ MakeDownstreamResponse

Spec == Init /\ [][Next]_vars

-----------------------------------------------------------------------------
(* Properties.                                                              *)

\* The types of the state; the buffers never hold more than one line.
TypeOK ==
  /\ \A i \in DOMAIN lines : lines[i] \in Lines
  /\ headLines \in 0..Len(lines) /\ given \in 0..4 /\ body \in Sizes
  /\ stage \in {"headers", "trailers", "parsed", "sent", "crashed"}
  /\ header_state \in {"NOTHING", "FIELD", "VALUE"}
  /\ Len(name_stringbuf) <= 2 /\ Len(value_stringbuf) <= 2
  /\ \A i \in DOMAIN fields : fields[i].key.name \in Names

\* However names and values were cut into callbacks, the message parsed has
\* its header lines whole and in order, and then all trailers but the last; only
\* a last header line that repeats a name takes the place of the first one.
Accumulated ==
  stage \in {"parsed", "sent", "crashed"} =>
    LET again == {k \in 1..headLines - 1 : lines[k].name = lines[headLines].name}
        heads == IF again = {} THEN headLines ELSE headLines - 1
        order == [k \in 1..heads |-> k]
                   \o [i \in 1..Len(lines) - headLines |-> headLines + i]
        from(k) == IF again # {} /\ k = Min(again) THEN headLines ELSE k
        stored == IF Len(lines) > headLines THEN Front(order) ELSE order
    IN  fields = [i \in DOMAIN stored |->
                    Field(Up(lines[stored[i]].name), Pieces(Part(from(stored[i]), 2)))]

\* Names that the proxy itself puts into a message.
ProxySets == {"HOST", "CONNECTION", "ACCEPT-ENCODING", "TE", "CONTENT-LENGTH"}

\* Nothing meant for the proxy goes upstream: no header of the list, and none
\* that a (single) Connection line names, wherever it stood, except those that
\* the proxy then sets for itself.
NoHopByHop ==
  stage = "sent" /\ route # "down" =>
    LET conns == {i \in DOMAIN lines : lines[i].name = "CONNECTION"}
    IN \A i \in DOMAIN out :
         /\ out[i].key \in RequestDrops => out[i].key.name \in ProxySets
         /\ out[i].key = Up("CONNECTION") => out[i].value = Own("CLOSE")
         /\ \A c \in conns :
              conns = {c} /\ c <= headLines /\ out[i].key.name \in lines[c].lists =>
                out[i].key.name \in ProxySets \ {"HOST"}

\* Every other header that was sent goes on exactly once, with one of the
\* values it was sent with, and nothing goes on that was not sent.
EndToEndKept ==
  stage = "sent" =>
    LET drops == IF route = "down" THEN ResponseDrops ELSE RequestDrops
        lists == IF route = "down" THEN {} ELSE Listed
        kept  == {n \in Names : /\ \E i \in 1..headLines : lines[i].name = n
                                /\ Up(n) \notin drops /\ n \notin lists \cup ProxySets}
    IN /\ \A n \in kept : Cardinality({i \in DOMAIN out : out[i].key.name = n}) = 1
       /\ \A i \in DOMAIN out : out[i].key.name \notin ProxySets =>
            \E k \in DOMAIN lines :
              lines[k].name = out[i].key.name /\ out[i].value = Pieces(Part(k, 2))

\* What is sent on is delimited by its length, whatever the sender used: never
\* by chunks, by exactly one Content-Length when there is a body, and in a
\* request also when there is none.
FramedByLength ==
  stage = "sent" =>
    LET sizes == {i \in DOMAIN out : out[i].key = Up("CONTENT-LENGTH")}
    IN /\ ~Has(out, "TRANSFER-ENCODING")
       /\ Cardinality(sizes) <= 1
       /\ route # "down" \/ body > 0 =>
            Cardinality(sizes) = 1 /\ AtKey(out, "CONTENT-LENGTH") = Size(body)
=============================================================================
