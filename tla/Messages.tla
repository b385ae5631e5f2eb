------------------------------ MODULE Messages ------------------------------
(***************************************************************************)
(* marvin/http: the life of the head of a message.  An application fills   *)
(* an object of class MessageBase by its setters or by the functions of    *)
(* message_factory.cpp, copies it and moves it; serialize_headers() writes *)
(* it; the Parser at the other end fills a new object from what it reads;  *)
(* and that object may be changed and written again.                       *)
(*                                                                         *)
(* m_method and m_status_code are not initialised: "unset" stands for any  *)
(* value.  External: http-parser rejects a start line without a target or  *)
(* with an unknown method or status, and calls on_status for an empty      *)
(* reason or not, depending on its version; uri-parser splits a uri.       *)
(* MessageTransform has the callbacks of the header lines piece by piece.  *)
(***************************************************************************)
EXTENDS HeaderFields

CONSTANTS
  Urls,        \* uris as uri-parser splits them: protocol, host, port, path, search
  MaxChanges,  \* bound: operations on the two objects
  MaxFields    \* bound: header fields of a message

VARIABLES
  msg,         \* two objects
  sent,        \* ghost: the object written last, or <<>>
  wire,        \* the head under way, or <<>>
  back,        \* the object parsed from it, or <<>>
  changes      \* operations done

messages == <<msg, sent, wire, back, changes>>

\* "a" is set, written and read; "b" only takes part in copies and moves.
Objects == {"a", "b"}
Methods == {"GET", "CONNECT"}
Statuses == {"200", "403", "503"}
Names == {"CONNECTION", "X"}
Texts == {"close", "keep-alive", "close, keep-alive", "x", "CLOSE", "KEEP-ALIVE"}

\* A value of a header, with or without spaces at its end.
Value(text, spaces) == [kind |-> text, of |-> <<spaces>>]
Values(name) == {Value(text, spaces) : text \in IF name = "X" THEN {"x"} ELSE Texts \ {"CLOSE"}, spaces \in {0, 1}}
Trimmed(v) == IF v.kind \in Texts THEN Value(v.kind, 0) ELSE v

MessageBase ==
  [m_is_request |-> TRUE, m_method |-> "unset", m_target |-> <<>>, m_status_code |-> "unset",
   m_reason |-> "", m_http_minor |-> 1, m_headers |-> <<>>, body |-> 0]

Init ==
  /\ msg = [o \in Objects |-> MessageBase]
  /\ sent = <<>> /\ wire = <<>> /\ back = <<>> /\ changes = 0

-----------------------------------------------------------------------------
(* The setters, as functions of the object.                                 *)

method(m, x) == [m EXCEPT !.m_method = x, !.m_is_request = TRUE]
status_code(m, s) == [m EXCEPT !.m_status_code = s, !.m_is_request = FALSE]
reason(m, r) == [m EXCEPT !.m_reason = r, !.m_is_request = FALSE]
target(m, t) == [m EXCEPT !.m_target = t]
version_minor(m, n) == [m EXCEPT !.m_http_minor = n]

\* header(std::string, std::string), and trailer(), which also sets a header.
header(m, name, v) == [m EXCEPT !.m_headers = SetAtKey(m.m_headers, name, Trimmed(v))]

\* header(std::string*, std::string*) appends, and trims nothing.
append_header(m, name, v) == [m EXCEPT !.m_headers = Append(m.m_headers, Field(Up(name), v))]

remove_header(m, name) == [m EXCEPT !.m_headers = RemoveAtKey(m.m_headers, name)]
set_body_buffer_chain(m, n) == [m EXCEPT !.body = n]
set_body(m, n) == [m EXCEPT !.body = n, !.m_headers = SetBody(m.m_headers, n)]

\* What is left of an object that was moved from.
moved_from(m) == [m EXCEPT !.m_target = <<>>, !.m_headers = MovedFrom(m.m_headers), !.body = 0]

\* Marvin::Helpers::apply_connection_close and apply_keepalive_rules, on the
\* response m: of a request's ways to ask for keep-alive only the library's own
\* spelling is heard.
apply_connection_close(m) == header(m, "CONNECTION", Value("CLOSE", 0))
apply_keepalive_rules(req, m) ==
  LET fs == req.m_headers
  IN  IF Has(fs, "CONNECTION") /\ AtKey(fs, "CONNECTION") = Value("KEEP-ALIVE", 0)
      THEN header(m, "CONNECTION", Value("KEEP-ALIVE", 0)) ELSE apply_connection_close(m)

-----------------------------------------------------------------------------
(* Uri and message_factory.cpp.                                             *)

\* port_int; the constructor asserts that the protocol is one of the two.
Port(us) == IF us.port # "0" THEN us.port ELSE IF us.protocol = "https" THEN "443" ELSE "80"
host_and_port(us) == <<us.host, Port(us)>>
relativePath(us) == <<IF us.path = "" THEN "/" ELSE us.path, us.search>>
absolutePath(us) == <<us.protocol>> \o host_and_port(us) \o relativePath(us)

\* A Host header with the port.
Host(m, host) == header(m, "HOST", [kind |-> "host", of |-> host])

make_request(m, x, us) == Host(target(method(m, x), relativePath(us)), host_and_port(us))
make_proxy_request(m, x, us) == Host(target(method(m, x), absolutePath(us)), host_and_port(us))
make_proxy_connect_request(m, us) ==
  set_body(Host(target(method(m, "CONNECT"), host_and_port(us)), host_and_port(us)), 0)

\* make_response_403_forbidden, make_response_200_OK_connected and
\* make_response_502_badgateway, which sets the status 503.
make_response(m, s) ==
  LET text == IF s = "200" THEN "OK" ELSE IF s = "403" THEN "Forbidden" ELSE "BAD GATEWAY"
  IN  set_body(status_code(reason(m, text), s), 0)

-----------------------------------------------------------------------------
(* serialize_headers() and the parser.                                      *)

\* The heads that may be written for m.
Serialized(m) ==
  [request : {m.m_is_request}, target : {m.m_target}, reason : {m.m_reason},
   method : IF ~m.m_is_request THEN {"-"}
            ELSE IF m.m_method = "unset" THEN Methods \cup {"<unknown>"} ELSE {m.m_method},
   status : IF m.m_is_request THEN {"-"}
            ELSE IF m.m_status_code = "unset" THEN Statuses \cup {"?"} ELSE {m.m_status_code},
   minor : {IF m.m_http_minor = 0 THEN 0 ELSE 1}, fields : {Visited(m.m_headers)}]

\* External: what http-parser accepts.
Accepted(w) ==
  IF w.request THEN w.method # "<unknown>" /\ w.target # <<>> ELSE w.status # "?"

\* Header lines, each appended by p_on_header_field_data when the next begins.
AppendedLines(m, fs) ==
  LET after[n \in 0..Len(fs)] ==
        IF n = 0 THEN m ELSE append_header(after[n - 1], fs[n].key.name, fs[n].value)
  IN  after[Len(fs)]

\* Mutation: the last line is not stored when the headers are complete.
ParsedFields_NoFlush(m, fs) ==
  IF fs = <<>> THEN m ELSE AppendedLines(m, Front(fs))

\* All lines but the last are appended; the last is stored by
\* p_on_headers_complete, which replaces a field with its key.
ParsedFields(m, fs) ==
  IF fs = <<>> THEN m
  ELSE header(AppendedLines(m, Front(fs)), Last(fs).key.name, Last(fs).value)

\* p_on_url_data, p_on_status_data and the rest of p_on_headers_complete, on a
\* new object.  on_status is the only callback that knows of a response.
Parsed(w, on_status) ==
  LET m == ParsedFields(version_minor(MessageBase, w.minor), w.fields)
  IN  IF w.request THEN target(method(m, w.method), w.target)
      ELSE IF ~on_status THEN m
      ELSE IF w.reason = "" THEN status_code(m, w.status)
      ELSE reason(status_code(m, w.status), w.reason)

-----------------------------------------------------------------------------
(* The actions.                                                             *)

\* The next change ends the comparison of sent and back.
Changes ==
  /\ changes < MaxChanges /\ changes' = changes + 1
  /\ wire = <<>> /\ sent' = <<>> /\ back' = <<>>

Sets(o, m) ==
  /\ Changes /\ Len(m.m_headers) \leq MaxFields
  /\ msg' = [msg EXCEPT ![o] = m]
  /\ UNCHANGED wire

\* What headers() may be assigned at once.
Pairs == {<<Field(Up("X"), Value("x", 0)), Field(Up("X"), Value("x", 1)), Field(Up("CONNECTION"), Value("close", 0))>>}

ByHand(o) ==
  \/ \E x \in Methods : Sets(o, method(msg[o], x))
  \/ \E s \in {"200"} : Sets(o, status_code(msg[o], s))
  \/ \E r \in {"", "OK"} : Sets(o, reason(msg[o], r))
  \/ \E us \in Urls : Sets(o, target(msg[o], relativePath(us)))
  \/ Sets(o, version_minor(msg[o], 0))
  \/ \E name \in Names : \E v \in Values(name) : Sets(o, header(msg[o], name, v))
  \/ \E name \in Names : Has(msg[o].m_headers, name) /\ Sets(o, remove_header(msg[o], name))
  \/ \E fs \in Pairs : Sets(o, [msg[o] EXCEPT !.m_headers = FromPairs(fs)])
  \/ Sets(o, set_body_buffer_chain(msg[o], 1))
  \/ Sets(o, set_body(msg[o], 1))

ByFactory(o) ==
  \/ \E x \in Methods, us \in Urls : Sets(o, make_request(msg[o], x, us))
  \/ \E x \in Methods, us \in Urls : Sets(o, make_proxy_request(msg[o], x, us))
  \/ \E us \in Urls : Sets(o, make_proxy_connect_request(msg[o], us))
  \/ \E s \in Statuses : Sets(o, make_response(msg[o], s))
  \/ \E p \in Objects \ {o} : Sets(o, apply_keepalive_rules(msg[p], msg[o]))

\* The copy constructor and copy assignment; an object assigned to itself stays.
Copies(o, p) == o # p /\ Sets(o, msg[p])

\* Move construction and move assignment.
Moves(o, p) ==
  /\ o # p /\ Changes
  /\ msg' = [msg EXCEPT ![o] = msg[p], ![p] = moved_from(msg[p])]
  /\ UNCHANGED wire

\* A peer that does not use this library: it may repeat a header.
PeerFields == {Field(Up(name), Value(text, 0)) : name \in Names, text \in {"close", "x"}}
PeerWrites ==
  /\ Changes
  /\ \E fs \in SeqOf(PeerFields, MaxFields) :
       wire' = [request |-> TRUE, target |-> <<"/", "">>, reason |-> "", method |-> "GET",
                status |-> "-", minor |-> 1, fields |-> fs]
  /\ UNCHANGED msg

\* An object is written once between two changes.
Writes(o) ==
  /\ wire = <<>> /\ sent = <<>>
  /\ wire' \in Serialized(msg[o]) /\ sent' = msg[o]
  /\ UNCHANGED <<msg, back, changes>>

\* The head is read, and the message is the application's.
Parses(o) ==
  /\ wire # <<>> /\ wire' = <<>>
  /\ \E on_status \in IF wire.reason = "" THEN BOOLEAN ELSE {TRUE} :
       IF Accepted(wire)
       THEN back' = Parsed(wire, on_status) /\ msg' = [msg EXCEPT ![o] = Parsed(wire, on_status)]
       ELSE back' = <<>> /\ UNCHANGED msg
  /\ UNCHANGED <<sent, changes>>

Next ==
  \/ ByHand("a") \/ ByFactory("a") \/ Writes("a") \/ Parses("a")
  \/ \E o, p \in Objects : Copies(o, p) \/ Moves(o, p)
  \/ PeerWrites

-----------------------------------------------------------------------------
(* Properties.                                                              *)

\* The two searches in a value: the word among others, between separators.
value_keep_alive(v) == v.kind \in {"keep-alive", "close, keep-alive", "KEEP-ALIVE"}
value_close(v) == v.kind \in {"close", "close, keep-alive", "CLOSE"}

\* The same of the header Connection.
is_connection_close(fs) == Has(fs, "CONNECTION") /\ value_close(AtKey(fs, "CONNECTION"))
headers_keep_alive(fs) == Has(fs, "CONNECTION") /\ value_keep_alive(AtKey(fs, "CONNECTION"))

\* is_connection_keep_alive(MessageBase&): "keep-alive" is looked for first.
is_connection_keep_alive(m) ==
  LET found == Has(m.m_headers, "CONNECTION")
      value == AtKey(m.m_headers, "CONNECTION")
  IN  IF found /\ value_keep_alive(value) THEN TRUE
      ELSE IF found /\ value_close(value) THEN FALSE ELSE m.m_http_minor = 1

\* The value of Content-Length, <<>> without one.
content_length(m) == IF Has(m.m_headers, "CONTENT-LENGTH") THEN AtKey(m.m_headers, "CONTENT-LENGTH").of ELSE <<>>

Repeated(fs) == fs # <<>> /\ \E i \in 1..(Len(fs) - 1) : fs[i].key = Last(fs).key

\* A message that was written and read again says what it said: the method and
\* the target of a request, the status and the reason of a response that has
\* one, the version, the order and the values of its fields, its length, and
\* whether to keep the connection.  Two losses are the parser's own: when an
\* earlier field has the name of the last one, the first of them takes its value
\* and the last one is gone; and that value loses its spaces.
RoundTrip ==
  wire = <<>> /\ sent # <<>> /\ back # <<>> /\ (sent.m_is_request \/ sent.m_reason # "") =>
    /\ back.m_is_request = sent.m_is_request
    /\ IF sent.m_is_request
       THEN back.m_target = sent.m_target /\ sent.m_method \in {back.m_method, "unset"}
       ELSE back.m_reason = sent.m_reason /\ sent.m_status_code \in {back.m_status_code, "unset"}
    /\ back.m_http_minor = sent.m_http_minor
    /\ LET was == sent.m_headers  is == back.m_headers IN
       was # <<>> =>
         /\ Len(is) = IF Repeated(was) THEN Len(was) - 1 ELSE Len(was)
         /\ \A i \in DOMAIN is :
              /\ is[i].key = was[i].key
              /\ is[i].value = was[i].value \/ i = FindAtIndex(was, Last(was).key.name)
         /\ find(is, Last(was).key.name) # end(is)
         /\ AtKey(is, Last(was).key.name) = Trimmed(Last(was).value)
    /\ ~Repeated(sent.m_headers) =>
         /\ same_values(sent.m_headers, back.m_headers)
         /\ content_length(back) = content_length(sent)
         /\ is_connection_keep_alive(back) = is_connection_keep_alive(sent)
         /\ is_connection_close(back.m_headers) = is_connection_close(sent.m_headers)
         /\ headers_keep_alive(back.m_headers) = headers_keep_alive(sent.m_headers)
         /\ (\A i \in DOMAIN sent.m_headers : sent.m_headers[i].value = Trimmed(sent.m_headers[i].value))
              => same_order_and_values(sent.m_headers, back.m_headers)

=============================================================================
