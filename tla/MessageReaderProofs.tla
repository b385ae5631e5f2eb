------------------------ MODULE MessageReaderProofs ------------------------
(***************************************************************************)
(* Proofs about the FullMessageReader for any number of messages, any      *)
(* buffer sizes and any way of cutting the stream into reads.              *)
(***************************************************************************)
EXTENDS MessageReader, WellFoundedInduction, SequenceTheorems, TLAPS

StopParts == {"end", "last", "bad"}

\* What a peer may send at all.
AnyShape == {<<"head", "end">>, <<"head", "sized", "body", "last">>,
             <<"head", "eof", "body", "body", "body">>, <<"head", "bad">>}

\* Message k of the given shape.
Tagged(k, shape) == [i \in 1..Len(shape) |-> <<k, shape[i]>>]

\* s is messages k, k + 1, ... of m one after the other: message j starts
\* after place off[j].
Runs(s, k, m, off) ==
  /\ off[k] = 0 /\ off[Len(m) + 1] = Len(s)
  /\ \A j \in k..Len(m) : off[j + 1] = off[j] + Len(m[j])
  /\ \A i, j \in k..(Len(m) + 1) : i <= j => off[i] <= off[j]
  /\ \A j \in k..Len(m) : \A p \in 1..Len(m[j]) : s[off[j] + p] = <<j, m[j][p]>>

Aligned(s, k, m) ==
  /\ k \in 1..(Len(m) + 1)
  /\ \E off \in [Int -> Int] : Runs(s, k, m, off)

\* Only the last message lasts until the close or is malformed.
FinalOf(m) == \A k \in DOMAIN m : k < Len(m) => \A p \in DOMAIN m[k] : m[k][p] \notin {"eof", "bad"}

\* The symbols that no callback has been given: those of the message being
\* parsed, of the buffer and of the wire.
Ahead == (IF verdict = "more" THEN content ELSE <<>>) \o m_streambuffer \o wire

\* A call is outstanding, and the number of the message it or the next one
\* is to return.
Open == Calls > 0 /\ outcome[Calls] = <<>>
Current == IF Open THEN Calls ELSE Calls + 1

\* The kind of the first outcome of the last call.
LastKind == IF Calls = 0 THEN "ok" ELSE outcome[Calls][1].kind

\* The reader is in p_parse_some with an unfinished message, or waits for the
\* socket, only while a call is outstanding (it may also be stuck then, after a
\* read that had no room); and the parser's state agrees with what the callback
\* was given.
Control ==
  /\ reading \/ (looping /\ verdict = "more") => Open
  /\ Open => verdict = "more"
  /\ reading => ~looping /\ m_streambuffer = <<>> /\ verdict = "more"
  /\ verdict = "more" /\ ~Open => content = <<>> /\ (Calls = 0 \/ LastKind = "read")
  /\ verdict = "done" => Calls > 0 /\ ~Open /\ LastKind = "ok" /\ content = outcome[Calls][1].content
  /\ verdict = "error" => Calls > 0 /\ ~Open /\ LastKind = "parse"
  /\ \A c \in 1..Calls : c < Calls => outcome[c] # <<>> /\ outcome[c][1].kind = "ok"

\* The parser has not run past the end of a message.
Unstopped == verdict = "more" => \A i \in DOMAIN content : content[i][2] \notin StopParts

\* What is to come as message k: the messages from k on or, once the socket is
\* closed, the rest of a body that was cut short.
Following(s, k, m, over) ==
  Aligned(s, k, m) \/ (over /\ \A i \in 1..Len(s) : s[i][2] = "body")

\* As long as all is well the symbols ahead are those of the current message on.
Stream == Open \/ LastKind = "ok" => Following(Ahead, Current, sent, closed)

\* What is given is message c of m, or as much as came of one that lasts until
\* the close.
FramedAs(m, c, given) ==
  /\ c \in 1..Len(m)
  /\ \/ given = Tagged(c, m[c])
     \/ /\ m[c][2] = "eof" /\ Len(given) >= 2
        /\ given = SubSeq(Tagged(c, m[c]), 1, Len(given))

\* Framing, with the fact that the message was sent.
FramedOf(m, results) ==
  \A c \in 1..Len(results) : \A i \in 1..Len(results[c]) :
    results[c][i].kind = "ok" => FramedAs(m, c, results[c][i].content)

\* A read of size bytes, after parsed, with the size that was taken from cl.
RoomFor(parsed, size, cl) ==
  size < 2 * SystemRmem /\ (size = 0 => HeaderDone(parsed) /\ Atoi(cl) + Slack = 0)

\* The sizes of the reads.
Sized ==
  /\ m_current_body_buffer_size < 2 * SystemRmem
  /\ reading => RoomFor(content, buf_size, content_length)

IInv ==
  /\ TypeOK /\ Control /\ Unstopped /\ Sized
  /\ FinalOf(sent) /\ Stream /\ FramedOf(sent, outcome)

-----------------------------------------------------------------------------
(* Numbers and messages.                                                    *)

\* The least-number principle, by which the first stop of a buffer exists.
LEMMA LeastNumber ==
  ASSUME NEW T \in SUBSET Nat, T # {}
  PROVE  \E x \in T : \A y \in T : x <= y
<1>1. \E x \in T : \A y \in T : ~(y < x)
  <2>1. PICK x \in T : \A y \in T : ~(<<y, x>> \in OpToRel(<, Nat))
    BY NatLessThanWellFounded, WFMin
  <2>2. \A y \in T : ~(y < x)
    BY <2>1 DEF OpToRel
  <2> QED BY <2>2
<1> QED BY <1>1

\* A message stops the parser at its end, or lasts until the close; only its
\* second part can say so, and only body follows that.
LEMMA ShapeFacts ==
  ASSUME NEW m \in AnyShape
  PROVE  /\ m \in Seq(Parts) /\ Len(m) \in Nat /\ Len(m) >= 2 /\ DOMAIN m = 1..Len(m)
         /\ \A p \in 1..Len(m) : p < Len(m) => m[p] \notin StopParts
         /\ m[Len(m)] \notin StopParts => m[2] = "eof"
         /\ \A p \in 1..Len(m) : m[p] = "eof" => p = 2
         /\ m[2] = "eof" => \A p \in 1..Len(m) : p > 2 => m[p] = "body"
<1> USE DEF StopParts, Parts
<1>1. CASE m = <<"head", "end">>
  BY <1>1
<1>2. CASE m = <<"head", "sized", "body", "last">>
  BY <1>2
<1>3. CASE m = <<"head", "eof", "body", "body", "body">>
  BY <1>3
<1>4. CASE m = <<"head", "bad">>
  BY <1>4
<1> QED BY <1>1, <1>2, <1>3, <1>4 DEF AnyShape

\* The symbols of a message.
LEMMA TaggedFacts ==
  ASSUME NEW m \in AnyShape, NEW k \in 1..MaxMessages
  PROVE  /\ Tagged(k, m) \in Seq(Symbols) /\ Len(Tagged(k, m)) = Len(m)
         /\ \A p \in 1..Len(m) : Tagged(k, m)[p] = <<k, m[p]>>
<1>1. Len(m) \in Nat /\ \A p \in 1..Len(m) : m[p] \in Parts
  BY ShapeFacts
<1>2. \A p \in 1..Len(m) : <<k, m[p]>> \in Symbols
  BY <1>1 DEF Symbols
<1> QED BY <1>1, <1>2 DEF Tagged

-----------------------------------------------------------------------------
(* Sequences of symbols.                                                    *)

\* The parts of a concatenation.
LEMMA Cat ==
  ASSUME NEW c \in Seq(Symbols), NEW r \in Seq(Symbols)
  PROVE  /\ c \o r \in Seq(Symbols)
         /\ Len(c) \in Nat /\ Len(r) \in Nat /\ Len(c \o r) = Len(c) + Len(r)
         /\ \A i \in 1..Len(c) : (c \o r)[i] = c[i]
         /\ \A i \in 1..Len(r) : (c \o r)[Len(c) + i] = r[i]
  OBVIOUS

\* Concatenation is associative.
LEMMA Assoc ==
  \A c, r, w \in Seq(Symbols) : (c \o r) \o w = c \o (r \o w)
<1> SUFFICES ASSUME NEW c \in Seq(Symbols), NEW r \in Seq(Symbols), NEW w \in Seq(Symbols)
             PROVE  (c \o r) \o w = c \o (r \o w)
  OBVIOUS
<1> DEFINE S == Symbols
<1>1. c \in Seq(S) /\ r \in Seq(S) /\ w \in Seq(S)
  OBVIOUS
<1> HIDE DEF S
<1> QED BY <1>1, ConcatAssociative

\* The two parts of a sequence that is cut.
LEMMA Cut ==
  ASSUME NEW s \in Seq(Symbols), NEW n \in 0..Len(s)
  PROVE  /\ SubSeq(s, 1, n) \in Seq(Symbols) /\ Len(SubSeq(s, 1, n)) = n
         /\ SubSeq(s, n + 1, Len(s)) \in Seq(Symbols) /\ Len(SubSeq(s, n + 1, Len(s))) = Len(s) - n
         /\ \A i \in 1..n : SubSeq(s, 1, n)[i] = s[i]
         /\ SubSeq(s, 1, n) \o SubSeq(s, n + 1, Len(s)) = s
<1>1. Len(s) \in Nat /\ n \in Nat /\ n <= Len(s) /\ \A i \in 1..Len(s) : s[i] \in Symbols
  OBVIOUS
<1> DEFINE a == SubSeq(s, 1, n)
           b == SubSeq(s, n + 1, Len(s))
<1>2. a \in Seq(Symbols) /\ Len(a) = n /\ \A i \in 1..n : a[i] = s[i]
  BY <1>1
<1>3. b \in Seq(Symbols) /\ Len(b) = Len(s) - n /\ \A i \in 1..(Len(s) - n) : b[i] = s[n + i]
  BY <1>1
<1> HIDE DEF a, b
<1>4. /\ a \o b \in Seq(Symbols) /\ Len(a \o b) = Len(s)
      /\ \A i \in 1..n : (a \o b)[i] = a[i]
      /\ \A i \in 1..(Len(s) - n) : (a \o b)[n + i] = b[i]
  BY <1>1, <1>2, <1>3, Cat
<1>5. ASSUME NEW i \in 1..Len(s) PROVE (a \o b)[i] = s[i]
  <2>1. CASE i <= n
    BY <2>1, <1>1, <1>2, <1>4
  <2>2. CASE i > n
    <3>1. PICK k \in 1..(Len(s) - n) : i = n + k
      BY <2>2, <1>1
    <3>2. (a \o b)[n + k] = b[k] /\ b[k] = s[n + k]
      BY <1>3, <1>4
    <3> QED BY <3>1, <3>2
  <2>3. i <= n \/ i > n
    BY <1>1
  <2> QED BY <2>1, <2>2, <2>3
<1>6. a \o b = s
  BY <1>4, <1>5, SeqEqual
<1> QED BY <1>2, <1>3, <1>6 DEF a, b

-----------------------------------------------------------------------------
(* Streams of messages.                                                     *)

\* The place of message j of a stream.
LEMMA RunsStep ==
  ASSUME NEW s \in Seq(Symbols), NEW k \in Nat, NEW m \in Seq(AnyShape), NEW off \in [Int -> Int],
         Runs(s, k, m, off), NEW j \in k..Len(m)
  PROVE  /\ off[j] \in Int /\ 0 <= off[j] /\ off[j + 1] = off[j] + Len(m[j]) /\ off[j + 1] <= Len(s)
         /\ \A i \in k..j : off[i] <= off[j]
         /\ \A p \in 1..Len(m[j]) : s[off[j] + p] = <<j, m[j][p]>>
<1>0. Len(m) \in Nat
  OBVIOUS
<1>1. /\ j \in Int /\ j + 1 \in Int
      /\ k \in k..(Len(m) + 1) /\ j \in k..(Len(m) + 1) /\ j + 1 \in k..(Len(m) + 1)
      /\ Len(m) + 1 \in k..(Len(m) + 1)
      /\ k <= j /\ j + 1 <= Len(m) + 1
  <2>1. j \in Int /\ j + 1 \in Int
    BY <1>0
  <2>2. k \in k..(Len(m) + 1) 
    BY <1>0
  <2>3. j \in k..(Len(m) + 1) 
    BY <1>0
  <2>4. j + 1 \in k..(Len(m) + 1)
    BY <1>0
  <2>5. Len(m) + 1 \in k..(Len(m) + 1)
    BY <1>0
  <2>6. k <= j /\ j + 1 <= Len(m) + 1
    BY <1>0
  <2> QED BY <2>1, <2>2, <2>3, <2>4, <2>5, <2>6
<1>2. \A i \in k..j : i \in k..(Len(m) + 1) /\ i <= j
  BY <1>0
<1>3. off[k] = 0 /\ off[Len(m) + 1] = Len(s)
  BY DEF Runs
<1>4. off[k] <= off[j] /\ off[j + 1] <= off[Len(m) + 1]
  BY <1>1 DEF Runs
<1>5. \A i \in k..j : off[i] <= off[j]
  BY <1>1, <1>2 DEF Runs
<1>6. off[j + 1] = off[j] + Len(m[j])
  BY DEF Runs
<1>7. \A p \in 1..Len(m[j]) : s[off[j] + p] = <<j, m[j][p]>>
  BY DEF Runs
<1>8. off[j] \in Int
  BY <1>1
<1> QED BY <1>3, <1>4, <1>5, <1>6, <1>7, <1>8

\* A stream begins with its first message, and ends with its last.
LEMMA AlignedHead ==
  ASSUME NEW m \in Seq(AnyShape), NEW k \in Nat, NEW s \in Seq(Symbols), Aligned(s, k, m)
  PROVE  /\ k \in 1..(Len(m) + 1)
         /\ k = Len(m) + 1 => Len(s) = 0
         /\ k <= Len(m) => /\ Len(m[k]) <= Len(s)
                           /\ \A p \in 1..Len(m[k]) : s[p] = <<k, m[k][p]>>
         /\ k = Len(m) => Len(s) = Len(m[k])
<1>1. Len(m) \in Nat /\ Len(s) \in Nat
  OBVIOUS
<1>2. PICK off \in [Int -> Int] : Runs(s, k, m, off)
  BY DEF Aligned
<1>3. off[k] = 0 /\ off[Len(m) + 1] = Len(s)
  BY <1>2 DEF Runs
<1>4. k \in 1..(Len(m) + 1)
  BY DEF Aligned
<1>5. ASSUME k <= Len(m)
      PROVE  /\ Len(m[k]) <= Len(s) /\ (k = Len(m) => Len(s) = Len(m[k]))
             /\ \A p \in 1..Len(m[k]) : s[p] = <<k, m[k][p]>>
  <2>1. k \in 1..Len(m) /\ k \in k..Len(m)
    BY <1>1, <1>4, <1>5
  <2>2. Len(m[k]) \in Nat
    <3>1. m[k] \in AnyShape
      BY <2>1
    <3> QED BY <3>1, ShapeFacts
  <2>3. off[k + 1] = off[k] + Len(m[k]) /\ off[k + 1] <= Len(s)
    BY <1>1, <1>2, <2>1, RunsStep
  <2>4. \A p \in 1..Len(m[k]) : s[off[k] + p] = <<k, m[k][p]>>
    BY <1>1, <1>2, <2>1, RunsStep
  <2>5. \A p \in 1..Len(m[k]) : off[k] + p = p
    BY <1>3, <2>2
  <2>6. off[k + 1] = Len(m[k])
    BY <1>3, <2>2, <2>3
  <2>7. k = Len(m) => off[k + 1] = Len(s)
    BY <1>3
  <2>8. \A p \in 1..Len(m[k]) : s[p] = <<k, m[k][p]>>
    BY <2>4, <2>5
  <2> QED BY <2>3, <2>6, <2>7, <2>8
<1>6. k = Len(m) + 1 => Len(s) = 0
  BY <1>3
<1>7. k = Len(m) => k <= Len(m)
  BY <1>1
<1> QED BY <1>4, <1>5, <1>6, <1>7

\* A stream whose first part has the length of its first message is that
\* message and the stream of the others.
LEMMA AlignedFirst ==
  ASSUME NEW m \in Seq(AnyShape), NEW k \in Nat, k <= Len(m), Len(m) <= MaxMessages,
         NEW c \in Seq(Symbols), NEW r \in Seq(Symbols),
         Aligned(c \o r, k, m), Len(c) = Len(m[k])
  PROVE  c = Tagged(k, m[k]) /\ Aligned(r, k + 1, m)
<1>1. Len(m) \in Nat /\ MaxMessages \in Nat
  BY ReaderAssumption
<1> DEFINE s == c \o r
           l == Len(c)
<1>2. /\ s \in Seq(Symbols) /\ Len(s) = l + Len(r) /\ l \in Nat /\ Len(r) \in Nat
      /\ \A i \in 1..l : s[i] = c[i]
      /\ \A i \in 1..Len(r) : s[l + i] = r[i]
  BY Cat
<1>3. Aligned(s, k, m) /\ l = Len(m[k]) /\ l = Len(c)
  OBVIOUS
<1> HIDE DEF s, l
<1>4. k \in 1..(Len(m) + 1)
  BY <1>2, <1>3, AlignedHead
<1>5. \A p \in 1..l : s[p] = <<k, m[k][p]>>
  BY <1>2, <1>3, AlignedHead
<1>6. k \in 1..Len(m)
  BY <1>1, <1>4
<1>7. k \in 1..MaxMessages
  BY <1>1, <1>6
<1>8. ASSUME NEW j \in 1..Len(m) PROVE m[j] \in AnyShape /\ Len(m[j]) \in Nat
  <2>1. m[j] \in AnyShape
    OBVIOUS
  <2> QED BY <2>1, ShapeFacts
<1>9. c = Tagged(k, m[k])
  <2>1. /\ Tagged(k, m[k]) \in Seq(Symbols) /\ Len(Tagged(k, m[k])) = l
        /\ \A p \in 1..l : Tagged(k, m[k])[p] = <<k, m[k][p]>>
    BY <1>3, <1>6, <1>7, <1>8, TaggedFacts
  <2>2. \A p \in 1..l : c[p] = Tagged(k, m[k])[p]
    BY <1>2, <1>5, <2>1
  <2> HIDE DEF Tagged
  <2> QED BY <1>3, <2>1, <2>2, SeqEqual
<1>10. PICK off \in [Int -> Int] : Runs(s, k, m, off)
  BY <1>3 DEF Aligned
<1>11. l \in Int /\ \A j \in Int : off[j] \in Int
  BY <1>2
<1> DEFINE new == [j \in Int |-> off[j] - l]
<1>12. new \in [Int -> Int]
  <2>1. \A j \in Int : off[j] - l \in Int
    BY <1>11
  <2> QED BY <2>1
<1>13. \A j \in Int : new[j] = off[j] - l
  OBVIOUS
<1> HIDE DEF new
<1>14. off[k] = 0 /\ off[Len(m) + 1] = l + Len(r)
  BY <1>2, <1>10 DEF Runs
<1>15. off[k + 1] = l
  <2>1. k \in k..Len(m)
    BY <1>1, <1>6
  <2>2. off[k + 1] = off[k] + Len(m[k])
    BY <1>2, <1>10, <2>1, RunsStep
  <2> QED BY <1>2, <1>3, <1>14, <2>2
<1>16. new[k + 1] = 0
  <2>1. k + 1 \in Int
    OBVIOUS
  <2>2. new[k + 1] = off[k + 1] - l
    BY <1>13, <2>1
  <2> QED BY <1>11, <1>15, <2>2
<1>17. new[Len(m) + 1] = Len(r)
  <2>1. Len(m) + 1 \in Int
    BY <1>1
  <2>2. new[Len(m) + 1] = off[Len(m) + 1] - l
    BY <1>13, <2>1
  <2> QED BY <1>2, <1>14, <2>2
<1>18. ASSUME NEW j \in (k + 1)..Len(m)
       PROVE  /\ new[j + 1] = new[j] + Len(m[j])
              /\ \A p \in 1..Len(m[j]) : r[new[j] + p] = <<j, m[j][p]>>
  <2>1. j \in k..Len(m)
    BY <1>1
  <2>2. j \in 1..Len(m) /\ j \in Int /\ j + 1 \in Int
    BY <1>1
  <2>3. k + 1 \in k..j
    BY <1>1
  <2> DEFINE d == Len(m[j])
             a == off[j]
             b == off[j + 1]
             x == new[j]
             y == new[j + 1]
  <2>4. a \in Int /\ b = a + d /\ b <= Len(s) /\ \A i \in k..j : off[i] <= a
    BY <1>2, <1>10, <2>1, RunsStep
  <2>5. \A p \in 1..d : s[a + p] = <<j, m[j][p]>>
    BY <1>2, <1>10, <2>1, RunsStep
  <2>6. x = a - l /\ y = b - l
    BY <1>13, <2>2
  <2>7. d \in Nat
    BY <1>8, <2>2
  <2>8. l <= a
    BY <1>15, <2>3, <2>4
  <2> HIDE DEF d, a, b, x, y
  <2>9. a + d <= l + Len(r)
    BY <1>2, <2>4
  <2>10. ASSUME NEW p \in 1..d PROVE r[x + p] = <<j, m[j][p]>>
    <3>1. a - l + p \in 1..Len(r)
      BY <1>2, <2>4, <2>7, <2>8, <2>9
    <3>2. PICK q \in 1..Len(r) : q = a - l + p
      BY <3>1
    <3>3. l + q = a + p /\ x + p = q
      BY <1>2, <2>4, <2>6, <2>7, <3>2
    <3>4. s[l + q] = r[q]
      BY <1>2
    <3>5. s[a + p] = <<j, m[j][p]>>
      BY <2>5
    <3> QED BY <3>3, <3>4, <3>5
  <2>11. y = x + d
    BY <1>2, <2>4, <2>6, <2>7
  <2> QED BY <2>10, <2>11 DEF d, x, y
<1>19. ASSUME NEW i \in (k + 1)..(Len(m) + 1), NEW j \in (k + 1)..(Len(m) + 1), i <= j
       PROVE  new[i] <= new[j]
  <2>1. i \in k..(Len(m) + 1) /\ j \in k..(Len(m) + 1)
    BY <1>1
  <2>2. off[i] <= off[j]
    BY <1>10, <1>19, <2>1 DEF Runs
  <2>3. i \in Int /\ j \in Int
    BY <1>1
  <2>4. off[i] \in Int /\ off[j] \in Int /\ new[i] = off[i] - l /\ new[j] = off[j] - l
    BY <1>11, <1>13, <2>3
  <2> QED BY <1>11, <2>2, <2>4
<1>20. Runs(r, k + 1, m, new)
  BY <1>16, <1>17, <1>18, <1>19 DEF Runs
<1>21. k + 1 \in 1..(Len(m) + 1)
  BY <1>1, <1>6
<1> QED BY <1>9, <1>12, <1>20, <1>21 DEF Aligned

\* A message sent is appended to the stream.
LEMMA AlignedSend ==
  ASSUME NEW m \in Seq(AnyShape), NEW k \in Nat, NEW s \in Seq(Symbols), Aligned(s, k, m),
         NEW shape \in AnyShape, Len(m) < MaxMessages
  PROVE  Aligned(s \o Tagged(Len(m) + 1, shape), k, Append(m, shape))
<1> DEFINE n == Len(m)
           l == Len(s)
           d == Len(shape)
           t == Tagged(n + 1, shape)
           u == s \o t
           am == Append(m, shape)
<1>1. n \in Nat /\ l \in Nat /\ d \in Nat
  BY ShapeFacts
<1>2. n + 1 \in 1..MaxMessages
  BY <1>1, ReaderAssumption
<1>3. t \in Seq(Symbols) /\ Len(t) = d /\ \A p \in 1..d : t[p] = <<n + 1, shape[p]>>
  BY <1>2, TaggedFacts
<1>4. Len(am) = n + 1 /\ am[n + 1] = shape /\ \A j \in 1..n : am[j] = m[j]
  OBVIOUS
<1> HIDE DEF t, am
<1>5. /\ Len(u) = l + d
      /\ \A i \in 1..l : u[i] = s[i]
      /\ \A i \in 1..d : u[l + i] = t[i]
  <2> HIDE DEF d
  <2>1. /\ Len(s \o t) = Len(s) + Len(t)
        /\ \A i \in 1..Len(s) : (s \o t)[i] = s[i]
        /\ \A i \in 1..Len(t) : (s \o t)[Len(s) + i] = t[i]
    BY <1>3, Cat
  <2> QED BY <1>3, <2>1
<1> HIDE DEF d, u
<1>6. PICK off \in [Int -> Int] : Runs(s, k, m, off)
  BY DEF Aligned
<1>7. k \in 1..(n + 1)
  BY DEF Aligned
<1>8. off[k] = 0 /\ off[n + 1] = l
  BY <1>6 DEF Runs
<1> DEFINE new == [j \in Int |-> IF j = n + 2 THEN l + d ELSE off[j]]
<1>9. new \in [Int -> Int]
  BY <1>1
<1>10. new[n + 2] = l + d
  BY <1>1
<1>11. \A j \in Int : j # n + 2 => new[j] = off[j]
  OBVIOUS
<1> HIDE DEF new
<1>12. \A j \in k..(n + 1) : new[j] = off[j]
  <2>1. ASSUME NEW j \in k..(n + 1) PROVE new[j] = off[j]
    <3>1. j \in Int /\ j # n + 2
      BY <1>1
    <3> QED BY <1>11, <3>1
  <2> QED BY <2>1
<1>13. new[k] = 0
  <2>1. k \in k..(n + 1)
    BY <1>1, <1>7
  <2> QED BY <1>8, <1>12, <2>1
<1>14. new[n + 1] = l
  <2>1. n + 1 \in k..(n + 1)
    BY <1>1, <1>7
  <2> QED BY <1>8, <1>12, <2>1
<1>15. n + 1 + 1 = n + 2
  BY <1>1
<1>16. ASSUME NEW j \in k..(n + 1)
       PROVE  /\ new[j + 1] = new[j] + Len(am[j])
              /\ \A p \in 1..Len(am[j]) : u[new[j] + p] = <<j, am[j][p]>>
  <2>1. CASE j = n + 1
    <3>1. new[j + 1] = new[j] + Len(am[j])
      BY <2>1, <1>4, <1>10, <1>14, <1>15 DEF d
    <3>2. ASSUME NEW p \in 1..d PROVE u[l + p] = <<n + 1, shape[p]>>
      BY <1>3, <1>5
    <3> QED BY <2>1, <1>4, <1>14, <3>1, <3>2 DEF d
  <2>2. CASE j # n + 1
    <3>1. j \in k..n
      <4> HIDE DEF n
      <4> QED BY <1>1, <1>7, <2>2
    <3>2. j \in 1..n /\ j + 1 \in k..(n + 1)
      BY <1>1, <1>7, <3>1
    <3> DEFINE a == off[j]
               e == Len(m[j])
    <3>3. new[j] = a /\ new[j + 1] = off[j + 1] /\ am[j] = m[j]
      BY <1>4, <1>12, <3>2
    <3>4. a \in Int /\ 0 <= a /\ off[j + 1] = a + e /\ off[j + 1] <= l
      BY <1>6, <3>1, RunsStep
    <3>5. \A p \in 1..e : s[a + p] = <<j, m[j][p]>>
      BY <1>6, <3>1, RunsStep
    <3>6. e \in Nat
      <4>1. m[j] \in AnyShape
        BY <3>2
      <4> QED BY <4>1, ShapeFacts
    <3> HIDE DEF a, e
    <3>7. ASSUME NEW p \in 1..e PROVE u[a + p] = <<j, m[j][p]>>
      <4>1. a + e <= l
        BY <3>4
      <4>2. PICK q \in 1..l : q = a + p
        BY <1>1, <3>4, <3>6, <4>1
      <4>3. u[q] = s[q]
        BY <1>5
      <4> QED BY <3>5, <4>2, <4>3
    <3> QED BY <3>3, <3>4, <3>7 DEF e
  <2> QED BY <2>1, <2>2
<1>17. ASSUME NEW i \in k..(n + 2), NEW j \in k..(n + 2), i <= j
       PROVE  new[i] <= new[j]
  <2>1. ASSUME NEW h \in k..(n + 1) PROVE new[h] \in Int /\ new[h] <= l
    <3>1. h <= n + 1 /\ n + 1 \in k..(n + 1) /\ h \in Int
      BY <1>1, <1>7
    <3>2. off[h] <= off[n + 1]
      BY <1>6, <3>1 DEF Runs
    <3>3. off[h] \in Int
      BY <3>1
    <3> QED BY <1>8, <1>12, <3>2, <3>3
  <2>2. CASE j # n + 2
    <3>1. j \in k..(n + 1)
      <4> HIDE DEF n
      <4> QED BY <1>1, <1>17, <2>2
    <3>2. i \in k..(n + 1)
      <4> HIDE DEF n
      <4> QED BY <1>1, <1>17, <3>1
    <3>3. off[i] <= off[j]
      BY <1>6, <1>17, <3>1, <3>2 DEF Runs
    <3> QED BY <1>12, <3>1, <3>2, <3>3
  <2>3. CASE j = n + 2 /\ i = n + 2
    <3>1. l + d \in Int
      BY <1>1 DEF d
    <3>2. new[i] = l + d /\ new[j] = l + d
      BY <1>10, <2>3
    <3> QED BY <3>1, <3>2
  <2>4. CASE j = n + 2 /\ i # n + 2
    <3>1. i \in k..(n + 1)
      <4> HIDE DEF n
      <4> QED BY <1>1, <2>4
    <3>2. new[i] \in Int /\ new[i] <= l
      BY <2>1, <3>1
    <3>3. new[j] = l + d
      BY <1>10, <2>4
    <3>4. l \in Nat /\ d \in Nat
      BY <1>1 DEF d
    <3> HIDE DEF l
    <3>5. PICK x \in Int : x = new[i]
      BY <3>2
    <3>6. x <= l
      BY <3>2, <3>5
    <3>7. x <= l + d
      BY <3>4, <3>6
    <3> QED BY <3>3, <3>5, <3>7
  <2> QED BY <2>2, <2>3, <2>4
<1>18. Runs(u, k, am, new)
  <2>1. PICK c \in Nat : c = Len(am)
    BY <1>1, <1>4
  <2>2. c = n + 1 /\ c + 1 = n + 2
    BY <1>1, <1>4, <2>1
  <2>3. new[k] = 0 /\ new[c + 1] = Len(u)
    BY <1>5, <1>10, <1>13, <2>2
  <2>4. \A j \in k..c : new[j + 1] = new[j] + Len(am[j])
    BY <1>16, <2>2
  <2>5. \A i, j \in k..(c + 1) : i <= j => new[i] <= new[j]
    BY <1>17, <2>2
  <2>6. \A j \in k..c : \A p \in 1..Len(am[j]) : u[new[j] + p] = <<j, am[j][p]>>
    BY <1>16, <2>2
  <2> HIDE DEF n, l
  <2> QED BY <2>1, <2>3, <2>4, <2>5, <2>6 DEF Runs
<1>19. k \in 1..(Len(am) + 1)
  BY <1>1, <1>4, <1>7
<1>20. Aligned(u, k, am)
  BY <1>9, <1>18, <1>19 DEF Aligned
<1> QED BY <1>20 DEF u, t, am

\* The empty stream.
LEMMA AlignedEmpty ==
  Aligned(<<>>, 1, <<>>)
<1> DEFINE off == [j \in Int |-> 0]
<1>1. off \in [Int -> Int] /\ \A j \in Int : off[j] = 0
  OBVIOUS
<1>2. Len(<<>>) = 0
  OBVIOUS
<1> HIDE DEF off
<1>3. Runs(<<>>, 1, <<>>, off)
  BY <1>1, <1>2 DEF Runs
<1> QED BY <1>1, <1>2, <1>3 DEF Aligned

-----------------------------------------------------------------------------
(* What the parser finds in a stream.                                       *)

\* A stream in which nothing up to place n stops the parser has at least n
\* symbols of its first message.
LEMMA NoStopInside ==
  ASSUME NEW m \in Seq(AnyShape), NEW k \in Nat, NEW s \in Seq(Symbols), Aligned(s, k, m), FinalOf(m),
         NEW n \in 1..Len(s), \A i \in 1..n : s[i][2] \notin StopParts
  PROVE  k \in 1..Len(m) /\ n <= Len(m[k])
<1>1. Len(m) \in Nat /\ Len(s) \in Nat /\ k \in 1..(Len(m) + 1)
  BY AlignedHead
<1>2. k # Len(m) + 1
  BY <1>1, AlignedHead
<1>3. k \in 1..Len(m)
  BY <1>1, <1>2
<1>4. k <= Len(m)
  BY <1>1, <1>3
<1> DEFINE a == m[k]
           l == Len(a)
<1>5. a \in AnyShape
  BY <1>3
<1>6. /\ l \in Nat /\ l >= 2 /\ DOMAIN a = 1..l
      /\ a[l] \notin StopParts => a[2] = "eof"
  BY <1>5, ShapeFacts
<1>7. l <= Len(s) /\ (\A p \in 1..l : s[p] = <<k, a[p]>>) /\ (k = Len(m) => Len(s) = l)
  BY <1>4, AlignedHead
<1>8. ASSUME l < n PROVE FALSE
  <2> HIDE DEF l, a
  <2>1. l \in 1..n /\ l \in 1..l
    BY <1>1, <1>6, <1>8
  <2>2. s[l] = <<k, a[l]>> /\ s[l][2] \notin StopParts
    BY <1>7, <2>1
  <2>3. a[2] = "eof" /\ 2 \in DOMAIN a
    BY <1>6, <2>2
  <2>4. ~(k < Len(m))
    BY <1>3, <2>3 DEF FinalOf, a
  <2>5. k = Len(m)
    BY <1>1, <1>3, <2>4
  <2> QED BY <1>1, <1>6, <1>7, <1>8, <2>5
<1>9. n <= l
  <2> HIDE DEF l
  <2> QED BY <1>1, <1>6, <1>8
<1> QED BY <1>3, <1>9

\* The first symbol that stops the parser is the last one of the first message.
LEMMA Boundary ==
  ASSUME NEW m \in Seq(AnyShape), NEW k \in Nat, NEW s \in Seq(Symbols), Aligned(s, k, m), FinalOf(m),
         NEW n \in 1..Len(s), s[n][2] \in StopParts, \A i \in 1..n : i < n => s[i][2] \notin StopParts
  PROVE  k \in 1..Len(m) /\ n = Len(m[k])
<1>1. Len(m) \in Nat /\ Len(s) \in Nat /\ k \in 1..(Len(m) + 1)
  BY AlignedHead
<1>2. k # Len(m) + 1
  BY <1>1, AlignedHead
<1>3. k \in 1..Len(m)
  BY <1>1, <1>2
<1>4. k <= Len(m)
  BY <1>1, <1>3
<1> DEFINE a == m[k]
           l == Len(a)
<1>5. a \in AnyShape
  BY <1>3
<1>6. /\ l \in Nat /\ l >= 2
      /\ \A p \in 1..l : p < l => a[p] \notin StopParts
  BY <1>5, ShapeFacts
<1>7. l <= Len(s) /\ \A p \in 1..l : s[p] = <<k, a[p]>>
  BY <1>4, AlignedHead
<1>8. ASSUME n < l PROVE FALSE
  <2> HIDE DEF l, a
  <2>1. n \in 1..l
    BY <1>1, <1>6, <1>8
  <2>2. s[n] = <<k, a[n]>> /\ a[n] \notin StopParts
    BY <1>6, <1>7, <1>8, <2>1
  <2> QED BY <2>2
<1>9. ASSUME l < n PROVE FALSE
  <2> HIDE DEF l, a
  <2>1. n - 1 \in 1..Len(s)
    BY <1>1, <1>6, <1>9
  <2>2. \A i \in 1..(n - 1) : i \in 1..n /\ i < n
    BY <1>1
  <2>3. \A i \in 1..(n - 1) : s[i][2] \notin StopParts
    BY <2>2
  <2>4. n - 1 <= l
    BY <2>1, <2>3, NoStopInside DEF l, a
  <2>5. n - 1 = l
    BY <1>1, <1>6, <1>9, <2>4
  <2>6. l \in 1..l /\ l \in 1..(n - 1)
    BY <1>1, <1>6, <2>5
  <2>7. a[l] \notin StopParts
    <3>1. s[l] = <<k, a[l]>>
      BY <1>7, <2>6
    <3> QED BY <2>3, <2>6, <3>1
  <2>8. a[2] = "eof" /\ 2 \in DOMAIN a
    BY <1>5, <1>6, <2>7, ShapeFacts DEF l
  <2>9. ~(k < Len(m))
    BY <1>3, <2>8 DEF FinalOf, a
  <2>10. k = Len(m)
    BY <1>1, <1>3, <2>9
  <2>11. Len(s) = l
    BY <2>10, AlignedHead DEF l, a
  <2> QED BY <1>1, <1>9, <2>11
<1>10. n = l
  <2> HIDE DEF l
  <2> QED BY <1>1, <1>6, <1>8, <1>9
<1> QED BY <1>3, <1>10

\* When the parser has seen that a body lasts until the close, it has a part of
\* the last message, and only body follows.
LEMMA EofPrefix ==
  ASSUME NEW m \in Seq(AnyShape), NEW k \in Nat, Len(m) <= MaxMessages, FinalOf(m),
         NEW c \in Seq(Symbols), NEW w \in Seq(Symbols), Aligned(c \o w, k, m),
         \A i \in 1..Len(c) : c[i][2] \notin StopParts,
         NEW e \in 1..Len(c), c[e][2] = "eof"
  PROVE  /\ k \in 1..Len(m) /\ m[k][2] = "eof" /\ Len(c) >= 2
         /\ c = SubSeq(Tagged(k, m[k]), 1, Len(c))
         /\ \A i \in 1..Len(w) : w[i][2] = "body"
<1> DEFINE s == c \o w
           n == Len(c)
           a == m[k]
           l == Len(a)
<1>1. Len(m) \in Nat /\ MaxMessages \in Nat
  BY ReaderAssumption
<1>2. /\ s \in Seq(Symbols) /\ Len(s) = n + Len(w) /\ n \in Nat /\ Len(w) \in Nat
      /\ \A i \in 1..n : s[i] = c[i]
      /\ \A i \in 1..Len(w) : s[n + i] = w[i]
  BY Cat
<1>3. Aligned(s, k, m) /\ n = Len(c)
  OBVIOUS
<1> HIDE DEF s, n
<1>4. n \in 1..Len(s)
  BY <1>2, <1>3
<1>5. \A i \in 1..n : s[i][2] \notin StopParts
  BY <1>2, <1>3
<1>6. k \in 1..Len(m) /\ n <= l
  BY <1>2, <1>3, <1>4, <1>5, NoStopInside
<1>7. k <= Len(m) /\ k \in 1..MaxMessages
  BY <1>1, <1>6
<1>8. a \in AnyShape
  BY <1>6
<1>9. /\ l \in Nat /\ l >= 2 /\ DOMAIN a = 1..l
      /\ \A p \in 1..l : a[p] = "eof" => p = 2
      /\ a[2] = "eof" => \A p \in 1..l : p > 2 => a[p] = "body"
  BY <1>8, ShapeFacts
<1>10. l <= Len(s) /\ (\A p \in 1..l : s[p] = <<k, a[p]>>) /\ (k = Len(m) => Len(s) = l)
  BY <1>2, <1>3, <1>7, AlignedHead
<1>11. Tagged(k, a) \in Seq(Symbols) /\ Len(Tagged(k, a)) = l /\ \A p \in 1..l : Tagged(k, a)[p] = <<k, a[p]>>
  BY <1>7, <1>8, TaggedFacts
<1> HIDE DEF l, a, Tagged
<1>12. e \in 1..n /\ e \in 1..l
  BY <1>2, <1>3, <1>6, <1>9
<1>13. e = 2 /\ a[2] = "eof"
  <2>1. s[e] = c[e] /\ s[e] = <<k, a[e]>>
    BY <1>2, <1>10, <1>12
  <2>2. a[e] = "eof"
    BY <2>1
  <2> QED BY <1>9, <1>12, <2>2
<1>14. n >= 2
  BY <1>2, <1>12, <1>13
<1>15. c = SubSeq(Tagged(k, a), 1, n)
  <2> DEFINE t == Tagged(k, a)
  <2>1. t \in Seq(Symbols) /\ n \in 0..Len(t)
    BY <1>2, <1>6, <1>9, <1>11
  <2>2. SubSeq(t, 1, n) \in Seq(Symbols) /\ Len(SubSeq(t, 1, n)) = n /\ \A i \in 1..n : SubSeq(t, 1, n)[i] = t[i]
    BY <2>1, Cut
  <2>3. ASSUME NEW i \in 1..n PROVE c[i] = SubSeq(t, 1, n)[i]
    <3>1. i \in 1..l
      BY <1>2, <1>6, <1>9
    <3>2. c[i] = s[i] /\ s[i] = <<k, a[i]>> /\ t[i] = <<k, a[i]>>
      BY <1>2, <1>10, <1>11, <3>1
    <3> QED BY <2>2, <3>2
  <2> HIDE DEF t
  <2>4. c = SubSeq(t, 1, n)
    BY <1>3, <2>2, <2>3, SeqEqual
  <2> QED BY <2>4 DEF t
<1>16. k = Len(m)
  <2>1. 2 \in DOMAIN a
    BY <1>9
  <2>2. ~(k < Len(m))
    BY <1>6, <1>13, <2>1 DEF FinalOf, a
  <2> QED BY <1>1, <1>6, <2>2
<1>17. ASSUME NEW i \in 1..Len(w) PROVE w[i][2] = "body"
  <2>1. n + i <= l
    BY <1>2, <1>10, <1>16
  <2>2. PICK p \in 1..l : p = n + i
    BY <1>2, <1>9, <2>1
  <2>3. p > 2
    BY <1>2, <1>14, <2>2
  <2>4. s[p] = <<k, a[p]>> /\ a[p] = "body"
    BY <1>9, <1>10, <1>13, <2>3
  <2>5. s[p] = w[i]
    BY <1>2, <2>2
  <2> QED BY <2>4, <2>5
<1> QED BY <1>3, <1>6, <1>13, <1>14, <1>15, <1>17 DEF a

-----------------------------------------------------------------------------
(* consume().                                                               *)

\* How far consume() gets and what the parser then says.
LEMMA ParserFacts ==
  ASSUME m_streambuffer \in Seq(Symbols), verdict \in {"more", "done", "error"}
  PROVE  /\ Taken \in 0..Len(m_streambuffer)
         /\ Verdict \in {"more", "done", "error"}
         /\ verdict # "more" => Taken = 0 /\ Verdict = verdict
         /\ verdict = "more" /\ Verdict = "more" =>
              /\ Taken = Len(m_streambuffer)
              /\ \A i \in 1..Len(m_streambuffer) : m_streambuffer[i][2] \notin StopParts
         /\ verdict = "more" /\ Verdict = "done" =>
              /\ Taken \in 1..Len(m_streambuffer)
              /\ m_streambuffer[Taken][2] \in StopParts
              /\ \A i \in 1..Taken : i < Taken => m_streambuffer[i][2] \notin StopParts
<1> DEFINE b == m_streambuffer
           l == Len(b)
<1>1. l \in Nat /\ DOMAIN b = 1..l
  OBVIOUS
<1>2. CASE verdict # "more"
  <2>1. Taken = 0 /\ Verdict = verdict
    BY <1>2 DEF Taken, Verdict
  <2>2. 0 \in 0..l
    BY <1>1
  <2> QED BY <1>2, <2>1, <2>2
<1>3. CASE verdict = "more" /\ Stops = {}
  <2>1. Taken = l /\ Verdict = "more"
    BY <1>3 DEF Taken, Verdict
  <2>2. l \in 0..l
    BY <1>1
  <2>3. \A i \in 1..l : b[i][2] \notin StopParts
    BY <1>1, <1>3 DEF Stops, StopParts
  <2> QED BY <1>3, <2>1, <2>2, <2>3
<1>4. CASE verdict = "more" /\ Stops # {}
  <2>1. Stops \in SUBSET Nat
    BY <1>1 DEF Stops
  <2>2. \E i \in Stops : \A j \in Stops : i <= j
    BY <1>4, <2>1, LeastNumber
  <2>3. First \in Stops /\ \A j \in Stops : First <= j
    BY <2>2 DEF First
  <2>4. First \in 1..l /\ b[First][2] \in StopParts
    BY <1>1, <2>3 DEF Stops, StopParts
  <2>5. ASSUME NEW i \in 1..First, i < First PROVE b[i][2] \notin StopParts
    <3>1. i \in 1..l
      BY <1>1, <2>4
    <3>2. i \notin Stops
      BY <2>3, <2>4, <2>5
    <3> QED BY <1>1, <3>1, <3>2 DEF Stops, StopParts
  <2>6. CASE b[First][2] = "bad"
    <3>1. Taken = First - 1 /\ Verdict = "error"
      BY <1>4, <2>6 DEF Taken, Verdict, is_error, http_errno
    <3>2. First - 1 \in 0..l
      BY <1>1, <2>4
    <3> QED BY <1>4, <3>1, <3>2
  <2>7. CASE b[First][2] # "bad"
    <3>1. Taken = First /\ Verdict = "done"
      BY <1>4, <2>7 DEF Taken, Verdict, is_error, http_errno
    <3>2. First \in 0..l
      BY <1>1, <2>4
    <3> QED BY <1>4, <2>4, <2>5, <3>1, <3>2
  <2> QED BY <2>6, <2>7
<1> QED BY <1>2, <1>3, <1>4

\* consume() moves symbols from the buffer to the message, none is lost.
LEMMA ConsumeFacts ==
  ASSUME m_streambuffer \in Seq(Symbols), content \in Seq(Symbols), wire \in Seq(Symbols),
         verdict \in {"more", "done", "error"}
  PROVE  /\ Consumed \in Seq(Symbols) /\ Rest \in Seq(Symbols)
         /\ Len(Consumed) = Len(content) + Taken
         /\ Taken = 0 => Consumed = content /\ Rest = m_streambuffer
         /\ Taken = Len(m_streambuffer) => Rest = <<>> /\ Consumed = content \o m_streambuffer
         /\ (Consumed \o Rest) \o wire = (content \o m_streambuffer) \o wire
<1> DEFINE b == m_streambuffer
           n == Taken
           x == SubSeq(b, 1, n)
           y == SubSeq(b, n + 1, Len(b))
<1>1. n \in 0..Len(b) /\ Len(b) \in Nat
  BY ParserFacts
<1>2. /\ x \in Seq(Symbols) /\ Len(x) = n
      /\ y \in Seq(Symbols) /\ Len(y) = Len(b) - n /\ x \o y = b
  BY <1>1, Cut
<1>3. Consumed = content \o x /\ Rest = y
  BY DEF Consumed, Rest
<1>4. content \o x \in Seq(Symbols) /\ Len(content \o x) = Len(content) + n
  BY <1>2, Cat
<1>5. (content \o x) \o y = content \o b
  <2> HIDE DEF x, y, b
  <2>1. (content \o x) \o y = content \o (x \o y)
    BY <1>2, Assoc
  <2> QED BY <1>2, <2>1
<1>6. ASSUME n = 0 PROVE Consumed = content /\ Rest = b
  <2>1. x = <<>>
    BY <1>1, <1>2, <1>6, EmptySeq
  <2>2. content \o <<>> = content /\ <<>> \o y = y
    BY <1>2, ConcatEmptySeq
  <2> HIDE DEF x, y, b
  <2> QED BY <1>2, <1>3, <2>1, <2>2
<1>7. ASSUME n = Len(b) PROVE Rest = <<>> /\ Consumed = content \o b
  <2>1. Len(y) = 0
    BY <1>1, <1>2, <1>7
  <2>2. y = <<>>
    BY <1>2, <2>1, EmptySeq
  <2>3. x \o <<>> = x
    BY <1>2, ConcatEmptySeq
  <2> HIDE DEF x, y, b
  <2> QED BY <1>2, <1>3, <2>2, <2>3
<1> HIDE DEF n, x, y
<1>8. (Consumed \o Rest) \o wire = (content \o b) \o wire
  BY <1>3, <1>5
<1> QED BY <1>2, <1>3, <1>4, <1>6, <1>7, <1>8 DEF n

-----------------------------------------------------------------------------
(* The steps of the reader.                                                 *)

\* A remainder, of numbers less than twice the divisor.
LEMMA Remainder ==
  ASSUME NEW n \in Nat \ {0}, NEW r \in 0..(n - 1)
  PROVE  r % n = r /\ (r + n) % n = r /\ (r - n) % n = r
OBVIOUS

\* atoi() gives an int.
LEMMA AtoiFits ==
  ASSUME NEW cl \in Nat
  PROVE  Atoi(cl) \in Int /\ 2 * Atoi(cl) < IntSpan /\ -IntSpan <= 2 * Atoi(cl)
<1>1. IntSpan \in Nat \ {0} /\ SizeSpan \in Nat \ {0} /\ 2 < SizeSpan
  BY ReaderAssumption
<1> DEFINE x == Smaller(cl, (SizeSpan \div 2) - 1)
           m == x % IntSpan
<1>2. x \in Nat
  BY <1>1 DEF Smaller
<1> HIDE DEF x
<1>3. m \in 0..(IntSpan - 1)
  BY <1>1, <1>2
<1>4. Atoi(cl) = IF 2 * m >= IntSpan THEN m - IntSpan ELSE m
  BY DEF Atoi, x
<1> HIDE DEF m
<1> QED BY <1>1, <1>3, <1>4

\* The size taken from a Content-Length is 0 only where the sum wraps to it.
LEMMA FromLengthFacts ==
  ASSUME NEW cl \in Nat
  PROVE  /\ FromLength(cl) \in Nat /\ FromLength(cl) <= SystemRmem
         /\ FromLength(cl) = 0 => Atoi(cl) + Slack = 0
<1>1. /\ IntSpan \in Nat \ {0} /\ SizeSpan \in Nat \ {0} /\ IntSpan <= SizeSpan
      /\ Slack \in Nat \ {0} /\ 2 * Slack < IntSpan /\ SystemRmem \in Nat \ {0}
  BY ReaderAssumption
<1> DEFINE a == Atoi(cl)
           b == (a % SizeSpan) + Slack
           c == b % SizeSpan
<1>2. a \in Int /\ 2 * a < IntSpan /\ -IntSpan <= 2 * a
  BY AtoiFits
<1> HIDE DEF a
<1>3. CASE a >= 0
  <2>1. a \in 0..(SizeSpan - 1)
    BY <1>1, <1>2, <1>3
  <2>2. b = a + Slack
    BY <1>1, <2>1, Remainder
  <2>3. a + Slack \in 0..(SizeSpan - 1) /\ a + Slack > 0
    BY <1>1, <1>2, <1>3
  <2>4. c = a + Slack
    BY <1>1, <2>2, <2>3, Remainder
  <2> HIDE DEF c
  <2> QED BY <1>1, <2>3, <2>4 DEF FromLength, Smaller, a, c
<1>4. CASE a < 0 /\ a + Slack < 0
  <2>1. a + SizeSpan \in 0..(SizeSpan - 1) /\ (a + SizeSpan) - SizeSpan = a
    BY <1>1, <1>2, <1>4
  <2>2. b = (a + SizeSpan) + Slack
    BY <1>1, <2>1, Remainder
  <2>3. (a + SizeSpan) + Slack \in 0..(SizeSpan - 1) /\ (a + SizeSpan) + Slack > 0
    BY <1>1, <1>2, <1>4, <2>1
  <2>4. c = (a + SizeSpan) + Slack
    BY <1>1, <2>2, <2>3, Remainder
  <2> HIDE DEF c
  <2> QED BY <1>1, <2>3, <2>4 DEF FromLength, Smaller, a, c
<1>5. CASE a < 0 /\ a + Slack >= 0
  <2>1. a + SizeSpan \in 0..(SizeSpan - 1) /\ (a + SizeSpan) - SizeSpan = a
    BY <1>1, <1>2, <1>5
  <2>2. b = (a + Slack) + SizeSpan
    <3>1. a % SizeSpan = a + SizeSpan
      BY <1>1, <2>1, Remainder
    <3> QED BY <1>1, <1>2, <3>1
  <2>3. a + Slack \in 0..(SizeSpan - 1)
    BY <1>1, <1>2, <1>5
  <2>4. c = a + Slack
    BY <1>1, <2>2, <2>3, Remainder
  <2>5. FromLength(cl) = Smaller(c, SystemRmem)
    BY DEF FromLength, a
  <2> HIDE DEF c
  <2>6. Smaller(c, SystemRmem) \in Nat /\ Smaller(c, SystemRmem) <= SystemRmem /\ (Smaller(c, SystemRmem) = 0 => c = 0)
    BY <1>1, <2>3, <2>4 DEF Smaller
  <2>7. c = 0 => Atoi(cl) + Slack = 0
    BY <2>4 DEF a
  <2> QED BY <2>5, <2>6, <2>7
<1>6. a >= 0 \/ (a < 0 /\ a + Slack < 0) \/ (a < 0 /\ a + Slack >= 0)
  BY <1>1, <1>2
<1> QED BY <1>3, <1>4, <1>5, <1>6, Zenon

\* recommended_buffer_size never asks for too much, and for nothing only after
\* a Content-Length that wrapped.
LEMMA RecommendedFacts ==
  ASSUME m_current_body_buffer_size \in Nat, m_current_body_buffer_size < 2 * SystemRmem,
         content_length \in Nat, NEW parsed, RecommendedBufferSize(parsed)
  PROVE  /\ m_current_body_buffer_size' \in Nat /\ m_current_body_buffer_size' < 2 * SystemRmem
         /\ buf_size' \in Nat /\ content_length' \in Nat /\ RoomFor(parsed, buf_size', content_length')
<1>1. /\ Slack \in Nat /\ HeaderBuffer \in Nat /\ BodyBufferMin \in Nat /\ SystemRmem \in Nat
      /\ BodyBufferMax \in Nat /\ Slack > 0 /\ HeaderBuffer > 0 /\ BodyBufferMin > 0 /\ SystemRmem > 0
      /\ HeaderBuffer <= SystemRmem /\ BodyBufferMin <= SystemRmem /\ Lengths \subseteq Nat
  BY ReaderAssumption
<1>2. CASE ~HeaderDone(parsed)
  BY <1>1, <1>2 DEF RecommendedBufferSize, RoomFor
<1>3. CASE HeaderDone(parsed) /\ m_current_body_buffer_size # 0
  <2>1. /\ m_current_body_buffer_size' = Doubled(m_current_body_buffer_size)
        /\ buf_size' = m_current_body_buffer_size' /\ content_length' = content_length
    BY <1>3 DEF RecommendedBufferSize
  <2> QED BY <1>1, <1>3, <2>1 DEF Doubled, Smaller, RoomFor
<1>4. CASE HeaderDone(parsed) /\ m_current_body_buffer_size = 0
  <2>1. /\ \/ content_length' \in Lengths /\ m_current_body_buffer_size' = FromLength(content_length')
           \/ m_current_body_buffer_size' = BodyBufferMin /\ content_length' = 0
        /\ buf_size' = m_current_body_buffer_size'
    BY <1>4 DEF RecommendedBufferSize
  <2>2. CASE content_length' \in Lengths /\ m_current_body_buffer_size' = FromLength(content_length')
    <3>1. content_length' \in Nat
      BY <1>1, <2>2
    <3>2. /\ FromLength(content_length') \in Nat /\ FromLength(content_length') <= SystemRmem
          /\ FromLength(content_length') = 0 => Atoi(content_length') + Slack = 0
      BY <3>1, FromLengthFacts
    <3> QED BY <1>1, <1>4, <2>1, <2>2, <3>1, <3>2 DEF RoomFor
  <2>3. CASE m_current_body_buffer_size' = BodyBufferMin /\ content_length' = 0
    BY <1>1, <2>1, <2>3 DEF RoomFor
  <2> QED BY <2>1, <2>2, <2>3
<1> QED BY <1>2, <1>3, <1>4

\* async_read_message, called when the calls so far all brought good messages
\* and the symbols that are left are those of the next.
LEMMA AsyncKeeps ==
  ASSUME TypeOK, Sized, FinalOf(sent),
         NEW results \in Seq(Seq(Results)), NEW buffer \in Seq(Symbols), Len(results) < MaxCalls,
         AsyncReadMessage(results, buffer), m_streambuffer' = buffer,
         UNCHANGED <<use, sent, wire, closed>>,
         \A c \in 1..Len(results) : results[c] # <<>> /\ results[c][1].kind = "ok",
         FramedOf(sent, results), Following(buffer \o wire, Len(results) + 1, sent, closed)
  PROVE  IInv'
<1> DEFINE n == Len(results)
<1>1. n \in Nat /\ MaxCalls \in Nat
  BY ReaderAssumption
<1>2. /\ outcome' = Append(results, <<>>) /\ verdict' = "more" /\ content' = <<>>
      /\ looping' = (buffer # <<>>) /\ reading' = (buffer = <<>>)
  BY DEF AsyncReadMessage, Begin
<1>3. /\ outcome' \in Seq(Seq(Results)) /\ Len(outcome') = n + 1
      /\ outcome'[n + 1] = <<>> /\ \A c \in 1..n : outcome'[c] = results[c]
  <2>1. <<>> \in Seq(Results)
    OBVIOUS
  <2> QED BY <1>2, <2>1
<1> HIDE DEF n
<1>4. Calls' = n + 1 /\ Calls' > 0 /\ Calls' <= MaxCalls
  BY <1>1, <1>3 DEF Calls, n
<1>5. Open'
  BY <1>3, <1>4 DEF Open
<1>6. /\ m_current_body_buffer_size' \in Nat /\ buf_size' \in Nat /\ content_length' \in Nat
      /\ m_current_body_buffer_size' < 2 * SystemRmem
      /\ reading' => RoomFor(content', buf_size', content_length')
  <2>1. CASE buffer = <<>>
    <3>1. RecommendedBufferSize(<<>>)
      BY <2>1 DEF AsyncReadMessage
    <3> QED BY <1>2, <3>1, RecommendedFacts DEF TypeOK, Sized
  <2>2. CASE buffer # <<>>
    <3>1. UNCHANGED strategy
      BY <2>2 DEF AsyncReadMessage
    <3> QED BY <1>2, <2>2, <3>1 DEF TypeOK, Sized, strategy
  <2> QED BY <2>1, <2>2
<1>7. TypeOK'
  <2>1. use' \in Uses /\ sent' \in Seq(Shapes') /\ Len(sent') <= MaxMessages
    BY DEF TypeOK, Shapes
  <2>2. wire' \in Seq(Symbols) /\ m_streambuffer' \in Seq(Symbols) /\ closed' \in BOOLEAN
    BY DEF TypeOK
  <2>3. content' \in Seq(Symbols) /\ verdict' \in {"more", "done", "error"}
    BY <1>2
  <2>4. looping' \in BOOLEAN /\ reading' \in BOOLEAN
    BY <1>2
  <2>5. looping' => m_streambuffer' # <<>> /\ Calls' > 0
    BY <1>2, <1>4
  <2> QED BY <1>3, <1>4, <1>6, <2>1, <2>2, <2>3, <2>4, <2>5 DEF TypeOK
<1>8. Control'
  <2>1. ASSUME NEW c \in 1..Calls', c < Calls' PROVE outcome'[c] # <<>> /\ outcome'[c][1].kind = "ok"
    <3>1. c \in 1..n
      BY <1>1, <1>4, <2>1
    <3> QED BY <1>3, <3>1 DEF n
  <2> QED BY <1>2, <1>5, <2>1 DEF Control
<1>9. Unstopped'
  BY <1>2 DEF Unstopped
<1>10. Sized'
  BY <1>6 DEF Sized
<1>11. Stream'
  <2>1. Current' = n + 1
    BY <1>4, <1>5 DEF Current
  <2>2. Ahead' = (<<>> \o buffer) \o wire
    BY <1>2 DEF Ahead
  <2>3. <<>> \o buffer = buffer
    BY ConcatEmptySeq
  <2>4. Following(Ahead', Current', sent', closed')
    BY <2>1, <2>2, <2>3 DEF n
  <2> QED BY <2>4 DEF Stream
<1>12. FramedOf(sent', outcome')
  <2>1. ASSUME NEW c \in 1..(n + 1), NEW i \in 1..Len(outcome'[c]), outcome'[c][i].kind = "ok"
        PROVE  FramedAs(sent, c, outcome'[c][i].content)
    <3>1. CASE c = n + 1
      <4>1. Len(outcome'[c]) = 0
        BY <1>3, <3>1
      <4> QED BY <4>1
    <3>2. CASE c # n + 1
      <4>1. c \in 1..n
        BY <1>1, <3>2
      <4> QED BY <1>3, <2>1, <4>1 DEF FramedOf, n
    <3> QED BY <3>1, <3>2
  <2> QED BY <1>3, <2>1 DEF FramedOf
<1> QED BY <1>7, <1>8, <1>9, <1>10, <1>11, <1>12 DEF IInv

\* The user's handler is given one more result of the last call.
LEMMA GivenFacts ==
  ASSUME TypeOK, Calls > 0, NEW r \in Results
  PROVE  LET results == [outcome EXCEPT ![Calls] = Append(@, r)]
         IN  /\ results \in Seq(Seq(Results)) /\ Len(results) = Calls
             /\ results[Calls] = Append(outcome[Calls], r) /\ results[Calls] # <<>>
             /\ \A c \in 1..Calls : c # Calls => results[c] = outcome[c]
             /\ results[Calls][1] = (IF outcome[Calls] = <<>> THEN r ELSE outcome[Calls][1])
<1>1. outcome \in Seq(Seq(Results)) /\ Calls = Len(outcome) /\ Calls \in Nat
  BY DEF TypeOK, Calls
<1> DEFINE o == outcome[Calls]
           x == Append(o, r)
           results == [outcome EXCEPT ![Calls] = x]
<1>2. Calls \in 1..Len(outcome)
  BY <1>1
<1>3. o \in Seq(Results)
  BY <1>1, <1>2
<1>4. x \in Seq(Results) /\ x # <<>> /\ x[1] = (IF o = <<>> THEN r ELSE o[1])
  <2>1. CASE o = <<>>
    BY <1>3, <2>1
  <2>2. CASE o # <<>>
    <3>1. Len(o) >= 1 /\ Len(o) \in Nat
      BY <1>3, <2>2, EmptySeq
    <3> QED BY <1>3, <2>2, <3>1
  <2> QED BY <2>1, <2>2
<1> HIDE DEF x, o
<1>5. results \in Seq(Seq(Results)) /\ Len(results) = Len(outcome)
  BY <1>1, <1>2, <1>4
<1>6. results[Calls] = x /\ \A c \in 1..Calls : c # Calls => results[c] = outcome[c]
  BY <1>1, <1>2
<1> QED BY <1>1, <1>4, <1>5, <1>6 DEF x, o

\* m_read_cb is called with a result that fits the stream, the parser's state
\* and what it was given before.
LEMMA CallbackKeeps ==
  ASSUME IInv, Calls > 0,
         NEW kind \in {"ok", "parse", "read"}, NEW given \in Seq(Symbols),
         NEW v \in {"more", "done", "error"}, NEW buffer \in Seq(Symbols),
         Callback(kind, given, v, buffer), m_streambuffer' = buffer,
         UNCHANGED <<use, sent, wire, closed>>,
         outcome[Calls] # <<>> => /\ outcome[Calls][1].kind = kind
                                  /\ kind = "ok" => outcome[Calls][1].content = given,
         kind = "ok" => /\ v = "done" /\ FramedAs(sent, Calls, given)
                        /\ Following(buffer \o wire, Calls + 1, sent, closed),
         kind = "parse" => v = "error",
         kind = "read" => v = "more" /\ given = <<>> /\ buffer = <<>>
  PROVE  IInv'
<1> DEFINE r == [kind |-> kind, content |-> given]
           results == [outcome EXCEPT ![Calls] = Append(@, r)]
<1>1. r \in Results /\ r.kind = kind /\ r.content = given
  BY DEF Results
<1>2. TypeOK /\ Control /\ Unstopped /\ Sized /\ FinalOf(sent) /\ FramedOf(sent, outcome)
  BY DEF IInv
<1>3. outcome \in Seq(Seq(Results)) /\ Calls = Len(outcome) /\ Calls \in Nat /\ Calls <= MaxCalls
  BY <1>2 DEF TypeOK, Calls
<1> HIDE DEF r
<1>4. /\ results \in Seq(Seq(Results)) /\ Len(results) = Calls
      /\ results[Calls] = Append(outcome[Calls], r) /\ results[Calls] # <<>>
      /\ \A c \in 1..Calls : c # Calls => results[c] = outcome[c]
      /\ results[Calls][1] = (IF outcome[Calls] = <<>> THEN r ELSE outcome[Calls][1])
  BY <1>1, <1>2, GivenFacts
<1>5. /\ \/ /\ use.readsAgain /\ kind = "ok" /\ Calls < MaxCalls
            /\ AsyncReadMessage(results, buffer)
         \/ /\ outcome' = results
            /\ looping' = (looping /\ buffer # <<>>)
            /\ reading' = FALSE /\ UNCHANGED strategy
            /\ verdict' = v /\ content' = given
  BY DEF Callback, r
<1> HIDE DEF results
<1>6. results[Calls][1].kind = kind /\ (kind = "ok" => results[Calls][1].content = given)
  BY <1>1, <1>4
<1>7. FramedOf(sent, results)
  <2>1. ASSUME NEW c \in 1..Calls, NEW i \in 1..Len(results[c]), results[c][i].kind = "ok"
        PROVE  FramedAs(sent, c, results[c][i].content)
    <3>1. CASE c # Calls
      BY <1>2, <1>3, <1>4, <2>1, <3>1 DEF FramedOf
    <3>2. CASE c = Calls
      <4> DEFINE o == outcome[Calls]
      <4>1. o \in Seq(Results) /\ Len(o) \in Nat
        BY <1>3
      <4>2. CASE i \in 1..Len(o)
        <5>1. results[c][i] = o[i]
          BY <1>4, <3>2, <4>1, <4>2
        <5> QED BY <1>2, <1>3, <2>1, <3>2, <4>2, <5>1 DEF FramedOf
      <4>3. CASE i \notin 1..Len(o)
        <5>1. results[c] = Append(o, r)
          BY <1>4, <3>2
        <5>2. Len(results[c]) = Len(o) + 1
          BY <4>1, <5>1
        <5>3. i = Len(o) + 1
          BY <4>1, <4>3, <5>2
        <5>4. results[c][i] = r
          BY <4>1, <5>1, <5>3
        <5> QED BY <1>1, <2>1, <3>2, <5>4
      <4> QED BY <4>2, <4>3
    <3> QED BY <3>1, <3>2
  <2> QED BY <1>4, <2>1 DEF FramedOf
<1>8. \A c \in 1..Calls : c < Calls => results[c] # <<>> /\ results[c][1].kind = "ok"
  BY <1>2, <1>3, <1>4 DEF Control
<1>9. CASE use.readsAgain /\ kind = "ok" /\ Calls < MaxCalls /\ AsyncReadMessage(results, buffer)
  <2>1. ASSUME NEW c \in 1..Calls PROVE results[c] # <<>> /\ results[c][1].kind = "ok"
    <3>1. c = Calls \/ c < Calls
      BY <1>3
    <3> QED BY <1>4, <1>6, <1>8, <1>9, <3>1
  <2> QED BY <1>2, <1>4, <1>7, <1>9, <2>1, AsyncKeeps
<1>10. CASE /\ outcome' = results
            /\ looping' = (looping /\ buffer # <<>>)
            /\ reading' = FALSE /\ UNCHANGED strategy
            /\ verdict' = v /\ content' = given
  <2>1. Calls' = Calls /\ outcome'[Calls'] = results[Calls]
    BY <1>4, <1>10 DEF Calls
  <2>2. ~Open'
    BY <1>4, <2>1 DEF Open
  <2>3. LastKind' = kind
    BY <1>6, <2>1 DEF LastKind
  <2>4. TypeOK'
    <3>1. use' \in Uses /\ sent' \in Seq(Shapes') /\ Len(sent') <= MaxMessages
      BY <1>2 DEF TypeOK, Shapes
    <3>2. /\ wire' \in Seq(Symbols) /\ m_streambuffer' \in Seq(Symbols)
          /\ closed' \in BOOLEAN /\ content' \in Seq(Symbols) /\ verdict' \in {"more", "done", "error"}
          /\ m_current_body_buffer_size' \in Nat /\ buf_size' \in Nat /\ content_length' \in Nat
      BY <1>2, <1>10 DEF TypeOK, strategy
    <3>3. looping' \in BOOLEAN /\ reading' \in BOOLEAN
      BY <1>10
    <3>4. looping' => m_streambuffer' # <<>> /\ Calls' > 0
      BY <1>10, <2>1
    <3>5. outcome' \in Seq(Seq(Results)) /\ Calls' <= MaxCalls
      BY <1>3, <1>4, <1>10, <2>1
    <3> QED BY <3>1, <3>2, <3>3, <3>4, <3>5 DEF TypeOK
  <2>5. Control'
    <3>1. ~(reading' \/ (looping' /\ verdict' = "more"))
      BY <1>10
    <3>2. verdict' = "more" => content' = <<>> /\ LastKind' = "read"
      BY <1>10, <2>3
    <3>3. verdict' = "done" => LastKind' = "ok" /\ content' = outcome'[Calls'][1].content
      BY <1>6, <1>10, <2>1, <2>3
    <3>4. verdict' = "error" => LastKind' = "parse"
      BY <1>10, <2>3
    <3>5. \A c \in 1..Calls' : c < Calls' => outcome'[c] # <<>> /\ outcome'[c][1].kind = "ok"
      BY <1>8, <1>10, <2>1
    <3> QED BY <1>10, <2>1, <2>2, <3>1, <3>2, <3>3, <3>4, <3>5 DEF Control
  <2>6. Unstopped'
    <3>1. verdict' = "more" => content' = <<>>
      BY <1>10
    <3> QED BY <3>1 DEF Unstopped
  <2>7. Sized'
    BY <1>2, <1>10 DEF Sized, strategy
  <2>8. Stream'
    <3>1. CASE kind = "ok"
      <4>1. Ahead' = (<<>> \o buffer) \o wire
        BY <1>10, <3>1 DEF Ahead
      <4>2. <<>> \o buffer = buffer
        BY ConcatEmptySeq
      <4>3. Current' = Calls + 1
        BY <2>1, <2>2 DEF Current
      <4>4. Following(Ahead', Current', sent', closed')
        BY <3>1, <4>1, <4>2, <4>3
      <4> QED BY <4>4 DEF Stream
    <3>2. CASE kind # "ok"
      BY <2>2, <2>3, <3>2 DEF Stream
    <3> QED BY <3>1, <3>2
  <2>9. FinalOf(sent') /\ FramedOf(sent', outcome')
    BY <1>2, <1>7, <1>10
  <2> QED BY <2>4, <2>5, <2>6, <2>7, <2>8, <2>9 DEF IInv
<1> QED BY <1>5, <1>9, <1>10

\* A call from some handler of the user's.
LEMMA UserReadsKeeps ==
  ASSUME IInv, UserReads
  PROVE  IInv'
<1>1. TypeOK /\ Control /\ Sized /\ FinalOf(sent) /\ FramedOf(sent, outcome) /\ Stream
  BY DEF IInv
<1>2. /\ ~looping /\ ~reading /\ Good /\ Calls < MaxCalls /\ AsyncReadMessage(outcome, m_streambuffer)
      /\ UNCHANGED <<use, sent, wire, closed>> /\ m_streambuffer' = m_streambuffer
  BY DEF UserReads
<1>3. outcome \in Seq(Seq(Results)) /\ m_streambuffer \in Seq(Symbols) /\ Calls = Len(outcome) /\ Calls \in Nat
  BY <1>1 DEF TypeOK, Calls
<1>4. ~Open
  BY <1>2 DEF Good, Open
<1>5. LastKind = "ok"
  BY <1>2, <1>3 DEF Good, LastKind
<1>6. ASSUME NEW c \in 1..Calls PROVE outcome[c] # <<>> /\ outcome[c][1].kind = "ok"
  <2>1. CASE c = Calls
    BY <1>2, <1>3, <2>1 DEF Good
  <2>2. CASE c < Calls
    BY <1>1, <2>2 DEF Control
  <2>3. c = Calls \/ c < Calls
    BY <1>3
  <2> QED BY <2>1, <2>2, <2>3
<1>7. Ahead = m_streambuffer \o wire
  <2>1. verdict = "more" => content = <<>>
    BY <1>1, <1>4 DEF Control
  <2>2. <<>> \o m_streambuffer = m_streambuffer
    BY <1>3, ConcatEmptySeq
  <2> QED BY <2>1, <2>2 DEF Ahead
<1>8. Following(m_streambuffer \o wire, Calls + 1, sent, closed)
  <2>1. Current = Calls + 1
    BY <1>4 DEF Current
  <2> QED BY <1>1, <1>5, <1>7, <2>1 DEF Stream
<1> QED BY <1>1, <1>2, <1>3, <1>6, <1>8, AsyncKeeps

\* What a loop of p_parse_some finds when a call is outstanding.
LEMMA ParseFacts ==
  ASSUME IInv, looping
  PROVE  /\ m_streambuffer \in Seq(Symbols) /\ content \in Seq(Symbols) /\ wire \in Seq(Symbols)
         /\ verdict \in {"more", "done", "error"} /\ Calls > 0 /\ Calls \in Nat /\ ~reading
         /\ sent \in Seq(AnyShape) /\ Len(sent) <= MaxMessages
         /\ Open <=> verdict = "more"
         /\ Open => /\ Following((content \o m_streambuffer) \o wire, Calls, sent, closed)
                    /\ outcome[Calls] = <<>>
<1>1. TypeOK /\ Control /\ Stream
  BY DEF IInv
<1>2. sent \in Seq(AnyShape)
  <2>1. Shapes \subseteq AnyShape /\ sent \in Seq(Shapes)
    BY <1>1 DEF Shapes, AnyShape, TypeOK
  <2> HIDE DEF Shapes, AnyShape
  <2> QED BY <2>1, SeqMonotonic
<1>3. Calls > 0 /\ Calls \in Nat /\ ~reading
  BY <1>1 DEF TypeOK, Control, Calls
<1>4. Open <=> verdict = "more"
  BY <1>1, <1>3 DEF Control
<1>5. ASSUME Open
      PROVE  /\ Following((content \o m_streambuffer) \o wire, Calls, sent, closed)
             /\ outcome[Calls] = <<>>
  <2>1. Ahead = (content \o m_streambuffer) \o wire
    BY <1>4, <1>5 DEF Ahead
  <2>2. Current = Calls
    BY <1>5 DEF Current
  <2> QED BY <1>1, <1>5, <2>1, <2>2 DEF Stream, Open
<1> QED BY <1>1, <1>2, <1>3, <1>4, <1>5 DEF TypeOK

\* All that is in the buffer belongs to the message, and more is asked for.
LEMMA ParseMoreKeeps ==
  ASSUME IInv, ParseMore
  PROVE  IInv'
<1>1. /\ looping /\ Verdict = "more" /\ m_streambuffer' = Rest /\ content' = Consumed
      /\ reading' = TRUE /\ RecommendedBufferSize(Consumed) /\ looping' = FALSE
      /\ UNCHANGED <<use, sent, wire, closed, verdict, outcome>>
  BY DEF ParseMore
<1>2. TypeOK /\ Control /\ Unstopped /\ Sized /\ FinalOf(sent) /\ FramedOf(sent, outcome)
  BY DEF IInv
<1>3. /\ m_streambuffer \in Seq(Symbols) /\ content \in Seq(Symbols) /\ wire \in Seq(Symbols)
      /\ verdict \in {"more", "done", "error"} /\ Calls > 0 /\ (Open <=> verdict = "more")
      /\ Open => Following((content \o m_streambuffer) \o wire, Calls, sent, closed)
  BY <1>1, ParseFacts
<1>4. /\ verdict = "more" /\ Taken = Len(m_streambuffer)
      /\ \A i \in 1..Len(m_streambuffer) : m_streambuffer[i][2] \notin StopParts
  <2>1. verdict = "more"
    BY <1>1, <1>3, ParserFacts
  <2> QED BY <1>1, <1>3, <2>1, ParserFacts
<1>5. /\ Consumed \in Seq(Symbols) /\ Consumed = content \o m_streambuffer /\ Rest = <<>>
      /\ (Consumed \o Rest) \o wire = (content \o m_streambuffer) \o wire
  BY <1>3, <1>4, ConsumeFacts
<1>6. Calls' = Calls /\ Open'
  BY <1>1, <1>3, <1>4 DEF Calls, Open
<1>7. /\ m_current_body_buffer_size' \in Nat /\ buf_size' \in Nat /\ content_length' \in Nat
      /\ m_current_body_buffer_size' < 2 * SystemRmem
      /\ RoomFor(content', buf_size', content_length')
  BY <1>1, <1>2, RecommendedFacts DEF TypeOK, Sized
<1>8. TypeOK'
  <2>1. use' \in Uses /\ sent' \in Seq(Shapes') /\ Len(sent') <= MaxMessages
    BY <1>1, <1>2 DEF TypeOK, Shapes
  <2>2. m_streambuffer' \in Seq(Symbols)
    BY <1>1, <1>5
  <2> QED BY <1>1, <1>2, <1>5, <1>6, <1>7, <2>1, <2>2 DEF TypeOK
<1>9. Control'
  <2>1. LastKind' = LastKind
    BY <1>1, <1>6 DEF LastKind
  <2> QED BY <1>1, <1>2, <1>4, <1>5, <1>6, <2>1 DEF Control
<1>10. Unstopped'
  <2>1. \A i \in 1..Len(content) : content[i][2] \notin StopParts
    BY <1>2, <1>3, <1>4 DEF Unstopped
  <2> DEFINE c == content
             b == m_streambuffer
  <2>2. /\ Len(c \o b) = Len(c) + Len(b) /\ Len(c) \in Nat /\ Len(b) \in Nat
        /\ \A i \in 1..Len(c) : (c \o b)[i] = c[i]
        /\ \A i \in 1..Len(b) : (c \o b)[Len(c) + i] = b[i]
    BY <1>3, Cat
  <2>3. DOMAIN Consumed = 1..(Len(c) + Len(b))
    BY <1>5, <2>2
  <2>4. ASSUME NEW i \in 1..(Len(c) + Len(b)) PROVE Consumed[i][2] \notin StopParts
    <3>1. CASE i \in 1..Len(c)
      BY <1>5, <2>1, <2>2, <3>1
    <3>2. CASE i \notin 1..Len(c)
      <4>1. PICK q \in 1..Len(b) : i = Len(c) + q
        BY <2>2, <3>2, SMTT(30)
      <4> QED BY <1>4, <1>5, <2>2, <4>1
    <3> QED BY <3>1, <3>2
  <2> QED BY <1>1, <2>3, <2>4 DEF Unstopped
<1>11. Sized'
  BY <1>7 DEF Sized
<1>12. Stream'
  <2>1. Ahead' = (Consumed \o Rest) \o wire
    BY <1>1, <1>4 DEF Ahead
  <2>2. Current' = Calls
    BY <1>6 DEF Current
  <2> QED BY <1>1, <1>3, <1>4, <1>5, <2>1, <2>2 DEF Stream
<1>13. FinalOf(sent') /\ FramedOf(sent', outcome')
  BY <1>1, <1>2
<1> QED BY <1>8, <1>9, <1>10, <1>11, <1>12, <1>13 DEF IInv

\* The places of a stream of three parts.
LEMMA Places ==
  ASSUME NEW c \in Seq(Symbols), NEW b \in Seq(Symbols), NEW w \in Seq(Symbols)
  PROVE  LET s == (c \o b) \o w
         IN  /\ s \in Seq(Symbols) /\ Len(c) \in Nat /\ Len(b) \in Nat /\ Len(w) \in Nat
             /\ Len(s) = (Len(c) + Len(b)) + Len(w)
             /\ \A i \in 1..Len(c) : s[i] = c[i]
             /\ \A i \in 1..Len(b) : s[Len(c) + i] = b[i]
<1> DEFINE x == c \o b
           s == x \o w
<1>1. /\ x \in Seq(Symbols) /\ Len(x) = Len(c) + Len(b) /\ Len(c) \in Nat /\ Len(b) \in Nat
      /\ \A i \in 1..Len(c) : x[i] = c[i]
      /\ \A i \in 1..Len(b) : x[Len(c) + i] = b[i]
  BY Cat
<1> HIDE DEF x
<1>2. /\ s \in Seq(Symbols) /\ Len(s) = Len(x) + Len(w) /\ Len(w) \in Nat
      /\ \A i \in 1..Len(x) : s[i] = x[i]
  BY <1>1, Cat
<1> HIDE DEF s
<1>3. ASSUME NEW i \in 1..Len(c) PROVE s[i] = c[i]
  <2>1. i \in 1..Len(x)
    BY <1>1
  <2> QED BY <1>1, <1>2, <2>1
<1>4. ASSUME NEW i \in 1..Len(b) PROVE s[Len(c) + i] = b[i]
  <2>1. Len(c) + i \in 1..Len(x)
    BY <1>1
  <2> QED BY <1>1, <1>2, <2>1
<1> QED BY <1>1, <1>2, <1>3, <1>4 DEF s, x

\* The message that consume() finds the end of is the one the call is to
\* return, and what is left is the next.
LEMMA DoneFacts ==
  ASSUME IInv, looping, verdict = "more", Verdict = "done"
  PROVE  /\ FramedAs(sent, Calls, Consumed)
         /\ Aligned(Rest \o wire, Calls + 1, sent)
<1> DEFINE c == content
           b == m_streambuffer
           w == wire
           s == (c \o b) \o w
           f == Taken
           n == Len(c) + f
<1>1. /\ b \in Seq(Symbols) /\ c \in Seq(Symbols) /\ w \in Seq(Symbols)
      /\ sent \in Seq(AnyShape) /\ Len(sent) <= MaxMessages /\ Calls \in Nat
      /\ Following(s, Calls, sent, closed)
  BY ParseFacts
<1>2. FinalOf(sent) /\ \A i \in 1..Len(c) : c[i][2] \notin StopParts
  BY <1>1 DEF IInv, Unstopped
<1>3. /\ f \in 1..Len(b) /\ b[f][2] \in StopParts
      /\ \A i \in 1..f : i < f => b[i][2] \notin StopParts
  BY <1>1, ParserFacts
<1>4. /\ s \in Seq(Symbols) /\ Len(c) \in Nat /\ Len(b) \in Nat /\ Len(w) \in Nat
      /\ Len(s) = (Len(c) + Len(b)) + Len(w)
      /\ \A i \in 1..Len(c) : s[i] = c[i]
      /\ \A i \in 1..Len(b) : s[Len(c) + i] = b[i]
  BY <1>1, Places
<1>5. /\ Consumed \in Seq(Symbols) /\ Rest \in Seq(Symbols) /\ Len(Consumed) = n
      /\ (Consumed \o Rest) \o w = s
  BY <1>1, ConsumeFacts
<1> HIDE DEF c, b, w, s, f
<1>6. n \in 1..Len(s)
  BY <1>3, <1>4
<1>7. s[n][2] \in StopParts
  BY <1>3, <1>4
<1>8. ASSUME NEW i \in 1..n, i < n PROVE s[i][2] \notin StopParts
  <2>1. CASE i \in 1..Len(c)
    BY <1>2, <1>4, <2>1
  <2>2. CASE i \notin 1..Len(c)
    <3> DEFINE q == i - Len(c)
    <3>1. q \in 1..f /\ q < f /\ i = Len(c) + q
      <4>1. f \in Nat /\ Len(c) \in Nat /\ i > Len(c) /\ i < Len(c) + f
        BY <1>3, <1>4, <1>8, <2>2
      <4> QED BY <4>1
    <3> HIDE DEF q
    <3>2. q \in 1..Len(b)
      BY <1>3, <1>4, <3>1
    <3> QED BY <1>3, <1>4, <3>1, <3>2
  <2> QED BY <2>1, <2>2
<1>9. Aligned(s, Calls, sent)
  <2>1. s[n][2] # "body"
    BY <1>7 DEF StopParts
  <2> QED BY <1>1, <1>6, <2>1 DEF Following
<1> HIDE DEF n
<1>10. Calls \in 1..Len(sent) /\ n = Len(sent[Calls])
  <2>1. sent \in Seq(AnyShape) /\ Calls \in Nat /\ s \in Seq(Symbols) /\ FinalOf(sent)
    BY <1>1, <1>2, <1>4
  <2>2. \A i \in 1..n : i < n => s[i][2] \notin StopParts
    BY <1>8
  <2> HIDE DEF Calls
  <2> QED BY <1>6, <1>7, <1>9, <2>1, <2>2, Boundary
<1>11. Calls <= Len(sent)
  BY <1>1, <1>10
<1>12. Consumed \o (Rest \o w) = s
  BY <1>1, <1>5, Assoc, ZenonT(60) DEF w
<1>13. Rest \o w \in Seq(Symbols)
  BY <1>1, <1>5, Cat DEF w
<1>14. Consumed = Tagged(Calls, sent[Calls]) /\ Aligned(Rest \o w, Calls + 1, sent)
  BY <1>1, <1>5, <1>9, <1>10, <1>11, <1>12, <1>13, AlignedFirst
<1> QED BY <1>10, <1>14 DEF FramedAs, w

\* end_of_message.
LEMMA ParseDoneKeeps ==
  ASSUME IInv, ParseDone
  PROVE  IInv'
<1>1. /\ looping /\ Verdict = "done" /\ m_streambuffer' = Rest
      /\ Callback("ok", Consumed, "done", Rest) /\ UNCHANGED <<use, sent, wire, closed>>
  BY DEF ParseDone
<1>2. /\ m_streambuffer \in Seq(Symbols) /\ content \in Seq(Symbols) /\ wire \in Seq(Symbols)
      /\ verdict \in {"more", "done", "error"} /\ Calls > 0 /\ Calls \in Nat /\ (Open <=> verdict = "more")
      /\ Open => outcome[Calls] = <<>>
  BY <1>1, ParseFacts
<1>3. Consumed \in Seq(Symbols) /\ Rest \in Seq(Symbols)
  BY <1>2, ConsumeFacts
<1>4. CASE verdict = "more"
  <2>1. FramedAs(sent, Calls, Consumed) /\ Following(Rest \o wire, Calls + 1, sent, closed)
    BY <1>1, <1>4, DoneFacts DEF Following
  <2> QED BY <1>1, <1>2, <1>3, <1>4, <2>1, CallbackKeeps
<1>5. CASE verdict # "more"
  <2>1. Taken = 0 /\ verdict = "done"
    BY <1>1, <1>2, <1>5, ParserFacts
  <2>2. Consumed = content /\ Rest = m_streambuffer
    BY <1>2, <2>1, ConsumeFacts
  <2>3. TypeOK /\ Control /\ Stream /\ FramedOf(sent, outcome)
    BY DEF IInv
  <2>4. ~Open /\ LastKind = "ok" /\ content = outcome[Calls][1].content
    BY <2>1, <2>3 DEF Control
  <2>5. outcome[Calls] # <<>> /\ outcome[Calls][1].kind = "ok"
    BY <1>2, <2>4 DEF Open, LastKind
  <2>6. FramedAs(sent, Calls, content)
    <3>1. Calls \in 1..Len(outcome) /\ outcome \in Seq(Seq(Results))
      BY <1>2, <2>3 DEF Calls, TypeOK
    <3>2. outcome[Calls] \in Seq(Results)
      BY <3>1
    <3>3. 1 \in 1..Len(outcome[Calls])
      BY <2>5, <3>2, EmptySeq
    <3> QED BY <2>3, <2>4, <2>5, <3>1, <3>3 DEF FramedOf
  <2>7. Following(m_streambuffer \o wire, Calls + 1, sent, closed)
    <3>1. Ahead = (<<>> \o m_streambuffer) \o wire
      BY <2>1 DEF Ahead
    <3>2. <<>> \o m_streambuffer = m_streambuffer
      BY <1>2, ConcatEmptySeq
    <3>3. Current = Calls + 1
      BY <2>4 DEF Current
    <3> QED BY <2>3, <2>4, <3>1, <3>2, <3>3 DEF Stream
  <2> QED BY <1>1, <1>2, <1>3, <2>2, <2>4, <2>5, <2>6, <2>7, CallbackKeeps
<1> QED BY <1>4, <1>5

\* error: p_on_parse_error.
LEMMA ParseErrorKeeps ==
  ASSUME IInv, ParseError
  PROVE  IInv'
<1>1. /\ looping /\ Verdict = "error" /\ m_streambuffer' = Rest
      /\ Callback("parse", Consumed, "error", Rest) /\ UNCHANGED <<use, sent, wire, closed>>
  BY DEF ParseError
<1>2. /\ m_streambuffer \in Seq(Symbols) /\ content \in Seq(Symbols) /\ wire \in Seq(Symbols)
      /\ verdict \in {"more", "done", "error"} /\ Calls > 0 /\ Calls \in Nat /\ (Open <=> verdict = "more")
      /\ Open => outcome[Calls] = <<>>
  BY <1>1, ParseFacts
<1>3. Consumed \in Seq(Symbols) /\ Rest \in Seq(Symbols)
  BY <1>2, ConsumeFacts
<1>4. outcome[Calls] # <<>> => outcome[Calls][1].kind = "parse"
  <2>1. ASSUME outcome[Calls] # <<>> PROVE outcome[Calls][1].kind = "parse"
    <3>1. verdict = "error"
      BY <1>1, <1>2, <2>1, ParserFacts
    <3>2. LastKind = "parse"
      BY <3>1 DEF IInv, Control
    <3> QED BY <1>2, <3>2 DEF LastKind
  <2> QED BY <2>1
<1> QED BY <1>1, <1>2, <1>3, <1>4, CallbackKeeps

\* What is known when the socket is read.
LEMMA ReadingFacts ==
  ASSUME IInv, reading
  PROVE  /\ content \in Seq(Symbols) /\ wire \in Seq(Symbols) /\ m_streambuffer = <<>>
         /\ sent \in Seq(AnyShape) /\ Len(sent) <= MaxMessages
         /\ verdict = "more" /\ ~looping /\ Open /\ Calls \in Nat /\ Calls > 0 /\ outcome[Calls] = <<>>
         /\ Following(content \o wire, Calls, sent, closed)
<1>1. TypeOK /\ Control /\ Stream
  BY DEF IInv
<1>2. sent \in Seq(AnyShape)
  <2>1. Shapes \subseteq AnyShape /\ sent \in Seq(Shapes)
    BY <1>1 DEF Shapes, AnyShape, TypeOK
  <2> HIDE DEF Shapes, AnyShape
  <2> QED BY <2>1, SeqMonotonic
<1>3. content \in Seq(Symbols) /\ wire \in Seq(Symbols) /\ Len(sent) <= MaxMessages
  BY <1>1 DEF TypeOK
<1>4. verdict = "more" /\ ~looping /\ Open /\ m_streambuffer = <<>>
  BY <1>1 DEF Control
<1>5. Calls \in Nat /\ Calls > 0 /\ outcome[Calls] = <<>>
  BY <1>1, <1>4 DEF Open, TypeOK, Calls
<1>6. Ahead = content \o wire
  <2>1. content \o <<>> = content
    BY <1>3, ConcatEmptySeq
  <2> QED BY <1>4, <2>1 DEF Ahead
<1>7. Following(content \o wire, Calls, sent, closed)
  BY <1>1, <1>4, <1>6 DEF Stream, Current
<1> QED BY <1>2, <1>3, <1>4, <1>5, <1>7

\* The read completes with some of what is on the wire.
LEMMA ReadOkKeeps ==
  ASSUME IInv, ReadOk
  PROVE  IInv'
<1>1. /\ reading /\ reading' = FALSE /\ looping' = TRUE
      /\ UNCHANGED <<use, sent, closed, content, verdict, strategy, outcome>>
  BY DEF ReadOk
<1>2. PICK n \in 1..Len(wire) :
        /\ m_streambuffer' = m_streambuffer \o SubSeq(wire, 1, n)
        /\ wire' = SubSeq(wire, n + 1, Len(wire))
  BY DEF ReadOk
<1>3. /\ content \in Seq(Symbols) /\ wire \in Seq(Symbols) /\ m_streambuffer = <<>>
      /\ verdict = "more" /\ ~looping /\ Open /\ Calls \in Nat /\ Calls > 0
      /\ Following(content \o wire, Calls, sent, closed)
  BY <1>1, ReadingFacts
<1>4. TypeOK /\ Control /\ Unstopped /\ Sized /\ FinalOf(sent) /\ FramedOf(sent, outcome)
  BY DEF IInv
<1> DEFINE x == SubSeq(wire, 1, n)
           y == SubSeq(wire, n + 1, Len(wire))
<1>5. x \in Seq(Symbols) /\ Len(x) = n /\ y \in Seq(Symbols) /\ x \o y = wire
  <2>1. n \in 0..Len(wire)
    BY <1>3
  <2> QED BY <1>3, <2>1, Cut
<1>6. m_streambuffer' = x /\ wire' = y
  <2>1. <<>> \o x = x
    BY <1>5, ConcatEmptySeq
  <2> QED BY <1>2, <1>3, <2>1
<1> HIDE DEF x, y
<1>7. x # <<>>
  BY <1>3, <1>5, EmptySeq
<1>8. Calls' = Calls /\ Open' /\ LastKind' = LastKind /\ Current' = Calls
  BY <1>1, <1>3 DEF Calls, Open, LastKind, Current
<1>9. TypeOK'
  <2>1. use' \in Uses /\ sent' \in Seq(Shapes') /\ Len(sent') <= MaxMessages
    BY <1>1, <1>4 DEF TypeOK, Shapes
  <2> QED BY <1>1, <1>3, <1>4, <1>5, <1>6, <1>7, <1>8, <2>1 DEF TypeOK, strategy
<1>10. Control'
  BY <1>1, <1>3, <1>4, <1>8 DEF Control
<1>11. Unstopped' /\ Sized'
  BY <1>1, <1>4 DEF Unstopped, Sized, strategy
<1>12. Stream'
  <2>1. Ahead' = (content \o x) \o y
    BY <1>1, <1>3, <1>6 DEF Ahead
  <2>2. (content \o x) \o y = content \o wire
    <3>1. (content \o x) \o y = content \o (x \o y)
      BY <1>3, <1>5, Assoc, ZenonT(60)
    <3> QED BY <1>5, <3>1
  <2> QED BY <1>1, <1>3, <1>8, <2>1, <2>2 DEF Stream
<1>13. FinalOf(sent') /\ FramedOf(sent', outcome')
  BY <1>1, <1>4
<1> QED BY <1>9, <1>10, <1>11, <1>12, <1>13 DEF IInv

\* A read without room leaves the call outstanding, and nothing under way.
LEMMA ReadNothingKeeps ==
  ASSUME IInv, ReadNothing
  PROVE  IInv'
<1>1. /\ reading /\ reading' = FALSE /\ looping' = (m_streambuffer # <<>>)
      /\ use' = use /\ sent' = sent /\ wire' = wire /\ closed' = closed /\ outcome' = outcome
      /\ m_streambuffer' = m_streambuffer /\ content' = content /\ verdict' = verdict
      /\ m_current_body_buffer_size' = m_current_body_buffer_size /\ buf_size' = buf_size
      /\ content_length' = content_length
  BY DEF ReadNothing, strategy
<1>2. TypeOK /\ Control /\ Unstopped /\ Sized /\ Stream /\ FinalOf(sent) /\ FramedOf(sent, outcome)
  BY DEF IInv
<1>3. m_streambuffer = <<>> /\ looping' = FALSE
  BY <1>1, <1>2 DEF Control
<1>4. Calls' = Calls /\ (Open' <=> Open) /\ LastKind' = LastKind /\ Current' = Current /\ Ahead' = Ahead
  BY <1>1 DEF Calls, Open, LastKind, Current, Ahead
<1>5. TypeOK'
  BY <1>1, <1>2, <1>3, <1>4 DEF TypeOK, Shapes
<1>6. Control'
  BY <1>1, <1>2, <1>3, <1>4 DEF Control
<1>7. Unstopped' /\ Sized' /\ Stream'
  BY <1>1, <1>2, <1>4 DEF Unstopped, Sized, Stream
<1> QED BY <1>1, <1>2, <1>5, <1>6, <1>7 DEF IInv

\* The read fails, at the end of file or otherwise.
LEMMA ReadErrorKeeps ==
  ASSUME IInv, ReadError
  PROVE  IInv'
<1>1. reading /\ closed /\ UNCHANGED <<use, sent, wire, closed, m_streambuffer>>
  BY DEF ReadError
<1>2. /\ content \in Seq(Symbols) /\ wire \in Seq(Symbols) /\ m_streambuffer = <<>>
      /\ sent \in Seq(AnyShape) /\ Len(sent) <= MaxMessages
      /\ verdict = "more" /\ Calls \in Nat /\ Calls > 0 /\ outcome[Calls] = <<>>
      /\ Following(content \o wire, Calls, sent, closed)
  BY <1>1, ReadingFacts
<1>3. m_streambuffer \in Seq(Symbols) /\ m_streambuffer' = m_streambuffer
  BY <1>1, <1>2
<1>4. CASE content = <<>> /\ Callback("read", content, verdict, m_streambuffer)
  <2> HIDE DEF Calls
  <2> QED BY <1>1, <1>2, <1>3, <1>4, CallbackKeeps
<1>5. CASE End = "error" /\ Callback("parse", content, "error", m_streambuffer)
  <2> HIDE DEF Calls
  <2> QED BY <1>1, <1>2, <1>3, <1>5, CallbackKeeps
<1>6. CASE End = "done" /\ Callback("ok", content, "done", m_streambuffer)
  <2> DEFINE s == content \o wire
  <2>1. PICK e \in 1..Len(content) : content[e][2] = "eof"
    <3>1. DOMAIN content = 1..Len(content)
      BY <1>2
    <3> QED BY <1>6, <3>1 DEF End
  <2>2. Len(s) = Len(content) + Len(wire) /\ Len(content) \in Nat /\ Len(wire) \in Nat /\ s[e] = content[e]
    BY <1>2, Cat
  <2> HIDE DEF s
  <2>3. e \in 1..Len(s)
    BY <2>2
  <2>4. Aligned(s, Calls, sent)
    BY <1>2, <2>1, <2>2, <2>3 DEF Following, s
  <2>5. \A i \in 1..Len(content) : content[i][2] \notin StopParts
    BY <1>2 DEF IInv, Unstopped
  <2>6. FinalOf(sent)
    BY DEF IInv
  <2>7. /\ Calls \in 1..Len(sent) /\ sent[Calls][2] = "eof" /\ Len(content) >= 2
        /\ content = SubSeq(Tagged(Calls, sent[Calls]), 1, Len(content))
        /\ \A i \in 1..Len(wire) : wire[i][2] = "body"
    <3>1. Aligned(content \o wire, Calls, sent)
      BY <2>4 DEF s
    <3> HIDE DEF Calls
    <3> QED BY <1>2, <2>1, <2>5, <2>6, <3>1, EofPrefix
  <2>8. FramedAs(sent, Calls, content)
    BY <2>7 DEF FramedAs
  <2>9. Following(m_streambuffer \o wire, Calls + 1, sent, closed)
    <3>1. m_streambuffer \o wire = wire
      BY <1>2, ConcatEmptySeq
    <3> QED BY <1>1, <2>7, <3>1 DEF Following
  <2> HIDE DEF Calls
  <2> QED BY <1>1, <1>2, <1>3, <1>6, <2>8, <2>9, CallbackKeeps
<1> QED BY <1>4, <1>5, <1>6 DEF ReadError

-----------------------------------------------------------------------------
(* The steps of the peer.                                                   *)

\* The peer sends a message.
LEMMA SendKeeps ==
  ASSUME IInv, Send
  PROVE  IInv'
<1>1. /\ ~closed /\ Len(sent) < MaxMessages
      /\ sent # <<>> => \A i \in DOMAIN sent[Len(sent)] : sent[Len(sent)][i] \notin {"eof", "bad"}
      /\ UNCHANGED <<use, closed, reader, strategy, outcome>>
  BY DEF Send
<1>2. PICK shape \in Shapes : /\ sent' = Append(sent, shape)
                              /\ wire' = wire \o Tagged(Len(sent) + 1, shape)
  BY DEF Send, Tagged
<1>3. TypeOK /\ Control /\ Unstopped /\ Sized /\ Stream /\ FinalOf(sent) /\ FramedOf(sent, outcome)
  BY DEF IInv
<1>4. Shapes \subseteq AnyShape /\ sent \in Seq(Shapes)
  BY <1>3 DEF Shapes, AnyShape, TypeOK
<1>5. Shapes' = Shapes
  BY <1>1 DEF Shapes
<1> HIDE DEF Shapes, AnyShape
<1>6. sent \in Seq(AnyShape) /\ shape \in AnyShape
  BY <1>4, SeqMonotonic
<1> DEFINE n == Len(sent)
           t == Tagged(n + 1, shape)
<1>7. n \in Nat /\ MaxMessages \in Nat
  BY <1>6, ReaderAssumption
<1>8. t \in Seq(Symbols)
  <2>1. n + 1 \in 1..MaxMessages
    BY <1>1, <1>7
  <2> QED BY <1>6, <2>1, TaggedFacts
<1>9. /\ m_streambuffer' = m_streambuffer /\ content' = content /\ verdict' = verdict
      /\ looping' = looping /\ reading' = reading /\ outcome' = outcome /\ closed' = closed
  BY <1>1 DEF reader
<1>10. /\ sent' \in Seq(Shapes) /\ Len(sent') = n + 1 /\ sent'[n + 1] = shape
       /\ \A k \in 1..n : sent'[k] = sent[k]
  BY <1>2, <1>4
<1> HIDE DEF n, t
<1>11. Calls' = Calls /\ (Open' <=> Open) /\ LastKind' = LastKind /\ Current' = Current
  BY <1>9 DEF Calls, Open, LastKind, Current
<1>12. TypeOK'
  <2>1. Len(sent') <= MaxMessages
    BY <1>1, <1>7, <1>10 DEF n
  <2>2. wire' \in Seq(Symbols)
    BY <1>2, <1>3, <1>8, Cat DEF TypeOK, n, t
  <2> QED BY <1>1, <1>3, <1>5, <1>9, <1>10, <1>11, <2>1, <2>2 DEF TypeOK, strategy
<1>13. Control' /\ Unstopped' /\ Sized'
  <2>1. Control'
    BY <1>3, <1>9, <1>11 DEF Control
  <2> QED BY <1>1, <1>3, <1>9, <2>1 DEF Unstopped, Sized, strategy
<1>14. FinalOf(sent')
  <2>1. ASSUME NEW k \in DOMAIN sent', k < Len(sent'), NEW p \in DOMAIN sent'[k]
        PROVE  sent'[k][p] \notin {"eof", "bad"}
    <3>1. k \in 1..n /\ sent'[k] = sent[k] /\ k \in DOMAIN sent
      BY <1>6, <1>7, <1>10, <2>1 DEF n
    <3>2. CASE k < n
      BY <1>3, <2>1, <3>1, <3>2 DEF FinalOf, n
    <3>3. CASE k = n
      <4>1. sent # <<>>
        BY <1>6, <3>1
      <4> QED BY <1>1, <2>1, <3>1, <3>3, <4>1 DEF n
    <3> QED BY <1>7, <3>1, <3>2, <3>3
  <2> QED BY <2>1 DEF FinalOf
<1>15. Stream'
  <2> DEFINE a == IF verdict = "more" THEN content ELSE <<>>
             s == a \o m_streambuffer
  <2>1. m_streambuffer \in Seq(Symbols) /\ wire \in Seq(Symbols) /\ a \in Seq(Symbols)
    BY <1>3 DEF TypeOK
  <2>2. s \in Seq(Symbols)
    BY <2>1, Cat
  <2>3. Ahead = s \o wire /\ Ahead' = s \o (wire \o t)
    BY <1>2, <1>9 DEF Ahead, n, t
  <2> HIDE DEF s, a
  <2>4. Ahead' = Ahead \o t /\ Ahead \in Seq(Symbols)
    BY <1>8, <2>1, <2>2, <2>3, Assoc, Cat
  <2>5. ASSUME Open \/ LastKind = "ok" PROVE Following(Ahead', Current', sent', closed')
    <3>1. Aligned(Ahead, Current, sent)
      BY <1>1, <1>3, <2>5 DEF Stream, Following
    <3>2. Current \in Nat
      BY <1>3 DEF Current, Calls, TypeOK
    <3>3. Aligned(Ahead \o t, Current, Append(sent, shape))
      BY <1>1, <1>6, <2>4, <3>1, <3>2, AlignedSend DEF n, t
    <3> QED BY <1>2, <1>11, <2>4, <3>3 DEF Following
  <2> QED BY <1>11, <2>5 DEF Stream
<1>16. FramedOf(sent', outcome')
  <2>1. ASSUME NEW c \in 1..Len(outcome), NEW i \in 1..Len(outcome[c]), outcome[c][i].kind = "ok"
        PROVE  FramedAs(sent', c, outcome[c][i].content)
    <3>1. FramedAs(sent, c, outcome[c][i].content)
      BY <1>3, <2>1 DEF FramedOf
    <3>2. c \in 1..n
      BY <3>1 DEF FramedAs, n
    <3>3. c \in 1..Len(sent') /\ sent'[c] = sent[c]
      BY <1>7, <1>10, <3>2
    <3> QED BY <3>1, <3>3 DEF FramedAs
  <2> QED BY <1>9, <2>1 DEF FramedOf
<1> QED BY <1>12, <1>13, <1>14, <1>15, <1>16 DEF IInv

\* The socket is closed.
LEMMA CloseKeeps ==
  ASSUME IInv, Close
  PROVE  IInv'
<1>1. /\ closed' = TRUE /\ use' = use /\ sent' = sent /\ wire' = wire /\ outcome' = outcome
      /\ m_streambuffer' = m_streambuffer /\ content' = content /\ verdict' = verdict
      /\ looping' = looping /\ reading' = reading
      /\ m_current_body_buffer_size' = m_current_body_buffer_size /\ buf_size' = buf_size
      /\ content_length' = content_length
  BY DEF Close, reader, strategy
<1>2. ~closed
  BY DEF Close
<1>3. TypeOK /\ Control /\ Unstopped /\ Sized /\ Stream /\ FinalOf(sent) /\ FramedOf(sent, outcome)
  BY DEF IInv
<1>4. Calls' = Calls /\ (Open' <=> Open) /\ LastKind' = LastKind /\ Current' = Current /\ Ahead' = Ahead
  BY <1>1 DEF Calls, Open, LastKind, Current, Ahead
<1>5. TypeOK'
  BY <1>1, <1>3, <1>4 DEF TypeOK, Shapes
<1>6. Control'
  BY <1>1, <1>3, <1>4 DEF Control
<1>7. Unstopped' /\ Sized'
  BY <1>1, <1>3 DEF Unstopped, Sized
<1>8. Stream'
  BY <1>1, <1>2, <1>3, <1>4 DEF Stream, Following
<1> QED BY <1>1, <1>3, <1>5, <1>6, <1>7, <1>8 DEF IInv

-----------------------------------------------------------------------------
(* The theorems.                                                            *)

\* The initial states satisfy the invariant.
LEMMA InitInvariant ==
  ASSUME Init
  PROVE  IInv
<1>1. /\ use \in Uses /\ sent = <<>> /\ wire = <<>> /\ closed = FALSE /\ m_streambuffer = <<>>
      /\ content = <<>> /\ verdict = "more" /\ looping = FALSE /\ reading = FALSE
      /\ m_current_body_buffer_size = 0 /\ buf_size = 0 /\ content_length = 0 /\ outcome = <<>>
  BY DEF Init, NewParser
<1>2. Len(<<>>) = 0 /\ Calls = 0 /\ ~Open /\ LastKind = "ok" /\ Current = 1
  BY <1>1 DEF Calls, Open, LastKind, Current
<1>3. TypeOK
  <2>1. MaxMessages \in Nat /\ MaxCalls \in Nat
    BY ReaderAssumption
  <2>2. sent \in Seq(Shapes) /\ Len(sent) <= MaxMessages
    BY <1>1, <1>2, <2>1
  <2>3. wire \in Seq(Symbols) /\ m_streambuffer \in Seq(Symbols) /\ content \in Seq(Symbols)
    BY <1>1
  <2>4. outcome \in Seq(Seq(Results)) /\ Calls <= MaxCalls
    BY <1>1, <1>2, <2>1
  <2> QED BY <1>1, <2>2, <2>3, <2>4 DEF TypeOK
<1>4. Control /\ Unstopped
  BY <1>1, <1>2 DEF Control, Unstopped
<1>5. Sized
  <2>1. SystemRmem \in Nat /\ SystemRmem > 0
    BY ReaderAssumption
  <2> QED BY <1>1, <2>1 DEF Sized
<1>6. Stream
  <2>1. Ahead = <<>>
    BY <1>1, ConcatEmptySeq DEF Ahead
  <2> QED BY <1>1, <1>2, <2>1, AlignedEmpty DEF Stream, Following
<1>7. FinalOf(sent) /\ FramedOf(sent, outcome)
  BY <1>1, <1>2 DEF FinalOf, FramedOf
<1> QED BY <1>3, <1>4, <1>5, <1>6, <1>7 DEF IInv

\* A step that changes nothing.
LEMMA StutterInvariant ==
  ASSUME IInv, UNCHANGED vars
  PROVE  IInv'
<1>1. /\ use' = use /\ sent' = sent /\ wire' = wire /\ closed' = closed /\ outcome' = outcome
      /\ m_streambuffer' = m_streambuffer /\ content' = content /\ verdict' = verdict
      /\ looping' = looping /\ reading' = reading
      /\ m_current_body_buffer_size' = m_current_body_buffer_size /\ buf_size' = buf_size
      /\ content_length' = content_length
  BY DEF vars, reader, strategy
<1>2. Calls' = Calls /\ (Open' <=> Open) /\ LastKind' = LastKind /\ Current' = Current /\ Ahead' = Ahead
  BY <1>1 DEF Calls, Open, LastKind, Current, Ahead
<1>3. TypeOK'
  BY <1>1, <1>2 DEF IInv, TypeOK, Shapes
<1>4. Control'
  BY <1>1, <1>2 DEF IInv, Control
<1>5. Unstopped' /\ Sized' /\ Stream'
  BY <1>1, <1>2 DEF IInv, Unstopped, Sized, Stream
<1> QED BY <1>1, <1>3, <1>4, <1>5 DEF IInv

\* The inductive invariant of the reader.
THEOREM Invariance ==
  Spec => []IInv
<1>1. Init => IInv
  BY InitInvariant
<1>2. IInv /\ [Next]_vars => IInv'
  <2> SUFFICES ASSUME IInv, [Next]_vars PROVE IInv'
    OBVIOUS
  <2>1. CASE UserReads
    BY <2>1, UserReadsKeeps
  <2>2. CASE ParseMore
    BY <2>2, ParseMoreKeeps
  <2>3. CASE ParseDone
    BY <2>3, ParseDoneKeeps
  <2>4. CASE ParseError
    BY <2>4, ParseErrorKeeps
  <2>5. CASE ReadOk
    BY <2>5, ReadOkKeeps
  <2>6. CASE ReadError
    BY <2>6, ReadErrorKeeps
  <2>7. CASE Send
    BY <2>7, SendKeeps
  <2>8. CASE Close
    BY <2>8, CloseKeeps
  <2>9. CASE ReadNothing
    BY <2>9, ReadNothingKeeps
  <2>10. CASE UNCHANGED vars
    BY <2>10, StutterInvariant
  <2> QED BY <2>1, <2>2, <2>3, <2>4, <2>5, <2>6, <2>7, <2>8, <2>9, <2>10 DEF Next, Parse
<1> QED BY <1>1, <1>2, PTL DEF Spec

\* The reader's variables keep their types.
THEOREM TypeCorrect ==
  Spec => []TypeOK
<1>1. IInv => TypeOK
  BY DEF IInv
<1> QED BY <1>1, Invariance, PTL

\* However the stream is cut into reads, the c-th good outcome is the c-th
\* message the peer sent, with nothing of its neighbours; only a body that
\* lasts until the close may be short.
THEOREM FramingHolds ==
  Spec => []Framing
<1>1. IInv => Framing
  <2> SUFFICES ASSUME IInv, NEW c \in DOMAIN outcome, NEW i \in DOMAIN outcome[c],
                      outcome[c][i].kind = "ok"
               PROVE  \/ outcome[c][i].content = Message(c)
                      \/ /\ sent[c][2] = "eof" /\ Len(outcome[c][i].content) >= 2
                         /\ outcome[c][i].content = SubSeq(Message(c), 1, Len(outcome[c][i].content))
    BY DEF Framing
  <2>1. outcome \in Seq(Seq(Results)) /\ FramedOf(sent, outcome)
    BY DEF IInv, TypeOK
  <2>2. c \in 1..Len(outcome) /\ outcome[c] \in Seq(Results)
    BY <2>1
  <2>3. i \in 1..Len(outcome[c])
    BY <2>2
  <2>4. FramedAs(sent, c, outcome[c][i].content)
    BY <2>1, <2>2, <2>3 DEF FramedOf
  <2> QED BY <2>4 DEF FramedAs, Message, Tagged
<1> QED BY <1>1, Invariance, PTL

\* No read asks the socket for twice what the system buffers; and one asks it
\* for nothing only for a body whose Content-Length atoi() makes -100 of, for
\* every width of int and size_t.
THEOREM BufferBoundedHolds ==
  Spec => []BufferBounded
<1>1. IInv => BufferBounded
  BY DEF IInv, Sized, RoomFor, BufferBounded
<1> QED BY <1>1, Invariance, PTL

-----------------------------------------------------------------------------
(* One outcome for each call.                                               *)

\* A peer that does not wait for its answers has a user that reads the next
\* message inside the callback, and reads of all the messages sent.
ReadsOn == (\A u \in Uses : u.pipelined => u.readsAgain) /\ MaxMessages < MaxCalls

\* A finished parser does not meet a remainder in the loop, and a peer that
\* waits has sent no more than was asked for.
Once ==
  /\ verdict = "done" => ~looping
  /\ ~use.pipelined => Len(sent) <= Current

\* A callback gives a second result only after a parse error.
LEMMA CallbackOnce ==
  ASSUME IInv, OneOutcome, Once, IInv', Calls > 0, NEW kind, NEW given, NEW v, NEW buffer,
         kind \in {"ok", "parse", "read"}, given \in Seq(Symbols),
         Callback(kind, given, v, buffer), UNCHANGED <<use, sent, wire, closed>>,
         outcome[Calls] # <<>> => outcome[Calls][1].kind = "parse",
         v = "done" => \/ use.readsAgain /\ kind = "ok" /\ Calls < MaxCalls
                       \/ ~looping \/ buffer = <<>>
  PROVE  OneOutcome' /\ Once'
<1> DEFINE r == [kind |-> kind, content |-> given]
           results == [outcome EXCEPT ![Calls] = Append(@, r)]
<1>1. r \in Results
  BY DEF Results
<1>2. TypeOK
  BY DEF IInv
<1>3. outcome \in Seq(Seq(Results)) /\ Calls = Len(outcome) /\ Calls \in Nat
  BY <1>2 DEF TypeOK, Calls
<1> HIDE DEF r
<1>4. /\ results \in Seq(Seq(Results)) /\ Len(results) = Calls
      /\ results[Calls] = Append(outcome[Calls], r) /\ results[Calls] # <<>>
      /\ \A c \in 1..Calls : c # Calls => results[c] = outcome[c]
      /\ results[Calls][1] = (IF outcome[Calls] = <<>> THEN r ELSE outcome[Calls][1])
  BY <1>1, <1>2, GivenFacts
<1>5. \/ /\ use.readsAgain /\ kind = "ok" /\ Calls < MaxCalls
         /\ outcome' = Append(results, <<>>) /\ verdict' = "more"
      \/ /\ ~(use.readsAgain /\ kind = "ok" /\ Calls < MaxCalls)
         /\ outcome' = results /\ verdict' = v
         /\ looping' = (looping /\ buffer # <<>>)
  BY DEF Callback, AsyncReadMessage, Begin, r
<1> HIDE DEF results
<1>6. ASSUME NEW c \in 1..Calls, Len(results[c]) > 1 PROVE results[c][1].kind = "parse"
  <2>1. CASE c # Calls
    <3>1. results[c] = outcome[c]
      BY <1>4, <2>1
    <3>2. c \in DOMAIN outcome
      BY <1>3
    <3> QED BY <1>6, <3>1, <3>2 DEF OneOutcome
  <2>2. CASE c = Calls
    <3>1. outcome[Calls] # <<>>
      <4>1. SUFFICES ASSUME outcome[Calls] = <<>> PROVE FALSE
        OBVIOUS
      <4>2. results[c] = <<r>>
        BY <1>4, <2>2, <4>1
      <4> QED BY <1>6, <4>2
    <3> QED BY <1>4, <2>2, <3>1
  <2> QED BY <2>1, <2>2
<1>7. OneOutcome'
  <2>1. CASE outcome' = results
    BY <1>4, <1>6, <2>1 DEF OneOutcome
  <2>2. CASE outcome' = Append(results, <<>>)
    <3>1. ASSUME NEW c \in DOMAIN outcome', Len(outcome'[c]) > 1 PROVE outcome'[c][1].kind = "parse"
      <4>1. c \in 1..(Calls + 1)
        BY <1>3, <1>4, <2>2
      <4>2. outcome'[Calls + 1] = <<>> /\ \A d \in 1..Calls : outcome'[d] = results[d]
        BY <1>3, <1>4, <2>2
      <4>3. c # Calls + 1
        BY <3>1, <4>2
      <4>4. c \in 1..Calls
        BY <1>3, <4>1, <4>3
      <4> QED BY <1>6, <3>1, <4>2, <4>4
    <3> QED BY <3>1 DEF OneOutcome
  <2> QED BY <1>5, <2>1, <2>2
<1>8. verdict' = "done" => ~looping'
  BY <1>5
<1>9. Current' = Calls + 1 /\ (Current = Calls \/ Current = Calls + 1)
  <2>1. CASE outcome' = results
    <3>1. Calls' = Calls /\ ~Open'
      BY <1>4, <2>1 DEF Calls, Open
    <3> QED BY <3>1 DEF Current
  <2>2. CASE outcome' = Append(results, <<>>)
    <3>1. Len(outcome') = Len(results) + 1 /\ outcome'[Len(results) + 1] = <<>>
      BY <1>4, <2>2
    <3>2. Calls' = Calls + 1 /\ Open'
      BY <1>3, <1>4, <3>1 DEF Calls, Open
    <3> QED BY <3>2 DEF Current
  <2>3. Current = Calls \/ Current = Calls + 1
    BY DEF Current
  <2> QED BY <1>5, <2>1, <2>2, <2>3
<1>10. ~use'.pipelined => Len(sent') <= Current'
  <2>1. Len(sent) \in Nat
    BY <1>2 DEF TypeOK
  <2> HIDE DEF Calls
  <2> QED BY <1>3, <1>9, <2>1 DEF Once
<1> QED BY <1>7, <1>8, <1>10 DEF Once

\* No step of the reader or the peer gives a call a second outcome.
LEMMA StepOnce ==
  ASSUME ReadsOn, IInv, OneOutcome, Once, [Next]_vars, IInv'
  PROVE  OneOutcome' /\ Once'
<1>1. TypeOK /\ Control
  BY DEF IInv
<1>2. /\ outcome \in Seq(Seq(Results)) /\ Calls = Len(outcome) /\ Calls \in Nat /\ Len(sent) \in Nat
      /\ use \in Uses /\ Len(sent) <= MaxMessages /\ MaxMessages \in Nat /\ MaxCalls \in Nat
  BY <1>1, ReaderAssumption DEF TypeOK, Calls
<1>3. ASSUME UNCHANGED <<outcome, verdict, looping, use, sent>> PROVE OneOutcome' /\ Once'
  <2>1. Current' = Current
    BY <1>3 DEF Current, Open, Calls
  <2> QED BY <1>3, <2>1 DEF OneOutcome, Once
<1>4. CASE UserReads
  <2>1. /\ outcome' = Append(outcome, <<>>) /\ verdict' = "more" /\ UNCHANGED <<use, sent>>
        /\ ~looping /\ ~reading
    BY <1>4 DEF UserReads, AsyncReadMessage, Begin
  <2>2. /\ Len(outcome') = Calls + 1 /\ outcome'[Calls + 1] = <<>>
        /\ DOMAIN outcome' = 1..(Calls + 1) /\ \A c \in 1..Calls : outcome'[c] = outcome[c]
    BY <1>2, <2>1
  <2>3. OneOutcome'
    <3>1. ASSUME NEW c \in DOMAIN outcome', Len(outcome'[c]) > 1 PROVE outcome'[c][1].kind = "parse"
      <4>1. c # Calls + 1
        BY <2>2, <3>1
      <4>2. c \in 1..Calls
        BY <1>2, <2>2, <4>1
      <4> QED BY <1>2, <2>2, <3>1, <4>2 DEF OneOutcome
    <3> QED BY <3>1 DEF OneOutcome
  <2>4. Current' = Calls + 1 /\ Current = Calls + 1
    <3>1. Calls' = Calls + 1 /\ Open'
      BY <1>2, <2>2 DEF Calls, Open
    <3>2. ~Open
      BY <1>4 DEF UserReads, Good, Open
    <3> QED BY <3>1, <3>2 DEF Current
  <2> QED BY <2>1, <2>3, <2>4 DEF Once
<1>5. CASE ParseMore
  <2>1. looping' = FALSE /\ UNCHANGED <<outcome, use, sent, verdict>>
    BY <1>5 DEF ParseMore
  <2>2. Current' = Current
    BY <2>1 DEF Current, Open, Calls
  <2> QED BY <2>1, <2>2 DEF OneOutcome, Once
<1>6. CASE ParseDone
  <2>1. /\ looping /\ Verdict = "done" /\ Callback("ok", Consumed, "done", Rest)
        /\ UNCHANGED <<use, sent, wire, closed>>
    BY <1>6 DEF ParseDone
  <2>2. /\ m_streambuffer \in Seq(Symbols) /\ content \in Seq(Symbols) /\ wire \in Seq(Symbols)
        /\ verdict \in {"more", "done", "error"} /\ Calls > 0 /\ sent \in Seq(AnyShape)
        /\ Open <=> verdict = "more"
        /\ Open => outcome[Calls] = <<>>
    BY <2>1, ParseFacts
  <2>3. Consumed \in Seq(Symbols) /\ Rest \in Seq(Symbols)
    BY <2>2, ConsumeFacts
  <2>4. verdict = "more"
    BY <2>1, <2>2, ParserFacts DEF Once
  <2>5. FramedAs(sent, Calls, Consumed) /\ Aligned(Rest \o wire, Calls + 1, sent)
    BY <2>1, <2>4, DoneFacts
  <2>6. Calls \in 1..Len(sent)
    BY <2>5 DEF FramedAs
  <2>7. CASE use.pipelined
    <3>1. use.readsAgain
      BY <1>2, <2>7 DEF ReadsOn
    <3>2. Calls < MaxCalls
      BY <1>2, <2>6 DEF ReadsOn
    <3> HIDE DEF Calls
    <3> QED BY <2>1, <2>2, <2>3, <2>4, <3>1, <3>2, CallbackOnce
  <2>8. CASE ~use.pipelined
    <3>1. Len(sent) <= Calls
      BY <2>2, <2>4, <2>8 DEF Once, Current
    <3>2. Calls = Len(sent)
      BY <1>2, <2>6, <3>1
    <3>3. Rest \o wire \in Seq(Symbols) /\ Len(Rest \o wire) = Len(Rest) + Len(wire)
          /\ Len(Rest) \in Nat /\ Len(wire) \in Nat
      BY <2>2, <2>3, Cat
    <3>4. Len(Rest \o wire) = 0
      <4>1. Calls + 1 \in Nat /\ Calls + 1 = Len(sent) + 1
        BY <1>2, <3>2
      <4> HIDE DEF Calls
      <4> QED BY <2>2, <2>5, <3>3, <4>1, AlignedHead
    <3>5. Rest = <<>>
      BY <2>3, <3>3, <3>4, EmptySeq
    <3> HIDE DEF Calls
    <3> QED BY <2>1, <2>2, <2>3, <2>4, <3>5, CallbackOnce
  <2> QED BY <2>7, <2>8
<1>7. CASE ParseError
  <2>1. /\ looping /\ Verdict = "error" /\ Callback("parse", Consumed, "error", Rest)
        /\ UNCHANGED <<use, sent, wire, closed>>
    BY <1>7 DEF ParseError
  <2>2. /\ m_streambuffer \in Seq(Symbols) /\ content \in Seq(Symbols) /\ wire \in Seq(Symbols)
        /\ verdict \in {"more", "done", "error"} /\ Calls > 0
        /\ Open <=> verdict = "more"
        /\ Open => outcome[Calls] = <<>>
    BY <2>1, ParseFacts
  <2>3. Consumed \in Seq(Symbols)
    BY <2>2, ConsumeFacts
  <2>4. outcome[Calls] # <<>> => outcome[Calls][1].kind = "parse"
    <3>1. SUFFICES ASSUME outcome[Calls] # <<>> PROVE outcome[Calls][1].kind = "parse"
      OBVIOUS
    <3>2. verdict = "error"
      BY <2>1, <2>2, <3>1, ParserFacts
    <3> QED BY <1>1, <2>2, <3>2 DEF Control, LastKind
  <2> HIDE DEF Calls
  <2> QED BY <2>1, <2>2, <2>3, <2>4, CallbackOnce
<1>8. CASE ReadOk
  <2>1. looping' = TRUE /\ verdict' = verdict /\ UNCHANGED <<outcome, use, sent>> /\ reading
    BY <1>8 DEF ReadOk
  <2>2. verdict = "more"
    BY <1>1, <2>1 DEF Control
  <2>3. Current' = Current
    BY <2>1 DEF Current, Open, Calls
  <2> QED BY <2>1, <2>2, <2>3 DEF OneOutcome, Once
<1>9. CASE ReadError
  <2>1. reading /\ UNCHANGED <<use, sent, wire, closed>>
    BY <1>9 DEF ReadError
  <2>2. content \in Seq(Symbols) /\ ~looping /\ Calls > 0 /\ outcome[Calls] = <<>>
    BY <2>1, ReadingFacts
  <2>3. PICK kind \in {"ok", "parse", "read"}, v \in {"more", "done", "error"} :
          Callback(kind, content, v, m_streambuffer)
    <3>1. verdict \in {"more", "done", "error"}
      BY <1>1 DEF TypeOK
    <3> QED BY <1>9, <3>1 DEF ReadError
  <2> HIDE DEF Calls
  <2> QED BY <2>1, <2>2, <2>3, CallbackOnce
<1>10. CASE Send
  <2>1. /\ UNCHANGED <<use, outcome, verdict, looping>>
        /\ use.pipelined \/ \A k \in DOMAIN sent : k \in AnsweredCalls
    BY <1>10 DEF Send, reader
  <2>2. PICK shape : sent' = Append(sent, shape)
    BY <1>10 DEF Send
  <2>3. Len(sent') = Len(sent) + 1 /\ DOMAIN sent = 1..Len(sent)
    BY <1>1, <2>2 DEF TypeOK
  <2>4. Current' = Current
    BY <2>1 DEF Current, Open, Calls
  <2>5. ASSUME ~use.pipelined PROVE Len(sent) + 1 <= Current
    <3>1. CASE Len(sent) = 0
      BY <1>2, <3>1 DEF Current, Open
    <3>2. CASE Len(sent) # 0
      <4>1. Len(sent) \in AnsweredCalls
        BY <1>2, <2>1, <2>3, <2>5, <3>2
      <4>2. Len(sent) <= Calls /\ outcome[Len(sent)] # <<>>
        BY <4>1 DEF AnsweredCalls
      <4>3. Open => Len(sent) # Calls
        BY <4>2 DEF Open
      <4> HIDE DEF Calls
      <4> QED BY <1>2, <4>2, <4>3 DEF Current
    <3> QED BY <3>1, <3>2
  <2> QED BY <2>1, <2>3, <2>4, <2>5 DEF OneOutcome, Once
<1>11. CASE Close
  BY <1>3, <1>11 DEF Close, reader
<1>12. CASE UNCHANGED vars
  BY <1>3, <1>12 DEF vars, reader
<1>13. CASE ReadNothing
  <2>1. verdict' = verdict /\ UNCHANGED <<outcome, use, sent>> /\ reading
    BY <1>13 DEF ReadNothing
  <2>2. verdict = "more"
    BY <1>1, <2>1 DEF Control
  <2>3. Current' = Current
    BY <2>1 DEF Current, Open, Calls
  <2> QED BY <2>1, <2>2, <2>3 DEF OneOutcome, Once
<1> QED BY <1>4, <1>5, <1>6, <1>7, <1>8, <1>9, <1>10, <1>11, <1>12, <1>13 DEF Next, Parse

\* With a user that reads on whenever the peer does not wait for it, a call
\* that ends in a good message or a read error runs its callback once.
THEOREM OneOutcomeHolds ==
  ASSUME ReadsOn
  PROVE  Spec => []OneOutcome
<1>1. Init => OneOutcome /\ Once
  BY DEF Init, NewParser, OneOutcome, Once, Current, Open, Calls
<1>2. IInv /\ IInv' /\ OneOutcome /\ Once /\ [Next]_vars => (OneOutcome /\ Once)'
  BY StepOnce
<1> QED BY <1>1, <1>2, Invariance, PTL DEF Spec

-----------------------------------------------------------------------------
(* Nothing lost.  What a recursive function computes is shown with the      *)
(* least-number principle: the least place where it fails is no such place. *)

\* f[k] is the first k elements of ss, one after the other.
Joins(f, ss, n) == f[0] = <<>> /\ \A k \in 1..n : f[k] = f[k - 1] \o ss[k]

\* There is such a function.
LEMMA JoinExists ==
  ASSUME NEW ss \in Seq(Seq(Symbols))
  PROVE  \E f \in [0..Len(ss) -> Seq(Symbols)] : Joins(f, ss, Len(ss))
<1> DEFINE N == Len(ss)
           Has(n) == \E f \in [0..n -> Seq(Symbols)] : Joins(f, ss, n)
           T == {n \in 0..N : ~Has(n)}
<1>1. N \in Nat
  OBVIOUS
<1>2. Has(0)
  <2> DEFINE f == [k \in 0..0 |-> <<>>]
  <2>1. f \in [0..0 -> Seq(Symbols)] /\ Joins(f, ss, 0)
    BY DEF Joins
  <2> QED BY <2>1
<1>3. ASSUME NEW n \in 1..N, Has(n - 1) PROVE Has(n)
  <2>1. PICK g \in [0..(n - 1) -> Seq(Symbols)] : Joins(g, ss, n - 1)
    BY <1>3
  <2>2. ss[n] \in Seq(Symbols) /\ n \in Nat /\ n - 1 \in 0..(n - 1) /\ g[n - 1] \in Seq(Symbols)
    BY <1>1
  <2> DEFINE x == g[n - 1] \o ss[n]
             f == [k \in 0..n |-> IF k = n THEN x ELSE g[k]]
  <2>3. x \in Seq(Symbols)
    BY <2>2, Cat
  <2> HIDE DEF x
  <2>4. \A k \in 0..n : k # n => k \in 0..(n - 1)
    BY <2>2
  <2>5. f \in [0..n -> Seq(Symbols)]
    BY <2>3, <2>4
  <2>6. f[n] = x /\ \A k \in 0..(n - 1) : f[k] = g[k]
    BY <2>2
  <2> HIDE DEF f
  <2>7. f[0] = <<>>
    BY <2>1, <2>2, <2>6, SMTT(30) DEF Joins
  <2>8. ASSUME NEW k \in 1..n PROVE f[k] = f[k - 1] \o ss[k]
    <3>1. CASE k = n
      BY <2>2, <2>6, <3>1 DEF x
    <3>2. CASE k # n
      <4>1. k \in 1..(n - 1) /\ k \in 0..(n - 1) /\ k - 1 \in 0..(n - 1)
        BY <2>2, <3>2
      <4> QED BY <2>1, <2>6, <4>1 DEF Joins
    <3> QED BY <3>1, <3>2
  <2> QED BY <2>5, <2>7, <2>8 DEF Joins
<1> HIDE DEF Has
<1>4. T = {}
  <2> SUFFICES ASSUME T # {} PROVE FALSE
    OBVIOUS
  <2>1. T \in SUBSET Nat
    OBVIOUS
  <2>2. PICK n \in T : \A y \in T : n <= y
    BY <2>1, LeastNumber
  <2>3. n # 0
    BY <1>2, <2>2
  <2>4. n \in 1..N /\ n - 1 \in 0..N /\ ~(n <= n - 1)
    BY <1>1, <2>2, <2>3
  <2>5. Has(n - 1)
    BY <2>2, <2>4
  <2> QED BY <1>3, <2>2, <2>4, <2>5
<1>5. N \in 0..N
  BY <1>1
<1>6. Has(N)
  BY <1>4, <1>5
<1> QED BY <1>6 DEF Has

\* It depends on the elements only.
LEMMA JoinUnique ==
  ASSUME NEW n \in Nat, NEW f, NEW g, NEW ss, NEW tt, Joins(f, ss, n), Joins(g, tt, n),
         \A k \in 1..n : ss[k] = tt[k]
  PROVE  f[n] = g[n]
<1> DEFINE T == {k \in 0..n : f[k] # g[k]}
<1>1. T = {}
  <2> SUFFICES ASSUME T # {} PROVE FALSE
    OBVIOUS
  <2>1. T \in SUBSET Nat
    OBVIOUS
  <2>2. PICK k \in T : \A y \in T : k <= y
    BY <2>1, LeastNumber
  <2>3. k # 0
    BY <2>2 DEF Joins
  <2>4. k \in 1..n /\ k - 1 \in 0..n /\ ~(k <= k - 1)
    BY <2>2, <2>3
  <2>5. f[k - 1] = g[k - 1]
    BY <2>2, <2>4
  <2>6. f[k] = f[k - 1] \o ss[k] /\ g[k] = g[k - 1] \o tt[k] /\ ss[k] = tt[k]
    BY <2>4 DEF Joins
  <2> QED BY <2>2, <2>5, <2>6
<1> QED BY <1>1

\* Flat is what such a function ends with.
LEMMA FlatJoins ==
  ASSUME NEW ss \in Seq(Seq(Symbols))
  PROVE  \E f \in [0..Len(ss) -> Seq(Symbols)] : Joins(f, ss, Len(ss)) /\ Flat(ss) = f[Len(ss)]
<1> DEFINE N == Len(ss)
           Step(h) == [k \in 0..N |-> IF k = 0 THEN <<>> ELSE h[k - 1] \o ss[k]]
           F == CHOOSE h : h = Step(h)
<1>1. N \in Nat /\ 0 \in 0..N /\ N \in 0..N
  OBVIOUS
<1>2. PICK g \in [0..N -> Seq(Symbols)] : Joins(g, ss, N)
  BY JoinExists
<1>3. \E h : h = Step(h)
  <2>1. ASSUME NEW k \in 0..N PROVE g[k] = IF k = 0 THEN <<>> ELSE g[k - 1] \o ss[k]
    <3>1. CASE k = 0
      BY <1>2, <3>1 DEF Joins
    <3>2. CASE k # 0
      <4>1. k \in 1..N
        BY <1>1, <3>2
      <4> QED BY <1>2, <3>2, <4>1 DEF Joins
    <3> QED BY <3>1, <3>2
  <2>2. g = Step(g)
    BY <2>1
  <2> QED BY <2>2
<1>4. F = Step(F)
  BY <1>3
<1>5. Flat(ss) = F[N]
  BY DEF Flat
<1> HIDE DEF F
<1>6. Joins(F, ss, N)
  <2>1. F[0] = <<>>
    BY <1>1, <1>4
  <2>2. ASSUME NEW k \in 1..N PROVE F[k] = F[k - 1] \o ss[k]
    <3>1. k \in 0..N /\ k # 0
      BY <1>1
    <3>2. Step(F)[k] = F[k - 1] \o ss[k]
      BY <3>1
    <3> QED BY <1>4, <3>2
  <2> QED BY <2>1, <2>2 DEF Joins
<1>7. F[N] = g[N]
  BY <1>1, <1>2, <1>6, JoinUnique
<1> QED BY <1>2, <1>5, <1>7

\* What is appended to a sequence of sequences ends what they are together.
LEMMA FlatAppend ==
  ASSUME NEW ss \in Seq(Seq(Symbols)), NEW x \in Seq(Symbols)
  PROVE  /\ Flat(ss) \in Seq(Symbols) /\ Append(ss, x) \in Seq(Seq(Symbols))
         /\ Flat(Append(ss, x)) = Flat(ss) \o x
<1> DEFINE n == Len(ss)
           tt == Append(ss, x)
<1>1. n \in Nat /\ n \in 0..n
  OBVIOUS
<1>2. tt \in Seq(Seq(Symbols)) /\ Len(tt) = n + 1 /\ tt[n + 1] = x /\ \A k \in 1..n : tt[k] = ss[k]
  OBVIOUS
<1> HIDE DEF tt
<1>3. PICK f \in [0..n -> Seq(Symbols)] : Joins(f, ss, n) /\ Flat(ss) = f[n]
  BY FlatJoins
<1>4. PICK g \in [0..(n + 1) -> Seq(Symbols)] : Joins(g, tt, n + 1) /\ Flat(tt) = g[n + 1]
  BY <1>2, FlatJoins
<1> HIDE DEF n
<1>5. Joins(g, tt, n)
  <2>1. \A k \in 1..n : k \in 1..(n + 1)
    BY <1>1
  <2> QED BY <1>4, <2>1 DEF Joins
<1>6. f[n] = g[n]
  BY <1>1, <1>2, <1>3, <1>5, JoinUnique
<1>7. g[n + 1] = g[n] \o x
  <2>1. n + 1 \in 1..(n + 1) /\ (n + 1) - 1 = n
    BY <1>1
  <2>2. g[n + 1] = g[(n + 1) - 1] \o tt[n + 1]
    BY <1>4, <2>1 DEF Joins
  <2> QED BY <1>2, <2>1, <2>2
<1>8. Flat(ss) \in Seq(Symbols)
  BY <1>1, <1>3
<1> QED BY <1>2, <1>3, <1>4, <1>6, <1>7, <1>8 DEF tt

\* And so does what the last of them is extended by.
LEMMA FlatExtend ==
  ASSUME NEW ss \in Seq(Seq(Symbols)), NEW tt \in Seq(Seq(Symbols)), NEW x \in Seq(Symbols),
         Len(ss) > 0, Len(tt) = Len(ss), tt[Len(ss)] = ss[Len(ss)] \o x,
         \A k \in 1..Len(ss) : k # Len(ss) => tt[k] = ss[k]
  PROVE  Flat(ss) \in Seq(Symbols) /\ Flat(tt) = Flat(ss) \o x
<1> DEFINE n == Len(ss)
           p == n - 1
<1>1. n \in Nat /\ p \in Nat /\ n \in 0..n /\ p \in 0..n /\ n \in 1..n
  OBVIOUS
<1>2. PICK f \in [0..n -> Seq(Symbols)] : Joins(f, ss, n) /\ Flat(ss) = f[n]
  BY FlatJoins
<1>3. PICK g \in [0..n -> Seq(Symbols)] : Joins(g, tt, n) /\ Flat(tt) = g[n]
  BY FlatJoins
<1>4. ss[n] \in Seq(Symbols) /\ tt[n] = ss[n] \o x /\ \A k \in 1..n : k # n => tt[k] = ss[k]
  BY <1>1
<1> HIDE DEF n
<1>5. Joins(f, ss, p) /\ Joins(g, tt, p)
  <2>1. \A k \in 1..p : k \in 1..n
    BY <1>1
  <2> QED BY <1>2, <1>3, <2>1 DEF Joins
<1>6. f[p] = g[p]
  <2>1. \A k \in 1..p : ss[k] = tt[k]
    <3>1. \A k \in 1..p : k \in 1..n /\ k # n
      BY <1>1
    <3> QED BY <1>4, <3>1
  <2> HIDE DEF p
  <2> QED BY <1>1, <1>5, <2>1, JoinUnique
<1>7. f[n] = f[p] \o ss[n] /\ g[n] = g[p] \o tt[n] /\ f[p] \in Seq(Symbols) /\ f[n] \in Seq(Symbols)
  BY <1>1, <1>2, <1>3 DEF Joins
<1> HIDE DEF p
<1>8. (f[p] \o ss[n]) \o x = f[p] \o (ss[n] \o x)
  BY <1>4, <1>7, Assoc
<1> QED BY <1>2, <1>3, <1>4, <1>6, <1>7, <1>8

\* What the calls have brought so far, c for the one that is outstanding.
Given(results, c) == [i \in 1..Len(results) |-> IF results[i] = <<>> THEN c ELSE results[i][1].content]

\* It is a sequence of sequences.
LEMMA GivenType ==
  ASSUME NEW results \in Seq(Seq(Results)), NEW c \in Seq(Symbols)
  PROVE  Given(results, c) \in Seq(Seq(Symbols)) /\ Len(Given(results, c)) = Len(results)
<1>1. Len(results) \in Nat
  OBVIOUS
<1>2. ASSUME NEW i \in 1..Len(results)
      PROVE  (IF results[i] = <<>> THEN c ELSE results[i][1].content) \in Seq(Symbols)
  <2>1. results[i] \in Seq(Results)
    OBVIOUS
  <2>2. CASE results[i] # <<>>
    <3>1. 1 \in 1..Len(results[i])
      BY <2>1, <2>2, EmptySeq
    <3>2. results[i][1] \in Results
      BY <2>1, <3>1
    <3> QED BY <2>2, <3>2 DEF Results
  <2> QED BY <2>2
<1> DEFINE e(i) == IF results[i] = <<>> THEN c ELSE results[i][1].content
           S == Seq(Symbols)
           g == [i \in 1..Len(results) |-> e(i)]
<1>3. \A i \in 1..Len(results) : e(i) \in S
  BY <1>2
<1> HIDE DEF e, S
<1>4. g \in Seq(S) /\ Len(g) = Len(results)
  BY <1>1, <1>3
<1> QED BY <1>4 DEF Given, e, S

\* A new call adds nothing to what was given.
LEMMA GivenCall ==
  ASSUME NEW results \in Seq(Seq(Results)), NEW c \in Seq(Symbols),
         \A i \in 1..Len(results) : results[i] # <<>>
  PROVE  Flat(Given(Append(results, <<>>), <<>>)) = Flat(Given(results, c))
<1> DEFINE n == Len(results)
           tt == Append(results, <<>>)
           gs == Given(results, c)
           gt == Given(tt, <<>>)
<1>1. /\ tt \in Seq(Seq(Results)) /\ Len(tt) = n + 1 /\ n \in Nat
      /\ tt[n + 1] = <<>> /\ \A i \in 1..n : tt[i] = results[i]
  <2>1. <<>> \in Seq(Results)
    OBVIOUS
  <2> QED BY <2>1
<1> HIDE DEF tt
<1>2. gs \in Seq(Seq(Symbols)) /\ Len(gs) = n /\ gt \in Seq(Seq(Symbols)) /\ Len(gt) = n + 1
  <2>1. gs \in Seq(Seq(Symbols)) /\ Len(gs) = n
    BY GivenType
  <2>2. <<>> \in Seq(Symbols)
    OBVIOUS
  <2>3. gt \in Seq(Seq(Symbols)) /\ Len(gt) = Len(tt)
    BY <1>1, <2>2, GivenType
  <2> QED BY <1>1, <2>1, <2>3
<1>3. \A i \in 1..n : gs[i] = results[i][1].content
  BY DEF Given
<1>4. ASSUME NEW i \in 1..n PROVE gt[i] = gs[i]
  <2>1. i \in 1..Len(tt) /\ tt[i] = results[i] /\ results[i] # <<>>
    BY <1>1
  <2>2. gt[i] = results[i][1].content
    BY <2>1 DEF Given
  <2> QED BY <1>3, <2>2
<1>5. gt[n + 1] = <<>>
  BY <1>1 DEF Given
<1> HIDE DEF gs, gt, n
<1>6. Append(gs, <<>>) \in Seq(Seq(Symbols)) /\ Flat(gs) \in Seq(Symbols) /\ Flat(Append(gs, <<>>)) = Flat(gs) \o <<>>
  <2>1. <<>> \in Seq(Symbols)
    OBVIOUS
  <2> QED BY <1>2, <2>1, FlatAppend
<1>7. gt = Append(gs, <<>>)
  <2> DEFINE a == Append(gs, <<>>)
  <2>1. Len(a) = n + 1 /\ a[n + 1] = <<>> /\ \A i \in 1..n : a[i] = gs[i]
    <3>1. /\ Len(a) = Len(gs) + 1 /\ a[Len(gs) + 1] = <<>>
          /\ \A i \in 1..Len(gs) : a[i] = gs[i]
      BY <1>2
    <3> QED BY <1>2, <3>1
  <2> HIDE DEF a
  <2>2. ASSUME NEW i \in 1..(n + 1) PROVE gt[i] = a[i]
    <3>1. i \in 1..n \/ i = n + 1
      BY <1>1
    <3> QED BY <1>4, <1>5, <2>1, <3>1
  <2>3. a \in Seq(Seq(Symbols))
    BY <1>6 DEF a
  <2>4. gt = a
    BY <1>2, <2>1, <2>2, <2>3, SeqEqual
  <2> QED BY <2>4 DEF a
<1>8. Flat(gs) \o <<>> = Flat(gs)
  BY <1>6, ConcatEmptySeq
<1> QED BY <1>6, <1>7, <1>8 DEF gs, gt, tt

\* A callback adds x to what was given: what consume() took for the call that
\* was outstanding, and nothing for one that had its result.
LEMMA CallbackGiven ==
  ASSUME IInv, Calls > 0, NEW kind \in {"ok", "parse", "read"}, NEW given \in Seq(Symbols), NEW v,
         NEW buffer, NEW x \in Seq(Symbols), Callback(kind, given, v, buffer),
         outcome[Calls] = <<>> => given = content \o x,
         outcome[Calls] # <<>> => x = <<>>
  PROVE  Flat(Given(outcome', content')) = Flat(Given(outcome, content)) \o x
<1> DEFINE r == [kind |-> kind, content |-> given]
           results == [outcome EXCEPT ![Calls] = Append(@, r)]
           gs == Given(outcome, content)
           gt == Given(results, given)
<1>1. r \in Results /\ r.content = given
  BY DEF Results
<1>2. TypeOK /\ Control
  BY DEF IInv
<1>3. outcome \in Seq(Seq(Results)) /\ Calls = Len(outcome) /\ Calls \in Nat /\ content \in Seq(Symbols)
  BY <1>2 DEF TypeOK, Calls
<1> HIDE DEF r
<1>4. /\ results \in Seq(Seq(Results)) /\ Len(results) = Calls
      /\ results[Calls] = Append(outcome[Calls], r) /\ results[Calls] # <<>>
      /\ \A c \in 1..Calls : c # Calls => results[c] = outcome[c]
      /\ results[Calls][1] = (IF outcome[Calls] = <<>> THEN r ELSE outcome[Calls][1])
  BY <1>1, <1>2, GivenFacts
<1>5. \/ outcome' = Append(results, <<>>) /\ content' = <<>>
      \/ outcome' = results /\ content' = given
  BY DEF Callback, AsyncReadMessage, Begin, r
<1> HIDE DEF results
<1>6. ASSUME NEW c \in 1..Calls, c # Calls PROVE outcome[c] # <<>>
  <2>1. c < Calls
    BY <1>3, <1>6
  <2> QED BY <1>2, <2>1 DEF Control
<1>7. \A c \in 1..Len(results) : results[c] # <<>>
  BY <1>4, <1>6
<1>8. gs \in Seq(Seq(Symbols)) /\ Len(gs) = Calls /\ gt \in Seq(Seq(Symbols)) /\ Len(gt) = Calls
  <2>1. gs \in Seq(Seq(Symbols)) /\ Len(gs) = Len(outcome)
    BY <1>3, GivenType
  <2>2. gt \in Seq(Seq(Symbols)) /\ Len(gt) = Len(results)
    BY <1>4, GivenType
  <2> QED BY <1>3, <1>4, <2>1, <2>2
<1>9. \A c \in 1..Calls : gs[c] = IF outcome[c] = <<>> THEN content ELSE outcome[c][1].content
  BY <1>3 DEF Given
<1>10. \A c \in 1..Calls : gt[c] = results[c][1].content
  BY <1>4, <1>7 DEF Given
<1>11. Calls \in 1..Calls
  BY <1>3
<1>12. gt[Calls] = gs[Calls] \o x
  <2>1. CASE outcome[Calls] = <<>>
    BY <1>1, <1>4, <1>9, <1>10, <1>11, <2>1
  <2>2. CASE outcome[Calls] # <<>>
    <3>1. gt[Calls] = gs[Calls] /\ x = <<>>
      BY <1>4, <1>9, <1>10, <1>11, <2>2
    <3>2. gs[Calls] \in Seq(Symbols)
      BY <1>8, <1>11
    <3> HIDE DEF gs, gt
    <3>3. gs[Calls] \o <<>> = gs[Calls]
      BY <3>2, ConcatEmptySeq
    <3> QED BY <3>1, <3>3
  <2> QED BY <2>1, <2>2
<1>13. \A c \in 1..Calls : c # Calls => gt[c] = gs[c]
  BY <1>4, <1>6, <1>9, <1>10, ZenonT(60)
<1>14. Flat(gt) = Flat(gs) \o x
  <2> HIDE DEF gs, gt, Calls
  <2>1. Len(gs) > 0 /\ Len(gt) = Len(gs)
    BY <1>8
  <2>2. gt[Len(gs)] = gs[Len(gs)] \o x
    BY <1>8, <1>12
  <2>3. \A c \in 1..Len(gs) : c # Len(gs) => gt[c] = gs[c]
    BY <1>8, <1>13
  <2> QED BY <1>8, <2>1, <2>2, <2>3, FlatExtend
<1>15. CASE outcome' = results /\ content' = given
  BY <1>14, <1>15
<1>16. CASE outcome' = Append(results, <<>>) /\ content' = <<>>
  <2>1. Flat(Given(Append(results, <<>>), <<>>)) = Flat(gt)
    BY <1>4, <1>7, GivenCall
  <2> QED BY <1>14, <1>16, <2>1
<1> QED BY <1>5, <1>15, <1>16

\* The messages the peer sent.
SentAll == [k \in 1..Len(sent) |-> Message(k)]

\* NothingLost, with the types of its parts.
Kept == (Flat(Given(outcome, content)) \o m_streambuffer) \o wire = Flat(SentAll)

\* The parts are sequences.
LEMMA KeptTypes ==
  ASSUME TypeOK
  PROVE  /\ outcome \in Seq(Seq(Results)) /\ content \in Seq(Symbols) /\ m_streambuffer \in Seq(Symbols)
         /\ wire \in Seq(Symbols) /\ Given(outcome, content) \in Seq(Seq(Symbols))
         /\ Len(Given(outcome, content)) = Len(outcome) /\ Flat(Given(outcome, content)) \in Seq(Symbols)
<1>1. /\ outcome \in Seq(Seq(Results)) /\ content \in Seq(Symbols) /\ m_streambuffer \in Seq(Symbols)
      /\ wire \in Seq(Symbols)
  BY DEF TypeOK
<1>2. Given(outcome, content) \in Seq(Seq(Symbols)) /\ Len(Given(outcome, content)) = Len(outcome)
  BY <1>1, GivenType
<1>3. <<>> \in Seq(Symbols)
  OBVIOUS
<1>4. Flat(Given(outcome, content)) \in Seq(Symbols)
  BY <1>2, <1>3, FlatAppend
<1> QED BY <1>1, <1>2, <1>4

\* What consume() takes moves from the buffer to what is given.
LEMMA KeptConsume ==
  ASSUME TypeOK, Kept,
         Flat(Given(outcome', content')) = Flat(Given(outcome, content)) \o SubSeq(m_streambuffer, 1, Taken),
         m_streambuffer' = Rest, wire' = wire, sent' = sent
  PROVE  Kept'
<1> DEFINE F == Flat(Given(outcome, content))
           b == m_streambuffer
           x == SubSeq(b, 1, Taken)
<1>1. F \in Seq(Symbols) /\ b \in Seq(Symbols) /\ verdict \in {"more", "done", "error"}
  BY KeptTypes DEF TypeOK
<1>2. Taken \in 0..Len(b)
  BY <1>1, ParserFacts
<1>3. x \in Seq(Symbols) /\ Rest \in Seq(Symbols) /\ x \o Rest = b
  BY <1>1, <1>2, Cut DEF Rest
<1>4. SentAll' = SentAll
  BY DEF SentAll, Message
<1> HIDE DEF x, b, F
<1>5. (F \o x) \o Rest = F \o b
  BY <1>1, <1>3, Assoc
<1> QED BY <1>4, <1>5 DEF Kept, F, b, x

\* No step loses a symbol, repeats one or changes the order.
LEMMA StepKept ==
  ASSUME IInv, Kept, [Next]_vars
  PROVE  Kept'
<1> DEFINE F == Flat(Given(outcome, content))
           b == m_streambuffer
           w == wire
<1>1. TypeOK /\ Control
  BY DEF IInv
<1>2. /\ outcome \in Seq(Seq(Results)) /\ content \in Seq(Symbols) /\ b \in Seq(Symbols)
      /\ w \in Seq(Symbols) /\ Given(outcome, content) \in Seq(Seq(Symbols))
      /\ Len(Given(outcome, content)) = Len(outcome) /\ F \in Seq(Symbols)
      /\ verdict \in {"more", "done", "error"}
  BY <1>1, KeptTypes DEF TypeOK
<1>3. Calls = Len(outcome) /\ Calls \in Nat
  BY <1>2 DEF Calls
<1>4. ASSUME sent' = sent PROVE SentAll' = SentAll
  BY <1>4 DEF SentAll, Message
<1>5. F \o <<>> = F /\ content \o <<>> = content
  BY <1>2, ConcatEmptySeq
<1>6. ASSUME UNCHANGED <<sent, wire, m_streambuffer>>, Flat(Given(outcome', content')) = F PROVE Kept'
  BY <1>4, <1>6 DEF Kept
<1> HIDE DEF F
<1>7. CASE UserReads
  <2>1. /\ outcome' = Append(outcome, <<>>) /\ content' = <<>> /\ ~looping /\ ~reading
        /\ UNCHANGED <<sent, wire, m_streambuffer>>
    BY <1>7 DEF UserReads, AsyncReadMessage, Begin
  <2>2. ASSUME NEW c \in 1..Len(outcome) PROVE outcome[c] # <<>>
    <3>1. CASE c = Calls
      BY <1>3, <1>7, <3>1 DEF UserReads, Good
    <3>2. CASE c # Calls
      <4>1. c < Calls
        BY <1>3, <3>2
      <4> QED BY <1>1, <1>3, <4>1 DEF Control
    <3> QED BY <3>1, <3>2
  <2>3. Flat(Given(Append(outcome, <<>>), <<>>)) = F
    BY <1>2, <2>2, GivenCall DEF F
  <2> QED BY <1>6, <2>1, <2>3
<1>8. CASE ParseMore
  <2> DEFINE x == SubSeq(b, 1, Taken)
             gs == Given(outcome, content)
             gt == Given(outcome, Consumed)
  <2>1. /\ looping /\ Verdict = "more" /\ m_streambuffer' = Rest /\ content' = Consumed
        /\ UNCHANGED <<sent, wire, outcome>>
    BY <1>8 DEF ParseMore
  <2>2. /\ Calls > 0 /\ outcome[Calls] = <<>>
    <3>1. verdict = "more"
      BY <1>2, <2>1, ParserFacts
    <3> QED BY <2>1, <3>1, ParseFacts
  <2>3. x \in Seq(Symbols) /\ Consumed \in Seq(Symbols) /\ Consumed = content \o x
    <3>1. Taken \in 0..Len(b)
      BY <1>2, ParserFacts
    <3>2. x \in Seq(Symbols)
      BY <1>2, <3>1, Cut
    <3> QED BY <1>2, <3>2, Cat DEF Consumed
  <2> HIDE DEF x
  <2>4. gt \in Seq(Seq(Symbols)) /\ Len(gt) = Len(outcome)
    BY <1>2, <2>3, GivenType
  <2>5. /\ \A c \in 1..Calls : gs[c] = IF outcome[c] = <<>> THEN content ELSE outcome[c][1].content
        /\ \A c \in 1..Calls : gt[c] = IF outcome[c] = <<>> THEN Consumed ELSE outcome[c][1].content
    BY <1>3 DEF Given
  <2>6. ASSUME NEW c \in 1..Calls, c # Calls PROVE gt[c] = gs[c]
    <3>1. c < Calls
      BY <1>3, <2>6
    <3>2. outcome[c] # <<>>
      BY <1>1, <3>1 DEF Control
    <3> QED BY <2>5, <3>2
  <2>7. gt[Calls] = gs[Calls] \o x
    <3>1. Calls \in 1..Calls
      BY <1>3, <2>2
    <3> QED BY <2>2, <2>3, <2>5, <3>1
  <2>8. gs \in Seq(Seq(Symbols)) /\ Len(gs) = Calls /\ Len(gt) = Calls
    BY <1>2, <1>3, <2>4
  <2>9. Flat(gt) = F \o x
    <3> HIDE DEF gs, gt, Calls
    <3>1. Len(gs) > 0 /\ Len(gt) = Len(gs)
      BY <2>2, <2>8
    <3>2. gt[Len(gs)] = gs[Len(gs)] \o x
      BY <2>7, <2>8
    <3>3. \A c \in 1..Len(gs) : c # Len(gs) => gt[c] = gs[c]
      BY <2>6, <2>8
    <3>4. Flat(gt) = Flat(gs) \o x
      BY <2>3, <2>4, <2>8, <3>1, <3>2, <3>3, FlatExtend
    <3> QED BY <3>4 DEF gs, F
  <2>10. Flat(Given(outcome', content')) = Flat(Given(outcome, content)) \o SubSeq(m_streambuffer, 1, Taken)
    BY <2>1, <2>9 DEF x, F
  <2> QED BY <1>1, <2>1, <2>10, KeptConsume
<1>9. CASE ParseDone \/ ParseError
  <2> DEFINE x == SubSeq(b, 1, Taken)
  <2>1. looping /\ m_streambuffer' = Rest /\ UNCHANGED <<sent, wire>>
    BY <1>9 DEF ParseDone, ParseError
  <2>2. PICK kind \in {"ok", "parse", "read"}, v \in {"done", "error"} : Callback(kind, Consumed, v, Rest)
    BY <1>9 DEF ParseDone, ParseError
  <2>3. Calls > 0 /\ (Open <=> verdict = "more")
    BY <2>1, ParseFacts
  <2>4. Taken \in 0..Len(b) /\ (verdict # "more" => Taken = 0)
    BY <1>2, ParserFacts
  <2>5. x \in Seq(Symbols) /\ Len(x) = Taken /\ Consumed \in Seq(Symbols) /\ Consumed = content \o x
    <3>1. x \in Seq(Symbols) /\ Len(x) = Taken
      BY <1>2, <2>4, Cut
    <3> QED BY <1>2, <3>1, Cat DEF Consumed
  <2> HIDE DEF x
  <2>6. outcome[Calls] # <<>> => x = <<>>
    <3>1. outcome[Calls] # <<>> => Taken = 0
      BY <2>3, <2>4 DEF Open
    <3> QED BY <2>5, <3>1, EmptySeq
  <2>7. Flat(Given(outcome', content')) = Flat(Given(outcome, content)) \o x
    <3> HIDE DEF Calls
    <3> QED BY <2>2, <2>3, <2>5, <2>6, CallbackGiven
  <2> QED BY <1>1, <2>1, <2>7, KeptConsume DEF x
<1>10. CASE ReadOk
  <2>1. PICK n \in 1..Len(w) : m_streambuffer' = b \o SubSeq(w, 1, n) /\ wire' = SubSeq(w, n + 1, Len(w))
    BY <1>10 DEF ReadOk
  <2>2. UNCHANGED <<sent, outcome, content>>
    BY <1>10 DEF ReadOk
  <2> DEFINE x == SubSeq(w, 1, n)
             y == SubSeq(w, n + 1, Len(w))
  <2>3. n \in 0..Len(w)
    BY <1>2
  <2>4. x \in Seq(Symbols) /\ y \in Seq(Symbols) /\ x \o y = w
    BY <1>2, <2>3, Cut
  <2> HIDE DEF x, y
  <2>5. F \o b \in Seq(Symbols) /\ F \o (b \o x) = (F \o b) \o x
    <3>1. F \o b \in Seq(Symbols)
      BY <1>2, Cat
    <3>2. F \o (b \o x) = (F \o b) \o x
      BY <1>2, <2>4, Assoc
    <3> QED BY <3>1, <3>2
  <2>6. ((F \o b) \o x) \o y = (F \o b) \o w
    <3>1. ((F \o b) \o x) \o y = (F \o b) \o (x \o y)
      BY <2>4, <2>5, Assoc
    <3> QED BY <2>4, <3>1
  <2>7. Flat(Given(outcome', content')) = F /\ SentAll' = SentAll
    BY <1>4, <2>2 DEF F
  <2>8. (Flat(Given(outcome', content')) \o m_streambuffer') \o wire' = (F \o b) \o w
    BY <2>1, <2>5, <2>6, <2>7 DEF x, y
  <2> QED BY <2>7, <2>8 DEF Kept, F
<1>11. CASE ReadError
  <2>1. reading /\ UNCHANGED <<sent, wire, m_streambuffer>>
    BY <1>11 DEF ReadError
  <2>2. Calls > 0 /\ outcome[Calls] = <<>>
    BY <2>1, ReadingFacts
  <2>3. PICK kind \in {"ok", "parse", "read"}, v \in {verdict, "done", "error"} : Callback(kind, content, v, m_streambuffer)
    BY <1>11 DEF ReadError
  <2>4. <<>> \in Seq(Symbols)
    OBVIOUS
  <2>5. Flat(Given(outcome', content')) = Flat(Given(outcome, content)) \o <<>>
    <3> HIDE DEF Calls
    <3> QED BY <1>2, <1>5, <2>2, <2>3, <2>4, CallbackGiven
  <2> QED BY <1>5, <1>6, <2>1, <2>5 DEF F
<1>12. CASE Send
  <2>1. UNCHANGED <<outcome, content, m_streambuffer>> /\ Len(sent) < MaxMessages
    BY <1>12 DEF Send, reader
  <2>2. PICK shape \in Shapes : sent' = Append(sent, shape) /\ wire' = w \o Tagged(Len(sent) + 1, shape)
    BY <1>12 DEF Send, Tagged
  <2>3. Shapes \subseteq AnyShape /\ sent \in Seq(Shapes)
    BY <1>1 DEF Shapes, AnyShape, TypeOK
  <2> HIDE DEF Shapes, AnyShape
  <2>4. sent \in Seq(AnyShape) /\ shape \in AnyShape
    BY <2>3, SeqMonotonic
  <2> DEFINE n == Len(sent)
             t == Tagged(n + 1, shape)
             e(k) == Tagged(k, sent[k])
             ss == [k \in 1..n |-> e(k)]
  <2>5. n \in Nat /\ MaxMessages \in Nat /\ n < MaxMessages
    BY <2>1, <2>4, ReaderAssumption
  <2>6. \A k \in 1..n : e(k) \in Seq(Symbols)
    <3>1. ASSUME NEW k \in 1..n PROVE e(k) \in Seq(Symbols)
      <4>1. k \in 1..MaxMessages /\ sent[k] \in AnyShape
        BY <2>1, <2>4, <2>5
      <4> QED BY <4>1, TaggedFacts
    <3> QED BY <3>1
  <2>7. t \in Seq(Symbols)
    <3>1. n + 1 \in 1..MaxMessages
      BY <2>5
    <3> QED BY <2>4, <3>1, TaggedFacts
  <2>8. SentAll = ss
    BY DEF SentAll, Message, Tagged
  <2>9. /\ Len(sent') = n + 1 /\ sent'[n + 1] = shape /\ \A k \in 1..n : sent'[k] = sent[k]
    BY <2>2, <2>4
  <2>10. SentAll' = [k \in 1..(n + 1) |-> Tagged(k, sent'[k])]
    BY <2>9 DEF SentAll, Message, Tagged
  <2> HIDE DEF n, t, e
  <2>11. ss \in Seq(Seq(Symbols)) /\ Len(ss) = n /\ \A k \in 1..n : ss[k] = e(k)
    <3> DEFINE S == Seq(Symbols)
    <3>1. \A k \in 1..n : e(k) \in S
      BY <2>6
    <3> HIDE DEF S
    <3>2. ss \in Seq(S) /\ Len(ss) = n
      BY <2>5, <3>1
    <3> QED BY <3>2 DEF S
  <2> HIDE DEF ss
  <2>12. SentAll' = Append(ss, t)
    <3> DEFINE S == Seq(Symbols)
               h(k) == Tagged(k, sent'[k])
               a == Append(ss, t)
               g == [k \in 1..(n + 1) |-> h(k)]
    <3>1. a \in Seq(S) /\ Len(a) = Len(ss) + 1 /\ a[Len(ss) + 1] = t /\ \A k \in 1..Len(ss) : a[k] = ss[k]
      <4>1. ss \in Seq(S) /\ t \in S
        BY <2>7, <2>11
      <4> HIDE DEF S
      <4> QED BY <4>1
    <3> HIDE DEF a
    <3>2. ASSUME NEW k \in 1..(n + 1) PROVE h(k) = a[k]
      <4>1. CASE k = n + 1
        BY <2>9, <2>11, <3>1, <4>1 DEF t
      <4>2. CASE k # n + 1
        <5>1. k \in 1..n
          BY <2>5, <4>2
        <5> QED BY <2>9, <2>11, <3>1, <5>1 DEF e
      <4> QED BY <4>1, <4>2
    <3> HIDE DEF h, S
    <3>3. \A k \in 1..(n + 1) : a[k] \in S
      BY <2>11, <3>1
    <3>4. g \in Seq(S) /\ Len(g) = n + 1 /\ \A k \in 1..(n + 1) : g[k] = a[k]
      BY <2>5, <3>2, <3>3
    <3> HIDE DEF g
    <3>5. g = a
      BY <2>11, <3>1, <3>4, SeqEqual
    <3> QED BY <2>10, <3>5 DEF g, h, a
  <2>13. Flat(SentAll') = Flat(ss) \o t
    BY <2>7, <2>11, <2>12, FlatAppend
  <2>14. (F \o b) \o (w \o t) = ((F \o b) \o w) \o t
    <3>1. F \o b \in Seq(Symbols)
      BY <1>2, Cat
    <3> QED BY <1>2, <2>7, <3>1, Assoc
  <2>15. Flat(Given(outcome', content')) = F
    BY <2>1 DEF F
  <2>16. (F \o b) \o w = Flat(ss)
    BY <2>8 DEF Kept, F
  <2>17. (Flat(Given(outcome', content')) \o m_streambuffer') \o wire' = (F \o b) \o (w \o t)
    BY <2>1, <2>2, <2>15 DEF n, t
  <2> QED BY <2>13, <2>14, <2>16, <2>17 DEF Kept
<1>13. CASE Close
  BY <1>6, <1>13 DEF Close, reader, F
<1>14. CASE UNCHANGED vars
  BY <1>6, <1>14 DEF vars, reader, F
<1>15. CASE ReadNothing
  BY <1>6, <1>15 DEF ReadNothing, F
<1> QED BY <1>7, <1>8, <1>9, <1>10, <1>11, <1>12, <1>13, <1>14, <1>15 DEF Next, Parse

\* What callbacks have handed over, the unfinished message, the buffer and the
\* wire hold every symbol sent, once and in order, after errors too.
THEOREM NothingLostHolds ==
  Spec => []NothingLost
<1>1. Init => Kept
  <2> SUFFICES ASSUME Init PROVE Kept
    OBVIOUS
  <2>1. outcome = <<>> /\ content = <<>> /\ m_streambuffer = <<>> /\ wire = <<>> /\ sent = <<>>
    BY DEF Init, NewParser
  <2>2. Given(outcome, content) = <<>> /\ SentAll = <<>>
    BY <2>1 DEF Given, SentAll
  <2>3. Flat(<<>>) \in Seq(Symbols)
    <3>1. <<>> \in Seq(Seq(Symbols)) /\ <<>> \in Seq(Symbols)
      OBVIOUS
    <3> QED BY <3>1, FlatAppend
  <2>4. Flat(<<>>) \o <<>> = Flat(<<>>)
    BY <2>3, ConcatEmptySeq
  <2> QED BY <2>1, <2>2, <2>4 DEF Kept
<1>2. IInv /\ Kept /\ [Next]_vars => Kept'
  BY StepKept
<1>3. IInv /\ Kept => NothingLost
  BY DEF Kept, NothingLost, Given, SentAll, Calls
<1> QED BY <1>1, <1>2, <1>3, Invariance, PTL DEF Spec

=============================================================================
