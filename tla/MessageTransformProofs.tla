----------------------- MODULE MessageTransformProofs -----------------------
(***************************************************************************)
(* Proofs about MessageTransform, for any header names, any number of      *)
(* lines and any way they are cut into callbacks.                          *)
(*                                                                         *)
(* The loops of copy_except and remove_hop_by_hop are recursive functions; *)
(* what they compute is shown by induction on the number of turns, in the  *)
(* form of the least-number principle.  As long as no two fields of a      *)
(* vector have the same key, the order of its fields is of no matter to    *)
(* the properties of the message sent on, and the operations of            *)
(* HeaderFields are operations on the set of its fields.                   *)
(***************************************************************************)
EXTENDS MessageTransform, FiniteSetTheorems, SequenceTheorems, WellFoundedInduction,
        NaturalsInduction, TLAPS

AnyName == Names \cup ProxySets \cup {"GARBLED"}

Kinds == {"line", "size", "CLOSE", "identity", "", "uri"}
Values == [kind : Kinds, of : Seq(Nat)]

Fields == [key : [name : AnyName, upper : {TRUE}], value : Values]

FieldLists == Seq(Fields)

\* No two fields have the same key.
Unique(fs) == \A i, j \in 1..Len(fs) : fs[i].key = fs[j].key => i = j

UniqueLists == {fs \in FieldLists : Unique(fs)}

\* The fields of a vector; those without a key.
FieldsOf(fs) == {fs[i] : i \in 1..Len(fs)}
Without(fields_, name) == {f \in fields_ : f.key # Up(name)}

-----------------------------------------------------------------------------
(* Numbers and keys.                                                        *)

\* The least-number principle.
LEMMA LeastNumber ==
  ASSUME NEW T \in SUBSET Nat, T # {}
  PROVE  \E x \in T : \A y \in T : x <= y
<1>1. PICK x \in T : \A y \in T : ~(<<y, x>> \in OpToRel(<, Nat))
  BY NatLessThanWellFounded, WFMin
<1>2. \A y \in T : ~(y < x)
  BY <1>1 DEF OpToRel
<1> QED
  BY <1>2

\* Induction up to n, for a property given as the set of what has it.
LEMMA UpTo ==
  ASSUME NEW n \in Nat, NEW P, 0 \in P, \A k \in 1..n : k - 1 \in P => k \in P
  PROVE  \A k \in 0..n : k \in P
<1> DEFINE T == {k \in 0..n : k \notin P}
<1>1. T = {}
  <2> SUFFICES ASSUME T # {} PROVE FALSE
    OBVIOUS
  <2>1. T \in SUBSET Nat
    OBVIOUS
  <2>2. PICK k \in T : \A y \in T : k <= y
    BY <2>1, LeastNumber
  <2>3. k # 0
    BY <2>2
  <2>4. k \in 1..n /\ k - 1 \in 0..n /\ ~(k <= k - 1)
    BY <2>2, <2>3
  <2>5. k - 1 \in P
    BY <2>2, <2>4
  <2> QED
    BY <2>2, <2>4, <2>5
<1> QED
  BY <1>1

\* The least element of a set of numbers.
LEMMA MinFacts ==
  ASSUME NEW T \in SUBSET Nat, T # {}
  PROVE  Min(T) \in T /\ \A y \in T : Min(T) <= y
<1>1. \E x \in T : \A y \in T : x <= y
  BY LeastNumber
<1> QED
  BY <1>1 DEF Min

\* A key is its name in upper case.
LEMMA Keys ==
  /\ \A f \in Fields : f.key = Up(f.key.name) /\ f.key.name \in AnyName /\ f.value \in Values
  /\ \A n, m : Up(n) = Up(m) => n = m
  /\ \A n \in AnyName, v \in Values : Field(Up(n), v) \in Fields
  /\ \A n, v : Field(Up(n), v).key = Up(n) /\ Field(Up(n), v).value = v /\ Up(n).name = n
<1>1. \A f \in Fields : f.key = Up(f.key.name) /\ f.key.name \in AnyName /\ f.value \in Values
  BY DEF Fields, Up, Spelled
<1>2. ASSUME NEW n, NEW m, Up(n) = Up(m) PROVE n = m
  <2>1. Up(n).name = n /\ Up(m).name = m
    BY DEF Up, Spelled
  <2> QED
    BY <1>2, <2>1
<1>3. \A n \in AnyName, v \in Values : Field(Up(n), v) \in Fields
  BY DEF Fields, Field, Up, Spelled
<1>4. \A n, v : Field(Up(n), v).key = Up(n) /\ Field(Up(n), v).value = v /\ Up(n).name = n
  BY DEF Field, Up, Spelled
<1> QED
  BY <1>1, <1>2, <1>3, <1>4

-----------------------------------------------------------------------------
(* HeaderFields.                                                            *)

\* find_at_index finds the first field with the key, and 0 when there is none.
LEMMA FindFacts ==
  ASSUME NEW fs \in FieldLists, NEW n
  PROVE  /\ FindAtIndex(fs, n) \in 0..Len(fs)
         /\ FindAtIndex(fs, n) = 0 <=> \A i \in 1..Len(fs) : fs[i].key # Up(n)
         /\ FindAtIndex(fs, n) # 0 => fs[FindAtIndex(fs, n)].key = Up(n)
<1> DEFINE I == {i \in 1..Len(fs) : fs[i].key = Up(n)}
<1>1. FindAtIndex(fs, n) = IF I # {} THEN Min(I) ELSE 0
  BY DEF FindAtIndex, SelectInSeq
<1>2. Len(fs) \in Nat
  BY DEF FieldLists
<1>3. CASE I = {}
  BY <1>1, <1>2, <1>3
<1>4. CASE I # {}
  <2>1. I \in SUBSET Nat
    BY <1>2
  <2>2. Min(I) \in I
    BY <1>4, <2>1, MinFacts
  <2> QED
    BY <1>1, <1>2, <1>4, <2>2
<1> QED
  BY <1>3, <1>4

\* set_at_key keeps keys apart, and puts its field where there was one with
\* the key, or behind all.
LEMMA SetAtKeyFacts ==
  ASSUME NEW fs \in FieldLists, Unique(fs), NEW n \in AnyName, NEW v \in Values
  PROVE  /\ SetAtKey(fs, n, v) \in FieldLists
         /\ Unique(SetAtKey(fs, n, v))
         /\ FieldsOf(SetAtKey(fs, n, v)) = Without(FieldsOf(fs), n) \cup {Field(Up(n), v)}
<1> DEFINE x == Field(Up(n), v)
           gs == SetAtKey(fs, n, v)
           p == FindAtIndex(fs, n)
<1>1. x \in Fields /\ x.key = Up(n)
  BY Keys
<1> HIDE DEF x
<1>2. Len(fs) \in Nat /\ \A i \in 1..Len(fs) : fs[i] \in Fields
  BY DEF FieldLists
<1>3. CASE p = 0
  <2>1. gs = Append(fs, x)
    BY <1>3 DEF SetAtKey, Has, x
  <2>2. \A i \in 1..Len(fs) : fs[i].key # Up(n)
    BY <1>3, FindFacts
  <2>3. /\ Len(gs) = Len(fs) + 1 /\ gs \in FieldLists
        /\ gs[Len(fs) + 1] = x /\ \A i \in 1..Len(fs) : gs[i] = fs[i]
    BY <1>1, <2>1 DEF FieldLists
  <2> HIDE DEF gs
  <2>4. \A i \in 1..Len(gs) : i \in 1..Len(fs) \/ i = Len(fs) + 1
    BY <1>2, <2>3
  <2>5. Len(fs) + 1 \in 1..Len(gs) /\ \A i \in 1..Len(fs) : i \in 1..Len(gs)
    BY <1>2, <2>3
  <2>6. Unique(gs)
    <3> SUFFICES ASSUME NEW i \in 1..Len(gs), NEW j \in 1..Len(gs), gs[i].key = gs[j].key
                 PROVE  i = j
      BY DEF Unique
    <3> QED
      BY <1>1, <2>2, <2>3, <2>4 DEF Unique
  <2>7. FieldsOf(gs) = Without(FieldsOf(fs), n) \cup {x}
    <3>1. \A i \in 1..Len(gs) : gs[i] \in Without(FieldsOf(fs), n) \cup {x}
      BY <2>2, <2>3, <2>4 DEF FieldsOf, Without
    <3>2. \A f \in Without(FieldsOf(fs), n) \cup {x} : \E i \in 1..Len(gs) : f = gs[i]
      BY <2>3, <2>5 DEF FieldsOf, Without
    <3> QED
      BY <3>1, <3>2 DEF FieldsOf
  <2> QED
    BY <2>3, <2>6, <2>7 DEF gs, x
<1>4. CASE p # 0
  <2>1. p \in 1..Len(fs) /\ fs[p].key = Up(n)
    BY <1>2, <1>4, FindFacts
  <2>2. gs = [fs EXCEPT ![p] = x]
    BY <1>4 DEF SetAtKey, Has, ReplaceAt, x
  <2> HIDE DEF p
  <2>3. /\ Len(gs) = Len(fs) /\ gs \in FieldLists
        /\ gs[p] = x /\ \A i \in 1..Len(fs) : i # p => gs[i] = fs[i]
    BY <1>1, <2>1, <2>2 DEF FieldLists
  <2> HIDE DEF gs
  <2>4. \A i \in 1..Len(fs) : gs[i].key = fs[i].key
    BY <1>1, <2>1, <2>3
  <2>5. \A i \in 1..Len(fs) : fs[i].key = Up(n) => i = p
    BY <2>1 DEF Unique
  <2>6. Unique(gs)
    BY <2>3, <2>4 DEF Unique
  <2>7. FieldsOf(gs) = Without(FieldsOf(fs), n) \cup {x}
    <3>1. \A i \in 1..Len(gs) : gs[i] \in Without(FieldsOf(fs), n) \cup {x}
      BY <2>3, <2>5 DEF FieldsOf, Without
    <3>2. \A f \in Without(FieldsOf(fs), n) \cup {x} : \E i \in 1..Len(gs) : f = gs[i]
      BY <2>1, <2>3 DEF FieldsOf, Without
    <3> QED
      BY <3>1, <3>2 DEF FieldsOf
  <2> QED
    BY <2>3, <2>6, <2>7 DEF gs, x
<1> QED
  BY <1>3, <1>4

\* remove_at_key takes the field with the key out, if there is one.
LEMMA RemoveAtKeyFacts ==
  ASSUME NEW fs \in FieldLists, Unique(fs), NEW n
  PROVE  /\ RemoveAtKey(fs, n) \in FieldLists
         /\ Unique(RemoveAtKey(fs, n))
         /\ FieldsOf(RemoveAtKey(fs, n)) = Without(FieldsOf(fs), n)
<1> DEFINE gs == RemoveAtKey(fs, n)
           p == FindAtIndex(fs, n)
<1>1. Len(fs) \in Nat /\ \A i \in 1..Len(fs) : fs[i] \in Fields
  BY DEF FieldLists
<1>2. CASE p = 0
  <2>1. gs = fs
    BY <1>2 DEF RemoveAtKey, Has
  <2>2. \A i \in 1..Len(fs) : fs[i].key # Up(n)
    BY <1>2, FindFacts
  <2>3. FieldsOf(fs) = Without(FieldsOf(fs), n)
    BY <2>2 DEF FieldsOf, Without
  <2> QED
    BY <2>1, <2>3
<1>3. CASE p # 0
  <2>1. p \in 1..Len(fs) /\ fs[p].key = Up(n)
    BY <1>1, <1>3, FindFacts
  <2>2. gs = SubSeq(fs, 1, p - 1) \o SubSeq(fs, p + 1, Len(fs))
    BY <1>3 DEF RemoveAtKey, Has, RemoveAt
  <2> HIDE DEF p
  <2> DEFINE a == SubSeq(fs, 1, p - 1)
             b == SubSeq(fs, p + 1, Len(fs))
  <2>3. a \in FieldLists /\ Len(a) = p - 1 /\ \A i \in 1..p - 1 : a[i] = fs[i]
    BY <2>1 DEF FieldLists
  <2>4. b \in FieldLists /\ Len(b) = Len(fs) - p /\ \A i \in 1..Len(fs) - p : b[i] = fs[p + i]
    BY <2>1 DEF FieldLists
  <2> HIDE DEF a, b
  <2>5. gs \in FieldLists /\ Len(gs) = Len(fs) - 1
        /\ \A i \in 1..Len(fs) - 1 : gs[i] = IF i < p THEN a[i] ELSE b[i - (p - 1)]
    <3>1. gs = a \o b
      BY <2>2 DEF a, b
    <3> HIDE DEF gs
    <3>2. gs \in FieldLists
      BY <2>3, <2>4, <3>1 DEF FieldLists
    <3>3. Len(gs) = Len(a) + Len(b)
      BY <2>3, <2>4, <3>1 DEF FieldLists
    <3>4. \A i \in 1..Len(a) + Len(b) : gs[i] = IF i <= Len(a) THEN a[i] ELSE b[i - Len(a)]
      BY <2>3, <2>4, <3>1 DEF FieldLists
    <3>5. Len(gs) = Len(fs) - 1 /\ Len(a) + Len(b) = Len(fs) - 1
      BY <1>1, <2>1, <2>3, <2>4, <3>3
    <3>6. \A i \in 1..Len(fs) - 1 : (i <= p - 1) <=> (i < p)
      BY <1>1, <2>1
    <3> QED
      BY <2>3, <3>2, <3>4, <3>5, <3>6
  <2> HIDE DEF gs
  <2>6. \A i \in 1..Len(gs) : i < p => gs[i] = fs[i]
    BY <1>1, <2>1, <2>3, <2>5
  <2>7. \A i \in 1..Len(gs) : ~(i < p) => gs[i] = fs[i + 1]
    <3> SUFFICES ASSUME NEW i \in 1..Len(gs), ~(i < p) PROVE gs[i] = fs[i + 1]
      OBVIOUS
    <3>1. PICK k \in 1..Len(fs) - p : k = i - (p - 1)
      BY <1>1, <2>1, <2>5
    <3>2. p + k = i + 1
      BY <1>1, <2>1, <2>5, <3>1
    <3>3. gs[i] = b[k]
      BY <2>5, <3>1
    <3> QED
      BY <2>4, <3>2, <3>3
  <2>8. \A i \in 1..Len(gs) : i \in 1..Len(fs) /\ i + 1 \in 1..Len(fs)
    BY <1>1, <2>5
  <2>9. \A i \in 1..Len(fs) : fs[i].key = Up(n) => i = p
    BY <2>1 DEF Unique
  <2>10. Unique(gs)
    <3> SUFFICES ASSUME NEW i \in 1..Len(gs), NEW j \in 1..Len(gs), gs[i].key = gs[j].key
                 PROVE  i = j
      BY DEF Unique
    <3>1. PICK k \in 1..Len(fs) : gs[i] = fs[k] /\ k = IF i < p THEN i ELSE i + 1
      BY <2>6, <2>7, <2>8
    <3>2. PICK m \in 1..Len(fs) : gs[j] = fs[m] /\ m = IF j < p THEN j ELSE j + 1
      BY <2>6, <2>7, <2>8
    <3>3. k = m
      BY <3>1, <3>2 DEF Unique
    <3> QED
      BY <1>1, <2>1, <2>5, <3>1, <3>2, <3>3
  <2>11. FieldsOf(gs) = Without(FieldsOf(fs), n)
    <3>1. ASSUME NEW i \in 1..Len(gs) PROVE gs[i] \in Without(FieldsOf(fs), n)
      <4>1. PICK k \in 1..Len(fs) : gs[i] = fs[k] /\ k = IF i < p THEN i ELSE i + 1
        BY <2>6, <2>7, <2>8
      <4>2. k # p
        BY <1>1, <2>1, <2>5, <4>1
      <4> QED
        BY <2>9, <4>1, <4>2 DEF FieldsOf, Without
    <3>2. ASSUME NEW k \in 1..Len(fs), fs[k].key # Up(n)
          PROVE  \E i \in 1..Len(gs) : fs[k] = gs[i]
      <4>1. k # p
        BY <2>1, <3>2
      <4>2. CASE k < p
        <5>1. k \in 1..Len(gs)
          BY <1>1, <2>1, <2>5, <4>2
        <5> QED
          BY <2>6, <4>2, <5>1
      <4>3. CASE ~(k < p)
        <5>1. PICK i \in 1..Len(gs) : k = i + 1 /\ ~(i < p)
          <6>1. k - 1 \in 1..Len(gs) /\ k = (k - 1) + 1 /\ ~(k - 1 < p)
            BY <1>1, <2>1, <2>5, <4>1, <4>3
          <6> QED
            BY <6>1
        <5> QED
          BY <2>7, <5>1
      <4> QED
        BY <4>2, <4>3
    <3> QED
      BY <3>1, <3>2 DEF FieldsOf, Without
  <2> QED
    BY <2>5, <2>10, <2>11 DEF gs
<1> QED
  BY <1>2, <1>3

\* A loop of n turns over the vectors, each of which is a function: there is
\* the sequence of what it leaves after each turn.
LEMMA Turns ==
  ASSUME NEW n \in Nat, NEW start \in UniqueLists,
         NEW turn \in [1..n -> [UniqueLists -> UniqueLists]]
  PROVE  \E g \in [0..n -> UniqueLists] :
           g[0] = start /\ \A k \in 1..n : g[k] = turn[k][g[k - 1]]
<1> DEFINE Some(m) == \E g \in [0..m -> UniqueLists] :
                        g[0] = start /\ \A k \in 1..m : g[k] = turn[k][g[k - 1]]
           P == {m \in 0..n : Some(m)}
<1>1. Some(0)
  <2> DEFINE g == [k \in 0..0 |-> start]
  <2>1. g \in [0..0 -> UniqueLists] /\ g[0] = start /\ \A k \in 1..0 : g[k] = turn[k][g[k - 1]]
    OBVIOUS
  <2> QED
    BY <2>1
<1>2. ASSUME NEW m \in 1..n, Some(m - 1) PROVE Some(m)
  <2>1. PICK h \in [0..m - 1 -> UniqueLists] :
          h[0] = start /\ \A k \in 1..m - 1 : h[k] = turn[k][h[k - 1]]
    BY <1>2
  <2>2. m \in Nat /\ m - 1 \in 0..m - 1 /\ h[m - 1] \in UniqueLists
    BY <2>1
  <2> DEFINE x == turn[m][h[m - 1]]
             g == [k \in 0..m |-> IF k = m THEN x ELSE h[k]]
  <2>3. x \in UniqueLists
    BY <2>2
  <2> HIDE DEF x
  <2>4. \A k \in 0..m : k # m => k \in 0..m - 1
    BY <2>2
  <2>5. g \in [0..m -> UniqueLists]
    BY <2>3, <2>4
  <2>6. g[m] = x /\ \A k \in 0..m - 1 : g[k] = h[k]
    BY <2>2
  <2> HIDE DEF g
  <2>7. g[0] = start
    BY <2>1, <2>2, <2>6
  <2>8. ASSUME NEW k \in 1..m PROVE g[k] = turn[k][g[k - 1]]
    <3>1. CASE k = m
      BY <2>2, <2>6, <3>1 DEF x
    <3>2. CASE k # m
      <4>1. k \in 1..m - 1 /\ k \in 0..m - 1 /\ k - 1 \in 0..m - 1
        BY <2>2, <3>2
      <4> QED
        BY <2>1, <2>6, <4>1
    <3> QED
      BY <3>1, <3>2
  <2> QED
    BY <2>5, <2>7, <2>8
<1> HIDE DEF Some
<1>3. 0 \in P
  BY <1>1
<1>4. ASSUME NEW k \in 1..n, k - 1 \in P PROVE k \in P
  BY <1>2, <1>4
<1> HIDE DEF P
<1>5. n \in P
  <2>1. \A k \in 0..n : k \in P
    BY <1>3, <1>4, UpTo
  <2> QED
    BY <2>1
<1> QED
  BY <1>5 DEF P, Some

\* What copy_except leaves in a vector whose keys differ: fields that were
\* there or that it copied, and one for every key it had to copy.
LEMMA CopyExceptFacts ==
  ASSUME NEW source \in FieldLists, NEW dest \in FieldLists, Unique(dest), NEW list
  PROVE  LET gs == CopyExcept(source, dest, list)
         IN  /\ gs \in FieldLists /\ Unique(gs)
             /\ \A f \in FieldsOf(gs) :
                  f \in FieldsOf(dest) \/ (f \in FieldsOf(source) /\ f.key \notin list)
             /\ \A f \in FieldsOf(source) :
                  f.key \notin list => \E g \in FieldsOf(gs) : g.key = f.key
<1> DEFINE n == Len(source)
           Turn(k, fs) == IF source[k].key \in list THEN fs
                          ELSE SetAtKey(fs, source[k].key.name, source[k].value)
           turn == [k \in 1..n |-> [fs \in UniqueLists |-> Turn(k, fs)]]
           Loop(h) == [k \in 0..n |-> IF k = 0 THEN dest
                                      ELSE IF source[k].key \in list THEN h[k - 1]
                                      ELSE SetAtKey(h[k - 1], source[k].key.name, source[k].value)]
           F == CHOOSE h : h = Loop(h)
<1>1. n \in Nat /\ \A k \in 1..n : source[k] \in Fields
  BY DEF FieldLists
<1>2. \A k \in 1..n : source[k].key = Up(source[k].key.name)
                      /\ source[k].key.name \in AnyName /\ source[k].value \in Values
  BY <1>1, Keys
<1>3. ASSUME NEW k \in 1..n, NEW fs \in UniqueLists
      PROVE  /\ Turn(k, fs) \in UniqueLists
             /\ source[k].key \in list => FieldsOf(Turn(k, fs)) = FieldsOf(fs)
             /\ source[k].key \notin list =>
                  \E g : /\ FieldsOf(Turn(k, fs)) = Without(FieldsOf(fs), source[k].key.name) \cup {g}
                         /\ g = source[k]
  <2>1. Field(Up(source[k].key.name), source[k].value) = source[k]
    BY <1>1, <1>2 DEF Fields, Field
  <2>2. CASE source[k].key \in list
    BY <2>2
  <2>3. CASE source[k].key \notin list
    <3>1. Turn(k, fs) = SetAtKey(fs, source[k].key.name, source[k].value)
      BY <2>3
    <3>2. fs \in FieldLists /\ Unique(fs)
      BY DEF UniqueLists
    <3> QED
      BY <1>2, <2>1, <2>3, <3>1, <3>2, SetAtKeyFacts DEF UniqueLists
  <2> QED
    BY <2>2, <2>3
<1>4. turn \in [1..n -> [UniqueLists -> UniqueLists]]
  BY <1>3
<1>5. dest \in UniqueLists
  BY DEF UniqueLists
<1>6. PICK g \in [0..n -> UniqueLists] : g[0] = dest /\ \A k \in 1..n : g[k] = turn[k][g[k - 1]]
  <2> HIDE DEF turn, n
  <2> QED
    BY <1>1, <1>4, <1>5, Turns
<1>7. \A k \in 1..n : k - 1 \in 0..n /\ k \in 0..n /\ g[k - 1] \in UniqueLists /\ g[k] = Turn(k, g[k - 1])
  <2> SUFFICES ASSUME NEW k \in 1..n
               PROVE  k - 1 \in 0..n /\ k \in 0..n /\ g[k - 1] \in UniqueLists /\ g[k] = Turn(k, g[k - 1])
    OBVIOUS
  <2>1. k - 1 \in 0..n /\ k \in 0..n
    BY <1>1
  <2>2. g[k - 1] \in UniqueLists
    BY <1>6, <2>1
  <2>3. turn[k][g[k - 1]] = Turn(k, g[k - 1])
    BY <2>2
  <2> HIDE DEF turn, Turn
  <2> QED
    BY <1>6, <2>1, <2>2, <2>3
<1>8. g = Loop(g)
  <2>1. ASSUME NEW k \in 0..n PROVE g[k] = Loop(g)[k]
    <3>1. CASE k = 0
      BY <1>6, <3>1
    <3>2. CASE k # 0
      <4>1. k \in 1..n
        BY <1>1, <3>2
      <4> QED
        BY <1>7, <3>2, <4>1
    <3> QED
      BY <3>1, <3>2
  <2>2. g = [k \in 0..n |-> g[k]] /\ Loop(g) = [k \in 0..n |-> Loop(g)[k]]
    BY <1>6
  <2> HIDE DEF Loop
  <2> QED
    BY <2>1, <2>2
<1>9. F = Loop(F)
  BY <1>8
<1>10. CopyExcept(source, dest, list) = F[n]
  BY DEF CopyExcept
<1> HIDE DEF F
<1> DEFINE P == {k \in 0..n : F[k] = g[k]}
<1>11. \A k \in 0..n : F[k] = g[k]
  <2>1. 0 \in P
    BY <1>1, <1>6, <1>9
  <2>2. ASSUME NEW k \in 1..n, k - 1 \in P PROVE k \in P
    <3>1. k \in 0..n /\ k # 0 /\ F[k - 1] = g[k - 1]
      BY <1>1, <2>2
    <3>2. Loop(F)[k] = Turn(k, F[k - 1])
      BY <3>1
    <3> QED
      BY <1>7, <1>9, <3>1, <3>2
  <2> HIDE DEF P
  <2>3. \A k \in 0..n : k \in P
    BY <1>1, <2>1, <2>2, UpTo
  <2> QED
    BY <2>3 DEF P
<1> DEFINE Good(k) ==
             /\ \A f \in FieldsOf(g[k]) :
                  f \in FieldsOf(dest) \/ (f \in FieldsOf(source) /\ f.key \notin list)
             /\ \A i \in 1..k :
                  source[i].key \notin list => \E f \in FieldsOf(g[k]) : f.key = source[i].key
           Q == {k \in 0..n : Good(k)}
<1>12. Good(0)
  BY <1>6
<1>13. ASSUME NEW k \in 1..n, Good(k - 1) PROVE Good(k)
  <2>1. \A i \in 1..k : i \in 1..k - 1 \/ i = k
    OBVIOUS
  <2>2. source[k] \in FieldsOf(source)
    BY DEF FieldsOf
  <2>3. g[k] = Turn(k, g[k - 1]) /\ g[k - 1] \in UniqueLists
    BY <1>7
  <2>4. CASE source[k].key \in list
    <3>1. g[k] = g[k - 1]
      BY <2>3, <2>4
    <3> QED
      BY <1>13, <2>1, <2>4, <3>1
  <2>5. CASE source[k].key \notin list
    <3>1. FieldsOf(g[k]) = Without(FieldsOf(g[k - 1]), source[k].key.name) \cup {source[k]}
      <4> HIDE DEF Turn
      <4> QED
        BY <1>3, <2>3, <2>5
    <3>2. \A f \in FieldsOf(g[k]) :
            f \in FieldsOf(dest) \/ (f \in FieldsOf(source) /\ f.key \notin list)
      BY <1>13, <2>2, <2>5, <3>1 DEF Without
    <3>3. ASSUME NEW i \in 1..k, source[i].key \notin list
          PROVE  \E f \in FieldsOf(g[k]) : f.key = source[i].key
      <4>1. CASE source[i].key = source[k].key
        BY <3>1, <4>1
      <4>2. CASE source[i].key # source[k].key
        <5>1. PICK f \in FieldsOf(g[k - 1]) : f.key = source[i].key
          BY <1>13, <2>1, <3>3, <4>2
        <5>2. f \in FieldsOf(g[k])
          BY <1>2, <3>1, <4>2, <5>1 DEF Without
        <5> QED
          BY <5>1, <5>2
      <4> QED
        BY <4>1, <4>2
    <3> QED
      BY <3>2, <3>3
  <2> QED
    BY <2>4, <2>5
<1> HIDE DEF Good
<1>14. Good(n)
  <2>1. 0 \in Q
    BY <1>1, <1>12
  <2>2. ASSUME NEW k \in 1..n, k - 1 \in Q PROVE k \in Q
    BY <1>1, <1>13, <2>2
  <2> HIDE DEF Q
  <2>3. \A k \in 0..n : k \in Q
    BY <1>1, <2>1, <2>2, UpTo
  <2>4. n \in Q
    BY <1>1, <2>3
  <2> QED
    BY <2>4 DEF Q
<1>15. CopyExcept(source, dest, list) = g[n] /\ g[n] \in UniqueLists
  <2>1. n \in 0..n
    BY <1>1
  <2> QED
    BY <1>6, <1>10, <1>11, <2>1
<1> QED
  BY <1>14, <1>15 DEF Good, FieldsOf, UniqueLists

\* SetToSeq enumerates a finite set.
LEMMA TokensFacts ==
  ASSUME NEW S, IsFiniteSet(S)
  PROVE  /\ SetToSeq(S) \in Seq(S)
         /\ \A x \in S : \E i \in 1..Len(SetToSeq(S)) : SetToSeq(S)[i] = x
<1> DEFINE n == Cardinality(S)
           t == SetToSeq(S)
<1>1. n \in Nat /\ ExistsBijection(1..n, S)
  BY FS_CardinalityType
<1>2. PICK b : b \in Bijection(1..n, S)
  BY <1>1 DEF ExistsBijection
<1>3. b \in [1..n -> S] /\ IsInjective(b)
  BY <1>2 DEF Bijection, Injection
<1>4. t \in [1..n -> S] /\ IsInjective(t)
  BY <1>3 DEF SetToSeq
<1> HIDE DEF t, n
<1>5. t \in Injection(1..n, S)
  BY <1>4 DEF Injection
<1>6. IsFiniteSet(1..n) /\ Cardinality(1..n) = n
  <2>1. 1 \in Int /\ n \in Int
    BY <1>1
  <2>2. IsFiniteSet(1..n) /\ Cardinality(1..n) = IF 1 > n THEN 0 ELSE n - 1 + 1
    BY <2>1, FS_Interval
  <2> QED
    BY <1>1, <2>2
<1>7. t \in Surjection(1..n, S)
  BY <1>5, <1>6, FS_Injection DEF n
<1>8. t \in Seq(S) /\ Len(t) = n
  BY <1>1, <1>4
<1> QED
  BY <1>7, <1>8 DEF Surjection, t

\* What remove_hop_by_hop leaves of a vector whose keys differ: the fields
\* with no key among the tokens of Connection.
LEMMA RemoveHopByHopFacts ==
  ASSUME NEW dest \in UniqueLists, IsFiniteSet(Listed)
  PROVE  /\ RemoveHopByHop(dest) \in UniqueLists
         /\ FieldsOf(RemoveHopByHop(dest)) =
              {f \in FieldsOf(dest) : \A m \in Listed : f.key # Up(m)}
<1> DEFINE tokens == SetToSeq(Listed)
           n == Len(tokens)
           turn == [k \in 1..n |-> [fs \in UniqueLists |-> RemoveAtKey(fs, tokens[k])]]
           Loop(h) == [k \in 0..n |-> IF k = 0 THEN dest ELSE RemoveAtKey(h[k - 1], tokens[k])]
           F == CHOOSE h : h = Loop(h)
<1>1. n \in Nat /\ (\A k \in 1..n : tokens[k] \in Listed)
      /\ \A m \in Listed : \E k \in 1..n : tokens[k] = m
  BY TokensFacts
<1>2. RemoveHopByHop(dest) = F[n]
  BY DEF RemoveHopByHop
<1> HIDE DEF tokens, n
<1>3. ASSUME NEW fs \in UniqueLists, NEW m
      PROVE  RemoveAtKey(fs, m) \in UniqueLists
             /\ FieldsOf(RemoveAtKey(fs, m)) = Without(FieldsOf(fs), m)
  BY RemoveAtKeyFacts DEF UniqueLists
<1>4. turn \in [1..n -> [UniqueLists -> UniqueLists]]
  BY <1>3
<1>5. PICK g \in [0..n -> UniqueLists] : g[0] = dest /\ \A k \in 1..n : g[k] = turn[k][g[k - 1]]
  <2> HIDE DEF turn
  <2> QED
    BY <1>1, <1>4, Turns
<1>6. \A k \in 1..n : k - 1 \in 0..n /\ k \in 0..n /\ g[k - 1] \in UniqueLists
                      /\ g[k] = RemoveAtKey(g[k - 1], tokens[k])
  <2> SUFFICES ASSUME NEW k \in 1..n
               PROVE  k - 1 \in 0..n /\ k \in 0..n /\ g[k - 1] \in UniqueLists
                      /\ g[k] = RemoveAtKey(g[k - 1], tokens[k])
    OBVIOUS
  <2>1. k - 1 \in 0..n /\ k \in 0..n
    BY <1>1
  <2>2. g[k - 1] \in UniqueLists
    BY <1>5, <2>1
  <2>3. turn[k][g[k - 1]] = RemoveAtKey(g[k - 1], tokens[k])
    BY <2>2
  <2> HIDE DEF turn
  <2> QED
    BY <1>5, <2>1, <2>2, <2>3
<1>7. g = Loop(g)
  <2>1. ASSUME NEW k \in 0..n PROVE g[k] = Loop(g)[k]
    <3>1. CASE k = 0
      BY <1>5, <3>1
    <3>2. CASE k # 0
      <4>1. k \in 1..n
        BY <1>1, <3>2
      <4> QED
        BY <1>6, <3>2, <4>1
    <3> QED
      BY <3>1, <3>2
  <2>2. g = [k \in 0..n |-> g[k]] /\ Loop(g) = [k \in 0..n |-> Loop(g)[k]]
    BY <1>5
  <2> HIDE DEF Loop
  <2> QED
    BY <2>1, <2>2
<1>8. F = Loop(F)
  BY <1>7
<1> HIDE DEF F
<1> DEFINE P == {k \in 0..n : F[k] = g[k]}
           Left(k) == {f \in FieldsOf(dest) : \A i \in 1..k : f.key # Up(tokens[i])}
           Q == {k \in 0..n : FieldsOf(g[k]) = Left(k)}
<1>9. \A k \in 0..n : F[k] = g[k]
  <2>1. 0 \in P
    BY <1>1, <1>5, <1>8
  <2>2. ASSUME NEW k \in 1..n, k - 1 \in P PROVE k \in P
    <3>1. k \in 0..n /\ k # 0 /\ F[k - 1] = g[k - 1]
      BY <1>1, <2>2
    <3>2. Loop(F)[k] = RemoveAtKey(F[k - 1], tokens[k])
      BY <3>1
    <3> QED
      BY <1>6, <1>8, <3>1, <3>2
  <2> HIDE DEF P
  <2>3. \A k \in 0..n : k \in P
    BY <1>1, <2>1, <2>2, UpTo
  <2> QED
    BY <2>3 DEF P
<1>10. FieldsOf(g[n]) = Left(n)
  <2>1. 0 \in Q
    <3>1. Left(0) = FieldsOf(dest)
      OBVIOUS
    <3> QED
      BY <1>1, <1>5, <3>1
  <2>2. ASSUME NEW k \in 1..n, k - 1 \in Q PROVE k \in Q
    <3>1. FieldsOf(g[k - 1]) = Left(k - 1) /\ k \in 0..n
      BY <1>1, <2>2
    <3>2. FieldsOf(g[k]) = Without(FieldsOf(g[k - 1]), tokens[k])
      BY <1>3, <1>6
    <3>3. Left(k) = Without(Left(k - 1), tokens[k])
      <4>1. \A i \in 1..k : i \in 1..k - 1 \/ i = k
        BY <1>1
      <4>2. k \in 1..k /\ \A i \in 1..k - 1 : i \in 1..k
        BY <1>1
      <4> QED
        BY <4>1, <4>2 DEF Without
    <3> HIDE DEF Left
    <3> QED
      BY <3>1, <3>2, <3>3
  <2> HIDE DEF Q
  <2>3. \A k \in 0..n : k \in Q
    BY <1>1, <2>1, <2>2, UpTo
  <2>4. n \in Q
    BY <1>1, <2>3
  <2> QED
    BY <2>4 DEF Q
<1>11. Left(n) = {f \in FieldsOf(dest) : \A m \in Listed : f.key # Up(m)}
  BY <1>1
<1>12. RemoveHopByHop(dest) = g[n] /\ g[n] \in UniqueLists
  <2>1. n \in 0..n
    BY <1>1
  <2> QED
    BY <1>2, <1>5, <1>9, <2>1
<1> HIDE DEF Left
<1> QED
  BY <1>10, <1>11, <1>12

-----------------------------------------------------------------------------
(* The invariant: what the callbacks have made of the lines so far.         *)

\* The types of the state.
Typed ==
  /\ lines \in Seq(Lines)
  /\ headLines \in 0..Len(lines) /\ given \in 1..4
  /\ body \in Sizes /\ route \in {"http", "https", "down"}
  /\ stage \in {"headers", "trailers", "parsed", "sent", "crashed"}
  /\ header_state \in {"NOTHING", "FIELD", "VALUE"}
  /\ fields \in FieldLists

\* The stage tells how far the peer is.
Staged ==
  /\ stage = "headers" => headLines = 0
  /\ stage \notin {"headers", "trailers"} => given = 4

\* The pieces of the name and of the value of the line being read.
NamePieces == IF given = 1 THEN 1 ELSE 2
ValuePieces == IF given <= 2 THEN 0 ELSE given - 2

\* The buffers hold the line being read as far as it was given, and nothing
\* between the headers and the first trailer.
Buffered ==
  IF Len(lines) > headLines
  THEN /\ name_stringbuf = Part(Len(lines), NamePieces)
       /\ value_stringbuf = Part(Len(lines), ValuePieces)
       /\ header_state = IF given <= 2 THEN "FIELD" ELSE "VALUE"
  ELSE /\ name_stringbuf = <<>> /\ value_stringbuf = <<>>
       /\ header_state # "FIELD" /\ given = 4

\* Lines before the last header line that have its name.
Again == {k \in 1..headLines - 1 : lines[k].name = lines[headLines].name}

\* Fields made of the headers and of the trailers; the line whose value a
\* header has.
HeadLen == IF Again = {} THEN headLines ELSE headLines - 1
TrailLen == IF Len(lines) > headLines THEN Len(lines) - headLines - 1 ELSE 0
From(k) == IF Again # {} /\ k = Min(Again) THEN headLines ELSE k

LineField(k, from) == Field(Up(lines[k].name), Pieces(Part(from, 2)))

\* The fields are the lines, but for the one that is being read.
Stored ==
  /\ Len(fields) = HeadLen + TrailLen
  /\ \A i \in 1..HeadLen : fields[i] = LineField(i, From(i))
  /\ \A i \in 1..TrailLen : fields[HeadLen + i] = LineField(headLines + i, headLines + i)

IInv == Typed /\ Staged /\ Buffered /\ Stored

-----------------------------------------------------------------------------
(* Pieces of lines.                                                         *)

\* A part is a sequence of so many times the number of its line.
LEMMA PartFacts ==
  ASSUME NEW k \in Nat
  PROVE  /\ \A n \in Nat : Part(k, n) \in Seq(Nat) /\ Len(Part(k, n)) = n
                           /\ \A i \in 1..n : Part(k, n)[i] = k
         /\ Part(k, 0) = <<>> /\ Part(k, 1) # <<>> /\ Part(k, 2) # <<>>
         /\ Part(k, 1) \o Part(k, 1) = Part(k, 2)
         /\ <<>> \o Part(k, 1) = Part(k, 1) /\ <<>> \o Part(k, 2) = Part(k, 2)
<1>1. \A n \in Nat : Part(k, n) \in Seq(Nat) /\ Len(Part(k, n)) = n
                     /\ \A i \in 1..n : Part(k, n)[i] = k
  BY DEF Part
<1>2. Part(k, 0) = <<>>
  BY DEF Part
<1>3. Part(k, 1) # <<>> /\ Part(k, 2) # <<>>
  BY <1>1
<1>4. Part(k, 1) = <<k>> /\ Part(k, 2) = <<k, k>>
  BY DEF Part
<1>5. Part(k, 1) \o Part(k, 1) = Part(k, 2)
  <2>0. 1 \in Nat /\ 2 \in Nat /\ 1 \in 1..1 /\ 1 \in 1..2 /\ 2 \in 1..2
    OBVIOUS
  <2>a. Part(k, 1) \in Seq(Nat) /\ Len(Part(k, 1)) = 1 /\ Part(k, 1)[1] = k
    BY <1>1, <2>0
  <2>b. Part(k, 2) \in Seq(Nat) /\ Len(Part(k, 2)) = 2
        /\ Part(k, 2)[1] = k /\ Part(k, 2)[2] = k
    BY <1>1, <2>0
  <2>1. PICK a \in Seq(Nat) : a = Part(k, 1)
    BY <2>a
  <2>2. PICK b \in Seq(Nat) : b = Part(k, 2)
    BY <2>b
  <2>c. Len(a) = 1 /\ a[1] = k
    BY <2>a, <2>1
  <2>3. a \o a \in Seq(Nat) /\ Len(a \o a) = 2
    <3>1. a \o a \in Seq(Nat) /\ Len(a \o a) = Len(a) + Len(a)
      OBVIOUS
    <3> QED
      BY <2>c, <3>1
  <2>4. (a \o a)[1] = k /\ (a \o a)[2] = k
    <3>1. \A i \in 1..Len(a) + Len(a) :
            (a \o a)[i] = IF i <= Len(a) THEN a[i] ELSE a[i - Len(a)]
      OBVIOUS
    <3>2. 1 \in 1..Len(a) + Len(a) /\ 2 \in 1..Len(a) + Len(a) /\ 1 <= Len(a) /\ ~(2 <= Len(a))
          /\ 2 - Len(a) = 1
      BY <2>c
    <3>3. (a \o a)[1] = a[1] /\ (a \o a)[2] = a[1]
      BY <3>1, <3>2
    <3> QED
      BY <2>c, <3>3
  <2>5. \A i \in 1..2 : (a \o a)[i] = b[i]
    <3>1. \A i \in 1..2 : i = 1 \/ i = 2
      OBVIOUS
    <3> QED
      BY <2>b, <2>2, <2>4, <3>1
  <2>6. a \o a = b
    BY <2>b, <2>2, <2>3, <2>5, SeqEqual
  <2> QED
    BY <2>1, <2>2, <2>6
<1>6. <<>> \o Part(k, 1) = Part(k, 1) /\ <<>> \o Part(k, 2) = Part(k, 2)
  BY <1>4
<1> QED
  BY <1>1, <1>2, <1>3, <1>5, <1>6

\* Both pieces of a line make the name that the peer sent.
LEMMA KeyOfLine ==
  ASSUME NEW k \in Nat
  PROVE  Key(Part(k, 2)) = Up(lines[k].name)
<1>1. Len(Part(k, 2)) = 2 /\ Part(k, 2)[1] = k /\ Part(k, 2)[2] = k
  <2>1. 2 \in Nat /\ 1 \in 1..2 /\ 2 \in 1..2
    OBVIOUS
  <2>2. \A n \in Nat : Len(Part(k, n)) = n /\ \A i \in 1..n : Part(k, n)[i] = k
    BY PartFacts
  <2> QED
    BY <2>1, <2>2
<1> QED
  BY <1>1 DEF Key

\* A line makes a field.
LEMMA LineFieldFacts ==
  ASSUME lines \in Seq(Lines), NEW k \in 1..Len(lines), NEW from \in Nat
  PROVE  /\ LineField(k, from) \in Fields
         /\ LineField(k, from).key = Up(lines[k].name)
         /\ LineField(k, from).value = Pieces(Part(from, 2))
         /\ Pieces(Part(from, 2)) \in Values
         /\ lines[k] \in Lines /\ lines[k].name \in AnyName
<1>1. lines[k] \in Lines
  OBVIOUS
<1>2. lines[k].name \in AnyName
  BY <1>1 DEF Lines, AnyName
<1>3. Part(from, 2) \in Seq(Nat)
  BY PartFacts
<1>4. Pieces(Part(from, 2)) \in Values
  BY <1>3 DEF Pieces, Values, Kinds
<1> QED
  BY <1>1, <1>2, <1>4, Keys DEF LineField

\* At first there is nothing.
LEMMA InitInv ==
  Init => IInv
<1> SUFFICES ASSUME Init PROVE IInv
  OBVIOUS
<1>1. lines = <<>> /\ Len(lines) = 0 /\ headLines = 0 /\ fields = <<>> /\ Len(fields) = 0
  BY DEF Init
<1>2. Typed
  BY <1>1 DEF Init, Typed, FieldLists
<1>3. Staged
  BY DEF Init, Staged
<1>4. Buffered
  BY <1>1 DEF Init, Buffered
<1>5. Again = {} /\ HeadLen = 0 /\ TrailLen = 0
  BY <1>1 DEF Again, HeadLen, TrailLen
<1>6. Stored
  BY <1>1, <1>5 DEF Stored
<1> QED
  BY <1>2, <1>3, <1>4, <1>6 DEF IInv

\* The numbers of fields.
LEMMA Lengths ==
  ASSUME Typed
  PROVE  /\ HeadLen \in Nat /\ TrailLen \in Nat /\ HeadLen <= headLines
         /\ headLines \in Nat /\ Len(lines) \in Nat /\ headLines <= Len(lines)
         /\ Again \in SUBSET Nat /\ Again \in SUBSET (1..headLines - 1)
<1>1. headLines \in Nat /\ Len(lines) \in Nat /\ headLines <= Len(lines)
  BY DEF Typed
<1>2. Again \in SUBSET (1..headLines - 1)
  BY DEF Again
<1>3. Again # {} => headLines >= 1
  <2> SUFFICES ASSUME NEW x \in Again PROVE headLines >= 1
    OBVIOUS
  <2>1. x \in 1..headLines - 1
    BY DEF Again
  <2> QED
    BY <1>1, <2>1
<1> QED
  BY <1>1, <1>2, <1>3 DEF HeadLen, TrailLen

\* A new line changes nothing about the lines before it.
LEMMA LinesGrow ==
  ASSUME Typed, NEW l \in Lines, lines' = Append(lines, l), headLines' = headLines
  PROVE  /\ lines' \in Seq(Lines) /\ Len(lines') = Len(lines) + 1
         /\ \A k \in 1..Len(lines) : lines'[k] = lines[k]
         /\ Again' = Again /\ HeadLen' = HeadLen
         /\ \A k : From(k)' = From(k)
         /\ \A k \in 1..Len(lines) : \A j : LineField(k, j)' = LineField(k, j)
<1>1. lines' \in Seq(Lines) /\ Len(lines') = Len(lines) + 1
      /\ \A k \in 1..Len(lines) : lines'[k] = lines[k]
  BY DEF Typed
<1>2. Again' = Again
  <2>1. \A k \in 1..headLines - 1 : k \in 1..Len(lines) /\ headLines \in 1..Len(lines)
    BY Lengths
  <2>2. \A k \in 1..headLines - 1 :
          lines'[k].name = lines'[headLines].name <=> lines[k].name = lines[headLines].name
    BY <1>1, <2>1
  <2> QED
    BY <2>2 DEF Again
<1>3. HeadLen' = HeadLen
  BY <1>2 DEF HeadLen
<1>4. \A k : From(k)' = From(k)
  BY <1>2 DEF From
<1>5. \A k \in 1..Len(lines) : \A j : LineField(k, j)' = LineField(k, j)
  BY <1>1 DEF LineField
<1> QED
  BY <1>1, <1>2, <1>3, <1>4, <1>5

\* A line begins: the one before it is stored, unless it was the last header
\* line, which is stored already.
LEMMA NewLineKeeps ==
  ASSUME IInv, NEW l \in Lines, NEW n \in 1..2, NewLine(l, n)
  PROVE  IInv'
<1> DEFINE c == Len(lines)
<1>0. Typed /\ Staged /\ Buffered /\ Stored
  BY DEF IInv
<1>1. /\ given = 4 /\ given' = n /\ lines' = Append(lines, l) /\ headLines' = headLines
      /\ stage' = stage /\ stage \in {"headers", "trailers"}
      /\ HeaderField(Part(c + 1, n))
  BY DEF NewLine
<1>2. c \in Nat /\ headLines \in Nat /\ headLines <= c /\ HeadLen \in Nat /\ TrailLen \in Nat
      /\ HeadLen <= headLines
  BY <1>0, Lengths
<1>3. /\ lines' \in Seq(Lines) /\ Len(lines') = c + 1
      /\ \A k \in 1..c : lines'[k] = lines[k]
      /\ Again' = Again /\ HeadLen' = HeadLen
      /\ \A k : From(k)' = From(k)
      /\ \A k \in 1..c : \A j : LineField(k, j)' = LineField(k, j)
  BY <1>0, <1>1, LinesGrow
<1>4. n \in Nat /\ n \in 1..4 /\ n # 4
  OBVIOUS
<1>5. Staged'
  BY <1>0, <1>1 DEF Staged
<1>6. Len(lines') > headLines' /\ TrailLen' = c - headLines
  BY <1>1, <1>2, <1>3 DEF TrailLen
<1>7. ASSUME name_stringbuf' = Part(c + 1, n), value_stringbuf' = <<>>, header_state' = "FIELD"
      PROVE  Buffered'
  <2>1. NamePieces' = n /\ ValuePieces' = 0 /\ given' <= 2
    BY <1>1, <1>4 DEF NamePieces, ValuePieces
  <2>2. Part(c + 1, 0) = <<>>
    BY <1>2, PartFacts
  <2> QED
    BY <1>3, <1>6, <1>7, <2>1, <2>2 DEF Buffered
<1>8. ASSUME fields' \in FieldLists, header_state' = "FIELD" PROVE Typed'
  BY <1>0, <1>1, <1>2, <1>3, <1>4, <1>8 DEF Typed, NewLine
<1>9. \A i \in 1..HeadLen : i \in 1..c
  BY <1>2
<1>10. CASE c > headLines
  <2>1. name_stringbuf = Part(c, 2) /\ value_stringbuf = Part(c, 2) /\ header_state = "VALUE"
    BY <1>0, <1>1, <1>10 DEF Buffered, NamePieces, ValuePieces
  <2>2. name_stringbuf # <<>> /\ Key(name_stringbuf) = Up(lines[c].name)
    BY <1>2, <2>1, PartFacts, KeyOfLine
  <2>3. c \in 1..c
    BY <1>2, <1>10
  <2> DEFINE x == LineField(c, c)
  <2>4. x \in Fields
    BY <1>0, <1>2, <2>3, LineFieldFacts DEF Typed
  <2>5. fields' = Append(fields, x)
    BY <1>1, <2>1, <2>2 DEF HeaderField, LineField
  <2>6. name_stringbuf' = Part(c + 1, n) /\ value_stringbuf' = <<>> /\ header_state' = "FIELD"
    BY <1>1, <2>1, <2>2 DEF HeaderField
  <2> HIDE DEF x
  <2>7. /\ fields' \in FieldLists /\ Len(fields') = Len(fields) + 1
        /\ fields'[Len(fields) + 1] = x
        /\ \A i \in 1..Len(fields) : fields'[i] = fields[i]
    BY <1>0, <2>4, <2>5 DEF Typed, FieldLists
  <2>8. TrailLen' = TrailLen + 1 /\ headLines + TrailLen' = c /\ Len(fields) = HeadLen + TrailLen
    BY <1>0, <1>2, <1>6, <1>10 DEF TrailLen, Stored
  <2>9. Len(fields') = HeadLen' + TrailLen'
    BY <1>2, <1>3, <2>7, <2>8
  <2>10. ASSUME NEW i \in 1..HeadLen PROVE fields'[i] = LineField(i, From(i))'
    <3>1. i \in 1..Len(fields)
      BY <1>2, <2>8
    <3>2. LineField(i, From(i))' = LineField(i, From(i))
      BY <1>3, <1>9 DEF LineField
    <3> QED
      BY <1>0, <2>7, <3>1, <3>2 DEF Stored
  <2>11. ASSUME NEW i \in 1..TrailLen'
         PROVE  fields'[HeadLen + i] = LineField(headLines + i, headLines + i)'
    <3>0. PICK m \in Nat : m = headLines + i
      BY <1>2, <2>8
    <3>1. m \in 1..c
      BY <1>2, <2>8, <3>0
    <3>2. LineField(headLines + i, headLines + i)' = LineField(m, m)
      BY <1>1, <1>3, <3>0, <3>1 DEF LineField
    <3>3. CASE i \in 1..TrailLen
      <4>1. HeadLen + i \in 1..Len(fields)
        BY <1>2, <2>8, <3>3
      <4> QED
        BY <1>0, <2>7, <3>0, <3>2, <3>3, <4>1 DEF Stored
    <3>4. CASE i \notin 1..TrailLen
      <4>1. i = TrailLen + 1 /\ HeadLen + i = Len(fields) + 1 /\ m = c
        BY <1>2, <2>8, <3>0, <3>4
      <4> QED
        BY <2>7, <3>2, <4>1 DEF x
    <3> QED
      BY <3>3, <3>4
  <2>12. Stored'
    BY <1>1, <1>3, <2>9, <2>10, <2>11 DEF Stored
  <2> QED
    BY <1>5, <1>7, <1>8, <2>6, <2>7, <2>12 DEF IInv
<1>11. CASE ~(c > headLines)
  <2>1. name_stringbuf = <<>> /\ value_stringbuf = <<>> /\ c = headLines
    BY <1>0, <1>2, <1>11 DEF Buffered
  <2>2. <<>> \o Part(c + 1, n) = Part(c + 1, n)
    <3>1. c + 1 \in Nat /\ (n = 1 \/ n = 2)
      BY <1>2
    <3> QED
      BY <3>1, PartFacts
  <2>3. name_stringbuf' = Part(c + 1, n) /\ value_stringbuf' = <<>> /\ header_state' = "FIELD"
        /\ fields' = fields
    BY <1>1, <2>1, <2>2 DEF HeaderField
  <2>4. TrailLen' = 0 /\ TrailLen = 0
    BY <1>2, <1>6, <2>1 DEF TrailLen
  <2>5. \A i \in 1..HeadLen : LineField(i, From(i))' = LineField(i, From(i))
    BY <1>3, <1>9 DEF LineField
  <2>6. Stored'
    BY <1>0, <1>1, <1>3, <2>3, <2>4, <2>5 DEF Stored
  <2> QED
    BY <1>0, <1>5, <1>7, <1>8, <2>3, <2>6 DEF IInv, Typed
<1> QED
  BY <1>10, <1>11

\* Steps that change neither lines nor fields keep what was stored.
LEMMA StoredKept ==
  ASSUME Stored, UNCHANGED <<lines, headLines, fields>>
  PROVE  Stored'
<1>1. Again' = Again /\ HeadLen' = HeadLen /\ TrailLen' = TrailLen
  BY DEF Again, HeadLen, TrailLen
<1>2. \A k : From(k)' = From(k)
  BY <1>1 DEF From
<1>3. \A k, j : LineField(k, j)' = LineField(k, j)
  BY DEF LineField
<1>4. \A i \in 1..HeadLen : LineField(i, From(i))' = LineField(i, From(i))
  BY <1>2 DEF LineField
<1> QED
  BY <1>1, <1>3, <1>4 DEF Stored

\* The rest of a name, and the pieces of a value, join what was given of
\* their own line.
LEMMA PiecesKeep ==
  ASSUME IInv, RestOfName \/ \E n \in 1..2 : ValueData(n)
  PROVE  IInv'
<1> DEFINE c == Len(lines)
<1>0. Typed /\ Staged /\ Buffered /\ Stored
  BY DEF IInv
<1>1. c \in Nat /\ headLines \in Nat /\ headLines <= c
  BY <1>0, Lengths
<1>2. given # 4 /\ UNCHANGED <<lines, headLines, stage, body, route>>
  BY <1>0 DEF RestOfName, ValueData, Typed
<1>3. /\ c > headLines
      /\ name_stringbuf = Part(c, NamePieces) /\ value_stringbuf = Part(c, ValuePieces)
      /\ header_state = IF given <= 2 THEN "FIELD" ELSE "VALUE"
  BY <1>0, <1>2 DEF Buffered
<1>4. /\ Part(c, 0) = <<>> /\ Part(c, 1) \o Part(c, 1) = Part(c, 2)
      /\ Part(c, 1) # <<>>
  BY <1>1, PartFacts
<1>5. CASE RestOfName
  <2>1. given = 1 /\ given' = 2 /\ HeaderField(Part(c, 1))
    BY <1>5 DEF RestOfName
  <2>2. name_stringbuf = Part(c, 1) /\ value_stringbuf = <<>> /\ header_state = "FIELD"
    BY <1>3, <1>4, <2>1 DEF NamePieces, ValuePieces
  <2>3. fields' = fields /\ name_stringbuf' = Part(c, 2) /\ value_stringbuf' = <<>>
        /\ header_state' = "FIELD"
    BY <1>4, <2>1, <2>2 DEF HeaderField
  <2>4. Buffered'
    BY <1>2, <1>3, <1>4, <2>1, <2>3 DEF Buffered, NamePieces, ValuePieces
  <2>5. Typed' /\ Staged'
    BY <1>0, <1>2, <2>1, <2>3 DEF Typed, Staged
  <2> QED
    BY <1>0, <1>2, <2>3, <2>4, <2>5, StoredKept DEF IInv
<1>6. ASSUME NEW n \in 1..2, ValueData(n) PROVE IInv'
  <2>1. given \in {2, 3} /\ given + n <= 4 /\ given' = given + n /\ HeaderValue(Part(c, n))
    BY <1>6 DEF ValueData
  <2>2. name_stringbuf = Part(c, 2)
    BY <1>3, <2>1 DEF NamePieces
  <2>3. name_stringbuf' = Part(c, 2) /\ header_state' = "VALUE" /\ fields' = fields
    BY <2>1, <2>2 DEF HeaderValue
  <2>4. value_stringbuf' = Part(c, given + n - 2)
    <3>1. CASE given = 2
      <4>1. header_state = "FIELD" /\ given + n - 2 = n
        BY <1>3, <3>1
      <4> QED
        BY <2>1, <4>1 DEF HeaderValue
    <3>2. CASE given = 3
      <4>1. header_state = "VALUE" /\ value_stringbuf = Part(c, 1) /\ n = 1 /\ given + n - 2 = 2
        BY <1>3, <2>1, <3>2 DEF ValuePieces
      <4> QED
        BY <1>4, <2>1, <4>1 DEF HeaderValue
    <3> QED
      BY <2>1, <3>1, <3>2
  <2>5. given' \in 3..4
    BY <2>1
  <2>6. NamePieces' = 2 /\ ValuePieces' = given + n - 2 /\ ~(given' <= 2)
    BY <2>1, <2>5 DEF NamePieces, ValuePieces
  <2>7. Buffered'
    BY <1>2, <1>3, <2>3, <2>4, <2>6 DEF Buffered
  <2>8. Typed'
    BY <1>0, <1>2, <2>3, <2>5 DEF Typed
  <2>9. Staged'
    <3>1. stage \in {"headers", "trailers"}
      BY <1>0, <1>2 DEF Staged
    <3> QED
      BY <1>0, <1>2, <3>1 DEF Staged
  <2> QED
    BY <1>0, <1>2, <2>3, <2>7, <2>8, <2>9, StoredKept DEF IInv
<1> QED
  BY <1>5, <1>6

\* The headers end: the last line takes the place of the first field with its
\* name, or follows the others.
LEMMA HeadersCompleteKeeps ==
  ASSUME IInv, HeadersComplete
  PROVE  IInv'
<1> DEFINE c == Len(lines)
<1>0. Typed /\ Staged /\ Buffered /\ Stored
  BY DEF IInv
<1>1. /\ stage = "headers" /\ given = 4 /\ headLines' = c
      /\ name_stringbuf' = <<>> /\ value_stringbuf' = <<>>
      /\ stage' \in {"trailers", "parsed"}
      /\ UNCHANGED <<lines, given, body, route, header_state>>
      /\ fields' = IF name_stringbuf = <<>> THEN fields
                   ELSE SetAtKey(fields, Key(name_stringbuf).name, Pieces(value_stringbuf))
  BY DEF HeadersComplete
<1>2. headLines = 0 /\ c \in Nat /\ lines \in Seq(Lines) /\ Len(lines') = c /\ c \in 0..c
  BY <1>0, <1>1 DEF Staged, Typed
<1>3. Again = {} /\ HeadLen = 0
  BY <1>2 DEF Again, HeadLen
<1>4. Staged'
  BY <1>1 DEF Staged
<1>5. header_state # "FIELD"
  BY <1>0, <1>1 DEF Buffered
<1>6. Buffered' /\ TrailLen' = 0
  BY <1>1, <1>2, <1>5 DEF Buffered, TrailLen
<1>7. Again' = {k \in 1..c - 1 : lines[k].name = lines[c].name}
  BY <1>1 DEF Again
<1>8. ASSUME fields' \in FieldLists PROVE Typed'
  BY <1>0, <1>1, <1>2, <1>8 DEF Typed
<1>9. CASE c = 0
  <2>1. name_stringbuf = <<>> /\ TrailLen = 0
    BY <1>0, <1>2, <1>9 DEF Buffered, TrailLen
  <2>2. fields' = fields /\ Len(fields) = 0
    BY <1>0, <1>1, <1>3, <2>1 DEF Stored
  <2>3. HeadLen' = 0
    BY <1>1, <1>7, <1>9 DEF HeadLen
  <2>4. Stored'
    BY <1>6, <2>2, <2>3 DEF Stored
  <2> QED
    BY <1>0, <1>4, <1>6, <1>8, <2>2, <2>4 DEF IInv, Typed
<1>10. CASE c # 0
  <2>0. c > headLines /\ c \in 1..c /\ TrailLen = c - 1
    BY <1>2, <1>10 DEF TrailLen
  <2>1. name_stringbuf = Part(c, 2) /\ value_stringbuf = Part(c, 2)
    BY <1>0, <1>1, <2>0 DEF Buffered, NamePieces, ValuePieces
  <2>2. name_stringbuf # <<>> /\ Key(name_stringbuf) = Up(lines[c].name)
    BY <1>2, <2>1, PartFacts, KeyOfLine
  <2> DEFINE m == lines[c].name
             v == Pieces(Part(c, 2))
             x == LineField(c, c)
             I == {i \in 1..Len(fields) : fields[i].key = Up(m)}
  <2>3. x = Field(Up(m), v) /\ x \in Fields
    BY <1>2, <2>0, LineFieldFacts DEF LineField
  <2>4. fields' = SetAtKey(fields, m, v)
    <3>1. Up(m).name = m
      BY Keys
    <3> QED
      BY <1>1, <2>1, <2>2, <3>1
  <2>5. Len(fields) = c - 1 /\ \A i \in 1..c - 1 : fields[i] = LineField(i, i)
    <3>1. Len(fields) = c - 1
      BY <1>0, <1>2, <1>3, <2>0 DEF Stored
    <3>2. ASSUME NEW i \in 1..c - 1 PROVE fields[i] = LineField(i, i)
      <4>1. 0 + i = i
        BY <1>2
      <4>2. fields[0 + i] = LineField(0 + i, 0 + i)
        BY <1>0, <1>2, <1>3, <2>0 DEF Stored
      <4> QED
        BY <4>1, <4>2
    <3> QED
      BY <3>1, <3>2
  <2>6. I = Again'
    <3>1. \A i \in 1..c - 1 : fields[i].key = Up(lines[i].name)
      BY <2>5, Keys DEF LineField
    <3>2. \A i \in 1..c - 1 : fields[i].key = Up(m) <=> lines[i].name = m
      BY <3>1, Keys
    <3> QED
      BY <1>7, <2>5, <3>2
  <2>7. FindAtIndex(fields, m) = IF Again' # {} THEN Min(Again') ELSE 0
    <3>1. FindAtIndex(fields, m) = IF I # {} THEN Min(I) ELSE 0
      BY DEF FindAtIndex, SelectInSeq
    <3> HIDE DEF I
    <3> QED
      BY <2>6, <3>1
  <2>8. \A k \in 1..c : LineField(k, k)' = LineField(k, k)
    BY <1>1 DEF LineField
  <2>9. fields \in FieldLists
    BY <1>0 DEF Typed
  <2> HIDE DEF I
  <2>10. CASE Again' = {}
    <3>1. fields' = Append(fields, x)
      BY <2>3, <2>4, <2>7, <2>10 DEF SetAtKey, Has
    <3> HIDE DEF x, m, v
    <3>2. /\ fields' \in FieldLists /\ Len(fields') = c /\ fields'[c] = x
          /\ \A i \in 1..c - 1 : fields'[i] = fields[i]
      BY <1>2, <2>3, <2>5, <2>9, <3>1 DEF FieldLists
    <3>3. HeadLen' = c /\ \A k : From(k)' = k
      BY <1>1, <2>10 DEF HeadLen, From
    <3>4. ASSUME NEW i \in 1..c PROVE fields'[i] = LineField(i, From(i))'
      <4>1. LineField(i, From(i))' = LineField(i, i)
        BY <1>1, <3>3 DEF LineField
      <4>2. CASE i = c
        BY <3>2, <4>1, <4>2 DEF x
      <4>3. CASE i # c
        <5>1. i \in 1..c - 1
          BY <1>2, <4>3
        <5> QED
          BY <2>5, <3>2, <4>1, <5>1
      <4> QED
        BY <4>2, <4>3
    <3>5. Len(fields') = HeadLen' + TrailLen'
      BY <1>2, <1>6, <3>2, <3>3
    <3>6. Stored'
      BY <1>6, <3>3, <3>4, <3>5 DEF Stored
    <3> QED
      BY <1>4, <1>6, <1>8, <3>2, <3>6 DEF IInv
  <2>11. CASE Again' # {}
    <3> DEFINE p == Min(Again')
    <3>0. Again' \in SUBSET Nat
      BY <1>2, <1>7
    <3>1. p \in Again'
      BY <2>11, <3>0, MinFacts
    <3>2. p \in 1..c - 1 /\ lines[p].name = m
      BY <1>7, <3>1
    <3>3. fields' = [fields EXCEPT ![p] = x]
      <4>1. FindAtIndex(fields, m) = p /\ p # 0
        BY <1>2, <2>7, <2>11, <3>2
      <4> QED
        BY <2>3, <2>4, <4>1 DEF SetAtKey, Has, ReplaceAt
    <3>4. HeadLen' = c - 1 /\ \A k : From(k)' = IF k = p THEN c ELSE k
      BY <1>1, <2>11 DEF HeadLen, From
    <3>5. LineField(p, c) = x
      BY <3>2 DEF LineField
    <3> HIDE DEF x, m, v, p
    <3>6. /\ fields' \in FieldLists /\ Len(fields') = c - 1 /\ fields'[p] = x
          /\ \A i \in 1..c - 1 : i # p => fields'[i] = fields[i]
      BY <1>2, <2>3, <2>5, <2>9, <3>2, <3>3 DEF FieldLists
    <3>7. ASSUME NEW i \in 1..c - 1 PROVE fields'[i] = LineField(i, From(i))'
      <4>1. CASE i = p
        <5>1. LineField(i, From(i))' = LineField(p, c)
          BY <1>1, <3>4, <4>1 DEF LineField
        <5> QED
          BY <3>5, <3>6, <4>1, <5>1
      <4>2. CASE i # p
        <5>1. LineField(i, From(i))' = LineField(i, i)
          BY <1>1, <3>4, <4>2 DEF LineField
        <5> QED
          BY <2>5, <3>6, <4>2, <5>1
      <4> QED
        BY <4>1, <4>2
    <3>8. Len(fields') = HeadLen' + TrailLen'
      BY <1>2, <1>6, <3>4, <3>6
    <3>9. Stored'
      BY <1>6, <3>4, <3>7, <3>8 DEF Stored
    <3> QED
      BY <1>4, <1>6, <1>8, <3>6, <3>9 DEF IInv
  <2> QED
    BY <2>10, <2>11
<1> QED
  BY <1>9, <1>10

\* What is done with the message parsed changes nothing of it.
LEMMA SendingKeeps ==
  ASSUME IInv, UNCHANGED <<peer, parser, fields>>,
         stage' = stage \/ (stage' \in {"parsed", "sent", "crashed"} /\ given = 4)
  PROVE  IInv'
<1>0. Typed /\ Staged /\ Buffered /\ Stored
  BY DEF IInv
<1>1. UNCHANGED <<lines, headLines, given, body, route, header_state, name_stringbuf,
                  value_stringbuf, fields>>
  BY DEF peer, parser
<1>2. Typed'
  BY <1>0, <1>1 DEF Typed
<1>3. Staged'
  BY <1>0, <1>1 DEF Staged
<1>4. Buffered'
  BY <1>0, <1>1 DEF Buffered, NamePieces, ValuePieces
<1>5. Stored'
  BY <1>0, <1>1, StoredKept
<1> QED
  BY <1>2, <1>3, <1>4, <1>5 DEF IInv

\* Every step keeps the invariant.
LEMMA StepInv ==
  ASSUME IInv, [Next]_vars
  PROVE  IInv'
<1>1. ASSUME NEW l \in Lines, NEW n \in 1..2, NewLine(l, n) PROVE IInv'
  BY <1>1, NewLineKeeps
<1>2. CASE RestOfName \/ \E n \in 1..2 : ValueData(n)
  BY <1>2, PiecesKeep
<1>3. CASE HeadersComplete
  BY <1>3, HeadersCompleteKeeps
<1>4. CASE MessageComplete
  BY <1>4, SendingKeeps DEF MessageComplete
<1>5. CASE MakeUpstreamRequest \/ UpstreamCrashes \/ MakeDownstreamResponse
  <2>1. stage = "parsed"
    BY <1>5 DEF MakeUpstreamRequest, UpstreamCrashes, MakeDownstreamResponse
  <2>2. given = 4
    BY <2>1 DEF IInv, Staged
  <2> QED
    BY <1>5, <2>2, SendingKeeps DEF MakeUpstreamRequest, UpstreamCrashes, MakeDownstreamResponse
<1>6. CASE UNCHANGED vars
  BY <1>6, SendingKeeps DEF vars
<1> QED
  BY <1>1, <1>2, <1>3, <1>4, <1>5, <1>6 DEF Next

\* The invariant holds in every reachable state.
THEOREM Invariance ==
  Spec => []IInv
<1>1. Init => IInv
  BY InitInv
<1>2. IInv /\ [Next]_vars => IInv'
  BY StepInv
<1> QED
  BY <1>1, <1>2, PTL DEF Spec

-----------------------------------------------------------------------------
(* The message parsed.                                                      *)

\* Every field is a line that was sent, whole, and every header line has a
\* field with its name.
LEMMA FieldsAreLines ==
  ASSUME IInv
  PROVE  /\ \A i \in 1..Len(fields) : \E k \in 1..Len(lines) : fields[i] = LineField(k, k)
         /\ \A k \in 1..headLines : \E i \in 1..Len(fields) : fields[i].key = Up(lines[k].name)
<1> DEFINE c == Len(lines)
<1>0. Typed /\ Stored
  BY DEF IInv
<1>1. c \in Nat /\ headLines \in Nat /\ headLines <= c /\ HeadLen \in Nat /\ TrailLen \in Nat
      /\ HeadLen <= headLines /\ Again \in SUBSET Nat /\ Again \in SUBSET (1..headLines - 1)
  BY <1>0, Lengths
<1>2. Len(fields) = HeadLen + TrailLen
  BY <1>0 DEF Stored
<1>3. Again # {} => /\ headLines \in 1..c /\ HeadLen = headLines - 1
                    /\ Min(Again) \in 1..headLines - 1
                    /\ lines[Min(Again)].name = lines[headLines].name
  <2> SUFFICES ASSUME Again # {}
               PROVE  /\ headLines \in 1..c /\ HeadLen = headLines - 1
                      /\ Min(Again) \in 1..headLines - 1
                      /\ lines[Min(Again)].name = lines[headLines].name
    OBVIOUS
  <2>1. Min(Again) \in Again
    BY <1>1, MinFacts
  <2>2. Min(Again) \in 1..headLines - 1 /\ lines[Min(Again)].name = lines[headLines].name
    BY <2>1 DEF Again
  <2>3. HeadLen = headLines - 1
    BY DEF HeadLen
  <2> QED
    BY <1>1, <2>2, <2>3
<1>4. \A i \in 1..HeadLen : From(i) \in 1..c /\ LineField(i, From(i)) = LineField(From(i), From(i))
  <2> SUFFICES ASSUME NEW i \in 1..HeadLen
               PROVE  From(i) \in 1..c /\ LineField(i, From(i)) = LineField(From(i), From(i))
    OBVIOUS
  <2>1. CASE Again # {} /\ i = Min(Again)
    <3>1. From(i) = headLines
      BY <2>1 DEF From
    <3>2. lines[i].name = lines[headLines].name
      BY <1>3, <2>1
    <3> QED
      BY <1>3, <2>1, <3>1, <3>2 DEF LineField
  <2>2. CASE ~(Again # {} /\ i = Min(Again))
    <3>1. From(i) = i /\ i \in 1..c
      BY <1>1, <2>2 DEF From
    <3> QED
      BY <3>1
  <2> QED
    BY <2>1, <2>2
<1>5. ASSUME NEW i \in 1..Len(fields) PROVE \E k \in 1..c : fields[i] = LineField(k, k)
  <2>1. CASE i <= HeadLen
    <3>1. i \in 1..HeadLen
      BY <1>1, <1>2, <2>1
    <3> QED
      BY <1>0, <1>4, <3>1 DEF Stored
  <2>2. CASE ~(i <= HeadLen)
    <3>1. PICK j \in 1..TrailLen : i = HeadLen + j
      <4>1. i - HeadLen \in 1..TrailLen /\ i = HeadLen + (i - HeadLen)
        BY <1>1, <1>2, <2>2
      <4> QED
        BY <4>1
    <3>2. headLines + j \in 1..c
      BY <1>1, <3>1 DEF TrailLen
    <3> QED
      BY <1>0, <3>1, <3>2 DEF Stored
  <2> QED
    BY <2>1, <2>2
<1>6. ASSUME NEW k \in 1..headLines
      PROVE  \E i \in 1..Len(fields) : fields[i].key = Up(lines[k].name)
  <2>1. PICK i \in 1..HeadLen : lines[i].name = lines[k].name
    <3>1. CASE k \in 1..HeadLen
      BY <3>1
    <3>2. CASE k \notin 1..HeadLen
      <4>1. Again # {}
        BY <1>1, <3>2 DEF HeadLen
      <4>2. k = headLines
        BY <1>1, <1>3, <3>2, <4>1
      <4> QED
        BY <1>3, <4>1, <4>2
    <3> QED
      BY <3>1, <3>2
  <2>2. i \in 1..Len(fields)
    BY <1>1, <1>2
  <2>3. fields[i] = LineField(i, From(i))
    BY <1>0 DEF Stored
  <2>4. fields[i].key = Up(lines[i].name)
    BY <2>3, Keys DEF LineField
  <2> QED
    BY <2>1, <2>2, <2>4
<1> QED
  BY <1>5, <1>6

\* The state keeps its types: in particular the buffers never hold more than
\* one line, and no field has a name that nobody sent.
THEOREM TypeCorrect ==
  Spec => []TypeOK
<1>1. IInv => TypeOK
  <2> SUFFICES ASSUME IInv PROVE TypeOK
    OBVIOUS
  <2>0. Typed /\ Buffered
    BY DEF IInv
  <2>1. lines \in Seq(Lines) /\ Len(lines) \in Nat
    BY <2>0 DEF Typed
  <2>2. Len(name_stringbuf) <= 2 /\ Len(value_stringbuf) <= 2
    <3>1. CASE Len(lines) > headLines
      <4>1. NamePieces \in Nat /\ NamePieces <= 2 /\ ValuePieces \in Nat /\ ValuePieces <= 2
        BY <2>0 DEF Typed, NamePieces, ValuePieces
      <4>2. Len(name_stringbuf) = NamePieces /\ Len(value_stringbuf) = ValuePieces
        BY <2>0, <2>1, <3>1, <4>1, PartFacts DEF Buffered
      <4> QED
        BY <4>1, <4>2
    <3>2. CASE ~(Len(lines) > headLines)
      BY <2>0, <3>2 DEF Buffered
    <3> QED
      BY <3>1, <3>2
  <2>3. \A i \in DOMAIN fields : fields[i].key.name \in Names
    <3> SUFFICES ASSUME NEW i \in DOMAIN fields PROVE fields[i].key.name \in Names
      OBVIOUS
    <3>1. i \in 1..Len(fields)
      BY <2>0 DEF Typed, FieldLists
    <3>2. PICK k \in 1..Len(lines) : fields[i] = LineField(k, k)
      BY <3>1, FieldsAreLines
    <3>3. lines[k] \in Lines /\ fields[i].key.name = lines[k].name
      BY <2>1, <3>2, Keys DEF LineField
    <3> QED
      BY <3>3 DEF Lines
  <2> QED
    BY <2>0, <2>1, <2>2, <2>3 DEF TypeOK, Typed
<1> QED
  BY <1>1, Invariance, PTL

\* However the lines were cut into callbacks, the message parsed has them
\* whole and in order: for any number of lines.
THEOREM AccumulatedHolds ==
  Spec => []Accumulated
<1>1. IInv => Accumulated
  <2> SUFFICES ASSUME IInv PROVE Accumulated
    OBVIOUS
  <2> DEFINE c == Len(lines)
             a == [k \in 1..HeadLen |-> k]
             b == [i \in 1..c - headLines |-> headLines + i]
             order == a \o b
             stored == IF c > headLines THEN Front(order) ELSE order
             G == [i \in DOMAIN stored |->
                     Field(Up(lines[stored[i]].name), Pieces(Part(From(stored[i]), 2)))]
  <2>0. Typed /\ Stored
    BY DEF IInv
  <2>1. c \in Nat /\ headLines \in Nat /\ headLines <= c /\ HeadLen \in Nat /\ TrailLen \in Nat
        /\ HeadLen <= headLines /\ Again \in SUBSET Nat /\ Again \in SUBSET (1..headLines - 1)
    BY <2>0, Lengths
  <2>2. a \in Seq(Nat) /\ Len(a) = HeadLen /\ \A i \in 1..HeadLen : a[i] = i
    BY <2>1
  <2>3. b \in Seq(Nat) /\ Len(b) = c - headLines
        /\ \A i \in 1..c - headLines : b[i] = headLines + i
    BY <2>1
  <2> HIDE DEF a, b
  <2>4. order \in Seq(Nat) /\ Len(order) = HeadLen + (c - headLines)
    <3>1. order \in Seq(Nat) /\ Len(order) = Len(a) + Len(b)
      BY <2>2, <2>3
    <3> QED
      BY <2>2, <2>3, <3>1
  <2>5. \A i \in 1..HeadLen : order[i] = i
    BY <2>1, <2>2, <2>3
  <2>6. \A i \in 1..c - headLines : order[HeadLen + i] = headLines + i
    <3> SUFFICES ASSUME NEW i \in 1..c - headLines PROVE order[HeadLen + i] = headLines + i
      OBVIOUS
    <3>1. PICK j \in Nat : j = HeadLen + i
      BY <2>1
    <3>2. j \in 1..Len(a) + Len(b) /\ ~(j <= Len(a)) /\ j - Len(a) = i
      BY <2>1, <2>2, <2>3, <3>1
    <3>3. order[j] = b[j - Len(a)]
      BY <2>2, <2>3, <3>2
    <3> QED
      BY <2>3, <3>1, <3>2, <3>3
  <2> HIDE DEF order
  <2>7. stored \in Seq(Nat) /\ Len(stored) = HeadLen + TrailLen
        /\ \A i \in 1..HeadLen + TrailLen : stored[i] = order[i]
    <3>1. CASE c > headLines
      <4>1. TrailLen = c - headLines - 1 /\ Len(order) - 1 = HeadLen + TrailLen
        BY <2>1, <2>4, <3>1 DEF TrailLen
      <4>2. PICK m \in Nat : m = HeadLen + TrailLen
        BY <2>1
      <4>3. stored = SubSeq(order, 1, m) /\ m <= Len(order)
        BY <2>1, <2>4, <3>1, <4>1, <4>2 DEF Front
      <4>4. stored \in Seq(Nat) /\ Len(stored) = m /\ \A i \in 1..m : stored[i] = order[i]
        BY <2>4, <4>3
      <4> QED
        BY <4>2, <4>4
    <3>2. CASE ~(c > headLines)
      BY <2>1, <2>4, <3>2 DEF TrailLen
    <3> QED
      BY <3>1, <3>2
  <2> HIDE DEF stored
  <2>8. Len(fields) = HeadLen + TrailLen /\ DOMAIN fields = 1..HeadLen + TrailLen
        /\ DOMAIN stored = 1..HeadLen + TrailLen
    <3>1. DOMAIN fields = 1..Len(fields) /\ DOMAIN stored = 1..Len(stored)
      BY <2>0, <2>7 DEF Typed, FieldLists
    <3> QED
      BY <2>0, <2>7, <3>1 DEF Stored
  <2>9. ASSUME NEW i \in 1..HeadLen + TrailLen
        PROVE  fields[i] = Field(Up(lines[stored[i]].name), Pieces(Part(From(stored[i]), 2)))
    <3>1. CASE i <= HeadLen
      <4>1. i \in 1..HeadLen /\ stored[i] = i
        BY <2>1, <2>5, <2>7, <3>1
      <4> QED
        BY <2>0, <4>1 DEF Stored, LineField
    <3>2. CASE ~(i <= HeadLen)
      <4>1. PICK j \in 1..TrailLen : i = HeadLen + j
        <5>1. i - HeadLen \in 1..TrailLen /\ i = HeadLen + (i - HeadLen)
          BY <2>1, <3>2
        <5> QED
          BY <5>1
      <4>2. j \in 1..c - headLines
        BY <2>1, <4>1 DEF TrailLen
      <4>3. PICK k \in Nat : k = headLines + j
        BY <2>1, <4>1
      <4>4. stored[i] = k
        BY <2>6, <2>7, <4>1, <4>2, <4>3
      <4>5. From(k) = k
        <5>1. Again # {} => Min(Again) \in 1..headLines - 1
          BY <2>1, MinFacts
        <5>2. k \notin 1..headLines - 1
          BY <2>1, <4>3
        <5> QED
          BY <5>1, <5>2 DEF From
      <4> QED
        BY <2>0, <4>1, <4>3, <4>4, <4>5 DEF Stored, LineField
    <3> QED
      BY <3>1, <3>2
  <2>10. fields = G
    <3>1. fields = [i \in 1..HeadLen + TrailLen |-> fields[i]]
      BY <2>0, <2>8 DEF Typed, FieldLists
    <3> QED
      BY <2>8, <2>9, <3>1
  <2> QED
    BY <2>10 DEF Accumulated, stored, order, a, b, Again, HeadLen, From
<1> QED
  BY <1>1, Invariance, PTL

-----------------------------------------------------------------------------
(* The message sent on.                                                     *)

\* set_at_key and remove_at_key on the set of the fields.
LEMMA OnSets ==
  ASSUME NEW fs \in UniqueLists, NEW n \in AnyName, NEW v \in Values
  PROVE  /\ SetAtKey(fs, n, v) \in UniqueLists
         /\ FieldsOf(SetAtKey(fs, n, v)) = Without(FieldsOf(fs), n) \cup {Field(Up(n), v)}
         /\ \A m : RemoveAtKey(fs, m) \in UniqueLists
         /\ \A m : FieldsOf(RemoveAtKey(fs, m)) = Without(FieldsOf(fs), m)
<1>1. fs \in FieldLists /\ Unique(fs)
  BY DEF UniqueLists
<1>2. SetAtKey(fs, n, v) \in UniqueLists
  BY <1>1, SetAtKeyFacts DEF UniqueLists
<1>3. FieldsOf(SetAtKey(fs, n, v)) = Without(FieldsOf(fs), n) \cup {Field(Up(n), v)}
  BY <1>1, SetAtKeyFacts
<1>4. ASSUME NEW m
      PROVE  RemoveAtKey(fs, m) \in UniqueLists
             /\ FieldsOf(RemoveAtKey(fs, m)) = Without(FieldsOf(fs), m)
  BY <1>1, RemoveAtKeyFacts DEF UniqueLists
<1> QED
  BY <1>2, <1>3, <1>4

\* The same, with a name for what set_at_key leaves.
LEMMA SetLeaves ==
  ASSUME NEW fs \in UniqueLists, NEW n \in AnyName, NEW v \in Values
  PROVE  \E gs \in UniqueLists :
           /\ gs = SetAtKey(fs, n, v)
           /\ FieldsOf(gs) = Without(FieldsOf(fs), n) \cup {Field(Up(n), v)}
<1>1. /\ SetAtKey(fs, n, v) \in UniqueLists
      /\ FieldsOf(SetAtKey(fs, n, v)) = Without(FieldsOf(fs), n) \cup {Field(Up(n), v)}
  BY OnSets
<1> QED
  BY <1>1

\* The values and the names that the proxy puts in.
LEMMA OwnValues ==
  ASSUME Typed
  PROVE  /\ Own("CLOSE") \in Values /\ Own("identity") \in Values /\ Own("") \in Values
         /\ Own("uri") \in Values /\ Size(body) \in Values
         /\ ProxySets \subseteq AnyName
<1>1. <<>> \in Seq(Nat) /\ <<body>> \in Seq(Nat)
  <2>1. body \in Nat
    BY TransformAssumption DEF Typed
  <2> QED
    BY <2>1
<1>2. Size(body) \in Values
  BY <1>1 DEF Size, Values, Kinds
<1>3. \A kind \in Kinds : Own(kind) \in Values
  BY <1>1 DEF Own, Values
<1>4. Own("CLOSE") \in Values /\ Own("identity") \in Values /\ Own("") \in Values
      /\ Own("uri") \in Values
  BY <1>3 DEF Kinds
<1> QED
  BY <1>2, <1>4 DEF AnyName

\* What the Connection field lists are tokens of a line, and those of the only
\* Connection line when it is a header.
LEMMA ListedFacts ==
  ASSUME IInv
  PROVE  /\ IsFiniteSet(Listed)
         /\ \A c \in 1..headLines :
              {i \in 1..Len(lines) : lines[i].name = "CONNECTION"} = {c} =>
                Listed = lines[c].lists
<1> DEFINE p == FindAtIndex(fields, "CONNECTION")
<1>0. Typed
  BY DEF IInv
<1>1. fields \in FieldLists /\ lines \in Seq(Lines) /\ Len(lines) \in Nat /\ Len(fields) \in Nat
  BY <1>0 DEF Typed, FieldLists
<1>2. /\ p \in 0..Len(fields)
      /\ p = 0 <=> \A i \in 1..Len(fields) : fields[i].key # Up("CONNECTION")
      /\ p # 0 => fields[p].key = Up("CONNECTION")
  BY <1>1, FindFacts
<1> HIDE DEF p
<1>3. ASSUME p # 0
      PROVE  \E k \in 1..Len(lines) : lines[k].name = "CONNECTION" /\ Listed = lines[k].lists
  <2>1. PICK i \in 1..Len(fields) : i = p
    BY <1>1, <1>2, <1>3
  <2>2. PICK k \in 1..Len(lines) : fields[i] = LineField(k, k)
    BY FieldsAreLines
  <2>3. k \in Nat
    BY <1>1
  <2>4. LineField(k, k).key = Up(lines[k].name) /\ LineField(k, k).value = Pieces(Part(k, 2))
    BY <1>1, <2>3, LineFieldFacts
  <2>5. lines[k].name = "CONNECTION"
    BY <1>2, <1>3, <2>1, <2>2, <2>4, Keys
  <2>6. Part(k, 2)[1] = k
    <3>1. 2 \in Nat /\ 1 \in 1..2
      OBVIOUS
    <3> QED
      BY <2>3, <3>1, PartFacts
  <2>7. AtKey(fields, "CONNECTION").of[1] = k
    <3>1. AtKey(fields, "CONNECTION") = Pieces(Part(k, 2))
      BY <2>1, <2>2, <2>4 DEF AtKey, p
    <3> QED
      BY <2>6, <3>1 DEF Pieces
  <2>8. Listed = lines[k].lists
    BY <1>3, <2>7 DEF Listed, Has, p
  <2> QED
    BY <2>5, <2>8
<1>4. p = 0 => Listed = {}
  BY DEF Listed, Has, p
<1>5. IsFiniteSet(Listed)
  <2>1. Listed \subseteq Options
    <3>1. \A k \in 1..Len(lines) : lines[k].lists \subseteq Options
      BY <1>1 DEF Lines
    <3> QED
      BY <1>3, <1>4, <3>1
  <2>2. IsFiniteSet(Options)
    BY TransformAssumption
  <2> QED
    BY <2>1, <2>2, FS_Subset
<1>6. ASSUME NEW c \in 1..headLines,
             {i \in 1..Len(lines) : lines[i].name = "CONNECTION"} = {c}
      PROVE  Listed = lines[c].lists
  <2>1. PICK i \in 1..Len(fields) : fields[i].key = Up(lines[c].name)
    BY FieldsAreLines
  <2>2. lines[c].name = "CONNECTION"
    BY <1>6
  <2>3. p # 0
    BY <1>2, <2>1, <2>2
  <2>4. PICK k \in 1..Len(lines) : lines[k].name = "CONNECTION" /\ Listed = lines[k].lists
    BY <1>3, <2>3
  <2> QED
    BY <1>6, <2>4
<1> QED
  BY <1>5, <1>6

\* The request starts as a vector with its Host alone.
LEMMA HostFieldFacts ==
  ASSUME IInv, HasHost, route # "down"
  PROVE  HostField \in UniqueLists /\ \A f \in FieldsOf(HostField) : f.key = Up("HOST")
<1> DEFINE v == IF route = "http" THEN Own("uri") ELSE AtKey(fields, "HOST")
<1>0. Typed
  BY DEF IInv
<1>1. v \in Values
  <2>1. CASE route = "http"
    BY <1>0, <2>1, OwnValues
  <2>2. CASE route # "http"
    <3>1. Has(fields, "HOST")
      BY <1>0, <2>2 DEF HasHost, Typed
    <3>2. fields \in FieldLists /\ Len(fields) \in Nat
      BY <1>0 DEF Typed, FieldLists
    <3>3. PICK i \in 1..Len(fields) : i = FindAtIndex(fields, "HOST")
      BY <3>1, <3>2, FindFacts DEF Has
    <3>4. fields[i] \in Fields
      BY <3>2 DEF FieldLists
    <3>5. v = fields[i].value
      BY <2>2, <3>3 DEF AtKey
    <3> QED
      BY <3>4, <3>5, Keys
  <2> QED
    BY <2>1, <2>2
<1>2. HostField = SetAtKey(<<>>, "HOST", v)
  BY DEF HostField
<1> HIDE DEF v
<1>3. <<>> \in UniqueLists /\ FieldsOf(<<>>) = {}
  BY DEF UniqueLists, FieldLists, Unique, FieldsOf
<1>4. "HOST" \in AnyName
  BY DEF AnyName, ProxySets
<1>5. HostField \in UniqueLists
      /\ FieldsOf(HostField) = Without(FieldsOf(<<>>), "HOST") \cup {Field(Up("HOST"), v)}
  BY <1>1, <1>2, <1>3, <1>4, OnSets
<1>6. Field(Up("HOST"), v).key = Up("HOST")
  BY Keys
<1> QED
  BY <1>3, <1>5, <1>6 DEF Without

\* What is left of the client's headers once they are copied and the listed
\* ones are removed.
LEMMA ForwardedFacts ==
  ASSUME IInv, HasHost, route # "down"
  PROVE  /\ Forwarded(HostField) \in UniqueLists
         /\ \A f \in FieldsOf(Forwarded(HostField)) :
              /\ \A m \in Listed : f.key # Up(m)
              /\ f.key = Up("HOST") \/ (f \in FieldsOf(fields) /\ f.key \notin RequestDrops)
         /\ \A f \in FieldsOf(fields) :
              f.key \notin RequestDrops /\ (\A m \in Listed : f.key # Up(m)) =>
                \E g \in FieldsOf(Forwarded(HostField)) : g.key = f.key
<1>0. fields \in FieldLists
  BY DEF IInv, Typed
<1>1. HostField \in UniqueLists /\ \A f \in FieldsOf(HostField) : f.key = Up("HOST")
  BY HostFieldFacts
<1>2. HostField \in FieldLists /\ Unique(HostField)
  BY <1>1 DEF UniqueLists
<1>3. PICK gs \in UniqueLists :
        /\ gs = CopyExcept(fields, HostField, RequestDrops)
        /\ \A f \in FieldsOf(gs) :
             f \in FieldsOf(HostField) \/ (f \in FieldsOf(fields) /\ f.key \notin RequestDrops)
        /\ \A f \in FieldsOf(fields) :
             f.key \notin RequestDrops => \E g \in FieldsOf(gs) : g.key = f.key
  BY <1>0, <1>2, CopyExceptFacts DEF UniqueLists
<1>4. Forwarded(HostField) = RemoveHopByHop(gs)
  BY <1>3 DEF Forwarded
<1>5. /\ RemoveHopByHop(gs) \in UniqueLists
      /\ FieldsOf(RemoveHopByHop(gs)) = {f \in FieldsOf(gs) : \A m \in Listed : f.key # Up(m)}
  BY ListedFacts, RemoveHopByHopFacts
<1> QED
  BY <1>1, <1>3, <1>4, <1>5

\* The request sent upstream: each of its fields was set by the proxy or is a
\* field of the client that is neither in the list nor listed, and each of
\* those has a field.
LEMMA UpstreamFacts ==
  ASSUME IInv, HasHost, route # "down",
         NEW o, o = SetContentLength(UpstreamFields(HostField))
  PROVE  /\ o \in UniqueLists
         /\ Field(Up("CONTENT-LENGTH"), Size(body)) \in FieldsOf(o)
         /\ \A f \in FieldsOf(o) :
              \/ f.key = Up("CONNECTION") /\ f.value = Own("CLOSE")
              \/ f.key \in {Up("ACCEPT-ENCODING"), Up("TE"), Up("CONTENT-LENGTH")}
              \/ f.key = Up("HOST") /\ \A m \in Listed : f.key # Up(m)
              \/ /\ f \in FieldsOf(fields) /\ f.key \notin RequestDrops
                 /\ \A m \in Listed : f.key # Up(m)
         /\ \A f \in FieldsOf(fields) :
              f.key \notin RequestDrops /\ (\A m \in Listed : f.key # Up(m)) =>
                \E g \in FieldsOf(o) : g.key = f.key
<1>0. Typed
  BY DEF IInv
<1>1. /\ Own("CLOSE") \in Values /\ Own("identity") \in Values /\ Own("") \in Values
      /\ Size(body) \in Values
      /\ "CONNECTION" \in AnyName /\ "ACCEPT-ENCODING" \in AnyName /\ "TE" \in AnyName
      /\ "CONTENT-LENGTH" \in AnyName
  BY <1>0, OwnValues DEF ProxySets
<1>2. PICK f1 \in UniqueLists :
        /\ f1 = Forwarded(HostField)
        /\ \A f \in FieldsOf(f1) :
             /\ \A m \in Listed : f.key # Up(m)
             /\ f.key = Up("HOST") \/ (f \in FieldsOf(fields) /\ f.key \notin RequestDrops)
        /\ \A f \in FieldsOf(fields) :
             f.key \notin RequestDrops /\ (\A m \in Listed : f.key # Up(m)) =>
               \E g \in FieldsOf(f1) : g.key = f.key
  BY ForwardedFacts
<1>3. PICK f2 \in UniqueLists :
        /\ f2 = SetAtKey(f1, "CONNECTION", Own("CLOSE"))
        /\ FieldsOf(f2) = Without(FieldsOf(f1), "CONNECTION")
                            \cup {Field(Up("CONNECTION"), Own("CLOSE"))}
  BY <1>1, SetLeaves
<1>4. PICK f3 \in UniqueLists :
        /\ f3 = SetAtKey(f2, "ACCEPT-ENCODING", Own("identity"))
        /\ FieldsOf(f3) = Without(FieldsOf(f2), "ACCEPT-ENCODING")
                            \cup {Field(Up("ACCEPT-ENCODING"), Own("identity"))}
  BY <1>1, SetLeaves
<1>5. PICK f4 \in UniqueLists :
        /\ f4 = SetAtKey(f3, "TE", Own(""))
        /\ FieldsOf(f4) = Without(FieldsOf(f3), "TE") \cup {Field(Up("TE"), Own(""))}
  BY <1>1, SetLeaves
<1>6. PICK f5 \in UniqueLists :
        /\ f5 = RemoveAtKey(f4, "TRANSFER-ENCODING")
        /\ FieldsOf(f5) = Without(FieldsOf(f4), "TRANSFER-ENCODING")
  BY <1>1, OnSets
<1> DEFINE x == Field(Up("CONTENT-LENGTH"), Size(body))
<1>7. PICK f6 \in UniqueLists :
        /\ f6 = SetAtKey(f5, "CONTENT-LENGTH", Size(body))
        /\ FieldsOf(f6) = Without(FieldsOf(f5), "CONTENT-LENGTH") \cup {x}
  BY <1>1, SetLeaves
<1>8. PICK f7 \in UniqueLists :
        /\ f7 = SetAtKey(f6, "CONTENT-LENGTH", Size(body))
        /\ FieldsOf(f7) = Without(FieldsOf(f6), "CONTENT-LENGTH") \cup {x}
  BY <1>1, SetLeaves
<1>9. o = f7
  BY <1>2, <1>3, <1>4, <1>5, <1>6, <1>7, <1>8
     DEF SetContentLength, UpstreamFields, SetBody
<1>10. /\ Field(Up("CONNECTION"), Own("CLOSE")).key = Up("CONNECTION")
       /\ Field(Up("CONNECTION"), Own("CLOSE")).value = Own("CLOSE")
       /\ Field(Up("ACCEPT-ENCODING"), Own("identity")).key = Up("ACCEPT-ENCODING")
       /\ Field(Up("TE"), Own("")).key = Up("TE")
       /\ x.key = Up("CONTENT-LENGTH")
  BY Keys
<1> HIDE DEF x
<1>11. \A f \in FieldsOf(f7) :
         f = x \/ f = Field(Up("TE"), Own("")) \/ f = Field(Up("ACCEPT-ENCODING"), Own("identity"))
         \/ f = Field(Up("CONNECTION"), Own("CLOSE")) \/ f \in FieldsOf(f1)
  BY <1>3, <1>4, <1>5, <1>6, <1>7, <1>8 DEF Without
<1>12. ASSUME NEW f \in FieldsOf(f1), f.key # Up("TRANSFER-ENCODING")
       PROVE  \E g \in FieldsOf(f7) : g.key = f.key
  <2>1. PICK g2 \in FieldsOf(f2) : g2.key = f.key
    BY <1>3, <1>10 DEF Without
  <2>2. PICK g3 \in FieldsOf(f3) : g3.key = f.key
    BY <2>1, <1>4, <1>10 DEF Without
  <2>3. PICK g4 \in FieldsOf(f4) : g4.key = f.key
    BY <2>2, <1>5, <1>10 DEF Without
  <2>4. g4 \in FieldsOf(f5)
    BY <2>3, <1>6, <1>12 DEF Without
  <2>5. PICK g6 \in FieldsOf(f6) : g6.key = f.key
    BY <2>3, <2>4, <1>7, <1>10 DEF Without
  <2> QED
    BY <2>5, <1>8, <1>10 DEF Without
<1>13. Up("TRANSFER-ENCODING") \in RequestDrops
  BY DEF RequestDrops
<1>14. \A f \in FieldsOf(fields) :
         f.key \notin RequestDrops /\ (\A m \in Listed : f.key # Up(m)) =>
           \E g \in FieldsOf(f7) : g.key = f.key
  <2> SUFFICES ASSUME NEW f \in FieldsOf(fields), f.key \notin RequestDrops,
                      \A m \in Listed : f.key # Up(m)
               PROVE  \E g \in FieldsOf(f7) : g.key = f.key
    OBVIOUS
  <2>1. PICK g \in FieldsOf(f1) : g.key = f.key
    BY <1>2
  <2> QED
    BY <2>1, <1>12, <1>13
<1>15. \A f \in FieldsOf(f7) :
         \/ f.key = Up("CONNECTION") /\ f.value = Own("CLOSE")
         \/ f.key \in {Up("ACCEPT-ENCODING"), Up("TE"), Up("CONTENT-LENGTH")}
         \/ f.key = Up("HOST") /\ \A m \in Listed : f.key # Up(m)
         \/ /\ f \in FieldsOf(fields) /\ f.key \notin RequestDrops
            /\ \A m \in Listed : f.key # Up(m)
  BY <1>2, <1>10, <1>11
<1>16. x \in FieldsOf(f7)
  BY <1>8
<1> QED
  BY <1>9, <1>14, <1>15, <1>16 DEF x

\* The response sent downstream, alike.
LEMMA DownstreamFacts ==
  ASSUME IInv,
         NEW c, c = SetAtKey(CopyExcept(fields, <<>>, ResponseDrops), "CONNECTION", Own("CLOSE")),
         NEW o, o = IF body > 0 THEN SetBody(c, body) ELSE c
  PROVE  /\ o \in UniqueLists
         /\ body > 0 => Field(Up("CONTENT-LENGTH"), Size(body)) \in FieldsOf(o)
         /\ \A f \in FieldsOf(o) :
              \/ f.key \in {Up("CONNECTION"), Up("CONTENT-LENGTH")}
              \/ f \in FieldsOf(fields) /\ f.key \notin ResponseDrops
         /\ \A f \in FieldsOf(fields) :
              f.key \notin ResponseDrops => \E g \in FieldsOf(o) : g.key = f.key
<1>0. Typed /\ fields \in FieldLists
  BY DEF IInv, Typed
<1>1. /\ Own("CLOSE") \in Values /\ Size(body) \in Values
      /\ "CONNECTION" \in AnyName /\ "CONTENT-LENGTH" \in AnyName
  BY <1>0, OwnValues DEF ProxySets
<1>2. <<>> \in FieldLists /\ Unique(<<>>) /\ FieldsOf(<<>>) = {}
  BY DEF FieldLists, Unique, FieldsOf
<1>3. PICK f1 \in UniqueLists :
        /\ f1 = CopyExcept(fields, <<>>, ResponseDrops)
        /\ \A f \in FieldsOf(f1) :
             f \in FieldsOf(<<>>) \/ (f \in FieldsOf(fields) /\ f.key \notin ResponseDrops)
        /\ \A f \in FieldsOf(fields) :
             f.key \notin ResponseDrops => \E g \in FieldsOf(f1) : g.key = f.key
  BY <1>0, <1>2, CopyExceptFacts DEF UniqueLists
<1> DEFINE y == Field(Up("CONNECTION"), Own("CLOSE"))
           x == Field(Up("CONTENT-LENGTH"), Size(body))
<1>4. PICK f2 \in UniqueLists :
        /\ f2 = SetAtKey(f1, "CONNECTION", Own("CLOSE"))
        /\ FieldsOf(f2) = Without(FieldsOf(f1), "CONNECTION") \cup {y}
  BY <1>1, OnSets
<1>5. PICK f3 \in UniqueLists :
        /\ f3 = RemoveAtKey(f2, "TRANSFER-ENCODING")
        /\ FieldsOf(f3) = Without(FieldsOf(f2), "TRANSFER-ENCODING")
  BY <1>1, OnSets
<1>6. PICK f4 \in UniqueLists :
        /\ f4 = SetAtKey(f3, "CONTENT-LENGTH", Size(body))
        /\ FieldsOf(f4) = Without(FieldsOf(f3), "CONTENT-LENGTH") \cup {x}
  BY <1>1, OnSets
<1>7. c = f2 /\ o = IF body > 0 THEN f4 ELSE f2
  BY <1>3, <1>4, <1>5, <1>6 DEF SetBody
<1>8. y.key = Up("CONNECTION") /\ x.key = Up("CONTENT-LENGTH")
  BY Keys
<1> HIDE DEF x, y
<1>9. \A f \in FieldsOf(f2) \cup FieldsOf(f4) : f = x \/ f = y \/ f \in FieldsOf(f1)
  BY <1>4, <1>5, <1>6 DEF Without
<1>10. Up("TRANSFER-ENCODING") \in ResponseDrops
  BY DEF ResponseDrops
<1>11. ASSUME NEW f \in FieldsOf(fields), f.key \notin ResponseDrops
       PROVE  (\E g \in FieldsOf(f2) : g.key = f.key) /\ (\E g \in FieldsOf(f4) : g.key = f.key)
  <2>1. PICK g1 \in FieldsOf(f1) : g1.key = f.key
    BY <1>3, <1>11
  <2>2. PICK g2 \in FieldsOf(f2) : g2.key = f.key
    BY <2>1, <1>4, <1>8 DEF Without
  <2>3. g2 \in FieldsOf(f3)
    BY <2>2, <1>5, <1>10, <1>11 DEF Without
  <2>4. \E g \in FieldsOf(f4) : g.key = f.key
    BY <2>2, <2>3, <1>6, <1>8 DEF Without
  <2> QED
    BY <2>2, <2>4
<1>12. o \in UniqueLists /\ (o = f2 \/ o = f4) /\ (body > 0 => x \in FieldsOf(o))
  BY <1>6, <1>7
<1>13. \A f \in FieldsOf(o) :
         \/ f.key \in {Up("CONNECTION"), Up("CONTENT-LENGTH")}
         \/ f \in FieldsOf(fields) /\ f.key \notin ResponseDrops
  BY <1>2, <1>3, <1>8, <1>9, <1>12
<1>14. \A f \in FieldsOf(fields) :
         f.key \notin ResponseDrops => \E g \in FieldsOf(o) : g.key = f.key
  BY <1>11, <1>12
<1> QED
  BY <1>12, <1>13, <1>14 DEF x

\* What UpstreamFacts and DownstreamFacts say, of the message sent.
SentUp ==
  /\ out \in UniqueLists
  /\ Field(Up("CONTENT-LENGTH"), Size(body)) \in FieldsOf(out)
  /\ \A f \in FieldsOf(out) :
       \/ f.key = Up("CONNECTION") /\ f.value = Own("CLOSE")
       \/ f.key \in {Up("ACCEPT-ENCODING"), Up("TE"), Up("CONTENT-LENGTH")}
       \/ f.key = Up("HOST") /\ \A m \in Listed : f.key # Up(m)
       \/ /\ f \in FieldsOf(fields) /\ f.key \notin RequestDrops
          /\ \A m \in Listed : f.key # Up(m)
  /\ \A f \in FieldsOf(fields) :
       f.key \notin RequestDrops /\ (\A m \in Listed : f.key # Up(m)) =>
         \E g \in FieldsOf(out) : g.key = f.key

SentDown ==
  /\ out \in UniqueLists
  /\ body > 0 => Field(Up("CONTENT-LENGTH"), Size(body)) \in FieldsOf(out)
  /\ \A f \in FieldsOf(out) :
       \/ f.key \in {Up("CONNECTION"), Up("CONTENT-LENGTH")}
       \/ f \in FieldsOf(fields) /\ f.key \notin ResponseDrops
  /\ \A f \in FieldsOf(fields) :
       f.key \notin ResponseDrops => \E g \in FieldsOf(out) : g.key = f.key

SentOn == stage = "sent" => IF route = "down" THEN SentDown ELSE SentUp

\* Only the two actions that make a message reach the stage "sent", and
\* nothing happens after it.
LEMMA SentOnKept ==
  ASSUME IInv, SentOn, [Next]_vars
  PROVE  SentOn'
<1> SUFFICES ASSUME stage' = "sent" PROVE IF route' = "down" THEN SentDown' ELSE SentUp'
  BY DEF SentOn
<1>1. CASE MakeUpstreamRequest
  <2>1. HasHost /\ route # "down" /\ out' = SetContentLength(UpstreamFields(HostField))
        /\ UNCHANGED <<lines, fields, body, route>>
    BY <1>1 DEF MakeUpstreamRequest, peer
  <2>2. Listed' = Listed
    BY <2>1 DEF Listed
  <2>3. PICK o : o = out'
    OBVIOUS
  <2>4. o = SetContentLength(UpstreamFields(HostField))
    BY <2>1, <2>3
  <2>5. o \in UniqueLists /\ Field(Up("CONTENT-LENGTH"), Size(body)) \in FieldsOf(o)
    BY <2>1, <2>4, UpstreamFacts
  <2>6. \A f \in FieldsOf(o) :
          \/ f.key = Up("CONNECTION") /\ f.value = Own("CLOSE")
          \/ f.key \in {Up("ACCEPT-ENCODING"), Up("TE"), Up("CONTENT-LENGTH")}
          \/ f.key = Up("HOST") /\ \A m \in Listed : f.key # Up(m)
          \/ /\ f \in FieldsOf(fields) /\ f.key \notin RequestDrops
             /\ \A m \in Listed : f.key # Up(m)
    BY <2>1, <2>4, UpstreamFacts
  <2>7. \A f \in FieldsOf(fields) :
          f.key \notin RequestDrops /\ (\A m \in Listed : f.key # Up(m)) =>
            \E g \in FieldsOf(o) : g.key = f.key
    BY <2>1, <2>4, UpstreamFacts
  <2>8. SentUp'
    BY <2>1, <2>2, <2>3, <2>5, <2>6, <2>7 DEF SentUp
  <2> QED
    BY <2>1, <2>8
<1>2. CASE MakeDownstreamResponse
  <2> DEFINE c == SetAtKey(CopyExcept(fields, <<>>, ResponseDrops), "CONNECTION", Own("CLOSE"))
  <2>1. route = "down" /\ UNCHANGED <<lines, fields, body, route>>
        /\ out' = IF body > 0 THEN SetBody(c, body) ELSE c
    BY <1>2 DEF MakeDownstreamResponse, peer
  <2>2. PICK d : d = c
    OBVIOUS
  <2>3. PICK o : o = out'
    OBVIOUS
  <2>4. /\ d = SetAtKey(CopyExcept(fields, <<>>, ResponseDrops), "CONNECTION", Own("CLOSE"))
        /\ o = IF body > 0 THEN SetBody(d, body) ELSE d
    BY <2>1, <2>2, <2>3
  <2> HIDE DEF c
  <2>5. o \in UniqueLists /\ (body > 0 => Field(Up("CONTENT-LENGTH"), Size(body)) \in FieldsOf(o))
    BY <2>4, DownstreamFacts
  <2>6. \A f \in FieldsOf(o) :
          \/ f.key \in {Up("CONNECTION"), Up("CONTENT-LENGTH")}
          \/ f \in FieldsOf(fields) /\ f.key \notin ResponseDrops
    BY <2>4, DownstreamFacts
  <2>7. \A f \in FieldsOf(fields) :
          f.key \notin ResponseDrops => \E g \in FieldsOf(o) : g.key = f.key
    BY <2>4, DownstreamFacts
  <2>8. SentDown'
    BY <2>1, <2>3, <2>5, <2>6, <2>7 DEF SentDown
  <2> QED
    BY <2>1, <2>8
<1>3. CASE UNCHANGED vars
  <2>1. UNCHANGED <<lines, fields, body, route, stage, out>>
    BY <1>3 DEF vars, peer
  <2>2. Listed' = Listed
    BY <2>1 DEF Listed
  <2>3. IF route = "down" THEN SentDown ELSE SentUp
    BY <2>1 DEF SentOn
  <2>4. SentDown => SentDown'
    BY <2>1 DEF SentDown
  <2>5. SentUp => SentUp'
    BY <2>1, <2>2 DEF SentUp
  <2> QED
    BY <2>1, <2>3, <2>4, <2>5
<1>4. ASSUME NEW l \in Lines, NEW n \in 1..2, NewLine(l, n) PROVE FALSE
  BY <1>4 DEF NewLine
<1>5. CASE RestOfName \/ \E n \in 1..2 : ValueData(n)
  <2>1. given # 4 /\ stage = "sent"
    BY <1>5 DEF RestOfName, ValueData
  <2> QED
    BY <2>1 DEF IInv, Staged
<1>6. CASE HeadersComplete \/ MessageComplete \/ UpstreamCrashes
  BY <1>6 DEF HeadersComplete, MessageComplete, UpstreamCrashes
<1> QED
  BY <1>1, <1>2, <1>3, <1>4, <1>5, <1>6 DEF Next

\* The message sent on, in every state.
THEOREM SentOnHolds ==
  Spec => [](IInv /\ SentOn)
<1>1. Init => IInv /\ SentOn
  BY InitInv DEF Init, SentOn
<1>2. (IInv /\ SentOn) /\ [Next]_vars => (IInv /\ SentOn)'
  BY StepInv, SentOnKept
<1> QED
  BY <1>1, <1>2, PTL DEF Spec

\* The fields of a vector are its positions, and there is one for a key.
LEMMA OnePosition ==
  ASSUME NEW fs \in UniqueLists
  PROVE  /\ DOMAIN fs = 1..Len(fs) /\ \A i \in 1..Len(fs) : fs[i] \in FieldsOf(fs)
         /\ \A f \in FieldsOf(fs) :
              f \in Fields /\ Cardinality({i \in DOMAIN fs : fs[i].key = f.key}) = 1
<1>1. fs \in Seq(Fields) /\ DOMAIN fs = 1..Len(fs) /\ Len(fs) \in Nat
  BY DEF UniqueLists, FieldLists
<1>2. \A i \in 1..Len(fs) : fs[i] \in FieldsOf(fs)
  BY DEF FieldsOf
<1>3. ASSUME NEW f \in FieldsOf(fs)
      PROVE  f \in Fields /\ Cardinality({i \in DOMAIN fs : fs[i].key = f.key}) = 1
  <2>1. PICK p \in 1..Len(fs) : fs[p] = f
    BY DEF FieldsOf
  <2>2. f \in Fields
    BY <1>1, <2>1
  <2>3. \A i \in 1..Len(fs) : fs[i].key = f.key => i = p
    BY <2>1 DEF UniqueLists, Unique
  <2>4. {i \in DOMAIN fs : fs[i].key = f.key} = {p}
    BY <1>1, <2>1, <2>3
  <2>5. Cardinality({p}) = 1
    BY FS_Singleton
  <2> QED
    BY <2>2, <2>4, <2>5
<1> QED
  BY <1>1, <1>2, <1>3

\* A listed name is one that a field with this key must not have.
LEMMA ListedKey ==
  ASSUME NEW f \in Fields
  PROVE  f.key = Up(f.key.name) /\ ((\A m \in Listed : f.key # Up(m)) <=> f.key.name \notin Listed)
<1>1. f.key = Up(f.key.name)
  BY Keys
<1> QED
  BY <1>1, Keys

\* Whatever the client sent, and whatever its Connection line lists, no header
\* meant for the proxy alone goes upstream (request_transform_common and
\* remove_hop_by_hop).
THEOREM NoHopByHopHolds ==
  Spec => []NoHopByHop
<1>1. IInv /\ SentOn => NoHopByHop
  <2> SUFFICES ASSUME IInv, SentOn, stage = "sent", route # "down" PROVE NoHopByHop
    BY DEF NoHopByHop
  <2> DEFINE conns == {i \in DOMAIN lines : lines[i].name = "CONNECTION"}
  <2>1. SentUp
    BY DEF SentOn
  <2>2. out \in UniqueLists
    BY <2>1 DEF SentUp
  <2>3. ASSUME NEW i \in DOMAIN out
        PROVE  /\ out[i].key \in RequestDrops => out[i].key.name \in ProxySets
               /\ out[i].key = Up("CONNECTION") => out[i].value = Own("CLOSE")
               /\ \A c \in conns :
                    conns = {c} /\ c <= headLines /\ out[i].key.name \in lines[c].lists =>
                      out[i].key.name \in ProxySets \ {"HOST"}
    <3>1. PICK f \in Fields : f = out[i] /\ f \in FieldsOf(out)
      BY <2>2, <2>3, OnePosition
    <3>2. f.key = Up(f.key.name) /\ ((\A m \in Listed : f.key # Up(m)) <=> f.key.name \notin Listed)
      BY ListedKey
    <3>3. \A n : f.key = Up(n) => f.key.name = n
      BY <3>2, Keys
    <3>4. \/ f.key = Up("CONNECTION") /\ f.value = Own("CLOSE")
          \/ f.key \in {Up("ACCEPT-ENCODING"), Up("TE"), Up("CONTENT-LENGTH")}
          \/ f.key = Up("HOST") /\ f.key.name \notin Listed
          \/ f.key \notin RequestDrops /\ f.key.name \notin Listed
      BY <2>1, <3>1, <3>2 DEF SentUp
    <3>5. \/ f.key.name = "CONNECTION" /\ f.value = Own("CLOSE")
          \/ f.key.name \in {"ACCEPT-ENCODING", "TE", "CONTENT-LENGTH"}
          \/ f.key.name = "HOST" /\ f.key.name \notin Listed
          \/ f.key \notin RequestDrops /\ f.key.name \notin Listed
      BY <3>3, <3>4
    <3>6. f.key \in RequestDrops => f.key.name \in ProxySets
      BY <3>5 DEF ProxySets
    <3>7. f.key = Up("CONNECTION") => f.value = Own("CLOSE")
      <4>1. Up("CONNECTION") \in RequestDrops
        BY DEF RequestDrops
      <4> QED
        BY <3>3, <3>5, <4>1
    <3>8. f.key.name \in Listed => f.key.name \in ProxySets \ {"HOST"}
      BY <3>5 DEF ProxySets
    <3>9. ASSUME NEW c \in conns, conns = {c}, c <= headLines PROVE Listed = lines[c].lists
      <4>1. DOMAIN lines = 1..Len(lines) /\ Len(lines) \in Nat /\ headLines \in Nat
        BY DEF IInv, Typed
      <4>2. c \in 1..headLines /\ {j \in 1..Len(lines) : lines[j].name = "CONNECTION"} = {c}
        BY <3>9, <4>1
      <4> QED
        BY <4>2, ListedFacts
    <3> QED
      BY <3>1, <3>6, <3>7, <3>8, <3>9
  <2> QED
    BY <2>3 DEF NoHopByHop
<1> QED
  BY <1>1, SentOnHolds, PTL

\* Every header that is neither dropped nor set by the proxy goes on exactly
\* once, with a value it was sent with, and nothing else goes on, however often
\* the peer repeated a name (copy_except over set_at_key).
THEOREM EndToEndKeptHolds ==
  Spec => []EndToEndKept
<1>1. IInv /\ SentOn => EndToEndKept
  <2> SUFFICES ASSUME IInv, SentOn, stage = "sent" PROVE EndToEndKept
    BY DEF EndToEndKept
  <2> DEFINE drops == IF route = "down" THEN ResponseDrops ELSE RequestDrops
             lists == IF route = "down" THEN {} ELSE Listed
             kept == {n \in Names : /\ \E i \in 1..headLines : lines[i].name = n
                                    /\ Up(n) \notin drops /\ n \notin lists \cup ProxySets}
  <2>0. /\ fields \in FieldLists /\ lines \in Seq(Lines) /\ Len(lines) \in Nat
        /\ DOMAIN lines = 1..Len(lines)
    BY DEF IInv, Typed
  <2>1. IF route = "down" THEN SentDown ELSE SentUp
    BY DEF SentOn
  <2>2. out \in UniqueLists
    BY <2>1 DEF SentUp, SentDown
  <2>3. \A f \in FieldsOf(fields) : f \in Fields
    BY <2>0 DEF FieldLists, FieldsOf
  <2>4. ASSUME NEW n \in kept PROVE Cardinality({i \in DOMAIN out : out[i].key.name = n}) = 1
    <3>1. PICK k \in 1..headLines : lines[k].name = n
      OBVIOUS
    <3>2. PICK f \in FieldsOf(fields) : f.key = Up(n)
      BY <3>1, FieldsAreLines DEF FieldsOf
    <3>3. f \in Fields
      BY <2>3
    <3>4. f.key.name = n
      BY <3>2, Keys
    <3>5. (\A m \in Listed : f.key # Up(m)) <=> n \notin Listed
      BY <3>3, <3>4, ListedKey
    <3>6. \E g \in FieldsOf(out) : g.key = f.key
      <4>1. CASE route = "down"
        <5>1. f.key \notin ResponseDrops
          BY <3>2, <4>1
        <5> QED
          BY <2>1, <4>1, <5>1 DEF SentDown
      <4>2. CASE route # "down"
        <5>1. f.key \notin RequestDrops /\ n \notin Listed
          BY <3>2, <4>2
        <5> QED
          BY <2>1, <3>5, <4>2, <5>1 DEF SentUp
      <4> QED
        BY <4>1, <4>2
    <3>7. PICK g \in FieldsOf(out) : g.key = Up(n)
      BY <3>2, <3>6
    <3>8. Cardinality({i \in DOMAIN out : out[i].key = g.key}) = 1
      BY <2>2, OnePosition
    <3>9. ASSUME NEW i \in DOMAIN out PROVE out[i].key.name = n <=> out[i].key = g.key
      <4>1. out[i] \in Fields
        BY <2>2, <3>9, OnePosition
      <4>2. out[i].key = Up(out[i].key.name)
        BY <4>1, Keys
      <4> QED
        BY <3>7, <4>2, Keys
    <3>10. {i \in DOMAIN out : out[i].key.name = n} = {i \in DOMAIN out : out[i].key = g.key}
      BY <3>9
    <3> QED
      BY <3>8, <3>10
  <2>5. ASSUME NEW i \in DOMAIN out, out[i].key.name \notin ProxySets
        PROVE  \E k \in DOMAIN lines :
                 lines[k].name = out[i].key.name /\ out[i].value = Pieces(Part(k, 2))
    <3>1. PICK f \in Fields : f = out[i] /\ f \in FieldsOf(out)
      BY <2>2, <2>5, OnePosition
    <3>2. \A n : f.key = Up(n) => f.key.name = n
      BY Keys
    <3>3. /\ f.key # Up("CONNECTION") /\ f.key # Up("ACCEPT-ENCODING") /\ f.key # Up("TE")
          /\ f.key # Up("CONTENT-LENGTH") /\ f.key # Up("HOST")
      BY <2>5, <3>1, <3>2 DEF ProxySets
    <3>4. f \in FieldsOf(fields)
      <4>1. CASE route = "down"
        BY <2>1, <3>1, <3>3, <4>1 DEF SentDown
      <4>2. CASE route # "down"
        BY <2>1, <3>1, <3>3, <4>2 DEF SentUp
      <4> QED
        BY <4>1, <4>2
    <3>5. PICK k \in 1..Len(lines) : f = LineField(k, k)
      BY <3>4, FieldsAreLines DEF FieldsOf
    <3>6. k \in Nat
      BY <2>0
    <3>7. f.key = Up(lines[k].name) /\ f.value = Pieces(Part(k, 2))
      BY <2>0, <3>5, <3>6, LineFieldFacts
    <3>8. lines[k].name = f.key.name
      BY <3>2, <3>7
    <3> QED
      BY <2>0, <3>1, <3>7, <3>8
  <2> QED
    BY <2>4, <2>5 DEF EndToEndKept
<1> QED
  BY <1>1, SentOnHolds, PTL

\* What is sent on is delimited by exactly one Content-Length, the size of the
\* body it has, and never by chunks (set_body, p_set_content_length).
THEOREM FramedByLengthHolds ==
  Spec => []FramedByLength
<1>1. IInv /\ SentOn => FramedByLength
  <2> SUFFICES ASSUME IInv, SentOn, stage = "sent" PROVE FramedByLength
    BY DEF FramedByLength
  <2> DEFINE sizes == {i \in DOMAIN out : out[i].key = Up("CONTENT-LENGTH")}
             x == Field(Up("CONTENT-LENGTH"), Size(body))
  <2>1. IF route = "down" THEN SentDown ELSE SentUp
    BY DEF SentOn
  <2>2. out \in UniqueLists /\ out \in FieldLists
    BY <2>1 DEF SentUp, SentDown, UniqueLists
  <2>3. DOMAIN out = 1..Len(out) /\ \A i \in 1..Len(out) : out[i] \in FieldsOf(out)
    BY <2>2, OnePosition
  <2>4. x.key = Up("CONTENT-LENGTH") /\ x.value = Size(body)
    BY Keys
  <2>5. route # "down" \/ body > 0 => x \in FieldsOf(out)
    BY <2>1 DEF SentUp, SentDown
  <2> HIDE DEF x
  <2>6. ~Has(out, "TRANSFER-ENCODING")
    <3> DEFINE te == Up("TRANSFER-ENCODING")
    <3>1. te # Up("CONNECTION") /\ te # Up("ACCEPT-ENCODING") /\ te # Up("TE")
          /\ te # Up("CONTENT-LENGTH") /\ te # Up("HOST")
      BY Keys
    <3>2. te \in RequestDrops /\ te \in ResponseDrops
      BY DEF RequestDrops, ResponseDrops
    <3> HIDE DEF te
    <3>3. \A f \in FieldsOf(out) : f.key # te
      <4>1. CASE route = "down"
        BY <2>1, <3>1, <3>2, <4>1 DEF SentDown
      <4>2. CASE route # "down"
        BY <2>1, <3>1, <3>2, <4>2 DEF SentUp
      <4> QED
        BY <4>1, <4>2
    <3>4. \A i \in 1..Len(out) : out[i].key # Up("TRANSFER-ENCODING")
      BY <2>3, <3>3 DEF te
    <3> QED
      BY <2>2, <3>4, FindFacts DEF Has
  <2>7. ASSUME NEW f \in FieldsOf(out), f.key = Up("CONTENT-LENGTH") PROVE Cardinality(sizes) = 1
    BY <2>2, <2>7, OnePosition
  <2>8. Cardinality(sizes) <= 1
    <3>1. CASE sizes = {}
      BY <3>1, FS_EmptySet
    <3>2. CASE sizes # {}
      <4>1. PICK i \in 1..Len(out) : out[i].key = Up("CONTENT-LENGTH")
        BY <2>3, <3>2
      <4> QED
        BY <2>3, <2>7, <4>1
    <3> QED
      BY <3>1, <3>2
  <2>9. ASSUME x \in FieldsOf(out)
        PROVE  Cardinality(sizes) = 1 /\ AtKey(out, "CONTENT-LENGTH") = Size(body)
    <3> DEFINE p == FindAtIndex(out, "CONTENT-LENGTH")
    <3>1. Cardinality(sizes) = 1
      BY <2>4, <2>7, <2>9
    <3>2. PICK i \in 1..Len(out) : out[i] = x
      BY <2>9 DEF FieldsOf
    <3>3. /\ p \in 0..Len(out)
          /\ p = 0 <=> \A j \in 1..Len(out) : out[j].key # Up("CONTENT-LENGTH")
          /\ p # 0 => out[p].key = Up("CONTENT-LENGTH")
      BY <2>2, FindFacts
    <3>4. AtKey(out, "CONTENT-LENGTH") = out[p].value
      BY DEF AtKey
    <3> HIDE DEF p
    <3>5. Len(out) \in Nat
      BY <2>2 DEF FieldLists
    <3>6. p # 0
      BY <2>4, <3>2, <3>3
    <3>7. p \in 1..Len(out)
      BY <3>3, <3>5, <3>6
    <3>8. p = i
      BY <2>2, <2>4, <3>2, <3>3, <3>6, <3>7 DEF UniqueLists, Unique
    <3> QED
      BY <2>4, <3>1, <3>2, <3>4, <3>8
  <2> QED
    BY <2>5, <2>6, <2>8, <2>9 DEF FramedByLength
<1> QED
  BY <1>1, SentOnHolds, PTL
=============================================================================
