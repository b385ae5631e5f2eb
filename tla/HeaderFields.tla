---------------------------- MODULE HeaderFields ----------------------------
(***************************************************************************)
(* marvin/http: class HeaderFields as operators on its m_fields_vector, a  *)
(* sequence of fields in the order they were added, and the setter of      *)
(* MessageBase that keeps the fields and the body together.                *)
(***************************************************************************)
EXTENDS Naturals, Sequences, SequencesExt

\* A key as it is stored; the code's constants are in upper case.
Spelled(name, upper) == [name |-> name, upper |-> upper]
Up(name) == Spelled(name, TRUE)

\* A value that is the size of a body.
Size(n) == [kind |-> "size", of |-> <<n>>]

Field(key, value) == [key |-> key, value |-> value]

\* find_at_index, 0 when there is none; at_key.
FindAtIndex(fs, name) == SelectInSeq(fs, LAMBDA f : f.key = Up(name))
Has(fs, name) == FindAtIndex(fs, name) # 0
AtKey(fs, name) == fs[FindAtIndex(fs, name)].value

\* set_at_key(FieldKeyArg, std::string): the first field with the key is updated.
SetAtKey(fs, name, v) ==
  IF Has(fs, name) THEN ReplaceAt(fs, FindAtIndex(fs, name), Field(Up(name), v))
                   ELSE Append(fs, Field(Up(name), v))

\* A HeaderFields made from pairs, which may repeat a key: after[n] is the
\* object after n of them.
FromPairs(pairs) ==
  LET after[n \in 0..Len(pairs)] ==
        IF n = 0 THEN <<>> ELSE SetAtKey(after[n - 1], pairs[n].key.name, pairs[n].value)
  IN  after[Len(pairs)]

\* What a move leaves in the object that was moved from.
MovedFrom(fs) == <<>>

\* Iterators are positions from 0; the fields a loop from begin() to end()
\* visits with ++ and *, and the position of a key, end() when there is none.
begin(fs) == 0
end(fs) == Len(fs)
Visited(fs) ==
  LET from[i \in begin(fs)..end(fs)] == IF i = end(fs) THEN <<>> ELSE <<fs[i + 1]>> \o from[i + 1]
  IN  from[begin(fs)]
find(fs, name) ==
  LET at == {i \in begin(fs)..(end(fs) - 1) : fs[i + 1].key = Up(name)}
  IN  IF at = {} THEN end(fs) ELSE CHOOSE i \in at : \A j \in at : i <= j

\* remove_at_key and erase_at_index: the fields behind the first one with the
\* key move down by one.
RemoveAtKey(fs, name) ==
  IF Has(fs, name) THEN RemoveAt(fs, FindAtIndex(fs, name)) ELSE fs

\* same_values: as many fields, and for each of them one with its key in the
\* other; the values are not compared.
same_values(fs, gs) == Len(fs) = Len(gs) /\ \A i \in DOMAIN fs : Has(gs, fs[i].key.name)

same_order_and_values(fs, gs) == Len(fs) = Len(gs) /\ \A i \in DOMAIN fs : fs[i] = gs[i]

\* Mutation: the copy ends at the first field in the list.
CopyExcept_Breaks(source, dest, list) ==
  LET stop == SelectInSeq(source, LAMBDA f : f.key \in list)
  IN  FoldLeft(LAMBDA fs, f : SetAtKey(fs, f.key.name, f.value), dest,
               IF stop = 0 THEN source ELSE SubSeq(source, 1, stop - 1))

\* copy_except: every field that is not in the list, through set_at_key.
\* copied[n] is dest after n turns of the loop.
CopyExcept(source, dest, list) ==
  LET copied[n \in 0..Len(source)] ==
        IF n = 0 THEN dest
        ELSE IF source[n].key \in list THEN copied[n - 1]
        ELSE SetAtKey(copied[n - 1], source[n].key.name, source[n].value)
  IN  copied[Len(source)]

\* Mutation: a Content-Length that is there is left alone.
SetBody_KeepsLength(fs, n) ==
  LET rest == RemoveAtKey(fs, "TRANSFER-ENCODING")
  IN  IF Has(rest, "CONTENT-LENGTH") THEN rest ELSE SetAtKey(rest, "CONTENT-LENGTH", Size(n))

\* MessageBase::set_body.
SetBody(fs, n) ==
  SetAtKey(RemoveAtKey(fs, "TRANSFER-ENCODING"), "CONTENT-LENGTH", Size(n))

=============================================================================
