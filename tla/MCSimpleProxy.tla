--------------------------- MODULE MCSimpleProxy ---------------------------
(* SimpleProxy with three regexes, one of them malformed and one that       *)
(* matches nothing, and ints of three bits: 9 is read as 1.                 *)
EXTENDS SimpleProxy

MCMatching == {<<"all", "h">>}
=============================================================================
