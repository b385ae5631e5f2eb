----------------------------- MODULE MCLibrary -----------------------------
(***************************************************************************)
(* Library for TLC: the values of the constants that a configuration       *)
(* cannot write.                                                           *)
(***************************************************************************)
EXTENDS Library

\* Host names are sequences of labels.
SomeServers == {<<"g", "c">>, <<"w", "g", "c">>, <<"u">>}
SomeSkipped == {<<"u">>}
Names == {<<"g", "c">>, <<"*", "g", "c">>, <<"*", "c">>, <<"x", "*", "g", "c">>}
SomeCerts == {[cn |-> n, alt |-> {[kind |-> k, name |-> m]}] :
                n \in {<<>>, <<"g", "c">>, <<"x", "c">>}, m \in Names, k \in {"DNS", "IP"}}

SomeUrls ==
  {[protocol |-> "http", host |-> "h", port |-> "0", path |-> "", search |-> "q"],
   [protocol |-> "https", host |-> "h", port |-> "8443", path |-> "/p", search |-> ""]}

\* Which files of roots hold the root of which server.
SomeHolds ==
  {<<"default", "public">>, <<"cacert", "public">>, <<"osx-allcerts", "public">>,
   <<"osx-allcerts", "private">>, <<"combined-cacert", "public">>, <<"combined-cacert", "private">>}
SomeSigner == [ssllabs |-> "public", ssltest |-> "private"]
SomeAltNames ==
  [ssllabs |-> {{"ssllabs"}},
   ssltest |-> {{"ssltest", "api.ssltest", "www.ssltest"}, {"ssltest"}}]
=============================================================================
