--------------------------- MODULE CertFileTest ----------------------------
(***************************************************************************)
(* experiments/ssl/client.cpp: the program that tests which file of root   *)
(* certificates lets a TLS client trust a server.                          *)
(*                                                                         *)
(* A test is one connection, with its own io_service; the next test starts *)
(* when it is over.  External: the servers, www.ssllabs.com and the local  *)
(* domain ssltest, who signed their certificates and which names those     *)
(* have, which roots a file holds, and when an operation fails.            *)
(***************************************************************************)
EXTENDS Naturals, Sequences

CONSTANTS
  Holds,         \* pairs <<file, root>>
  Signer,        \* [servers -> root of the certificate it shows]
  AltNames       \* [servers -> sets of subjectAltNames it may show]

VARIABLES
  case,          \* number of the test that runs
  at,            \* where its client is
  ctx,           \* the roots in its SSL context
  success, where, _subjectAltnames,
  thrown,        \* a validation threw: the program ends
  passed         \* ghost: what was so when a test passed

vars == <<case, at, ctx, success, where, _subjectAltnames, thrown, passed>>

-----------------------------------------------------------------------------
(* The test cases, in the order main runs them.                             *)

Test(host, file, via, expect) == [host |-> host, file |-> file, via |-> via, expect |-> expect]

\* The four wrappers of runOneTest.  The two for another file than the default
\* one both pass true for viaX509Store.
withDefaultCertFile(host, expect) == Test(host, "default", "context", expect)
withDefaultCertFileViaX509Store(host, expect) == Test(host, "default", "store", expect)
withNonDefaultCertFile(host, file, expect) == Test(host, file, "store", expect)
withNonDefaultCertFileViaX509Store(host, file, expect) == Test(host, file, "store", expect)

ssllabs_testSuite ==
  << withDefaultCertFile("ssllabs", "success"),
     withNonDefaultCertFile("ssllabs", "default", "success"),
     withNonDefaultCertFile("ssllabs", "cacert", "success"),
     withNonDefaultCertFile("ssllabs", "x_cacert", "handshake") >>

ssllabs_testSuiteViaX509Store ==
  << withDefaultCertFileViaX509Store("ssllabs", "success"),
     withNonDefaultCertFileViaX509Store("ssllabs", "default", "success"),
     withNonDefaultCertFileViaX509Store("ssllabs", "cacert", "success"),
     withNonDefaultCertFileViaX509Store("ssllabs", "x_cacert", "handshake") >>

ssltest_testSuite ==
  << withDefaultCertFile("ssltest", "handshake"),
     withNonDefaultCertFile("ssltest", "default", "handshake"),
     withNonDefaultCertFile("ssltest", "osx-allcerts", "success"),
     withNonDefaultCertFile("ssltest", "combined-cacert", "names") >>

ssltest_testSuiteViaX509Store ==
  << withDefaultCertFileViaX509Store("ssltest", "handshake"),
     withNonDefaultCertFileViaX509Store("ssltest", "default", "handshake"),
     withNonDefaultCertFileViaX509Store("ssltest", "osx-allcerts", "success"),
     withNonDefaultCertFileViaX509Store("ssltest", "combined-cacert", "names") >>

Cases == ssllabs_testSuite \o ssllabs_testSuiteViaX509Store
           \o ssltest_testSuite \o ssltest_testSuiteViaX509Store

Now == Cases[case]

\* The names the last test of the suite expects.
Names == {"ssltest", "api.ssltest", "www.ssltest"}

-----------------------------------------------------------------------------

Init ==
  /\ case = 1 /\ at = "none" /\ ctx = {} /\ success = FALSE /\ where = "" /\ _subjectAltnames = {}
  /\ thrown = FALSE /\ passed = {}

\* Mutation: the context keeps the roots of the test before.
runOneTest_KeepsRoots ==
  /\ ~thrown /\ at = "none" /\ case <= Len(Cases)
  /\ ctx' = ctx \cup {r \in {h[2] : h \in Holds} : <<Now.file, r>> \in Holds}
  /\ at' = "connecting" /\ success' = FALSE /\ where' = "" /\ _subjectAltnames' = {}
  /\ UNCHANGED <<case, thrown, passed>>

\* A new context with the roots of the file, loaded into the context itself or
\* into an X509_STORE that is given to it; and a client, whose constructor
\* resolves, connects and runs the io_service.
runOneTest ==
  /\ ~thrown /\ at = "none" /\ case <= Len(Cases)
  /\ ctx' = {r \in {h[2] : h \in Holds} : <<Now.file, r>> \in Holds}
  /\ at' = "connecting" /\ success' = FALSE /\ where' = "" /\ _subjectAltnames' = {}
  /\ UNCHANGED <<case, thrown, passed>>

\* The constructor resolves the name synchronously: a failure is thrown, and
\* caught nowhere.
ResolveThrows ==
  /\ ~thrown /\ at = "none" /\ case <= Len(Cases)
  /\ thrown' = TRUE /\ success' = FALSE
  /\ UNCHANGED <<case, at, ctx, where, _subjectAltnames, passed>>

\* A handler that is given an error notes where, and starts nothing: run()
\* returns.
Fails(step) == at' = "done" /\ where' = step /\ UNCHANGED <<case, ctx, success, _subjectAltnames>>

handle_connect ==
  /\ at = "connecting"
  /\ \/ at' = "handshaking" /\ UNCHANGED <<case, ctx, success, where, _subjectAltnames>>
     \/ Fails("CONNECT")
  /\ UNCHANGED <<thrown, passed>>

\* handle_handshake: the names are taken from the certificate, and the request
\* is written.  OpenSSL breaks the handshake off when the context does not trust
\* the certificate; it may fail for other reasons.
handle_handshake ==
  /\ at = "handshaking"
  /\ \/ /\ Signer[Now.host] \in ctx
        /\ _subjectAltnames' \in AltNames[Now.host]
        /\ at' = "writing" /\ UNCHANGED <<case, ctx, success, where>>
     \/ Fails("HANDSHAKE")
  /\ UNCHANGED <<thrown, passed>>

\* handle_write: async_read is asked for as many bytes as were written.
handle_write ==
  /\ at = "writing"
  /\ \/ at' = "reading" /\ UNCHANGED <<case, ctx, success, where, _subjectAltnames>>
     \/ Fails("WRITE")
  /\ UNCHANGED <<thrown, passed>>

\* handle_read: async_read ends with as many bytes as it was asked for, or with
\* an error.
handle_read ==
  /\ at = "reading"
  /\ \/ at' = "done" /\ success' = TRUE /\ UNCHANGED <<case, ctx, where, _subjectAltnames>>
     \/ Fails("READ")
  /\ UNCHANGED <<thrown, passed>>

\* validateSuccess, validateFailInHandshake, validateSubjectAltNames.
validateSuccess == success
validateFailInHandshake == ~success /\ where = "HANDSHAKE"
validateSubjectAltNames == success /\ _subjectAltnames = Names

\* The suite validates the result; what is thrown is caught nowhere.
Validates ==
  /\ at = "done" /\ ~thrown
  /\ LET ok == \/ Now.expect = "success" /\ validateSuccess
               \/ Now.expect = "handshake" /\ validateFailInHandshake
               \/ Now.expect = "names" /\ validateSuccess /\ validateSubjectAltNames
     IN  /\ thrown' = ~ok
         /\ passed' = IF ok THEN passed \cup {[case |-> case, where |-> where]} ELSE passed
  /\ case' = case + 1 /\ at' = "none"
  /\ UNCHANGED <<ctx, success, where, _subjectAltnames>>

Next ==
  \/ runOneTest \/ ResolveThrows \/ handle_connect \/ handle_handshake \/ handle_write \/ handle_read
  \/ Validates

-----------------------------------------------------------------------------
\* A test tells the truth about its file.  One that expects success has passed
\* only with a file that holds the root of the server, one that expects a failed
\* handshake only with one that failed there; a successful exchange ends the
\* program only with unexpected names, or where the test's own file holds the
\* root it is thought to lack, so never because of roots of a test before.
Judged ==
  /\ \A p \in passed :
       LET c == Cases[p.case]
       IN  /\ c.expect \in {"success", "names"} => <<c.file, Signer[c.host]>> \in Holds
           /\ c.expect = "handshake" => p.where = "HANDSHAKE"
  /\ thrown /\ success =>
       LET c == Cases[case - 1]
       IN  \/ c.expect = "names" /\ _subjectAltnames # Names
           \/ c.expect = "handshake" /\ <<c.file, Signer[c.host]>> \in Holds
=============================================================================
