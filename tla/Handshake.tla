----------------------------- MODULE Handshake -----------------------------
(***************************************************************************)
(* apps/handshake: a program that makes a TLS connection to one host after *)
(* another, builds the certificate the proxy would present in its place,   *)
(* and prints whether the host's own certificate is one for that host.     *)
(*                                                                         *)
(* It has two clients.  The one of cert_handshaker.cpp resolves the name   *)
(* synchronously, and what that throws is caught nowhere; the one of       *)
(* marvin_handshaker.cpp works through a Connection.  Both take the root   *)
(* certificates from Certificates, whose X509_STORE they share.            *)
(*                                                                         *)
(* A name is the sequence of its labels; "*" is the label that stands for  *)
(* any.                                                                    *)
(***************************************************************************)
EXTENDS Certificates

CONSTANTS
  Hosts,       \* hosts that may be asked for
  Skipped,     \* those given as a URL, with "//"
  Certs,       \* certificates: common name, or <<>>, and alternative names
  MaxHosts     \* bound: lines of the file

VARIABLES
  hosts,       \* the lines of the file, or the one host of the command line
  marvin_flag, \* --marvin: which client is used
  at,          \* where the program is
  line,        \* number of the line it works on
  cert,        \* the certificate the server showed
  reports      \* what was printed for each line so far

handshake == <<hosts, marvin_flag, at, line, cert, reports, certificates>>

NoCert == [cn |-> <<>>, alt |-> {}]

HandshakeInit ==
  /\ Init
  /\ validWorkingDir /\ validEnvVariables
  /\ hosts \in UNION {[1..n -> Hosts] : n \in 1..MaxHosts}
  /\ marvin_flag \in BOOLEAN
  /\ at = "next" /\ line = 1 /\ cert = NoCert /\ reports = <<>>

-----------------------------------------------------------------------------
(* check_host.cpp.                                                          *)

\* Label i of a name, counted from its end.
Label(name, i) == name[Len(name) + 1 - i]

\* Fault: a label that differs is not a definite no.
Compared_Lenient(host, dns, i, match) ==
  IF Label(host, i) = Label(dns, i) THEN "match" ELSE match

\* What one turn of the loop of matchHostAgainstDnsName() makes of match: it
\* goes from the last label of both names to the first of the host.
Compared(host, dns, i, match) ==
  IF Label(host, i) = Label(dns, i)
  THEN IF i = Len(host) /\ Len(dns) > i /\ Label(dns, i + 1) # "*" THEN "no" ELSE "match"
  ELSE IF Label(dns, i) # "*" THEN "no" ELSE match

matchHostAgainstDnsName(host, dns) ==
  LET after[i \in 0..Len(host)] ==
        IF i = 0 THEN "none"
        ELSE IF after[i - 1] = "no" THEN "no" ELSE Compared(host, dns, i, after[i - 1])
  IN  Len(host) \leq Len(dns) /\ after[Len(host)] = "match"

\* splitDNSNames(): alternative names of another kind are dropped.
splitDNSNames(alt) == {a.name : a \in {a \in alt : a.kind = "DNS"}}

matchHostAgainstDnsAltString(host, alt) ==
  \E dns \in splitDNSNames(alt) : matchHostAgainstDnsName(host, dns)

\* xmitmWorked().
mitmWorked(host, c) ==
  matchHostAgainstDnsAltString(host, c.alt) \/ matchHostAgainstDnsName(host, c.cn)

-----------------------------------------------------------------------------
(* ContactServer.                                                           *)

Host == hosts[line]

Running == ~aborted /\ line \leq Len(hosts)

Report(verdict) == reports' = Append(reports, [host |-> Host, verdict |-> verdict, cert |-> cert])

Goes(to) == at' = to /\ UNCHANGED <<hosts, marvin_flag, line>>

\* handleFile() and handleHostName().
handleHostName ==
  /\ Running /\ at = "next"
  /\ IF Host \in Skipped
     THEN Report("skipped") /\ line' = line + 1 /\ UNCHANGED at
     ELSE /\ UNCHANGED <<reports, line>>
          /\ at' = IF marvin_flag THEN "connecting" ELSE "instance"
  /\ UNCHANGED <<hosts, marvin_flag, cert, certificates>>

\* Certificates::getInstance(), the first time and later.
NeedsInstance ==
  /\ Running /\ at = "instance"
  /\ IF instance.made THEN UNCHANGED certificates ELSE getInstance
  /\ Goes(IF marvin_flag THEN "secure" ELSE "outer") /\ UNCHANGED <<cert, reports>>

\* certContactServer() makes a context of its own, which it does not use.
certContactServer ==
  /\ Running /\ at = "outer"
  /\ Secures("outer") /\ Goes("secure") /\ UNCHANGED <<cert, reports>>

\* client::makeSecure(), and become_secure_client() in p_handshake_upstream().
makeSecure ==
  /\ Running /\ at = "secure"
  /\ Secures("socket")
  /\ Goes(IF marvin_flag THEN "handshaking" ELSE "resolving") /\ UNCHANGED <<cert, reports>>

\* client::handshake(): resolve() throws where there is no such host.
Resolves(ok) ==
  /\ Running /\ at = "resolving"
  /\ aborted' = ~ok /\ Goes("connecting")
  /\ UNCHANGED <<env, disk, config, configs, maker, instance, refs, contexts, cert, reports>>

\* p_on_connect_error(), p_on_handshake_error(), p_postCallback() with an error.
Failed == Goes("error")

\* p_handle_connect(), and the callback of async_connect in Handshaker::handshake().
Connected(ok) ==
  /\ Running /\ at = "connecting"
  /\ IF ok THEN Goes(IF marvin_flag THEN "instance" ELSE "handshaking") ELSE Failed
  /\ UNCHANGED <<cert, reports, certificates>>

\* The certificate of the server is kept for the callback: in
\* p_handshake_upstream(), or by saveServerCertificate().
Saved == cert' \in Certs /\ Goes("callback")

\* p_handle_handshake(), and the callback of async_handshake: without roots to
\* trust no server is verified.
ShakenHands(ok) ==
  /\ Running /\ at = "handshaking" /\ (ok => instance.roots)
  /\ IF ok THEN Saved ELSE Failed /\ UNCHANGED cert
  /\ UNCHANGED <<reports, certificates>>

\* What the end of contactServer() destroys.
Destroyed ==
  /\ contexts' = {} /\ refs' = refs - Cardinality(contexts)
  /\ UNCHANGED <<env, disk, config, configs, maker, instance>>

\* The callback given to handshake(), the end of io.run() and of the function.
\* xmitmWorked() reads the common name whether there is one or not.
Callback ==
  /\ Running /\ at \in {"error", "callback"}
  /\ IF at = "callback" /\ cert.cn = <<>>
     THEN aborted' = TRUE /\ UNCHANGED reports
     ELSE /\ UNCHANGED aborted
          /\ Report(IF at = "error" THEN "error"
                    ELSE IF mitmWorked(Host, cert) THEN "OK" ELSE "FAILED")
  /\ Destroyed
  /\ at' = "next" /\ line' = line + 1 /\ cert' = NoCert /\ UNCHANGED <<hosts, marvin_flag>>

\* The config utility may have run before.
Prepared == at = "next" /\ line = 1 /\ BuildNext /\ UNCHANGED <<hosts, marvin_flag, at, line, cert, reports>>

HandshakeNext ==
  \/ Prepared \/ handleHostName \/ NeedsInstance \/ certContactServer \/ makeSecure \/ Callback
  \/ \E ok \in BOOLEAN : Resolves(ok) \/ Connected(ok) \/ ShakenHands(ok)

-----------------------------------------------------------------------------
(* Properties.                                                              *)

\* The names a certificate is for.
NamesOf(c) == {c.cn} \cup {a.name : a \in {b \in c.alt : b.kind = "DNS"}}

\* What the comments in check_host.cpp allow: the host's own name, or one whose
\* first label is a wildcard, before the host or in place of its first label.
Allowed(name, host) ==
  \/ name = host
  \/ name = <<"*">> \o host
  \/ Len(host) > 1 /\ name = <<"*">> \o Tail(host)

\* A wildcard elsewhere than leftmost, which those comments rule out.
Stray(name) == \E i \in 2..Len(name) : name[i] = "*"

\* The host's labels end name, with "*" for any label, and one of them is there
\* in so many words.
Covers(name, host) ==
  \E front \in 0..(Len(name) - Len(host)) :
    LET tail == SubSeq(name, front + 1, Len(name)) IN
    /\ Len(tail) = Len(host)
    /\ \A i \in DOMAIN host : tail[i] \in {host[i], "*"}
    /\ \E i \in DOMAIN host : tail[i] = host[i]

Vouches(name, host) == Allowed(name, host) \/ (Stray(name) /\ Covers(name, host))

\* The reports are about the lines in their order, one for each, and OK is
\* printed only for a host that the certificate shown for it has a name for:
\* where no wildcard strays into the middle of a name, the host's own or one with
\* a wildcard in front, as the comments in check_host.cpp have it.  Of a name with
\* a stray wildcard the code asks less: the branch whose comment says "must be left
\* most element" (check_host.cpp:108) cannot be reached, as the one before it has
\* the same condition, and a wildcard falls through to the empty branch after it.
VerdictSound ==
  \A i \in DOMAIN reports :
    /\ reports[i].host = hosts[i]
    /\ reports[i].verdict = "OK" => \E name \in NamesOf(reports[i].cert) : Vouches(name, hosts[i])
=============================================================================
