----------------------------- MODULE Admission -----------------------------
(***************************************************************************)
(* What TcpServer together with ServerConnectionManager promises, stated   *)
(* without an event loop: connections are offered one at a time, an        *)
(* offered connection becomes active, and the active ones together with    *)
(* the offered one never exceed MaxConnections.  A failed offer ends the   *)
(* service.  TcpServer is shown to implement this module.                  *)
(***************************************************************************)
EXTENDS Naturals, FiniteSets

CONSTANTS
  Handlers,         \* identities of connection handlers
  MaxConnections    \* the configured limit

VARIABLES
  active,           \* handlers whose request handler owns a connection
  offered,          \* handlers waiting for (or just given) a connection
  ended             \* the service no longer does anything

avars == <<active, offered, ended>>

AdmissionInit ==
  /\ active = {}
  /\ offered = {}
  /\ ended = FALSE

\* A place is kept free for the connection that is on offer.
HasPlace(s) == Cardinality(s) < MaxConnections

Offer(h) ==
  /\ ~ended
  /\ offered = {}
  /\ h \notin active
  /\ HasPlace(active)
  /\ offered' = {h}
  /\ UNCHANGED <<active, ended>>

\* The offered connection becomes active; the next offer is made in the same
\* step exactly when there is a place for it.
Admit(h) ==
  /\ ~ended
  /\ offered = {h}
  /\ active' = active \cup {h}
  /\ IF HasPlace(active')
       THEN \E g \in Handlers \ active' : offered' = {g}
       ELSE offered' = {}
  /\ UNCHANGED ended

Leave(h) ==
  /\ ~ended
  /\ h \in active
  /\ active' = active \ {h}
  /\ UNCHANGED <<offered, ended>>

\* The offer fails, and with it the service; or the service never starts.
End ==
  /\ ~ended
  /\ ended' = TRUE
  /\ offered' = {}
  /\ UNCHANGED active

AdmissionNext ==
  \/ \E h \in Handlers : Offer(h) \/ Admit(h) \/ Leave(h)
  \/ End

AdmissionSpec == AdmissionInit /\ [][AdmissionNext]_avars
=============================================================================
