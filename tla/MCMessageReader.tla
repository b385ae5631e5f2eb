-------------------------- MODULE MCMessageReader --------------------------
(* MessageReader: the kinds of peer and user of the runs.                   *)
EXTENDS MessageReader

Use(p, m, r) == [pipelined |-> p, malformed |-> m, readsAgain |-> r]

\* A peer that waits for its answer, and may send nonsense; a peer that does
\* not wait, with a user that reads on in the callback.
AllUses == {Use(FALSE, TRUE, FALSE), Use(FALSE, TRUE, TRUE), Use(TRUE, FALSE, TRUE)}

\* A peer that does not wait, with a user that reads on later.
PipelinedOnly == {Use(TRUE, FALSE, FALSE)}
=============================================================================
