--------------------------- MODULE MCLearningMemory ---------------------------
(***************************************************************************)
(* Small instances of LearningMemory: rows that are reordered and dropped   *)
(* between runs.                                                            *)
(***************************************************************************)
EXTENDS LearningMemory

CONSTANTS x, y, z, k1, k2

Pairs == {{x, y}}
Frames == {<<x, y>>, <<z, y, x>>}
\* An agent that approves the first two rows, or the last two.
Sources == {[pair |-> p, decision |-> "approve", trust |-> 1] : p \in {<<1, 2>>, <<2, 3>>}}
=============================================================================
