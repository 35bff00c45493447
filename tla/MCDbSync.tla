------------------------------ MODULE MCDbSync ------------------------------
(***************************************************************************)
(* A small instance of DbSync: a row that links two others.                *)
(***************************************************************************)
EXTENDS DbSync, TLC

CONSTANTS left, bridge, right

Bridge == {{left, bridge}, {bridge, right}}
\* The two ends are interchangeable.
Mirror == Permutations({left, right})
=============================================================================
