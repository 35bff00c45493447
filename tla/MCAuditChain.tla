--------------------------- MODULE MCAuditChain ---------------------------
(***************************************************************************)
(* Small instances of AuditChain.                                          *)
(***************************************************************************)
EXTENDS AuditChain, TLC

CONSTANTS w1, w2, s1, s2, d1, d2, x, y

\* Writers are interchangeable, and so are sealers, datasets and what events say.
Swap == Permutations(Writer) \cup Permutations(Sealer)
            \cup Permutations(Dataset) \cup Permutations(Body)
=============================================================================
