----------------------------- MODULE Components -----------------------------
(***************************************************************************)
(* What clustering promises: records joined by a chain of matching pairs,  *)
(* and no others, get the same cluster.  The ways in which the program     *)
(* computes it are in DistributedClustering; this module says only what    *)
(* the answer is.                                                          *)
(***************************************************************************)
EXTENDS Integers

CONSTANTS
    Node,       \* ids of records
    NoAnswer    \* no answer yet

VARIABLES
    edge,       \* the scored pairs {u, v} above the threshold
    answer      \* NoAnswer, or a cluster for each record concerned

vars == <<edge, answer>>

Pairs == {e \in SUBSET Node : \E u, v \in Node : u # v /\ e = {u, v}}
Touched == UNION edge

\* No edge leaves S.
Closed(S) == \A e \in edge : e \cap S # {} => e \subseteq S
\* There is a chain from u to v: nothing an edge does not leave parts them.
Connected(u, v) == \A S \in SUBSET Node : Closed(S) => (u \in S <=> v \in S)

Correct(f) ==
    /\ Touched \subseteq DOMAIN f /\ DOMAIN f \subseteq Node
    /\ \A u, v \in DOMAIN f : f[u] = f[v] <=> Connected(u, v)

Init == edge \in SUBSET Pairs /\ answer = NoAnswer

Answer ==
    /\ answer = NoAnswer
    /\ answer' # NoAnswer /\ Correct(answer')
    /\ UNCHANGED edge

Spec == Init /\ [][Answer]_vars
=============================================================================
