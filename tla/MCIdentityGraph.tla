-------------------------- MODULE MCIdentityGraph --------------------------
(***************************************************************************)
(* Small instances of IdentityGraph.  The records are ra, rb, rc, rd, re;   *)
(* the batches below are the shapes the branches of resolve_clusters tell  *)
(* apart.                                                                  *)
(***************************************************************************)
EXTENDS IdentityGraph, TLC

CONSTANTS ra, rb, rc, rd, re, run0, run1, run2, p1, p2

Strong(rs) == [members |-> rs, weak |-> {}]
Weak(rs, q) == [members |-> rs, weak |-> q]
Call(run, cs) == [run |-> run, clusters |-> cs]

\* The two clients are interchangeable.
Swap == Permutations({p1, p2})

\* No record has an authoritative id; all but rd share one; two are shared, the
\* first by more entities of SeedKeyed than a MaxGroup of 2 allows.
NoKeys == [r \in Record |-> 0]
SharedKey == [r \in Record |-> IF r = rd THEN 0 ELSE 1]
TwoKeys == [r \in Record |-> IF r \in {ra, rb, rc} THEN 1 ELSE 2]

\* What an earlier batch left.
NoSeed == <<>>
SeedOne == <<Strong({ra, rb, rc})>>
SeedFlagged == <<Weak({ra, rb}, {ra, rb})>>
SeedTwo == <<Strong({ra}), Strong({rb})>>
SeedKeyed == <<Strong({ra, rd}), Strong({rb, re}), Strong({rc})>>
SeedPairs == <<Strong({ra, rb}), Strong({rc, rd})>>
SeedWeak == <<Strong({ra}), Weak({rb, rc}, {rb, rc})>>
SeedWeakPair == <<Weak({ra, rb}, {ra, rb}), Strong({rc})>>

NoBatch == {}

\* What a steward asks to split off: anything, one or two records, or a record
\* and another entity's.
AnyRecords == SUBSET Record
OneOrTwo == {rs \in SUBSET Record : Cardinality(rs) \in 1..2}
Astray == {{ra, rc}, {rb}}

\* Every batch of one or two clusters over three records, strong or weak, and
\* of three: it creates, absorbs, merges, replays or flags a pair, depending on
\* what the calls before it left.
AnyCluster ==
    {c \in Cluster : c.members # {} /\ (c.weak = {} \/ c.weak \in PairsIn(c.members))}
AnyBatch ==
    {b \in {Call(run1, cs) : cs \in {<<c>> : c \in AnyCluster}
                                \cup {<<c, d>> : c, d \in AnyCluster}
                                \cup {<<Strong({q}), Strong({r}), Strong({t})>> : q, r, t \in Record}} :
        Partitioned(b.clusters)}

\* Over SeedTwo: a merge beside a brand-new weak cluster, or an absorb beside a
\* singleton, which this instance skips.
Arriving == {Call(run1, <<Strong({ra, rb}), Weak({rc, rd}, {rc, rd})>>),
             Call(run2, <<Strong({ra}), Strong({rb, rc, rd})>>)}

\* One batch, for clients that race to resolve it.
SameBatch == {Call(run1, <<Strong({ra, rb}), Weak({rc, rd}, {rc, rd})>>)}

\* Over SeedOne, SeedWeakPair and SeedPairs: an entity whole; two records of
\* one; an entity less a record, alone or before that record's own cluster.
Whole == {Call(run1, <<Strong({ra, rb, rc})>>)}
Together == {Call(run1, <<Strong({ra, rb})>>)}
LeavesOne == {Call(run1, <<Strong({rb, rc, rd})>>)}
Rejoined == {Call(run1, <<Strong({ra, rb, rc}), Strong({rd})>>), Call(run1, <<Strong({ra, rb})>>)}
MergeThenAbsorb == {Call(run1, <<Strong({ra, rb, rc}), Strong({rd})>>)}

\* Over SeedKeyed: an entity as it is.
Keyed == {Call(run1, <<Strong({ra, rd})>>)}
=============================================================================
