--------------------------- MODULE IdentityRules ---------------------------
(***************************************************************************)
(* The decisions the identity layer takes from what it has read, without   *)
(* the reads and writes around them: which entity a cluster belongs to,    *)
(* who survives a merge (resolve.py), which entities overlap persistently  *)
(* (stabilize.py) and which share an authoritative id (store.py).          *)
(***************************************************************************)
EXTENDS IdentityStore

CONSTANTS
    KeyOf,      \* record |-> its authoritative id (an npi, say), 0 for none
    MaxGroup,   \* a key held by more entities than this is a placeholder
    MinRuns     \* distinct runs that make an overlap persistent

\* One cluster of a batch: its records and, when its confidence is below the
\* weak threshold, its bottleneck pair ({} otherwise).
Cluster == [members : SUBSET Record, weak : SUBSET Record]

\* pair_scores of a cluster: every pair of two records inside it was scored.
PairsIn(members) == {q \in Pair : q \subseteq members /\ \E a, b \in q : a # b}

EdgesFor(kind, e, pairs, run) ==
    {[kind |-> kind, ent |-> e, pair |-> q, run |-> run] : q \in pairs}

\* Mutant: every pair is written again on every run (#2197).
EvidenceAlways(c, e, changed, run) == EdgesFor("same_as", e, PairsIn(c.members), run)

\* 3d and 3e: the evidence a cluster leaves on its entity.  changed is the set
\* of records this run added: pairs among the others are not written again,
\* and a cluster that changed nothing writes no edge at all.
Evidence(c, e, changed, run) ==
    LET touched == {q \in PairsIn(c.members) : q \cap changed # {}}
        weak    == IF changed = {} \/ c.weak = {} THEN {} ELSE {c.weak} \cap Pair
    IN EdgesFor("same_as", e, touched, run) \cup EdgesFor("conflicts_with", e, weak, run)

\* The entities that the pre-flight lookup found for a cluster's records.
FoundIn(found, members) == {found[r] : r \in members} \ {NoEntity}

\* The element of ents with the largest weight, the oldest of them on a tie:
\* a singleton, as a set so that an action can pick its element with \E.
Foremost(ents, weight) ==
    {w \in ents : \A u \in ents : \/ weight[w] > weight[u]
                                  \/ weight[w] = weight[u] /\ w <= u}

\* The merge branch ranks by members found in this cluster.
MergeWinner(found, members) ==
    LET ents == FoundIn(found, members)
    IN Foremost(ents, [e \in ents |-> Cardinality({r \in members : found[r] = e})])

----------------------------------------------------------------------------
(* Union-find, as the set it computes. *)

Closed(es, links) == \A l \in links : l \cap es # {} => l \subseteq es

ComponentOf(e, links) ==
    {f \in Entity : \A es \in SUBSET Entity : e \in es /\ Closed(es, links) => f \in es}

----------------------------------------------------------------------------
(* Cross-run stabilization. *)

\* The runs whose same_as evidence, kept on an active entity, now spans the
\* two active entities e and f.
OverlapRuns(g, e, f) ==
    {x.run : x \in {y \in g.edges :
                        /\ y.kind = "same_as"
                        /\ Active(g, y.ent)
                        /\ \E a, b \in y.pair : g.owner[a] = e /\ g.owner[b] = f}}

PersistentOverlaps(g) ==
    {l \in {{e, f} : e, f \in {a \in Entity : Active(g, a)}} :
        \E e, f \in l : e # f /\ Cardinality(OverlapRuns(g, e, f)) >= MinRuns}

\* The connected components stabilize_identities consolidates.
OverlapGroups(g) ==
    LET links == PersistentOverlaps(g)
    IN {ComponentOf(e, links) : e \in UNION links}

\* winner_strategy most_records, the default.
ConsolidationWinner(g, group) ==
    Foremost(group, [e \in group |-> Cardinality(RecordsOf(g, e))])

----------------------------------------------------------------------------
(* merge_by_shared_field. *)

\* The entities that hold an authoritative id.  Their status is not looked at.
Holders(g, k) == {g.owner[r] : r \in {s \in Record : KeyOf[s] = k}} \ {NoEntity}

SharedKeyLinks(g) ==
    LET held == {Holders(g, KeyOf[r]) : r \in {s \in Record : KeyOf[s] # 0}}
    IN {h \in held : Cardinality(h) \in 2 .. MaxGroup}

\* Every entity to the smallest id of its component, itself when alone.
SharedKeyRemap(g) ==
    LET links == SharedKeyLinks(g)
    IN [e \in Entity |-> CHOOSE f \in ComponentOf(e, links) :
                            \A h \in ComponentOf(e, links) : f <= h]
=============================================================================
