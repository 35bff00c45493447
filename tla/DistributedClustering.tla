------------------------ MODULE DistributedClustering ------------------------
(***************************************************************************)
(* Connected components of the scored pairs, the five ways                 *)
(* build_clusters_distributed may compute them and the one the pipeline    *)
(* uses without it (distributed/clustering.py,                             *)
(* distributed/_connected_components.py, UnionFind of core/cluster.py):    *)
(*   in_memory               min-label rounds with shortcuts, to the end   *)
(*   label_propagation       min-label rounds, else in_memory              *)
(*   pointer_jump            the rounds of in_memory, up to a limit        *)
(*   randomized_contraction  neighbourhoods collapsed into one vertex      *)
(*   two_phase               union-find per partition, then across them    *)
(*   local                   union-find per partition only                 *)
(* Rounds are synchronous, as the Ray datasets are materialised after each; *)
(* the workers of a phase are not.  Abstracted: sizes of clusters, the     *)
(* routing by memory, checkpoints, and the affine hash of a round, which   *)
(* here is any order of the vertices.                                      *)
(***************************************************************************)
EXTENDS Components, FiniteSets

CONSTANTS
    Partition,   \* of the pairs
    Driver,      \* where the union-find of the second phase runs
    Limit        \* Limit[a]: rounds algorithm a may take

Rounds == {"in_memory", "label_propagation", "pointer_jump"}
Forests == {"two_phase", "local"}
Algorithm == Rounds \cup Forests \cup {"randomized_contraction"}

ASSUME ClusteringAssumption ==
    /\ Node \subseteq Nat /\ IsFiniteSet(Node)
    /\ \A S \in SUBSET Node : NoAnswer \notin [S -> Nat]
    /\ Driver \notin Partition
    /\ Limit \in [Algorithm -> Nat \ {0}]

VARIABLES
    algorithm,
    universe,    \* the ids in play: those given, or those some pair touches
    place,       \* place[e]: partition of the pair e
    label,       \* label[v]: id that stands for v's cluster so far
    round,       \* rounds done
    residual,    \* randomized contraction: the pairs left
    forest,      \* forest[p]: a union-find, its parents and ranks
    todo,        \* todo[p]: pairs still to union there
    merging,     \* the second phase has begun
    rows,        \* what its driver got from the first: <<id, root>>, one per partition
    bestEffort   \* the answer was given at the limit, with no promise

work == <<label, round, residual, forest, todo, merging, rows>>
dvars == <<edge, answer, algorithm, universe, place, label, round, residual, forest, todo,
           merging, rows, bestEffort>>

Least(S) == CHOOSE m \in S : \A n \in S : m <= n
Image(f) == {f[v] : v \in DOMAIN f}

----------------------------------------------------------------------------
(* UnionFind. *)

EmptyForest == [parent |-> [v \in {} |-> v], rank |-> [v \in {} |-> 0]]

\* add_many: each new id is its own root.
Add(f, ids) ==
    [parent |-> [v \in DOMAIN f.parent \cup ids |-> IF v \in DOMAIN f.parent THEN f.parent[v] ELSE v],
     rank |-> [v \in DOMAIN f.rank \cup ids |-> IF v \in DOMAIN f.rank THEN f.rank[v] ELSE 0]]

\* The ids find passes on its way up from v, v and the root included.
Upward(f) == {T \in SUBSET DOMAIN f.parent : \A t \in T : f.parent[t] \in T}
Path(f, v) ==
    LET up == Upward(f)
    IN  {w \in DOMAIN f.parent : \A T \in up : v \in T => w \in T}
Find(f, v) == CHOOSE r \in Path(f, v) : f.parent[r] = r

\* find makes the root the parent of all of them.
Compress(f, v) ==
    LET path == Path(f, v)
        root == Find(f, v)
    IN  [f EXCEPT !.parent = [w \in DOMAIN f.parent |-> IF w \in path THEN root ELSE f.parent[w]]]

\* Mutant: the rank of a root is never raised.
HangOnly(f, low, high) == [f EXCEPT !.parent[low] = high]

Hang(f, low, high) ==
    [parent |-> [f.parent EXCEPT ![low] = high],
     rank |-> [f.rank EXCEPT ![high] = IF @ = f.rank[low] THEN @ + 1 ELSE @]]

Union(f, u, v) ==
    LET g == Compress(Compress(f, u), v)
        ru == Find(g, u)
        rv == Find(g, v)
    IN  IF ru = rv THEN g
        ELSE IF g.rank[ru] < g.rank[rv] THEN Hang(g, ru, rv) ELSE Hang(g, rv, ru)

----------------------------------------------------------------------------

Parted == algorithm \in Forests
\* "Connected components therefore never span partitions": local relies on it.
CoLocated == \A d, e \in edge : d \cap e # {} => place[d] = place[e]

DInit ==
    /\ Init
    /\ algorithm \in Algorithm
    /\ \/ universe = Touched
       \/ universe = Node /\ algorithm \notin {"pointer_jump", "local"}
    /\ place \in [IF Parted THEN edge ELSE {} -> Partition]
    /\ algorithm = "local" => CoLocated
    /\ label = [v \in universe |-> v]
    /\ round = 0
    /\ residual = IF algorithm = "randomized_contraction" THEN edge ELSE {}
    /\ forest = [p \in Partition \cup {Driver} |-> EmptyForest]
    /\ todo = [p \in Partition \cup {Driver} |-> {e \in DOMAIN place : place[e] = p}]
    /\ merging = FALSE /\ rows = {} /\ bestEffort = FALSE

Return(f, trusted) ==
    /\ answer' = f /\ bestEffort' = ~trusted
    /\ UNCHANGED <<edge, algorithm, universe, place, work>>

----------------------------------------------------------------------------
(* Min-label rounds. *)

Neighbours(v) == {u \in universe : {u, v} \in edge}

\* Every vertex takes the least of its own label and its neighbours'.
Propagated == [v \in universe |-> Least({label[u] : u \in Neighbours(v) \cup {v}})]
Shortcut(f) == [v \in DOMAIN f |-> f[f[v]]]
RoundOf == IF algorithm = "label_propagation" THEN Propagated ELSE Shortcut(Propagated)

\* connected_components_undirected numbers the components in the order of their labels.
Dense(f) == [v \in DOMAIN f |-> Cardinality({l \in Image(f) : l < f[v]})]

Propagate ==
    /\ answer = NoAnswer /\ algorithm \in Rounds
    /\ algorithm # "in_memory" => round < Limit[algorithm]
    /\ RoundOf # label
    /\ label' = RoundOf /\ round' = round + 1
    /\ UNCHANGED <<edge, answer, algorithm, universe, place, residual, forest, todo, merging, rows, bestEffort>>

\* A round that changes nothing is the last.
Converge ==
    /\ answer = NoAnswer /\ algorithm \in Rounds
    /\ algorithm # "in_memory" => round < Limit[algorithm]
    /\ RoundOf = label
    /\ Return(IF algorithm = "in_memory" THEN Dense(label) ELSE label, TRUE)

\* ConvergenceError: the in-memory route starts over.
FallBack ==
    /\ answer = NoAnswer /\ algorithm = "label_propagation" /\ round = Limit[algorithm]
    /\ algorithm' = "in_memory"
    /\ label' = [v \in universe |-> v]
    /\ UNCHANGED <<edge, answer, universe, round, place, residual, forest, todo, merging, rows, bestEffort>>

\* pointer_jump warns and returns the labels it has.
RunOut ==
    /\ answer = NoAnswer /\ algorithm = "pointer_jump" /\ round = Limit[algorithm]
    /\ Return(label, FALSE)

----------------------------------------------------------------------------
(* Randomized contraction. *)

Closest(v) == {v} \cup {u \in Node : {u, v} \in residual}

\* Each vertex goes to the first of its closed neighbourhood, in some order.
Representatives ==
    {[v \in UNION residual |-> CHOOSE u \in Closest(v) : \A w \in Closest(v) : at[u] <= at[w]] :
        at \in {h \in [UNION residual -> 1 .. Cardinality(UNION residual)] : \A u, v \in UNION residual : h[u] = h[v] => u = v}}

Composed(rep) == [v \in universe |-> IF label[v] \in DOMAIN rep THEN rep[label[v]] ELSE label[v]]

Contract ==
    /\ answer = NoAnswer /\ algorithm = "randomized_contraction"
    /\ residual # {} /\ round < Limit[algorithm]
    /\ \E rep \in Representatives :
        /\ residual' = {{rep[v] : v \in e} : e \in residual} \ {{v} : v \in Node}
        /\ label' = Composed(rep)
    /\ round' = round + 1
    /\ UNCHANGED <<edge, answer, algorithm, universe, place, forest, todo, merging, rows, bestEffort>>

\* Mutant: the representative is kept as the cluster's id.
Unnormalized(f) == f

\* _rc_normalize_distributed: the least member stands for the cluster.
Normalized(f) == [v \in DOMAIN f |-> Least({u \in DOMAIN f : f[u] = f[v]})]

Contracted ==
    /\ answer = NoAnswer /\ algorithm = "randomized_contraction"
    /\ residual = {} \/ round = Limit[algorithm]
    /\ Return(Normalized(label), residual = {})

----------------------------------------------------------------------------
(* Union-find per partition, and across partitions. *)

UnionAt(p, e) ==
    \E u \in e : \E v \in e \ {u} :
        forest' = [forest EXCEPT ![p] = Union(Add(@, e), u, v)]

\* A worker takes the next pair of its partition, the driver the next pair of roots.
Join(p, e) ==
    /\ answer = NoAnswer /\ e \in todo[p]
    /\ UnionAt(p, e)
    /\ todo' = [todo EXCEPT ![p] = @ \ {e}]
    /\ UNCHANGED <<edge, answer, algorithm, universe, place, label, round, residual, merging, rows, bestEffort>>

Swept == \A p \in Partition \cup {Driver} : todo[p] = {}
\* What Phase A emits: the root of an id, for each partition that has it.
LocalRoots ==
    UNION {{<<v, Find(forest[p], v)>> : v \in DOMAIN forest[p].parent} : p \in Partition}
Isolated == universe \ Touched

\* Mutant: a pair is joined with the roots of its own partition only.
BoundaryOfOwn(rs) ==
    {r \in SUBSET {x[2] : x \in rs} : \E e \in edge :
        r = {Find(forest[place[e]], v) : v \in e} /\ Cardinality(r) = 2}

\* _emit_boundary_pairs: each pair with each root of its ends, unless they are equal.
Boundary(rs) ==
    UNION {{{x[2], y[2]} : y \in {z \in rs : {x[1], z[1]} \in edge /\ z[2] # x[2]}} : x \in rs}

\* Phase B begins: every root is added, and the boundary pairs are collected.
BeginMerge ==
    /\ answer = NoAnswer /\ algorithm = "two_phase" /\ ~merging /\ Swept
    /\ merging' = TRUE
    /\ rows' = LocalRoots \cup {<<v, v>> : v \in Isolated}
    /\ forest' = [forest EXCEPT ![Driver] = Add(@, {x[2] : x \in rows'})]
    /\ todo' = [todo EXCEPT ![Driver] = Boundary(rows')]
    /\ UNCHANGED <<edge, answer, algorithm, universe, place, label, round, residual, bestEffort>>

\* Of an id's rows, one per partition that has it, any one is kept.
ReturnOne(labels) ==
    \E f \in [universe -> {x[2] : x \in labels}] :
        /\ \A v \in universe : <<v, f[v]>> \in labels
        /\ Return(f, TRUE)

\* The least id of each global root.
LabelRows ==
    /\ answer = NoAnswer /\ algorithm = "two_phase" /\ merging /\ Swept
    /\ LET global == {<<x[1], Find(forest[Driver], x[2])>> : x \in rows}
       IN  ReturnOne({<<x[1], Least({y[1] : y \in {z \in global : z[2] = x[2]}})>> : x \in global})

\* local_cc_assignments: each partition labels its own.
LabelLocally ==
    /\ answer = NoAnswer /\ algorithm = "local" /\ Swept
    /\ ReturnOne(UNION {
           {<<v, Least({u \in DOMAIN forest[p].parent : Find(forest[p], u) = Find(forest[p], v)})>> :
               v \in DOMAIN forest[p].parent} : p \in Partition})

----------------------------------------------------------------------------

\* The one state in which nothing more happens.
Answered == answer # NoAnswer /\ UNCHANGED dvars

DNext ==
    \/ Propagate \/ Converge \/ FallBack \/ RunOut
    \/ Contract \/ Contracted
    \/ \E p \in Partition \cup {Driver} : \E e \in todo[p] : Join(p, e)
    \/ BeginMerge \/ LabelRows \/ LabelLocally
    \/ Answered

DSpec == DInit /\ [][DNext]_dvars

----------------------------------------------------------------------------
(* Properties. *)

(* Whatever route it takes, the answer gives two records the same cluster     *)
(* exactly when a chain of pairs joins them, in any order of the work and for *)
(* any spread of the pairs over partitions; only an answer given at the limit *)
(* of rounds promises nothing.                                                *)
Promise == INSTANCE Components WITH answer <- IF bestEffort THEN NoAnswer ELSE answer
KeepsPromise == Promise!Spec

(* Every route but the in-memory one names a cluster by its least member, so  *)
(* that the same component has the same id on every worker and in every run.  *)
NamedByLeast ==
    answer # NoAnswer /\ ~bestEffort /\ algorithm # "in_memory" =>
        \A v \in DOMAIN answer :
            /\ answer[v] \in DOMAIN answer
            /\ answer[answer[v]] = answer[v]
            /\ \A u \in DOMAIN answer : answer[u] = answer[v] => answer[v] <= u

Pow2[k \in Nat] == IF k = 0 THEN 1 ELSE 2 * Pow2[k - 1]

(* Union by rank: every path to a root is as long as the rank of the root at  *)
(* most, and a root of rank k has at least 2^k members, so find stays short.  *)
TreesStayFlat ==
    \A p \in Partition \cup {Driver} :
        LET f == forest[p]
        IN  \A r \in DOMAIN f.parent :
                /\ f.parent[r] # r => f.rank[r] < f.rank[f.parent[r]]
                /\ f.parent[r] = r =>
                       Pow2[f.rank[r]] <= Cardinality({v \in DOMAIN f.parent : r \in Path(f, v)})
=============================================================================
