---------------------- MODULE DistributedClusteringProofs ----------------------
(***************************************************************************)
(* For every graph, every spread of its pairs over partitions, every order *)
(* of the work and every limit of rounds, the routes of                    *)
(* DistributedClustering keep the promise of Components.                   *)
(*                                                                         *)
(* An answer is right when records with one label are connected and a pair *)
(* has one label (LabelsCorrect).  Every route keeps the first half from   *)
(* the start: a label only moves along pairs.  The second half is what the *)
(* end of a route adds, and what each route needs its own invariant for.   *)
(***************************************************************************)
EXTENDS DistributedClustering, FiniteSetTheorems, WellFoundedInduction, TLAPS

----------------------------------------------------------------------------
(* Least elements. *)

LEMMA LeastIs ==
    ASSUME NEW S \in SUBSET Nat, S # {}
    PROVE  Least(S) \in S /\ \A n \in S : Least(S) <= n
<1>1. PICK m \in S : \A n \in S : ~ (<<n, m>> \in OpToRel(<, Nat))
    BY NatLessThanWellFounded, WFMin
<1>2. ASSUME NEW n \in S, n < m PROVE FALSE
    <2>1. <<n, m>> \in Nat \X Nat
        BY <1>2
    <2>2. <<n, m>>[1] < <<n, m>>[2]
        BY <1>2
    <2>3. <<n, m>> \in OpToRel(<, Nat)
        BY <2>1, <2>2, Zenon DEF OpToRel
    <2> QED
        BY <1>1, <2>3
<1>3. \A n \in S : m <= n
    BY <1>2
<1> QED
    BY <1>3 DEF Least

----------------------------------------------------------------------------
(* Connectedness. *)

LEMMA ConnectedIsEquivalence ==
    ASSUME NEW u, NEW v, NEW w
    PROVE  /\ Connected(u, u)
           /\ Connected(u, v) => Connected(v, u)
           /\ Connected(u, v) /\ Connected(v, w) => Connected(u, w)
BY DEF Connected

LEMMA PairConnects ==
    ASSUME NEW u, NEW v, {u, v} \in edge
    PROVE  Connected(u, v)
BY DEF Connected, Closed

\* What makes an answer correct.
LEMMA LabelsCorrect ==
    ASSUME NEW D, NEW f, DOMAIN f = D,
           Touched \subseteq D, D \subseteq Node,
           \A u, v \in D : f[u] = f[v] => Connected(u, v),
           \A e \in edge : \A u, v \in e : f[u] = f[v]
    PROVE  Correct(f)
<1>1. ASSUME NEW u \in D, NEW v \in D, Connected(u, v) PROVE f[u] = f[v]
    <2> DEFINE S == {w \in D : f[w] = f[u]}
    <2>1. S \in SUBSET Node
        OBVIOUS
    <2>2. ASSUME NEW e \in edge, e \cap S # {} PROVE e \subseteq S
        BY <2>2 DEF Touched
    <2>3. u \in S <=> v \in S
        BY <1>1, <2>1, <2>2, Zenon DEF Connected, Closed
    <2> QED
        BY <2>3
<1> QED
    BY <1>1 DEF Correct

\* Only which records have one label matters, not what it is.
LEMMA RelabelledCorrect ==
    ASSUME NEW f, NEW g, Correct(f), DOMAIN g = DOMAIN f,
           \A u, v \in DOMAIN f : g[u] = g[v] <=> f[u] = f[v]
    PROVE  Correct(g)
BY DEF Correct

----------------------------------------------------------------------------
(* The inductive invariant. *)

GraphInv ==
    /\ edge \subseteq Pairs
    /\ Touched \subseteq universe /\ universe \subseteq Node
    /\ algorithm \in Algorithm

\* A label has moved along pairs only, and down.
RoundsInv ==
    algorithm \in Rounds =>
        /\ label \in [universe -> universe]
        /\ \A v \in universe : label[v] <= v /\ Connected(v, label[v])

\* The residual pairs are what is still to be done.
ContractInv ==
    algorithm = "randomized_contraction" =>
        /\ label \in [universe -> Node]
        /\ residual \subseteq Pairs
        /\ \A v \in universe : Connected(v, label[v])
        /\ \A u, v \in Node : {u, v} \in residual => Connected(u, v)
        /\ \A u, v \in Node : {u, v} \in edge => label[u] = label[v] \/ {label[u], label[v]} \in residual

LEMMA EdgeEnds ==
    ASSUME GraphInv, NEW e \in edge
    PROVE  /\ \E u, v \in universe : u # v /\ e = {u, v}
           /\ \A u, v \in e : u \in universe /\ v \in universe /\ (u = v \/ {u, v} \in edge)
<1>1. PICK u \in Node, v \in Node : u # v /\ e = {u, v}
    BY DEF GraphInv, Pairs
<1>2. u \in universe /\ v \in universe
    BY <1>1 DEF GraphInv, Touched
<1> QED
    BY <1>1, <1>2

----------------------------------------------------------------------------
(* Min-label rounds. *)

LEMMA PropagatedIs ==
    ASSUME GraphInv, RoundsInv, algorithm \in Rounds
    PROVE  /\ Propagated \in [universe -> universe]
           /\ \A v \in universe :
                /\ Propagated[v] <= label[v] /\ Connected(v, Propagated[v])
                /\ \A u \in universe : {u, v} \in edge => Propagated[v] <= label[u]
<1> SUFFICES ASSUME NEW v \in universe
             PROVE  /\ Propagated[v] \in universe
                    /\ Propagated[v] <= label[v] /\ Connected(v, Propagated[v])
                    /\ \A u \in universe : {u, v} \in edge => Propagated[v] <= label[u]
    BY DEF Propagated
<1> DEFINE L == {label[u] : u \in Neighbours(v) \cup {v}}
<1>1. label \in [universe -> universe] /\ universe \subseteq Nat
    BY ClusteringAssumption DEF RoundsInv, GraphInv
<1>2. L \in SUBSET Nat /\ label[v] \in L
    BY <1>1 DEF Neighbours
<1>3. Least(L) \in L /\ \A n \in L : Least(L) <= n
    BY <1>2, LeastIs
<1>4. Propagated[v] = Least(L)
    BY DEF Propagated
<1>5. PICK u \in Neighbours(v) \cup {v} : Propagated[v] = label[u]
    BY <1>3, <1>4
<1>6. u \in universe /\ Connected(u, label[u])
    BY DEF RoundsInv, Neighbours
<1>7. u = v \/ {u, v} \in edge
    BY DEF Neighbours
<1>8. Connected(v, u)
    BY <1>7, PairConnects, ConnectedIsEquivalence
<1>9. \A w \in universe : {w, v} \in edge => label[w] \in L
    BY DEF Neighbours
<1> QED
    BY <1>1, <1>2, <1>3, <1>4, <1>5, <1>6, <1>8, <1>9, ConnectedIsEquivalence

LEMMA RoundsStep ==
    ASSUME GraphInv, RoundsInv, Propagate
    PROVE  RoundsInv'
<1>1. algorithm \in Rounds /\ label' = RoundOf /\ universe' = universe /\ edge' = edge /\ algorithm' = algorithm
    BY DEF Propagate
<1>2. /\ Propagated \in [universe -> universe]
      /\ \A v \in universe : Propagated[v] <= label[v] /\ Connected(v, Propagated[v])
    BY <1>1, PropagatedIs
<1>3. universe \subseteq Nat /\ label \in [universe -> universe] /\ \A v \in universe : label[v] <= v
    BY <1>1, ClusteringAssumption DEF RoundsInv, GraphInv
<1>4. ASSUME NEW v \in universe PROVE RoundOf[v] \in universe /\ RoundOf[v] <= v /\ Connected(v, RoundOf[v])
    <2>1. Propagated[v] \in universe /\ Propagated[v] <= v
        <3>1. Propagated[v] \in Nat /\ label[v] \in Nat /\ v \in Nat
            BY <1>2, <1>3
        <3> QED
            BY <1>2, <1>3, <3>1
    <2>2. CASE algorithm = "label_propagation"
        BY <1>2, <2>1, <2>2 DEF RoundOf
    <2>3. CASE algorithm # "label_propagation"
        <3> DEFINE w == Propagated[v]
        <3>1. RoundOf[v] = Propagated[w]
            BY <1>2, <2>3 DEF RoundOf, Shortcut
        <3>2. Propagated[w] \in universe /\ label[w] \in universe /\ Propagated[w] <= label[w]
              /\ label[w] <= w /\ Connected(w, Propagated[w])
            BY <1>2, <1>3, <2>1
        <3>3. Connected(v, Propagated[w])
            BY <1>2, <3>2, ConnectedIsEquivalence
        <3>4. Propagated[w] \in Nat /\ label[w] \in Nat /\ w \in Nat /\ v \in Nat
            BY <1>3, <2>1, <3>2
        <3>5. Propagated[w] <= v
            BY <2>1, <3>2, <3>4
        <3> QED
            BY <3>1, <3>2, <3>3, <3>5
    <2> QED
        BY <2>2, <2>3
<1>5. RoundOf \in [universe -> universe]
    BY <1>2, <1>4 DEF RoundOf, Shortcut
<1>6. \A u, v : Connected(u, v) <=> Connected(u, v)'
    BY <1>1 DEF Connected, Closed
<1> QED
    BY <1>1, <1>4, <1>5, <1>6 DEF RoundsInv

\* A round that changes nothing leaves one label at both ends of a pair.
LEMMA FixpointCorrect ==
    ASSUME GraphInv, RoundsInv, algorithm \in Rounds, RoundOf = label
    PROVE  Correct(label)
<1>1. universe \subseteq Nat /\ label \in [universe -> universe]
      /\ \A v \in universe : label[v] <= v /\ Connected(v, label[v])
    BY ClusteringAssumption DEF RoundsInv, GraphInv
<1>2. /\ Propagated \in [universe -> universe]
      /\ \A v \in universe : Propagated[v] <= label[v]
      /\ \A u, v \in universe : {u, v} \in edge => Propagated[v] <= label[u]
    BY PropagatedIs
<1>3. \A v \in universe : Propagated[v] = label[v]
    <2> SUFFICES ASSUME NEW v \in universe PROVE Propagated[v] = label[v]
        OBVIOUS
    <2>1. CASE algorithm = "label_propagation"
        BY <2>1 DEF RoundOf
    <2>2. CASE algorithm # "label_propagation"
        <3> DEFINE w == Propagated[v]
        <3>1. label[v] = Propagated[w]
            BY <1>2, <2>2 DEF RoundOf, Shortcut
        <3>2. w \in universe /\ Propagated[w] <= label[w] /\ label[w] <= w /\ w <= label[v]
            BY <1>1, <1>2
        <3>3. Propagated[w] \in Nat /\ label[w] \in Nat /\ w \in Nat /\ label[v] \in Nat
            BY <1>1, <1>2, <3>2
        <3> QED
            BY <3>1, <3>2, <3>3
    <2> QED
        BY <2>1, <2>2
<1>4. ASSUME NEW e \in edge, NEW u \in e, NEW v \in e PROVE label[u] = label[v]
    <2>1. u \in universe /\ v \in universe /\ (u = v \/ ({u, v} \in edge /\ {v, u} \in edge))
        BY EdgeEnds
    <2>2. label[u] \in Nat /\ label[v] \in Nat
        BY <1>1, <2>1
    <2> QED
        BY <1>2, <1>3, <2>1, <2>2
<1>5. \A u, v \in universe : label[u] = label[v] => Connected(u, v)
    BY <1>1, ConnectedIsEquivalence
<1> QED
    BY <1>1, <1>4, <1>5, LabelsCorrect DEF GraphInv

\* Numbering the labels in order keeps them apart.
LEMMA DenseCorrect ==
    ASSUME NEW f, Correct(f), f \in [DOMAIN f -> Node]
    PROVE  Correct(Dense(f))
<1> DEFINE Below(l) == {k \in Image(f) : k < l}
<1>1. Image(f) \subseteq Node /\ Node \subseteq Nat /\ IsFiniteSet(Image(f))
    <2>1. Image(f) \subseteq Node
        BY DEF Image
    <2> QED
        BY <2>1, ClusteringAssumption, FS_Subset
<1>2. ASSUME NEW k \in Image(f), NEW l \in Image(f), k < l
      PROVE  Cardinality(Below(k)) # Cardinality(Below(l))
    <2>1. Below(k) \in SUBSET Below(l) /\ k \in Below(l) /\ k \notin Below(k)
        BY <1>1, <1>2
    <2>2. IsFiniteSet(Below(l))
        BY <1>1, FS_Subset
    <2> QED
        BY <2>1, <2>2, FS_Subset
<1>3. DOMAIN Dense(f) = DOMAIN f /\ \A v \in DOMAIN f : Dense(f)[v] = Cardinality(Below(f[v])) /\ f[v] \in Image(f)
    BY DEF Dense, Image
<1>4. ASSUME NEW u \in DOMAIN f, NEW v \in DOMAIN f PROVE Dense(f)[u] = Dense(f)[v] <=> f[u] = f[v]
    <2>1. f[u] \in Nat /\ f[v] \in Nat
        BY <1>1, <1>3
    <2>2. f[u] = f[v] \/ f[u] < f[v] \/ f[v] < f[u]
        BY <2>1
    <2> HIDE DEF Below
    <2> QED
        BY <1>2, <1>3, <2>2
<1> QED
    BY <1>3, <1>4, RelabelledCorrect

----------------------------------------------------------------------------
(* Randomized contraction. *)

LEMMA RepresentativeIs ==
    ASSUME NEW rep \in Representatives, residual \subseteq Pairs,
           NEW v \in UNION residual
    PROVE  /\ DOMAIN rep = UNION residual /\ rep[v] \in Node /\ v \in Node
           /\ rep[v] = v \/ {rep[v], v} \in residual
<1> DEFINE n == Cardinality(UNION residual)
<1>1. PICK at \in [UNION residual -> 1 .. n] :
        rep = [x \in UNION residual |-> CHOOSE u \in Closest(x) : \A w \in Closest(x) : at[u] <= at[w]]
    BY DEF Representatives
<1>2. Closest(v) \subseteq UNION residual /\ v \in Closest(v) /\ UNION residual \subseteq Node
    BY DEF Closest, Pairs
<1>3. n \in Nat
    BY <1>2, ClusteringAssumption, FS_Subset, FS_CardinalityType
<1> HIDE DEF n
<1> DEFINE A == {at[w] : w \in Closest(v)}
<1>4. A \in SUBSET Nat /\ A # {}
    <2>1. 1 .. n \subseteq Nat
        BY <1>3
    <2>2. \A w \in Closest(v) : at[w] \in Nat
        BY <1>1, <1>2, <2>1
    <2>3. at[v] \in A
        BY <1>2
    <2> QED
        BY <2>2, <2>3
<1>5. (\A w \in Closest(v) : at[w] \in A) /\ (\A a \in A : \E w \in Closest(v) : a = at[w])
    OBVIOUS
<1> HIDE DEF A
<1>6. Least(A) \in A /\ \A a \in A : Least(A) <= a
    BY <1>4, LeastIs
<1>7. PICK u \in Closest(v) : Least(A) = at[u]
    BY <1>5, <1>6
<1>8. \A w \in Closest(v) : at[u] <= at[w]
    BY <1>5, <1>6, <1>7
<1>9. rep[v] = CHOOSE x \in Closest(v) : \A w \in Closest(v) : at[x] <= at[w]
    BY <1>1
<1>10. rep[v] \in Closest(v)
    BY <1>8, <1>9
<1>11. rep[v] = v \/ {rep[v], v} \in residual
    BY <1>10 DEF Closest
<1> QED
    BY <1>1, <1>2, <1>10, <1>11

LEMMA ContractStep ==
    ASSUME GraphInv, ContractInv, Contract
    PROVE  ContractInv'
<1>1. PICK rep \in Representatives :
        /\ residual' = {{rep[v] : v \in e} : e \in residual} \ {{v} : v \in Node}
        /\ label' = Composed(rep)
    BY DEF Contract
<1>2. /\ algorithm = "randomized_contraction"
      /\ edge' = edge /\ universe' = universe /\ algorithm' = algorithm
    BY DEF Contract
<1>3. /\ label \in [universe -> Node]
      /\ residual \subseteq Pairs
      /\ \A v \in universe : Connected(v, label[v])
      /\ \A u, v \in Node : {u, v} \in residual => Connected(u, v)
      /\ \A u, v \in Node : {u, v} \in edge => label[u] = label[v] \/ {label[u], label[v]} \in residual
    BY <1>2 DEF ContractInv
<1>4. DOMAIN rep = UNION residual
    <2>1. CASE residual = {}
        BY <2>1 DEF Contract
    <2>2. CASE residual # {}
        <3>1. PICK v : v \in UNION residual
            BY <1>3, <2>2 DEF Pairs
        <3> QED
            BY <1>3, <3>1, RepresentativeIs
    <2> QED
        BY <2>1, <2>2
<1>5. ASSUME NEW v \in UNION residual
      PROVE  rep[v] \in Node /\ v \in Node /\ Connected(v, rep[v])
    <2>1. rep[v] \in Node /\ v \in Node /\ (rep[v] = v \/ {rep[v], v} \in residual)
        BY <1>3, RepresentativeIs
    <2>2. Connected(rep[v], v)
        BY <1>3, <2>1, ConnectedIsEquivalence
    <2> QED
        BY <2>1, <2>2, ConnectedIsEquivalence
<1>6. ASSUME NEW v \in universe
      PROVE  label'[v] \in Node /\ Connected(v, label'[v])
    <2>1. label'[v] = IF label[v] \in UNION residual THEN rep[label[v]] ELSE label[v]
        BY <1>1, <1>4 DEF Composed
    <2>2. label[v] \in Node /\ Connected(v, label[v])
        BY <1>3
    <2> QED
        BY <1>5, <2>1, <2>2, ConnectedIsEquivalence
<1>7. label' \in [universe -> Node]
    BY <1>1, <1>6 DEF Composed
<1>8. residual' \subseteq Pairs
    <2> SUFFICES ASSUME NEW d \in residual' PROVE d \in Pairs
        OBVIOUS
    <2>1. PICK e \in residual : d = {rep[v] : v \in e}
        BY <1>1
    <2>2. PICK x \in Node, y \in Node : e = {x, y}
        BY <1>3, <2>1 DEF Pairs
    <2>3. d = {rep[x], rep[y]}
        BY <2>1, <2>2
    <2>4. rep[x] \in Node /\ rep[y] \in Node
        BY <1>5, <2>1, <2>2
    <2>5. rep[x] # rep[y]
        BY <1>1, <2>3, <2>4
    <2> QED
        BY <2>3, <2>4, <2>5 DEF Pairs
<1>9. ASSUME NEW u \in Node, NEW v \in Node, {u, v} \in residual'
      PROVE  Connected(u, v)
    <2>1. PICK e \in residual : {u, v} = {rep[w] : w \in e}
        BY <1>1, <1>9
    <2>2. PICK x \in Node, y \in Node : e = {x, y}
        BY <1>3, <2>1 DEF Pairs
    <2>3. {u, v} = {rep[x], rep[y]}
        BY <2>1, <2>2
    <2>4. Connected(x, rep[x]) /\ Connected(y, rep[y]) /\ Connected(x, y)
        BY <1>3, <1>5, <2>1, <2>2
    <2>5. Connected(rep[x], rep[y])
        BY <2>4, ConnectedIsEquivalence
    <2> QED
        BY <2>3, <2>5, ConnectedIsEquivalence
<1>10. ASSUME NEW u \in Node, NEW v \in Node, {u, v} \in edge
       PROVE  label'[u] = label'[v] \/ {label'[u], label'[v]} \in residual'
    <2>1. u \in universe /\ v \in universe
        BY <1>10 DEF GraphInv, Touched
    <2>2. /\ label'[u] = IF label[u] \in UNION residual THEN rep[label[u]] ELSE label[u]
          /\ label'[v] = IF label[v] \in UNION residual THEN rep[label[v]] ELSE label[v]
        BY <1>1, <1>4, <2>1 DEF Composed
    <2>3. CASE label[u] = label[v]
        BY <2>2, <2>3
    <2>4. CASE {label[u], label[v]} \in residual
        <3> DEFINE e == {label[u], label[v]}
        <3>1. label'[u] = rep[label[u]] /\ label'[v] = rep[label[v]]
            BY <2>2, <2>4
        <3>2. {rep[w] : w \in e} = {label'[u], label'[v]}
            BY <3>1
        <3>3. {label'[u], label'[v]} \in {{rep[w] : w \in d} : d \in residual}
            BY <2>4, <3>2
        <3>4. label'[u] # label'[v] => \A w \in Node : {label'[u], label'[v]} # {w}
            OBVIOUS
        <3> QED
            BY <1>1, <3>3, <3>4
    <2> QED
        BY <1>3, <1>10, <2>3, <2>4
<1>11. \A u, v : Connected(u, v) <=> Connected(u, v)'
    BY <1>2 DEF Connected, Closed
<1> QED
    BY <1>2, <1>6, <1>7, <1>8, <1>9, <1>10, <1>11 DEF ContractInv

\* The least member of a class stands for it as well as any other id.
LEMMA NormalizedIs ==
    ASSUME NEW f, DOMAIN f \subseteq Nat, NEW v \in DOMAIN f
    PROVE  /\ Normalized(f)[v] \in DOMAIN f /\ f[Normalized(f)[v]] = f[v]
           /\ \A u \in DOMAIN f : f[u] = f[v] => Normalized(f)[v] <= u /\ Normalized(f)[u] = Normalized(f)[v]
<1> DEFINE C == {u \in DOMAIN f : f[u] = f[v]}
<1>1. C \in SUBSET Nat /\ C # {}
    OBVIOUS
<1>2. Least(C) \in C /\ \A u \in C : Least(C) <= u
    BY <1>1, LeastIs
<1>3. Normalized(f)[v] = Least(C)
    BY DEF Normalized
<1>4. ASSUME NEW u \in DOMAIN f, f[u] = f[v] PROVE Normalized(f)[u] = Normalized(f)[v]
    BY <1>4 DEF Normalized
<1> QED
    BY <1>2, <1>3, <1>4

LEMMA ContractedCorrect ==
    ASSUME GraphInv, ContractInv, algorithm = "randomized_contraction", residual = {}
    PROVE  Correct(Normalized(label)) /\ Normalized(label) \in [universe -> universe]
<1>1. /\ label \in [universe -> Node] /\ universe \subseteq Nat
      /\ \A v \in universe : Connected(v, label[v])
      /\ \A u, v \in Node : {u, v} \in edge => label[u] = label[v]
    BY ClusteringAssumption DEF ContractInv, GraphInv
<1>2. ASSUME NEW e \in edge, NEW u \in e, NEW v \in e PROVE label[u] = label[v]
    <2>1. u \in Node /\ v \in Node /\ (u = v \/ {u, v} \in edge)
        BY EdgeEnds DEF GraphInv
    <2> QED
        BY <1>1, <2>1
<1>3. \A u, v \in universe : label[u] = label[v] => Connected(u, v)
    BY <1>1, ConnectedIsEquivalence
<1>4. Correct(label)
    BY <1>1, <1>2, <1>3, LabelsCorrect DEF GraphInv
<1>5. DOMAIN Normalized(label) = universe
    BY <1>1 DEF Normalized
<1>6. ASSUME NEW u \in universe, NEW v \in universe
      PROVE  Normalized(label)[u] = Normalized(label)[v] <=> label[u] = label[v]
    <2>1. DOMAIN label = universe
        BY <1>1
    <2>2. /\ label[Normalized(label)[u]] = label[u] /\ label[Normalized(label)[v]] = label[v]
          /\ label[u] = label[v] => Normalized(label)[u] = Normalized(label)[v]
        BY <1>1, <2>1, NormalizedIs
    <2> QED
        BY <2>2
<1>7. \A v \in universe : Normalized(label)[v] \in universe
    BY <1>1, NormalizedIs
<1>8. Normalized(label) \in [universe -> universe]
    BY <1>1, <1>7 DEF Normalized
<1> QED
    BY <1>1, <1>4, <1>5, <1>6, <1>8, RelabelledCorrect

----------------------------------------------------------------------------
(* Union-find.                                                             *)
(*                                                                         *)
(* Path is what every upward closed set that has the id contains, so that  *)
(* there is no induction on its length: R names the roots of a forest when *)
(* it is constant on the way up, fixed at the roots, and on every path.    *)

Ids(f) == DOMAIN f.parent

Rooted(f, R) ==
    /\ "parent" \in DOMAIN f
    /\ f.parent \in [Ids(f) -> Ids(f)] /\ R \in [Ids(f) -> Ids(f)]
    /\ \A v \in Ids(f) :
        /\ f.parent[R[v]] = R[v] /\ R[f.parent[v]] = R[v]
        /\ f.parent[v] = v => R[v] = v
        /\ \A T \in Upward(f) : v \in T => R[v] \in T

Roots(f) == [v \in Ids(f) |-> Find(f, v)]
Sound(f) == Rooted(f, Roots(f))

\* Ids on one path have one root.
LEMMA PathRoots ==
    ASSUME NEW f, NEW R, Rooted(f, R), NEW v \in Ids(f), NEW w \in Path(f, v)
    PROVE  w \in Ids(f) /\ R[w] = R[v]
<1> DEFINE T == {x \in Ids(f) : R[x] = R[v]}
<1>1. T \in Upward(f) /\ v \in T
    BY DEF Upward, Rooted, Ids
<1>2. w \in T
    BY <1>1 DEF Path
<1> QED
    BY <1>2

LEMMA RootedFind ==
    ASSUME NEW f, NEW R, Rooted(f, R)
    PROVE  /\ \A v \in Ids(f) : Find(f, v) = R[v]
           /\ Sound(f)
<1>1. ASSUME NEW v \in Ids(f) PROVE Find(f, v) = R[v]
    <2>1. R[v] \in Path(f, v) /\ f.parent[R[v]] = R[v]
        BY DEF Rooted, Path, Ids
    <2>2. ASSUME NEW r \in Path(f, v), f.parent[r] = r PROVE r = R[v]
        BY <2>2, PathRoots DEF Rooted
    <2> QED
        BY <2>1, <2>2 DEF Find
<1>2. Roots(f) = R
    BY <1>1 DEF Roots, Rooted
<1> QED
    BY <1>1, <1>2 DEF Sound

LEMMA FindIs ==
    ASSUME NEW f, Sound(f), NEW v \in Ids(f)
    PROVE  /\ Find(f, v) \in Ids(f) /\ f.parent[Find(f, v)] = Find(f, v)
           /\ Find(f, Find(f, v)) = Find(f, v)
BY DEF Sound, Rooted, Roots

LEMMA EmptyForestSound == Sound(EmptyForest) /\ Ids(EmptyForest) = {}
BY DEF Sound, Rooted, Roots, Ids, EmptyForest

LEMMA AddSound ==
    ASSUME NEW f, Sound(f), NEW ids
    PROVE  /\ Sound(Add(f, ids)) /\ Ids(Add(f, ids)) = Ids(f) \cup ids
           /\ \A v \in Ids(f) \cup ids : Find(Add(f, ids), v) = IF v \in Ids(f) THEN Find(f, v) ELSE v
<1> DEFINE g == Add(f, ids)
           R == [v \in Ids(f) \cup ids |-> IF v \in Ids(f) THEN Roots(f)[v] ELSE v]
<1>1. /\ "parent" \in DOMAIN g
      /\ g.parent = [v \in Ids(f) \cup ids |-> IF v \in Ids(f) THEN f.parent[v] ELSE v]
    BY DEF Add, Ids
<1>2. Ids(g) = Ids(f) \cup ids
    BY <1>1 DEF Ids
<1>3. Rooted(f, Roots(f))
    BY DEF Sound
<1>4. ASSUME NEW v \in Ids(g), NEW T \in Upward(g), v \in T PROVE R[v] \in T
    <2>1. CASE v \in Ids(f)
        <3>1. T \cap Ids(f) \in Upward(f)
            <4>1. \A t \in T \cap Ids(f) : f.parent[t] \in T \cap Ids(f)
                BY <1>1, <1>3, <1>4 DEF Upward, Rooted
            <4> QED
                BY <4>1 DEF Upward, Ids
        <3> QED
            BY <1>3, <1>4, <2>1, <3>1 DEF Rooted
    <2>2. CASE v \notin Ids(f)
        BY <1>2, <1>4, <2>2
    <2> QED
        BY <2>1, <2>2
<1>5. Rooted(g, R)
    <2>1. g.parent \in [Ids(g) -> Ids(g)] /\ R \in [Ids(g) -> Ids(g)]
        BY <1>1, <1>2, <1>3 DEF Rooted
    <2>2. ASSUME NEW v \in Ids(g)
          PROVE  /\ g.parent[R[v]] = R[v] /\ R[g.parent[v]] = R[v]
                 /\ g.parent[v] = v => R[v] = v
        BY <1>1, <1>2, <1>3 DEF Rooted
    <2> QED
        BY <1>1, <1>4, <2>1, <2>2 DEF Rooted
<1>6. \A v \in Ids(f) \cup ids : Find(g, v) = R[v]
    BY <1>2, <1>5, RootedFind
<1> QED
    BY <1>2, <1>5, <1>6, RootedFind DEF Roots

\* An id may be given its root as parent at any time.
LEMMA RepointedRooted ==
    ASSUME NEW f, NEW R, Rooted(f, R), NEW g, "parent" \in DOMAIN g,
           g.parent \in [Ids(f) -> Ids(f)],
           \A v \in Ids(f) : g.parent[v] = f.parent[v] \/ g.parent[v] = R[v]
    PROVE  Rooted(g, R) /\ Ids(g) = Ids(f)
<1>1. Ids(g) = Ids(f)
    BY DEF Ids
<1>2. ASSUME NEW v \in Ids(f), NEW T \in Upward(g), v \in T, R[v] \notin T PROVE FALSE
    <2> DEFINE U == {x \in T : R[x] = R[v]}
    <2>1. ASSUME NEW x \in U PROVE f.parent[x] \in U
        <3>1. x \in Ids(f) /\ g.parent[x] \in T /\ R[x] = R[v]
            BY <1>1 DEF Upward, Ids
        <3>2. g.parent[x] = f.parent[x]
            BY <1>2, <3>1
        <3> QED
            BY <3>1, <3>2 DEF Rooted
    <2>2. U \in Upward(f)
        BY <1>1, <2>1 DEF Upward, Ids
    <2>3. R[v] \in U
        BY <1>2, <2>2 DEF Rooted
    <2> QED
        BY <1>2, <2>3
<1>3. ASSUME NEW v \in Ids(f)
      PROVE  /\ g.parent[R[v]] = R[v] /\ R[g.parent[v]] = R[v]
             /\ g.parent[v] = v => R[v] = v
    <2>1. R[v] \in Ids(f) /\ R[R[v]] = R[v] /\ f.parent[R[v]] = R[v]
        BY DEF Rooted
    <2> QED
        BY <2>1 DEF Rooted
<1> QED
    BY <1>1, <1>2, <1>3 DEF Rooted

LEMMA CompressSound ==
    ASSUME NEW f, Sound(f), NEW v \in Ids(f)
    PROVE  /\ Sound(Compress(f, v)) /\ Ids(Compress(f, v)) = Ids(f)
           /\ \A w \in Ids(f) : Find(Compress(f, v), w) = Find(f, w)
<1> DEFINE g == Compress(f, v)
           R == Roots(f)
<1>1. Rooted(f, R)
    BY DEF Sound
<1>2. /\ "parent" \in DOMAIN g
      /\ g.parent = [w \in Ids(f) |-> IF w \in Path(f, v) THEN Find(f, v) ELSE f.parent[w]]
    BY <1>1 DEF Compress, Rooted, Ids
<1>3. \A w \in Path(f, v) : w \in Ids(f) /\ R[w] = R[v]
    BY <1>1, PathRoots
<1>4. Find(f, v) = R[v] /\ R[v] \in Ids(f)
    BY <1>1 DEF Roots, Rooted
<1>5. g.parent \in [Ids(f) -> Ids(f)]
    BY <1>1, <1>2, <1>4 DEF Rooted
<1>6. \A w \in Ids(f) : g.parent[w] = f.parent[w] \/ g.parent[w] = R[w]
    BY <1>2, <1>3, <1>4
<1> HIDE DEF g, R
<1>7. Rooted(g, R) /\ Ids(g) = Ids(f)
    BY <1>1, <1>2, <1>5, <1>6, RepointedRooted
<1>8. Sound(g) /\ \A w \in Ids(f) : Find(g, w) = R[w]
    BY <1>7, RootedFind
<1> QED
    BY <1>7, <1>8 DEF g, R, Roots

\* One root is hung under another: its ids get the other's.
LEMMA HangSound ==
    ASSUME NEW f, Sound(f), NEW low \in Ids(f), NEW high \in Ids(f), low # high,
           f.parent[low] = low, f.parent[high] = high
    PROVE  /\ Sound(Hang(f, low, high)) /\ Ids(Hang(f, low, high)) = Ids(f)
           /\ \A w \in Ids(f) :
                Find(Hang(f, low, high), w) = IF Find(f, w) = low THEN high ELSE Find(f, w)
<1> DEFINE g == Hang(f, low, high)
           Q == Roots(f)
           R == [w \in Ids(f) |-> IF Q[w] = low THEN high ELSE Q[w]]
<1>1. Rooted(f, Q)
    BY DEF Sound
<1>2. "parent" \in DOMAIN g /\ g.parent = [f.parent EXCEPT ![low] = high]
    BY DEF Hang
<1>3. Ids(g) = Ids(f) /\ g.parent \in [Ids(f) -> Ids(f)] /\ R \in [Ids(f) -> Ids(f)]
      /\ \A w \in Ids(f) : g.parent[w] = IF w = low THEN high ELSE f.parent[w]
    BY <1>1, <1>2 DEF Ids, Rooted
<1>4. Q[low] = low /\ Q[high] = high
    BY <1>1 DEF Rooted
<1> HIDE DEF g, Q
<1>5. ASSUME NEW v \in Ids(f), NEW T \in Upward(g), v \in T, R[v] \notin T PROVE FALSE
    <2> DEFINE U == {x \in T : Q[x] = Q[v]}
    <2>1. ASSUME NEW x \in U PROVE f.parent[x] \in U
        <3>1. x \in Ids(f) /\ g.parent[x] \in T /\ Q[x] = Q[v]
            BY <1>3 DEF Upward, Ids
        <3>2. x # low
            BY <1>3, <1>4, <1>5, <3>1
        <3> QED
            BY <1>1, <1>3, <3>1, <3>2 DEF Rooted
    <2>2. U \in Upward(f)
        BY <1>3, <2>1 DEF Upward, Ids
    <2>3. Q[v] \in T
        BY <1>1, <1>5, <2>2 DEF Rooted
    <2>4. Q[v] # low
        BY <1>3, <1>4, <1>5, <2>3 DEF Upward
    <2> QED
        BY <1>5, <2>3, <2>4
<1>6. ASSUME NEW v \in Ids(f)
      PROVE  /\ g.parent[R[v]] = R[v] /\ R[g.parent[v]] = R[v]
             /\ g.parent[v] = v => R[v] = v
    <2>1. Q[v] \in Ids(f) /\ f.parent[Q[v]] = Q[v] /\ f.parent[v] \in Ids(f) /\ Q[f.parent[v]] = Q[v]
          /\ (f.parent[v] = v => Q[v] = v)
        BY <1>1 DEF Rooted
    <2> QED
        BY <1>3, <1>4, <2>1
<1>7. Rooted(g, R)
    BY <1>2, <1>3, <1>5, <1>6 DEF Rooted
<1>8. Sound(g) /\ \A w \in Ids(f) : Find(g, w) = R[w]
    BY <1>3, <1>7, RootedFind
<1> QED
    BY <1>3, <1>8 DEF g, Q, Roots

\* union joins the two classes and leaves the others as they are.
LEMMA UnionSound ==
    ASSUME NEW f, Sound(f), NEW u \in Ids(f), NEW v \in Ids(f)
    PROVE  /\ Sound(Union(f, u, v)) /\ Ids(Union(f, u, v)) = Ids(f)
           /\ \E r \in {Find(f, u), Find(f, v)} : \A w \in Ids(f) :
                Find(Union(f, u, v), w) =
                    IF Find(f, w) \in {Find(f, u), Find(f, v)} THEN r ELSE Find(f, w)
<1> DEFINE h == Compress(f, u)
           g == Compress(h, v)
           ru == Find(g, u)
           rv == Find(g, v)
<1>1. Sound(h) /\ Ids(h) = Ids(f) /\ \A w \in Ids(f) : Find(h, w) = Find(f, w)
    BY CompressSound
<1> HIDE DEF h
<1>2. Sound(g) /\ Ids(g) = Ids(f) /\ \A w \in Ids(f) : Find(g, w) = Find(f, w)
    BY <1>1, CompressSound
<1> HIDE DEF g
<1>3. /\ ru \in Ids(g) /\ rv \in Ids(g) /\ g.parent[ru] = ru /\ g.parent[rv] = rv
      /\ ru = Find(f, u) /\ rv = Find(f, v)
    BY <1>2, FindIs
<1>4. Union(f, u, v) = IF ru = rv THEN g
                       ELSE IF g.rank[ru] < g.rank[rv] THEN Hang(g, ru, rv) ELSE Hang(g, rv, ru)
    BY DEF Union, g, h
<1> HIDE DEF ru, rv
<1>5. CASE ru = rv
    BY <1>2, <1>3, <1>4, <1>5
<1>6. CASE ru # rv /\ g.rank[ru] < g.rank[rv]
    BY <1>2, <1>3, <1>4, <1>6, HangSound
<1>7. CASE ru # rv /\ ~(g.rank[ru] < g.rank[rv])
    BY <1>2, <1>3, <1>4, <1>7, HangSound
<1> QED
    BY <1>5, <1>6, <1>7

----------------------------------------------------------------------------
(* Union-find per partition. *)

\* What a partition has done of its pairs, it has done right.
LocalOK(p) ==
    /\ Sound(forest[p])
    /\ \A v \in Ids(forest[p]) :
        /\ \E e \in edge : v \in e /\ place[e] = p
        /\ Connected(v, Find(forest[p], v))
    /\ todo[p] \subseteq {e \in edge : place[e] = p}
    /\ \A e \in edge \ todo[p] : place[e] = p =>
        /\ e \subseteq Ids(forest[p])
        /\ \A u, v \in e : Find(forest[p], u) = Find(forest[p], v)

\* The driver works on what the partitions had when they were done.
DriverOK ==
    /\ Sound(forest[Driver])
    /\ ~merging => todo[Driver] = {} /\ rows = {} /\ Ids(forest[Driver]) = {}
    /\ merging =>
        /\ algorithm = "two_phase"
        /\ \A p \in Partition : todo[p] = {}
        /\ rows = LocalRoots \cup {<<v, v>> : v \in Isolated}
        /\ Ids(forest[Driver]) = {x[2] : x \in rows}
        /\ \A r \in Ids(forest[Driver]) : Connected(r, Find(forest[Driver], r))
        /\ todo[Driver] \subseteq Boundary(rows)
        /\ \A b \in Boundary(rows) \ todo[Driver] : \A r, s \in b :
            Find(forest[Driver], r) = Find(forest[Driver], s)

ForestInv ==
    Parted =>
        /\ DOMAIN forest = Partition \cup {Driver} /\ DOMAIN todo = Partition \cup {Driver}
        /\ place \in [edge -> Partition]
        /\ algorithm = "local" => CoLocated
        /\ \A p \in Partition : LocalOK(p)
        /\ DriverOK

IInv == GraphInv /\ RoundsInv /\ ContractInv /\ ForestInv

\* One pair is added to a forest.
LEMMA PairJoined ==
    ASSUME NEW f, Sound(f), NEW u, NEW v, Connected(u, v),
           \A w \in Ids(f) : Connected(w, Find(f, w)),
           NEW g, g = Union(Add(f, {u, v}), u, v)
    PROVE  /\ Sound(g) /\ Ids(g) = Ids(f) \cup {u, v}
           /\ \A w \in Ids(g) : Connected(w, Find(g, w))
           /\ Find(g, u) = Find(g, v)
           /\ \A w, x \in Ids(f) : Find(f, w) = Find(f, x) => Find(g, w) = Find(g, x)
<1> DEFINE h == Add(f, {u, v})
<1>1. /\ Sound(h) /\ Ids(h) = Ids(f) \cup {u, v}
      /\ \A w \in Ids(h) : Find(h, w) = IF w \in Ids(f) THEN Find(f, w) ELSE w
    BY AddSound
<1>2. g = Union(h, u, v)
    OBVIOUS
<1> HIDE DEF h
<1>3. \A w \in Ids(h) : Connected(w, Find(h, w))
    BY <1>1, ConnectedIsEquivalence
<1>4. /\ Sound(g) /\ Ids(g) = Ids(h)
      /\ \E r \in {Find(h, u), Find(h, v)} : \A w \in Ids(h) :
            Find(g, w) = IF Find(h, w) \in {Find(h, u), Find(h, v)} THEN r ELSE Find(h, w)
    <2>1. u \in Ids(h) /\ v \in Ids(h) /\ Sound(h)
        BY <1>1
    <2>2. /\ Sound(Union(h, u, v)) /\ Ids(Union(h, u, v)) = Ids(h)
          /\ \E r \in {Find(h, u), Find(h, v)} : \A w \in Ids(h) :
                Find(Union(h, u, v), w) =
                    IF Find(h, w) \in {Find(h, u), Find(h, v)} THEN r ELSE Find(h, w)
        BY <2>1, UnionSound
    <2> QED
        BY <1>2, <2>2
<1>5. PICK r \in {Find(h, u), Find(h, v)} : \A w \in Ids(h) :
        Find(g, w) = IF Find(h, w) \in {Find(h, u), Find(h, v)} THEN r ELSE Find(h, w)
    BY <1>4
<1>6. Connected(Find(h, u), Find(h, v))
    BY <1>1, <1>3, ConnectedIsEquivalence
<1>7. ASSUME NEW w \in Ids(h) PROVE Connected(w, Find(g, w))
    <2>1. CASE Find(h, w) \in {Find(h, u), Find(h, v)}
        <3>1. Find(g, w) = r
            BY <1>5, <2>1
        <3>2. Connected(Find(h, w), r)
            BY <1>6, <2>1, ConnectedIsEquivalence
        <3> QED
            BY <1>3, <3>1, <3>2, ConnectedIsEquivalence
    <2>2. CASE Find(h, w) \notin {Find(h, u), Find(h, v)}
        BY <1>3, <1>5, <2>2
    <2> QED
        BY <2>1, <2>2
<1>8. Find(g, u) = r /\ Find(g, v) = r
    BY <1>1, <1>5
<1>9. ASSUME NEW w \in Ids(f), NEW x \in Ids(f), Find(f, w) = Find(f, x)
      PROVE  Find(g, w) = Find(g, x)
    <2>1. Find(h, w) = Find(h, x)
        BY <1>1, <1>9
    <2> QED
        BY <1>1, <1>5, <2>1
<1> QED
    BY <1>1, <1>4, <1>7, <1>8, <1>9

LEMMA ConnectedSame ==
    ASSUME edge' = edge
    PROVE  \A u, v : Connected(u, v)' <=> Connected(u, v)
BY DEF Connected, Closed

\* A worker's step keeps its partition right.
LEMMA LocalJoin ==
    ASSUME GraphInv, ForestInv, Parted, NEW p \in Partition, NEW e \in todo[p], Join(p, e)
    PROVE  LocalOK(p)'
<1>1. LocalOK(p) /\ edge' = edge /\ place' = place
    BY DEF ForestInv, Join
<1>2. e \in edge /\ place[e] = p
    BY <1>1 DEF LocalOK
<1>3. PICK u \in e, v \in e : u # v /\ forest' = [forest EXCEPT ![p] = Union(Add(@, e), u, v)]
    BY DEF Join, UnionAt
<1>4. e = {u, v} /\ Connected(u, v)
    BY <1>2, <1>3, EdgeEnds, PairConnects
<1>5. /\ forest'[p] = Union(Add(forest[p], {u, v}), u, v)
      /\ todo'[p] = todo[p] \ {e}
    BY <1>3, <1>4 DEF ForestInv, Join
<1>6. Sound(forest[p]) /\ \A w \in Ids(forest[p]) : Connected(w, Find(forest[p], w))
    BY <1>1 DEF LocalOK
<1>7. /\ Sound(forest'[p]) /\ Ids(forest'[p]) = Ids(forest[p]) \cup {u, v}
      /\ \A w \in Ids(forest'[p]) : Connected(w, Find(forest'[p], w))
      /\ Find(forest'[p], u) = Find(forest'[p], v)
      /\ \A w, x \in Ids(forest[p]) :
            Find(forest[p], w) = Find(forest[p], x) => Find(forest'[p], w) = Find(forest'[p], x)
    BY <1>4, <1>5, <1>6, PairJoined
<1>8. \A w \in Ids(forest'[p]) : \E d \in edge : w \in d /\ place[d] = p
    BY <1>1, <1>2, <1>4, <1>7 DEF LocalOK
<1>9. ASSUME NEW d \in edge \ todo'[p], place[d] = p
      PROVE  /\ d \subseteq Ids(forest'[p])
             /\ \A w, x \in d : Find(forest'[p], w) = Find(forest'[p], x)
    <2>1. CASE d = e
        BY <1>4, <1>7, <2>1
    <2>2. CASE d # e
        <3>1. d \in edge \ todo[p]
            BY <1>5, <1>9, <2>2
        <3>2. d \subseteq Ids(forest[p]) /\ \A w, x \in d : Find(forest[p], w) = Find(forest[p], x)
            BY <1>1, <1>9, <3>1 DEF LocalOK
        <3> QED
            BY <1>7, <3>2
    <2> QED
        BY <2>1, <2>2
<1>10. todo'[p] \subseteq {d \in edge : place[d] = p}
    BY <1>1, <1>5 DEF LocalOK
<1> QED
    BY <1>1, <1>7, <1>8, <1>9, <1>10, ConnectedSame DEF LocalOK

\* Nobody else's step touches it.
LEMMA LocalSame ==
    ASSUME NEW p \in Partition, LocalOK(p), edge' = edge, place' = place,
           forest'[p] = forest[p], todo'[p] = todo[p]
    PROVE  LocalOK(p)'
BY ConnectedSame DEF LocalOK

\* What the rows say: an id's root is connected to it.
LEMMA RowsSound ==
    ASSUME GraphInv, \A p \in Partition : LocalOK(p),
           NEW x \in LocalRoots \cup {<<v, v>> : v \in Isolated}
    PROVE  /\ x = <<x[1], x[2]>> /\ x[1] \in universe /\ Connected(x[1], x[2])
           /\ x[1] \in Isolated => x[2] = x[1]
<1>1. CASE x \in LocalRoots
    <2>1. PICK p \in Partition : \E v \in Ids(forest[p]) : x = <<v, Find(forest[p], v)>>
        BY <1>1 DEF LocalRoots, Ids
    <2>2. PICK v \in Ids(forest[p]) : x = <<v, Find(forest[p], v)>>
        BY <2>1
    <2>3. Connected(v, Find(forest[p], v)) /\ v \in Touched
        BY DEF LocalOK, Touched
    <2> QED
        BY <2>2, <2>3 DEF GraphInv, Isolated
<1>2. CASE x \in {<<v, v>> : v \in Isolated}
    BY <1>2, ConnectedIsEquivalence DEF Isolated
<1> QED
    BY <1>1, <1>2

LEMMA BoundaryPairs ==
    ASSUME GraphInv, \A p \in Partition : LocalOK(p),
           rows = LocalRoots \cup {<<v, v>> : v \in Isolated}, NEW b \in Boundary(rows)
    PROVE  \E r, s \in {x[2] : x \in rows} : r # s /\ b = {r, s} /\ Connected(r, s)
<1>1. PICK x \in rows, y \in rows : {x[1], y[1]} \in edge /\ y[2] # x[2] /\ b = {x[2], y[2]}
    BY DEF Boundary
<1>2. Connected(x[1], x[2]) /\ Connected(y[1], y[2]) /\ Connected(x[1], y[1])
    BY <1>1, RowsSound, PairConnects
<1>3. Connected(x[2], y[2])
    BY <1>2, ConnectedIsEquivalence
<1> QED
    BY <1>1, <1>3

\* A step of the driver.
LEMMA DriverJoin ==
    ASSUME GraphInv, ForestInv, Parted, NEW e \in todo[Driver], Join(Driver, e)
    PROVE  DriverOK'
<1>1. DriverOK /\ merging /\ \A p \in Partition : LocalOK(p)
    BY DEF ForestInv, DriverOK
<1>2. /\ edge' = edge /\ place' = place /\ merging' = merging /\ rows' = rows
      /\ algorithm' = algorithm /\ universe' = universe
    BY DEF Join
<1>3. PICK u \in e, v \in e : u # v /\ forest' = [forest EXCEPT ![Driver] = Union(Add(@, e), u, v)]
    BY DEF Join, UnionAt
<1>4. /\ e \in Boundary(rows) /\ rows = LocalRoots \cup {<<w, w>> : w \in Isolated}
      /\ Ids(forest[Driver]) = {x[2] : x \in rows}
    BY <1>1 DEF DriverOK
<1>5. e = {u, v} /\ Connected(u, v) /\ {u, v} \subseteq Ids(forest[Driver])
    <2>1. PICK r \in Ids(forest[Driver]), s \in Ids(forest[Driver]) : r # s /\ e = {r, s} /\ Connected(r, s)
        BY <1>1, <1>4, BoundaryPairs
    <2> QED
        BY <1>3, <2>1, ConnectedIsEquivalence
<1>6. /\ forest'[Driver] = Union(Add(forest[Driver], {u, v}), u, v)
      /\ todo'[Driver] = todo[Driver] \ {e}
      /\ \A p \in Partition : forest'[p] = forest[p] /\ todo'[p] = todo[p]
    BY <1>3, <1>5, ClusteringAssumption DEF ForestInv, Join
<1>7. Sound(forest[Driver]) /\ \A w \in Ids(forest[Driver]) : Connected(w, Find(forest[Driver], w))
    BY <1>1 DEF DriverOK
<1>8. /\ Sound(forest'[Driver]) /\ Ids(forest'[Driver]) = Ids(forest[Driver]) \cup {u, v}
      /\ \A w \in Ids(forest'[Driver]) : Connected(w, Find(forest'[Driver], w))
      /\ Find(forest'[Driver], u) = Find(forest'[Driver], v)
      /\ \A w, x \in Ids(forest[Driver]) :
            Find(forest[Driver], w) = Find(forest[Driver], x)
                => Find(forest'[Driver], w) = Find(forest'[Driver], x)
    BY <1>5, <1>6, <1>7, PairJoined
<1>9. Ids(forest'[Driver]) = Ids(forest[Driver])
    BY <1>5, <1>8
<1>10. LocalRoots' = LocalRoots /\ Isolated' = Isolated /\ Boundary(rows)' = Boundary(rows)
    BY <1>2, <1>6 DEF LocalRoots, Isolated, Touched, Boundary
<1>11. ASSUME NEW b \in Boundary(rows) \ todo'[Driver], NEW r \in b, NEW s \in b
       PROVE  Find(forest'[Driver], r) = Find(forest'[Driver], s)
    <2>1. CASE b = e
        BY <1>5, <1>8, <2>1
    <2>2. CASE b # e
        <3>1. b \in Boundary(rows) \ todo[Driver]
            BY <1>6, <1>11, <2>2
        <3>2. Find(forest[Driver], r) = Find(forest[Driver], s)
            BY <1>1, <1>11, <3>1 DEF DriverOK
        <3>3. b \subseteq Ids(forest[Driver])
            BY <1>1, <1>4, BoundaryPairs
        <3> QED
            BY <1>8, <1>11, <3>2, <3>3
    <2> QED
        BY <2>1, <2>2
<1>12. todo'[Driver] \subseteq Boundary(rows)
    BY <1>1, <1>6 DEF DriverOK
<1>13. Sound(forest[Driver])'
    BY <1>8
<1>14. algorithm = "two_phase" /\ \A p \in Partition : todo'[p] = {}
    BY <1>1, <1>6 DEF DriverOK
<1>15. \A r \in Ids(forest[Driver])' : Connected(r, Find(forest[Driver], r))'
    BY <1>2, <1>8, ConnectedSame
<1>16. \A b \in (Boundary(rows) \ todo[Driver])' : \A r, s \in b :
        (Find(forest[Driver], r) = Find(forest[Driver], s))'
    BY <1>10, <1>11
<1> QED
    BY <1>1, <1>2, <1>4, <1>9, <1>10, <1>12, <1>13, <1>14, <1>15, <1>16 DEF DriverOK

\* The second phase begins with every root alone and every boundary pair to do.
LEMMA MergeBegins ==
    ASSUME GraphInv, ForestInv, Parted, BeginMerge
    PROVE  ForestInv'
<1>1. /\ edge' = edge /\ place' = place /\ algorithm' = algorithm /\ universe' = universe
      /\ algorithm = "two_phase" /\ ~merging /\ merging' = TRUE
      /\ rows' = LocalRoots \cup {<<v, v>> : v \in Isolated}
      /\ forest' = [forest EXCEPT ![Driver] = Add(@, {x[2] : x \in rows'})]
      /\ todo' = [todo EXCEPT ![Driver] = Boundary(rows')]
      /\ \A p \in Partition \cup {Driver} : todo[p] = {}
    BY DEF BeginMerge, Swept
<1>2. /\ DOMAIN forest = Partition \cup {Driver} /\ DOMAIN todo = Partition \cup {Driver}
      /\ \A p \in Partition : LocalOK(p)
      /\ DriverOK
    BY DEF ForestInv
<1>3. /\ forest'[Driver] = Add(forest[Driver], {x[2] : x \in rows'})
      /\ todo'[Driver] = Boundary(rows')
      /\ \A p \in Partition : forest'[p] = forest[p] /\ todo'[p] = todo[p]
      /\ DOMAIN forest' = Partition \cup {Driver} /\ DOMAIN todo' = Partition \cup {Driver}
    BY <1>1, <1>2, ClusteringAssumption
<1>4. \A p \in Partition : LocalOK(p)'
    BY <1>1, <1>2, <1>3, LocalSame
<1>5. Sound(forest[Driver]) /\ Ids(forest[Driver]) = {}
    BY <1>1, <1>2 DEF DriverOK
<1>6. /\ Sound(forest'[Driver]) /\ Ids(forest'[Driver]) = {x[2] : x \in rows'}
      /\ \A r \in Ids(forest'[Driver]) : Find(forest'[Driver], r) = r
    <2> DEFINE ids == {x[2] : x \in rows'}
               f == forest[Driver]
    <2>1. forest'[Driver] = Add(f, ids) /\ Sound(f) /\ Ids(f) = {}
        BY <1>3, <1>5
    <2> HIDE DEF ids, f
    <2>2. /\ Sound(Add(f, ids)) /\ Ids(Add(f, ids)) = ids
          /\ \A r \in ids : Find(Add(f, ids), r) = r
        BY <2>1, AddSound
    <2>3. Ids(forest'[Driver]) = ids
        BY <2>1, <2>2
    <2>4. Sound(forest'[Driver])
        BY <2>1, <2>2
    <2>5. \A r \in ids : Find(forest'[Driver], r) = r
        BY <2>1, <2>2
    <2> QED
        BY <2>3, <2>4, <2>5 DEF ids
<1>7. rows' = (LocalRoots \cup {<<v, v>> : v \in Isolated})'
    <2>1. LocalRoots' = LocalRoots
        BY <1>3 DEF LocalRoots
    <2>2. Isolated' = Isolated
        BY <1>1 DEF Isolated, Touched
    <2> QED
        BY <1>1, <2>1, <2>2
<1>8. Boundary(rows)' = Boundary(rows')
    BY <1>1 DEF Boundary
<1>9. \A r \in Ids(forest[Driver])' : Connected(r, Find(forest[Driver], r))'
    BY <1>1, <1>6, ConnectedIsEquivalence, ConnectedSame
<1>10. DriverOK'
    BY <1>1, <1>3, <1>6, <1>7, <1>8, <1>9 DEF DriverOK
<1> QED
    BY <1>1, <1>2, <1>3, <1>4, <1>10 DEF ForestInv, CoLocated, Parted

LEMMA JoinKeeps ==
    ASSUME GraphInv, ForestInv, Parted,
           NEW p \in Partition \cup {Driver}, NEW e \in todo[p], Join(p, e)
    PROVE  ForestInv'
<1>1. /\ edge' = edge /\ place' = place /\ algorithm' = algorithm /\ universe' = universe
      /\ merging' = merging /\ rows' = rows
      /\ DOMAIN forest' = DOMAIN forest /\ DOMAIN todo' = DOMAIN todo
      /\ \A q \in (Partition \cup {Driver}) \ {p} : forest'[q] = forest[q] /\ todo'[q] = todo[q]
    BY DEF Join, UnionAt, ForestInv
<1>2. \A q \in Partition : LocalOK(q)
    BY DEF ForestInv
<1>3. ASSUME NEW q \in Partition PROVE LocalOK(q)'
    <2>1. CASE q = p
        BY <2>1, LocalJoin
    <2>2. CASE q # p
        BY <1>1, <1>2, <2>2, LocalSame
    <2> QED
        BY <2>1, <2>2
<1>4. DriverOK'
    <2>1. CASE p = Driver
        BY <2>1, DriverJoin
    <2>2. CASE p # Driver
        <3>1. ~merging
            BY <2>2 DEF ForestInv, DriverOK
        <3>2. forest'[Driver] = forest[Driver] /\ todo'[Driver] = todo[Driver]
            BY <1>1, <2>2
        <3> QED
            BY <1>1, <3>1, <3>2 DEF ForestInv, DriverOK
    <2> QED
        BY <2>1, <2>2
<1> QED
    BY <1>1, <1>3, <1>4 DEF ForestInv, CoLocated, Parted

LEMMA ForestSame ==
    ASSUME ForestInv, UNCHANGED <<edge, algorithm, universe, place, forest, todo, merging, rows>>
    PROVE  ForestInv'
<1> SUFFICES ASSUME Parted PROVE ForestInv'
    BY DEF ForestInv, Parted
<1>1. \A p \in Partition : LocalOK(p)'
    BY LocalSame DEF ForestInv
<1>2. DriverOK'
    <2>1. DriverOK
        BY DEF ForestInv
    <2>2. LocalRoots' = LocalRoots /\ Isolated' = Isolated /\ Boundary(rows)' = Boundary(rows)
        BY DEF LocalRoots, Isolated, Touched, Boundary
    <2> QED
        BY <2>1, <2>2, ConnectedSame DEF DriverOK
<1> QED
    BY <1>1, <1>2 DEF ForestInv, CoLocated

----------------------------------------------------------------------------
(* The answers. *)

\* What an answer with a promise is.
Trusted(f) ==
    /\ f \in [universe -> universe] /\ Correct(f)
    /\ \A v \in universe : f[v] <= v /\ Connected(v, f[v])

LEMMA ConvergedTrusted ==
    ASSUME GraphInv, RoundsInv, algorithm \in Rounds, RoundOf = label
    PROVE  Trusted(label)
BY FixpointCorrect DEF Trusted, RoundsInv

LEMMA ContractedTrusted ==
    ASSUME GraphInv, ContractInv, algorithm = "randomized_contraction", residual = {}
    PROVE  Trusted(Normalized(label))
<1>1. universe \subseteq Nat /\ DOMAIN label = universe /\ \A v \in universe : Connected(v, label[v])
    BY ClusteringAssumption DEF ContractInv, GraphInv
<1>2. ASSUME NEW v \in universe
      PROVE  Normalized(label)[v] <= v /\ Connected(v, Normalized(label)[v])
    <2>1. /\ Normalized(label)[v] \in universe /\ label[Normalized(label)[v]] = label[v]
          /\ Normalized(label)[v] <= v
        BY <1>1, NormalizedIs
    <2> QED
        BY <1>1, <2>1, ConnectedIsEquivalence
<1> QED
    BY <1>2, ContractedCorrect DEF Trusted

LEMMA LocalTrusted ==
    ASSUME GraphInv, ForestInv, algorithm = "local", Swept,
           NEW f \in [universe -> Node],
           \A v \in universe : \E p \in Partition :
                /\ v \in Ids(forest[p])
                /\ f[v] = Least({u \in Ids(forest[p]) : Find(forest[p], u) = Find(forest[p], v)})
    PROVE  Trusted(f)
<1> DEFINE Class(p, v) == {u \in Ids(forest[p]) : Find(forest[p], u) = Find(forest[p], v)}
<1>1. /\ \A p \in Partition : LocalOK(p) /\ todo[p] = {}
      /\ CoLocated /\ place \in [edge -> Partition]
    BY DEF ForestInv, Parted, Forests, Swept
<1>2. universe \subseteq Nat /\ \A p \in Partition : Ids(forest[p]) \subseteq universe
    BY <1>1, ClusteringAssumption DEF GraphInv, LocalOK, Touched
<1>3. ASSUME NEW v \in universe
      PROVE  f[v] \in universe /\ f[v] <= v /\ Connected(v, f[v])
    <2>1. PICK p \in Partition : v \in Ids(forest[p]) /\ f[v] = Least(Class(p, v))
        OBVIOUS
    <2>2. Class(p, v) \in SUBSET Nat /\ v \in Class(p, v)
        BY <1>2, <2>1
    <2>3. f[v] \in Class(p, v) /\ f[v] <= v
        BY <2>1, <2>2, LeastIs
    <2>4. /\ f[v] \in Ids(forest[p]) /\ Find(forest[p], f[v]) = Find(forest[p], v)
          /\ Connected(v, Find(forest[p], v)) /\ Connected(f[v], Find(forest[p], f[v]))
        BY <1>1, <2>1, <2>3 DEF LocalOK
    <2> QED
        BY <1>2, <2>3, <2>4, ConnectedIsEquivalence
<1>4. ASSUME NEW e \in edge, NEW v \in e
      PROVE  f[v] = Least(Class(place[e], v))
    <2>1. v \in universe
        BY DEF GraphInv, Touched
    <2>2. PICK p \in Partition : v \in Ids(forest[p]) /\ f[v] = Least(Class(p, v))
        BY <2>1
    <2>3. PICK d \in edge : v \in d /\ place[d] = p
        BY <1>1, <2>2 DEF LocalOK
    <2>4. place[e] = p
        BY <1>1, <2>3 DEF CoLocated
    <2> QED
        BY <2>2, <2>4
<1>5. ASSUME NEW e \in edge, NEW u \in e, NEW v \in e PROVE f[u] = f[v]
    <2>1. Find(forest[place[e]], u) = Find(forest[place[e]], v)
        BY <1>1 DEF LocalOK
    <2>2. Class(place[e], u) = Class(place[e], v)
        BY <2>1
    <2> QED
        BY <1>4, <2>2
<1>6. \A u, v \in universe : f[u] = f[v] => Connected(u, v)
    BY <1>3, ConnectedIsEquivalence
<1>7. Correct(f)
    BY <1>5, <1>6, LabelsCorrect DEF GraphInv
<1> QED
    BY <1>3, <1>7 DEF Trusted

\* The rows of the two phases: a pair's ends share a row's root, and the driver
\* gives all the rows of an id, and of a pair, one root.
LEMMA RowsAgree ==
    ASSUME GraphInv, ForestInv, Parted, merging, Swept
    PROVE  /\ \A v \in universe : \E x \in rows : x[1] = v
           /\ \A x, y \in rows : x[1] = y[1] \/ {x[1], y[1]} \in edge =>
                Find(forest[Driver], x[2]) = Find(forest[Driver], y[2])
           /\ \A x \in rows : Connected(x[1], Find(forest[Driver], x[2]))
<1>1. /\ \A p \in Partition : LocalOK(p) /\ todo[p] = {}
      /\ DriverOK /\ todo[Driver] = {} /\ place \in [edge -> Partition]
    BY DEF ForestInv, Swept
<1>2. /\ rows = LocalRoots \cup {<<v, v>> : v \in Isolated}
      /\ Ids(forest[Driver]) = {x[2] : x \in rows}
      /\ \A r \in Ids(forest[Driver]) : Connected(r, Find(forest[Driver], r))
      /\ \A b \in Boundary(rows) : \A r, s \in b : Find(forest[Driver], r) = Find(forest[Driver], s)
    BY <1>1 DEF DriverOK
<1>3. ASSUME NEW e \in edge, NEW u \in e, NEW v \in e
      PROVE  \E r : <<u, r>> \in rows /\ <<v, r>> \in rows
    <2> DEFINE p == place[e]
    <2>1. p \in Partition /\ u \in Ids(forest[p]) /\ v \in Ids(forest[p])
          /\ Find(forest[p], u) = Find(forest[p], v)
        BY <1>1 DEF LocalOK
    <2>2. <<u, Find(forest[p], u)>> \in LocalRoots /\ <<v, Find(forest[p], v)>> \in LocalRoots
        BY <2>1 DEF LocalRoots, Ids
    <2> QED
        BY <1>2, <2>1, <2>2
<1>4. ASSUME NEW v \in universe PROVE \E x \in rows : x[1] = v
    <2>1. CASE v \in Isolated
        <3>1. <<v, v>> \in rows
            BY <1>2, <2>1
        <3> QED
            BY <3>1
    <2>2. CASE v \notin Isolated
        <3>1. PICK e \in edge : v \in e
            BY <2>2 DEF Isolated, Touched
        <3>2. PICK r : <<v, r>> \in rows
            BY <1>3, <3>1
        <3> QED
            BY <3>2
    <2> QED
        BY <2>1, <2>2
<1>5. ASSUME NEW x \in rows, NEW y \in rows, {x[1], y[1]} \in edge
      PROVE  Find(forest[Driver], x[2]) = Find(forest[Driver], y[2])
    <2>1. CASE y[2] = x[2]
        BY <2>1
    <2>2. CASE y[2] # x[2]
        <3>1. {x[2], y[2]} \in Boundary(rows)
            <4> DEFINE Others == {z \in rows : {x[1], z[1]} \in edge /\ z[2] # x[2]}
            <4>1. y \in Others
                BY <1>5, <2>2
            <4>2. {x[2], y[2]} \in {{x[2], z[2]} : z \in Others}
                BY <4>1
            <4>3. Boundary(rows) = UNION {{{w[2], z[2]} : z \in {k \in rows : {w[1], k[1]} \in edge /\ k[2] # w[2]}} : w \in rows}
                BY DEF Boundary
            <4>4. {{x[2], z[2]} : z \in Others} \in {{{w[2], z[2]} : z \in {k \in rows : {w[1], k[1]} \in edge /\ k[2] # w[2]}} : w \in rows}
                BY Zenon
            <4> QED
                BY <4>2, <4>3, <4>4, Zenon
        <3> QED
            BY <1>2, <3>1
    <2> QED
        BY <2>1, <2>2
<1>6. ASSUME NEW x \in rows, NEW y \in rows, x[1] = y[1]
      PROVE  Find(forest[Driver], x[2]) = Find(forest[Driver], y[2])
    <2>1. x[1] \in universe /\ (x[1] \in Isolated => x[2] = x[1] /\ y[2] = x[1])
        BY <1>1, <1>2, <1>6, RowsSound
    <2>2. CASE x[1] \in Isolated
        BY <2>1, <2>2
    <2>3. CASE x[1] \notin Isolated
        <3>1. PICK e \in edge : x[1] \in e
            BY <2>1, <2>3 DEF Isolated, Touched
        <3>2. PICK w \in e : w # x[1] /\ {x[1], w} \in edge /\ {y[1], w} \in edge
            BY <1>6, <3>1, EdgeEnds
        <3>3. PICK r : <<w, r>> \in rows
            BY <1>3, <3>1
        <3>4. Find(forest[Driver], x[2]) = Find(forest[Driver], r)
            BY <1>5, <3>2, <3>3
        <3>5. Find(forest[Driver], y[2]) = Find(forest[Driver], r)
            BY <1>5, <3>2, <3>3
        <3> QED
            BY <3>4, <3>5
    <2> QED
        BY <2>2, <2>3
<1>7. ASSUME NEW x \in rows PROVE Connected(x[1], Find(forest[Driver], x[2]))
    <2>1. Connected(x[1], x[2])
        BY <1>1, <1>2, RowsSound
    <2>2. Connected(x[2], Find(forest[Driver], x[2]))
        BY <1>2
    <2> QED
        BY <2>1, <2>2, ConnectedIsEquivalence
<1> QED
    BY <1>4, <1>5, <1>6, <1>7

LEMMA MergedTrusted ==
    ASSUME GraphInv, ForestInv, Parted, merging, Swept,
           NEW f \in [universe -> Node],
           \A v \in universe : \E x \in rows :
                /\ x[1] = v
                /\ f[v] = Least({z[1] : z \in {y \in rows : Find(forest[Driver], y[2]) = Find(forest[Driver], x[2])}})
    PROVE  Trusted(f)
<1> DEFINE Global(x) == Find(forest[Driver], x[2])
           Class(g) == {z[1] : z \in {y \in rows : Global(y) = g}}
<1>1. /\ \A v \in universe : \E x \in rows : x[1] = v
      /\ \A x, y \in rows : x[1] = y[1] \/ {x[1], y[1]} \in edge => Global(x) = Global(y)
      /\ \A x \in rows : Connected(x[1], Global(x))
    BY RowsAgree
<1>2. \A x \in rows : x[1] \in universe
    BY RowsSound DEF ForestInv, DriverOK
<1>3. universe \subseteq Nat
    BY ClusteringAssumption DEF GraphInv
<1>4. ASSUME NEW v \in universe
      PROVE  f[v] \in universe /\ f[v] <= v /\ Connected(v, f[v])
    <2>1. PICK x \in rows : x[1] = v /\ f[v] = Least(Class(Global(x)))
        OBVIOUS
    <2>2. Class(Global(x)) \in SUBSET Nat /\ v \in Class(Global(x))
        BY <1>2, <1>3, <2>1
    <2>3. f[v] \in Class(Global(x)) /\ f[v] <= v
        <3> HIDE DEF Class
        <3>1. Least(Class(Global(x))) \in Class(Global(x)) /\ Least(Class(Global(x))) <= v
            BY <2>2, LeastIs
        <3> QED BY <2>1, <3>1
    <2>4. PICK z \in rows : Global(z) = Global(x) /\ f[v] = z[1]
        BY <2>3
    <2>5. Connected(v, Global(x)) /\ Connected(f[v], Global(x))
        BY <1>1, <2>1, <2>4
    <2> QED
        BY <1>2, <2>3, <2>4, <2>5, ConnectedIsEquivalence
<1>5. ASSUME NEW e \in edge, NEW u \in e, NEW v \in e PROVE f[u] = f[v]
    <2>1. u \in universe /\ v \in universe /\ (u = v \/ {u, v} \in edge)
        BY EdgeEnds
    <2>2. PICK x \in rows : x[1] = u /\ f[u] = Least(Class(Global(x)))
        BY <2>1
    <2>3. PICK y \in rows : y[1] = v /\ f[v] = Least(Class(Global(y)))
        BY <2>1
    <2>4. Global(x) = Global(y)
        BY <1>1, <2>1, <2>2, <2>3
    <2> QED
        BY <2>2, <2>3, <2>4
<1>6. \A u, v \in universe : f[u] = f[v] => Connected(u, v)
    BY <1>4, ConnectedIsEquivalence
<1>7. Correct(f)
    BY <1>5, <1>6, LabelsCorrect DEF GraphInv
<1> QED
    BY <1>4, <1>7 DEF Trusted

----------------------------------------------------------------------------
(* The invariant holds. *)

LEMMA InvInit == DInit => IInv
<1> SUFFICES ASSUME DInit PROVE IInv
    OBVIOUS
<1>1. GraphInv
    <2>1. edge \subseteq Pairs /\ algorithm \in Algorithm /\ (universe = Touched \/ universe = Node)
        BY DEF DInit, Init
    <2>2. Touched \subseteq Node
        BY <2>1 DEF Touched, Pairs
    <2> QED
        BY <2>1, <2>2 DEF GraphInv
<1>2. label = [v \in universe |-> v] /\ universe \subseteq Node /\ universe \subseteq Nat
    BY <1>1, ClusteringAssumption DEF DInit, GraphInv
<1>3. RoundsInv
    BY <1>2, ConnectedIsEquivalence DEF RoundsInv
<1>4. ContractInv
    <2> SUFFICES ASSUME algorithm = "randomized_contraction" PROVE ContractInv
        BY DEF ContractInv
    <2>1. residual = edge /\ edge \subseteq Pairs
        BY <1>1 DEF DInit, GraphInv
    <2>2. \A u, v \in Node : {u, v} \in edge => u \in universe /\ v \in universe
        BY <1>1 DEF GraphInv, Touched
    <2>3. \A u, v \in Node : {u, v} \in edge => {label[u], label[v]} \in residual
        BY <1>2, <2>1, <2>2
    <2> QED
        BY <1>2, <2>1, <2>3, PairConnects, ConnectedIsEquivalence DEF ContractInv
<1>5. ForestInv
    <2> SUFFICES ASSUME Parted PROVE ForestInv
        BY DEF ForestInv
    <2>1. /\ forest = [p \in Partition \cup {Driver} |-> EmptyForest]
          /\ place \in [edge -> Partition]
          /\ todo = [p \in Partition \cup {Driver} |-> {e \in edge : place[e] = p}]
          /\ ~merging /\ rows = {}
          /\ algorithm = "local" => CoLocated
        BY DEF DInit
    <2>2. ASSUME NEW p \in Partition PROVE LocalOK(p)
        <3>1. forest[p] = EmptyForest /\ todo[p] = {e \in edge : place[e] = p}
            BY <2>1
        <3> QED
            BY <3>1, EmptyForestSound DEF LocalOK
    <2>3. DriverOK
        <3>1. forest[Driver] = EmptyForest /\ todo[Driver] = {e \in edge : place[e] = Driver}
            BY <2>1
        <3>2. todo[Driver] = {}
            BY <2>1, <3>1, ClusteringAssumption
        <3> QED
            BY <2>1, <3>1, <3>2, EmptyForestSound DEF DriverOK
    <2> QED
        BY <2>1, <2>2, <2>3 DEF ForestInv
<1> QED
    BY <1>1, <1>3, <1>4, <1>5 DEF IInv

LEMMA InvSame ==
    ASSUME IInv, UNCHANGED <<edge, algorithm, universe, place, work>>
    PROVE  IInv'
<1>1. UNCHANGED <<edge, algorithm, universe, place, label, residual, forest, todo, merging, rows>>
    BY DEF work
<1>2. GraphInv'
    BY <1>1 DEF IInv, GraphInv, Touched
<1>3. RoundsInv' /\ ContractInv'
    BY <1>1, ConnectedSame DEF IInv, RoundsInv, ContractInv
<1>4. ForestInv'
    BY <1>1, ForestSame DEF IInv
<1> QED
    BY <1>2, <1>3, <1>4 DEF IInv

LEMMA InvStep == IInv /\ [DNext]_dvars => IInv'
<1> SUFFICES ASSUME IInv, [DNext]_dvars PROVE IInv'
    OBVIOUS
<1>1. GraphInv /\ RoundsInv /\ ContractInv /\ ForestInv
    BY DEF IInv
<1> DEFINE Still == UNCHANGED <<edge, universe, algorithm>>
<1>2. Still => GraphInv'
    BY <1>1 DEF GraphInv, Touched
<1>3. CASE Propagate
    <2>1. Still /\ algorithm \in Rounds
        BY <1>3 DEF Propagate
    <2>2. ContractInv' /\ ForestInv'
        BY <2>1 DEF Rounds, Forests, ContractInv, ForestInv, Parted
    <2> QED
        BY <1>1, <1>2, <1>3, <2>1, <2>2, RoundsStep DEF IInv
<1>4. CASE FallBack
    <2>1. /\ edge' = edge /\ universe' = universe /\ algorithm' = "in_memory"
          /\ label' = [v \in universe |-> v]
        BY <1>4 DEF FallBack
    <2>2. GraphInv' /\ universe \subseteq Nat
        BY <1>1, <2>1, ClusteringAssumption DEF GraphInv, Touched, Algorithm, Rounds
    <2>3. RoundsInv'
        BY <2>1, <2>2, ConnectedSame, ConnectedIsEquivalence DEF RoundsInv
    <2>4. ContractInv' /\ ForestInv'
        BY <2>1 DEF Forests, ContractInv, ForestInv, Parted
    <2> QED
        BY <2>2, <2>3, <2>4 DEF IInv
<1>5. CASE Contract
    <2>1. Still /\ algorithm = "randomized_contraction"
        BY <1>5 DEF Contract
    <2>2. RoundsInv' /\ ForestInv'
        BY <2>1 DEF Rounds, Forests, RoundsInv, ForestInv, Parted
    <2> QED
        BY <1>1, <1>2, <1>5, <2>1, <2>2, ContractStep DEF IInv
<1>6. ASSUME NEW p \in Partition \cup {Driver}, NEW e \in todo[p], Join(p, e) PROVE IInv'
    <2>1. Still /\ UNCHANGED <<label, residual>>
        BY <1>6 DEF Join
    <2>2. RoundsInv' /\ ContractInv'
        BY <1>1, <2>1, ConnectedSame DEF RoundsInv, ContractInv
    <2>3. ForestInv'
        <3>1. CASE Parted
            BY <1>1, <1>6, <3>1, JoinKeeps
        <3>2. CASE ~Parted
            BY <2>1, <3>2 DEF ForestInv, Parted
        <3> QED
            BY <3>1, <3>2
    <2> QED
        BY <1>2, <2>1, <2>2, <2>3 DEF IInv
<1>7. CASE BeginMerge
    <2>1. Still /\ UNCHANGED <<label, residual>> /\ Parted
        BY <1>7 DEF BeginMerge, Parted, Forests
    <2>2. RoundsInv' /\ ContractInv'
        BY <1>1, <2>1, ConnectedSame DEF RoundsInv, ContractInv
    <2> QED
        BY <1>1, <1>2, <1>7, <2>1, <2>2, MergeBegins DEF IInv
<1>8. CASE Converge \/ RunOut \/ Contracted \/ LabelRows \/ LabelLocally
    <2>1. UNCHANGED <<edge, algorithm, universe, place, work>>
        BY <1>8 DEF Converge, RunOut, Contracted, LabelRows, LabelLocally, ReturnOne, Return
    <2> QED
        BY <2>1, InvSame
<1>9. CASE Answered \/ UNCHANGED dvars
    <2>1. UNCHANGED <<edge, algorithm, universe, place, work>>
        BY <1>9 DEF Answered, dvars, work
    <2> QED
        BY <2>1, InvSame
<1> QED
    BY <1>3, <1>4, <1>5, <1>6, <1>7, <1>8, <1>9 DEF DNext

THEOREM InvHolds == DSpec => []IInv
<1> QED
    BY InvInit, InvStep, PTL DEF DSpec

----------------------------------------------------------------------------
(* The promise is kept. *)

\* What a step does to the answer.
Nothing ==
    /\ UNCHANGED <<edge, answer, bestEffort>>
    /\ answer = NoAnswer \/ algorithm' = algorithm
GivenUp == answer = NoAnswer /\ edge' = edge /\ bestEffort' = TRUE
Promised(f) ==
    /\ answer = NoAnswer /\ UNCHANGED <<edge, algorithm>> /\ bestEffort' = FALSE
    /\ Trusted(f)
    /\ answer' = IF algorithm = "in_memory" THEN Dense(f) ELSE f

LEMMA LabelRowsPromises ==
    ASSUME IInv, LabelRows
    PROVE  \E f : Promised(f)
<1> DEFINE root(x) == Find(forest[Driver], x[2])
           global == {<<x[1], root(x)>> : x \in rows}
           Of(g) == {y[1] : y \in {z \in global : z[2] = g}}
           labels == {<<x[1], Least(Of(x[2]))>> : x \in global}
<1>1. PICK f \in [universe -> {x[2] : x \in labels}] :
        (\A v \in universe : <<v, f[v]>> \in labels) /\ Return(f, TRUE)
    BY DEF LabelRows, ReturnOne
<1>2. /\ answer = NoAnswer /\ algorithm = "two_phase" /\ merging /\ Swept /\ Parted
      /\ GraphInv /\ ForestInv
    BY DEF LabelRows, IInv, Parted, Forests
<1>3. ASSUME NEW x \in rows
      PROVE  Of(root(x)) = {z[1] : z \in {y \in rows : root(y) = root(x)}}
    <2>1. ASSUME NEW z \in rows, root(z) = root(x) PROVE z[1] \in Of(root(x))
        <3>1. <<z[1], root(z)>> \in {y \in global : y[2] = root(x)}
            BY <2>1
        <3> QED
            BY <3>1
    <2>2. ASSUME NEW v \in Of(root(x)) PROVE \E z \in rows : root(z) = root(x) /\ v = z[1]
        <3>1. PICK y \in global : y[2] = root(x) /\ v = y[1]
            OBVIOUS
        <3>2. PICK z \in rows : y = <<z[1], root(z)>>
            BY <3>1
        <3> QED
            BY <3>1, <3>2
    <2> HIDE DEF Of
    <2> QED
        BY <2>1, <2>2
<1>4. ASSUME NEW v \in universe
      PROVE  \E x \in rows : x[1] = v /\ f[v] = Least({z[1] : z \in {y \in rows : root(y) = root(x)}})
    <2>1. PICK y \in global : v = y[1] /\ f[v] = Least(Of(y[2]))
        BY <1>1
    <2>2. PICK x \in rows : y = <<x[1], root(x)>>
        BY <2>1
    <2> QED
        BY <1>3, <2>1, <2>2
<1> HIDE DEF labels
<1>5. f \in [universe -> Node]
    <2>1. ASSUME NEW v \in universe PROVE f[v] \in Node
        <3>1. PICK x \in rows : x[1] = v /\ f[v] = Least({z[1] : z \in {y \in rows : root(y) = root(x)}})
            BY <1>4
        <3>2. \A y \in rows : y[1] \in universe
            BY <1>2, RowsSound DEF ForestInv, DriverOK
        <3>3. universe \subseteq Node /\ universe \subseteq Nat
            BY <1>2, ClusteringAssumption DEF GraphInv
        <3>4. {z[1] : z \in {y \in rows : root(y) = root(x)}} \in SUBSET universe
            BY <3>2
        <3>5. v \in {z[1] : z \in {y \in rows : root(y) = root(x)}}
            BY <3>1
        <3> QED
            BY <3>1, <3>3, <3>4, <3>5, LeastIs
    <2> QED
        BY <1>1, <2>1
<1>6. Trusted(f)
    BY <1>2, <1>4, <1>5, MergedTrusted
<1> QED
    BY <1>1, <1>2, <1>6 DEF Promised, Return

LEMMA LabelLocallyPromises ==
    ASSUME IInv, LabelLocally
    PROVE  \E f : Promised(f)
<1> DEFINE Class(p, v) == {u \in Ids(forest[p]) : Find(forest[p], u) = Find(forest[p], v)}
           labels == UNION {{<<v, Least(Class(p, v))>> : v \in Ids(forest[p])} : p \in Partition}
<1>1. PICK f \in [universe -> {x[2] : x \in labels}] :
        (\A v \in universe : <<v, f[v]>> \in labels) /\ Return(f, TRUE)
    BY DEF LabelLocally, ReturnOne, Ids
<1>2. /\ answer = NoAnswer /\ algorithm = "local" /\ Swept /\ Parted /\ GraphInv /\ ForestInv
    BY DEF LabelLocally, IInv, Parted, Forests
<1>3. ASSUME NEW v \in universe
      PROVE  \E p \in Partition : v \in Ids(forest[p]) /\ f[v] = Least(Class(p, v))
    <2>1. PICK p \in Partition : <<v, f[v]>> \in {<<w, Least(Class(p, w))>> : w \in Ids(forest[p])}
        BY <1>1
    <2> QED
        BY <2>1
<1> HIDE DEF labels
<1>4. f \in [universe -> Node]
    <2>1. ASSUME NEW v \in universe PROVE f[v] \in Node
        <3>1. PICK p \in Partition : v \in Ids(forest[p]) /\ f[v] = Least(Class(p, v))
            BY <1>3
        <3>2. Ids(forest[p]) \subseteq Node /\ Node \subseteq Nat
            BY <1>2, ClusteringAssumption DEF ForestInv, LocalOK, GraphInv, Pairs
        <3>3. Class(p, v) \in SUBSET Node /\ Class(p, v) \in SUBSET Nat /\ v \in Class(p, v)
            BY <3>1, <3>2
        <3>4. Least(Class(p, v)) \in Class(p, v)
            BY <3>3, LeastIs
        <3> QED
            BY <3>1, <3>3, <3>4
    <2> QED
        BY <1>1, <2>1
<1>5. Trusted(f)
    BY <1>2, <1>3, <1>4, LocalTrusted
<1> QED
    BY <1>1, <1>2, <1>5 DEF Promised, Return

LEMMA AnswerStep ==
    ASSUME IInv, [DNext]_dvars
    PROVE  Nothing \/ GivenUp \/ \E f : Promised(f)
<1>1. GraphInv /\ RoundsInv /\ ContractInv /\ ForestInv
    BY DEF IInv
<1>2. CASE Propagate \/ FallBack \/ Contract \/ BeginMerge \/ Answered \/ UNCHANGED dvars
    BY <1>2 DEF Nothing, Propagate, FallBack, Contract, BeginMerge, Answered, dvars
<1>3. ASSUME NEW p \in Partition \cup {Driver}, NEW e \in todo[p], Join(p, e) PROVE Nothing
    BY <1>3 DEF Nothing, Join
<1>4. CASE Converge
    <2>1. Trusted(label)
        BY <1>1, <1>4, ConvergedTrusted DEF Converge
    <2> QED
        BY <1>4, <2>1 DEF Converge, Return, Promised
<1>5. CASE RunOut
    BY <1>5 DEF RunOut, Return, GivenUp
<1>6. CASE Contracted
    <2>1. CASE residual = {}
        <3>1. algorithm = "randomized_contraction"
            BY <1>6 DEF Contracted
        <3>2. Trusted(Normalized(label))
            BY <1>1, <2>1, <3>1, ContractedTrusted
        <3> QED
            BY <1>6, <2>1, <3>1, <3>2 DEF Contracted, Return, Promised
    <2>2. CASE residual # {}
        BY <1>6, <2>2 DEF Contracted, Return, GivenUp
    <2> QED
        BY <2>1, <2>2
<1>7. CASE LabelRows
    BY <1>7, LabelRowsPromises
<1>8. CASE LabelLocally
    BY <1>8, LabelLocallyPromises
<1> QED
    BY <1>2, <1>3, <1>4, <1>5, <1>6, <1>7, <1>8 DEF DNext

LEMMA PromisedIs ==
    ASSUME IInv, NEW f, Promised(f)
    PROVE  answer' # NoAnswer /\ Correct(answer')
<1>1. universe \in SUBSET Node /\ Node \subseteq Nat
    BY ClusteringAssumption DEF IInv, GraphInv
<1>2. f \in [universe -> universe] /\ Correct(f)
    BY DEF Promised, Trusted
<1>3. CASE algorithm = "in_memory"
    <2>1. answer' = Dense(f)
        BY <1>3 DEF Promised
    <2>2. DOMAIN f = universe /\ f \in [universe -> Node]
        BY <1>1, <1>2
    <2>3. Correct(Dense(f))
        BY <1>2, <2>2, DenseCorrect
    <2>4. ASSUME NEW v \in universe PROVE Dense(f)[v] \in Nat
        <3>1. Dense(f)[v] = Cardinality({l \in Image(f) : l < f[v]})
            BY <2>2 DEF Dense
        <3>2. {l \in Image(f) : l < f[v]} \subseteq Node
            BY <2>2 DEF Image
        <3>3. IsFiniteSet({l \in Image(f) : l < f[v]})
            BY <3>2, ClusteringAssumption, FS_Subset
        <3> QED
            BY <3>1, <3>3, FS_CardinalityType
    <2>5. Dense(f) \in [universe -> Nat]
        BY <2>2, <2>4 DEF Dense
    <2> QED
        BY <1>1, <2>1, <2>3, <2>5, ClusteringAssumption
<1>4. CASE algorithm # "in_memory"
    <2>1. answer' = f /\ f \in [universe -> Nat]
        BY <1>1, <1>2, <1>4 DEF Promised
    <2> QED
        BY <1>1, <1>2, <2>1, ClusteringAssumption
<1> QED
    BY <1>3, <1>4

LEMMA SamePromise ==
    \A g : Promise!Correct(g) <=> Correct(g)
BY DEF Promise!Correct, Promise!Connected, Promise!Closed, Promise!Touched,
       Correct, Connected, Closed, Touched

\* For every graph and every route: a step either leaves the promised answer
\* open or gives the components, so that the routes implement Components.
THEOREM PromiseKept == DSpec => KeepsPromise
<1>1. DInit => Promise!Init
    BY DEF DInit, Init, Promise!Init, Pairs, Promise!Pairs
<1>2. IInv /\ [DNext]_dvars => [Promise!Answer]_(Promise!vars)
    <2> SUFFICES ASSUME IInv, [DNext]_dvars PROVE [Promise!Answer]_(Promise!vars)
        OBVIOUS
    <2>1. CASE Nothing
        BY <2>1 DEF Nothing, Promise!vars
    <2>2. CASE GivenUp
        BY <2>2 DEF GivenUp, Promise!vars
    <2>3. ASSUME NEW f, Promised(f) PROVE [Promise!Answer]_(Promise!vars)
        <3>1. answer' # NoAnswer /\ Promise!Correct(answer')
            BY <2>3, PromisedIs, SamePromise
        <3>2. answer = NoAnswer /\ edge' = edge /\ bestEffort' = FALSE
            BY <2>3 DEF Promised
        <3> QED
            BY <3>1, <3>2 DEF Promise!Answer
    <2> QED
        BY <2>1, <2>2, <2>3, AnswerStep
<1> QED
    BY <1>1, <1>2, InvHolds, PTL DEF DSpec, KeepsPromise, Promise!Spec

\* For every graph and every route but the in-memory one, a cluster has the
\* id of its least member.
THEOREM LeastNames == DSpec => []NamedByLeast
<1>1. DInit => NamedByLeast
    BY DEF DInit, Init, NamedByLeast
<1>2. IInv /\ NamedByLeast /\ [DNext]_dvars => NamedByLeast'
    <2> SUFFICES ASSUME IInv, NamedByLeast, [DNext]_dvars PROVE NamedByLeast'
        OBVIOUS
    <2>1. CASE Nothing
        BY <2>1 DEF Nothing, NamedByLeast
    <2>2. CASE GivenUp
        BY <2>2 DEF GivenUp, NamedByLeast
    <2>3. ASSUME NEW f, Promised(f) PROVE NamedByLeast'
        <3> SUFFICES ASSUME algorithm # "in_memory" PROVE NamedByLeast'
            BY <2>3 DEF NamedByLeast, Promised
        <3>1. /\ answer' = f /\ f \in [universe -> universe] /\ Correct(f)
              /\ \A v \in universe : f[v] <= v /\ Connected(v, f[v])
            BY <2>3 DEF Promised, Trusted
        <3>2. \A v \in universe : f[v] \in universe /\ f[f[v]] = f[v]
            BY <3>1 DEF Correct
        <3>3. \A u, v \in universe : f[u] = f[v] => f[v] <= u
            BY <3>1
        <3> QED
            BY <3>1, <3>2, <3>3 DEF NamedByLeast
    <2> QED
        BY <2>1, <2>2, <2>3, AnswerStep
<1> QED
    BY <1>1, <1>2, InvHolds, PTL DEF DSpec

----------------------------------------------------------------------------
(* Powers of two.  The equations of a recursive function hold because some *)
(* function satisfies them: here, the one that joins its finite beginnings. *)

Begins(g, n) ==
    /\ g \in [0..n -> Nat] /\ g[0] = 1
    /\ \A k \in 1..n : g[k] = 2 * g[k - 1]

LEMMA BeginsExist ==
    ASSUME NEW n \in Nat
    PROVE  \E g : Begins(g, n)
<1> DEFINE S == {m \in Nat : ~ \E g : Begins(g, m)}
<1> SUFFICES ASSUME S # {} PROVE FALSE
    OBVIOUS
<1>1. S \in SUBSET Nat
    OBVIOUS
<1> HIDE DEF S
<1>2. Least(S) \in S /\ \A k \in S : Least(S) <= k
    BY <1>1, LeastIs
<1>3. PICK m \in S : \A k \in S : m <= k
    BY <1>2
<1>4. m \in Nat /\ ~ \E g : Begins(g, m)
    BY <1>3 DEF S
<1>5. CASE m = 0
    <2>1. Begins([k \in 0..0 |-> 1], 0)
        BY DEF Begins
    <2> QED
        BY <1>4, <1>5, <2>1
<1>6. CASE m # 0
    <2>1. m - 1 \in Nat /\ m - 1 \notin S
        BY <1>3, <1>4, <1>6
    <2>2. PICK g : Begins(g, m - 1)
        BY <2>1 DEF S
    <2> DEFINE h == [k \in 0..m |-> IF k = m THEN 2 * g[m - 1] ELSE g[k]]
    <2>3. g \in [0..m - 1 -> Nat] /\ g[0] = 1 /\ \A k \in 1..m - 1 : g[k] = 2 * g[k - 1]
        BY <2>2 DEF Begins
    <2>4. h \in [0..m -> Nat]
        BY <1>4, <1>6, <2>3
    <2>5. h[0] = 1
        BY <1>4, <1>6, <2>3
    <2>6. ASSUME NEW k \in 1..m PROVE h[k] = 2 * h[k - 1]
        BY <1>4, <1>6, <2>3
    <2> HIDE DEF h
    <2> QED
        BY <1>4, <2>4, <2>5, <2>6 DEF Begins
<1> QED
    BY <1>5, <1>6

LEMMA BeginsAgree ==
    ASSUME NEW n \in Nat, NEW m \in Nat, NEW g, NEW h, Begins(g, n), Begins(h, m),
           NEW k \in Nat, k <= n, k <= m
    PROVE  g[k] = h[k]
<1> DEFINE S == {j \in 0..k : g[j] # h[j]}
<1> SUFFICES ASSUME S # {} PROVE FALSE
    OBVIOUS
<1>1. S \in SUBSET Nat
    OBVIOUS
<1> HIDE DEF S
<1>2. Least(S) \in S /\ \A j \in S : Least(S) <= j
    BY <1>1, LeastIs
<1>3. PICK j \in S : \A i \in S : j <= i
    BY <1>2
<1>4. j \in 0..k /\ g[j] # h[j]
    BY <1>3 DEF S
<1>5. j # 0
    BY <1>4 DEF Begins
<1>6. j - 1 \in 0..k /\ j - 1 \notin S
    BY <1>3, <1>4, <1>5
<1>7. g[j - 1] = h[j - 1]
    BY <1>6 DEF S
<1>8. j \in 1..n /\ j \in 1..m
    BY <1>4, <1>5
<1>9. g[j] = 2 * g[j - 1] /\ h[j] = 2 * h[j - 1]
    BY <1>8 DEF Begins
<1> QED
    BY <1>4, <1>7, <1>9

LEMMA Pow2Is ==
    /\ Pow2 \in [Nat -> Nat] /\ Pow2[0] = 1
    /\ \A k \in Nat : Pow2[k + 1] = 2 * Pow2[k]
<1> DEFINE Beginning(n) == CHOOSE g : Begins(g, n)
           G == [k \in Nat |-> Beginning(k)[k]]
           Steps(g) == g = [k \in Nat |-> IF k = 0 THEN 1 ELSE 2 * g[k - 1]]
<1>1. \A n \in Nat : Begins(Beginning(n), n)
    BY BeginsExist
<1> HIDE DEF Beginning
<1>2. ASSUME NEW k \in Nat PROVE G[k] = IF k = 0 THEN 1 ELSE 2 * G[k - 1]
    <2>1. Begins(Beginning(k), k)
        BY <1>1
    <2>2. CASE k = 0
        BY <2>1, <2>2 DEF Begins
    <2>3. CASE k # 0
        <3>1. k - 1 \in Nat /\ k \in 1..k /\ k - 1 <= k /\ k - 1 <= k - 1
            BY <2>3
        <3>2. Beginning(k)[k] = 2 * Beginning(k)[k - 1]
            BY <2>1, <3>1 DEF Begins
        <3>3. Begins(Beginning(k - 1), k - 1)
            BY <1>1, <3>1
        <3>4. Beginning(k)[k - 1] = Beginning(k - 1)[k - 1]
            BY <2>1, <3>1, <3>3, BeginsAgree
        <3> QED
            BY <2>3, <3>1, <3>2, <3>4
    <2> QED
        BY <2>2, <2>3
<1>3. Steps(G)
    <2>1. G = [k \in Nat |-> G[k]]
        OBVIOUS
    <2> HIDE DEF G
    <2>2. [k \in Nat |-> G[k]] = [k \in Nat |-> IF k = 0 THEN 1 ELSE 2 * G[k - 1]]
        BY <1>2
    <2> QED
        BY <2>1, <2>2
<1>4. Pow2 = CHOOSE g : Steps(g)
    BY DEF Pow2
<1> HIDE DEF G
<1>5. Steps(Pow2)
    <2> HIDE DEF Steps
    <2> QED
        BY <1>3, <1>4
<1>6. \A k \in Nat : Pow2[k] = IF k = 0 THEN 1 ELSE 2 * Pow2[k - 1]
    BY <1>5
<1> DEFINE S == {k \in Nat : Pow2[k] \notin Nat}
<1>7. ASSUME S # {} PROVE FALSE
    <2>1. S \in SUBSET Nat
        OBVIOUS
    <2> HIDE DEF S
    <2>2. Least(S) \in S /\ \A k \in S : Least(S) <= k
        BY <1>7, <2>1, LeastIs
    <2>3. PICK m \in S : \A k \in S : m <= k
        BY <2>2
    <2>4. m \in Nat /\ Pow2[m] \notin Nat
        BY <2>3 DEF S
    <2>5. CASE m = 0
        BY <1>6, <2>4, <2>5
    <2>6. CASE m # 0
        <3>1. m - 1 \in Nat /\ m - 1 \notin S
            BY <2>3, <2>4, <2>6
        <3>2. Pow2[m - 1] \in Nat
            BY <3>1 DEF S
        <3> QED
            BY <1>6, <2>4, <2>6, <3>2
    <2> QED
        BY <2>5, <2>6
<1>8. \A k \in Nat : Pow2[k] \in Nat
    BY <1>7
<1>9. DOMAIN Pow2 = Nat /\ Pow2 = [k \in Nat |-> Pow2[k]]
    BY <1>5
<1>10. Pow2[0] = 1
    BY <1>6
<1>11. ASSUME NEW k \in Nat PROVE Pow2[k + 1] = 2 * Pow2[k]
    <2>1. k + 1 \in Nat /\ k + 1 # 0 /\ (k + 1) - 1 = k
        OBVIOUS
    <2> QED
        BY <1>6, <2>1
<1> QED
    BY <1>8, <1>9, <1>10, <1>11

----------------------------------------------------------------------------
(* Trees stay flat.  A rank is a bound on the height: it rises on the way  *)
(* up.  And it is paid for in members: the tree of a root of rank k is the *)
(* union of two that had rank k - 1.                                       *)

Tree(f, r) == {v \in Ids(f) : Find(f, v) = r}

Ranked(f) ==
    /\ f = [parent |-> f.parent, rank |-> f.rank]
    /\ Sound(f) /\ Ids(f) \subseteq Node
    /\ f.rank \in [Ids(f) -> Nat]
    /\ \A v \in Ids(f) : f.parent[v] # v => f.rank[v] < f.rank[f.parent[v]]
    /\ \A r \in Ids(f) : f.parent[r] = r => Pow2[f.rank[r]] <= Cardinality(Tree(f, r))

LEMMA TreeIs ==
    ASSUME NEW f, Sound(f), NEW r \in Ids(f), f.parent[r] = r
    PROVE  {v \in DOMAIN f.parent : r \in Path(f, v)} = Tree(f, r)
<1>1. Rooted(f, Roots(f)) /\ Roots(f)[r] = r
    BY DEF Sound, Rooted
<1>2. ASSUME NEW v \in Ids(f), r \in Path(f, v) PROVE Find(f, v) = r
    BY <1>1, <1>2, PathRoots DEF Roots
<1>3. ASSUME NEW v \in Ids(f), Find(f, v) = r PROVE r \in Path(f, v)
    BY <1>1, <1>3 DEF Roots, Rooted, Path, Ids
<1> QED
    BY <1>2, <1>3 DEF Tree, Ids

LEMMA TreesFinite ==
    ASSUME NEW f, Ids(f) \subseteq Node, NEW r
    PROVE  IsFiniteSet(Tree(f, r)) /\ Cardinality(Tree(f, r)) \in Nat
<1>1. Tree(f, r) \subseteq Node
    BY DEF Tree
<1> QED
    BY <1>1, ClusteringAssumption, FS_Subset, FS_CardinalityType

\* Not only the parent, but the root, has a greater rank.
LEMMA RanksRise ==
    ASSUME NEW f, Ranked(f), NEW v \in Ids(f), f.parent[v] # v
    PROVE  Find(f, v) \in Ids(f) /\ f.rank[v] < f.rank[Find(f, v)]
<1> DEFINE T == {x \in Ids(f) : f.rank[v] < f.rank[x]}
           R == Roots(f)
<1>1. Rooted(f, R) /\ f.rank \in [Ids(f) -> Nat]
    BY DEF Ranked, Sound
<1>2. \A x \in Ids(f) : f.parent[x] \in Ids(f) /\ (f.parent[x] # x => f.rank[x] < f.rank[f.parent[x]])
    BY <1>1 DEF Ranked, Rooted
<1>3. ASSUME NEW x \in T PROVE f.parent[x] \in T
    BY <1>1, <1>2
<1>4. T \in Upward(f) /\ f.parent[v] \in T
    BY <1>2, <1>3 DEF Upward, Ids
<1> HIDE DEF T
<1>5. R[f.parent[v]] \in T /\ R[f.parent[v]] = R[v]
    BY <1>1, <1>2, <1>4 DEF Rooted
<1> QED
    BY <1>5 DEF T, Roots

LEMMA AddRanked ==
    ASSUME NEW f, Ranked(f), NEW ids \in SUBSET Node
    PROVE  Ranked(Add(f, ids))
<1> DEFINE g == Add(f, ids)
<1>1. /\ Sound(g) /\ Ids(g) = Ids(f) \cup ids
      /\ \A v \in Ids(g) : Find(g, v) = IF v \in Ids(f) THEN Find(f, v) ELSE v
    BY AddSound DEF Ranked
<1>2. /\ g = [parent |-> g.parent, rank |-> g.rank]
      /\ g.parent = [v \in Ids(f) \cup ids |-> IF v \in Ids(f) THEN f.parent[v] ELSE v]
      /\ g.rank = [v \in Ids(f) \cup ids |-> IF v \in Ids(f) THEN f.rank[v] ELSE 0]
    BY DEF Add, Ids, Ranked
<1> HIDE DEF g
<1>3. g.rank \in [Ids(g) -> Nat] /\ Ids(g) \subseteq Node
    BY <1>1, <1>2 DEF Ranked
<1>4. f.parent \in [Ids(f) -> Ids(f)]
    BY DEF Ranked, Sound, Rooted
<1>5. ASSUME NEW v \in Ids(g), g.parent[v] # v PROVE g.rank[v] < g.rank[g.parent[v]]
    <2>1. v \in Ids(f) /\ g.parent[v] = f.parent[v] /\ f.parent[v] \in Ids(f)
        BY <1>1, <1>2, <1>4, <1>5
    <2> QED
        BY <1>1, <1>2, <1>5, <2>1 DEF Ranked
<1>6. ASSUME NEW r \in Ids(g), g.parent[r] = r PROVE Pow2[g.rank[r]] <= Cardinality(Tree(g, r))
    <2>1. CASE r \in Ids(f)
        <3>1. Tree(g, r) = Tree(f, r)
            BY <1>1, <2>1 DEF Tree
        <3>2. f.parent[r] = r /\ g.rank[r] = f.rank[r]
            BY <1>1, <1>2, <1>6, <2>1
        <3> QED
            BY <2>1, <3>1, <3>2 DEF Ranked
    <2>2. CASE r \notin Ids(f)
        <3>1. \A v \in Ids(f) : Find(f, v) \in Ids(f)
            BY FindIs DEF Ranked
        <3>2. Tree(g, r) = {r}
            BY <1>1, <2>2, <3>1 DEF Tree
        <3>3. Cardinality({r}) = 1
            BY FS_Singleton
        <3>4. g.rank[r] = 0
            BY <1>1, <1>2, <2>2
        <3> QED
            BY <3>2, <3>3, <3>4, Pow2Is
    <2> QED
        BY <2>1, <2>2
<1>7. Ranked(g)
    BY <1>1, <1>2, <1>3, <1>5, <1>6 DEF Ranked
<1> QED
    BY <1>7 DEF g

\* An id whose parent becomes its root skips ranks, and stays in its tree.
LEMMA CompressRanked ==
    ASSUME NEW f, Ranked(f), NEW v \in Ids(f)
    PROVE  Ranked(Compress(f, v))
<1> DEFINE g == Compress(f, v)
           R == Roots(f)
<1>1. Rooted(f, R) /\ Sound(f)
    BY DEF Ranked, Sound
<1>2. /\ Sound(g) /\ Ids(g) = Ids(f)
      /\ \A w \in Ids(f) : Find(g, w) = Find(f, w)
    BY <1>1, CompressSound
<1>3. /\ g = [parent |-> g.parent, rank |-> g.rank] /\ g.rank = f.rank
      /\ g.parent = [w \in Ids(f) |-> IF w \in Path(f, v) THEN Find(f, v) ELSE f.parent[w]]
    <2>1. f = [parent |-> f.parent, rank |-> f.rank]
        BY DEF Ranked
    <2> QED
        BY <2>1 DEF Compress, Ids
<1>4. \A w \in Path(f, v) : w \in Ids(f) /\ Find(f, w) = Find(f, v)
    BY <1>1, PathRoots DEF Roots
<1>5. /\ \A w \in Ids(f) : f.parent[w] = w => Find(f, w) = w
      /\ f.parent[Find(f, v)] = Find(f, v) /\ Find(f, v) \in Ids(f)
    BY <1>1, FindIs DEF Rooted, Roots
<1> HIDE DEF g
<1>6. ASSUME NEW w \in Ids(g), g.parent[w] # w PROVE g.rank[w] < g.rank[g.parent[w]]
    <2>1. CASE w \in Path(f, v)
        <3>1. g.parent[w] = Find(f, w) /\ f.parent[w] # w
            BY <1>2, <1>3, <1>4, <1>5, <1>6, <2>1
        <3> QED
            BY <1>2, <1>3, <3>1, RanksRise
    <2>2. CASE w \notin Path(f, v)
        BY <1>2, <1>3, <1>6, <2>2 DEF Ranked
    <2> QED
        BY <2>1, <2>2
<1>7. ASSUME NEW r \in Ids(g), g.parent[r] = r PROVE Pow2[g.rank[r]] <= Cardinality(Tree(g, r))
    <2>1. Tree(g, r) = Tree(f, r)
        BY <1>2 DEF Tree
    <2>2. f.parent[r] = r
        BY <1>2, <1>3, <1>5, <1>7
    <2> QED
        BY <1>2, <1>3, <2>1, <2>2 DEF Ranked
<1>8. Ranked(g)
    BY <1>2, <1>3, <1>6, <1>7 DEF Ranked
<1> QED
    BY <1>8 DEF g

\* The lower root goes under the higher; of two equal ones, the other rises.
LEMMA HangRanked ==
    ASSUME NEW f, Ranked(f), NEW low \in Ids(f), NEW high \in Ids(f), low # high,
           f.parent[low] = low, f.parent[high] = high, f.rank[low] <= f.rank[high]
    PROVE  Ranked(Hang(f, low, high))
<1> DEFINE g == Hang(f, low, high)
<1>1. /\ Sound(g) /\ Ids(g) = Ids(f)
      /\ \A w \in Ids(f) : Find(g, w) = IF Find(f, w) = low THEN high ELSE Find(f, w)
    BY HangSound DEF Ranked
<1>2. /\ f.parent \in [Ids(f) -> Ids(f)] /\ f.rank \in [Ids(f) -> Nat]
      /\ \A v \in Ids(f) : f.parent[v] # v => f.rank[v] < f.rank[f.parent[v]]
    BY DEF Ranked, Sound, Rooted
<1>3. /\ g = [parent |-> g.parent, rank |-> g.rank]
      /\ g.parent = [f.parent EXCEPT ![low] = high]
      /\ g.rank = [f.rank EXCEPT ![high] = IF @ = f.rank[low] THEN @ + 1 ELSE @]
    BY DEF Hang
<1> HIDE DEF g
<1>4. /\ \A v \in Ids(f) : g.parent[v] = IF v = low THEN high ELSE f.parent[v]
      /\ \A v \in Ids(f) : v # high => g.rank[v] = f.rank[v]
      /\ f.rank[low] \in Nat /\ f.rank[high] \in Nat
      /\ g.rank[high] = IF f.rank[high] = f.rank[low] THEN f.rank[high] + 1 ELSE f.rank[high]
    BY <1>2, <1>3
<1>5. f.rank[high] <= g.rank[high] /\ f.rank[low] < g.rank[high] /\ g.rank[high] \in Nat
    BY <1>4
<1>6. g.rank \in [Ids(g) -> Nat]
    BY <1>1, <1>2, <1>3, <1>4
<1>7. ASSUME NEW v \in Ids(g), g.parent[v] # v PROVE g.rank[v] < g.rank[g.parent[v]]
    <2>1. CASE v = low
        BY <1>4, <1>5, <2>1
    <2>2. CASE v # low
        <3>1. v \in Ids(f) /\ g.parent[v] = f.parent[v] /\ f.parent[v] \in Ids(f) /\ v # high
            BY <1>1, <1>2, <1>4, <1>7, <2>2
        <3>2. f.rank[v] \in Nat /\ f.rank[f.parent[v]] \in Nat /\ f.rank[v] < f.rank[f.parent[v]]
            BY <1>2, <1>7, <3>1
        <3>3. g.rank[v] = f.rank[v]
            BY <1>4, <3>1
        <3>4. CASE f.parent[v] = high
            BY <1>4, <1>5, <3>1, <3>2, <3>3, <3>4
        <3>5. CASE f.parent[v] # high
            BY <1>4, <3>1, <3>2, <3>3, <3>5
        <3> QED
            BY <3>4, <3>5
    <2> QED
        BY <2>1, <2>2
<1>8. /\ \A r : IsFiniteSet(Tree(f, r)) /\ Cardinality(Tree(f, r)) \in Nat
      /\ \A r \in Ids(f) : f.parent[r] = r => Pow2[f.rank[r]] <= Cardinality(Tree(f, r))
    BY TreesFinite DEF Ranked
<1>9. ASSUME NEW r \in Ids(g), g.parent[r] = r PROVE Pow2[g.rank[r]] <= Cardinality(Tree(g, r))
    <2>1. r \in Ids(f) /\ r # low /\ f.parent[r] = r
        BY <1>1, <1>4, <1>9
    <2>2. CASE r # high
        <3>1. Tree(g, r) = Tree(f, r)
            BY <1>1, <2>1, <2>2 DEF Tree
        <3> QED
            BY <1>4, <1>8, <2>1, <2>2, <3>1
    <2>3. CASE r = high
        <3>1. Tree(g, high) = Tree(f, low) \cup Tree(f, high)
            BY <1>1 DEF Tree
        <3>2. Tree(f, low) \cap Tree(f, high) = {}
            BY DEF Tree
        <3>3. Cardinality(Tree(g, high))
                = Cardinality(Tree(f, low)) + Cardinality(Tree(f, high)) - Cardinality({})
            BY <1>8, <3>1, <3>2, FS_Union
        <3>4. Cardinality({}) = 0
            BY FS_EmptySet
        <3> DEFINE l == Cardinality(Tree(f, low))
                   h == Cardinality(Tree(f, high))
                   k == f.rank[high]
        <3>5. l \in Nat /\ h \in Nat /\ Cardinality(Tree(g, high)) = l + h
            BY <1>8, <3>3, <3>4
        <3>6. Pow2[f.rank[low]] <= l /\ Pow2[k] <= h
            BY <1>8
        <3>7. Pow2[k] \in Nat /\ Pow2[k + 1] = 2 * Pow2[k]
            BY <1>4, Pow2Is
        <3> HIDE DEF l, h, k
        <3>8. CASE f.rank[high] = f.rank[low]
            <4>1. g.rank[high] = k + 1 /\ Pow2[k] <= l
                BY <1>4, <3>6, <3>8 DEF k
            <4>2. Pow2[k + 1] <= l + h
                BY <3>5, <3>6, <3>7, <4>1
            <4> QED
                BY <2>3, <3>5, <4>1, <4>2
        <3>9. CASE f.rank[high] # f.rank[low]
            <4>1. g.rank[high] = k
                BY <1>4, <3>9 DEF k
            <4>2. Pow2[k] <= l + h
                BY <3>5, <3>6, <3>7
            <4> QED
                BY <2>3, <3>5, <4>1, <4>2
        <3> QED
            BY <3>8, <3>9
    <2> QED
        BY <2>2, <2>3
<1>10. Ranked(g)
    BY <1>1, <1>3, <1>6, <1>7, <1>9 DEF Ranked
<1> QED
    BY <1>10 DEF g

LEMMA UnionRanked ==
    ASSUME NEW f, Ranked(f), NEW u \in Ids(f), NEW v \in Ids(f)
    PROVE  Ranked(Union(f, u, v))
<1> DEFINE h == Compress(f, u)
           g == Compress(h, v)
           ru == Find(g, u)
           rv == Find(g, v)
<1>1. Ranked(h) /\ Ids(h) = Ids(f)
    BY CompressRanked, CompressSound DEF Ranked
<1> HIDE DEF h
<1>2. Ranked(g) /\ Ids(g) = Ids(f)
    BY <1>1, CompressRanked, CompressSound DEF Ranked
<1> HIDE DEF g
<1>3. /\ ru \in Ids(g) /\ rv \in Ids(g) /\ g.parent[ru] = ru /\ g.parent[rv] = rv
    BY <1>2, FindIs DEF Ranked
<1>4. Union(f, u, v) = IF ru = rv THEN g
                       ELSE IF g.rank[ru] < g.rank[rv] THEN Hang(g, ru, rv) ELSE Hang(g, rv, ru)
    BY DEF Union, g, h
<1> HIDE DEF ru, rv
<1>5. g.rank[ru] \in Nat /\ g.rank[rv] \in Nat
    BY <1>2, <1>3 DEF Ranked
<1>6. CASE ru = rv
    BY <1>2, <1>4, <1>6
<1>7. CASE ru # rv /\ g.rank[ru] < g.rank[rv]
    BY <1>2, <1>3, <1>4, <1>5, <1>7, HangRanked
<1>8. CASE ru # rv /\ ~(g.rank[ru] < g.rank[rv])
    <2>1. g.rank[rv] <= g.rank[ru]
        BY <1>5, <1>8
    <2> QED
        BY <1>2, <1>3, <1>4, <1>8, <2>1, HangRanked
<1> QED
    BY <1>6, <1>7, <1>8

\* Every union-find is ranked; the routes without one leave them alone.
RankInv ==
    /\ DOMAIN forest = Partition \cup {Driver}
    /\ \A p \in Partition \cup {Driver} : Ranked(forest[p])
    /\ ~Parted => \A p \in Partition \cup {Driver} : todo[p] = {}

LEMMA RankInit == DInit => RankInv
<1> SUFFICES ASSUME DInit PROVE RankInv
    OBVIOUS
<1>1. /\ forest = [p \in Partition \cup {Driver} |-> EmptyForest]
      /\ todo = [p \in Partition \cup {Driver} |-> {e \in DOMAIN place : place[e] = p}]
      /\ place \in [IF Parted THEN edge ELSE {} -> Partition]
    BY DEF DInit
<1>2. Ranked(EmptyForest)
    BY EmptyForestSound DEF Ranked, EmptyForest, Ids
<1>3. ASSUME ~Parted, NEW p \in Partition \cup {Driver} PROVE todo[p] = {}
    BY <1>1, <1>3
<1> QED
    BY <1>1, <1>2, <1>3 DEF RankInv

\* The ends of what is still to be joined are ids of records.
LEMMA TodoEnds ==
    ASSUME IInv, RankInv, Parted, NEW p \in Partition \cup {Driver}, NEW e \in todo[p]
    PROVE  e \subseteq Node
<1>1. GraphInv /\ ForestInv
    BY DEF IInv
<1>2. CASE p \in Partition
    <2>1. e \in edge
        BY <1>1, <1>2 DEF ForestInv, LocalOK
    <2> QED
        BY <1>1, <2>1 DEF GraphInv, Pairs
<1>3. CASE p = Driver
    <2>1. DriverOK /\ merging /\ \A q \in Partition : LocalOK(q)
        BY <1>1, <1>3 DEF ForestInv, DriverOK
    <2>2. /\ e \in Boundary(rows) /\ rows = LocalRoots \cup {<<w, w>> : w \in Isolated}
          /\ Ids(forest[Driver]) = {x[2] : x \in rows}
        BY <1>3, <2>1 DEF DriverOK
    <2>3. e \subseteq Ids(forest[Driver])
        BY <1>1, <2>1, <2>2, BoundaryPairs
    <2> QED
        BY <2>3 DEF RankInv, Ranked
<1> QED
    BY <1>2, <1>3

LEMMA RankStep == IInv /\ RankInv /\ [DNext]_dvars => RankInv'
<1> SUFFICES ASSUME IInv, RankInv, [DNext]_dvars PROVE RankInv'
    OBVIOUS
<1> USE DEF RankInv
<1>1. ASSUME NEW p \in Partition \cup {Driver}, NEW e \in todo[p], Join(p, e) PROVE RankInv'
    <2>1. Parted
        BY <1>1
    <2>2. PICK u \in e, v \in e : forest' = [forest EXCEPT ![p] = Union(Add(@, e), u, v)]
        BY <1>1 DEF Join, UnionAt
    <2>3. e \in SUBSET Node
        BY <1>1, <2>1, TodoEnds
    <2>4. Ranked(Add(forest[p], e)) /\ Ids(Add(forest[p], e)) = Ids(forest[p]) \cup e
        BY <2>3, AddRanked, AddSound DEF Ranked
    <2>5. Ranked(Union(Add(forest[p], e), u, v))
        BY <2>4, UnionRanked
    <2>6. DOMAIN forest' = DOMAIN forest /\ \A q \in Partition \cup {Driver} : Ranked(forest'[q])
        BY <2>2, <2>5
    <2>7. Parted'
        BY <1>1, <2>1 DEF Join, Parted
    <2> QED
        BY <2>6, <2>7
<1>2. CASE BeginMerge
    <2>1. /\ Parted /\ Parted' /\ rows' = LocalRoots \cup {<<v, v>> : v \in Isolated}
          /\ forest' = [forest EXCEPT ![Driver] = Add(@, {x[2] : x \in rows'})]
        BY <1>2 DEF BeginMerge, Parted, Forests
    <2>2. GraphInv /\ \A p \in Partition : LocalOK(p)
        BY <2>1 DEF IInv, ForestInv
    <2>3. ASSUME NEW x \in rows' PROVE x[2] \in Node
        <3>1. CASE x \in LocalRoots
            <4>1. PICK p \in Partition : \E v \in Ids(forest[p]) : x = <<v, Find(forest[p], v)>>
                BY <3>1 DEF LocalRoots, Ids
            <4>2. PICK v \in Ids(forest[p]) : x = <<v, Find(forest[p], v)>>
                BY <4>1
            <4>3. Find(forest[p], v) \in Ids(forest[p])
                BY <2>2, FindIs DEF LocalOK
            <4> QED
                BY <4>2, <4>3 DEF Ranked
        <3>2. CASE x \in {<<v, v>> : v \in Isolated}
            BY <2>2, <3>2 DEF Isolated, GraphInv, Touched
        <3> QED
            BY <2>1, <2>3, <3>1, <3>2
    <2> DEFINE ids == {x[2] : x \in rows'}
    <2>4. ids \in SUBSET Node
        BY <2>3
    <2>5. forest' = [forest EXCEPT ![Driver] = Add(@, ids)]
        BY <2>1
    <2> HIDE DEF ids
    <2>6. Ranked(Add(forest[Driver], ids))
        BY <2>4, AddRanked
    <2> QED
        BY <2>1, <2>5, <2>6
<1>3. CASE Propagate \/ FallBack \/ Contract
    BY <1>3 DEF Propagate, FallBack, Contract, Parted, Rounds, Forests
<1>4. CASE Converge \/ RunOut \/ Contracted \/ LabelRows \/ LabelLocally
    BY <1>4 DEF Converge, RunOut, Contracted, LabelRows, LabelLocally, ReturnOne, Return, work, Parted
<1>5. CASE Answered \/ UNCHANGED dvars
    BY <1>5 DEF Answered, dvars, Parted
<1> QED
    BY <1>1, <1>2, <1>3, <1>4, <1>5 DEF DNext

\* For every graph and every order of the work, the ranks of every union-find
\* rise on the way up, and a root of rank k has 2^k members at least.
THEOREM TreesAlwaysFlat == DSpec => []TreesStayFlat
<1>1. RankInv => TreesStayFlat
    <2> SUFFICES ASSUME RankInv, NEW p \in Partition \cup {Driver}, NEW r \in DOMAIN forest[p].parent
                 PROVE  /\ forest[p].parent[r] # r => forest[p].rank[r] < forest[p].rank[forest[p].parent[r]]
                        /\ forest[p].parent[r] = r =>
                              Pow2[forest[p].rank[r]]
                                <= Cardinality({v \in DOMAIN forest[p].parent : r \in Path(forest[p], v)})
        BY DEF TreesStayFlat
    <2>1. Ranked(forest[p]) /\ r \in Ids(forest[p])
        BY DEF RankInv, Ids
    <2> QED
        BY <2>1, TreeIs DEF Ranked
<1> QED
    BY <1>1, RankInit, RankStep, InvHolds, PTL DEF DSpec
=============================================================================
