-------------------------- MODULE ClusterEditsProofs --------------------------
(***************************************************************************)
(* For every content, every score and every bound, the four properties of  *)
(* ClusterEdits.                                                           *)
(*                                                                         *)
(* Every step takes some clusters away and puts others in their place, at  *)
(* ids above all that stay (Replaced).  What the proofs carry along is     *)
(* that a cluster is whole: its members hang together by its pairs, where  *)
(* clusters keep them, and the pairs end at its members or at rows the     *)
(* stream found loose.  Whole is what lets a split lose nobody, and it     *)
(* survives a refused row, after which an id may be in two clusters.       *)
(* Before any edit clusters hang together by links as well (LinkInv).      *)
(***************************************************************************)
EXTENDS ClusterEdits, FiniteSetTheorems, WellFoundedInduction, FunctionTheorems, TLAPS

----------------------------------------------------------------------------
(* Least and greatest. *)

LEMMA LeastIs ==
    ASSUME NEW S \in SUBSET Nat, S # {}
    PROVE  Least(S) \in S /\ \A n \in S : Least(S) <= n
<1>1. PICK m \in S : \A n \in S : ~ (<<n, m>> \in OpToRel(<, Nat))
    BY NatLessThanWellFounded, WFMin
<1>2. ASSUME NEW n \in S, n < m PROVE FALSE
    <2>1. <<n, m>> \in Nat \X Nat
        OBVIOUS
    <2>2. <<n, m>>[1] < <<n, m>>[2]
        BY <1>2
    <2>3. <<n, m>> \in OpToRel(<, Nat)
        BY <2>1, <2>2, Zenon DEF OpToRel
    <2> QED
        BY <1>1, <2>3
<1>3. \A n \in S : m <= n
    BY <1>2
<1> QED
    BY <1>3 DEF Least

LEMMA GreatestIs ==
    ASSUME NEW S \in SUBSET Nat, S # {}, NEW b \in Nat, \A n \in S : n <= b
    PROVE  Greatest(S) \in S /\ \A n \in S : n <= Greatest(S)
<1> DEFINE T == {n \in Nat : \A s \in S : s <= n}
           m == Least(T)
<1>1. T # {} /\ T \in SUBSET Nat
    OBVIOUS
<1>2. m \in T /\ \A n \in T : m <= n
    BY <1>1, LeastIs
<1>3. ASSUME m \notin S PROVE FALSE
    <2>1. \A s \in S : s <= m - 1
        BY <1>2, <1>3
    <2>2. m - 1 \in T
        <3>1. PICK s \in S : s <= m - 1
            BY <2>1
        <3> QED
            BY <1>2, <2>1, <3>1
    <2> QED
        BY <1>2, <2>2
<1> HIDE DEF m
<1>4. m \in S /\ \A n \in S : n <= m
    BY <1>2, <1>3
<1> QED
    BY <1>4 DEF Greatest

----------------------------------------------------------------------------
(* Graphs. *)

LEMMA EndsIn ==
    ASSUME NEW edges, NEW S
    PROVE  Endpoints(edges) \subseteq S <=> \A e \in edges : e[1] \in S /\ e[2] \in S
BY DEF Endpoints

\* The rows that hang together with one are the least closed set it is in.
LEMMA TogetherIs ==
    ASSUME NEW ids, NEW edges, Endpoints(edges) \subseteq ids, NEW x \in ids
    PROVE  /\ x \in Together(x, ids, edges) /\ Together(x, ids, edges) \subseteq ids
           /\ Closed(Together(x, ids, edges), edges)
           /\ \A S \in SUBSET ids : x \in S /\ Closed(S, edges) => Together(x, ids, edges) \subseteq S
<1>1. \A e \in edges : e[1] \in ids /\ e[2] \in ids
    BY EndsIn
<1>2. Closed(Together(x, ids, edges), edges)
    BY <1>1 DEF Together, Closed
<1> QED
    BY <1>2 DEF Together

\* A set hangs together by the edges within it.
Connected(V, edges) ==
    \A S \in SUBSET V :
        S # {} /\ (\A e \in edges : e[1] \in V /\ e[2] \in V => (e[1] \in S <=> e[2] \in S)) => S = V

LEMMA ConnectedMore ==
    ASSUME NEW V, NEW edges, NEW more, Connected(V, edges),
           \A e \in edges : e[1] \in V /\ e[2] \in V => e \in more
    PROVE  Connected(V, more)
BY DEF Connected

\* Sets that hang together do so as one with a row that is linked to each.
LEMMA JoinConnected ==
    ASSUME NEW G, NEW x, NEW V, NEW edges,
           \A y : y \in V <=> y = x \/ \E U \in G : y \in U,
           \A U \in G : Connected(U, edges),
           \A U \in G : \E i \in U : <<i, x>> \in edges
    PROVE  Connected(V, edges)
<1> SUFFICES ASSUME NEW S \in SUBSET V, S # {},
                    \A e \in edges : e[1] \in V /\ e[2] \in V => (e[1] \in S <=> e[2] \in S)
             PROVE  S = V
    BY DEF Connected
<1>1. ASSUME NEW U \in G, S \cap U # {} PROVE U \subseteq S
    <2> DEFINE W == S \cap U
    <2>1. \A e \in edges : e[1] \in U /\ e[2] \in U => (e[1] \in W <=> e[2] \in W)
        OBVIOUS
    <2>2. Connected(U, edges) /\ W \in SUBSET U /\ W # {}
        BY <1>1
    <2> HIDE DEF W
    <2>3. W = U
        BY <2>1, <2>2 DEF Connected
    <2> QED
        BY <2>3 DEF W
<1>2. ASSUME NEW U \in G PROVE \E i \in U : i \in S <=> x \in S
    <2>1. PICK i \in U : <<i, x>> \in edges
        OBVIOUS
    <2>2. <<i, x>>[1] = i /\ <<i, x>>[2] = x /\ i \in V /\ x \in V
        OBVIOUS
    <2>3. i \in S <=> x \in S
        BY <2>1, <2>2
    <2> QED
        BY <2>3
<1>3. x \in S
    <2>1. PICK s \in S : s = x \/ \E U \in G : s \in U
        OBVIOUS
    <2>2. ASSUME NEW U \in G, s \in U PROVE x \in S
        <3>1. U \subseteq S
            BY <1>1, <2>2
        <3> QED
            BY <1>2, <3>1
    <2> QED
        BY <2>1, <2>2
<1>4. \A U \in G : U \subseteq S
    BY <1>1, <1>2, <1>3
<1> QED
    BY <1>3, <1>4

\* Any two rows that hang together hang together with the same rows.
LEMMA TogetherSame ==
    ASSUME NEW ids, NEW edges, Endpoints(edges) \subseteq ids, NEW x \in ids,
           NEW y \in Together(x, ids, edges)
    PROVE  Together(y, ids, edges) = Together(x, ids, edges)
<1> DEFINE T == Together(x, ids, edges)
           U == Together(y, ids, edges)
<1>1. /\ x \in T /\ T \subseteq ids /\ Closed(T, edges)
      /\ \A S \in SUBSET ids : x \in S /\ Closed(S, edges) => T \subseteq S
    BY TogetherIs
<1>2. /\ y \in U /\ U \subseteq ids /\ Closed(U, edges)
      /\ \A S \in SUBSET ids : y \in S /\ Closed(S, edges) => U \subseteq S
    BY <1>1, TogetherIs
<1>3. Closed(T \ U, edges)
    BY <1>1, <1>2 DEF Closed
<1> HIDE DEF T, U
<1>4. U \subseteq T
    BY <1>1, <1>2 DEF T
<1>5. x \in U
    BY <1>1, <1>2, <1>3, <1>4 DEF T
<1> QED
    BY <1>1, <1>2, <1>4, <1>5 DEF T, U

LEMMA TogetherConnected ==
    ASSUME NEW ids, NEW edges, Endpoints(edges) \subseteq ids, NEW x \in ids
    PROVE  Connected(Together(x, ids, edges), edges)
<1> DEFINE T == Together(x, ids, edges)
<1>1. /\ x \in T /\ T \subseteq ids /\ Closed(T, edges)
      /\ \A S \in SUBSET ids : x \in S /\ Closed(S, edges) => T \subseteq S
    BY TogetherIs
<1> HIDE DEF T
<1> SUFFICES ASSUME NEW S \in SUBSET T, S # {},
                    \A e \in edges : e[1] \in T /\ e[2] \in T => (e[1] \in S <=> e[2] \in S)
             PROVE  S = T
    BY DEF Connected, T
<1>2. Closed(S, edges) /\ Closed(T \ S, edges)
    BY <1>1 DEF Closed
<1>3. x \in S
    BY <1>1, <1>2
<1> QED
    BY <1>1, <1>2, <1>3

----------------------------------------------------------------------------
(* build_clusters. *)

Positive(c) == Of(c) # {} /\ \A r \in Of(c) : c.members[r] \in Nat \ {0}

\* A cluster that a split of it takes apart without losing anybody.
Whole(c, free) ==
    /\ Positive(c)
    /\ Endpoints(DOMAIN c.pairs) \subseteq Of(c) \cup free
    /\ keeps => Connected(Of(c), DOMAIN c.pairs)

\* The parts of a graph: each one hangs together, each id is in one.
LEMMA PartsAre ==
    ASSUME NEW ids, IsFiniteSet(ids), NEW edges, Endpoints(edges) \subseteq ids,
           NEW P \in Partings(ids, edges)
    PROVE  /\ IsFiniteSet(P)
           /\ \A T \in P : T # {} /\ T \subseteq ids /\ Connected(T, edges)
           /\ \A x \in ids : \E T \in P : x \in T
           /\ \A T, U \in P : T \cap U # {} => T = U
<1>1. PICK cut : P = Components(ids, edges \ cut)
    BY DEF Partings
<1> DEFINE E == edges \ cut
           T(x) == Together(x, ids, E)
<1>2. Endpoints(E) \subseteq ids
    <2>1. \A e \in edges : e[1] \in ids /\ e[2] \in ids
        BY EndsIn
    <2>2. \A e \in E : e[1] \in ids /\ e[2] \in ids
        BY <2>1
    <2> HIDE DEF E
    <2> QED
        BY <2>2, EndsIn
<1>3. \A e \in E : e \in edges
    OBVIOUS
<1> HIDE DEF E
<1>4. ASSUME NEW x \in ids
      PROVE  /\ x \in T(x) /\ T(x) \subseteq ids /\ \A y \in T(x) : T(y) = T(x)
             /\ Connected(T(x), edges)
    <2>1. Connected(T(x), E)
        BY <1>2, TogetherConnected
    <2> QED
        BY <1>2, <1>3, <2>1, TogetherIs, TogetherSame, ConnectedMore
<1>5. P = {T(x) : x \in ids}
    BY <1>1 DEF Components, E
<1> HIDE DEF T
<1>6. IsFiniteSet(P)
    <2>1. P \in SUBSET (SUBSET ids)
        BY <1>4, <1>5
    <2> QED
        BY <2>1, FS_SUBSET, FS_Subset
<1> QED
    BY <1>4, <1>5, <1>6

\* The clusters of a graph: its parts, each once, by pairs of the graph.
LEMMA BuildIs ==
    ASSUME NEW ids, IsFiniteSet(ids), NEW pairs, Endpoints(DOMAIN pairs) \subseteq ids,
           NEW subs \in Build(ids, pairs)
    PROVE  /\ Cardinality(DOMAIN subs) \in Nat /\ DOMAIN subs = 1..Cardinality(DOMAIN subs)
           /\ \A i \in DOMAIN subs :
                /\ \A free : Whole(subs[i], free)
                /\ Of(subs[i]) \subseteq ids /\ \A r \in Of(subs[i]) : subs[i].members[r] = 1
                /\ Endpoints(DOMAIN subs[i].pairs) \subseteq Of(subs[i])
                /\ Connected(Of(subs[i]), DOMAIN subs[i].pairs)
           /\ \A r \in ids : \E i \in DOMAIN subs : r \in Of(subs[i])
           /\ \A i, j \in DOMAIN subs : Of(subs[i]) \cap Of(subs[j]) # {} => i = j
<1> DEFINE edges == DOMAIN pairs
<1>1. PICK P \in Partings(ids, edges) :
        \E n \in Numberings(P, Components(ids, edges)) : subs = [i \in DOMAIN n |-> Part(n[i], pairs)]
    BY DEF Build
<1>2. PICK n \in Bijection(1..Cardinality(P), P) : subs = [i \in DOMAIN n |-> Part(n[i], pairs)]
    BY <1>1 DEF Numberings
<1>3. /\ IsFiniteSet(P)
      /\ \A T \in P : T # {} /\ T \subseteq ids /\ Connected(T, edges)
      /\ \A x \in ids : \E T \in P : x \in T
      /\ \A T, U \in P : T \cap U # {} => T = U
    BY PartsAre
<1>4. Cardinality(P) \in Nat
    BY <1>3, FS_CardinalityType
<1> DEFINE k == Cardinality(P)
<1>5. Cardinality(1..k) = k
    BY <1>4, FS_Interval
<1> HIDE DEF k
<1>6. /\ n \in [1..k -> P] /\ DOMAIN n = 1..k
      /\ \A i, j \in 1..k : n[i] = n[j] => i = j
      /\ \A T \in P : \E i \in 1..k : n[i] = T
    <2>1. n \in Bijection(1..k, P)
        BY <1>2 DEF k
    <2>2. n \in Injection(1..k, P) /\ n \in Surjection(1..k, P)
        BY <2>1 DEF Bijection
    <2>3. n \in [1..k -> P] /\ \A i, j \in 1..k : n[i] = n[j] => i = j
        BY <2>2 DEF Injection, IsInjective
    <2>4. \A T \in P : \E i \in 1..k : n[i] = T
        BY <2>2 DEF Surjection
    <2> QED
        BY <2>3, <2>4
<1>7. DOMAIN subs = 1..k
    BY <1>2, <1>6
<1>8. ASSUME NEW i \in 1..k
      PROVE  /\ \A free : Whole(subs[i], free)
             /\ Of(subs[i]) = n[i] /\ \A r \in Of(subs[i]) : subs[i].members[r] = 1
             /\ Endpoints(DOMAIN subs[i].pairs) \subseteq Of(subs[i])
             /\ Connected(Of(subs[i]), DOMAIN subs[i].pairs)
    <2> DEFINE T == n[i]
               within == Inside(T, edges)
               c == Part(T, pairs)
    <2>1. T \in P /\ T # {} /\ Connected(T, edges)
        BY <1>3, <1>6
    <2>2. \A e \in within : e[1] \in T /\ e[2] \in T
        BY DEF Inside
    <2>3. \A e \in edges : e[1] \in T /\ e[2] \in T => e \in within
        BY DEF Inside
    <2>4. c = [members |-> [r \in T |-> 1], pairs |-> [e \in within |-> pairs[e]]]
        BY DEF Part, Cluster, Once
    <2>5. subs[i] = c
        BY <1>2, <1>6
    <2> HIDE DEF T, within, c
    <2>6. Of(c) = T /\ (\A r \in T : c.members[r] = 1) /\ DOMAIN c.pairs = within
        BY <2>4 DEF Of
    <2>7. Connected(T, within)
        BY <2>1, <2>3, ConnectedMore
    <2>8. Endpoints(within) \subseteq T
        BY <2>2, EndsIn
    <2>9. \A free : Whole(c, free)
        BY <2>1, <2>6, <2>7, <2>8 DEF Whole, Positive
    <2> QED
        BY <2>5, <2>6, <2>7, <2>8, <2>9 DEF T
<1>9. \A r \in ids : \E i \in 1..k : r \in n[i]
    BY <1>3, <1>6
<1>10. \A i, j \in 1..k : n[i] \cap n[j] # {} => i = j
    BY <1>3, <1>6
<1>11. \A i \in 1..k : n[i] \subseteq ids
    BY <1>3, <1>6
<1>12. k \in Nat
    BY <1>4 DEF k
<1> QED
    BY <1>5, <1>7, <1>8, <1>9, <1>10, <1>11, <1>12

----------------------------------------------------------------------------
(* The invariant. *)

TypeInv ==
    /\ frame \in Seq(Content) /\ loose \subseteq DOMAIN frame
    /\ refused \in BOOLEAN /\ edits \in Nat
    /\ \E b \in Nat : DOMAIN clusters \subseteq 1..b

WholeInv == \A cid \in DOMAIN clusters : Whole(clusters[cid], loose)

\* An id the frame has not given a row yet is in a cluster only after a refusal.
IdsInv ==
    \A cid \in DOMAIN clusters :
        /\ Of(clusters[cid]) \subseteq 1..Len(frame) + 1
        /\ ~refused => Of(clusters[cid]) \subseteq 1..Len(frame)

HeldInv == \A r \in DOMAIN frame \ loose : \E cid \in DOMAIN clusters : r \in Of(clusters[cid])

OneInv ==
    ~refused =>
        \A r \in DOMAIN frame \ loose : \A i, j \in DOMAIN clusters :
            r \in Of(clusters[i]) /\ r \in Of(clusters[j]) => i = j /\ clusters[i].members[r] = 1

\* Before any edit the ends of a link are in one cluster, which hangs together by links.
LinkInv ==
    loose = {} /\ ~refused /\ edits = 0 =>
        /\ \A e \in links : \E cid \in DOMAIN clusters : e[1] \in Of(clusters[cid]) /\ e[2] \in Of(clusters[cid])
        /\ \A cid \in DOMAIN clusters : Connected(Of(clusters[cid]), links)

PlacesInv == TypeInv /\ WholeInv /\ IdsInv /\ HeldInv /\ OneInv
IInv == PlacesInv /\ LinkInv

----------------------------------------------------------------------------
(* What every step does. *)

LEMMA UpdatedIs ==
    ASSUME NEW f, NEW g
    PROVE  /\ DOMAIN Updated(f, g) = DOMAIN f \cup DOMAIN g
           /\ \A x \in DOMAIN g : Updated(f, g)[x] = g[x]
           /\ \A x \in DOMAIN f \ DOMAIN g : Updated(f, g)[x] = f[x]
BY DEF Updated

LEMMA WithoutIs ==
    ASSUME NEW cs, NEW gone
    PROVE  /\ DOMAIN Without(cs, gone) = DOMAIN cs \ gone
           /\ \A cid \in DOMAIN cs \ gone : Without(cs, gone)[cid] = cs[cid]
BY DEF Without

LEMMA NextIdIs ==
    ASSUME NEW cs, NEW b \in Nat, DOMAIN cs \subseteq 1..b
    PROVE  NextId(cs) \in Nat \ {0} /\ \A cid \in DOMAIN cs : cid \in Nat /\ cid < NextId(cs)
<1> DEFINE S == DOMAIN cs \cup {0}
<1>1. S \in SUBSET Nat /\ 0 \in S /\ \A n \in S : n <= b
    OBVIOUS
<1> HIDE DEF S
<1>2. Greatest(S) \in S /\ \A n \in S : n <= Greatest(S)
    BY <1>1, GreatestIs
<1>3. NextId(cs) = Greatest(S) + 1
    BY DEF NextId, S
<1>4. ASSUME NEW g \in Nat, \A n \in S : n <= g
      PROVE  g + 1 \in Nat \ {0} /\ \A n \in S : n \in Nat /\ n < g + 1
    <2>1. \A n \in S : n \in Nat
        BY <1>1
    <2> QED
        BY <1>4, <2>1
<1>5. NextId(cs) \in Nat \ {0} /\ \A n \in S : n \in Nat /\ n < NextId(cs)
    BY <1>1, <1>2, <1>3, <1>4
<1>6. \A cid \in DOMAIN cs : cid \in S
    BY DEF S
<1> QED
    BY <1>5, <1>6

\* The clusters gone make way for those with the ids news; the others stay.
Replaced(gone, news) ==
    /\ gone \subseteq DOMAIN clusters
    /\ DOMAIN clusters' = (DOMAIN clusters \ gone) \cup news
    /\ \E b \in Nat : news \subseteq 1..b
    /\ news \cap (DOMAIN clusters \ gone) = {}
    /\ \A cid \in DOMAIN clusters \ gone : clusters'[cid] = clusters[cid]

LEMMA UpdateReplaces ==
    ASSUME TypeInv, NEW gone \in SUBSET DOMAIN clusters, NEW new, NEW b \in Nat,
           DOMAIN new \subseteq NextId(Without(clusters, gone))..b,
           clusters' = Updated(Without(clusters, gone), new)
    PROVE  /\ Replaced(gone, DOMAIN new)
           /\ \A cid \in DOMAIN new : clusters'[cid] = new[cid]
<1> DEFINE rest == Without(clusters, gone)
           next == NextId(rest)
<1>1. PICK a \in Nat : DOMAIN clusters \subseteq 1..a
    BY DEF TypeInv
<1>2. DOMAIN rest = DOMAIN clusters \ gone /\ \A cid \in DOMAIN clusters \ gone : rest[cid] = clusters[cid]
    BY WithoutIs
<1> HIDE DEF rest
<1>3. next \in Nat \ {0} /\ \A cid \in DOMAIN rest : cid \in Nat /\ cid < next
    BY <1>1, <1>2, NextIdIs
<1> HIDE DEF next
<1>4. DOMAIN new \subseteq next..b
    BY DEF rest, next
<1>5. DOMAIN new \cap DOMAIN rest = {}
    BY <1>3, <1>4
<1>6. /\ DOMAIN clusters' = DOMAIN rest \cup DOMAIN new
      /\ \A cid \in DOMAIN new : clusters'[cid] = new[cid]
      /\ \A cid \in DOMAIN rest \ DOMAIN new : clusters'[cid] = rest[cid]
    <2> DEFINE all == Updated(rest, new)
    <2>1. clusters' = all
        BY DEF rest
    <2>2. /\ DOMAIN all = DOMAIN rest \cup DOMAIN new
          /\ \A cid \in DOMAIN new : all[cid] = new[cid]
          /\ \A cid \in DOMAIN rest \ DOMAIN new : all[cid] = rest[cid]
        BY UpdatedIs
    <2> HIDE DEF all
    <2> QED
        BY <2>1, <2>2
<1>7. DOMAIN new \subseteq 1..b
    BY <1>3, <1>4
<1> QED
    BY <1>2, <1>5, <1>6, <1>7 DEF Replaced

\* How a step goes on with the ids of rows: a steward's gives none, a record's
\* gives one, and the frame keeps or refuses it.
Arrives(ids) ==
    \/ ids = {} /\ frame' = frame /\ refused' = refused
    \/ ids = {NewId} /\ refused' = refused /\ \E c \in Content : frame' = Append(frame, c)
    \/ ids = {NewId} /\ refused' = TRUE /\ frame' = frame

\* What the new clusters have to be like for the invariant to survive.
Fits(gone, news, ids) ==
    /\ \A cid \in news :
        /\ Whole(clusters'[cid], loose)
        /\ \A r \in Of(clusters'[cid]) :
            r \in ids \/ r \in loose \/ \E g \in gone : r \in Of(clusters[g])
    /\ \A r \in ids : \E cid \in news : r \in Of(clusters'[cid])
    /\ \A g \in gone : \A r \in Of(clusters[g]) : \E cid \in news : r \in Of(clusters'[cid])
    /\ ~refused => \A r : r \notin loose => \A i, j \in news :
            r \in Of(clusters'[i]) /\ r \in Of(clusters'[j]) => i = j /\ clusters'[i].members[r] = 1

\* The ids of rows, and those of rows or of the next record, before and after a step.
Now == 1..Len(frame)
Soon == 1..Len(frame) + 1

LEMMA FrameArrives ==
    ASSUME TypeInv, NEW ids, Arrives(ids)
    PROVE  /\ DOMAIN frame = Now /\ Soon = Now \cup {NewId} /\ NewId \notin Now
           /\ frame' \in Seq(Content) /\ DOMAIN frame' = Now'
           /\ \/ ids = {} /\ Now' = Now /\ Soon' = Soon /\ refused' = refused
              \/ ids = {NewId} /\ Now' = Soon /\ Soon \subseteq Soon' /\ refused' = refused
              \/ ids = {NewId} /\ Now' = Now /\ Soon' = Soon /\ refused' = TRUE
<1>1. Len(frame) \in Nat /\ DOMAIN frame = 1..Len(frame) /\ frame \in Seq(Content)
    BY DEF TypeInv
<1>2. ASSUME NEW c \in Content, frame' = Append(frame, c)
      PROVE  frame' \in Seq(Content) /\ Len(frame') = Len(frame) + 1
    BY <1>1, <1>2
<1>3. frame' \in Seq(Content) => Len(frame') \in Nat /\ DOMAIN frame' = 1..Len(frame')
    OBVIOUS
<1>4. \A n \in Nat : 1..n + 1 = (1..n) \cup {n + 1} /\ n + 1 \notin 1..n /\ 1..n + 1 \subseteq 1..(n + 1) + 1
    OBVIOUS
<1>5. Soon = Now \cup {NewId} /\ NewId \notin Now
    BY <1>1, <1>4 DEF Soon, Now, NewId
<1>6. CASE ids = {NewId} /\ refused' = refused /\ \E c \in Content : frame' = Append(frame, c)
    <2>1. frame' \in Seq(Content) /\ Len(frame') = Len(frame) + 1
        BY <1>2, <1>6
    <2>2. Now' = Soon /\ Soon \subseteq Soon'
        BY <1>1, <1>4, <2>1 DEF Now, Soon
    <2> QED
        BY <1>1, <1>3, <1>5, <1>6, <2>1, <2>2 DEF Now
<1>7. CASE frame' = frame
    <2>1. Now' = Now /\ Soon' = Soon /\ frame' \in Seq(Content) /\ DOMAIN frame' = Now'
        BY <1>1, <1>7 DEF Now, Soon
    <2>2. CASE ids = {} /\ refused' = refused
        BY <1>1, <1>5, <2>1, <2>2 DEF Now
    <2>3. CASE ids = {NewId} /\ refused' = TRUE
        BY <1>1, <1>5, <2>1, <2>3 DEF Now
    <2>4. CASE \E c \in Content : frame' = Append(frame, c)
        BY <1>2, <1>7, <2>4, <1>1
    <2> QED
        BY <2>2, <2>3, <2>4 DEF Arrives
<1> QED
    BY <1>6, <1>7 DEF Arrives

LEMMA PlacesStep ==
    ASSUME PlacesInv, NEW gone, NEW news, NEW ids, Replaced(gone, news), Fits(gone, news, ids),
           Arrives(ids), UNCHANGED <<keeps, loose>>, edits' \in Nat
    PROVE  PlacesInv'
<1> USE DEF PlacesInv
<1>1. /\ DOMAIN frame = Now /\ Soon = Now \cup {NewId} /\ NewId \notin Now
      /\ frame' \in Seq(Content) /\ DOMAIN frame' = Now'
      /\ \/ ids = {} /\ Now' = Now /\ Soon' = Soon /\ refused' = refused
         \/ ids = {NewId} /\ Now' = Soon /\ Soon \subseteq Soon' /\ refused' = refused
         \/ ids = {NewId} /\ Now' = Now /\ Soon' = Soon /\ refused' = TRUE
    BY FrameArrives
<1>2. /\ gone \subseteq DOMAIN clusters
      /\ DOMAIN clusters' = (DOMAIN clusters \ gone) \cup news
      /\ \A cid \in DOMAIN clusters \ gone : clusters'[cid] = clusters[cid]
    BY DEF Replaced
<1>3. refused \in BOOLEAN
    BY DEF TypeInv
<1>4. TypeInv'
    <2>1. PICK a \in Nat : DOMAIN clusters \subseteq 1..a
        BY DEF TypeInv
    <2>2. PICK b \in Nat : news \subseteq 1..b
        BY DEF Replaced
    <2>3. a + b \in Nat /\ 1..a \subseteq 1..a + b /\ 1..b \subseteq 1..a + b
        OBVIOUS
    <2>4. DOMAIN clusters' \subseteq 1..a + b
        BY <1>2, <2>1, <2>2, <2>3
    <2>5. loose' \subseteq DOMAIN frame' /\ refused' \in BOOLEAN
        BY <1>1, <1>3 DEF TypeInv
    <2> QED
        BY <1>1, <2>3, <2>4, <2>5 DEF TypeInv
<1>5. WholeInv'
    BY <1>2 DEF WholeInv, Fits, Whole
<1>6. IdsInv'
    <2> SUFFICES ASSUME NEW cid \in DOMAIN clusters', NEW r \in Of(clusters'[cid])
                 PROVE  r \in Soon' /\ (~refused' => r \in Now')
        BY DEF IdsInv, Soon, Now
    <2>1. CASE cid \in DOMAIN clusters \ gone
        <3>1. r \in Soon /\ (~refused => r \in Now)
            BY <1>2, <2>1 DEF IdsInv, Soon, Now
        <3> QED
            BY <1>1, <1>3, <3>1
    <2>2. CASE cid \in news
        <3>1. r \in ids \/ r \in loose \/ \E g \in gone : r \in Of(clusters[g])
            BY <2>2 DEF Fits
        <3>2. r \in loose => r \in Now
            BY <1>1 DEF TypeInv
        <3>3. (\E g \in gone : r \in Of(clusters[g])) =>
                r \in Soon /\ (~refused => r \in Now)
            BY <1>2 DEF IdsInv, Soon, Now
        <3> QED
            BY <1>1, <1>3, <3>1, <3>2, <3>3
    <2> QED
        BY <1>2, <2>1, <2>2
<1>7. HeldInv'
    <2> SUFFICES ASSUME NEW r \in DOMAIN frame' \ loose
                 PROVE  \E cid \in DOMAIN clusters' : r \in Of(clusters'[cid])
        BY DEF HeldInv
    <2>1. r \in ids \/ r \in DOMAIN frame
        BY <1>1, <1>3
    <2>2. CASE r \in ids
        BY <1>2, <2>2 DEF Fits
    <2>3. CASE r \in DOMAIN frame
        <3>1. PICK cid \in DOMAIN clusters : r \in Of(clusters[cid])
            BY <2>3 DEF HeldInv
        <3> QED
            BY <1>2, <3>1 DEF Fits
    <2> QED
        BY <2>1, <2>2, <2>3
<1>8. OneInv'
    <2> SUFFICES ASSUME ~refused', NEW r \in DOMAIN frame' \ loose,
                        NEW i \in DOMAIN clusters', NEW j \in DOMAIN clusters',
                        r \in Of(clusters'[i]), r \in Of(clusters'[j])
                 PROVE  i = j /\ clusters'[i].members[r] = 1
        BY DEF OneInv
    <2>1. ~refused /\ NewId \notin Now
        BY <1>1, <1>3
    <2>2. r \in ids \/ r \in DOMAIN frame
        BY <1>1, <1>3
    <2>3. ASSUME NEW cid \in DOMAIN clusters, r \in Of(clusters[cid]) PROVE r \in DOMAIN frame \ loose
        BY <1>1, <2>1, <2>3 DEF IdsInv, Now
    <2>4. ASSUME NEW k \in DOMAIN clusters \ gone, NEW m \in news, r \in Of(clusters'[k]), r \in Of(clusters'[m])
          PROVE  FALSE
        <3>1. r \in Of(clusters[k])
            BY <1>2, <2>4
        <3>2. r \notin ids
            BY <1>1, <2>1, <2>3, <3>1
        <3>3. PICK g \in gone : r \in Of(clusters[g])
            BY <2>4, <3>2 DEF Fits
        <3> QED
            BY <1>2, <2>1, <2>3, <3>1, <3>3 DEF OneInv
    <2>5. CASE i \in news /\ j \in news
        BY <2>1, <2>5 DEF Fits
    <2>6. CASE i \in DOMAIN clusters \ gone /\ j \in DOMAIN clusters \ gone
        BY <1>2, <2>1, <2>3, <2>6 DEF OneInv
    <2> QED
        BY <1>2, <2>4, <2>5, <2>6
<1> QED
    BY <1>4, <1>5, <1>6, <1>7, <1>8

----------------------------------------------------------------------------
(* A record arrives. *)

\* The clusters gone and the next record become the cluster cid, by the pairs
\* of the record with rows and those the clusters had.
Joins(c, gone, cid, rows) ==
    /\ Replaced(gone, {cid})
    /\ \A r : r \in Of(clusters'[cid]) <=> r = NewId \/ \E g \in gone : r \in Of(clusters[g])
    /\ \A r \in Of(clusters'[cid]) : clusters'[cid].members[r] \in Nat \ {0}
    /\ ~refused => \A r \in Of(clusters'[cid]) \ loose : clusters'[cid].members[r] = 1
    /\ \A p : p \in DOMAIN clusters'[cid].pairs <=>
                (\E g \in gone : p \in DOMAIN clusters[g].pairs) \/ (\E i \in rows : p = <<i, NewId>>)
    /\ \A g \in gone : \E i \in rows : i \in Of(clusters[g])
    /\ \A i \in rows : i \in loose \/ \E g \in gone : i \in Of(clusters[g])
    /\ rows \subseteq Matches(c)
    /\ loose = {} => rows = Matches(c)

\* The record hangs on to each of the clusters by a pair with a member.
LEMMA JoinsFits ==
    ASSUME PlacesInv, NEW c, NEW gone, NEW cid, NEW rows, Joins(c, gone, cid, rows)
    PROVE  Fits(gone, {cid}, {NewId})
<1> DEFINE new == clusters'[cid]
           V == Of(new)
<1>1. gone \subseteq DOMAIN clusters
    BY DEF Joins, Replaced
<1>2. \A r : r \in V <=> r = NewId \/ \E g \in gone : r \in Of(clusters[g])
    BY DEF Joins
<1>3. \A p : p \in DOMAIN new.pairs <=>
                (\E g \in gone : p \in DOMAIN clusters[g].pairs) \/ (\E i \in rows : p = <<i, NewId>>)
    BY DEF Joins
<1>4. \A g \in gone : Whole(clusters[g], loose)
    BY <1>1 DEF PlacesInv, WholeInv
<1>5. Positive(new)
    BY <1>2 DEF Positive, Joins
<1> HIDE DEF new, V
<1>6. ASSUME NEW p \in DOMAIN new.pairs PROVE p[1] \in V \cup loose /\ p[2] \in V \cup loose
    <2>1. CASE \E g \in gone : p \in DOMAIN clusters[g].pairs
        <3>1. PICK g \in gone : p \in DOMAIN clusters[g].pairs
            BY <2>1
        <3>2. Endpoints(DOMAIN clusters[g].pairs) \subseteq Of(clusters[g]) \cup loose
            BY <1>4 DEF Whole
        <3>3. p[1] \in Of(clusters[g]) \cup loose /\ p[2] \in Of(clusters[g]) \cup loose
            BY <3>1, <3>2, EndsIn
        <3> QED
            BY <1>2, <3>3
    <2>2. CASE \E i \in rows : p = <<i, NewId>>
        <3>1. PICK i \in rows : p = <<i, NewId>>
            BY <2>2
        <3>2. p[1] = i /\ p[2] = NewId
            BY <3>1
        <3>3. i \in loose \/ \E g \in gone : i \in Of(clusters[g])
            BY DEF Joins
        <3> QED
            BY <1>2, <3>2, <3>3
    <2> QED
        BY <1>3, <2>1, <2>2
<1>7. Endpoints(DOMAIN new.pairs) \subseteq V \cup loose
    BY <1>6, EndsIn
<1>8. ASSUME keeps PROVE Connected(V, DOMAIN new.pairs)
    <2> DEFINE edges == DOMAIN new.pairs
               G == {Of(clusters[g]) : g \in gone}
    <2>1. ASSUME NEW g \in gone PROVE Connected(Of(clusters[g]), edges)
        <3>1. Connected(Of(clusters[g]), DOMAIN clusters[g].pairs)
            BY <1>4, <1>8 DEF Whole
        <3>2. \A p \in DOMAIN clusters[g].pairs : p \in edges
            BY <1>3
        <3> HIDE DEF edges
        <3> QED
            BY <3>1, <3>2, ConnectedMore
    <2>2. ASSUME NEW g \in gone PROVE \E i \in Of(clusters[g]) : <<i, NewId>> \in edges
        BY <1>3 DEF Joins
    <2> HIDE DEF edges
    <2>3. /\ \A y : y \in V <=> y = NewId \/ \E U \in G : y \in U
          /\ \A U \in G : Connected(U, edges)
          /\ \A U \in G : \E i \in U : <<i, NewId>> \in edges
        BY <1>2, <2>1, <2>2
    <2> HIDE DEF G
    <2>4. Connected(V, edges)
        BY <2>3, JoinConnected
    <2> QED
        BY <2>4 DEF edges
<1>9. Whole(new, loose)
    BY <1>5, <1>7, <1>8 DEF Whole, V
<1>10. ~refused => \A r : r \notin loose /\ r \in Of(new) => new.members[r] = 1
    BY DEF Joins, new
<1> QED
    BY <1>2, <1>9, <1>10 DEF Fits, new, V

\* Sets of copies are finite, and what is listed is listed at least once.
LEMMA CopiesFinite ==
    ASSUME NEW S, IsFiniteSet(S), NEW n, \A x \in S : n[x] \in Nat
    PROVE  IsFiniteSet(UNION {{x} \X (1..n[x]) : x \in S})
<1> DEFINE f == [x \in S |-> {x} \X (1..n[x])]
<1>1. f \in Surjection(S, Range(f))
    <2>1. f \in [S -> Range(f)]
        BY DEF Range
    <2> QED
        BY <2>1 DEF Surjection, Range
<1>2. IsFiniteSet(Range(f))
    BY <1>1, FS_Surjection
<1>3. ASSUME NEW x \in S PROVE IsFiniteSet(f[x])
    <2>1. f[x] = {x} \X (1..n[x]) /\ n[x] \in Int /\ 1 \in Int
        OBVIOUS
    <2>2. IsFiniteSet({x}) /\ IsFiniteSet(1..n[x])
        BY <2>1, FS_Singleton, FS_Interval
    <2> QED
        BY <2>1, <2>2, FS_Product
<1>4. \A T \in Range(f) : IsFiniteSet(T)
    BY <1>3 DEF Range
<1>5. IsFiniteSet(UNION Range(f))
    BY <1>2, <1>4, FS_UNION
<1>6. Range(f) = {{x} \X (1..n[x]) : x \in S}
    BY DEF Range
<1> QED
    BY <1>5, <1>6

LEMMA ListedIs ==
    ASSUME NEW members, NEW id, \A r \in DOMAIN members : members[r] \in Nat \ {0}
    PROVE  /\ DOMAIN Listed(members, id) = DOMAIN members \cup {id}
           /\ \A r \in DOMAIN members \cup {id} : Listed(members, id)[r] \in Nat \ {0}
           /\ \A r \in DOMAIN members : r # id => Listed(members, id)[r] = members[r]
           /\ id \notin DOMAIN members => Listed(members, id)[id] = 1
BY DEF Listed

LEMMA LastIs ==
    ASSUME PlacesInv, NEW r, Holding(clusters, r) # {}
    PROVE  Last(r) \in DOMAIN clusters /\ r \in Of(clusters[Last(r)])
<1>1. PICK b \in Nat : DOMAIN clusters \subseteq 1..b
    BY DEF PlacesInv, TypeInv
<1>2. Holding(clusters, r) \in SUBSET Nat /\ \A n \in Holding(clusters, r) : n <= b
    BY <1>1 DEF Holding
<1>3. Last(r) \in Holding(clusters, r)
    BY <1>2, GreatestIs DEF Last
<1> QED
    BY <1>3 DEF Holding

LEMMA MatchedIs ==
    ASSUME PlacesInv, NEW c
    PROVE  /\ Matched(c) \subseteq DOMAIN clusters
           /\ \A g \in Matched(c) : \E i \in Matches(c) :
                Holding(clusters, i) # {} /\ Last(i) = g /\ i \in Of(clusters[g])
           /\ \A i \in Matches(c) :
                \/ i \in loose /\ Holding(clusters, i) = {}
                \/ Holding(clusters, i) # {} /\ Last(i) \in Matched(c) /\ i \in Of(clusters[Last(i)])
<1>1. \A i \in Matches(c) : Holding(clusters, i) # {} =>
            Last(i) \in DOMAIN clusters /\ i \in Of(clusters[Last(i)])
    BY LastIs
<1>2. \A i \in Matches(c) : Holding(clusters, i) = {} => i \in loose
    BY DEF PlacesInv, HeldInv, Matches, Holding
<1>3. \A g : g \in Matched(c) <=> \E i \in Matches(c) : Holding(clusters, i) # {} /\ Last(i) = g
    BY DEF Matched
<1> QED
    BY <1>1, <1>2, <1>3

LEMMA NewPairsIs ==
    ASSUME NEW c, NEW ids
    PROVE  \A p : p \in DOMAIN NewPairs(c, ids) <=> \E i \in ids : p = <<i, NewId>>
BY DEF NewPairs

LEMMA AloneJoins ==
    ASSUME PlacesInv, NEW c, Matched(c) = {}, AddAlone
    PROVE  Joins(c, {}, NextId(clusters), {})
<1> DEFINE next == NextId(clusters)
           new == [cid \in {next} |-> Cluster(Once({NewId}), None)]
<1>1. PICK b \in Nat : DOMAIN clusters \subseteq 1..b
    BY DEF PlacesInv, TypeInv
<1>2. next \in Nat \ {0} /\ \A cid \in DOMAIN clusters : cid \in Nat /\ cid < next
    BY <1>1, NextIdIs
<1> HIDE DEF next
<1>3. next \notin DOMAIN clusters /\ {next} \subseteq 1..next
    BY <1>2
<1>4. clusters' = Updated(clusters, new)
    BY DEF AddAlone, next
<1>5. DOMAIN new = {next} /\ new[next] = Cluster(Once({NewId}), None)
    OBVIOUS
<1> HIDE DEF new
<1>6. /\ DOMAIN clusters' = DOMAIN clusters \cup {next}
      /\ clusters'[next] = Cluster(Once({NewId}), None)
      /\ \A cid \in DOMAIN clusters : clusters'[cid] = clusters[cid]
    BY <1>3, <1>4, <1>5 DEF Updated
<1>7. Replaced({}, {next})
    BY <1>2, <1>3, <1>6 DEF Replaced
<1>8. /\ Of(clusters'[next]) = {NewId} /\ clusters'[next].members[NewId] = 1
      /\ DOMAIN clusters'[next].pairs = {}
    BY <1>6 DEF Cluster, Once, Of, None
<1>9. loose = {} => Matches(c) = {}
    BY MatchedIs
<1> QED
    BY <1>7, <1>8, <1>9 DEF Joins, next

LEMMA ToJoins ==
    ASSUME PlacesInv, NEW c, NEW cid, Matched(c) = {cid}, AddTo(c, cid)
    PROVE  Joins(c, {cid}, cid, Here(c, cid))
<1> DEFINE old == clusters[cid]
           new == clusters'[cid]
           rows == Here(c, cid)
<1>1. cid \in DOMAIN clusters
    BY MatchedIs
<1>2. /\ new = Cluster(Listed(old.members, NewId), Updated(old.pairs, NewPairs(c, rows)))
      /\ DOMAIN clusters' = DOMAIN clusters
      /\ \A g \in DOMAIN clusters \ {cid} : clusters'[g] = clusters[g]
    BY <1>1 DEF AddTo
<1>3. Replaced({cid}, {cid})
    BY <1>1, <1>2 DEF Replaced, PlacesInv, TypeInv
<1>4. new.members = Listed(old.members, NewId) /\ new.pairs = Updated(old.pairs, NewPairs(c, rows))
    BY <1>2 DEF Cluster
<1>5. \A r \in DOMAIN old.members : old.members[r] \in Nat \ {0}
    BY <1>1 DEF PlacesInv, WholeInv, Whole, Positive, Of
<1> HIDE DEF new, old, rows
<1>6. /\ Of(new) = DOMAIN old.members \cup {NewId}
      /\ \A r \in Of(new) : new.members[r] \in Nat \ {0}
      /\ \A r \in DOMAIN old.members : r # NewId => new.members[r] = old.members[r]
      /\ NewId \notin DOMAIN old.members => new.members[NewId] = 1
    <2> DEFINE ms == old.members
               all == Listed(ms, NewId)
    <2>1. /\ DOMAIN all = DOMAIN ms \cup {NewId}
          /\ \A r \in DOMAIN ms \cup {NewId} : all[r] \in Nat \ {0}
          /\ \A r \in DOMAIN ms : r # NewId => all[r] = ms[r]
          /\ NewId \notin DOMAIN ms => all[NewId] = 1
        BY <1>5, ListedIs
    <2> HIDE DEF all
    <2>2. new.members = all
        BY <1>4 DEF all
    <2> QED
        BY <2>1, <2>2 DEF Of
<1>7. ASSUME ~refused, NEW r \in Of(new) \ loose PROVE new.members[r] = 1
    <2>1. DOMAIN frame = 1..Len(frame) /\ NewId \notin 1..Len(frame)
        BY DEF PlacesInv, TypeInv, NewId
    <2>2. DOMAIN old.members \subseteq 1..Len(frame)
        BY <1>1, <1>7 DEF PlacesInv, IdsInv, Of, old
    <2>3. CASE r = NewId
        BY <1>6, <2>1, <2>2, <2>3
    <2>4. CASE r # NewId
        <3>1. r \in DOMAIN frame \ loose /\ r \in Of(clusters[cid])
            BY <1>6, <2>1, <2>2, <2>4 DEF Of, old
        <3>2. old.members[r] = 1
            BY <1>1, <1>7, <3>1 DEF PlacesInv, OneInv, old
        <3> QED
            BY <1>6, <2>4, <3>1, <3>2 DEF Of, old
    <2> QED
        BY <2>3, <2>4
<1>8. \A p : p \in DOMAIN new.pairs <=> p \in DOMAIN old.pairs \/ \E i \in rows : p = <<i, NewId>>
    <2> DEFINE added == NewPairs(c, rows)
    <2>1. \A p : p \in DOMAIN added <=> \E i \in rows : p = <<i, NewId>>
        BY NewPairsIs
    <2> HIDE DEF added
    <2>2. new.pairs = Updated(old.pairs, added)
        BY <1>4 DEF added
    <2>3. DOMAIN new.pairs = DOMAIN old.pairs \cup DOMAIN added
        BY <2>2 DEF Updated
    <2> QED
        BY <2>1, <2>3
<1>9. /\ rows \subseteq Matches(c)
      /\ \A i \in rows : i \in Of(clusters[cid])
      /\ \E i \in rows : i \in Of(clusters[cid])
      /\ loose = {} => rows = Matches(c)
    <2>1. \A i : i \in rows <=> i \in Matches(c) /\ Holding(clusters, i) # {} /\ Last(i) = cid
        BY DEF Here, rows
    <2> QED
        BY <2>1, MatchedIs
<1>10. \A r : r \in Of(new) <=> r = NewId \/ r \in Of(clusters[cid])
    BY <1>6 DEF Of, old
<1> QED
    BY <1>3, <1>6, <1>7, <1>8, <1>9, <1>10 DEF Joins, new, old, rows

\* A merged cluster lists a member as often as all of the merged ones together.
LEMMA AllMembersIs ==
    ASSUME PlacesInv, NEW cids \in SUBSET DOMAIN clusters
    PROVE  /\ \A r : r \in DOMAIN AllMembers(cids) <=> \E g \in cids : r \in Of(clusters[g])
           /\ \A r \in DOMAIN AllMembers(cids) : AllMembers(cids)[r] \in Nat \ {0}
           /\ ~refused => \A r \in DOMAIN AllMembers(cids) \ loose : AllMembers(cids)[r] = 1
<1> DEFINE all == AllMembers(cids)
<1>1. \A r : r \in DOMAIN all <=> \E g \in cids : r \in Of(clusters[g])
    BY DEF AllMembers
<1>2. ASSUME NEW r \in DOMAIN all
      PROVE  all[r] \in Nat \ {0} /\ (~refused /\ r \notin loose => all[r] = 1)
    <2> DEFINE S == cids \cap Holding(clusters, r)
               n == [g \in S |-> clusters[g].members[r]]
               copies == UNION {{g} \X (1..n[g]) : g \in S}
    <2>1. all[r] = Cardinality(copies)
        <3>1. all[r] = Cardinality(UNION {{g} \X (1..clusters[g].members[r]) : g \in S})
            BY DEF AllMembers
        <3>2. {{g} \X (1..clusters[g].members[r]) : g \in S} = {{g} \X (1..n[g]) : g \in S}
            OBVIOUS
        <3> QED
            BY <3>1, <3>2
    <2>2. IsFiniteSet(S)
        <3>1. PICK b \in Nat : DOMAIN clusters \subseteq 1..b
            BY DEF PlacesInv, TypeInv
        <3>2. IsFiniteSet(1..b) /\ S \in SUBSET (1..b)
            BY <3>1, FS_Interval DEF Holding
        <3> QED
            BY <3>2, FS_Subset
    <2>3. \A g \in S : n[g] \in Nat \ {0}
        BY DEF Holding, PlacesInv, WholeInv, Whole, Positive
    <2>4. PICK g \in S : r \in Of(clusters[g])
        BY <1>1 DEF Holding
    <2> HIDE DEF S, n
    <2>5. IsFiniteSet(copies)
        BY <2>2, <2>3, CopiesFinite
    <2>6. <<g, 1>> \in copies
        <3>1. 1 \in 1..n[g]
            BY <2>3
        <3> QED
            BY <2>4, <3>1
    <2>7. all[r] \in Nat \ {0}
        <3> HIDE DEF copies, all
        <3>1. Cardinality(copies) \in Nat /\ Cardinality(copies) # 0
            BY <2>5, <2>6, FS_CardinalityType, FS_EmptySet
        <3> QED
            BY <2>1, <3>1
    <2>8. ASSUME ~refused, r \notin loose PROVE all[r] = 1
        <3>1. r \in DOMAIN frame \ loose
            BY <2>4, <2>8 DEF PlacesInv, TypeInv, IdsInv, S, Holding
        <3>2. \A h \in S : h = g /\ clusters[h].members[r] = 1
            BY <2>4, <2>8, <3>1 DEF PlacesInv, OneInv, S, Holding
        <3>3. S = {g} /\ n[g] = 1
            BY <2>4, <3>2 DEF n
        <3>4. copies = {<<g, 1>>}
            <4>1. copies = {g} \X (1..1)
                BY <3>3
            <4>2. 1..1 = {1}
                OBVIOUS
            <4> QED
                BY <4>1, <4>2
        <3> HIDE DEF copies, all
        <3> QED
            BY <2>1, <3>4, FS_Singleton
    <2> QED
        BY <2>7, <2>8
<1> QED
    BY <1>1, <1>2

LEMMA IntoJoins ==
    ASSUME PlacesInv, NEW c, MergeInto(c, Matched(c))
    PROVE  \E cid : Joins(c, Matched(c), cid, Matches(c))
<1> DEFINE cids == Matched(c)
           rest == Without(clusters, cids)
           next == NextId(rest)
           own == AllMembers(cids)
           added == NewPairs(c, Matches(c))
           pairs == Updated(AllPairs(cids), added)
           joined == Cluster(Listed(own, NewId), pairs)
           put == [cid \in {next} |-> joined]
<1>1. cids \in SUBSET DOMAIN clusters
    BY MatchedIs
<1>2. PICK b \in Nat : DOMAIN clusters \subseteq 1..b
    BY DEF PlacesInv, TypeInv
<1>3. next \in Nat
    <2>1. DOMAIN rest \subseteq 1..b
        BY <1>2 DEF Without
    <2> QED
        BY <2>1, NextIdIs
<1>4. clusters' = Updated(rest, put)
    BY DEF MergeInto, Merged
<1>5. DOMAIN put = {next} /\ put[next] = joined
    OBVIOUS
<1>6. /\ \A r : r \in DOMAIN own <=> \E g \in cids : r \in Of(clusters[g])
      /\ \A r \in DOMAIN own : own[r] \in Nat \ {0}
      /\ ~refused => \A r \in DOMAIN own \ loose : own[r] = 1
    BY <1>1, AllMembersIs
<1>7. \A p : p \in DOMAIN added <=> \E i \in Matches(c) : p = <<i, NewId>>
    BY NewPairsIs
<1> HIDE DEF added, own
<1>8. \A p : p \in DOMAIN pairs <=>
        (\E g \in cids : p \in DOMAIN clusters[g].pairs) \/ (\E i \in Matches(c) : p = <<i, NewId>>)
    <2>1. DOMAIN pairs = DOMAIN AllPairs(cids) \cup DOMAIN added
        BY DEF Updated
    <2>2. \A p : p \in DOMAIN AllPairs(cids) <=> \E g \in cids : p \in DOMAIN clusters[g].pairs
        BY DEF AllPairs
    <2> QED
        BY <1>7, <2>1, <2>2
<1> HIDE DEF put, pairs, cids
<1>9. Replaced(cids, {next}) /\ clusters'[next] = joined
    <2>1. DOMAIN put \subseteq next..next
        BY <1>3, <1>5
    <2>2. Replaced(cids, DOMAIN put) /\ \A cid \in DOMAIN put : clusters'[cid] = put[cid]
        BY <1>1, <1>3, <1>4, <2>1, UpdateReplaces DEF PlacesInv
    <2> QED
        BY <1>5, <2>2
<1>10. joined.members = Listed(own, NewId) /\ joined.pairs = pairs
    BY DEF Cluster
<1> DEFINE all == Listed(own, NewId)
<1>11. /\ DOMAIN all = DOMAIN own \cup {NewId}
       /\ \A r \in DOMAIN own \cup {NewId} : all[r] \in Nat \ {0}
       /\ \A r \in DOMAIN own : r # NewId => all[r] = own[r]
       /\ NewId \notin DOMAIN own => all[NewId] = 1
    BY <1>6, ListedIs
<1> HIDE DEF joined, next, rest
<1>12. ASSUME ~refused PROVE NewId \notin DOMAIN own
    <2>1. NewId \notin 1..Len(frame)
        BY DEF PlacesInv, TypeInv, NewId
    <2> QED
        BY <1>1, <1>6, <1>12, <2>1 DEF PlacesInv, IdsInv
<1> HIDE DEF all
<1>13. /\ Of(clusters'[next]) = DOMAIN own \cup {NewId}
       /\ \A r \in Of(clusters'[next]) : clusters'[next].members[r] \in Nat \ {0}
       /\ ~refused => \A r \in Of(clusters'[next]) \ loose : clusters'[next].members[r] = 1
    <2>1. clusters'[next].members = all
        BY <1>9, <1>10 DEF all
    <2> QED
        BY <1>6, <1>11, <1>12, <2>1 DEF Of
<1>14. /\ \A g \in cids : \E i \in Matches(c) : i \in Of(clusters[g])
       /\ \A i \in Matches(c) : i \in loose \/ \E g \in cids : i \in Of(clusters[g])
    BY MatchedIs DEF cids
<1>15. Joins(c, cids, next, Matches(c))
    BY <1>6, <1>8, <1>9, <1>10, <1>13, <1>14 DEF Joins
<1> QED
    BY <1>15 DEF cids

LEMMA RecordJoins ==
    ASSUME PlacesInv, NEW c, AddToCluster(c)
    PROVE  \E gone, cid, rows : Joins(c, gone, cid, rows)
<1>1. CASE Matched(c) = {} /\ AddAlone
    BY <1>1, AloneJoins
<1>2. ASSUME NEW cid \in Matched(c), Matched(c) = {cid}, AddTo(c, cid)
      PROVE  \E gone, g, rows : Joins(c, gone, g, rows)
    BY <1>2, ToJoins
<1>3. CASE MergeInto(c, Matched(c))
    BY <1>3, IntoJoins
<1> QED
    BY <1>1, <1>2, <1>3 DEF AddToCluster

\* The record's links are inside the cluster it joins, which hangs together by
\* them and the links of those that it joins.
LEMMA LinkStep ==
    ASSUME IInv, NEW c, NEW gone, NEW cid, NEW rows, Joins(c, gone, cid, rows),
           links' = links \cup DOMAIN NewPairs(c, Matches(c)), UNCHANGED <<loose, refused, edits>>
    PROVE  LinkInv'
<1> SUFFICES ASSUME loose = {}, ~refused, edits = 0
             PROVE  /\ \A e \in links' : \E g \in DOMAIN clusters' :
                            e[1] \in Of(clusters'[g]) /\ e[2] \in Of(clusters'[g])
                    /\ \A g \in DOMAIN clusters' : Connected(Of(clusters'[g]), links')
    BY DEF LinkInv, Connected
<1>1. \A e : e \in links' <=> e \in links \/ \E i \in rows : e = <<i, NewId>>
    BY NewPairsIs DEF Joins
<1>2. /\ DOMAIN clusters' = (DOMAIN clusters \ gone) \cup {cid}
      /\ gone \subseteq DOMAIN clusters
      /\ \A g \in DOMAIN clusters \ gone : clusters'[g] = clusters[g]
    BY DEF Joins, Replaced
<1>3. \A r : r \in Of(clusters'[cid]) <=> r = NewId \/ \E g \in gone : r \in Of(clusters[g])
    BY DEF Joins
<1>4. \A g \in DOMAIN clusters : Connected(Of(clusters[g]), links)
    BY DEF IInv, LinkInv
<1>5. ASSUME NEW g \in DOMAIN clusters PROVE Connected(Of(clusters[g]), links')
    BY <1>1, <1>4, ConnectedMore
<1>6. ASSUME NEW e \in links'
      PROVE  \E g \in DOMAIN clusters' : e[1] \in Of(clusters'[g]) /\ e[2] \in Of(clusters'[g])
    <2>1. CASE e \in links
        <3>1. PICK g \in DOMAIN clusters : e[1] \in Of(clusters[g]) /\ e[2] \in Of(clusters[g])
            BY <2>1 DEF IInv, LinkInv
        <3>2. CASE g \in gone
            BY <1>2, <1>3, <3>1, <3>2
        <3>3. CASE g \notin gone
            BY <1>2, <3>1, <3>3
        <3> QED
            BY <3>2, <3>3
    <2>2. CASE \E i \in rows : e = <<i, NewId>>
        <3>1. PICK i \in rows : e = <<i, NewId>>
            BY <2>2
        <3>2. e[1] = i /\ e[2] = NewId
            BY <3>1
        <3>3. \E g \in gone : i \in Of(clusters[g])
            BY DEF Joins
        <3> QED
            BY <1>2, <1>3, <3>2, <3>3
    <2> QED
        BY <1>1, <2>1, <2>2
<1>7. Connected(Of(clusters'[cid]), links')
    <2> DEFINE G == {Of(clusters[g]) : g \in gone}
               V == Of(clusters'[cid])
               edges == links'
    <2>1. ASSUME NEW g \in gone PROVE \E i \in Of(clusters[g]) : <<i, NewId>> \in edges
        BY <1>1 DEF Joins
    <2>2. \A g \in gone : Connected(Of(clusters[g]), edges)
        BY <1>2, <1>5
    <2> HIDE DEF edges, V
    <2>3. /\ \A y : y \in V <=> y = NewId \/ \E U \in G : y \in U
          /\ \A U \in G : Connected(U, edges)
          /\ \A U \in G : \E i \in U : <<i, NewId>> \in edges
        BY <1>3, <2>1, <2>2 DEF V
    <2> HIDE DEF G
    <2>4. Connected(V, edges)
        BY <2>3, JoinConnected
    <2> QED
        BY <2>4 DEF V, edges
<1>8. \A g \in DOMAIN clusters' : Connected(Of(clusters'[g]), links')
    BY <1>2, <1>5, <1>7
<1> QED
    BY <1>6, <1>8

\* An id that is in use before and after a record arrives gains members only.
Grows(gone, news) == \A cid \in gone \cap news : Of(clusters[cid]) \subseteq Of(clusters'[cid])

LEMMA RecordStep ==
    ASSUME IInv, NEW c \in Content, ProcessRecord(c) \/ RefuseRow(c)
    PROVE  IInv' /\ \E gone, news : Replaced(gone, news) /\ Grows(gone, news)
<1>1. AddToCluster(c) /\ UNCHANGED <<keeps, loose>> /\ edits' = edits
    BY DEF ProcessRecord, RefuseRow
<1>2. PICK gone, cid, rows : Joins(c, gone, cid, rows)
    BY <1>1, RecordJoins DEF IInv
<1>3. Replaced(gone, {cid}) /\ Grows(gone, {cid})
    BY <1>2 DEF Joins, Grows
<1>4. Arrives({NewId})
    BY DEF ProcessRecord, RefuseRow, Arrives
<1>5. PlacesInv'
    <2>1. Fits(gone, {cid}, {NewId})
        BY <1>2, JoinsFits DEF IInv
    <2> QED
        BY <1>1, <1>3, <1>4, <2>1, PlacesStep DEF IInv, PlacesInv, TypeInv
<1>6. LinkInv'
    <2>1. CASE ProcessRecord(c)
        BY <1>1, <1>2, <2>1, LinkStep DEF ProcessRecord
    <2>2. CASE RefuseRow(c)
        BY <2>2 DEF RefuseRow, LinkInv
    <2> QED
        BY <2>1, <2>2
<1> QED
    BY <1>3, <1>5, <1>6 DEF IInv

----------------------------------------------------------------------------
(* A steward takes clusters apart. *)

LEMMA SingleWhole ==
    ASSUME NEW r, NEW free
    PROVE  LET c == Cluster(Once({r}), None)
           IN  Of(c) = {r} /\ c.members[r] = 1 /\ Whole(c, free)
<1> DEFINE c == Cluster(Once({r}), None)
<1>1. Of(c) = {r} /\ c.members[r] = 1 /\ c.pairs = None /\ DOMAIN None = {}
    BY DEF Cluster, Once, Of, None
<1> HIDE DEF c
<1>2. Endpoints(DOMAIN c.pairs) = {}
    BY <1>1 DEF Endpoints
<1>3. Connected(Of(c), DOMAIN c.pairs)
    BY <1>1 DEF Connected
<1>4. Whole(c, free)
    BY <1>1, <1>2, <1>3 DEF Whole, Positive
<1> QED
    BY <1>1, <1>4 DEF c

\* What a steward's edit puts in place of a cluster is a part of it, but for
\* rows that were loose.
Splits(source) ==
    \E news : Replaced({source}, news) /\ Fits({source}, news, {})

\* The pairs that are kept end at members that stay, or at loose rows.
LEMMA KeptIs ==
    ASSUME PlacesInv, NEW source \in DOMAIN clusters, NEW fromRun, NEW r, NEW threshold
    PROVE  LET kept == Kept(Evidence(clusters[source], fromRun), r, threshold)
           IN  Endpoints(DOMAIN kept) \subseteq (Of(clusters[source]) \cup loose) \ {r}
<1> DEFINE c == clusters[source]
           found == Evidence(c, fromRun)
           kept == Kept(found, r, threshold)
<1>1. \A p \in DOMAIN c.pairs : p[1] \in Of(c) \cup loose /\ p[2] \in Of(c) \cup loose
    <2>1. Endpoints(DOMAIN c.pairs) \subseteq Of(c) \cup loose
        BY DEF PlacesInv, WholeInv, Whole
    <2> HIDE DEF c
    <2> QED
        BY <2>1, EndsIn
<1>2. \A p \in DOMAIN found : p[1] \in Of(c) \cup loose /\ p[2] \in Of(c) \cup loose
    BY <1>1 DEF Evidence, Inside
<1> HIDE DEF found
<1>3. \A p \in DOMAIN kept : p \in DOMAIN found /\ r # p[1] /\ r # p[2]
    BY DEF Kept
<1> HIDE DEF kept, c
<1>4. \A p \in DOMAIN kept : p[1] \in (Of(c) \cup loose) \ {r} /\ p[2] \in (Of(c) \cup loose) \ {r}
    BY <1>2, <1>3
<1>5. Endpoints(DOMAIN kept) \subseteq (Of(c) \cup loose) \ {r}
    BY <1>4, EndsIn
<1> QED
    BY <1>5 DEF kept, c, found

LEMMA MembersBounded ==
    ASSUME PlacesInv, NEW S, S \subseteq Soon
    PROVE  IsFiniteSet(S)
<1>1. Len(frame) \in Nat
    BY DEF PlacesInv, TypeInv
<1>2. IsFiniteSet(Soon)
    BY <1>1, FS_Interval DEF Soon
<1> QED
    BY <1>2, FS_Subset

LEMMA RecordSplits ==
    ASSUME PlacesInv, NEW r, NEW threshold, UnmergeRecord(r, threshold)
    PROVE  \E source \in DOMAIN clusters : Splits(source)
<1> PICK source \in Holding(clusters, r), fromRun \in BOOLEAN :
        LET c    == clusters[source]
            left == Of(c) \ {r}
            kept == Kept(Evidence(c, fromRun), r, threshold)
            rest == Without(clusters, {source})
            next == NextId(rest)
        IN  \E subs \in Build(left \cup Endpoints(DOMAIN kept), kept) :
                clusters' = Updated(rest, [cid \in next..next + Cardinality(DOMAIN subs) |->
                                IF cid = next THEN Cluster(Once({r}), None) ELSE subs[cid - next]])
    BY DEF UnmergeRecord
<1> DEFINE c    == clusters[source]
           left == Of(c) \ {r}
           kept == Kept(Evidence(c, fromRun), r, threshold)
           ids  == left \cup Endpoints(DOMAIN kept)
           rest == Without(clusters, {source})
           next == NextId(rest)
           one  == Cluster(Once({r}), None)
<1> PICK subs \in Build(ids, kept) :
        clusters' = Updated(rest, [cid \in next..next + Cardinality(DOMAIN subs) |->
                        IF cid = next THEN one ELSE subs[cid - next]])
    OBVIOUS
<1> DEFINE n   == Cardinality(DOMAIN subs)
           put == [cid \in next..next + n |-> IF cid = next THEN one ELSE subs[cid - next]]
<1>1. source \in DOMAIN clusters /\ r \in Of(c)
    BY DEF Holding
<1>2. clusters' = Updated(rest, put)
    OBVIOUS
<1>3. Endpoints(DOMAIN kept) \subseteq (Of(c) \cup loose) \ {r}
    BY <1>1, KeptIs
<1>4. ids \subseteq Soon
    <2>1. Of(c) \subseteq Soon
        BY <1>1 DEF PlacesInv, IdsInv, Soon
    <2>2. loose \subseteq Soon
        BY DEF PlacesInv, TypeInv, Soon
    <2> QED
        BY <1>3, <2>1, <2>2
<1>5. ids \subseteq (Of(c) \cup loose) \ {r} /\ Endpoints(DOMAIN kept) \subseteq ids
    BY <1>3
<1> HIDE DEF kept, ids
<1>6. IsFiniteSet(ids)
    BY <1>4, MembersBounded
<1>7. /\ n \in Nat /\ DOMAIN subs = 1..n
      /\ \A i \in DOMAIN subs :
            /\ \A free : Whole(subs[i], free)
            /\ Of(subs[i]) \subseteq ids /\ \A x \in Of(subs[i]) : subs[i].members[x] = 1
      /\ \A x \in ids : \E i \in DOMAIN subs : x \in Of(subs[i])
      /\ \A i, j \in DOMAIN subs : Of(subs[i]) \cap Of(subs[j]) # {} => i = j
    BY <1>5, <1>6, BuildIs
<1> HIDE DEF n
<1>8. next \in Nat
    <2>1. PICK b \in Nat : DOMAIN clusters \subseteq 1..b
        BY DEF PlacesInv, TypeInv
    <2>2. DOMAIN rest \subseteq 1..b
        BY <2>1 DEF Without
    <2> HIDE DEF rest
    <2> QED
        BY <2>2, NextIdIs
<1> DEFINE news == next..next + n
<1>9. DOMAIN put = news /\ next + n \in Nat
    BY <1>7, <1>8
<1>10. put[next] = one /\ \A cid \in news : cid # next => put[cid] = subs[cid - next]
    BY <1>7, <1>8
<1> HIDE DEF put
<1>11. Replaced({source}, news) /\ \A cid \in news : clusters'[cid] = put[cid]
    <2>1. DOMAIN put \subseteq NextId(Without(clusters, {source}))..next + n
        BY <1>9
    <2>2. Replaced({source}, DOMAIN put) /\ \A cid \in DOMAIN put : clusters'[cid] = put[cid]
        BY <1>1, <1>2, <1>9, <2>1, UpdateReplaces DEF PlacesInv
    <2> QED
        BY <1>9, <2>2
<1> HIDE DEF next, one, rest
<1>12. /\ \A cid \in news : cid = next \/ cid - next \in 1..n
       /\ \A i \in 1..n : next + i \in news /\ next + i # next /\ (next + i) - next = i
       /\ \A i, j \in news : i - next = j - next => i = j
       /\ next \in news
    BY <1>7, <1>8
<1> HIDE DEF news
<1>13. Of(one) = {r} /\ one.members[r] = 1 /\ Whole(one, loose)
    BY SingleWhole DEF one
<1>14. ASSUME NEW cid \in news
       PROVE  /\ Whole(clusters'[cid], loose)
              /\ \A x \in Of(clusters'[cid]) : clusters'[cid].members[x] = 1
              /\ cid = next => Of(clusters'[cid]) = {r}
              /\ cid # next => Of(clusters'[cid]) \subseteq ids
    <2>1. CASE cid = next
        <3>1. clusters'[cid] = one
            BY <1>10, <1>11, <2>1
        <3> QED
            BY <1>13, <2>1, <3>1
    <2>2. CASE cid # next
        <3>1. clusters'[cid] = subs[cid - next] /\ cid - next \in DOMAIN subs
            BY <1>7, <1>10, <1>11, <1>12, <2>2
        <3> QED
            <4> DEFINE k == cid - next
            <4>1. \A i \in DOMAIN subs : Whole(subs[i], loose) /\ Of(subs[i]) \subseteq ids
                                        /\ \A x \in Of(subs[i]) : subs[i].members[x] = 1
                BY <1>7
            <4>2. clusters'[cid] = subs[k] /\ k \in DOMAIN subs
                BY <3>1
            <4> HIDE DEF k
            <4> QED
                BY <2>2, <4>1, <4>2
    <2> QED
        BY <2>1, <2>2
<1>15. ASSUME NEW i \in news, NEW j \in news, NEW x \in Of(clusters'[i]), x \in Of(clusters'[j])
       PROVE  i = j
    <2>1. CASE i = next \/ j = next
        BY <1>5, <1>14, <1>15, <2>1
    <2>2. CASE i # next /\ j # next
        <3>1. clusters'[i] = subs[i - next] /\ clusters'[j] = subs[j - next]
            BY <1>10, <1>11, <2>2
        <3>2. i - next \in DOMAIN subs /\ j - next \in DOMAIN subs
            BY <1>7, <1>12, <2>2
        <3>3. i - next = j - next
            BY <1>7, <1>15, <3>1, <3>2
        <3> QED
            BY <1>12, <3>3
    <2> QED
        BY <2>1, <2>2
<1>16. ASSUME NEW x \in Of(c) PROVE \E cid \in news : x \in Of(clusters'[cid])
    <2>1. CASE x = r
        BY <1>10, <1>11, <1>12, <1>13, <2>1
    <2>2. CASE x # r
        <3>1. x \in ids
            BY <2>2 DEF ids
        <3>2. PICK i \in 1..n : x \in Of(subs[i])
            BY <1>7, <3>1
        <3>3. next + i \in news /\ clusters'[next + i] = subs[i]
            BY <1>10, <1>11, <1>12
        <3> QED
            BY <3>2, <3>3
    <2> QED
        BY <2>1, <2>2
<1>17. ASSUME NEW cid \in news, NEW x \in Of(clusters'[cid]) PROVE x \in loose \/ x \in Of(c)
    <2>1. CASE cid = next
        BY <1>1, <1>14, <2>1
    <2>2. CASE cid # next
        <3>1. x \in ids
            BY <1>14, <2>2
        <3> QED
            BY <1>5, <3>1
    <2> QED
        BY <2>1, <2>2
<1>18. Fits({source}, news, {})
    <2>1. \A cid \in news :
            /\ Whole(clusters'[cid], loose)
            /\ \A x \in Of(clusters'[cid]) : x \in loose \/ x \in Of(clusters[source])
        BY <1>14, <1>17
    <2>2. \A x \in Of(clusters[source]) : \E cid \in news : x \in Of(clusters'[cid])
        BY <1>16
    <2>3. \A x : \A i, j \in news :
            x \in Of(clusters'[i]) /\ x \in Of(clusters'[j]) => i = j /\ clusters'[i].members[x] = 1
        BY <1>14, <1>15
    <2> HIDE DEF c
    <2> QED
        BY <2>1, <2>2, <2>3 DEF Fits
<1> QED
    BY <1>1, <1>11, <1>18 DEF Splits

LEMMA ShatterSplits ==
    ASSUME PlacesInv, NEW source \in DOMAIN clusters, UnmergeCluster(source)
    PROVE  Splits(source)
<1> DEFINE c    == clusters[source]
           n    == Size(c)
           rest == Without(clusters, {source})
           next == NextId(rest)
<1> PICK list \in InOrder(c) :
        clusters' = Updated(rest, [i \in next..next + n - 1 |-> Cluster(Once({list[i - next + 1]}), None)])
    BY DEF UnmergeCluster
<1> DEFINE put == [i \in next..next + n - 1 |-> Cluster(Once({list[i - next + 1]}), None)]
           Places(r) == {i \in 1..n : list[i] = r}
<1>1. clusters' = Updated(rest, put)
    OBVIOUS
<1>2. IsFiniteSet(Of(c)) /\ \A r \in Of(c) : c.members[r] \in Nat \ {0}
    <2>1. Of(c) \subseteq Soon
        BY DEF PlacesInv, IdsInv, Soon
    <2> QED
        BY <2>1, MembersBounded DEF PlacesInv, WholeInv, Whole, Positive
<1>3. n \in Nat
    <2> DEFINE times == c.members
               S == Of(c)
    <2>1. IsFiniteSet(S) /\ \A r \in S : times[r] \in Nat
        BY <1>2
    <2>2. n = Cardinality(UNION {{r} \X (1..times[r]) : r \in S})
        BY DEF Size
    <2> HIDE DEF times, S, n
    <2> QED
        BY <2>1, <2>2, CopiesFinite, FS_CardinalityType
<1>4. /\ \A i \in 1..n : list[i] \in Of(c)
      /\ \A r \in Of(c) : Cardinality(Places(r)) = c.members[r]
    BY DEF InOrder
<1>5. next \in Nat
    <2>1. PICK b \in Nat : DOMAIN clusters \subseteq 1..b
        BY DEF PlacesInv, TypeInv
    <2>2. DOMAIN rest \subseteq 1..b
        BY <2>1 DEF Without
    <2> HIDE DEF rest
    <2> QED
        BY <2>2, NextIdIs
<1>6. ASSUME NEW r \in Of(c)
      PROVE  /\ \E i \in 1..n : list[i] = r
             /\ c.members[r] = 1 => \A i, j \in 1..n : list[i] = r /\ list[j] = r => i = j
    <2>1. IsFiniteSet(Places(r))
        <3>1. Places(r) \in SUBSET (1..n) /\ IsFiniteSet(1..n)
            BY <1>3, FS_Interval
        <3> QED
            BY <3>1, FS_Subset
    <2>2. Cardinality(Places(r)) # 0
        BY <1>2, <1>4
    <2>3. c.members[r] = 1 => \E i : Places(r) = {i}
        <3> HIDE DEF Places, c, n
        <3> QED
            BY <1>4, <2>1, FS_Singleton
    <2>4. Places(r) # {}
        BY <2>1, <2>2, FS_EmptySet
    <2> HIDE DEF c, n
    <2> QED
        BY <2>3, <2>4
<1> HIDE DEF n, Places
<1> DEFINE news == next..next + n - 1
           at(i) == i - next + 1
<1>7. DOMAIN put = news
    OBVIOUS
<1>8. Replaced({source}, news) /\ \A i \in news : clusters'[i] = put[i]
    <2>1. next + n \in Nat /\ news \subseteq next..next + n
        <3>1. \A a, b \in Nat : a + b \in Nat /\ a..a + b - 1 \subseteq a..a + b
            OBVIOUS
        <3> HIDE DEF next
        <3> QED
            BY <1>3, <1>5, <3>1
    <2>2. DOMAIN put \subseteq NextId(Without(clusters, {source}))..next + n
        BY <1>7, <2>1
    <2> HIDE DEF put
    <2>3. Replaced({source}, DOMAIN put) /\ \A i \in DOMAIN put : clusters'[i] = put[i]
        BY <1>1, <2>1, <2>2, UpdateReplaces DEF PlacesInv
    <2> QED
        BY <1>7, <2>3
<1>9. \A i \in news : clusters'[i] = Cluster(Once({list[at(i)]}), None)
    BY <1>8
<1> HIDE DEF put, next, rest
<1>10. /\ \A i \in news : at(i) \in 1..n
       /\ \A k \in 1..n : next + k - 1 \in news /\ at(next + k - 1) = k
       /\ \A i, j \in news : at(i) = at(j) => i = j
    BY <1>3, <1>5
<1> HIDE DEF news, at
<1>11. ASSUME NEW i \in news
       PROVE  /\ Of(clusters'[i]) = {list[at(i)]} /\ list[at(i)] \in Of(c)
              /\ clusters'[i].members[list[at(i)]] = 1
              /\ Whole(clusters'[i], loose)
    <2> DEFINE r == list[at(i)]
               one == Cluster(Once({r}), None)
    <2>1. r \in Of(c) /\ clusters'[i] = one
        BY <1>4, <1>9, <1>10
    <2>2. Of(one) = {r} /\ one.members[r] = 1 /\ Whole(one, loose)
        BY SingleWhole
    <2> HIDE DEF one
    <2> QED
        BY <2>1, <2>2
<1>12. ASSUME NEW r \in Of(c) PROVE \E i \in news : r \in Of(clusters'[i])
    <2>1. PICK k \in 1..n : list[k] = r
        BY <1>6
    <2>2. next + k - 1 \in news /\ at(next + k - 1) = k
        BY <1>10
    <2> QED
        BY <1>11, <2>1, <2>2
<1>13. ASSUME ~refused, NEW r, r \notin loose, NEW i \in news, NEW j \in news,
              r \in Of(clusters'[i]), r \in Of(clusters'[j])
       PROVE  i = j /\ clusters'[i].members[r] = 1
    <2>1. r \in Of(c) /\ list[at(i)] = r /\ list[at(j)] = r
        BY <1>11, <1>13
    <2>2. r \in DOMAIN frame \ loose
        BY <1>13, <2>1 DEF PlacesInv, TypeInv, IdsInv
    <2>3. c.members[r] = 1
        BY <1>13, <2>1, <2>2 DEF PlacesInv, OneInv
    <2>4. at(i) = at(j)
        BY <1>6, <1>10, <2>1, <2>3
    <2> QED
        BY <1>10, <1>11, <2>1, <2>4
<1>14. Fits({source}, news, {})
    <2>1. \A i \in news : Whole(clusters'[i], loose) /\ Of(clusters'[i]) \subseteq Of(clusters[source])
        BY <1>11
    <2>2. \A r \in Of(clusters[source]) : \E i \in news : r \in Of(clusters'[i])
        BY <1>12
    <2>3. ~refused => \A r : r \notin loose => \A i, j \in news :
            r \in Of(clusters'[i]) /\ r \in Of(clusters'[j]) => i = j /\ clusters'[i].members[r] = 1
        BY <1>13
    <2> HIDE DEF c
    <2> QED
        BY <2>1, <2>2, <2>3 DEF Fits
<1> QED
    BY <1>8, <1>14 DEF Splits

LEMMA StewardStep ==
    ASSUME IInv, NEW source \in DOMAIN clusters, Splits(source), edits' = edits + 1,
           UNCHANGED <<frame, keeps, loose, refused>>
    PROVE  /\ IInv'
           /\ \E news : Replaced({source}, news) /\
                \A cid \in news : Of(clusters'[cid]) \ loose \subseteq Of(clusters[source])
<1>1. PICK news : Replaced({source}, news) /\ Fits({source}, news, {})
    BY DEF Splits
<1>2. Arrives({}) /\ UNCHANGED <<keeps, loose>> /\ edits \in Nat
    BY DEF Arrives, IInv, PlacesInv, TypeInv
<1>3. edits' \in Nat /\ edits' # 0
    BY <1>2
<1>4. PlacesInv'
    BY <1>1, <1>2, <1>3, PlacesStep DEF IInv
<1>5. LinkInv'
    BY <1>3 DEF LinkInv
<1>6. \A cid \in news : Of(clusters'[cid]) \ loose \subseteq Of(clusters[source])
    BY <1>1 DEF Fits
<1> QED
    BY <1>1, <1>4, <1>5, <1>6 DEF IInv

----------------------------------------------------------------------------
(* The theorems. *)

LEMMA InvInit == Init => IInv
<1> SUFFICES ASSUME Init PROVE IInv
    OBVIOUS
<1>1. frame \in Seq(Content) /\ Len(frame) \in Nat /\ DOMAIN frame = 1..Len(frame)
    <2>1. PICK n \in 0..StartRows : frame \in [1..n -> Content]
        BY DEF Init
    <2>2. n \in Nat
        BY BoundsAssumption
    <2> QED
        BY <2>1, <2>2
<1>2. ~refused /\ refused \in BOOLEAN /\ edits = 0
    BY DEF Init
<1>3. ASSUME NEW compared \in SUBSET RunPairs(frame), DOMAIN scored = compared, loose = {},
             NEW built \in Build(DOMAIN frame, scored),
             clusters = IF keeps THEN built ELSE Forgetful(built), links = Found(built)
      PROVE  IInv
    <2> DEFINE ids == DOMAIN frame
    <2>1. IsFiniteSet(ids)
        BY <1>1, FS_Interval
    <2>2. Endpoints(DOMAIN scored) \subseteq ids
        <3>1. \A p \in DOMAIN scored : p \in ids \X ids
            BY <1>3 DEF RunPairs
        <3> HIDE DEF ids
        <3>2. \A p \in DOMAIN scored : p[1] \in ids /\ p[2] \in ids
            BY <3>1
        <3> QED
            BY <3>2, EndsIn
    <2> HIDE DEF ids
    <2> DEFINE n == Cardinality(DOMAIN built)
    <2>3. /\ n \in Nat /\ DOMAIN built = 1..n
          /\ \A i \in DOMAIN built :
               /\ \A free : Whole(built[i], free)
               /\ Of(built[i]) \subseteq ids /\ \A r \in Of(built[i]) : built[i].members[r] = 1
               /\ Endpoints(DOMAIN built[i].pairs) \subseteq Of(built[i])
               /\ Connected(Of(built[i]), DOMAIN built[i].pairs)
          /\ \A r \in ids : \E i \in DOMAIN built : r \in Of(built[i])
          /\ \A i, j \in DOMAIN built : Of(built[i]) \cap Of(built[j]) # {} => i = j
        BY <1>3, <2>1, <2>2, BuildIs DEF ids
    <2> HIDE DEF n
    <2>4. /\ DOMAIN clusters = DOMAIN built
          /\ \A i \in DOMAIN built : /\ clusters[i].members = built[i].members
                                     /\ Of(clusters[i]) = Of(built[i])
          /\ \A i \in DOMAIN built : Whole(clusters[i], loose)
        <3>1. CASE keeps
            BY <1>3, <2>3, <3>1
        <3>2. CASE ~keeps
            <4>1. /\ DOMAIN clusters = DOMAIN built
                  /\ \A i \in DOMAIN built : clusters[i] = Cluster(built[i].members, None)
                BY <1>3, <3>2 DEF Forgetful
            <4> SUFFICES ASSUME NEW i \in DOMAIN built
                         PROVE  /\ clusters[i].members = built[i].members
                                /\ Of(clusters[i]) = Of(built[i])
                                /\ Whole(clusters[i], loose)
                BY <4>1
            <4>2. clusters[i].members = built[i].members /\ DOMAIN clusters[i].pairs = {}
                BY <4>1 DEF Cluster, None
            <4>3. Endpoints(DOMAIN clusters[i].pairs) = {}
                BY <4>2 DEF Endpoints
            <4>4. Positive(built[i])
                BY <2>3 DEF Whole
            <4>5. Of(clusters[i]) = Of(built[i])
                BY <4>2 DEF Of
            <4>6. Positive(clusters[i])
                BY <4>2, <4>4, <4>5 DEF Positive
            <4> QED
                BY <3>2, <4>2, <4>3, <4>5, <4>6 DEF Whole
        <3> QED
            BY <3>1, <3>2
    <2>5. TypeInv
        BY <1>1, <1>2, <1>3, <2>3, <2>4 DEF TypeInv
    <2>6. WholeInv
        BY <2>4 DEF WholeInv
    <2>7. IdsInv
        <3>1. ids \subseteq 1..Len(frame) /\ ids \subseteq 1..Len(frame) + 1
            BY <1>1 DEF ids
        <3> QED
            BY <2>3, <2>4, <3>1 DEF IdsInv
    <2>8. HeldInv
        BY <2>3, <2>4 DEF HeldInv, ids
    <2>9. OneInv
        BY <2>3, <2>4 DEF OneInv
    <2>10. LinkInv
        <3>1. \A e : e \in links <=> \E i \in DOMAIN built : e \in DOMAIN built[i].pairs
            BY <1>3 DEF Found
        <3>2. ASSUME NEW e \in links
              PROVE  \E i \in DOMAIN clusters : e[1] \in Of(clusters[i]) /\ e[2] \in Of(clusters[i])
            <4>1. PICK i \in DOMAIN built : e \in DOMAIN built[i].pairs
                BY <3>1
            <4>2. e[1] \in Of(built[i]) /\ e[2] \in Of(built[i])
                BY <2>3, <4>1, EndsIn
            <4> QED
                BY <2>4, <4>2
        <3>3. ASSUME NEW i \in DOMAIN clusters PROVE Connected(Of(clusters[i]), links)
            BY <2>3, <2>4, <3>1, ConnectedMore
        <3> QED
            BY <3>2, <3>3 DEF LinkInv
    <2> QED
        BY <2>5, <2>6, <2>7, <2>8, <2>9, <2>10 DEF IInv, PlacesInv
<1>4. CASE clusters = << >> /\ frame # << >> /\ loose = DOMAIN frame
    <2>1. DOMAIN clusters = {}
        BY <1>4
    <2>2. TypeInv
        <3>1. DOMAIN clusters \subseteq 1..0
            BY <2>1
        <3> QED
            BY <1>1, <1>2, <1>4, <3>1 DEF TypeInv
    <2>3. WholeInv /\ IdsInv /\ HeldInv /\ OneInv
        BY <1>4, <2>1 DEF WholeInv, IdsInv, HeldInv, OneInv
    <2>4. loose # {}
        <3>1. Len(frame) # 0
            BY <1>1, <1>4
        <3>2. 1 \in 1..Len(frame)
            BY <1>1, <3>1
        <3> QED
            BY <1>1, <1>4, <3>2
    <2>5. LinkInv
        BY <2>4 DEF LinkInv
    <2> QED
        BY <2>2, <2>3, <2>5 DEF IInv, PlacesInv
<1> QED
    <2>1. CASE /\ \E compared \in SUBSET RunPairs(frame) :
                    scored = [e \in compared |-> Best(Matchkey, frame[e[1]], frame[e[2]])]
               /\ \E built \in Build(DOMAIN frame, scored) :
                    /\ clusters = IF keeps THEN built ELSE Forgetful(built)
                    /\ links = Found(built)
               /\ loose = {}
        <3>1. PICK compared \in SUBSET RunPairs(frame) : DOMAIN scored = compared
            BY <2>1
        <3>2. PICK built \in Build(DOMAIN frame, scored) :
                clusters = (IF keeps THEN built ELSE Forgetful(built)) /\ links = Found(built)
            BY <2>1
        <3> QED
            BY <1>3, <2>1, <3>1, <3>2
    <2> QED
        BY <1>4, <2>1 DEF Init

\* Every step replaces clusters by larger ones or by parts of them.
Related(gone, news) ==
    \A cid \in gone \cap news :
        Of(clusters[cid]) \subseteq Of(clusters'[cid]) \/ Of(clusters'[cid]) \ loose \subseteq Of(clusters[cid])

LEMMA InvNext ==
    ASSUME IInv, Next
    PROVE  IInv' /\ \E gone, news : Replaced(gone, news) /\ Related(gone, news)
<1>1. ASSUME NEW c \in Content, ProcessRecord(c) \/ RefuseRow(c)
      PROVE  IInv' /\ \E gone, news : Replaced(gone, news) /\ Related(gone, news)
    <2>1. PICK gone, news : Replaced(gone, news) /\ Grows(gone, news)
        BY <1>1, RecordStep
    <2>2. Related(gone, news)
        BY <2>1 DEF Related, Grows
    <2> QED
        BY <1>1, <2>1, <2>2, RecordStep
<1>2. ASSUME NEW source \in DOMAIN clusters, Splits(source), edits' = edits + 1,
             UNCHANGED <<frame, keeps, loose, refused>>
      PROVE  IInv' /\ \E gone, news : Replaced(gone, news) /\ Related(gone, news)
    <2>1. PICK news : /\ Replaced({source}, news)
                      /\ \A cid \in news : Of(clusters'[cid]) \ loose \subseteq Of(clusters[source])
        BY <1>2, StewardStep
    <2>2. Related({source}, news)
        BY <2>1 DEF Related
    <2> QED
        BY <1>2, <2>1, <2>2, StewardStep
<1>3. ASSUME NEW r, NEW threshold, UnmergeRecord(r, threshold)
      PROVE  IInv' /\ \E gone, news : Replaced(gone, news) /\ Related(gone, news)
    <2>1. edits' = edits + 1 /\ UNCHANGED <<frame, keeps, loose, refused>>
        BY <1>3 DEF UnmergeRecord
    <2>2. \E source \in DOMAIN clusters : Splits(source)
        BY <1>3, RecordSplits DEF IInv
    <2> QED
        BY <1>2, <2>1, <2>2
<1>4. ASSUME NEW source \in DOMAIN clusters, UnmergeCluster(source)
      PROVE  IInv' /\ \E gone, news : Replaced(gone, news) /\ Related(gone, news)
    <2>1. edits' = edits + 1 /\ UNCHANGED <<frame, keeps, loose, refused>>
        BY <1>4 DEF UnmergeCluster
    <2>2. Splits(source)
        BY <1>4, ShatterSplits DEF IInv
    <2> QED
        BY <1>2, <2>1, <2>2
<1> QED
    BY <1>1, <1>3, <1>4 DEF Next

LEMMA InvSame == ASSUME IInv, UNCHANGED vars PROVE IInv'
<1>1. UNCHANGED <<frame, clusters, keeps, links, loose, refused, edits>>
    BY DEF vars
<1>2. PlacesInv'
    BY <1>1 DEF IInv, PlacesInv, TypeInv, WholeInv, Whole, Positive, IdsInv, HeldInv, OneInv, Of
<1>3. LinkInv'
    BY <1>1 DEF IInv, LinkInv, Of
<1> QED
    BY <1>2, <1>3 DEF IInv

\* Clusters are whole, at bounded ids, and hold what they should, whatever
\* records arrive and whatever stewards take apart.
THEOREM PlacesHold == Spec => []IInv
<1>1. IInv /\ [Next]_vars => IInv'
    BY InvNext, InvSame
<1> QED
    BY InvInit, <1>1, PTL DEF Spec

\* Unless a row was refused, a record the stream knew is in one cluster, once.
THEOREM OneEach == Spec => []OneClusterEach
<1>1. IInv => OneClusterEach
    <2> SUFFICES ASSUME IInv, ~refused, NEW r \in DOMAIN frame \ loose
                 PROVE  \E cid \in DOMAIN clusters :
                            Holding(clusters, r) = {cid} /\ clusters[cid].members[r] = 1
        BY DEF OneClusterEach
    <2>1. PICK cid \in DOMAIN clusters : r \in Of(clusters[cid])
        BY DEF IInv, PlacesInv, HeldInv
    <2>2. \A i \in DOMAIN clusters : r \in Of(clusters[i]) => i = cid /\ clusters[i].members[r] = 1
        BY <2>1 DEF IInv, PlacesInv, OneInv
    <2>3. Holding(clusters, r) = {cid}
        BY <2>1, <2>2 DEF Holding
    <2> QED
        BY <2>1, <2>2, <2>3
<1> QED
    BY <1>1, PlacesHold, PTL

\* Taking a record out splits a cluster where its evidence ends, and only there.
THEOREM AlwaysConnected == Spec => []ClustersConnected
<1>1. IInv => ClustersConnected
    <2> SUFFICES ASSUME IInv, keeps, NEW cid \in DOMAIN clusters
                 PROVE  LET c == clusters[cid]
                        IN  \E r \in Of(c) : Together(r, Of(c), Inside(Of(c), DOMAIN c.pairs)) = Of(c)
        BY DEF ClustersConnected
    <2> DEFINE V == Of(clusters[cid])
               edges == DOMAIN clusters[cid].pairs
               inner == Inside(V, edges)
    <2>1. V # {} /\ Connected(V, edges)
        BY DEF IInv, PlacesInv, WholeInv, Whole, Positive
    <2>2. PICK r : r \in V
        BY <2>1
    <2> HIDE DEF V, edges
    <2>3. ASSUME NEW S \in SUBSET V, r \in S, Closed(S, inner) PROVE S = V
        <3>1. \A e \in edges : e[1] \in V /\ e[2] \in V => (e[1] \in S <=> e[2] \in S)
            BY <2>3 DEF Closed, Inside
        <3> QED
            BY <2>1, <2>3, <3>1 DEF Connected
    <2> HIDE DEF inner
    <2>4. Together(r, V, inner) = V
        BY <2>2, <2>3 DEF Together
    <2> QED
        BY <2>2, <2>4 DEF inner, V, edges
<1> QED
    BY <1>1, PlacesHold, PTL

\* Before any edit, a stream has put two records in one cluster exactly when a
\* chain of links joins them.
THEOREM StreamFollows == Spec => []StreamFollowsLinks
<1>1. IInv => StreamFollowsLinks
    <2> SUFFICES ASSUME IInv, loose = {}, ~refused, edits = 0
                 PROVE  \A r, s \in DOMAIN frame :
                            Holding(clusters, r) = Holding(clusters, s)
                                <=> s \in Together(r, DOMAIN frame, links)
        BY DEF StreamFollowsLinks
    <2> DEFINE ids == DOMAIN frame
    <2>1. /\ \A e \in links : \E cid \in DOMAIN clusters :
                e[1] \in Of(clusters[cid]) /\ e[2] \in Of(clusters[cid])
          /\ \A cid \in DOMAIN clusters : Connected(Of(clusters[cid]), links)
        BY DEF IInv, LinkInv
    <2>2. \A r \in ids : \A i, j \in DOMAIN clusters :
            r \in Of(clusters[i]) /\ r \in Of(clusters[j]) => i = j
        BY DEF IInv, PlacesInv, OneInv
    <2>3. \A cid \in DOMAIN clusters : Of(clusters[cid]) \subseteq ids
        BY DEF IInv, PlacesInv, IdsInv, TypeInv
    <2>4. ASSUME NEW r \in ids
          PROVE  \E cid \in DOMAIN clusters : r \in Of(clusters[cid]) /\ Holding(clusters, r) = {cid}
        <3>1. PICK cid \in DOMAIN clusters : r \in Of(clusters[cid])
            BY DEF IInv, PlacesInv, HeldInv
        <3> QED
            BY <2>2, <3>1 DEF Holding
    <2> HIDE DEF ids
    <2>5. Endpoints(links) \subseteq ids
        <3>1. \A e \in links : e[1] \in ids /\ e[2] \in ids
            BY <2>1, <2>3
        <3> QED
            BY <3>1, EndsIn
    <2>6. ASSUME NEW cid \in DOMAIN clusters, NEW r \in ids, r \in Of(clusters[cid])
          PROVE  Together(r, ids, links) = Of(clusters[cid])
        <3> DEFINE V == Of(clusters[cid])
                   T == Together(r, ids, links)
        <3>1. /\ r \in T /\ T \subseteq ids /\ Closed(T, links)
              /\ \A S \in SUBSET ids : r \in S /\ Closed(S, links) => T \subseteq S
            BY <2>5, TogetherIs
        <3>2. Closed(V, links)
            <4> SUFFICES ASSUME NEW e \in links PROVE e[1] \in V <=> e[2] \in V
                BY DEF Closed
            <4>1. PICK i \in DOMAIN clusters : e[1] \in Of(clusters[i]) /\ e[2] \in Of(clusters[i])
                BY <2>1
            <4> QED
                BY <2>2, <2>3, <4>1
        <3>3. T \subseteq V
            BY <2>3, <2>6, <3>1, <3>2
        <3>4. T = V
            <4>1. Connected(V, links)
                BY <2>1
            <4> HIDE DEF V, T
            <4> QED
                BY <3>1, <3>3, <4>1 DEF Connected, Closed
        <3> QED
            BY <3>4
    <2>7. ASSUME NEW r \in ids, NEW s \in ids
          PROVE  Holding(clusters, r) = Holding(clusters, s) <=> s \in Together(r, ids, links)
        <3>1. PICK i \in DOMAIN clusters : r \in Of(clusters[i]) /\ Holding(clusters, r) = {i}
            BY <2>4
        <3>2. PICK j \in DOMAIN clusters : s \in Of(clusters[j]) /\ Holding(clusters, s) = {j}
            BY <2>4
        <3>3. Together(r, ids, links) = Of(clusters[i])
            BY <2>6, <3>1
        <3> QED
            BY <2>2, <3>1, <3>2, <3>3
    <2> QED
        BY <2>7 DEF ids
<1> QED
    BY <1>1, PlacesHold, PTL

\* An id in use before and after a step names a larger cluster or a part.
THEOREM IdsStay == Spec => IdsStayInTheFamily
<1> DEFINE Family ==
        \A cid \in DOMAIN clusters \cap DOMAIN clusters' :
            LET old == Of(clusters[cid])
                new == Of(clusters'[cid])
            IN  old \subseteq new \/ new \ loose \subseteq old
<1>1. ASSUME IInv, Next PROVE Family
    <2>1. PICK gone, news : Replaced(gone, news) /\ Related(gone, news)
        BY <1>1, InvNext
    <2> SUFFICES ASSUME NEW cid \in DOMAIN clusters, cid \in DOMAIN clusters'
                 PROVE  \/ Of(clusters[cid]) \subseteq Of(clusters'[cid])
                        \/ Of(clusters'[cid]) \ loose \subseteq Of(clusters[cid])
        OBVIOUS
    <2>2. CASE cid \in DOMAIN clusters \ gone
        BY <2>1, <2>2 DEF Replaced
    <2>3. CASE cid \in gone
        <3>1. cid \in news
            BY <2>1, <2>3 DEF Replaced
        <3> QED
            BY <2>1, <2>3, <3>1 DEF Related
    <2> QED
        BY <2>2, <2>3
<1>2. IInv /\ [Next]_vars => [Family]_vars
    BY <1>1
<1> QED
    BY <1>2, PlacesHold, PTL DEF Spec, IdsStayInTheFamily
=============================================================================
