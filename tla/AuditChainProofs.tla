-------------------------- MODULE AuditChainProofs --------------------------
(***************************************************************************)
(* Theorems about AuditChain, for any writers, sealers, datasets and       *)
(* bounds.  The fold of the log is a sequence in the order of event ids;   *)
(* that its value does not depend on how it was cut into seals is proved   *)
(* from the ranks of events, by counting, so that no induction is needed.  *)
(***************************************************************************)
EXTENDS AuditChain, FiniteSetTheorems, NaturalsInduction, WellFoundedInduction, TLAPS

Entry == EventId \X Content

Keyed(S) == /\ S \subseteq Entry
            /\ \A p, q \in S : p[1] = q[1] => p = q

UpToKey(S, p) == {q \in S : q[1] <= p[1]}
Rank(S, p) == Cardinality(UpToKey(S, p))

----------------------------------------------------------------------------
(* Ranks. *)

LEMMA Bounds == MaxEvents \in Nat /\ EventId \subseteq Nat /\ EventId = 1 .. MaxEvents
BY AuditAssumption DEF EventId

\* Events with distinct ids are finitely many.
LEMMA KeyedFinite ==
    ASSUME NEW S, Keyed(S)
    PROVE  IsFiniteSet(S)
<1> DEFINE f == [p \in S |-> p[1]]
<1>1. \A p \in S : p[1] \in EventId
    BY DEF Keyed, Entry
<1>2. f \in Injection(S, EventId)
    BY <1>1 DEF Injection, IsInjective, Keyed
<1>3. IsFiniteSet(EventId)
    BY Bounds, FS_Interval
<1> QED
    BY <1>2, <1>3, FS_Injection

LEMMA KeyedSubset ==
    ASSUME NEW S, Keyed(S), NEW T \in SUBSET S
    PROVE  Keyed(T)
BY DEF Keyed

LEMMA RankRange ==
    ASSUME NEW S, Keyed(S), NEW p \in S
    PROVE  Rank(S, p) \in 1 .. Cardinality(S)
<1>1. p[1] \in Nat
    BY Bounds DEF Keyed, Entry
<1>2. UpToKey(S, p) \subseteq S /\ p \in UpToKey(S, p)
    BY <1>1 DEF UpToKey
<1>3. IsFiniteSet(S) /\ IsFiniteSet(UpToKey(S, p))
    BY <1>2, KeyedFinite, FS_Subset
<1>4. Cardinality(UpToKey(S, p)) \in Nat /\ Cardinality(S) \in Nat
    BY <1>3, FS_CardinalityType
<1>5. Cardinality(UpToKey(S, p)) # 0
    BY <1>2, <1>3, FS_EmptySet
<1>6. Cardinality(UpToKey(S, p)) <= Cardinality(S)
    BY <1>2, <1>3, FS_Subset
<1> QED
    BY <1>4, <1>5, <1>6 DEF Rank

LEMMA RankOrder ==
    ASSUME NEW S, Keyed(S), NEW p \in S, NEW q \in S, p[1] < q[1]
    PROVE  Rank(S, p) < Rank(S, q)
<1>1. p[1] \in Nat /\ q[1] \in Nat /\ \A r \in S : r[1] \in Nat
    BY Bounds DEF Keyed, Entry
<1>2. UpToKey(S, p) \subseteq UpToKey(S, q)
    BY <1>1 DEF UpToKey
<1>3. q \in UpToKey(S, q) /\ q \notin UpToKey(S, p)
    BY <1>1 DEF UpToKey
<1>4. IsFiniteSet(UpToKey(S, q))
    <2>1. UpToKey(S, q) \subseteq S
        BY DEF UpToKey
    <2> QED
        BY <2>1, KeyedFinite, FS_Subset
<1>5. /\ Cardinality(UpToKey(S, p)) <= Cardinality(UpToKey(S, q))
      /\ Cardinality(UpToKey(S, p)) # Cardinality(UpToKey(S, q))
    BY <1>2, <1>3, <1>4, FS_Subset
<1>6. Rank(S, p) \in 1 .. Cardinality(S) /\ Rank(S, q) \in 1 .. Cardinality(S)
    BY RankRange
<1>7. Cardinality(S) \in Nat
    BY KeyedFinite, FS_CardinalityType
<1> QED
    BY <1>5, <1>6, <1>7 DEF Rank

\* Two events do not have the same rank.
LEMMA RankUnique ==
    ASSUME NEW S, Keyed(S), NEW p \in S, NEW q \in S, Rank(S, p) = Rank(S, q)
    PROVE  p = q
<1>1. p[1] \in Nat /\ q[1] \in Nat
    BY Bounds DEF Keyed, Entry
<1>2. Rank(S, p) \in Nat /\ Rank(S, q) \in Nat
    <2>1. Cardinality(S) \in Nat
        BY KeyedFinite, FS_CardinalityType
    <2> QED
        BY <2>1, RankRange
<1>3. ~ (p[1] < q[1])
    BY <1>2, RankOrder
<1>4. ~ (q[1] < p[1])
    BY <1>2, RankOrder
<1>5. p[1] = q[1]
    BY <1>1, <1>3, <1>4
<1> QED
    BY <1>5 DEF Keyed

\* Every place in the order is taken: the pigeonhole.
LEMMA RankOnto ==
    ASSUME NEW S, Keyed(S), NEW i \in 1 .. Cardinality(S)
    PROVE  \E p \in S : Rank(S, p) = i
<1> DEFINE n == Cardinality(S)
           f == [p \in S |-> Rank(S, p)]
<1>1. IsFiniteSet(S) /\ n \in Nat
    BY KeyedFinite, FS_CardinalityType
<1>2. f \in Injection(S, 1 .. n)
    <2>1. f \in [S -> 1 .. n]
        BY RankRange
    <2>2. \A p, q \in S : f[p] = f[q] => p = q
        BY RankUnique
    <2> QED
        BY <2>1, <2>2 DEF Injection, IsInjective
<1>3. IsFiniteSet(1 .. n) /\ Cardinality(1 .. n) = n
    BY <1>1, FS_Interval
<1>4. f \in Surjection(S, 1 .. n)
    BY <1>1, <1>2, <1>3, FS_Injection
<1> QED
    BY <1>4 DEF Surjection

----------------------------------------------------------------------------
(* Stories. *)

LEMMA StoryShape ==
    ASSUME NEW S, Keyed(S)
    PROVE  /\ Cardinality(S) \in Nat
           /\ Story(S) = [i \in 1 .. Cardinality(S) |->
                              (CHOOSE e \in S : Rank(S, e) = i)[2]]
<1>1. Cardinality(S) \in Nat
    BY KeyedFinite, FS_CardinalityType
<1> QED
    BY <1>1 DEF Story, Rank, UpToKey

\* An event stands in the story at its rank.
LEMMA StoryAt ==
    ASSUME NEW S, Keyed(S), NEW p \in S
    PROVE  Story(S)[Rank(S, p)] = p[2]
<1> DEFINE i == Rank(S, p)
           c == CHOOSE e \in S : Rank(S, e) = i
<1>1. i \in 1 .. Cardinality(S)
    BY RankRange
<1>2. c \in S /\ Rank(S, c) = i
    OBVIOUS
<1>3. c = p
    BY <1>2, RankUnique
<1> HIDE DEF c
<1> QED
    BY <1>1, <1>3, StoryShape DEF c

LEMMA StoryType ==
    ASSUME NEW S, Keyed(S)
    PROVE  /\ Story(S) \in Seq(Content)
           /\ Len(Story(S)) = Cardinality(S)
           /\ DOMAIN Story(S) = 1 .. Cardinality(S)
<1> DEFINE n == Cardinality(S)
           s == Story(S)
<1>1. n \in Nat /\ DOMAIN s = 1 .. n /\ s = [i \in 1 .. n |-> s[i]]
    BY StoryShape
<1>2. \A i \in 1 .. n : s[i] \in Content
    <2> TAKE i \in 1 .. n
    <2>1. PICK p \in S : Rank(S, p) = i
        BY RankOnto
    <2>2. s[i] = p[2]
        BY <2>1, StoryAt
    <2> QED
        BY <2>2 DEF Keyed, Entry
<1> HIDE DEF s, n
<1>3. s \in [1 .. n -> Content]
    BY <1>1, <1>2
<1>4. s \in Seq(Content)
    BY <1>1, <1>3
<1>5. Len(s) = n
    BY <1>1, <1>4
<1> QED
    BY <1>1, <1>4, <1>5 DEF s, n

LEMMA SameSequence ==
    ASSUME NEW T, NEW s \in Seq(T), NEW t \in Seq(T), Len(s) = Len(t),
           \A i \in 1 .. Len(s) : s[i] = t[i]
    PROVE  s = t
OBVIOUS

LEMMA EmptyStory ==
    Keyed({}) /\ Story({}) = <<>> /\ Cardinality({}) = 0
<1>1. Keyed({}) /\ Cardinality({}) = 0
    BY FS_EmptySet DEF Keyed
<1>2. Story({}) \in Seq(Content) /\ Len(Story({})) = 0
    BY <1>1, StoryType
<1> QED
    BY <1>1, <1>2

\* Two sets of events, one after the other in the order of ids.
Follows(A, B) == \A p \in A, q \in B : p[1] < q[1]

LEMMA KeyedUnion ==
    ASSUME NEW A, NEW B, Keyed(A), Keyed(B), Follows(A, B)
    PROVE  /\ Keyed(A \cup B)
           /\ Cardinality(A \cup B) = Cardinality(A) + Cardinality(B)
<1>1. \A p \in A \cup B : p[1] \in Nat
    BY Bounds DEF Keyed, Entry
<1>2. A \cap B = {}
    BY <1>1 DEF Follows
<1>3. Keyed(A \cup B)
    BY <1>1 DEF Keyed, Follows
<1>4. IsFiniteSet(A) /\ IsFiniteSet(B)
    BY KeyedFinite
<1>5. Cardinality(A \cap B) = 0
    BY <1>2, FS_EmptySet
<1>6. Cardinality(A) \in Nat /\ Cardinality(B) \in Nat
    BY <1>4, FS_CardinalityType
<1>7. Cardinality(A \cup B) = Cardinality(A) + Cardinality(B) - Cardinality(A \cap B)
    BY <1>4, FS_Union
<1> QED
    BY <1>3, <1>5, <1>6, <1>7

\* Their ranks in the whole.
LEMMA RankUnion ==
    ASSUME NEW A, NEW B, Keyed(A), Keyed(B), Follows(A, B)
    PROVE  /\ \A p \in A : Rank(A \cup B, p) = Rank(A, p)
           /\ \A q \in B : Rank(A \cup B, q) = Cardinality(A) + Rank(B, q)
<1>1. \A p \in A \cup B : p[1] \in Nat
    BY Bounds DEF Keyed, Entry
<1>2. ASSUME NEW p \in A PROVE Rank(A \cup B, p) = Rank(A, p)
    <2>1. UpToKey(A \cup B, p) = UpToKey(A, p)
        BY <1>1 DEF UpToKey, Follows
    <2> QED
        BY <2>1 DEF Rank
<1>3. ASSUME NEW q \in B PROVE Rank(A \cup B, q) = Cardinality(A) + Rank(B, q)
    <2>1. UpToKey(A \cup B, q) = A \cup UpToKey(B, q)
        BY <1>1 DEF UpToKey, Follows
    <2>2. UpToKey(B, q) \in SUBSET B
        BY DEF UpToKey
    <2>3. Keyed(UpToKey(B, q))
        BY <2>2, KeyedSubset
    <2>4. Follows(A, UpToKey(B, q))
        BY <2>2 DEF Follows
    <2> QED
        BY <2>1, <2>3, <2>4, KeyedUnion DEF Rank
<1> QED
    BY <1>2, <1>3

\* A fold that goes on where another ended gives the fold of the whole.
LEMMA StoryGoesOn ==
    ASSUME NEW A, NEW B, Keyed(A), Keyed(B), Follows(A, B)
    PROVE  Story(A \cup B) = Story(A) \o Story(B)
<1> DEFINE C == A \cup B
           a == Cardinality(A)
           b == Cardinality(B)
           joined == Story(A) \o Story(B)
<1>1. Keyed(C) /\ Cardinality(C) = a + b
    BY KeyedUnion
<1>2. a \in Nat /\ b \in Nat
    BY KeyedFinite, FS_CardinalityType
<1>3. /\ Story(A) \in Seq(Content) /\ Len(Story(A)) = a
      /\ Story(B) \in Seq(Content) /\ Len(Story(B)) = b
      /\ Story(C) \in Seq(Content) /\ Len(Story(C)) = a + b
    BY <1>1, StoryType
<1>4. joined \in Seq(Content) /\ Len(joined) = a + b
    BY <1>2, <1>3
<1>5. ASSUME NEW i \in 1 .. a + b PROVE Story(C)[i] = joined[i]
    <2>1. PICK p \in C : Rank(C, p) = i
        BY <1>1, RankOnto
    <2>2. Story(C)[i] = p[2]
        BY <1>1, <2>1, StoryAt
    <2>3. CASE p \in A
        <3>1. i = Rank(A, p) /\ i \in 1 .. a
            BY <2>1, <2>3, RankUnion, RankRange
        <3>2. Story(A)[i] = p[2]
            BY <2>3, <3>1, StoryAt
        <3> QED
            BY <1>2, <1>3, <2>2, <3>1, <3>2
    <2>4. CASE p \in B
        <3>1. i = a + Rank(B, p) /\ Rank(B, p) \in 1 .. b
            BY <2>1, <2>4, RankUnion, RankRange
        <3>2. Story(B)[Rank(B, p)] = p[2]
            BY <2>4, StoryAt
        <3>3. joined[i] = Story(B)[i - a]
            BY <1>2, <1>3, <3>1
        <3>4. i - a = Rank(B, p)
            BY <1>2, <3>1
        <3> QED
            BY <2>2, <3>2, <3>3, <3>4
    <2> QED
        BY <2>3, <2>4
<1> HIDE DEF joined
<1>6. Story(C) = joined
    BY <1>3, <1>4, <1>5, SameSequence
<1> QED
    BY <1>6 DEF joined

----------------------------------------------------------------------------
(* Events. *)

Draft == [seal : Seal, says : SUBSET Entry]

Types ==
    /\ TypeOK
    /\ covered \in Seq(SUBSET Entry)
    /\ draft \in [Sealer -> SUBSET Draft]

Distinct(es) == \A e, f \in es : e.id = f.id => e = f

LEMMA EventFields ==
    ASSUME NEW e \in Event
    PROVE  /\ e.id \in EventId /\ e.id \in Nat /\ e.id > 0 /\ e.content \in Content
           /\ Effective(e) \in Content
BY Bounds DEF Event, Effective

LEMMA SaidKeyed ==
    ASSUME NEW es \in SUBSET Event, Distinct(es)
    PROVE  /\ Keyed(Said(es))
           /\ IsFiniteSet(es)
           /\ Cardinality(Said(es)) = Cardinality(es)
<1> DEFINE f == [e \in es |-> <<e.id, Effective(e)>>]
           g == [e \in es |-> e.id]
<1>1. Keyed(Said(es))
    BY EventFields DEF Keyed, Said, Entry, Distinct
<1>2. IsFiniteSet(es)
    <2>1. g \in Injection(es, EventId)
        BY EventFields DEF Injection, IsInjective, Distinct
    <2>2. IsFiniteSet(EventId)
        BY Bounds, FS_Interval
    <2> QED
        BY <2>1, <2>2, FS_Injection
<1>3. f \in Surjection(es, Said(es))
    BY DEF Surjection, Said
<1>4. f \in Injection(es, Said(es))
    <2>1. \A a, b \in es : f[a] = f[b] => a = b
        BY DEF Distinct
    <2> QED
        BY <1>3, <2>1 DEF Injection, IsInjective, Surjection
<1> QED
    BY <1>1, <1>2, <1>3, <1>4, FS_Surjection

LEMMA FoldTyped ==
    ASSUME NEW es \in SUBSET Event, Distinct(es)
    PROVE  Fold(es) \in Seq(Content) /\ Cardinality(es) \in Nat
BY SaidKeyed, StoryType, FS_CardinalityType DEF Fold

\* Of some events one is the last.
LEMMA SomeLast ==
    ASSUME NEW es \in SUBSET Event, Distinct(es), es # {}
    PROVE  \E e \in es : \A f \in es : f.id <= e.id
<1> DEFINE S == Said(es)
           n == Cardinality(S)
<1>1. Keyed(S) /\ n = Cardinality(es) /\ IsFiniteSet(es)
    BY SaidKeyed
<1>2. n \in Nat /\ n # 0
    BY <1>1, FS_CardinalityType, FS_EmptySet
<1>3. PICK p \in S : Rank(S, p) = n
    BY <1>1, <1>2, RankOnto
<1>4. PICK e \in es : p = <<e.id, Effective(e)>>
    BY DEF Said
<1>5. ASSUME NEW f \in es PROVE f.id <= e.id
    <2> DEFINE q == <<f.id, Effective(f)>>
    <2>1. q \in S
        BY DEF Said
    <2>2. Rank(S, q) \in 1 .. n
        BY <1>1, <2>1, RankRange
    <2>3. ~ (p[1] < q[1])
        BY <1>1, <1>2, <1>3, <2>1, <2>2, RankOrder
    <2> QED
        BY <1>4, <2>3, EventFields
<1> QED
    BY <1>5

----------------------------------------------------------------------------
(* Event ids.  SQLite hands them out in the order of commits: those of the *)
(* one open transaction are the last.                                      *)

Rows == log \cup UNION {open[w] : w \in Writer}

IdsInv ==
    /\ Distinct(Rows)
    /\ \A e \in Rows : e.id < nextId
    /\ CommitOrdered => \A w \in Writer :
        /\ open[w] # {} => \A v \in Writer \ {w} : open[v] = {}
        /\ {e.id : e \in open[w]} = (nextId - Cardinality(open[w])) .. (nextId - 1)
        /\ \A e \in log : e.id < nextId - Cardinality(open[w])

LEMMA RowsTyped ==
    ASSUME Types
    PROVE  Rows \subseteq Event /\ log \subseteq Rows /\ \A w \in Writer : open[w] \subseteq Rows
BY DEF Types, TypeOK, Rows

LEMMA OpenFinite ==
    ASSUME Types, IdsInv, NEW w \in Writer
    PROVE  IsFiniteSet(open[w]) /\ Cardinality(open[w]) \in Nat
<1>1. open[w] \in SUBSET Event /\ Distinct(open[w])
    BY RowsTyped DEF IdsInv, Distinct
<1> QED
    BY <1>1, SaidKeyed, FS_CardinalityType

LEMMA EmitIds ==
    ASSUME Types, IdsInv, NEW w \in Writer, EmitEvent(w)
    PROVE  IdsInv'
<1>1. PICK new \in Event :
        /\ new.id = nextId
        /\ open' = [open EXCEPT ![w] = @ \cup {new}]
    <2>1. PICK c \in Content :
            open' = [open EXCEPT ![w] = @ \cup
                {[id |-> nextId, content |-> c,
                  hash |-> IF nextId <= LegacyUpTo THEN NoHash ELSE c]}]
        BY DEF EmitEvent
    <2> DEFINE new == [id |-> nextId, content |-> c,
                       hash |-> IF nextId <= LegacyUpTo THEN NoHash ELSE c]
    <2>2. nextId \in EventId
        BY Bounds DEF EmitEvent, Types, TypeOK
    <2>3. new \in Event
        BY <2>2 DEF Event
    <2> QED
        BY <2>1, <2>3
<1>2. log' = log /\ nextId' = nextId + 1 /\ nextId \in Nat
    BY Bounds DEF EmitEvent, Types, TypeOK
<1>3. open'[w] = open[w] \cup {new} /\ \A v \in Writer \ {w} : open'[v] = open[v]
    BY <1>1 DEF Types, TypeOK
<1>4. Rows' = Rows \cup {new}
    BY <1>2, <1>3 DEF Rows
<1>5. \A e \in Rows : e.id \in Nat /\ e.id < nextId
    BY RowsTyped, EventFields DEF IdsInv
<1>6. Distinct(Rows')
    BY <1>1, <1>2, <1>4, <1>5 DEF Distinct, IdsInv
<1>7. \A e \in Rows' : e.id < nextId'
    BY <1>1, <1>2, <1>4, <1>5
<1>8. ASSUME CommitOrdered, NEW v \in Writer
      PROVE  /\ open'[v] # {} => \A u \in Writer \ {v} : open'[u] = {}
             /\ {e.id : e \in open'[v]} = (nextId' - Cardinality(open'[v])) .. (nextId' - 1)
             /\ \A e \in log' : e.id < nextId' - Cardinality(open'[v])
    <2>1. \A u \in Writer \ {w} : open'[u] = {}
        BY <1>3, <1>8 DEF EmitEvent, Alone
    <2>2. Cardinality(open'[w]) = Cardinality(open[w]) + 1
        <3>1. new \notin open[w]
            <4>1. \A e \in open[w] : e.id < nextId
                BY <1>5, RowsTyped
            <4>2. new.id = nextId
                BY <1>1
            <4> QED BY <1>2, <4>1, <4>2
        <3>2. IsFiniteSet(open[w])
            BY OpenFinite
        <3>3. \A S, e : IsFiniteSet(S) /\ e \notin S => Cardinality(S \cup {e}) = Cardinality(S) + 1
            BY FS_AddElement
        <3> QED
            BY <1>3, <3>1, <3>2, <3>3
    <2>3. CASE v = w
        <3>1. {e.id : e \in open'[w]} = {e.id : e \in open[w]} \cup {nextId}
            BY <1>1, <1>3
        <3>2. {e.id : e \in open[w]} = (nextId - Cardinality(open[w])) .. (nextId - 1)
            BY <1>8 DEF IdsInv
        <3>3. {e.id : e \in open'[w]} = (nextId' - Cardinality(open'[w])) .. (nextId' - 1)
            BY <1>2, <2>2, <3>1, <3>2, OpenFinite
        <3>4. \A e \in log' : e.id < nextId' - Cardinality(open'[w])
            BY <1>2, <1>5, <1>8, <2>2, OpenFinite DEF IdsInv, Rows
        <3> QED
            BY <2>1, <2>3, <3>3, <3>4
    <2>4. CASE v # w
        <3>1. open'[v] = {} /\ Cardinality(open'[v]) = 0
            BY <2>1, <2>4, FS_EmptySet
        <3>2. (nextId' - Cardinality(open'[v])) .. (nextId' - 1) = {}
            BY <1>2, <3>1
        <3>3. \A e \in log' : e.id < nextId'
            BY <1>7 DEF Rows
        <3> QED
            BY <1>2, <3>1, <3>2, <3>3
    <2> QED
        BY <2>3, <2>4
<1> QED
    BY <1>6, <1>7, <1>8 DEF IdsInv

LEMMA CommitIds ==
    ASSUME Types, IdsInv, NEW w \in Writer, CommitTx(w)
    PROVE  IdsInv' /\ Rows' = Rows
<1>1. log' = log \cup open[w] /\ nextId' = nextId /\ nextId \in Nat
    BY Bounds DEF CommitTx, Types, TypeOK
<1>2. open'[w] = {} /\ \A v \in Writer \ {w} : open'[v] = open[v]
    BY DEF CommitTx, Types, TypeOK
<1>3. Rows' = Rows
    BY <1>1, <1>2 DEF Rows
<1>4. ASSUME CommitOrdered, NEW v \in Writer
      PROVE  /\ open'[v] # {} => \A u \in Writer \ {v} : open'[u] = {}
             /\ {e.id : e \in open'[v]} = (nextId' - Cardinality(open'[v])) .. (nextId' - 1)
             /\ \A e \in log' : e.id < nextId' - Cardinality(open'[v])
    <2>1. open'[v] = {} /\ Cardinality(open'[v]) = 0
        BY <1>2, <1>4, FS_EmptySet DEF CommitTx, IdsInv
    <2>2. (nextId' - Cardinality(open'[v])) .. (nextId' - 1) = {}
        BY <1>1, <2>1
    <2>3. \A e \in log' : e.id < nextId'
        BY <1>1, <1>3 DEF IdsInv, Rows
    <2> QED
        BY <1>1, <2>1, <2>2, <2>3
<1> QED
    BY <1>1, <1>3, <1>4 DEF IdsInv

LEMMA RollbackIds ==
    ASSUME Types, IdsInv, NEW w \in Writer, RollbackTx(w)
    PROVE  /\ IdsInv' /\ Rows' \subseteq Rows /\ nextId' \in 1 .. MaxEvents + 1
<1>1. log' = log /\ nextId \in Nat /\ nextId \in 1 .. MaxEvents + 1
    BY Bounds DEF RollbackTx, Types, TypeOK
<1>2. open'[w] = {} /\ \A v \in Writer \ {w} : open'[v] = open[v]
    BY DEF RollbackTx, Types, TypeOK
<1>3. Rows' \subseteq Rows
    BY <1>1, <1>2 DEF Rows
<1>4. Distinct(Rows')
    BY <1>3 DEF IdsInv, Distinct
<1>5. CASE ~ CommitOrdered
    <2>1. nextId' = nextId
        BY <1>5 DEF RollbackTx
    <2> QED
        BY <1>1, <1>3, <1>4, <1>5, <2>1 DEF IdsInv
<1>6. CASE CommitOrdered
    <2> DEFINE n == Cardinality(open[w])
    <2>1. nextId' = nextId - n /\ n \in Nat
        BY <1>6, OpenFinite DEF RollbackTx
    <2>2. n # 0
        BY OpenFinite, FS_EmptySet DEF RollbackTx
    <2>3. {e.id : e \in open[w]} = (nextId - n) .. (nextId - 1)
        BY <1>6 DEF IdsInv
    <2>4. PICK e \in open[w] : e.id = nextId - n
        <3> HIDE DEF n
        <3>1. nextId - n \in (nextId - n) .. (nextId - 1)
            BY <1>1, <2>1, <2>2
        <3>2. nextId - n \in {e.id : e \in open[w]}
            BY <2>3, <3>1
        <3> QED
            BY <3>2
    <2>5. nextId' \in EventId
        BY <2>1, <2>4, RowsTyped, EventFields
    <2>6. \A v \in Writer : open'[v] = {} /\ Cardinality(open'[v]) = 0
        BY <1>2, <1>6, FS_EmptySet DEF RollbackTx, IdsInv
    <2>7. Rows' = log
        BY <1>1, <2>6 DEF Rows
    <2>8. \A f \in log : f.id < nextId'
        BY <1>6, <2>1 DEF IdsInv
    <2>9. ASSUME NEW v \in Writer
          PROVE  {f.id : f \in open'[v]} = (nextId' - Cardinality(open'[v])) .. (nextId' - 1)
        <3>1. nextId' \in Nat
            BY <2>5, Bounds
        <3>2. (nextId' - Cardinality(open'[v])) .. (nextId' - 1) = {}
            BY <2>6, <3>1
        <3> QED
            BY <2>6, <3>2
    <2>10. nextId' \in Nat
        BY <2>5, Bounds
    <2>11. \A v \in Writer : \A f \in log' : f.id < nextId' - Cardinality(open'[v])
        BY <1>1, <2>6, <2>8, <2>10
    <2>12. \A v \in Writer : \A u \in Writer \ {v} : open'[u] = {}
        BY <2>6
    <2>13. nextId' \in 1 .. MaxEvents + 1
        BY <2>5, Bounds
    <2>14. \A f \in Rows' : f.id < nextId'
        BY <2>7, <2>8
    <2> QED
        BY <1>3, <1>4, <2>9, <2>11, <2>12, <2>13, <2>14 DEF IdsInv
<1> QED
    BY <1>5, <1>6

LEMMA TamperIds ==
    ASSUME Types, IdsInv, Tamper
    PROVE  IdsInv' /\ log' \subseteq Event
<1>1. PICK ids \in SUBSET ((1 .. nextId - 1) \ InTransaction) :
        \E c \in [ids -> Content], h \in [ids -> Content \cup {NoHash}] :
          log' = {[id |-> i, content |-> c[i], hash |-> h[i]] : i \in ids}
    BY DEF Tamper
<1>2. PICK c \in [ids -> Content], h \in [ids -> Content \cup {NoHash}] :
          log' = {[id |-> i, content |-> c[i], hash |-> h[i]] : i \in ids}
    BY <1>1
<1>3. open' = open /\ nextId' = nextId /\ nextId \in Nat /\ nextId \in 1 .. MaxEvents + 1
    BY Bounds DEF Tamper, Types, TypeOK
<1>4. \A i \in ids : i \in EventId /\ i \in Nat /\ i < nextId
    BY <1>3, Bounds
<1>5. log' \subseteq Event
    BY <1>2, <1>4 DEF Event
<1>6. \A e \in log' : e.id \in ids
    BY <1>2
<1>7. \A e, f \in log' : e.id = f.id => e = f
    BY <1>2
<1>8. \A w \in Writer : \A e \in open[w] : e.id \notin ids
    BY DEF InTransaction
<1>9. Distinct(Rows')
    BY <1>3, <1>6, <1>7, <1>8 DEF Distinct, Rows, IdsInv
<1>10. \A e \in Rows' : e.id < nextId'
    BY <1>3, <1>4, <1>6 DEF Rows, IdsInv
<1>11. ASSUME CommitOrdered, NEW w \in Writer, NEW e \in log'
       PROVE  e.id < nextId - Cardinality(open[w])
    <2>1. {f.id : f \in open[w]} = (nextId - Cardinality(open[w])) .. (nextId - 1)
        BY <1>11 DEF IdsInv
    <2>2. e.id \in Nat /\ e.id < nextId
        BY <1>4, <1>6
    <2>3. e.id \notin {f.id : f \in open[w]}
        BY <1>6, <1>8
    <2> QED
        BY <1>3, <2>1, <2>2, <2>3, OpenFinite
<1> QED
    BY <1>3, <1>5, <1>9, <1>10, <1>11 DEF IdsInv

----------------------------------------------------------------------------
(* Seals.  A root is the fold of what its seal stands for: the new events  *)
(* have greater ids than all that the previous seal stands for.            *)

Stands(seal, says) ==
    /\ Keyed(says)
    /\ seal.root = Story(says)
    /\ seal.count = Cardinality(says)
    /\ \A p \in says : p[1] <= seal.last

SealInv ==
    /\ \A i \in DOMAIN seals : Stands(seals[i], covered[i])
    /\ \A s \in Sealer : \A d \in draft[s] :
           Stands(d.seal, d.says) /\ d.seal.scope = scope[s]
    /\ \A s \in Sealer : pc[s] # "insert" => draft[s] = {}
    /\ \A s \in Sealer : prev[s] # 0 => seals[prev[s]].scope = scope[s]

Inv == Types /\ IdsInv /\ SealInv

LEMMA NewEventsTyped ==
    ASSUME Types, IdsInv, NEW s \in Sealer
    PROVE  /\ NewEvents(s) \in SUBSET Event
           /\ NewEvents(s) \subseteq log
           /\ Distinct(NewEvents(s))
           /\ \A e \in NewEvents(s) : e.id > LastId(prev[s])
BY RowsTyped DEF NewEvents, Exported, IdsInv, Distinct

LEMMA PrevTyped ==
    ASSUME Types, NEW s \in Sealer
    PROVE  /\ prev[s] = 0 \/ prev[s] \in DOMAIN seals
           /\ RootOf(prev[s]) \in Seq(Content)
           /\ CountOf(prev[s]) \in Nat
           /\ LastId(prev[s]) \in Nat
<1>1. seals \in Seq(Seal) /\ prev[s] \in 0 .. Len(seals)
    BY DEF Types, TypeOK
<1>2. prev[s] = 0 \/ prev[s] \in DOMAIN seals
    BY <1>1
<1>3. \A i \in DOMAIN seals : seals[i] \in Seal
    BY <1>1
<1>4. ASSUME NEW seal \in Seal
      PROVE  seal.root \in Seq(Content) /\ seal.count \in Nat /\ seal.last \in Nat
    BY Bounds DEF Seal
<1> QED
    BY <1>2, <1>3, <1>4 DEF RootOf, CountOf, LastId

LEMMA SealOfTyped ==
    ASSUME Types, IdsInv, NEW s \in Sealer, NewEvents(s) # {}
    PROVE  /\ SealOf(s) \in Seal /\ SealOf(s).scope = scope[s]
           /\ \E e \in NewEvents(s) : e.id = SealOf(s).last
           /\ \A e \in NewEvents(s) : e.id <= SealOf(s).last
<1> DEFINE es == NewEvents(s)
           last == CHOOSE e \in es : \A f \in es : f.id <= e.id
<1>1. es \in SUBSET Event /\ Distinct(es)
    BY NewEventsTyped
<1>2. last \in es /\ \A f \in es : f.id <= last.id
    BY <1>1, SomeLast
<1>3. Fold(es) \in Seq(Content) /\ Cardinality(es) \in Nat
    BY <1>1, FoldTyped
<1>4. RootOf(prev[s]) \o Fold(es) \in Seq(Content) /\ CountOf(prev[s]) + Cardinality(es) \in Nat
    BY <1>3, PrevTyped
<1>5. last.id \in EventId /\ scope[s] \in Scope
    BY <1>1, <1>2, EventFields DEF Types, TypeOK
<1>6. SealOf(s) = [scope |-> scope[s], root |-> RootOf(prev[s]) \o Fold(es),
                   count |-> CountOf(prev[s]) + Cardinality(es), last |-> last.id]
    BY DEF SealOf
<1> HIDE DEF last, es
<1>7. SealOf(s) \in Seal
    BY <1>4, <1>5, <1>6 DEF Seal
<1>8. SealOf(s).scope = scope[s] /\ SealOf(s).last = last.id
    BY <1>6
<1> QED
    BY <1>2, <1>7, <1>8 DEF es

LEMMA AnchoredStands ==
    ASSUME Inv, NEW s \in Sealer, NewEvents(s) # {}
    PROVE  /\ Stands(SealOf(s), Anchored(s))
           /\ [seal |-> SealOf(s), says |-> Anchored(s)] \in Draft
<1> DEFINE es == NewEvents(s)
           A == IF prev[s] = 0 THEN {} ELSE covered[prev[s]]
           seal == SealOf(s)
<1>1. es \in SUBSET Event /\ Distinct(es) /\ \A e \in es : e.id > LastId(prev[s])
    BY NewEventsTyped DEF Inv
<1>2. /\ Keyed(A) /\ RootOf(prev[s]) = Story(A) /\ CountOf(prev[s]) = Cardinality(A)
      /\ \A p \in A : p[1] <= LastId(prev[s])
    <2>1. CASE prev[s] = 0
        BY <2>1, EmptyStory DEF RootOf, CountOf, LastId
    <2>2. CASE prev[s] # 0
        <3>1. prev[s] \in DOMAIN seals
            BY <2>2, PrevTyped DEF Inv
        <3> QED
            BY <2>2, <3>1 DEF Inv, SealInv, Stands, RootOf, CountOf, LastId
    <2> QED
        BY <2>1, <2>2
<1>3. Keyed(Said(es)) /\ Cardinality(Said(es)) = Cardinality(es)
    BY <1>1, SaidKeyed
<1>4. /\ seal \in Seal
      /\ \E e \in es : e.id = seal.last
      /\ \A e \in es : e.id <= seal.last
    BY SealOfTyped DEF Inv
<1>5. \A p \in Said(es) : \E e \in es : p[1] = e.id
    BY DEF Said
<1>6. LastId(prev[s]) \in Nat /\ (\A e \in es : e.id \in Nat) /\ (\A p \in A : p[1] \in Nat)
    BY <1>1, <1>2, Bounds, PrevTyped, EventFields DEF Inv, Keyed, Entry
<1>7. Follows(A, Said(es))
    BY <1>1, <1>2, <1>5, <1>6 DEF Follows
<1>8. Anchored(s) = A \cup Said(es)
    BY DEF Anchored
<1>9. /\ Keyed(Anchored(s))
      /\ Cardinality(Anchored(s)) = Cardinality(A) + Cardinality(Said(es))
    BY <1>2, <1>3, <1>7, <1>8, KeyedUnion
<1>10. Story(Anchored(s)) = Story(A) \o Story(Said(es))
    BY <1>2, <1>3, <1>7, <1>8, StoryGoesOn
<1>11. seal.root = Story(Anchored(s)) /\ seal.count = Cardinality(Anchored(s))
    BY <1>2, <1>3, <1>9, <1>10 DEF SealOf, Fold
<1>12. \A p \in Anchored(s) : p[1] <= seal.last
    <2>1. \A p \in A : p[1] <= seal.last
        BY <1>1, <1>2, <1>4, <1>6
    <2>2. \A p \in Said(es) : p[1] <= seal.last
        BY <1>4, <1>5
    <2> QED
        BY <1>8, <2>1, <2>2
<1> HIDE DEF seal, es, A
<1>13. [seal |-> seal, says |-> Anchored(s)] \in Draft
    BY <1>4, <1>9 DEF Draft, Keyed
<1> QED
    BY <1>9, <1>11, <1>12, <1>13 DEF Stands, seal

----------------------------------------------------------------------------
(* The invariant of every step. *)

LEMMA InitInv == Init => Inv
<1> SUFFICES ASSUME Init PROVE Inv
    OBVIOUS
<1>1. Types
    BY Bounds, AuditAssumption DEF Init, Types, TypeOK, Scope
<1>2. IdsInv
    <2>1. Rows = {}
        BY DEF Init, Rows
    <2>2. \A w \in Writer : open[w] = {} /\ Cardinality(open[w]) = 0
        BY FS_EmptySet DEF Init
    <2>3. nextId = 1 /\ log = {}
        BY DEF Init
    <2>4. \A w \in Writer : (nextId - Cardinality(open[w])) .. (nextId - 1) = {}
        BY <2>2, <2>3
    <2> QED
        BY <2>1, <2>2, <2>3, <2>4 DEF IdsInv, Distinct
<1>3. SealInv
    BY DEF Init, SealInv
<1> QED
    BY <1>1, <1>2, <1>3 DEF Inv

\* What writers and the environment leave alone.
LEMMA SealsKeep ==
    ASSUME Inv, UNCHANGED <<seals, callVars, covered>>
    PROVE  SealInv'
BY DEF Inv, SealInv, callVars, Stands

LEMMA WriterInv ==
    ASSUME Inv, NEW w \in Writer, EmitEvent(w) \/ CommitTx(w) \/ RollbackTx(w)
    PROVE  Inv'
<1>1. UNCHANGED <<seals, callVars, covered, tampers>>
    BY DEF EmitEvent, CommitTx, RollbackTx
<1>2. SealInv'
    BY <1>1, SealsKeep
<1>3. CASE EmitEvent(w)
    <2>1. IdsInv'
        BY <1>3, EmitIds DEF Inv
    <2>2. nextId' \in 1 .. MaxEvents + 1 /\ log' = log
        BY <1>3, Bounds DEF EmitEvent, Inv, Types, TypeOK
    <2>3. open' \in [Writer -> SUBSET Event]
        <3>1. PICK c \in Content :
                open' = [open EXCEPT ![w] = @ \cup
                    {[id |-> nextId, content |-> c,
                      hash |-> IF nextId <= LegacyUpTo THEN NoHash ELSE c]}]
            BY <1>3 DEF EmitEvent
        <3>2. nextId \in EventId
            BY <1>3, Bounds DEF EmitEvent, Inv, Types, TypeOK
        <3>3. [id |-> nextId, content |-> c,
               hash |-> IF nextId <= LegacyUpTo THEN NoHash ELSE c] \in Event
            BY <3>2 DEF Event
        <3> QED
            BY <3>1, <3>3 DEF Inv, Types, TypeOK
    <2> QED
        BY <1>1, <1>2, <2>1, <2>2, <2>3 DEF Inv, Types, TypeOK, callVars
<1>4. CASE CommitTx(w)
    <2>1. IdsInv'
        BY <1>4, CommitIds DEF Inv
    <2> QED
        BY <1>1, <1>2, <1>4, <2>1 DEF CommitTx, Inv, Types, TypeOK, callVars
<1>5. CASE RollbackTx(w)
    <2>1. IdsInv' /\ nextId' \in 1 .. MaxEvents + 1
        BY <1>5, RollbackIds DEF Inv
    <2> QED
        BY <1>1, <1>2, <1>5, <2>1 DEF RollbackTx, Inv, Types, TypeOK, callVars
<1> QED
    BY <1>3, <1>4, <1>5

LEMMA TamperInv ==
    ASSUME Inv, Tamper
    PROVE  Inv'
<1>1. IdsInv' /\ log' \subseteq Event
    BY TamperIds DEF Inv
<1>2. UNCHANGED <<open, nextId, seals, callVars, covered>>
    BY DEF Tamper
<1>3. SealInv'
    BY <1>2, SealsKeep
<1>4. tampers' \in 0 .. MaxTampers
    BY AuditAssumption DEF Tamper, Inv, Types, TypeOK
<1> QED
    BY <1>1, <1>2, <1>3, <1>4 DEF Inv, Types, TypeOK, callVars

\* What sealers leave alone.
LEMMA IdsKeep ==
    ASSUME IdsInv, UNCHANGED writeVars
    PROVE  IdsInv' /\ Rows' = Rows
BY DEF IdsInv, writeVars, Rows

\* Of some seals one is the latest.
LEMMA Greatest ==
    ASSUME NEW S \in SUBSET Nat, S # {}, NEW b \in Nat, \A n \in S : n <= b
    PROVE  \E m \in S : \A n \in S : n <= m
<1> DEFINE T == {n \in Nat : \A k \in S : k <= n}
<1>1. T # {} /\ T \subseteq Nat
    OBVIOUS
<1>2. PICK m \in T : \A n \in T : ~ (<<n, m>> \in OpToRel(<, Nat))
    BY <1>1, NatLessThanWellFounded, WFMin
<1>3. ASSUME m \notin S PROVE FALSE
    <2>1. \A k \in S : k <= m - 1
        BY <1>3
    <2>2. m - 1 \in T
        <3>1. PICK k \in S : k <= m - 1
            BY <2>1
        <3> QED
            BY <2>1, <3>1
    <2>3. <<m - 1, m>> \in Nat \X Nat /\ <<m - 1, m>>[1] < <<m - 1, m>>[2]
        BY <2>2
    <2>4. <<m - 1, m>> \in OpToRel(<, Nat)
        BY <2>3, Zenon DEF OpToRel
    <2> QED
        BY <1>2, <2>2, <2>4
<1> QED
    BY <1>3

LEMMA LatestSealTyped ==
    ASSUME Types, NEW sc
    PROVE  /\ LatestSeal(sc) \in 0 .. Len(seals)
           /\ LatestSeal(sc) # 0 => seals[LatestSeal(sc)].scope = sc
<1>1. seals \in Seq(Seal)
    BY DEF Types, TypeOK
<1>2. SealsOf(sc) \subseteq 1 .. Len(seals) /\ Len(seals) \in Nat
    BY <1>1 DEF SealsOf
<1>3. CASE SealsOf(sc) = {}
    BY <1>2, <1>3 DEF LatestSeal
<1>4. CASE SealsOf(sc) # {}
    <2>1. \E i \in SealsOf(sc) : \A j \in SealsOf(sc) : j <= i
        <3>1. SealsOf(sc) \in SUBSET Nat /\ \A j \in SealsOf(sc) : j <= Len(seals)
            BY <1>2
        <3> QED
            BY <1>2, <1>4, <3>1, Greatest
    <2>2. LatestSeal(sc) \in SealsOf(sc)
        BY <1>4, <2>1 DEF LatestSeal
    <2> QED
        BY <1>2, <2>2 DEF SealsOf
<1> QED
    BY <1>3, <1>4

LEMMA ReadInv ==
    ASSUME Inv, NEW s \in Sealer, ReadLatestSeal(s)
    PROVE  Inv'
<1>1. PICK sc \in Scope :
        /\ scope' = [scope EXCEPT ![s] = sc]
        /\ prev' = [prev EXCEPT ![s] = LatestSeal(sc)]
    BY DEF ReadLatestSeal
<1>2. /\ UNCHANGED <<writeVars, seals, draft, covered, tampers>>
      /\ pc[s] = "idle" /\ pc' = [pc EXCEPT ![s] = "export"]
      /\ before' = [before EXCEPT ![s] = log]
    BY DEF ReadLatestSeal
<1>3. /\ LatestSeal(sc) \in 0 .. Len(seals)
      /\ LatestSeal(sc) # 0 => seals[LatestSeal(sc)].scope = sc
    BY LatestSealTyped DEF Inv
<1>4. Types'
    BY <1>1, <1>2, <1>3 DEF Inv, Types, TypeOK, writeVars
<1>5. IdsInv'
    BY <1>2, IdsKeep DEF Inv
<1>6. draft[s] = {}
    BY <1>2 DEF Inv, SealInv
<1>7. \A t \in Sealer : /\ scope'[t] = (IF t = s THEN sc ELSE scope[t])
                        /\ prev'[t] = (IF t = s THEN LatestSeal(sc) ELSE prev[t])
                        /\ pc'[t] = (IF t = s THEN "export" ELSE pc[t])
    BY <1>1, <1>2 DEF Inv, Types, TypeOK
<1>8. SealInv'
    BY <1>2, <1>3, <1>6, <1>7 DEF Inv, SealInv, Stands
<1> QED
    BY <1>4, <1>5, <1>8 DEF Inv

LEMMA ExportInv ==
    ASSUME Inv, NEW s \in Sealer, ExportNewEvents(s)
    PROVE  Inv'
<1>1. /\ UNCHANGED <<writeVars, seals, scope, prev, before, covered, tampers>>
      /\ pc[s] = "export"
    BY DEF ExportNewEvents
<1>2. IdsInv'
    BY <1>1, IdsKeep DEF Inv
<1>3. CASE NewEvents(s) = {}
    <2>1. pc' = [pc EXCEPT ![s] = "return"] /\ draft' = draft
        BY <1>3 DEF ExportNewEvents
    <2>2. Types'
        BY <1>1, <2>1 DEF Inv, Types, TypeOK, writeVars
    <2>3. SealInv'
        BY <1>1, <2>1 DEF Inv, SealInv, Stands, Types, TypeOK
    <2> QED
        BY <1>2, <2>2, <2>3 DEF Inv
<1>4. CASE NewEvents(s) # {}
    <2> DEFINE d == [seal |-> SealOf(s), says |-> Anchored(s)]
    <2>1. pc' = [pc EXCEPT ![s] = "insert"] /\ draft' = [draft EXCEPT ![s] = {d}]
        BY <1>4 DEF ExportNewEvents
    <2>2. d.seal = SealOf(s) /\ d.says = Anchored(s)
        OBVIOUS
    <2>3. d \in Draft /\ Stands(d.seal, d.says) /\ d.seal.scope = scope[s] /\ d.seal \in Seal
        BY <1>4, <2>2, AnchoredStands, SealOfTyped DEF Inv
    <2> HIDE DEF d
    <2>4. \A t \in Sealer : /\ draft'[t] = (IF t = s THEN {d} ELSE draft[t])
                            /\ pc'[t] = (IF t = s THEN "insert" ELSE pc[t])
        BY <2>1 DEF Inv, Types, TypeOK
    <2>5. Types'
        BY <1>1, <2>1, <2>3 DEF Inv, Types, TypeOK, writeVars
    <2>6. SealInv'
        BY <1>1, <2>3, <2>4 DEF Inv, SealInv, Stands
    <2> QED
        BY <1>2, <2>5, <2>6 DEF Inv
<1> QED
    BY <1>3, <1>4

\* The seals after one is added.
LEMMA Added ==
    ASSUME Inv, NEW s \in Sealer, AddSeal(s)
    PROVE  \E d \in draft[s] :
        /\ seals' = Append(seals, d.seal) /\ covered' = Append(covered, d.says)
        /\ d.seal \in Seal /\ d.says \in SUBSET Entry
        /\ Len(seals') = Len(seals) + 1 /\ Len(covered') = Len(covered) + 1
        /\ DOMAIN seals' = (DOMAIN seals) \cup {Len(seals) + 1}
        /\ Len(seals) + 1 \notin DOMAIN seals
        /\ seals'[Len(seals) + 1] = d.seal /\ covered'[Len(seals) + 1] = d.says
        /\ \A i \in DOMAIN seals : seals'[i] = seals[i] /\ covered'[i] = covered[i]
<1>1. PICK d \in draft[s] : seals' = Append(seals, d.seal) /\ covered' = Append(covered, d.says)
    BY DEF AddSeal
<1>2. d.seal \in Seal /\ d.says \in SUBSET Entry
    BY DEF Inv, Types, Draft
<1>3. seals \in Seq(Seal) /\ covered \in Seq(SUBSET Entry) /\ Len(covered) = Len(seals)
    BY DEF Inv, Types, TypeOK
<1> HIDE DEF Seal, Entry
<1>4. /\ Len(seals') = Len(seals) + 1 /\ Len(covered') = Len(covered) + 1
      /\ seals'[Len(seals) + 1] = d.seal /\ covered'[Len(seals) + 1] = d.says
    BY <1>1, <1>2, <1>3
<1>5. DOMAIN seals = 1 .. Len(seals) /\ DOMAIN seals' = 1 .. Len(seals) + 1 /\ Len(seals) \in Nat
    BY <1>1, <1>2, <1>3
<1>6. DOMAIN seals' = (DOMAIN seals) \cup {Len(seals) + 1} /\ Len(seals) + 1 \notin DOMAIN seals
    BY <1>5
<1>7. \A i \in 1 .. Len(seals) : seals'[i] = seals[i] /\ covered'[i] = covered[i]
    BY <1>1, <1>2, <1>3
<1> QED
    BY <1>1, <1>2, <1>4, <1>5, <1>6, <1>7

LEMMA AddInv ==
    ASSUME Inv, NEW s \in Sealer, AddSeal(s)
    PROVE  Inv'
<1>1. PICK d \in draft[s] :
        /\ seals' = Append(seals, d.seal) /\ covered' = Append(covered, d.says)
        /\ d.seal \in Seal /\ d.says \in SUBSET Entry
        /\ Len(seals') = Len(seals) + 1 /\ Len(covered') = Len(covered) + 1
        /\ DOMAIN seals' = (DOMAIN seals) \cup {Len(seals) + 1}
        /\ Len(seals) + 1 \notin DOMAIN seals
        /\ seals'[Len(seals) + 1] = d.seal /\ covered'[Len(seals) + 1] = d.says
        /\ \A i \in DOMAIN seals : seals'[i] = seals[i] /\ covered'[i] = covered[i]
    BY Added
<1>2. /\ UNCHANGED <<writeVars, scope, prev, before, tampers>>
      /\ pc' = [pc EXCEPT ![s] = "return"] /\ draft' = [draft EXCEPT ![s] = {}]
    BY DEF AddSeal
<1>3. IdsInv'
    BY <1>2, IdsKeep DEF Inv
<1>4. Stands(d.seal, d.says)
    BY DEF Inv, SealInv
<1>5. seals' \in Seq(Seal) /\ covered' \in Seq(SUBSET Entry)
    BY <1>1 DEF Inv, Types, TypeOK
<1>6. Types'
    BY <1>1, <1>2, <1>5 DEF Inv, Types, TypeOK, writeVars
<1>7. \A t \in Sealer : /\ draft'[t] = (IF t = s THEN {} ELSE draft[t])
                        /\ pc'[t] = (IF t = s THEN "return" ELSE pc[t])
    BY <1>2 DEF Inv, Types, TypeOK
<1>8. \A i \in DOMAIN seals' : Stands(seals'[i], covered'[i])
    BY <1>1, <1>4 DEF Inv, SealInv
<1>9. \A t \in Sealer : prev[t] # 0 => seals'[prev[t]].scope = scope[t]
    BY <1>1, PrevTyped DEF Inv, SealInv
<1>10. SealInv'
    BY <1>2, <1>7, <1>8, <1>9 DEF Inv, SealInv, Stands
<1> QED
    BY <1>3, <1>6, <1>10 DEF Inv

LEMMA ReturnInv ==
    ASSUME Inv, NEW s \in Sealer, Return(s)
    PROVE  Inv'
<1>1. IdsInv'
    BY IdsKeep DEF Return, Inv
<1>2. Types'
    BY DEF Return, Inv, Types, TypeOK, Scope, writeVars
<1>3. \A t \in Sealer : /\ scope'[t] = (IF t = s THEN Global ELSE scope[t])
                        /\ prev'[t] = (IF t = s THEN 0 ELSE prev[t])
                        /\ pc'[t] = (IF t = s THEN "idle" ELSE pc[t])
    BY DEF Return, Inv, Types, TypeOK
<1>4. draft[s] = {}
    BY DEF Return, Inv, SealInv
<1>5. SealInv'
    BY <1>3, <1>4 DEF Return, Inv, SealInv, Stands
<1> QED
    BY <1>1, <1>2, <1>5 DEF Inv

LEMMA StutterInv ==
    ASSUME Inv, UNCHANGED vars
    PROVE  Inv'
<1>1. IdsInv' /\ SealInv'
    BY IdsKeep, SealsKeep DEF Inv, vars, writeVars, callVars
<1> QED
    BY <1>1 DEF Inv, Types, TypeOK, vars

LEMMA NextInv == Inv /\ [Next]_vars => Inv'
<1> SUFFICES ASSUME Inv, [Next]_vars PROVE Inv'
    OBVIOUS
<1>1. ASSUME NEW w \in Writer, EmitEvent(w) \/ CommitTx(w) \/ RollbackTx(w) PROVE Inv'
    BY <1>1, WriterInv
<1>2. ASSUME NEW s \in Sealer, ReadLatestSeal(s) PROVE Inv'
    BY <1>2, ReadInv
<1>3. ASSUME NEW s \in Sealer, ExportNewEvents(s) PROVE Inv'
    BY <1>3, ExportInv
<1>4. ASSUME NEW s \in Sealer, AddSeal(s) PROVE Inv'
    BY <1>4, AddInv
<1>5. ASSUME NEW s \in Sealer, Return(s) PROVE Inv'
    BY <1>5, ReturnInv
<1>6. CASE Tamper
    BY <1>6, TamperInv
<1>7. CASE UNCHANGED vars
    BY <1>7, StutterInv
<1> QED
    BY <1>1, <1>2, <1>3, <1>4, <1>5, <1>6, <1>7 DEF Next, Done

LEMMA InvHolds == Spec => []Inv
BY InitInv, NextInv, PTL DEF Spec

----------------------------------------------------------------------------
(* The theorems that hold on every backend. *)

\* Every seal, whichever sealers raced for it, has a typed root, count and
\* boundary, and every event id ever given is within its bounds, rollbacks that
\* take ids back included (seal_audit_log, emit_event).
THEOREM TypeCorrect == Spec => []TypeOK
<1>1. Inv => TypeOK
    BY DEF Inv, Types
<1> QED
    BY <1>1, InvHolds, PTL

LEMMA LogDistinct ==
    ASSUME Inv, NEW sc, NEW last
    PROVE  UpTo(Exported(log, sc), last) \in SUBSET Event /\ Distinct(UpTo(Exported(log, sc), last))
BY RowsTyped DEF Inv, IdsInv, Distinct, UpTo, Exported

LEMMA Protects ==
    ASSUME Inv
    PROVE  SealedLogIsProtected
<1> SUFFICES ASSUME NEW i \in DOMAIN seals, VerifyOk(seals[i].scope)
             PROVE  Story(Contents(seals[i].scope, seals[i].last)) = Story(covered[i])
    BY DEF SealedLogIsProtected
<1> DEFINE sc == seals[i].scope
           sealed == UpTo(Exported(log, sc), seals[i].last)
<1>1. i \in SealsOf(sc) \ MissingSealed(sc)
    BY DEF VerifyOk, SealsOf
<1>2. Fold(sealed) = seals[i].root
    BY <1>1 DEF VerifyOk, SealMismatches
<1>3. \A e \in Exported(log, sc) : Effective(e) = e.content
    BY DEF VerifyOk, ContentMismatches, Effective
<1>4. Said(sealed) = Contents(sc, seals[i].last)
    BY <1>3 DEF Said, Contents, UpTo
<1>5. seals[i].root = Story(covered[i])
    BY DEF Inv, SealInv, Stands
<1> QED
    BY <1>2, <1>4, <1>5 DEF Fold

\* Whatever rewrites the rows of events, as often as it likes and before or
\* after they are sealed, verify_audit_chain reports as long as what some seal
\* anchored reads differently.
THEOREM NoSilentChange == Spec => []SealedLogIsProtected
BY InvHolds, Protects, PTL

----------------------------------------------------------------------------
(* Where event ids follow commits and nobody rewrites rows, a seal stands  *)
(* for all of its scope up to its boundary, and goes on doing so.          *)

Upto(es, seal) == UpTo(Exported(es, seal.scope), seal.last)

Mirrors(es, seal, says) ==
    /\ says = {<<e.id, e.content>> : e \in Upto(es, seal)}
    /\ \E e \in Exported(es, seal.scope) : e.id = seal.last

\* What a call knows of the events that were there when it began.
Covers(s) ==
    /\ before[s] \subseteq log
    /\ pc[s] = "insert" =>
           \A d \in draft[s], e \in Exported(before[s], scope[s]) : <<e.id, e.content>> \in d.says
    /\ pc[s] = "return" =>
           \A e \in Exported(before[s], scope[s]) :
               \E i \in SealsOf(scope[s]) : <<e.id, e.content>> \in covered[i]

HonestInv ==
    tampers = 0 =>
        /\ \A e \in Rows : Effective(e) = e.content
        /\ CommitOrdered =>
            /\ \A i \in DOMAIN seals : Mirrors(log, seals[i], covered[i])
            /\ \A s \in Sealer : \A d \in draft[s] : Mirrors(log, d.seal, d.says)
            /\ \A s \in Sealer : Covers(s)

\* Later events leave what a seal stands for alone.
LEMMA MirrorsGrow ==
    ASSUME NEW es \in SUBSET Event, NEW fs \in SUBSET Event, es \subseteq fs,
           \A e \in es, f \in fs \ es : e.id < f.id,
           NEW seal, seal.last \in Nat, NEW says, Mirrors(es, seal, says)
    PROVE  Mirrors(fs, seal, says)
<1>1. PICK b \in Exported(es, seal.scope) : b.id = seal.last
    BY DEF Mirrors
<1>2. b \in es
    BY DEF Exported
<1>3. \A f \in fs : f.id \in Nat /\ (f.id <= seal.last => f \in es)
    BY <1>1, <1>2, EventFields
<1>4. Exported(es, seal.scope) \subseteq Exported(fs, seal.scope)
    BY DEF Exported
<1>5. Upto(fs, seal) = Upto(es, seal)
    BY <1>3 DEF Upto, UpTo, Exported
<1> QED
    BY <1>1, <1>4, <1>5 DEF Mirrors

LEMMA CommitGrows ==
    ASSUME Inv, CommitOrdered, NEW w \in Writer, CommitTx(w)
    PROVE  \A e \in log, f \in log' \ log : e.id < f.id
<1> SUFFICES ASSUME NEW e \in log, NEW f \in log' \ log PROVE e.id < f.id
    OBVIOUS
<1>1. f \in open[w]
    BY DEF CommitTx
<1>2. f.id \in (nextId - Cardinality(open[w])) .. (nextId - 1)
    BY <1>1 DEF Inv, IdsInv
<1>3. e.id < nextId - Cardinality(open[w])
    BY DEF Inv, IdsInv
<1>4. e.id \in Nat /\ f.id \in Nat /\ Cardinality(open[w]) \in Nat /\ nextId \in Nat
    BY <1>1, Bounds, RowsTyped, EventFields, OpenFinite DEF Inv, Types, TypeOK
<1> QED
    BY <1>2, <1>3, <1>4

LEMMA SealFields ==
    ASSUME Inv
    PROVE  /\ \A i \in DOMAIN seals : seals[i] \in Seal /\ seals[i].last \in Nat
           /\ \A s \in Sealer : \A d \in draft[s] : d.seal.last \in Nat
<1>1. \A i \in DOMAIN seals : seals[i] \in Seal
    BY DEF Inv, Types, TypeOK
<1>2. \A s \in Sealer : \A d \in draft[s] : d.seal \in Seal
    BY DEF Inv, Types, Draft
<1>3. ASSUME NEW seal \in Seal PROVE seal.last \in Nat
    BY Bounds DEF Seal
<1> QED
    BY <1>1, <1>2, <1>3

\* The new seal stands for its whole scope.
LEMMA AnchoredMirrors ==
    ASSUME Inv, HonestInv, CommitOrdered, tampers = 0,
           NEW s \in Sealer, NewEvents(s) # {}
    PROVE  /\ Mirrors(log, SealOf(s), Anchored(s))
           /\ \A e \in Exported(log, scope[s]) : <<e.id, e.content>> \in Anchored(s)
<1> DEFINE es == NewEvents(s)
           last == SealOf(s).last
           all == Exported(log, scope[s])
           A == IF prev[s] = 0 THEN {} ELSE covered[prev[s]]
           from == LastId(prev[s])
<1>1. /\ SealOf(s).scope = scope[s] /\ last \in Nat
      /\ \E e \in es : e.id = last
      /\ \A e \in es : e.id <= last
    BY SealOfTyped, Bounds DEF Inv, Seal
<1>2. es = {e \in all : e.id > from} /\ from \in Nat
    BY PrevTyped DEF NewEvents, Inv
<1>3. \A e \in all : e.id \in Nat /\ e.id > 0 /\ Effective(e) = e.content
    BY RowsTyped, EventFields DEF Inv, HonestInv, Exported
<1>4. A = {<<e.id, e.content>> : e \in {f \in all : f.id <= from}}
    <2>1. CASE prev[s] = 0
        BY <1>3, <2>1 DEF LastId
    <2>2. CASE prev[s] # 0
        <3>1. prev[s] \in DOMAIN seals /\ seals[prev[s]].scope = scope[s]
            BY <2>2, PrevTyped DEF Inv, SealInv
        <3>2. Mirrors(log, seals[prev[s]], covered[prev[s]])
            BY <3>1 DEF HonestInv
        <3> QED
            BY <2>2, <3>1, <3>2 DEF Mirrors, Upto, UpTo, LastId
    <2> QED
        BY <2>1, <2>2
<1>5. Said(es) = {<<e.id, e.content>> : e \in es}
    BY <1>2, <1>3 DEF Said
<1>6. Anchored(s) = A \cup Said(es)
    BY DEF Anchored
<1> HIDE DEF es, last, all, A, from
<1>7. \A e \in all : e.id <= from \/ e \in es
    BY <1>2, <1>3
<1>8. \A e \in all : e.id <= last
    BY <1>1, <1>2, <1>3, <1>7
<1>9. Anchored(s) = {<<e.id, e.content>> : e \in all}
    BY <1>2, <1>4, <1>5, <1>6, <1>7
<1>10. Upto(log, SealOf(s)) = all
    BY <1>1, <1>8 DEF Upto, UpTo, all, last
<1>11. \E e \in all : e.id = last
    BY <1>1, <1>2
<1> QED
    BY <1>1, <1>9, <1>10, <1>11 DEF Mirrors, all, last

\* A call keeps what it knows while others go on.
LEMMA CoversKeep ==
    ASSUME NEW s \in Sealer, Covers(s),
           before'[s] = before[s], pc'[s] = pc[s], scope'[s] = scope[s], draft'[s] = draft[s],
           log \subseteq log',
           \A i \in DOMAIN seals :
               i \in DOMAIN seals' /\ seals'[i] = seals[i] /\ covered'[i] = covered[i]
    PROVE  Covers(s)'
<1>1. SealsOf(scope[s]) \subseteq SealsOf(scope[s])'
    BY DEF SealsOf
<1>2. \A i \in SealsOf(scope[s]) : covered'[i] = covered[i]
    BY DEF SealsOf
<1> QED
    BY <1>1, <1>2 DEF Covers

LEMMA HonestInit == Init => HonestInv
BY DEF Init, HonestInv, Rows, Covers

LEMMA HonestWriter ==
    ASSUME Inv, HonestInv, NEW w \in Writer, EmitEvent(w) \/ CommitTx(w) \/ RollbackTx(w)
    PROVE  HonestInv'
<1>1. UNCHANGED <<seals, callVars, covered, tampers>>
    BY DEF EmitEvent, CommitTx, RollbackTx
<1>2. log \subseteq log'
    BY DEF EmitEvent, CommitTx, RollbackTx
<1>3. SUFFICES ASSUME tampers = 0
      PROVE  /\ \A e \in Rows' : Effective(e) = e.content
             /\ CommitOrdered =>
                 /\ \A i \in DOMAIN seals : Mirrors(log', seals[i], covered[i])
                 /\ \A s \in Sealer : \A d \in draft[s] : Mirrors(log', d.seal, d.says)
                 /\ \A s \in Sealer : Covers(s)'
    BY <1>1 DEF HonestInv, callVars
<1>4. \A e \in Rows' : Effective(e) = e.content
    <2>1. CASE EmitEvent(w)
        <3>1. PICK c \in Content :
                open' = [open EXCEPT ![w] = @ \cup
                    {[id |-> nextId, content |-> c,
                      hash |-> IF nextId <= LegacyUpTo THEN NoHash ELSE c]}]
            BY <2>1 DEF EmitEvent
        <3> DEFINE new == [id |-> nextId, content |-> c,
                           hash |-> IF nextId <= LegacyUpTo THEN NoHash ELSE c]
        <3>2. Effective(new) = new.content
            BY DEF Effective
        <3> HIDE DEF new
        <3>3. Rows' \subseteq Rows \cup {new}
            BY <2>1, <3>1 DEF EmitEvent, Rows, Inv, Types, TypeOK, new
        <3> QED
            BY <1>3, <3>2, <3>3 DEF HonestInv
    <2>2. CASE CommitTx(w)
        <3>1. Rows' = Rows
            BY <2>2, CommitIds DEF Inv
        <3> QED
            BY <1>3, <3>1 DEF HonestInv
    <2>3. CASE RollbackTx(w)
        <3>1. Rows' \subseteq Rows
            BY <2>3, RollbackIds DEF Inv
        <3> QED
            BY <1>3, <3>1 DEF HonestInv
    <2> QED
        BY <2>1, <2>2, <2>3
<1>5. ASSUME CommitOrdered, NEW s \in Sealer PROVE Covers(s)'
    <2>1. Covers(s)
        BY <1>3, <1>5 DEF HonestInv
    <2> QED
        BY <1>1, <1>2, <2>1, CoversKeep DEF callVars
<1>6. ASSUME CommitOrdered, NEW seal, seal.last \in Nat, NEW says, Mirrors(log, seal, says)
      PROVE  Mirrors(log', seal, says)
    <2>1. CASE log' = log
        BY <1>6, <2>1
    <2>2. CASE CommitTx(w)
        <3>1. \A e \in log, f \in log' \ log : e.id < f.id
            BY <1>6, <2>2, CommitGrows
        <3>2. log \in SUBSET Event /\ log' \in SUBSET Event
            BY <2>2 DEF CommitTx, Inv, Types, TypeOK
        <3> QED
            BY <1>2, <1>6, <3>1, <3>2, MirrorsGrow
    <2> QED
        BY <2>1, <2>2 DEF EmitEvent, RollbackTx
<1>7. ASSUME CommitOrdered
      PROVE  /\ \A i \in DOMAIN seals : Mirrors(log', seals[i], covered[i])
             /\ \A s \in Sealer : \A d \in draft[s] : Mirrors(log', d.seal, d.says)
    BY <1>3, <1>6, <1>7, SealFields DEF HonestInv
<1> QED
    BY <1>4, <1>5, <1>7

LEMMA HonestRead ==
    ASSUME Inv, HonestInv, NEW s \in Sealer, ReadLatestSeal(s)
    PROVE  HonestInv'
<1>1. /\ UNCHANGED <<writeVars, seals, draft, covered, tampers>>
      /\ pc' = [pc EXCEPT ![s] = "export"] /\ before' = [before EXCEPT ![s] = log]
    BY DEF ReadLatestSeal
<1>2. PICK sc \in Scope : scope' = [scope EXCEPT ![s] = sc]
    BY DEF ReadLatestSeal
<1>3. Rows' = Rows /\ log' = log
    BY <1>1 DEF Rows, writeVars
<1>4. \A t \in Sealer \ {s} : before'[t] = before[t] /\ pc'[t] = pc[t] /\ scope'[t] = scope[t]
    BY <1>1, <1>2 DEF Inv, Types, TypeOK
<1>5. pc'[s] = "export" /\ before'[s] = log
    BY <1>1 DEF Inv, Types, TypeOK
<1>6. Covers(s)'
    BY <1>3, <1>5 DEF Covers
<1>7. ASSUME NEW t \in Sealer \ {s}, Covers(t) PROVE Covers(t)'
    BY <1>1, <1>3, <1>4, <1>7, CoversKeep
<1> QED
    BY <1>1, <1>3, <1>6, <1>7 DEF HonestInv

LEMMA HonestExport ==
    ASSUME Inv, HonestInv, NEW s \in Sealer, ExportNewEvents(s)
    PROVE  HonestInv'
<1>1. /\ UNCHANGED <<writeVars, seals, scope, prev, before, covered, tampers>>
      /\ pc[s] = "export"
    BY DEF ExportNewEvents
<1>2. Rows' = Rows /\ log' = log
    BY <1>1 DEF Rows, writeVars
<1>3. \A t \in Sealer \ {s} : pc'[t] = pc[t] /\ draft'[t] = draft[t]
    BY DEF ExportNewEvents, Inv, Types, TypeOK
<1>4. ASSUME NEW t \in Sealer \ {s}, Covers(t) PROVE Covers(t)'
    BY <1>1, <1>2, <1>3, <1>4, CoversKeep
<1>5. SUFFICES ASSUME tampers = 0, CommitOrdered
      PROVE  (\A d \in draft'[s] : Mirrors(log, d.seal, d.says)) /\ Covers(s)'
    BY <1>1, <1>2, <1>3, <1>4 DEF HonestInv
<1>6. before[s] \subseteq log
    BY <1>5 DEF HonestInv, Covers
<1>7. CASE NewEvents(s) = {}
    <2>1. pc' = [pc EXCEPT ![s] = "return"] /\ draft' = draft
        BY <1>7 DEF ExportNewEvents
    <2>2. pc'[s] = "return" /\ draft'[s] = {}
        BY <1>1, <2>1 DEF Inv, Types, TypeOK, SealInv
    <2>3. ASSUME NEW e \in Exported(before[s], scope[s])
          PROVE  \E i \in SealsOf(scope[s]) : <<e.id, e.content>> \in covered[i]
        <3>1. e \in Exported(log, scope[s]) /\ e \in log
            BY <1>6 DEF Exported
        <3>2. e.id \in Nat /\ e.id > 0
            BY <3>1, RowsTyped, EventFields DEF Inv
        <3>3. e.id <= LastId(prev[s])
            BY <1>7, <3>1, <3>2, PrevTyped DEF NewEvents, Inv
        <3>4. prev[s] # 0
            BY <3>2, <3>3 DEF LastId
        <3>5. prev[s] \in DOMAIN seals /\ seals[prev[s]].scope = scope[s]
            BY <3>4, PrevTyped DEF Inv, SealInv
        <3>6. Mirrors(log, seals[prev[s]], covered[prev[s]])
            BY <1>5, <3>5 DEF HonestInv
        <3>7. <<e.id, e.content>> \in covered[prev[s]]
            BY <3>1, <3>3, <3>4, <3>5, <3>6 DEF Mirrors, Upto, UpTo, LastId
        <3> QED
            BY <3>5, <3>7 DEF SealsOf
    <2>4. Covers(s)'
        BY <1>1, <1>2, <1>6, <2>2, <2>3 DEF Covers, SealsOf
    <2> QED
        BY <2>2, <2>4
<1>8. CASE NewEvents(s) # {}
    <2> DEFINE d == [seal |-> SealOf(s), says |-> Anchored(s)]
    <2>1. pc'[s] = "insert" /\ draft'[s] = {d}
        BY <1>8 DEF ExportNewEvents, Inv, Types, TypeOK
    <2>2. d.seal = SealOf(s) /\ d.says = Anchored(s)
        OBVIOUS
    <2>3. /\ Mirrors(log, d.seal, d.says)
          /\ \A e \in Exported(log, scope[s]) : <<e.id, e.content>> \in d.says
        BY <1>5, <1>8, <2>2, AnchoredMirrors
    <2> HIDE DEF d
    <2>4. Exported(before[s], scope[s]) \subseteq Exported(log, scope[s])
        BY <1>6 DEF Exported
    <2>5. Covers(s)'
        BY <1>1, <1>2, <1>6, <2>1, <2>3, <2>4 DEF Covers
    <2> QED
        BY <2>1, <2>3, <2>5
<1> QED
    BY <1>7, <1>8

LEMMA HonestAdd ==
    ASSUME Inv, HonestInv, NEW s \in Sealer, AddSeal(s)
    PROVE  HonestInv'
<1>1. PICK d \in draft[s] :
        /\ seals' = Append(seals, d.seal) /\ covered' = Append(covered, d.says)
        /\ d.seal \in Seal /\ d.says \in SUBSET Entry
        /\ Len(seals') = Len(seals) + 1 /\ Len(covered') = Len(covered) + 1
        /\ DOMAIN seals' = (DOMAIN seals) \cup {Len(seals) + 1}
        /\ Len(seals) + 1 \notin DOMAIN seals
        /\ seals'[Len(seals) + 1] = d.seal /\ covered'[Len(seals) + 1] = d.says
        /\ \A i \in DOMAIN seals : seals'[i] = seals[i] /\ covered'[i] = covered[i]
    BY Added
<1>2. UNCHANGED <<writeVars, scope, prev, before, tampers>> /\ pc[s] = "insert"
    BY DEF AddSeal
<1>3. Rows' = Rows /\ log' = log
    BY <1>2 DEF Rows, writeVars
<1>4. /\ pc'[s] = "return" /\ draft'[s] = {}
      /\ \A t \in Sealer \ {s} : pc'[t] = pc[t] /\ draft'[t] = draft[t]
    BY DEF AddSeal, Inv, Types, TypeOK
<1>5. ASSUME NEW t \in Sealer \ {s}, Covers(t) PROVE Covers(t)'
    <2>1. \A i \in DOMAIN seals :
            i \in DOMAIN seals' /\ seals'[i] = seals[i] /\ covered'[i] = covered[i]
        BY <1>1
    <2> QED
        BY <1>2, <1>3, <1>4, <1>5, <2>1, CoversKeep
<1>6. ASSUME tampers = 0, CommitOrdered
      PROVE  (\A i \in DOMAIN seals' : Mirrors(log, seals'[i], covered'[i])) /\ Covers(s)'
    <2>1. \A i \in DOMAIN seals' : Mirrors(log, seals'[i], covered'[i])
        BY <1>1, <1>6 DEF HonestInv
    <2>2. Covers(s)
        BY <1>6 DEF HonestInv
    <2>3. \A e \in Exported(before[s], scope[s]) : <<e.id, e.content>> \in d.says
        BY <1>2, <2>2 DEF Covers
    <2>4. d.seal.scope = scope[s]
        BY DEF Inv, SealInv
    <2>5. Len(seals) + 1 \in SealsOf(scope[s])'
        BY <1>1, <1>2, <2>4 DEF SealsOf
    <2>6. Covers(s)'
        BY <1>1, <1>2, <1>3, <1>4, <2>2, <2>3, <2>5 DEF Covers
    <2> QED
        BY <2>1, <2>6
<1> QED
    BY <1>2, <1>3, <1>4, <1>5, <1>6 DEF HonestInv

LEMMA HonestReturn ==
    ASSUME Inv, HonestInv, NEW s \in Sealer, Return(s)
    PROVE  HonestInv'
<1>1. UNCHANGED <<writeVars, seals, draft, covered, tampers>>
    BY DEF Return
<1>2. Rows' = Rows /\ log' = log
    BY <1>1 DEF Rows, writeVars
<1>3. /\ pc'[s] = "idle" /\ before'[s] = {}
      /\ \A t \in Sealer \ {s} : before'[t] = before[t] /\ pc'[t] = pc[t] /\ scope'[t] = scope[t]
    BY DEF Return, Inv, Types, TypeOK
<1>4. Covers(s)'
    BY <1>3 DEF Covers
<1>5. ASSUME NEW t \in Sealer \ {s}, Covers(t) PROVE Covers(t)'
    BY <1>1, <1>2, <1>3, <1>5, CoversKeep
<1> QED
    BY <1>1, <1>2, <1>4, <1>5 DEF HonestInv

LEMMA HonestStutter ==
    ASSUME HonestInv, UNCHANGED vars
    PROVE  HonestInv'
<1>1. Rows' = Rows
    BY DEF Rows, vars
<1>2. ASSUME NEW t \in Sealer, Covers(t) PROVE Covers(t)'
    BY <1>2, CoversKeep DEF vars
<1> QED
    BY <1>1, <1>2 DEF HonestInv, vars

LEMMA HonestNext == Inv /\ HonestInv /\ [Next]_vars => HonestInv'
<1> SUFFICES ASSUME Inv, HonestInv, [Next]_vars PROVE HonestInv'
    OBVIOUS
<1>1. ASSUME NEW w \in Writer, EmitEvent(w) \/ CommitTx(w) \/ RollbackTx(w) PROVE HonestInv'
    BY <1>1, HonestWriter
<1>2. ASSUME NEW s \in Sealer, ReadLatestSeal(s) PROVE HonestInv'
    BY <1>2, HonestRead
<1>3. ASSUME NEW s \in Sealer, ExportNewEvents(s) PROVE HonestInv'
    BY <1>3, HonestExport
<1>4. ASSUME NEW s \in Sealer, AddSeal(s) PROVE HonestInv'
    BY <1>4, HonestAdd
<1>5. ASSUME NEW s \in Sealer, Return(s) PROVE HonestInv'
    BY <1>5, HonestReturn
<1>6. CASE Tamper
    BY <1>6 DEF Tamper, Inv, Types, TypeOK, HonestInv
<1>7. CASE UNCHANGED vars
    BY <1>7, HonestStutter
<1> QED
    BY <1>1, <1>2, <1>3, <1>4, <1>5, <1>6, <1>7 DEF Next, Done

LEMMA HonestHolds == Spec => []HonestInv
BY HonestInit, InvHolds, HonestNext, PTL DEF Spec

LEMMA Verifies ==
    ASSUME Inv, HonestInv, CommitOrdered, tampers = 0, NEW sc
    PROVE  VerifyOk(sc)
<1>1. \A e \in Exported(log, sc) : Effective(e) = e.content
    BY RowsTyped DEF Inv, HonestInv, Exported
<1>2. ContentMismatches(sc) = {}
    BY <1>1 DEF ContentMismatches, Effective
<1>3. \A i \in SealsOf(sc) : Mirrors(log, seals[i], covered[i]) /\ seals[i].scope = sc
    BY DEF SealsOf, HonestInv
<1>4. MissingSealed(sc) = {}
    BY <1>3 DEF MissingSealed, Mirrors
<1>5. ASSUME NEW i \in SealsOf(sc)
      PROVE  LET sealed == UpTo(Exported(log, sc), seals[i].last)
             IN Fold(sealed) = seals[i].root /\ Cardinality(sealed) = seals[i].count
    <2> DEFINE sealed == UpTo(Exported(log, sc), seals[i].last)
    <2>1. Said(sealed) = covered[i]
        BY <1>1, <1>3 DEF Mirrors, Upto, UpTo, Said
    <2>2. Cardinality(Said(sealed)) = Cardinality(sealed)
        BY LogDistinct, SaidKeyed
    <2>3. seals[i].root = Story(covered[i]) /\ seals[i].count = Cardinality(covered[i])
        BY DEF Inv, SealInv, Stands, SealsOf
    <2> QED
        BY <2>1, <2>2, <2>3 DEF Fold
<1>6. SealMismatches(sc) = {}
    BY <1>5 DEF SealMismatches
<1> QED
    BY <1>2, <1>4, <1>6 DEF VerifyOk

\* No false alarm where ids follow commits, as on SQLite: seals folded piece by
\* piece by sealers that raced each other verify against one fold of the whole
\* log, in every scope.
THEOREM NoFalseAlarm ==
    ASSUME CommitOrdered
    PROVE  Spec => []HonestLogVerifies
<1>1. Inv /\ HonestInv => HonestLogVerifies
    BY Verifies DEF HonestLogVerifies
<1> QED
    BY <1>1, InvHolds, HonestHolds, PTL

\* Where ids follow commits, an event that was in the log when seal_audit_log
\* began is behind some seal when it returns, though another sealer may have
\* sealed it first.
THEOREM NothingEscapesTheSeal ==
    ASSUME CommitOrdered
    PROVE  Spec => []SealCovers
<1>1. Inv /\ HonestInv => SealCovers
    BY DEF HonestInv, SealCovers, Covers
<1> QED
    BY <1>1, InvHolds, HonestHolds, PTL
=============================================================================
