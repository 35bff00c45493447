---------------------------- MODULE DbSyncProofs ----------------------------
(***************************************************************************)
(* Theorems about DbSync for every table, every links between its rows and *)
(* every number of scans, runs and aborts: what the run "sync" checks on   *)
(* three rows.                                                             *)
(*                                                                         *)
(* None of the three invariants is inductive.  RunInv ties the row in hand *)
(* to the phase; GoldenInv and GatherInv add what is already true of that  *)
(* row and its cluster between two commits of its reconciliation.          *)
(***************************************************************************)
EXTENDS DbSync, FiniteSetTheorems, TLAPS

Busy == {"join", "publish", "insert"}

\* The row in hand is one the run has read, and there is none between two rows.
RunInv ==
    /\ phase \in Busy => row \in todo /\ target \in Cluster
    /\ phase \notin Busy => row = NoRow /\ target = 0
    /\ phase \notin {"join", "publish"} => stale = {}

\* What makes the golden records right when the row is done: the merged clusters
\* are empty, the row is in its cluster, and the cluster's old version is demoted.
GoldenInv ==
    /\ \A c \in stale : c # target => Members(c) = {}
    /\ phase \in {"publish", "insert"} => <<target, row>> \in member
    /\ phase = "insert" => Published(target) = {}
    /\ GoldenTracksMembers

\* What makes the row share clusters when it is done: every settled row it
\* matches is in its cluster already.
GatherInv ==
    /\ \A s \in settled : Owners(s) # {}
    /\ phase \in {"publish", "insert"} => <<target, row>> \in member
    /\ phase \in Busy =>
        \A s \in settled : {row, s} \in Link => <<target, s>> \in member \/ row \in capped
    /\ IncrementalGathers

----------------------------------------------------------------------------
(* Facts about the definitions. *)

LEMMA ClusterNat == Cluster \subseteq Nat \ {0}
<1>1. MaxRuns * Cardinality(Record) \in Nat
    BY SyncAssumption, FS_CardinalityType
<1> QED
    BY <1>1 DEF Cluster

\* The ids the batch pipeline gives its clusters are numbers.
LEMMA EntitiesFinite ==
    ASSUME TypeOK
    PROVE  Cardinality(Entities) \in Nat
<1>1. IsFiniteSet(todo)
    <2>1. todo \subseteq Record
        BY DEF TypeOK
    <2> QED
        BY <2>1, SyncAssumption, FS_Subset
<1>2. IsFiniteSet(SUBSET todo)
    BY <1>1, FS_SUBSET
<1>3. Entities \subseteq SUBSET todo
    BY DEF Entities
<1>4. IsFiniteSet(Entities)
    BY <1>2, <1>3, FS_Subset
<1> QED
    BY <1>4, FS_CardinalityType

\* What a lookup returns: clusters, among them one of every matched row that has any.
LEMMA LookupsSound ==
    ASSUME NEW r, NEW cs \in Lookups(r)
    PROVE  /\ cs \subseteq Cluster
           /\ \A s \in Matches(r) : Owners(s) # {} => \E c \in cs : c \in Owners(s)
<1> DEFINE owned == {s \in Matches(r) : Owners(s) # {}}
<1>1. PICK pick \in [owned -> Cluster] :
        /\ \A s \in owned : pick[s] \in Owners(s)
        /\ cs = {pick[s] : s \in owned}
    BY Zenon DEF Lookups
<1>2. cs \subseteq Cluster
    BY <1>1
<1>3. ASSUME NEW s \in Matches(r), Owners(s) # {} PROVE \E c \in cs : c \in Owners(s)
    <2>1. s \in owned
        BY <1>3
    <2>2. pick[s] \in cs /\ pick[s] \in Owners(s)
        BY <2>1, <1>1
    <2> QED
        BY <2>2
<1> QED
    BY <1>2, <1>3

\* CreateCluster, JoinCluster and JoinBest put the row into one cluster.
Takes(r, c) ==
    /\ phase = "match" /\ r \in todo
    /\ Join(c, r)
    /\ Take(r, c, "publish")
    /\ stale' = stale
    /\ capped' \in {capped, capped \cup {r}}

LEMMA TakesOne ==
    ASSUME NEW r \in Record, CreateCluster(r) \/ JoinCluster(r) \/ JoinBest(r)
    PROVE  \E c \in Cluster : Takes(r, c)
<1>1. CASE CreateCluster(r)
    BY <1>1 DEF CreateCluster, Takes
<1>2. CASE JoinCluster(r)
    BY <1>2 DEF JoinCluster, Takes
<1>3. CASE JoinBest(r)
    <2>1. PICK cs \in Lookups(r) : \E c \in cs : Join(c, r) /\ Take(r, c, "publish")
        BY <1>3 DEF JoinBest
    <2>2. cs \subseteq Cluster
        BY LookupsSound
    <2> QED
        BY <1>3, <2>1, <2>2 DEF JoinBest, Takes
<1> QED
    BY <1>1, <1>2, <1>3

\* A merge, with the clusters it gathers and the one that survives.
Merges(r, cs, c) ==
    /\ cs \in Lookups(r) /\ c \in cs /\ cs \subseteq Cluster
    /\ phase = "match" /\ r \in todo
    /\ member' = Moved(cs, c)
    /\ Take(r, c, "join")
    /\ stale' = cs
    /\ UNCHANGED capped

LEMMA MergesSome ==
    ASSUME NEW r \in Record, MergeClusters(r)
    PROVE  \E cs, c : Merges(r, cs, c)
<1>1. PICK cs \in Lookups(r) : \E c \in cs :
        member' = Moved(cs, c) /\ Take(r, c, "join") /\ stale' = cs
    BY DEF MergeClusters
<1>2. cs \subseteq Cluster
    BY LookupsSound
<1> QED
    BY <1>1, <1>2 DEF MergeClusters, Merges

\* Where Moved leaves the members.
LEMMA MovedSound ==
    ASSUME NEW cs, NEW c \in cs, cs \subseteq Cluster, member \subseteq Cluster \X Record,
           member' = Moved(cs, c)
    PROVE  /\ member' \subseteq Cluster \X Record
           /\ \A d \in cs, s \in Record : <<d, s>> \in member => <<c, s>> \in member'
           /\ \A d \in Cluster \ cs, s \in Record : <<d, s>> \in member <=> <<d, s>> \in member'
           /\ \A d \in cs \ {c}, s \in Record : <<d, s>> \notin member'
BY DEF Moved

----------------------------------------------------------------------------
(* Types, and the row in hand. *)

LEMMA InitTypes == Init => TypeOK /\ RunInv
<1> SUFFICES ASSUME Init PROVE TypeOK /\ RunInv
    OBVIOUS
<1>1. scans \in 0 .. MaxScans /\ runs \in 0 .. MaxRuns /\ aborts \in 0 .. MaxAborts
    BY SyncAssumption DEF Init
<1>2. /\ table \subseteq Record /\ member \subseteq Cluster \X Record /\ golden \subseteq Golden
      /\ synced \in BOOLEAN /\ phase \in Phase
    BY DEF Init, Phase
<1> QED
    BY <1>1, <1>2 DEF Init, TypeOK, RunInv, Busy

LEMMA TakesTypes ==
    ASSUME TypeOK, RunInv, NEW r \in Record, NEW c \in Cluster, Takes(r, c)
    PROVE  TypeOK' /\ RunInv'
BY DEF TypeOK, RunInv, Busy, Phase, Takes, Take, Join, count

LEMMA MergesTypes ==
    ASSUME TypeOK, RunInv, NEW r \in Record, NEW cs, NEW c, Merges(r, cs, c)
    PROVE  TypeOK' /\ RunInv'
<1>1. member' \subseteq Cluster \X Record
    BY MovedSound DEF Merges, TypeOK
<1>2. r \in todo' /\ c \in Cluster
    BY DEF Merges, Take, count
<1> QED
    BY <1>1, <1>2 DEF TypeOK, RunInv, Busy, Phase, Merges, Take, count

LEMMA ScanTypes ==
    ASSUME TypeOK, RunInv, BeginScan \/ WriteScan \/ EndScan
    PROVE  TypeOK' /\ RunInv'
<1> USE SyncAssumption DEF TypeOK, RunInv, Busy, Phase, work, tables, count, history
<1>1. CASE BeginScan
    BY <1>1 DEF BeginScan
<1>2. CASE WriteScan
    <2>1. PICK id \in [Entities -> 1 .. Cardinality(Entities)] :
            golden' = golden \cup
                {[cluster |-> id[S], sources |-> {}, by |-> "scan"] :
                    S \in {S \in Entities : Cardinality(S) > 1}}
        BY <1>2, Zenon DEF WriteScan
    <2>2. \A S \in Entities : id[S] \in Nat
        BY <2>1, EntitiesFinite
    <2>3. golden' \subseteq Golden
        BY <2>1, <2>2 DEF Golden
    <2> QED
        BY <1>2, <2>3 DEF WriteScan
<1>3. CASE EndScan
    BY <1>3 DEF EndScan
<1> QED
    BY <1>1, <1>2, <1>3

LEMMA GoldenTypes ==
    ASSUME TypeOK, RunInv,
           JoinSurvivor \/ (\E c \in Cluster : RetireMerged(c)) \/ DemoteCurrent \/ InsertVersion
    PROVE  TypeOK' /\ RunInv'
<1> USE DEF TypeOK, RunInv, Busy, Phase, work, tables, count, history
<1>1. CASE JoinSurvivor
    BY <1>1 DEF JoinSurvivor, Join
<1>2. ASSUME NEW c \in Cluster, RetireMerged(c) PROVE TypeOK' /\ RunInv'
    BY <1>2 DEF RetireMerged, MarkNotCurrent
<1>3. CASE DemoteCurrent
    BY <1>3 DEF DemoteCurrent, MarkNotCurrent
<1>4. CASE InsertVersion
    <2>1. [cluster |-> target, sources |-> Members(target), by |-> "sync"] \in Golden
        BY <1>4, ClusterNat DEF InsertVersion, Golden, Members
    <2> QED
        BY <1>4, <2>1 DEF InsertVersion
<1> QED
    BY <1>1, <1>2, <1>3, <1>4

LEMMA RunTypes ==
    ASSUME TypeOK, RunInv,
           \/ \E r \in Record : Arrive(r) \/ MergeFails(r)
           \/ BeginIncremental \/ EndIncremental \/ Abort
    PROVE  TypeOK' /\ RunInv'
<1> USE SyncAssumption DEF TypeOK, RunInv, Busy, Phase, work, tables, count, history
<1>1. ASSUME NEW r \in Record, Arrive(r) PROVE TypeOK' /\ RunInv'
    BY <1>1 DEF Arrive
<1>2. ASSUME NEW r \in Record, MergeFails(r) PROVE TypeOK' /\ RunInv'
    BY <1>2 DEF MergeFails
<1>3. CASE BeginIncremental
    BY <1>3 DEF BeginIncremental
<1>4. CASE EndIncremental
    BY <1>4 DEF EndIncremental
<1>5. CASE Abort
    BY <1>5 DEF Abort
<1> QED
    BY <1>1, <1>2, <1>3, <1>4, <1>5

\* The steps of Next, as the proofs below take them.
LEMMA Steps ==
    ASSUME [Next]_vars
    PROVE  \/ \E r \in Record : \E c \in Cluster : Takes(r, c)
           \/ \E r \in Record : \E cs, c : Merges(r, cs, c)
           \/ BeginScan \/ WriteScan \/ EndScan
           \/ JoinSurvivor \/ (\E c \in Cluster : RetireMerged(c))
           \/ DemoteCurrent \/ InsertVersion
           \/ \E r \in Record : Arrive(r) \/ MergeFails(r)
           \/ BeginIncremental \/ EndIncremental \/ Abort
           \/ UNCHANGED vars
BY TakesOne, MergesSome DEF Next

LEMMA StepTypes ==
    ASSUME TypeOK, RunInv, [Next]_vars
    PROVE  TypeOK' /\ RunInv'
<1>1. CASE UNCHANGED vars
    BY <1>1 DEF vars, TypeOK, RunInv
<1> QED
    BY <1>1, Steps, TakesTypes, MergesTypes, ScanTypes, GoldenTypes, RunTypes

\* Every variable keeps its type: the clusters are numbers the run can still hand
\* out, and the row in hand is one it has read.
THEOREM TypesHold == Spec => [](TypeOK /\ RunInv)
BY InitTypes, StepTypes, PTL DEF Spec

----------------------------------------------------------------------------
(* Rows stay together. *)

\* Only the steps that put a row into a cluster change gm_clusters.
LEMMA Others ==
    ASSUME BeginScan \/ WriteScan \/ EndScan
               \/ (\E c \in Cluster : RetireMerged(c)) \/ DemoteCurrent \/ InsertVersion
               \/ (\E r \in Record : Arrive(r) \/ MergeFails(r))
               \/ BeginIncremental \/ EndIncremental \/ Abort
               \/ UNCHANGED vars
    PROVE  member' = member
BY Zenon DEF BeginScan, WriteScan, EndScan, RetireMerged, DemoteCurrent, InsertVersion, Arrive,
             MergeFails, BeginIncremental, EndIncremental, Abort, tables, vars

\* A member of some cluster is one of some cluster ever after.
LEMMA Kept ==
    ASSUME TypeOK, RunInv, [Next]_vars
    PROVE  /\ \A r, s \in Record : Together(r, s) => Together(r, s)'
           /\ \A s \in Record : Owners(s) # {} => Owners(s)' # {}
<1>1. CASE member \subseteq member'
    BY <1>1 DEF Together, Owners
<1>2. ASSUME NEW r \in Record, NEW c \in Cluster, Takes(r, c) PROVE member \subseteq member'
    BY <1>2 DEF Takes, Join
<1>3. CASE JoinSurvivor
    BY <1>1, <1>3 DEF JoinSurvivor, Join
<1>4. ASSUME NEW r \in Record, NEW cs, NEW c, Merges(r, cs, c)
      PROVE  /\ \A q, s \in Record : Together(q, s) => Together(q, s)'
             /\ \A s \in Record : Owners(s) # {} => Owners(s)' # {}
    <2>1. c \in Cluster /\ c \in cs /\ cs \subseteq Cluster
        BY <1>4 DEF Merges
    <2>2. /\ \A d \in cs, s \in Record : <<d, s>> \in member => <<c, s>> \in member'
          /\ \A d \in Cluster \ cs, s \in Record : <<d, s>> \in member <=> <<d, s>> \in member'
        BY <1>4, MovedSound DEF Merges, TypeOK
    <2>3. ASSUME NEW d \in Cluster
          PROVE  \E e \in Cluster : \A s \in Record : <<d, s>> \in member => <<e, s>> \in member'
        BY <2>1, <2>2, <2>3
    <2> QED
        BY <2>3 DEF Together, Owners
<1> QED
    BY <1>1, <1>2, <1>3, <1>4, Others, Steps

\* Rows that share a cluster share one ever after: a merge moves whole clusters,
\* and nothing takes a row out of one.
THEOREM RowsStayTogether == Spec => StaysTogether
<1>1. TypeOK /\ RunInv /\ [Next]_vars
        => [\A r, s \in Record : Together(r, s) => Together(r, s)']_vars
    BY Kept
<1> QED
    BY <1>1, TypesHold, PTL DEF Spec, StaysTogether

----------------------------------------------------------------------------
(* Golden records track members. *)

LEMMA InitGolden == Init => GoldenInv
BY DEF Init, GoldenInv, GoldenTracksMembers, Published, Members

LEMMA TakesGolden ==
    ASSUME TypeOK, RunInv, GoldenInv, NEW r \in Record, NEW c \in Cluster, Takes(r, c)
    PROVE  GoldenInv'
<1>1. /\ target = 0 /\ target' = c /\ row' = r /\ phase' = "publish"
      /\ stale = {} /\ stale' = {} /\ golden' = golden /\ torn' = torn
      /\ member' = member \cup {<<c, r>>}
    BY DEF Takes, Take, Join, RunInv, Busy
<1>2. \A d \in Cluster \ {c} : Members(d)' = Members(d) /\ Published(d)' = Published(d)
    BY <1>1 DEF Members, Published
<1>3. GoldenTracksMembers'
    <2> SUFFICES ASSUME NEW d \in (Cluster \ (torn \cup stale \cup {target}))'
                 PROVE  ({g.sources : g \in Published(d)} = {Members(d)} \ {{}})'
        BY DEF GoldenTracksMembers
    <2>1. d \in Cluster \ (torn \cup stale \cup {target}) /\ d # c
        BY <1>1, ClusterNat
    <2>2. {g.sources : g \in Published(d)} = {Members(d)} \ {{}}
        BY <2>1 DEF GoldenInv, GoldenTracksMembers
    <2> QED
        BY <1>2, <2>1, <2>2
<1> QED
    BY <1>1, <1>3 DEF GoldenInv

LEMMA MergesGolden ==
    ASSUME TypeOK, RunInv, GoldenInv, NEW r \in Record, NEW cs, NEW c, Merges(r, cs, c)
    PROVE  GoldenInv'
<1>1. /\ target = 0 /\ target' = c /\ phase' = "join" /\ stale = {} /\ stale' = cs
      /\ golden' = golden /\ torn' = torn
      /\ c \in cs /\ cs \subseteq Cluster
    BY DEF Merges, Take, RunInv, Busy
<1>2. /\ \A d \in Cluster \ cs, s \in Record : <<d, s>> \in member <=> <<d, s>> \in member'
      /\ \A d \in cs \ {c}, s \in Record : <<d, s>> \notin member'
    BY <1>1, MovedSound DEF Merges, TypeOK
<1>3. \A d \in Cluster \ cs : Members(d)' = Members(d) /\ Published(d)' = Published(d)
    BY <1>1, <1>2 DEF Members, Published
<1>4. \A d \in cs \ {c} : Members(d)' = {}
    BY <1>2 DEF Members
<1>5. GoldenTracksMembers'
    <2> SUFFICES ASSUME NEW d \in (Cluster \ (torn \cup stale \cup {target}))'
                 PROVE  ({g.sources : g \in Published(d)} = {Members(d)} \ {{}})'
        BY DEF GoldenTracksMembers
    <2>1. d \in Cluster \ (torn \cup stale \cup {target}) /\ d \notin cs
        BY <1>1, ClusterNat
    <2>2. {g.sources : g \in Published(d)} = {Members(d)} \ {{}}
        BY <2>1 DEF GoldenInv, GoldenTracksMembers
    <2> QED
        BY <1>3, <2>1, <2>2
<1> QED
    BY <1>1, <1>4, <1>5 DEF GoldenInv

\* A step that changes neither members nor golden records of the incremental path.
LEMMA QuietGolden ==
    ASSUME GoldenInv, member' = member,
           \A c \in Cluster : Published(c)' = Published(c),
           torn \cup stale \cup {target} \subseteq torn' \cup stale' \cup {target', 0},
           phase' \notin {"publish", "insert"}, stale' = {}
    PROVE  GoldenInv'
<1>1. \A c : Members(c)' = Members(c)
    BY DEF Members
<1>2. 0 \notin Cluster
    BY ClusterNat
<1> QED
    BY <1>1, <1>2 DEF GoldenInv, GoldenTracksMembers

LEMMA RunGolden ==
    ASSUME TypeOK, RunInv, GoldenInv,
           \/ BeginScan \/ WriteScan \/ EndScan
           \/ \E r \in Record : MergeFails(r)
           \/ BeginIncremental \/ EndIncremental \/ Abort
    PROVE  GoldenInv'
<1> USE DEF tables, work, count, history, RunInv, Busy
<1>1. CASE BeginScan
    BY <1>1, QuietGolden DEF BeginScan, Published
<1>2. CASE WriteScan
    <2>1. PICK id : golden' = golden \cup
            {[cluster |-> id[S], sources |-> {}, by |-> "scan"] :
                S \in {S \in Entities : Cardinality(S) > 1}}
        BY <1>2, Zenon DEF WriteScan
    <2>2. \A c \in Cluster : Published(c)' = Published(c)
        BY <2>1 DEF Published
    <2> QED
        BY <1>2, <2>2, QuietGolden DEF WriteScan
<1>3. CASE EndScan
    BY <1>3, QuietGolden DEF EndScan, Published
<1>4. ASSUME NEW r \in Record, MergeFails(r) PROVE GoldenInv'
    BY <1>4, QuietGolden DEF MergeFails, Published
<1>5. CASE BeginIncremental
    BY <1>5, QuietGolden DEF BeginIncremental, Published
<1>6. CASE EndIncremental
    BY <1>6, QuietGolden DEF EndIncremental, Published
<1>7. CASE Abort
    BY <1>7, QuietGolden DEF Abort, Published
<1> QED
    BY <1>1, <1>2, <1>3, <1>4, <1>5, <1>6, <1>7

LEMMA SurvivorGolden ==
    ASSUME TypeOK, RunInv, GoldenInv, JoinSurvivor
    PROVE  GoldenInv'
<1>1. /\ member' = member \cup {<<target, row>>} /\ phase' = "publish" /\ golden' = golden
      /\ row' = row /\ target' = target /\ stale' = stale /\ torn' = torn
    BY DEF JoinSurvivor, Join, history
<1>2. \A c : c # target => Members(c)' = Members(c) /\ Published(c)' = Published(c)
    BY <1>1 DEF Members, Published
<1> QED
    BY <1>1, <1>2 DEF GoldenInv, GoldenTracksMembers

\* The demotion of one cluster leaves the others' versions alone.
LEMMA NotCurrent ==
    ASSUME NEW c, MarkNotCurrent(c)
    PROVE  Published(c)' = {} /\ \A d : d # c => Published(d)' = Published(d)
BY DEF MarkNotCurrent, Published

LEMMA RetireGolden ==
    ASSUME TypeOK, RunInv, GoldenInv, NEW c \in Cluster, RetireMerged(c)
    PROVE  GoldenInv'
<1>1. /\ c \in stale /\ stale' = stale \ {c} /\ torn' \in {torn, torn \ {c}}
      /\ c = target => torn' = torn
      /\ member' = member /\ phase = "publish" /\ phase' = phase /\ row' = row /\ target' = target
    BY DEF RetireMerged, count
<1>2. \A d : Members(d)' = Members(d)
    BY <1>1 DEF Members
<1>3. Published(c)' = {} /\ \A d : d # c => Published(d)' = Published(d)
    BY NotCurrent DEF RetireMerged
<1>4. c # target => Members(c) = {}
    BY <1>1 DEF GoldenInv
<1>5. GoldenTracksMembers'
    <2> SUFFICES ASSUME NEW d \in (Cluster \ (torn \cup stale \cup {target}))'
                 PROVE  ({g.sources : g \in Published(d)} = {Members(d)} \ {{}})'
        BY DEF GoldenTracksMembers
    <2>1. CASE d = c
        BY <1>1, <1>2, <1>3, <1>4, <2>1
    <2>2. CASE d # c
        <3>1. d \in Cluster \ (torn \cup stale \cup {target})
            BY <1>1, <2>2
        <3>2. {g.sources : g \in Published(d)} = {Members(d)} \ {{}}
            BY <3>1 DEF GoldenInv, GoldenTracksMembers
        <3> QED
            BY <1>2, <1>3, <2>2, <3>2
    <2> QED
        BY <2>1, <2>2
<1> QED
    BY <1>1, <1>2, <1>5 DEF GoldenInv

LEMMA DemoteGolden ==
    ASSUME TypeOK, RunInv, GoldenInv, DemoteCurrent
    PROVE  GoldenInv'
<1>1. /\ member' = member /\ phase' = "insert" /\ phase = "publish" /\ row' = row
      /\ target' = target /\ stale = {} /\ stale' = stale /\ torn' = torn
    BY DEF DemoteCurrent, count, history
<1>2. Published(target)' = {} /\ \A d : d # target => Published(d)' = Published(d)
    BY NotCurrent DEF DemoteCurrent
<1>3. \A d : Members(d)' = Members(d)
    BY <1>1 DEF Members
<1> QED
    BY <1>1, <1>2, <1>3 DEF GoldenInv, GoldenTracksMembers

\* The new version names exactly the members, and there are some: the row is one.
LEMMA InsertGolden ==
    ASSUME TypeOK, RunInv, GoldenInv, InsertVersion
    PROVE  GoldenInv'
<1> DEFINE new == [cluster |-> target, sources |-> Members(target), by |-> "sync"]
<1>1. /\ member' = member /\ golden' = golden \cup {new} /\ phase' = "match" /\ phase = "insert"
      /\ target' = 0 /\ stale = {} /\ stale' = {} /\ torn' = torn \ {target}
      /\ row \in Record /\ target \in Cluster /\ <<target, row>> \in member
    BY DEF InsertVersion, RunInv, Busy, TypeOK, GoldenInv, count
<1>2. \A d : Members(d)' = Members(d)
    BY <1>1 DEF Members
<1>3. \A d : d # target => Published(d)' = Published(d)
    BY <1>1 DEF Published
<1>4. {g \in golden' : g.cluster = target /\ g.by = "sync"} = {new}
    <2>1. \A g \in golden : ~(g.cluster = target /\ g.by = "sync")
        BY <1>1 DEF Published, GoldenInv
    <2>2. new.cluster = target /\ new.by = "sync"
        OBVIOUS
    <2> QED
        BY <1>1, <2>1, <2>2
<1>5. Members(target) # {}
    BY <1>1 DEF Members
<1>6. GoldenTracksMembers'
    <2> SUFFICES ASSUME NEW d \in (Cluster \ (torn \cup stale \cup {target}))'
                 PROVE  ({g.sources : g \in Published(d)} = {Members(d)} \ {{}})'
        BY DEF GoldenTracksMembers
    <2>1. CASE d = target
        <3>1. Published(d)' = {new}
            BY <1>4, <2>1 DEF Published
        <3>2. {g.sources : g \in Published(d)'} = {Members(d)}
            <4>1. new.sources = Members(d)
                BY <2>1
            <4> QED
                BY <3>1, <4>1
        <3> QED
            BY <1>2, <1>5, <2>1, <3>2
    <2>2. CASE d # target
        <3>1. d \in Cluster \ (torn \cup stale \cup {target})
            BY <1>1, <2>2
        <3>2. {g.sources : g \in Published(d)} = {Members(d)} \ {{}}
            BY <3>1 DEF GoldenInv, GoldenTracksMembers
        <3> QED
            BY <1>2, <1>3, <2>2, <3>2
    <2> QED
        BY <2>1, <2>2
<1> QED
    BY <1>1, <1>6 DEF GoldenInv

LEMMA SameGolden ==
    ASSUME GoldenInv, UNCHANGED <<member, golden, torn, stale, phase, row, target>>
    PROVE  GoldenInv'
BY DEF GoldenInv, GoldenTracksMembers, Members, Published

LEMMA StepGolden ==
    ASSUME TypeOK, RunInv, GoldenInv, [Next]_vars
    PROVE  GoldenInv'
<1>1. CASE UNCHANGED vars
    BY <1>1, SameGolden DEF vars
<1>2. ASSUME NEW r \in Record, Arrive(r) PROVE GoldenInv'
    BY <1>2, SameGolden DEF Arrive, tables, work, history
<1> QED
    BY <1>1, <1>2, Steps, TakesGolden, MergesGolden, RunGolden, SurvivorGolden, RetireGolden,
       DemoteGolden, InsertGolden

\* Wherever no run was cut short, a cluster's one current golden record of the
\* incremental path names exactly the cluster's members, and a cluster that was
\* merged away has none.
THEOREM GoldenIsRight == Spec => []GoldenTracksMembers
<1>1. GoldenInv => GoldenTracksMembers
    BY DEF GoldenInv
<1> QED
    BY <1>1, InitGolden, StepGolden, TypesHold, PTL DEF Spec

----------------------------------------------------------------------------
(* Matching rows are gathered. *)

LEMMA InitGather == Init => GatherInv
BY DEF Init, GatherInv, IncrementalGathers, Busy

\* Pairs gathered before stay gathered.
LEMMA StillGathered ==
    ASSUME TypeOK, RunInv, GatherInv, [Next]_vars, settled' = settled, capped \subseteq capped'
    PROVE  IncrementalGathers' /\ \A s \in settled' : Owners(s)' # {}
<1>1. settled \subseteq Record
    BY DEF TypeOK
<1> QED
    BY <1>1, Kept DEF GatherInv, IncrementalGathers

\* Every settled row that matches r is in a cluster, hence looked up.
LEMMA SettledAreOwned ==
    ASSUME TypeOK, GatherInv, NEW r, NEW s \in settled, {r, s} \in Link
    PROVE  s \in Record /\ s \in Matches(r) /\ Owners(s) # {}
BY DEF TypeOK, GatherInv, Matches

LEMMA CreateGather ==
    ASSUME TypeOK, RunInv, GatherInv, NEW r \in Record, CreateCluster(r)
    PROVE  GatherInv'
<1>1. PICK c \in Cluster : Join(c, r) /\ Take(r, c, "publish")
    BY DEF CreateCluster
<1>2. IncrementalGathers' /\ \A s \in settled' : Owners(s)' # {}
    BY <1>1, StillGathered DEF CreateCluster, Next, Take
<1>3. ASSUME NEW s \in settled, {r, s} \in Link PROVE FALSE
    <2>1. s \in Matches(r) /\ Owners(s) # {}
        BY <1>3, SettledAreOwned
    <2>2. {} \in Lookups(r)
        BY DEF CreateCluster
    <2> QED
        BY <2>1, <2>2, LookupsSound
<1> QED
    BY <1>1, <1>2, <1>3 DEF GatherInv, Join, Take

LEMMA JoinGather ==
    ASSUME TypeOK, RunInv, GatherInv, NEW r \in Record, JoinCluster(r)
    PROVE  GatherInv'
<1>1. PICK c \in Cluster : {c} \in Lookups(r) /\ Join(c, r) /\ Take(r, c, "publish")
    BY DEF JoinCluster
<1>2. IncrementalGathers' /\ \A s \in settled' : Owners(s)' # {}
    BY <1>1, StillGathered DEF JoinCluster, Next, Take
<1>3. ASSUME NEW s \in settled, {r, s} \in Link PROVE <<c, s>> \in member
    <2>1. s \in Matches(r) /\ Owners(s) # {}
        BY <1>3, SettledAreOwned
    <2>2. c \in Owners(s)
        BY <1>1, <2>1, LookupsSound
    <2> QED
        BY <2>2 DEF Owners
<1> QED
    BY <1>1, <1>2, <1>3 DEF GatherInv, Join, Take

LEMMA BestGather ==
    ASSUME TypeOK, RunInv, GatherInv, NEW r \in Record, JoinBest(r)
    PROVE  GatherInv'
<1>1. PICK c : Join(c, r) /\ Take(r, c, "publish")
    BY DEF JoinBest
<1>2. capped' = capped \cup {r}
    BY DEF JoinBest
<1>3. IncrementalGathers' /\ \A s \in settled' : Owners(s)' # {}
    BY <1>1, <1>2, StillGathered DEF Next, Take
<1> QED
    BY <1>1, <1>2, <1>3 DEF GatherInv, Join, Take

LEMMA MergeGather ==
    ASSUME TypeOK, RunInv, GatherInv, NEW r \in Record, MergeClusters(r)
    PROVE  GatherInv'
<1>1. PICK cs, c : Merges(r, cs, c)
    BY MergesSome
<1>2. IncrementalGathers' /\ \A s \in settled' : Owners(s)' # {}
    BY <1>1, StillGathered DEF Merges, Next, Take
<1>3. ASSUME NEW s \in settled, {r, s} \in Link PROVE <<c, s>> \in member'
    <2>1. s \in Record /\ s \in Matches(r) /\ Owners(s) # {}
        BY <1>3, SettledAreOwned
    <2>2. PICK d \in cs : d \in Owners(s)
        BY <1>1, <2>1, LookupsSound DEF Merges
    <2> QED
        BY <1>1, <2>1, <2>2, MovedSound DEF Merges, TypeOK, Owners
<1> QED
    BY <1>1, <1>2, <1>3 DEF GatherInv, Merges, Take

LEMMA SurvivorGather ==
    ASSUME TypeOK, RunInv, GatherInv, JoinSurvivor
    PROVE  GatherInv'
<1>1. /\ member' = member \cup {<<target, row>>} /\ phase = "join"
      /\ UNCHANGED <<row, target, settled, capped>>
    BY DEF JoinSurvivor, Join, history
<1>2. IncrementalGathers' /\ \A s \in settled' : Owners(s)' # {}
    BY <1>1, StillGathered DEF Next
<1> QED
    BY <1>1, <1>2 DEF GatherInv, Busy

\* The row that is done shares a cluster with every settled row it matches.
LEMMA InsertGather ==
    ASSUME TypeOK, RunInv, GatherInv, InsertVersion
    PROVE  GatherInv'
<1>1. /\ member' = member /\ phase = "insert" /\ phase' = "match"
      /\ settled' = settled \cup {row} /\ capped' = capped
      /\ target \in Cluster /\ <<target, row>> \in member
    BY DEF InsertVersion, RunInv, GatherInv, Busy, count
<1>2. \A s : Owners(s)' = Owners(s)
    BY <1>1 DEF Owners
<1>3. target \in Owners(row)
    BY <1>1 DEF Owners
<1>4. ASSUME NEW s \in settled, {row, s} \in Link
      PROVE  Together(row, s) \/ row \in capped
    BY <1>1, <1>4 DEF GatherInv, Busy, Together, Owners
<1>5. ASSUME NEW r \in settled', NEW s \in settled', {r, s} \in Link
      PROVE  Together(r, s) \/ {r, s} \cap capped # {}
    <2>1. CASE r \in settled /\ s \in settled
        BY <1>5, <2>1 DEF GatherInv, IncrementalGathers
    <2>2. CASE r = row /\ s = row
        BY <1>3, <2>2 DEF Together
    <2>3. CASE r = row /\ s \in settled
        BY <1>4, <1>5, <2>3
    <2>4. CASE s = row /\ r \in settled
        <3>1. {s, r} = {r, s}
            OBVIOUS
        <3>2. Together(row, r) \/ row \in capped
            BY <1>4, <1>5, <2>4, <3>1
        <3> QED
            BY <2>4, <3>2 DEF Together
    <2> QED
        BY <1>1, <2>1, <2>2, <2>3, <2>4
<1>6. IncrementalGathers'
    BY <1>1, <1>2, <1>5 DEF IncrementalGathers, Together
<1> QED
    BY <1>1, <1>2, <1>3, <1>6 DEF GatherInv, Busy

\* Between rows, and wherever the row in hand, its cluster and the members stay.
LEMMA QuietGather ==
    ASSUME GatherInv, member' = member, settled' = settled, capped' = capped,
           phase' \in Busy => UNCHANGED <<row, target>> /\ phase \in Busy
                               /\ (phase = "join" => phase' = "join")
    PROVE  GatherInv'
BY DEF GatherInv, IncrementalGathers, Together, Owners, Busy

LEMMA RunGather ==
    ASSUME TypeOK, RunInv, GatherInv,
           \/ BeginScan \/ WriteScan \/ EndScan
           \/ (\E c \in Cluster : RetireMerged(c)) \/ DemoteCurrent
           \/ \E r \in Record : Arrive(r) \/ MergeFails(r)
           \/ BeginIncremental \/ EndIncremental \/ Abort
           \/ UNCHANGED vars
    PROVE  GatherInv'
<1> USE QuietGather DEF tables, work, count, history, Busy
<1>1. CASE BeginScan \/ WriteScan \/ EndScan
    BY <1>1 DEF BeginScan, WriteScan, EndScan
<1>2. ASSUME NEW c \in Cluster, RetireMerged(c) PROVE GatherInv'
    BY <1>2 DEF RetireMerged
<1>3. CASE DemoteCurrent
    BY <1>3 DEF DemoteCurrent
<1>4. ASSUME NEW r \in Record, Arrive(r) \/ MergeFails(r) PROVE GatherInv'
    BY <1>4 DEF Arrive, MergeFails
<1>5. CASE BeginIncremental \/ EndIncremental \/ Abort
    BY <1>5 DEF BeginIncremental, EndIncremental, Abort
<1>6. CASE UNCHANGED vars
    BY <1>6 DEF vars
<1> QED
    BY <1>1, <1>2, <1>3, <1>4, <1>5, <1>6

LEMMA StepGather ==
    ASSUME TypeOK, RunInv, GatherInv, [Next]_vars
    PROVE  GatherInv'
BY CreateGather, JoinGather, BestGather, MergeGather, SurvivorGather, InsertGather, RunGather
   DEF Next

\* Two matching rows that incremental runs reconciled to the end share a cluster,
\* unless the size cap kept one of them out of a merge.
THEOREM MatchesAreGathered == Spec => []IncrementalGathers
<1>1. GatherInv => IncrementalGathers
    BY DEF GatherInv
<1> QED
    BY <1>1, InitGather, StepGather, TypesHold, PTL DEF Spec
=============================================================================
