------------------------ MODULE IdentityGraphProofs ------------------------
(***************************************************************************)
(* Theorems about IdentityGraph for every set of clients and records, every *)
(* batch, chunk size and bound.                                            *)
(*                                                                         *)
(* A node's two merge columns are rewritten from the pre-flight snapshot   *)
(* of a call, long after it was taken, and statements wait in todo before  *)
(* they are written.  PointerAgrees is therefore inductive only together   *)
(* with the same fact about the uncommitted graph, about every statement   *)
(* that waits and about every snapshot: IInv.  The second half is about    *)
(* what calls leave behind them: the event log and the entities.           *)
(***************************************************************************)
EXTENDS IdentityGraph, SequenceTheorems, TLAPS, WellFoundedInduction

----------------------------------------------------------------------------
(* Statements map graphs to graphs. *)

\* A new database is a graph (IdentityStore._SCHEMA).
LEMMA EmptyGraphType == EmptyGraph \in Graph /\ PointersAgree(EmptyGraph)
BY MaxEntityAssumption DEF EmptyGraph, Graph, Status, EntityOrNone, NoEntity, Verdict, PointersAgree

\* upsert_identity writes one row; it keeps the columns in agreement when what
\* it writes agrees.
LEMMA UpsertIdentityType ==
    ASSUME NEW g \in Graph, NEW e \in Entity, NEW st \in Status, NEW in \in EntityOrNone
    PROVE  /\ UpsertIdentity(g, e, st, in) \in Graph
           /\ PointersAgree(g) /\ (st = "merged_into" <=> in # NoEntity)
                => PointersAgree(UpsertIdentity(g, e, st, in))
BY DEF UpsertIdentity, Graph, PointersAgree

\* retire_identity writes both columns of one row.
LEMMA RetireIdentityType ==
    ASSUME NEW g \in Graph, NEW e \in Entity, NEW in \in Entity
    PROVE  /\ RetireIdentity(g, e, in) \in Graph
           /\ PointersAgree(g) => PointersAgree(RetireIdentity(g, e, in))
<1> DEFINE h == RetireIdentity(g, e, in)
<1>1. in # NoEntity /\ in \in EntityOrNone
    BY MaxEntityAssumption DEF Entity, EntityOrNone, NoEntity
<1>2. CASE ~Exists(g, e)
    BY <1>2 DEF RetireIdentity
<1>3. CASE Exists(g, e)
    <2>1. h = UpsertIdentity(g, e, "merged_into", in)
        BY <1>1, <1>3 DEF RetireIdentity, UpsertIdentity
    <2> QED BY <1>1, <2>1, UpsertIdentityType DEF Status
<1> QED BY <1>2, <1>3

\* upsert_record, add_edge, emit_event and a verdict leave every node alone.
LEMMA UpsertRecordType ==
    ASSUME NEW g \in Graph, NEW r \in Record, NEW e \in Entity
    PROVE  /\ UpsertRecord(g, r, e) \in Graph
           /\ PointersAgree(g) => PointersAgree(UpsertRecord(g, r, e))
<1>1. e \in EntityOrNone
    BY MaxEntityAssumption DEF Entity, EntityOrNone
<1> QED BY <1>1 DEF UpsertRecord, Graph, PointersAgree

LEMMA AddEdgesType ==
    ASSUME NEW g \in Graph, NEW es \in SUBSET Edge
    PROVE  /\ AddEdges(g, es) \in Graph
           /\ PointersAgree(g) => PointersAgree(AddEdges(g, es))
BY DEF AddEdges, Graph, PointersAgree

LEMMA AddVerdictType ==
    ASSUME NEW g \in Graph, NEW q \in Pair, NEW res \in Resolution
    PROVE  /\ AddVerdict(g, q, res) \in Graph
           /\ PointersAgree(g) => PointersAgree(AddVerdict(g, q, res))
BY DEF AddVerdict, Graph, PointersAgree, Verdict

LEMMA EmitEventsType ==
    ASSUME NEW g \in Graph, NEW evs \in SUBSET Event
    PROVE  /\ EmitEvents(g, evs) \in Graph
           /\ PointersAgree(g) => PointersAgree(EmitEvents(g, evs))
BY DEF EmitEvents, Graph, PointersAgree

\* The rows of the bulk accumulators (resolve.py, _bulk_*_rows).
BulkRow == [ent : Entity, members : SUBSET Record, edges : SUBSET Edge]

\* The bulk flush writes nodes that are active and point nowhere.
LEMMA BulkWriteType ==
    ASSUME NEW g \in Graph, NEW rows \in SUBSET BulkRow
    PROVE  /\ BulkWrite(g, rows) \in Graph
           /\ PointersAgree(g) => PointersAgree(BulkWrite(g, rows))
<1> DEFINE ents == {w.ent : w \in rows}
           row(r) == CHOOSE w \in rows : r \in w.members
           claimed == UNION {w.members : w \in rows}
           st == [e \in Entity |-> IF e \in ents THEN "active" ELSE g.status[e]]
           in == [e \in Entity |-> IF e \in ents THEN NoEntity ELSE g.into[e]]
           ow == [r \in Record |-> IF r \in claimed THEN row(r).ent ELSE g.owner[r]]
           ed == g.edges \cup UNION {w.edges : w \in rows}
           lg == g.log \cup {[kind |-> "created", ent |-> e, into |-> NoEntity] : e \in ents}
<1>1. \A r \in claimed : row(r).ent \in Entity
    BY DEF BulkRow
<1>2. \A r \in Record : g.owner[r] \in EntityOrNone
    BY DEF Graph
<1>3. ow \in [Record -> EntityOrNone]
    BY <1>1, <1>2, MaxEntityAssumption DEF Entity, EntityOrNone
<1>4. st \in [Entity -> Status] /\ in \in [Entity -> EntityOrNone]
    BY MaxEntityAssumption DEF Graph, Status, EntityOrNone, NoEntity
<1>5. ed \in SUBSET Edge
    BY DEF Graph, BulkRow
<1>6. lg \in SUBSET Event
    <2>1. ents \subseteq Entity
        BY DEF BulkRow
    <2>2. {[kind |-> "created", ent |-> e, into |-> NoEntity] : e \in ents} \subseteq Event
        BY <2>1, MaxEntityAssumption DEF Event, EventKind, EntityOrNone, NoEntity
    <2> QED BY <2>2 DEF Graph
<1>7. BulkWrite(g, rows) = [g EXCEPT !.status = st, !.into = in, !.owner = ow,
                                     !.edges = ed, !.log = lg]
    BY DEF BulkWrite
<1>8. PointersAgree(g) => \A e \in Entity : st[e] = "merged_into" <=> in[e] # NoEntity
    BY DEF PointersAgree
<1> DEFINE h == BulkWrite(g, rows)
<1> HIDE DEF st, in, ow, ed, lg, h
<1>9. h \in Graph /\ h.status = st /\ h.into = in
    BY <1>3, <1>4, <1>5, <1>6, <1>7 DEF h, Graph
<1>10. PointersAgree(g) => PointersAgree(h)
    BY <1>8, <1>9 DEF PointersAgree
<1> QED BY <1>9, <1>10 DEF h

\* merge_by_shared_field writes both columns of each node it absorbs.
LEMMA RemapEntitiesType ==
    ASSUME NEW g \in Graph, NEW remap \in [Entity -> Entity]
    PROVE  /\ RemapEntities(g, remap) \in Graph
           /\ PointersAgree(g) => PointersAgree(RemapEntities(g, remap))
<1> DEFINE absorbed(e) == remap[e] # e /\ Exists(g, e)
           st == [e \in Entity |-> IF absorbed(e) THEN "merged_into" ELSE g.status[e]]
           in == [e \in Entity |-> IF absorbed(e) THEN remap[e] ELSE g.into[e]]
           ow == [r \in Record |-> IF g.owner[r] = NoEntity THEN NoEntity
                                   ELSE remap[g.owner[r]]]
<1>1. ow \in [Record -> EntityOrNone] /\ in \in [Entity -> EntityOrNone]
    <2>1. Entity \subseteq EntityOrNone /\ NoEntity \in EntityOrNone
        BY MaxEntityAssumption DEF Entity, EntityOrNone, NoEntity
    <2>2. \A e \in EntityOrNone : e # NoEntity => e \in Entity
        BY MaxEntityAssumption DEF Entity, EntityOrNone, NoEntity
    <2>3. \A r \in Record : g.owner[r] \in EntityOrNone
        BY DEF Graph
    <2>4. \A e \in Entity : g.into[e] \in EntityOrNone /\ remap[e] \in Entity
        BY DEF Graph
    <2>5. \A r \in Record : ow[r] \in EntityOrNone
        BY <2>1, <2>2, <2>3, <2>4
    <2>6. \A e \in Entity : in[e] \in EntityOrNone
        BY <2>1, <2>4
    <2> QED BY <2>5, <2>6
<1>2. st \in [Entity -> Status]
    BY DEF Graph, Status
<1>3. RemapEntities(g, remap) = [g EXCEPT !.owner = ow, !.status = st, !.into = in]
    BY DEF RemapEntities
<1>4. PointersAgree(g) => \A e \in Entity : st[e] = "merged_into" <=> in[e] # NoEntity
    BY MaxEntityAssumption DEF PointersAgree, Entity, NoEntity
<1> DEFINE h == RemapEntities(g, remap)
<1> HIDE DEF st, in, ow, h
<1>5. h \in Graph /\ h.status = st /\ h.into = in
    BY <1>1, <1>2, <1>3 DEF h, Graph
<1>6. PointersAgree(g) => PointersAgree(h)
    BY <1>4, <1>5 DEF PointersAgree
<1> QED BY <1>5, <1>6 DEF h

----------------------------------------------------------------------------
(* The decision rules. *)

\* What one cluster leaves on its entity is evidence about that entity.
LEMMA EvidenceType ==
    ASSUME NEW c, NEW e \in Entity, NEW changed, NEW run \in Run
    PROVE  /\ Evidence(c, e, changed, run) \in SUBSET Edge
           /\ \A x \in Evidence(c, e, changed, run) : x.ent = e
<1>1. \A kind \in EdgeKind, pairs \in SUBSET Pair :
        /\ EdgesFor(kind, e, pairs, run) \in SUBSET Edge
        /\ \A x \in EdgesFor(kind, e, pairs, run) : x.ent = e
    BY DEF EdgesFor, Edge
<1>2. PairsIn(c.members) \subseteq Pair
    BY DEF PairsIn
<1> QED BY <1>1, <1>2 DEF Evidence, EdgeKind

\* Components are sets of entities, and hold what they are the component of.
LEMMA ComponentType ==
    ASSUME NEW e \in Entity, NEW links
    PROVE  ComponentOf(e, links) \subseteq Entity /\ e \in ComponentOf(e, links)
BY DEF ComponentOf

\* A set of entities has a smallest one.
LEMMA Smallest ==
    ASSUME NEW es, es \subseteq Entity, es # {}
    PROVE  \E f \in es : \A h \in es : f <= h
<1> DEFINE Less == {ss \in Nat \X Nat : ss[1] < ss[2]}
<1>1. es \subseteq Nat
    BY MaxEntityAssumption DEF Entity
<1>2. IsWellFoundedOn(Less, Nat)
    BY NatLessThanWellFounded DEF OpToRel
<1>3. \A h, f \in Nat : h < f => <<h, f>> \in Less
    OBVIOUS
<1> HIDE DEF Less
<1>4. \E f \in es : \A h \in es : <<h, f>> \notin Less
    BY <1>1, <1>2, WFMin
<1>5. \A h, f \in Nat : ~(h < f) => f <= h
    OBVIOUS
<1>6. PICK f \in es : \A h \in es : <<h, f>> \notin Less
    BY <1>4
<1>7. \A h \in es : ~(h < f)
    BY <1>1, <1>3, <1>6
<1> QED BY <1>1, <1>5, <1>7

\* The deterministic merge sends every entity to one of its component.
LEMMA SharedKeyRemapType ==
    ASSUME NEW g
    PROVE  /\ SharedKeyRemap(g) \in [Entity -> Entity]
           /\ \A e \in Entity : SharedKeyRemap(g)[e] \in ComponentOf(e, SharedKeyLinks(g))
<1> DEFINE links == SharedKeyLinks(g)
           smallest(e, f) == \A h \in ComponentOf(e, links) : f <= h
<1>1. ASSUME NEW e \in Entity
      PROVE  (CHOOSE f \in ComponentOf(e, links) : smallest(e, f)) \in ComponentOf(e, links)
    <2>1. \E f \in ComponentOf(e, links) : smallest(e, f)
        BY ComponentType, Smallest
    <2> HIDE DEF smallest
    <2> QED BY <2>1
<1>2. SharedKeyRemap(g) =
        [e \in Entity |-> CHOOSE f \in ComponentOf(e, links) : smallest(e, f)]
    BY DEF SharedKeyRemap
<1> HIDE DEF links, smallest
<1>3. \A e \in Entity : SharedKeyRemap(g)[e] \in ComponentOf(e, links)
    BY <1>1, <1>2
<1>4. \A e \in Entity : SharedKeyRemap(g)[e] \in Entity
    BY <1>3, ComponentType
<1> QED BY <1>2, <1>3, <1>4 DEF links

----------------------------------------------------------------------------
(* The inductive invariant. *)

AgreeingGraph == {g \in Graph : PointersAgree(g)}

\* Statements that write a node's two columns in agreement.
AgreeingStmt ==
    {s \in Stmt : s.op = "node" => (s.status = "merged_into" <=> s.into # NoEntity)}

AgreeingLocal ==
    {l \in Local :
        \A e \in Entity : l.snap[e].status = "merged_into" <=> l.snap[e].into # NoEntity}

\* Where a call writes about entities without looking again whether they exist,
\* it has checked that its arguments are entities.
KnowsTargets(next, l) ==
    /\ next \in {"other", "records", "record", "loser"} => l.ent \in Entity
    /\ next = "records" => l.other \in Entity

StoreInv ==
    /\ durable \in AgreeingGraph /\ work \in AgreeingGraph
    /\ writer \in Client \cup {NoClient}
    /\ pending \in Nat

CallInv ==
    /\ pc \in [Client -> PC]
    /\ todo \in [Client -> Seq(AgreeingStmt)]
    /\ local \in [Client -> AgreeingLocal]
    /\ \A p \in Client : KnowsTargets(pc[p], local[p])

BoundInv ==
    /\ minted \in 0 .. MaxEntity
    /\ calls \in 0 .. MaxCalls
    /\ fails \in 0 .. MaxFails

\* The inductive invariant.
IInv == StoreInv /\ CallInv /\ BoundInv

----------------------------------------------------------------------------
(* Statements and local variables. *)

LEMMA NodeGood ==
    ASSUME NEW e \in Entity, NEW st \in Status \ {"absent"}, NEW in \in EntityOrNone,
           st = "merged_into" <=> in # NoEntity
    PROVE  Node(e, st, in) \in AgreeingStmt
BY DEF Node, AgreeingStmt, Stmt, NodeStmt

LEMMA ActiveNodeGood ==
    ASSUME NEW e \in Entity
    PROVE  Node(e, "active", NoEntity) \in AgreeingStmt
BY NodeGood, MaxEntityAssumption DEF Status, EntityOrNone, NoEntity

LEMMA AttachGood ==
    ASSUME NEW rs \in SUBSET Record, NEW e \in Entity
    PROVE  Attach(rs, e) \in AgreeingStmt
BY DEF Attach, AgreeingStmt, Stmt, AttachStmt

LEMMA MoveGood ==
    ASSUME NEW rs \in SUBSET Record, NEW from \in Entity, NEW e \in Entity
    PROVE  Move(rs, from, e) \in AgreeingStmt
BY DEF Move, AgreeingStmt, Stmt, MoveStmt

LEMMA EmitGood ==
    ASSUME NEW evs \in SUBSET Event
    PROVE  Emit(evs) \in AgreeingStmt
BY DEF Emit, AgreeingStmt, Stmt, EmitStmt

LEMMA EvType ==
    ASSUME NEW kind \in EventKind, NEW e \in Entity, NEW in \in EntityOrNone
    PROVE  Ev(kind, e, in) \in Event
BY DEF Ev, Event

LEMMA RetireGood ==
    ASSUME NEW es \in SUBSET Entity, NEW in \in Entity
    PROVE  Retire(es, in) \in AgreeingStmt /\ Absorb(es, in) \in AgreeingStmt
BY DEF Retire, Absorb, AgreeingStmt, Stmt, RetireStmt, AbsorbStmt

LEMMA LinkGood ==
    ASSUME NEW xs \in SUBSET Edge
    PROVE  Link(xs) \in AgreeingStmt
BY DEF Link, AgreeingStmt, Stmt, LinkStmt

LEMMA CarryGood ==
    ASSUME NEW es \in SUBSET Entity, NEW e \in Entity, NEW run \in Run
    PROVE  Carry(es, e, run) \in AgreeingStmt
BY DEF Carry, AgreeingStmt, Stmt, CarryStmt

LEMMA VerdictGood ==
    ASSUME NEW q \in Pair, NEW res \in Resolution
    PROVE  RecordVerdict(q, res) \in AgreeingStmt
BY DEF RecordVerdict, AgreeingStmt, Stmt, VerdictStmt

\* What a statement carries, by what it is.
LEMMA StmtFields ==
    ASSUME NEW s \in AgreeingStmt
    PROVE  /\ s.op = "node" => /\ s.ent \in Entity /\ s.status \in Status \ {"absent"}
                               /\ s.into \in EntityOrNone
                               /\ (s.status = "merged_into" <=> s.into # NoEntity)
           /\ s.op = "attach" => s.recs \in SUBSET Record /\ s.ent \in Entity
           /\ s.op = "move" => /\ s.recs \in SUBSET Record
                               /\ s.from \in Entity /\ s.ent \in Entity
           /\ s.op = "emit" => s.events \in SUBSET Event
           /\ s.op \in {"retire", "absorb"} => s.ents \in SUBSET Entity /\ s.into \in Entity
           /\ s.op = "link" => s.edges \in SUBSET Edge
           /\ s.op = "carry" => /\ s.ents \in SUBSET Entity
                                /\ s.ent \in Entity /\ s.run \in Run
           /\ s.op = "verdict" => s.pair \in Pair /\ s.res \in Resolution
BY DEF AgreeingStmt, Stmt, NodeStmt, AttachStmt, MoveStmt, EmitStmt, RetireStmt, AbsorbStmt,
       LinkStmt, CarryStmt, VerdictStmt

LEMMA IdleGood == Idle \in AgreeingLocal
<1>1. (CHOOSE r \in Record : TRUE) \in Record
    BY RecordAssumption
<1>2. Idle \in Local
    BY <1>1, SeedAssumption, MaxEntityAssumption
    DEF Idle, Local, Op, Status, Snapshot, Entity, EntityOrNone, NoEntity, Resolution
<1> QED BY <1>2 DEF AgreeingLocal, Idle

----------------------------------------------------------------------------
(* The store and the control of a call. *)

LEMMA ViewGood ==
    ASSUME StoreInv, NEW p
    PROVE  View(p) \in Graph /\ PointersAgree(View(p))
BY DEF StoreInv, View, AgreeingGraph

LEMMA CommitGood ==
    ASSUME StoreInv, NEW g \in AgreeingGraph, Commit(g)
    PROVE  StoreInv'
BY DEF StoreInv, Commit

LEMMA ExecGood ==
    ASSUME StoreInv, NEW p \in Client, NEW g \in AgreeingGraph, Exec(p, g)
    PROVE  StoreInv'
BY DEF StoreInv, Exec, Commit

LEMMA StoreStays ==
    ASSUME StoreInv, UNCHANGED storeVars
    PROVE  StoreInv'
BY DEF StoreInv, storeVars

LEMMA BoundsStay ==
    ASSUME BoundInv, UNCHANGED boundVars
    PROVE  BoundInv'
BY DEF BoundInv, boundVars

LEMMA MintGood ==
    ASSUME BoundInv, CanMint, Mint
    PROVE  BoundInv' /\ NextEntity \in Entity
BY MaxEntityAssumption DEF BoundInv, CanMint, Mint, NextEntity, Entity

LEMMA ContinueGood ==
    ASSUME CallInv, NEW p \in Client, NEW next \in PC, NEW prog \in Seq(AgreeingStmt),
           NEW l \in AgreeingLocal, KnowsTargets(next, l), Continue(p, next, prog, l)
    PROVE  CallInv'
<1>1. /\ pc' \in [Client -> PC] /\ todo' \in [Client -> Seq(AgreeingStmt)]
      /\ local' \in [Client -> AgreeingLocal]
    BY DEF CallInv, Continue
<1>2. ASSUME NEW q \in Client PROVE KnowsTargets(pc'[q], local'[q])
    BY DEF CallInv, Continue
<1> QED BY <1>1, <1>2 DEF CallInv

LEMMA ThenGood ==
    ASSUME CallInv, BoundInv, NEW p \in Client, todo[p] # <<>>,
           NEW rest \in Seq(AgreeingStmt), Then(p, rest)
    PROVE  CallInv' /\ BoundInv'
<1>1. todo[p] \in Seq(AgreeingStmt)
    BY DEF CallInv
<1>2. Tail(todo[p]) \in Seq(AgreeingStmt)
    BY <1>1, HeadTailProperties
<1>3. rest \o Tail(todo[p]) \in Seq(AgreeingStmt)
    BY <1>2, ConcatProperties
<1> QED BY <1>3 DEF Then, CallInv, BoundInv

LEMMA StatementGood ==
    ASSUME CallInv, NEW p \in Client, todo[p] # <<>>
    PROVE  Statement(p) \in AgreeingStmt
<1>1. todo[p] \in Seq(AgreeingStmt)
    BY DEF CallInv
<1> QED BY <1>1, HeadTailProperties DEF Statement

\* The types of the variables of a call.
LEMMA LocalFields ==
    ASSUME CallInv, NEW p \in Client
    PROVE  /\ local[p] \in AgreeingLocal
           /\ local[p].run \in Run
           /\ local[p].clusters \in Seq(Cluster) /\ local[p].left \in Seq(Cluster)
           /\ local[p].found \in [Record -> EntityOrNone]
           /\ local[p].snap \in [Entity -> Snapshot]
           /\ local[p].rows \in SUBSET Row
           /\ local[p].remap \in [Entity -> Entity]
           /\ local[p].ent \in EntityOrNone /\ local[p].other \in EntityOrNone
           /\ local[p].others \in SUBSET Entity
           /\ local[p].groups \in SUBSET (SUBSET Entity)
           /\ local[p].recs \in SUBSET Record
           /\ local[p].a \in Record /\ local[p].b \in Record /\ local[p].res \in Resolution
BY DEF CallInv, AgreeingLocal, Local

LEMMA EmptyProgram == <<>> \in Seq(AgreeingStmt)
OBVIOUS

\* Updates of a call's variables keep their types, and its snapshot agrees.
LEMMA UpdateBatch ==
    ASSUME NEW l \in AgreeingLocal, NEW left \in Seq(Cluster), NEW rows \in SUBSET Row,
           NEW found \in [Record -> EntityOrNone], NEW remap \in [Entity -> Entity]
    PROVE  /\ [l EXCEPT !.left = left] \in AgreeingLocal
           /\ [l EXCEPT !.rows = rows] \in AgreeingLocal
           /\ [l EXCEPT !.left = left, !.rows = rows] \in AgreeingLocal
           /\ [l EXCEPT !.found = found] \in AgreeingLocal
           /\ [l EXCEPT !.remap = remap] \in AgreeingLocal
BY DEF AgreeingLocal, Local

LEMMA UpdateSnapshot ==
    ASSUME NEW l \in AgreeingLocal, NEW snap \in [Entity -> Snapshot],
           \A e \in Entity : snap[e].status = "merged_into" <=> snap[e].into # NoEntity
    PROVE  [l EXCEPT !.snap = snap] \in AgreeingLocal
BY DEF AgreeingLocal, Local

LEMMA UpdateTargets ==
    ASSUME NEW l \in AgreeingLocal, NEW ent \in EntityOrNone, NEW others \in SUBSET Entity,
           NEW groups \in SUBSET (SUBSET Entity)
    PROVE  /\ [l EXCEPT !.op = "none"] \in AgreeingLocal
           /\ [l EXCEPT !.ent = ent] \in AgreeingLocal
           /\ [l EXCEPT !.others = others] \in AgreeingLocal
           /\ [l EXCEPT !.groups = groups] \in AgreeingLocal
           /\ [l EXCEPT !.groups = groups, !.ent = ent, !.others = others] \in AgreeingLocal
BY DEF AgreeingLocal, Local

LEMMA UpdateOverlaps ==
    ASSUME NEW l \in AgreeingLocal, NEW links \in SUBSET (SUBSET Entity),
           NEW groups \in SUBSET (SUBSET Entity)
    PROVE  [l EXCEPT !.links = links, !.groups = groups] \in AgreeingLocal
BY DEF AgreeingLocal, Local

----------------------------------------------------------------------------
(* A call begins. *)

LEMMA BeginGood ==
    ASSUME IInv, NEW p \in Client, NEW first \in PC \ {"other", "records", "record", "loser"},
           NEW l \in AgreeingLocal, Begin(p, first, l)
    PROVE  IInv'
<1>1. CallInv'
    BY ContinueGood, EmptyProgram DEF KnowsTargets, IInv, Begin
<1>2. StoreInv'
    BY StoreStays DEF IInv, Begin
<1>3. BoundInv'
    BY BoundsAssumption DEF IInv, BoundInv, Begin
<1> QED BY <1>1, <1>2, <1>3 DEF IInv

\* The arguments a call is made with are of their types.
LEMMA InvokeGood ==
    ASSUME IInv, NEW p \in Client, Invoke(p)
    PROVE  IInv'
<1> USE IdleGood
<1>1. ASSUME BeginResolve(p) PROVE IInv'
    <2>1. PICK b \in Batches :
            Begin(p, "lookup", [Idle EXCEPT !.op = "resolve", !.run = b.run,
                                            !.clusters = b.clusters, !.left = b.clusters])
        BY <1>1 DEF BeginResolve
    <2>2. b.run \in Run /\ b.clusters \in Seq(Cluster)
        BY BatchesAssumption
    <2>3. [Idle EXCEPT !.op = "resolve", !.run = b.run,
                       !.clusters = b.clusters, !.left = b.clusters] \in AgreeingLocal
        BY <2>2 DEF AgreeingLocal, Local, Op
    <2> QED BY <2>1, <2>3, BeginGood DEF PC
<1>2. ASSUME BeginMerge(p) PROVE IInv'
    <2>1. PICK keep, absorb \in Minted :
            Begin(p, "check", [Idle EXCEPT !.op = "merge", !.ent = keep, !.other = absorb])
        BY <1>2 DEF BeginMerge
    <2>2. keep \in EntityOrNone /\ absorb \in EntityOrNone
        BY MaxEntityAssumption DEF IInv, BoundInv, Minted, EntityOrNone
    <2>3. [Idle EXCEPT !.op = "merge", !.ent = keep, !.other = absorb] \in AgreeingLocal
        BY <2>2 DEF AgreeingLocal, Local, Op
    <2> QED BY <2>1, <2>3, BeginGood DEF PC
<1>3. ASSUME BeginSplit(p) PROVE IInv'
    <2>1. PICK e \in Minted, rs \in SplitSets :
            Begin(p, "split", [Idle EXCEPT !.op = "split", !.ent = e, !.recs = rs])
        BY <1>3 DEF BeginSplit
    <2>2. e \in EntityOrNone /\ rs \in SUBSET Record
        BY SplitSetsAssumption, MaxEntityAssumption DEF IInv, BoundInv, Minted, EntityOrNone
    <2>3. [Idle EXCEPT !.op = "split", !.ent = e, !.recs = rs] \in AgreeingLocal
        BY <2>2 DEF AgreeingLocal, Local, Op
    <2> QED BY <2>1, <2>3, BeginGood DEF PC
<1>4. ASSUME BeginClaim(p) PROVE IInv'
    <2>1. PICK e \in Minted, r \in Record :
            Begin(p, "target", [Idle EXCEPT !.op = "claim", !.ent = e, !.a = r])
        BY <1>4 DEF BeginClaim
    <2>2. e \in EntityOrNone
        BY MaxEntityAssumption DEF IInv, BoundInv, Minted, EntityOrNone
    <2>3. [Idle EXCEPT !.op = "claim", !.ent = e, !.a = r] \in AgreeingLocal
        BY <2>2 DEF AgreeingLocal, Local, Op
    <2> QED BY <2>1, <2>3, BeginGood DEF PC
<1>5. ASSUME BeginMediate(p) PROVE IInv'
    <2>1. PICK a, b \in Record, res \in Resolution :
            Begin(p, "find", [Idle EXCEPT !.op = "mediate", !.a = a, !.b = b, !.res = res])
        BY <1>5 DEF BeginMediate
    <2>2. [Idle EXCEPT !.op = "mediate", !.a = a, !.b = b, !.res = res] \in AgreeingLocal
        BY DEF AgreeingLocal, Local, Op
    <2> QED BY <2>1, <2>2, BeginGood DEF PC
<1>6. ASSUME BeginStabilize(p) PROVE IInv'
    <2>1. [Idle EXCEPT !.op = "stabilize"] \in AgreeingLocal
        BY DEF AgreeingLocal, Local, Op
    <2> QED BY <1>6, <2>1, BeginGood DEF BeginStabilize, PC
<1> QED BY <1>1, <1>2, <1>3, <1>4, <1>5, <1>6 DEF Invoke

----------------------------------------------------------------------------
(* resolve_clusters. *)

LEMMA ClusterType ==
    ASSUME CallInv, NEW p \in Client, AtCluster(p)
    PROVE  /\ ThisCluster(p) \in Cluster /\ ThisCluster(p).members \in SUBSET Record
           /\ Tail(local[p].left) \in Seq(Cluster)
           /\ Existing(p) \subseteq Entity
<1>1. local[p].left \in Seq(Cluster) /\ local[p].left # <<>>
    BY LocalFields DEF AtCluster
<1>2. ThisCluster(p) \in Cluster /\ Tail(local[p].left) \in Seq(Cluster)
    BY <1>1, HeadTailProperties DEF ThisCluster
<1>3. ThisCluster(p).members \in SUBSET Record
    BY <1>2 DEF Cluster
<1>4. Existing(p) \subseteq Entity
    BY <1>3, LocalFields, MaxEntityAssumption
    DEF Existing, FoundIn, Entity, EntityOrNone, NoEntity
<1> QED BY <1>2, <1>3, <1>4

\* The next cluster is taken with a well-formed program before it.
LEMMA ResolveContinues ==
    ASSUME CallInv, NEW p \in Client, AtCluster(p), NEW prog \in Seq(AgreeingStmt),
           Resolve(p, prog)
    PROVE  CallInv'
<1>1. [local[p] EXCEPT !.left = Tail(local[p].left)] \in AgreeingLocal
    BY LocalFields, ClusterType, UpdateBatch
<1> QED BY <1>1, ContinueGood DEF KnowsTargets, Resolve, PC

LEMMA FlushGood ==
    ASSUME StoreInv, NEW p \in Client, NEW rows \in SUBSET Row, Flush(p, rows)
    PROVE  StoreInv'
<1>1. BulkWrite(View(p), rows) \in AgreeingGraph
    BY ViewGood, BulkWriteType DEF AgreeingGraph, Row, BulkRow
<1> QED BY <1>1, CommitGood DEF Flush

\* The pre-flight reads: the snapshot is taken from an agreeing graph.
LEMMA PreflightGood ==
    ASSUME IInv, NEW p \in Client, ResolveLookup(p) \/ ResolveNodes(p)
    PROVE  IInv'
<1> USE EmptyProgram
<1>1. /\ View(p).owner \in [Record -> EntityOrNone]
      /\ View(p).status \in [Entity -> Status] /\ View(p).into \in [Entity -> EntityOrNone]
      /\ PointersAgree(View(p))
    BY ViewGood DEF IInv, Graph
<1>2. ASSUME ResolveLookup(p) PROVE IInv'
    <2> DEFINE rs == BatchRecords(local[p].clusters)
               found == [r \in Record |-> IF r \in rs THEN View(p).owner[r] ELSE NoEntity]
    <2>1. found \in [Record -> EntityOrNone]
        BY <1>1, MaxEntityAssumption DEF EntityOrNone, NoEntity
    <2>2. Continue(p, "nodes", <<>>, [local[p] EXCEPT !.found = found])
        BY <1>2 DEF ResolveLookup
    <2> HIDE DEF found
    <2>3. [local[p] EXCEPT !.found = found] \in AgreeingLocal
        BY <2>1, LocalFields, UpdateBatch DEF IInv
    <2>4. CallInv'
        BY <2>2, <2>3, ContinueGood DEF KnowsTargets, IInv, PC
    <2> QED BY <1>2, <2>4, StoreStays, BoundsStay DEF IInv, ResolveLookup
<1>3. ASSUME ResolveNodes(p) PROVE IInv'
    <2> DEFINE seen(e) == \E r \in Record : local[p].found[r] = e
               snap == [e \in Entity |->
                          IF seen(e) THEN [status |-> View(p).status[e], into |-> View(p).into[e]]
                          ELSE [status |-> "absent", into |-> NoEntity]]
    <2>1. snap \in [Entity -> Snapshot]
        BY <1>1, MaxEntityAssumption DEF Snapshot, Status, EntityOrNone, NoEntity
    <2>2. \A e \in Entity : snap[e].status = "merged_into" <=> snap[e].into # NoEntity
        BY <1>1 DEF PointersAgree
    <2>3. Continue(p, "loop", <<>>, [local[p] EXCEPT !.snap = snap])
        BY <1>3 DEF ResolveNodes
    <2> HIDE DEF snap
    <2>4. [local[p] EXCEPT !.snap = snap] \in AgreeingLocal
        BY <2>1, <2>2, LocalFields, UpdateSnapshot DEF IInv
    <2>5. CallInv'
        BY <2>3, <2>4, ContinueGood DEF KnowsTargets, IInv, PC
    <2> QED BY <1>3, <2>5, StoreStays, BoundsStay DEF IInv, ResolveNodes
<1> QED BY <1>2, <1>3

\* A brand-new cluster, by itself or accumulated.
LEMMA ResolveNewGood ==
    ASSUME IInv, NEW p \in Client, ResolveAccumulate(p) \/ ResolveCreate(p)
    PROVE  IInv'
<1> DEFINE c == ThisCluster(p)
           new == NextEntity
           edges == Evidence(c, new, c.members, local[p].run)
<1>1. AtCluster(p) /\ CanMint /\ Mint
    BY DEF ResolveAccumulate, ResolveCreate
<1>2. BoundInv' /\ new \in Entity
    BY <1>1, MintGood DEF IInv
<1>3. c \in Cluster /\ c.members \in SUBSET Record /\ local[p].run \in Run
    BY <1>1, ClusterType, LocalFields DEF IInv
<1>4. edges \in SUBSET Edge
    BY <1>2, <1>3, EvidenceType
<1>5. ASSUME ResolveCreate(p) PROVE IInv'
    <2> DEFINE prog == <<Node(new, "active", NoEntity), Emit({Ev("created", new, NoEntity)}),
                         Attach(c.members, new), Link(edges)>>
    <2>1. Ev("created", new, NoEntity) \in Event
        BY <1>2, EvType, MaxEntityAssumption DEF EventKind, EntityOrNone, NoEntity
    <2>2. /\ Node(new, "active", NoEntity) \in AgreeingStmt
          /\ Emit({Ev("created", new, NoEntity)}) \in AgreeingStmt
          /\ Attach(c.members, new) \in AgreeingStmt /\ Link(edges) \in AgreeingStmt
        BY <1>2, <1>3, <1>4, <2>1, ActiveNodeGood, EmitGood, AttachGood, LinkGood
    <2>3. Resolve(p, prog) /\ UNCHANGED storeVars
        BY <1>5 DEF ResolveCreate
    <2>4. prog \in Seq(AgreeingStmt)
        BY <2>2
    <2> HIDE DEF prog
    <2>5. CallInv'
        BY <1>1, <2>3, <2>4, ResolveContinues DEF IInv
    <2> QED BY <1>2, <2>3, <2>5, StoreStays DEF IInv
<1>6. ASSUME ResolveAccumulate(p) PROVE IInv'
    <2> DEFINE rows == local[p].rows \cup {[ent |-> new, members |-> c.members, edges |-> edges]}
               full == Cardinality(UNION {w.members : w \in rows}) >= FlushRows
               kept == IF full THEN {} ELSE rows
               l == [local[p] EXCEPT !.left = Tail(@), !.rows = kept]
    <2>1. rows \in SUBSET Row
        BY <1>2, <1>3, <1>4, LocalFields DEF IInv, Row
    <2>2. /\ Continue(p, "loop", <<>>, l)
          /\ IF full THEN Flush(p, rows) ELSE UNCHANGED storeVars
        BY <1>6 DEF ResolveAccumulate
    <2>3. kept \in SUBSET Row
        BY <2>1
    <2> HIDE DEF rows, full, kept
    <2>4. l \in AgreeingLocal
        BY <1>1, <2>3, ClusterType, LocalFields, UpdateBatch DEF IInv
    <2> HIDE DEF l
    <2>5. CallInv'
        BY <2>2, <2>4, EmptyProgram, ContinueGood DEF KnowsTargets, IInv, PC
    <2>6. StoreInv'
        BY <2>1, <2>2, FlushGood, StoreStays DEF IInv
    <2> QED BY <1>2, <2>5, <2>6 DEF IInv
<1> QED BY <1>5, <1>6

\* A cluster found in one entity: the node is written as the snapshot shows it.
LEMMA ResolveAbsorbGood ==
    ASSUME IInv, NEW p \in Client, ResolveAbsorb(p)
    PROVE  IInv'
<1>1. AtCluster(p) /\ UNCHANGED <<storeVars, boundVars>>
    BY DEF ResolveAbsorb
<1> DEFINE c == ThisCluster(p)
           added == {r \in c.members : local[p].found[r] = NoEntity}
           prog(e) == <<Node(e, Refreshed(local[p].snap[e]), local[p].snap[e].into),
                        Emit({Ev("absorbed_record", e, NoEntity) : r \in added}),
                        Attach(c.members, e),
                        Link(Evidence(c, e, added, local[p].run))>>
<1>2. PICK e \in Existing(p) : Resolve(p, prog(e))
    BY DEF ResolveAbsorb
<1>3. c.members \in SUBSET Record /\ e \in Entity /\ local[p].run \in Run
    BY <1>1, ClusterType, LocalFields DEF IInv
<1>4. Node(e, Refreshed(local[p].snap[e]), local[p].snap[e].into) \in AgreeingStmt
    <2>1. /\ local[p].snap[e] \in Snapshot
          /\ local[p].snap[e].status = "merged_into" <=> local[p].snap[e].into # NoEntity
        BY <1>3, LocalFields DEF IInv, AgreeingLocal
    <2>2. /\ Refreshed(local[p].snap[e]) \in Status \ {"absent"}
          /\ Refreshed(local[p].snap[e]) = "merged_into" <=> local[p].snap[e].into # NoEntity
          /\ local[p].snap[e].into \in EntityOrNone
        BY <2>1 DEF Refreshed, Snapshot, Status
    <2> QED BY <1>3, <2>2, NodeGood
<1>5. Emit({Ev("absorbed_record", e, NoEntity) : r \in added}) \in AgreeingStmt
    <2>1. Ev("absorbed_record", e, NoEntity) \in Event
        BY <1>3, EvType, MaxEntityAssumption DEF EventKind, EntityOrNone, NoEntity
    <2> QED BY <2>1, EmitGood
<1>6. Attach(c.members, e) \in AgreeingStmt
    BY <1>3, AttachGood
<1>7. Link(Evidence(c, e, added, local[p].run)) \in AgreeingStmt
    BY <1>3, EvidenceType, LinkGood
<1>8. prog(e) \in Seq(AgreeingStmt)
    BY <1>4, <1>5, <1>6, <1>7
<1> HIDE DEF prog
<1>9. CallInv'
    BY <1>1, <1>2, <1>8, ResolveContinues DEF IInv
<1> QED BY <1>1, <1>9, StoreStays, BoundsStay DEF IInv

\* A cluster found in several entities.
LEMMA ResolveMergeGood ==
    ASSUME IInv, NEW p \in Client, ResolveMerge(p)
    PROVE  IInv'
<1>1. AtCluster(p) /\ UNCHANGED <<storeVars, boundVars>>
    BY DEF ResolveMerge
<1> DEFINE c == ThisCluster(p)
           losers(w) == Existing(p) \ {w}
           prog(w) == <<Node(w, "active", NoEntity),
                        Emit({Ev("merged_with", w, NoEntity)}),
                        Absorb(losers(w), w),
                        Attach(c.members, w),
                        Link(Evidence(c, w, c.members, local[p].run)),
                        Carry(losers(w), w, local[p].run)>>
<1>2. PICK w \in MergeWinner(local[p].found, c.members) : Resolve(p, prog(w))
    BY DEF ResolveMerge
<1>3. c.members \in SUBSET Record /\ Existing(p) \subseteq Entity /\ local[p].run \in Run
    BY <1>1, ClusterType, LocalFields DEF IInv
<1>4. w \in Existing(p) /\ w \in Entity
    BY <1>2, <1>3 DEF MergeWinner, Foremost, Existing
<1>5. Node(w, "active", NoEntity) \in AgreeingStmt
    BY <1>4, ActiveNodeGood
<1>6. Emit({Ev("merged_with", w, NoEntity)}) \in AgreeingStmt
    <2>1. Ev("merged_with", w, NoEntity) \in Event
        BY <1>4, EvType, MaxEntityAssumption DEF EventKind, EntityOrNone, NoEntity
    <2> QED BY <2>1, EmitGood
<1>7. Absorb(losers(w), w) \in AgreeingStmt /\ Carry(losers(w), w, local[p].run) \in AgreeingStmt
    BY <1>3, <1>4, RetireGood, CarryGood
<1>8. Attach(c.members, w) \in AgreeingStmt
    BY <1>3, <1>4, AttachGood
<1>9. Link(Evidence(c, w, c.members, local[p].run)) \in AgreeingStmt
    BY <1>3, <1>4, EvidenceType, LinkGood
<1>10. prog(w) \in Seq(AgreeingStmt)
    BY <1>5, <1>6, <1>7, <1>8, <1>9
<1> HIDE DEF prog
<1>11. CallInv'
    BY <1>1, <1>2, <1>10, ResolveContinues DEF IInv
<1> QED BY <1>1, <1>11, StoreStays, BoundsStay DEF IInv

\* The rest of a batch: clusters passed over, the last flush, and the
\* deterministic merge in its two steps.
LEMMA ResolveEndGood ==
    ASSUME IInv, NEW p \in Client,
           ResolveSkip(p) \/ ResolveFinish(p) \/ DetMergeRead(p) \/ DetMergeWrite(p)
    PROVE  IInv'
<1> USE EmptyProgram
<1>1. ASSUME ResolveSkip(p) PROVE IInv'
    <2>1. CallInv'
        BY <1>1, ResolveContinues DEF IInv, ResolveSkip
    <2> QED BY <1>1, <2>1, StoreStays, BoundsStay DEF IInv, ResolveSkip
<1>2. ASSUME ResolveFinish(p) PROVE IInv'
    <2>1. CallInv'
        <3>1. [local[p] EXCEPT !.rows = {}] \in AgreeingLocal
            BY LocalFields, UpdateBatch DEF IInv
        <3>2. (IF DetMerge THEN "detread" ELSE "return") \in PC
            BY DEF PC
        <3> QED BY <1>2, <3>1, <3>2, ContinueGood DEF KnowsTargets, IInv, ResolveFinish
    <2>2. StoreInv'
        BY <1>2, LocalFields, FlushGood, StoreStays DEF IInv, ResolveFinish
    <2> QED BY <1>2, <2>1, <2>2, BoundsStay DEF IInv, ResolveFinish
<1>3. ASSUME DetMergeRead(p) PROVE IInv'
    <2> DEFINE remap == SharedKeyRemap(View(p))
               next == IF \A e \in Entity : remap[e] = e THEN "return" ELSE "detwrite"
    <2>1. Continue(p, next, <<>>, [local[p] EXCEPT !.remap = remap])
        BY <1>3 DEF DetMergeRead
    <2>2. remap \in [Entity -> Entity]
        BY SharedKeyRemapType
    <2>3. next \in PC \ {"other", "records", "record", "loser"}
        BY DEF PC
    <2> HIDE DEF remap, next
    <2>4. [local[p] EXCEPT !.remap = remap] \in AgreeingLocal
        BY <2>2, LocalFields, UpdateBatch DEF IInv
    <2>5. CallInv'
        BY <2>1, <2>3, <2>4, ContinueGood DEF KnowsTargets, IInv
    <2> QED BY <1>3, <2>5, StoreStays, BoundsStay DEF IInv, DetMergeRead
<1>4. ASSUME DetMergeWrite(p) PROVE IInv'
    <2>1. CallInv'
        BY <1>4, LocalFields, ContinueGood DEF KnowsTargets, IInv, DetMergeWrite, PC
    <2>2. RemapEntities(View(p), local[p].remap) \in AgreeingGraph
        BY LocalFields, ViewGood, RemapEntitiesType DEF IInv, AgreeingGraph
    <2>3. StoreInv'
        BY <1>4, <2>2, ExecGood DEF IInv, DetMergeWrite
    <2> QED BY <1>4, <2>1, <2>3, BoundsStay DEF IInv, DetMergeWrite
<1> QED BY <1>1, <1>2, <1>3, <1>4

----------------------------------------------------------------------------
(* Steward operations. *)

\* A call goes on in its own variables with a well-formed program.
LEMMA StewardContinues ==
    ASSUME IInv, NEW p \in Client, NEW next \in PC, NEW prog \in Seq(AgreeingStmt),
           \/ KnowsTargets(next, local[p]) /\ Continue(p, next, prog, local[p])
           \/ GiveUp(p)
    PROVE  CallInv'
<1>1. local[p] \in AgreeingLocal /\ [local[p] EXCEPT !.op = "none"] \in AgreeingLocal
    BY LocalFields, UpdateTargets, MaxEntityAssumption DEF IInv
<1>2. ASSUME GiveUp(p) PROVE CallInv'
    BY <1>1, <1>2, EmptyProgram, ContinueGood DEF KnowsTargets, IInv, GiveUp, PC
<1> QED BY <1>1, <1>2, ContinueGood DEF KnowsTargets, IInv

\* A row that has a status is an entity's.
LEMMA ExistsType ==
    ASSUME NEW g, NEW e
    PROVE  /\ Exists(g, e) => e \in Entity
           /\ Active(g, e) => Exists(g, e)
BY DEF Exists, Active

LEMMA MergeGood ==
    ASSUME IInv, NEW p \in Client, MergeCheck(p) \/ MergeCheckOther(p) \/ MergeRecords(p)
    PROVE  IInv'
<1>3. ASSUME MergeCheckOther(p) PROVE IInv'
    <2>1. local[p].ent \in Entity
        BY <1>3 DEF MergeCheckOther, At, IInv, CallInv, KnowsTargets
    <2>2. CallInv'
        BY <1>3, <2>1, EmptyProgram, StewardContinues, ExistsType
        DEF MergeCheckOther, PC, KnowsTargets
    <2> QED BY <1>3, <2>2, StoreStays, BoundsStay DEF IInv, MergeCheckOther
<1>1. ASSUME MergeCheck(p) PROVE IInv'
    <2>1. CallInv'
        BY <1>1, EmptyProgram, StewardContinues, ExistsType DEF MergeCheck, PC, KnowsTargets
    <2> QED BY <1>1, <2>1, StoreStays, BoundsStay DEF IInv, MergeCheck
<1>2. ASSUME MergeRecords(p) PROVE IInv'
    <2> DEFINE keep == local[p].ent
               gone == local[p].other
               prog == <<Attach(RecordsOf(View(p), gone), keep),
                         Retire({gone}, keep),
                         Emit({Ev("manual_merge", keep, NoEntity)}),
                         Emit({Ev("manual_merge", gone, keep)})>>
    <2>1. Continue(p, "return", prog, local[p])
        BY <1>2 DEF MergeRecords
    <2>2. keep \in Entity /\ gone \in Entity
        BY <1>2 DEF MergeRecords, At, IInv, CallInv, KnowsTargets
    <2>3. Attach(RecordsOf(View(p), gone), keep) \in AgreeingStmt
        BY <2>2, AttachGood DEF RecordsOf
    <2>4. Retire({gone}, keep) \in AgreeingStmt
        BY <2>2, RetireGood
    <2>5. /\ Emit({Ev("manual_merge", keep, NoEntity)}) \in AgreeingStmt
          /\ Emit({Ev("manual_merge", gone, keep)}) \in AgreeingStmt
        <3>1. /\ "manual_merge" \in EventKind
              /\ keep \in EntityOrNone /\ NoEntity \in EntityOrNone
            BY <2>2, MaxEntityAssumption DEF EventKind, Entity, EntityOrNone, NoEntity
        <3>2. Ev("manual_merge", keep, NoEntity) \in Event /\ Ev("manual_merge", gone, keep) \in Event
            BY <2>2, <3>1, EvType
        <3> QED BY <3>2, EmitGood
    <2>6. prog \in Seq(AgreeingStmt)
        BY <2>3, <2>4, <2>5
    <2> HIDE DEF prog
    <2>7. CallInv'
        BY <2>1, <2>6, StewardContinues DEF KnowsTargets, PC
    <2> QED BY <1>2, <2>7, StoreStays, BoundsStay DEF IInv, MergeRecords
<1> QED BY <1>1, <1>2, <1>3

LEMMA SplitProgramGood ==
    ASSUME NEW e \in Entity, NEW rs \in SUBSET Record, NextEntity \in Entity
    PROVE  SplitProgram(e, rs) \in Seq(AgreeingStmt)
<1>1. Node(NextEntity, "active", NoEntity) \in AgreeingStmt
    BY ActiveNodeGood
<1>2. Move(rs, e, NextEntity) \in AgreeingStmt
    BY MoveGood
<1>3. /\ Emit({Ev("manual_split", e, NoEntity)}) \in AgreeingStmt
      /\ Emit({Ev("manual_split", NextEntity, NoEntity)}) \in AgreeingStmt
    <2>1. "manual_split" \in EventKind /\ NoEntity \in EntityOrNone
        BY MaxEntityAssumption DEF EventKind, EntityOrNone, NoEntity
    <2>2. /\ Ev("manual_split", e, NoEntity) \in Event
          /\ Ev("manual_split", NextEntity, NoEntity) \in Event
        BY <2>1, EvType
    <2> QED BY <2>2, EmitGood
<1> QED BY <1>1, <1>2, <1>3 DEF SplitProgram

LEMMA SplitGood ==
    ASSUME IInv, NEW p \in Client, SplitCheck(p)
    PROVE  IInv'
<1>1. UNCHANGED storeVars
    BY DEF SplitCheck
<1>2. CASE Exists(View(p), local[p].ent)
    <2>1. /\ CanMint /\ Mint
          /\ Continue(p, "return", SplitProgram(local[p].ent, local[p].recs), local[p])
        BY <1>2 DEF SplitCheck
    <2>2. BoundInv' /\ NextEntity \in Entity
        BY <2>1, MintGood DEF IInv
    <2>3. SplitProgram(local[p].ent, local[p].recs) \in Seq(AgreeingStmt)
        BY <1>2, <2>2, ExistsType, LocalFields, SplitProgramGood DEF IInv
    <2>4. CallInv'
        BY <2>1, <2>3, StewardContinues DEF KnowsTargets, PC
    <2> QED BY <1>1, <2>2, <2>4, StoreStays DEF IInv
<1>3. CASE ~Exists(View(p), local[p].ent)
    <2>1. GiveUp(p) /\ UNCHANGED boundVars
        BY <1>3 DEF SplitCheck
    <2>2. CallInv'
        BY <2>1, EmptyProgram, StewardContinues DEF PC
    <2> QED BY <1>1, <2>1, <2>2, StoreStays, BoundsStay DEF IInv
<1> QED BY <1>2, <1>3

LEMMA ClaimGood ==
    ASSUME IInv, NEW p \in Client, ClaimTarget(p) \/ ClaimRecord(p)
    PROVE  IInv'
<1>1. UNCHANGED <<storeVars, boundVars>>
    BY DEF ClaimTarget, ClaimRecord
<1>2. ASSUME ClaimTarget(p) PROVE CallInv'
    BY <1>2, EmptyProgram, StewardContinues, ExistsType DEF ClaimTarget, PC, KnowsTargets
<1>3. ASSUME ClaimRecord(p) PROVE CallInv'
    <2> DEFINE e == local[p].ent
               prev == View(p).owner[local[p].a]
               prog == <<Attach({local[p].a}, e),
                         Emit({Ev("claimed", e, NoEntity)}),
                         Emit({Ev("claimed", prev, NoEntity)})>>
    <2>1. CASE prev \in {NoEntity, e}
        BY <1>3, <2>1, EmptyProgram, StewardContinues DEF ClaimRecord, PC
    <2>2. CASE prev \notin {NoEntity, e}
        <3>1. Continue(p, "return", prog, local[p])
            BY <1>3, <2>2 DEF ClaimRecord
        <3>2. local[p].a \in Record /\ e \in Entity
            BY <1>3, LocalFields DEF IInv, CallInv, KnowsTargets, ClaimRecord, At
        <3>3. prev \in Entity
            <4>1. prev \in EntityOrNone
                BY <3>2, ViewGood DEF IInv, Graph
            <4> QED BY <2>2, <4>1, MaxEntityAssumption DEF Entity, EntityOrNone, NoEntity
        <3>4. "claimed" \in EventKind /\ NoEntity \in EntityOrNone
            BY MaxEntityAssumption DEF EventKind, EntityOrNone, NoEntity
        <3> HIDE DEF e, prev
        <3>5. Ev("claimed", e, NoEntity) \in Event /\ Ev("claimed", prev, NoEntity) \in Event
            BY <3>2, <3>3, <3>4, EvType
        <3>6. /\ Attach({local[p].a}, e) \in AgreeingStmt
              /\ Emit({Ev("claimed", e, NoEntity)}) \in AgreeingStmt
              /\ Emit({Ev("claimed", prev, NoEntity)}) \in AgreeingStmt
            BY <3>2, <3>5, AttachGood, EmitGood
        <3>7. prog \in Seq(AgreeingStmt)
            BY <3>6
        <3> HIDE DEF prog
        <3> QED BY <3>1, <3>7, StewardContinues DEF KnowsTargets, PC
    <2> QED BY <2>1, <2>2
<1> QED BY <1>1, <1>2, <1>3, StoreStays, BoundsStay DEF IInv

LEMMA MediateGood ==
    ASSUME IInv, NEW p \in Client, MediateFind(p) \/ MediateFindOther(p) \/ MediateAct(p)
    PROVE  IInv'
<1>1. UNCHANGED storeVars
    BY DEF MediateFind, MediateFindOther, MediateAct
<1> DEFINE l == local[p]
<1>2. l.a \in Record /\ l.b \in Record /\ l.res \in Resolution /\ l.ent \in EntityOrNone
    BY LocalFields DEF IInv
<1>3. ASSUME NEW e \in EntityOrNone, Rule(p, e), UNCHANGED boundVars PROVE IInv'
    <2> DEFINE prog == <<RecordVerdict({l.a, l.b}, l.res)>>
    <2>1. Continue(p, "act", prog, [l EXCEPT !.ent = e])
        BY <1>3 DEF Rule
    <2>2. prog \in Seq(AgreeingStmt)
        BY <1>2, VerdictGood DEF Pair
    <2> HIDE DEF prog
    <2>3. [l EXCEPT !.ent = e] \in AgreeingLocal
        BY LocalFields, UpdateTargets DEF IInv
    <2>4. CallInv'
        BY <2>1, <2>2, <2>3, ContinueGood DEF KnowsTargets, IInv, PC
    <2> QED BY <1>1, <1>3, <2>4, StoreStays, BoundsStay DEF IInv
<1>5. View(p).owner[l.a] \in EntityOrNone /\ View(p).owner[l.b] \in EntityOrNone
    BY <1>2, ViewGood DEF IInv, Graph
<1>6. ASSUME MediateFind(p) PROVE IInv'
    <2>1. UNCHANGED boundVars
        BY <1>6 DEF MediateFind
    <2>2. CASE Rule(p, View(p).owner[l.a])
        BY <1>3, <1>5, <2>1, <2>2
    <2>3. CASE Continue(p, "findb", <<>>, local[p])
        <3>1. CallInv'
            BY <2>3, EmptyProgram, StewardContinues DEF PC, KnowsTargets
        <3> QED BY <1>1, <2>1, <3>1, StoreStays, BoundsStay DEF IInv
    <2> QED BY <1>6, <2>2, <2>3 DEF MediateFind
<1>7. ASSUME MediateFindOther(p) PROVE IInv'
    BY <1>3, <1>5, <1>7 DEF MediateFindOther
<1>4. ASSUME MediateAct(p) PROVE IInv'
    <2> DEFINE said == IF l.ent = NoEntity THEN {} ELSE {Ev("conflict_mediated", l.ent, NoEntity)}
               split == /\ l.res = "distinct"
                        /\ l.ent # NoEntity
                        /\ View(p).owner[l.b] = l.ent
    <2>1. Emit(said) \in AgreeingStmt
        <3>1. /\ "conflict_mediated" \in EventKind /\ NoEntity \in EntityOrNone
              /\ l.ent # NoEntity => l.ent \in Entity
            BY <1>2, MaxEntityAssumption DEF EventKind, Entity, EntityOrNone, NoEntity
        <3>2. said \in SUBSET Event
            BY <3>1, EvType
        <3> QED BY <3>2, EmitGood
    <2> HIDE DEF said
    <2>2. CASE split
        <3>1. /\ CanMint /\ Mint
              /\ Continue(p, "return", Append(SplitProgram(l.ent, {l.b}), Emit(said)), l)
            BY <1>4, <2>2 DEF MediateAct, said
        <3>2. BoundInv' /\ NextEntity \in Entity
            BY <3>1, MintGood DEF IInv
        <3>3. l.ent \in Entity
            BY <1>2, <2>2, MaxEntityAssumption DEF Entity, EntityOrNone, NoEntity
        <3>4. SplitProgram(l.ent, {l.b}) \in Seq(AgreeingStmt)
            BY <1>2, <3>2, <3>3, SplitProgramGood
        <3>5. Append(SplitProgram(l.ent, {l.b}), Emit(said)) \in Seq(AgreeingStmt)
            BY <2>1, <3>4, AppendProperties
        <3>6. CallInv'
            BY <3>1, <3>5, StewardContinues DEF KnowsTargets, PC
        <3> QED BY <1>1, <3>2, <3>6, StoreStays DEF IInv
    <2>3. CASE ~split
        <3>1. Continue(p, "return", <<Emit(said)>>, l) /\ UNCHANGED boundVars
            BY <1>4, <2>3 DEF MediateAct, said
        <3>2. <<Emit(said)>> \in Seq(AgreeingStmt)
            BY <2>1
        <3>3. CallInv'
            BY <3>1, <3>2, StewardContinues DEF KnowsTargets, PC
        <3> QED BY <1>1, <3>1, <3>3, StoreStays, BoundsStay DEF IInv
    <2> QED BY <2>2, <2>3
<1> QED BY <1>4, <1>6, <1>7

----------------------------------------------------------------------------
(* stabilize_identities. *)

LEMMA StabilizeGood ==
    ASSUME IInv, NEW p \in Client,
           StabilizeScan(p) \/ StabilizeGroup(p) \/ StabilizeLoser(p) \/ StabilizeNext(p)
    PROVE  IInv'
<1> USE EmptyProgram
<1>1. UNCHANGED <<storeVars, boundVars>>
    BY DEF StabilizeScan, StabilizeGroup, StabilizeLoser, StabilizeNext
<1>2. ASSUME StabilizeScan(p) PROVE CallInv'
    <2> DEFINE links == PersistentOverlaps(View(p))
               groups == OverlapGroups(View(p))
    <2>1. links \in SUBSET (SUBSET Entity) /\ groups \in SUBSET (SUBSET Entity)
        BY DEF PersistentOverlaps, OverlapGroups, ComponentOf
    <2>2. Continue(p, "group", <<>>, [local[p] EXCEPT !.links = links, !.groups = groups])
        BY <1>2 DEF StabilizeScan
    <2> HIDE DEF links, groups
    <2>3. [local[p] EXCEPT !.links = links, !.groups = groups] \in AgreeingLocal
        BY <2>1, LocalFields, UpdateOverlaps DEF IInv
    <2> QED BY <2>2, <2>3, ContinueGood DEF KnowsTargets, IInv, PC
<1>3. ASSUME StabilizeGroup(p) PROVE CallInv'
    <2> DEFINE Goes(group, w) ==
                 LET l == [local[p] EXCEPT !.groups = local[p].groups \ {group}]
                 IN IF Active(View(p), w)
                    THEN Continue(p, "loser", <<>>, [l EXCEPT !.ent = w, !.others = group \ {w}])
                    ELSE Continue(p, "group", <<>>, l)
    <2>10. PICK group \in local[p].groups :
             \E w \in ConsolidationWinner(View(p), group) : Goes(group, w)
        BY <1>3 DEF StabilizeGroup
    <2>1. PICK w \in ConsolidationWinner(View(p), group) : Goes(group, w)
        BY <2>10
    <2> DEFINE rest == local[p].groups \ {group}
               l == [local[p] EXCEPT !.groups = rest]
               m == [l EXCEPT !.ent = w, !.others = group \ {w}]
    <2>2. group \in SUBSET Entity /\ rest \in SUBSET (SUBSET Entity)
        BY LocalFields DEF IInv
    <2> HIDE DEF rest
    <2>3. l \in AgreeingLocal
        BY <2>2, LocalFields, UpdateTargets, MaxEntityAssumption DEF IInv
    <2>4. CASE ~Active(View(p), w)
        <3>1. Continue(p, "group", <<>>, l)
            BY <2>1, <2>4 DEF rest
        <3> QED BY <2>3, <3>1, ContinueGood DEF KnowsTargets, IInv, PC
    <2>5. CASE Active(View(p), w)
        <3>1. Continue(p, "loser", <<>>, m)
            BY <2>1, <2>5 DEF rest
        <3>2. w \in Entity /\ w \in EntityOrNone
            BY <2>5, MaxEntityAssumption DEF Active, Entity, EntityOrNone
        <3> HIDE DEF l
        <3>3. m \in AgreeingLocal /\ m.ent = w
            BY <2>2, <2>3, <3>2 DEF AgreeingLocal, Local
        <3> HIDE DEF m
        <3>4. KnowsTargets("loser", m)
            BY <3>2, <3>3 DEF KnowsTargets
        <3> QED BY <3>1, <3>3, <3>4, ContinueGood DEF IInv, PC
    <2> QED BY <2>4, <2>5
<1>4. ASSUME StabilizeLoser(p) PROVE CallInv'
    <2> DEFINE w == local[p].ent
               prog(loser) == <<Attach(RecordsOf(View(p), loser), w),
                                Retire({loser}, w),
                                Emit({Ev("consolidated", w, NoEntity)}),
                                Emit({Ev("consolidated", loser, w)})>>
               next(loser) == IF Active(View(p), loser) THEN prog(loser) ELSE <<>>
    <2>1. PICK loser \in local[p].others :
            Continue(p, "loser", next(loser),
                     [local[p] EXCEPT !.others = local[p].others \ {loser}])
        BY <1>4 DEF StabilizeLoser
    <2>2. w \in Entity /\ loser \in Entity
        BY <1>4, LocalFields DEF IInv, CallInv, KnowsTargets, StabilizeLoser, At
    <2>3. Attach(RecordsOf(View(p), loser), w) \in AgreeingStmt
        BY <2>2, AttachGood DEF RecordsOf
    <2>4. Retire({loser}, w) \in AgreeingStmt
        BY <2>2, RetireGood
    <2>5. /\ Emit({Ev("consolidated", w, NoEntity)}) \in AgreeingStmt
          /\ Emit({Ev("consolidated", loser, w)}) \in AgreeingStmt
        <3>1. /\ "consolidated" \in EventKind
              /\ w \in EntityOrNone /\ NoEntity \in EntityOrNone
            BY <2>2, MaxEntityAssumption DEF EventKind, Entity, EntityOrNone, NoEntity
        <3>2. Ev("consolidated", w, NoEntity) \in Event /\ Ev("consolidated", loser, w) \in Event
            BY <2>2, <3>1, EvType
        <3> QED BY <3>2, EmitGood
    <2>6. prog(loser) \in Seq(AgreeingStmt)
        BY <2>3, <2>4, <2>5
    <2> HIDE DEF prog
    <2>7. next(loser) \in Seq(AgreeingStmt)
        BY <2>6
    <2> HIDE DEF next
    <2>8. /\ [local[p] EXCEPT !.others = local[p].others \ {loser}] \in AgreeingLocal
          /\ [local[p] EXCEPT !.others = local[p].others \ {loser}].ent = w
        <3> DEFINE others == local[p].others \ {loser}
        <3>1. /\ others \in SUBSET Entity /\ local[p] \in AgreeingLocal
              /\ local[p].ent \in EntityOrNone /\ local[p].groups \in SUBSET (SUBSET Entity)
            BY LocalFields DEF IInv
        <3> HIDE DEF others
        <3>2. [local[p] EXCEPT !.others = others] \in AgreeingLocal
            BY <3>1, UpdateTargets
        <3>3. [local[p] EXCEPT !.others = others].ent = w
            BY <3>1 DEF AgreeingLocal, Local
        <3> QED BY <3>2, <3>3 DEF others
    <2>9. KnowsTargets("loser", [local[p] EXCEPT !.others = local[p].others \ {loser}])
        BY <2>2, <2>8 DEF KnowsTargets
    <2> QED BY <2>1, <2>7, <2>8, <2>9, ContinueGood DEF IInv, PC
<1>5. ASSUME StabilizeNext(p) PROVE CallInv'
    BY <1>5, StewardContinues DEF KnowsTargets, StabilizeNext, PC
<1> QED BY <1>1, <1>2, <1>3, <1>4, <1>5, StoreStays, BoundsStay DEF IInv

----------------------------------------------------------------------------
(* Writing. *)

\* A statement that writes g and leaves rest of itself to be written.
LEMMA WriteGoes ==
    ASSUME IInv, NEW p \in Client, todo[p] # <<>>, NEW g \in AgreeingGraph, Exec(p, g),
           NEW rest \in Seq(AgreeingStmt), Then(p, rest)
    PROVE  IInv'
BY ExecGood, ThenGood DEF IInv

LEMMA ExpandGoes ==
    ASSUME IInv, NEW p \in Client, todo[p] # <<>>, UNCHANGED <<durable, work, pending>>,
           writer' = writer \/ writer' = p, NEW prog \in Seq(AgreeingStmt), Then(p, prog)
    PROVE  IInv'
<1>1. StoreInv'
    BY DEF IInv, StoreInv
<1> QED BY <1>1, ThenGood DEF IInv

\* What the first statement s of a program makes of the graph g, and what it
\* leaves of itself to write.
Executes(s, g, h, rest) ==
    \/ Vacuous(s) /\ h = g /\ rest = <<>>
    \/ /\ s.op = "node" /\ rest = <<>>
       /\ h = UpsertIdentity(g, s.ent, s.status, s.into)
    \/ /\ s.op = "attach"
       /\ \E r \in s.recs :
            /\ h = UpsertRecord(g, r, s.ent)
            /\ rest = IF s.recs = {r} THEN <<>> ELSE <<Attach(s.recs \ {r}, s.ent)>>
    \/ /\ s.op = "move" /\ h = g
       /\ \E r \in s.recs :
            rest = <<Attach(IF g.owner[r] = s.from THEN {r} ELSE {}, s.ent),
                     Move(s.recs \ {r}, s.from, s.ent)>>
    \/ /\ s.op = "emit"
       /\ \E v \in s.events :
            /\ h = EmitEvents(g, {v})
            /\ rest = IF s.events = {v} THEN <<>> ELSE <<Emit(s.events \ {v})>>
    \/ /\ s.op = "retire"
       /\ \E e \in s.ents :
            /\ h = RetireIdentity(g, e, s.into)
            /\ rest = IF s.ents = {e} THEN <<>> ELSE <<Retire(s.ents \ {e}, s.into)>>
    \/ /\ s.op = "absorb" /\ h = g
       /\ \E e \in s.ents :
            rest = <<Retire({e}, s.into), Emit({Ev("merged_with", e, s.into)}),
                     Absorb(s.ents \ {e}, s.into)>>
    \/ /\ s.op = "link"
       /\ \E x \in s.edges :
            /\ h = AddEdges(g, {x})
            /\ rest = IF s.edges = {x} THEN <<>> ELSE <<Link(s.edges \ {x})>>
    \/ /\ s.op = "carry" /\ h = g
       /\ \E e \in s.ents :
            LET pairs == {x.pair : x \in Conflicts(g) \cap EdgesOf(g, e)}
            IN rest = <<Link(EdgesFor("conflicts_with", s.ent, pairs, s.run)),
                        Carry(s.ents \ {e}, s.ent, s.run)>>
    \/ /\ s.op = "verdict" /\ rest = <<>>
       /\ h = AddVerdict(g, s.pair, s.res)

\* A statement that writes, and one that only becomes other statements: of
\* those, the one that reads conflicts takes the lock.
Writes(p, h) ==
    \/ Exec(p, h)
    \/ /\ h = View(p) /\ UNCHANGED storeVars
       /\ Vacuous(Statement(p)) \/ Statement(p).op \in {"move", "absorb"}
    \/ /\ h = View(p) /\ UNCHANGED <<durable, work, pending>>
       /\ Statement(p).op = "carry" /\ CanWrite(p) /\ writer' = p

LEMMA WriteExecutes ==
    ASSUME IInv, NEW p \in Client, Write(p)
    PROVE  /\ todo[p] # <<>> /\ Statement(p) \in AgreeingStmt
           /\ \E rest \in Seq(AgreeingStmt), h \in AgreeingGraph :
                  Executes(Statement(p), View(p), h, rest) /\ Writes(p, h) /\ Then(p, rest)
<1> USE EmptyProgram
<1> DEFINE s == Statement(p)
           g == View(p)
           Goal == \E rest \in Seq(AgreeingStmt), h \in AgreeingGraph :
                      Executes(s, g, h, rest) /\ Writes(p, h) /\ Then(p, rest)
<1>1. todo[p] # <<>>
    BY DEF Write, WriteNothing, WriteNode, WriteRecord, MoveRecord, WriteEvent, WriteRetire,
           AbsorbLoser, WriteEdge, CarryConflicts, WriteVerdict, Is
<1>2. s \in AgreeingStmt
    BY <1>1, StatementGood DEF IInv
<1>3. g \in AgreeingGraph /\ g \in Graph /\ PointersAgree(g)
    BY ViewGood DEF IInv, AgreeingGraph
<1>4. ASSUME WriteNothing(p) PROVE Goal
    BY <1>3, <1>4 DEF WriteNothing, Executes, Writes
<1>5. ASSUME WriteNode(p) PROVE Goal
    <2> DEFINE h == UpsertIdentity(g, s.ent, s.status, s.into)
    <2>1. h \in AgreeingGraph
        BY <1>2, <1>3, <1>5, StmtFields, UpsertIdentityType DEF WriteNode, Is, Statement, AgreeingGraph
    <2>2. s.op = "node" /\ Exec(p, h) /\ Then(p, <<>>)
        BY <1>5 DEF WriteNode, Is, Statement
    <2> QED BY <2>1, <2>2 DEF Executes, Writes
<1>6. ASSUME WriteRecord(p) PROVE Goal
    <2>1. s.op = "attach" /\ s.recs \in SUBSET Record /\ s.ent \in Entity
        BY <1>2, <1>6, StmtFields DEF WriteRecord, Is, Statement
    <2> DEFINE rest(r) == IF s.recs = {r} THEN <<>> ELSE <<Attach(s.recs \ {r}, s.ent)>>
               h(r) == UpsertRecord(g, r, s.ent)
    <2>2. PICK r \in s.recs : Exec(p, h(r)) /\ Then(p, rest(r))
        BY <1>6 DEF WriteRecord
    <2>3. h(r) \in AgreeingGraph
        BY <1>3, <2>1, UpsertRecordType DEF AgreeingGraph
    <2>4. rest(r) \in Seq(AgreeingStmt)
        BY <2>1, AttachGood
    <2>5. Executes(s, g, h(r), rest(r))
        BY <2>1 DEF Executes
    <2> HIDE DEF rest, h
    <2> QED BY <2>2, <2>3, <2>4, <2>5 DEF Writes
<1>7. ASSUME MoveRecord(p) PROVE Goal
    <2>1. s.op = "move" /\ s.recs \in SUBSET Record /\ s.from \in Entity /\ s.ent \in Entity
        BY <1>2, <1>7, StmtFields DEF MoveRecord, Is, Statement
    <2> DEFINE still(r) == IF g.owner[r] = s.from THEN {r} ELSE {}
               rest(r) == <<Attach(still(r), s.ent), Move(s.recs \ {r}, s.from, s.ent)>>
    <2>2. PICK r \in s.recs : Then(p, rest(r)) /\ UNCHANGED storeVars
        BY <1>7 DEF MoveRecord
    <2>3. Attach(still(r), s.ent) \in AgreeingStmt /\ Move(s.recs \ {r}, s.from, s.ent) \in AgreeingStmt
        BY <2>1, AttachGood, MoveGood
    <2>4. rest(r) \in Seq(AgreeingStmt)
        BY <2>3
    <2>5. Executes(s, g, g, rest(r))
        BY <2>1 DEF Executes
    <2> HIDE DEF rest
    <2> QED BY <1>3, <2>1, <2>2, <2>4, <2>5 DEF Writes
<1>8. ASSUME WriteEvent(p) PROVE Goal
    <2>1. s.op = "emit" /\ s.events \in SUBSET Event
        BY <1>2, <1>8, StmtFields DEF WriteEvent, Is, Statement
    <2> DEFINE rest(v) == IF s.events = {v} THEN <<>> ELSE <<Emit(s.events \ {v})>>
               h(v) == EmitEvents(g, {v})
    <2>2. PICK v \in s.events : Exec(p, h(v)) /\ Then(p, rest(v))
        BY <1>8 DEF WriteEvent
    <2>3. h(v) \in AgreeingGraph
        BY <1>3, <2>1, EmitEventsType DEF AgreeingGraph
    <2>4. rest(v) \in Seq(AgreeingStmt)
        BY <2>1, EmitGood
    <2>5. Executes(s, g, h(v), rest(v))
        BY <2>1 DEF Executes
    <2> HIDE DEF rest, h
    <2> QED BY <2>2, <2>3, <2>4, <2>5 DEF Writes
<1>9. ASSUME WriteRetire(p) PROVE Goal
    <2>1. s.op = "retire" /\ s.ents \in SUBSET Entity /\ s.into \in Entity
        BY <1>2, <1>9, StmtFields DEF WriteRetire, Is, Statement
    <2> DEFINE rest(e) == IF s.ents = {e} THEN <<>> ELSE <<Retire(s.ents \ {e}, s.into)>>
               h(e) == RetireIdentity(g, e, s.into)
    <2>2. PICK e \in s.ents : Exec(p, h(e)) /\ Then(p, rest(e))
        BY <1>9 DEF WriteRetire
    <2>3. h(e) \in AgreeingGraph
        BY <1>3, <2>1, RetireIdentityType DEF AgreeingGraph
    <2>4. rest(e) \in Seq(AgreeingStmt)
        BY <2>1, RetireGood
    <2>5. Executes(s, g, h(e), rest(e))
        BY <2>1 DEF Executes
    <2> HIDE DEF rest, h
    <2> QED BY <2>2, <2>3, <2>4, <2>5 DEF Writes
<1>10. ASSUME AbsorbLoser(p) PROVE Goal
    <2>1. s.op = "absorb" /\ s.ents \in SUBSET Entity /\ s.into \in Entity
        BY <1>2, <1>10, StmtFields DEF AbsorbLoser, Is, Statement
    <2> DEFINE rest(e) == <<Retire({e}, s.into), Emit({Ev("merged_with", e, s.into)}),
                            Absorb(s.ents \ {e}, s.into)>>
    <2>2. PICK e \in s.ents : Then(p, rest(e)) /\ UNCHANGED storeVars
        BY <1>10 DEF AbsorbLoser
    <2>3. Ev("merged_with", e, s.into) \in Event
        BY <2>1, EvType, MaxEntityAssumption DEF EventKind, Entity, EntityOrNone
    <2>4. /\ Retire({e}, s.into) \in AgreeingStmt /\ Absorb(s.ents \ {e}, s.into) \in AgreeingStmt
          /\ Emit({Ev("merged_with", e, s.into)}) \in AgreeingStmt
        BY <2>1, <2>3, RetireGood, EmitGood
    <2>5. rest(e) \in Seq(AgreeingStmt)
        BY <2>4
    <2>6. Executes(s, g, g, rest(e))
        BY <2>1 DEF Executes
    <2> HIDE DEF rest
    <2> QED BY <1>3, <2>1, <2>2, <2>5, <2>6 DEF Writes
<1>11. ASSUME WriteEdge(p) PROVE Goal
    <2>1. s.op = "link" /\ s.edges \in SUBSET Edge
        BY <1>2, <1>11, StmtFields DEF WriteEdge, Is, Statement
    <2> DEFINE rest(x) == IF s.edges = {x} THEN <<>> ELSE <<Link(s.edges \ {x})>>
               h(x) == AddEdges(g, {x})
    <2>2. PICK x \in s.edges : Exec(p, h(x)) /\ Then(p, rest(x))
        BY <1>11 DEF WriteEdge
    <2>3. h(x) \in AgreeingGraph
        BY <1>3, <2>1, AddEdgesType DEF AgreeingGraph
    <2>4. rest(x) \in Seq(AgreeingStmt)
        BY <2>1, LinkGood
    <2>5. Executes(s, g, h(x), rest(x))
        BY <2>1 DEF Executes
    <2> HIDE DEF rest, h
    <2> QED BY <2>2, <2>3, <2>4, <2>5 DEF Writes
<1>12. ASSUME CarryConflicts(p) PROVE Goal
    <2>1. s.op = "carry" /\ s.ents \in SUBSET Entity /\ s.ent \in Entity /\ s.run \in Run
        BY <1>2, <1>12, StmtFields DEF CarryConflicts, Is, Statement
    <2> DEFINE carried(e) == {x.pair : x \in Conflicts(g) \cap EdgesOf(g, e)}
               edges(e) == EdgesFor("conflicts_with", s.ent, carried(e), s.run)
               rest(e) == <<Link(edges(e)), Carry(s.ents \ {e}, s.ent, s.run)>>
    <2>2. PICK e \in s.ents : Then(p, rest(e))
        BY <1>12 DEF CarryConflicts
    <2>3. Executes(s, g, g, rest(e))
        BY <2>1 DEF Executes
    <2>4. carried(e) \in SUBSET Pair
        BY <1>3 DEF Conflicts, Graph, Edge
    <2> HIDE DEF carried
    <2>5. edges(e) \in SUBSET Edge
        BY <2>1, <2>4 DEF EdgesFor, Edge, EdgeKind
    <2>6. Link(edges(e)) \in AgreeingStmt /\ Carry(s.ents \ {e}, s.ent, s.run) \in AgreeingStmt
        BY <2>1, <2>5, LinkGood, CarryGood
    <2>7. rest(e) \in Seq(AgreeingStmt)
        BY <2>6
    <2> HIDE DEF rest
    <2>8. Writes(p, g)
        BY <1>12, <2>1 DEF CarryConflicts, Writes
    <2> QED BY <1>3, <2>2, <2>3, <2>7, <2>8
<1>13. ASSUME WriteVerdict(p) PROVE Goal
    <2> DEFINE h == AddVerdict(g, s.pair, s.res)
    <2>1. h \in AgreeingGraph
        BY <1>2, <1>3, <1>13, StmtFields, AddVerdictType
        DEF WriteVerdict, Is, Statement, AgreeingGraph
    <2>2. s.op = "verdict" /\ Exec(p, h) /\ Then(p, <<>>)
        BY <1>13 DEF WriteVerdict, Is, Statement
    <2> QED BY <2>1, <2>2 DEF Executes, Writes
<1> QED BY <1>1, <1>2, <1>4, <1>5, <1>6, <1>7, <1>8, <1>9, <1>10, <1>11, <1>12, <1>13 DEF Write

LEMMA WriteGood ==
    ASSUME IInv, NEW p \in Client, Write(p)
    PROVE  IInv'
<1>1. PICK rest \in Seq(AgreeingStmt), h \in AgreeingGraph : Writes(p, h) /\ Then(p, rest)
    BY WriteExecutes
<1>2. todo[p] # <<>>
    BY WriteExecutes
<1>3. CASE Exec(p, h)
    BY <1>1, <1>2, <1>3, WriteGoes
<1>4. CASE UNCHANGED <<durable, work, pending>> /\ (writer' = writer \/ writer' = p)
    BY <1>1, <1>2, <1>4, ExpandGoes
<1> QED BY <1>1, <1>3, <1>4 DEF Writes, storeVars

\* A call returns, goes on without the key merge, or a crash ends it and its
\* transaction is rolled back.
LEMMA EndGood ==
    ASSUME IInv, NEW p \in Client, Return(p) \/ DetMergeFails(p) \/ Fail(p)
    PROVE  IInv'
<1> USE EmptyProgram, IdleGood
<1>3. ASSUME DetMergeFails(p) PROVE IInv'
    <2>1. CallInv'
        BY <1>3, LocalFields, ContinueGood DEF KnowsTargets, IInv, DetMergeFails, PC
    <2>2. BoundInv'
        BY <1>3, BoundsAssumption DEF IInv, BoundInv, DetMergeFails
    <2> QED BY <1>3, <2>1, <2>2, StoreStays DEF IInv, DetMergeFails
<1>1. ASSUME Return(p) PROVE IInv'
    <2>1. CallInv'
        BY <1>1, ContinueGood DEF KnowsTargets, IInv, Return, PC
    <2> QED BY <1>1, <2>1, StoreStays, BoundsStay DEF IInv, Return
<1>2. ASSUME Fail(p) PROVE IInv'
    <2>1. CallInv'
        BY <1>2, ContinueGood DEF KnowsTargets, IInv, Fail, PC
    <2>2. StoreInv'
        BY <1>2, CommitGood, StoreStays DEF IInv, StoreInv, Fail
    <2>3. BoundInv'
        BY <1>2, BoundsAssumption DEF IInv, BoundInv, Fail
    <2> QED BY <2>1, <2>2, <2>3 DEF IInv
<1> QED BY <1>1, <1>2, <1>3

----------------------------------------------------------------------------
(* The invariant, and what follows from it. *)

LEMMA ReadGood ==
    ASSUME IInv, NEW p \in Client, Read(p)
    PROVE  IInv'
BY PreflightGood, ResolveNewGood, ResolveAbsorbGood, ResolveMergeGood, ResolveEndGood,
   MergeGood, SplitGood, ClaimGood, MediateGood, StabilizeGood DEF Read

\* The clusters an earlier run resolved are a graph in which columns agree.
LEMMA SeedGood == SeedGraph \in AgreeingGraph
<1> DEFINE row(i) == [ent |-> i, members |-> Seed[i].members,
                      edges |-> Evidence(Seed[i], i, Seed[i].members, SeedRun)]
           rows == {row(i) : i \in DOMAIN Seed}
<1>1. ASSUME NEW i \in DOMAIN Seed PROVE row(i) \in BulkRow
    <2>1. i \in Entity /\ Seed[i] \in Cluster /\ SeedRun \in Run
        BY SeedAssumption, MaxEntityAssumption, LenProperties DEF Entity
    <2>2. Seed[i].members \in SUBSET Record
        BY <2>1 DEF Cluster
    <2>3. Evidence(Seed[i], i, Seed[i].members, SeedRun) \in SUBSET Edge
        BY <2>1, EvidenceType
    <2> QED BY <2>1, <2>2, <2>3 DEF BulkRow
<1>2. rows \in SUBSET BulkRow
    BY <1>1
<1>3. SeedGraph = BulkWrite(EmptyGraph, rows)
    BY DEF SeedGraph
<1> HIDE DEF rows
<1> QED BY <1>2, <1>3, EmptyGraphType, BulkWriteType DEF AgreeingGraph

LEMMA InitGood ==
    ASSUME Init
    PROVE  IInv
<1>1. StoreInv
    BY SeedGood DEF Init, StoreInv
<1>2. CallInv
    BY IdleGood, EmptyProgram DEF Init, CallInv, PC, KnowsTargets
<1>3. BoundInv
    BY SeedAssumption, MaxEntityAssumption, BoundsAssumption, LenProperties DEF Init, BoundInv
<1> QED BY <1>1, <1>2, <1>3 DEF IInv

LEMMA NextGood ==
    ASSUME IInv, [Next]_vars
    PROVE  IInv'
<1>1. ASSUME NEW p \in Client, Invoke(p) \/ Step(p) \/ DetMergeFails(p) \/ Fail(p) PROVE IInv'
    BY <1>1, InvokeGood, ReadGood, WriteGood, EndGood DEF Step
<1>2. CASE UNCHANGED vars
    BY <1>2 DEF vars, IInv, StoreInv, CallInv, BoundInv
<1> QED BY <1>1, <1>2 DEF Next, Done

THEOREM Invariance == Spec => []IInv
<1>1. Init => IInv
    BY InitGood
<1>2. IInv /\ [Next]_vars => IInv'
    BY NextGood
<1> QED BY <1>1, <1>2, PTL DEF Spec

\* Every variable keeps its type, whatever clients do.
THEOREM TypeCorrect == Spec => []TypeOK
<1>1. IInv => TypeOK
    <2> SUFFICES ASSUME IInv PROVE TypeOK
        OBVIOUS
    <2>1. durable \in Graph /\ work \in Graph
        BY DEF IInv, StoreInv, AgreeingGraph
    <2>2. todo \in [Client -> Seq(Stmt)]
        <3>1. ASSUME NEW p \in Client PROVE todo[p] \in Seq(Stmt)
            <4>1. todo[p] \in Seq(AgreeingStmt) /\ AgreeingStmt \subseteq Stmt
                BY DEF IInv, CallInv, AgreeingStmt
            <4> QED BY <4>1, SeqMonotonic
        <3> QED BY <3>1 DEF IInv, CallInv
    <2>3. local \in [Client -> Local]
        BY DEF IInv, CallInv, AgreeingLocal
    <2> QED BY <2>1, <2>2, <2>3 DEF IInv, StoreInv, CallInv, BoundInv, TypeOK
<1> QED BY <1>1, Invariance, PTL

\* A durable node says merged_into exactly when it says into what: no stale
\* snapshot, crash, chunked commit or interleaving tears the two columns apart.
THEOREM PointersAlwaysAgree == Spec => []PointerAgrees
<1>1. IInv => PointerAgrees
    BY DEF IInv, StoreInv, AgreeingGraph, PointerAgrees
<1> QED BY <1>1, Invariance, PTL

----------------------------------------------------------------------------
(***************************************************************************)
(* Nothing durable ever points at an entity that has no row.               *)
(*                                                                         *)
(* Entities are looked up long before they are written about, so the fact  *)
(* is inductive only together with what each call has in hand: every       *)
(* statement that waits in todo, and every entity that a call remembers,   *)
(* has a row in the graph that call sees, or gets one from the statement   *)
(* the call writes next.  No operation deletes a row, and a call that      *)
(* loses rows with a rolled-back transaction forgets all it knew: RefInv.  *)
(***************************************************************************)

\* The entities that have a row.
Rows(g) == {e \in Entity : Exists(g, e)}

OrNone(K) == K \cup {NoEntity}

\* Statements that refer to entities of K alone and create none.
Anchored(K) ==
    {s \in AgreeingStmt :
        /\ s.op # "node"
        /\ s.op \in {"attach", "move", "carry"} => s.ent \in K
        /\ s.op = "emit" => \A v \in s.events : v.ent \in K /\ v.into \in OrNone(K)
        /\ s.op \in {"retire", "absorb"} => s.ents \subseteq K /\ s.into \in K
        /\ s.op = "link" => \A x \in s.edges : x.ent \in K}

\* A program whose first statement writes a node, which the others may refer to.
Founding(prog, K) ==
    /\ prog # <<>>
    /\ Head(prog).op = "node"
    /\ Head(prog).into \in OrNone(K)
    /\ Tail(prog) \in Seq(Anchored(K \cup {Head(prog).ent}))

Resolved(prog, K) == prog \in Seq(Anchored(K)) \/ Founding(prog, K)

\* The entities a call at next keeps in its variables l, and writes about
\* without looking again.
Remembers(next, l, K) ==
    /\ \A r \in Record : l.found[r] \in OrNone(K)
    /\ \A e \in Entity : l.snap[e].into \in OrNone(K)
    /\ \A e \in Entity : l.remap[e] \in K \cup {e}
    /\ \A w \in l.rows : \A x \in w.edges : x.ent = w.ent
    /\ next \in {"other", "records", "record", "loser"} => l.ent \in K
    /\ next = "records" => l.other \in K
    /\ next = "act" => l.ent \in OrNone(K)

StoreRefs ==
    /\ PointsAtRows(durable) /\ PointsAtRows(work)
    /\ Rows(durable) \subseteq Rows(work)
    /\ writer = NoClient => work = durable

CallRefs(p) ==
    /\ Resolved(todo[p], Rows(View(p)))
    /\ Remembers(pc[p], local[p], Rows(View(p)))

\* Inductive relative to IInv.
RefInv == StoreRefs /\ \A p \in Client : CallRefs(p)

----------------------------------------------------------------------------
(* Statements keep every row, and refer to rows if what they are given does. *)

LEMMA RowsType ==
    ASSUME NEW g
    PROVE  /\ Rows(g) \subseteq Entity /\ NoEntity \notin Rows(g)
           /\ \A e : e \in Rows(g) <=> Exists(g, e)
           /\ \A e : Active(g, e) => e \in Rows(g)
BY MaxEntityAssumption DEF Rows, Exists, Active, Entity, NoEntity

\* What a graph that points at rows points at, in terms of Rows.
LEMMA PointsAt ==
    ASSUME NEW g
    PROVE  PointsAtRows(g) <=>
             /\ \A r \in Record : g.owner[r] \in OrNone(Rows(g))
             /\ \A e \in Entity : g.into[e] \in OrNone(Rows(g))
             /\ \A x \in g.edges : x.ent \in Rows(g)
             /\ \A v \in g.log : v.ent \in Rows(g) /\ v.into \in OrNone(Rows(g))
BY RowsType DEF PointsAtRows, OrNone

LEMMA UpsertIdentityRefs ==
    ASSUME NEW g \in Graph, PointsAtRows(g), NEW e \in Entity, NEW st \in Status \ {"absent"},
           NEW in \in OrNone(Rows(g) \cup {e})
    PROVE  LET h == UpsertIdentity(g, e, st, in)
           IN PointsAtRows(h) /\ Rows(h) = Rows(g) \cup {e}
<1> DEFINE h == UpsertIdentity(g, e, st, in)
<1>1. /\ h.status = [g.status EXCEPT ![e] = st] /\ h.into = [g.into EXCEPT ![e] = in]
      /\ h.owner = g.owner /\ h.edges = g.edges /\ h.log = g.log
    BY DEF UpsertIdentity, Graph
<1>2. Rows(h) = Rows(g) \cup {e}
    BY <1>1 DEF Rows, Exists, Graph
<1>3. PointsAtRows(h)
    BY <1>1, <1>2, PointsAt DEF Graph, OrNone
<1> QED BY <1>2, <1>3

LEMMA RetireIdentityRefs ==
    ASSUME NEW g \in Graph, PointsAtRows(g), NEW e \in Entity, NEW in \in Rows(g)
    PROVE  LET h == RetireIdentity(g, e, in)
           IN PointsAtRows(h) /\ Rows(h) = Rows(g)
<1> DEFINE h == RetireIdentity(g, e, in)
<1>1. CASE ~Exists(g, e)
    BY <1>1 DEF RetireIdentity
<1>2. CASE Exists(g, e)
    <2>1. in # NoEntity
        BY RowsType
    <2>2. h = UpsertIdentity(g, e, "merged_into", in)
        BY <1>2, <2>1 DEF RetireIdentity, UpsertIdentity
    <2>3. e \in Rows(g)
        BY <1>2, RowsType
    <2>4. /\ "merged_into" \in Status \ {"absent"} /\ in \in OrNone(Rows(g) \cup {e})
          /\ Rows(g) \cup {e} = Rows(g)
        BY <2>3 DEF Status, OrNone
    <2> HIDE DEF h
    <2>5. PointsAtRows(h) /\ Rows(h) = Rows(g) \cup {e}
        BY <2>2, <2>4, UpsertIdentityRefs
    <2> QED BY <2>4, <2>5 DEF h
<1> QED BY <1>1, <1>2

LEMMA UpsertRecordRefs ==
    ASSUME NEW g \in Graph, PointsAtRows(g), NEW r \in Record, NEW e \in Rows(g)
    PROVE  LET h == UpsertRecord(g, r, e)
           IN PointsAtRows(h) /\ Rows(h) = Rows(g)
<1> DEFINE h == UpsertRecord(g, r, e)
<1>1. /\ h.owner = [g.owner EXCEPT ![r] = e]
      /\ h.status = g.status /\ h.into = g.into /\ h.edges = g.edges /\ h.log = g.log
    BY DEF UpsertRecord, Graph
<1>2. Rows(h) = Rows(g)
    BY <1>1 DEF Rows, Exists
<1> QED BY <1>1, <1>2, PointsAt DEF Graph, OrNone

LEMMA AddEdgesRefs ==
    ASSUME NEW g \in Graph, PointsAtRows(g), NEW es, \A x \in es : x.ent \in Rows(g)
    PROVE  LET h == AddEdges(g, es)
           IN PointsAtRows(h) /\ Rows(h) = Rows(g)
<1> DEFINE h == AddEdges(g, es)
<1>1. /\ h.edges = g.edges \cup es
      /\ h.status = g.status /\ h.into = g.into /\ h.owner = g.owner /\ h.log = g.log
    BY DEF AddEdges, Graph
<1>2. Rows(h) = Rows(g)
    BY <1>1 DEF Rows, Exists
<1> QED BY <1>1, <1>2, PointsAt

LEMMA EmitEventsRefs ==
    ASSUME NEW g \in Graph, PointsAtRows(g), NEW evs,
           \A v \in evs : v.ent \in Rows(g) /\ v.into \in OrNone(Rows(g))
    PROVE  LET h == EmitEvents(g, evs)
           IN PointsAtRows(h) /\ Rows(h) = Rows(g)
<1> DEFINE h == EmitEvents(g, evs)
<1>1. /\ h.log = g.log \cup evs
      /\ h.status = g.status /\ h.into = g.into /\ h.owner = g.owner /\ h.edges = g.edges
    BY DEF EmitEvents, Graph
<1>2. Rows(h) = Rows(g)
    BY <1>1 DEF Rows, Exists
<1> QED BY <1>1, <1>2, PointsAt

LEMMA AddVerdictRefs ==
    ASSUME NEW g \in Graph, PointsAtRows(g), NEW q, NEW res
    PROVE  LET h == AddVerdict(g, q, res)
           IN PointsAtRows(h) /\ Rows(h) = Rows(g)
<1> DEFINE h == AddVerdict(g, q, res)
<1>1. /\ h.status = g.status /\ h.into = g.into /\ h.owner = g.owner
      /\ h.edges = g.edges /\ h.log = g.log
    BY DEF AddVerdict, Graph
<1>2. Rows(h) = Rows(g)
    BY <1>1 DEF Rows, Exists
<1> QED BY <1>1, <1>2, PointsAt

\* A flush writes the node of every row before what refers to it.
LEMMA BulkWriteRefs ==
    ASSUME NEW g \in Graph, PointsAtRows(g), NEW rows \in SUBSET BulkRow,
           \A w \in rows : \A x \in w.edges : x.ent = w.ent
    PROVE  LET h == BulkWrite(g, rows)
           IN PointsAtRows(h) /\ Rows(g) \subseteq Rows(h)
<1> DEFINE ents == {w.ent : w \in rows}
           row(r) == CHOOSE w \in rows : r \in w.members
           claimed == UNION {w.members : w \in rows}
           born == {[kind |-> "created", ent |-> e, into |-> NoEntity] : e \in ents}
           h == BulkWrite(g, rows)
<1>1. /\ h.status = [e \in Entity |-> IF e \in ents THEN "active" ELSE g.status[e]]
      /\ h.into = [e \in Entity |-> IF e \in ents THEN NoEntity ELSE g.into[e]]
      /\ h.owner = [r \in Record |-> IF r \in claimed THEN row(r).ent ELSE g.owner[r]]
      /\ h.edges = g.edges \cup UNION {w.edges : w \in rows}
      /\ h.log = g.log \cup born
    BY DEF BulkWrite, Graph
<1>2. ents \subseteq Entity
    BY DEF BulkRow
<1>3. \A r \in claimed : row(r).ent \in ents
    OBVIOUS
<1>4. \A x \in UNION {w.edges : w \in rows} : x.ent \in ents
    OBVIOUS
<1>5. \A v \in born : v.ent \in ents /\ v.into = NoEntity
    OBVIOUS
<1> HIDE DEF ents, row, claimed, born, h
<1>6. Rows(h) = Rows(g) \cup ents
    BY <1>1, <1>2 DEF Rows, Exists
<1>7. PointsAtRows(h)
    <2>1. \A r \in Record : h.owner[r] \in OrNone(Rows(h))
        BY <1>1, <1>3, <1>6, PointsAt DEF OrNone
    <2>2. \A e \in Entity : h.into[e] \in OrNone(Rows(h))
        BY <1>1, <1>6, PointsAt DEF OrNone
    <2>3. \A x \in h.edges : x.ent \in Rows(h)
        BY <1>1, <1>4, <1>6, PointsAt
    <2>4. \A v \in h.log : v.ent \in Rows(h) /\ v.into \in OrNone(Rows(h))
        BY <1>1, <1>5, <1>6, PointsAt DEF OrNone
    <2> QED BY <2>1, <2>2, <2>3, <2>4, PointsAt
<1> QED BY <1>6, <1>7 DEF h

\* merge_by_shared_field sends what it moves to entities that have a row.
LEMMA RemapEntitiesRefs ==
    ASSUME NEW g \in Graph, PointsAtRows(g), NEW remap \in [Entity -> Entity],
           \A e \in Entity : remap[e] \in Rows(g) \cup {e}
    PROVE  LET h == RemapEntities(g, remap)
           IN PointsAtRows(h) /\ Rows(h) = Rows(g)
<1> DEFINE h == RemapEntities(g, remap)
           absorbed(e) == remap[e] # e /\ Exists(g, e)
<1>1. /\ h.owner = [r \in Record |-> IF g.owner[r] = NoEntity THEN NoEntity
                                     ELSE remap[g.owner[r]]]
      /\ h.status = [e \in Entity |-> IF absorbed(e) THEN "merged_into" ELSE g.status[e]]
      /\ h.into = [e \in Entity |-> IF absorbed(e) THEN remap[e] ELSE g.into[e]]
      /\ h.edges = g.edges /\ h.log = g.log
    BY DEF RemapEntities, Graph
<1> HIDE DEF h
<1>2. Rows(h) = Rows(g)
    BY <1>1 DEF Rows, Exists
<1>3. \A r \in Record : h.owner[r] \in OrNone(Rows(g))
    <2> SUFFICES ASSUME NEW r \in Record PROVE h.owner[r] \in OrNone(Rows(g))
        OBVIOUS
    <2>1. CASE g.owner[r] = NoEntity
        BY <1>1, <2>1 DEF OrNone
    <2>2. CASE g.owner[r] # NoEntity
        <3>1. g.owner[r] \in Rows(g)
            BY <2>2, PointsAt DEF OrNone
        <3>2. remap[g.owner[r]] \in Rows(g)
            BY <3>1, RowsType
        <3> QED BY <1>1, <2>2, <3>2 DEF OrNone
    <2> QED BY <2>1, <2>2
<1>4. \A e \in Entity : h.into[e] \in OrNone(Rows(g))
    BY <1>1, PointsAt DEF OrNone
<1>5. PointsAtRows(h)
    BY <1>1, <1>2, <1>3, <1>4, PointsAt
<1> QED BY <1>2, <1>5 DEF h

----------------------------------------------------------------------------
(* Programs. *)

LEMMA OrNoneGrows ==
    ASSUME NEW K, NEW M, K \subseteq M
    PROVE  OrNone(K) \subseteq OrNone(M)
BY DEF OrNone

LEMMA AnchoredGrows ==
    ASSUME NEW K, NEW M, K \subseteq M
    PROVE  Anchored(K) \subseteq Anchored(M) /\ Seq(Anchored(K)) \subseteq Seq(Anchored(M))
<1>1. Anchored(K) \subseteq Anchored(M)
    BY DEF Anchored, OrNone
<1> QED BY <1>1, SeqMonotonic

LEMMA ResolvedGrows ==
    ASSUME NEW K, NEW M, K \subseteq M, NEW prog, Resolved(prog, K)
    PROVE  Resolved(prog, M)
<1>1. CASE prog \in Seq(Anchored(K))
    BY <1>1, AnchoredGrows DEF Resolved
<1>2. CASE Founding(prog, K)
    <2>1. K \cup {Head(prog).ent} \subseteq M \cup {Head(prog).ent}
        OBVIOUS
    <2>2. Tail(prog) \in Seq(Anchored(M \cup {Head(prog).ent}))
        BY <1>2, <2>1, AnchoredGrows DEF Founding
    <2> QED BY <1>2, <2>2, OrNoneGrows DEF Founding, Resolved
<1> QED BY <1>1, <1>2 DEF Resolved

LEMMA RemembersGrows ==
    ASSUME NEW K, NEW M, K \subseteq M, NEW next, NEW l, Remembers(next, l, K)
    PROVE  Remembers(next, l, M)
BY DEF Remembers, OrNone

LEMMA EmptyResolved ==
    ASSUME NEW K
    PROVE  <<>> \in Seq(Anchored(K)) /\ Resolved(<<>>, K)
BY DEF Resolved

LEMMA IdleRemembers ==
    ASSUME NEW K
    PROVE  Remembers("idle", Idle, K)
BY DEF Remembers, Idle, OrNone

\* What a statement refers to, by what it is.
LEMMA AnchoredFields ==
    ASSUME NEW K, NEW s \in Anchored(K)
    PROVE  /\ s \in AgreeingStmt /\ s.op # "node"
           /\ s.op \in {"attach", "move", "carry"} => s.ent \in K
           /\ s.op = "emit" => \A v \in s.events : v.ent \in K /\ v.into \in OrNone(K)
           /\ s.op \in {"retire", "absorb"} => s.ents \subseteq K /\ s.into \in K
           /\ s.op = "link" => \A x \in s.edges : x.ent \in K
BY DEF Anchored

LEMMA AttachAnchored ==
    ASSUME NEW K, K \subseteq Entity, NEW rs \in SUBSET Record, NEW e \in K
    PROVE  Attach(rs, e) \in Anchored(K)
BY AttachGood DEF Attach, Anchored

LEMMA MoveAnchored ==
    ASSUME NEW K, K \subseteq Entity, NEW rs \in SUBSET Record,
           NEW from \in Entity, NEW e \in K
    PROVE  Move(rs, from, e) \in Anchored(K)
BY MoveGood DEF Move, Anchored

LEMMA EmitAnchored ==
    ASSUME NEW K, K \subseteq Entity, NEW evs \in SUBSET Event,
           \A v \in evs : v.ent \in K /\ v.into \in OrNone(K)
    PROVE  Emit(evs) \in Anchored(K)
BY EmitGood DEF Emit, Anchored

\* One event about an entity of K.
LEMMA EventAnchored ==
    ASSUME NEW K, K \subseteq Entity, NEW kind \in EventKind, NEW e \in K,
           NEW in \in OrNone(K)
    PROVE  Emit({Ev(kind, e, in)}) \in Anchored(K)
<1>1. in \in EntityOrNone
    BY MaxEntityAssumption DEF OrNone, Entity, EntityOrNone, NoEntity
<1>2. Ev(kind, e, in) \in Event
    BY <1>1, EvType
<1>3. Ev(kind, e, in).ent = e /\ Ev(kind, e, in).into = in
    BY DEF Ev
<1> QED BY <1>2, <1>3, EmitAnchored

LEMMA RetireAnchored ==
    ASSUME NEW K, K \subseteq Entity, NEW es \in SUBSET K, NEW in \in K
    PROVE  Retire(es, in) \in Anchored(K) /\ Absorb(es, in) \in Anchored(K)
BY RetireGood DEF Retire, Absorb, Anchored

LEMMA LinkAnchored ==
    ASSUME NEW K, K \subseteq Entity, NEW xs \in SUBSET Edge, \A x \in xs : x.ent \in K
    PROVE  Link(xs) \in Anchored(K)
BY LinkGood DEF Link, Anchored

LEMMA CarryAnchored ==
    ASSUME NEW K, K \subseteq Entity, NEW es \in SUBSET Entity, NEW e \in K, NEW run \in Run
    PROVE  Carry(es, e, run) \in Anchored(K)
BY CarryGood DEF Carry, Anchored

LEMMA VerdictAnchored ==
    ASSUME NEW K, NEW q \in Pair, NEW res \in Resolution
    PROVE  RecordVerdict(q, res) \in Anchored(K)
BY VerdictGood DEF RecordVerdict, Anchored

\* A program that founds e, for the statements after it to refer to.
LEMMA FoundingResolved ==
    ASSUME NEW K, NEW e, NEW st, NEW in \in OrNone(K), NEW prog, prog # <<>>,
           Head(prog) = Node(e, st, in), Tail(prog) \in Seq(Anchored(K \cup {e}))
    PROVE  Resolved(prog, K)
<1>1. /\ Head(prog).op = "node" /\ Head(prog).ent = e /\ Head(prog).into = in
    BY DEF Node
<1> QED BY <1>1 DEF Resolved, Founding

LEMMA FoundingAppend ==
    ASSUME NEW prog \in Seq(AgreeingStmt), prog # <<>>, NEW S, NEW s \in S, s \in AgreeingStmt,
           Tail(prog) \in Seq(S)
    PROVE  /\ Append(prog, s) # <<>> /\ Head(Append(prog, s)) = Head(prog)
           /\ Tail(Append(prog, s)) \in Seq(S)
OBVIOUS

----------------------------------------------------------------------------
(* The store and the control of a call. *)

LEMMA ViewRefs ==
    ASSUME IInv, RefInv, NEW p
    PROVE  /\ View(p) \in Graph /\ PointsAtRows(View(p))
           /\ Rows(durable) \subseteq Rows(View(p))
           /\ Rows(View(p)) \subseteq Entity
BY ViewGood, RowsType DEF IInv, RefInv, StoreRefs, View

\* Nobody loses a row when client p makes the graph g, which keeps the rows
\* p sees, its view or makes it durable.
LEMMA StoreGrows ==
    ASSUME IInv, RefInv, NEW p \in Client, NEW g, PointsAtRows(g),
           Rows(View(p)) \subseteq Rows(g), Exec(p, g) \/ (CanWrite(p) /\ Commit(g))
    PROVE  /\ StoreRefs' /\ View(p)' = g
           /\ \A q \in Client : Rows(View(q)) \subseteq Rows(View(q)')
<1>1. Rows(durable) \subseteq Rows(g)
    BY ViewRefs
<1>2. writer \in {NoClient, p} /\ p # NoClient
    BY ClientAssumption DEF Exec, CanWrite
<1>3. ASSUME NEW q \in Client, q # p PROVE View(q) = durable
    BY <1>2, <1>3, ClientAssumption DEF View
<1>4. CASE Commit(g)
    <2>1. durable' = g /\ work' = g /\ writer' = NoClient
        BY <1>4 DEF Commit
    <2>2. \A q \in Client : View(q)' = g
        BY <2>1, ClientAssumption DEF View
    <2>3. StoreRefs'
        BY <2>1 DEF StoreRefs
    <2> QED BY <1>1, <1>3, <2>2, <2>3
<1>5. CASE work' = g /\ writer' = p /\ UNCHANGED durable
    <2>1. View(p)' = g
        BY <1>5 DEF View
    <2>2. ASSUME NEW q \in Client, q # p PROVE View(q)' = durable
        BY <1>5, <2>2 DEF View
    <2>3. StoreRefs'
        BY <1>1, <1>2, <1>5 DEF StoreRefs, RefInv
    <2> QED BY <1>3, <2>1, <2>2, <2>3
<1> QED BY <1>4, <1>5 DEF Exec

\* Every other call still has what it refers to when nobody loses a row.
LEMMA OthersKeep ==
    ASSUME RefInv, NEW p \in Client, StoreRefs',
           \A q \in Client : Rows(View(q)) \subseteq Rows(View(q)'),
           \A q \in Client \ {p} :
               pc'[q] = pc[q] /\ todo'[q] = todo[q] /\ local'[q] = local[q],
           CallRefs(p)'
    PROVE  RefInv'
<1>1. ASSUME NEW q \in Client \ {p} PROVE CallRefs(q)'
    <2>1. Resolved(todo[q], Rows(View(q))) /\ Remembers(pc[q], local[q], Rows(View(q)))
        BY DEF RefInv, CallRefs
    <2>2. /\ Resolved(todo[q], Rows(View(q)'))
          /\ Remembers(pc[q], local[q], Rows(View(q)'))
        BY <2>1, ResolvedGrows, RemembersGrows
    <2>3. pc'[q] = pc[q] /\ todo'[q] = todo[q] /\ local'[q] = local[q]
        OBVIOUS
    <2> QED BY <2>2, <2>3 DEF CallRefs
<1> QED BY <1>1 DEF RefInv

LEMMA NobodyLoses ==
    ASSUME RefInv, UNCHANGED storeVars
    PROVE  /\ StoreRefs'
           /\ \A q \in Client : View(q)' = View(q) /\ Rows(View(q)) \subseteq Rows(View(q)')
BY DEF RefInv, StoreRefs, View, storeVars

\* A call goes on with a program and variables that refer to what it sees.
LEMMA CallGoesOn ==
    ASSUME IInv, RefInv, NEW p \in Client, NEW next, NEW prog, NEW l,
           Continue(p, next, prog, l), StoreRefs',
           \A q \in Client : Rows(View(q)) \subseteq Rows(View(q)'),
           Resolved(prog, Rows(View(p)')), Remembers(next, l, Rows(View(p)'))
    PROVE  RefInv'
<1>1. pc'[p] = next /\ todo'[p] = prog /\ local'[p] = l
    BY DEF Continue, IInv, CallInv
<1>2. \A q \in Client \ {p} :
        pc'[q] = pc[q] /\ todo'[q] = todo[q] /\ local'[q] = local[q]
    BY DEF Continue, IInv, CallInv
<1>3. CallRefs(p)'
    BY <1>1 DEF CallRefs
<1> QED BY <1>2, <1>3, OthersKeep

LEMMA CallReads ==
    ASSUME IInv, RefInv, NEW p \in Client, NEW next, NEW prog, NEW l,
           Continue(p, next, prog, l), UNCHANGED storeVars,
           Resolved(prog, Rows(View(p))), Remembers(next, l, Rows(View(p)))
    PROVE  RefInv'
<1>1. StoreRefs' /\ \A q \in Client : View(q)' = View(q) /\ Rows(View(q)) \subseteq Rows(View(q)')
    BY NobodyLoses
<1>2. Resolved(prog, Rows(View(p)')) /\ Remembers(next, l, Rows(View(p)'))
    BY <1>1
<1> QED BY <1>1, <1>2, CallGoesOn

\* The rest of a program that founds nothing goes on behind what its first
\* statement has become.
LEMMA CallWrites ==
    ASSUME IInv, RefInv, NEW p \in Client, todo[p] # <<>>, NEW rest, Then(p, rest),
           StoreRefs', \A q \in Client : Rows(View(q)) \subseteq Rows(View(q)'),
           rest \in Seq(Anchored(Rows(View(p)'))),
           Tail(todo[p]) \in Seq(Anchored(Rows(View(p)')))
    PROVE  RefInv'
<1>1. rest \o Tail(todo[p]) \in Seq(Anchored(Rows(View(p)')))
    BY ConcatProperties
<1>2. todo'[p] = rest \o Tail(todo[p]) /\ pc' = pc /\ local' = local
    BY DEF Then, IInv, CallInv
<1>3. Remembers(pc[p], local[p], Rows(View(p)'))
    BY RemembersGrows DEF RefInv, CallRefs
<1>4. CallRefs(p)'
    BY <1>1, <1>2, <1>3 DEF CallRefs, Resolved
<1>5. \A q \in Client \ {p} :
        pc'[q] = pc[q] /\ todo'[q] = todo[q] /\ local'[q] = local[q]
    BY DEF Then, IInv, CallInv
<1> QED BY <1>4, <1>5, OthersKeep

\* The first statement, when it is not a node, refers to rows, like the rest.
LEMMA StatementRefs ==
    ASSUME IInv, RefInv, NEW p \in Client, todo[p] # <<>>, Statement(p).op # "node"
    PROVE  /\ Statement(p) \in Anchored(Rows(View(p)))
           /\ Tail(todo[p]) \in Seq(Anchored(Rows(View(p))))
<1>1. todo[p] \in Seq(Anchored(Rows(View(p))))
    BY DEF RefInv, CallRefs, Resolved, Founding, Statement
<1> QED BY <1>1, HeadTailProperties DEF Statement

\* A statement that writes g, adding no entity, and leaves rest of itself.
LEMMA WriteRefs ==
    ASSUME IInv, RefInv, NEW p \in Client, todo[p] # <<>>, Statement(p).op # "node",
           NEW g, PointsAtRows(g), Rows(g) = Rows(View(p)), Exec(p, g),
           NEW rest \in Seq(Anchored(Rows(g))), Then(p, rest)
    PROVE  RefInv'
<1>1. /\ StoreRefs' /\ View(p)' = g
      /\ \A q \in Client : Rows(View(q)) \subseteq Rows(View(q)')
    BY StoreGrows
<1>2. Tail(todo[p]) \in Seq(Anchored(Rows(View(p)')))
    BY <1>1, StatementRefs
<1> QED BY <1>1, <1>2, CallWrites

\* A statement that is turned into the statements prog and writes nothing yet.
LEMMA ExpandRefs ==
    ASSUME IInv, RefInv, NEW p \in Client, todo[p] # <<>>, Statement(p).op # "node",
           StoreRefs', \A q \in Client : View(q)' = View(q),
           NEW prog \in Seq(Anchored(Rows(View(p)))), Then(p, prog)
    PROVE  RefInv'
<1>1. Tail(todo[p]) \in Seq(Anchored(Rows(View(p)))) /\ View(p)' = View(p)
    BY StatementRefs
<1> QED BY <1>1, CallWrites

----------------------------------------------------------------------------
(* Writing. *)

LEMMA WriteKeeps ==
    ASSUME IInv, RefInv, NEW p \in Client, Write(p)
    PROVE  RefInv'
<1> DEFINE s == Statement(p)
           K == Rows(View(p))
<1>1. todo[p] # <<>>
    BY DEF Write, WriteNothing, WriteNode, WriteRecord, MoveRecord, WriteEvent, WriteRetire,
           AbsorbLoser, WriteEdge, CarryConflicts, WriteVerdict, Is
<1>2. s \in AgreeingStmt
    BY <1>1, StatementGood DEF IInv
<1>3. View(p) \in Graph /\ PointsAtRows(View(p)) /\ K \subseteq Entity
    BY ViewRefs
<1>4. s.op # "node" => s \in Anchored(K)
    BY <1>1, StatementRefs
<1>5. UNCHANGED storeVars => StoreRefs' /\ \A q \in Client : View(q)' = View(q)
    BY NobodyLoses
<1>6. ASSUME WriteNode(p) PROVE RefInv'
    <2> DEFINE g == UpsertIdentity(View(p), s.ent, s.status, s.into)
    <2>1. Founding(todo[p], K)
        <3>1. s.op = "node"
            BY <1>6 DEF WriteNode, Is, Statement
        <3>2. todo[p] \notin Seq(Anchored(K))
            BY <1>1, <3>1, AnchoredFields, HeadTailProperties DEF Statement
        <3> QED BY <3>2 DEF RefInv, CallRefs, Resolved
    <2>2. /\ s.ent \in Entity /\ s.status \in Status \ {"absent"} /\ s.into \in OrNone(K)
          /\ Tail(todo[p]) \in Seq(Anchored(K \cup {s.ent}))
        BY <1>2, <2>1, StmtFields DEF Founding, Statement
    <2>3. s.into \in OrNone(K \cup {s.ent})
        BY <2>2 DEF OrNone
    <2>4. PointsAtRows(g) /\ Rows(g) = K \cup {s.ent}
        BY <1>3, <2>2, <2>3, UpsertIdentityRefs
    <2>5. Exec(p, g) /\ Then(p, <<>>)
        BY <1>6 DEF WriteNode
    <2> HIDE DEF g
    <2>6. /\ StoreRefs' /\ View(p)' = g
          /\ \A q \in Client : Rows(View(q)) \subseteq Rows(View(q)')
        BY <2>4, <2>5, StoreGrows
    <2>7. Tail(todo[p]) \in Seq(Anchored(Rows(View(p)')))
        BY <2>2, <2>4, <2>6
    <2> QED BY <1>1, <2>5, <2>6, <2>7, EmptyResolved, CallWrites
<1>7. ASSUME WriteNothing(p) PROVE RefInv'
    <2>1. s.op # "node"
        BY <1>7 DEF WriteNothing, Vacuous
    <2> QED BY <1>1, <1>5, <1>7, <2>1, EmptyResolved, ExpandRefs DEF WriteNothing
<1>8. ASSUME WriteRecord(p) PROVE RefInv'
    <2>1. s.op = "attach"
        BY <1>8 DEF WriteRecord, Is, Statement
    <2>2. s.recs \in SUBSET Record /\ s.ent \in K
        BY <1>2, <1>4, <2>1, StmtFields, AnchoredFields
    <2> DEFINE rest(r) == IF s.recs = {r} THEN <<>> ELSE <<Attach(s.recs \ {r}, s.ent)>>
               g(r) == UpsertRecord(View(p), r, s.ent)
    <2>3. PICK r \in s.recs : Exec(p, g(r)) /\ Then(p, rest(r))
        BY <1>8 DEF WriteRecord
    <2>4. PointsAtRows(g(r)) /\ Rows(g(r)) = K
        BY <1>3, <2>2, UpsertRecordRefs
    <2>5. rest(r) \in Seq(Anchored(K))
        BY <1>3, <2>2, AttachAnchored
    <2> HIDE DEF rest, g
    <2> QED BY <1>1, <2>1, <2>3, <2>4, <2>5, WriteRefs
<1>9. ASSUME MoveRecord(p) PROVE RefInv'
    <2>1. s.op = "move"
        BY <1>9 DEF MoveRecord, Is, Statement
    <2>2. s.recs \in SUBSET Record /\ s.from \in Entity /\ s.ent \in K
        BY <1>2, <1>4, <2>1, StmtFields, AnchoredFields
    <2> DEFINE still(r) == IF View(p).owner[r] = s.from THEN {r} ELSE {}
               prog(r) == <<Attach(still(r), s.ent), Move(s.recs \ {r}, s.from, s.ent)>>
    <2>3. PICK r \in s.recs : Then(p, prog(r)) /\ UNCHANGED storeVars
        BY <1>9 DEF MoveRecord
    <2>4. Attach(still(r), s.ent) \in Anchored(K) /\ Move(s.recs \ {r}, s.from, s.ent) \in Anchored(K)
        BY <1>3, <2>2, AttachAnchored, MoveAnchored
    <2>5. prog(r) \in Seq(Anchored(K))
        BY <2>4
    <2> HIDE DEF prog
    <2> QED BY <1>1, <1>5, <2>1, <2>3, <2>5, ExpandRefs
<1>10. ASSUME WriteEvent(p) PROVE RefInv'
    <2>1. s.op = "emit"
        BY <1>10 DEF WriteEvent, Is, Statement
    <2>2. s.events \in SUBSET Event /\ \A v \in s.events : v.ent \in K /\ v.into \in OrNone(K)
        BY <1>2, <1>4, <2>1, StmtFields, AnchoredFields
    <2> DEFINE rest(v) == IF s.events = {v} THEN <<>> ELSE <<Emit(s.events \ {v})>>
               g(v) == EmitEvents(View(p), {v})
    <2>3. PICK v \in s.events : Exec(p, g(v)) /\ Then(p, rest(v))
        BY <1>10 DEF WriteEvent
    <2>4. PointsAtRows(g(v)) /\ Rows(g(v)) = K
        BY <1>3, <2>2, EmitEventsRefs
    <2>5. rest(v) \in Seq(Anchored(K))
        BY <1>3, <2>2, EmitAnchored
    <2> HIDE DEF rest, g
    <2> QED BY <1>1, <2>1, <2>3, <2>4, <2>5, WriteRefs
<1>11. ASSUME WriteRetire(p) PROVE RefInv'
    <2>1. s.op = "retire"
        BY <1>11 DEF WriteRetire, Is, Statement
    <2>2. s.ents \subseteq K /\ s.into \in K
        BY <1>4, <2>1, AnchoredFields
    <2> DEFINE rest(e) == IF s.ents = {e} THEN <<>> ELSE <<Retire(s.ents \ {e}, s.into)>>
               g(e) == RetireIdentity(View(p), e, s.into)
    <2>3. PICK e \in s.ents : Exec(p, g(e)) /\ Then(p, rest(e))
        BY <1>11 DEF WriteRetire
    <2>4. PointsAtRows(g(e)) /\ Rows(g(e)) = K
        BY <1>3, <2>2, RetireIdentityRefs
    <2>5. rest(e) \in Seq(Anchored(K))
        BY <1>3, <2>2, RetireAnchored
    <2> HIDE DEF rest, g
    <2> QED BY <1>1, <2>1, <2>3, <2>4, <2>5, WriteRefs
<1>12. ASSUME AbsorbLoser(p) PROVE RefInv'
    <2>1. s.op = "absorb"
        BY <1>12 DEF AbsorbLoser, Is, Statement
    <2>2. s.ents \subseteq K /\ s.into \in K
        BY <1>4, <2>1, AnchoredFields
    <2> DEFINE prog(e) == <<Retire({e}, s.into), Emit({Ev("merged_with", e, s.into)}),
                            Absorb(s.ents \ {e}, s.into)>>
    <2>3. PICK e \in s.ents : Then(p, prog(e)) /\ UNCHANGED storeVars
        BY <1>12 DEF AbsorbLoser
    <2>4. Emit({Ev("merged_with", e, s.into)}) \in Anchored(K)
        BY <1>3, <2>2, EventAnchored DEF EventKind, OrNone
    <2>5. Retire({e}, s.into) \in Anchored(K) /\ Absorb(s.ents \ {e}, s.into) \in Anchored(K)
        BY <1>3, <2>2, RetireAnchored
    <2>6. prog(e) \in Seq(Anchored(K))
        BY <2>4, <2>5
    <2> HIDE DEF prog
    <2> QED BY <1>1, <1>5, <2>1, <2>3, <2>6, ExpandRefs
<1>13. ASSUME WriteEdge(p) PROVE RefInv'
    <2>1. s.op = "link"
        BY <1>13 DEF WriteEdge, Is, Statement
    <2>2. s.edges \in SUBSET Edge /\ \A x \in s.edges : x.ent \in K
        BY <1>2, <1>4, <2>1, StmtFields, AnchoredFields
    <2> DEFINE rest(x) == IF s.edges = {x} THEN <<>> ELSE <<Link(s.edges \ {x})>>
               g(x) == AddEdges(View(p), {x})
    <2>3. PICK x \in s.edges : Exec(p, g(x)) /\ Then(p, rest(x))
        BY <1>13 DEF WriteEdge
    <2>4. PointsAtRows(g(x)) /\ Rows(g(x)) = K
        BY <1>3, <2>2, AddEdgesRefs
    <2>5. rest(x) \in Seq(Anchored(K))
        BY <1>3, <2>2, LinkAnchored
    <2> HIDE DEF rest, g
    <2> QED BY <1>1, <2>1, <2>3, <2>4, <2>5, WriteRefs
<1>14. ASSUME CarryConflicts(p) PROVE RefInv'
    <2>1. s.op = "carry"
        BY <1>14 DEF CarryConflicts, Is, Statement
    <2>2. s.ents \in SUBSET Entity /\ s.ent \in K /\ s.run \in Run
        BY <1>2, <1>4, <2>1, StmtFields, AnchoredFields
    <2> DEFINE carried(e) == {x.pair : x \in Conflicts(View(p)) \cap EdgesOf(View(p), e)}
               edges(e) == EdgesFor("conflicts_with", s.ent, carried(e), s.run)
               prog(e) == <<Link(edges(e)), Carry(s.ents \ {e}, s.ent, s.run)>>
    <2>3. PICK e \in s.ents : Then(p, prog(e))
        BY <1>14 DEF CarryConflicts
    <2>4. carried(e) \in SUBSET Pair
        BY <1>3 DEF Conflicts, Graph, Edge
    <2> HIDE DEF carried
    <2>5. edges(e) \in SUBSET Edge /\ \A x \in edges(e) : x.ent = s.ent
        BY <1>3, <2>2, <2>4 DEF EdgesFor, Edge, EdgeKind
    <2> HIDE DEF edges
    <2>6. Link(edges(e)) \in Anchored(K) /\ Carry(s.ents \ {e}, s.ent, s.run) \in Anchored(K)
        BY <1>3, <2>2, <2>5, LinkAnchored, CarryAnchored
    <2>7. prog(e) \in Seq(Anchored(K))
        BY <2>6
    <2> HIDE DEF prog
    <2>8. writer \in {NoClient, p} /\ writer' = p /\ durable' = durable /\ work' = work
        BY <1>14 DEF CarryConflicts, CanWrite
    <2>9. p # NoClient /\ writer = NoClient => work = durable
        BY ClientAssumption DEF RefInv, StoreRefs
    <2>10. StoreRefs'
        BY <2>8, <2>9, ClientAssumption DEF RefInv, StoreRefs
    <2>11. \A q \in Client : View(q)' = View(q)
        BY <2>8, <2>9, ClientAssumption DEF View
    <2> QED BY <1>1, <2>1, <2>3, <2>7, <2>10, <2>11, ExpandRefs
<1>15. ASSUME WriteVerdict(p) PROVE RefInv'
    <2> DEFINE g == AddVerdict(View(p), s.pair, s.res)
    <2>1. s.op = "verdict" /\ Exec(p, g) /\ Then(p, <<>>)
        BY <1>15 DEF WriteVerdict, Is, Statement
    <2>2. PointsAtRows(g) /\ Rows(g) = K
        BY <1>3, AddVerdictRefs
    <2> HIDE DEF g
    <2> QED BY <1>1, <2>1, <2>2, EmptyResolved, WriteRefs
<1> QED BY <1>6, <1>7, <1>8, <1>9, <1>10, <1>11, <1>12, <1>13, <1>14, <1>15 DEF Write

----------------------------------------------------------------------------
(* A call begins and ends. *)

\* Variables that remember no entity.
Fresh(l) ==
    /\ l.found = Idle.found /\ l.snap = Idle.snap /\ l.remap = Idle.remap /\ l.rows = Idle.rows
    /\ l.others = Idle.others

LEMMA BeginRefs ==
    ASSUME IInv, RefInv, NEW p \in Client, NEW first, NEW l, Begin(p, first, l),
           first \notin {"other", "records", "record", "loser", "act"}, Fresh(l)
    PROVE  RefInv'
<1>1. Remembers(first, l, Rows(View(p)))
    BY IdleRemembers DEF Remembers, Fresh
<1>2. Continue(p, first, <<>>, l) /\ UNCHANGED storeVars
    BY DEF Begin
<1> QED BY <1>1, <1>2, EmptyResolved, CallReads

\* Whatever a call is made with, it begins without a memory of entities.
\* The first read of each operation.
Starts == [resolve |-> "lookup", merge |-> "check", split |-> "split", claim |-> "target",
           mediate |-> "find", stabilize |-> "scan"]

\* A batch begins with all its clusters left, a mediation with two records.
Given(l) ==
    /\ l.op = "resolve" => \E b \in Batches : l.clusters = b.clusters /\ l.left = b.clusters
    /\ l.op = "mediate" => l.a # l.b

LEMMA InvokeFresh ==
    ASSUME NEW p, Invoke(p)
    PROVE  \E first \in {"lookup", "check", "split", "target", "find", "scan"} : \E l :
               Begin(p, first, l) /\ Fresh(l) /\ first = Starts[l.op] /\ Given(l)
<1> DEFINE Goes == \E first \in {"lookup", "check", "split", "target", "find", "scan"} : \E l :
                       Begin(p, first, l) /\ Fresh(l) /\ first = Starts[l.op] /\ Given(l)
<1>1. ASSUME BeginResolve(p) PROVE Goes
    <2> DEFINE l(b) == [Idle EXCEPT !.op = "resolve", !.run = b.run,
                                     !.clusters = b.clusters, !.left = b.clusters]
    <2>1. PICK b \in Batches : Begin(p, "lookup", l(b))
        BY <1>1 DEF BeginResolve
    <2>2. Fresh(l(b)) /\ l(b).op = "resolve" /\ Given(l(b))
        BY DEF Fresh, Given, Idle
    <2> HIDE DEF l
    <2> QED BY <2>1, <2>2 DEF Starts
<1>2. ASSUME BeginMerge(p) PROVE Goes
    <2> DEFINE l(keep, absorb) == [Idle EXCEPT !.op = "merge", !.ent = keep, !.other = absorb]
    <2>1. PICK keep, absorb \in Minted : Begin(p, "check", l(keep, absorb))
        BY <1>2 DEF BeginMerge
    <2>2. Fresh(l(keep, absorb)) /\ l(keep, absorb).op = "merge"
        BY DEF Fresh, Idle
    <2> HIDE DEF l
    <2> QED BY <2>1, <2>2 DEF Starts, Given
<1>3. ASSUME BeginSplit(p) PROVE Goes
    <2> DEFINE l(e, rs) == [Idle EXCEPT !.op = "split", !.ent = e, !.recs = rs]
    <2>1. PICK e \in Minted, rs \in SplitSets : Begin(p, "split", l(e, rs))
        BY <1>3 DEF BeginSplit
    <2>2. Fresh(l(e, rs)) /\ l(e, rs).op = "split"
        BY DEF Fresh, Idle
    <2> HIDE DEF l
    <2> QED BY <2>1, <2>2 DEF Starts, Given
<1>4. ASSUME BeginClaim(p) PROVE Goes
    <2> DEFINE l(e, r) == [Idle EXCEPT !.op = "claim", !.ent = e, !.a = r]
    <2>1. PICK e \in Minted, r \in Record : Begin(p, "target", l(e, r))
        BY <1>4 DEF BeginClaim
    <2>2. Fresh(l(e, r)) /\ l(e, r).op = "claim"
        BY DEF Fresh, Idle
    <2> HIDE DEF l
    <2> QED BY <2>1, <2>2 DEF Starts, Given
<1>5. ASSUME BeginMediate(p) PROVE Goes
    <2> DEFINE l(a, b, res) == [Idle EXCEPT !.op = "mediate", !.a = a, !.b = b, !.res = res]
    <2>1. PICK a, b \in Record, res \in Resolution : a # b /\ Begin(p, "find", l(a, b, res))
        BY <1>5 DEF BeginMediate
    <2>2. /\ Fresh(l(a, b, res)) /\ l(a, b, res).op = "mediate"
          /\ l(a, b, res).a = a /\ l(a, b, res).b = b
        BY DEF Fresh, Idle
    <2> HIDE DEF l
    <2> QED BY <2>1, <2>2 DEF Starts, Given
<1>6. ASSUME BeginStabilize(p) PROVE Goes
    <2> DEFINE l == [Idle EXCEPT !.op = "stabilize"]
    <2>1. Begin(p, "scan", l)
        BY <1>6 DEF BeginStabilize
    <2>2. Fresh(l) /\ l.op = "stabilize"
        BY DEF Fresh, Idle
    <2> HIDE DEF l
    <2> QED BY <2>1, <2>2 DEF Starts, Given
<1> QED BY <1>1, <1>2, <1>3, <1>4, <1>5, <1>6 DEF Invoke

LEMMA InvokeKeeps ==
    ASSUME IInv, RefInv, NEW p \in Client, Invoke(p)
    PROVE  RefInv'
BY InvokeFresh, BeginRefs

\* A call returns, or a crash ends it: what its transaction had written is
\* lost, but so is everything it remembered.
LEMMA EndKeeps ==
    ASSUME IInv, RefInv, NEW p \in Client, Return(p) \/ Fail(p)
    PROVE  RefInv'
<1>1. Continue(p, "idle", <<>>, Idle)
    BY DEF Return, Fail
<1>2. CASE UNCHANGED storeVars
    BY <1>1, <1>2, EmptyResolved, IdleRemembers, CallReads
<1>3. CASE writer = p /\ Commit(durable)
    <2>1. durable' = durable /\ work' = durable /\ writer' = NoClient
        BY <1>3 DEF Commit
    <2>2. StoreRefs'
        BY <2>1 DEF RefInv, StoreRefs
    <2>3. ASSUME NEW q \in Client \ {p} PROVE View(q)' = View(q)
        BY <1>3, <2>1 DEF View
    <2>4. ASSUME NEW q \in Client \ {p} PROVE CallRefs(q)'
        <3>1. pc'[q] = pc[q] /\ todo'[q] = todo[q] /\ local'[q] = local[q]
            BY <1>1 DEF Continue, IInv, CallInv
        <3> QED BY <2>3, <3>1 DEF RefInv, CallRefs
    <2>5. CallRefs(p)'
        <3>1. pc'[p] = "idle" /\ todo'[p] = <<>> /\ local'[p] = Idle
            BY <1>1 DEF Continue, IInv, CallInv
        <3> QED BY <3>1, EmptyResolved, IdleRemembers DEF CallRefs
    <2> QED BY <2>2, <2>4, <2>5 DEF RefInv
<1> QED BY <1>2, <1>3 DEF Return, Fail

----------------------------------------------------------------------------
(* resolve_clusters. *)

\* What a call remembers of the entities, whatever it does next.
LEMMA LocalRefs ==
    ASSUME IInv, RefInv, NEW p \in Client
    PROVE  /\ \A r \in Record : local[p].found[r] \in OrNone(Rows(View(p)))
           /\ \A e \in Entity : local[p].snap[e].into \in OrNone(Rows(View(p)))
           /\ \A e \in Entity : local[p].remap[e] \in Rows(View(p)) \cup {e}
           /\ \A w \in local[p].rows : \A x \in w.edges : x.ent = w.ent
BY DEF RefInv, CallRefs, Remembers

\* Updates of what the checks of Remembers do not look at.
LEMMA RemembersElse ==
    ASSUME IInv, RefInv, NEW p \in Client, NEW next, NEW l,
           next \notin {"other", "records", "record", "loser", "act"},
           l.found = local[p].found, l.snap = local[p].snap, l.remap = local[p].remap,
           \A w \in l.rows : \A x \in w.edges : x.ent = w.ent
    PROVE  Remembers(next, l, Rows(View(p)))
BY LocalRefs DEF Remembers

\* The key merge fails, and the call goes on with what it remembers.
LEMMA DetMergeFailsKeeps ==
    ASSUME IInv, RefInv, NEW p \in Client, DetMergeFails(p)
    PROVE  RefInv'
<1>1. Continue(p, "return", <<>>, local[p]) /\ UNCHANGED storeVars
    BY DEF DetMergeFails
<1>2. Remembers("return", local[p], Rows(View(p)))
    BY LocalRefs, RemembersElse
<1> QED BY <1>1, <1>2, EmptyResolved, CallReads

\* The next cluster is taken with a program before it that refers to rows.
LEMMA ResolveRefs ==
    ASSUME IInv, RefInv, NEW p \in Client, NEW prog, Resolve(p, prog),
           UNCHANGED storeVars, Resolved(prog, Rows(View(p)))
    PROVE  RefInv'
<1> DEFINE l == [local[p] EXCEPT !.left = Tail(local[p].left)]
<1>1. /\ l.found = local[p].found /\ l.snap = local[p].snap
      /\ l.remap = local[p].remap /\ l.rows = local[p].rows
    BY LocalFields DEF IInv, AgreeingLocal, Local
<1>2. Continue(p, "loop", prog, l)
    BY DEF Resolve
<1> HIDE DEF l
<1>3. Remembers("loop", l, Rows(View(p)))
    BY <1>1, LocalRefs, RemembersElse
<1> QED BY <1>2, <1>3, CallReads

LEMMA PreflightKeeps ==
    ASSUME IInv, RefInv, NEW p \in Client, ResolveLookup(p) \/ ResolveNodes(p)
    PROVE  RefInv'
<1> DEFINE K == Rows(View(p))
<1>1. /\ \A r \in Record : View(p).owner[r] \in OrNone(K)
      /\ \A e \in Entity : View(p).into[e] \in OrNone(K)
      /\ NoEntity \in OrNone(K)
    BY ViewRefs, PointsAt DEF OrNone
<1>2. ASSUME ResolveLookup(p) PROVE RefInv'
    <2> DEFINE rs == BatchRecords(local[p].clusters)
               found == [r \in Record |-> IF r \in rs THEN View(p).owner[r] ELSE NoEntity]
               l == [local[p] EXCEPT !.found = found]
    <2>1. \A r \in Record : found[r] \in OrNone(K)
        BY <1>1
    <2>2. Continue(p, "nodes", <<>>, l) /\ UNCHANGED storeVars
        BY <1>2 DEF ResolveLookup
    <2> HIDE DEF found
    <2>3. /\ l.found = found /\ l.snap = local[p].snap /\ l.remap = local[p].remap
          /\ l.rows = local[p].rows
        BY LocalFields DEF IInv, AgreeingLocal, Local
    <2> HIDE DEF l
    <2>4. Remembers("nodes", l, K)
        BY <2>1, <2>3, LocalRefs DEF Remembers
    <2> QED BY <2>2, <2>4, EmptyResolved, CallReads
<1>3. ASSUME ResolveNodes(p) PROVE RefInv'
    <2> DEFINE seen(e) == \E r \in Record : local[p].found[r] = e
               snap == [e \in Entity |->
                          IF seen(e) THEN [status |-> View(p).status[e], into |-> View(p).into[e]]
                          ELSE [status |-> "absent", into |-> NoEntity]]
               l == [local[p] EXCEPT !.snap = snap]
    <2>1. \A e \in Entity : snap[e].into \in OrNone(K)
        BY <1>1
    <2>2. Continue(p, "loop", <<>>, l) /\ UNCHANGED storeVars
        BY <1>3 DEF ResolveNodes
    <2> HIDE DEF snap
    <2>3. /\ l.snap = snap /\ l.found = local[p].found /\ l.remap = local[p].remap
          /\ l.rows = local[p].rows
        BY LocalFields DEF IInv, AgreeingLocal, Local
    <2> HIDE DEF l
    <2>4. Remembers("loop", l, K)
        BY <2>1, <2>3, LocalRefs DEF Remembers
    <2> QED BY <2>2, <2>4, EmptyResolved, CallReads
<1> QED BY <1>2, <1>3

\* The bulk flush: its rows bring the nodes their own edges refer to.
LEMMA FlushRefs ==
    ASSUME IInv, RefInv, NEW p \in Client, NEW rows \in SUBSET Row, Flush(p, rows),
           \A w \in rows : \A x \in w.edges : x.ent = w.ent
    PROVE  StoreRefs' /\ \A q \in Client : Rows(View(q)) \subseteq Rows(View(q)')
<1> DEFINE g == BulkWrite(View(p), rows)
<1>1. PointsAtRows(g) /\ Rows(View(p)) \subseteq Rows(g)
    BY ViewRefs, BulkWriteRefs DEF Row, BulkRow
<1>2. CanWrite(p) /\ Commit(g)
    BY DEF Flush
<1> HIDE DEF g
<1> QED BY <1>1, <1>2, StoreGrows

LEMMA ResolveNewKeeps ==
    ASSUME IInv, RefInv, NEW p \in Client, ResolveAccumulate(p) \/ ResolveCreate(p)
    PROVE  RefInv'
<1> DEFINE K == Rows(View(p))
           c == ThisCluster(p)
           new == NextEntity
           edges == Evidence(c, new, c.members, local[p].run)
<1>1. AtCluster(p) /\ CanMint /\ Mint
    BY DEF ResolveAccumulate, ResolveCreate
<1>2. new \in Entity /\ K \cup {new} \subseteq Entity
    BY <1>1, MintGood, ViewRefs DEF IInv
<1>3. c.members \in SUBSET Record /\ local[p].run \in Run
    BY <1>1, ClusterType, LocalFields DEF IInv
<1>4. edges \in SUBSET Edge /\ \A x \in edges : x.ent = new
    BY <1>2, <1>3, EvidenceType
<1> HIDE DEF edges
<1>5. ASSUME ResolveCreate(p) PROVE RefInv'
    <2> DEFINE a == Node(new, "active", NoEntity)
               b == Emit({Ev("created", new, NoEntity)})
               d == Attach(c.members, new)
               e == Link(edges)
    <2>1. Resolve(p, <<a, b, d, e>>) /\ UNCHANGED storeVars
        BY <1>5 DEF ResolveCreate, edges
    <2>2. b \in Anchored(K \cup {new})
        BY <1>2, EventAnchored DEF EventKind, OrNone
    <2>3. d \in Anchored(K \cup {new}) /\ e \in Anchored(K \cup {new})
        BY <1>2, <1>3, <1>4, AttachAnchored, LinkAnchored
    <2>4. NoEntity \in OrNone(K)
        BY DEF OrNone
    <2> DEFINE prog == <<a, b, d, e>>
    <2> HIDE DEF b, d, e
    <2>5. prog # <<>> /\ Head(prog) = a /\ Tail(prog) \in Seq(Anchored(K \cup {new}))
        BY <2>2, <2>3
    <2> HIDE DEF prog
    <2>6. Resolved(prog, K)
        BY <2>4, <2>5, FoundingResolved
    <2> QED BY <2>1, <2>6, ResolveRefs DEF prog
<1>6. ASSUME ResolveAccumulate(p) PROVE RefInv'
    <2> DEFINE rows == local[p].rows \cup {[ent |-> new, members |-> c.members, edges |-> edges]}
               full == Cardinality(UNION {w.members : w \in rows}) >= FlushRows
               kept == IF full THEN {} ELSE rows
               l == [local[p] EXCEPT !.left = Tail(@), !.rows = kept]
    <2>1. rows \in SUBSET Row /\ \A w \in rows : \A x \in w.edges : x.ent = w.ent
        BY <1>2, <1>3, <1>4, LocalFields, LocalRefs DEF IInv, Row
    <2>2. /\ Continue(p, "loop", <<>>, l)
          /\ IF full THEN Flush(p, rows) ELSE UNCHANGED storeVars
        BY <1>6 DEF ResolveAccumulate, edges
    <2>3. kept \in SUBSET rows
        OBVIOUS
    <2> HIDE DEF rows, full, kept
    <2>4. /\ l.found = local[p].found /\ l.snap = local[p].snap
          /\ l.remap = local[p].remap /\ l.rows = kept
        BY LocalFields DEF IInv, AgreeingLocal, Local
    <2> HIDE DEF l
    <2>5. Remembers("loop", l, K)
        BY <2>1, <2>3, <2>4, RemembersElse
    <2>6. StoreRefs' /\ \A q \in Client : Rows(View(q)) \subseteq Rows(View(q)')
        BY <2>1, <2>2, FlushRefs, NobodyLoses
    <2>7. Remembers("loop", l, Rows(View(p)'))
        BY <2>5, <2>6, RemembersGrows
    <2> QED BY <2>2, <2>6, <2>7, EmptyResolved, CallGoesOn
<1> QED BY <1>5, <1>6

\* The entities found for a cluster have a row.
LEMMA ExistingRefs ==
    ASSUME IInv, RefInv, NEW p \in Client, AtCluster(p)
    PROVE  Existing(p) \subseteq Rows(View(p))
<1>1. ThisCluster(p).members \in SUBSET Record
    BY ClusterType DEF IInv
<1> QED BY <1>1, LocalRefs DEF Existing, FoundIn, OrNone

LEMMA ResolveAbsorbKeeps ==
    ASSUME IInv, RefInv, NEW p \in Client, ResolveAbsorb(p)
    PROVE  RefInv'
<1> DEFINE K == Rows(View(p))
           c == ThisCluster(p)
           added == {r \in c.members : local[p].found[r] = NoEntity}
           seen(e) == {Ev("absorbed_record", e, NoEntity) : r \in added}
           a(e) == Node(e, Refreshed(local[p].snap[e]), local[p].snap[e].into)
           b(e) == Emit(seen(e))
           d(e) == Attach(c.members, e)
           f(e) == Link(Evidence(c, e, added, local[p].run))
           prog(e) == <<a(e), b(e), d(e), f(e)>>
<1>1. AtCluster(p) /\ UNCHANGED storeVars
    BY DEF ResolveAbsorb
<1>2. PICK e \in Existing(p) : Resolve(p, prog(e))
    BY DEF ResolveAbsorb
<1>3. c.members \in SUBSET Record /\ local[p].run \in Run /\ K \subseteq Entity
    BY <1>1, ClusterType, LocalFields, ViewRefs DEF IInv
<1>4. e \in K /\ e \in Entity
    BY <1>1, <1>3, ExistingRefs
<1>5. b(e) \in Anchored(K)
    <2>1. Ev("absorbed_record", e, NoEntity) \in Event
        BY <1>4, EvType, MaxEntityAssumption DEF EventKind, EntityOrNone, NoEntity
    <2>2. \A v \in seen(e) : v \in Event /\ v.ent \in K /\ v.into \in OrNone(K)
        BY <1>4, <2>1 DEF Ev, OrNone
    <2> HIDE DEF seen
    <2> QED BY <1>3, <2>2, EmitAnchored
<1>6. d(e) \in Anchored(K)
    BY <1>3, <1>4, AttachAnchored
<1>7. f(e) \in Anchored(K)
    <2>1. /\ Evidence(c, e, added, local[p].run) \in SUBSET Edge
          /\ \A x \in Evidence(c, e, added, local[p].run) : x.ent = e
        BY <1>3, <1>4, EvidenceType
    <2> QED BY <1>3, <1>4, <2>1, LinkAnchored
<1>8. K \cup {e} = K /\ local[p].snap[e].into \in OrNone(K)
    BY <1>4, LocalRefs
<1> DEFINE S == Anchored(K)
<1> HIDE DEF a, b, d, f, S
<1>9. prog(e) # <<>> /\ Head(prog(e)) = a(e) /\ Tail(prog(e)) \in Seq(S)
    BY <1>5, <1>6, <1>7 DEF S
<1> HIDE DEF prog
<1>10. Resolved(prog(e), K)
    BY <1>8, <1>9, FoundingResolved DEF a, S
<1> QED BY <1>1, <1>2, <1>10, ResolveRefs

LEMMA ResolveMergeKeeps ==
    ASSUME IInv, RefInv, NEW p \in Client, ResolveMerge(p)
    PROVE  RefInv'
<1> DEFINE K == Rows(View(p))
           c == ThisCluster(p)
           losers(w) == Existing(p) \ {w}
           a(w) == Node(w, "active", NoEntity)
           b(w) == Emit({Ev("merged_with", w, NoEntity)})
           d(w) == Absorb(losers(w), w)
           e(w) == Attach(c.members, w)
           f(w) == Link(Evidence(c, w, c.members, local[p].run))
           h(w) == Carry(losers(w), w, local[p].run)
           prog(w) == <<a(w), b(w), d(w), e(w), f(w), h(w)>>
<1>1. AtCluster(p) /\ UNCHANGED storeVars
    BY DEF ResolveMerge
<1>2. PICK w \in MergeWinner(local[p].found, c.members) : Resolve(p, prog(w))
    BY DEF ResolveMerge
<1>3. /\ c.members \in SUBSET Record /\ local[p].run \in Run /\ K \subseteq Entity
      /\ Existing(p) \subseteq K
    BY <1>1, ClusterType, LocalFields, ViewRefs, ExistingRefs DEF IInv
<1>4. w \in K /\ w \in Entity /\ losers(w) \subseteq K /\ losers(w) \subseteq Entity
    BY <1>2, <1>3 DEF MergeWinner, Foremost, Existing
<1>5. b(w) \in Anchored(K)
    BY <1>3, <1>4, EventAnchored DEF EventKind, OrNone
<1>6. d(w) \in Anchored(K) /\ h(w) \in Anchored(K)
    BY <1>3, <1>4, RetireAnchored, CarryAnchored
<1>7. e(w) \in Anchored(K)
    BY <1>3, <1>4, AttachAnchored
<1>8. f(w) \in Anchored(K)
    <2>1. /\ Evidence(c, w, c.members, local[p].run) \in SUBSET Edge
          /\ \A x \in Evidence(c, w, c.members, local[p].run) : x.ent = w
        BY <1>3, <1>4, EvidenceType
    <2> QED BY <1>3, <1>4, <2>1, LinkAnchored
<1>9. K \cup {w} = K /\ NoEntity \in OrNone(K)
    BY <1>4 DEF OrNone
<1> DEFINE S == Anchored(K)
<1> HIDE DEF a, b, d, e, f, h, S
<1>10. prog(w) # <<>> /\ Head(prog(w)) = a(w) /\ Tail(prog(w)) \in Seq(S)
    BY <1>5, <1>6, <1>7, <1>8 DEF S
<1> HIDE DEF prog
<1>11. Resolved(prog(w), K)
    BY <1>9, <1>10, FoundingResolved DEF a, S
<1> QED BY <1>1, <1>2, <1>11, ResolveRefs

\* merge_by_shared_field only joins entities that own a record, which have a
\* row, and leaves every other entity to itself.
LEMMA SharedKeyRemapRefs ==
    ASSUME NEW g \in Graph, PointsAtRows(g)
    PROVE  \A e \in Entity : SharedKeyRemap(g)[e] \in Rows(g) \cup {e}
<1> DEFINE links == SharedKeyLinks(g)
           joined == UNION links
<1>1. \A h \in links : h \subseteq Rows(g)
    <2>1. \A k : Holders(g, k) \subseteq Rows(g)
        BY PointsAt DEF Holders, OrNone
    <2> QED BY <2>1 DEF SharedKeyLinks
<1>2. joined \subseteq Rows(g) /\ joined \subseteq Entity
    BY <1>1, RowsType
<1>3. ASSUME NEW e \in Entity PROVE SharedKeyRemap(g)[e] \in Rows(g) \cup {e}
    <2>1. Closed(joined \cup {e}, links)
        BY DEF Closed
    <2>2. SharedKeyRemap(g)[e] \in ComponentOf(e, links)
        BY SharedKeyRemapType
    <2> HIDE DEF links, joined
    <2>3. joined \cup {e} \in SUBSET Entity
        BY <1>2
    <2>4. SharedKeyRemap(g)[e] \in joined \cup {e}
        BY <2>1, <2>2, <2>3 DEF ComponentOf
    <2> QED BY <1>2, <2>4
<1> QED BY <1>3

LEMMA ResolveEndKeeps ==
    ASSUME IInv, RefInv, NEW p \in Client,
           ResolveSkip(p) \/ ResolveFinish(p) \/ DetMergeRead(p) \/ DetMergeWrite(p)
    PROVE  RefInv'
<1> DEFINE K == Rows(View(p))
<1>1. ASSUME ResolveSkip(p) PROVE RefInv'
    BY <1>1, EmptyResolved, ResolveRefs DEF ResolveSkip
<1>2. ASSUME ResolveFinish(p) PROVE RefInv'
    <2> DEFINE l == [local[p] EXCEPT !.rows = {}]
               next == IF DetMerge THEN "detread" ELSE "return"
    <2>1. Continue(p, next, <<>>, l) /\ (UNCHANGED storeVars \/ Flush(p, local[p].rows))
        BY <1>2 DEF ResolveFinish
    <2>2. /\ l.found = local[p].found /\ l.snap = local[p].snap
          /\ l.remap = local[p].remap /\ l.rows = {}
        BY LocalFields DEF IInv, AgreeingLocal, Local
    <2>3. next \notin {"other", "records", "record", "loser", "act"}
        OBVIOUS
    <2> HIDE DEF l, next
    <2>4. Remembers(next, l, K)
        BY <2>2, <2>3, RemembersElse
    <2>5. local[p].rows \in SUBSET Row /\ \A w \in local[p].rows : \A x \in w.edges : x.ent = w.ent
        BY LocalFields, LocalRefs DEF IInv
    <2>6. StoreRefs' /\ \A q \in Client : Rows(View(q)) \subseteq Rows(View(q)')
        BY <2>1, <2>5, FlushRefs, NobodyLoses
    <2>7. Remembers(next, l, Rows(View(p)'))
        BY <2>4, <2>6, RemembersGrows
    <2> QED BY <2>1, <2>6, <2>7, EmptyResolved, CallGoesOn
<1>3. ASSUME DetMergeRead(p) PROVE RefInv'
    <2> DEFINE remap == SharedKeyRemap(View(p))
               next == IF \A e \in Entity : remap[e] = e THEN "return" ELSE "detwrite"
               l == [local[p] EXCEPT !.remap = remap]
    <2>1. Continue(p, next, <<>>, l) /\ UNCHANGED storeVars
        BY <1>3 DEF DetMergeRead
    <2>2. \A e \in Entity : remap[e] \in K \cup {e}
        BY ViewRefs, SharedKeyRemapRefs
    <2>3. next \notin {"other", "records", "record", "loser", "act"}
        OBVIOUS
    <2> HIDE DEF remap, next
    <2>4. /\ l.found = local[p].found /\ l.snap = local[p].snap
          /\ l.remap = remap /\ l.rows = local[p].rows
        BY LocalFields DEF IInv, AgreeingLocal, Local
    <2> HIDE DEF l
    <2>5. Remembers(next, l, K)
        BY <2>2, <2>3, <2>4, LocalRefs DEF Remembers
    <2> QED BY <2>1, <2>5, EmptyResolved, CallReads
<1>4. ASSUME DetMergeWrite(p) PROVE RefInv'
    <2> DEFINE g == RemapEntities(View(p), local[p].remap)
    <2>1. PointsAtRows(g) /\ Rows(g) = K
        BY ViewRefs, LocalFields, LocalRefs, RemapEntitiesRefs DEF IInv
    <2>2. Exec(p, g) /\ Continue(p, "return", <<>>, local[p])
        BY <1>4 DEF DetMergeWrite
    <2> HIDE DEF g
    <2>3. StoreRefs' /\ View(p)' = g /\ \A q \in Client : Rows(View(q)) \subseteq Rows(View(q)')
        BY <2>1, <2>2, StoreGrows
    <2>4. Remembers("return", local[p], K)
        BY LocalRefs, RemembersElse
    <2>5. Remembers("return", local[p], Rows(View(p)'))
        BY <2>1, <2>3, <2>4
    <2> QED BY <2>2, <2>3, <2>5, EmptyResolved, CallGoesOn
<1> QED BY <1>1, <1>2, <1>3, <1>4

----------------------------------------------------------------------------
(* Steward operations. *)

\* A call goes on in its own variables with a program that refers to rows.
LEMMA StewardRefs ==
    ASSUME IInv, RefInv, NEW p \in Client, NEW next, NEW prog, UNCHANGED storeVars,
           Resolved(prog, Rows(View(p))),
           \/ GiveUp(p)
           \/ /\ Continue(p, next, prog, local[p])
              /\ next \in {"other", "records", "record", "loser"} => local[p].ent \in Rows(View(p))
              /\ next = "records" => local[p].other \in Rows(View(p))
              /\ next # "act"
    PROVE  RefInv'
<1>1. CASE GiveUp(p)
    <2> DEFINE l == [local[p] EXCEPT !.op = "none"]
    <2>1. Continue(p, "return", <<>>, l)
        BY <1>1 DEF GiveUp
    <2>2. /\ l.found = local[p].found /\ l.snap = local[p].snap
          /\ l.remap = local[p].remap /\ l.rows = local[p].rows
        BY LocalFields DEF IInv, AgreeingLocal, Local
    <2> HIDE DEF l
    <2>3. Remembers("return", l, Rows(View(p)))
        BY <2>2, LocalRefs, RemembersElse
    <2> QED BY <2>1, <2>3, EmptyResolved, CallReads
<1>2. CASE ~GiveUp(p)
    <2>1. Remembers(next, local[p], Rows(View(p)))
        BY <1>2, LocalRefs DEF Remembers
    <2> QED BY <1>2, <2>1, CallReads
<1> QED BY <1>1, <1>2

LEMMA MergeKeeps ==
    ASSUME IInv, RefInv, NEW p \in Client,
           MergeCheck(p) \/ MergeCheckOther(p) \/ MergeRecords(p)
    PROVE  RefInv'
<1> DEFINE K == Rows(View(p))
<1>1. ASSUME MergeCheck(p) PROVE RefInv'
    <2>1. Active(View(p), local[p].ent) => local[p].ent \in K
        BY RowsType
    <2>2. UNCHANGED storeVars
        BY <1>1 DEF MergeCheck
    <2> QED BY <1>1, <2>1, <2>2, EmptyResolved, StewardRefs DEF MergeCheck
<1>3. ASSUME MergeCheckOther(p) PROVE RefInv'
    <2>1. local[p].ent \in K
        BY <1>3 DEF MergeCheckOther, At, RefInv, CallRefs, Remembers
    <2>2. Exists(View(p), local[p].other) => local[p].other \in K
        BY RowsType
    <2>3. UNCHANGED storeVars
        BY <1>3 DEF MergeCheckOther
    <2> QED BY <1>3, <2>1, <2>2, <2>3, EmptyResolved, StewardRefs DEF MergeCheckOther
<1>2. ASSUME MergeRecords(p) PROVE RefInv'
    <2> DEFINE keep == local[p].ent
               gone == local[p].other
               a == Attach(RecordsOf(View(p), gone), keep)
               b == Retire({gone}, keep)
               c == Emit({Ev("manual_merge", keep, NoEntity)})
               d == Emit({Ev("manual_merge", gone, keep)})
               prog == <<a, b, c, d>>
    <2>1. Continue(p, "return", prog, local[p]) /\ UNCHANGED storeVars
        BY <1>2 DEF MergeRecords
    <2>2. keep \in K /\ gone \in K /\ K \subseteq Entity
        BY <1>2, ViewRefs DEF MergeRecords, At, RefInv, CallRefs, Remembers
    <2>3. a \in Anchored(K)
        BY <2>2, AttachAnchored DEF RecordsOf
    <2>4. b \in Anchored(K)
        BY <2>2, RetireAnchored
    <2>5. c \in Anchored(K) /\ d \in Anchored(K)
        <3>1. "manual_merge" \in EventKind /\ keep \in OrNone(K) /\ NoEntity \in OrNone(K)
            BY <2>2 DEF EventKind, OrNone
        <3> QED BY <2>2, <3>1, EventAnchored
    <2> HIDE DEF a, b, c, d
    <2>6. prog \in Seq(Anchored(K))
        BY <2>3, <2>4, <2>5
    <2> HIDE DEF prog
    <2> QED BY <2>1, <2>6, StewardRefs DEF Resolved
<1> QED BY <1>1, <1>2, <1>3

\* A split founds the entity its other statements write about.
LEMMA SplitProgramRefs ==
    ASSUME NEW K, K \subseteq Entity, NEW e \in K, NEW rs \in SUBSET Record,
           NextEntity \in Entity
    PROVE  LET prog == SplitProgram(e, rs)
           IN /\ prog # <<>> /\ Head(prog) = Node(NextEntity, "active", NoEntity)
              /\ Tail(prog) \in Seq(Anchored(K \cup {NextEntity}))
<1> DEFINE M == K \cup {NextEntity}
           S == Anchored(M)
           a == Node(NextEntity, "active", NoEntity)
           b == Move(rs, e, NextEntity)
           c == Emit({Ev("manual_split", e, NoEntity)})
           d == Emit({Ev("manual_split", NextEntity, NoEntity)})
<1>1. M \subseteq Entity /\ e \in M /\ e \in Entity /\ NextEntity \in M
    OBVIOUS
<1> HIDE DEF M
<1>2. b \in S
    BY <1>1, MoveAnchored
<1>3. c \in S /\ d \in S
    <2>1. "manual_split" \in EventKind /\ NoEntity \in OrNone(M)
        BY DEF EventKind, OrNone
    <2> QED BY <1>1, <2>1, EventAnchored
<1>4. SplitProgram(e, rs) = <<a, b, c, d>>
    BY DEF SplitProgram
<1> HIDE DEF a, b, c, d, S
<1>5. <<a, b, c, d>> # <<>> /\ Head(<<a, b, c, d>>) = a /\ Tail(<<a, b, c, d>>) \in Seq(S)
    BY <1>2, <1>3
<1> QED BY <1>4, <1>5 DEF a, S, M

LEMMA SplitKeeps ==
    ASSUME IInv, RefInv, NEW p \in Client, SplitCheck(p)
    PROVE  RefInv'
<1> DEFINE K == Rows(View(p))
           prog == SplitProgram(local[p].ent, local[p].recs)
<1>1. UNCHANGED storeVars
    BY DEF SplitCheck
<1>2. CASE Exists(View(p), local[p].ent)
    <2>1. CanMint /\ Mint /\ Continue(p, "return", prog, local[p])
        BY <1>2 DEF SplitCheck
    <2>2. NextEntity \in Entity /\ local[p].ent \in K /\ local[p].recs \in SUBSET Record
        BY <1>2, <2>1, MintGood, RowsType, LocalFields DEF IInv
    <2> HIDE DEF prog
    <2>3. Resolved(prog, K)
        <3>1. K \subseteq Entity /\ NoEntity \in OrNone(K)
            BY ViewRefs DEF OrNone
        <3>2. /\ prog # <<>> /\ Head(prog) = Node(NextEntity, "active", NoEntity)
              /\ Tail(prog) \in Seq(Anchored(K \cup {NextEntity}))
            BY <2>2, <3>1, SplitProgramRefs DEF prog
        <3> QED BY <3>1, <3>2, FoundingResolved
    <2> QED BY <1>1, <2>1, <2>3, StewardRefs
<1>3. CASE ~Exists(View(p), local[p].ent)
    BY <1>1, <1>3, EmptyResolved, StewardRefs DEF SplitCheck
<1> QED BY <1>2, <1>3

LEMMA ClaimKeeps ==
    ASSUME IInv, RefInv, NEW p \in Client, ClaimTarget(p) \/ ClaimRecord(p)
    PROVE  RefInv'
<1> DEFINE K == Rows(View(p))
<1>1. UNCHANGED storeVars
    BY DEF ClaimTarget, ClaimRecord
<1>2. ASSUME ClaimTarget(p) PROVE RefInv'
    BY <1>1, <1>2, RowsType, EmptyResolved, StewardRefs DEF ClaimTarget
<1>3. ASSUME ClaimRecord(p) PROVE RefInv'
    <2> DEFINE e == local[p].ent
               prev == View(p).owner[local[p].a]
               a == Attach({local[p].a}, e)
               b == Emit({Ev("claimed", e, NoEntity)})
               c == Emit({Ev("claimed", prev, NoEntity)})
               prog == <<a, b, c>>
    <2>1. CASE prev \in {NoEntity, e}
        BY <1>1, <1>3, <2>1, EmptyResolved, StewardRefs DEF ClaimRecord
    <2>2. CASE prev \notin {NoEntity, e}
        <3>1. Continue(p, "return", prog, local[p])
            BY <1>3, <2>2 DEF ClaimRecord
        <3>2. local[p].a \in Record /\ e \in K /\ K \subseteq Entity
            BY <1>3, LocalFields, ViewRefs
            DEF ClaimRecord, At, IInv, RefInv, CallRefs, Remembers
        <3>3. prev \in K
            BY <2>2, <3>2, ViewRefs, PointsAt DEF OrNone
        <3>4. a \in Anchored(K)
            BY <3>2, AttachAnchored
        <3>5. b \in Anchored(K) /\ c \in Anchored(K)
            <4>1. "claimed" \in EventKind /\ NoEntity \in OrNone(K)
                BY DEF EventKind, OrNone
            <4> QED BY <3>2, <3>3, <4>1, EventAnchored
        <3> HIDE DEF a, b, c
        <3>6. prog \in Seq(Anchored(K))
            BY <3>4, <3>5
        <3> HIDE DEF prog
        <3> QED BY <1>1, <3>1, <3>6, StewardRefs DEF Resolved
    <2> QED BY <2>1, <2>2
<1> QED BY <1>2, <1>3

LEMMA MediateKeeps ==
    ASSUME IInv, RefInv, NEW p \in Client,
           MediateFind(p) \/ MediateFindOther(p) \/ MediateAct(p)
    PROVE  RefInv'
<1> DEFINE K == Rows(View(p))
           l == local[p]
<1>1. UNCHANGED storeVars
    BY DEF MediateFind, MediateFindOther, MediateAct
<1>2. l.a \in Record /\ l.b \in Record /\ l.res \in Resolution
    BY LocalFields DEF IInv
<1>3. ASSUME NEW e \in OrNone(K), Rule(p, e) PROVE RefInv'
    <2> DEFINE prog == <<RecordVerdict({l.a, l.b}, l.res)>>
               m == [l EXCEPT !.ent = e]
    <2>1. Continue(p, "act", prog, m)
        BY <1>3 DEF Rule
    <2>2. prog \in Seq(Anchored(K))
        BY <1>2, VerdictAnchored DEF Pair
    <2> HIDE DEF prog
    <2>3. /\ m.found = l.found /\ m.snap = l.snap /\ m.remap = l.remap /\ m.rows = l.rows
          /\ m.ent = e
        BY LocalFields DEF IInv, AgreeingLocal, Local
    <2> HIDE DEF m
    <2>4. Remembers("act", m, K)
        BY <2>3, LocalRefs DEF Remembers
    <2> QED BY <1>1, <2>1, <2>2, <2>4, CallReads DEF Resolved
<1>5. View(p).owner[l.a] \in OrNone(K) /\ View(p).owner[l.b] \in OrNone(K)
    BY <1>2, ViewRefs, PointsAt
<1>6. ASSUME MediateFind(p) PROVE RefInv'
    <2>1. CASE Rule(p, View(p).owner[l.a])
        BY <1>3, <1>5, <2>1
    <2>2. CASE Continue(p, "findb", <<>>, local[p])
        BY <1>1, <2>2, EmptyResolved, StewardRefs
    <2> QED BY <1>6, <2>1, <2>2 DEF MediateFind
<1>7. ASSUME MediateFindOther(p) PROVE RefInv'
    BY <1>3, <1>5, <1>7 DEF MediateFindOther
<1>4. ASSUME MediateAct(p) PROVE RefInv'
    <2> DEFINE said == IF l.ent = NoEntity THEN {} ELSE {Ev("conflict_mediated", l.ent, NoEntity)}
               split == /\ l.res = "distinct"
                        /\ l.ent # NoEntity
                        /\ View(p).owner[l.b] = l.ent
    <2>1. l.ent \in OrNone(K) /\ K \subseteq Entity
        BY <1>4, ViewRefs DEF MediateAct, At, RefInv, CallRefs, Remembers
    <2>2. Emit(said) \in Anchored(K)
        <3>1. CASE l.ent = NoEntity
            BY <2>1, <3>1, EmitAnchored
        <3>2. CASE l.ent # NoEntity
            <4>1. l.ent \in K /\ "conflict_mediated" \in EventKind /\ NoEntity \in OrNone(K)
                BY <2>1, <3>2 DEF EventKind, OrNone
            <4> QED BY <2>1, <3>2, <4>1, EventAnchored
        <3> QED BY <3>1, <3>2
    <2> HIDE DEF said
    <2>3. CASE split
        <3> DEFINE prog == SplitProgram(l.ent, {l.b})
        <3>1. CanMint /\ Mint /\ Continue(p, "return", Append(prog, Emit(said)), l)
            BY <1>4, <2>3 DEF MediateAct, said
        <3>2. NextEntity \in Entity /\ l.ent \in K /\ {l.b} \in SUBSET Record
            BY <1>2, <2>1, <2>3, <3>1, MintGood DEF IInv, OrNone
        <3>3. /\ prog # <<>> /\ Head(prog) = Node(NextEntity, "active", NoEntity)
              /\ Tail(prog) \in Seq(Anchored(K \cup {NextEntity}))
            BY <2>1, <3>2, SplitProgramRefs
        <3>4. prog \in Seq(AgreeingStmt)
            BY <2>1, <3>2, SplitProgramGood
        <3>5. /\ Emit(said) \in Anchored(K \cup {NextEntity}) /\ Emit(said) \in AgreeingStmt
              /\ NoEntity \in OrNone(K)
            BY <2>2, AnchoredGrows, AnchoredFields DEF OrNone
        <3> DEFINE longer == Append(prog, Emit(said))
        <3> HIDE DEF prog
        <3>6. /\ longer # <<>> /\ Head(longer) = Node(NextEntity, "active", NoEntity)
              /\ Tail(longer) \in Seq(Anchored(K \cup {NextEntity}))
            BY <3>3, <3>4, <3>5, FoundingAppend
        <3> HIDE DEF longer
        <3>7. Resolved(longer, K)
            BY <3>5, <3>6, FoundingResolved
        <3> QED BY <1>1, <3>1, <3>7, StewardRefs DEF longer
    <2>4. CASE ~split
        <3>1. Continue(p, "return", <<Emit(said)>>, l)
            BY <1>4, <2>4 DEF MediateAct, said
        <3>2. <<Emit(said)>> \in Seq(Anchored(K))
            BY <2>2
        <3> QED BY <1>1, <3>1, <3>2, StewardRefs DEF Resolved
    <2> QED BY <2>3, <2>4
<1> QED BY <1>4, <1>6, <1>7

----------------------------------------------------------------------------
(* stabilize_identities. *)

LEMMA StabilizeKeeps ==
    ASSUME IInv, RefInv, NEW p \in Client,
           StabilizeScan(p) \/ StabilizeGroup(p) \/ StabilizeLoser(p) \/ StabilizeNext(p)
    PROVE  RefInv'
<1> DEFINE K == Rows(View(p))
<1>1. UNCHANGED storeVars
    BY DEF StabilizeScan, StabilizeGroup, StabilizeLoser, StabilizeNext
<1>2. ASSUME StabilizeScan(p) PROVE RefInv'
    <2> DEFINE links == PersistentOverlaps(View(p))
               groups == OverlapGroups(View(p))
               l == [local[p] EXCEPT !.links = links, !.groups = groups]
    <2>1. Continue(p, "group", <<>>, l)
        BY <1>2 DEF StabilizeScan
    <2> HIDE DEF links, groups
    <2>2. /\ l.found = local[p].found /\ l.snap = local[p].snap
          /\ l.remap = local[p].remap /\ l.rows = local[p].rows
        BY LocalFields DEF IInv, AgreeingLocal, Local
    <2> HIDE DEF l
    <2>3. Remembers("group", l, K)
        BY <2>2, LocalRefs, RemembersElse
    <2> QED BY <1>1, <2>1, <2>3, EmptyResolved, CallReads
<1>3. ASSUME StabilizeGroup(p) PROVE RefInv'
    <2> DEFINE l(group) == [local[p] EXCEPT !.groups = local[p].groups \ {group}]
               m(group, w) == [l(group) EXCEPT !.ent = w, !.others = group \ {w}]
               Goes(group, w) ==
                 IF Active(View(p), w)
                 THEN Continue(p, "loser", <<>>, m(group, w))
                 ELSE Continue(p, "group", <<>>, l(group))
    <2>1. PICK group \in local[p].groups :
            \E w \in ConsolidationWinner(View(p), group) : Goes(group, w)
        BY <1>3 DEF StabilizeGroup
    <2>2. PICK w : Goes(group, w)
        BY <2>1
    <2>3. /\ l(group).found = local[p].found /\ l(group).snap = local[p].snap
          /\ l(group).remap = local[p].remap /\ l(group).rows = local[p].rows
        BY LocalFields DEF IInv, AgreeingLocal, Local
    <2>4. /\ m(group, w).found = local[p].found /\ m(group, w).snap = local[p].snap
          /\ m(group, w).remap = local[p].remap /\ m(group, w).rows = local[p].rows
          /\ m(group, w).ent = w
        BY LocalFields DEF IInv, AgreeingLocal, Local
    <2> HIDE DEF l, m
    <2>5. CASE Active(View(p), w)
        <3>1. Continue(p, "loser", <<>>, m(group, w))
            BY <2>2, <2>5
        <3>2. w \in K
            BY <2>5, RowsType
        <3>3. Remembers("loser", m(group, w), K)
            BY <2>4, <3>2, LocalRefs DEF Remembers
        <3> QED BY <1>1, <3>1, <3>3, EmptyResolved, CallReads
    <2>6. CASE ~Active(View(p), w)
        <3>1. Continue(p, "group", <<>>, l(group))
            BY <2>2, <2>6
        <3>2. Remembers("group", l(group), K)
            BY <2>3, LocalRefs, RemembersElse
        <3> QED BY <1>1, <3>1, <3>2, EmptyResolved, CallReads
    <2> QED BY <2>5, <2>6
<1>4. ASSUME StabilizeLoser(p) PROVE RefInv'
    <2> DEFINE w == local[p].ent
               a(loser) == Attach(RecordsOf(View(p), loser), w)
               b(loser) == Retire({loser}, w)
               c == Emit({Ev("consolidated", w, NoEntity)})
               d(loser) == Emit({Ev("consolidated", loser, w)})
               prog(loser) == <<a(loser), b(loser), c, d(loser)>>
               next(loser) == IF Active(View(p), loser) THEN prog(loser) ELSE <<>>
               l(loser) == [local[p] EXCEPT !.others = local[p].others \ {loser}]
    <2>1. PICK loser : Continue(p, "loser", next(loser), l(loser))
        BY <1>4 DEF StabilizeLoser
    <2>2. w \in K /\ K \subseteq Entity
        BY <1>4, ViewRefs DEF StabilizeLoser, At, RefInv, CallRefs, Remembers
    <2>3. Resolved(next(loser), K)
        <3>1. CASE ~Active(View(p), loser)
            BY <3>1, EmptyResolved
        <3>2. CASE Active(View(p), loser)
            <4>1. loser \in K
                BY <3>2, RowsType
            <4>2. a(loser) \in Anchored(K) /\ b(loser) \in Anchored(K)
                BY <2>2, <4>1, AttachAnchored, RetireAnchored DEF RecordsOf
            <4>3. c \in Anchored(K) /\ d(loser) \in Anchored(K)
                <5>1. "consolidated" \in EventKind /\ w \in OrNone(K) /\ NoEntity \in OrNone(K)
                    BY <2>2 DEF EventKind, OrNone
                <5> QED BY <2>2, <4>1, <5>1, EventAnchored
            <4> HIDE DEF a, b, c, d
            <4>4. prog(loser) \in Seq(Anchored(K))
                BY <4>2, <4>3
            <4> HIDE DEF prog
            <4> QED BY <3>2, <4>4 DEF Resolved
        <3> QED BY <3>1, <3>2
    <2>4. /\ l(loser).found = local[p].found /\ l(loser).snap = local[p].snap
          /\ l(loser).remap = local[p].remap /\ l(loser).rows = local[p].rows
          /\ l(loser).ent = local[p].ent
        BY LocalFields DEF IInv, AgreeingLocal, Local
    <2> HIDE DEF next, l
    <2>5. Remembers("loser", l(loser), K)
        BY <2>2, <2>4, LocalRefs DEF Remembers
    <2> QED BY <1>1, <2>1, <2>3, <2>5, CallReads
<1>5. ASSUME StabilizeNext(p) PROVE RefInv'
    BY <1>1, <1>5, EmptyResolved, StewardRefs DEF StabilizeNext
<1> QED BY <1>2, <1>3, <1>4, <1>5

----------------------------------------------------------------------------
(* The invariant, and what follows from it. *)

LEMMA ReadKeeps ==
    ASSUME IInv, RefInv, NEW p \in Client, Read(p)
    PROVE  RefInv'
BY PreflightKeeps, ResolveNewKeeps, ResolveAbsorbKeeps, ResolveMergeKeeps, ResolveEndKeeps,
   MergeKeeps, SplitKeeps, ClaimKeeps, MediateKeeps, StabilizeKeeps DEF Read

\* What the seed clusters leave refers to the entities they were given.
LEMMA SeedRefs == PointsAtRows(SeedGraph)
<1> DEFINE row(i) == [ent |-> i, members |-> Seed[i].members,
                      edges |-> Evidence(Seed[i], i, Seed[i].members, SeedRun)]
           rows == {row(i) : i \in DOMAIN Seed}
<1>1. ASSUME NEW i \in DOMAIN Seed
      PROVE  row(i) \in BulkRow /\ \A x \in row(i).edges : x.ent = row(i).ent
    <2>1. i \in Entity /\ Seed[i] \in Cluster /\ SeedRun \in Run
        BY SeedAssumption, MaxEntityAssumption, LenProperties DEF Entity
    <2>2. Seed[i].members \in SUBSET Record
        BY <2>1 DEF Cluster
    <2>3. /\ Evidence(Seed[i], i, Seed[i].members, SeedRun) \in SUBSET Edge
          /\ \A x \in Evidence(Seed[i], i, Seed[i].members, SeedRun) : x.ent = i
        BY <2>1, EvidenceType
    <2> QED BY <2>1, <2>2, <2>3 DEF BulkRow
<1>2. rows \in SUBSET BulkRow /\ \A w \in rows : \A x \in w.edges : x.ent = w.ent
    BY <1>1
<1>3. SeedGraph = BulkWrite(EmptyGraph, rows)
    BY DEF SeedGraph
<1>4. PointsAtRows(EmptyGraph)
    BY DEF PointsAtRows, EmptyGraph
<1> HIDE DEF rows
<1> QED BY <1>2, <1>3, <1>4, EmptyGraphType, BulkWriteRefs

LEMMA InitRefs ==
    ASSUME Init
    PROVE  RefInv
<1>1. StoreRefs
    BY SeedRefs DEF Init, StoreRefs
<1>2. ASSUME NEW p \in Client PROVE CallRefs(p)
    BY EmptyResolved, IdleRemembers DEF Init, CallRefs
<1> QED BY <1>1, <1>2 DEF RefInv

LEMMA NextRefs ==
    ASSUME IInv, RefInv, [Next]_vars
    PROVE  RefInv'
<1>1. ASSUME NEW p \in Client, Invoke(p) \/ Step(p) \/ DetMergeFails(p) \/ Fail(p) PROVE RefInv'
    BY <1>1, InvokeKeeps, ReadKeeps, WriteKeeps, EndKeeps, DetMergeFailsKeeps DEF Step
<1>2. CASE UNCHANGED vars
    BY <1>2 DEF vars, RefInv, StoreRefs, CallRefs, View
<1> QED BY <1>1, <1>2 DEF Next, Done

LEMMA ReferenceInvariance == Spec => [](IInv /\ RefInv)
<1>1. Init => RefInv
    BY InitRefs
<1>2. IInv /\ RefInv /\ [Next]_vars => RefInv'
    BY NextRefs
<1> QED BY <1>1, <1>2, Invariance, PTL DEF Spec

\* Whatever clients interleave, wherever a chunk is committed and wherever a
\* call fails, no record, merged_into, edge or event of the durable graph
\* names an entity that has no row.
THEOREM ReferencesAlwaysResolve == Spec => []ReferencesResolve
<1>1. RefInv => ReferencesResolve
    BY DEF RefInv, StoreRefs, ReferencesResolve
<1> QED BY <1>1, ReferenceInvariance, PTL

----------------------------------------------------------------------------
(* What calls leave behind them: an event log that accounts for the graph,  *)
(* for any number of clients whose calls end without a failure; and what   *)
(* steward operations and stabilization do to entities, as long as no batch *)
(* is resolved beside them.                                                *)
----------------------------------------------------------------------------
(* The statements of a program. *)

Stmts(prog) == {prog[i] : i \in DOMAIN prog}

LEMMA StmtsOfTuples ==
    /\ Stmts(<<>>) = {}
    /\ \A a : Stmts(<<a>>) = {a}
    /\ \A a, b : Stmts(<<a, b>>) = {a, b}
    /\ \A a, b, c : Stmts(<<a, b, c>>) = {a, b, c}
    /\ \A a, b, c, d : Stmts(<<a, b, c, d>>) = {a, b, c, d}
    /\ \A a, b, c, d, e, f : Stmts(<<a, b, c, d, e, f>>) = {a, b, c, d, e, f}
<1>1. Stmts(<<>>) = {}
    BY DEF Stmts
<1>2. ASSUME NEW a PROVE Stmts(<<a>>) = {a}
    BY DEF Stmts
<1>3. ASSUME NEW a, NEW b PROVE Stmts(<<a, b>>) = {a, b}
    BY DEF Stmts
<1>4. ASSUME NEW a, NEW b, NEW c PROVE Stmts(<<a, b, c>>) = {a, b, c}
    BY DEF Stmts
<1>5. ASSUME NEW a, NEW b, NEW c, NEW d PROVE Stmts(<<a, b, c, d>>) = {a, b, c, d}
    BY DEF Stmts
<1>6. ASSUME NEW a, NEW b, NEW c, NEW d, NEW e, NEW f
      PROVE  Stmts(<<a, b, c, d, e, f>>) = {a, b, c, d, e, f}
    BY DEF Stmts
<1> QED BY <1>1, <1>2, <1>3, <1>4, <1>5, <1>6

LEMMA StmtsType ==
    ASSUME NEW S, NEW prog \in Seq(S)
    PROVE  Stmts(prog) \subseteq S
BY DEF Stmts

LEMMA StmtsOfConcat ==
    ASSUME NEW prog \in Seq(AgreeingStmt), NEW rest \in Seq(AgreeingStmt)
    PROVE  Stmts(prog \o rest) = Stmts(prog) \cup Stmts(rest)
<1>1. \A i \in DOMAIN (prog \o rest) : (prog \o rest)[i] \in Stmts(prog) \cup Stmts(rest)
    BY ConcatProperties DEF Stmts
<1>2. \A i \in DOMAIN prog : i \in DOMAIN (prog \o rest) /\ (prog \o rest)[i] = prog[i]
    BY ConcatProperties
<1>3. \A i \in DOMAIN rest : /\ i + Len(prog) \in DOMAIN (prog \o rest)
                             /\ (prog \o rest)[i + Len(prog)] = rest[i]
    BY ConcatProperties
<1>4. Stmts(prog \o rest) \subseteq Stmts(prog) \cup Stmts(rest)
    BY <1>1 DEF Stmts
<1>5. Stmts(prog) \subseteq Stmts(prog \o rest)
    BY <1>2 DEF Stmts
<1>6. Stmts(rest) \subseteq Stmts(prog \o rest)
    BY <1>3 DEF Stmts
<1> QED BY <1>4, <1>5, <1>6

LEMMA StmtsOfAppend ==
    ASSUME NEW S, NEW prog \in Seq(S), NEW s \in S
    PROVE  Stmts(Append(prog, s)) = Stmts(prog) \cup {s}
<1>1. /\ Append(prog, s) \in Seq(S) /\ Len(Append(prog, s)) = Len(prog) + 1
      /\ \A i \in 1 .. Len(prog) : Append(prog, s)[i] = prog[i]
      /\ Append(prog, s)[Len(prog) + 1] = s
    BY AppendProperties
<1>2. /\ DOMAIN prog = 1 .. Len(prog) /\ DOMAIN Append(prog, s) = 1 .. Len(prog) + 1
      /\ Len(prog) \in Nat
    BY <1>1, LenProperties
<1>3. 1 .. Len(prog) + 1 = (1 .. Len(prog)) \cup {Len(prog) + 1}
    BY <1>2
<1> QED BY <1>1, <1>2, <1>3 DEF Stmts

LEMMA StmtsOfHeadTail ==
    ASSUME NEW S, NEW prog \in Seq(S), prog # <<>>
    PROVE  Stmts(prog) = {Head(prog)} \cup Stmts(Tail(prog))
<1>1. /\ Tail(prog) \in Seq(S) /\ Len(Tail(prog)) = Len(prog) - 1
      /\ Head(prog) = prog[1] /\ Len(prog) \in Nat \ {0}
      /\ \A i \in 1 .. Len(prog) - 1 : Tail(prog)[i] = prog[i + 1]
    BY HeadTailProperties, LenProperties, EmptySeq
<1>2. DOMAIN prog = 1 .. Len(prog) /\ DOMAIN Tail(prog) = 1 .. Len(prog) - 1
    BY <1>1, LenProperties
<1>3. ASSUME NEW i \in DOMAIN prog PROVE prog[i] \in {Head(prog)} \cup Stmts(Tail(prog))
    <2>1. CASE i = 1
        BY <1>1, <2>1
    <2>2. CASE i # 1
        <3>1. i - 1 \in 1 .. Len(prog) - 1 /\ i = (i - 1) + 1
            BY <1>1, <1>2, <2>2
        <3>2. Tail(prog)[i - 1] = prog[i]
            BY <1>1, <3>1
        <3> QED BY <1>2, <3>1, <3>2 DEF Stmts
    <2> QED BY <2>1, <2>2
<1>4. ASSUME NEW i \in DOMAIN Tail(prog) PROVE Tail(prog)[i] \in Stmts(prog)
    <2>1. Tail(prog)[i] = prog[i + 1] /\ i + 1 \in DOMAIN prog
        BY <1>1, <1>2
    <2> QED BY <2>1 DEF Stmts
<1>5. Head(prog) \in Stmts(prog)
    <2>1. 1 \in DOMAIN prog
        BY <1>1, <1>2
    <2> QED BY <1>1, <2>1 DEF Stmts
<1>6. Stmts(prog) \subseteq {Head(prog)} \cup Stmts(Tail(prog))
    BY <1>3 DEF Stmts
<1>7. Stmts(Tail(prog)) \subseteq Stmts(prog)
    BY <1>4 DEF Stmts
<1> QED BY <1>5, <1>6, <1>7

\* What a step leaves of a program.
LEMMA ProgramStep ==
    ASSUME NEW prog \in Seq(AgreeingStmt), prog # <<>>, NEW rest \in Seq(AgreeingStmt)
    PROVE  /\ Stmts(prog) = {Head(prog)} \cup Stmts(Tail(prog))
           /\ Stmts(rest \o Tail(prog)) = Stmts(rest) \cup Stmts(Tail(prog))
<1>1. Tail(prog) \in Seq(AgreeingStmt)
    BY HeadTailProperties
<1>2. Stmts(prog) = {Head(prog)} \cup Stmts(Tail(prog))
    BY StmtsOfHeadTail
<1>3. Stmts(rest \o Tail(prog)) = Stmts(rest) \cup Stmts(Tail(prog))
    BY <1>1, StmtsOfConcat
<1> QED BY <1>2, <1>3

\* What a statement leaves of itself.
LEMMA StatementsLeft ==
    ASSUME NEW s, NEW g, NEW h, NEW rest, Executes(s, g, h, rest)
    PROVE  \A t \in Stmts(rest) :
             \/ /\ s.op = "attach" /\ t.op = "attach"
                /\ t.recs \subseteq s.recs /\ t.ent = s.ent
             \/ /\ s.op = "move" /\ t.op = "attach" /\ t.ent = s.ent
                /\ t.recs \subseteq {r \in s.recs : g.owner[r] = s.from}
             \/ /\ s.op = "move" /\ t.op = "move" /\ t.ent = s.ent /\ t.from = s.from
                /\ t.recs \subseteq s.recs
             \/ s.op = "emit" /\ t.op = "emit" /\ t.events \subseteq s.events
             \/ /\ s.op \in {"retire", "absorb"} /\ t.op \in {s.op, "retire"}
                /\ t.ents \subseteq s.ents /\ t.into = s.into
             \/ /\ s.op = "absorb" /\ t.op = "emit"
                /\ \E e \in s.ents : t.events = {Ev("merged_with", e, s.into)}
             \/ s.op = "link" /\ t.op = "link" /\ t.edges \subseteq s.edges
             \/ /\ s.op = "carry" /\ t.op = "carry"
                /\ t.ents \subseteq s.ents /\ t.ent = s.ent /\ t.run = s.run
             \/ /\ s.op = "carry" /\ t.op = "link"
                /\ \A x \in t.edges : x.ent = s.ent
<1> USE StmtsOfTuples
<1> DEFINE Left(t) ==
             \/ /\ s.op = "attach" /\ t.op = "attach"
                /\ t.recs \subseteq s.recs /\ t.ent = s.ent
             \/ /\ s.op = "move" /\ t.op = "attach" /\ t.ent = s.ent
                /\ t.recs \subseteq {r \in s.recs : g.owner[r] = s.from}
             \/ /\ s.op = "move" /\ t.op = "move" /\ t.ent = s.ent /\ t.from = s.from
                /\ t.recs \subseteq s.recs
             \/ s.op = "emit" /\ t.op = "emit" /\ t.events \subseteq s.events
             \/ /\ s.op \in {"retire", "absorb"} /\ t.op \in {s.op, "retire"}
                /\ t.ents \subseteq s.ents /\ t.into = s.into
             \/ /\ s.op = "absorb" /\ t.op = "emit"
                /\ \E e \in s.ents : t.events = {Ev("merged_with", e, s.into)}
             \/ s.op = "link" /\ t.op = "link" /\ t.edges \subseteq s.edges
             \/ /\ s.op = "carry" /\ t.op = "carry"
                /\ t.ents \subseteq s.ents /\ t.ent = s.ent /\ t.run = s.run
             \/ /\ s.op = "carry" /\ t.op = "link"
                /\ \A x \in t.edges : x.ent = s.ent
<1>1. CASE rest = <<>>
    BY <1>1
<1>2. ASSUME NEW r \in s.recs, s.op = "attach", rest = <<Attach(s.recs \ {r}, s.ent)>>
      PROVE  \A t \in Stmts(rest) : Left(t)
    <2>1. Stmts(rest) = {Attach(s.recs \ {r}, s.ent)}
        BY <1>2
    <2> QED BY <1>2, <2>1 DEF Attach
<1>3. ASSUME NEW r \in s.recs, s.op = "move",
             rest = <<Attach(IF g.owner[r] = s.from THEN {r} ELSE {}, s.ent),
                      Move(s.recs \ {r}, s.from, s.ent)>>
      PROVE  \A t \in Stmts(rest) : Left(t)
    <2> DEFINE still == IF g.owner[r] = s.from THEN {r} ELSE {}
    <2>1. Stmts(rest) = {Attach(still, s.ent), Move(s.recs \ {r}, s.from, s.ent)}
        BY <1>3
    <2>2. still \subseteq {q \in s.recs : g.owner[q] = s.from}
        BY <1>3
    <2> HIDE DEF still
    <2> QED BY <1>3, <2>1, <2>2 DEF Attach, Move
<1>4. ASSUME NEW v \in s.events, s.op = "emit", rest = <<Emit(s.events \ {v})>>
      PROVE  \A t \in Stmts(rest) : Left(t)
    <2>1. Stmts(rest) = {Emit(s.events \ {v})}
        BY <1>4
    <2> QED BY <1>4, <2>1 DEF Emit
<1>5. ASSUME NEW e \in s.ents, s.op = "retire", rest = <<Retire(s.ents \ {e}, s.into)>>
      PROVE  \A t \in Stmts(rest) : Left(t)
    <2>1. Stmts(rest) = {Retire(s.ents \ {e}, s.into)}
        BY <1>5
    <2> QED BY <1>5, <2>1 DEF Retire
<1>6. ASSUME NEW e \in s.ents, s.op = "absorb",
             rest = <<Retire({e}, s.into), Emit({Ev("merged_with", e, s.into)}),
                      Absorb(s.ents \ {e}, s.into)>>
      PROVE  \A t \in Stmts(rest) : Left(t)
    <2> DEFINE a == Retire({e}, s.into)
               b == Emit({Ev("merged_with", e, s.into)})
               c == Absorb(s.ents \ {e}, s.into)
    <2>1. Left(a)
        BY <1>6 DEF Retire
    <2>2. Left(b)
        BY <1>6 DEF Emit
    <2>3. Left(c)
        BY <1>6 DEF Absorb
    <2>4. rest = <<a, b, c>>
        BY <1>6
    <2> HIDE DEF a, b, c, Left
    <2>5. Stmts(rest) = {a, b, c}
        BY <2>4
    <2> QED BY <2>1, <2>2, <2>3, <2>5
<1>7. ASSUME NEW x \in s.edges, s.op = "link", rest = <<Link(s.edges \ {x})>>
      PROVE  \A t \in Stmts(rest) : Left(t)
    <2>1. Stmts(rest) = {Link(s.edges \ {x})}
        BY <1>7
    <2> QED BY <1>7, <2>1 DEF Link
<1>8. ASSUME NEW e \in s.ents, NEW pairs, s.op = "carry",
             rest = <<Link(EdgesFor("conflicts_with", s.ent, pairs, s.run)),
                      Carry(s.ents \ {e}, s.ent, s.run)>>
      PROVE  \A t \in Stmts(rest) : Left(t)
    <2> DEFINE edges == EdgesFor("conflicts_with", s.ent, pairs, s.run)
    <2>1. Stmts(rest) = {Link(edges), Carry(s.ents \ {e}, s.ent, s.run)}
        BY <1>8
    <2>2. \A x \in edges : x.ent = s.ent
        BY DEF EdgesFor
    <2> HIDE DEF edges
    <2> QED BY <1>8, <2>1, <2>2 DEF Link, Carry
<1> HIDE DEF Left
<1>9. \A t \in Stmts(rest) : Left(t)
    BY <1>1, <1>2, <1>3, <1>4, <1>5, <1>6, <1>7, <1>8 DEF Executes
<1> QED BY <1>9 DEF Left

\* What a statement makes of the graph, whatever it leaves to write.
LEMMA ExecutesShape ==
    ASSUME NEW s, NEW g, NEW h, NEW rest, Executes(s, g, h, rest)
    PROVE  \/ h = g
           \/ s.op = "node" /\ h = UpsertIdentity(g, s.ent, s.status, s.into)
           \/ s.op = "attach" /\ \E r \in s.recs : h = UpsertRecord(g, r, s.ent)
           \/ s.op = "emit" /\ \E v \in s.events : h = EmitEvents(g, {v})
           \/ s.op = "retire" /\ \E e \in s.ents : h = RetireIdentity(g, e, s.into)
           \/ s.op = "link" /\ \E x \in s.edges : h = AddEdges(g, {x})
           \/ s.op = "verdict" /\ h = AddVerdict(g, s.pair, s.res)
BY DEF Executes

\* What a statement makes of owners.
Gives(s, g, h, rest, r) ==
    /\ h.owner = [g.owner EXCEPT ![r] = s.ent]
    /\ rest = IF s.recs = {r} THEN <<>> ELSE <<Attach(s.recs \ {r}, s.ent)>>
OwnersGo(s, g, h, rest) ==
    \/ h.owner = g.owner /\ (s.op = "attach" => s.recs = {})
    \/ s.op = "attach" /\ \E r \in s.recs : Gives(s, g, h, rest, r)

LEMMA ExecutesOwner ==
    ASSUME NEW g \in Graph, NEW s, NEW h, NEW rest, Executes(s, g, h, rest)
    PROVE  OwnersGo(s, g, h, rest)
<1> USE DEF OwnersGo, Gives
<1>1. CASE s.op = "attach"
    <2>1. \/ Vacuous(s) /\ h = g
          \/ \E r \in s.recs :
                /\ h = UpsertRecord(g, r, s.ent)
                /\ rest = IF s.recs = {r} THEN <<>> ELSE <<Attach(s.recs \ {r}, s.ent)>>
        BY <1>1 DEF Executes
    <2>2. Vacuous(s) => s.recs = {}
        BY <1>1 DEF Vacuous
    <2>3. \A r : UpsertRecord(g, r, s.ent).owner = [g.owner EXCEPT ![r] = s.ent]
        BY DEF UpsertRecord, Graph
    <2> QED BY <1>1, <2>1, <2>2, <2>3
<1>2. CASE s.op # "attach"
    <2>1. CASE \E v \in s.events : h = EmitEvents(g, {v})
        BY <1>2, <2>1 DEF EmitEvents, Graph
    <2>2. CASE h = UpsertIdentity(g, s.ent, s.status, s.into)
        BY <1>2, <2>2 DEF UpsertIdentity, Graph
    <2>3. CASE \E e \in s.ents : h = RetireIdentity(g, e, s.into)
        BY <1>2, <2>3 DEF RetireIdentity, Graph
    <2>4. CASE \E x \in s.edges : h = AddEdges(g, {x})
        BY <1>2, <2>4 DEF AddEdges, Graph
    <2>5. CASE h = AddVerdict(g, s.pair, s.res)
        BY <1>2, <2>5 DEF AddVerdict, Graph
    <2> QED BY <1>2, <2>1, <2>2, <2>3, <2>4, <2>5, ExecutesShape
<1> QED BY <1>1, <1>2

\* What is left to write when a call goes on, and when it has written.
LEMMA ContinueStmts ==
    ASSUME IInv, NEW p \in Client, NEW next, NEW prog, NEW l, Continue(p, next, prog, l)
    PROVE  /\ pc'[p] = next /\ todo'[p] = prog /\ local'[p] = l
           /\ \A q \in Client \ {p} :
                  pc'[q] = pc[q] /\ todo'[q] = todo[q] /\ local'[q] = local[q]
BY DEF Continue, IInv, CallInv

LEMMA ThenStmts ==
    ASSUME IInv, NEW p \in Client, todo[p] # <<>>, NEW rest \in Seq(AgreeingStmt), Then(p, rest)
    PROVE  /\ Stmts(todo[p]) = {Statement(p)} \cup Stmts(Tail(todo[p]))
           /\ Stmts(todo'[p]) = Stmts(rest) \cup Stmts(Tail(todo[p]))
           /\ \A q \in Client \ {p} : todo'[q] = todo[q]
           /\ pc' = pc /\ local' = local
<1>1. todo[p] \in Seq(AgreeingStmt) /\ Tail(todo[p]) \in Seq(AgreeingStmt)
    BY HeadTailProperties DEF IInv, CallInv
<1>2. todo'[p] = rest \o Tail(todo[p]) /\ \A q \in Client \ {p} : todo'[q] = todo[q]
    BY DEF Then, IInv, CallInv
<1>3. /\ Stmts(todo[p]) = {Statement(p)} \cup Stmts(Tail(todo[p]))
      /\ Stmts(rest \o Tail(todo[p])) = Stmts(rest) \cup Stmts(Tail(todo[p]))
    BY <1>1, ProgramStep DEF Statement
<1> QED BY <1>2, <1>3 DEF Then

----------------------------------------------------------------------------
(* The control of calls. *)

\* Statements of the merge branch alone.
Branch == {"absorb", "carry"}
Plain(prog) == \A s \in Stmts(prog) : s.op \notin Branch

\* A transaction is open only inside bulk_writes, and a call that does not
\* stand there has nothing of the merge branch left to write.
ControlInv ==
    /\ writer # NoClient => pc[writer] = "loop"
    /\ \A p \in Client : pc[p] # "loop" => Plain(todo[p])
    /\ \A p \in Client : pc[p] = "idle" => todo[p] = <<>>

LEMMA PlainPrograms ==
    /\ Plain(<<>>)
    /\ \A rs, e, in, f, x, y : Plain(<<Attach(rs, e), Retire(f, in), Emit(x), Emit(y)>>)
    /\ \A rs, e, x, y : Plain(<<Attach(rs, e), Emit(x), Emit(y)>>)
    /\ \A x : Plain(<<Emit(x)>>)
    /\ \A q, res : Plain(<<RecordVerdict(q, res)>>)
    /\ \A e, rs : Plain(SplitProgram(e, rs))
BY StmtsOfTuples DEF Plain, Branch, Attach, Retire, Emit, RecordVerdict, SplitProgram, Node, Move

LEMMA AppendedSplit ==
    ASSUME NEW e, NEW rs, NEW s
    PROVE  Stmts(Append(SplitProgram(e, rs), s)) = Stmts(SplitProgram(e, rs)) \cup {s}
<1> DEFINE a == Node(NextEntity, "active", NoEntity)
           b == Move(rs, e, NextEntity)
           c == Emit({Ev("manual_split", e, NoEntity)})
           d == Emit({Ev("manual_split", NextEntity, NoEntity)})
           S == {a, b, c, d, s}
<1>1. SplitProgram(e, rs) = <<a, b, c, d>>
    BY DEF SplitProgram
<1> HIDE DEF a, b, c, d
<1>2. SplitProgram(e, rs) \in Seq(S) /\ s \in S
    BY <1>1
<1> HIDE DEF S
<1> QED BY <1>2, StmtsOfAppend

\* A call goes on, and its client writes in no transaction outside the loop.
LEMMA ControlGoesOn ==
    ASSUME IInv, ControlInv, NEW p \in Client, NEW next, NEW prog, NEW l,
           Continue(p, next, prog, l),
           writer' = writer \/ writer' = NoClient,
           writer' = p => next = "loop",
           next # "loop" => Plain(prog),
           next = "idle" => prog = <<>>
    PROVE  ControlInv'
<1>1. /\ pc'[p] = next /\ todo'[p] = prog
      /\ \A q \in Client \ {p} : pc'[q] = pc[q] /\ todo'[q] = todo[q]
    BY ContinueStmts
<1>2. writer' # NoClient => pc'[writer'] = "loop"
    BY <1>1 DEF ControlInv, IInv, StoreInv
<1>3. ASSUME NEW q \in Client
      PROVE  (pc'[q] # "loop" => Plain(todo'[q])) /\ (pc'[q] = "idle" => todo'[q] = <<>>)
    BY <1>1 DEF ControlInv
<1> QED BY <1>2, <1>3 DEF ControlInv, Plain

\* What a call that is not in the loop may do to the store.
LEMMA ControlReads ==
    ASSUME IInv, ControlInv, NEW p \in Client, pc[p] # "loop", NEW next, NEW prog, NEW l,
           Continue(p, next, prog, l), UNCHANGED storeVars,
           Plain(prog), next # "idle"
    PROVE  ControlInv'
<1>1. writer # p
    BY ClientAssumption DEF ControlInv
<1> QED BY <1>1, ControlGoesOn DEF storeVars

LEMMA FlushCloses ==
    ASSUME NEW p, NEW rows, Flush(p, rows)
    PROVE  writer' = NoClient
BY DEF Flush, Commit

LEMMA ResolveControl ==
    ASSUME IInv, ControlInv, NEW p \in Client,
           \/ ResolveSkip(p) \/ ResolveAccumulate(p) \/ ResolveCreate(p)
           \/ ResolveAbsorb(p) \/ ResolveMerge(p)
    PROVE  ControlInv'
<1>1. ASSUME NEW prog, Resolve(p, prog), UNCHANGED storeVars PROVE ControlInv'
    BY <1>1, ControlGoesOn DEF Resolve, storeVars
<1>2. ASSUME ResolveAccumulate(p) PROVE ControlInv'
    <2>1. PICK l : Continue(p, "loop", <<>>, l)
        BY <1>2 DEF ResolveAccumulate
    <2>2. writer' = writer \/ writer' = NoClient
        BY <1>2, FlushCloses DEF ResolveAccumulate, storeVars
    <2> QED BY <2>1, <2>2, ControlGoesOn
<1> QED BY <1>1, <1>2 DEF ResolveSkip, ResolveCreate, ResolveAbsorb, ResolveMerge

LEMMA BatchEndControl ==
    ASSUME IInv, ControlInv, NEW p \in Client,
           \/ ResolveLookup(p) \/ ResolveNodes(p) \/ ResolveFinish(p)
           \/ DetMergeRead(p) \/ DetMergeWrite(p)
    PROVE  ControlInv'
<1> USE PlainPrograms
<1>1. ASSUME ResolveLookup(p) PROVE ControlInv'
    BY <1>1, ControlReads DEF ResolveLookup, At
<1>2. ASSUME ResolveNodes(p) PROVE ControlInv'
    BY <1>2, ControlReads DEF ResolveNodes, At
<1>3. ASSUME ResolveFinish(p) PROVE ControlInv'
    <2>1. PICK next, l : next \in {"detread", "return"} /\ Continue(p, next, <<>>, l)
        BY <1>3 DEF ResolveFinish
    <2>2. writer' = NoClient \/ (writer' = writer /\ writer # p)
        BY <1>3, FlushCloses DEF ResolveFinish, storeVars
    <2>3. writer' # p
        BY <2>2, ClientAssumption
    <2> QED BY <2>1, <2>2, <2>3, ControlGoesOn
<1>4. ASSUME DetMergeRead(p) PROVE ControlInv'
    <2>1. PICK next, l : next \in {"return", "detwrite"} /\ Continue(p, next, <<>>, l)
        BY <1>4 DEF DetMergeRead
    <2> QED BY <1>4, <2>1, ControlReads DEF DetMergeRead, At
<1>5. ASSUME DetMergeWrite(p) PROVE ControlInv'
    <2>1. Continue(p, "return", <<>>, local[p]) /\ writer' = NoClient
        BY <1>5 DEF DetMergeWrite, At, Exec, InBulk, Commit
    <2> QED BY <2>1, ClientAssumption, ControlGoesOn
<1> QED BY <1>1, <1>2, <1>3, <1>4, <1>5

\* mediate_conflict looks for the entity of b, or goes on with what it found.
LEMMA MediateFinds ==
    ASSUME NEW p, MediateFind(p) \/ MediateFindOther(p)
    PROVE  /\ todo[p] = <<>> /\ UNCHANGED <<storeVars, boundVars>>
           /\ \/ Continue(p, "findb", <<>>, local[p])
              \/ \E e : Continue(p, "act",
                              <<RecordVerdict({local[p].a, local[p].b}, local[p].res)>>,
                              [local[p] EXCEPT !.ent = e])
BY DEF MediateFind, MediateFindOther, Rule, At

LEMMA StewardControl ==
    ASSUME IInv, ControlInv, NEW p \in Client,
           \/ MergeCheck(p) \/ MergeCheckOther(p) \/ MergeRecords(p) \/ SplitCheck(p)
           \/ ClaimTarget(p) \/ ClaimRecord(p)
           \/ MediateFind(p) \/ MediateFindOther(p) \/ MediateAct(p)
    PROVE  ControlInv'
<1> USE PlainPrograms, ControlReads
<1>1. pc[p] # "loop" /\ UNCHANGED storeVars
    BY DEF MergeCheck, MergeCheckOther, MergeRecords, SplitCheck, ClaimTarget, ClaimRecord,
           MediateFind, MediateFindOther, MediateAct, At
<1>2. ASSUME GiveUp(p) PROVE ControlInv'
    BY <1>1, <1>2 DEF GiveUp
<1>3. ASSUME MergeCheck(p) \/ MergeCheckOther(p) \/ MergeRecords(p) PROVE ControlInv'
    BY <1>1, <1>2, <1>3 DEF MergeCheck, MergeCheckOther, MergeRecords
<1>4. ASSUME SplitCheck(p) PROVE ControlInv'
    BY <1>1, <1>2, <1>4 DEF SplitCheck
<1>5. ASSUME ClaimTarget(p) \/ ClaimRecord(p) PROVE ControlInv'
    BY <1>1, <1>2, <1>5 DEF ClaimTarget, ClaimRecord
<1>6. ASSUME MediateFind(p) \/ MediateFindOther(p) PROVE ControlInv'
    BY <1>1, <1>6, MediateFinds
<1>7. ASSUME MediateAct(p) PROVE ControlInv'
    <2> DEFINE said == IF local[p].ent = NoEntity THEN {}
                       ELSE {Ev("conflict_mediated", local[p].ent, NoEntity)}
               prog == Append(SplitProgram(local[p].ent, {local[p].b}), Emit(said))
    <2>1. CASE Continue(p, "return", <<Emit(said)>>, local[p])
        BY <1>1, <2>1
    <2>2. CASE Continue(p, "return", prog, local[p])
        <3>1. Plain(prog)
            <4> DEFINE split == SplitProgram(local[p].ent, {local[p].b})
            <4>1. Plain(split)
                OBVIOUS
            <4>2. Stmts(prog) = Stmts(split) \cup {Emit(said)}
                BY AppendedSplit
            <4> HIDE DEF split, prog, said
            <4> QED BY <4>1, <4>2 DEF Plain, Emit, Branch
        <3> QED BY <1>1, <2>2, <3>1
    <2> QED BY <1>7, <2>1, <2>2 DEF MediateAct
<1> QED BY <1>3, <1>4, <1>5, <1>6, <1>7

LEMMA StabilizeControl ==
    ASSUME IInv, ControlInv, NEW p \in Client,
           \/ StabilizeScan(p) \/ StabilizeGroup(p) \/ StabilizeLoser(p) \/ StabilizeNext(p)
    PROVE  ControlInv'
<1> USE PlainPrograms, ControlReads
<1>1. pc[p] # "loop" /\ UNCHANGED storeVars
    BY DEF StabilizeScan, StabilizeGroup, StabilizeLoser, StabilizeNext, At
<1>2. ASSUME StabilizeScan(p) PROVE ControlInv'
    BY <1>1, <1>2 DEF StabilizeScan
<1>3. ASSUME StabilizeGroup(p) PROVE ControlInv'
    <2>1. PICK next \in {"loser", "group"} : \E l : Continue(p, next, <<>>, l)
        BY <1>3 DEF StabilizeGroup
    <2>2. PICK l : Continue(p, next, <<>>, l)
        BY <2>1
    <2> QED BY <1>1, <2>1, <2>2
<1>4. ASSUME StabilizeLoser(p) PROVE ControlInv'
    <2>1. PICK prog, l : Continue(p, "loser", prog, l) /\ Plain(prog)
        BY <1>4 DEF StabilizeLoser
    <2> QED BY <1>1, <2>1
<1>5. ASSUME StabilizeNext(p) PROVE ControlInv'
    BY <1>1, <1>5 DEF StabilizeNext
<1> QED BY <1>2, <1>3, <1>4, <1>5

\* Only a statement of the branch becomes one.
LEMMA ExecutesPlain ==
    ASSUME NEW s, NEW g, NEW h, NEW rest, Executes(s, g, h, rest), s.op \notin Branch
    PROVE  Plain(rest)
<1>1. \A t \in Stmts(rest) : t.op \in {s.op, "attach"}
    BY StatementsLeft DEF Branch
<1> QED BY <1>1 DEF Plain, Branch

LEMMA WriteControl ==
    ASSUME IInv, ControlInv, NEW p \in Client, Write(p)
    PROVE  ControlInv'
<1>1. PICK rest \in Seq(AgreeingStmt), h \in AgreeingGraph :
        Executes(Statement(p), View(p), h, rest) /\ Writes(p, h) /\ Then(p, rest)
    BY WriteExecutes
<1>2. todo[p] # <<>>
    BY WriteExecutes
<1>3. /\ Stmts(todo[p]) = {Statement(p)} \cup Stmts(Tail(todo[p]))
      /\ Stmts(todo'[p]) = Stmts(rest) \cup Stmts(Tail(todo[p]))
      /\ \A q \in Client \ {p} : todo'[q] = todo[q]
      /\ pc' = pc
    BY <1>1, <1>2, ThenStmts
<1>4. pc[p] # "loop" => Statement(p).op \notin Branch
    BY <1>3 DEF ControlInv, Plain
<1>5. writer' = writer \/ writer' = NoClient \/ (writer' = p /\ pc[p] = "loop")
    BY <1>1, <1>4 DEF Writes, Exec, Commit, InBulk, storeVars, Branch
<1>6. pc[p] # "loop" => Plain(todo'[p])
    BY <1>1, <1>3, <1>4, ExecutesPlain DEF ControlInv, Plain
<1>7. pc[p] # "idle"
    BY <1>2 DEF ControlInv
<1> QED BY <1>3, <1>5, <1>6, <1>7 DEF ControlInv

LEMMA NextControl ==
    ASSUME IInv, ControlInv, [Next]_vars
    PROVE  ControlInv'
<1>1. ASSUME NEW p \in Client, Invoke(p) PROVE ControlInv'
    <2>0. PICK first \in {"lookup", "check", "split", "target", "find", "scan"} :
            \E l : Begin(p, first, l)
        BY <1>1, InvokeFresh
    <2>1. PICK l : Begin(p, first, l)
        BY <2>0
    <2>2. Continue(p, first, <<>>, l) /\ pc[p] # "loop" /\ UNCHANGED storeVars
        BY <2>1 DEF Begin, At
    <2> QED BY <2>2, ControlReads, PlainPrograms
<1>2. ASSUME NEW p \in Client, Read(p) PROVE ControlInv'
    BY <1>2, ResolveControl, BatchEndControl, StewardControl, StabilizeControl DEF Read
<1>5. ASSUME NEW p \in Client, DetMergeFails(p) PROVE ControlInv'
    <2>1. Continue(p, "return", <<>>, local[p]) /\ UNCHANGED storeVars /\ pc[p] # "loop"
        BY <1>5 DEF DetMergeFails, At
    <2> QED BY <2>1, PlainPrograms, ControlReads
<1>3. ASSUME NEW p \in Client, Return(p) \/ Fail(p) PROVE ControlInv'
    <2>1. Continue(p, "idle", <<>>, Idle)
        BY <1>3 DEF Return, Fail
    <2>2. writer' = NoClient \/ (writer' = writer /\ writer # p)
        BY <1>3, ClientAssumption DEF Return, Fail, Commit, storeVars, ControlInv, At
    <2>3. writer' # p
        BY <2>2, ClientAssumption
    <2> QED BY <2>1, <2>2, <2>3, PlainPrograms, ControlGoesOn
<1>4. CASE UNCHANGED vars
    BY <1>4 DEF vars, ControlInv
<1> QED BY <1>1, <1>2, <1>3, <1>4, <1>5, WriteControl DEF Next, Step, Done

\* The invariants of the store, of references and of control together.
BaseInv == IInv /\ RefInv /\ ControlInv

LEMMA InitBase ==
    ASSUME Init
    PROVE  BaseInv
<1>1. ControlInv
    BY ClientAssumption, PlainPrograms DEF Init, ControlInv
<1> QED BY <1>1, InitGood, InitRefs DEF BaseInv

LEMMA NextBase ==
    ASSUME BaseInv, [Next]_vars
    PROVE  BaseInv'
BY NextGood, NextRefs, NextControl DEF BaseInv

LEMMA BaseInvariance == Spec => []BaseInv
BY InitBase, NextBase, PTL DEF Spec

----------------------------------------------------------------------------
(* The uncommitted graph evolves like a serial one: who can write sees it. *)

LEMMA WriterSees ==
    ASSUME BaseInv, NEW p \in Client, CanWrite(p)
    PROVE  View(p) = work
BY ClientAssumption DEF BaseInv, RefInv, StoreRefs, CanWrite, View

LEMMA ExecWork ==
    ASSUME BaseInv, NEW p \in Client, NEW g, Exec(p, g)
    PROVE  View(p) = work /\ work' = g /\ durable' \in {durable, g}
BY WriterSees DEF Exec, Commit

LEMMA CommitWork ==
    ASSUME BaseInv, NEW p \in Client, NEW g, CanWrite(p), Commit(g)
    PROVE  View(p) = work /\ work' = g /\ durable' = g
BY WriterSees DEF Commit

\* Whatever p reads has a row in the uncommitted graph too.
LEMMA ViewInWork ==
    ASSUME BaseInv, NEW p
    PROVE  Rows(View(p)) \subseteq Rows(work)
BY DEF BaseInv, RefInv, StoreRefs, View

----------------------------------------------------------------------------
(* One client alone reads and writes one graph. *)

\* Where a batch is between its first read and its return.
BatchPC == {"lookup", "nodes", "loop", "detread", "detwrite"}

OneClient == \A p, q \in Client : p = q

LEMMA AloneSees ==
    ASSUME BaseInv, OneClient, NEW p \in Client
    PROVE  /\ CanWrite(p) /\ View(p) = work
           /\ pc[p] # "loop" => writer = NoClient /\ View(p) = durable
<1>1. CanWrite(p)
    BY DEF OneClient, CanWrite, BaseInv, IInv, StoreInv
<1>2. View(p) = work
    BY <1>1, WriterSees
<1>3. pc[p] # "loop" => writer = NoClient
    BY DEF OneClient, BaseInv, IInv, StoreInv, ControlInv
<1> QED BY <1>1, <1>2, <1>3, ClientAssumption DEF View

LEMMA AloneWrites ==
    ASSUME BaseInv, OneClient, NEW p \in Client, Write(p)
    PROVE  /\ todo[p] \in Seq(AgreeingStmt) /\ todo[p] # <<>>
           /\ work \in AgreeingGraph
           /\ \E rest \in Seq(AgreeingStmt), h \in AgreeingGraph :
                  /\ Executes(Statement(p), work, h, rest)
                  /\ work' = h /\ durable' \in {durable, work, h}
                  /\ Then(p, rest)
<1>1. PICK rest \in Seq(AgreeingStmt), h \in AgreeingGraph :
        Executes(Statement(p), View(p), h, rest) /\ Writes(p, h) /\ Then(p, rest)
    BY WriteExecutes DEF BaseInv
<1>2. View(p) = work
    BY AloneSees
<1>3. work' = h /\ durable' \in {durable, work, h}
    BY <1>1, <1>2 DEF Writes, Exec, Commit, storeVars
<1>4. todo[p] # <<>> /\ todo[p] \in Seq(AgreeingStmt) /\ work \in AgreeingGraph
    BY WriteExecutes DEF BaseInv, IInv, CallInv, StoreInv
<1> QED BY <1>1, <1>2, <1>3, <1>4

\* A step of a lone client that is not a write.
LEMMA AloneReads ==
    ASSUME BaseInv, OneClient, NEW p \in Client, NEW q \in Client, NEW next, NEW prog, NEW l,
           Continue(p, next, prog, l)
    PROVE  q = p /\ pc'[q] = next /\ todo'[q] = prog /\ local'[q] = l
BY ContinueStmts DEF OneClient, BaseInv

----------------------------------------------------------------------------
(* The log.  As long as no call fails, the events that are logged or that a *)
(* call has yet to write tell of every entity there is, and of every merge *)
(* that a graph, a statement or a snapshot holds, however old.             *)

Announces(prog, v) == \E s \in Stmts(prog) : s.op = "emit" /\ v \in s.events

Told == {v \in Event : v \in work.log \/ \E p \in Client : Announces(todo[p], v)}

Born(e, T) == \E v \in T : v.ent = e /\ v.kind \in {"created", "manual_split"}
Said(e, k, T) == \E v \in T : v.ent = e /\ v.into = k

Explained(g, T) ==
    \A e \in Entity : /\ Exists(g, e) => Born(e, T)
                      /\ g.status[e] = "merged_into" => Said(e, g.into[e], T)

\* A statement that makes nothing the events of T do not tell of.
Backed(s, T) ==
    /\ s.op = "node" => /\ Born(s.ent, T)
                        /\ s.status = "merged_into" => Said(s.ent, s.into, T)
    /\ s.op = "retire" => \A e \in s.ents : Said(e, s.into, T)

Recalled(snap, T) ==
    \A e \in Entity : snap[e].status = "merged_into" => Said(e, snap[e].into, T)

LogInv ==
    /\ Explained(work, Told) /\ Explained(durable, Told)
    /\ \A p \in Client :
          /\ \A s \in Stmts(todo[p]) : Backed(s, Told)
          /\ Recalled(local[p].snap, Told)
          /\ pc[p] \notin {"detread", "detwrite"}

LEMMA TellingGrows ==
    ASSUME NEW T, NEW U, T \subseteq U
    PROVE  /\ \A g : Explained(g, T) => Explained(g, U)
           /\ \A s : Backed(s, T) => Backed(s, U)
           /\ \A snap : Recalled(snap, T) => Recalled(snap, U)
BY DEF Explained, Backed, Recalled, Born, Said

LEMMA ExecutesLog ==
    ASSUME NEW g \in Graph, NEW s, NEW h, NEW rest, Executes(s, g, h, rest)
    PROVE  /\ g.log \subseteq h.log
           /\ s.op = "emit" => \A v \in s.events : v \in h.log \/ Announces(rest, v)
<1>1. g.log \subseteq h.log
    BY DEF Executes, UpsertIdentity, UpsertRecord, EmitEvents, RetireIdentity, AddEdges,
           AddVerdict, Graph
<1>2. ASSUME s.op = "emit", NEW v \in s.events PROVE v \in h.log \/ Announces(rest, v)
    <2>1. PICK u \in s.events :
            /\ h = EmitEvents(g, {u})
            /\ rest = IF s.events = {u} THEN <<>> ELSE <<Emit(s.events \ {u})>>
        BY <1>2 DEF Executes, Vacuous
    <2>2. CASE v = u
        BY <2>1, <2>2 DEF EmitEvents, Graph
    <2>3. CASE v # u
        <3>1. Stmts(rest) = {Emit(s.events \ {u})}
            BY <2>1, <2>3, StmtsOfTuples
        <3> QED BY <2>3, <3>1 DEF Announces, Emit
    <2> QED BY <2>2, <2>3
<1> QED BY <1>1, <1>2

LEMMA ExecutesExplained ==
    ASSUME NEW g \in Graph, NEW s \in AgreeingStmt, NEW h, NEW rest, Executes(s, g, h, rest),
           NEW T, Explained(g, T), Backed(s, T)
    PROVE  Explained(h, T)
<1>1. CASE s.op = "node" /\ h = UpsertIdentity(g, s.ent, s.status, s.into)
    BY <1>1, StmtFields DEF UpsertIdentity, Graph, Explained, Backed, Exists
<1>2. ASSUME s.op = "retire", NEW e \in s.ents, h = RetireIdentity(g, e, s.into)
      PROVE  Explained(h, T)
    BY <1>2, StmtFields DEF RetireIdentity, Graph, Explained, Backed, Exists
<1>3. CASE h.status = g.status /\ h.into = g.into
    BY <1>3 DEF Explained, Exists
<1> QED BY <1>1, <1>2, <1>3 DEF Executes, UpsertRecord, EmitEvents, AddEdges, AddVerdict, Graph

LEMMA ExecutesBacked ==
    ASSUME NEW s \in AgreeingStmt, NEW g, NEW h, NEW rest, Executes(s, g, h, rest),
           NEW T, Backed(s, T), \A v : Announces(rest, v) => v \in T
    PROVE  \A t \in Stmts(rest) : Backed(t, T)
<1>1. CASE s.op # "absorb"
    BY <1>1, StatementsLeft DEF Backed
<1>2. CASE s.op = "absorb" /\ rest # <<>>
    <2>1. PICK e \in s.ents :
            rest = <<Retire({e}, s.into), Emit({Ev("merged_with", e, s.into)}),
                     Absorb(s.ents \ {e}, s.into)>>
        BY <1>2 DEF Executes
    <2> DEFINE v == Ev("merged_with", e, s.into)
               a == Retire({e}, s.into)
               b == Emit({v})
               c == Absorb(s.ents \ {e}, s.into)
    <2>2. rest = <<a, b, c>>
        BY <2>1
    <2>3. v.ent = e /\ v.into = s.into
        BY DEF Ev
    <2>4. b.op = "emit" /\ v \in b.events /\ c.op = "absorb"
        BY DEF Emit, Absorb
    <2>5. a.op = "retire" /\ a.ents = {e} /\ a.into = s.into
        BY DEF Retire
    <2> HIDE DEF a, b, c, v
    <2>6. Stmts(rest) = {a, b, c}
        BY <2>2, StmtsOfTuples
    <2>7. v \in T
        BY <2>4, <2>6 DEF Announces
    <2>8. Backed(a, T)
        BY <2>3, <2>5, <2>7 DEF Backed, Said
    <2>9. Backed(b, T) /\ Backed(c, T)
        BY <2>4 DEF Backed
    <2> QED BY <2>6, <2>8, <2>9
<1> QED BY <1>1, <1>2, StmtsOfTuples

\* What was told stays told.
LEMMA ToldContinues ==
    ASSUME BaseInv, NEW p \in Client, todo[p] = <<>>, NEW next, NEW prog, NEW l,
           Continue(p, next, prog, l), work.log \subseteq work'.log
    PROVE  Told \subseteq Told' /\ \A v \in Event : Announces(prog, v) => v \in Told'
<1>1. todo'[p] = prog /\ \A q \in Client \ {p} : todo'[q] = todo[q]
    BY ContinueStmts DEF BaseInv
<1>2. \A v : ~Announces(todo[p], v)
    BY StmtsOfTuples DEF Announces
<1>3. ASSUME NEW q \in Client, NEW v, Announces(todo[q], v)
      PROVE  Announces(todo[q], v)'
    BY <1>1, <1>2, <1>3 DEF Announces
<1> QED BY <1>1, <1>3 DEF Told, Announces

LEMMA ToldWrites ==
    ASSUME BaseInv, NEW p \in Client, todo[p] # <<>>, NEW rest \in Seq(AgreeingStmt),
           Then(p, rest), work.log \subseteq work'.log,
           Statement(p).op = "emit" =>
               \A v \in Statement(p).events : v \in work'.log \/ Announces(rest, v)
    PROVE  Told \subseteq Told' /\ \A v : Announces(rest, v) => v \in Told'
<1>1. /\ Stmts(todo[p]) = {Statement(p)} \cup Stmts(Tail(todo[p]))
      /\ Stmts(todo'[p]) = Stmts(rest) \cup Stmts(Tail(todo[p]))
      /\ \A q \in Client \ {p} : todo'[q] = todo[q]
    BY ThenStmts DEF BaseInv
<1>2. \A v : Announces(rest, v) => v \in Event
    BY StmtsType, StmtFields DEF Announces
<1>3. ASSUME NEW v \in Told PROVE v \in Told'
    <2>1. CASE v \in work.log
        BY <2>1 DEF Told
    <2>2. CASE \E q \in Client \ {p} : Announces(todo[q], v)
        BY <1>1, <2>2 DEF Told, Announces
    <2>3. CASE Announces(todo[p], v)
        BY <1>1, <2>3 DEF Told, Announces
    <2> QED BY <2>1, <2>2, <2>3 DEF Told
<1>4. \A v : Announces(rest, v) => v \in Told'
    BY <1>1, <1>2 DEF Told, Announces
<1> QED BY <1>3, <1>4

LEMMA LogWrites ==
    ASSUME BaseInv, LogInv, NEW p \in Client, Write(p)
    PROVE  LogInv'
<1> DEFINE s == Statement(p)
<1>1. PICK rest \in Seq(AgreeingStmt), h \in AgreeingGraph :
        Executes(s, View(p), h, rest) /\ Writes(p, h) /\ Then(p, rest)
    BY WriteExecutes DEF BaseInv
<1>2. todo[p] # <<>> /\ s \in AgreeingStmt /\ View(p) \in Graph
    BY WriteExecutes, ViewGood DEF BaseInv, IInv
<1>3. /\ Stmts(todo[p]) = {s} \cup Stmts(Tail(todo[p]))
      /\ Stmts(todo'[p]) = Stmts(rest) \cup Stmts(Tail(todo[p]))
      /\ \A q \in Client \ {p} : todo'[q] = todo[q]
      /\ pc' = pc /\ local' = local
    BY <1>1, <1>2, ThenStmts DEF BaseInv
<1>4. Backed(s, Told)
    BY <1>3 DEF LogInv
<1>5. \/ View(p) = work /\ work' = h /\ durable' \in {durable, h}
      \/ work' = work /\ durable' = durable /\ h = View(p)
    BY <1>1, ExecWork DEF Writes, storeVars
<1>6. work.log \subseteq work'.log
    BY <1>1, <1>2, <1>5, ExecutesLog
<1>7. s.op = "emit" => \A v \in s.events : v \in work'.log \/ Announces(rest, v)
    <2>1. CASE Exec(p, h)
        <3>1. View(p) = work /\ work' = h
            BY <2>1, ExecWork
        <3> QED BY <1>1, <1>2, <3>1, ExecutesLog
    <2>2. CASE ~Exec(p, h)
        BY <1>1, <2>2 DEF Writes, Vacuous
    <2> QED BY <2>1, <2>2
<1>8. Told \subseteq Told' /\ \A v : Announces(rest, v) => v \in Told'
    BY <1>1, <1>2, <1>6, <1>7, ToldWrites
<1>9. \A t \in Stmts(rest) : Backed(t, Told')
    <2>1. Backed(s, Told')
        BY <1>4, <1>8, TellingGrows
    <2> QED BY <1>1, <1>2, <1>8, <2>1, ExecutesBacked
<1>10. Explained(work', Told') /\ Explained(durable', Told')
    <2>1. Explained(work, Told') /\ Explained(durable, Told') /\ Backed(s, Told')
        BY <1>4, <1>8, TellingGrows DEF LogInv
    <2>2. CASE View(p) = work /\ work' = h /\ durable' \in {durable, h}
        <3>1. Explained(h, Told')
            BY <1>1, <1>2, <2>1, <2>2, ExecutesExplained
        <3> QED BY <2>1, <2>2, <3>1
    <2>3. CASE work' = work /\ durable' = durable
        BY <2>1, <2>3
    <2> QED BY <1>5, <2>2, <2>3
<1>11. ASSUME NEW q \in Client
       PROVE  /\ \A t \in Stmts(todo'[q]) : Backed(t, Told')
              /\ Recalled(local'[q].snap, Told')
              /\ pc'[q] \notin {"detread", "detwrite"}
    <2>1. /\ \A t \in Stmts(todo[q]) : Backed(t, Told')
          /\ Recalled(local[q].snap, Told')
        BY <1>8, TellingGrows DEF LogInv
    <2>2. CASE q = p
        BY <1>3, <1>9, <2>1, <2>2 DEF LogInv
    <2>3. CASE q # p
        BY <1>3, <2>1, <2>3 DEF LogInv
    <2> QED BY <2>2, <2>3
<1> QED BY <1>10, <1>11 DEF LogInv

\* A call goes on, with a program that makes nothing but what it tells of.
LEMMA LogGoesOn ==
    ASSUME BaseInv, LogInv, NEW p \in Client, todo[p] = <<>>, NEW next, NEW prog, NEW l,
           Continue(p, next, prog, l), next \notin {"detread", "detwrite"},
           work.log \subseteq work'.log,
           Explained(work', Told'), Explained(durable', Told'),
           \A s \in Stmts(prog) : Backed(s, Told'),
           Recalled(l.snap, Told')
    PROVE  LogInv'
<1>1. Told \subseteq Told'
    BY ToldContinues
<1>2. /\ pc'[p] = next /\ todo'[p] = prog /\ local'[p] = l
      /\ \A q \in Client \ {p} :
             pc'[q] = pc[q] /\ todo'[q] = todo[q] /\ local'[q] = local[q]
    BY ContinueStmts DEF BaseInv
<1>3. ASSUME NEW q \in Client
      PROVE  /\ \A t \in Stmts(todo'[q]) : Backed(t, Told')
             /\ Recalled(local'[q].snap, Told')
             /\ pc'[q] \notin {"detread", "detwrite"}
    <2>1. CASE q = p
        BY <1>2, <2>1
    <2>2. CASE q # p
        BY <1>1, <1>2, <2>2, TellingGrows DEF LogInv
    <2> QED BY <2>1, <2>2
<1> QED BY <1>3 DEF LogInv

LEMMA LogReads ==
    ASSUME BaseInv, LogInv, NEW p \in Client, todo[p] = <<>>, NEW next, NEW prog, NEW l,
           Continue(p, next, prog, l), next \notin {"detread", "detwrite"},
           UNCHANGED storeVars,
           \A s \in Stmts(prog) : Backed(s, Told'),
           Recalled(l.snap, Told)
    PROVE  LogInv'
<1>1. work' = work /\ durable' = durable
    BY DEF storeVars
<1>2. Told \subseteq Told'
    BY <1>1, ToldContinues
<1>3. Explained(work', Told') /\ Explained(durable', Told') /\ Recalled(l.snap, Told')
    BY <1>1, <1>2, TellingGrows DEF LogInv
<1> QED BY <1>1, <1>3, LogGoesOn

\* Programs that found no entity and merge none.
LEMMA BackedPrograms ==
    /\ \A T : \A s \in Stmts(<<>>) : Backed(s, T)
    /\ \A rs, e, x, y, T : \A s \in Stmts(<<Attach(rs, e), Emit(x), Emit(y)>>) : Backed(s, T)
    /\ \A x, T : \A s \in Stmts(<<Emit(x)>>) : Backed(s, T)
    /\ \A q, res, T : \A s \in Stmts(<<RecordVerdict(q, res)>>) : Backed(s, T)
BY StmtsOfTuples DEF Backed, Attach, Emit, RecordVerdict

\* A merge of gone into keep that says so.
LEMMA BackedMerge ==
    ASSUME NEW rs, NEW gone, NEW keep, NEW x, NEW kind, NEW T
    PROVE  LET prog == <<Attach(rs, keep), Retire({gone}, keep), Emit(x),
                         Emit({Ev(kind, gone, keep)})>>
           IN /\ Announces(prog, Ev(kind, gone, keep))
              /\ Ev(kind, gone, keep) \in T => \A s \in Stmts(prog) : Backed(s, T)
<1> DEFINE v == Ev(kind, gone, keep)
           a == Attach(rs, keep)
           b == Retire({gone}, keep)
           c == Emit(x)
           d == Emit({v})
<1>1. v.ent = gone /\ v.into = keep
    BY DEF Ev
<1>2. /\ a.op = "attach" /\ b.op = "retire" /\ b.ents = {gone} /\ b.into = keep
      /\ c.op = "emit" /\ d.op = "emit" /\ d.events = {v}
    BY DEF Attach, Retire, Emit
<1> HIDE DEF a, b, c, d, v
<1>3. Stmts(<<a, b, c, d>>) = {a, b, c, d}
    BY StmtsOfTuples
<1>4. Announces(<<a, b, c, d>>, v)
    BY <1>2, <1>3 DEF Announces
<1>5. v \in T => \A s \in Stmts(<<a, b, c, d>>) : Backed(s, T)
    BY <1>1, <1>2, <1>3 DEF Backed, Said
<1> QED BY <1>4, <1>5 DEF a, b, c, d, v

\* A split that says whom it founds.
LEMMA BackedSplit ==
    ASSUME NEW e, NEW rs, NEW T
    PROVE  /\ Announces(SplitProgram(e, rs), Ev("manual_split", NextEntity, NoEntity))
           /\ Ev("manual_split", NextEntity, NoEntity) \in T
                => \A s \in Stmts(SplitProgram(e, rs)) : Backed(s, T)
<1> DEFINE v == Ev("manual_split", NextEntity, NoEntity)
           a == Node(NextEntity, "active", NoEntity)
           b == Move(rs, e, NextEntity)
           c == Emit({Ev("manual_split", e, NoEntity)})
           d == Emit({v})
<1>1. v.ent = NextEntity /\ v.kind = "manual_split"
    BY DEF Ev
<1>2. /\ a.op = "node" /\ a.ent = NextEntity /\ a.status = "active" /\ b.op = "move"
      /\ c.op = "emit" /\ d.op = "emit" /\ d.events = {v}
    BY DEF Node, Move, Emit
<1>3. SplitProgram(e, rs) = <<a, b, c, d>>
    BY DEF SplitProgram
<1> HIDE DEF a, b, c, d, v
<1>4. Stmts(SplitProgram(e, rs)) = {a, b, c, d}
    BY <1>3, StmtsOfTuples
<1>5. Announces(SplitProgram(e, rs), v)
    BY <1>2, <1>4 DEF Announces
<1>6. v \in T => \A s \in Stmts(SplitProgram(e, rs)) : Backed(s, T)
    BY <1>1, <1>2, <1>4 DEF Backed, Born
<1> QED BY <1>5, <1>6 DEF v

LEMMA ResolveLog ==
    ASSUME BaseInv, LogInv, NEW p \in Client,
           ResolveSkip(p) \/ ResolveCreate(p) \/ ResolveAbsorb(p) \/ ResolveMerge(p)
    PROVE  LogInv'
<1> DEFINE c == ThisCluster(p)
           l == [local[p] EXCEPT !.left = Tail(local[p].left)]
<1>1. AtCluster(p) /\ todo[p] = <<>> /\ UNCHANGED storeVars
    BY DEF ResolveSkip, ResolveCreate, ResolveAbsorb, ResolveMerge, AtCluster, At
<1>2. l.snap = local[p].snap
    BY LocalFields DEF BaseInv, IInv, AgreeingLocal, Local
<1> HIDE DEF l
<1>3. ASSUME NEW prog, Resolve(p, prog), \A s \in Stmts(prog) : Backed(s, Told')
      PROVE  LogInv'
    <2>1. Continue(p, "loop", prog, l)
        BY <1>3 DEF Resolve, l
    <2>2. Recalled(l.snap, Told)
        BY <1>2 DEF LogInv
    <2> QED BY <1>1, <1>3, <2>1, <2>2, LogReads
<1>4. ASSUME NEW prog, Resolve(p, prog)
      PROVE  Told \subseteq Told' /\ \A v \in Event : Announces(prog, v) => v \in Told'
    <2>1. Continue(p, "loop", prog, l) /\ work.log \subseteq work'.log
        BY <1>1, <1>4 DEF Resolve, l, storeVars
    <2> QED BY <1>1, <2>1, ToldContinues
<1>5. ASSUME ResolveSkip(p) PROVE LogInv'
    BY <1>3, <1>5, BackedPrograms DEF ResolveSkip
<1>6. ASSUME ResolveCreate(p) PROVE LogInv'
    <2> DEFINE v == Ev("created", NextEntity, NoEntity)
               a == Node(NextEntity, "active", NoEntity)
               b == Emit({v})
               d == Attach(c.members, NextEntity)
               e == Link(Evidence(c, NextEntity, c.members, local[p].run))
    <2>1. Resolve(p, <<a, b, d, e>>) /\ NextEntity \in Entity
        BY <1>6, MintGood DEF ResolveCreate, BaseInv, IInv
    <2>2. v \in Event /\ v.ent = NextEntity /\ v.kind = "created"
        BY <2>1, EvType, MaxEntityAssumption DEF Ev, EventKind, EntityOrNone, NoEntity
    <2>3. /\ a.op = "node" /\ a.ent = NextEntity /\ a.status = "active"
          /\ b.op = "emit" /\ b.events = {v} /\ d.op = "attach" /\ e.op = "link"
        BY DEF Node, Emit, Attach, Link
    <2> HIDE DEF v, a, b, d, e
    <2>4. Stmts(<<a, b, d, e>>) = {a, b, d, e}
        BY StmtsOfTuples
    <2>5. v \in Told'
        BY <1>4, <2>1, <2>2, <2>3, <2>4 DEF Announces
    <2>6. \A s \in Stmts(<<a, b, d, e>>) : Backed(s, Told')
        BY <2>2, <2>3, <2>4, <2>5 DEF Backed, Born
    <2> QED BY <1>3, <2>1, <2>6
<1>7. Existing(p) \subseteq Entity /\ \A e \in Existing(p) : Born(e, Told)
    <2>1. Existing(p) \subseteq Rows(work)
        BY <1>1, ExistingRefs, ViewInWork DEF BaseInv
    <2> QED BY <2>1 DEF LogInv, Explained, Rows
<1>8. ASSUME ResolveAbsorb(p) PROVE LogInv'
    <2> DEFINE was(e) == local[p].snap[e]
               added == {r \in c.members : local[p].found[r] = NoEntity}
               a(e) == Node(e, Refreshed(was(e)), was(e).into)
               b(e) == Emit({Ev("absorbed_record", e, NoEntity) : r \in added})
               d(e) == Attach(c.members, e)
               h(e) == Link(Evidence(c, e, added, local[p].run))
    <2>1. PICK e \in Existing(p) : Resolve(p, <<a(e), b(e), d(e), h(e)>>)
        BY <1>8 DEF ResolveAbsorb
    <2>2. /\ a(e).op = "node" /\ a(e).ent = e /\ a(e).status = Refreshed(was(e))
          /\ a(e).into = was(e).into
          /\ b(e).op = "emit" /\ d(e).op = "attach" /\ h(e).op = "link"
        BY DEF Node, Emit, Attach, Link
    <2>3. Refreshed(was(e)) = "merged_into" => Said(e, was(e).into, Told)
        BY <1>7 DEF LogInv, Recalled, Refreshed
    <2> HIDE DEF was, a, b, d, h
    <2>4. Stmts(<<a(e), b(e), d(e), h(e)>>) = {a(e), b(e), d(e), h(e)}
        BY StmtsOfTuples
    <2>5. \A s \in Stmts(<<a(e), b(e), d(e), h(e)>>) : Backed(s, Told)
        BY <1>7, <2>2, <2>3, <2>4 DEF Backed
    <2> QED BY <1>3, <1>4, <2>1, <2>5, TellingGrows
<1>9. ASSUME ResolveMerge(p) PROVE LogInv'
    <2> DEFINE losers(w) == Existing(p) \ {w}
               a(w) == Node(w, "active", NoEntity)
               b(w) == Emit({Ev("merged_with", w, NoEntity)})
               d(w) == Absorb(losers(w), w)
               e(w) == Attach(c.members, w)
               f(w) == Link(Evidence(c, w, c.members, local[p].run))
               h(w) == Carry(losers(w), w, local[p].run)
    <2>1. PICK w \in MergeWinner(local[p].found, c.members) :
            Resolve(p, <<a(w), b(w), d(w), e(w), f(w), h(w)>>)
        BY <1>9 DEF ResolveMerge
    <2>2. Born(w, Told)
        BY <1>7, <2>1 DEF MergeWinner, Foremost, Existing
    <2>3. /\ a(w).op = "node" /\ a(w).ent = w /\ a(w).status = "active"
          /\ b(w).op = "emit" /\ d(w).op = "absorb" /\ e(w).op = "attach"
          /\ f(w).op = "link" /\ h(w).op = "carry"
        BY DEF Node, Emit, Absorb, Attach, Link, Carry
    <2> DEFINE prog == <<a(w), b(w), d(w), e(w), f(w), h(w)>>
    <2> HIDE DEF a, b, d, e, f, h
    <2>4. Stmts(prog) = {a(w), b(w), d(w), e(w), f(w), h(w)}
        BY StmtsOfTuples
    <2> HIDE DEF prog
    <2>5. \A s \in Stmts(prog) : Backed(s, Told)
        BY <2>2, <2>3, <2>4 DEF Backed
    <2>6. Resolve(p, prog)
        BY <2>1 DEF prog
    <2> QED BY <1>3, <1>4, <2>5, <2>6, TellingGrows
<1> QED BY <1>5, <1>6, <1>8, <1>9

\* The bulk flush logs the birth of every entity it brings.
LEMMA FlushLog ==
    ASSUME BaseInv, LogInv, NEW p \in Client, NEW rows \in SUBSET Row, Flush(p, rows)
    PROVE  /\ work.log \subseteq work'.log /\ work' = durable' /\ work'.log \subseteq Event
           /\ \A T : Told \subseteq T /\ work'.log \subseteq T => Explained(work', T)
<1> DEFINE ents == {w.ent : w \in rows}
           birth(e) == [kind |-> "created", ent |-> e, into |-> NoEntity]
           born == {birth(e) : e \in ents}
           h == BulkWrite(View(p), rows)
<1>1. work' = h /\ durable' = h /\ View(p) = work
    BY CommitWork DEF Flush
<1>2. work \in Graph
    BY DEF BaseInv, IInv, StoreInv, AgreeingGraph
<1>3. /\ h.status = [e \in Entity |-> IF e \in ents THEN "active" ELSE work.status[e]]
      /\ h.into = [e \in Entity |-> IF e \in ents THEN NoEntity ELSE work.into[e]]
      /\ h.log = work.log \cup born
    BY <1>1, <1>2 DEF BulkWrite, Graph
<1>4. ASSUME NEW e \in ents PROVE \E v \in born : v.ent = e /\ v.kind = "created"
    <2>1. birth(e) \in born /\ birth(e).ent = e /\ birth(e).kind = "created"
        OBVIOUS
    <2> QED BY <2>1
<1>5. h.log \subseteq Event
    <2>1. StoreInv'
        BY FlushGood DEF BaseInv, IInv
    <2> QED BY <1>1, <2>1 DEF StoreInv, AgreeingGraph, Graph
<1> HIDE DEF born, ents, h
<1>6. ASSUME NEW T, Told \subseteq T, h.log \subseteq T
      PROVE  Explained(h, T)
    <2>1. Explained(work, T)
        BY <1>6, TellingGrows DEF LogInv
    <2>2. \A e \in ents : Born(e, T)
        BY <1>3, <1>4, <1>6 DEF Born
    <2> QED BY <1>3, <2>1, <2>2 DEF Explained, Exists
<1> QED BY <1>1, <1>3, <1>5, <1>6

LEMMA BatchLog ==
    ASSUME BaseInv, LogInv, ~DetMerge, NEW p \in Client,
           \/ ResolveLookup(p) \/ ResolveNodes(p) \/ ResolveAccumulate(p) \/ ResolveFinish(p)
           \/ DetMergeRead(p) \/ DetMergeWrite(p)
    PROVE  LogInv'
<1>1. todo[p] = <<>> /\ \A s \in Stmts(<<>>) : Backed(s, Told')
    BY BackedPrograms DEF ResolveLookup, ResolveNodes, ResolveAccumulate, ResolveFinish,
       DetMergeRead, DetMergeWrite, AtCluster, At
<1>2. ASSUME NEW next, next \notin {"detread", "detwrite"}, NEW l, l.snap = local[p].snap,
             Continue(p, next, <<>>, l),
             UNCHANGED storeVars \/ \E rows \in SUBSET Row : Flush(p, rows)
      PROVE  LogInv'
    <2>1. Recalled(l.snap, Told)
        BY <1>2 DEF LogInv
    <2>2. CASE UNCHANGED storeVars
        BY <1>1, <1>2, <2>1, <2>2, LogReads
    <2>3. CASE \E rows \in SUBSET Row : Flush(p, rows)
        <3>1. /\ work.log \subseteq work'.log /\ work' = durable' /\ work'.log \subseteq Event
              /\ \A T : Told \subseteq T /\ work'.log \subseteq T => Explained(work', T)
            BY <2>3, FlushLog
        <3>2. Told \subseteq Told' /\ work'.log \subseteq Told'
            BY <1>1, <1>2, <3>1, ToldContinues DEF Told
        <3>3. Explained(work', Told') /\ Explained(durable', Told')
            BY <3>1, <3>2
        <3>4. Recalled(l.snap, Told')
            BY <2>1, <3>2, TellingGrows
        <3> QED BY <1>1, <1>2, <3>1, <3>3, <3>4, LogGoesOn
    <2> QED BY <1>2, <2>2, <2>3
<1>3. local[p] \in Local /\ local[p].rows \in SUBSET Row
    BY LocalFields DEF BaseInv, IInv, AgreeingLocal
<1>4. ASSUME ResolveLookup(p) PROVE LogInv'
    <2> DEFINE l(f) == [local[p] EXCEPT !.found = f]
    <2>1. PICK f : Continue(p, "nodes", <<>>, l(f))
        BY <1>4 DEF ResolveLookup
    <2>2. l(f).snap = local[p].snap
        BY <1>3 DEF Local
    <2> QED BY <1>2, <1>4, <2>1, <2>2 DEF ResolveLookup
<1>5. ASSUME ResolveNodes(p) PROVE LogInv'
    <2> DEFINE snap == [e \in Entity |->
                   IF \E r \in Record : local[p].found[r] = e
                   THEN [status |-> View(p).status[e], into |-> View(p).into[e]]
                   ELSE [status |-> "absent", into |-> NoEntity]]
               l == [local[p] EXCEPT !.snap = snap]
    <2>1. Continue(p, "loop", <<>>, l) /\ UNCHANGED storeVars
        BY <1>5 DEF ResolveNodes
    <2>2. l.snap = snap
        BY <1>3 DEF Local
    <2>3. Explained(View(p), Told)
        BY DEF LogInv, View
    <2>4. Recalled(snap, Told)
        BY <2>3 DEF Recalled, Explained
    <2> HIDE DEF l, snap
    <2> QED BY <1>1, <2>1, <2>2, <2>4, LogReads
<1>6. ASSUME ResolveAccumulate(p) PROVE LogInv'
    <2> DEFINE c == ThisCluster(p)
               born == [ent |-> NextEntity, members |-> c.members,
                        edges |-> Evidence(c, NextEntity, c.members, local[p].run)]
               rows == local[p].rows \cup {born}
               full == Cardinality(UNION {w.members : w \in rows}) >= FlushRows
               l == [local[p] EXCEPT !.left = Tail(local[p].left),
                                     !.rows = IF full THEN {} ELSE rows]
    <2>1. /\ Continue(p, "loop", <<>>, l)
          /\ UNCHANGED storeVars \/ Flush(p, rows)
          /\ AtCluster(p) /\ NextEntity \in Entity
        BY <1>6, MintGood DEF ResolveAccumulate, BaseInv, IInv
    <2>2. born \in Row
        <3>1. c.members \in SUBSET Record /\ local[p].run \in Run
            BY <2>1, ClusterType, LocalFields DEF BaseInv, IInv
        <3>2. Evidence(c, NextEntity, c.members, local[p].run) \in SUBSET Edge
            BY <2>1, <3>1, EvidenceType
        <3> QED BY <2>1, <3>1, <3>2 DEF Row
    <2> HIDE DEF born
    <2>3. rows \in SUBSET Row
        BY <1>3, <2>2
    <2>4. l.snap = local[p].snap
        BY <1>3 DEF Local
    <2> HIDE DEF l, rows
    <2> QED BY <1>2, <2>1, <2>3, <2>4
<1>7. ASSUME ResolveFinish(p) PROVE LogInv'
    <2> DEFINE l == [local[p] EXCEPT !.rows = {}]
    <2>1. /\ Continue(p, "return", <<>>, l)
          /\ UNCHANGED storeVars \/ Flush(p, local[p].rows)
        BY <1>7 DEF ResolveFinish
    <2>2. l.snap = local[p].snap
        BY <1>3 DEF Local
    <2> HIDE DEF l
    <2> QED BY <1>2, <1>3, <2>1, <2>2
<1>8. ASSUME DetMergeRead(p) \/ DetMergeWrite(p) PROVE LogInv'
    BY <1>8 DEF LogInv, DetMergeRead, DetMergeWrite, At
<1> QED BY <1>4, <1>5, <1>6, <1>7, <1>8

\* Of the calls that read in their own variables only the programs matter.
LEMMA StewardLog ==
    ASSUME BaseInv, LogInv, NEW p \in Client,
           \/ MergeCheck(p) \/ MergeCheckOther(p) \/ MergeRecords(p) \/ SplitCheck(p)
           \/ ClaimTarget(p) \/ ClaimRecord(p)
           \/ MediateFind(p) \/ MediateFindOther(p) \/ MediateAct(p)
    PROVE  LogInv'
<1>1. todo[p] = <<>> /\ UNCHANGED storeVars /\ work.log \subseteq work'.log
    BY DEF MergeCheck, MergeCheckOther, MergeRecords, SplitCheck, ClaimTarget, ClaimRecord,
           MediateFind, MediateFindOther, MediateAct, At, storeVars
<1>2. local[p] \in Local /\ Recalled(local[p].snap, Told)
    BY LocalFields DEF BaseInv, IInv, AgreeingLocal, LogInv
<1>3. ASSUME NEW next, next \notin {"detread", "detwrite"}, NEW prog, NEW l,
             l.snap = local[p].snap, Continue(p, next, prog, l),
             \A s \in Stmts(prog) : Backed(s, Told')
      PROVE  LogInv'
    BY <1>1, <1>2, <1>3, LogReads
<1>4. ASSUME NEW next, NEW prog, NEW l, Continue(p, next, prog, l)
      PROVE  \A v \in Event : Announces(prog, v) => v \in Told'
    BY <1>1, <1>4, ToldContinues
<1>5. ASSUME GiveUp(p) PROVE LogInv'
    <2> DEFINE l == [local[p] EXCEPT !.op = "none"]
    <2>1. Continue(p, "return", <<>>, l) /\ l.snap = local[p].snap
        BY <1>2, <1>5 DEF GiveUp, Local
    <2> HIDE DEF l
    <2> QED BY <1>3, <2>1, BackedPrograms
<1>6. ASSUME MergeCheck(p) \/ MergeCheckOther(p) PROVE LogInv'
    BY <1>3, <1>5, <1>6, BackedPrograms DEF MergeCheck, MergeCheckOther
<1>7. ASSUME MergeRecords(p) PROVE LogInv'
    <2> DEFINE keep == local[p].ent
               gone == local[p].other
               v == Ev("manual_merge", gone, keep)
               prog == <<Attach(RecordsOf(View(p), gone), keep), Retire({gone}, keep),
                         Emit({Ev("manual_merge", keep, NoEntity)}), Emit({v})>>
    <2>1. Continue(p, "return", prog, local[p])
        BY <1>7 DEF MergeRecords
    <2>2. v \in Event
        <3>1. keep \in Entity /\ gone \in Entity
            BY <1>7 DEF MergeRecords, At, BaseInv, IInv, CallInv, KnowsTargets
        <3> QED BY <3>1, EvType DEF EventKind, Entity, EntityOrNone
    <2>3. Announces(prog, v) /\ (v \in Told' => \A s \in Stmts(prog) : Backed(s, Told'))
        BY BackedMerge
    <2> HIDE DEF prog, v
    <2> QED BY <1>3, <1>4, <2>1, <2>2, <2>3
<1>8. ASSUME NEW e \in Entity, NEW rs, NextEntity \in Entity, NEW prog, NEW evs,
             prog = SplitProgram(e, rs) \/ prog = Append(SplitProgram(e, rs), Emit(evs)),
             Continue(p, "return", prog, local[p])
      PROVE  LogInv'
    <2> DEFINE v == Ev("manual_split", NextEntity, NoEntity)
               split == SplitProgram(e, rs)
    <2>1. v \in Event
        BY <1>8, EvType, MaxEntityAssumption DEF EventKind, EntityOrNone, NoEntity
    <2>2. Announces(split, v) /\ (v \in Told' => \A s \in Stmts(split) : Backed(s, Told'))
        BY BackedSplit
    <2>3. Stmts(split) \subseteq Stmts(prog) /\ Stmts(prog) \subseteq Stmts(split) \cup {Emit(evs)}
        <3>1. Stmts(Append(SplitProgram(e, rs), Emit(evs)))
                = Stmts(SplitProgram(e, rs)) \cup {Emit(evs)}
            BY AppendedSplit
        <3> QED BY <1>8, <3>1
    <2>4. Backed(Emit(evs), Told')
        BY DEF Emit, Backed
    <2> HIDE DEF split, v
    <2>5. v \in Told'
        BY <1>4, <1>8, <2>1, <2>2, <2>3 DEF Announces
    <2> QED BY <1>3, <1>8, <2>2, <2>3, <2>4, <2>5
<1>9. ASSUME SplitCheck(p) PROVE LogInv'
    <2>1. CASE Exists(View(p), local[p].ent)
        <3>1. /\ Continue(p, "return", SplitProgram(local[p].ent, local[p].recs), local[p])
              /\ NextEntity \in Entity /\ local[p].ent \in Entity
            BY <1>9, <2>1, MintGood, ExistsType DEF SplitCheck, BaseInv, IInv
        <3> QED BY <1>8, <3>1
    <2>2. CASE ~Exists(View(p), local[p].ent)
        BY <1>5, <1>9, <2>2 DEF SplitCheck
    <2> QED BY <2>1, <2>2
<1>10. ASSUME ClaimTarget(p) PROVE LogInv'
    BY <1>3, <1>5, <1>10, BackedPrograms DEF ClaimTarget
<1>11. ASSUME ClaimRecord(p) PROVE LogInv'
    BY <1>3, <1>5, <1>11, BackedPrograms DEF ClaimRecord
<1>12. ASSUME MediateFind(p) \/ MediateFindOther(p) PROVE LogInv'
    <2> DEFINE l(e) == [local[p] EXCEPT !.ent = e]
               prog == <<RecordVerdict({local[p].a, local[p].b}, local[p].res)>>
    <2>1. Continue(p, "findb", <<>>, local[p]) \/ \E e : Continue(p, "act", prog, l(e))
        BY <1>12, MediateFinds
    <2>2. \A e : l(e).snap = local[p].snap
        BY <1>2 DEF Local
    <2>3. \A s \in Stmts(prog) : Backed(s, Told')
        BY BackedPrograms
    <2> HIDE DEF l, prog
    <2> QED BY <1>3, <2>1, <2>2, <2>3, BackedPrograms
<1>13. ASSUME MediateAct(p) PROVE LogInv'
    <2> DEFINE e == local[p].ent
               rs == {local[p].b}
               said == IF e = NoEntity THEN {} ELSE {Ev("conflict_mediated", e, NoEntity)}
    <2> HIDE DEF said
    <2>1. CASE Continue(p, "return", <<Emit(said)>>, local[p])
        BY <1>3, <2>1, BackedPrograms
    <2>2. CASE /\ CanMint /\ Mint /\ e # NoEntity
               /\ Continue(p, "return", Append(SplitProgram(e, rs), Emit(said)), local[p])
        <3>1. NextEntity \in Entity /\ e \in Entity
            BY <2>2, MintGood, LocalFields, MaxEntityAssumption
            DEF BaseInv, IInv, Entity, EntityOrNone, NoEntity
        <3> QED BY <1>8, <2>2, <3>1
    <2> QED BY <1>13, <2>1, <2>2 DEF MediateAct, said
<1> QED BY <1>6, <1>7, <1>9, <1>10, <1>11, <1>12, <1>13

LEMMA StabilizeLog ==
    ASSUME BaseInv, LogInv, NEW p \in Client,
           \/ StabilizeScan(p) \/ StabilizeGroup(p) \/ StabilizeLoser(p) \/ StabilizeNext(p)
    PROVE  LogInv'
<1>1. todo[p] = <<>> /\ UNCHANGED storeVars /\ work.log \subseteq work'.log
    BY DEF StabilizeScan, StabilizeGroup, StabilizeLoser, StabilizeNext, At, storeVars
<1>2. local[p] \in Local /\ Recalled(local[p].snap, Told)
    BY LocalFields DEF BaseInv, IInv, AgreeingLocal, LogInv
<1>3. ASSUME NEW next, next \notin {"detread", "detwrite"}, NEW prog, NEW l,
             l.snap = local[p].snap, Continue(p, next, prog, l),
             \A s \in Stmts(prog) : Backed(s, Told')
      PROVE  LogInv'
    BY <1>1, <1>2, <1>3, LogReads
<1>4. \A s \in Stmts(<<>>) : Backed(s, Told')
    BY BackedPrograms
<1>5. ASSUME StabilizeScan(p) PROVE LogInv'
    <2> DEFINE l(links, groups) == [local[p] EXCEPT !.links = links, !.groups = groups]
    <2>1. PICK links, groups : Continue(p, "group", <<>>, l(links, groups))
        BY <1>5 DEF StabilizeScan
    <2>2. l(links, groups).snap = local[p].snap
        BY <1>2 DEF Local
    <2> HIDE DEF l
    <2> QED BY <1>3, <1>4, <2>1, <2>2
<1>6. ASSUME StabilizeGroup(p) PROVE LogInv'
    <2> DEFINE l(group) == [local[p] EXCEPT !.groups = local[p].groups \ {group}]
               m(group, w) == [l(group) EXCEPT !.ent = w, !.others = group \ {w}]
    <2>1. PICK group, w : \/ Continue(p, "loser", <<>>, m(group, w))
                          \/ Continue(p, "group", <<>>, l(group))
        BY <1>6 DEF StabilizeGroup
    <2>2. l(group).snap = local[p].snap /\ m(group, w).snap = local[p].snap
        BY <1>2 DEF Local
    <2> HIDE DEF l, m
    <2> QED BY <1>3, <1>4, <2>1, <2>2
<1>7. ASSUME StabilizeLoser(p) PROVE LogInv'
    <2> DEFINE w == local[p].ent
               v(e) == Ev("consolidated", e, w)
               prog(e) == <<Attach(RecordsOf(View(p), e), w), Retire({e}, w),
                            Emit({Ev("consolidated", w, NoEntity)}), Emit({v(e)})>>
               l(e) == [local[p] EXCEPT !.others = local[p].others \ {e}]
    <2>1. PICK e \in local[p].others :
            Continue(p, "loser", prog(e), l(e)) \/ Continue(p, "loser", <<>>, l(e))
        BY <1>7 DEF StabilizeLoser
    <2>2. l(e).snap = local[p].snap
        BY <1>2 DEF Local
    <2>3. v(e) \in Event
        <3>1. w \in Entity /\ e \in Entity
            BY <1>7, <2>1, LocalFields
            DEF StabilizeLoser, At, BaseInv, IInv, CallInv, KnowsTargets
        <3> QED BY <3>1, EvType DEF EventKind, Entity, EntityOrNone
    <2>4. Announces(prog(e), v(e)) /\ (v(e) \in Told' => \A s \in Stmts(prog(e)) : Backed(s, Told'))
        BY BackedMerge
    <2> HIDE DEF prog, v, l
    <2>5. CASE Continue(p, "loser", prog(e), l(e))
        <3>1. v(e) \in Told'
            BY <1>1, <2>3, <2>4, <2>5, ToldContinues
        <3> QED BY <1>3, <2>2, <2>4, <2>5, <3>1
    <2>6. CASE Continue(p, "loser", <<>>, l(e))
        BY <1>3, <1>4, <2>2, <2>6
    <2> QED BY <2>1, <2>5, <2>6
<1>8. ASSUME StabilizeNext(p) PROVE LogInv'
    BY <1>2, <1>3, <1>4, <1>8 DEF StabilizeNext
<1> QED BY <1>5, <1>6, <1>7, <1>8

LEMMA BlankRecalled == \A T : Recalled(Idle.snap, T)
BY DEF Recalled, Idle

\* Every call begins with a blank snapshot.
LEMMA InvokeLog ==
    ASSUME BaseInv, LogInv, NEW p \in Client, Invoke(p)
    PROVE  LogInv'
<1>0. PICK first \in {"lookup", "check", "split", "target", "find", "scan"} :
        \E l : Begin(p, first, l) /\ Fresh(l)
    BY InvokeFresh
<1>1. PICK l : Begin(p, first, l) /\ Fresh(l)
    BY <1>0
<1>2. Continue(p, first, <<>>, l) /\ todo[p] = <<>> /\ UNCHANGED storeVars
    BY <1>1 DEF Begin, At
<1>3. Recalled(l.snap, Told)
    BY <1>1, BlankRecalled DEF Fresh
<1> QED BY <1>2, <1>3, BackedPrograms, LogReads

LEMMA InitLog ==
    ASSUME Init
    PROVE  LogInv
<1> DEFINE row(i) == [ent |-> i, members |-> Seed[i].members,
                      edges |-> Evidence(Seed[i], i, Seed[i].members, SeedRun)]
           rows == {row(i) : i \in DOMAIN Seed}
           ents == {w.ent : w \in rows}
           birth(e) == [kind |-> "created", ent |-> e, into |-> NoEntity]
           born == {birth(e) : e \in ents}
           h == BulkWrite(EmptyGraph, rows)
<1>1. work = h /\ durable = h
    BY DEF Init, SeedGraph
<1>2. /\ h.status = [e \in Entity |-> IF e \in ents THEN "active" ELSE "absent"]
      /\ h.log = born
    BY DEF BulkWrite, EmptyGraph
<1>3. ASSUME NEW e \in ents PROVE \E v \in born : v.ent = e /\ v.kind = "created"
    <2>1. birth(e) \in born /\ birth(e).ent = e /\ birth(e).kind = "created"
        OBVIOUS
    <2> QED BY <2>1
<1>4. h.log \subseteq Event
    BY <1>1, InitGood DEF IInv, StoreInv, AgreeingGraph, Graph
<1> HIDE DEF h, ents, born
<1>5. born \subseteq Told
    BY <1>1, <1>2, <1>4 DEF Told
<1>6. Explained(h, Told)
    BY <1>2, <1>3, <1>5 DEF Explained, Exists, Born
<1>7. ASSUME NEW p \in Client
      PROVE  /\ \A s \in Stmts(todo[p]) : Backed(s, Told)
             /\ Recalled(local[p].snap, Told)
             /\ pc[p] \notin {"detread", "detwrite"}
    BY BackedPrograms, BlankRecalled DEF Init
<1> QED BY <1>1, <1>6, <1>7 DEF LogInv

LEMMA NextLog ==
    ASSUME BaseInv, LogInv, MaxFails = 0, ~DetMerge, [Next]_vars
    PROVE  LogInv'
<1>1. ASSUME NEW p \in Client, Read(p) PROVE LogInv'
    BY <1>1, ResolveLog, BatchLog, StewardLog, StabilizeLog DEF Read
<1>2. ASSUME NEW p \in Client, Return(p) PROVE LogInv'
    <2>1. Continue(p, "idle", <<>>, Idle) /\ todo[p] = <<>> /\ UNCHANGED storeVars
        BY <1>2 DEF Return, At
    <2> QED BY <2>1, BackedPrograms, BlankRecalled, LogReads
<1>3. ASSUME NEW p \in Client, DetMergeFails(p) \/ Fail(p) PROVE FALSE
    BY <1>3 DEF DetMergeFails, Fail, BaseInv, IInv, BoundInv
<1>4. CASE UNCHANGED vars
    BY <1>4 DEF vars, LogInv, Told
<1> QED BY <1>1, <1>2, <1>3, <1>4, InvokeLog, LogWrites DEF Next, Step, Done

\* Whenever no call is under way, what is told is logged.
LEMMA LogExplains ==
    ASSUME BaseInv, LogInv
    PROVE  LogExplainsGraph
<1> SUFFICES ASSUME Quiet PROVE LogExplainsGraph
    BY DEF LogExplainsGraph
<1>1. \A p \in Client : todo[p] = <<>>
    BY DEF Quiet, BaseInv, ControlInv
<1>2. writer = NoClient
    BY DEF Quiet, BaseInv, ControlInv, IInv, StoreInv
<1>3. work = durable
    BY <1>2 DEF BaseInv, RefInv, StoreRefs
<1>4. Told \subseteq durable.log
    BY <1>1, <1>3, StmtsOfTuples DEF Told, Announces
<1> QED BY <1>4 DEF LogInv, Explained, Born, Said, LogExplainsGraph

\* With any number of clients at work at once, every entity has an event that
\* brought it into being and every merge an event that names it, once the calls
\* have ended: no call may fail half way, and merge_by_shared_field, which logs
\* nothing, is not in use.
THEOREM LogAlwaysExplains ==
    ASSUME MaxFails = 0, ~DetMerge
    PROVE  Spec => []LogExplainsGraph
<1>1. Init => LogInv
    BY InitLog
<1>2. BaseInv /\ LogInv /\ [Next]_vars => LogInv'
    BY NextLog
<1>3. BaseInv /\ LogInv => LogExplainsGraph
    BY LogExplains
<1> QED BY <1>1, <1>2, <1>3, BaseInvariance, PTL DEF Spec

----------------------------------------------------------------------------
(* The order of a program. *)

\* Each statement of a program, with those that are executed before it.
Ahead(prog, j) == {prog[i] : i \in 1 .. j - 1}
Queue(prog) == {[stmt |-> prog[j], ahead |-> Ahead(prog, j)] : j \in DOMAIN prog}

LEMMA QueueOfTuples ==
    /\ Queue(<<>>) = {}
    /\ \A a : Queue(<<a>>) = {[stmt |-> a, ahead |-> {}]}
    /\ \A a, b : Queue(<<a, b>>) = {[stmt |-> a, ahead |-> {}], [stmt |-> b, ahead |-> {a}]}
    /\ \A a, b, c : Queue(<<a, b, c>>) =
           {[stmt |-> a, ahead |-> {}], [stmt |-> b, ahead |-> {a}],
            [stmt |-> c, ahead |-> {a, b}]}
    /\ \A a, b, c, d : Queue(<<a, b, c, d>>) =
           {[stmt |-> a, ahead |-> {}], [stmt |-> b, ahead |-> {a}],
            [stmt |-> c, ahead |-> {a, b}], [stmt |-> d, ahead |-> {a, b, c}]}
<1> DEFINE at(prog, j) == [stmt |-> prog[j], ahead |-> Ahead(prog, j)]
<1>1. 1 .. 0 = {} /\ 1 .. 1 = {1} /\ 1 .. 2 = {1, 2} /\ 1 .. 3 = {1, 2, 3} /\ 1 .. 4 = {1, 2, 3, 4}
    OBVIOUS
<1>2. \A prog : Ahead(prog, 1) = {} /\ Ahead(prog, 2) = {prog[1]}
                /\ Ahead(prog, 3) = {prog[1], prog[2]}
                /\ Ahead(prog, 4) = {prog[1], prog[2], prog[3]}
    BY <1>1 DEF Ahead
<1>3. Queue(<<>>) = {}
    BY DEF Queue
<1>4. ASSUME NEW a PROVE Queue(<<a>>) = {[stmt |-> a, ahead |-> {}]}
    <2> DEFINE prog == <<a>>
    <2>1. DOMAIN prog = {1} /\ prog[1] = a
        BY <1>1
    <2> HIDE DEF prog
    <2>2. Queue(prog) = {at(prog, 1)}
        BY <2>1 DEF Queue
    <2> QED BY <1>2, <2>1, <2>2 DEF prog
<1>5. ASSUME NEW a, NEW b
      PROVE  Queue(<<a, b>>) = {[stmt |-> a, ahead |-> {}], [stmt |-> b, ahead |-> {a}]}
    <2> DEFINE prog == <<a, b>>
    <2>1. DOMAIN prog = {1, 2} /\ prog[1] = a /\ prog[2] = b
        BY <1>1
    <2> HIDE DEF prog
    <2>2. Queue(prog) = {at(prog, 1), at(prog, 2)}
        BY <2>1 DEF Queue
    <2> QED BY <1>2, <2>1, <2>2 DEF prog
<1>6. ASSUME NEW a, NEW b, NEW c
      PROVE  Queue(<<a, b, c>>) =
           {[stmt |-> a, ahead |-> {}], [stmt |-> b, ahead |-> {a}],
            [stmt |-> c, ahead |-> {a, b}]}
    <2> DEFINE prog == <<a, b, c>>
    <2>1. DOMAIN prog = {1, 2, 3} /\ prog[1] = a /\ prog[2] = b /\ prog[3] = c
        BY <1>1
    <2> HIDE DEF prog
    <2>2. Queue(prog) = {at(prog, 1), at(prog, 2), at(prog, 3)}
        BY <2>1 DEF Queue
    <2> QED BY <1>2, <2>1, <2>2 DEF prog
<1>7. ASSUME NEW a, NEW b, NEW c, NEW d
      PROVE  Queue(<<a, b, c, d>>) =
           {[stmt |-> a, ahead |-> {}], [stmt |-> b, ahead |-> {a}],
            [stmt |-> c, ahead |-> {a, b}], [stmt |-> d, ahead |-> {a, b, c}]}
    <2> DEFINE prog == <<a, b, c, d>>
    <2>1. /\ DOMAIN prog = {1, 2, 3, 4}
          /\ prog[1] = a /\ prog[2] = b /\ prog[3] = c /\ prog[4] = d
        BY <1>1
    <2> HIDE DEF prog
    <2>2. Queue(prog) = {at(prog, 1), at(prog, 2), at(prog, 3), at(prog, 4)}
        BY <2>1 DEF Queue
    <2> QED BY <1>2, <2>1, <2>2 DEF prog
<1> QED BY <1>3, <1>4, <1>5, <1>6, <1>7

LEMMA QueueStmts ==
    ASSUME NEW prog
    PROVE  /\ \A x \in Queue(prog) : x.stmt \in Stmts(prog)
           /\ \A s \in Stmts(prog) : \E x \in Queue(prog) : x.stmt = s
<1>1. ASSUME NEW j \in DOMAIN prog PROVE \E x \in Queue(prog) : x.stmt = prog[j]
    <2> DEFINE x == [stmt |-> prog[j], ahead |-> Ahead(prog, j)]
    <2>1. x \in Queue(prog) /\ x.stmt = prog[j]
        BY DEF Queue
    <2> QED BY <2>1
<1>2. \A x \in Queue(prog) : x.stmt \in Stmts(prog)
    BY DEF Queue, Stmts
<1> QED BY <1>1, <1>2 DEF Stmts

LEMMA QueueHead ==
    ASSUME NEW S, NEW prog \in Seq(S), prog # <<>>
    PROVE  [stmt |-> Head(prog), ahead |-> {}] \in Queue(prog)
<1>1. 1 \in DOMAIN prog /\ prog[1] = Head(prog) /\ Ahead(prog, 1) = {}
    BY HeadTailProperties, LenProperties, EmptySeq DEF Ahead
<1> QED BY <1>1 DEF Queue

LEMMA QueueAppend ==
    ASSUME NEW S, NEW prog \in Seq(S), NEW s
    PROVE  \A x \in Queue(Append(prog, s)) : x \in Queue(prog) \/ x.stmt = s
<1> DEFINE next == Append(prog, s)
           n == Len(prog)
<1>1. n \in Nat /\ DOMAIN prog = 1 .. n /\ DOMAIN next = 1 .. n + 1
      /\ (\A i \in 1 .. n : next[i] = prog[i]) /\ next[n + 1] = s
    BY LenProperties
<1> HIDE DEF next, n
<1>2. ASSUME NEW j \in DOMAIN next, j # n + 1
      PROVE  [stmt |-> next[j], ahead |-> Ahead(next, j)] \in Queue(prog)
    <2>1. j \in 1 .. n /\ \A i \in 1 .. j - 1 : i \in 1 .. n
        BY <1>1, <1>2
    <2>2. Ahead(next, j) = Ahead(prog, j) /\ next[j] = prog[j]
        BY <1>1, <2>1 DEF Ahead
    <2> QED BY <1>1, <2>1, <2>2 DEF Queue
<1>3. \A x \in Queue(next) : \E j \in DOMAIN next :
         x = [stmt |-> next[j], ahead |-> Ahead(next, j)]
    BY DEF Queue
<1> QED BY <1>1, <1>2, <1>3 DEF next

\* Writing replaces the first statement by what it leaves.
LEMMA QueueStep ==
    ASSUME NEW S, NEW prog \in Seq(S), prog # <<>>, NEW rest \in Seq(S)
    PROVE  \A x \in Queue(rest \o Tail(prog)) :
              \/ x \in Queue(rest)
              \/ \E y \in Queue(prog) :
                    /\ y.stmt = x.stmt /\ y.stmt \in Stmts(Tail(prog))
                    /\ Head(prog) \in y.ahead /\ y.ahead \subseteq {Head(prog)} \cup x.ahead
                    /\ Stmts(rest) \subseteq x.ahead
                    /\ x.ahead \subseteq y.ahead \cup Stmts(rest)
<1> DEFINE tail == Tail(prog)
           next == rest \o tail
           n == Len(rest)
<1>1. /\ tail \in Seq(S) /\ Len(tail) = Len(prog) - 1 /\ Len(prog) \in Nat \ {0}
      /\ Head(prog) = prog[1]
      /\ \A i \in 1 .. Len(prog) - 1 : tail[i] = prog[i + 1]
    BY HeadTailProperties, LenProperties, EmptySeq
<1>2. DOMAIN prog = 1 .. Len(prog) /\ DOMAIN tail = 1 .. Len(prog) - 1 /\ DOMAIN rest = 1 .. n
      /\ n \in Nat
    BY <1>1, LenProperties
<1>3. /\ DOMAIN next = 1 .. n + (Len(prog) - 1)
      /\ \A i \in 1 .. n : next[i] = rest[i]
      /\ \A i \in n + 1 .. n + (Len(prog) - 1) : next[i] = tail[i - n]
    BY <1>1, <1>2, ConcatProperties, LenProperties
<1> HIDE DEF tail, next, n
<1>4. ASSUME NEW j \in DOMAIN next, j <= n
      PROVE  [stmt |-> next[j], ahead |-> Ahead(next, j)] \in Queue(rest)
    <2>1. j \in DOMAIN rest /\ next[j] = rest[j] /\ \A i \in 1 .. j - 1 : next[i] = rest[i]
        BY <1>2, <1>3, <1>4
    <2>2. Ahead(next, j) = Ahead(rest, j)
        BY <2>1 DEF Ahead
    <2> QED BY <2>1, <2>2 DEF Queue
<1>5. ASSUME NEW j \in DOMAIN next, j > n, NEW x, x = [stmt |-> next[j], ahead |-> Ahead(next, j)]
      PROVE  \E y \in Queue(prog) :
                    /\ y.stmt = x.stmt /\ y.stmt \in Stmts(Tail(prog))
                    /\ Head(prog) \in y.ahead /\ y.ahead \subseteq {Head(prog)} \cup x.ahead
                    /\ Stmts(rest) \subseteq x.ahead
                    /\ x.ahead \subseteq y.ahead \cup Stmts(rest)
    <2> DEFINE k == j - n + 1
               y == [stmt |-> prog[k], ahead |-> Ahead(prog, k)]
    <2>1. k \in DOMAIN prog /\ k > 1 /\ k - 1 \in DOMAIN tail /\ j \in n + 1 .. n + (Len(prog) - 1)
          /\ j - n = k - 1 /\ j \in Nat
        BY <1>1, <1>2, <1>3, <1>5
    <2>2. next[j] = tail[k - 1] /\ tail[k - 1] = prog[k]
        BY <1>1, <1>2, <1>3, <2>1
    <2>3. y \in Queue(prog) /\ y.stmt = x.stmt /\ y.stmt \in Stmts(tail)
        BY <1>5, <2>1, <2>2 DEF Queue, Stmts
    <2>4. Head(prog) \in y.ahead
        BY <1>1, <2>1 DEF Ahead
    <2>5. ASSUME NEW i \in 1 .. k - 1, i # 1 PROVE prog[i] \in x.ahead
        <3>1. i - 1 \in 1 .. Len(prog) - 1 /\ (i - 1) + 1 = i
            BY <1>1, <1>2, <2>1, <2>5
        <3>2. tail[i - 1] = prog[i]
            BY <1>1, <3>1
        <3>3. n + (i - 1) \in n + 1 .. n + (Len(prog) - 1) /\ (n + (i - 1)) - n = i - 1
            BY <1>1, <1>2, <3>1
        <3>4. next[n + (i - 1)] = prog[i]
            BY <1>3, <3>2, <3>3
        <3>5. n + (i - 1) \in 1 .. j - 1
            <4>1. i \in 1 .. (j - n + 1) - 1 /\ j \in Nat /\ n \in Nat
                BY <1>2, <2>1, <2>5
            <4>2. \A a, m \in Nat : \A q \in 1 .. (a - m + 1) - 1 :
                    q # 1 => m + (q - 1) \in 1 .. a - 1
                OBVIOUS
            <4> QED BY <2>5, <4>1, <4>2
        <3> QED BY <1>5, <3>4, <3>5 DEF Ahead
    <2>6. y.ahead \subseteq {Head(prog)} \cup x.ahead
        BY <1>1, <2>5 DEF Ahead
    <2>7. Stmts(rest) \subseteq x.ahead
        <3>1. ASSUME NEW i \in 1 .. n PROVE rest[i] \in x.ahead
            <4>1. i \in 1 .. j - 1 /\ next[i] = rest[i]
                BY <1>2, <1>3, <2>1
            <4> QED BY <1>5, <4>1 DEF Ahead
        <3> QED BY <1>2, <3>1 DEF Stmts
    <2>8. ASSUME NEW i \in 1 .. j - 1 PROVE next[i] \in y.ahead \cup Stmts(rest)
        <3>1. CASE i \in 1 .. n
            BY <1>2, <1>3, <3>1 DEF Stmts
        <3>2. CASE i \notin 1 .. n
            <4>1. i \in n + 1 .. n + (Len(prog) - 1) /\ i - n \in 1 .. Len(prog) - 1
                  /\ (i - n) + 1 \in 1 .. k - 1
                <5>1. \A a, m, len \in Nat : \A q \in 1 .. a - 1 :
                        a \in m + 1 .. m + (len - 1) /\ q \notin 1 .. m =>
                            /\ q \in m + 1 .. m + (len - 1) /\ q - m \in 1 .. len - 1
                            /\ (q - m) + 1 \in 1 .. (a - m + 1) - 1
                    OBVIOUS
                <5>2. n \in Nat /\ j \in Nat /\ Len(prog) \in Nat
                      /\ j \in n + 1 .. n + (Len(prog) - 1)
                    BY <1>1, <1>2, <2>1
                <5> QED BY <2>8, <3>2, <5>1, <5>2
            <4>2. next[i] = prog[(i - n) + 1]
                BY <1>1, <1>3, <4>1
            <4> QED BY <4>1, <4>2 DEF Ahead
        <3> QED BY <3>1, <3>2
    <2>9. x.ahead \subseteq y.ahead \cup Stmts(rest)
        BY <1>5, <2>8 DEF Ahead
    <2> HIDE DEF y
    <2> QED BY <2>3, <2>4, <2>6, <2>7, <2>9 DEF tail
<1>6. \A x \in Queue(next) : \E j \in DOMAIN next :
         x = [stmt |-> next[j], ahead |-> Ahead(next, j)]
    BY DEF Queue
<1>7. \A j \in DOMAIN next : j <= n \/ j > n
    BY <1>2, <1>3
<1> QED BY <1>4, <1>5, <1>6, <1>7 DEF next, tail

----------------------------------------------------------------------------
(* Where resolve_clusters is not called, no transaction is ever open, the   *)
(* only nodes written are those that splits have minted, and evidence does *)
(* not change.                                                             *)

StewardInv ==
    /\ Rows(durable) \subseteq Minted
    /\ \A p \in Client :
          /\ pc[p] \notin BatchPC
          /\ \A s \in Stmts(todo[p]) :
                /\ s.op \notin {"link", "carry"}
                /\ s.op = "node" => s.ent \in Minted \ Rows(durable) /\ s.status = "active"
    /\ \A p, q \in Client : p # q =>
          \A s \in Stmts(todo[p]), t \in Stmts(todo[q]) :
              s.op = "node" /\ t.op = "node" => s.ent # t.ent

\* One graph, which every client sees.
LEMMA StewardStore ==
    ASSUME BaseInv, StewardInv
    PROVE  /\ writer = NoClient /\ work = durable /\ \A p \in Client : View(p) = durable
           /\ durable \in AgreeingGraph /\ durable \in Graph
<1>1. writer = NoClient
    BY DEF BaseInv, ControlInv, IInv, StoreInv, StewardInv, BatchPC
<1> QED BY <1>1, ClientAssumption DEF BaseInv, RefInv, StoreRefs, IInv, StoreInv, View, AgreeingGraph

\* A statement is written and committed at once, or becomes others.
LEMMA StewardWrites ==
    ASSUME BaseInv, StewardInv, NEW p \in Client, Write(p)
    PROVE  LET s == Statement(p)
           IN /\ todo[p] # <<>> /\ s \in AgreeingStmt /\ s \in Stmts(todo[p])
              /\ s.op \notin {"absorb", "carry", "link"}
              /\ \E rest \in Seq(AgreeingStmt) :
                    /\ Executes(s, durable, durable', rest) /\ Then(p, rest)
                    /\ durable' \in AgreeingGraph
                    /\ Stmts(todo[p]) = {s} \cup Stmts(Tail(todo[p]))
                    /\ Stmts(todo'[p]) = Stmts(rest) \cup Stmts(Tail(todo[p]))
                    /\ todo'[p] = rest \o Tail(todo[p])
              /\ \A q \in Client \ {p} : todo'[q] = todo[q]
              /\ pc' = pc /\ local' = local /\ minted' = minted
<1> DEFINE s == Statement(p)
<1>1. PICK rest \in Seq(AgreeingStmt), h \in AgreeingGraph :
        Executes(s, View(p), h, rest) /\ Writes(p, h) /\ Then(p, rest)
    BY WriteExecutes DEF BaseInv
<1>2. todo[p] # <<>> /\ s \in AgreeingStmt
    BY WriteExecutes DEF BaseInv
<1>3. /\ Stmts(todo[p]) = {s} \cup Stmts(Tail(todo[p]))
      /\ Stmts(todo'[p]) = Stmts(rest) \cup Stmts(Tail(todo[p]))
      /\ \A q \in Client \ {p} : todo'[q] = todo[q]
      /\ pc' = pc /\ local' = local
    BY <1>1, <1>2, ThenStmts DEF BaseInv
<1>4. s.op \notin {"absorb", "carry", "link"}
    BY <1>3 DEF StewardInv, BaseInv, ControlInv, Plain, Branch, BatchPC
<1>5. durable' = h /\ View(p) = durable
    <2>1. (View(p) = durable /\ durable' = h) \/ (h = View(p) /\ durable' = durable)
        BY <1>1, <1>4, StewardStore DEF Writes, Exec, InBulk, StewardInv, BatchPC, Commit, storeVars
    <2> QED BY <2>1, StewardStore
<1>6. todo'[p] = rest \o Tail(todo[p]) /\ minted' = minted
    BY <1>1 DEF Then, BaseInv, IInv, CallInv
<1> QED BY <1>1, <1>2, <1>3, <1>4, <1>5, <1>6

\* What a statement makes of nodes.
LEMMA ExecutesNodes ==
    ASSUME NEW g \in Graph, NEW s \in AgreeingStmt, NEW h, NEW rest, Executes(s, g, h, rest)
    PROVE  /\ Rows(h) = Rows(g) \cup IF s.op = "node" THEN {s.ent} ELSE {}
           /\ \A e \in Entity : s.op = "node" /\ e = s.ent => h.status[e] = s.status /\ h.into[e] = s.into
           /\ \A e \in Entity :
                 h.status[e] # g.status[e] \/ h.into[e] # g.into[e] =>
                    \/ s.op = "node" /\ e = s.ent
                    \/ /\ s.op = "retire" /\ e \in s.ents /\ ~Active(h, e)
                       /\ h.status[e] = "merged_into" /\ h.into[e] = s.into
           /\ \A e \in Entity : s.op = "retire" /\ e \in s.ents /\ Exists(g, e) =>
                 \/ h.status[e] = "merged_into"
                 \/ \E t \in Stmts(rest) : t.op = "retire" /\ t.into = s.into /\ e \in t.ents
<1>1. CASE s.op = "node" /\ h = UpsertIdentity(g, s.ent, s.status, s.into)
    <2>1. /\ s.ent \in Entity /\ s.status # "absent"
          /\ h.status = [g.status EXCEPT ![s.ent] = s.status]
          /\ h.into = [g.into EXCEPT ![s.ent] = s.into]
        BY <1>1, StmtFields DEF UpsertIdentity, Graph
    <2> QED BY <1>1, <2>1 DEF Graph, Rows, Exists, Active
<1>2. ASSUME s.op = "retire", NEW e \in s.ents, h = RetireIdentity(g, e, s.into),
             rest = IF s.ents = {e} THEN <<>> ELSE <<Retire(s.ents \ {e}, s.into)>>
      PROVE  /\ Rows(h) = Rows(g) /\ s.ents \subseteq Entity
             /\ \A f \in Entity :
                   h.status[f] # g.status[f] \/ h.into[f] # g.into[f] =>
                      /\ f \in s.ents /\ ~Active(h, f)
                      /\ h.status[f] = "merged_into" /\ h.into[f] = s.into
             /\ \A f \in Entity : f \in s.ents /\ Exists(g, f) =>
                   \/ h.status[f] = "merged_into"
                   \/ \E t \in Stmts(rest) : t.op = "retire" /\ t.into = s.into /\ f \in t.ents
    <2>1. s.ents \subseteq Entity /\ s.into \in Entity /\ s.into # NoEntity
        BY <1>2, StmtFields, MaxEntityAssumption DEF Entity, NoEntity
    <2>2. ASSUME NEW f \in s.ents, f # e
          PROVE  \E t \in Stmts(rest) : t.op = "retire" /\ t.into = s.into /\ f \in t.ents
        <3>1. Stmts(rest) = {Retire(s.ents \ {e}, s.into)}
            BY <1>2, <2>2, StmtsOfTuples
        <3> QED BY <2>2, <3>1 DEF Retire
    <2>3. CASE Exists(g, e)
        <3>1. /\ h.status = [g.status EXCEPT ![e] = "merged_into"]
              /\ h.into = [g.into EXCEPT ![e] = s.into]
            BY <1>2, <2>1, <2>3 DEF RetireIdentity, Graph
        <3>2. /\ \A f \in Entity : f # e => h.status[f] = g.status[f] /\ h.into[f] = g.into[f]
              /\ h.status[e] = "merged_into" /\ h.into[e] = s.into /\ e \in Entity
            BY <2>1, <3>1 DEF Graph
        <3>3. Rows(h) = Rows(g)
            BY <2>3, <3>2 DEF Rows, Exists
        <3> QED BY <2>1, <2>2, <3>2, <3>3 DEF Active
    <2>4. CASE ~Exists(g, e)
        BY <1>2, <2>1, <2>2, <2>4 DEF RetireIdentity, Rows
    <2> QED BY <2>3, <2>4
<1>3. CASE h.status = g.status /\ h.into = g.into /\ s.op \notin {"node", "retire"}
    BY <1>3 DEF Rows, Exists
<1>4. CASE s.op = "retire" /\ s.ents = {} /\ h = g
    BY <1>4
<1>5. s.op \notin {"node", "retire"} => h.status = g.status /\ h.into = g.into
    BY DEF Executes, UpsertRecord, EmitEvents, AddEdges, AddVerdict, Graph
<1>6. s.op = "node" => h = UpsertIdentity(g, s.ent, s.status, s.into)
    BY DEF Executes, Vacuous
<1>7. ASSUME s.op = "retire", ~(s.ents = {} /\ h = g)
      PROVE  \E e \in s.ents :
                /\ h = RetireIdentity(g, e, s.into)
                /\ rest = IF s.ents = {e} THEN <<>> ELSE <<Retire(s.ents \ {e}, s.into)>>
    BY <1>7 DEF Executes, Vacuous
<1> QED BY <1>1, <1>2, <1>3, <1>4, <1>5, <1>6, <1>7

\* A program that writes no node and no edge.
Modest(prog) == \A s \in Stmts(prog) : s.op \notin {"node", "link", "carry"}

\* A program whose nodes are the one just minted.
Splits(prog) ==
    \A s \in Stmts(prog) : /\ s.op \notin {"link", "carry"}
                           /\ s.op = "node" => s.ent = NextEntity /\ s.status = "active"

LEMMA ModestPrograms ==
    /\ Modest(<<>>)
    /\ \A rs, e, in, f, x, y : Modest(<<Attach(rs, e), Retire(f, in), Emit(x), Emit(y)>>)
    /\ \A rs, e, x, y : Modest(<<Attach(rs, e), Emit(x), Emit(y)>>)
    /\ \A x : Modest(<<Emit(x)>>)
    /\ \A q, res : Modest(<<RecordVerdict(q, res)>>)
    /\ \A e, rs : Splits(SplitProgram(e, rs))
<1>1. \A e, rs : Splits(SplitProgram(e, rs))
    BY StmtsOfTuples DEF Splits, SplitProgram, Node, Move, Emit
<1> QED BY <1>1, StmtsOfTuples DEF Modest, Attach, Retire, Emit, RecordVerdict

\* Only the first statement of a program writes a node.
LEMMA OneNode ==
    ASSUME BaseInv, NEW p \in Client, todo[p] # <<>>
    PROVE  \A s \in Stmts(Tail(todo[p])) : s.op # "node"
<1> DEFINE K == Rows(View(p))
<1>1. Resolved(todo[p], K)
    BY DEF BaseInv, RefInv, CallRefs
<1>2. CASE todo[p] \in Seq(Anchored(K))
    <2>1. Tail(todo[p]) \in Seq(Anchored(K))
        BY <1>2, HeadTailProperties
    <2> QED BY <2>1, StmtsType DEF Anchored
<1>3. CASE Founding(todo[p], K)
    <2>1. Tail(todo[p]) \in Seq(Anchored(K \cup {Head(todo[p]).ent}))
        BY <1>3 DEF Founding
    <2> QED BY <2>1, StmtsType DEF Anchored
<1> QED BY <1>1, <1>2, <1>3 DEF Resolved

LEMMA StewardGoesOn ==
    ASSUME BaseInv, StewardInv, NEW p \in Client, NEW next, next \notin BatchPC, NEW prog, NEW l,
           Continue(p, next, prog, l), durable' = durable,
           \/ minted' = minted /\ Modest(prog)
           \/ CanMint /\ Mint /\ Splits(prog)
    PROVE  StewardInv'
<1>1. /\ pc'[p] = next /\ todo'[p] = prog
      /\ \A q \in Client \ {p} : pc'[q] = pc[q] /\ todo'[q] = todo[q]
    BY ContinueStmts DEF BaseInv
<1>2. minted \in Nat /\ minted' \in Nat /\ minted <= minted'
    BY MaxEntityAssumption DEF BaseInv, IInv, BoundInv, Mint, NextEntity
<1>3. Rows(durable)' = Rows(durable) /\ Minted \subseteq Minted'
    BY <1>2 DEF Rows, Exists, Minted
<1>4. ASSUME NEW s \in Stmts(prog)
      PROVE  /\ s.op \notin {"link", "carry"}
             /\ s.op = "node" => /\ s.ent \in Minted' \ Rows(durable) /\ s.status = "active"
                                 /\ s.ent \notin Minted
    <2>1. CASE minted' = minted /\ Modest(prog)
        BY <1>4, <2>1 DEF Modest
    <2>2. CASE CanMint /\ Mint /\ Splits(prog)
        <3>1. NextEntity \in Minted' /\ NextEntity \notin Minted
            BY <1>2, <2>2 DEF Mint, NextEntity, Minted
        <3>2. NextEntity \notin Rows(durable)
            BY <3>1 DEF StewardInv
        <3> QED BY <1>4, <2>2, <3>1, <3>2 DEF Splits
    <2> QED BY <2>1, <2>2
<1>5. ASSUME NEW q \in Client \ {p}, NEW s \in Stmts(todo[q])
      PROVE  /\ s.op \notin {"link", "carry"}
             /\ s.op = "node" => /\ s.ent \in Minted' \ Rows(durable) /\ s.status = "active"
                                 /\ s.ent \in Minted
    BY <1>3 DEF StewardInv
<1>6. ASSUME NEW q \in Client, NEW r \in Client, q # r, NEW s \in Stmts(todo'[q]),
             NEW t \in Stmts(todo'[r]), s.op = "node", t.op = "node"
      PROVE  s.ent # t.ent
    BY <1>1, <1>4, <1>5, <1>6 DEF StewardInv
<1>7. ASSUME NEW q \in Client
      PROVE  /\ pc'[q] \notin BatchPC
             /\ \A s \in Stmts(todo'[q]) :
                   /\ s.op \notin {"link", "carry"}
                   /\ s.op = "node" => s.ent \in Minted' \ Rows(durable)' /\ s.status = "active"
    BY <1>1, <1>3, <1>4, <1>5 DEF StewardInv
<1> QED BY <1>3, <1>6, <1>7 DEF StewardInv

LEMMA StewardWritesOn ==
    ASSUME BaseInv, StewardInv, NEW p \in Client, Write(p)
    PROVE  StewardInv'
<1> DEFINE s == Statement(p)
<1>1. /\ todo[p] # <<>> /\ s \in AgreeingStmt /\ s \in Stmts(todo[p])
      /\ s.op \notin {"absorb", "carry", "link"}
      /\ \A q \in Client \ {p} : todo'[q] = todo[q]
      /\ pc' = pc /\ local' = local /\ minted' = minted
    BY StewardWrites
<1>2. PICK rest \in Seq(AgreeingStmt) :
        /\ Executes(s, durable, durable', rest)
        /\ Stmts(todo[p]) = {s} \cup Stmts(Tail(todo[p]))
        /\ Stmts(todo'[p]) = Stmts(rest) \cup Stmts(Tail(todo[p]))
    BY StewardWrites
<1>3. \A t \in Stmts(rest) : t.op \notin {"node", "link", "carry"}
    BY <1>1, <1>2, StatementsLeft
<1>4. Rows(durable)' = Rows(durable) \cup IF s.op = "node" THEN {s.ent} ELSE {}
    <2>1. durable \in Graph
        BY StewardStore
    <2>2. Rows(durable') = Rows(durable) \cup IF s.op = "node" THEN {s.ent} ELSE {}
        BY <1>1, <1>2, <2>1, ExecutesNodes
    <2>3. Rows(durable)' = Rows(durable')
        BY DEF Rows, Exists
    <2> QED BY <2>2, <2>3
<1>5. Minted' = Minted
    BY <1>1 DEF Minted
<1>6. Rows(durable)' \subseteq Minted'
    BY <1>1, <1>4, <1>5 DEF StewardInv
<1>7. \A t \in Stmts(todo'[p]) : /\ t.op \notin {"node", "link", "carry"} \/ t \in Stmts(todo[p])
                                 /\ t.op = "node" => s.op # "node"
    BY <1>1, <1>2, <1>3, OneNode
<1>8. ASSUME NEW q \in Client, NEW t \in Stmts(todo'[q])
      PROVE  /\ t.op \notin {"link", "carry"}
             /\ t.op = "node" => /\ t \in Stmts(todo[q])
                                 /\ t.ent \in Minted' \ Rows(durable)' /\ t.status = "active"
    <2>1. CASE q = p
        BY <1>4, <1>5, <1>7, <1>8, <2>1 DEF StewardInv
    <2>2. CASE q # p
        BY <1>1, <1>4, <1>5, <1>8, <2>2 DEF StewardInv
    <2> QED BY <2>1, <2>2
<1>9. \A q, r \in Client : q # r =>
          \A t \in Stmts(todo'[q]), u \in Stmts(todo'[r]) :
              t.op = "node" /\ u.op = "node" => t.ent # u.ent
    BY <1>8 DEF StewardInv
<1> QED BY <1>1, <1>6, <1>8, <1>9 DEF StewardInv

LEMMA StewardReadsOn ==
    ASSUME BaseInv, StewardInv, NEW p \in Client, Read(p)
    PROVE  StewardInv'
<1> USE ModestPrograms, StewardGoesOn
<1>1. pc[p] \notin BatchPC
    BY DEF StewardInv
<1>2. ASSUME NEW next, next \notin BatchPC, NEW prog, NEW l, Continue(p, next, prog, l),
             Modest(prog), UNCHANGED <<storeVars, boundVars>>
      PROVE  StewardInv'
    BY <1>2 DEF storeVars, boundVars
<1>3. ASSUME GiveUp(p), UNCHANGED <<storeVars, boundVars>> PROVE StewardInv'
    BY <1>2, <1>3 DEF GiveUp, BatchPC
<1>4. ASSUME MergeCheck(p) \/ MergeCheckOther(p) PROVE StewardInv'
    BY <1>2, <1>3, <1>4 DEF MergeCheck, MergeCheckOther, BatchPC
<1>5. ASSUME MergeRecords(p) PROVE StewardInv'
    BY <1>2, <1>5 DEF MergeRecords, BatchPC
<1>6. ASSUME SplitCheck(p) PROVE StewardInv'
    BY <1>3, <1>6 DEF SplitCheck, BatchPC, storeVars
<1>7. ASSUME ClaimTarget(p) PROVE StewardInv'
    BY <1>2, <1>3, <1>7 DEF ClaimTarget, BatchPC
<1>8. ASSUME ClaimRecord(p) PROVE StewardInv'
    BY <1>2, <1>3, <1>8 DEF ClaimRecord, BatchPC
<1>9. ASSUME MediateFind(p) \/ MediateFindOther(p) PROVE StewardInv'
    BY <1>2, <1>9, MediateFinds DEF BatchPC
<1>10. ASSUME MediateAct(p) PROVE StewardInv'
    <2> DEFINE said == IF local[p].ent = NoEntity THEN {}
                       ELSE {Ev("conflict_mediated", local[p].ent, NoEntity)}
               split == SplitProgram(local[p].ent, {local[p].b})
               prog == Append(split, Emit(said))
    <2>1. CASE Continue(p, "return", <<Emit(said)>>, local[p]) /\ UNCHANGED boundVars
        BY <1>2, <1>10, <2>1 DEF MediateAct, BatchPC
    <2>2. CASE Continue(p, "return", prog, local[p]) /\ CanMint /\ Mint
        <3>1. Splits(split) /\ Stmts(prog) = Stmts(split) \cup {Emit(said)}
            BY AppendedSplit
        <3> HIDE DEF split, said
        <3>2. Splits(prog)
            BY <3>1 DEF Splits, Emit
        <3> QED BY <1>10, <2>2, <3>2 DEF MediateAct, BatchPC, storeVars
    <2> QED BY <1>10, <2>1, <2>2 DEF MediateAct
<1>11. ASSUME StabilizeScan(p) PROVE StewardInv'
    BY <1>2, <1>11 DEF StabilizeScan, BatchPC
<1>12. ASSUME StabilizeGroup(p) PROVE StewardInv'
    <2>1. PICK next \in {"loser", "group"} : \E l : Continue(p, next, <<>>, l)
        BY <1>12 DEF StabilizeGroup
    <2> QED BY <1>2, <1>12, <2>1 DEF StabilizeGroup, BatchPC
<1>13. ASSUME StabilizeLoser(p) PROVE StewardInv'
    <2>1. \E prog, l : Continue(p, "loser", prog, l) /\ Modest(prog)
        BY <1>13 DEF StabilizeLoser
    <2> QED BY <1>2, <1>13, <2>1 DEF StabilizeLoser, BatchPC
<1>14. ASSUME StabilizeNext(p) PROVE StewardInv'
    BY <1>2, <1>14 DEF StabilizeNext, BatchPC
<1> QED BY <1>1, <1>4, <1>5, <1>6, <1>7, <1>8, <1>9, <1>10, <1>11, <1>12, <1>13, <1>14
        DEF Read, ResolveLookup, ResolveNodes, ResolveSkip, ResolveAccumulate, ResolveCreate,
            ResolveAbsorb, ResolveMerge, ResolveFinish, DetMergeRead, DetMergeWrite,
            AtCluster, At, BatchPC

\* A call that is not of resolve_clusters begins elsewhere.
LEMMA StewardInvokes ==
    ASSUME "resolve" \notin Calls, NEW p, Invoke(p)
    PROVE  \E first \in {"check", "split", "target", "find", "scan"} : \E l :
               Begin(p, first, l) /\ Fresh(l) /\ first = Starts[l.op] /\ l.op \in Op
<1>1. PICK first \in {"lookup", "check", "split", "target", "find", "scan"} :
        \E l : Begin(p, first, l) /\ Fresh(l) /\ first = Starts[l.op]
    BY InvokeFresh
<1>2. PICK l : Begin(p, first, l) /\ Fresh(l) /\ first = Starts[l.op]
    BY <1>1
<1>3. l.op \in Op /\ l.op # "resolve"
    BY <1>2, CallsAssumption DEF Begin
<1>4. first \in {"check", "split", "target", "find", "scan"}
    BY <1>2, <1>3 DEF Starts, Op
<1> QED BY <1>2, <1>3, <1>4

LEMMA StewardInit ==
    ASSUME Init
    PROVE  StewardInv
<1> DEFINE row(i) == [ent |-> i, members |-> Seed[i].members,
                      edges |-> Evidence(Seed[i], i, Seed[i].members, SeedRun)]
           rows == {row(i) : i \in DOMAIN Seed}
           ents == {w.ent : w \in rows}
<1>1. SeedGraph = BulkWrite(EmptyGraph, rows)
    BY DEF SeedGraph
<1>2. SeedGraph.status = [e \in Entity |-> IF e \in ents THEN "active" ELSE "absent"]
    BY <1>1 DEF BulkWrite, EmptyGraph
<1>3. ents \subseteq 1 .. Len(Seed)
    <2>1. DOMAIN Seed = 1 .. Len(Seed)
        BY SeedAssumption, LenProperties
    <2> QED BY <2>1
<1> HIDE DEF ents
<1>4. Rows(durable) \subseteq Minted
    BY <1>2, <1>3 DEF Init, Rows, Exists, Minted
<1> QED BY <1>4, StmtsOfTuples DEF Init, StewardInv, BatchPC

LEMMA StewardNext ==
    ASSUME BaseInv, StewardInv, "resolve" \notin Calls, [Next]_vars
    PROVE  StewardInv'
<1>1. ASSUME NEW p \in Client, Invoke(p) PROVE StewardInv'
    <2>1. PICK first \in {"check", "split", "target", "find", "scan"} : \E l : Begin(p, first, l)
        BY <1>1, StewardInvokes
    <2> QED BY <2>1, ModestPrograms, StewardGoesOn DEF Begin, BatchPC, storeVars
<1>2. ASSUME NEW p \in Client, Return(p) PROVE StewardInv'
    BY <1>2, ModestPrograms, StewardGoesOn DEF Return, BatchPC, storeVars, boundVars
<1>3. ASSUME NEW p \in Client, Fail(p) PROVE StewardInv'
    <2>1. durable' = durable
        BY <1>3 DEF Fail, Commit, storeVars
    <2> QED BY <1>3, <2>1, ModestPrograms, StewardGoesOn DEF Fail, BatchPC
<1>4. CASE UNCHANGED vars
    BY <1>4 DEF vars, StewardInv, Minted, Rows, Exists
<1>5. ASSUME NEW p \in Client PROVE ~DetMergeFails(p)
    BY DEF DetMergeFails, At, StewardInv, BatchPC
<1> QED BY <1>1, <1>2, <1>3, <1>4, <1>5, StewardReadsOn, StewardWritesOn DEF Next, Step, Done

----------------------------------------------------------------------------
(* Merges that the log tells of have happened. *)

\* An event that says an entity was merged waits until it has been retired.
MergeSays(g, x) ==
    x.stmt.op = "emit" => \A v \in x.stmt.events : v.into # NoEntity =>
        /\ Exists(g, v.ent)
        /\ Active(g, v.ent) => \E s \in x.ahead : s.op = "retire" /\ v.ent \in s.ents

StandInv ==
    /\ \A v \in durable.log : v.into # NoEntity => ~Active(durable, v.ent)
    /\ \A p \in Client : \A x \in Queue(todo[p]) : MergeSays(durable, x)

\* A program that tells of no merge, and one that merges first.
Silent(prog) ==
    \A s \in Stmts(prog) : s.op = "emit" => \A v \in s.events : v.into = NoEntity

LEMMA SilentPrograms ==
    /\ Silent(<<>>)
    /\ \A rs, e, k, f, x, y :
          Silent(<<Attach(rs, e), Emit({Ev(k, e, NoEntity)}), Emit({Ev(k, f, NoEntity)})>>)
    /\ \A x : (\A v \in x : v.into = NoEntity) => Silent(<<Emit(x)>>)
    /\ \A q, res : Silent(<<RecordVerdict(q, res)>>)
    /\ \A e, rs : Silent(SplitProgram(e, rs))
<1>1. \A k, e : \A v \in {Ev(k, e, NoEntity)} : v.into = NoEntity
    BY DEF Ev
<1>2. \A k, e : Emit({Ev(k, e, NoEntity)}).op = "emit"
                /\ Emit({Ev(k, e, NoEntity)}).events = {Ev(k, e, NoEntity)}
    BY DEF Emit
<1>3. ASSUME NEW e, NEW rs PROVE Silent(SplitProgram(e, rs))
    <2> DEFINE a == Node(NextEntity, "active", NoEntity)
               b == Move(rs, e, NextEntity)
               c == Emit({Ev("manual_split", e, NoEntity)})
               d == Emit({Ev("manual_split", NextEntity, NoEntity)})
    <2>1. SplitProgram(e, rs) = <<a, b, c, d>> /\ a.op = "node" /\ b.op = "move"
        BY DEF SplitProgram, Node, Move
    <2>2. \A v \in c.events \cup d.events : v.into = NoEntity
        BY <1>1, <1>2
    <2> HIDE DEF a, b, c, d
    <2>3. Stmts(SplitProgram(e, rs)) = {a, b, c, d}
        BY <2>1, StmtsOfTuples
    <2> QED BY <2>1, <2>2, <2>3 DEF Silent
<1>4. ASSUME NEW rs, NEW e, NEW k, NEW f
      PROVE  Silent(<<Attach(rs, e), Emit({Ev(k, e, NoEntity)}), Emit({Ev(k, f, NoEntity)})>>)
    <2> DEFINE a == Attach(rs, e)
               b == Emit({Ev(k, e, NoEntity)})
               c == Emit({Ev(k, f, NoEntity)})
    <2>1. a.op = "attach" /\ \A v \in b.events \cup c.events : v.into = NoEntity
        BY <1>1, <1>2 DEF Attach
    <2> HIDE DEF a, b, c
    <2>2. Stmts(<<a, b, c>>) = {a, b, c}
        BY StmtsOfTuples
    <2>3. Silent(<<a, b, c>>)
        BY <2>1, <2>2 DEF Silent
    <2> QED BY <2>3 DEF a, b, c
<1>5. \A x : (\A v \in x : v.into = NoEntity) => Silent(<<Emit(x)>>)
    BY StmtsOfTuples DEF Silent, Emit
<1>6. Silent(<<>>) /\ \A q, res : Silent(<<RecordVerdict(q, res)>>)
    BY StmtsOfTuples DEF Silent, RecordVerdict
<1> QED BY <1>3, <1>4, <1>5, <1>6

LEMMA SilentSays ==
    ASSUME NEW prog, Silent(prog), NEW g
    PROVE  \A x \in Queue(prog) : MergeSays(g, x)
BY QueueStmts DEF Silent, MergeSays

\* merging: <<Attach, Retire, Emit, Emit>>.
MergeProgram(rs, gone, keep, kind) ==
    <<Attach(rs, keep), Retire({gone}, keep),
      Emit({Ev(kind, keep, NoEntity)}), Emit({Ev(kind, gone, keep)})>>

LEMMA MergeProgramSays ==
    ASSUME NEW rs, NEW gone, NEW keep, NEW kind, NEW g, Exists(g, gone)
    PROVE  \A x \in Queue(MergeProgram(rs, gone, keep, kind)) : MergeSays(g, x)
<1> DEFINE a == Attach(rs, keep)
           b == Retire({gone}, keep)
           c == Emit({Ev(kind, keep, NoEntity)})
           d == Emit({Ev(kind, gone, keep)})
<1>1. MergeProgram(rs, gone, keep, kind) = <<a, b, c, d>>
    BY DEF MergeProgram
<1>2. /\ a.op = "attach" /\ b.op = "retire" /\ b.ents = {gone}
      /\ c.op = "emit" /\ \A v \in c.events : v.into = NoEntity
      /\ d.op = "emit" /\ \A v \in d.events : v.ent = gone
    BY DEF Attach, Retire, Emit, Ev
<1> HIDE DEF a, b, c, d
<1>3. Queue(<<a, b, c, d>>) =
           {[stmt |-> a, ahead |-> {}], [stmt |-> b, ahead |-> {a}],
            [stmt |-> c, ahead |-> {a, b}], [stmt |-> d, ahead |-> {a, b, c}]}
    BY QueueOfTuples
<1> QED BY <1>1, <1>2, <1>3 DEF MergeSays

LEMMA StandGoesOn ==
    ASSUME BaseInv, StandInv, NEW p \in Client, NEW next, NEW prog, NEW l,
           Continue(p, next, prog, l), durable' = durable,
           \A x \in Queue(prog) : MergeSays(durable, x)
    PROVE  StandInv'
BY ContinueStmts DEF BaseInv, StandInv

LEMMA ExecutesEvents ==
    ASSUME NEW g \in Graph, NEW s, NEW h, NEW rest, Executes(s, g, h, rest)
    PROVE  h.log \subseteq g.log \cup IF s.op = "emit" THEN s.events ELSE {}
<1>1. CASE \E v \in s.events : h = EmitEvents(g, {v}) /\ s.op = "emit"
    BY <1>1 DEF EmitEvents, Graph
<1>2. CASE h = UpsertIdentity(g, s.ent, s.status, s.into)
    BY <1>2 DEF UpsertIdentity, Graph
<1>3. CASE \E r \in s.recs : h = UpsertRecord(g, r, s.ent)
    BY <1>3 DEF UpsertRecord, Graph
<1>4. CASE \E e \in s.ents : h = RetireIdentity(g, e, s.into)
    BY <1>4 DEF RetireIdentity, Graph
<1>5. CASE \E x \in s.edges : h = AddEdges(g, {x})
    BY <1>5 DEF AddEdges, Graph
<1>6. CASE h = AddVerdict(g, s.pair, s.res)
    BY <1>6 DEF AddVerdict, Graph
<1> QED BY <1>1, <1>2, <1>3, <1>4, <1>5, <1>6, ExecutesShape

\* A step of a client keeps what has been merged.
LEMMA SaysGoesOn ==
    ASSUME NEW g, NEW h, Rows(g) \subseteq Rows(h),
           \A e \in Rows(g) : Active(h, e) => Active(g, e)
    PROVE  /\ \A x : MergeSays(g, x) => MergeSays(h, x)
           /\ \A x, y : /\ MergeSays(g, y) /\ y.stmt = x.stmt /\ y.ahead \subseteq x.ahead
                        => MergeSays(h, x)
BY RowsType DEF MergeSays

LEMMA StandWrites ==
    ASSUME BaseInv, StewardInv, StandInv, NEW p \in Client, Write(p)
    PROVE  StandInv'
<1> DEFINE s == Statement(p)
           g == durable
           h == durable'
<1>1. /\ todo[p] # <<>> /\ s \in AgreeingStmt /\ s \in Stmts(todo[p]) /\ s.op # "absorb"
      /\ \A q \in Client \ {p} : todo'[q] = todo[q]
    BY StewardWrites
<1>2. PICK rest \in Seq(AgreeingStmt) :
        Executes(s, g, h, rest) /\ todo'[p] = rest \o Tail(todo[p])
    BY StewardWrites
<1>3. g \in Graph /\ todo[p] \in Seq(AgreeingStmt) /\ s = Head(todo[p])
    BY StewardStore DEF BaseInv, IInv, CallInv, Statement
<1>4. Rows(g) \subseteq Rows(h)
    BY <1>1, <1>2, <1>3, ExecutesNodes
<1>5. s.op = "node" => s.ent \notin Rows(g)
    BY <1>1 DEF StewardInv
<1>6. ASSUME NEW e \in Rows(g), Active(h, e) PROVE Active(g, e)
    BY <1>1, <1>2, <1>3, <1>5, <1>6, ExecutesNodes DEF Active, Rows
<1>7. MergeSays(g, [stmt |-> s, ahead |-> {}])
    <2>1. [stmt |-> s, ahead |-> {}] \in Queue(todo[p])
        BY <1>1, <1>3, QueueHead
    <2> QED BY <2>1 DEF StandInv
<1>8. ASSUME NEW v \in h.log, v.into # NoEntity PROVE ~Active(h, v.ent)
    <2>1. v.ent \in Rows(g) /\ ~Active(g, v.ent)
        <3>1. CASE v \in g.log
            BY <1>8, <3>1, PointsAt DEF StandInv, BaseInv, RefInv, StoreRefs
        <3>2. CASE s.op = "emit" /\ v \in s.events
            BY <1>7, <1>8, <3>2, RowsType DEF MergeSays
        <3> QED BY <1>2, <1>3, <3>1, <3>2, ExecutesEvents
    <2> QED BY <1>6, <2>1
<1>9. ASSUME NEW x \in Queue(rest) PROVE MergeSays(h, x)
    <2>1. x.stmt \in Stmts(rest)
        BY QueueStmts
    <2>2. x.stmt.op = "emit" => s.op = "emit" /\ x.stmt.events \subseteq s.events
        BY <1>1, <1>2, <2>1, StatementsLeft
    <2>3. MergeSays(g, x)
        BY <1>7, <2>2 DEF MergeSays
    <2> QED BY <1>4, <1>6, <2>3, SaysGoesOn
<1>10. ASSUME NEW x \in Queue(todo'[p]) PROVE MergeSays(h, x)
    <2>1. CASE x \in Queue(rest)
        BY <1>9, <2>1
    <2>2. ASSUME NEW y \in Queue(todo[p]), y.stmt = x.stmt, y.ahead \subseteq {s} \cup x.ahead,
                 Stmts(rest) \subseteq x.ahead
          PROVE  MergeSays(h, x)
        <3>1. MergeSays(g, y)
            BY DEF StandInv
        <3>2. CASE s.op # "retire"
            BY <1>4, <1>6, <2>2, <3>1, <3>2, RowsType DEF MergeSays
        <3>3. CASE s.op = "retire"
            <4>1. ASSUME NEW e \in s.ents, e \in Rows(g), Active(h, e)
                  PROVE  \E t \in x.ahead : t.op = "retire" /\ e \in t.ents
                <5>1. h.status[e] # "merged_into" /\ e \in Entity /\ Exists(g, e)
                    BY <4>1, RowsType DEF Active
                <5>2. \E t \in Stmts(rest) : t.op = "retire" /\ t.into = s.into /\ e \in t.ents
                    BY <1>1, <1>2, <1>3, <3>3, <5>1, ExecutesNodes
                <5> QED BY <2>2, <5>2
            <4> QED BY <1>4, <1>6, <2>2, <3>1, <4>1, RowsType DEF MergeSays
        <3> QED BY <3>2, <3>3
    <2> QED BY <1>1, <1>2, <1>3, <2>1, <2>2, QueueStep
<1>11. ASSUME NEW q \in Client, q # p, NEW x \in Queue(todo'[q]) PROVE MergeSays(h, x)
    BY <1>1, <1>4, <1>6, <1>11, SaysGoesOn DEF StandInv
<1> QED BY <1>8, <1>10, <1>11 DEF StandInv

LEMMA StandReads ==
    ASSUME BaseInv, StewardInv, StandInv, NEW p \in Client, Read(p)
    PROVE  StandInv'
<1> USE SilentPrograms, SilentSays
<1>1. pc[p] \notin BatchPC /\ View(p) = durable
    BY StewardStore DEF StewardInv
<1>2. ASSUME NEW next, NEW prog, NEW l, Continue(p, next, prog, l), UNCHANGED storeVars,
             \/ Silent(prog)
             \/ \E rs, gone, keep, kind : /\ prog = MergeProgram(rs, gone, keep, kind)
                                          /\ Exists(durable, gone)
      PROVE  StandInv'
    <2>1. durable' = durable
        BY <1>2 DEF storeVars
    <2>2. \A x \in Queue(prog) : MergeSays(durable, x)
        BY <1>2, MergeProgramSays
    <2> QED BY <1>2, <2>1, <2>2, StandGoesOn
<1>3. ASSUME GiveUp(p), UNCHANGED storeVars PROVE StandInv'
    BY <1>2, <1>3 DEF GiveUp
<1>4. ASSUME MergeCheck(p) \/ MergeCheckOther(p) PROVE StandInv'
    BY <1>2, <1>3, <1>4 DEF MergeCheck, MergeCheckOther
<1>5. ASSUME MergeRecords(p) PROVE StandInv'
    <2> DEFINE prog == MergeProgram(RecordsOf(View(p), local[p].other), local[p].other,
                                    local[p].ent, "manual_merge")
    <2>1. Continue(p, "return", prog, local[p]) /\ UNCHANGED storeVars
        BY <1>5 DEF MergeRecords, MergeProgram
    <2>2. Exists(durable, local[p].other)
        BY <1>1, <1>5, RowsType DEF MergeRecords, At, BaseInv, RefInv, CallRefs, Remembers
    <2> QED BY <1>2, <2>1, <2>2
<1>6. ASSUME SplitCheck(p) PROVE StandInv'
    BY <1>2, <1>3, <1>6 DEF SplitCheck
<1>7. ASSUME ClaimTarget(p) PROVE StandInv'
    BY <1>2, <1>3, <1>7 DEF ClaimTarget
<1>8. ASSUME ClaimRecord(p) PROVE StandInv'
    BY <1>2, <1>3, <1>8 DEF ClaimRecord
<1>9. ASSUME MediateFind(p) \/ MediateFindOther(p) PROVE StandInv'
    BY <1>2, <1>9, MediateFinds
<1>10. ASSUME MediateAct(p) PROVE StandInv'
    <2> DEFINE said == IF local[p].ent = NoEntity THEN {}
                       ELSE {Ev("conflict_mediated", local[p].ent, NoEntity)}
               split == SplitProgram(local[p].ent, {local[p].b})
               prog == Append(split, Emit(said))
    <2>1. \A v \in said : v.into = NoEntity
        BY DEF Ev
    <2>2. CASE Continue(p, "return", <<Emit(said)>>, local[p])
        <3>1. Silent(<<Emit(said)>>)
            BY <2>1
        <3> QED BY <1>2, <1>10, <2>2, <3>1 DEF MediateAct
    <2>3. CASE Continue(p, "return", prog, local[p])
        <3>1. Silent(split) /\ Stmts(prog) = Stmts(split) \cup {Emit(said)}
            BY AppendedSplit
        <3> HIDE DEF split, said
        <3>2. Silent(prog)
            BY <2>1, <3>1 DEF Silent, Emit
        <3> QED BY <1>2, <1>10, <2>3, <3>2 DEF MediateAct
    <2> QED BY <1>10, <2>2, <2>3 DEF MediateAct
<1>11. ASSUME StabilizeScan(p) PROVE StandInv'
    BY <1>2, <1>11 DEF StabilizeScan
<1>12. ASSUME StabilizeGroup(p) PROVE StandInv'
    <2>1. PICK next \in {"loser", "group"} : \E l : Continue(p, next, <<>>, l)
        BY <1>12 DEF StabilizeGroup
    <2> QED BY <1>2, <1>12, <2>1 DEF StabilizeGroup
<1>13. ASSUME StabilizeLoser(p) PROVE StandInv'
    <2> DEFINE prog(e) == MergeProgram(RecordsOf(View(p), e), e, local[p].ent, "consolidated")
               l(e) == [local[p] EXCEPT !.others = local[p].others \ {e}]
    <2>1. PICK e \in local[p].others :
            IF Active(View(p), e) THEN Continue(p, "loser", prog(e), l(e))
                                  ELSE Continue(p, "loser", <<>>, l(e))
        BY <1>13 DEF StabilizeLoser, MergeProgram
    <2>2. Active(View(p), e) => Exists(durable, e)
        BY <1>1, ExistsType
    <2> QED BY <1>2, <1>13, <2>1, <2>2 DEF StabilizeLoser
<1>14. ASSUME StabilizeNext(p) PROVE StandInv'
    BY <1>2, <1>14 DEF StabilizeNext
<1> QED BY <1>1, <1>4, <1>5, <1>6, <1>7, <1>8, <1>9, <1>10, <1>11, <1>12, <1>13, <1>14
        DEF Read, ResolveLookup, ResolveNodes, ResolveSkip, ResolveAccumulate, ResolveCreate,
            ResolveAbsorb, ResolveMerge, ResolveFinish, DetMergeRead, DetMergeWrite,
            AtCluster, At, BatchPC

LEMMA StandInit ==
    ASSUME Init
    PROVE  StandInv
<1>1. ASSUME NEW v \in durable.log PROVE v.into = NoEntity
    BY <1>1 DEF Init, SeedGraph, BulkWrite, EmptyGraph
<1> QED BY <1>1, QueueOfTuples DEF Init, StandInv

LEMMA StandNext ==
    ASSUME BaseInv, StewardInv, StandInv, "resolve" \notin Calls, [Next]_vars
    PROVE  StandInv'
<1> USE SilentPrograms, SilentSays
<1>1. ASSUME NEW p \in Client, Invoke(p) PROVE StandInv'
    <2>1. PICK first \in {"check", "split", "target", "find", "scan"} : \E l : Begin(p, first, l)
        BY <1>1, StewardInvokes
    <2> QED BY <2>1, StandGoesOn DEF Begin, storeVars
<1>2. ASSUME NEW p \in Client, Return(p) \/ Fail(p) PROVE StandInv'
    <2>1. durable' = durable
        BY <1>2 DEF Return, Fail, Commit, storeVars
    <2> QED BY <1>2, <2>1, StandGoesOn DEF Return, Fail
<1>3. CASE UNCHANGED vars
    BY <1>3 DEF vars, StandInv
<1>4. ASSUME NEW p \in Client PROVE ~DetMergeFails(p)
    BY DEF DetMergeFails, At, StewardInv, BatchPC
<1> QED BY <1>1, <1>2, <1>3, <1>4, StandReads, StandWrites DEF Next, Step, Done

\* Where batches are not resolved, an entity that the log says was merged into
\* another is never active again, whatever stewards and stabilization do at the
\* same time and wherever one of them fails.
THEOREM LoggedMergesAlwaysStand ==
    ASSUME "resolve" \notin Calls
    PROVE  Spec => []LoggedMergesStand
<1>1. Init => StewardInv /\ StandInv
    BY StewardInit, StandInit
<1>2. BaseInv /\ (StewardInv /\ StandInv) /\ [Next]_vars => (StewardInv /\ StandInv)'
    BY StewardNext, StandNext
<1>3. StandInv => LoggedMergesStand
    BY DEF StandInv, LoggedMergesStand
<1> QED BY <1>1, <1>2, <1>3, BaseInvariance, PTL DEF Spec

----------------------------------------------------------------------------
(* One steward at a time: an entity that is merged away has been emptied    *)
(* before, and what it was merged into stays active.                       *)

\* e is active when its turn comes, behind the statements in ahead.
WillBeActive(g, e, ahead) ==
    Active(g, e) \/ \E s \in ahead : s.op = "node" /\ s.ent = e

\* A program retires at most once, entities its attaches have emptied, into
\* one that is active; and records are attached to entities that stay.
Emptied(g, es, ahead) ==
    \A r \in Record : g.owner[r] \in es => \E s \in ahead : s.op = "attach" /\ r \in s.recs
RetiresWell(g, x) ==
    x.stmt.op = "retire" =>
        /\ Active(g, x.stmt.into) /\ x.stmt.into \notin x.stmt.ents
        /\ \A s \in x.ahead : s.op # "retire"
        /\ Emptied(g, x.stmt.ents, x.ahead)
GivesWell(g, x, prog) ==
    x.stmt.op \in {"attach", "move"} =>
        /\ WillBeActive(g, x.stmt.ent, x.ahead)
        /\ \A t \in Stmts(prog) : t.op = "retire" => x.stmt.ent \notin t.ents
Grafts(g, prog) == \A x \in Queue(prog) : RetiresWell(g, x) /\ GivesWell(g, x, prog)

\* The entity a call keeps is active, and never the one it retires.
Keeps(g, next, l, prog) ==
    /\ next \in {"other", "records", "record", "loser"} =>
          Active(g, l.ent) /\ \A s \in Stmts(prog) : s.op = "retire" => s.into = l.ent
    /\ next \in {"check", "other", "records"} => l.ent # l.other
    /\ next = "loser" => l.ent \notin l.others

\* What has been merged away is empty, and merges end.
Tidy(g) ==
    /\ \A e \in Entity : g.status[e] = "merged_into" => RecordsOf(g, e) = {}
    /\ \A es \in (SUBSET Entity) \ {{}} : \E e \in es : g.into[e] \notin es

GraftInv ==
    /\ Tidy(durable)
    /\ \A p \in Client : Grafts(durable, todo[p]) /\ Keeps(durable, pc[p], local[p], todo[p])

LEMMA GraftGoesOn ==
    ASSUME BaseInv, OneClient, GraftInv, NEW p \in Client, NEW next, NEW prog, NEW l,
           Continue(p, next, prog, l), durable' = durable,
           Grafts(durable, prog), Keeps(durable, next, l, prog)
    PROVE  GraftInv'
<1>1. /\ pc'[p] = next /\ todo'[p] = prog /\ local'[p] = l
    BY DEF Continue, BaseInv, IInv, CallInv
<1>2. Tidy(durable)'
    BY DEF GraftInv, Tidy, RecordsOf
<1>3. \A q \in Client : q = p
    BY DEF OneClient
<1> QED BY <1>1, <1>2, <1>3 DEF GraftInv

\* Programs that retire nothing and give records to nobody, to an active
\* entity, to a new one; and merging.
LEMMA GraftPrograms ==
    ASSUME NEW g
    PROVE  /\ Grafts(g, <<>>)
           /\ \A x : Grafts(g, <<Emit(x)>>)
           /\ \A q, res : Grafts(g, <<RecordVerdict(q, res)>>)
           /\ \A rs, e, x, y : Active(g, e) => Grafts(g, <<Attach(rs, e), Emit(x), Emit(y)>>)
<1>1. \A rs, e : Attach(rs, e).op = "attach" /\ Attach(rs, e).ent = e
    BY DEF Attach
<1>2. \A x : Emit(x).op = "emit"
    BY DEF Emit
<1>3. ASSUME NEW rs, NEW e, NEW x, NEW y, Active(g, e)
      PROVE  Grafts(g, <<Attach(rs, e), Emit(x), Emit(y)>>)
    <2> DEFINE a == Attach(rs, e)
               b == Emit(x)
               c == Emit(y)
    <2>1. a.op = "attach" /\ a.ent = e /\ b.op = "emit" /\ c.op = "emit"
        BY <1>1, <1>2
    <2> HIDE DEF a, b, c
    <2>2. /\ Queue(<<a, b, c>>) = {[stmt |-> a, ahead |-> {}], [stmt |-> b, ahead |-> {a}],
                                   [stmt |-> c, ahead |-> {a, b}]}
          /\ Stmts(<<a, b, c>>) = {a, b, c}
        BY QueueOfTuples, StmtsOfTuples
    <2>3. Grafts(g, <<a, b, c>>)
        BY <1>3, <2>1, <2>2 DEF Grafts, RetiresWell, GivesWell, WillBeActive
    <2> QED BY <2>3 DEF a, b, c
<1>4. \A s : s.op \in {"emit", "verdict"} => Grafts(g, <<s>>)
    BY QueueOfTuples DEF Grafts, RetiresWell, GivesWell
<1>5. \A q, res : RecordVerdict(q, res).op = "verdict"
    BY DEF RecordVerdict
<1>6. Grafts(g, <<>>)
    BY QueueOfTuples DEF Grafts
<1> QED BY <1>2, <1>3, <1>4, <1>5, <1>6

LEMMA GraftMerge ==
    ASSUME NEW g, NEW gone, NEW keep, NEW kind, Active(g, keep), gone # keep
    PROVE  LET prog == MergeProgram(RecordsOf(g, gone), gone, keep, kind)
           IN Grafts(g, prog) /\ \A s \in Stmts(prog) : s.op = "retire" => s.into = keep
<1> DEFINE rs == RecordsOf(g, gone)
           a == Attach(rs, keep)
           b == Retire({gone}, keep)
           c == Emit({Ev(kind, keep, NoEntity)})
           d == Emit({Ev(kind, gone, keep)})
<1>1. MergeProgram(rs, gone, keep, kind) = <<a, b, c, d>>
    BY DEF MergeProgram
<1>2. /\ a.op = "attach" /\ a.recs = rs /\ a.ent = keep
      /\ b.op = "retire" /\ b.ents = {gone} /\ b.into = keep
      /\ c.op = "emit" /\ d.op = "emit"
    BY DEF Attach, Retire, Emit
<1> HIDE DEF a, b, c, d
<1>3. Queue(<<a, b, c, d>>) =
           {[stmt |-> a, ahead |-> {}], [stmt |-> b, ahead |-> {a}],
            [stmt |-> c, ahead |-> {a, b}], [stmt |-> d, ahead |-> {a, b, c}]}
    BY QueueOfTuples
<1>4. Stmts(<<a, b, c, d>>) = {a, b, c, d}
    BY StmtsOfTuples
<1>5. Emptied(g, {gone}, {a})
    BY <1>2 DEF Emptied, RecordsOf
<1>6. ASSUME NEW x \in Queue(<<a, b, c, d>>)
      PROVE  RetiresWell(g, x) /\ GivesWell(g, x, <<a, b, c, d>>)
    <2>1. CASE x = [stmt |-> a, ahead |-> {}]
        BY <1>2, <1>4, <2>1 DEF RetiresWell, GivesWell, WillBeActive
    <2>2. CASE x = [stmt |-> b, ahead |-> {a}]
        BY <1>2, <1>5, <2>2 DEF RetiresWell, GivesWell
    <2>3. CASE x.stmt \in {c, d}
        BY <1>2, <2>3 DEF RetiresWell, GivesWell
    <2> QED BY <1>3, <2>1, <2>2, <2>3
<1> QED BY <1>1, <1>2, <1>4, <1>6 DEF Grafts

LEMMA GraftSplit ==
    ASSUME NEW g, NEW e, NEW rs
    PROVE  Grafts(g, SplitProgram(e, rs)) /\ \A x : Grafts(g, Append(SplitProgram(e, rs), Emit(x)))
<1> DEFINE a == Node(NextEntity, "active", NoEntity)
           b == Move(rs, e, NextEntity)
           c == Emit({Ev("manual_split", e, NoEntity)})
           d == Emit({Ev("manual_split", NextEntity, NoEntity)})
<1>1. SplitProgram(e, rs) = <<a, b, c, d>>
    BY DEF SplitProgram
<1>2. /\ a.op = "node" /\ a.ent = NextEntity /\ b.op = "move" /\ b.ent = NextEntity
      /\ c.op = "emit" /\ d.op = "emit" /\ \A x : Emit(x).op = "emit"
    BY DEF Node, Move, Emit
<1> HIDE DEF a, b, c, d
<1>3. Queue(<<a, b, c, d>>) =
           {[stmt |-> a, ahead |-> {}], [stmt |-> b, ahead |-> {a}],
            [stmt |-> c, ahead |-> {a, b}], [stmt |-> d, ahead |-> {a, b, c}]}
    BY QueueOfTuples
<1>4. Stmts(<<a, b, c, d>>) = {a, b, c, d}
    BY StmtsOfTuples
<1>5. ASSUME NEW prog, NEW x \in Queue(prog),
             x \in Queue(<<a, b, c, d>>) \/ x.stmt.op = "emit",
             \A s \in Stmts(prog) : s.op # "retire"
      PROVE  RetiresWell(g, x) /\ GivesWell(g, x, prog)
    <2>1. CASE x = [stmt |-> b, ahead |-> {a}]
        BY <1>2, <1>5, <2>1 DEF RetiresWell, GivesWell, WillBeActive
    <2>2. CASE x.stmt \in {a, c, d} \/ x.stmt.op = "emit"
        BY <1>2, <2>2 DEF RetiresWell, GivesWell
    <2> QED BY <1>3, <1>5, <2>1, <2>2
<1>6. Grafts(g, <<a, b, c, d>>)
    BY <1>2, <1>4, <1>5 DEF Grafts
<1>7. ASSUME NEW x PROVE Grafts(g, Append(SplitProgram(e, rs), Emit(x)))
    <2> DEFINE s == SplitProgram(e, rs)
               prog == Append(s, Emit(x))
               T == {a, b, c, d}
    <2>1. Stmts(prog) = Stmts(s) \cup {Emit(x)}
        BY AppendedSplit
    <2>2. s \in Seq(T) /\ Len(s) = 4
        BY <1>1
    <2>3. \A y \in Queue(prog) : y \in Queue(s) \/ y.stmt = Emit(x)
        BY <2>2, QueueAppend
    <2>4. \A t \in Stmts(prog) : t.op # "retire"
        BY <1>1, <1>2, <1>4, <2>1
    <2> HIDE DEF prog, s
    <2>5. \A y \in Queue(prog) : y \in Queue(<<a, b, c, d>>) \/ y.stmt.op = "emit"
        BY <1>1, <1>2, <2>3 DEF s
    <2>6. Grafts(g, prog)
        BY <1>5, <2>4, <2>5 DEF Grafts
    <2> QED BY <2>6 DEF prog, s
<1> QED BY <1>1, <1>6, <1>7

\* Retiring what is empty into what stays active.
LEMMA TidyRetire ==
    ASSUME NEW g \in Graph, PointersAgree(g), Tidy(g), NEW h, NEW e \in Entity, NEW in,
           h = RetireIdentity(g, e, in), Active(g, in), in # e, RecordsOf(g, e) = {}
    PROVE  Tidy(h)
<1>1. CASE ~Exists(g, e)
    BY <1>1 DEF RetireIdentity
<1>2. CASE Exists(g, e)
    <2>1. in # NoEntity /\ in \in Entity /\ g.into[in] = NoEntity /\ NoEntity \notin Entity
        BY MaxEntityAssumption DEF Active, Entity, NoEntity, PointersAgree
    <2>2. /\ h.owner = g.owner
          /\ h.into = [g.into EXCEPT ![e] = in]
          /\ h.status = [g.status EXCEPT ![e] = "merged_into"]
        BY <1>2, <2>1 DEF RetireIdentity, Graph
    <2>3. /\ \A f \in Entity : f # e => h.into[f] = g.into[f] /\ h.status[f] = g.status[f]
          /\ h.into[e] = in /\ \A f \in Entity : RecordsOf(h, f) = RecordsOf(g, f)
        BY <2>2 DEF Graph, RecordsOf
    <2>4. ASSUME NEW es \in (SUBSET Entity) \ {{}} PROVE \E f \in es : h.into[f] \notin es
        <3>1. CASE in \in es
            BY <2>1, <2>3, <2>4, <3>1
        <3>2. CASE in \notin es /\ e \in es
            BY <2>3, <3>2
        <3>3. CASE e \notin es
            <4>1. PICK f \in es : g.into[f] \notin es
                BY <2>4 DEF Tidy
            <4> QED BY <2>3, <3>3, <4>1
        <3> QED BY <3>1, <3>2, <3>3
    <2> QED BY <2>3, <2>4 DEF Tidy
<1> QED BY <1>1, <1>2

LEMMA TidyKept ==
    ASSUME NEW g, NEW h, Tidy(g),
           \A e \in Entity : /\ h.into[e] = g.into[e]
                             /\ h.status[e] = "merged_into" => g.status[e] = "merged_into"
                             /\ h.status[e] = "merged_into" => RecordsOf(h, e) \subseteq RecordsOf(g, e)
    PROVE  Tidy(h)
<1>1. ASSUME NEW es \in (SUBSET Entity) \ {{}} PROVE \E e \in es : h.into[e] \notin es
    <2>1. PICK e \in es : g.into[e] \notin es
        BY DEF Tidy
    <2> QED BY <2>1
<1>2. ASSUME NEW e \in Entity, h.status[e] = "merged_into" PROVE RecordsOf(h, e) = {}
    BY <1>2 DEF Tidy
<1> QED BY <1>1, <1>2 DEF Tidy

\* The statements left, of those that retire or give.
LEMMA GraftLeft ==
    ASSUME NEW s \in AgreeingStmt, NEW g, NEW h, NEW rest, Executes(s, g, h, rest), s.op # "absorb",
           s.op # "carry"
    PROVE  /\ \A t \in Stmts(rest) :
                 /\ t.op = "retire" => s.op = "retire" /\ t.into = s.into /\ t.ents \subseteq s.ents
                 /\ t.op \in {"attach", "move"} => s.op \in {"attach", "move"} /\ t.ent = s.ent
           /\ s.op = "retire" => \A x \in Queue(rest) : x.ahead = {}
<1>1. ASSUME s.op = "retire" PROVE \A x \in Queue(rest) : x.ahead = {}
    <2>1. rest = <<>> \/ \E e \in s.ents : rest = <<Retire(s.ents \ {e}, s.into)>>
        BY <1>1 DEF Executes
    <2>2. \A a : \A x \in Queue(<<a>>) : x.ahead = {}
        BY QueueOfTuples
    <2>3. Queue(<<>>) = {}
        BY QueueOfTuples
    <2> QED BY <2>1, <2>2, <2>3
<1> QED BY <1>1, StatementsLeft

\* The first statement of a program that grafts.
GraftHead(s, g) ==
    /\ s \in AgreeingStmt /\ s.op \notin {"absorb", "carry", "link"}
    /\ s.op = "node" => s.ent \notin Rows(g) /\ s.status = "active"
    /\ s.op = "retire" => /\ Active(g, s.into) /\ s.into \notin s.ents
                          /\ \A r \in Record : g.owner[r] \notin s.ents
    /\ s.op \in {"attach", "move"} => Active(g, s.ent)

\* What it makes of nodes and owners.
LEMMA GraftExecutes ==
    ASSUME NEW g \in Graph, NEW s, NEW h, NEW rest, Executes(s, g, h, rest), GraftHead(s, g)
    PROVE  /\ \A e : Active(g, e) /\ ~Active(h, e) => s.op = "retire" /\ e \in s.ents
           /\ s.op = "node" => Active(h, s.ent)
<1>1. /\ \A e \in Entity : s.op = "node" /\ e = s.ent => h.status[e] = s.status /\ h.into[e] = s.into
      /\ \A e \in Entity :
             h.status[e] # g.status[e] \/ h.into[e] # g.into[e] =>
                \/ s.op = "node" /\ e = s.ent
                \/ s.op = "retire" /\ e \in s.ents
    <2>1. s \in AgreeingStmt
        BY DEF GraftHead
    <2>2. \A e \in Entity : s.op = "node" /\ e = s.ent => h.status[e] = s.status /\ h.into[e] = s.into
        BY <2>1, ExecutesNodes
    <2>3. \A e \in Entity :
             h.status[e] # g.status[e] \/ h.into[e] # g.into[e] =>
                    \/ s.op = "node" /\ e = s.ent
                    \/ /\ s.op = "retire" /\ e \in s.ents /\ ~Active(h, e)
                       /\ h.status[e] = "merged_into" /\ h.into[e] = s.into
        BY <2>1, ExecutesNodes
    <2> QED BY <2>2, <2>3
<1>2. s.op = "node" => s.ent \in Entity
    BY StmtFields DEF GraftHead
<1> QED BY <1>1, <1>2 DEF GraftHead, Active, Rows, Exists

LEMMA TidyExecutes ==
    ASSUME NEW g \in Graph, PointersAgree(g), Tidy(g), NEW s, NEW h, NEW rest,
           Executes(s, g, h, rest), GraftHead(s, g)
    PROVE  Tidy(h)
<1>1. CASE h = g
    BY <1>1
<1>2. CASE s.op = "node" /\ h = UpsertIdentity(g, s.ent, s.status, s.into)
    <2>1. s.ent \in Entity /\ s.status = "active" /\ s.into = NoEntity
        BY <1>2, StmtFields DEF GraftHead, AgreeingStmt
    <2>2. g.into[s.ent] = NoEntity
        BY <1>2, <2>1 DEF GraftHead, PointersAgree, Rows, Exists
    <2>3. /\ h.owner = g.owner
          /\ h.into = [g.into EXCEPT ![s.ent] = NoEntity]
          /\ h.status = [g.status EXCEPT ![s.ent] = "active"]
        BY <1>2, <2>1 DEF UpsertIdentity, Graph
    <2>4. \A e \in Entity : /\ h.into[e] = g.into[e]
                            /\ h.status[e] = "merged_into" => g.status[e] = "merged_into"
        BY <2>1, <2>2, <2>3 DEF Graph
    <2>5. \A e \in Entity : RecordsOf(h, e) = RecordsOf(g, e)
        BY <2>3 DEF RecordsOf
    <2> QED BY <2>4, <2>5, TidyKept
<1>3. ASSUME s.op = "attach", NEW r \in s.recs, h = UpsertRecord(g, r, s.ent)
      PROVE  Tidy(h)
    <2>1. h.status = g.status /\ h.into = g.into /\ h.owner = [g.owner EXCEPT ![r] = s.ent]
        BY <1>3 DEF UpsertRecord, Graph
    <2>2. g.status[s.ent] = "active"
        BY <1>3 DEF GraftHead, Active
    <2>3. \A e \in Entity : e # s.ent => RecordsOf(h, e) \subseteq RecordsOf(g, e)
        BY <2>1 DEF RecordsOf, Graph
    <2> QED BY <2>1, <2>2, <2>3, TidyKept
<1>4. ASSUME s.op = "retire", NEW e \in s.ents, h = RetireIdentity(g, e, s.into)
      PROVE  Tidy(h)
    <2>1. e \in Entity
        BY <1>4, StmtFields DEF GraftHead
    <2>2. Active(g, s.into) /\ s.into # e /\ RecordsOf(g, e) = {}
        BY <1>4 DEF GraftHead, RecordsOf
    <2> QED BY <1>4, <2>1, <2>2, TidyRetire
<1>5. CASE \/ \E v \in s.events : h = EmitEvents(g, {v})
           \/ \E x \in s.edges : h = AddEdges(g, {x})
           \/ h = AddVerdict(g, s.pair, s.res)
    <2>1. h.status = g.status /\ h.into = g.into /\ h.owner = g.owner
        BY <1>5 DEF EmitEvents, AddEdges, AddVerdict, Graph
    <2>2. \A e \in Entity : RecordsOf(h, e) = RecordsOf(g, e)
        BY <2>1 DEF RecordsOf
    <2> QED BY <2>1, <2>2, TidyKept
<1> QED BY <1>1, <1>2, <1>3, <1>4, <1>5, ExecutesShape

LEMMA GraftStep ==
    ASSUME NEW g \in Graph, NEW prog \in Seq(AgreeingStmt), prog # <<>>, Grafts(g, prog),
           NEW s, s = Head(prog), GraftHead(s, g), NEW h, NEW rest \in Seq(AgreeingStmt),
           Executes(s, g, h, rest)
    PROVE  Grafts(h, rest \o Tail(prog))
<1> DEFINE next == rest \o Tail(prog)
<1>1. Stmts(prog) = {s} \cup Stmts(Tail(prog)) /\ Stmts(next) = Stmts(rest) \cup Stmts(Tail(prog))
    BY ProgramStep
<1>2. /\ \A t \in Stmts(rest) :
            /\ t.op = "retire" => s.op = "retire" /\ t.into = s.into /\ t.ents \subseteq s.ents
            /\ t.op \in {"attach", "move"} => s.op \in {"attach", "move"} /\ t.ent = s.ent
      /\ s.op = "retire" => \A x \in Queue(rest) : x.ahead = {}
    BY GraftLeft DEF GraftHead
<1>3. /\ \A e : Active(g, e) /\ ~Active(h, e) => s.op = "retire" /\ e \in s.ents
      /\ s.op = "node" => Active(h, s.ent)
    BY GraftExecutes
<1>4. OwnersGo(s, g, h, rest)
    BY ExecutesOwner
<1>5. GivesWell(g, [stmt |-> s, ahead |-> {}], prog)
    BY QueueHead DEF Grafts
<1>6. \A t \in Stmts(next) : t.op = "retire" =>
          \E u \in Stmts(prog) : u.op = "retire" /\ t.into = u.into /\ t.ents \subseteq u.ents
    BY <1>1, <1>2
<1> HIDE DEF next
<1>7. ASSUME NEW x \in Queue(rest) PROVE RetiresWell(h, x) /\ GivesWell(h, x, next)
    <2>1. x.stmt \in Stmts(rest)
        BY QueueStmts
    <2>2. RetiresWell(h, x)
        <3> SUFFICES ASSUME x.stmt.op = "retire" PROVE RetiresWell(h, x)
            BY DEF RetiresWell
        <3>1. s.op = "retire" /\ x.stmt.into = s.into /\ x.stmt.ents \subseteq s.ents
              /\ x.ahead = {}
            BY <1>2, <2>1
        <3>2. Active(h, s.into) /\ s.into \notin s.ents
            BY <1>3, <3>1 DEF GraftHead
        <3>3. \A r \in Record : h.owner[r] \notin s.ents
            BY <1>4, <3>1 DEF GraftHead, OwnersGo
        <3> QED BY <3>1, <3>2, <3>3 DEF RetiresWell, Emptied
    <2>3. GivesWell(h, x, next)
        <3> SUFFICES ASSUME x.stmt.op \in {"attach", "move"} PROVE GivesWell(h, x, next)
            BY DEF GivesWell
        <3>1. s.op \in {"attach", "move"} /\ x.stmt.ent = s.ent
            BY <1>2, <2>1
        <3>2. Active(h, s.ent)
            BY <1>3, <3>1 DEF GraftHead
        <3>3. \A t \in Stmts(prog) : t.op = "retire" => s.ent \notin t.ents
            BY <1>5, <3>1 DEF GivesWell
        <3> QED BY <1>6, <3>1, <3>2, <3>3 DEF GivesWell, WillBeActive
    <2> QED BY <2>2, <2>3
<1>8. ASSUME NEW x, NEW y \in Queue(prog), y.stmt = x.stmt, s \in y.ahead,
             y.ahead \subseteq {s} \cup x.ahead, Stmts(rest) \subseteq x.ahead,
             x.ahead \subseteq y.ahead \cup Stmts(rest)
      PROVE  RetiresWell(h, x) /\ GivesWell(h, x, next)
    <2>1. RetiresWell(g, y) /\ GivesWell(g, y, prog) /\ x.stmt \in Stmts(prog)
        BY <1>8, QueueStmts DEF Grafts
    <2>2. RetiresWell(h, x)
        <3> SUFFICES ASSUME x.stmt.op = "retire" PROVE RetiresWell(h, x)
            BY DEF RetiresWell
        <3>1. /\ Active(g, x.stmt.into) /\ x.stmt.into \notin x.stmt.ents
              /\ \A t \in y.ahead : t.op # "retire"
              /\ Emptied(g, x.stmt.ents, y.ahead)
            BY <1>8, <2>1 DEF RetiresWell
        <3>2. s.op # "retire"
            BY <1>8, <3>1
        <3>3. Active(h, x.stmt.into)
            BY <1>3, <3>1, <3>2
        <3>4. \A t \in x.ahead : t.op # "retire"
            BY <1>2, <1>8, <3>1, <3>2
        <3>5. ASSUME NEW r \in Record, h.owner[r] \in x.stmt.ents
              PROVE  \E t \in x.ahead : t.op = "attach" /\ r \in t.recs
            <4>1. CASE h.owner = g.owner /\ (s.op = "attach" => s.recs = {})
                BY <1>8, <3>1, <3>5, <4>1 DEF Emptied
            <4>2. ASSUME s.op = "attach", NEW q \in s.recs, Gives(s, g, h, rest, q)
                  PROVE  \E t \in x.ahead : t.op = "attach" /\ r \in t.recs
                <5>1. s.ent \notin x.stmt.ents
                    BY <1>5, <2>1, <4>2 DEF GivesWell
                <5>2. g.owner[r] \in x.stmt.ents /\ r # q
                    BY <3>5, <4>2, <5>1 DEF Graph, Gives
                <5>3. PICK t \in y.ahead : t.op = "attach" /\ r \in t.recs
                    BY <3>1, <5>2 DEF Emptied
                <5>4. CASE t = s
                    <6>1. rest = <<Attach(s.recs \ {q}, s.ent)>> /\ r \in s.recs \ {q}
                        BY <4>2, <5>2, <5>3, <5>4 DEF Gives
                    <6>2. \A a : Stmts(<<a>>) = {a}
                        BY StmtsOfTuples
                    <6>3. Stmts(rest) = {Attach(s.recs \ {q}, s.ent)}
                        BY <6>1, <6>2
                    <6>4. Stmts(rest) \subseteq x.ahead
                        BY <1>8
                    <6>5. Attach(s.recs \ {q}, s.ent) \in x.ahead
                        BY <6>3, <6>4
                    <6> QED BY <6>1, <6>5 DEF Attach
                <5> QED BY <1>8, <5>3, <5>4
            <4> QED BY <1>4, <4>1, <4>2 DEF OwnersGo
        <3> QED BY <3>1, <3>3, <3>4, <3>5 DEF RetiresWell, Emptied
    <2>3. GivesWell(h, x, next)
        <3> SUFFICES ASSUME x.stmt.op \in {"attach", "move"} PROVE GivesWell(h, x, next)
            BY DEF GivesWell
        <3>1. \A t \in Stmts(prog) : t.op = "retire" => x.stmt.ent \notin t.ents
            BY <1>8, <2>1 DEF GivesWell
        <3>2. WillBeActive(g, x.stmt.ent, y.ahead)
            BY <1>8, <2>1 DEF GivesWell
        <3>3. s.op = "retire" => x.stmt.ent \notin s.ents
            BY <1>1, <3>1
        <3>4. WillBeActive(h, x.stmt.ent, x.ahead)
            BY <1>3, <1>8, <3>2, <3>3 DEF WillBeActive
        <3> QED BY <1>6, <3>1, <3>4 DEF GivesWell
    <2> QED BY <2>2, <2>3
<1>9. \A x \in Queue(next) :
         \/ x \in Queue(rest)
         \/ \E y \in Queue(prog) :
               /\ y.stmt = x.stmt /\ s \in y.ahead /\ y.ahead \subseteq {s} \cup x.ahead
               /\ Stmts(rest) \subseteq x.ahead /\ x.ahead \subseteq y.ahead \cup Stmts(rest)
    BY QueueStep DEF next
<1> QED BY <1>7, <1>8, <1>9 DEF Grafts, next

LEMMA GraftWrites ==
    ASSUME BaseInv, StewardInv, OneClient, GraftInv, NEW p \in Client, Write(p)
    PROVE  GraftInv'
<1> DEFINE s == Statement(p)
<1>1. /\ todo[p] # <<>> /\ s \in AgreeingStmt /\ s \in Stmts(todo[p])
      /\ s.op \notin {"absorb", "carry", "link"} /\ pc' = pc /\ local' = local
    BY StewardWrites
<1>2. PICK rest \in Seq(AgreeingStmt) :
        /\ Executes(s, durable, durable', rest) /\ todo'[p] = rest \o Tail(todo[p])
        /\ Stmts(todo[p]) = {s} \cup Stmts(Tail(todo[p]))
        /\ Stmts(todo'[p]) = Stmts(rest) \cup Stmts(Tail(todo[p]))
    BY StewardWrites
<1>3. durable \in Graph /\ PointersAgree(durable) /\ todo[p] \in Seq(AgreeingStmt) /\ s = Head(todo[p])
    BY StewardStore DEF BaseInv, IInv, CallInv, Statement, AgreeingGraph
<1>4. Tidy(durable) /\ Grafts(durable, todo[p]) /\ Keeps(durable, pc[p], local[p], todo[p])
    BY DEF GraftInv
<1>5. GraftHead(s, durable)
    <2>1. LET x == [stmt |-> s, ahead |-> {}]
          IN RetiresWell(durable, x) /\ GivesWell(durable, x, todo[p])
        BY <1>1, <1>3, <1>4, QueueHead DEF Grafts
    <2>2. s.op = "node" => s.ent \notin Rows(durable) /\ s.status = "active"
        BY <1>1 DEF StewardInv
    <2> QED BY <1>1, <2>1, <2>2 DEF GraftHead, RetiresWell, GivesWell, WillBeActive, Emptied
<1>6. Tidy(durable')
    BY <1>2, <1>3, <1>4, <1>5, TidyExecutes
<1>7. Grafts(durable', todo'[p])
    BY <1>1, <1>2, <1>3, <1>4, <1>5, GraftStep
<1>8. Keeps(durable', pc[p], local[p], todo'[p])
    <2>1. \A e : Active(durable, e) /\ ~Active(durable', e) => s.op = "retire" /\ e \in s.ents
        BY <1>2, <1>3, <1>5, GraftExecutes
    <2>2. \A t \in Stmts(rest) : t.op = "retire" => s.op = "retire" /\ t.into = s.into
        BY <1>2, <1>5, GraftLeft DEF GraftHead
    <2> QED BY <1>1, <1>2, <1>4, <1>5, <2>1, <2>2 DEF Keeps, GraftHead
<1>9. Tidy(durable)' /\ \A q \in Client : q = p
    BY <1>6 DEF OneClient, Tidy, RecordsOf
<1> QED BY <1>1, <1>7, <1>8, <1>9 DEF GraftInv, Grafts, RetiresWell, GivesWell, Emptied, WillBeActive,
                                       Active, Keeps

LEMMA GraftReads ==
    ASSUME BaseInv, StewardInv, OneClient, GraftInv, NEW p \in Client, Read(p)
    PROVE  GraftInv'
<1> USE GraftPrograms, GraftGoesOn
<1>1. pc[p] \notin BatchPC /\ View(p) = durable
    BY StewardStore DEF StewardInv
<1>2. ASSUME NEW next, next \notin {"check", "other", "records", "record", "loser"}, NEW prog, NEW l,
             Continue(p, next, prog, l), UNCHANGED storeVars, Grafts(durable, prog)
      PROVE  GraftInv'
    BY <1>2 DEF storeVars, Keeps
<1>3. ASSUME GiveUp(p), UNCHANGED storeVars PROVE GraftInv'
    BY <1>2, <1>3 DEF GiveUp
<1>4. Keeps(durable, pc[p], local[p], todo[p]) /\ Stmts(<<>>) = {}
    BY StmtsOfTuples DEF GraftInv
<1>5. ASSUME MergeCheck(p) PROVE GraftInv'
    <2>1. CASE Continue(p, "other", <<>>, local[p]) /\ Active(durable, local[p].ent)
        <3>1. Keeps(durable, "other", local[p], <<>>)
            BY <1>4, <1>5, <2>1 DEF MergeCheck, At, Keeps
        <3> QED BY <1>5, <2>1, <3>1 DEF MergeCheck, storeVars
    <2> QED BY <1>1, <1>3, <1>5, <2>1 DEF MergeCheck
<1>16. ASSUME MergeCheckOther(p) PROVE GraftInv'
    <2>1. CASE Continue(p, "records", <<>>, local[p])
        <3>1. Keeps(durable, "records", local[p], <<>>)
            BY <1>4, <1>16 DEF MergeCheckOther, At, Keeps
        <3> QED BY <1>16, <2>1, <3>1 DEF MergeCheckOther, storeVars
    <2> QED BY <1>3, <1>16, <2>1 DEF MergeCheckOther
<1>6. ASSUME MergeRecords(p) PROVE GraftInv'
    <2> DEFINE prog == MergeProgram(RecordsOf(durable, local[p].other), local[p].other,
                                    local[p].ent, "manual_merge")
    <2>1. Continue(p, "return", prog, local[p]) /\ UNCHANGED storeVars
        BY <1>1, <1>6 DEF MergeRecords, MergeProgram
    <2>2. Grafts(durable, prog)
        BY <1>4, <1>6, GraftMerge DEF MergeRecords, At, Keeps
    <2> QED BY <1>2, <2>1, <2>2
<1>7. ASSUME SplitCheck(p) PROVE GraftInv'
    BY <1>2, <1>3, <1>7, GraftSplit DEF SplitCheck
<1>8. ASSUME ClaimTarget(p) PROVE GraftInv'
    <2>1. CASE Continue(p, "record", <<>>, local[p]) /\ Active(durable, local[p].ent)
        <3>1. Keeps(durable, "record", local[p], <<>>)
            BY <1>4, <2>1 DEF Keeps
        <3> QED BY <1>8, <2>1, <3>1 DEF ClaimTarget, storeVars
    <2> QED BY <1>1, <1>3, <1>8, <2>1 DEF ClaimTarget
<1>9. ASSUME ClaimRecord(p) PROVE GraftInv'
    <2>1. Active(durable, local[p].ent)
        BY <1>4, <1>9 DEF ClaimRecord, At, Keeps
    <2> QED BY <1>2, <1>3, <1>9, <2>1 DEF ClaimRecord
<1>10. ASSUME MediateFind(p) \/ MediateFindOther(p) PROVE GraftInv'
    BY <1>2, <1>10, MediateFinds
<1>11. ASSUME MediateAct(p) PROVE GraftInv'
    BY <1>2, <1>11, GraftSplit DEF MediateAct
<1>12. ASSUME StabilizeScan(p) PROVE GraftInv'
    BY <1>2, <1>12 DEF StabilizeScan
<1>13. ASSUME StabilizeGroup(p) PROVE GraftInv'
    <2>1. CASE \E l : Continue(p, "group", <<>>, l)
        BY <1>2, <1>13, <2>1 DEF StabilizeGroup
    <2>2. ASSUME NEW l, Continue(p, "loser", <<>>, l), Active(durable, l.ent), l.ent \notin l.others
          PROVE  GraftInv'
        <3>1. Keeps(durable, "loser", l, <<>>)
            BY <1>4, <2>2 DEF Keeps
        <3> QED BY <1>13, <2>2, <3>1 DEF StabilizeGroup, storeVars
    <2>3. PICK group, w :
            LET l == [local[p] EXCEPT !.groups = @ \ {group}]
            IN IF Active(View(p), w)
               THEN Continue(p, "loser", <<>>, [l EXCEPT !.ent = w, !.others = group \ {w}])
               ELSE Continue(p, "group", <<>>, l)
        BY <1>13 DEF StabilizeGroup
    <2> DEFINE m == [local[p] EXCEPT !.groups = local[p].groups \ {group}, !.ent = w,
                                     !.others = group \ {w}]
    <2>4. CASE Active(durable, w) /\ Continue(p, "loser", <<>>, m)
        <3>1. m.ent = w /\ m.others = group \ {w}
            BY DEF BaseInv, IInv, CallInv, AgreeingLocal, Local
        <3> QED BY <2>2, <2>4, <3>1
    <2> QED BY <1>1, <2>1, <2>3, <2>4
<1>14. ASSUME StabilizeLoser(p) PROVE GraftInv'
    <2> DEFINE prog(e) == MergeProgram(RecordsOf(durable, e), e, local[p].ent, "consolidated")
               l(e) == [local[p] EXCEPT !.others = local[p].others \ {e}]
    <2>1. PICK e \in local[p].others :
            IF Active(View(p), e) THEN Continue(p, "loser", prog(e), l(e))
                                  ELSE Continue(p, "loser", <<>>, l(e))
        BY <1>1, <1>14 DEF StabilizeLoser, MergeProgram
    <2>2. Active(durable, local[p].ent) /\ local[p].ent \notin local[p].others
        BY <1>4, <1>14 DEF StabilizeLoser, At, Keeps
    <2>3. l(e).ent = local[p].ent /\ l(e).others = local[p].others \ {e}
        BY DEF BaseInv, IInv, CallInv, AgreeingLocal, Local
    <2>4. /\ Grafts(durable, prog(e))
          /\ \A s \in Stmts(prog(e)) : s.op = "retire" => s.into = local[p].ent
        BY <2>1, <2>2, GraftMerge
    <2> HIDE DEF prog, l
    <2>5. Keeps(durable, "loser", l(e), prog(e)) /\ Keeps(durable, "loser", l(e), <<>>)
        BY <1>4, <2>2, <2>3, <2>4 DEF Keeps
    <2> QED BY <1>14, <2>1, <2>4, <2>5 DEF StabilizeLoser, storeVars
<1>15. ASSUME StabilizeNext(p) PROVE GraftInv'
    BY <1>2, <1>15 DEF StabilizeNext
<1> QED BY <1>1, <1>5, <1>6, <1>7, <1>8, <1>9, <1>10, <1>11, <1>12, <1>13, <1>14, <1>15, <1>16
        DEF Read, ResolveLookup, ResolveNodes, ResolveSkip, ResolveAccumulate, ResolveCreate,
            ResolveAbsorb, ResolveMerge, ResolveFinish, DetMergeRead, DetMergeWrite,
            AtCluster, At, BatchPC

LEMMA GraftInit ==
    ASSUME Init
    PROVE  GraftInv
<1> DEFINE row(i) == [ent |-> i, members |-> Seed[i].members,
                      edges |-> Evidence(Seed[i], i, Seed[i].members, SeedRun)]
           rows == {row(i) : i \in DOMAIN Seed}
           ents == {w.ent : w \in rows}
<1>1. SeedGraph = BulkWrite(EmptyGraph, rows)
    BY DEF SeedGraph
<1>2. /\ SeedGraph.status = [e \in Entity |-> IF e \in ents THEN "active" ELSE "absent"]
      /\ SeedGraph.into = [e \in Entity |-> IF e \in ents THEN NoEntity ELSE NoEntity]
    BY <1>1 DEF BulkWrite, EmptyGraph
<1> HIDE DEF ents
<1>3. NoEntity \notin Entity
    BY MaxEntityAssumption DEF Entity, NoEntity
<1>4. \A es \in (SUBSET Entity) \ {{}} : \E e \in es : SeedGraph.into[e] \notin es
    BY <1>2, <1>3
<1>5. Tidy(SeedGraph)
    BY <1>2, <1>4 DEF Tidy
<1> QED BY <1>5, GraftPrograms DEF Init, GraftInv, Keeps

\* manual_merge is told to merge an entity into another one.
LEMMA InvokeTwo ==
    ASSUME "resolve" \notin Calls, ~SelfMerge, NEW p, Invoke(p)
    PROVE  \E first \in {"check", "split", "target", "find", "scan"} : \E l :
               Begin(p, first, l) /\ (first = "check" => l.ent # l.other)
<1>1. CASE BeginMerge(p)
    <2>1. PICK keep, gone : /\ keep # gone
                            /\ Begin(p, "check", [Idle EXCEPT !.op = "merge", !.ent = keep, !.other = gone])
        BY <1>1 DEF BeginMerge
    <2> DEFINE l == [Idle EXCEPT !.op = "merge", !.ent = keep, !.other = gone]
    <2>2. l.ent = keep /\ l.other = gone
        BY DEF Idle
    <2> HIDE DEF l
    <2>3. Begin(p, "check", l)
        BY <2>1 DEF l
    <2> QED BY <2>1, <2>2, <2>3
<1>2. CASE BeginSplit(p)
    BY <1>2 DEF BeginSplit
<1>3. CASE BeginClaim(p)
    BY <1>3 DEF BeginClaim
<1>4. CASE BeginMediate(p)
    BY <1>4 DEF BeginMediate
<1>5. CASE BeginStabilize(p)
    BY <1>5 DEF BeginStabilize
<1>6. ~BeginResolve(p)
    <2> DEFINE l(b) == [Idle EXCEPT !.op = "resolve", !.run = b.run,
                                     !.clusters = b.clusters, !.left = b.clusters]
    <2>1. \A b : l(b).op = "resolve"
        BY DEF Idle
    <2>2. BeginResolve(p) => \E b \in Batches : l(b).op \in Calls
        BY DEF BeginResolve, Begin
    <2> QED BY <2>1, <2>2
<1> QED BY <1>1, <1>2, <1>3, <1>4, <1>5, <1>6 DEF Invoke

LEMMA GraftNext ==
    ASSUME BaseInv, StewardInv, OneClient, GraftInv, "resolve" \notin Calls, ~SelfMerge, [Next]_vars
    PROVE  GraftInv'
<1> USE GraftPrograms, GraftGoesOn
<1>1. ASSUME NEW p \in Client, Invoke(p) PROVE GraftInv'
    <2>1. PICK first \in {"check", "split", "target", "find", "scan"} : \E l :
               Begin(p, first, l) /\ (first = "check" => l.ent # l.other)
        BY <1>1, InvokeTwo
    <2> QED BY <2>1 DEF Begin, storeVars, Keeps
<1>2. ASSUME NEW p \in Client, Return(p) \/ Fail(p) PROVE GraftInv'
    <2>1. durable' = durable
        BY <1>2 DEF Return, Fail, Commit, storeVars
    <2> QED BY <1>2, <2>1 DEF Return, Fail, Keeps
<1>3. CASE UNCHANGED vars
    BY <1>3 DEF vars, GraftInv
<1>4. ASSUME NEW p \in Client PROVE ~DetMergeFails(p)
    BY DEF DetMergeFails, At, StewardInv, BatchPC
<1> QED BY <1>1, <1>2, <1>3, <1>4, GraftReads, GraftWrites DEF Next, Step, Done

\* With one steward at a time, and wherever a call fails, the entity that a
\* merge or a consolidation retired owns no record...
THEOREM MergedAlwaysOwnNothing ==
    ASSUME "resolve" \notin Calls, ~SelfMerge, OneClient
    PROVE  Spec => []MergedOwnsNothing
<1>1. Init => StewardInv /\ GraftInv
    BY StewardInit, GraftInit
<1>2. BaseInv /\ (StewardInv /\ GraftInv) /\ [Next]_vars => (StewardInv /\ GraftInv)'
    BY StewardNext, GraftNext
<1>3. GraftInv => MergedOwnsNothing
    BY DEF GraftInv, MergedOwnsNothing, Tidy
<1> QED BY <1>1, <1>2, <1>3, BaseInvariance, PTL DEF Spec

\* ... and merged_into never leads back to where it started: into was active
\* when it was written, and an active entity is merged into nothing.
THEOREM MergesAlwaysEnd ==
    ASSUME "resolve" \notin Calls, ~SelfMerge, OneClient
    PROVE  Spec => []MergesEnd
<1>1. Init => StewardInv /\ GraftInv
    BY StewardInit, GraftInit
<1>2. BaseInv /\ (StewardInv /\ GraftInv) /\ [Next]_vars => (StewardInv /\ GraftInv)'
    BY StewardNext, GraftNext
<1>3. GraftInv => MergesEnd
    BY DEF GraftInv, MergesEnd, Tidy
<1> QED BY <1>1, <1>2, <1>3, BaseInvariance, PTL DEF Spec
=============================================================================
