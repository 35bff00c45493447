--------------------------- MODULE IdentityGraph ---------------------------
(***************************************************************************)
(* The clients of one SQLite identity store, each a process with its own   *)
(* connection: batch resolution (resolve_clusters), the steward operations *)
(* (manual_merge, manual_split, claim_record, mediate_conflict) and the    *)
(* stabilization pass.                                                     *)
(*                                                                         *)
(* A call alternates between reading the store, which fixes what it will   *)
(* write, and writing it one SQL statement at a time.  pc[p] names the     *)
(* read that comes next, todo[p] holds the statements to write before it,  *)
(* and local[p] the call's arguments and variables.                        *)
(*                                                                         *)
(* Steward operations autocommit every statement.  resolve_clusters writes *)
(* inside bulk_writes: one transaction, committed and reopened after every *)
(* ChunkSize statements and after every bulk flush.  While it is open its  *)
(* client is the writer, work is what that client sees, and everybody else *)
(* reads durable.                                                          *)
(***************************************************************************)
EXTENDS IdentityRules, Sequences

CONSTANTS
    Client,          \* processes that share the store
    NoClient,
    Calls,           \* the operations clients may call
    Batches,         \* the batches resolve_clusters may be called with
    SplitSets,       \* the record sets a steward may ask manual_split to detach
    EmitSingletons,  \* emit_singletons
    FastPath,        \* the bulk fast path for brand-new clusters is enabled
    FlushRows,       \* records that make the accumulator flush
    ChunkSize,       \* statements between two commits inside bulk_writes
    DetMerge,        \* deterministic_merge_keys is set
    SelfMerge,       \* a steward may name one entity as both sides of a merge
    Seed, SeedRun,   \* the clusters, and the run, of the batch already resolved
    MaxCalls,        \* bound: calls in a behaviour
    MaxFails         \* bound: crashes and failed statements

ASSUME ClientAssumption == NoClient \notin Client
ASSUME RecordAssumption == Record # {}
ASSUME SeedAssumption == Seed \in Seq(Cluster) /\ Len(Seed) <= MaxEntity /\ SeedRun \in Run

\* What a clustering produces: clusters that share no record, each bottleneck
\* a pair of two records of its cluster.
Partitioned(clusters) ==
    /\ \A i, j \in DOMAIN clusters :
           i # j => clusters[i].members \cap clusters[j].members = {}
    /\ \A i \in DOMAIN clusters :
           clusters[i].weak = {} \/ clusters[i].weak \in PairsIn(clusters[i].members)

Op == {"resolve", "merge", "split", "claim", "mediate", "stabilize"}
Batch == [run : Run, clusters : Seq(Cluster)]

ASSUME CallsAssumption == Calls \subseteq Op
ASSUME BatchesAssumption ==
    \A b \in Batches : /\ b.run \in Run
                       /\ b.clusters \in Seq(Cluster)
ASSUME SplitSetsAssumption == SplitSets \subseteq SUBSET Record
ASSUME PartitionAssumption ==
    Partitioned(Seed) /\ \A b \in Batches : Partitioned(b.clusters)
ASSUME BoundsAssumption == MaxCalls \in Nat /\ MaxFails \in Nat

VARIABLES
    durable,   \* what is committed
    work,      \* durable with the writer's uncommitted statements
    writer,    \* the client whose transaction has written, or NoClient
    pending,   \* statements the writer has not committed
    pc, todo, local,
    minted,    \* entity ids minted so far
    calls, fails

storeVars == <<durable, work, writer, pending>>
clientVars == <<pc, todo, local>>
boundVars == <<minted, calls, fails>>
vars == <<durable, work, writer, pending, pc, todo, local, minted, calls, fails>>

----------------------------------------------------------------------------
(* Statements a call has yet to write, and the variables it keeps. *)

NodeStmt    == [op : {"node"}, ent : Entity, status : Status \ {"absent"},
                into : EntityOrNone]
AttachStmt  == [op : {"attach"}, recs : SUBSET Record, ent : Entity]
MoveStmt    == [op : {"move"}, recs : SUBSET Record, from : Entity, ent : Entity]
EmitStmt    == [op : {"emit"}, events : SUBSET Event]
RetireStmt  == [op : {"retire"}, ents : SUBSET Entity, into : Entity]
AbsorbStmt  == [op : {"absorb"}, ents : SUBSET Entity, into : Entity]
LinkStmt    == [op : {"link"}, edges : SUBSET Edge]
CarryStmt   == [op : {"carry"}, ents : SUBSET Entity, ent : Entity, run : Run]
VerdictStmt == [op : {"verdict"}, pair : Pair, res : Resolution]
Stmt == NodeStmt \cup AttachStmt \cup MoveStmt \cup EmitStmt \cup RetireStmt
            \cup AbsorbStmt \cup LinkStmt \cup CarryStmt \cup VerdictStmt

Node(e, st, in)       == [op |-> "node", ent |-> e, status |-> st, into |-> in]
Attach(rs, e)         == [op |-> "attach", recs |-> rs, ent |-> e]
Move(rs, from, e)     == [op |-> "move", recs |-> rs, from |-> from, ent |-> e]
Emit(evs)             == [op |-> "emit", events |-> evs]
Retire(es, in)        == [op |-> "retire", ents |-> es, into |-> in]
Absorb(es, in)        == [op |-> "absorb", ents |-> es, into |-> in]
Link(xs)              == [op |-> "link", edges |-> xs]
Carry(es, e, run)     == [op |-> "carry", ents |-> es, ent |-> e, run |-> run]
RecordVerdict(q, res) == [op |-> "verdict", pair |-> q, res |-> res]

Ev(kind, e, in) == [kind |-> kind, ent |-> e, into |-> in]

Row == [ent : Entity, members : SUBSET Record, edges : SUBSET Edge]
Snapshot == [status : Status, into : EntityOrNone]

Local ==
    [op       : Op \cup {"none"},
     run      : Run,
     clusters : Seq(Cluster),              \* the batch
     left     : Seq(Cluster),              \* clusters not yet resolved
     found    : [Record -> EntityOrNone],  \* preflight_existing
     snap     : [Entity -> Snapshot],      \* preflight_nodes
     rows     : SUBSET Row,                \* the bulk_*_rows accumulators
     remap    : [Entity -> Entity],        \* merge_by_shared_field's remap
     ent      : EntityOrNone,              \* the entity the call is about
     other    : EntityOrNone,              \* manual_merge's absorbed entity
     others   : SUBSET Entity,             \* losers still to consolidate
     links    : SUBSET (SUBSET Entity),    \* the overlaps found, for the report
     groups   : SUBSET (SUBSET Entity),    \* components still to consolidate
     recs     : SUBSET Record,
     a        : Record, b : Record, res : Resolution]

\* A connection with no call: every variable at a value nothing reads.
Idle ==
    [op |-> "none", run |-> SeedRun, clusters |-> <<>>, left |-> <<>>,
     found |-> [r \in Record |-> NoEntity],
     snap |-> [e \in Entity |-> [status |-> "absent", into |-> NoEntity]],
     rows |-> {}, remap |-> [e \in Entity |-> e],
     ent |-> NoEntity, other |-> NoEntity, others |-> {}, links |-> {}, groups |-> {},
     recs |-> {},
     a |-> CHOOSE r \in Record : TRUE, b |-> CHOOSE r \in Record : TRUE, res |-> "defer"]

PC == {"idle", "lookup", "nodes", "loop", "detread", "detwrite", "check", "other",
       "records", "split", "target", "record", "find", "findb", "act", "scan", "group",
       "loser", "return"}

\* What an earlier run left: one active entity per seed cluster.
SeedGraph ==
    BulkWrite(EmptyGraph,
              {[ent |-> i, members |-> Seed[i].members,
                edges |-> Evidence(Seed[i], i, Seed[i].members, SeedRun)] : i \in DOMAIN Seed})

Init ==
    /\ durable = SeedGraph
    /\ work = SeedGraph
    /\ writer = NoClient
    /\ pending = 0
    /\ pc = [p \in Client |-> "idle"]
    /\ todo = [p \in Client |-> <<>>]
    /\ local = [p \in Client |-> Idle]
    /\ minted = Len(Seed)
    /\ calls = 0
    /\ fails = 0

----------------------------------------------------------------------------
(* Connections. *)

\* WAL: the writer sees its own uncommitted statements, others what is durable.
View(p) == IF writer = p THEN work ELSE durable
CanWrite(p) == writer \in {NoClient, p}
InBulk(p) == pc[p] = "loop"

\* Mutant: the transaction is committed but never closed.
CommitHolding(g) ==
    /\ durable' = g
    /\ work' = g
    /\ pending' = 0
    /\ UNCHANGED writer

Commit(g) ==
    /\ durable' = g
    /\ work' = g
    /\ writer' = NoClient
    /\ pending' = 0

\* _exec: client p makes the graph g by one statement.
Exec(p, g) ==
    /\ CanWrite(p)
    /\ IF InBulk(p) /\ pending + 1 < ChunkSize
       THEN /\ work' = g
            /\ writer' = p
            /\ pending' = pending + 1
            /\ UNCHANGED durable
       ELSE Commit(g)

\* The call goes on at next, with the statements prog to write before that.
Continue(p, next, prog, l) ==
    /\ pc' = [pc EXCEPT ![p] = next]
    /\ todo' = [todo EXCEPT ![p] = prog]
    /\ local' = [local EXCEPT ![p] = l]

At(p, label) == pc[p] = label /\ todo[p] = <<>>

NextEntity == minted + 1
CanMint == minted < MaxEntity
Mint == minted' = NextEntity /\ UNCHANGED <<calls, fails>>

Begin(p, first, l) ==
    /\ At(p, "idle")
    /\ calls < MaxCalls
    /\ l.op \in Calls
    /\ Continue(p, first, <<>>, l)
    /\ calls' = calls + 1
    /\ UNCHANGED <<storeVars, minted, fails>>
----------------------------------------------------------------------------
(* resolve_clusters. *)

Skipped(c) ==
    \/ c.members = {}
    \/ Cardinality(c.members) = 1 /\ ~EmitSingletons

BatchRecords(b) == UNION {b[i].members : i \in DOMAIN b}

BeginResolve(p) ==
    \E b \in Batches :
        Begin(p, "lookup", [Idle EXCEPT !.op = "resolve", !.run = b.run,
                                        !.clusters = b.clusters, !.left = b.clusters])

\* lookup_entity_ids over the whole batch, before its first cluster.
ResolveLookup(p) ==
    /\ At(p, "lookup")
    /\ LET rs == BatchRecords(local[p].clusters)
       IN Continue(p, "nodes", <<>>,
              [local[p] EXCEPT !.found = [r \in Record |->
                  IF r \in rs THEN View(p).owner[r] ELSE NoEntity]])
    /\ UNCHANGED <<storeVars, boundVars>>

\* get_identities of the entities just found; bulk_writes opens after it.
ResolveNodes(p) ==
    /\ At(p, "nodes")
    /\ Continue(p, "loop", <<>>,
           [local[p] EXCEPT !.snap = [e \in Entity |->
               IF \E r \in Record : local[p].found[r] = e
               THEN [status |-> View(p).status[e], into |-> View(p).into[e]]
               ELSE [status |-> "absent", into |-> NoEntity]]])
    /\ UNCHANGED <<storeVars, boundVars>>

\* The next cluster and the entities the pre-flight found for its records.
AtCluster(p) == At(p, "loop") /\ local[p].left # <<>>
ThisCluster(p) == Head(local[p].left)
Existing(p) == FoundIn(local[p].found, ThisCluster(p).members)
Accumulates(p) == FastPath /\ Existing(p) = {} /\ ThisCluster(p).weak = {}

\* Write prog for this cluster and go on with the next one.
Resolve(p, prog) ==
    Continue(p, "loop", prog, [local[p] EXCEPT !.left = Tail(@)])

ResolveSkip(p) ==
    /\ AtCluster(p)
    /\ Skipped(ThisCluster(p))
    /\ Resolve(p, <<>>)
    /\ UNCHANGED <<storeVars, boundVars>>

\* _flush_bulk and bulk_flush_checkpoint: the rows and whatever was pending
\* become durable together.
Flush(p, rows) ==
    /\ CanWrite(p)
    /\ Commit(BulkWrite(View(p), rows))

\* A brand-new cluster on the fast path: its rows are kept in memory, and
\* flushed once they hold FlushRows records.
ResolveAccumulate(p) ==
    /\ AtCluster(p)
    /\ ~Skipped(ThisCluster(p))
    /\ Accumulates(p)
    /\ CanMint /\ Mint
    /\ LET c    == ThisCluster(p)
           rows == local[p].rows \cup
                     {[ent |-> NextEntity, members |-> c.members,
                       edges |-> Evidence(c, NextEntity, c.members, local[p].run)]}
           full == Cardinality(UNION {w.members : w \in rows}) >= FlushRows
       IN /\ Continue(p, "loop", <<>>,
                 [local[p] EXCEPT !.left = Tail(@), !.rows = IF full THEN {} ELSE rows])
          /\ IF full THEN Flush(p, rows) ELSE UNCHANGED storeVars

ResolveCreate(p) ==
    /\ AtCluster(p)
    /\ ~Skipped(ThisCluster(p))
    /\ Existing(p) = {} /\ ~Accumulates(p)
    /\ CanMint /\ Mint
    /\ LET c == ThisCluster(p)
       IN Resolve(p, <<Node(NextEntity, "active", NoEntity),
                       Emit({Ev("created", NextEntity, NoEntity)}),
                       Attach(c.members, NextEntity),
                       Link(Evidence(c, NextEntity, c.members, local[p].run))>>)
    /\ UNCHANGED storeVars

\* The status of the pre-flight snapshot, ACTIVE for a node it did not see.
Refreshed(was) == IF was.status = "absent" THEN "active" ELSE was.status

\* One entity found: its node is rewritten with the status and merged_into of
\* the pre-flight snapshot, and only the newly added records leave evidence.
ResolveAbsorb(p) ==
    /\ AtCluster(p)
    /\ ~Skipped(ThisCluster(p))
    /\ \E e \in Existing(p) :
        /\ Existing(p) = {e}
        /\ LET c     == ThisCluster(p)
               was   == local[p].snap[e]
               added == {r \in c.members : local[p].found[r] = NoEntity}
           IN Resolve(p, <<Node(e, Refreshed(was), was.into),
                           Emit({Ev("absorbed_record", e, NoEntity) : r \in added}),
                           Attach(c.members, e),
                           Link(Evidence(c, e, added, local[p].run))>>)
    /\ UNCHANGED <<storeVars, boundVars>>

\* Several entities found: the one with most members here survives.
ResolveMerge(p) ==
    /\ AtCluster(p)
    /\ ~Skipped(ThisCluster(p))
    /\ \E w \in MergeWinner(local[p].found, ThisCluster(p).members) :
        /\ Existing(p) # {w}
        /\ LET c      == ThisCluster(p)
               losers == Existing(p) \ {w}
           IN Resolve(p, <<Node(w, "active", NoEntity),
                           Emit({Ev("merged_with", w, NoEntity)}),
                           Absorb(losers, w),
                           Attach(c.members, w),
                           Link(Evidence(c, w, c.members, local[p].run)),
                           Carry(losers, w, local[p].run)>>)
    /\ UNCHANGED <<storeVars, boundVars>>

\* Mutant: the rows accumulated since the last flush are forgotten.
ResolveFinishNoFlush(p) ==
    /\ At(p, "loop")
    /\ local[p].left = <<>>
    /\ Continue(p, IF DetMerge THEN "detread" ELSE "return", <<>>,
                [local[p] EXCEPT !.rows = {}])
    /\ IF writer = p THEN Commit(work) ELSE UNCHANGED storeVars
    /\ UNCHANGED boundVars

\* The last flush, and the COMMIT of bulk_writes.
ResolveFinish(p) ==
    /\ At(p, "loop")
    /\ local[p].left = <<>>
    /\ Continue(p, IF DetMerge THEN "detread" ELSE "return", <<>>,
                [local[p] EXCEPT !.rows = {}])
    /\ IF local[p].rows = {} /\ writer # p
       THEN UNCHANGED storeVars
       ELSE Flush(p, local[p].rows)
    /\ UNCHANGED boundVars

\* merge_by_shared_field: a SELECT, then one transaction of updates.
DetMergeRead(p) ==
    /\ At(p, "detread")
    /\ LET remap == SharedKeyRemap(View(p))
       IN Continue(p, IF \A e \in Entity : remap[e] = e THEN "return" ELSE "detwrite",
                   <<>>, [local[p] EXCEPT !.remap = remap])
    /\ UNCHANGED <<storeVars, boundVars>>

DetMergeWrite(p) ==
    /\ At(p, "detwrite")
    /\ Exec(p, RemapEntities(View(p), local[p].remap))
    /\ Continue(p, "return", <<>>, local[p])
    /\ UNCHANGED boundVars

\* An exception in merge_by_shared_field rolls its transaction back and is
\* swallowed: the call goes on.
DetMergeFails(p) ==
    /\ At(p, "detread") \/ At(p, "detwrite")
    /\ fails < MaxFails
    /\ fails' = fails + 1
    /\ Continue(p, "return", <<>>, local[p])
    /\ UNCHANGED <<storeVars, minted, calls>>

----------------------------------------------------------------------------
(* Steward operations. *)

Minted == 1 .. minted

\* A call that raises ValueError, or has nothing left to do.
GiveUp(p) == Continue(p, "return", <<>>, [local[p] EXCEPT !.op = "none"])

BeginMerge(p) ==
    \E keep, absorb \in Minted :
        /\ keep # absorb \/ SelfMerge
        /\ Begin(p, "check", [Idle EXCEPT !.op = "merge", !.ent = keep, !.other = absorb])

\* Two reads: "Winner must be active", then "Both entity_ids must exist".
MergeCheck(p) ==
    /\ At(p, "check")
    /\ IF Active(View(p), local[p].ent)
       THEN Continue(p, "other", <<>>, local[p])
       ELSE GiveUp(p)
    /\ UNCHANGED <<storeVars, boundVars>>

MergeCheckOther(p) ==
    /\ At(p, "other")
    /\ IF Exists(View(p), local[p].other)
       THEN Continue(p, "records", <<>>, local[p])
       ELSE GiveUp(p)
    /\ UNCHANGED <<storeVars, boundVars>>

MergeRecords(p) ==
    /\ At(p, "records")
    /\ LET keep == local[p].ent
           gone == local[p].other
       IN Continue(p, "return",
              <<Attach(RecordsOf(View(p), gone), keep),
                Retire({gone}, keep),
                Emit({Ev("manual_merge", keep, NoEntity)}),
                Emit({Ev("manual_merge", gone, keep)})>>, local[p])
    /\ UNCHANGED <<storeVars, boundVars>>

\* The records need not be the entity's: MoveRecord passes over the others.
BeginSplit(p) ==
    \E e \in Minted, rs \in SplitSets :
        /\ rs # {}
        /\ Begin(p, "split", [Idle EXCEPT !.op = "split", !.ent = e, !.recs = rs])

\* Mutants: the child's node is written after the records that refer to it;
\* its birth is not logged; no record is moved.
SplitProgramLateNode(e, rs) ==
    <<Move(rs, e, NextEntity), Node(NextEntity, "active", NoEntity),
      Emit({Ev("manual_split", NextEntity, NoEntity)})>>
SplitProgramSilent(e, rs) ==
    <<Node(NextEntity, "active", NoEntity), Move(rs, e, NextEntity),
      Emit({Ev("manual_split", e, NoEntity)})>>
SplitProgramNoMove(e, rs) ==
    <<Node(NextEntity, "active", NoEntity), Emit({Ev("manual_split", NextEntity, NoEntity)})>>

\* manual_split once the parent is known to exist: a new entity, then one
\* read and one write per record that still belongs to the parent.
SplitProgram(e, rs) ==
    <<Node(NextEntity, "active", NoEntity),
      Move(rs, e, NextEntity),
      Emit({Ev("manual_split", e, NoEntity)}),
      Emit({Ev("manual_split", NextEntity, NoEntity)})>>

SplitCheck(p) ==
    /\ At(p, "split")
    /\ IF Exists(View(p), local[p].ent)
       THEN /\ CanMint /\ Mint
            /\ Continue(p, "return", SplitProgram(local[p].ent, local[p].recs), local[p])
       ELSE GiveUp(p) /\ UNCHANGED boundVars
    /\ UNCHANGED storeVars

BeginClaim(p) ==
    \E e \in Minted, r \in Record :
        Begin(p, "target", [Idle EXCEPT !.op = "claim", !.ent = e, !.a = r])

ClaimTarget(p) ==
    /\ At(p, "target")
    /\ IF Active(View(p), local[p].ent)
       THEN Continue(p, "record", <<>>, local[p])
       ELSE GiveUp(p)
    /\ UNCHANGED <<storeVars, boundVars>>

\* The record must exist; one that is already there is left alone.
ClaimRecord(p) ==
    /\ At(p, "record")
    /\ LET e    == local[p].ent
           prev == View(p).owner[local[p].a]
       IN IF prev \in {NoEntity, e}
          THEN GiveUp(p)
          ELSE Continue(p, "return",
                   <<Attach({local[p].a}, e),
                     Emit({Ev("claimed", e, NoEntity)}),
                     Emit({Ev("claimed", prev, NoEntity)})>>, local[p])
    /\ UNCHANGED <<storeVars, boundVars>>

\* A steward rules on two records, which the conflicts feed need not show.
BeginMediate(p) ==
    \E a, b \in Record, res \in Resolution :
        /\ a # b
        /\ Begin(p, "find", [Idle EXCEPT !.op = "mediate", !.a = a, !.b = b, !.res = res])

\* The verdict edge, once find_entity_by_record has answered.
Rule(p, e) ==
    Continue(p, "act", <<RecordVerdict({local[p].a, local[p].b}, local[p].res)>>,
             [local[p] EXCEPT !.ent = e])

\* find_entity_by_record, of a; of b when a has no entity.
MediateFind(p) ==
    /\ At(p, "find")
    /\ LET e == View(p).owner[local[p].a]
       IN IF e # NoEntity THEN Rule(p, e) ELSE Continue(p, "findb", <<>>, local[p])
    /\ UNCHANGED <<storeVars, boundVars>>

MediateFindOther(p) ==
    /\ At(p, "findb")
    /\ Rule(p, View(p).owner[local[p].b])
    /\ UNCHANGED <<storeVars, boundVars>>

\* distinct splits b out when b is still in the entity found before.
MediateAct(p) ==
    /\ At(p, "act")
    /\ LET l     == local[p]
           said  == IF l.ent = NoEntity THEN {} ELSE {Ev("conflict_mediated", l.ent, NoEntity)}
       IN IF /\ l.res = "distinct"
             /\ l.ent # NoEntity
             /\ View(p).owner[l.b] = l.ent
          THEN /\ CanMint /\ Mint
               /\ Continue(p, "return", Append(SplitProgram(l.ent, {l.b}), Emit(said)), l)
          ELSE /\ Continue(p, "return", <<Emit(said)>>, l)
               /\ UNCHANGED boundVars
    /\ UNCHANGED storeVars

----------------------------------------------------------------------------
(* stabilize_identities(apply=True). *)

BeginStabilize(p) == Begin(p, "scan", [Idle EXCEPT !.op = "stabilize"])

\* find_persistent_overlaps and the union-find over its candidates.
StabilizeScan(p) ==
    /\ At(p, "scan")
    /\ Continue(p, "group", <<>>, [local[p] EXCEPT !.links = PersistentOverlaps(View(p)),
                                                   !.groups = OverlapGroups(View(p))])
    /\ UNCHANGED <<storeVars, boundVars>>

\* Mutant: the winner is not taken out of the losers.
StabilizeGroupAll(p) ==
    /\ At(p, "group")
    /\ \E group \in local[p].groups : \E w \in ConsolidationWinner(View(p), group) :
           Continue(p, "loser", <<>>,
               [local[p] EXCEPT !.groups = @ \ {group}, !.ent = w, !.others = group])
    /\ UNCHANGED <<storeVars, boundVars>>

\* _select_winner, and _apply_consolidation up to its loop: a winner that is
\* not active consolidates nothing.
StabilizeGroup(p) ==
    /\ At(p, "group")
    /\ \E group \in local[p].groups : \E w \in ConsolidationWinner(View(p), group) :
           LET l == [local[p] EXCEPT !.groups = @ \ {group}]
           IN IF Active(View(p), w)
              THEN Continue(p, "loser", <<>>, [l EXCEPT !.ent = w, !.others = group \ {w}])
              ELSE Continue(p, "group", <<>>, l)
    /\ UNCHANGED <<storeVars, boundVars>>

\* Losers in id order; one that is no longer active is skipped.
StabilizeLoser(p) ==
    /\ At(p, "loser")
    /\ \E loser \in local[p].others :
        /\ \A e \in local[p].others : loser <= e
        /\ LET w == local[p].ent
               l == [local[p] EXCEPT !.others = @ \ {loser}]
           IN Continue(p, "loser",
                  IF Active(View(p), loser)
                  THEN <<Attach(RecordsOf(View(p), loser), w),
                         Retire({loser}, w),
                         Emit({Ev("consolidated", w, NoEntity)}),
                         Emit({Ev("consolidated", loser, w)})>>
                  ELSE <<>>, l)
    /\ UNCHANGED <<storeVars, boundVars>>

StabilizeNext(p) ==
    /\ \/ At(p, "loser") /\ local[p].others = {} /\ Continue(p, "group", <<>>, local[p])
       \/ At(p, "group") /\ local[p].groups = {} /\ Continue(p, "return", <<>>, local[p])
    /\ UNCHANGED <<storeVars, boundVars>>

----------------------------------------------------------------------------
(* Writing: the first statement of todo[p].  A statement over a set stands  *)
(* for a loop that executes once per element, in an order the model leaves *)
(* open; what it has not executed yet stays at the head of todo[p].        *)

Is(p, op) == todo[p] # <<>> /\ Head(todo[p]).op = op
Statement(p) == Head(todo[p])

Then(p, rest) ==
    /\ todo' = [todo EXCEPT ![p] = rest \o Tail(@)]
    /\ UNCHANGED <<pc, local, minted, calls, fails>>

\* A loop over nothing.
Vacuous(s) ==
    \/ s.op \in {"attach", "move"} /\ s.recs = {}
    \/ s.op \in {"retire", "absorb", "carry"} /\ s.ents = {}
    \/ s.op = "emit" /\ s.events = {}
    \/ s.op = "link" /\ s.edges = {}

WriteNothing(p) ==
    /\ todo[p] # <<>>
    /\ Vacuous(Statement(p))
    /\ Then(p, <<>>)
    /\ UNCHANGED storeVars

WriteNode(p) ==
    /\ Is(p, "node")
    /\ LET s == Statement(p)
       IN Exec(p, UpsertIdentity(View(p), s.ent, s.status, s.into))
    /\ Then(p, <<>>)

WriteRecord(p) ==
    /\ Is(p, "attach")
    /\ LET s == Statement(p)
       IN \E r \in s.recs :
            /\ Exec(p, UpsertRecord(View(p), r, s.ent))
            /\ Then(p, IF s.recs = {r} THEN <<>> ELSE <<Attach(s.recs \ {r}, s.ent)>>)

\* manual_split reads each record and skips one that has left the parent.
MoveRecord(p) ==
    /\ Is(p, "move")
    /\ LET s == Statement(p)
       IN \E r \in s.recs :
            Then(p, <<Attach(IF View(p).owner[r] = s.from THEN {r} ELSE {}, s.ent),
                      Move(s.recs \ {r}, s.from, s.ent)>>)
    /\ UNCHANGED storeVars

WriteEvent(p) ==
    /\ Is(p, "emit")
    /\ LET s == Statement(p)
       IN \E v \in s.events :
            /\ Exec(p, EmitEvents(View(p), {v}))
            /\ Then(p, IF s.events = {v} THEN <<>> ELSE <<Emit(s.events \ {v})>>)

WriteRetire(p) ==
    /\ Is(p, "retire")
    /\ LET s == Statement(p)
       IN \E e \in s.ents :
            /\ Exec(p, RetireIdentity(View(p), e, s.into))
            /\ Then(p, IF s.ents = {e} THEN <<>> ELSE <<Retire(s.ents \ {e}, s.into)>>)

\* Mutant: a loser is retired and no event says so.
AbsorbLoserSilently(p) ==
    /\ Is(p, "absorb")
    /\ LET s == Statement(p)
       IN \E e \in s.ents : Then(p, <<Retire({e}, s.into), Absorb(s.ents \ {e}, s.into)>>)
    /\ UNCHANGED storeVars

\* The merge branch retires a loser and records it before the next loser.
AbsorbLoser(p) ==
    /\ Is(p, "absorb")
    /\ LET s == Statement(p)
       IN \E e \in s.ents :
            Then(p, <<Retire({e}, s.into), Emit({Ev("merged_with", e, s.into)}),
                      Absorb(s.ents \ {e}, s.into)>>)
    /\ UNCHANGED storeVars

WriteEdge(p) ==
    /\ Is(p, "link")
    /\ LET s == Statement(p)
       IN \E x \in s.edges :
            /\ Exec(p, AddEdges(View(p), {x}))
            /\ Then(p, IF s.edges = {x} THEN <<>> ELSE <<Link(s.edges \ {x})>>)

\* 3f: the conflicts recorded on a loser are recorded again on the winner.
\* The SELECT takes the transaction's snapshot, which nobody else may then
\* overtake: SQLite would refuse the transaction's next write.
CarryConflicts(p) ==
    /\ Is(p, "carry")
    /\ CanWrite(p)
    /\ LET s == Statement(p)
       IN \E e \in s.ents :
            LET pairs == {x.pair : x \in Conflicts(View(p)) \cap EdgesOf(View(p), e)}
            IN Then(p, <<Link(EdgesFor("conflicts_with", s.ent, pairs, s.run)),
                         Carry(s.ents \ {e}, s.ent, s.run)>>)
    /\ writer' = p
    /\ UNCHANGED <<durable, work, pending>>

WriteVerdict(p) ==
    /\ Is(p, "verdict")
    /\ LET s == Statement(p)
       IN Exec(p, AddVerdict(View(p), s.pair, s.res))
    /\ Then(p, <<>>)

----------------------------------------------------------------------------
(* The end of a call: it returns, or an exception or a crash ends it and    *)
(* its open transaction is rolled back.                                    *)

Return(p) ==
    /\ At(p, "return")
    /\ Continue(p, "idle", <<>>, Idle)
    /\ UNCHANGED <<storeVars, boundVars>>

Fail(p) ==
    /\ pc[p] # "idle"
    /\ fails < MaxFails
    /\ fails' = fails + 1
    /\ Continue(p, "idle", <<>>, Idle)
    /\ IF writer = p THEN Commit(durable) ELSE UNCHANGED storeVars
    /\ UNCHANGED <<minted, calls>>

\* Every call the bound allows has been made and has ended.
Done ==
    /\ calls = MaxCalls
    /\ \A p \in Client : At(p, "idle")
    /\ UNCHANGED vars

Invoke(p) == BeginResolve(p) \/ BeginMerge(p) \/ BeginSplit(p) \/ BeginClaim(p)
                \/ BeginMediate(p) \/ BeginStabilize(p)

Read(p) == ResolveLookup(p) \/ ResolveNodes(p)
              \/ ResolveSkip(p) \/ ResolveAccumulate(p) \/ ResolveCreate(p)
              \/ ResolveAbsorb(p) \/ ResolveMerge(p) \/ ResolveFinish(p)
              \/ DetMergeRead(p) \/ DetMergeWrite(p)
              \/ MergeCheck(p) \/ MergeCheckOther(p) \/ MergeRecords(p) \/ SplitCheck(p)
              \/ ClaimTarget(p) \/ ClaimRecord(p)
              \/ MediateFind(p) \/ MediateFindOther(p) \/ MediateAct(p)
              \/ StabilizeScan(p) \/ StabilizeGroup(p) \/ StabilizeLoser(p) \/ StabilizeNext(p)

Write(p) == WriteNothing(p) \/ WriteNode(p) \/ WriteRecord(p) \/ MoveRecord(p)
               \/ WriteEvent(p) \/ WriteRetire(p) \/ AbsorbLoser(p) \/ WriteEdge(p)
               \/ CarryConflicts(p) \/ WriteVerdict(p)

\* A call that has begun goes on: no client waits for anything but the lock.
Step(p) == Read(p) \/ Write(p) \/ Return(p)

Next == (\E p \in Client : Invoke(p) \/ Step(p) \/ DetMergeFails(p) \/ Fail(p)) \/ Done

Spec == Init /\ [][Next]_vars
FairSpec == Spec /\ \A p \in Client : WF_vars(Step(p))

----------------------------------------------------------------------------
(* Properties. *)

\* Every variable has its type.
TypeOK ==
    /\ durable \in Graph /\ work \in Graph
    /\ writer \in Client \cup {NoClient}
    /\ pending \in Nat
    /\ pc \in [Client -> PC]
    /\ todo \in [Client -> Seq(Stmt)]
    /\ local \in [Client -> Local]
    /\ minted \in 0 .. MaxEntity
    /\ calls \in 0 .. MaxCalls
    /\ fails \in 0 .. MaxFails

\* Whatever clients interleave and wherever one fails, nothing durable points
\* at an entity that has no row: not a record (the foreign key of
\* source_records), and not a merged_into, an edge or an event, which have no
\* foreign key to protect them.
ReferencesResolve == PointsAtRows(durable)

\* A durable node says merged_into exactly when it says into what: the two
\* columns are written from a snapshot, from constants and by retire_identity.
PointerAgrees == PointersAgree(durable)

\* No call is under way.
Quiet == \A p \in Client : pc[p] = "idle"

Returned(p, op) == At(p, "return") /\ local[p].op = op

\* The audit log accounts for the graph: whenever no call is under way, every
\* entity has an event that brought it into being, and every entity merged
\* into another an event that names it.
LogExplainsGraph ==
    Quiet =>
        /\ \A e \in Entity : Exists(durable, e) =>
            \E v \in durable.log : v.ent = e /\ v.kind \in {"created", "manual_split"}
        /\ \A e \in Entity : durable.status[e] = "merged_into" =>
            \E v \in durable.log : v.ent = e /\ v.into = durable.into[e]

\* A batch whose every cluster already lies in one entity is an observation,
\* not a change: whatever run name it comes under, no statement of it changes
\* the graph (#2197).
Gathered(found, members) ==
    \E e \in Entity : \A r \in members : found[r] = e
ReplayIsNoop ==
    [][\A p \in Client :
        (/\ pc[p] = "loop"
         /\ \A i \in DOMAIN local[p].clusters :
                Gathered(local[p].found, local[p].clusters[i].members))
            => UNCHANGED <<durable, work>>]_vars

\* When resolve_clusters returns, the records of each cluster are in one
\* entity, also when it is the retry of a call that failed half way.
BatchGathers ==
    \A p \in Client : Returned(p, "resolve") =>
        \A i \in DOMAIN local[p].clusters :
            LET c == local[p].clusters[i]
            IN Skipped(c) \/ Gathered(durable.owner, c.members)

\* An entity merged into another one owns no records.
MergedOwnsNothing ==
    \A e \in Entity : durable.status[e] = "merged_into" => RecordsOf(durable, e) = {}

\* Following merged_into ends: no set of entities is merged among itself.
MergesEnd ==
    \A es \in (SUBSET Entity) \ {{}} : \E e \in es : durable.into[e] \notin es

\* The log is never contradicted: an entity that an event says was merged
\* into another is not active, since no operation undoes a merge.
LoggedMergesStand ==
    Quiet => \A v \in durable.log : v.into # NoEntity => ~Active(durable, v.ent)

\* No entity is left behind active and empty by resolution: not by a merge,
\* and not when a batch is resolved again over what an earlier call left.
ActiveOwnsRecords ==
    Quiet => \A e \in Entity : Active(durable, e) => RecordsOf(durable, e) # {}

\* After a verdict of distinct no entity holds both records.
DistinctSplits ==
    \A p \in Client : Returned(p, "mediate") /\ local[p].res = "distinct" =>
        \A e \in Entity : ~({local[p].a, local[p].b} \subseteq RecordsOf(durable, e))

\* The cluster that resolve_clusters went through last.
Behind(p) == Len(local[p].clusters) - Len(local[p].left)
LastCluster(p) == local[p].clusters[Behind(p)]

\* Once resolve_clusters is done with a cluster, every conflict recorded on an
\* entity its records were found in is recorded on the one that survived too.
ConflictsCarried ==
    \A p \in Client : At(p, "loop") /\ Behind(p) > 0 =>
        LET c == LastCluster(p)
        IN \/ Skipped(c)
           \/ \A w \in MergeWinner(local[p].found, c.members) :
                \A x \in Conflicts(View(p)) : x.ent \in FoundIn(local[p].found, c.members) =>
                    \E y \in Conflicts(View(p)) : y.pair = x.pair /\ y.ent = w

\* When stabilize_identities returns, the two sides of every overlap it found
\* are one active entity: one was consolidated into the other, or both into a
\* third.
OverlapsConsolidated ==
    \A p \in Client : Returned(p, "stabilize") =>
        \A l \in local[p].links : \E w \in Entity :
            Active(durable, w) /\ \A e \in l : e = w \/ durable.into[e] = w

\* merge_by_shared_field, unless it fails, leaves the records with one
\* authoritative id in one entity, placeholders excepted.
KeysUnify ==
    [][\A p \in Client :
        pc[p] \in {"detread", "detwrite"} /\ pc'[p] = "return" /\ fails' = fails =>
            \A r \in Record :
                (KeyOf[r] # 0 /\ Cardinality(Holders(durable, KeyOf[r])) <= MaxGroup)
                    => Cardinality(Holders(durable', KeyOf[r])) <= 1]_vars

\* A second merge_by_shared_field would find nothing to merge: the records
\* that share an authoritative id are in one entity, placeholders excepted.
KeyMergeIsIdempotent ==
    \A p \in Client : Returned(p, "resolve") => SharedKeyLinks(durable) = {}

\* manual_merge leaves the entity it was told to keep active.
MergeKeepsWinner ==
    \A p \in Client : Returned(p, "merge") => Active(durable, local[p].ent)

\* Two records a steward has ruled distinct are not in one entity again.
VerdictStands ==
    Quiet => \A x, y \in Record :
        durable.verdict[{x, y}] = "distinct" =>
            durable.owner[x] = NoEntity \/ durable.owner[x] # durable.owner[y]

\* Every call that has begun ends.
EveryCallReturns == \A p \in Client : pc[p] # "idle" ~> pc[p] = "idle"
=============================================================================
