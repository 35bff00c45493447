--------------------------- MODULE IdentityStore ---------------------------
(***************************************************************************)
(* The durable identity graph of goldenmatch (identity/store.py): entity   *)
(* nodes, the entity that owns each source record, evidence edges, steward *)
(* verdicts and the append-only event log.  A graph is one value, and each *)
(* SQL statement of the store is an operator from a graph to a graph, so   *)
(* that the modules built on this one decide which statements run, in      *)
(* which order, and what a transaction makes durable.                      *)
(*                                                                         *)
(* Entity ids are the numbers 1, 2, 3, ... in the order new_entity_id      *)
(* mints them: ids are UUIDv7-shaped and time-ordered, and created_at is   *)
(* taken at the same moment, so "smallest id" and "oldest" coincide.       *)
(***************************************************************************)
EXTENDS Integers, FiniteSets

CONSTANTS
    Record,      \* record ids, {source}:{source_pk}
    MaxEntity,   \* bound: how many entity ids a behaviour may mint
    Run          \* run names

ASSUME MaxEntityAssumption == MaxEntity \in Nat

NoEntity == 0
Entity == 1 .. MaxEntity
EntityOrNone == 0 .. MaxEntity

\* No row, IdentityStatus.ACTIVE, MERGED_INTO and RETIRED.  Nothing in the
\* store or its callers ever writes IdentityStatus.SPLIT.
Status == {"absent", "active", "merged_into", "retired"}

\* canon_record_pair makes a pair unordered.
Pair == {{a, b} : a, b \in Record}

EdgeKind == {"same_as", "conflicts_with"}
Edge == [kind : EdgeKind, ent : Entity, pair : Pair, run : Run]

Resolution == {"same", "distinct", "defer"}
Verdict == Resolution \cup {"none"}

\* identity_events, reduced to what happened, to whom, and the entity the
\* payload's merged_into field names (NoEntity for every other payload).
EventKind == {"created", "absorbed_record", "merged_with", "manual_merge",
              "manual_split", "consolidated", "conflict_mediated", "claimed"}
Event == [kind : EventKind, ent : Entity, into : EntityOrNone]

(***************************************************************************)
(* A graph.  verdict[p] is the resolution on the newest mediation_verdict  *)
(* edge of pair p, the only one _latest_verdicts looks at.                 *)
(***************************************************************************)
Graph == [status  : [Entity -> Status],
          into    : [Entity -> EntityOrNone],
          owner   : [Record -> EntityOrNone],
          edges   : SUBSET Edge,
          verdict : [Pair -> Verdict],
          log     : SUBSET Event]

EmptyGraph == [status  |-> [e \in Entity |-> "absent"],
               into    |-> [e \in Entity |-> NoEntity],
               owner   |-> [r \in Record |-> NoEntity],
               edges   |-> {},
               verdict |-> [p \in Pair |-> "none"],
               log     |-> {}]

----------------------------------------------------------------------------
(* Reads. *)

Exists(g, e) == e \in Entity /\ g.status[e] # "absent"
\* Mutant: the status check is dropped.
ActiveIfExists(g, e) == e \in Entity /\ g.status[e] # "absent"

Active(g, e) == e \in Entity /\ g.status[e] = "active"

\* get_records_for_entity, and the rows retired entities may still own.
RecordsOf(g, e) == {r \in Record : g.owner[r] = e}

\* Mutant: only the default edge kind is returned.
EdgesOfSameAs(g, e) == {x \in g.edges : x.ent = e /\ x.kind = "same_as"}

\* edges_for_entity and find_conflicts.
EdgesOf(g, e) == {x \in g.edges : x.ent = e}
Conflicts(g) == {x \in g.edges : x.kind = "conflicts_with"}

----------------------------------------------------------------------------
(* Consistency of a graph. *)

\* Whatever points at an entity points at one that has a row.
PointsAtRows(g) ==
    /\ \A r \in Record : g.owner[r] # NoEntity => Exists(g, g.owner[r])
    /\ \A e \in Entity : g.into[e] # NoEntity => Exists(g, g.into[e])
    /\ \A x \in g.edges : Exists(g, x.ent)
    /\ \A v \in g.log : Exists(g, v.ent) /\ (v.into # NoEntity => Exists(g, v.into))

\* A node says merged_into exactly when it says into what.
PointersAgree(g) ==
    \A e \in Entity : g.status[e] = "merged_into" <=> g.into[e] # NoEntity

----------------------------------------------------------------------------
(* Statements. *)

\* INSERT ... ON CONFLICT(entity_id) DO UPDATE: status and merged_into are
\* overwritten whatever the row held before.
UpsertIdentity(g, e, st, in) ==
    [g EXCEPT !.status[e] = st, !.into[e] = in]

\* Mutants: the wrong member of IdentityStatus, the pointer or the status column
\* forgotten, a WHERE clause that matches no row.
RetireIdentityAsSplit(g, e, in) == [g EXCEPT !.status[e] = "split", !.into[e] = in]
RetireIdentityNoPointer(g, e, in) == [g EXCEPT !.status[e] = "merged_into"]
RetireIdentityNoStatus(g, e, in) == [g EXCEPT !.into[e] = in]
RetireIdentityNever(g, e, in) == g

\* UPDATE ... WHERE entity_id = ?: touches no row when the entity is absent.
RetireIdentity(g, e, in) ==
    IF Exists(g, e)
    THEN [g EXCEPT !.status[e] = IF in # NoEntity THEN "merged_into" ELSE "retired",
                   !.into[e] = in]
    ELSE g

\* Mutant: INSERT OR IGNORE, so that a record never changes hands.
UpsertRecordIgnore(g, r, e) == IF g.owner[r] = NoEntity THEN [g EXCEPT !.owner[r] = e] ELSE g

UpsertRecord(g, r, e) == [g EXCEPT !.owner[r] = e]

\* INSERT OR IGNORE on UNIQUE(entity_id, record_a_id, record_b_id, kind, run_name).
AddEdges(g, es) == [g EXCEPT !.edges = @ \cup es]

AddVerdict(g, p, res) == [g EXCEPT !.verdict[p] = res]

EmitEvents(g, evs) == [g EXCEPT !.log = @ \cup evs]

\* bulk_upsert_identities, bulk_upsert_records, bulk_add_edges and
\* bulk_emit_events for accumulated brand-new clusters, which the flush runs
\* in that order and commits as one: a row is
\* [ent |-> entity, members |-> records, edges |-> edges].
BulkWrite(g, rows) ==
    LET ents == {w.ent : w \in rows}
        row(r) == CHOOSE w \in rows : r \in w.members
        claimed == UNION {w.members : w \in rows}
    IN [g EXCEPT !.status = [e \in Entity |-> IF e \in ents THEN "active" ELSE @[e]],
                 !.into   = [e \in Entity |-> IF e \in ents THEN NoEntity ELSE @[e]],
                 !.owner  = [r \in Record |-> IF r \in claimed THEN row(r).ent ELSE @[r]],
                 !.edges  = @ \cup UNION {w.edges : w \in rows},
                 !.log    = @ \cup {[kind |-> "created", ent |-> e, into |-> NoEntity] : e \in ents}]

\* Mutants: only the nodes are updated; the status column is not.
RemapEntitiesNodesOnly(g, remap) ==
    LET absorbed(e) == remap[e] # e /\ Exists(g, e)
    IN [g EXCEPT !.status = [e \in Entity |-> IF absorbed(e) THEN "merged_into" ELSE @[e]],
                 !.into   = [e \in Entity |-> IF absorbed(e) THEN remap[e] ELSE @[e]]]
RemapEntitiesNoStatus(g, remap) ==
    [g EXCEPT !.owner = [r \in Record |-> IF @[r] = NoEntity THEN NoEntity ELSE remap[@[r]]],
              !.into  = [e \in Entity |-> IF remap[e] # e /\ Exists(g, e) THEN remap[e] ELSE @[e]]]

\* The two executemany updates of merge_by_shared_field, inside one
\* transaction: remap sends each absorbed entity to its survivor and every
\* other entity to itself.
RemapEntities(g, remap) ==
    LET absorbed(e) == remap[e] # e /\ Exists(g, e)
    IN [g EXCEPT !.owner  = [r \in Record |-> IF @[r] = NoEntity THEN NoEntity ELSE remap[@[r]]],
                 !.status = [e \in Entity |-> IF absorbed(e) THEN "merged_into" ELSE @[e]],
                 !.into   = [e \in Entity |-> IF absorbed(e) THEN remap[e] ELSE @[e]]]
=============================================================================
