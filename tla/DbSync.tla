------------------------------- MODULE DbSync -------------------------------
(***************************************************************************)
(* Keeping a PostgreSQL table and its entities in step (db/sync.py,        *)
(* db/reconcile.py, db/clusters.py, db/writer.py).  run_sync either scans  *)
(* the whole table with the batch pipeline, or takes the rows one by one   *)
(* and reconciles each with the persistent clusters.  Every helper commits *)
(* on its own, so a run that dies leaves whatever it had committed; here   *)
(* each commit is a step and Abort may come between any two of them.       *)
(*                                                                         *)
(* One process syncs one table, as db/watch.py does; rows arrive all the   *)
(* while.  Abstracted: what rows and golden records contain, the scores,   *)
(* dry runs, configurations without blocking, version numbers,             *)
(* gm_match_log and the ANN index.  gm_state is reduced to whether it has  *)
(* a row: run_sync never saves a watermark in it.                          *)
(***************************************************************************)
EXTENDS Integers, FiniteSets

CONSTANTS
    Record,      \* primary keys of the source table
    NoRow,       \* no row
    Link,        \* the pairs {r, s} of rows whose score reaches the threshold
    SizeCap,     \* max_cluster_size
    MaxScans,    \* bound: full scans
    MaxRuns,     \* bound: incremental runs
    MaxAborts    \* bound: runs that die between two commits

ASSUME SyncAssumption ==
    /\ NoRow \notin Record /\ IsFiniteSet(Record)
    /\ \A l \in Link : \E r, s \in Record : r # s /\ l = {r, s}
    /\ SizeCap \in Nat \ {0} /\ MaxScans \in Nat /\ MaxRuns \in Nat /\ MaxAborts \in Nat

VARIABLES
    table,      \* rows of the source table
    member,     \* gm_clusters: the pairs <<cluster, record>>
    golden,     \* the rows of gm_golden_records that are current
    synced,     \* gm_state has a row for the table
    phase,      \* where the run stands
    todo,       \* rows the run has read and not yet dealt with
    row,        \* the row being reconciled, or NoRow
    target,     \* the cluster it went to, 0 for none
    stale,      \* merged clusters whose golden record is still current
    scans, runs, aborts,
    torn,       \* history: clusters whose update was cut short and not redone since
    settled,    \* history: rows some incremental run reconciled to the end
    capped      \* history: rows kept out of a merge by the size cap

tables == <<member, golden, synced>>
work == <<phase, todo, row, target, stale>>
count == <<scans, runs, aborts>>
history == <<torn, settled, capped>>
vars == <<table, member, golden, synced, phase, todo, row, target, stale,
          scans, runs, aborts, torn, settled, capped>>

Cluster == 1 .. (MaxRuns * Cardinality(Record))
Phase == {"idle", "scan", "scanned", "match", "join", "publish", "insert"}
\* A row of gm_golden_records; only the incremental path fills in run_id.  The scan
\* stores places in its own frame as source_ids: they name no row of the table.
Golden == [cluster : Nat, sources : SUBSET Record, by : {"scan", "sync"}]

Init ==
    /\ table \in SUBSET Record
    /\ member = {} /\ golden = {}
    /\ synced = FALSE
    /\ phase = "idle" /\ todo = {} /\ row = NoRow /\ target = 0 /\ stale = {}
    /\ scans = 0 /\ runs = 0 /\ aborts = 0
    /\ torn = {} /\ settled = {} /\ capped = {}

----------------------------------------------------------------------------
(* Reading the tables. *)

Members(c) == {r \in Record : <<c, r>> \in member}
Owners(r) == {c \in Cluster : <<c, r>> \in member}
Matches(r) == {s \in table : {r, s} \in Link}
\* MAX(cluster_id) + 1: the id of a cluster merged away may be handed out again.
NextCluster(c) ==
    /\ \A p \in member : p[1] < c
    /\ c = 1 \/ \E p \in member : p[1] = c - 1
\* Mutant: only one of the matched rows is looked up.
LookupsOfOne(r) ==
    LET owned == {s \in Matches(r) : Owners(s) # {}}
    IN  IF owned = {} THEN {{}} ELSE {{c} : c \in UNION {Owners(s) : s \in owned}}

\* The clusters of the matched rows: of a row in several, one is read (LIMIT 1),
\* and a matched row that is in none yet is passed over.
Lookups(r) ==
    LET owned == {s \in Matches(r) : Owners(s) # {}}
    IN  {{pick[s] : s \in owned} : pick \in {f \in [owned -> Cluster] :
                                               \A s \in owned : f[s] \in Owners(s)}}
\* Parts of the scanned rows linked through one another.
LinkClosed(S) == \A r \in S : \A s \in todo : {r, s} \in Link => s \in S
Entities == {S \in (SUBSET todo) \ {{}} : LinkClosed(S) /\
                \A T \in (SUBSET S) \ {{}} : LinkClosed(T) => T = S}

----------------------------------------------------------------------------
(* Full scan. *)

\* A row is inserted by the application.
Arrive(r) ==
    /\ r \in Record \ table
    /\ table' = table \cup {r}
    /\ UNCHANGED <<tables, work, count, history>>

\* run_sync: no state, --full-rescan, or another configuration than last time.
BeginScan ==
    /\ phase = "idle" /\ scans < MaxScans /\ table # {}
    /\ phase' = "scan" /\ todo' = table /\ scans' = scans + 1
    /\ UNCHANGED <<table, tables, row, target, stale, runs, aborts, history>>

\* write_golden_records: one row per entity of two records or more, numbered as
\* the batch pipeline numbers its clusters; nothing older is demoted.
WriteScan ==
    /\ phase = "scan"
    /\ \E id \in [Entities -> 1 .. Cardinality(Entities)] :
        LET written == {S \in Entities : Cardinality(S) > 1} IN
        /\ \A S, T \in Entities : id[S] = id[T] => S = T
        /\ golden' = golden \cup
               {[cluster |-> id[S], sources |-> {}, by |-> "scan"] : S \in written}
    /\ phase' = "scanned"
    /\ UNCHANGED <<table, member, synced, todo, row, target, stale, count, history>>

\* update_state ends the scan.
EndScan ==
    /\ phase = "scanned"
    /\ synced' = TRUE /\ phase' = "idle" /\ todo' = {}
    /\ UNCHANGED <<table, member, golden, row, target, stale, count, history>>

----------------------------------------------------------------------------
(* Incremental run. *)

\* The saved state has no watermark: _read_incremental returns every row.
BeginIncremental ==
    /\ phase = "idle" /\ runs < MaxRuns /\ table # {} /\ synced
    /\ phase' = "match" /\ todo' = table /\ runs' = runs + 1
    /\ UNCHANGED <<table, tables, row, target, stale, scans, aborts, history>>

\* Mutant: the columns swapped.
JoinSwapped(c, r) == member' = member \cup {<<r, c>>}

\* create_cluster and add_to_cluster: one row of gm_clusters, unless it is there.
Join(c, r) == member' = member \cup {<<c, r>>}

Take(r, c, next) ==
    /\ row' = r /\ target' = c /\ phase' = next
    /\ UNCHANGED <<table, golden, synced, todo, count, torn, settled>>

\* _handle_new_entity: no candidate, no match, or no matched row in a cluster.
CreateCluster(r) ==
    /\ phase = "match" /\ r \in todo /\ {} \in Lookups(r)
    /\ \E c \in Cluster :
        /\ NextCluster(c)
        /\ Join(c, r)
        /\ Take(r, c, "publish")
    /\ UNCHANGED <<stale, capped>>

\* _handle_single_match.
JoinCluster(r) ==
    /\ phase = "match" /\ r \in todo
    /\ \E c \in Cluster :
        /\ {c} \in Lookups(r)
        /\ Join(c, r)
        /\ Take(r, c, "publish")
    /\ UNCHANGED <<stale, capped>>

MergedSize(cs) == 1 + Cardinality({p \in member : p[1] \in cs})
\* Two of the clusters hold the same row: moving it would break the primary key.
Clash(cs) == \E p, q \in member : p[1] \in cs /\ q[1] \in cs /\ p[2] = q[2] /\ p # q

\* Mutant: the members of the merged clusters are deleted.
MovedAway(cs, c) == {p \in member : p[1] \notin cs \ {c}}

\* The UPDATE of merge_clusters: whole clusters move to c.
Moved(cs, c) ==
    {p \in member : p[1] \notin cs} \cup {<<c, p[2]>> : p \in {q \in member : q[1] \in cs}}

\* _handle_multi_match under the cap: merge_clusters, into the lowest id.
MergeClusters(r) ==
    /\ phase = "match" /\ r \in todo
    /\ \E cs \in Lookups(r) : \E c \in cs :
        /\ Cardinality(cs) > 1 /\ MergedSize(cs) <= SizeCap /\ ~Clash(cs)
        /\ \A d \in cs : c <= d
        /\ member' = Moved(cs, c)
        /\ Take(r, c, "join")
        /\ stale' = cs
    /\ UNCHANGED capped

\* The UPDATE of merge_clusters fails: it is rolled back and run_sync raises.
MergeFails(r) ==
    /\ phase = "match" /\ r \in todo
    /\ \E cs \in Lookups(r) : Cardinality(cs) > 1 /\ MergedSize(cs) <= SizeCap /\ Clash(cs)
    /\ phase' = "idle" /\ todo' = {}
    /\ UNCHANGED <<table, tables, row, target, stale, count, history>>

\* _handle_multi_match over the cap: the best scored cluster takes the row.
JoinBest(r) ==
    /\ phase = "match" /\ r \in todo
    /\ \E cs \in Lookups(r) : \E c \in cs :
        /\ Cardinality(cs) > 1 /\ MergedSize(cs) > SizeCap
        /\ Join(c, r)
        /\ Take(r, c, "publish")
    /\ capped' = capped \cup {r}
    /\ UNCHANGED stale

\* add_to_cluster after a merge.
JoinSurvivor ==
    /\ phase = "join"
    /\ Join(target, row)
    /\ phase' = "publish"
    /\ UNCHANGED <<table, golden, synced, todo, row, target, stale, count, history>>

----------------------------------------------------------------------------
(* Golden versions. *)

\* Mutant: the demotion is limited to the surviving cluster.
MarkTargetNotCurrent(c) == golden' = {g \in golden : g.cluster # c \/ c # target}

\* UPDATE gm_golden_records SET is_current = FALSE for one cluster.
MarkNotCurrent(c) == golden' = {g \in golden : g.cluster # c}

\* _handle_multi_match: the merged clusters' golden records, one commit each.
RetireMerged(c) ==
    /\ phase = "publish" /\ c \in stale
    /\ MarkNotCurrent(c)
    /\ stale' = stale \ {c}
    /\ torn' = IF c = target THEN torn ELSE torn \ {c}
    /\ UNCHANGED <<table, member, synced, phase, todo, row, target, count, settled, capped>>

\* _write_golden_version: first the demotion, then the new version.
DemoteCurrent ==
    /\ phase = "publish" /\ stale = {}
    /\ MarkNotCurrent(target)
    /\ phase' = "insert"
    /\ UNCHANGED <<table, member, synced, todo, row, target, stale, count, history>>

InsertVersion ==
    /\ phase = "insert"
    /\ golden' = golden \cup {[cluster |-> target, sources |-> Members(target), by |-> "sync"]}
    /\ phase' = "match" /\ todo' = todo \ {row} /\ row' = NoRow /\ target' = 0
    /\ torn' = torn \ {target}
    /\ settled' = settled \cup {row}
    /\ UNCHANGED <<table, member, synced, stale, count, capped>>

\* update_state, without a watermark, ends the run.
EndIncremental ==
    /\ phase = "match" /\ todo = {}
    /\ phase' = "idle"
    /\ UNCHANGED <<table, tables, todo, row, target, stale, count, history>>

\* The process dies or a statement raises: what was committed stays.
Abort ==
    /\ phase # "idle" /\ aborts < MaxAborts
    /\ torn' = torn \cup stale \cup (IF target = 0 THEN {} ELSE {target})
    /\ phase' = "idle" /\ todo' = {} /\ row' = NoRow /\ target' = 0 /\ stale' = {}
    /\ aborts' = aborts + 1
    /\ UNCHANGED <<table, tables, scans, runs, settled, capped>>

Next ==
    \/ \E r \in Record :
        \/ Arrive(r)
        \/ CreateCluster(r) \/ JoinCluster(r) \/ MergeClusters(r) \/ MergeFails(r) \/ JoinBest(r)
    \/ BeginScan \/ WriteScan \/ EndScan
    \/ BeginIncremental \/ JoinSurvivor \/ EndIncremental
    \/ \E c \in Cluster : RetireMerged(c)
    \/ DemoteCurrent \/ InsertVersion
    \/ Abort

Spec == Init /\ [][Next]_vars

----------------------------------------------------------------------------
(* Properties. *)

TypeOK ==
    /\ table \subseteq Record
    /\ member \subseteq Cluster \X Record
    /\ golden \subseteq Golden
    /\ synced \in BOOLEAN
    /\ phase \in Phase
    /\ todo \subseteq table /\ settled \subseteq table /\ capped \subseteq table
    /\ row \in todo \cup {NoRow} /\ target \in Cluster \cup {0}
    /\ stale \subseteq Cluster /\ torn \subseteq Cluster
    /\ scans \in 0 .. MaxScans /\ runs \in 0 .. MaxRuns /\ aborts \in 0 .. MaxAborts

Published(c) == {g \in golden : g.cluster = c /\ g.by = "sync"}
Together(r, s) == Owners(r) \cap Owners(s) # {}

(* Outside the update in progress, and wherever no update was cut short, a    *)
(* cluster has one current golden record of the incremental path, computed    *)
(* from exactly its members, and a cluster without members has none: merges   *)
(* demote what they retire, and a later run heals what an earlier one tore.   *)
GoldenTracksMembers ==
    \A c \in Cluster \ (torn \cup stale \cup {target}) :
        {g.sources : g \in Published(c)} = {Members(c)} \ {{}}

(* Two matching rows that incremental runs have both reconciled share a       *)
(* cluster, whatever the order, the arrivals and the aborted runs in between, *)
(* unless the size cap kept one of them out of a merge.                       *)
IncrementalGathers ==
    \A r, s \in settled : {r, s} \in Link => Together(r, s) \/ {r, s} \cap capped # {}

(* "Only processes records added since last run" (README.md:948): an          *)
(* incremental run takes up no row an earlier one has reconciled.             *)
OnlyNewRows == [][phase = "idle" /\ phase' = "match" => todo' \cap settled = {}]_vars

(* Rows that share a cluster share one ever after: merges move whole clusters. *)
StaysTogether == [][\A r, s \in Record : Together(r, s) => Together(r, s)']_vars
=============================================================================
