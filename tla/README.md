# goldenmatch: a TLA+ verification project

goldenmatch deduplicates records and keeps the result, across runs, in a durable
*identity graph*: entities, the records they own, the evidence for it, the verdicts
of stewards, and an append-only event log that a chain of seals makes tamper evident.
Around that graph stand the parts that feed and use it: the clustering of scored pairs,
the LLM that scores the doubtful ones under a budget, the database sync that keeps
clusters and golden records for a growing table, the stream that adds records one by
one, and the memory that learns from stewards. The modules in this directory model these;
TLC checks them on small instances and TLAPS proves part of it for all.

Paths below are relative to `src/packages/python/goldenmatch/goldenmatch/` unless they
start with `src/`.

## 1. The system

### Components

| component | where | state | operations |
|---|---|---|---|
| identity store | `identity/store.py`, `identity/model.py` | SQL tables: nodes, records, edges, events, seals, aliases, claims | one statement each; `bulk_writes`; `merge_by_shared_field` |
| resolution | `identity/resolve.py` | per call: the pre-flight maps and the accumulators of new clusters | `resolve_clusters` |
| steward operations | `identity/query.py` | none but the store | `manual_merge`, `manual_split`, `claim_record` and the claim lifecycle |
| mediation | `identity/mediation.py` | verdict edges | `mediate_conflict`, the open-conflicts feed |
| stabilization | `identity/stabilize.py` | per call: components still to consolidate | `stabilize_identities` |
| audit chain | `identity/audit.py` | seals | `seal_audit_log`, `verify_audit_chain` |
| clustering | `core/cluster.py` | clusters with the pairs they were built from | build, `add_to_cluster`, `unmerge_record`, `unmerge_cluster`, split oversized ones |
| distributed clustering | `distributed/clustering.py`, `_connected_components.py` | labels, residual pairs, union-finds | six routes to the components of a graph |
| streaming | `core/streaming.py`, `core/match_one.py` | a frame and its clusters | process a record |
| database sync | `db/sync.py`, `reconcile.py`, `clusters.py`, `writer.py`, `metadata.py`, `watch.py` | clusters and versioned golden records in SQL | full scan, incremental run, reconcile one row |
| learning memory | `core/memory/` | one correction per pair, adjustments with the date they were learned | add a correction, learn, apply |
| review queue | `core/review_queue.py`, `cli/review.py` | items with a decision | add, approve, reject |
| LLM budget | `core/llm_budget.py`, `core/llm_scorer.py` | cost and calls so far | `can_send`, `record_usage`, from scorer threads |
| incremental resolution | `identity/block_index.py`, `core/incremental.py` | block index | resolve one record |
| views of the graph | `identity/profile.py`, `survivorship.py`, `stitching.py`, `relationships.py` | relationship table | derived profiles, relationships |
| id migration | `identity/migrate_ids.py` | none | one transaction of renames |
| other stores | `identity/mongo_backend.py`, `snowflake_backend.py`, the Postgres dialect of `store.py` | the same tables | the same |
| distributed resolution | `distributed/identity.py`, `identity_partition.py` | partitions | resolve partitions, merge them |
| MCP sessions | `mcp/_session_store.py` | an LRU with a time to live | put, get, evict |
| run log | `core/rollback.py` | a JSON file | save a run, roll one back |
| pipeline | `core/pipeline.py`, `blocker.py`, `scorer.py`, `probabilistic.py`, `golden.py` | data frames | block, score, cluster, build golden records |
| front ends | `cli/`, `web/`, `api/`, `a2a/`, `mcp/`, `tui/` | sessions | calls of the above |
| other packages | `src/packages/python/{goldenpipe,goldenflow,goldencheck,infermap,goldenanalysis,goldengraph}`, `src/packages/{typescript,rust,dbt,jvm}` | | data transformations, ports, kernels, adapters |

### How they interact

The pipeline scores pairs and clusters records, in one process and in one pass, and
hands the clusters to `resolve_clusters`, which decides for each cluster whether it is
a new entity, one that exists, or several that must be merged. Everything else talks
through the store: stewards change the graph from the CLI, the REST server or an MCP
tool while batches run; stabilization looks at the evidence that batches left; the
audit functions read the events all of them wrote. There is no lock but the database's.
SQLite runs in WAL mode with a busy timeout (`store.py:376-390`): one writer at a time,
readers see the last commit, and a writer that waits too long gets an exception.

Scored pairs become clusters by one of six routes: in memory, or spread over a Ray
cluster. Before that, doubtful pairs may go to a language model, batch by batch, on a pool
of threads that share one budget, and the corrections that people and agents left in the
memory override scores; what cannot be trusted any more goes to the review queue, whose
decisions are the next corrections. A database table that grows is synced by another
path, which scores each new row against the table and reconciles it with clusters kept in
SQL; a stream does the same in memory.

### What is hard, and what makes each component correct

* **Interleaving.** Steward operations commit every statement by itself, so another
  client or a crash fits between any two. `resolve_clusters` reads owners and nodes
  once, before its transaction opens, and uses what it read for the whole batch.
* **Partial failure.** `bulk_writes` promises all or nothing, but `_exec` commits every
  chunk of statements; the accumulator of new clusters is flushed in the middle. A
  batch that failed half way is run again.
* **Long histories.** Merges, splits, claims, verdicts, batches and consolidations are
  each checked against the graph they meet, and their effects compose: merge chains,
  records under retired entities, conflicts on entities that were merged away.
* **The log.** Events are a second account of the graph. They are sealed by readers
  that do not stop the writers.

* **Row ids that move.** A correction names two places in a frame that is loaded again
  for every run; hashes of the rows say whether they still hold what was decided on.
* **Commits without a transaction.** A reconciliation of one row is four or five commits
  of the sync, and a process that polls runs again after any of them was the last.
* **A check and a call.** A thread asks for budget, waits half a minute for an answer, and
  records what it cost only then.
* **Many algorithms for one answer.** Connected components are computed by rounds of
  labels, by random contraction and by union-find on partitions; all must agree.
* **Edits to what was computed.** Clusters keep their pairs so that they can be taken
  apart later, after any additions and merges.

So: nothing points at an entity without a row; the two columns of a merge agree; merged
entities own nothing and merge chains end; a cluster ends up in one entity, also after
a retry, and a replay changes nothing; conflicts and verdicts survive later operations;
the log accounts for the graph; an untouched log verifies and a change to a sealed event
is noticed; every call returns. Matching rows are gathered, whatever the order and
the crashes, and golden records follow their clusters; a correction acts on the rows it was made about
and none is lost without a word; a budget is exceeded by no more than what was under way;
every route gives the connected components; and clusters stay a connected partition
through additions and takings apart. The hazards behind these, with their lines, are
listed under `hazards` in `PROJECT.json`.

## 2. The modules

| module | models |
|---|---|
| `IdentityStore` | a graph as one value; reads and SQL statements as operators on graphs |
| `IdentityRules` | the decisions: whom a cluster belongs to, who survives, what evidence is left, persistent overlaps, shared authoritative ids |
| `IdentityGraph` | any number of clients of one SQLite store; calls, statement by statement |
| `MCIdentityGraph` | its instances: batches, seeds, keys |
| `IdentityGraphProofs` | theorems: types, pointers and references; the log, and what steward operations do to entities |
| `IdentityBatchProofs` | theorems: batches, stabilization passes and mediated conflicts, one client |
| `AuditChain`, `MCAuditChain`, `AuditChainProofs` | writers, sealers and verification of the event log |
| `DbSync`, `MCDbSync`, `DbSyncProofs` | scans and incremental runs over a growing table, commit by commit |
| `LearningMemory`, `MCLearningMemory`, `LearningMemoryProofs` | the review queue, the corrections and the pipeline that learns from them: three components composed |
| `LLMBudget`, `MCLLMBudget`, `LLMBudgetProofs` | scorer threads and their tracker |
| `Components` | abstract: what clustering promises |
| `DistributedClustering`, `MCDistributedClustering`, `DistributedClusteringProofs` | the six routes, shown to implement `Components` |
| `ClusterEdits`, `MCClusterEdits`, `ClusterEditsProofs` | streams and stewards that change clusters |

### IdentityStore and IdentityRules

A graph is a record of the tables as functions: `status` and `into` of an entity,
`owner` of a record, the set of `edges`, the newest `verdict` of a pair, and the set of
events (`log`). Golden records, confidences, aliases and timestamps are left out.
Entity ids are 1, 2, 3, ... in minting order: ids are time ordered, and an entity's
`created_at` is taken when its id is minted, so the smallest id is the oldest entity.
Every write of the store is one operator with the conflict clause of its SQL:
`UpsertIdentity` overwrites status and pointer, `RetireIdentity` touches no row that is
not there, `AddEdges` ignores what exists, `BulkWrite` is the four bulk statements of a
flush, `RemapEntities` the two updates of the deterministic merge.

`IdentityRules` holds pure decisions. Union-find, which `stabilize.py` and `store.py`
each write out, appears as what it computes: `ComponentOf(e, links)` is the least set
that holds `e` and is closed under the links.

### IdentityGraph

A call is a record of the Python function's variables (`local[p]`), a program counter
that names the next *read* (`pc[p]`), and the statements it will write before that read
(`todo[p]`). Between two reads the code is deterministic, so a read fixes the statements
that follow; they are then executed one at a time by the actions under "Writing".
A statement over a set is a loop whose order the properties do not depend on: its action
executes one element and leaves the rest at the head of `todo`. So other clients
interleave between any two statements, and a crash (`Fail`) may fall between any two.

| code | actions |
|---|---|
| `resolve_clusters` | `BeginResolve`, `ResolveLookup`, `ResolveNodes`, then per cluster `ResolveSkip`, `ResolveAccumulate`, `ResolveCreate`, `ResolveAbsorb` or `ResolveMerge`, then `ResolveFinish`, `DetMergeRead`, `DetMergeWrite`, `DetMergeFails` |
| `manual_merge`, `manual_split`, `claim_record` | `BeginMerge`, `MergeCheck`, `MergeCheckOther`, `MergeRecords`; `BeginSplit`, `SplitCheck`, `MoveRecord`; `BeginClaim`, `ClaimTarget`, `ClaimRecord` |
| `mediate_conflict(apply=True)` | `BeginMediate`, `MediateFind`, `MediateFindOther`, `MediateAct` |
| `stabilize_identities(apply=True)` | `BeginStabilize`, `StabilizeScan`, `StabilizeGroup`, `StabilizeLoser`, `StabilizeNext` |
| `_exec`, `bulk_writes` | `Exec`, `Commit`, `Flush`, and `Fail` for the rollback |

The store itself is `durable` (committed), `work` (with the writer's uncommitted
statements), `writer` and `pending`. Steward statements autocommit. In `bulk_writes`
statements go to `work` and are committed every `ChunkSize` statements and at every
flush. `View(p)` is what `p` reads: `work` for the writer, `durable` for everybody else.
A client that cannot write waits; the busy timeout that ends its wait with an exception
is `Fail`, like every other exception and a crash.

Modelling decisions a reader should know:

* `Fail` leaves no call half remembered: the connection is closed, an open transaction
  is rolled back, and the caller may call again.
* The SELECTs of `find_persistent_overlaps` are one read. Each statement of a steward
  operation that reads before it writes is a read of its own.
* The conflicts of a loser are read inside the bulk transaction (`CarryConflicts`).
  When this read is the first statement after a chunk commit it takes the transaction's
  snapshot, and SQLite refuses the later write if anyone else has written since; the
  model gives the reader the write lock, which is the run of that transaction that
  succeeds. The refused one is a `Fail`.
* An exception in `merge_by_shared_field` is swallowed and the call goes on: `DetMergeFails`.
* `manual_split` takes any record ids and `mediate_conflict` any two records, of the entity
  or not, owned or not. A verdict on two records that nobody owns is an edge on the
  entity `""`, outside the graph's `edges`; `verdict` has it.
* One deterministic merge field; the first winner strategy, `most_records`; no dataset
  filter in resolution. A pair is in `pair_scores` for every two records of a cluster.
* `Idle` gives the variables of a finished call fixed values, so that states differ only
  where the program's do.

### AuditChain

`EmitEvent`, `CommitTx` and `RollbackTx` are the writers' transactions, with event ids
handed out as SQLite does (one writer, ids taken back on rollback: `CommitOrdered`) or as
a Postgres sequence does. `seal_audit_log` is `ReadLatestSeal`, `ExportNewEvents`,
`AddSeal`: two reads and an insert without a transaction, so sealers of the same scope
overtake each other. `VerifyOk` is the pass of `verify_audit_chain` over the export with
its three checks: content hashes, seals at their boundary, boundaries never met.
`Tamper` rewrites the event rows in any way at all, edits with or without a matching
hash, deletions, insertions and permutations, between two calls of `seal_audit_log`.
SHA-256 is taken as collision free, so a hash is the hashed content and a chained root
the sequence of contents (`Story`). `covered` remembers what each root stands for.

### DbSync

State is that of the tables: `member` is `gm_clusters`, `golden` the current rows of
`gm_golden_records`, `synced` whether `gm_state` has a row. A run is its phase, the rows
still to do, the row in hand and the cluster it went to. Each commit is an action, in the
order of `reconcile.py`: `CreateCluster`, `JoinCluster`, `MergeClusters` with
`JoinSurvivor`, or `JoinBest` over the size cap; then `RetireMerged` for each merged
cluster, `DemoteCurrent`, `InsertVersion`. `Abort` may come between any two of them.
`Lookups` keeps what `get_cluster_for_record` really does: of a row in several clusters it
reads one, and a matched row in none is passed over. `NextCluster` is the largest id in
use plus one, so ids are given again after merges. History variables remember which
clusters an abort tore (until a later reconciliation heals them), which rows were
reconciled to the end and which the cap kept out. A full scan numbers its clusters by
itself and stores places in a frame as `source_ids`; these rows carry `by = "scan"`.

### LearningMemory

A correction is a decision, a trust, a date and the contents it was made about (which
stand for the two hashes; none for what agents submit). Writing one is `Call`, then
`Upsert` on PostgreSQL, where one statement compares trust and writes, or `ReadExisting`
and `Replace` on SQLite, where another client fits between; `FailWrite` is a store that
raises, which the queue only logs. A pipeline run is `StartRun` (learn only when
there are newer corrections, and enough of both decisions), `SaveAdjustment`, `Apply`,
`EnqueueStale` for one stale pair after the other, and `EndRun`. Each part may raise and the
pipeline goes on: `LearnFails` saves nothing, `ApplyFails` leaves the scores and queues
nothing, `EnqueueFails` leaves the rest out of the queue. The client in `Framed` has a
queue that was given the frame and hashes what it decides on; `goldenmatch review` without
files has none and its decisions carry no hashes. The corrections `unmerge_record`
writes are among `Submit`. `Apply` is `apply_corrections` as one definition over pairs: rows by id,
else by hash where exactly one row has it, the last by date, and then the comparison of
hashes. `Reload` gives the data in another order between runs.

### LLMBudget

`Submit` and `Stop` are the two loops of `_batch_score`, over at most two batches or with
one worker in turn, else over a pool; `Send`, `Refuse`, `Answer`, `Retry`, `Fail` and `Raise` are `_score_one_batch`. The tracker
changes only in `Answer`. The tracker is asked about `Estimate(b)`, which grows with the
pairs of a batch, of which the last has as many as are left; a call costs anything up to `MaxCost`,
also more than that.

### Components and DistributedClustering

`Components` has one step: an answer that gives two records the same cluster exactly when
no set closed under the pairs parts them. `DistributedClustering` has the six routes with
`algorithm` fixed at the start. Rounds of labels are synchronous, because each Ray
dataset is materialised before the next; the union-finds of partitions interleave pair by
pair. Union-find is the code's, with ranks and path compression, as functions on a forest.
Contraction takes any order of the vertices where the code takes a hash. The refinement
mapping hides an answer given at the limit of rounds (`bestEffort`), of which the code
logs that it is one; `label_propagation` at its limit falls back to the in-memory route
and so keeps the promise. That route numbers its clusters (`Dense`), the others name them
by their least member. `local` is run where its precondition holds: components do not
span partitions.

### ClusterEdits

A cluster is its members and the pairs it keeps with their scores. The code keeps member
lists sorted, so that a list says only how often it lists an id: `members` is a function
from ids to counts, more than 1 where a refused row's id was given twice. `InOrder` is the
list again, for `UnmergeCluster`, which numbers its members in that order.

`Build` is `_build_clusters_dict_path` with `_finalize_clusters`: the components of the
pairs, and those of more than `MaxSize` members cut into parts. Which edges the cut goes
through (the weakest of a maximum spanning tree, by level where scores tie) and when the budget of
edge work ends it are data: `Partings` has every way to cut them small enough or to leave
them whole, `Numberings` every order of the parts. The size is one for all builds; the code takes the
configured one in a run and 100 in `unmerge_record`. Where the code leaves a gap at the id of the
cluster it cut, the model numbers on.

A stream starts from none (the default) or from the clusters of an earlier run over the same
frame (`Init`). Which pairs that run compared is blocking, and scored as linked is any
subset of those that one of its matchkeys links. Its clusters keep their
pairs when they come from the dict path and have none when they come from the columnar one
(`keeps`, `Forgetful`), as by default. `ProcessRecord` is a record that arrives: matched
against the frame by the weighted and probabilistic matchkeys with a threshold (`Streamed`)
and no other, the best score of several, then `AddToCluster` alone, to one
cluster, or to several that merge. `RefuseRow` is the same when the frame cannot take the
row afterwards: `process_record` has changed the clusters already and `process_batch`
swallows the exception. `UnmergeRecord` rebuilds a cluster without a record from the pairs
kept, or from those of the run that the caller hands it (`Evidence`), at or above a threshold; a
pair with a row of no cluster makes the Python kernel raise, which is no step, and the
native one take the row in. `UnmergeCluster` shatters. History variables tell the properties
what to expect: `links`, the pairs inside the clusters of the run and those the stream found;
`loose`, the rows that a stream without clusters starts from; and `refused`.

## 3. What is checked

### Runs that pass

| run | asks | instance |
|---|---|---|
| `steward` | what any four steward calls in a row do to a graph that has a flagged pair and a record nobody owns; splits of any set, verdicts on any two | 3 records, 1 client, 5 ids |
| `race` | what two processes do to each other, batches and steward calls mixed, statement by statement, one crash | 4 records, 2 clients, a commit every 2 statements, a flush every 2 rows; splits of a record, or of two that are not in one entity |
| `resolve` | every sequence of three batches of up to two clusters, one crash, so replays and retries too | 3 records, 1 client, any batch of strong and weak clusters, one transaction per batch |
| `passes` | batches with an authoritative id, splits and stabilization in any order, one crash | 4 records, 1 client, 4 calls, a commit every 2 statements, a flush every 2 rows, `MaxGroup` 2 |
| `audit_chain` | sealers, a writer and one intrusion | 3 events, 2 datasets and the global scope, 3 seals |
| `sync` | scans and runs over a table that grows, one killed between any two commits | 3 rows in a chain, 2 scans, 4 runs |
| `memory` | decisions, submissions and pipeline runs, on both backends | 2 frames of 2 and 3 rows, 2 clients, one with the frame, 3 corrections, 2 runs any part of which fails, 1 failed write |
| `budget` | batches on threads under every kind of limit | 4 batches of 2 pairs, the last of 1 or 2, 3 threads, 3 attempts, calls that cost more than the estimate or less |
| `wcc` | every graph by every route | 4 records, 2 partitions |
| `stream` | records that arrive one by one, and stewards who take clusters apart | 4 rows of 3 contents, 2 matchkeys of which one streams, clusters of at most 2 when built, 1 refused row, 2 edits |

What they show, property by property:

* `ReferencesResolve` (race; proved): no durable record, pointer, edge or event names an entity
  without a row. Only records have a foreign key in the schema.
* `PointerAgrees` (race, passes; proved): `status = merged_into` iff `merged_into` is set.
* `MergedOwnsNothing`, `MergesEnd` (steward; proved): a merged entity keeps no record and chains
  of `merged_into` end, over all sequences of steward calls, also with losers that are
  already merged.
* `LogExplainsGraph` (steward; proved): every entity has an event of its birth and every
  merged one an event that names its survivor.
* `LoggedMergesStand` (steward; proved): what the log says was merged stays merged.
* `DistinctSplits` (steward; proved): after a verdict of distinct no entity holds the two
  records, wherever earlier calls moved them and whichever of them was owned.
* `BatchGathers` (resolve, passes; proved): when a batch returns each of its clusters lies in one
  entity, also as the retry of a batch that failed in the middle of a merge.
* `ReplayIsNoop` (resolve; proved): a batch that says nothing new changes nothing, under any run
  name.
* `ConflictsCarried`, `ActiveOwnsRecords` (resolve; proved): a flagged pair survives the merge of
  its entity, and one process alone leaves no empty entity.
* `KeysUnify` (passes; proved): the records that share an id are in one entity after the
  deterministic merge, unless it fails or the id has too many holders when it begins.
* `OverlapsConsolidated` (passes; proved): a pass of stabilization that returns has consolidated
  every overlap it found, both sides into one entity that is active.
* `EveryCallReturns` (race): nobody waits for ever.
* `HonestLogVerifies`, `SealCovers`, `SealedLogIsProtected` (audit_chain; proved): no false
  alarm while nobody tampers; what was committed when a seal began is sealed when it
  returns; and once anything a seal anchored reads differently, verification fails.
* `IncrementalGathers` (sync; proved): two linked rows that runs have reconciled share a
  cluster, whatever the order, the arrivals and the killed runs between, unless the size
  cap kept one out. `StaysTogether` (sync; proved): no step ever parts them again.
* `GoldenTracksMembers` (sync; proved): outside an update in progress, and where none was
  cut short, a cluster has one current golden record of exactly its members, and an emptied one
  has none, although ids are given again. Where one was cut short, the next row to
  join heals it.
* `NothingDropsSilently` (memory; proved): while people go on deciding pairs, a correction that a
  run has read overrides, is superseded by a later one, is in the queue again or about to be, or
  concerns rows the pipeline did not score; only an exception that is swallowed ends this.
  `FreshIsSeen` (memory; proved): the trigger of the learner overlooks nothing but
  what was stored, or dated, while a learning pass ran. `DecidedIsRemembered` (memory; proved): on
  PostgreSQL a decided pair keeps a person's correction, whatever agents submit.
* `SpendBounded`, `SkippedOnlyWhenSpent` (budget; proved): the limits are exceeded by no
  more than the calls under way, and money that a batch was refused goes to none of at least as
  many pairs. `EveryBatchEnds` (budget): `_batch_score` returns.
* `KeepsPromise` (wcc; proved): each route implements `Components`. `NamedByLeast` (wcc;
  proved): the same component has the same id on every worker. `TreesStayFlat` (wcc; proved):
  ranks grow along paths and a root of rank k has 2^k members.
* `OneClusterEach`, `ClustersConnected` (stream; proved): records are in one cluster each, and
  each cluster that keeps pairs hangs together by them. `StreamFollowsLinks` (stream; proved): whatever
  the order of arrival, two records are in one cluster exactly when a chain of links joins them, each
  inside a cluster of the run or found by the stream. `IdsStayInTheFamily`
  (stream; proved): an id that is in use before and after an edit still names a kin cluster.

Every property has a mutant in `PROJECT.json`, a plausible slip in one operator, under
which the same run finds it violated.

### The runs that find a disagreement

`overlay` refutes what the documentation says of the learning memory, quoted under
`findings`: the thresholds a run has learned are used by that run only.
`_apply_memory_pre` returns when nothing is newer than the last learning, so the next run
scores without them.

`rekey` refutes the docstring of `merge_by_shared_field` (`identity/store.py:1582-1583`),
which calls it idempotent. A value with more holders than `max_group` is taken for a
placeholder and skipped; the merges of the same call on other values may reduce its
holders, so that a second call merges on it. `KeysUnify` is what the code does promise.

### Seen while modelling

With the same modules and other constants, and not kept as runs. In the identity layer:

* One batch merges entity 2 into 1 for its first cluster; its second cluster absorbs into
  2 from the pre-flight snapshot and writes it back as active (`LoggedMergesStand`,
  `Batches <- MergeThenAbsorb`; `resolve.py:1414` against the comment at 1486).
* A merge migrates only the records of its cluster, so a loser's other record stays with
  the retired entity (`MergedOwnsNothing`, `Batches <- LeavesOne`; `resolve.py:1492`
  against 1490). After it the deterministic merge can pick a retired entity as survivor,
  and two entities are merged into each other (`DetMerge`).
* Batches alone can do the same (`MergesEnd`, five records, three batches). A batch absorbs
  entity 1 into 2 and strands two records with it. In the next, one of the two meets fewer
  records of 2, so that 1 survives and 2 is merged into it; the other, in a cluster of
  its own, then writes the node of 1 from the pre-flight snapshot: merged into 2
  (`resolve.py:1414`, `resolve.py:1492`).
* Two processes resolve the same new batch: both create an entity, the records go to the
  later, the earlier stays active and empty (`ActiveOwnsRecords`, two clients,
  `Batches <- SameBatch`; `store.py:4`, and
  `docs-site/goldenmatch/identity-graph.mdx:93`).
* Two opposite `manual_merge` calls both pass "Winner must be active" (`query.py:186`) and
  retire both entities (`MergeKeepsWinner`, two clients, `Calls = {"merge"}`). One entity on
  both sides is retired into itself. `race` runs with `SelfMerge = TRUE`.
* The next run that clusters two records a steward ruled distinct puts them together
  again (`VerdictStands`, `Batches <- Together`; `mediation.py:18-22`), and stabilization
  consolidates over such a verdict.
* Only a batch carries conflicts. `manual_merge` and stabilization leave a conflict recorded on
  the entity they retire, where a later merge of the survivor by a batch does not look.
* On Postgres an event that commits after a seal with a smaller id makes an untouched log
  fail verification (`HonestLogVerifies`, `CommitOrdered = FALSE`; `store.py:2533`).
* `merge_by_shared_field` writes no event, so a deterministic merge is not in the log
  (`LogExplainsGraph` with `DetMerge`). With `ChunkSize = 2`, as in `passes`, a failing batch
  leaves its first chunks durable, against `store.py:898-899`; what is promised is that running
  it again completes it (`BatchGathers`).
* A crash in `manual_merge` or `manual_split` before its last statement leaves a merge or a
  birth that no event tells of (`LogExplainsGraph`, `MaxFails = 1`; `query.py`).
* A crash inside `mediate_conflict`'s split leaves an active entity without records, and
  two processes whose batches commit in chunks can leave a cluster in two entities.
* Ids are not hashed: rows renumbered in their order verify.

In the other components; definitions that state the document's claim and are not checked
by a run are in the modules under the names given:

* No watermark is ever saved, so every incremental run takes up every row again
  (`OnlyNewRows`; `src/packages/python/goldenmatch/README.md:948`), and each one that
  matches nothing gets a further cluster of its own. A row in two clusters can make a later
  merge violate the primary key, and that sync fails each time. A run killed between
  the merge and the demotions leaves a current golden record of a cluster without members.
* On SQLite an agent's correction can replace a steward's that was stored between its read
  and its write. A correction stored while a learning pass runs may never trigger one. A
  correction whose rows swapped places is stale although both are there
  (`SurvivesReordering`; `README.md:279`). Corrections without hashes act on whatever rows
  hold their ids. `last_learn_time` looks at no dataset.
* `max_calls` is exceeded by calls under way (`HardCap`; `config-matrix.mdx:558`), a call whose
  reply is lost is made again and the first is never counted, and
  `golden_strategy_llm.py:255` and 310 call `can_afford` and `charge`, which the tracker
  does not have.
* The in-memory route returns dense numbers, where the docstring at `clustering.py:341`
  promises the minimum member; `pointer_jump` ignores `all_ids` and so drops singletons.
* A stream's clusters are not those of a batch over the same rows: it compares a record with every
  row, but by some of the matchkeys only, and it never cuts a cluster that grows past
  `max_cluster_size`, although the docstring of `add_to_cluster` names `StreamProcessor` as a
  caller that should (`cluster.py:1557-1560`).
* With clusters that keep no pairs, the default, `unmerge_record` without `scored_pairs`
  shatters what remains.
* A row refused by the frame leaves its id in a cluster and the next record gets the same
  (`streaming.py:140`). A merge keeps pairs with rows outside the cluster, on which a later
  `unmerge_record` raises, or takes the row in. The CLI's unmerge of a cluster without
  its pairs shatters what remains.

### Bounds

Three or four records are enough for a cluster that spans two entities and still leaves a
record out, a weak pair beside a strong one, and two shared ids; the rules look at
counts only to compare two entities and at `Cardinality` 1. `MaxEntity` is set so that no
run of the bounded calls lacks an id (`CanMint` never refuses in the passing runs; where
it would, the call could still `Fail`). Two clients are enough for every pairwise
interleaving of statements. `MaxCalls` covers seed, damage, retry, and a look at the result:
two calls in `race`, one for each client or two in a row; three batches in `resolve`, which
build, fail and retry, or build, change and replay; four calls in `steward` and `passes`,
where two batches around a split leave the evidence that the pass consolidates. Clusters of
one batch share no record (`PartitionAssumption`), as the pipeline hands them over.
`ChunkSize` 2 puts a commit between any two kinds of statement; 100 disables it.
Three seals let two sealers overtake each other and a third chain on the result.
`race` splits off one record, or two of different entities, `passes` any one or two; `steward` any set.
`MaxTampers` 1 is one intrusion that rewrites any rows at once; that a second one cannot hide
the first is proved.

In `sync` a bridging row between two others that do not match is the least graph with a
merge; it may come first, in the middle or last, and before or after a scan. Four runs are
two that build, one that is killed and one that heals; the two ends are interchangeable.
`SizeCap` 4 lets some merges through and stops others, since rows are in several clusters
after reruns. In `memory` the frames
exchange the places of two rows around a third and leave a row out, so a correction meets
its own rows at other ids, other rows at its ids, and ids that are gone. Two rows with
the same content beside ids that are gone need a fourth row and are not reached. Three
corrections are a decision, another that replaces it and one of the other kind, which
is what learning takes (`LearnMin` 2). In `budget` three threads and four batches fill the pool with one
batch waiting, and two batches take the loop without a pool; costs 0 to 3 against
estimates of 1 and 2 and a limit of 3 put a call below, at and above the estimate, and leave room
for a short last batch where a whole one is refused. In `wcc`
four records hold a path that needs more rounds than the limits of 2 and 3, two components
of two, and all graphs between; two partitions are enough for an id with two
roots. In `stream` four rows are two clusters and the record that joins them, or a chain
of four; `Chain` has a strong and a weak match by the matchkey that streams, so that a threshold
of 2 cuts a cluster and 0 does not, and a match that only the run sees. The run before is over
at most two rows; clusters that grow to three or four are cut, to `MaxSize` 2, when a record
is taken out of them.

### Fairness

`FairSpec` adds `WF_vars(Step(p))` for each client: a call that has begun keeps
executing. Python runs the function to its end; the one thing it waits for is SQLite's
write lock, and a wait that exceeds the busy timeout ends the call (`Fail`, which is not
fair: nothing need fail). Invocations are not fair.

`LLMBudget` has weak fairness for each batch of being handed out, taken up, and returned
from its call. The loop and the pool's threads run as long as there is work, and `urlopen` has a
timeout of 30 seconds (`llm_scorer.py:882`, 908), so that a call answers, fails or is tried
again, three times at most. `race` and `budget` are the runs that check liveness.

## 4. What is proved

With TLAPS, for every set of records, every batch, seed, chunk size, flush bound and
strategy constant, from the assumptions declared in `IdentityStore` and `IdentityGraph`
(bounds are naturals, records exist, seeds and batches are typed, the clusters of a batch
share no record). Of the identity graph, with what each theorem assumes beyond these:

| theorem | of | assumes |
|---|---|---|
| `TypeCorrect`, `PointersAlwaysAgree`, `ReferencesAlwaysResolve` | `TypeOK`, `PointerAgrees`, `ReferencesResolve` | nothing |
| `LogAlwaysExplains` | `LogExplainsGraph` | no call fails, no deterministic merge |
| `LoggedMergesAlwaysStand` | `LoggedMergesStand` | no batches |
| `MergedAlwaysOwnNothing`, `MergesAlwaysEnd` | `MergedOwnsNothing`, `MergesEnd` | no batches, one client, no entity on both sides of a merge |
| `BatchAlwaysGathers`, `ReplayAlwaysNoop`, `KeysAlwaysUnify`, `OverlapsAlwaysConsolidated`, `DistinctAlwaysSplits` | `BatchGathers`, `ReplayIsNoop`, `KeysUnify`, `OverlapsConsolidated`, `DistinctSplits` | one client |
| `ConflictsAlwaysCarried` | `ConflictsCarried` | one client, finitely many records |
| `ActiveAlwaysOwns` | `ActiveOwnsRecords` | one client, batches only, no call fails, no seed cluster is empty |

`TypeOK` says more than shapes: graphs stay graphs, no status outside the enumeration is
written, no statement waits that could remove a row. Most of these hypotheses cannot be
dropped; "Seen while modelling" has a behaviour of the code for each: opposite merges by
two stewards, a merge of an entity with itself, batches that write back a snapshot or leave
a record with a loser, deterministic merges that log nothing, steward calls that crash
before they log. Others are only what the proof uses: `resolve` checks
`ActiveOwnsRecords` with a crash, in one transaction per batch; and finiteness lets "the
entity with most records" have a value, of a table that has finitely many rows.

Where no failure is excluded, the theorems hold after any number of them, wherever they fall.

**The invariant of the pointers.** `PointerAgrees` alone is not inductive: the absorb branch writes a
node from a snapshot taken before the batch, and between a decision and its statements
any number of steps of others pass. `IInv` therefore says of the uncommitted graph, of
every statement in every `todo` and of every snapshot that the two columns agree, and
that where the code uses an argument without looking again (`KnowsTargets`) it has
checked that it is an entity. Each action is a lemma: it continues its call with typed
variables and agreeing statements (`ContinueGood`, `ThenGood`), and changes the store
by a statement that keeps agreement (`ExecGood`, `CommitGood`, and one lemma per
operator in `IdentityGraphProofs`). That the deterministic merge returns entities needs
a smallest element of every component, from the well-foundedness of `<` on naturals.

**The invariant of the references.** Only `source_records` has a foreign key; that
`merged_into`, edges and events name entities with a row rests on the order in which the
code writes. An entity is looked up, remembered across other reads, and written about
many statements later, and a rolled-back transaction takes its rows away again.
`RefInv` is inductive on top of `IInv`. It says of the
store that the committed and the uncommitted graph point at rows, that every committed row
is in the uncommitted graph, and that without a writer the two are the same. Of a call it says
that every statement that waits names entities with a row in the graph the call sees
(`Anchored`), or the entity that its first statement creates (`Founding`), and that the
variables it will use unchecked, `found`, `snap`, `remap`, the accumulated rows and its
arguments, name such entities too (`Remembers`). Three facts carry the proof: each
statement keeps every row (`UpsertIdentityRefs` to `RemapEntitiesRefs`); so what anybody
sees only grows (`StoreGrows`), and what other calls know stays true (`OthersKeep`); and a
rollback takes rows from no one but the call that wrote them, which forgets all it knew
(`EndKeeps`).

**The log and the stewards** (`IdentityGraphProofs` too). What is true between calls is not true
inside one, so every invariant speaks of the graph and of the program that waits. `Queue`
pairs each statement of a program with what is ahead of it, and `QueueStep` says what a
step leaves of it; the lemmas about one statement (`Executes...`) are then about all programs.
`ControlInv` lists which statements each read leaves behind.

* `LogInv`: every row and every pointer of the graph, and every one a waiting statement or
  a snapshot will write, is told in the log or in an event that waits in some call
  (`Told`). Batches write nodes first and events last, so that the log lags and a crash loses
  events; without one, nothing waits when all is quiet.
* `StewardInv`: without batches there is no transaction, evidence does not change, and
  only a split writes a node. `StandInv` adds that an event which tells of a merge waits
  behind the statement that retires the entity; nothing else changes a status, so a
  retired entity stays retired, for any number of clients.
* `GraftInv`: when its turn comes, a `retire` finds its entities emptied by the attaches ahead
  of it and its target active and not among them, and records go to entities that stay. A chain
  then grows only at its active end, so no set of entities is merged among itself.

**Batches and passes** (`IdentityBatchProofs`). With one client the graph changes only by
what the call itself has written, so what the pre-flight read stays true of the clusters
still to come; this, which two clients falsify, is what the invariants make precise.

* `ProgressInv`: what is left of a batch is a suffix of its clusters, no two share a
  record, and every stage after the loop begins with nothing unwritten.
* `GatherInv`: the records of clusters to come are owned as `found` says, and no waiting
  statement gives them to anybody; rows in memory are of records that nobody owns, each in one row.
* `TogetherInv`, for `BatchGathers`: a cluster behind the loop is bound to one entity, by its
  owners or by waiting attaches, or is a row in memory, which a flush turns into such
  attaches. A split of the program at a chunk commit does not matter: a crash ends the call,
  and a later call begins from whatever became durable.
* `ObserveInv`, for `ReplayIsNoop`: in a batch that was found whole, each statement that
  waits writes what is there, an upsert of the node as it was read, an attach to the owner,
  a link of no edges.
* `MintInv` and `RulingInv`, for `DistinctSplits`: a `mediate_conflict` asks for the entity of
  the second record only when nobody owns the first, and acts on that of the first if there is
  one, so that the call either leaves the records apart as they were or has a split waiting. The
  split moves the second to an entity nothing points at (every row, waiting node
  and row in memory has an id minted before) and leaves the first where it is.
* `CarryInv`, for `ConflictsCarried`: a conflict of an entity in which the cluster was found is
  on the winner or there is a `carry` from that entity waiting, which reads the
  conflicts only when it runs. That the winner is one entity needs the maximum of a finite count.
* `FilledInv`, for `ActiveOwnsRecords`: an entity that is active, or that a waiting node will make
  active, is about to be retired, or has a record that nothing takes away.
* `KeyInv`: between the SELECT of the deterministic merge and its updates nothing
  changes, so the remap is that of the graph, and it maps the holders of one id, a
  component, to one entity.
* `StabilizeInv`, for `OverlapsConsolidated`: each overlap found lies within a group still to
  come, or its two sides lead to one entity that is active, in no group and not to be
  retired. Groups are components, hence disjoint, so that consolidating one disturbs no other.

**The seal chain** (`AuditChainProofs`, for any writers, sealers, datasets and bounds):
`TypeCorrect` and `NoSilentChange` on both kinds of backend and after any number of intrusions;
`NoFalseAlarm` and `NothingEscapesTheSeal` assuming `CommitOrdered`, without which they
are false (see "Seen while modelling"). A story lists events by rank, the number of ids
up to theirs; that ranks are distinct and all taken is the pigeonhole principle, and
`StoryGoesOn`, by counting, that the fold of two sets of events, one after the other, is the
concatenation of their folds. `IdsInv` is what SQLite's ids are worth: distinct, and those of
the open transaction are the last, also after a rollback took some back.
`SealInv` says that a root, and one about to be inserted, is the story of what it
stands for; it survives tampering, because a story is of hashes, and gives `NoSilentChange`:
when no hash disagrees with its content and the fold agrees with the root, the two stories are one.
`HonestInv` adds, for a log nobody touched, that a seal stands for its whole scope up to
its boundary, which later commits leave alone since their ids are greater.

**The sync** (`DbSyncProofs`, for any table, links, cap and number of runs and aborts):
`TypesHold`, `RowsStayTogether`, `GoldenIsRight`, `MatchesAreGathered`, which is all that
`sync` checks. Neither of the last two is inductive: what they promise of a row is
true when the row is done. `RunInv` ties the row in hand to the phase; `GoldenInv` adds
that merged clusters are empty while their golden records are still to be demoted, and that
no version of the target is current when the new one is inserted; `GatherInv` adds that
from the moment the row has its cluster every settled row it matches is in it, unless
the cap spoke. `Moved` moves whole clusters, which is why each member of a merged
cluster is in the survivor, and an abort puts the target into `torn` before it forgets it.

**The budget** (`LLMBudgetProofs`): `TypesHold`, `SpendIsBounded` and `SkippedWhenSpent`,
for any number of batches of any size, threads and attempts, and any limits and prices. A call under way has yet
to be counted; `SpendInv` counts it in advance, at the most it can cost, and so is
inductive: a thread sends only below the limit, when at most one less than all
threads are calling. A refusal is for good, for batches of that many pairs or more, because
the sums only grow and a larger batch is estimated no lower; the tracker may still
accept a shorter last batch.

**The routes to components** (`DistributedClusteringProofs`): `InvHolds`, `PromiseKept`,
the refinement, and `LeastNames`, for every finite set of records and partitions, every
graph and every limit, and `TreesAlwaysFlat`. `IInv` has a part per family. `RoundsInv`: a label is in the
component of its vertex and not above it; a round that changes nothing has equal labels
across every pair, hence, by closedness, across the component. `ContractInv`:
every pair of the graph has one label at both ends by now, or its labels are a residual pair. `ForestInv`: each
union-find is sound (every upward closed set that has an id has its root), its roots stay in
the component, and a pair done has one root; the driver's forest does the same for the roots of
partitions, with `Boundary` the pairs among them. `RankInv` adds what `TreesStayFlat` says of
each forest, and that their ids are records, finitely many. A compressed path skips ranks
because not only the parent but the root has a greater one (`RanksRise`, again by a closed
set); a union of two roots of rank k adds the sizes of two disjoint trees. `2^k` is the recursive
function `Pow2`; that it satisfies its equation is proved by joining its finite beginnings.

**The clusters after a run** (`ClusterEditsProofs`, for any contents, matchkeys, scores,
sizes and bounds): `OneEach`, `AlwaysConnected`, `StreamFollows` and `IdsStay`, which is all that
`stream` checks. Every edit replaces some clusters by others (`Replaced`): an arrival by
one that joins them (`Joins`), a steward's edit by some that split them (`Splits`). `PlacesInv`
says that each cluster is whole, its members connected by its pairs, where clusters keep
them, and the pairs ending at members or at rows the stream found loose; that lists name
only ids that were given; and that each row not loose is in one cluster, once. Whole is
what lets a split lose nobody, also one that cuts what is too large, and it survives a
refused row, after which an id may be in two clusters. `LinkInv` adds that, until a steward
interferes, both ends of a link are in one cluster, and each cluster hangs together by links:
a cluster is then a set closed under the links and connected by them, which is what
following chains amounts to.

**The memory** (`LearningMemoryProofs`, for any clients, rows, frames and bounds):
`DecidedStays`, `FreshIsNoticed` and `NothingIsDropped`, which is all that `memory` checks, from the assumption that no correction is the absence of one.
`DecidedInv` adds to the first that a call which has yet to record a decision carries a
person's trust. `FreshInv` adds to the second that what was stored since the learner read,
and what a call is about to store, is dated after its last adjustment or known to be missed. The third
needs that among finitely many dated corrections one is the last (`Greatest`,
`SomeActive`): it is the one that overrides; and that what is still to be queued stays so
until it is.

**What stays with TLC.** Liveness (`EveryCallReturns`, `EveryBatchEnds`): fairness and
`ENABLED` are out of the prover's reach. And, of the identity
graph, two clients: TLC refutes `MergedOwnsNothing`, `MergesEnd`, `DistinctSplits`, `BatchGathers`,
`ReplayIsNoop`, `KeysUnify` and `ActiveOwnsRecords` for two clients and two or three calls in all.
Of `ConflictsCarried` and `OverlapsConsolidated` it is open: searches of a few minutes found
nothing and did not end.

## 5. What is not modelled

See `components` in `PROJECT.json` for the reason of each. In the identity layer: aliases,
record-id candidates and lineage, golden records, the claim lifecycle after
`claim_record`, relationships, the Postgres initial load, and the other backends, whose
transactions differ. Of the other components: in the sync, two processes on one table
(nothing keeps them apart; `watch` is one), dry runs, the streaming scan, the ANN
index, and hybrid blocking, which swallows a candidate query that fails (`db/hybrid_blocking.py:46-54`,
81-86) so that a row is taken for one without matches: `IncrementalGathers` says nothing of such
a run; in the memory, field and
cluster corrections, several datasets, and the arithmetic of thresholds; in clustering,
the choice of the edges an oversized cluster is cut at, confidences, the memory that decides the route, and
the checkpoints of contraction; in streaming, the ANN index and `resolve_to_entity`; of
the budget, tiers of models and prices. The run log, the files the web server rewrites and the
session store are small and planned below; scoring, blocking and auto-configuration are
sequential and numeric, and their questions are statistical. They are most of the code.

## 6. Plan

1. Done: the store, resolution, steward operations, mediation and stabilization as
   `IdentityGraph`; the seal chain; both proved but for what section 4 leaves to TLC.
2. Done: `DbSync`, `LearningMemory`, `LLMBudget`, `Components` with `DistributedClustering`,
   and `ClusterEdits`; proved but for the liveness of the budget.
3. Proofs: `ActiveOwnsRecords` with failures inside one transaction; `LogExplainsGraph` with
   failures of batches in one transaction.
4. An abstract specification in which every call is one atomic step on the graph, and
   `IdentityGraph` with one client shown to implement it; `GatherInv` and `GraftInv` are most
   of that argument. The claim lifecycle and relationships as further operations.
5. `resolve_to_entity` on top of `ClusterEdits` and
   `IdentityGraph`; two syncs of one table.
6. `RunLog` with the rewritten files of a run: rollback and unmerge from the web server.
