--------------------------- MODULE LearningMemory ---------------------------
(***************************************************************************)
(* The loop that learns from people (core/review_queue.py, core/memory/,   *)
(* core/pipeline.py): stewards decide queued pairs of rows, agents submit  *)
(* corrections, the store keeps one correction per pair by trust, and each *)
(* pipeline run learns from them, overrides scores with them, and queues   *)
(* those it could not trust for another decision.                          *)
(*                                                                         *)
(* Row ids are positions in the frame of the day, so between runs the same *)
(* id may come to mean another row.  A hash of a record is its content and *)
(* the matchkey fields are a function of it, so one pair of contents stands *)
(* for both hashes of a correction.  Thresholds, scores and field weights  *)
(* are abstracted to whether a run learned; there is one dataset.          *)
(***************************************************************************)
EXTENDS Integers, Sequences, FiniteSets

CONSTANTS
    Content,       \* what a row may say
    Similar,       \* pairs of contents whose score the pipeline computes
    Frame,         \* the frames the data may take, sequences of contents
    Client,        \* processes that write corrections
    Framed,        \* those of them whose review queue was given the frame
    Submitted,     \* what agents and programs submit: a decision on a pair, with its trust
    MaxRows,       \* bound: rows of the longest frame
    LearnMin,      \* threshold_min_corrections
    MaxDecisions,  \* bound: corrections submitted
    MaxRuns,       \* bound: pipeline runs
    MaxFailures,   \* bound: pairs whose correction the store fails to write
    NoCorrection, NoHash

ASSUME MemoryAssumption ==
    /\ \A f \in Frame : f \in Seq(Content) /\ Len(f) <= MaxRows
    /\ NoHash \notin Content \X Content
    /\ \A s \in Similar : s \in SUBSET Content
    /\ Framed \subseteq Client
    /\ LearnMin \in Nat /\ MaxDecisions \in Nat /\ MaxRuns \in Nat /\ MaxFailures \in Nat

RowId == 1 .. MaxRows
Pair == {p \in RowId \X RowId : p[1] < p[2]} \* _canon_pair
Decision == {"approve", "reject"}
Trust == {1, 2}                              \* 0.5 for agents, 1.0 for people
Hash == (Content \X Content) \cup {NoHash}
Clock == 0 .. MaxDecisions + MaxRuns
Correction == [decision : Decision, trust : Trust, hash : Hash, at : Clock]

ASSUME CorrectionAssumption ==
    /\ NoCorrection \notin Correction
    /\ Submitted \subseteq [pair : Pair, decision : Decision, trust : Trust]

VARIABLES
    backend,      \* of the memory store
    frame,        \* the rows of the day
    corrections,  \* corrections[p]: the correction stored for the row ids p
    queue,        \* queue[p]: status of p in the review queue, or "absent"
    pc, job,      \* a client's call: where it stands, and its pair and correction
    phase,        \* where the pipeline run stands
    seen,         \* the corrections the learner has read
    applied,      \* pairs overridden by the last run, and by which correction
    stale,        \* pairs the last run could not trust
    todo,         \* those of them the run has yet to queue
    learned,      \* learned_at of the adjustment, 0 for none
    overlaid,     \* the run scores with a learned threshold
    clock, decisions, runs,
    used,         \* history: what the learner has read when it last saved
    missed,       \* history: corrections stored or dated while a learning pass ran
    dropped       \* history: pairs with a correction the store failed to write

clients == <<queue, pc, job, decisions, dropped>>
pipeline == <<phase, seen, applied, stale, todo, learned, overlaid, runs, used>>
vars == <<backend, frame, corrections, queue, pc, job, phase, seen, applied, stale, todo,
          learned, overlaid, clock, decisions, runs, used, missed, dropped>>

Init ==
    /\ backend \in {"sqlite", "postgres"} /\ frame \in Frame
    /\ corrections = [p \in Pair |-> NoCorrection]
    /\ queue = [p \in Pair |-> "absent"]
    /\ pc = [k \in Client |-> "idle"]
    /\ job = [k \in Client |-> NoCorrection]
    /\ phase = "idle" /\ seen = {} /\ applied = {} /\ stale = {} /\ todo = {}
    /\ learned = 0 /\ overlaid = FALSE
    /\ clock = 0 /\ decisions = 0 /\ runs = 0
    /\ used = {} /\ missed = {} /\ dropped = {}

----------------------------------------------------------------------------
(* Rows and corrections. *)

Present(p) == p[2] <= Len(frame)
ContentOf(p) == <<frame[p[1]], frame[p[2]]>>
\* _record_correction hashes the rows now at these ids, if they are there and the queue
\* was given the frame: goldenmatch review without files has none.
HashNow(k, p) == IF k \in Framed /\ Present(p) THEN ContentOf(p) ELSE NoHash
Scored == {p \in Pair : Present(p) /\ {frame[p[1]], frame[p[2]]} \in Similar}
Stored == {p \in Pair : corrections[p] # NoCorrection}
RowsOf(c) == {i \in RowId : i <= Len(frame) /\ frame[i] = c}
All == {[pair |-> p, correction |-> corrections[p]] : p \in Stored}

\* Between runs the data is loaded again.
Reload(f) ==
    /\ phase = "idle" /\ f # frame
    /\ frame' = f
    /\ UNCHANGED <<backend, corrections, clients, pipeline, clock, missed>>

----------------------------------------------------------------------------
(* Writing a correction. *)

\* A call with correction c for the pair p, not yet in the store.
Call(k, p, d, t, h) ==
    /\ pc[k] = "idle" /\ decisions < MaxDecisions
    /\ pc' = [pc EXCEPT ![k] = "record"]
    /\ job' = [job EXCEPT ![k] = [pair |-> p, correction |->
                   [decision |-> d, trust |-> t, hash |-> h, at |-> clock + 1]]]
    /\ clock' = clock + 1 /\ decisions' = decisions + 1
    \* It may carry a date from before the pass's own and reach the store after its read.
    /\ UNCHANGED <<backend, frame, corrections, pipeline, missed, dropped>>

\* ReviewQueue.approve and reject: an UPDATE of a pending item, then the correction,
\* whether or not the item was pending.
Decide(k, p, d) ==
    /\ queue[p] # "absent"
    /\ Call(k, p, d, 2, HashNow(k, p))
    /\ queue' = [queue EXCEPT ![p] = IF @ = "pending" THEN d ELSE @]

\* add_correction from an agent, and unmerge_record: no hash.
Submit(k, s) ==
    /\ Present(s.pair)
    /\ Call(k, s.pair, s.decision, s.trust, NoHash)
    /\ UNCHANGED queue

Finish(k) ==
    /\ pc' = [pc EXCEPT ![k] = "idle"]
    /\ job' = [job EXCEPT ![k] = NoCorrection]

Store(k) ==
    /\ corrections' = [corrections EXCEPT ![job[k].pair] = job[k].correction]
    /\ Finish(k)
    /\ missed' = IF phase = "learning" THEN missed \cup {job[k]} ELSE missed
    /\ UNCHANGED <<backend, frame, queue, decisions, dropped, pipeline, clock>>

\* Mutant: trust is not compared.
MayReplaceAny(k) == TRUE

\* Higher trust wins, and the latest of equal trust.
MayReplace(k) ==
    LET old == corrections[job[k].pair]
    IN  old = NoCorrection \/ job[k].correction.trust >= old.trust

Ignore(k) ==
    /\ Finish(k)
    /\ UNCHANGED <<backend, frame, corrections, queue, decisions, dropped, pipeline, clock, missed>>

\* PostgreSQL: one INSERT ... ON CONFLICT DO UPDATE ... WHERE.
Upsert(k) ==
    /\ pc[k] = "record" /\ backend = "postgres"
    /\ IF MayReplace(k) THEN Store(k) ELSE Ignore(k)

\* SQLite reads the stored correction first, and writes in a later transaction.
ReadExisting(k) ==
    /\ pc[k] = "record" /\ backend = "sqlite"
    /\ IF MayReplace(k)
       THEN /\ pc' = [pc EXCEPT ![k] = "replace"]
            /\ UNCHANGED <<backend, frame, corrections, queue, job, decisions, dropped, pipeline, clock, missed>>
       ELSE Ignore(k)

Replace(k) == pc[k] = "replace" /\ Store(k)

\* The store raises; _record_correction logs it and returns.
FailWrite(k) ==
    /\ pc[k] \in {"record", "replace"} /\ Cardinality(dropped) < MaxFailures
    /\ Finish(k)
    /\ dropped' = dropped \cup {job[k].pair}
    /\ UNCHANGED <<backend, frame, corrections, queue, decisions, pipeline, clock, missed>>

----------------------------------------------------------------------------
(* A pipeline run. *)

\* Mutant: corrections are counted instead of dated: one that is replaced adds none.
HasMoreCorrections == Cardinality(Stored) > Cardinality({u.pair : u \in used})

HasNewCorrections ==
    IF learned = 0 THEN Stored # {} ELSE \E p \in Stored : corrections[p].at > learned

\* Enough corrections, of both decisions, for a threshold between them.
CanLearn(cs) ==
    /\ Cardinality(cs) >= LearnMin
    /\ \A d \in Decision : \E c \in cs : c.correction.decision = d

\* _apply_memory_pre, up to the learner's read.
StartRun ==
    /\ phase = "idle" /\ runs < MaxRuns
    /\ runs' = runs + 1 /\ overlaid' = FALSE
    /\ IF HasNewCorrections /\ CanLearn(All)
       THEN phase' = "learning" /\ seen' = All
       ELSE phase' = "score" /\ seen' = {}
    /\ UNCHANGED <<backend, frame, corrections, clients, applied, stale, todo, learned, clock, used, missed>>

\* save_adjustment, dated now; only this run overlays the threshold.
SaveAdjustment ==
    /\ phase = "learning"
    /\ learned' = clock + 1 /\ clock' = clock + 1
    /\ overlaid' = TRUE /\ used' = seen /\ seen' = {} /\ phase' = "score"
    /\ missed' = missed \cup {job[k] : k \in {j \in Client : pc[j] # "idle"}}
    /\ UNCHANGED <<backend, frame, corrections, clients, applied, stale, todo, runs>>

\* _apply_memory_pre swallows an exception of the learner.
LearnFails ==
    /\ phase = "learning"
    /\ phase' = "score" /\ seen' = {}
    /\ UNCHANGED <<backend, frame, corrections, clients, applied, stale, todo, learned,
                   overlaid, clock, runs, used, missed>>

\* The correction's rows, looked up by hash where its ids are gone: the one row
\* that has each content, if there is exactly one.
Anchorable(u) ==
    \/ Present(u.pair)
    \/ /\ u.correction.hash # NoHash
       /\ \A i \in 1 .. 2 : Cardinality(RowsOf(u.correction.hash[i])) = 1

\* It counts for its own ids if both are there, else for the rows found by hash.
CountsFor(u, q) ==
    IF Present(u.pair) THEN q = u.pair
    ELSE Anchorable(u) /\ {u.correction.hash[1], u.correction.hash[2]} = {frame[q[1]], frame[q[2]]}

\* Of those that count for q, the last by date.
Active(q) ==
    LET here == {u \in All : CountsFor(u, q)}
    IN  {u \in here : \A o \in here : o.correction.at <= u.correction.at}

\* Mutant: what cannot be placed is not reported.
UnanchoredUnreported == {}

Trusted(u, q) == u.correction.hash \in {NoHash, ContentOf(q)}
Unanchored == {u.pair : u \in {c \in All : ~Anchorable(c)}}

\* apply_corrections, over the pairs in canonical order.
Apply ==
    /\ phase = "score"
    /\ applied' = {[pair |-> w[1], by |-> w[2]] :
                      w \in {v \in Scored \X All : v[2] \in Active(v[1]) /\ Trusted(v[2], v[1])}}
    /\ stale' = Unanchored \cup {q \in Scored : \E u \in Active(q) : ~Trusted(u, q)}
    /\ todo' = stale'
    /\ seen' = All
    /\ phase' = "enqueue"
    /\ UNCHANGED <<backend, frame, corrections, clients, learned, overlaid, clock, runs, used, missed>>

Leave ==
    /\ phase' = "idle" /\ seen' = {} /\ applied' = {} /\ stale' = {} /\ todo' = {}
    /\ overlaid' = FALSE
    /\ UNCHANGED <<backend, frame, corrections, clients, learned, clock, runs, used, missed>>

\* _apply_memory_post swallows an exception: no score changes and nothing is stale.
ApplyFails == phase = "score" /\ Leave

\* _enqueue_stale_pairs, one item after the other: INSERT OR REPLACE makes a decided one
\* pending again.
EnqueueStale(p) ==
    /\ phase = "enqueue" /\ p \in todo
    /\ queue' = [queue EXCEPT ![p] = "pending"]
    /\ todo' = todo \ {p}
    /\ UNCHANGED <<backend, frame, corrections, pc, job, decisions, dropped, phase, seen, applied,
                   stale, learned, overlaid, clock, runs, used, missed>>

\* The queue raises; the rest is not queued.
EnqueueFails == phase = "enqueue" /\ todo # {} /\ Leave

EndRun == phase = "enqueue" /\ todo = {} /\ Leave

\* goldenmatch review queues the pairs of the review band, decided or not.
EnqueueBand(p) ==
    /\ p \in Scored /\ queue[p] # "pending"
    /\ queue' = [queue EXCEPT ![p] = "pending"]
    /\ UNCHANGED <<backend, frame, corrections, pc, job, decisions, dropped, pipeline, clock, missed>>

Next ==
    \/ \E f \in Frame : Reload(f)
    \/ \E k \in Client :
        \/ \E p \in Pair, d \in Decision : Decide(k, p, d)
        \/ \E s \in Submitted : Submit(k, s)
        \/ Upsert(k) \/ ReadExisting(k) \/ Replace(k) \/ FailWrite(k)
    \/ StartRun \/ SaveAdjustment \/ LearnFails \/ Apply \/ ApplyFails
    \/ \E p \in Pair : EnqueueStale(p) \/ EnqueueBand(p)
    \/ EnqueueFails \/ EndRun

Spec == Init /\ [][Next]_vars
----------------------------------------------------------------------------
(* Properties. *)

\* The pair is in the queue for another decision, or the run is about to put it there.
Reported(p) == p \in stale /\ (p \in todo \/ queue[p] # "absent")

(* No correction a run has read is lost without a word: it overrides a score, *)
(* or a later one does in its place, or its pair is queued for another        *)
(* decision before the run ends, while people go on deciding pairs, or the    *)
(* pipeline did not score the rows it counts for.  Only a queue that raises   *)
(* ends the run with pairs that were not queued.                              *)
NothingDropsSilently ==
    phase = "enqueue" => \A u \in seen :
        \/ Reported(u.pair)
        \/ /\ Anchorable(u)
           /\ \A q \in Scored : CountsFor(u, q) =>
                  Reported(q) \/ \E a \in applied :
                      a.pair = q /\ a.by.correction.at >= u.correction.at

(* has_new_corrections never overlooks a correction the learner has not read, *)
(* though corrections are replaced in place and the count need not change,    *)
(* unless it reached the store while a learning pass was running.             *)
FreshIsSeen ==
    \A u \in All \ (used \cup missed) : HasNewCorrections

(* On PostgreSQL, a queued pair that has been decided has a person's          *)
(* correction on its rows in the memory, whatever agents submit meanwhile and *)
(* however often the pair is queued again, unless the store failed to write   *)
(* one or is about to be called.                                              *)
DecidedIsRemembered ==
    backend = "postgres" => \A p \in Pair :
        \/ queue[p] \notin Decision \/ p \in dropped
        \/ p \in Stored /\ corrections[p].trust = 2
        \/ \E k \in Client : pc[k] = "record" /\ job[k].pair = p

(* "Corrections survive row reordering and refresh" (README.md:279): a        *)
(* decision about the contents of two rows, each the only one with it, is     *)
(* applied wherever the rows are now.                                         *)
SurvivesReordering ==
    phase = "enqueue" => \A u \in seen, q \in Scored :
        LET h == u.correction.hash
        IN  h # NoHash /\ RowsOf(h[1]) \cup RowsOf(h[2]) = {q[1], q[2]}
            => \E a \in applied : a.pair = q

(* "stores per-matchkey threshold deltas. The pipeline overlays them on the   *)
(* next run" (learning-memory.mdx:22): once a threshold has been learned and  *)
(* saved, runs score with one.                                                *)
LearnedIsOverlaid == phase = "score" /\ learned # 0 => overlaid
=============================================================================
