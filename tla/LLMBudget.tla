------------------------------ MODULE LLMBudget ------------------------------
(***************************************************************************)
(* Scoring candidate pairs with a language model under a budget            *)
(* (core/llm_scorer.py _batch_score, core/llm_budget.py BudgetTracker).    *)
(* Batches are scored one after the other when they are few, else by a     *)
(* pool of threads.  A thread asks the tracker, calls the provider, which  *)
(* takes a while and may fail and be retried, and only then tells the      *)
(* tracker what the call cost; the tracker is locked, the three steps      *)
(* together are not.                                                       *)
(*                                                                         *)
(* Abstracted: prompts and answers, token prices (a call has a cost), the  *)
(* choice of model, and the sleeps between retries.                        *)
(***************************************************************************)
EXTENDS Integers, FiniteSets

CONSTANTS
    MaxBatches,  \* bound: batches of one _batch_score
    MaxWorkers,  \* max_workers of the pool
    Attempts,    \* calls tried for one batch
    Limits,      \* the budgets considered: records [cost, calls]
    NoLimit,     \* a limit that is not set
    BatchSize,   \* batch_size: the pairs of a batch, the last of which may have fewer
    Price,       \* what can_send expects a pair to cost
    MaxCost      \* bound: what a call costs at most

ASSUME BudgetAssumption ==
    /\ MaxBatches \in Nat /\ MaxWorkers \in Nat \ {0} /\ Attempts \in Nat \ {0}
    /\ NoLimit \notin Nat
    /\ Limits \subseteq [cost : Nat \cup {NoLimit}, calls : Nat \cup {NoLimit}]
    /\ BatchSize \in Nat \ {0} /\ Price \in Nat /\ MaxCost \in Nat

VARIABLES
    limit,     \* the BudgetConfig
    batches,   \* number of batches
    last,      \* number of pairs in the last one
    cost,      \* _total_cost
    calls,     \* _total_calls
    status,    \* status[b] of a batch
    attempt,   \* attempt[b]: which call for b is running
    stopped    \* no more batches are handed out: "no", "spent", "raised"

vars == <<limit, batches, last, cost, calls, status, attempt, stopped>>

Batch == 1 .. MaxBatches
Status == {"waiting", "queued", "calling", "answered", "failed", "refused"}
Final == {"answered", "failed", "refused"}

Init ==
    /\ limit \in Limits
    /\ batches \in 0 .. MaxBatches
    /\ last \in 1 .. BatchSize
    /\ cost = 0 /\ calls = 0
    /\ status = [b \in Batch |-> "waiting"]
    /\ attempt = [b \in Batch |-> 0]
    /\ stopped = "no"

----------------------------------------------------------------------------
(* BudgetTracker. *)

Exhausted ==
    \/ limit.cost # NoLimit /\ cost >= limit.cost
    \/ limit.calls # NoLimit /\ calls >= limit.calls

\* The batches are slices of the candidate pairs; only the last may be shorter.
Size(b) == IF b < batches THEN BatchSize ELSE last

Estimate(b) == Size(b) * Price

\* Mutant: the number of calls is not looked at.
CanAfford(b) == limit.cost # NoLimit => cost < limit.cost /\ cost + Estimate(b) <= limit.cost

CanSend(b) == ~Exhausted /\ (limit.cost # NoLimit => cost + Estimate(b) <= limit.cost)

RecordUsage(c) == cost' = cost + c /\ calls' = calls + 1

----------------------------------------------------------------------------
(* _batch_score. *)

Given == 1 .. batches
Waiting == {b \in Given : status[b] = "waiting"}
Queued == {b \in Given : status[b] = "queued"}
Calling == {b \in Given : status[b] = "calling"}
First(B, b) == b \in B /\ \A a \in B : b <= a
Concurrent == batches > 2 /\ MaxWorkers > 1
Threads == IF Concurrent THEN MaxWorkers ELSE 1

SetStatus(b, s) == status' = [status EXCEPT ![b] = s]

\* Mutant: an empty answer ends the loop, whatever the reason.
StopsAfterAny(b) == status[b] \in {"failed", "refused"}

\* The loop over few batches ends after an empty answer when nothing is left.
StopsAfter(b) == status[b] \in {"failed", "refused"} /\ Exhausted

\* Handing out batch b: at once to the pool, or after the last batch has ended.
MaySubmit(b) ==
    /\ stopped = "no" /\ First(Waiting, b)
    /\ ~Concurrent => \A a \in Given : a < b => status[a] \in Final

Denied(b) == IF Concurrent THEN Exhausted ELSE b > 1 /\ StopsAfter(b - 1)

Submit(b) ==
    /\ MaySubmit(b) /\ ~Denied(b)
    /\ SetStatus(b, "queued")
    /\ UNCHANGED <<limit, batches, last, cost, calls, attempt, stopped>>

Stop(b) ==
    /\ MaySubmit(b) /\ Denied(b)
    /\ stopped' = "spent"
    /\ UNCHANGED <<limit, batches, last, cost, calls, status, attempt>>

\* Mutant: off by one.
FreeToSpare(b) == First(Queued, b) /\ Cardinality(Calling) + 1 < Threads

\* A free thread takes the oldest batch and asks the tracker.
Free(b) == First(Queued, b) /\ Cardinality(Calling) < Threads

Send(b) ==
    /\ Free(b) /\ CanSend(b)
    /\ SetStatus(b, "calling")
    /\ attempt' = [attempt EXCEPT ![b] = 1]
    /\ UNCHANGED <<limit, batches, last, cost, calls, stopped>>

Refuse(b) ==
    /\ Free(b) /\ ~CanSend(b)
    /\ SetStatus(b, "refused")
    /\ UNCHANGED <<limit, batches, last, cost, calls, attempt, stopped>>

Answer(b, c) ==
    /\ b \in Calling
    /\ RecordUsage(c)
    /\ SetStatus(b, "answered")
    /\ UNCHANGED <<limit, batches, last, attempt, stopped>>

\* A rate limit, or a network error: the call is made again, the tracker not asked.
Retry(b) ==
    /\ b \in Calling /\ attempt[b] < Attempts
    /\ attempt' = [attempt EXCEPT ![b] = @ + 1]
    /\ UNCHANGED <<limit, batches, last, cost, calls, status, stopped>>

\* Another HTTP error, or the last attempt; in the pool also any other exception.
Fail(b) ==
    /\ b \in Calling
    /\ SetStatus(b, "failed")
    /\ UNCHANGED <<limit, batches, last, cost, calls, attempt, stopped>>

\* Without the pool an exception _score_one_batch does not catch ends the call.
Raise(b) ==
    /\ b \in Calling /\ ~Concurrent
    /\ SetStatus(b, "failed")
    /\ stopped' = "raised"
    /\ UNCHANGED <<limit, batches, last, cost, calls, attempt>>

HandOut(b) == Submit(b) \/ Stop(b)
TakeUp(b) == Send(b) \/ Refuse(b)
Return(b) == (\E c \in 0 .. MaxCost : Answer(b, c)) \/ Retry(b) \/ Fail(b) \/ Raise(b)

Next == \E b \in Batch : HandOut(b) \/ TakeUp(b) \/ Return(b)

Spec == Init /\ [][Next]_vars

\* The loop and the threads go on, and every call returns: urlopen has a timeout.
Fairness ==
    \A b \in Batch : WF_vars(HandOut(b)) /\ WF_vars(TakeUp(b)) /\ WF_vars(Return(b))

FairSpec == Spec /\ Fairness

----------------------------------------------------------------------------
(* Properties. *)

TypeOK ==
    /\ limit \in Limits /\ batches \in 0 .. MaxBatches /\ last \in 1 .. BatchSize
    /\ cost \in Nat /\ calls \in Nat
    /\ status \in [Batch -> Status]
    /\ attempt \in [Batch -> 0 .. Attempts]
    /\ stopped \in {"no", "spent", "raised"}

(* The limits are soft, but only by the calls that were on their way when     *)
(* they were reached: whatever the threads do between can_send and            *)
(* record_usage, the calls made and under way exceed max_calls by less than   *)
(* the number of threads, and the cost exceeds max_cost_usd by no more than   *)
(* one call of each thread.                                                   *)
SpendBounded ==
    /\ limit.calls # NoLimit => calls + Cardinality(Calling) <= limit.calls + (Threads - 1)
    /\ limit.cost # NoLimit => cost <= limit.cost + Threads * MaxCost

(* No batch is passed over for money that a later one gets: from the moment   *)
(* can_send refuses a batch the tracker refuses every batch of at least as    *)
(* many pairs, whatever calls come back; only a last batch with fewer pairs   *)
(* may still be sent.  And nothing is left unsubmitted but for a limit that   *)
(* is reached.                                                                *)
SkippedOnlyWhenSpent ==
    /\ \A a, b \in Given : status[b] = "refused" /\ Size(b) <= Size(a) => ~CanSend(a)
    /\ stopped = "spent" => Exhausted

(* "Hard cap on the number of LLM requests for the run"                       *)
(* (config-matrix.mdx:558).                                                   *)
HardCap == limit.calls # NoLimit => calls <= limit.calls

(* Every batch is answered, fails or is refused, or the loop has stopped, and *)
(* no call is left running: _batch_score returns.                             *)
EveryBatchEnds ==
    <>[](\A b \in Given : status[b] \in Final \/ (stopped # "no" /\ status[b] = "waiting"))
=============================================================================
