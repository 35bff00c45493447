--------------------------- MODULE LLMBudgetProofs ---------------------------
(***************************************************************************)
(* Theorems about LLMBudget for every number of batches and threads, every *)
(* budget and every price of a call.                                       *)
(*                                                                         *)
(* The bound on what is spent is not inductive: a call that is under way   *)
(* has yet to be counted.  Counting it in advance, at the most it can      *)
(* cost, makes it so: SpendInv.                                            *)
(***************************************************************************)
EXTENDS LLMBudget, FiniteSetTheorems, TLAPS

\* What the calls recorded and under way may come to.
SpendInv ==
    /\ Cardinality(Calling) <= Threads
    /\ limit.calls # NoLimit => calls + Cardinality(Calling) <= limit.calls + (Threads - 1)
    /\ limit.cost # NoLimit =>
        cost + Cardinality(Calling) * MaxCost <= limit.cost + Threads * MaxCost

----------------------------------------------------------------------------
(* Facts about the definitions. *)

LEMMA ThreadsNat == Threads \in Nat \ {0}
BY BudgetAssumption DEF Threads

LEMMA LimitType ==
    ASSUME TypeOK
    PROVE  /\ limit.cost # NoLimit => limit.cost \in Nat
           /\ limit.calls # NoLimit => limit.calls \in Nat
BY BudgetAssumption DEF TypeOK

LEMMA CallingFinite ==
    ASSUME TypeOK
    PROVE  IsFiniteSet(Calling) /\ Cardinality(Calling) \in Nat
<1>1. batches \in Int /\ IsFiniteSet(1 .. batches)
    BY FS_Interval, BudgetAssumption DEF TypeOK
<1>2. Calling \subseteq 1 .. batches
    BY DEF Calling, Given
<1>3. IsFiniteSet(Calling)
    BY <1>1, <1>2, FS_Subset
<1> QED
    BY <1>3, FS_CardinalityType

LEMMA MoreCallsCostMore ==
    ASSUME NEW i \in Nat, NEW j \in Nat, i <= j, NEW m \in Nat
    PROVE  i * m <= j * m /\ (i + 1) * m = i * m + m
<1>1. PICK d \in Nat : j = i + d
    <2>1. j - i \in Nat /\ j = i + (j - i)
        OBVIOUS
    <2> QED
        BY <2>1
<1>2. j * m = i * m + d * m /\ d * m >= 0
    BY <1>1, SMT
<1>3. (i + 1) * m = i * m + m
    BY SMT
<1> QED
    BY <1>2, <1>3, SMT

\* The batches under way after a batch has been taken up, or has come back.
LEMMA OneMoreCalling ==
    ASSUME TypeOK, NEW b \in Given, b \notin Calling,
           batches' = batches, SetStatus(b, "calling")
    PROVE  Cardinality(Calling') = Cardinality(Calling) + 1
<1>1. Calling' = Calling \cup {b}
    BY BudgetAssumption DEF Calling, Given, SetStatus, TypeOK, Batch
<1>2. Cardinality(Calling \cup {b}) = Cardinality(Calling) + 1
    BY CallingFinite, FS_AddElement
<1> QED
    BY <1>1, <1>2, Zenon

LEMMA OneLessCalling ==
    ASSUME TypeOK, NEW b \in Calling, NEW s \in Status \ {"calling"},
           batches' = batches, SetStatus(b, s)
    PROVE  Cardinality(Calling') = Cardinality(Calling) - 1
<1>1. Calling' = Calling \ {b}
    BY BudgetAssumption DEF Calling, Given, SetStatus, TypeOK, Batch
<1>2. Cardinality(Calling \ {b}) = Cardinality(Calling) - 1
    BY CallingFinite, FS_RemoveElement
<1> QED
    BY <1>1, <1>2, Zenon

LEMMA SameCalling ==
    ASSUME TypeOK, NEW b \in Given, b \notin Calling, NEW s \in Status \ {"calling"},
           batches' = batches, SetStatus(b, s)
    PROVE  Calling' = Calling
BY DEF Calling, Given, SetStatus, TypeOK, Batch

----------------------------------------------------------------------------
(* Types. *)

\* Every variable keeps its type: the tracker's sums, the states of the
\* batches and the number of the call that runs for each.
THEOREM TypesHold == Spec => []TypeOK
<1>1. Init => TypeOK
    BY BudgetAssumption DEF Init, TypeOK, Status
<1>2. TypeOK /\ [Next]_vars => TypeOK'
    <2> SUFFICES ASSUME TypeOK, [Next]_vars PROVE TypeOK'
        OBVIOUS
    <2> USE BudgetAssumption DEF TypeOK, Status, SetStatus
    <2>1. ASSUME NEW b \in Batch, HandOut(b) PROVE TypeOK'
        BY <2>1 DEF HandOut, Submit, Stop
    <2>2. ASSUME NEW b \in Batch, TakeUp(b) PROVE TypeOK'
        BY <2>2 DEF TakeUp, Send, Refuse
    <2>3. ASSUME NEW b \in Batch, Return(b) PROVE TypeOK'
        <3>1. ASSUME NEW c \in 0 .. MaxCost, Answer(b, c) PROVE TypeOK'
            BY <3>1 DEF Answer, RecordUsage
        <3>2. CASE Retry(b)
            <4>1. attempt[b] + 1 \in 0 .. Attempts
                BY <3>2 DEF Retry
            <4> QED
                BY <3>2, <4>1 DEF Retry
        <3>3. CASE Fail(b)
            BY <3>3 DEF Fail
        <3>4. CASE Raise(b)
            BY <3>4 DEF Raise
        <3> QED
            BY <2>3, <3>1, <3>2, <3>3, <3>4 DEF Return
    <2>4. CASE UNCHANGED vars
        BY <2>4 DEF vars
    <2> QED
        BY <2>1, <2>2, <2>3, <2>4 DEF Next
<1> QED
    BY <1>1, <1>2, PTL DEF Spec

----------------------------------------------------------------------------
(* What is spent. *)

LEMMA SpendInit == Init => SpendInv
<1> SUFFICES ASSUME Init PROVE SpendInv
    OBVIOUS
<1>1. TypeOK
    BY BudgetAssumption DEF Init, TypeOK, Status
<1>2. Calling = {}
    BY BudgetAssumption DEF Init, Calling, Given, Batch
<1>3. Cardinality(Calling) = 0
    BY <1>2, FS_EmptySet
<1>4. 0 * MaxCost = 0 /\ Threads * MaxCost \in Nat
    BY ThreadsNat, BudgetAssumption, SMT
<1> QED
    BY <1>1, <1>3, <1>4, ThreadsNat, LimitType DEF Init, SpendInv

LEMMA SpendSend ==
    ASSUME TypeOK, SpendInv, NEW b \in Batch, Send(b)
    PROVE  SpendInv'
<1> DEFINE k == Cardinality(Calling)
<1>1. b \in Given /\ b \notin Calling /\ k < Threads
    BY DEF Send, Free, First, Queued, Calling
<1>2. Cardinality(Calling') = k + 1
    BY <1>1, OneMoreCalling DEF Send
<1>3. k \in Nat /\ Threads \in Nat /\ MaxCost \in Nat /\ cost \in Nat /\ calls \in Nat
    BY CallingFinite, ThreadsNat, BudgetAssumption DEF TypeOK
<1>4. (k + 1) * MaxCost <= Threads * MaxCost
    BY <1>1, <1>3, MoreCallsCostMore
<1>5. limit.calls # NoLimit => calls < limit.calls
    BY <1>3, LimitType DEF Send, CanSend, Exhausted
<1>6. limit.cost # NoLimit => cost < limit.cost
    BY <1>3, LimitType DEF Send, CanSend, Exhausted
<1>7. Threads' = Threads /\ cost' = cost /\ calls' = calls /\ limit' = limit
    BY DEF Send, Threads, Concurrent
<1>8. (k + 1) * MaxCost \in Nat /\ Threads * MaxCost \in Nat
    BY <1>3, SMT
<1> HIDE DEF k
<1> QED
    BY <1>1, <1>2, <1>3, <1>4, <1>5, <1>6, <1>7, <1>8, LimitType DEF SpendInv

\* A call that ends, whether its cost was recorded or not.
LEMMA SpendReturn ==
    ASSUME TypeOK, SpendInv, NEW b \in Calling, NEW s \in Status \ {"calling"},
           SetStatus(b, s), UNCHANGED <<limit, batches, last>>,
           NEW c \in 0 .. MaxCost, NEW n \in 0 .. 1,
           cost' = cost + c, calls' = calls + n
    PROVE  SpendInv'
<1> DEFINE k == Cardinality(Calling)
           j == Cardinality(Calling')
<1>1. k = j + 1
    BY OneLessCalling, CallingFinite
<1>2. k \in Nat /\ Threads \in Nat /\ MaxCost \in Nat /\ cost \in Nat /\ calls \in Nat
    BY CallingFinite, ThreadsNat, BudgetAssumption DEF TypeOK
<1>3. k >= 1
    BY CallingFinite, FS_EmptySet, <1>2
<1>4. j \in Nat
    BY <1>1, <1>2, <1>3, OneLessCalling
<1>5. k * MaxCost = j * MaxCost + MaxCost
    BY <1>1, <1>2, <1>4, MoreCallsCostMore
<1>6. Threads' = Threads
    BY DEF Threads, Concurrent
<1>7. j * MaxCost \in Nat /\ Threads * MaxCost \in Nat
    BY <1>2, <1>4, SMT
<1> HIDE DEF k, j
<1>8. k <= Threads
    BY DEF SpendInv, k
<1>9. limit.calls # NoLimit => calls + k <= limit.calls + (Threads - 1)
    BY DEF SpendInv, k
<1>10. limit.cost # NoLimit => cost + k * MaxCost <= limit.cost + Threads * MaxCost
    BY DEF SpendInv, k
<1>11. j <= Threads
    BY <1>1, <1>2, <1>4, <1>8
<1>12. limit.calls # NoLimit => calls' + j <= limit.calls + (Threads - 1)
    BY <1>1, <1>2, <1>4, <1>9, LimitType
<1>13. limit.cost # NoLimit => cost' + j * MaxCost <= limit.cost + Threads * MaxCost
    BY <1>2, <1>5, <1>7, <1>10, LimitType
<1> QED
    BY <1>6, <1>11, <1>12, <1>13 DEF SpendInv, j

LEMMA SpendStep ==
    ASSUME TypeOK, SpendInv, [Next]_vars
    PROVE  SpendInv'
<1>1. ASSUME NEW b \in Batch, HandOut(b) PROVE SpendInv'
    <2>1. CASE Submit(b)
        <3>1. Calling' = Calling
            BY <2>1, SameCalling DEF Submit, MaySubmit, First, Waiting, Calling, Status
        <3> QED
            BY <2>1, <3>1 DEF Submit, SpendInv, Threads, Concurrent
    <2>2. CASE Stop(b)
        BY <2>2 DEF Stop, SpendInv, Threads, Concurrent, Calling, Given
    <2> QED
        BY <1>1, <2>1, <2>2 DEF HandOut
<1>2. ASSUME NEW b \in Batch, TakeUp(b) PROVE SpendInv'
    <2>1. CASE Send(b)
        BY <2>1, SpendSend
    <2>2. CASE Refuse(b)
        <3>1. Calling' = Calling
            BY <2>2, SameCalling DEF Refuse, Free, First, Queued, Calling, Status
        <3> QED
            BY <2>2, <3>1 DEF Refuse, SpendInv, Threads, Concurrent
    <2> QED
        BY <1>2, <2>1, <2>2 DEF TakeUp
<1>3. ASSUME NEW b \in Batch, Return(b) PROVE SpendInv'
    <2> USE BudgetAssumption DEF Status
    <2>1. ASSUME NEW c \in 0 .. MaxCost, Answer(b, c) PROVE SpendInv'
        <3>1. b \in Calling /\ SetStatus(b, "answered") /\ UNCHANGED <<limit, batches, last>>
              /\ cost' = cost + c /\ calls' = calls + 1
            BY <2>1 DEF Answer, RecordUsage
        <3> QED
            BY <3>1, SpendReturn
    <2>2. CASE Retry(b)
        BY <2>2 DEF Retry, SpendInv, Threads, Concurrent, Calling, Given
    <2>3. CASE Fail(b) \/ Raise(b)
        <3>1. b \in Calling /\ SetStatus(b, "failed") /\ UNCHANGED <<limit, batches, last>>
              /\ cost' = cost + 0 /\ calls' = calls + 0
            BY <2>3 DEF Fail, Raise, TypeOK
        <3> QED
            BY <3>1, SpendReturn
    <2> QED
        BY <1>3, <2>1, <2>2, <2>3 DEF Return
<1>4. CASE UNCHANGED vars
    BY <1>4 DEF vars, SpendInv, Threads, Concurrent, Calling, Given
<1> QED
    BY <1>1, <1>2, <1>3, <1>4 DEF Next

LEMMA SpendInvBounds == TypeOK /\ SpendInv => SpendBounded
<1> SUFFICES ASSUME TypeOK, SpendInv PROVE SpendBounded
    OBVIOUS
<1>1. Cardinality(Calling) * MaxCost \in Nat /\ Threads * MaxCost \in Nat
    BY CallingFinite, ThreadsNat, BudgetAssumption, SMT
<1> QED
    BY <1>1, LimitType DEF SpendInv, SpendBounded, TypeOK

\* The limits are exceeded only by what was under way when they were reached:
\* by fewer calls than there are threads, and by the price of one call of each.
THEOREM SpendIsBounded == Spec => []SpendBounded
<1>1. Spec => []TypeOK
    BY TypesHold
<1>2. Init => SpendInv
    BY SpendInit
<1>3. TypeOK /\ SpendInv /\ [Next]_vars => SpendInv'
    BY SpendStep
<1>4. TypeOK /\ SpendInv => SpendBounded
    BY SpendInvBounds
<1> QED
    BY <1>1, <1>2, <1>3, <1>4, PTL DEF Spec

----------------------------------------------------------------------------
(* What is skipped. *)

\* Once the tracker is unwilling it stays so: its sums only grow.
LEMMA SumsGrow ==
    ASSUME TypeOK, [Next]_vars
    PROVE  /\ limit' = limit /\ batches' = batches /\ last' = last
           /\ cost' >= cost /\ calls' >= calls
<1> USE BudgetAssumption DEF TypeOK
<1> DEFINE Grow ==
        /\ limit' = limit /\ batches' = batches /\ last' = last
        /\ cost' >= cost /\ calls' >= calls
<1>1. ASSUME NEW b \in Batch, HandOut(b) PROVE Grow
    BY <1>1 DEF HandOut, Submit, Stop
<1>2. ASSUME NEW b \in Batch, TakeUp(b) PROVE Grow
    BY <1>2 DEF TakeUp, Send, Refuse
<1>3. ASSUME NEW b \in Batch, Return(b) PROVE Grow
    BY <1>3 DEF Return, Answer, RecordUsage, Retry, Fail, Raise
<1>4. CASE UNCHANGED vars
    BY <1>4 DEF vars
<1> QED
    BY <1>1, <1>2, <1>3, <1>4 DEF Next

\* A batch of at least as many pairs is expected to cost at least as much.
LEMMA LargerCostsMore ==
    ASSUME TypeOK, NEW a \in Given, NEW b \in Given, Size(b) <= Size(a)
    PROVE  Estimate(a) \in Nat /\ Estimate(b) \in Nat /\ Estimate(b) <= Estimate(a)
<1>1. Size(a) \in Nat /\ Size(b) \in Nat /\ Price \in Nat
    BY BudgetAssumption DEF Size, TypeOK
<1>2. Size(b) * Price <= Size(a) * Price
    BY <1>1, MoreCallsCostMore
<1>3. Size(a) * Price \in Nat /\ Size(b) * Price \in Nat
    BY <1>1, SMT
<1> QED
    BY <1>2, <1>3 DEF Estimate

\* A tracker that turns a batch away turns away what is at least as large.
LEMMA UnwillingForLarger ==
    ASSUME TypeOK, NEW a \in Given, NEW b \in Given, Size(b) <= Size(a), ~CanSend(b)
    PROVE  ~CanSend(a)
BY LargerCostsMore, LimitType DEF CanSend, TypeOK

LEMMA StaysUnwilling ==
    ASSUME TypeOK, TypeOK', [Next]_vars
    PROVE  /\ Exhausted => Exhausted'
           /\ \A b \in Given : ~CanSend(b) => ~CanSend(b)'
<1>1. /\ limit' = limit /\ batches' = batches /\ last' = last
      /\ cost' >= cost /\ calls' >= calls
    BY SumsGrow
<1>2. cost \in Nat /\ calls \in Nat /\ cost' \in Nat /\ calls' \in Nat
    BY BudgetAssumption DEF TypeOK
<1>3. Exhausted => Exhausted'
    BY <1>1, <1>2, LimitType DEF Exhausted
<1>4. ASSUME NEW b \in Given, ~CanSend(b) PROVE ~CanSend(b)'
    <2>1. Estimate(b) \in Nat
        BY LargerCostsMore, BudgetAssumption DEF Size, TypeOK
    <2>2. Estimate(b)' = Estimate(b)
        BY <1>1 DEF Estimate, Size
    <2> HIDE DEF Estimate
    <2> QED
        BY <1>1, <1>2, <1>3, <1>4, <2>1, <2>2, LimitType DEF CanSend
<1> QED
    BY <1>3, <1>4

LEMMA SkippedStep ==
    ASSUME TypeOK, TypeOK', SkippedOnlyWhenSpent, [Next]_vars
    PROVE  SkippedOnlyWhenSpent'
<1>1. /\ Exhausted => Exhausted'
      /\ \A b \in Given : ~CanSend(b) => ~CanSend(b)'
      /\ batches' = batches /\ last' = last
    BY StaysUnwilling, SumsGrow
<1> DEFINE NewlySkipped ==
        /\ \A b \in Given' : status'[b] = "refused" => (b \in Given /\ status[b] = "refused") \/ ~CanSend(b)
        /\ stopped' = "spent" => stopped = "spent" \/ Exhausted
<1>2. NewlySkipped
    <2> USE DEF Given, SetStatus, TypeOK, Batch
    <2>1. ASSUME NEW b \in Batch, HandOut(b) PROVE NewlySkipped
        <3>1. CASE Submit(b)
            BY <3>1 DEF Submit
        <3>2. CASE Stop(b)
            BY <3>2 DEF Stop, Denied, StopsAfter
        <3> QED
            BY <2>1, <3>1, <3>2 DEF HandOut
    <2>2. ASSUME NEW b \in Batch, TakeUp(b) PROVE NewlySkipped
        <3>1. CASE Send(b)
            BY <3>1 DEF Send
        <3>2. CASE Refuse(b)
            BY <3>2 DEF Refuse
        <3> QED
            BY <2>2, <3>1, <3>2 DEF TakeUp
    <2>3. ASSUME NEW b \in Batch, Return(b) PROVE NewlySkipped
        <3>1. ASSUME NEW c \in 0 .. MaxCost, Answer(b, c) PROVE NewlySkipped
            BY <3>1 DEF Answer
        <3>2. CASE Retry(b)
            BY <3>2 DEF Retry
        <3>3. CASE Fail(b)
            BY <3>3 DEF Fail
        <3>4. CASE Raise(b)
            BY <3>4 DEF Raise
        <3> QED
            BY <2>3, <3>1, <3>2, <3>3, <3>4 DEF Return
    <2>4. CASE UNCHANGED vars
        BY <2>4 DEF vars
    <2> QED
        BY <2>1, <2>2, <2>3, <2>4 DEF Next
<1>3. Given' = Given /\ \A b : Size(b)' = Size(b)
    BY <1>1 DEF Given, Size
<1>4. ASSUME NEW a \in Given', NEW b \in Given',
             status'[b] = "refused", Size(b)' <= Size(a)'
      PROVE  ~CanSend(a)'
    <2>1. a \in Given /\ b \in Given /\ Size(b) <= Size(a)
        BY <1>3, <1>4
    <2>2. status[b] = "refused" \/ ~CanSend(b)
        BY <1>2, <1>4
    <2>3. ~CanSend(a)
        BY <2>1, <2>2, UnwillingForLarger DEF SkippedOnlyWhenSpent
    <2> QED
        BY <1>1, <2>1, <2>3
<1>5. stopped' = "spent" => Exhausted'
    BY <1>1, <1>2 DEF SkippedOnlyWhenSpent
<1> QED
    BY <1>4, <1>5 DEF SkippedOnlyWhenSpent

\* No batch is passed over for money that a later one gets: once a batch is
\* refused, every batch of at least as many pairs is refused, whatever each
\* costs; and batches stay unsubmitted only when a limit is reached.
THEOREM SkippedWhenSpent == Spec => []SkippedOnlyWhenSpent
<1>1. Spec => []TypeOK
    BY TypesHold
<1>2. Init => SkippedOnlyWhenSpent
    BY BudgetAssumption DEF Init, SkippedOnlyWhenSpent, Given, Batch
<1>3. TypeOK /\ TypeOK' /\ SkippedOnlyWhenSpent /\ [Next]_vars => SkippedOnlyWhenSpent'
    BY SkippedStep
<1> QED
    BY <1>1, <1>2, <1>3, PTL DEF Spec
=============================================================================
