------------------------ MODULE LearningMemoryProofs ------------------------
(***************************************************************************)
(* Theorems about LearningMemory for any contents, frames, clients and     *)
(* number of decisions and runs: what the run "memory" checks on two       *)
(* clients and two frames.                                                 *)
(*                                                                         *)
(* What the store and the learner hold was written by calls that began     *)
(* earlier, so the invariants speak of the calls on their way as well:     *)
(* DecidedInv of their trust, FreshInv of their dates.                     *)
(***************************************************************************)
EXTENDS LearningMemory, WellFoundedInduction, TLAPS

Job == [pair : Pair, correction : Correction]
MaybeCorrection == Correction \cup {NoCorrection}

\* The corrections on their way, and the time, in step with the calls and runs so far.
Types ==
    /\ frame \in Frame /\ phase \in {"idle", "learning", "score", "enqueue"}
    /\ corrections \in [Pair -> MaybeCorrection]
    /\ queue \in [Pair -> {"absent", "pending"} \cup Decision]
    /\ stale \subseteq Pair /\ todo \subseteq Pair
    /\ pc \in [Client -> {"idle", "record", "replace"}]
    /\ job \in [Client -> Job \cup {NoCorrection}]
    /\ \A k \in Client : pc[k] # "idle" => job[k] \in Job
    /\ learned \in Nat /\ clock \in Nat /\ decisions \in 0 .. MaxDecisions /\ runs \in 0 .. MaxRuns
    /\ learned <= clock
    /\ clock + (IF phase = "learning" THEN 1 ELSE 0) <= decisions + runs

\* On PostgreSQL a decided pair without a person's correction has one on its way.
DecidedInv ==
    backend = "postgres" =>
        /\ \A k \in Client : pc[k] # "replace"
        /\ \A p \in Pair :
            \/ queue[p] \notin Decision \/ p \in dropped
            \/ p \in Stored /\ corrections[p].trust = 2
            \/ \E k \in Client :
                pc[k] = "record" /\ job[k].pair = p /\ job[k].correction.trust = 2

\* What has been stored since the learner last read, or is about to be, is dated
\* after its adjustment, or is known to have been missed.
FreshInv ==
    /\ phase = "learning" => All \subseteq seen \cup missed
    /\ learned # 0 => \A u \in All \ (used \cup missed) : u.correction.at > learned
    /\ \A k \in Client : pc[k] # "idle" => job[k].correction.at > learned \/ job[k] \in missed

----------------------------------------------------------------------------
(* Facts about the definitions. *)

LEMMA HashTyped ==
    ASSUME frame \in Frame, NEW k \in Client, NEW p \in Pair
    PROVE  HashNow(k, p) \in Hash
<1>1. CASE k \in Framed /\ Present(p)
    <2>1. frame \in Seq(Content) /\ p[1] \in 1 .. Len(frame) /\ p[2] \in 1 .. Len(frame)
        BY <1>1, MemoryAssumption DEF Present, Pair, RowId
    <2>2. frame[p[1]] \in Content /\ frame[p[2]] \in Content
        BY <2>1
    <2> QED
        BY <1>1, <2>2 DEF HashNow, Hash, ContentOf
<1>2. CASE ~(k \in Framed /\ Present(p))
    BY <1>2 DEF HashNow, Hash
<1> QED
    BY <1>1, <1>2

LEMMA AllTyped ==
    ASSUME Types, NEW u \in All
    PROVE  u \in [pair : Stored, correction : MaybeCorrection] /\ u.correction = corrections[u.pair]
BY DEF All, Stored, Types

\* A set of naturals below a bound has a greatest member.
LEMMA Greatest ==
    ASSUME NEW S \in SUBSET Nat, S # {}, NEW b \in Nat, \A n \in S : n <= b
    PROVE  \E m \in S : \A n \in S : n <= m
<1> DEFINE T == {n \in Nat : \A s \in S : s <= n}
<1>1. T # {} /\ T \subseteq Nat
    OBVIOUS
<1>2. PICK m \in T : \A n \in T : ~ (<<n, m>> \in OpToRel(<, Nat))
    BY <1>1, NatLessThanWellFounded, WFMin
<1>3. ASSUME m \notin S PROVE FALSE
    <2>1. \A s \in S : s <= m - 1
        BY <1>3
    <2>2. m - 1 \in T
        <3>1. PICK s \in S : s <= m - 1
            BY <2>1
        <3> QED
            BY <2>1, <3>1
    <2>3. <<m - 1, m>> \in Nat \X Nat /\ <<m - 1, m>>[1] < <<m - 1, m>>[2]
        BY <2>2
    <2>4. <<m - 1, m>> \in OpToRel(<, Nat)
        BY <2>3, Zenon DEF OpToRel
    <2> QED
        BY <1>2, <2>2, <2>4
<1> QED
    BY <1>3

\* Of the corrections that count for a pair one is the last.
LEMMA SomeActive ==
    ASSUME Types, NEW q, NEW u \in All, CountsFor(u, q)
    PROVE  \E w \in Active(q) : w.correction.at >= u.correction.at
<1> DEFINE here == {o \in All : CountsFor(o, q)}
           dates == {o.correction.at : o \in here}
<1>1. \A o \in here : o.correction.at \in Clock
    BY AllTyped DEF Stored, MaybeCorrection, Correction
<1>2. dates \in SUBSET Nat /\ \A n \in dates : n <= MaxDecisions + MaxRuns
    BY <1>1 DEF Clock
<1>3. u \in here /\ dates # {}
    OBVIOUS
<1>4. MaxDecisions + MaxRuns \in Nat
    BY MemoryAssumption
<1> HIDE DEF dates
<1>5. PICK m \in dates : \A n \in dates : n <= m
    BY <1>2, <1>3, <1>4, Greatest
<1>6. PICK w \in here : w.correction.at = m
    BY <1>5 DEF dates
<1>7. \A o \in here : o.correction.at <= w.correction.at
    BY <1>5, <1>6 DEF dates
<1>8. w \in Active(q)
    BY <1>7 DEF Active
<1> QED
    BY <1>1, <1>3, <1>7, <1>8 DEF Clock

----------------------------------------------------------------------------
(* Types. *)

LEMMA InitTypes == Init => Types
<1> SUFFICES ASSUME Init PROVE Types
    OBVIOUS
<1> QED
    BY MemoryAssumption DEF Init, Types, MaybeCorrection

LEMMA CallTypes ==
    ASSUME Types, NEW k \in Client, NEW p \in Pair, NEW d \in Decision, NEW t \in Trust,
           NEW h \in Hash, Call(k, p, d, t, h),
           queue' \in [Pair -> {"absent", "pending"} \cup Decision]
    PROVE  /\ Types' /\ corrections' = corrections
           /\ job'[k] = [pair |-> p, correction |->
                            [decision |-> d, trust |-> t, hash |-> h, at |-> clock + 1]]
           /\ \A j \in Client \ {k} : pc'[j] = pc[j] /\ job'[j] = job[j]
<1>1. clock + 1 \in Clock
    BY MemoryAssumption DEF Types, Call, Clock
<1> DEFINE new == [pair |-> p, correction |->
                      [decision |-> d, trust |-> t, hash |-> h, at |-> clock + 1]]
<1>2. new \in Job
    BY <1>1 DEF Job, Correction
<1>3. job' = [job EXCEPT ![k] = new] /\ pc' = [pc EXCEPT ![k] = "record"]
    BY DEF Call
<1> HIDE DEF new
<1>4. /\ job' \in [Client -> Job \cup {NoCorrection}] /\ job'[k] = new
      /\ pc' \in [Client -> {"idle", "record", "replace"}]
      /\ \A j \in Client \ {k} : pc'[j] = pc[j] /\ job'[j] = job[j]
    BY <1>2, <1>3 DEF Types
<1>5. \A j \in Client : pc'[j] # "idle" => job'[j] \in Job
    BY <1>2, <1>4 DEF Types
<1>6. /\ clock' \in Nat /\ decisions' \in 0 .. MaxDecisions /\ learned' <= clock'
      /\ clock' + (IF phase' = "learning" THEN 1 ELSE 0) <= decisions' + runs'
    BY MemoryAssumption DEF Types, Call, pipeline
<1>7. /\ frame' = frame /\ phase' = phase /\ corrections' = corrections /\ learned' = learned
      /\ runs' = runs /\ stale' = stale /\ todo' = todo
    BY DEF Call, pipeline
<1> QED
    BY <1>4, <1>5, <1>6, <1>7 DEF Types, new

LEMMA DecideTypes ==
    ASSUME Types, NEW k \in Client, NEW p \in Pair, NEW d \in Decision, Decide(k, p, d)
    PROVE  Types'
<1>1. HashNow(k, p) \in Hash
    BY HashTyped DEF Types
<1>2. Call(k, p, d, 2, HashNow(k, p)) /\ queue' \in [Pair -> {"absent", "pending"} \cup Decision]
    BY DEF Decide, Types
<1>3. 2 \in Trust
    BY DEF Trust
<1> QED
    BY <1>1, <1>2, <1>3, CallTypes

LEMMA SubmitTypes ==
    ASSUME Types, NEW k \in Client, NEW s \in Submitted, Submit(k, s)
    PROVE  Types'
<1>1. s.pair \in Pair /\ s.decision \in Decision /\ s.trust \in Trust /\ NoHash \in Hash
    BY CorrectionAssumption DEF Hash
<1>2. Call(k, s.pair, s.decision, s.trust, NoHash) /\ queue' \in [Pair -> {"absent", "pending"} \cup Decision]
    BY DEF Submit, Types
<1> QED
    BY <1>1, <1>2, CallTypes

\* The call ends; the store has its correction, or not.
LEMMA FinishTypes ==
    ASSUME Types, NEW k \in Client, Finish(k),
           corrections' \in {corrections, [corrections EXCEPT ![job[k].pair] = job[k].correction]},
           pc[k] # "idle",
           UNCHANGED <<frame, queue, phase, stale, todo, decisions, runs, learned, clock>>
    PROVE  /\ Types'
           /\ pc'[k] = "idle" /\ \A j \in Client \ {k} : pc'[j] = pc[j] /\ job'[j] = job[j]
<1>1. job[k].pair \in Pair /\ job[k].correction \in MaybeCorrection
    BY DEF Types, Job, MaybeCorrection
<1>2. corrections' \in [Pair -> MaybeCorrection]
    BY <1>1 DEF Types
<1>3. /\ pc' \in [Client -> {"idle", "record", "replace"}]
      /\ job' \in [Client -> Job \cup {NoCorrection}]
      /\ pc'[k] = "idle" /\ \A j \in Client \ {k} : pc'[j] = pc[j] /\ job'[j] = job[j]
    BY DEF Finish, Types
<1>4. \A j \in Client : pc'[j] # "idle" => job'[j] \in Job
    BY <1>3 DEF Types
<1> QED
    BY <1>2, <1>3, <1>4 DEF Types

\* The ways in which a call goes on.
LEMMA WriteCases ==
    ASSUME NEW k \in Client, Upsert(k) \/ ReadExisting(k) \/ Replace(k) \/ FailWrite(k)
    PROVE  /\ pc[k] # "idle"
           /\ \/ pc[k] = "record" /\ backend = "postgres" /\ MayReplace(k) /\ Store(k)
              \/ pc[k] = "record" /\ ~MayReplace(k) /\ Ignore(k)
              \/ backend = "sqlite" /\ ReadExisting(k) /\ MayReplace(k)
              \/ pc[k] = "replace" /\ Store(k)
              \/ FailWrite(k)
BY DEF Upsert, ReadExisting, Replace, FailWrite

LEMMA WriteTypes ==
    ASSUME Types, NEW k \in Client, Upsert(k) \/ ReadExisting(k) \/ Replace(k) \/ FailWrite(k)
    PROVE  Types'
<1>1. pc[k] # "idle"
    BY WriteCases
<1>2. CASE Store(k) \/ Ignore(k) \/ FailWrite(k)
    <2>1. /\ Finish(k)
          /\ corrections' \in {corrections, [corrections EXCEPT ![job[k].pair] = job[k].correction]}
          /\ UNCHANGED <<frame, queue, phase, stale, todo, decisions, runs, learned, clock>>
        BY <1>2 DEF Store, Ignore, FailWrite, pipeline
    <2> QED
        BY <1>1, <2>1, FinishTypes
<1>3. CASE ReadExisting(k) /\ MayReplace(k)
    BY <1>1, <1>3 DEF ReadExisting, Types, pipeline
<1> QED
    BY <1>2, <1>3, WriteCases

\* The steps of a pipeline run; the last three end it.
Closes == ApplyFails \/ EnqueueFails \/ EndRun
Run == StartRun \/ SaveAdjustment \/ LearnFails \/ Apply \/ (\E p \in Pair : EnqueueStale(p)) \/ Closes

LEMMA ClosesLeaves ==
    ASSUME Closes
    PROVE  Leave
BY DEF Closes, ApplyFails, EnqueueFails, EndRun

LEMMA RunTypes ==
    ASSUME Types, Run
    PROVE  Types'
<1>1. CASE StartRun
    BY <1>1, MemoryAssumption DEF StartRun, Types, clients
<1>2. CASE SaveAdjustment
    BY <1>2, MemoryAssumption DEF SaveAdjustment, Types, clients
<1>3. CASE LearnFails
    BY <1>3 DEF LearnFails, Types, clients
<1>4. CASE Apply
    <2>1. Unanchored \subseteq Pair /\ Scored \subseteq Pair
        BY DEF Unanchored, All, Stored, Scored
    <2>2. stale' \subseteq Pair /\ todo' \subseteq Pair
        BY <1>4, <2>1 DEF Apply
    <2> QED
        BY <1>4, <2>2 DEF Apply, Types, clients
<1>5. ASSUME NEW p \in Pair, EnqueueStale(p) PROVE Types'
    <2>1. queue' \in [Pair -> {"absent", "pending"} \cup Decision] /\ todo' \subseteq Pair
        BY <1>5 DEF EnqueueStale, Types
    <2> QED
        BY <1>5, <2>1 DEF EnqueueStale, Types
<1>6. CASE Closes
    BY <1>6, ClosesLeaves, MemoryAssumption DEF Leave, Types, clients
<1> QED
    BY <1>1, <1>2, <1>3, <1>4, <1>5, <1>6 DEF Run

\* The data is loaded again, or a pair is queued: no correction is concerned.
Other == (\E f \in Frame : Reload(f)) \/ (\E p \in Pair : EnqueueBand(p)) \/ UNCHANGED vars

LEMMA OtherTypes ==
    ASSUME Types, Other
    PROVE  Types'
<1>1. ASSUME NEW f \in Frame, Reload(f) PROVE Types'
    BY <1>1 DEF Reload, Types, clients, pipeline
<1>2. ASSUME NEW p \in Pair, EnqueueBand(p) PROVE Types'
    BY <1>2 DEF EnqueueBand, Types, pipeline
<1>3. CASE UNCHANGED vars
    BY <1>3 DEF vars, Types
<1> QED
    BY <1>1, <1>2, <1>3 DEF Other

----------------------------------------------------------------------------
(* What was decided is remembered. *)

\* A correction of a person is never turned away, and no agent's takes its place.
LEMMA DecidedWrite ==
    ASSUME Types, DecidedInv, NEW k \in Client,
           Upsert(k) \/ ReadExisting(k) \/ Replace(k) \/ FailWrite(k)
    PROVE  DecidedInv'
<1> SUFFICES ASSUME backend' = "postgres" PROVE DecidedInv'
    BY DEF DecidedInv
<1>1. /\ backend = "postgres" /\ pc[k] # "idle" /\ job[k] \in Job
      /\ queue' = queue /\ dropped \subseteq dropped'
    BY WriteCases DEF Types, Upsert, ReadExisting, Replace, Store, Ignore, FailWrite
<1>2. pc[k] = "record"
    BY <1>1 DEF DecidedInv, Types
<1>3. (MayReplace(k) /\ Store(k)) \/ (~MayReplace(k) /\ Ignore(k)) \/ FailWrite(k)
    BY <1>1, <1>2 DEF Upsert, ReadExisting, Replace
<1>4. Finish(k)
    BY <1>3 DEF Store, Ignore, FailWrite
<1>5. pc'[k] = "idle" /\ \A j \in Client \ {k} : pc'[j] = pc[j] /\ job'[j] = job[j]
    BY <1>4 DEF Finish, Types
<1>6. \A j \in Client : pc'[j] # "replace"
    BY <1>1, <1>5 DEF DecidedInv
<1>7. ASSUME NEW p \in Pair, queue'[p] \in Decision, p \notin dropped'
      PROVE  \/ p \in Stored' /\ corrections'[p].trust = 2
             \/ \E j \in Client : pc'[j] = "record" /\ job'[j].pair = p /\ job'[j].correction.trust = 2
    <2>1. queue[p] \in Decision /\ p \notin dropped
        BY <1>1, <1>7
    <2> DEFINE Elsewhere == \E j \in Client \ {k} :
                   pc[j] = "record" /\ job[j].pair = p /\ job[j].correction.trust = 2
               Here == p \in Stored /\ corrections[p].trust = 2
               Mine == job[k].pair = p /\ job[k].correction.trust = 2
    <2>2. Here \/ Elsewhere \/ Mine
        BY <2>1, <1>1 DEF DecidedInv
    <2>3. CASE Elsewhere
        BY <2>3, <1>5
    <2>4. CASE FailWrite(k) /\ ~Elsewhere
        <3>1. job[k].pair # p /\ corrections' = corrections
            BY <2>4, <1>7 DEF FailWrite
        <3> QED
            BY <3>1, <2>2, <2>4 DEF Stored
    <2>5. CASE MayReplace(k) /\ Store(k) /\ ~Elsewhere
        <3>1. corrections' = [corrections EXCEPT ![job[k].pair] = job[k].correction]
            BY <2>5 DEF Store
        <3>2. CASE job[k].pair = p
            <4>1. corrections'[p] = job[k].correction /\ job[k].correction \in Correction
                BY <3>1, <3>2, <1>1 DEF Types, Job
            <4>2. Here => job[k].correction.trust >= 2
                BY <2>5, <3>2 DEF MayReplace, Stored
            <4>3. job[k].correction.trust = 2
                BY <4>1, <4>2, <2>2, <2>5 DEF Correction, Trust
            <4> QED
                BY <4>1, <4>3, CorrectionAssumption DEF Stored
        <3>3. CASE job[k].pair # p
            BY <3>1, <3>3, <2>2, <2>5 DEF Stored
        <3> QED
            BY <3>2, <3>3
    <2>6. CASE ~MayReplace(k) /\ Ignore(k) /\ ~Elsewhere
        <3>1. corrections' = corrections
            BY <2>6 DEF Ignore
        <3>2. ~Mine
            <4>1. CASE job[k].pair = p
                <5>1. corrections[p] # NoCorrection /\ corrections[p] \in Correction
                    BY <2>6, <4>1 DEF MayReplace, Types, MaybeCorrection
                <5>2. ~(job[k].correction.trust >= corrections[p].trust)
                    BY <2>6, <4>1 DEF MayReplace
                <5> QED
                    BY <5>1, <5>2, <1>1 DEF Job, Correction, Trust
            <4> QED
                BY <4>1
        <3> QED
            BY <3>1, <3>2, <2>2, <2>6 DEF Stored
    <2> QED
        BY <2>3, <2>4, <2>5, <2>6, <1>3
<1> QED
    BY <1>6, <1>7 DEF DecidedInv

LEMMA DecidedOther ==
    ASSUME Types, DecidedInv, Other \/ Run
    PROVE  DecidedInv'
<1>1. /\ backend' = backend /\ corrections' = corrections /\ pc' = pc /\ job' = job
      /\ dropped' = dropped
      /\ \A p \in Pair : queue'[p] \in Decision => queue[p] \in Decision
    <2>1. ASSUME NEW p \in Pair, EnqueueBand(p)
          PROVE  \A q \in Pair : queue'[q] \in Decision => queue[q] \in Decision
        BY <2>1 DEF EnqueueBand, Types, Decision
    <2>2. ASSUME NEW p \in Pair, EnqueueStale(p)
          PROVE  \A q \in Pair : queue'[q] \in Decision => queue[q] \in Decision
        BY <2>2 DEF EnqueueStale, Types, Decision
    <2>3. \/ queue' = queue
          \/ \E p \in Pair : EnqueueBand(p) \/ EnqueueStale(p)
        BY ClosesLeaves DEF Run, Other, Reload, StartRun, SaveAdjustment, LearnFails, Apply, Leave, clients, vars
    <2>4. \A q \in Pair : queue'[q] \in Decision => queue[q] \in Decision
        BY <2>1, <2>2, <2>3
    <2>5. backend' = backend /\ corrections' = corrections /\ pc' = pc /\ job' = job /\ dropped' = dropped
        BY ClosesLeaves DEF Run, Other, Reload, EnqueueBand, StartRun, SaveAdjustment, LearnFails, Apply,
            EnqueueStale, Leave, clients, vars
    <2> QED
        BY <2>4, <2>5
<1> QED
    BY <1>1 DEF DecidedInv, Stored

LEMMA DecidedCall ==
    ASSUME Types, DecidedInv, NEW k \in Client, NEW p \in Pair, NEW d \in Decision, NEW t \in Trust,
           NEW h \in Hash, Call(k, p, d, t, h),
           queue' \in [Pair -> {"absent", "pending"} \cup Decision],
           \A q \in Pair : queue'[q] \in Decision => queue[q] \in Decision \/ (q = p /\ t = 2)
    PROVE  DecidedInv'
<1>0. /\ Types' /\ corrections' = corrections
      /\ job'[k] = [pair |-> p, correction |->
                       [decision |-> d, trust |-> t, hash |-> h, at |-> clock + 1]]
      /\ \A j \in Client \ {k} : pc'[j] = pc[j] /\ job'[j] = job[j]
    BY CallTypes, Zenon
<1>1. /\ corrections' = corrections
      /\ job'[k].pair = p /\ job'[k].correction.trust = t
      /\ \A j \in Client \ {k} : pc'[j] = pc[j] /\ job'[j] = job[j]
    BY <1>0
<1>2. pc[k] = "idle" /\ pc'[k] = "record" /\ dropped' = dropped /\ backend' = backend
    BY DEF Call, Types
<1>3. ASSUME NEW q \in Pair, NEW j \in Client, pc[j] = "record", job[j].pair = q,
             job[j].correction.trust = 2
      PROVE  pc'[j] = "record" /\ job'[j].pair = q /\ job'[j].correction.trust = 2
    BY <1>1, <1>2, <1>3
<1> QED
    BY <1>1, <1>2, <1>3 DEF DecidedInv, Stored

LEMMA DecidedStep ==
    ASSUME Types, DecidedInv, [Next]_vars
    PROVE  DecidedInv'
<1>1. ASSUME NEW k \in Client, NEW p \in Pair, NEW d \in Decision, Decide(k, p, d)
      PROVE  DecidedInv'
    <2>1. HashNow(k, p) \in Hash /\ 2 \in Trust
        BY HashTyped DEF Types, Trust
    <2>2. /\ Call(k, p, d, 2, HashNow(k, p)) /\ queue' \in [Pair -> {"absent", "pending"} \cup Decision]
          /\ \A q \in Pair : queue'[q] \in Decision => queue[q] \in Decision \/ q = p
        BY <1>1 DEF Decide, Types
    <2> QED
        BY <2>1, <2>2, DecidedCall
<1>2. ASSUME NEW k \in Client, NEW s \in Submitted, Submit(k, s)
      PROVE  DecidedInv'
    <2>1. s.pair \in Pair /\ s.decision \in Decision /\ s.trust \in Trust /\ NoHash \in Hash
        BY CorrectionAssumption DEF Hash
    <2>2. Call(k, s.pair, s.decision, s.trust, NoHash) /\ queue' = queue
        BY <1>2 DEF Submit
    <2>3. queue' \in [Pair -> {"absent", "pending"} \cup Decision]
        BY <2>2 DEF Types
    <2> QED
        BY <2>1, <2>2, <2>3, DecidedCall
<1> QED
    BY <1>1, <1>2, DecidedWrite, DecidedOther DEF Next, Other, Run, Closes

----------------------------------------------------------------------------
(* Nothing fresh is overlooked. *)

LEMMA FreshWrite ==
    ASSUME Types, FreshInv, NEW k \in Client,
           Upsert(k) \/ ReadExisting(k) \/ Replace(k) \/ FailWrite(k)
    PROVE  FreshInv'
<1>1. pc[k] # "idle" /\ job[k] \in Job
    BY WriteCases DEF Types
<1>2. /\ phase' = phase /\ seen' = seen /\ used' = used /\ learned' = learned
      /\ missed \subseteq missed'
    BY DEF Upsert, ReadExisting, Replace, FailWrite, Store, Ignore, pipeline
<1>3. CASE ReadExisting(k) /\ MayReplace(k)
    <2>1. All' = All
        BY <1>3 DEF ReadExisting, All, Stored
    <2>2. job' = job /\ missed' = missed /\ \A j \in Client : pc'[j] # "idle" => pc[j] # "idle"
        BY <1>1, <1>3 DEF ReadExisting, Types
    <2> QED
        BY <1>2, <2>1, <2>2 DEF FreshInv
<1>4. CASE Store(k) \/ Ignore(k) \/ FailWrite(k)
    <2>1. Finish(k)
        BY <1>4 DEF Store, Ignore, FailWrite
    <2>2. \A j \in Client : pc'[j] # "idle" => pc[j] # "idle" /\ job'[j] = job[j]
        BY <2>1 DEF Finish, Types
    <2>3. All' \subseteq All \cup {job[k]} /\ (All' = All \/ Store(k))
        <3>1. CASE Store(k)
            <4>1. corrections' = [corrections EXCEPT ![job[k].pair] = job[k].correction]
                BY <3>1 DEF Store
            <4>2. job[k] = [pair |-> job[k].pair, correction |-> job[k].correction]
                BY <1>1 DEF Job
            <4>3. ASSUME NEW p \in Stored' PROVE [pair |-> p, correction |-> corrections'[p]] \in All \cup {job[k]}
                <5>1. CASE p = job[k].pair
                    BY <5>1, <4>1, <4>2, <1>1 DEF Types, Job, Stored
                <5>2. CASE p # job[k].pair
                    BY <5>2, <4>1 DEF Types, Stored, All
                <5> QED
                    BY <5>1, <5>2
            <4> QED
                BY <3>1, <4>3 DEF All
        <3>2. CASE corrections' = corrections
            BY <3>2 DEF All, Stored
        <3> QED
            BY <1>4, <3>1, <3>2 DEF Ignore, FailWrite
    <2>4. Store(k) /\ phase = "learning" => job[k] \in missed'
        BY DEF Store
    <2>5. phase' = "learning" => All' \subseteq seen' \cup missed'
        BY <1>2, <2>3, <2>4 DEF FreshInv
    <2>6. learned' # 0 => \A u \in All' \ (used' \cup missed') : u.correction.at > learned'
        BY <1>1, <1>2, <2>3 DEF FreshInv
    <2>7. \A j \in Client : pc'[j] # "idle" => job'[j].correction.at > learned' \/ job'[j] \in missed'
        BY <1>2, <2>2 DEF FreshInv
    <2> QED
        BY <2>5, <2>6, <2>7 DEF FreshInv
<1> QED
    BY <1>3, <1>4, WriteCases

LEMMA FreshCall ==
    ASSUME Types, FreshInv, NEW k \in Client, NEW p \in Pair, NEW d \in Decision, NEW t \in Trust,
           NEW h \in Hash, Call(k, p, d, t, h),
           queue' \in [Pair -> {"absent", "pending"} \cup Decision]
    PROVE  FreshInv'
<1>0. /\ Types' /\ corrections' = corrections
      /\ job'[k] = [pair |-> p, correction |->
                       [decision |-> d, trust |-> t, hash |-> h, at |-> clock + 1]]
      /\ \A j \in Client \ {k} : pc'[j] = pc[j] /\ job'[j] = job[j]
    BY CallTypes, Zenon
<1>1. /\ corrections' = corrections
      /\ job'[k].correction.at = clock + 1
      /\ \A j \in Client \ {k} : pc'[j] = pc[j] /\ job'[j] = job[j]
    BY <1>0
<1>2. /\ phase' = phase /\ seen' = seen /\ used' = used /\ learned' = learned /\ missed' = missed
      /\ clock + 1 > learned
    BY DEF Call, Types, pipeline
<1>3. All' = All
    BY <1>1 DEF All, Stored
<1> QED
    BY <1>1, <1>2, <1>3 DEF FreshInv

LEMMA FreshRun ==
    ASSUME Types, FreshInv, Other \/ Run
    PROVE  FreshInv'
<1>1. corrections' = corrections /\ pc' = pc /\ job' = job
    BY ClosesLeaves DEF Run, Other, Reload, EnqueueBand, StartRun, SaveAdjustment, LearnFails, Apply,
        EnqueueStale, Leave, clients, vars
<1>2. All' = All
    BY <1>1 DEF All, Stored
<1>3. CASE SaveAdjustment
    <2>1. phase' # "learning"
        BY <1>3 DEF SaveAdjustment
    <2>2. All' \subseteq used' \cup missed'
        BY <1>2, <1>3 DEF SaveAdjustment, FreshInv
    <2>3. \A j \in Client : pc'[j] # "idle" => job'[j] \in missed'
        BY <1>1, <1>3 DEF SaveAdjustment
    <2> QED
        BY <2>1, <2>2, <2>3 DEF FreshInv
<1>4. CASE ~SaveAdjustment
    <2>1. learned' = learned /\ used' = used /\ missed' = missed
        BY <1>4, ClosesLeaves DEF Run, Other, Reload, EnqueueBand, StartRun, LearnFails, Apply,
            EnqueueStale, Leave, clients, pipeline, vars
    <2>2. phase' = "learning" => seen' = All \/ (phase = "learning" /\ seen' = seen)
        BY <1>4, ClosesLeaves DEF Run, Other, Reload, EnqueueBand, StartRun, LearnFails, Apply,
            EnqueueStale, Leave, clients, pipeline, vars
    <2> QED
        BY <1>1, <1>2, <2>1, <2>2 DEF FreshInv
<1> QED
    BY <1>3, <1>4

LEMMA FreshStep ==
    ASSUME Types, FreshInv, [Next]_vars
    PROVE  FreshInv'
<1>1. ASSUME NEW k \in Client, NEW p \in Pair, NEW d \in Decision, Decide(k, p, d)
      PROVE  FreshInv'
    <2>1. HashNow(k, p) \in Hash /\ 2 \in Trust
        BY HashTyped DEF Types, Trust
    <2>2. Call(k, p, d, 2, HashNow(k, p)) /\ queue' \in [Pair -> {"absent", "pending"} \cup Decision]
        BY <1>1 DEF Decide, Types
    <2> QED
        BY <2>1, <2>2, FreshCall
<1>2. ASSUME NEW k \in Client, NEW s \in Submitted, Submit(k, s)
      PROVE  FreshInv'
    <2>1. s.pair \in Pair /\ s.decision \in Decision /\ s.trust \in Trust /\ NoHash \in Hash
        BY CorrectionAssumption DEF Hash
    <2>2. Call(k, s.pair, s.decision, s.trust, NoHash) /\ queue' \in [Pair -> {"absent", "pending"} \cup Decision]
        BY <1>2 DEF Submit, Types
    <2> QED
        BY <2>1, <2>2, FreshCall
<1> QED
    BY <1>1, <1>2, FreshWrite, FreshRun DEF Next, Other, Run, Closes

LEMMA FreshEnough == Types /\ FreshInv => FreshIsSeen
<1> SUFFICES ASSUME Types, FreshInv, NEW u \in All \ (used \cup missed) PROVE HasNewCorrections
    BY DEF FreshIsSeen
<1>1. u.pair \in Stored /\ u.correction = corrections[u.pair]
    BY AllTyped
<1> QED
    BY <1>1 DEF FreshInv, HasNewCorrections

----------------------------------------------------------------------------
(* What a run does with the corrections it has read. *)

\* Between two steps of a run the rows, its results and what it has read stand still, and
\* what it has reported stays reported.
LEMMA ResultsStand ==
    ASSUME Types, [Next]_vars, ~Apply, phase' = "enqueue"
    PROVE  /\ phase = "enqueue" /\ frame' = frame
           /\ seen' = seen /\ stale' = stale /\ applied' = applied
           /\ \A p \in Pair : Reported(p) => Reported(p)'
<1> DEFINE Stands == UNCHANGED <<phase, frame, seen, stale, applied>>
           Asks == todo' = todo /\ \A p \in Pair : queue[p] # "absent" => queue'[p] # "absent"
<1>0. Stands /\ Asks /\ phase' = "enqueue" =>
        /\ phase = "enqueue" /\ frame' = frame
        /\ seen' = seen /\ stale' = stale /\ applied' = applied
        /\ \A p \in Pair : Reported(p) => Reported(p)'
    BY DEF Reported
<1>1. ASSUME NEW k \in Client, NEW p \in Pair, NEW d \in Decision, Decide(k, p, d)
      PROVE  Stands /\ Asks
    BY <1>1 DEF Decide, Call, pipeline, Types, Decision
<1>2. ASSUME NEW k \in Client, NEW s \in Submitted, Submit(k, s)
      PROVE  Stands /\ Asks
    BY <1>2 DEF Submit, Call, pipeline
<1>3. ASSUME NEW k \in Client, Upsert(k) \/ ReadExisting(k) \/ Replace(k) \/ FailWrite(k)
      PROVE  Stands /\ Asks
    BY <1>3 DEF Upsert, ReadExisting, Replace, FailWrite, Store, Ignore, pipeline
<1>4. ASSUME NEW p \in Pair, EnqueueBand(p)
      PROVE  Stands /\ Asks
    BY <1>4 DEF EnqueueBand, pipeline, Types
<1>5. UNCHANGED vars => Stands /\ Asks
    BY DEF vars
<1>6. ASSUME NEW p \in Pair, EnqueueStale(p)
      PROVE  Stands /\ \A q \in Pair : Reported(q) => Reported(q)'
    <2>1. Stands /\ todo' = todo \ {p} /\ queue' = [queue EXCEPT ![p] = "pending"]
        BY <1>6 DEF EnqueueStale
    <2>2. \A q \in Pair : queue'[q] = IF q = p THEN "pending" ELSE queue[q]
        BY <2>1 DEF Types
    <2> QED
        BY <2>1, <2>2 DEF Reported
<1>7. \A f \in Frame : Reload(f) => phase' = "idle"
    BY DEF Reload, pipeline
<1>8. StartRun \/ SaveAdjustment \/ LearnFails \/ Closes => phase' # "enqueue"
    BY ClosesLeaves DEF StartRun, SaveAdjustment, LearnFails, Leave
<1> HIDE DEF Stands, Asks
<1>9. \/ Stands /\ Asks
      \/ \E p \in Pair : EnqueueStale(p)
    BY <1>1, <1>2, <1>3, <1>4, <1>5, <1>7, <1>8 DEF Next, Closes
<1> QED
    BY <1>0, <1>6, <1>9 DEF Stands

\* Of those that count for a scored pair the last overrides it, or makes it stale.
LEMMA ApplyAccounts ==
    ASSUME Types, Apply, NEW u \in All
    PROVE  \/ u.pair \in stale'
           \/ /\ Anchorable(u)
              /\ \A q \in Scored : CountsFor(u, q) =>
                     q \in stale' \/ \E a \in applied' :
                         a.pair = q /\ a.by.correction.at >= u.correction.at
<1>1. CASE ~Anchorable(u)
    <2>1. u.pair \in Unanchored
        BY <1>1 DEF Unanchored
    <2> QED
        BY <2>1 DEF Apply
<1>2. ASSUME NEW q \in Scored, CountsFor(u, q)
      PROVE  q \in stale' \/ \E a \in applied' :
                 a.pair = q /\ a.by.correction.at >= u.correction.at
    <2>1. PICK w \in Active(q) : w.correction.at >= u.correction.at
        BY <1>2, SomeActive
    <2>2. CASE Trusted(w, q)
        <3>1. <<q, w>> \in {v \in Scored \X All : v[2] \in Active(v[1]) /\ Trusted(v[2], v[1])}
            BY <2>2 DEF Active
        <3>2. [pair |-> q, by |-> w] \in applied'
            BY <3>1 DEF Apply
        <3> QED
            BY <3>2, <2>1
    <2>3. CASE ~Trusted(w, q)
        BY <2>3 DEF Apply
    <2> QED
        BY <2>2, <2>3
<1> QED
    BY <1>1, <1>2

\* A correction is accounted for.
Accounted(u) ==
    \/ Reported(u.pair)
    \/ /\ Anchorable(u)
       /\ \A q \in Scored : CountsFor(u, q) =>
              Reported(q) \/ \E a \in applied :
                  a.pair = q /\ a.by.correction.at >= u.correction.at

\* NothingDropsSilently, and what has been read was read of stored pairs.
DropInv ==
    phase = "enqueue" => \A u \in seen : u.pair \in Pair /\ Accounted(u)

LEMMA NothingDropped ==
    ASSUME Types, DropInv, [Next]_vars
    PROVE  DropInv'
<1>1. CASE Apply
    <2>1. frame' = frame /\ seen' = All /\ todo' = stale'
        BY <1>1 DEF Apply
    <2>2. \A p \in stale' : Reported(p)'
        BY <2>1 DEF Reported
    <2>3. /\ Scored' = Scored
          /\ \A u : Anchorable(u)' = Anchorable(u)
          /\ \A u, q : CountsFor(u, q)' = CountsFor(u, q)
        BY <2>1 DEF Scored, Anchorable, CountsFor, Present, RowsOf
    <2>4. ASSUME NEW u \in All
          PROVE  u.pair \in Pair /\ Accounted(u)'
        <3>1. \/ u.pair \in stale'
              \/ /\ Anchorable(u)
                 /\ \A q \in Scored : CountsFor(u, q) =>
                        q \in stale' \/ \E a \in applied' :
                            a.pair = q /\ a.by.correction.at >= u.correction.at
            BY <1>1, ApplyAccounts
        <3>2. u.pair \in Pair
            BY AllTyped DEF Stored
        <3> QED
            BY <2>2, <2>3, <3>1, <3>2 DEF Accounted
    <2> QED
        BY <2>1, <2>4 DEF DropInv
<1>2. CASE ~Apply
    <2> SUFFICES ASSUME phase' = "enqueue" PROVE DropInv'
        BY DEF DropInv
    <2>1. /\ phase = "enqueue" /\ frame' = frame
          /\ seen' = seen /\ stale' = stale /\ applied' = applied
          /\ \A p \in Pair : Reported(p) => Reported(p)'
        BY <1>2, ResultsStand
    <2>2. /\ Scored' = Scored /\ Scored \subseteq Pair
          /\ \A u : Anchorable(u)' = Anchorable(u)
          /\ \A u, q : CountsFor(u, q)' = CountsFor(u, q)
        BY <2>1 DEF Scored, Anchorable, CountsFor, Present, RowsOf
    <2>3. ASSUME NEW u \in seen PROVE u.pair \in Pair /\ Accounted(u)'
        <3>1. u.pair \in Pair /\ Accounted(u)
            BY <2>1 DEF DropInv
        <3> QED
            BY <2>1, <2>2, <3>1 DEF Accounted
    <2> QED
        BY <2>1, <2>3 DEF DropInv
<1> QED
    BY <1>1, <1>2

----------------------------------------------------------------------------
(* Theorems. *)

LEMMA TypesStep ==
    ASSUME Types, [Next]_vars
    PROVE  Types'
BY DecideTypes, SubmitTypes, WriteTypes, RunTypes, OtherTypes DEF Next, Other, Run, Closes

LEMMA InitRest ==
    ASSUME Init
    PROVE  DecidedInv /\ FreshInv /\ DropInv
<1>1. Stored = {} /\ All = {}
    BY DEF Init, Stored, All
<1> QED
    BY <1>1 DEF Init, DecidedInv, FreshInv, DropInv, Decision

LEMMA TypesHold == Spec => []Types
<1> QED
    BY InitTypes, TypesStep, PTL DEF Spec

(* On PostgreSQL a decided pair keeps a person's correction however many      *)
(* agents and people write at once and however often it is queued again: what *)
(* MemoryStore.add_correction's single statement gives.                       *)
THEOREM DecidedStays == Spec => []DecidedIsRemembered
<1>1. Init => DecidedInv
    BY InitRest
<1>2. DecidedInv => DecidedIsRemembered
    BY DEF DecidedInv, DecidedIsRemembered
<1> QED
    BY <1>1, <1>2, TypesHold, DecidedStep, PTL DEF Spec

(* has_new_corrections overlooks nothing that was stored and dated outside a  *)
(* learning pass, for any number of clients and any order of their writes.    *)
THEOREM FreshIsNoticed == Spec => []FreshIsSeen
<1>1. Init => FreshInv
    BY InitRest
<1> QED
    BY <1>1, TypesHold, FreshStep, FreshEnough, PTL DEF Spec

(* apply_corrections accounts for every correction it reads, whatever the     *)
(* frames and however many corrections end on the same rows, and what cannot  *)
(* be applied is in the queue, or about to be, whatever is decided meanwhile. *)
THEOREM NothingIsDropped == Spec => []NothingDropsSilently
<1>1. Init => DropInv
    BY InitRest
<1>2. DropInv => NothingDropsSilently
    BY DEF DropInv, Accounted, NothingDropsSilently
<1> QED
    BY <1>1, <1>2, TypesHold, NothingDropped, PTL DEF Spec
=============================================================================
