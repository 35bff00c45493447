----------------------------- MODULE AuditChain -----------------------------
(***************************************************************************)
(* The tamper-evident audit log (identity/audit.py): writers append events *)
(* inside transactions, sealers anchor the log with a chain of seals, and  *)
(* verify_audit_chain replays the log against them.                        *)
(*                                                                         *)
(* SHA-256 is taken as collision free: the hash of an event's content is   *)
(* that content, and the left fold of hashes is the sequence of them.  The *)
(* constant CommitOrdered tells the backends apart.  SQLite has one writer *)
(* at a time and takes an event id back when its transaction rolls back;   *)
(* on Postgres ids come from a sequence, so that transactions may commit   *)
(* in another order than that of their ids.                                *)
(***************************************************************************)
EXTENDS Integers, Sequences, FiniteSets

CONSTANTS
    Writer, Sealer,
    Dataset,         \* datasets events belong to
    Global,          \* the scope of the chain over every dataset
    Body,            \* what an event says, its dataset aside
    CommitOrdered,   \* TRUE for SQLite, FALSE for Postgres
    LegacyUpTo,      \* events up to this id are older than entry_hash and have none
    MaxEvents,       \* bound: event ids
    MaxSeals,        \* bound: calls of seal_audit_log
    MaxTampers       \* bound: intrusions behind the store's back

ASSUME AuditAssumption ==
    /\ Global \notin Dataset
    /\ CommitOrdered \in BOOLEAN /\ LegacyUpTo \in Nat
    /\ MaxEvents \in Nat /\ MaxSeals \in Nat /\ MaxTampers \in Nat

Scope == Dataset \cup {Global}
Content == [ds : Dataset, body : Body]
NoHash == [ds |-> Global]
EventId == 1 .. MaxEvents
Event == [id : EventId, content : Content, hash : Content \cup {NoHash}]
Seal == [scope : Scope, root : Seq(Content), count : Nat, last : EventId]

VARIABLES
    log,      \* committed events
    open,     \* open[w]: events of w's transaction
    nextId,
    seals,    \* audit_seals in seal_id order
    pc, scope, prev, draft,  \* a sealer's call: what it chains on, what it adds
    before,   \* history: the events committed when the call began
    covered,  \* history: what each seal's root stands for
    tampers

writeVars == <<log, open, nextId>>
callVars == <<pc, scope, prev, draft, before>>
vars == <<log, open, nextId, seals, pc, scope, prev, draft, before, covered, tampers>>

Init ==
    /\ log = {}
    /\ open = [w \in Writer |-> {}]
    /\ nextId = 1
    /\ seals = <<>> /\ covered = <<>>
    /\ pc = [s \in Sealer |-> "idle"]
    /\ scope = [s \in Sealer |-> Global]
    /\ prev = [s \in Sealer |-> 0]
    /\ draft = [s \in Sealer |-> {}]
    /\ before = [s \in Sealer |-> {}]
    /\ tampers = 0

----------------------------------------------------------------------------
(* Reading the log. *)

\* export_audit_log(dataset): the global scope filters nothing.
Exported(es, sc) == {e \in es : sc = Global \/ e.content.ds = sc}

Effective(e) == IF e.hash # NoHash THEN e.hash ELSE e.content

Said(es) == {<<e.id, Effective(e)>> : e \in es}

\* What a set of <<id, content>> says, in id order.  Ids are not hashed: rows
\* renumbered in their order say the same.
Story(said) ==
    LET nth(i) == CHOOSE e \in said : Cardinality({f \in said : f[1] <= e[1]}) = i
    IN [i \in 1 .. Cardinality(said) |-> nth(i)[2]]

\* The chained root over events in id order.
Fold(es) == Story(Said(es))

UpTo(es, id) == {e \in es : e.id <= id}

\* list_seals and latest_seal: seal ids are indexes, 0 for no seal.
SealsOf(sc) == {i \in DOMAIN seals : seals[i].scope = sc}
LatestSeal(sc) ==
    IF SealsOf(sc) = {} THEN 0 ELSE CHOOSE i \in SealsOf(sc) : \A j \in SealsOf(sc) : j <= i

LastId(i) == IF i = 0 THEN 0 ELSE seals[i].last
RootOf(i) == IF i = 0 THEN <<>> ELSE seals[i].root
CountOf(i) == IF i = 0 THEN 0 ELSE seals[i].count

----------------------------------------------------------------------------
(* verify_audit_chain. *)

ContentMismatches(sc) ==
    {e.id : e \in {f \in Exported(log, sc) : f.hash # NoHash /\ f.hash # f.content}}

\* The pass visits seals in the order of their boundary events and waits at
\* one whose boundary it never meets: that seal and all after it are missing.
MissingSealed(sc) ==
    {i \in SealsOf(sc) : \E j \in SealsOf(sc) :
        /\ seals[j].last <= seals[i].last
        /\ \A e \in Exported(log, sc) : e.id # seals[j].last}

SealMismatches(sc) ==
    {i \in SealsOf(sc) \ MissingSealed(sc) :
        LET sealed == UpTo(Exported(log, sc), seals[i].last)
        IN Fold(sealed) # seals[i].root \/ Cardinality(sealed) # seals[i].count}

\* Mutant: the stored hashes are trusted.
VerifyOkTrusting(sc) == SealMismatches(sc) = {} /\ MissingSealed(sc) = {}

VerifyOk(sc) ==
    ContentMismatches(sc) = {} /\ SealMismatches(sc) = {} /\ MissingSealed(sc) = {}

----------------------------------------------------------------------------
(* Writers. *)

\* Nobody but w has an open transaction: SQLite's write lock.
Alone(w) == CommitOrdered => \A v \in Writer \ {w} : open[v] = {}

EmitEvent(w) ==
    /\ nextId <= MaxEvents
    /\ Alone(w)
    /\ \E c \in Content :
        open' = [open EXCEPT ![w] = @ \cup
            {[id |-> nextId, content |-> c,
              hash |-> IF nextId <= LegacyUpTo THEN NoHash ELSE c]}]
    /\ nextId' = nextId + 1
    /\ UNCHANGED <<log, seals, callVars, covered, tampers>>

CommitTx(w) ==
    /\ open[w] # {}
    /\ log' = log \cup open[w]
    /\ open' = [open EXCEPT ![w] = {}]
    /\ UNCHANGED <<nextId, seals, callVars, covered, tampers>>

RollbackTx(w) ==
    /\ open[w] # {}
    /\ open' = [open EXCEPT ![w] = {}]
    /\ nextId' = IF CommitOrdered THEN nextId - Cardinality(open[w]) ELSE nextId
    /\ UNCHANGED <<log, seals, callVars, covered, tampers>>

----------------------------------------------------------------------------
(* seal_audit_log: two reads and an insert, none of them in one transaction. *)

Calling == {s \in Sealer : pc[s] # "idle"}

ReadLatestSeal(s) ==
    /\ pc[s] = "idle"
    /\ Len(seals) + Cardinality(Calling) < MaxSeals
    /\ \E sc \in Scope :
        /\ scope' = [scope EXCEPT ![s] = sc]
        /\ prev' = [prev EXCEPT ![s] = LatestSeal(sc)]
    /\ before' = [before EXCEPT ![s] = log]
    /\ pc' = [pc EXCEPT ![s] = "export"]
    /\ UNCHANGED <<writeVars, seals, draft, covered, tampers>>

\* Mutants: an event skipped, or sealed twice, at the boundary.
NewEventsSkipping(s) == {e \in Exported(log, scope[s]) : e.id > LastId(prev[s]) + 1}
NewEventsTwice(s) == {e \in Exported(log, scope[s]) : e.id >= LastId(prev[s])}

\* What the log holds beyond the boundary of the seal just read.
NewEvents(s) == {e \in Exported(log, scope[s]) : e.id > LastId(prev[s])}

\* Mutant: the boundary is recorded as the first id not sealed.
SealOfExclusive(s) ==
    LET es == NewEvents(s)
    IN [scope |-> scope[s], root |-> RootOf(prev[s]) \o Fold(es),
        count |-> CountOf(prev[s]) + Cardinality(es),
        last  |-> (CHOOSE e \in es : \A f \in es : f.id <= e.id).id + 1]

\* The root chains onto the previous seal's, so only new events are folded.
SealOf(s) ==
    LET es == NewEvents(s)
    IN [scope |-> scope[s],
        root  |-> RootOf(prev[s]) \o Fold(es),
        count |-> CountOf(prev[s]) + Cardinality(es),
        last  |-> (CHOOSE e \in es : \A f \in es : f.id <= e.id).id]

\* What a seal's root stands for: its predecessor's events and its own.
Anchored(s) ==
    (IF prev[s] = 0 THEN {} ELSE covered[prev[s]]) \cup Said(NewEvents(s))

ExportNewEvents(s) ==
    /\ pc[s] = "export"
    /\ IF NewEvents(s) = {}
       THEN /\ pc' = [pc EXCEPT ![s] = "return"]
            /\ UNCHANGED draft
       ELSE /\ pc' = [pc EXCEPT ![s] = "insert"]
            /\ draft' = [draft EXCEPT ![s] = {[seal |-> SealOf(s), says |-> Anchored(s)]}]
    /\ UNCHANGED <<writeVars, seals, scope, prev, before, covered, tampers>>

AddSeal(s) ==
    /\ pc[s] = "insert"
    /\ CommitOrdered => \A w \in Writer : open[w] = {}
    /\ \E d \in draft[s] :
        /\ seals' = Append(seals, d.seal)
        /\ covered' = Append(covered, d.says)
    /\ pc' = [pc EXCEPT ![s] = "return"]
    /\ draft' = [draft EXCEPT ![s] = {}]
    /\ UNCHANGED <<writeVars, scope, prev, before, tampers>>

Return(s) ==
    /\ pc[s] = "return"
    /\ pc' = [pc EXCEPT ![s] = "idle"]
    /\ scope' = [scope EXCEPT ![s] = Global]
    /\ prev' = [prev EXCEPT ![s] = 0]
    /\ before' = [before EXCEPT ![s] = {}]
    /\ UNCHANGED <<writeVars, seals, draft, covered, tampers>>

----------------------------------------------------------------------------
(* The environment: the rows of identity_events are rewritten behind the    *)
(* store's back, any number of them at once: contents changed, the stored   *)
(* hash kept, recomputed or cleared, rows deleted, rows put in free ids.    *)
(* It happens between calls of seal_audit_log: between the export of one    *)
(* and its insert, which reads nothing, it would look as if it came after.  *)

InTransaction == {e.id : e \in UNION {open[w] : w \in Writer}}

Tamper ==
    /\ tampers < MaxTampers
    /\ seals # <<>> /\ Calling = {}
    /\ tampers' = tampers + 1
    /\ \E ids \in SUBSET ((1 .. nextId - 1) \ InTransaction) :
       \E c \in [ids -> Content], h \in [ids -> Content \cup {NoHash}] :
          log' = {[id |-> i, content |-> c[i], hash |-> h[i]] : i \in ids}
    /\ UNCHANGED <<open, nextId, seals, callVars, covered>>

\* The bounds are reached, every transaction is closed and every call returned.
Done ==
    /\ \A w \in Writer : open[w] = {}
    /\ Calling = {}
    /\ UNCHANGED vars

Next ==
    \/ \E w \in Writer : EmitEvent(w) \/ CommitTx(w) \/ RollbackTx(w)
    \/ \E s \in Sealer : ReadLatestSeal(s) \/ ExportNewEvents(s) \/ AddSeal(s) \/ Return(s)
    \/ Tamper
    \/ Done

Spec == Init /\ [][Next]_vars

----------------------------------------------------------------------------
(* Properties. *)

\* Every variable has its type.
TypeOK ==
    /\ log \subseteq Event
    /\ open \in [Writer -> SUBSET Event]
    /\ nextId \in 1 .. MaxEvents + 1
    /\ seals \in Seq(Seal) /\ Len(covered) = Len(seals)
    /\ pc \in [Sealer -> {"idle", "export", "insert", "return"}]
    /\ scope \in [Sealer -> Scope]
    /\ prev \in [Sealer -> 0 .. Len(seals)]
    /\ \A s \in Sealer : \A d \in draft[s] : d.seal \in Seal
    /\ before \in [Sealer -> SUBSET Event]
    /\ tampers \in 0 .. MaxTampers

\* No false alarm: while nobody has touched the rows, verify_audit_chain finds
\* the log intact in every scope, however sealers and transactions interleave
\* and although seals may be inserted in another order than they were read.
HonestLogVerifies == tampers = 0 => \A sc \in Scope : VerifyOk(sc)

\* What the log says in a scope up to an event, hashes aside.
Contents(sc, last) == {<<e.id, e.content>> : e \in UpTo(Exported(log, sc), last)}

\* No silent change: once what a seal anchored reads differently, an event of it
\* edited (its hash recomputed or not), deleted, reordered, or another put among
\* them, verify_audit_chain says so.
SealedLogIsProtected ==
    \A i \in DOMAIN seals :
        Story(Contents(seals[i].scope, seals[i].last)) # Story(covered[i])
            => ~VerifyOk(seals[i].scope)

\* When seal_audit_log returns, every event that was committed when it began
\* lies within some seal of its scope, whichever sealer's.
SealCovers ==
    tampers = 0 => \A s \in Sealer : pc[s] = "return" =>
        \A e \in Exported(before[s], scope[s]) :
            \E i \in SealsOf(scope[s]) : <<e.id, e.content>> \in covered[i]
=============================================================================
