------------------------ MODULE IdentityBatchProofs ------------------------
(***************************************************************************)
(* What the batches, the stabilization passes and the mediated conflicts   *)
(* of one client achieve, after any history of calls of every kind, those  *)
(* that failed included.                                                   *)
(***************************************************************************)
EXTENDS IdentityGraphProofs, FiniteSetTheorems

----------------------------------------------------------------------------
(* The deterministic merge. *)

\* The component of an element of a link is that of every other one.
LEMMA ComponentOfLink ==
    ASSUME NEW links, NEW l \in links, NEW e \in l, NEW f \in l
    PROVE  ComponentOf(e, links) = ComponentOf(f, links)
<1>1. ASSUME NEW es \in SUBSET Entity, Closed(es, links) PROVE e \in es <=> f \in es
    BY <1>1 DEF Closed
<1> QED BY <1>1 DEF ComponentOf

LEMMA HoldersFinite ==
    ASSUME NEW g \in Graph, NEW k
    PROVE  /\ Holders(g, k) \subseteq Entity
           /\ IsFiniteSet(Holders(g, k)) /\ Cardinality(Holders(g, k)) \in Nat
           /\ Cardinality(Holders(g, k)) <= 1 <=> \A e, f \in Holders(g, k) : e = f
<1> DEFINE H == Holders(g, k)
<1>1. H \subseteq Entity
    BY DEF Holders, Graph, EntityOrNone, NoEntity, Entity
<1>2. IsFiniteSet(Entity)
    BY MaxEntityAssumption, FS_Interval DEF Entity
<1>3. IsFiniteSet(H)
    BY <1>1, <1>2, FS_Subset
<1> HIDE DEF H
<1>4. Cardinality(H) \in Nat
    BY <1>3, FS_CardinalityType
<1>5. ASSUME \A e, f \in H : e = f PROVE Cardinality(H) <= 1
    <2>1. ASSUME H = {} PROVE Cardinality(H) <= 1
        <3>1. Cardinality({}) = 0
            BY FS_EmptySet
        <3> QED BY <2>1, <3>1
    <2>2. ASSUME NEW e \in H PROVE Cardinality(H) <= 1
        <3>1. H = {e}
            BY <1>5
        <3>2. Cardinality({e}) = 1
            BY FS_Singleton
        <3> QED BY <3>1, <3>2
    <2> QED BY <2>1, <2>2
<1>6. ASSUME Cardinality(H) <= 1, NEW e \in H, NEW f \in H PROVE e = f
    <2>1. Cardinality(H) = 0 \/ Cardinality(H) = 1
        BY <1>4, <1>6
    <2>2. H # {}
        OBVIOUS
    <2>3. Cardinality(H) = 1
        BY <1>3, <2>1, <2>2, FS_EmptySet
    <2>4. \E x : H = {x}
        BY <1>3, <2>3, FS_Singleton
    <2> QED BY <2>4
<1>7. Cardinality(H) <= 1 <=> \A e, f \in H : e = f
    BY <1>5, <1>6
<1> QED BY <1>1, <1>3, <1>4, <1>7 DEF H

\* The holders of an id that is no placeholder are sent to one entity.
LEMMA RemapUnifies ==
    ASSUME NEW g \in Graph, NEW r \in Record, KeyOf[r] # 0,
           Cardinality(Holders(g, KeyOf[r])) <= MaxGroup,
           NEW e \in Holders(g, KeyOf[r]), NEW f \in Holders(g, KeyOf[r])
    PROVE  SharedKeyRemap(g)[e] = SharedKeyRemap(g)[f]
<1> DEFINE H == Holders(g, KeyOf[r])
           links == SharedKeyLinks(g)
           smallest(x) == CHOOSE y \in ComponentOf(x, links) :
                              \A h \in ComponentOf(x, links) : y <= h
<1>1. CASE e = f
    BY <1>1
<1>2. CASE e # f
    <2>1. Cardinality(H) \in Nat /\ ~(Cardinality(H) <= 1)
        BY <1>2, HoldersFinite
    <2>2. Cardinality(H) \in 2 .. MaxGroup
        BY <2>1
    <2>3. H \in links
        BY <2>2 DEF SharedKeyLinks
    <2>4. ComponentOf(e, links) = ComponentOf(f, links)
        BY <2>3, ComponentOfLink
    <2>5. SharedKeyRemap(g) = [x \in Entity |-> smallest(x)]
        BY DEF SharedKeyRemap
    <2>6. smallest(e) = smallest(f)
        BY <2>4
    <2>7. e \in Entity /\ f \in Entity
        BY HoldersFinite
    <2> HIDE DEF smallest
    <2> QED BY <2>5, <2>6, <2>7
<1> QED BY <1>1, <1>2

\* The updates of the merge move an id to what its holders are sent to.
LEMMA RemapHolders ==
    ASSUME NEW g \in Graph, NEW remap \in [Entity -> Entity], NEW k
    PROVE  \A h \in Holders(RemapEntities(g, remap), k) :
               \E e \in Holders(g, k) : h = remap[e]
<1> DEFINE n == RemapEntities(g, remap)
<1>1. \A r \in Record : n.owner[r] = IF g.owner[r] = NoEntity THEN NoEntity ELSE remap[g.owner[r]]
    BY DEF RemapEntities, Graph
<1>2. \A r \in Record : n.owner[r] # NoEntity => g.owner[r] # NoEntity
    BY <1>1
<1> HIDE DEF n
<1> QED BY <1>1, <1>2 DEF Holders, n

\* A failure there is swallowed, and undoes the updates.
LEMMA MergeFailure ==
    ASSUME NEW p, DetMergeFails(p)
    PROVE  /\ pc[p] \in {"detread", "detwrite"} /\ todo[p] = <<>>
           /\ Continue(p, "return", <<>>, local[p])
           /\ UNCHANGED storeVars /\ minted' = minted /\ calls' = calls
           /\ fails' = fails + 1 /\ fails < MaxFails
BY DEF DetMergeFails, At

\* Between the SELECT and the updates nothing changes.
KeyInv ==
    \A p \in Client : pc[p] = "detwrite" =>
        todo[p] = <<>> /\ local[p].remap = SharedKeyRemap(durable)

LEMMA KeyNext ==
    ASSUME BaseInv, OneClient, KeyInv, [Next]_vars
    PROVE  KeyInv'
<1>1. ASSUME NEW p \in Client, NEW next, NEW prog, NEW l, Continue(p, next, prog, l),
             next # "detwrite"
      PROVE  KeyInv'
    BY <1>1, AloneReads DEF KeyInv
<1>2. ASSUME NEW p \in Client, Invoke(p) PROVE KeyInv'
    <2>1. PICK first \in {"lookup", "check", "split", "target", "find", "scan"} :
            \E l : Begin(p, first, l)
        BY <1>2, InvokeFresh
    <2>2. PICK l : Begin(p, first, l)
        BY <2>1
    <2> QED BY <1>1, <2>1, <2>2 DEF Begin
<1>3. ASSUME NEW p \in Client, Write(p) PROVE KeyInv'
    <2>1. pc' = pc /\ local' = local /\ todo[p] # <<>>
        BY <1>3, AloneWrites DEF Then
    <2> QED BY <2>1 DEF KeyInv, OneClient
<1>4. ASSUME NEW p \in Client, DetMergeRead(p) PROVE KeyInv'
    <2> DEFINE remap == SharedKeyRemap(View(p))
               next == IF \A e \in Entity : remap[e] = e THEN "return" ELSE "detwrite"
               l == [local[p] EXCEPT !.remap = remap]
    <2>1. Continue(p, next, <<>>, l) /\ UNCHANGED storeVars /\ pc[p] # "loop"
        BY <1>4 DEF DetMergeRead, At
    <2>2. View(p) = durable /\ durable' = durable
        BY <2>1, AloneSees DEF storeVars
    <2>3. local[p] \in Local
        BY LocalFields DEF BaseInv, IInv, AgreeingLocal
    <2>4. l.remap = remap
        BY <2>3 DEF Local
    <2> HIDE DEF l, next
    <2>5. ASSUME NEW q \in Client PROVE todo'[q] = <<>> /\ local'[q].remap = SharedKeyRemap(durable')
        BY <2>1, <2>2, <2>4, AloneReads
    <2> QED BY <2>5 DEF KeyInv
<1>5. ASSUME NEW p \in Client, Read(p), ~DetMergeRead(p) PROVE KeyInv'
    <2>1. \E next \in PC \ {"detwrite"} : \E prog, l : Continue(p, next, prog, l)
        BY <1>5 DEF Read, ResolveLookup, ResolveNodes, ResolveSkip, ResolveAccumulate,
            ResolveCreate, ResolveAbsorb, ResolveMerge, Resolve, ResolveFinish, DetMergeWrite,
            MergeCheck, MergeCheckOther, MergeRecords, GiveUp, SplitCheck, ClaimTarget, ClaimRecord, MediateFind, MediateFindOther, Rule,
            MediateAct, StabilizeScan, StabilizeGroup, StabilizeLoser, StabilizeNext, PC
    <2> QED BY <1>1, <2>1
<1>6. ASSUME NEW p \in Client, DetMergeFails(p) \/ Return(p) \/ Fail(p) PROVE KeyInv'
    BY <1>1, <1>6, MergeFailure DEF Return, Fail
<1>7. CASE UNCHANGED vars
    BY <1>7 DEF vars, KeyInv
<1> QED BY <1>2, <1>3, <1>4, <1>5, <1>6, <1>7 DEF Next, Step, Done

\* The step that ends the deterministic merge.
KeysUnifyStep ==
    \A p \in Client :
        pc[p] \in {"detread", "detwrite"} /\ pc'[p] = "return" /\ fails' = fails =>
            \A r \in Record :
                (KeyOf[r] # 0 /\ Cardinality(Holders(durable, KeyOf[r])) <= MaxGroup)
                    => Cardinality(Holders(durable', KeyOf[r])) <= 1

\* Nothing was to be merged.
LEMMA NothingToMerge ==
    ASSUME NEW g \in Graph, \A e \in Entity : SharedKeyRemap(g)[e] = e,
           NEW r \in Record, KeyOf[r] # 0, Cardinality(Holders(g, KeyOf[r])) <= MaxGroup
    PROVE  Cardinality(Holders(g, KeyOf[r])) <= 1
<1>1. ASSUME NEW e \in Holders(g, KeyOf[r]), NEW f \in Holders(g, KeyOf[r]) PROVE e = f
    BY RemapUnifies, HoldersFinite
<1> QED BY <1>1, HoldersFinite

LEMMA Merged ==
    ASSUME NEW g \in Graph, NEW r \in Record, KeyOf[r] # 0,
           Cardinality(Holders(g, KeyOf[r])) <= MaxGroup
    PROVE  Cardinality(Holders(RemapEntities(g, SharedKeyRemap(g)), KeyOf[r])) <= 1
<1> DEFINE remap == SharedKeyRemap(g)
           n == RemapEntities(g, remap)
<1>1. remap \in [Entity -> Entity] /\ n \in Graph
    BY SharedKeyRemapType, RemapEntitiesType
<1>2. ASSUME NEW e \in Holders(n, KeyOf[r]), NEW f \in Holders(n, KeyOf[r]) PROVE e = f
    <2>1. PICK d \in Holders(g, KeyOf[r]) : e = remap[d]
        BY <1>1, RemapHolders
    <2>2. PICK c \in Holders(g, KeyOf[r]) : f = remap[c]
        BY <1>1, RemapHolders
    <2> QED BY <2>1, <2>2, RemapUnifies
<1> HIDE DEF n
<1> QED BY <1>1, <1>2, HoldersFinite DEF n

LEMMA KeysUnifyNext ==
    ASSUME BaseInv, OneClient, KeyInv, [Next]_vars
    PROVE  KeysUnifyStep
<1> SUFFICES ASSUME NEW p \in Client, pc[p] \in {"detread", "detwrite"}, pc'[p] = "return",
                    fails' = fails, NEW r \in Record, KeyOf[r] # 0,
                    Cardinality(Holders(durable, KeyOf[r])) <= MaxGroup
             PROVE  Cardinality(Holders(durable', KeyOf[r])) <= 1
    BY DEF KeysUnifyStep
<1>1. durable \in Graph
    BY DEF BaseInv, IInv, StoreInv, AgreeingGraph
<1>2. View(p) = durable
    BY AloneSees
<1>3. CASE DetMergeRead(p)
    <2> DEFINE remap == SharedKeyRemap(View(p))
               next == IF \A e \in Entity : remap[e] = e THEN "return" ELSE "detwrite"
    <2>1. PICK l : Continue(p, next, <<>>, l) /\ durable' = durable
        BY <1>3 DEF DetMergeRead, storeVars
    <2>2. pc'[p] = next
        BY <2>1, AloneReads
    <2>3. \A e \in Entity : remap[e] = e
        BY <2>2
    <2> QED BY <1>1, <1>2, <2>1, <2>3, NothingToMerge
<1>4. CASE DetMergeWrite(p)
    <2>1. Exec(p, RemapEntities(durable, local[p].remap)) /\ ~InBulk(p) /\ pc[p] = "detwrite"
        BY <1>2, <1>4 DEF DetMergeWrite, At, InBulk
    <2>2. durable' = RemapEntities(durable, SharedKeyRemap(durable))
        BY <2>1 DEF Exec, Commit, KeyInv
    <2> QED BY <1>1, <2>2, Merged
<1>5. DetMergeRead(p) \/ DetMergeWrite(p)
    <2>1. ASSUME NEW q \in Client, Invoke(q) PROVE FALSE
        <3>1. PICK first, l : Begin(q, first, l)
            BY <2>1, InvokeFresh
        <3>2. pc[q] = "idle"
            BY <3>1 DEF Begin, At
        <3> QED BY <3>2 DEF OneClient
    <2>2. ASSUME NEW q \in Client, Write(q) PROVE FALSE
        <3>1. pc' = pc
            BY <2>2, AloneWrites DEF Then
        <3> QED BY <3>1
    <2>3. ASSUME NEW q \in Client, Return(q) \/ Fail(q) PROVE FALSE
        <3>1. PICK l : Continue(q, "idle", <<>>, l)
            BY <2>3 DEF Return, Fail
        <3> QED BY <3>1, AloneReads
    <2>4. ~UNCHANGED vars /\ \A q \in Client : ~DetMergeFails(q)
        BY MergeFailure DEF vars, BaseInv, IInv, BoundInv
    <2>5. PICK q \in Client : Read(q)
        BY <2>1, <2>2, <2>3, <2>4 DEF Next, Step, Done
    <2>6. q = p
        BY DEF OneClient
    <2>7. pc[q] \in {"detread", "detwrite"}
        BY <2>6
    <2> QED BY <2>5, <2>6, <2>7 DEF Read, ResolveLookup, ResolveNodes, ResolveSkip,
            ResolveAccumulate, ResolveCreate, ResolveAbsorb, ResolveMerge, ResolveFinish,
            AtCluster, MergeCheck, MergeCheckOther, MergeRecords, SplitCheck, ClaimTarget, ClaimRecord,
            MediateFind, MediateFindOther, Rule, MediateAct, StabilizeScan, StabilizeGroup, StabilizeLoser,
            StabilizeNext, At
<1> QED BY <1>3, <1>4, <1>5

\* merge_by_shared_field leaves every id that is no placeholder with one entity,
\* after any history of batches, steward calls and failures of one client.
THEOREM KeysAlwaysUnify ==
    ASSUME OneClient
    PROVE  Spec => KeysUnify
<1>1. Init => BaseInv /\ KeyInv
    BY InitBase DEF Init, KeyInv
<1>2. BaseInv /\ KeyInv /\ [Next]_vars => BaseInv' /\ KeyInv' /\ [KeysUnifyStep]_vars
    BY NextBase, KeyNext, KeysUnifyNext
<1>3. Spec => [][KeysUnifyStep]_vars
    BY <1>1, <1>2, PTL DEF Spec
<1> QED BY <1>3 DEF KeysUnify, KeysUnifyStep

----------------------------------------------------------------------------
(* The progress of a batch. *)

\* What is left of a batch is its end.
Suffix(left, clusters) ==
    /\ Len(left) <= Len(clusters)
    /\ \A i \in DOMAIN left : left[i] = clusters[i + (Len(clusters) - Len(left))]

\* A batch goes through its clusters in order, shares no record between them,
\* and has written all there was to write where it goes on to the next stage.
Progress(next, l, prog) ==
    /\ next \in BatchPC => l.op = "resolve"
    /\ l.op = "resolve" =>
          /\ next \in BatchPC \cup {"return"}
          /\ Suffix(l.left, l.clusters)
          /\ Partitioned(l.clusters)
          /\ next \in {"lookup", "nodes"} => prog = <<>> /\ l.left = l.clusters /\ l.rows = {}
          /\ next \in {"detread", "detwrite", "return"} => prog = <<>> /\ l.left = <<>> /\ l.rows = {}
ProgressInv == \A p \in Client : Progress(pc[p], local[p], todo[p])

LEMMA SuffixAll ==
    ASSUME NEW clusters \in Seq(Cluster)
    PROVE  Suffix(clusters, clusters)
BY DEF Suffix

LEMMA SuffixTail ==
    ASSUME NEW left \in Seq(Cluster), NEW clusters \in Seq(Cluster), left # <<>>,
           Suffix(left, clusters)
    PROVE  /\ Suffix(Tail(left), clusters) /\ Len(Tail(left)) = Len(left) - 1
           /\ Len(left) \in Nat /\ Len(left) > 0 /\ Len(clusters) \in Nat
           /\ Head(left) = clusters[(Len(clusters) - Len(left)) + 1]
<1>1. /\ Tail(left) \in Seq(Cluster) /\ Len(Tail(left)) = Len(left) - 1
      /\ Head(left) = left[1] /\ Len(left) \in Nat \ {0} /\ Len(clusters) \in Nat
      /\ \A i \in 1 .. Len(left) - 1 : Tail(left)[i] = left[i + 1]
    BY HeadTailProperties, LenProperties, EmptySeq
<1>2. DOMAIN left = 1 .. Len(left) /\ DOMAIN Tail(left) = 1 .. Len(left) - 1
    BY <1>1, LenProperties
<1>3. Head(left) = clusters[1 + (Len(clusters) - Len(left))]
    BY <1>1, <1>2 DEF Suffix
<1>4. ASSUME NEW i \in DOMAIN Tail(left)
      PROVE  Tail(left)[i] = clusters[i + (Len(clusters) - Len(Tail(left)))]
    <2>1. i + 1 \in DOMAIN left /\ Tail(left)[i] = left[i + 1]
        BY <1>1, <1>2
    <2>2. left[i + 1] = clusters[(i + 1) + (Len(clusters) - Len(left))]
        BY <2>1 DEF Suffix
    <2>3. (i + 1) + (Len(clusters) - Len(left)) = i + (Len(clusters) - Len(Tail(left)))
        BY <1>1, <1>2
    <2> QED BY <2>1, <2>2, <2>3
<1>5. 1 + (Len(clusters) - Len(left)) = (Len(clusters) - Len(left)) + 1
    BY <1>1
<1> QED BY <1>1, <1>3, <1>4, <1>5 DEF Suffix

LEMMA InvokeBatch ==
    ASSUME NEW p, Invoke(p)
    PROVE  \E first \in {"lookup", "check", "split", "target", "find", "scan"} : \E l :
               /\ Begin(p, first, l)
               /\ \/ first # "lookup" /\ l.op # "resolve"
                  \/ /\ first = "lookup" /\ l.op = "resolve" /\ l.rows = {}
                     /\ \E b \in Batches : l.clusters = b.clusters /\ l.left = b.clusters
<1>1. PICK first \in {"lookup", "check", "split", "target", "find", "scan"} :
        \E l : Begin(p, first, l) /\ Fresh(l) /\ first = Starts[l.op] /\ Given(l)
    BY InvokeFresh
<1>2. PICK l : Begin(p, first, l) /\ Fresh(l) /\ first = Starts[l.op] /\ Given(l)
    BY <1>1
<1>3. l.op \in Op
    BY <1>2, CallsAssumption DEF Begin
<1>4. l.rows = {}
    BY <1>2 DEF Fresh, Idle
<1>5. first = "lookup" <=> l.op = "resolve"
    BY <1>2, <1>3 DEF Starts, Op
<1> QED BY <1>2, <1>4, <1>5 DEF Given

LEMMA ProgressGoesOn ==
    ASSUME BaseInv, ProgressInv, NEW p \in Client, NEW next, NEW prog, NEW l,
           Continue(p, next, prog, l), Progress(next, l, prog)
    PROVE  ProgressInv'
<1>1. ASSUME NEW q \in Client PROVE Progress(pc'[q], local'[q], todo'[q])
    <2>1. CASE q = p
        BY <2>1, ContinueStmts DEF BaseInv
    <2>2. CASE q # p
        BY <2>2, ContinueStmts DEF BaseInv, ProgressInv
    <2> QED BY <2>1, <2>2
<1> QED BY <1>1 DEF ProgressInv, Progress, Suffix, Partitioned, BatchPC

\* What steward operations and stabilization do has nothing to do with batches.
LEMMA ElsewhereReads ==
    ASSUME BaseInv, NEW p \in Client,
           \/ MergeCheck(p) \/ MergeCheckOther(p) \/ MergeRecords(p) \/ SplitCheck(p) \/ ClaimTarget(p)
           \/ ClaimRecord(p) \/ MediateFind(p) \/ MediateFindOther(p) \/ MediateAct(p)
           \/ StabilizeScan(p) \/ StabilizeGroup(p) \/ StabilizeLoser(p) \/ StabilizeNext(p)
    PROVE  /\ pc[p] \in PC \ (BatchPC \cup {"return"})
           /\ UNCHANGED storeVars
           /\ \E next \in PC \ BatchPC : \E prog, l :
                Continue(p, next, prog, l) /\ l.op \in {local[p].op, "none"}
<1>1. local[p] \in Local
    BY LocalFields DEF BaseInv, IInv, AgreeingLocal
<1>2. ASSUME NEW l, \/ l = [local[p] EXCEPT !.op = "none"]
                    \/ \E x : l = [local[p] EXCEPT !.ent = x]
                    \/ \E x : l = [local[p] EXCEPT !.others = x]
                    \/ \E x : l = [local[p] EXCEPT !.groups = x]
                    \/ \E x, y : l = [local[p] EXCEPT !.links = x, !.groups = y]
                    \/ \E x, y, z : l = [local[p] EXCEPT !.groups = x, !.ent = y, !.others = z]
      PROVE  l.op \in {local[p].op, "none"}
    BY <1>1, <1>2 DEF Local
<1>3. pc[p] \in PC \ (BatchPC \cup {"return"}) /\ UNCHANGED storeVars
    BY DEF MergeCheck, MergeCheckOther, MergeRecords, SplitCheck, ClaimTarget, ClaimRecord, MediateFind, MediateFindOther, Rule,
           MediateAct, StabilizeScan, StabilizeGroup, StabilizeLoser, StabilizeNext, At, PC, BatchPC
<1> DEFINE Goes == \E next \in PC \ BatchPC : \E prog, l :
                Continue(p, next, prog, l) /\ l.op \in {local[p].op, "none"}
<1> USE DEF PC, BatchPC
<1>4. ASSUME MergeCheck(p) \/ MergeCheckOther(p) \/ MergeRecords(p) \/ SplitCheck(p) \/ ClaimTarget(p) \/ ClaimRecord(p)
      PROVE  Goes
    BY <1>2, <1>4 DEF MergeCheck, MergeCheckOther, MergeRecords, SplitCheck, ClaimTarget, ClaimRecord, GiveUp
<1>5. ASSUME MediateFind(p) \/ MediateFindOther(p) \/ MediateAct(p) PROVE Goes
    BY <1>2, <1>5 DEF MediateFind, MediateFindOther, Rule, MediateAct
<1>6. ASSUME StabilizeScan(p) PROVE Goes
    BY <1>2, <1>6 DEF StabilizeScan
<1>7. ASSUME StabilizeGroup(p) PROVE Goes
    <2>1. PICK group, w :
            \/ Continue(p, "loser", <<>>,
                   [local[p] EXCEPT !.groups = @ \ {group}, !.ent = w, !.others = group \ {w}])
            \/ Continue(p, "group", <<>>, [local[p] EXCEPT !.groups = @ \ {group}])
        BY <1>7 DEF StabilizeGroup
    <2> QED BY <1>2, <2>1
<1>8. ASSUME StabilizeLoser(p) PROVE Goes
    <2>1. PICK loser, prog : Continue(p, "loser", prog, [local[p] EXCEPT !.others = @ \ {loser}])
        BY <1>8 DEF StabilizeLoser
    <2> QED BY <1>2, <2>1
<1>9. ASSUME StabilizeNext(p) PROVE Goes
    BY <1>9 DEF StabilizeNext
<1> QED BY <1>3, <1>4, <1>5, <1>6, <1>7, <1>8, <1>9

\* A batch's own variables.
LEMMA BatchLocal ==
    ASSUME BaseInv, NEW p \in Client
    PROVE  /\ local[p] \in Local
           /\ \A x : [local[p] EXCEPT !.found = x].left = local[p].left
                  /\ [local[p] EXCEPT !.found = x].clusters = local[p].clusters
                  /\ [local[p] EXCEPT !.found = x].rows = local[p].rows
                  /\ [local[p] EXCEPT !.found = x].op = local[p].op
           /\ \A x : [local[p] EXCEPT !.snap = x].left = local[p].left
                  /\ [local[p] EXCEPT !.snap = x].clusters = local[p].clusters
                  /\ [local[p] EXCEPT !.snap = x].rows = local[p].rows
                  /\ [local[p] EXCEPT !.snap = x].op = local[p].op
           /\ \A x : [local[p] EXCEPT !.remap = x].left = local[p].left
                  /\ [local[p] EXCEPT !.remap = x].clusters = local[p].clusters
                  /\ [local[p] EXCEPT !.remap = x].rows = local[p].rows
                  /\ [local[p] EXCEPT !.remap = x].op = local[p].op
           /\ \A x : [local[p] EXCEPT !.rows = x].left = local[p].left
                  /\ [local[p] EXCEPT !.rows = x].clusters = local[p].clusters
                  /\ [local[p] EXCEPT !.rows = x].rows = x
                  /\ [local[p] EXCEPT !.rows = x].op = local[p].op
           /\ \A x : [local[p] EXCEPT !.left = x].left = x
                  /\ [local[p] EXCEPT !.left = x].clusters = local[p].clusters
                  /\ [local[p] EXCEPT !.left = x].rows = local[p].rows
                  /\ [local[p] EXCEPT !.left = x].op = local[p].op
           /\ \A x, y : [local[p] EXCEPT !.left = x, !.rows = y].left = x
                  /\ [local[p] EXCEPT !.left = x, !.rows = y].clusters = local[p].clusters
                  /\ [local[p] EXCEPT !.left = x, !.rows = y].rows = y
                  /\ [local[p] EXCEPT !.left = x, !.rows = y].op = local[p].op
<1>1. local[p] \in Local
    BY LocalFields DEF BaseInv, IInv, AgreeingLocal
<1> QED BY <1>1 DEF Local

\* The stages of a batch before and after its clusters.
LEMMA StageReads ==
    ASSUME BaseInv, NEW p \in Client,
           \/ ResolveLookup(p) \/ ResolveNodes(p) \/ ResolveFinish(p)
           \/ DetMergeRead(p) \/ DetMergeWrite(p)
    PROVE  /\ pc[p] \in BatchPC
           /\ \E next, prog, l : Continue(p, next, prog, l) /\ l.op = local[p].op
<1>1. local[p] \in Local
    BY BatchLocal
<1>2. ASSUME NEW l, \/ l = local[p]
                    \/ \E x : l = [local[p] EXCEPT !.found = x]
                    \/ \E x : l = [local[p] EXCEPT !.snap = x]
                    \/ \E x : l = [local[p] EXCEPT !.rows = x]
                    \/ \E x : l = [local[p] EXCEPT !.remap = x]
      PROVE  l.op = local[p].op
    BY <1>1, <1>2 DEF Local
<1> DEFINE Goes(l) == \E next : Continue(p, next, <<>>, l)
<1>3. \/ Goes(local[p])
      \/ \E x : Goes([local[p] EXCEPT !.found = x])
      \/ \E x : Goes([local[p] EXCEPT !.snap = x])
      \/ \E x : Goes([local[p] EXCEPT !.rows = x])
      \/ \E x : Goes([local[p] EXCEPT !.remap = x])
    <2>1. ASSUME ResolveLookup(p) PROVE \E x : Goes([local[p] EXCEPT !.found = x])
        BY <2>1 DEF ResolveLookup
    <2>2. ASSUME ResolveNodes(p) PROVE \E x : Goes([local[p] EXCEPT !.snap = x])
        BY <2>2 DEF ResolveNodes
    <2>3. ASSUME ResolveFinish(p) PROVE \E x : Goes([local[p] EXCEPT !.rows = x])
        BY <2>3 DEF ResolveFinish
    <2>4. ASSUME DetMergeRead(p) PROVE \E x : Goes([local[p] EXCEPT !.remap = x])
        BY <2>4 DEF DetMergeRead
    <2>5. ASSUME DetMergeWrite(p) PROVE Goes(local[p])
        BY <2>5 DEF DetMergeWrite
    <2> QED BY <2>1, <2>2, <2>3, <2>4, <2>5
<1>4. \E l : Goes(l) /\ l.op = local[p].op
    BY <1>2, <1>3
<1>5. pc[p] \in BatchPC
    BY DEF ResolveLookup, ResolveNodes, ResolveFinish, DetMergeRead, DetMergeWrite, At, BatchPC
<1> QED BY <1>4, <1>5

LEMMA ProgressReads ==
    ASSUME BaseInv, ProgressInv, NEW p \in Client, Read(p)
    PROVE  ProgressInv'
<1> USE DEF BatchPC
<1>0. Progress(pc[p], local[p], todo[p]) /\ local[p].clusters \in Seq(Cluster) /\ local[p].left \in Seq(Cluster)
    BY LocalFields DEF ProgressInv, BaseInv, IInv
<1>1. ASSUME ResolveLookup(p) PROVE ProgressInv'
    <2>1. PICK x : Continue(p, "nodes", <<>>, [local[p] EXCEPT !.found = x]) /\ pc[p] = "lookup"
        BY <1>1 DEF ResolveLookup, At
    <2>2. Progress("nodes", [local[p] EXCEPT !.found = x], <<>>)
        BY <1>0, <2>1, BatchLocal DEF Progress
    <2> QED BY <2>1, <2>2, ProgressGoesOn
<1>2. ASSUME ResolveNodes(p) PROVE ProgressInv'
    <2>1. PICK x : Continue(p, "loop", <<>>, [local[p] EXCEPT !.snap = x]) /\ pc[p] = "nodes"
        BY <1>2 DEF ResolveNodes, At
    <2>2. Progress("loop", [local[p] EXCEPT !.snap = x], <<>>)
        BY <1>0, <2>1, BatchLocal DEF Progress
    <2> QED BY <2>1, <2>2, ProgressGoesOn
<1>3. ASSUME \/ ResolveSkip(p) \/ ResolveAccumulate(p) \/ ResolveCreate(p)
             \/ ResolveAbsorb(p) \/ ResolveMerge(p)
      PROVE ProgressInv'
    <2>1. pc[p] = "loop" /\ local[p].left # <<>>
        BY <1>3 DEF ResolveSkip, ResolveAccumulate, ResolveCreate, ResolveAbsorb, ResolveMerge,
                    AtCluster, At
    <2>2. PICK prog, l :
            /\ Continue(p, "loop", prog, l)
            /\ \/ l = [local[p] EXCEPT !.left = Tail(local[p].left)]
               \/ \E x : l = [local[p] EXCEPT !.left = Tail(local[p].left), !.rows = x]
        BY <1>3 DEF ResolveSkip, ResolveAccumulate, ResolveCreate, ResolveAbsorb, ResolveMerge,
                    Resolve
    <2>3. l.left = Tail(local[p].left) /\ l.clusters = local[p].clusters /\ l.op = local[p].op
        <3> DEFINE t == Tail(local[p].left)
        <3> HIDE DEF t
        <3>1. l = [local[p] EXCEPT !.left = t] \/ \E x : l = [local[p] EXCEPT !.left = t, !.rows = x]
            BY <2>2 DEF t
        <3>2. l.left = t /\ l.clusters = local[p].clusters /\ l.op = local[p].op
            <4>1. local[p] \in Local
                BY BatchLocal
            <4> QED BY <3>1, <4>1 DEF Local
        <3> QED BY <3>2 DEF t
    <2>4. Suffix(l.left, l.clusters)
        BY <1>0, <2>1, <2>3, SuffixTail DEF Progress
    <2>5. Progress("loop", l, prog)
        BY <1>0, <2>1, <2>3, <2>4 DEF Progress
    <2> QED BY <2>2, <2>5, ProgressGoesOn
<1>4. ASSUME ResolveFinish(p) PROVE ProgressInv'
    <2>1. PICK next \in {"detread", "return"} :
            Continue(p, next, <<>>, [local[p] EXCEPT !.rows = {}])
        BY <1>4 DEF ResolveFinish
    <2>2. pc[p] = "loop" /\ local[p].left = <<>>
        BY <1>4 DEF ResolveFinish, At
    <2>3. Progress(next, [local[p] EXCEPT !.rows = {}], <<>>)
        BY <1>0, <2>2, BatchLocal DEF Progress
    <2> QED BY <2>1, <2>3, ProgressGoesOn
<1>5. ASSUME DetMergeRead(p) PROVE ProgressInv'
    <2>1. PICK next \in {"return", "detwrite"} : \E x :
            Continue(p, next, <<>>, [local[p] EXCEPT !.remap = x])
        BY <1>5 DEF DetMergeRead
    <2>2. PICK x : Continue(p, next, <<>>, [local[p] EXCEPT !.remap = x])
        BY <2>1
    <2>3. pc[p] = "detread"
        BY <1>5 DEF DetMergeRead, At
    <2>4. Progress(next, [local[p] EXCEPT !.remap = x], <<>>)
        BY <1>0, <2>3, BatchLocal DEF Progress
    <2> QED BY <2>2, <2>4, ProgressGoesOn
<1>6. ASSUME DetMergeWrite(p) PROVE ProgressInv'
    <2>1. Continue(p, "return", <<>>, local[p]) /\ pc[p] = "detwrite"
        BY <1>6 DEF DetMergeWrite, At
    <2>2. Progress("return", local[p], <<>>)
        BY <1>0, <2>1 DEF Progress
    <2> QED BY <2>1, <2>2, ProgressGoesOn
<1>7. ASSUME pc[p] \notin BatchPC \cup {"return"},
             \E next \in PC \ BatchPC : \E prog, l :
                Continue(p, next, prog, l) /\ l.op \in {local[p].op, "none"}
      PROVE  ProgressInv'
    <2>1. PICK next \in PC \ BatchPC : \E prog, l :
                Continue(p, next, prog, l) /\ l.op \in {local[p].op, "none"}
        BY <1>7
    <2>2. PICK prog, l : Continue(p, next, prog, l) /\ l.op \in {local[p].op, "none"}
        BY <2>1
    <2>3. l.op # "resolve"
        BY <1>0, <1>7, <2>2 DEF Progress
    <2> QED BY <2>1, <2>2, <2>3, ProgressGoesOn DEF Progress
<1> QED BY <1>1, <1>2, <1>3, <1>4, <1>5, <1>6, <1>7, ElsewhereReads DEF Read

LEMMA ProgressNext ==
    ASSUME BaseInv, ProgressInv, [Next]_vars
    PROVE  ProgressInv'
<1>1. ASSUME NEW p \in Client, Invoke(p) PROVE ProgressInv'
    <2>1. PICK first \in {"lookup", "check", "split", "target", "find", "scan"} : \E l :
               /\ Begin(p, first, l)
               /\ \/ first # "lookup" /\ l.op # "resolve"
                  \/ /\ first = "lookup" /\ l.op = "resolve" /\ l.rows = {}
                     /\ \E b \in Batches : l.clusters = b.clusters /\ l.left = b.clusters
        BY <1>1, InvokeBatch
    <2>2. PICK l :
               /\ Begin(p, first, l)
               /\ \/ first # "lookup" /\ l.op # "resolve"
                  \/ /\ first = "lookup" /\ l.op = "resolve" /\ l.rows = {}
                     /\ \E b \in Batches : l.clusters = b.clusters /\ l.left = b.clusters
        BY <2>1
    <2>3. \A b \in Batches : b.clusters \in Seq(Cluster) /\ Partitioned(b.clusters)
        BY BatchesAssumption, PartitionAssumption
    <2>4. Progress(first, l, <<>>)
        BY <2>2, <2>3, SuffixAll DEF Progress, BatchPC
    <2> QED BY <2>2, <2>4, ProgressGoesOn DEF Begin
<1>2. ASSUME NEW p \in Client, Write(p) PROVE ProgressInv'
    <2>1. PICK rest \in Seq(AgreeingStmt) : Then(p, rest)
        BY <1>2, WriteExecutes DEF BaseInv
    <2>2. todo[p] # <<>> /\ pc' = pc /\ local' = local /\ \A q \in Client \ {p} : todo'[q] = todo[q]
        BY <1>2, <2>1, WriteExecutes, ThenStmts DEF BaseInv, Then
    <2>3. ASSUME NEW q \in Client PROVE Progress(pc'[q], local'[q], todo'[q])
        BY <2>2 DEF ProgressInv, Progress
    <2> QED BY <2>3 DEF ProgressInv, Progress, Suffix, Partitioned, BatchPC
<1>3. ASSUME NEW p \in Client, Return(p) \/ Fail(p) PROVE ProgressInv'
    <2>1. Progress("idle", Idle, <<>>)
        BY DEF Progress, Idle, BatchPC
    <2> QED BY <1>3, <2>1, ProgressGoesOn DEF Return, Fail
<1>4. ASSUME NEW p \in Client, DetMergeFails(p) PROVE ProgressInv'
    <2>1. Progress("return", local[p], <<>>)
        BY <1>4, MergeFailure DEF ProgressInv, Progress, BatchPC
    <2> QED BY <1>4, <2>1, MergeFailure, ProgressGoesOn
<1>5. CASE UNCHANGED vars
    BY <1>5 DEF vars, ProgressInv, Progress, Suffix, Partitioned
<1> QED BY <1>1, <1>2, <1>3, <1>4, <1>5, ProgressReads DEF Next, Step, Done

LEMMA ProgressInit ==
    ASSUME Init
    PROVE  ProgressInv
<1>1. Progress("idle", Idle, <<>>)
    BY DEF Progress, Idle, BatchPC
<1> QED BY <1>1 DEF Init, ProgressInv

----------------------------------------------------------------------------
(* The loop over the clusters. *)

\* What taking up the next cluster adds to the rows in memory or to the program.
NewRow(l, e) ==
    [ent |-> e, members |-> Head(l.left).members,
     edges |-> Evidence(Head(l.left), e, Head(l.left).members, l.run)]
FoundHere(l) == FoundIn(l.found, Head(l.left).members)

Creates(l, e) ==
    <<Node(e, "active", NoEntity), Emit({Ev("created", e, NoEntity)}),
      Attach(Head(l.left).members, e),
      Link(Evidence(Head(l.left), e, Head(l.left).members, l.run))>>
Added(l) == {r \in Head(l.left).members : l.found[r] = NoEntity}
Absorbs(l, e) ==
    <<Node(e, Refreshed(l.snap[e]), l.snap[e].into),
      Emit({Ev("absorbed_record", e, NoEntity) : r \in Added(l)}),
      Attach(Head(l.left).members, e),
      Link(Evidence(Head(l.left), e, Added(l), l.run))>>
Merges(l, w) ==
    <<Node(w, "active", NoEntity), Emit({Ev("merged_with", w, NoEntity)}),
      Absorb(FoundHere(l) \ {w}, w),
      Attach(Head(l.left).members, w),
      Link(Evidence(Head(l.left), w, Head(l.left).members, l.run)),
      Carry(FoundHere(l) \ {w}, w, l.run)>>

\* A call with variables l takes up a cluster in the graph g: its variables m,
\* the graph h and the program afterwards.
Skips(l, m, g, h, prog) ==
    Skipped(Head(l.left)) /\ m.rows = l.rows /\ h = g /\ prog = <<>>
Accumulated(l, m, g, h, prog) ==
    /\ ~Skipped(Head(l.left)) /\ FoundHere(l) = {} /\ prog = <<>>
    /\ \E e \in Entity :
          \/ m.rows = l.rows \cup {NewRow(l, e)} /\ h = g
          \/ m.rows = {} /\ h = BulkWrite(g, l.rows \cup {NewRow(l, e)})
Writing(l, m, g, h, prog) ==
    /\ ~Skipped(Head(l.left)) /\ m.rows = l.rows /\ h = g
    /\ \/ FoundHere(l) = {} /\ \E e \in Entity : prog = Creates(l, e)
       \/ \E e \in Entity : FoundHere(l) = {e} /\ prog = Absorbs(l, e)
       \/ \E w \in MergeWinner(l.found, Head(l.left).members) :
              w \in Entity /\ FoundHere(l) # {w} /\ prog = Merges(l, w)
TakesUp(l, m, g, h, prog) ==
    /\ l.left # <<>> /\ m.left = Tail(l.left)
    /\ m.op = l.op /\ m.run = l.run /\ m.clusters = l.clusters
    /\ m.found = l.found /\ m.snap = l.snap
    /\ Skips(l, m, g, h, prog) \/ Accumulated(l, m, g, h, prog) \/ Writing(l, m, g, h, prog)

Handler(p) == \/ ResolveSkip(p) \/ ResolveAccumulate(p) \/ ResolveCreate(p)
              \/ ResolveAbsorb(p) \/ ResolveMerge(p)

\* Taking up a cluster changes nothing else about a call.
SameCall(l, m) ==
    /\ m.left = Tail(l.left)
    /\ m.op = l.op /\ m.run = l.run /\ m.clusters = l.clusters
    /\ m.found = l.found /\ m.snap = l.snap

Advanced(l) == [l EXCEPT !.left = Tail(@)]
Refilled(l, rows) == [l EXCEPT !.left = Tail(@), !.rows = rows]

LEMMA SameCallUpdates ==
    ASSUME NEW l \in Local
    PROVE  /\ SameCall(l, Advanced(l)) /\ Advanced(l).rows = l.rows
           /\ \A x : SameCall(l, Refilled(l, x)) /\ Refilled(l, x).rows = x
BY DEF Local, SameCall, Advanced, Refilled

LEMMA ClusterTaken ==
    ASSUME BaseInv, OneClient, NEW p \in Client, Handler(p)
    PROVE  /\ pc[p] = "loop" /\ pc'[p] = "loop" /\ todo[p] = <<>>
           /\ TakesUp(local[p], local'[p], work, work', todo'[p])
           /\ durable' \in {durable, work'}
<1> DEFINE l == local[p]
           c == Head(l.left)
<1>1. pc[p] = "loop" /\ todo[p] = <<>> /\ l.left # <<>> /\ AtCluster(p)
    BY DEF Handler, ResolveSkip, ResolveAccumulate, ResolveCreate, ResolveAbsorb, ResolveMerge,
           AtCluster, At
<1>2. ThisCluster(p) = c /\ Existing(p) = FoundHere(l)
    BY DEF ThisCluster, Existing, FoundHere
<1>3. l \in Local /\ View(p) = work
    BY BatchLocal, AloneSees
<1>4. Existing(p) \subseteq Entity
    BY <1>1, ClusterType DEF BaseInv, IInv
<1>5. ASSUME NEW prog, Resolve(p, prog), UNCHANGED storeVars
      PROVE  /\ pc'[p] = "loop" /\ todo'[p] = prog /\ SameCall(l, local'[p])
             /\ local'[p].rows = l.rows /\ work' = work /\ durable' = durable
    <2>1. Continue(p, "loop", prog, Advanced(l))
        BY <1>5 DEF Resolve, Advanced
    <2>2. pc'[p] = "loop" /\ todo'[p] = prog /\ local'[p] = Advanced(l)
        BY <2>1, AloneReads
    <2> QED BY <1>3, <1>5, <2>2, SameCallUpdates DEF storeVars
<1>6. CASE ResolveSkip(p)
    <2>1. Resolve(p, <<>>) /\ UNCHANGED storeVars /\ Skipped(c)
        BY <1>2, <1>6 DEF ResolveSkip
    <2>2. Skips(l, local'[p], work, work', todo'[p])
        BY <1>5, <2>1 DEF Skips
    <2> QED BY <1>1, <1>5, <2>1, <2>2 DEF TakesUp, SameCall
<1>7. CASE ResolveAccumulate(p)
    <2> DEFINE rows == l.rows \cup {NewRow(l, NextEntity)}
               full == Cardinality(UNION {w.members : w \in rows}) >= FlushRows
               m == Refilled(l, IF full THEN {} ELSE rows)
    <2>1. /\ Continue(p, "loop", <<>>, m)
          /\ IF full THEN Flush(p, rows) ELSE UNCHANGED storeVars
          /\ ~Skipped(c) /\ FoundHere(l) = {} /\ CanMint /\ Mint
        BY <1>2, <1>7 DEF ResolveAccumulate, NewRow, Accumulates, ThisCluster, Refilled
    <2>2. NextEntity \in Entity
        BY <2>1, MintGood DEF BaseInv, IInv
    <2>3. SameCall(l, m) /\ m.rows = IF full THEN {} ELSE rows
        BY <1>3, SameCallUpdates
    <2> HIDE DEF m, full
    <2>4. pc'[p] = "loop" /\ todo'[p] = <<>> /\ local'[p] = m
        BY <2>1, AloneReads
    <2>5. IF full THEN work' = BulkWrite(work, rows) /\ durable' = work'
                  ELSE work' = work /\ durable' = durable
        BY <1>3, <2>1 DEF Flush, Commit, storeVars
    <2>6. Accumulated(l, m, work, work', <<>>)
        BY <2>1, <2>2, <2>3, <2>5 DEF Accumulated
    <2> QED BY <1>1, <2>3, <2>4, <2>5, <2>6 DEF TakesUp, SameCall
<1>8. CASE ResolveCreate(p)
    <2>1. /\ Resolve(p, Creates(l, NextEntity)) /\ UNCHANGED storeVars
          /\ ~Skipped(c) /\ FoundHere(l) = {} /\ CanMint /\ Mint
        BY <1>2, <1>8 DEF ResolveCreate, Creates, ThisCluster
    <2>2. NextEntity \in Entity
        BY <2>1, MintGood DEF BaseInv, IInv
    <2>3. Writing(l, local'[p], work, work', todo'[p])
        BY <1>5, <2>1, <2>2 DEF Writing
    <2> QED BY <1>1, <1>5, <2>1, <2>3 DEF TakesUp, SameCall
<1>9. CASE ResolveAbsorb(p)
    <2>1. PICK e \in Existing(p) : /\ Existing(p) = {e} /\ ~Skipped(c)
                                   /\ Resolve(p, Absorbs(l, e)) /\ UNCHANGED storeVars
        BY <1>2, <1>9 DEF ResolveAbsorb, Absorbs, Added, ThisCluster
    <2>2. Writing(l, local'[p], work, work', todo'[p])
        BY <1>2, <1>4, <1>5, <2>1 DEF Writing
    <2> QED BY <1>1, <1>5, <2>1, <2>2 DEF TakesUp, SameCall
<1>10. CASE ResolveMerge(p)
    <2>1. PICK w \in MergeWinner(l.found, c.members) :
            /\ FoundHere(l) # {w} /\ ~Skipped(c)
            /\ Resolve(p, Merges(l, w)) /\ UNCHANGED storeVars
        BY <1>2, <1>10 DEF ResolveMerge, Merges, FoundHere, ThisCluster
    <2>2. w \in Entity
        BY <1>2, <1>4 DEF MergeWinner, Foremost, FoundHere
    <2>3. Writing(l, local'[p], work, work', todo'[p])
        BY <1>5, <2>1, <2>2 DEF Writing
    <2> QED BY <1>1, <1>5, <2>1, <2>3 DEF TakesUp, SameCall
<1> QED BY <1>6, <1>7, <1>8, <1>9, <1>10 DEF Handler

\* How a call comes to be in its loop, or just before it.
LEMMA LoopSteps ==
    ASSUME BaseInv, OneClient, [Next]_vars, NEW p \in Client, pc'[p] \in {"nodes", "loop"}
    PROVE  \/ ResolveLookup(p) \/ ResolveNodes(p)
           \/ Handler(p)
           \/ Write(p) /\ pc'[p] = pc[p] /\ local'[p] = local[p]
           \/ UNCHANGED vars
<1>1. ASSUME NEW q \in Client, Invoke(q) PROVE FALSE
    <2>1. PICK first \in {"lookup", "check", "split", "target", "find", "scan"} :
            \E l : Begin(q, first, l)
        BY <1>1, InvokeFresh
    <2>2. PICK l : Begin(q, first, l)
        BY <2>1
    <2>3. Continue(q, first, <<>>, l)
        BY <2>2 DEF Begin
    <2> QED BY <2>1, <2>3, AloneReads
<1>2. ASSUME NEW q \in Client, Return(q) \/ Fail(q) PROVE FALSE
    <2>1. PICK l : Continue(q, "idle", <<>>, l)
        BY <1>2 DEF Return, Fail
    <2> QED BY <2>1, AloneReads
<1>3. ASSUME NEW q \in Client,
             ResolveFinish(q) \/ DetMergeRead(q) \/ DetMergeWrite(q) \/ DetMergeFails(q)
      PROVE FALSE
    <2>1. PICK next, l : next \in {"detread", "detwrite", "return"} /\ Continue(q, next, <<>>, l)
        BY <1>3, MergeFailure DEF ResolveFinish, DetMergeRead, DetMergeWrite
    <2> QED BY <2>1, AloneReads
<1>4. ASSUME NEW q \in Client,
             \/ MergeCheck(q) \/ MergeCheckOther(q) \/ MergeRecords(q) \/ SplitCheck(q) \/ ClaimTarget(q)
             \/ ClaimRecord(q) \/ MediateFind(q) \/ MediateFindOther(q) \/ MediateAct(q)
             \/ StabilizeScan(q) \/ StabilizeGroup(q) \/ StabilizeLoser(q) \/ StabilizeNext(q)
      PROVE FALSE
    <2>1. PICK next \in PC \ BatchPC : \E prog, l :
                Continue(q, next, prog, l) /\ l.op \in {local[q].op, "none"}
        BY <1>4, ElsewhereReads
    <2> QED BY <2>1, AloneReads DEF BatchPC
<1>5. ASSUME NEW q \in Client, Write(q) PROVE pc' = pc /\ local' = local
    BY <1>5, AloneWrites DEF Then
<1>6. \A q \in Client : q = p
    BY DEF OneClient
<1> QED BY <1>1, <1>2, <1>3, <1>4, <1>5, <1>6 DEF Next, Step, Read, Handler, Done

----------------------------------------------------------------------------
(* What the loop has yet to write concerns records nobody else writes.      *)

\* No statement of the program gives the record to anybody.
Spared(prog, r) ==
    \A s \in Stmts(prog) : s.op # "move" /\ (s.op = "attach" => r \notin s.recs)

\* The clusters still to come are as the pre-flight found them, and the rows in
\* memory are of records that nobody owns.
Gathering(g, l, prog) ==
    /\ \A r \in BatchRecords(l.left) :
          /\ l.found[r] = g.owner[r] /\ Spared(prog, r)
          /\ \A w \in l.rows : r \notin w.members
    /\ \A w \in l.rows :
          /\ w.members # {}
          /\ \A r \in w.members : g.owner[r] = NoEntity /\ Spared(prog, r)
    /\ \A w, v \in l.rows : w = v \/ w.members \cap v.members = {}
GatherInv == \A p \in Client : pc[p] \in {"nodes", "loop"} => Gathering(work, local[p], todo[p])

LEMMA SuffixPartitioned ==
    ASSUME NEW left \in Seq(Cluster), NEW clusters \in Seq(Cluster), Suffix(left, clusters),
           Partitioned(clusters)
    PROVE  Partitioned(left)
<1>1. /\ DOMAIN left = 1 .. Len(left) /\ DOMAIN clusters = 1 .. Len(clusters)
      /\ Len(left) \in Nat /\ Len(clusters) \in Nat
    BY LenProperties
<1>2. \A i \in DOMAIN left : i + (Len(clusters) - Len(left)) \in DOMAIN clusters
    BY <1>1 DEF Suffix
<1>3. \A i, j \in DOMAIN left :
        i # j => i + (Len(clusters) - Len(left)) # j + (Len(clusters) - Len(left))
    BY <1>1
<1> QED BY <1>2, <1>3 DEF Partitioned, Suffix

\* The next cluster has no record of those behind it.
LEMMA HeadApart ==
    ASSUME NEW left \in Seq(Cluster), left # <<>>, Partitioned(left)
    PROVE  /\ BatchRecords(left) = Head(left).members \cup BatchRecords(Tail(left))
           /\ Head(left).members \cap BatchRecords(Tail(left)) = {}
           /\ Head(left) \in Cluster
<1>1. /\ Tail(left) \in Seq(Cluster) /\ Len(Tail(left)) = Len(left) - 1
      /\ Head(left) = left[1] /\ Head(left) \in Cluster /\ Len(left) \in Nat \ {0}
      /\ \A i \in 1 .. Len(left) - 1 : Tail(left)[i] = left[i + 1]
    BY HeadTailProperties, LenProperties, EmptySeq
<1>2. DOMAIN left = 1 .. Len(left) /\ DOMAIN Tail(left) = 1 .. Len(left) - 1
    BY <1>1, LenProperties
<1>3. \A i \in DOMAIN Tail(left) : /\ i + 1 \in DOMAIN left /\ i + 1 # 1
                                   /\ Tail(left)[i] = left[i + 1]
    BY <1>1, <1>2
<1>4. \A i \in DOMAIN left : i = 1 \/ (i - 1 \in DOMAIN Tail(left) /\ Tail(left)[i - 1] = left[i])
    <2>1. ASSUME NEW i \in DOMAIN left, i # 1
          PROVE  i - 1 \in DOMAIN Tail(left) /\ Tail(left)[i - 1] = left[i]
        <3>1. i - 1 \in 1 .. Len(left) - 1 /\ (i - 1) + 1 = i
            BY <1>1, <1>2, <2>1
        <3>2. Tail(left)[i - 1] = left[(i - 1) + 1]
            BY <1>1, <3>1
        <3> QED BY <1>2, <3>1, <3>2
    <2> QED BY <2>1
<1>5. 1 \in DOMAIN left
    BY <1>1, <1>2
<1>6. BatchRecords(left) \subseteq Head(left).members \cup BatchRecords(Tail(left))
    <2>1. ASSUME NEW r \in BatchRecords(left)
          PROVE  r \in Head(left).members \cup BatchRecords(Tail(left))
        <3>1. PICK i \in DOMAIN left : r \in left[i].members
            BY DEF BatchRecords
        <3>2. CASE i = 1
            BY <1>1, <3>1, <3>2
        <3>3. CASE i # 1
            BY <1>4, <3>1, <3>3 DEF BatchRecords
        <3> QED BY <3>2, <3>3
    <2> QED BY <2>1
<1>7. Head(left).members \cup BatchRecords(Tail(left)) \subseteq BatchRecords(left)
    BY <1>1, <1>3, <1>5 DEF BatchRecords
<1>8. \A i \in DOMAIN Tail(left) : Head(left).members \cap Tail(left)[i].members = {}
    BY <1>1, <1>3, <1>5 DEF Partitioned
<1>9. Head(left).members \cap BatchRecords(Tail(left)) = {}
    BY <1>8 DEF BatchRecords
<1> QED BY <1>1, <1>6, <1>7, <1>9

LEMMA SparedStep ==
    ASSUME NEW g \in Graph, NEW prog \in Seq(AgreeingStmt), prog # <<>>, NEW h,
           NEW rest \in Seq(AgreeingStmt), Executes(Head(prog), g, h, rest),
           NEW r \in Record, Spared(prog, r)
    PROVE  h.owner[r] = g.owner[r] /\ Spared(rest \o Tail(prog), r)
<1> DEFINE s == Head(prog)
<1>1. s.op # "move" /\ (s.op = "attach" => r \notin s.recs)
    BY ProgramStep DEF Spared
<1> HIDE DEF s
<1>2. Executes(s, g, h, rest)
    BY DEF s
<1>3. h.owner[r] = g.owner[r]
    <2>1. OwnersGo(s, g, h, rest)
        BY <1>2, ExecutesOwner
    <2> QED BY <1>1, <2>1 DEF OwnersGo, Gives, Graph
<1>4. \A t \in Stmts(rest) : t.op # "move" /\ (t.op = "attach" => r \notin t.recs)
    BY <1>1, <1>2, StatementsLeft
<1>5. \A t \in Stmts(Tail(prog)) : t.op # "move" /\ (t.op = "attach" => r \notin t.recs)
    BY ProgramStep DEF Spared
<1> QED BY <1>3, <1>4, <1>5, ProgramStep DEF Spared

\* The programs of the branches attach the cluster's records and no others.
LEMMA BranchStmts ==
    ASSUME NEW l, NEW e
    PROVE  /\ Stmts(Creates(l, e)) =
                {Node(e, "active", NoEntity), Emit({Ev("created", e, NoEntity)}),
                 Attach(Head(l.left).members, e),
                 Link(Evidence(Head(l.left), e, Head(l.left).members, l.run))}
           /\ Stmts(Absorbs(l, e)) =
                {Node(e, Refreshed(l.snap[e]), l.snap[e].into),
                 Emit({Ev("absorbed_record", e, NoEntity) : r \in Added(l)}),
                 Attach(Head(l.left).members, e),
                 Link(Evidence(Head(l.left), e, Added(l), l.run))}
           /\ Stmts(Merges(l, e)) =
                {Node(e, "active", NoEntity), Emit({Ev("merged_with", e, NoEntity)}),
                 Absorb(FoundHere(l) \ {e}, e),
                 Attach(Head(l.left).members, e),
                 Link(Evidence(Head(l.left), e, Head(l.left).members, l.run)),
                 Carry(FoundHere(l) \ {e}, e, l.run)}
<1>1. \A a, b, c, d, x, f : /\ Stmts(<<a, b, c, d>>) = {a, b, c, d}
                            /\ Stmts(<<a, b, c, d, x, f>>) = {a, b, c, d, x, f}
    BY StmtsOfTuples
<1>2. Stmts(Creates(l, e)) =
                {Node(e, "active", NoEntity), Emit({Ev("created", e, NoEntity)}),
                 Attach(Head(l.left).members, e),
                 Link(Evidence(Head(l.left), e, Head(l.left).members, l.run))}
    BY <1>1 DEF Creates
<1>3. Stmts(Absorbs(l, e)) =
                {Node(e, Refreshed(l.snap[e]), l.snap[e].into),
                 Emit({Ev("absorbed_record", e, NoEntity) : r \in Added(l)}),
                 Attach(Head(l.left).members, e),
                 Link(Evidence(Head(l.left), e, Added(l), l.run))}
    BY <1>1 DEF Absorbs
<1>4. Stmts(Merges(l, e)) =
                {Node(e, "active", NoEntity), Emit({Ev("merged_with", e, NoEntity)}),
                 Absorb(FoundHere(l) \ {e}, e),
                 Attach(Head(l.left).members, e),
                 Link(Evidence(Head(l.left), e, Head(l.left).members, l.run)),
                 Carry(FoundHere(l) \ {e}, e, l.run)}
    BY <1>1 DEF Merges
<1> QED BY <1>2, <1>3, <1>4

LEMMA BranchesAttach ==
    ASSUME NEW l, NEW e, NEW prog,
           prog = Creates(l, e) \/ prog = Absorbs(l, e) \/ prog = Merges(l, e)
    PROVE  /\ \A s \in Stmts(prog) :
                /\ s.op # "move"
                /\ s.op = "attach" => s.recs = Head(l.left).members /\ s.ent = e
           /\ \E s \in Stmts(prog) :
                s.op = "attach" /\ s.recs = Head(l.left).members /\ s.ent = e
<1> DEFINE a == Attach(Head(l.left).members, e)
<1>2. a.op = "attach" /\ a.recs = Head(l.left).members /\ a.ent = e
    BY DEF Attach
<1> DEFINE Other(s) == s.op \in {"node", "emit", "link", "absorb", "carry"}
<1>3. /\ \A x, y, z : Other(Node(x, y, z)) /\ Other(Carry(x, y, z))
      /\ \A x : Other(Emit(x)) /\ Other(Link(x))
      /\ \A x, y : Other(Absorb(x, y))
    BY DEF Node, Emit, Link, Absorb, Carry
<1> HIDE DEF Other
<1>4. a \in Stmts(prog) /\ \A s \in Stmts(prog) : s = a \/ Other(s)
    <2>1. ASSUME NEW w, NEW x, NEW y, Stmts(prog) = {w, x, a, y}, Other(w), Other(x), Other(y)
          PROVE  a \in Stmts(prog) /\ \A s \in Stmts(prog) : s = a \/ Other(s)
        BY <2>1
    <2>2. ASSUME NEW v, NEW w, NEW x, NEW y, NEW z, Stmts(prog) = {v, w, x, a, y, z},
                 Other(v), Other(w), Other(x), Other(y), Other(z)
          PROVE  a \in Stmts(prog) /\ \A s \in Stmts(prog) : s = a \/ Other(s)
        BY <2>2
    <2> HIDE DEF a
    <2>3. CASE prog = Creates(l, e)
        <3> DEFINE w == Node(e, "active", NoEntity)
                   x == Emit({Ev("created", e, NoEntity)})
                   y == Link(Evidence(Head(l.left), e, Head(l.left).members, l.run))
        <3>1. Stmts(prog) = {w, x, a, y}
            BY <2>3, BranchStmts DEF a
        <3>2. Other(w) /\ Other(x) /\ Other(y)
            BY <1>3
        <3> HIDE DEF w, x, y
        <3> QED BY <2>1, <3>1, <3>2
    <2>4. CASE prog = Absorbs(l, e)
        <3> DEFINE w == Node(e, Refreshed(l.snap[e]), l.snap[e].into)
                   x == Emit({Ev("absorbed_record", e, NoEntity) : r \in Added(l)})
                   y == Link(Evidence(Head(l.left), e, Added(l), l.run))
        <3>1. Stmts(prog) = {w, x, a, y}
            BY <2>4, BranchStmts DEF a
        <3>2. Other(w) /\ Other(x) /\ Other(y)
            BY <1>3
        <3> HIDE DEF w, x, y
        <3> QED BY <2>1, <3>1, <3>2
    <2>5. CASE prog = Merges(l, e)
        <3> DEFINE v == Node(e, "active", NoEntity)
                   w == Emit({Ev("merged_with", e, NoEntity)})
                   x == Absorb(FoundHere(l) \ {e}, e)
                   y == Link(Evidence(Head(l.left), e, Head(l.left).members, l.run))
                   z == Carry(FoundHere(l) \ {e}, e, l.run)
        <3>1. Stmts(prog) = {v, w, x, a, y, z}
            BY <2>5, BranchStmts DEF a
        <3>2. Other(v) /\ Other(w) /\ Other(x) /\ Other(y) /\ Other(z)
            BY <1>3
        <3> HIDE DEF v, w, x, y, z
        <3> QED BY <2>2, <3>1, <3>2
    <2> QED BY <2>3, <2>4, <2>5
<1>5. \A s \in Stmts(prog) : s.op # "attach" \/ s = a
    BY <1>4 DEF Other
<1>6. \A s \in Stmts(prog) : s.op # "move" \/ s = a
    BY <1>4 DEF Other
<1> HIDE DEF a
<1> QED BY <1>2, <1>4, <1>5, <1>6

\* Who owns a record after a flush.
LEMMA BulkWriteOwner ==
    ASSUME NEW g \in Graph, NEW rows, NEW r \in Record
    PROVE  /\ (\A w \in rows : r \notin w.members) => BulkWrite(g, rows).owner[r] = g.owner[r]
           /\ (\E w \in rows : r \in w.members) =>
                \E w \in rows : r \in w.members /\ BulkWrite(g, rows).owner[r] = w.ent
<1> DEFINE row(q) == CHOOSE w \in rows : q \in w.members
           claimed == UNION {w.members : w \in rows}
<1>1. BulkWrite(g, rows).owner = [q \in Record |-> IF q \in claimed THEN row(q).ent ELSE g.owner[q]]
    BY DEF BulkWrite, Graph
<1>2. r \in claimed <=> \E w \in rows : r \in w.members
    OBVIOUS
<1>3. r \in claimed => row(r) \in rows /\ r \in row(r).members
    BY <1>2
<1> HIDE DEF row, claimed
<1> QED BY <1>1, <1>2, <1>3

LEMMA BatchRecordsType ==
    ASSUME NEW b \in Seq(Cluster)
    PROVE  BatchRecords(b) \subseteq Record
<1> SUFFICES ASSUME NEW i \in DOMAIN b PROVE b[i].members \subseteq Record
    BY DEF BatchRecords
<1>1. b[i] \in Cluster
    BY ElementOfSeq
<1> QED BY <1>1 DEF Cluster

LEMMA GatheringTakes ==
    ASSUME NEW g \in Graph, NEW l, NEW m, NEW h, NEW prog,
           l.left \in Seq(Cluster), Partitioned(l.left), Gathering(g, l, <<>>),
           TakesUp(l, m, g, h, prog)
    PROVE  Gathering(h, m, prog)
<1> DEFINE c == Head(l.left)
           new == BatchRecords(m.left)
<1>1. /\ BatchRecords(l.left) = c.members \cup new
      /\ c.members \cap new = {} /\ c \in Cluster
      /\ m.found = l.found
    BY HeadApart DEF TakesUp
<1>2. \A r \in new : /\ m.found[r] = g.owner[r] /\ r \notin c.members /\ r \in Record
                     /\ \A w \in l.rows : r \notin w.members
    <2>1. new \subseteq Record
        <3>1. m.left \in Seq(Cluster)
            BY HeadTailProperties DEF TakesUp
        <3> QED BY <3>1, BatchRecordsType
    <2> QED BY <1>1, <2>1 DEF Gathering
<1>3. \A r : Spared(<<>>, r)
    BY StmtsOfTuples DEF Spared
<1>4. \A r \in c.members : \A w \in l.rows : r \notin w.members
    BY <1>1 DEF Gathering
<1>5. c.members \subseteq Record
    BY <1>1 DEF Cluster
<1> HIDE DEF new, c
<1>6. CASE Skips(l, m, g, h, prog)
    <2>1. m.rows = l.rows /\ h = g /\ prog = <<>>
        BY <1>6 DEF Skips
    <2>2. ASSUME NEW r \in new
          PROVE  m.found[r] = h.owner[r] /\ Spared(prog, r) /\ \A w \in m.rows : r \notin w.members
        BY <1>2, <1>3, <2>1
    <2>3. \A w \in m.rows : w.members # {} /\ \A r \in w.members : h.owner[r] = NoEntity /\ Spared(prog, r)
        BY <1>3, <2>1 DEF Gathering
    <2>4. \A w, v \in m.rows : w = v \/ w.members \cap v.members = {}
        BY <2>1 DEF Gathering
    <2> QED BY <2>2, <2>3, <2>4 DEF Gathering, new
<1>7. ASSUME NEW e \in Entity, m.rows = l.rows \cup {NewRow(l, e)}, h = g, prog = <<>>,
             ~Skipped(c), FoundHere(l) = {}
      PROVE  Gathering(h, m, prog)
    <2> DEFINE row == NewRow(l, e)
    <2>1. row.members = c.members
        BY DEF NewRow, c
    <2>2. c.members # {}
        BY <1>7 DEF Skipped
    <2>3. \A r \in c.members : g.owner[r] = NoEntity
        <3>1. \A r \in c.members : l.found[r] = g.owner[r]
            BY <1>1 DEF Gathering
        <3> QED BY <1>7, <3>1 DEF FoundHere, FoundIn, c
    <2> HIDE DEF row
    <2>4. m.rows = l.rows \cup {row}
        BY <1>7 DEF row
    <2>5. ASSUME NEW r \in new
          PROVE  m.found[r] = h.owner[r] /\ Spared(prog, r) /\ \A w \in m.rows : r \notin w.members
        BY <1>2, <1>3, <1>7, <2>1, <2>4
    <2>6. ASSUME NEW w \in m.rows
          PROVE  w.members # {} /\ \A r \in w.members : h.owner[r] = NoEntity /\ Spared(prog, r)
        BY <1>3, <1>7, <2>1, <2>2, <2>3, <2>4 DEF Gathering
    <2>7. ASSUME NEW w \in m.rows, NEW v \in m.rows PROVE w = v \/ w.members \cap v.members = {}
        BY <1>4, <2>1, <2>4 DEF Gathering
    <2> QED BY <2>5, <2>6, <2>7 DEF Gathering, new
<1>8. ASSUME NEW e \in Entity, m.rows = {}, h = BulkWrite(g, l.rows \cup {NewRow(l, e)}), prog = <<>>
      PROVE  Gathering(h, m, prog)
    <2>1. NewRow(l, e).members = c.members
        BY DEF NewRow, c
    <2>2. ASSUME NEW r \in new PROVE h.owner[r] = g.owner[r]
        <3>1. \A w \in l.rows \cup {NewRow(l, e)} : r \notin w.members
            BY <1>2, <2>1
        <3> QED BY <1>2, <1>8, <3>1, BulkWriteOwner
    <2> QED BY <1>2, <1>3, <1>8, <2>2 DEF Gathering, new
<1>9. CASE Writing(l, m, g, h, prog)
    <2>1. PICK e \in Entity : prog = Creates(l, e) \/ prog = Absorbs(l, e) \/ prog = Merges(l, e)
        BY <1>9 DEF Writing
    <2>2. \A s \in Stmts(prog) : s.op # "move" /\ (s.op = "attach" => s.recs = c.members)
        BY <2>1, BranchesAttach DEF c
    <2>3. \A r : r \notin c.members => Spared(prog, r)
        BY <2>2 DEF Spared
    <2>4. m.rows = l.rows /\ h = g
        BY <1>9 DEF Writing
    <2>5. ASSUME NEW r \in new
          PROVE  m.found[r] = h.owner[r] /\ Spared(prog, r) /\ \A w \in m.rows : r \notin w.members
        BY <1>2, <2>3, <2>4
    <2>6. ASSUME NEW w \in m.rows
          PROVE  w.members # {} /\ \A r \in w.members : h.owner[r] = NoEntity /\ Spared(prog, r)
        BY <1>4, <2>3, <2>4 DEF Gathering
    <2>7. ASSUME NEW w \in m.rows, NEW v \in m.rows PROVE w = v \/ w.members \cap v.members = {}
        BY <2>4 DEF Gathering
    <2> QED BY <2>5, <2>6, <2>7 DEF Gathering, new
<1>10. CASE Accumulated(l, m, g, h, prog)
    BY <1>7, <1>8, <1>10 DEF Accumulated, c
<1> QED BY <1>6, <1>9, <1>10 DEF TakesUp

LEMMA GatheringWrites ==
    ASSUME NEW g \in Graph, NEW prog \in Seq(AgreeingStmt), prog # <<>>, NEW h,
           NEW rest \in Seq(AgreeingStmt), Executes(Head(prog), g, h, rest),
           NEW l \in Local, Gathering(g, l, prog)
    PROVE  Gathering(h, l, rest \o Tail(prog))
<1>1. BatchRecords(l.left) \subseteq Record
    BY BatchRecordsType DEF Local
<1>2. \A w \in l.rows : w.members \subseteq Record
    BY DEF Local, Row
<1>3. \A r \in Record : Spared(prog, r) =>
        h.owner[r] = g.owner[r] /\ Spared(rest \o Tail(prog), r)
    BY SparedStep
<1> QED BY <1>1, <1>2, <1>3 DEF Gathering

LEMMA GatherNext ==
    ASSUME BaseInv, OneClient, ProgressInv, GatherInv, [Next]_vars
    PROVE  GatherInv'
<1> SUFFICES ASSUME NEW p \in Client, pc'[p] \in {"nodes", "loop"}
             PROVE  Gathering(work', local'[p], todo'[p])
    BY DEF GatherInv, Gathering, Spared, BatchRecords, Stmts
<1>1. /\ work \in Graph /\ View(p) = work /\ local[p] \in Local
      /\ Progress(pc[p], local[p], todo[p])
    BY AloneSees, BatchLocal DEF ProgressInv, BaseInv, IInv, StoreInv, AgreeingGraph
<1>2. \A r : Spared(<<>>, r)
    BY StmtsOfTuples DEF Spared
<1>3. CASE ResolveLookup(p)
    <2> DEFINE rs == BatchRecords(local[p].clusters)
               found == [r \in Record |-> IF r \in rs THEN work.owner[r] ELSE NoEntity]
    <2>1. Continue(p, "nodes", <<>>, [local[p] EXCEPT !.found = found]) /\ work' = work
          /\ pc[p] = "lookup"
        BY <1>1, <1>3 DEF ResolveLookup, storeVars, At
    <2>2. /\ todo'[p] = <<>> /\ local'[p] = [local[p] EXCEPT !.found = found]
        BY <2>1, AloneReads
    <2> HIDE DEF found
    <2>3. local'[p].found = found /\ local'[p].left = local[p].left /\ local'[p].rows = local[p].rows
        BY <1>1, <2>2 DEF Local
    <2>4. local[p].left = local[p].clusters /\ local[p].rows = {}
        BY <1>1, <2>1 DEF Progress, BatchPC
    <2>5. rs \subseteq Record
        BY <1>1, BatchRecordsType DEF Local
    <2> QED BY <1>2, <2>1, <2>2, <2>3, <2>4, <2>5 DEF Gathering, found
<1>4. CASE ResolveNodes(p)
    <2>1. PICK snap : Continue(p, "loop", <<>>, [local[p] EXCEPT !.snap = snap]) /\ work' = work
          /\ pc[p] = "nodes" /\ todo[p] = <<>>
        BY <1>4 DEF ResolveNodes, storeVars, At
    <2>2. /\ todo'[p] = <<>> /\ local'[p] = [local[p] EXCEPT !.snap = snap]
        BY <2>1, AloneReads
    <2>3. /\ local'[p].found = local[p].found /\ local'[p].left = local[p].left
          /\ local'[p].rows = local[p].rows
        BY <1>1, <2>2 DEF Local
    <2> QED BY <2>1, <2>2, <2>3 DEF GatherInv, Gathering
<1>5. CASE Handler(p)
    <2>1. /\ pc[p] = "loop" /\ todo[p] = <<>>
          /\ TakesUp(local[p], local'[p], work, work', todo'[p])
        BY <1>5, ClusterTaken
    <2>2. local[p].left \in Seq(Cluster) /\ local[p].clusters \in Seq(Cluster)
        BY <1>1 DEF Local
    <2>3. Partitioned(local[p].left)
        BY <1>1, <2>1, <2>2, SuffixPartitioned DEF Progress, BatchPC
    <2>4. Gathering(work, local[p], <<>>)
        BY <2>1 DEF GatherInv
    <2> QED BY <1>1, <2>1, <2>2, <2>3, <2>4, GatheringTakes
<1>6. CASE Write(p) /\ pc'[p] = pc[p] /\ local'[p] = local[p]
    <2>1. PICK rest \in Seq(AgreeingStmt), h \in AgreeingGraph :
            Executes(Statement(p), work, h, rest) /\ work' = h /\ Then(p, rest)
        BY <1>6, AloneWrites
    <2>2. todo[p] \in Seq(AgreeingStmt) /\ todo[p] # <<>>
        BY <1>6, AloneWrites
    <2>3. todo'[p] = rest \o Tail(todo[p])
        BY <2>1 DEF Then, BaseInv, IInv, CallInv
    <2>4. Gathering(work, local[p], todo[p])
        BY <1>6 DEF GatherInv
    <2> QED BY <1>1, <1>6, <2>1, <2>2, <2>3, <2>4, GatheringWrites DEF Statement
<1>7. CASE UNCHANGED vars
    BY <1>7 DEF vars, GatherInv
<1> QED BY <1>3, <1>4, <1>5, <1>6, <1>7, LoopSteps

LEMMA GatherInit ==
    ASSUME Init
    PROVE  GatherInv
BY DEF Init, GatherInv

\* What a call in its loop does next.
LEMMA LoopLeaves ==
    ASSUME BaseInv, OneClient, [Next]_vars, NEW p \in Client, pc[p] = "loop"
    PROVE  Handler(p) \/ Write(p) \/ ResolveFinish(p) \/ Fail(p) \/ UNCHANGED vars
<1>1. \A q \in Client : q = p
    BY DEF OneClient
<1>2. ASSUME Invoke(p) PROVE FALSE
    <2>1. PICK first, l : Begin(p, first, l)
        BY <1>2, InvokeFresh
    <2> QED BY <2>1 DEF Begin, At
<1>3. ASSUME Read(p) PROVE Handler(p) \/ ResolveFinish(p)
    <2>1. ~ResolveLookup(p) /\ ~ResolveNodes(p) /\ ~DetMergeRead(p) /\ ~DetMergeWrite(p)
        BY DEF ResolveLookup, ResolveNodes, DetMergeRead, DetMergeWrite, At
    <2> QED BY <1>3, <2>1, ElsewhereReads DEF Read, Handler, BatchPC
<1>4. ~Return(p) /\ ~DetMergeFails(p) /\ (Done => UNCHANGED vars)
    BY MergeFailure DEF Return, At, Done
<1> QED BY <1>1, <1>2, <1>3, <1>4 DEF Next, Step

----------------------------------------------------------------------------
(* A batch that was resolved before is an observation. *)

\* A statement that says what the graph says already.
Idles(g, s) ==
    \/ s.op = "node" /\ g.status[s.ent] = s.status /\ g.into[s.ent] = s.into
    \/ s.op = "attach" /\ \A r \in s.recs : g.owner[r] = s.ent
    \/ s.op = "emit" /\ s.events = {}
    \/ s.op = "link" /\ s.edges = {}

\* Every cluster of the batch was found in one entity.
Observed(l) == \A i \in DOMAIN l.clusters : Gathered(l.found, l.clusters[i].members)

\* No row is in memory, the snapshot is as the graph, and the program says
\* nothing new.
Observing(g, l, prog) ==
    /\ l.rows = {}
    /\ \A e \in Entity : (\E r \in Record : l.found[r] = e) =>
          g.status[e] = l.snap[e].status /\ g.into[e] = l.snap[e].into
    /\ \A s \in Stmts(prog) : Idles(g, s)
ObserveInv ==
    \A p \in Client : pc[p] = "loop" /\ Observed(local[p]) =>
        durable = work /\ Observing(work, local[p], todo[p])

LEMMA IdleExecutes ==
    ASSUME NEW g \in Graph, NEW s, Idles(g, s), NEW h, NEW rest, Executes(s, g, h, rest)
    PROVE  h = g /\ \A t \in Stmts(rest) : Idles(g, t)
<1>1. CASE s.op = "node"
    <2>1. rest = <<>> /\ h = UpsertIdentity(g, s.ent, s.status, s.into)
        BY <1>1 DEF Executes, Vacuous
    <2>2. g.status[s.ent] = s.status /\ g.into[s.ent] = s.into
        BY <1>1 DEF Idles
    <2>3. h = g
        BY <2>1, <2>2 DEF UpsertIdentity, Graph
    <2> QED BY <2>1, <2>3, StmtsOfTuples
<1>2. CASE s.op = "attach"
    <2>1. \A r \in s.recs : UpsertRecord(g, r, s.ent) = g
        BY <1>2 DEF Idles, UpsertRecord, Graph
    <2>2. h = g
        BY <1>2, <2>1, ExecutesShape
    <2>3. \A t \in Stmts(rest) : t.op = "attach" /\ t.recs \subseteq s.recs /\ t.ent = s.ent
        BY <1>2, StatementsLeft
    <2> QED BY <1>2, <2>2, <2>3 DEF Idles
<1>3. CASE s.op \in {"emit", "link"}
    <2>1. (s.op = "emit" /\ s.events = {}) \/ (s.op = "link" /\ s.edges = {})
        BY <1>3 DEF Idles
    <2>2. h = g /\ rest = <<>>
        BY <2>1 DEF Executes
    <2> QED BY <2>2, StmtsOfTuples
<1> QED BY <1>1, <1>2, <1>3 DEF Idles

\* A cluster that was found in one entity is absorbed by it, and nothing is new.
LEMMA ObservingTakes ==
    ASSUME NEW g \in Graph, PointsAtRows(g), NEW l, NEW m, NEW h, NEW prog,
           l.left \in Seq(Cluster), Partitioned(l.left), Gathering(g, l, <<>>),
           Observing(g, l, <<>>), Gathered(l.found, Head(l.left).members),
           TakesUp(l, m, g, h, prog)
    PROVE  h = g /\ Observing(h, m, prog)
<1> DEFINE c == Head(l.left)
<1>1. /\ c \in Cluster /\ c.members \subseteq Record
      /\ \A r \in c.members : l.found[r] = g.owner[r]
    <2>1. c \in Cluster /\ c.members \subseteq BatchRecords(l.left)
        BY HeadApart DEF TakesUp
    <2> QED BY <2>1 DEF Cluster, Gathering
<1>2. m.found = l.found /\ m.snap = l.snap
    BY DEF TakesUp
<1>3. CASE Skips(l, m, g, h, prog)
    BY <1>2, <1>3 DEF Skips, Observing
<1>4. ASSUME ~Skipped(c)
      PROVE  \E e \in Entity : FoundHere(l) = {e} /\ \A r \in c.members : l.found[r] = e
    <2>1. PICK e \in Entity : \A r \in c.members : l.found[r] = e
        BY DEF Gathered
    <2>2. c.members # {}
        BY <1>4 DEF Skipped
    <2>3. e # NoEntity
        BY MaxEntityAssumption DEF Entity, NoEntity
    <2> QED BY <2>1, <2>2, <2>3 DEF FoundHere, FoundIn
<1>5. CASE Accumulated(l, m, g, h, prog)
    BY <1>4, <1>5 DEF Accumulated
<1>6. CASE Writing(l, m, g, h, prog)
    <2>1. ~Skipped(c) /\ m.rows = l.rows /\ h = g
        BY <1>6 DEF Writing
    <2>2. PICK e \in Entity : FoundHere(l) = {e} /\ \A r \in c.members : l.found[r] = e
        BY <1>4, <2>1
    <2>3. \A w \in MergeWinner(l.found, c.members) : FoundHere(l) = {w}
        BY <2>2 DEF MergeWinner, Foremost, FoundHere
    <2>4. prog = Absorbs(l, e)
        BY <1>6, <2>2, <2>3 DEF Writing
    <2>5. \E r \in c.members : g.owner[r] = e /\ r \in Record
        BY <1>1, <2>1, <2>2 DEF Skipped
    <2>6. g.status[e] # "absent"
        BY <2>5, MaxEntityAssumption DEF PointsAtRows, Exists, Entity, NoEntity
    <2>7. g.status[e] = l.snap[e].status /\ g.into[e] = l.snap[e].into
        BY <1>1, <2>5 DEF Observing
    <2>8. Added(l) = {}
        BY <2>2, MaxEntityAssumption DEF Added, Entity, NoEntity
    <2> DEFINE a == Node(e, Refreshed(l.snap[e]), l.snap[e].into)
               b == Emit({Ev("absorbed_record", e, NoEntity) : r \in Added(l)})
               d == Attach(c.members, e)
               f == Link(Evidence(c, e, Added(l), l.run))
    <2>9. Idles(g, a)
        BY <2>6, <2>7 DEF Idles, Node, Refreshed
    <2>10. Idles(g, b)
        BY <2>8 DEF Idles, Emit
    <2>11. Idles(g, d)
        BY <1>1, <2>2 DEF Idles, Attach
    <2>12. Idles(g, f)
        <3>1. Evidence(c, e, {}, l.run) = {}
            BY DEF Evidence, EdgesFor
        <3> QED BY <2>8, <3>1 DEF Idles, Link
    <2>13. Stmts(prog) = {a, b, d, f}
        BY <2>4, BranchStmts
    <2> HIDE DEF a, b, d, f
    <2>14. \A s \in Stmts(prog) : Idles(h, s)
        BY <2>1, <2>9, <2>10, <2>11, <2>12, <2>13
    <2> QED BY <1>2, <2>1, <2>14 DEF Observing
<1> QED BY <1>3, <1>5, <1>6 DEF TakesUp

LEMMA FlushNothing ==
    ASSUME NEW g \in Graph
    PROVE  BulkWrite(g, {}) = g
BY DEF BulkWrite, Graph

\* What a lone client's batch reads and writes while it observes.
LEMMA ObservedWrite ==
    ASSUME BaseInv, OneClient, ObserveInv, NEW p \in Client, Write(p), pc[p] = "loop",
           Observed(local[p])
    PROVE  UNCHANGED <<durable, work>> /\ Observing(work, local[p], todo'[p])
<1>1. PICK rest \in Seq(AgreeingStmt), h \in AgreeingGraph :
        /\ Executes(Statement(p), work, h, rest)
        /\ work' = h /\ durable' \in {durable, work, h}
        /\ Then(p, rest)
    BY AloneWrites
<1>2. todo[p] \in Seq(AgreeingStmt) /\ todo[p] # <<>> /\ work \in Graph
    BY AloneWrites DEF AgreeingGraph
<1>3. todo'[p] = rest \o Tail(todo[p])
    BY <1>1 DEF Then, BaseInv, IInv, CallInv
<1>4. durable = work /\ Observing(work, local[p], todo[p])
    BY DEF ObserveInv
<1>5. /\ Stmts(todo[p]) = {Statement(p)} \cup Stmts(Tail(todo[p]))
      /\ Stmts(todo'[p]) = Stmts(rest) \cup Stmts(Tail(todo[p]))
    BY <1>2, <1>3, ProgramStep DEF Statement
<1>6. Idles(work, Statement(p))
    BY <1>4, <1>5 DEF Observing
<1>7. h = work /\ \A t \in Stmts(rest) : Idles(work, t)
    BY <1>1, <1>2, <1>6, IdleExecutes
<1> QED BY <1>1, <1>4, <1>5, <1>7 DEF Observing

LEMMA ObservedHandler ==
    ASSUME BaseInv, OneClient, ProgressInv, GatherInv, ObserveInv, NEW p \in Client, Handler(p),
           Observed(local[p])
    PROVE  /\ UNCHANGED <<durable, work>> /\ Observing(work, local'[p], todo'[p])
           /\ pc[p] = "loop"
<1>1. /\ pc[p] = "loop" /\ todo[p] = <<>>
      /\ TakesUp(local[p], local'[p], work, work', todo'[p])
      /\ durable' \in {durable, work'}
    BY ClusterTaken
<1>2. /\ local[p].left \in Seq(Cluster) /\ local[p].clusters \in Seq(Cluster)
      /\ local[p].left # <<>> /\ Progress(pc[p], local[p], todo[p])
    BY <1>1, BatchLocal DEF ProgressInv, Local, TakesUp
<1>3. Partitioned(local[p].left)
    BY <1>1, <1>2, SuffixPartitioned DEF Progress, BatchPC
<1>4. durable = work /\ Observing(work, local[p], <<>>) /\ Gathering(work, local[p], <<>>)
    BY <1>1 DEF ObserveInv, GatherInv
<1>5. work \in Graph /\ PointsAtRows(work)
    BY DEF BaseInv, IInv, StoreInv, AgreeingGraph, RefInv, StoreRefs
<1>6. Gathered(local[p].found, Head(local[p].left).members)
    <2> DEFINE i == (Len(local[p].clusters) - Len(local[p].left)) + 1
    <2>1. Suffix(local[p].left, local[p].clusters)
        BY <1>1, <1>2 DEF Progress, BatchPC
    <2>2. /\ Head(local[p].left) = local[p].clusters[i]
          /\ Len(local[p].left) \in Nat /\ Len(local[p].left) > 0
          /\ Len(local[p].clusters) \in Nat
        BY <1>2, <2>1, SuffixTail
    <2>3. i \in DOMAIN local[p].clusters
        <3>1. Len(local[p].left) <= Len(local[p].clusters)
            BY <2>1 DEF Suffix
        <3>2. \A a, b \in Nat : b > 0 /\ b <= a => (a - b) + 1 \in 1 .. a
            OBVIOUS
        <3>3. i \in 1 .. Len(local[p].clusters)
            BY <2>2, <3>1, <3>2
        <3> QED BY <1>2, <3>3, LenProperties
    <2> QED BY <2>2, <2>3 DEF Observed
<1>7. work' = work /\ Observing(work', local'[p], todo'[p])
    BY <1>1, <1>2, <1>3, <1>4, <1>5, <1>6, ObservingTakes
<1> QED BY <1>1, <1>4, <1>7

LEMMA ObserveNext ==
    ASSUME BaseInv, OneClient, ProgressInv, GatherInv, ObserveInv, [Next]_vars
    PROVE  ObserveInv'
<1> SUFFICES ASSUME NEW p \in Client, pc'[p] = "loop", Observed(local'[p])
             PROVE  durable' = work' /\ Observing(work', local'[p], todo'[p])
    BY DEF ObserveInv, Observing, Observed, Gathered, Stmts, Idles
<1>1. local[p] \in Local /\ Progress(pc[p], local[p], todo[p])
    BY BatchLocal DEF ProgressInv
<1>2. CASE ResolveNodes(p)
    <2> DEFINE seen(e) == \E r \in Record : local[p].found[r] = e
               snap == [e \in Entity |->
                   IF seen(e) THEN [status |-> View(p).status[e], into |-> View(p).into[e]]
                   ELSE [status |-> "absent", into |-> NoEntity]]
    <2>1. Continue(p, "loop", <<>>, [local[p] EXCEPT !.snap = snap]) /\ UNCHANGED storeVars
          /\ pc[p] = "nodes"
        BY <1>2 DEF ResolveNodes, At
    <2>2. View(p) = work /\ durable = work
        BY <2>1, AloneSees
    <2>3. \A e \in Entity : seen(e) => work.status[e] = snap[e].status /\ work.into[e] = snap[e].into
        BY <2>2
    <2> HIDE DEF snap
    <2>4. todo'[p] = <<>> /\ local'[p] = [local[p] EXCEPT !.snap = snap]
        BY <2>1, AloneReads
    <2>5. local'[p].found = local[p].found /\ local'[p].rows = local[p].rows /\ local'[p].snap = snap
        BY <1>1, <2>4 DEF Local
    <2>6. local[p].rows = {}
        BY <1>1, <2>1 DEF Progress, BatchPC
    <2> QED BY <2>1, <2>2, <2>3, <2>4, <2>5, <2>6, StmtsOfTuples DEF Observing, storeVars
<1>3. CASE Handler(p)
    <2>1. local'[p].clusters = local[p].clusters /\ local'[p].found = local[p].found
          /\ pc[p] = "loop"
        BY <1>3, ClusterTaken DEF TakesUp
    <2>2. Observed(local[p])
        BY <2>1 DEF Observed
    <2>3. UNCHANGED <<durable, work>> /\ Observing(work, local'[p], todo'[p])
        BY <1>3, <2>2, ObservedHandler
    <2> QED BY <2>1, <2>2, <2>3 DEF ObserveInv
<1>4. CASE Write(p) /\ pc'[p] = pc[p] /\ local'[p] = local[p]
    BY <1>4, ObservedWrite DEF ObserveInv
<1>5. CASE UNCHANGED vars
    BY <1>5 DEF vars, ObserveInv
<1>6. ~ResolveLookup(p)
    <2>1. ASSUME ResolveLookup(p) PROVE FALSE
        <3>1. PICK l : Continue(p, "nodes", <<>>, l)
            BY <2>1 DEF ResolveLookup
        <3> QED BY <3>1, AloneReads
    <2> QED BY <2>1
<1> QED BY <1>2, <1>3, <1>4, <1>5, <1>6, LoopSteps

\* A step of a batch that observes.
ReplayStep ==
    \A p \in Client :
        (/\ pc[p] = "loop"
         /\ \A i \in DOMAIN local[p].clusters :
                Gathered(local[p].found, local[p].clusters[i].members))
            => UNCHANGED <<durable, work>>

LEMMA ReplayNext ==
    ASSUME BaseInv, OneClient, ProgressInv, GatherInv, ObserveInv, [Next]_vars
    PROVE  ReplayStep
<1> SUFFICES ASSUME NEW p \in Client, pc[p] = "loop", Observed(local[p])
             PROVE  UNCHANGED <<durable, work>>
    BY DEF ReplayStep, Observed
<1>1. durable = work /\ local[p].rows = {} /\ work \in Graph /\ View(p) = work
    BY AloneSees DEF ObserveInv, Observing, BaseInv, IInv, StoreInv, AgreeingGraph
<1>2. CASE ResolveFinish(p)
    BY <1>1, <1>2, FlushNothing DEF ResolveFinish, Flush, Commit, storeVars
<1>3. CASE Fail(p)
    BY <1>1, <1>3 DEF Fail, Commit, storeVars
<1>4. CASE UNCHANGED vars
    BY <1>4 DEF vars
<1> QED BY <1>2, <1>3, <1>4, LoopLeaves, ObservedHandler, ObservedWrite

\* A batch whose clusters all lie in one entity each changes nothing, under any
\* run name and after any history of one client: no node, no record, no edge and
\* no event (#2197).
THEOREM ReplayAlwaysNoop ==
    ASSUME OneClient
    PROVE  Spec => ReplayIsNoop
<1>1. Init => BaseInv /\ ProgressInv /\ GatherInv /\ ObserveInv
    BY InitBase, ProgressInit, GatherInit DEF Init, ObserveInv
<1>2. BaseInv /\ ProgressInv /\ GatherInv /\ ObserveInv /\ [Next]_vars
        => BaseInv' /\ ProgressInv' /\ GatherInv' /\ ObserveInv' /\ [ReplayStep]_vars
    BY NextBase, ProgressNext, GatherNext, ObserveNext, ReplayNext
<1>3. Spec => [][ReplayStep]_vars
    BY <1>1, <1>2, PTL DEF Spec
<1> QED BY <1>3 DEF ReplayIsNoop, ReplayStep

----------------------------------------------------------------------------
(* A batch gathers its clusters. *)

\* The record is the entity's, or will be once the program is written.
Bound(g, prog, r, e) ==
    /\ \/ g.owner[r] = e
       \/ \E s \in Stmts(prog) : s.op = "attach" /\ r \in s.recs
    /\ \A s \in Stmts(prog) : s.op # "move" /\ (s.op = "attach" /\ r \in s.recs => s.ent = e)

\* A cluster the batch is done with is bound to one entity, or kept in memory.
Kept(g, rows, prog, c) ==
    \/ Skipped(c)
    \/ \E w \in rows : w.members = c.members
    \/ \E e \in Entity : \A r \in c.members : Bound(g, prog, r, e)
Together(g, l, prog) ==
    \A i \in 1 .. (Len(l.clusters) - Len(l.left)) : Kept(g, l.rows, prog, l.clusters[i])
TogetherInv ==
    \A p \in Client : local[p].op = "resolve" => Together(work, local[p], todo[p])

LEMMA BoundStep ==
    ASSUME NEW g \in Graph, NEW prog \in Seq(AgreeingStmt), prog # <<>>, NEW h,
           NEW rest \in Seq(AgreeingStmt), Executes(Head(prog), g, h, rest),
           NEW r \in Record, NEW e, Bound(g, prog, r, e)
    PROVE  Bound(h, rest \o Tail(prog), r, e)
<1> DEFINE s == Head(prog)
           more == rest \o Tail(prog)
<1>1. /\ Stmts(prog) = {s} \cup Stmts(Tail(prog))
      /\ Stmts(more) = Stmts(rest) \cup Stmts(Tail(prog))
    BY ProgramStep
<1>2. s.op # "move" /\ (s.op = "attach" /\ r \in s.recs => s.ent = e)
    BY <1>1 DEF Bound
<1>3. OwnersGo(s, g, h, rest) /\ Executes(s, g, h, rest)
    BY ExecutesOwner
<1> SUFFICES Bound(h, more, r, e)
    OBVIOUS
<1> HIDE DEF s, more
<1>4. \A t \in Stmts(rest) : t.op # "move" /\ (t.op = "attach" /\ r \in t.recs => t.ent = e)
    BY <1>2, <1>3, StatementsLeft
<1>5. \A t \in Stmts(more) : t.op # "move" /\ (t.op = "attach" /\ r \in t.recs => t.ent = e)
    BY <1>1, <1>4 DEF Bound
<1>6. CASE s.op = "attach" /\ r \in s.recs
    <2>1. PICK q \in s.recs : Gives(s, g, h, rest, q)
        BY <1>3, <1>6 DEF OwnersGo
    <2>2. CASE q = r
        BY <1>2, <1>5, <1>6, <2>1, <2>2 DEF Bound, Gives, Graph
    <2>3. CASE q # r
        <3>1. rest = <<Attach(s.recs \ {q}, s.ent)>>
            BY <1>6, <2>1, <2>3 DEF Gives
        <3>2. Stmts(rest) = {Attach(s.recs \ {q}, s.ent)}
            BY <3>1, StmtsOfTuples
        <3>3. \E t \in Stmts(more) : t.op = "attach" /\ r \in t.recs
            BY <1>1, <1>6, <2>3, <3>2 DEF Attach
        <3> QED BY <1>5, <3>3 DEF Bound
    <2> QED BY <2>2, <2>3
<1>7. CASE ~(s.op = "attach" /\ r \in s.recs)
    <2>1. h.owner[r] = g.owner[r]
        BY <1>3, <1>7 DEF OwnersGo, Gives, Graph
    <2>2. \/ g.owner[r] = e
          \/ \E t \in Stmts(Tail(prog)) : t.op = "attach" /\ r \in t.recs
        BY <1>1, <1>7 DEF Bound
    <2> QED BY <1>1, <1>5, <2>1, <2>2 DEF Bound
<1> QED BY <1>6, <1>7

\* Rows that share no record, all of records that nobody owns.
Loose(g, rows) ==
    /\ \A w \in rows : w.ent \in Entity /\ \A r \in w.members : r \in Record /\ g.owner[r] = NoEntity
    /\ \A w, v \in rows : w = v \/ w.members \cap v.members = {}

LEMMA FlushKeeps ==
    ASSUME NEW g \in Graph, NEW rows, Loose(g, rows), NEW c \in Cluster, Kept(g, rows, <<>>, c)
    PROVE  Kept(BulkWrite(g, rows), {}, <<>>, c)
<1> DEFINE h == BulkWrite(g, rows)
<1>0. c.members \subseteq Record
    BY DEF Cluster
<1>1. \A r \in Record : \A e : h.owner[r] = e => Bound(h, <<>>, r, e)
    BY StmtsOfTuples DEF Bound
<1>2. ASSUME NEW w \in rows, w.members = c.members
      PROVE  Kept(h, {}, <<>>, c)
    <2>1. ASSUME NEW r \in c.members PROVE h.owner[r] = w.ent
        <3>1. PICK v \in rows : r \in v.members /\ h.owner[r] = v.ent
            BY <1>0, <1>2, BulkWriteOwner
        <3>2. v = w
            BY <1>2, <3>1 DEF Loose
        <3> QED BY <3>1, <3>2
    <2>2. w.ent \in Entity
        BY DEF Loose
    <2> HIDE DEF h
    <2> QED BY <1>0, <1>1, <2>1, <2>2 DEF Kept
<1>3. ASSUME NEW e \in Entity, \A r \in c.members : Bound(g, <<>>, r, e)
      PROVE  Kept(h, {}, <<>>, c)
    <2>1. ASSUME NEW r \in c.members PROVE h.owner[r] = e
        <3>1. g.owner[r] = e
            BY <1>3, StmtsOfTuples DEF Bound
        <3>2. e # NoEntity
            BY MaxEntityAssumption DEF Entity, NoEntity
        <3>3. \A v \in rows : r \notin v.members
            BY <3>1, <3>2 DEF Loose
        <3> QED BY <1>0, <3>1, <3>3, BulkWriteOwner
    <2> HIDE DEF h
    <2> QED BY <1>0, <1>1, <2>1 DEF Kept
<1> HIDE DEF h
<1>4. Skipped(c) => Kept(h, {}, <<>>, c)
    BY DEF Kept
<1> QED BY <1>2, <1>3, <1>4 DEF Kept, h

LEMMA GatheringLoose ==
    ASSUME NEW g \in Graph, NEW l, NEW prog, Gathering(g, l, prog), l.rows \subseteq Row
    PROVE  Loose(g, l.rows)
BY DEF Gathering, Loose, Row

\* A cluster that is kept stays kept while the next one is taken up.
LEMMA KeptBehind ==
    ASSUME NEW g \in Graph, NEW l, NEW m, NEW h, NEW prog, TakesUp(l, m, g, h, prog),
           NEW c \in Cluster, c.members \cap Head(l.left).members = {},
           \A e \in Entity : Loose(g, l.rows \cup {NewRow(l, e)}) \/ FoundHere(l) # {} \/ Skipped(Head(l.left)),
           Kept(g, l.rows, <<>>, c)
    PROVE  Kept(h, m.rows, prog, c)
<1>1. CASE Skips(l, m, g, h, prog)
    BY <1>1 DEF Skips
<1>2. CASE Accumulated(l, m, g, h, prog)
    <2>1. PICK e \in Entity :
            \/ m.rows = l.rows \cup {NewRow(l, e)} /\ h = g
            \/ m.rows = {} /\ h = BulkWrite(g, l.rows \cup {NewRow(l, e)})
        BY <1>2 DEF Accumulated
    <2> DEFINE rows == l.rows \cup {NewRow(l, e)}
    <2>2. Kept(g, rows, <<>>, c)
        BY DEF Kept
    <2>3. Loose(g, rows) /\ prog = <<>>
        BY <1>2 DEF Accumulated
    <2> HIDE DEF rows
    <2>4. Kept(BulkWrite(g, rows), {}, <<>>, c)
        BY <2>2, <2>3, FlushKeeps
    <2> QED BY <2>1, <2>2, <2>3, <2>4 DEF rows
<1>3. CASE Writing(l, m, g, h, prog)
    <2>1. PICK e \in Entity : prog = Creates(l, e) \/ prog = Absorbs(l, e) \/ prog = Merges(l, e)
        BY <1>3 DEF Writing
    <2>2. \A s \in Stmts(prog) : s.op # "move" /\ (s.op = "attach" => s.recs = Head(l.left).members)
        BY <2>1, BranchesAttach
    <2>3. m.rows = l.rows /\ h = g
        BY <1>3 DEF Writing
    <2>4. ASSUME NEW r \in c.members, NEW x, Bound(g, <<>>, r, x)
          PROVE  Bound(g, prog, r, x)
        <3>1. g.owner[r] = x
            BY <2>4, StmtsOfTuples DEF Bound
        <3> QED BY <2>2, <3>1 DEF Bound
    <2> QED BY <2>3, <2>4 DEF Kept
<1> QED BY <1>1, <1>2, <1>3 DEF TakesUp

\* The cluster that is taken up.
LEMMA KeptNow ==
    ASSUME NEW g \in Graph, NEW l, NEW m, NEW h, NEW prog, TakesUp(l, m, g, h, prog),
           Head(l.left) \in Cluster,
           \A e \in Entity : \/ Loose(g, l.rows \cup {NewRow(l, e)}) \/ FoundHere(l) # {}
                             \/ Skipped(Head(l.left))
    PROVE  Kept(h, m.rows, prog, Head(l.left))
<1> DEFINE c == Head(l.left)
<1>1. CASE Skips(l, m, g, h, prog)
    BY <1>1 DEF Skips, Kept
<1>2. CASE Accumulated(l, m, g, h, prog)
    <2>1. PICK e \in Entity :
            \/ m.rows = l.rows \cup {NewRow(l, e)} /\ h = g
            \/ m.rows = {} /\ h = BulkWrite(g, l.rows \cup {NewRow(l, e)})
        BY <1>2 DEF Accumulated
    <2> DEFINE rows == l.rows \cup {NewRow(l, e)}
    <2>2. Kept(g, rows, <<>>, c)
        <3>1. NewRow(l, e) \in rows /\ NewRow(l, e).members = c.members
            BY DEF NewRow
        <3> QED BY <3>1 DEF Kept
    <2>3. Loose(g, rows) /\ prog = <<>>
        BY <1>2 DEF Accumulated
    <2> HIDE DEF rows
    <2>4. Kept(BulkWrite(g, rows), {}, <<>>, c)
        BY <2>2, <2>3, FlushKeeps
    <2> QED BY <2>1, <2>2, <2>3, <2>4 DEF rows
<1>3. CASE Writing(l, m, g, h, prog)
    <2>1. PICK e \in Entity : prog = Creates(l, e) \/ prog = Absorbs(l, e) \/ prog = Merges(l, e)
        BY <1>3 DEF Writing
    <2>2. /\ \A s \in Stmts(prog) : s.op # "move" /\ (s.op = "attach" => s.ent = e)
          /\ \E s \in Stmts(prog) : s.op = "attach" /\ s.recs = c.members
        BY <2>1, BranchesAttach
    <2>3. \A r \in c.members : Bound(h, prog, r, e)
        BY <2>2 DEF Bound
    <2> QED BY <2>3 DEF Kept
<1> QED BY <1>1, <1>2, <1>3 DEF TakesUp

\* The rows of a cluster that nobody owns join those in memory.
LEMMA RowJoins ==
    ASSUME NEW g \in Graph, NEW l \in Local, l.left # <<>>, Partitioned(l.left),
           Gathering(g, l, <<>>), NEW e \in Entity, FoundHere(l) = {}, ~Skipped(Head(l.left))
    PROVE  Loose(g, l.rows \cup {NewRow(l, e)})
<1> DEFINE rows == l.rows \cup {NewRow(l, e)}
           m == Refilled(l, rows)
<1>1. l.left \in Seq(Cluster) /\ l.rows \subseteq Row /\ l.run \in Run
    BY DEF Local
<1>2. SameCall(l, m) /\ m.rows = rows
    BY SameCallUpdates
<1> HIDE DEF m
<1>3. Accumulated(l, m, g, g, <<>>)
    BY <1>2 DEF Accumulated
<1>4. TakesUp(l, m, g, g, <<>>)
    BY <1>2, <1>3 DEF TakesUp, SameCall
<1>5. Gathering(g, m, <<>>)
    BY <1>1, <1>4, GatheringTakes
<1>6. NewRow(l, e) \in Row
    <2>1. Head(l.left) \in Cluster
        BY <1>1, HeadApart
    <2>2. Evidence(Head(l.left), e, Head(l.left).members, l.run) \subseteq Edge
        BY <1>1, EvidenceType
    <2> QED BY <2>1, <2>2 DEF NewRow, Row, Cluster
<1>7. m.rows \subseteq Row
    BY <1>1, <1>2, <1>6
<1> QED BY <1>2, <1>5, <1>7, GatheringLoose

LEMMA TogetherTakes ==
    ASSUME NEW g \in Graph, NEW l \in Local, NEW m, NEW h, NEW prog,
           Suffix(l.left, l.clusters), Partitioned(l.clusters), Partitioned(l.left),
           Gathering(g, l, <<>>), Together(g, l, <<>>), TakesUp(l, m, g, h, prog)
    PROVE  Together(h, m, prog)
<1> DEFINE behind == Len(l.clusters) - Len(l.left)
<1>1. l.left \in Seq(Cluster) /\ l.clusters \in Seq(Cluster) /\ l.left # <<>>
    BY DEF Local, TakesUp
<1>2. /\ Len(m.left) = Len(l.left) - 1 /\ m.clusters = l.clusters
      /\ Len(l.left) \in Nat /\ Len(l.left) > 0 /\ Len(l.clusters) \in Nat
      /\ Head(l.left) = l.clusters[behind + 1]
      /\ Len(l.left) <= Len(l.clusters)
    <2>1. m.left = Tail(l.left) /\ m.clusters = l.clusters
        BY DEF TakesUp
    <2> QED BY <1>1, <2>1, SuffixTail DEF Suffix
<1>3. \A e \in Entity : \/ Loose(g, l.rows \cup {NewRow(l, e)}) \/ FoundHere(l) # {}
                        \/ Skipped(Head(l.left))
    BY <1>1, RowJoins
<1>4. Head(l.left) \in Cluster
    BY <1>1, HeadApart
<1>5. \A a, b \in Nat : a <= b => \A i \in 1 .. (b - (a - 1)) : i = (b - a) + 1 \/ i \in 1 .. (b - a)
    OBVIOUS
<1>6. \A a, b \in Nat : a > 0 /\ a <= b => /\ (b - a) + 1 \in 1 .. b
                                           /\ \A i \in 1 .. (b - a) : i \in 1 .. b /\ i # (b - a) + 1
    OBVIOUS
<1>7. DOMAIN l.clusters = 1 .. Len(l.clusters)
    BY <1>1, LenProperties
<1>8. ASSUME NEW i \in 1 .. behind PROVE Kept(h, m.rows, prog, l.clusters[i])
    <2>1. i \in DOMAIN l.clusters /\ behind + 1 \in DOMAIN l.clusters /\ i # behind + 1
        BY <1>2, <1>6, <1>7
    <2>2. l.clusters[i].members \cap l.clusters[behind + 1].members = {}
        BY <2>1 DEF Partitioned
    <2>3. l.clusters[i] \in Cluster
        BY <1>1, <2>1
    <2>4. Kept(g, l.rows, <<>>, l.clusters[i])
        BY DEF Together
    <2> QED BY <1>2, <1>3, <2>2, <2>3, <2>4, KeptBehind
<1>9. Kept(h, m.rows, prog, l.clusters[behind + 1])
    BY <1>2, <1>3, <1>4, KeptNow
<1>10. ASSUME NEW i \in 1 .. (Len(m.clusters) - Len(m.left)) PROVE i = behind + 1 \/ i \in 1 .. behind
    BY <1>2, <1>5
<1> HIDE DEF behind
<1> QED BY <1>2, <1>8, <1>9, <1>10 DEF Together

LEMMA TogetherGoesOn ==
    ASSUME BaseInv, OneClient, NEW p \in Client, NEW next, NEW prog, NEW l,
           Continue(p, next, prog, l), l.op = "resolve" => Together(work', l, prog)
    PROVE  TogetherInv'
<1>1. ASSUME NEW q \in Client PROVE local'[q] = l /\ todo'[q] = prog
    BY AloneReads
<1>2. ASSUME NEW q \in Client, local'[q].op = "resolve"
      PROVE  Together(work', local'[q], todo'[q])
    BY <1>1, <1>2
<1> QED BY <1>2 DEF TogetherInv, Together, Kept, Skipped, Bound, Stmts

\* The merge by shared field sends a cluster's records where it sends one.
LEMMA RemapKeeps ==
    ASSUME NEW g \in Graph, NEW remap \in [Entity -> Entity], NEW c \in Cluster,
           Kept(g, {}, <<>>, c)
    PROVE  Kept(RemapEntities(g, remap), {}, <<>>, c)
<1> DEFINE h == RemapEntities(g, remap)
<1>1. \A r \in Record : h.owner[r] = IF g.owner[r] = NoEntity THEN NoEntity ELSE remap[g.owner[r]]
    BY DEF RemapEntities, Graph
<1> HIDE DEF h
<1>2. ASSUME NEW e \in Entity, \A r \in c.members : Bound(g, <<>>, r, e)
      PROVE  Kept(h, {}, <<>>, c)
    <2>1. e # NoEntity /\ remap[e] \in Entity /\ c.members \subseteq Record
        BY MaxEntityAssumption DEF Entity, NoEntity, Cluster
    <2>2. \A r \in c.members : g.owner[r] = e
        BY <1>2, StmtsOfTuples DEF Bound
    <2>3. \A r \in c.members : h.owner[r] = remap[e]
        BY <1>1, <2>1, <2>2
    <2>4. \A r \in c.members : Bound(h, <<>>, r, remap[e])
        BY <2>3, StmtsOfTuples DEF Bound
    <2> QED BY <2>1, <2>4 DEF Kept
<1> QED BY <1>2 DEF Kept, h

LEMMA TogetherBatch ==
    ASSUME BaseInv, OneClient, ProgressInv, GatherInv, TogetherInv, NEW p \in Client,
           \/ ResolveLookup(p) \/ ResolveNodes(p) \/ Handler(p) \/ ResolveFinish(p)
           \/ DetMergeRead(p) \/ DetMergeWrite(p)
    PROVE  TogetherInv'
<1>1. /\ local[p] \in Local /\ Progress(pc[p], local[p], todo[p])
      /\ local[p].clusters \in Seq(Cluster) /\ local[p].left \in Seq(Cluster)
      /\ View(p) = work /\ work \in Graph
      /\ Len(local[p].clusters) \in Nat
    BY BatchLocal, AloneSees, LenProperties
    DEF ProgressInv, Local, BaseInv, IInv, StoreInv, AgreeingGraph
<1>2. ASSUME ResolveLookup(p) \/ ResolveNodes(p) PROVE TogetherInv'
    <2>1. PICK next, x : \/ Continue(p, next, <<>>, [local[p] EXCEPT !.found = x])
                         \/ Continue(p, next, <<>>, [local[p] EXCEPT !.snap = x])
        BY <1>2 DEF ResolveLookup, ResolveNodes
    <2>2. local[p].left = local[p].clusters
        BY <1>1, <1>2 DEF ResolveLookup, ResolveNodes, At, Progress, BatchPC
    <2>3. ASSUME NEW l, l.left = local[p].left, l.clusters = local[p].clusters
          PROVE  Together(work', l, <<>>)
        <3>1. 1 .. (Len(l.clusters) - Len(l.left)) = {}
            BY <1>1, <2>2, <2>3
        <3> QED BY <3>1 DEF Together
    <2>4. \A y : /\ [local[p] EXCEPT !.found = y].left = local[p].left
                 /\ [local[p] EXCEPT !.found = y].clusters = local[p].clusters
                 /\ [local[p] EXCEPT !.snap = y].left = local[p].left
                 /\ [local[p] EXCEPT !.snap = y].clusters = local[p].clusters
        BY BatchLocal
    <2>5. Together(work', [local[p] EXCEPT !.found = x], <<>>)
        BY <2>3, <2>4
    <2>6. Together(work', [local[p] EXCEPT !.snap = x], <<>>)
        BY <2>3, <2>4
    <2> QED BY <2>1, <2>5, <2>6, TogetherGoesOn
<1>3. ASSUME Handler(p) PROVE TogetherInv'
    <2>1. /\ pc[p] = "loop" /\ todo[p] = <<>> /\ pc'[p] = "loop"
          /\ TakesUp(local[p], local'[p], work, work', todo'[p])
        BY <1>3, ClusterTaken
    <2>2. local[p].op = "resolve" /\ Suffix(local[p].left, local[p].clusters)
          /\ Partitioned(local[p].clusters)
        BY <1>1, <2>1 DEF Progress, BatchPC
    <2>3. Partitioned(local[p].left) /\ Gathering(work, local[p], <<>>)
        BY <1>1, <2>1, <2>2, SuffixPartitioned DEF GatherInv
    <2>4. Together(work, local[p], <<>>)
        BY <2>1, <2>2 DEF TogetherInv
    <2>5. Together(work', local'[p], todo'[p])
        BY <1>1, <2>1, <2>2, <2>3, <2>4, TogetherTakes
    <2>6. ASSUME NEW q \in Client PROVE Together(work', local'[q], todo'[q])
        BY <2>5 DEF OneClient
    <2> QED BY <2>6 DEF TogetherInv, Together, Kept, Skipped, Bound, Stmts
<1> DEFINE Stays(g, l) == \A i \in DOMAIN local[p].clusters :
                Kept(work, local[p].rows, <<>>, local[p].clusters[i])
                    => Kept(g, l.rows, <<>>, local[p].clusters[i])
<1>4. ASSUME NEW next, NEW l, Continue(p, next, <<>>, l), todo[p] = <<>>,
             l.op = local[p].op, l.left = local[p].left, l.clusters = local[p].clusters,
             l.left = <<>>, Stays(work', l)
      PROVE  TogetherInv'
    <2>1. Len(l.left) = 0
        BY <1>4
    <2>2. ASSUME l.op = "resolve" PROVE Together(work', l, <<>>)
        <3>1. Together(work, local[p], <<>>)
            BY <1>4, <2>2 DEF TogetherInv
        <3>2. 1 .. (Len(l.clusters) - Len(l.left)) = DOMAIN local[p].clusters
            BY <1>1, <1>4, <2>1, LenProperties
        <3> QED BY <1>4, <3>1, <3>2 DEF Together
    <2> QED BY <1>4, <2>2, TogetherGoesOn
<1>5. ASSUME ResolveFinish(p) PROVE TogetherInv'
    <2> DEFINE l == [local[p] EXCEPT !.rows = {}]
               rows == local[p].rows
    <2>1. PICK next : Continue(p, next, <<>>, l)
        BY <1>5 DEF ResolveFinish
    <2>2. pc[p] = "loop" /\ todo[p] = <<>> /\ local[p].left = <<>>
        BY <1>5 DEF ResolveFinish, At
    <2>3. /\ l.op = local[p].op /\ l.left = local[p].left /\ l.clusters = local[p].clusters
          /\ l.rows = {}
        BY BatchLocal
    <2> HIDE DEF l
    <2>4. Loose(work, rows)
        <3>1. Gathering(work, local[p], <<>>) /\ rows \subseteq Row
            BY <1>1, <2>2 DEF GatherInv, Local
        <3> QED BY <1>1, <3>1, GatheringLoose
    <2>5. (rows = {} /\ work' = work) \/ work' = BulkWrite(work, rows)
        BY <1>1, <1>5 DEF ResolveFinish, Flush, Commit, storeVars
    <2>6. Stays(work', l)
        <3>1. ASSUME NEW i \in DOMAIN local[p].clusters PROVE local[p].clusters[i] \in Cluster
            BY <1>1
        <3>2. CASE rows = {} /\ work' = work
            BY <2>3, <3>2
        <3>3. CASE work' = BulkWrite(work, rows)
            BY <1>1, <2>3, <2>4, <3>1, <3>3, FlushKeeps
        <3> QED BY <2>5, <3>2, <3>3
    <2> QED BY <1>4, <2>1, <2>2, <2>3, <2>6
<1>6. ASSUME DetMergeRead(p) PROVE TogetherInv'
    <2>1. PICK next, x : Continue(p, next, <<>>, [local[p] EXCEPT !.remap = x]) /\ work' = work
        BY <1>6 DEF DetMergeRead, storeVars
    <2> DEFINE l == [local[p] EXCEPT !.remap = x]
    <2>2. todo[p] = <<>> /\ local[p].left = <<>>
        BY <1>1, <1>6 DEF DetMergeRead, At, Progress, BatchPC
    <2>3. /\ l.op = local[p].op /\ l.left = local[p].left /\ l.clusters = local[p].clusters
          /\ l.rows = local[p].rows
        BY BatchLocal
    <2> HIDE DEF l
    <2>4. Stays(work', l)
        BY <2>1, <2>3
    <2> QED BY <1>4, <2>1, <2>2, <2>3, <2>4 DEF l
<1>7. ASSUME DetMergeWrite(p) PROVE TogetherInv'
    <2>1. /\ Continue(p, "return", <<>>, local[p])
          /\ work' = RemapEntities(work, local[p].remap)
        BY <1>1, <1>7, ExecWork DEF DetMergeWrite
    <2>2. todo[p] = <<>> /\ local[p].left = <<>> /\ local[p].rows = {}
        BY <1>1, <1>7 DEF DetMergeWrite, At, Progress, BatchPC
    <2>3. local[p].remap \in [Entity -> Entity]
        BY <1>1 DEF Local
    <2>4. Stays(work', local[p])
        BY <1>1, <2>1, <2>2, <2>3, RemapKeeps
    <2> QED BY <1>4, <2>1, <2>2, <2>4
<1> QED BY <1>2, <1>3, <1>5, <1>6, <1>7

LEMMA TogetherNext ==
    ASSUME BaseInv, OneClient, ProgressInv, GatherInv, TogetherInv, [Next]_vars
    PROVE  TogetherInv'
<1>1. ASSUME NEW p \in Client, Invoke(p) PROVE TogetherInv'
    <2>1. PICK first \in {"lookup", "check", "split", "target", "find", "scan"} : \E l :
               /\ Begin(p, first, l)
               /\ \/ first # "lookup" /\ l.op # "resolve"
                  \/ /\ first = "lookup" /\ l.op = "resolve" /\ l.rows = {}
                     /\ \E b \in Batches : l.clusters = b.clusters /\ l.left = b.clusters
        BY <1>1, InvokeBatch
    <2>2. PICK l :
               /\ Begin(p, first, l)
               /\ \/ first # "lookup" /\ l.op # "resolve"
                  \/ /\ first = "lookup" /\ l.op = "resolve" /\ l.rows = {}
                     /\ \E b \in Batches : l.clusters = b.clusters /\ l.left = b.clusters
        BY <2>1
    <2>3. ASSUME l.op = "resolve" PROVE Together(work', l, <<>>)
        <3>1. PICK b \in Batches : l.clusters = b.clusters /\ l.left = b.clusters
            BY <2>2, <2>3
        <3>2. Len(b.clusters) \in Nat
            BY BatchesAssumption, LenProperties
        <3>3. 1 .. (Len(l.clusters) - Len(l.left)) = {}
            BY <3>1, <3>2
        <3> QED BY <3>3 DEF Together
    <2> QED BY <2>2, <2>3, TogetherGoesOn DEF Begin
<1>2. ASSUME NEW p \in Client, Write(p) PROVE TogetherInv'
    <2>1. PICK rest \in Seq(AgreeingStmt), h \in AgreeingGraph :
            Executes(Statement(p), work, h, rest) /\ work' = h /\ Then(p, rest)
        BY <1>2, AloneWrites
    <2>2. /\ todo[p] \in Seq(AgreeingStmt) /\ todo[p] # <<>> /\ work \in Graph
          /\ todo'[p] = rest \o Tail(todo[p]) /\ local' = local
        BY <1>2, <2>1, AloneWrites DEF Then, BaseInv, IInv, CallInv, AgreeingGraph
    <2>3. ASSUME NEW c \in Cluster, NEW rows, Kept(work, rows, todo[p], c)
          PROVE  Kept(work', rows, todo'[p], c)
        <3>1. \A r \in Record : \A e : Bound(work, todo[p], r, e) => Bound(work', todo'[p], r, e)
            BY <2>1, <2>2, BoundStep DEF Statement
        <3> QED BY <2>3, <3>1 DEF Kept, Cluster
    <2>4. ASSUME local'[p].op = "resolve"
          PROVE  Together(work', local'[p], todo'[p])
        <3>1. Together(work, local[p], todo[p]) /\ local[p] \in Local /\ Progress(pc[p], local[p], todo[p])
            BY <2>2, <2>4, BatchLocal DEF TogetherInv, ProgressInv
        <3>2. Len(local[p].left) \in Nat /\ Len(local[p].clusters) \in Nat
              /\ local[p].clusters \in Seq(Cluster)
              /\ DOMAIN local[p].clusters = 1 .. Len(local[p].clusters)
            BY <3>1, LenProperties DEF Local
        <3>3. \A a, b \in Nat : 1 .. (b - a) \subseteq 1 .. b
            OBVIOUS
        <3>4. \A i \in 1 .. (Len(local[p].clusters) - Len(local[p].left)) :
                local[p].clusters[i] \in Cluster
            BY <3>2, <3>3
        <3> QED BY <2>2, <2>3, <3>1, <3>4 DEF Together
    <2>5. ASSUME NEW q \in Client, local'[q].op = "resolve"
          PROVE  Together(work', local'[q], todo'[q])
        BY <2>4, <2>5 DEF OneClient
    <2> QED BY <2>5 DEF TogetherInv, Together, Kept, Skipped, Bound, Stmts
<1>3. ASSUME NEW p \in Client, Return(p) \/ Fail(p) PROVE TogetherInv'
    <2>1. Idle.op = "none"
        BY DEF Idle
    <2> QED BY <1>3, <2>1, TogetherGoesOn DEF Return, Fail
<1>4. CASE UNCHANGED vars
    BY <1>4 DEF vars, TogetherInv, Together, Kept, Bound, Stmts
<1>5. ASSUME NEW p \in Client, pc[p] \in PC \ (BatchPC \cup {"return"}),
             \E next \in PC \ BatchPC : \E prog, l :
                Continue(p, next, prog, l) /\ l.op \in {local[p].op, "none"}
      PROVE  TogetherInv'
    <2>1. PICK next \in PC \ BatchPC : \E prog, l :
                Continue(p, next, prog, l) /\ l.op \in {local[p].op, "none"}
        BY <1>5
    <2>2. PICK prog, l : Continue(p, next, prog, l) /\ l.op \in {local[p].op, "none"}
        BY <2>1
    <2>3. l.op # "resolve"
        BY <1>5, <2>2 DEF ProgressInv, Progress
    <2> QED BY <2>2, <2>3, TogetherGoesOn
<1>6. ASSUME NEW p \in Client, Read(p) PROVE TogetherInv'
    BY <1>5, <1>6, TogetherBatch, ElsewhereReads DEF Read, Handler
<1>7. ASSUME NEW p \in Client, DetMergeFails(p) PROVE TogetherInv'
    <2>1. todo[p] = <<>> /\ Continue(p, "return", <<>>, local[p]) /\ work' = work
        BY <1>7, MergeFailure DEF storeVars
    <2>2. local[p].op = "resolve" => Together(work', local[p], <<>>)
        BY <2>1 DEF TogetherInv
    <2> QED BY <2>1, <2>2, TogetherGoesOn
<1> QED BY <1>1, <1>2, <1>3, <1>4, <1>6, <1>7 DEF Next, Step, Done

LEMMA TogetherInit ==
    ASSUME Init
    PROVE  TogetherInv
BY DEF Init, TogetherInv, Idle

LEMMA TogetherGathers ==
    ASSUME BaseInv, OneClient, ProgressInv, TogetherInv
    PROVE  BatchGathers
<1> SUFFICES ASSUME NEW p \in Client, Returned(p, "resolve"),
                    NEW i \in DOMAIN local[p].clusters, ~Skipped(local[p].clusters[i])
             PROVE  Gathered(durable.owner, local[p].clusters[i].members)
    BY DEF BatchGathers
<1>1. pc[p] = "return" /\ todo[p] = <<>> /\ local[p].op = "resolve"
    BY DEF Returned, At
<1>2. local[p].left = <<>> /\ local[p].rows = {} /\ View(p) = work /\ View(p) = durable
    BY <1>1, AloneSees DEF ProgressInv, Progress
<1>3. local[p].clusters \in Seq(Cluster) /\ DOMAIN local[p].clusters = 1 .. Len(local[p].clusters)
      /\ Len(local[p].clusters) \in Nat
    BY BatchLocal, LenProperties DEF Local
<1>4. Len(local[p].left) = 0
    BY <1>2
<1>5. i \in 1 .. (Len(local[p].clusters) - Len(local[p].left))
    BY <1>3, <1>4
<1>6. Kept(durable, {}, <<>>, local[p].clusters[i])
    BY <1>1, <1>2, <1>5 DEF TogetherInv, Together
<1>7. PICK e \in Entity : \A r \in local[p].clusters[i].members : Bound(durable, <<>>, r, e)
    BY <1>6 DEF Kept
<1> QED BY <1>7, StmtsOfTuples DEF Bound, Gathered

\* When a batch returns, the records of each of its clusters are in one entity,
\* whatever the graph it met, whatever its own fast path held in memory, and
\* however many calls failed half way before it.
THEOREM BatchAlwaysGathers ==
    ASSUME OneClient
    PROVE  Spec => []BatchGathers
<1>1. Init => BaseInv /\ ProgressInv /\ GatherInv /\ TogetherInv
    BY InitBase, ProgressInit, GatherInit, TogetherInit
<1>2. BaseInv /\ ProgressInv /\ GatherInv /\ TogetherInv /\ [Next]_vars
        => BaseInv' /\ ProgressInv' /\ GatherInv' /\ TogetherInv'
    BY NextBase, ProgressNext, GatherNext, TogetherNext
<1>3. BaseInv /\ ProgressInv /\ TogetherInv => BatchGathers
    BY TogetherGathers
<1> QED BY <1>1, <1>2, <1>3, PTL DEF Spec

----------------------------------------------------------------------------
(* Resolution alone leaves no active entity without records. *)

\* The calls that only resolve batches.
OnlyResolves == Calls \subseteq {"resolve"}
ResolveInv == \A p \in Client : pc[p] \in BatchPC \cup {"idle", "return"}

\* The program is about to take the entity out of use.
Leaving(prog, e) == \E s \in Stmts(prog) : s.op \in {"retire", "absorb"} /\ e \in s.ents

\* An entity that is active, or about to be, is about to leave or has a record
\* that nothing takes away from it.
Filled(g, prog) ==
    \A e \in Entity :
        \/ ~Active(g, e) /\ \A s \in Stmts(prog) : s.op = "node" => s.ent # e
        \/ Leaving(prog, e)
        \/ \E r \in Record : Bound(g, prog, r, e)
FilledInv ==
    /\ \A p \in Client : Filled(work, todo[p])
    /\ Client = {} => Filled(work, <<>>)

LEMMA ResolveOnlyNext ==
    ASSUME BaseInv, OneClient, OnlyResolves, ResolveInv, [Next]_vars
    PROVE  ResolveInv'
<1> USE DEF BatchPC
<1>1. ASSUME NEW p \in Client, NEW next \in BatchPC \cup {"idle", "return"}, NEW prog, NEW l,
             Continue(p, next, prog, l)
      PROVE  ResolveInv'
    BY <1>1, AloneReads DEF ResolveInv
<1>2. ASSUME NEW p \in Client, Invoke(p) PROVE ResolveInv'
    <2>1. PICK first \in {"lookup", "check", "split", "target", "find", "scan"} : \E l :
               /\ Begin(p, first, l)
               /\ \/ first # "lookup" /\ l.op # "resolve"
                  \/ /\ first = "lookup" /\ l.op = "resolve" /\ l.rows = {}
                     /\ \E b \in Batches : l.clusters = b.clusters /\ l.left = b.clusters
        BY <1>2, InvokeBatch
    <2>2. PICK l : Begin(p, first, l) /\ (first = "lookup" \/ l.op # "resolve")
        BY <2>1
    <2>3. first = "lookup"
        BY <2>2 DEF Begin, OnlyResolves
    <2> QED BY <1>1, <2>2, <2>3 DEF Begin
<1>3. ASSUME NEW p \in Client, Write(p) PROVE ResolveInv'
    <2>1. pc' = pc
        BY <1>3, AloneWrites DEF Then
    <2> QED BY <2>1 DEF ResolveInv
<1>4. ASSUME NEW p \in Client, DetMergeFails(p) \/ Return(p) \/ Fail(p) PROVE ResolveInv'
    BY <1>1, <1>4, MergeFailure DEF Return, Fail
<1>5. ASSUME NEW p \in Client, Read(p) PROVE ResolveInv'
    <2>1. pc[p] \notin PC \ (BatchPC \cup {"return"})  \/ pc[p] = "idle"
        BY DEF ResolveInv
    <2>2. pc[p] # "idle"
        BY <1>5 DEF Read, ResolveLookup, ResolveNodes, ResolveSkip, ResolveAccumulate,
            ResolveCreate, ResolveAbsorb, ResolveMerge, ResolveFinish, DetMergeRead,
            DetMergeWrite, AtCluster, MergeCheck, MergeCheckOther, MergeRecords, SplitCheck, ClaimTarget,
            ClaimRecord, MediateFind, MediateFindOther, Rule, MediateAct, StabilizeScan, StabilizeGroup,
            StabilizeLoser, StabilizeNext, At
    <2>3. \/ ResolveLookup(p) \/ ResolveNodes(p) \/ Handler(p) \/ ResolveFinish(p)
          \/ DetMergeRead(p) \/ DetMergeWrite(p)
        BY <1>5, <2>1, <2>2, ElsewhereReads DEF Read, Handler
    <2>4. \E next \in BatchPC \cup {"return"} : \E prog, l : Continue(p, next, prog, l)
        BY <2>3 DEF Handler, ResolveLookup, ResolveNodes, ResolveSkip, ResolveAccumulate,
            ResolveCreate, ResolveAbsorb, ResolveMerge, Resolve, ResolveFinish, DetMergeRead,
            DetMergeWrite
    <2> QED BY <1>1, <2>4
<1>6. CASE UNCHANGED vars
    BY <1>6 DEF vars, ResolveInv
<1> QED BY <1>2, <1>3, <1>4, <1>5, <1>6 DEF Next, Step, Done

\* What a step does to a node it is not the node of.
LEMMA ExecutesActive ==
    ASSUME NEW g \in Graph, NEW s, NEW h, NEW rest, Executes(s, g, h, rest), NEW e, Active(h, e)
    PROVE  Active(g, e) \/ (s.op = "node" /\ s.ent = e)
<1>1. e \in Entity
    BY DEF Active
<1>2. CASE s.op = "node" /\ h = UpsertIdentity(g, s.ent, s.status, s.into)
    BY <1>1, <1>2 DEF UpsertIdentity, Active, Graph
<1>3. CASE \E r \in s.recs : h = UpsertRecord(g, r, s.ent)
    BY <1>1, <1>3 DEF UpsertRecord, Active, Graph
<1>4. CASE \E v \in s.events : h = EmitEvents(g, {v})
    BY <1>1, <1>4 DEF EmitEvents, Active, Graph
<1>5. CASE \E f \in s.ents : h = RetireIdentity(g, f, s.into)
    <2>1. PICK f \in s.ents : h = RetireIdentity(g, f, s.into)
        BY <1>5
    <2>2. CASE e = f
        BY <1>1, <2>1, <2>2 DEF RetireIdentity, Active, Exists, Graph
    <2>3. CASE e # f
        BY <1>1, <2>1, <2>3 DEF RetireIdentity, Active, Exists, Graph
    <2> QED BY <2>2, <2>3
<1>6. CASE \E x \in s.edges : h = AddEdges(g, {x})
    BY <1>1, <1>6 DEF AddEdges, Active, Graph
<1>7. CASE h = AddVerdict(g, s.pair, s.res)
    BY <1>1, <1>7 DEF AddVerdict, Active, Graph
<1> QED BY <1>2, <1>3, <1>4, <1>5, <1>6, <1>7, ExecutesShape

LEMMA RetiredGone ==
    ASSUME NEW g \in Graph, NEW e, NEW in
    PROVE  ~Active(RetireIdentity(g, e, in), e)
BY DEF RetireIdentity, Active, Exists, Graph

\* A statement that takes an entity out of use has done it, or goes on to.
LEMMA LeavingStep ==
    ASSUME NEW g \in Graph, NEW s, NEW h, NEW rest, Executes(s, g, h, rest), NEW e,
           s.op \in {"retire", "absorb"}, e \in s.ents
    PROVE  ~Active(h, e) \/ Leaving(rest, e)
<1>1. CASE s.op = "retire"
    <2>1. PICK f \in s.ents :
            /\ h = RetireIdentity(g, f, s.into)
            /\ rest = IF s.ents = {f} THEN <<>> ELSE <<Retire(s.ents \ {f}, s.into)>>
        BY <1>1 DEF Executes, Vacuous
    <2>2. CASE f = e
        BY <2>1, <2>2, RetiredGone
    <2>3. CASE f # e
        <3>1. Stmts(rest) = {Retire(s.ents \ {f}, s.into)}
            BY <2>1, <2>3, StmtsOfTuples
        <3> QED BY <2>3, <3>1 DEF Leaving, Retire
    <2> QED BY <2>2, <2>3
<1>2. CASE s.op = "absorb"
    <2>1. PICK f \in s.ents :
            rest = <<Retire({f}, s.into), Emit({Ev("merged_with", f, s.into)}),
                     Absorb(s.ents \ {f}, s.into)>>
        BY <1>2 DEF Executes, Vacuous
    <2> DEFINE a == Retire({f}, s.into)
               b == Emit({Ev("merged_with", f, s.into)})
               c == Absorb(s.ents \ {f}, s.into)
    <2>2. a.op = "retire" /\ a.ents = {f} /\ c.op = "absorb" /\ c.ents = s.ents \ {f}
        BY DEF Retire, Absorb
    <2>3. rest = <<a, b, c>>
        BY <2>1
    <2> HIDE DEF a, b, c
    <2>4. Stmts(rest) = {a, b, c}
        BY <2>3, StmtsOfTuples
    <2> QED BY <2>2, <2>4 DEF Leaving
<1> QED BY <1>1, <1>2

LEMMA FilledStep ==
    ASSUME NEW g \in Graph, NEW prog \in Seq(AgreeingStmt), prog # <<>>, NEW h,
           NEW rest \in Seq(AgreeingStmt), Executes(Head(prog), g, h, rest),
           NEW K, Resolved(prog, K), Filled(g, prog)
    PROVE  Filled(h, rest \o Tail(prog))
<1> DEFINE s == Head(prog)
           more == rest \o Tail(prog)
<1>1. /\ Stmts(prog) = {s} \cup Stmts(Tail(prog))
      /\ Stmts(more) = Stmts(rest) \cup Stmts(Tail(prog))
    BY ProgramStep
<1>2. \A t \in Stmts(Tail(prog)) : t.op # "node"
    <2>1. CASE prog \in Seq(Anchored(K))
        <3>1. Tail(prog) \in Seq(Anchored(K))
            BY <2>1, HeadTailProperties
        <3> QED BY <3>1, StmtsType, AnchoredFields
    <2>2. CASE Founding(prog, K)
        <3> DEFINE L == K \cup {Head(prog).ent}
        <3>1. Tail(prog) \in Seq(Anchored(L))
            BY <2>2 DEF Founding
        <3> HIDE DEF L
        <3>2. Stmts(Tail(prog)) \subseteq Anchored(L)
            BY <3>1, StmtsType
        <3> QED BY <3>2, AnchoredFields
    <2> QED BY <2>1, <2>2 DEF Resolved
<1> SUFFICES ASSUME NEW e \in Entity
             PROVE  \/ ~Active(h, e) /\ \A t \in Stmts(more) : t.op = "node" => t.ent # e
                    \/ Leaving(more, e)
                    \/ \E r \in Record : Bound(h, more, r, e)
    BY DEF Filled
<1>3. \A r \in Record : Bound(g, prog, r, e) => Bound(h, more, r, e)
    BY BoundStep
<1>4. Executes(s, g, h, rest)
    OBVIOUS
<1> HIDE DEF s, more
<1>5. \A t \in Stmts(more) : t.op # "node"
    BY <1>1, <1>2, <1>4, StatementsLeft
<1>6. CASE ~Active(g, e) /\ \A t \in Stmts(prog) : t.op = "node" => t.ent # e
    BY <1>1, <1>4, <1>5, <1>6, ExecutesActive
<1>7. CASE Leaving(prog, e)
    <2>1. PICK t \in Stmts(prog) : t.op \in {"retire", "absorb"} /\ e \in t.ents
        BY <1>7 DEF Leaving
    <2>2. CASE t \in Stmts(Tail(prog))
        BY <1>1, <2>1, <2>2 DEF Leaving
    <2>3. CASE t = s
        BY <1>1, <1>4, <1>5, <2>1, <2>3, LeavingStep DEF Leaving
    <2> QED BY <1>1, <2>2, <2>3
<1>8. CASE \E r \in Record : Bound(g, prog, r, e)
    BY <1>3, <1>8
<1> QED BY <1>6, <1>7, <1>8 DEF Filled

\* Rows of new entities, each with a record.
LEMMA FlushFills ==
    ASSUME NEW g \in Graph, NEW rows, Loose(g, rows), \A w \in rows : w.members # {},
           Filled(g, <<>>)
    PROVE  Filled(BulkWrite(g, rows), <<>>)
<1> DEFINE h == BulkWrite(g, rows)
           ents == {w.ent : w \in rows}
<1> SUFFICES ASSUME NEW e \in Entity, Active(h, e)
             PROVE  \E r \in Record : Bound(h, <<>>, r, e)
    BY StmtsOfTuples DEF Filled
<1>1. \A r \in Record : h.owner[r] = e => Bound(h, <<>>, r, e)
    BY StmtsOfTuples DEF Bound
<1>2. h.status[e] = IF e \in ents THEN "active" ELSE g.status[e]
    BY DEF BulkWrite, Graph
<1>3. CASE e \in ents
    <2>1. PICK w \in rows : w.ent = e
        BY <1>3
    <2>2. PICK r \in w.members : r \in Record
        BY DEF Loose
    <2>3. PICK v \in rows : r \in v.members /\ h.owner[r] = v.ent
        BY <2>2, BulkWriteOwner
    <2>4. v = w
        BY <2>2, <2>3 DEF Loose
    <2> HIDE DEF h
    <2> QED BY <1>1, <2>1, <2>2, <2>3, <2>4
<1>4. CASE e \notin ents
    <2>1. Active(g, e)
        BY <1>2, <1>4 DEF Active
    <2>2. PICK r \in Record : Bound(g, <<>>, r, e)
        BY <2>1, StmtsOfTuples DEF Filled, Leaving
    <2>3. g.owner[r] = e /\ e # NoEntity
        BY <2>2, StmtsOfTuples, MaxEntityAssumption DEF Bound, Entity, NoEntity
    <2>4. \A w \in rows : r \notin w.members
        BY <2>3 DEF Loose
    <2>5. h.owner[r] = e
        BY <2>3, <2>4, BulkWriteOwner
    <2> HIDE DEF h
    <2> QED BY <1>1, <2>5
<1> QED BY <1>3, <1>4

\* What a program that resolves a cluster does to entities.
LEMMA BranchLeaves ==
    ASSUME NEW l, NEW e
    PROVE  /\ \A s \in Stmts(Creates(l, e)) \cup Stmts(Absorbs(l, e)) \cup Stmts(Merges(l, e)) :
                  s.op = "node" => s.ent = e
           /\ \A f \in FoundHere(l) \ {e} : Leaving(Merges(l, e), f)
<1> DEFINE Fine(s) == s.op = "node" => s.ent = e
<1>1. /\ \A x, y : Fine(Node(e, x, y))
      /\ \A x, y, z : Fine(Carry(x, y, z))
      /\ \A x : Fine(Emit(x)) /\ Fine(Link(x))
      /\ \A x, y : Fine(Absorb(x, y)) /\ Fine(Attach(x, y))
    BY DEF Node, Emit, Link, Absorb, Carry, Attach
<1> HIDE DEF Fine
<1>2. \A s \in Stmts(Creates(l, e)) : Fine(s)
    <2>1. Stmts(Creates(l, e)) =
                {Node(e, "active", NoEntity), Emit({Ev("created", e, NoEntity)}),
                 Attach(Head(l.left).members, e),
                 Link(Evidence(Head(l.left), e, Head(l.left).members, l.run))}
        BY BranchStmts
    <2> QED BY <1>1, <2>1
<1>3. \A s \in Stmts(Absorbs(l, e)) : Fine(s)
    <2>1. Stmts(Absorbs(l, e)) =
                {Node(e, Refreshed(l.snap[e]), l.snap[e].into),
                 Emit({Ev("absorbed_record", e, NoEntity) : r \in Added(l)}),
                 Attach(Head(l.left).members, e),
                 Link(Evidence(Head(l.left), e, Added(l), l.run))}
        BY BranchStmts
    <2> QED BY <1>1, <2>1
<1>4. /\ \A s \in Stmts(Merges(l, e)) : Fine(s)
      /\ Absorb(FoundHere(l) \ {e}, e) \in Stmts(Merges(l, e))
    <2>1. Stmts(Merges(l, e)) =
                {Node(e, "active", NoEntity), Emit({Ev("merged_with", e, NoEntity)}),
                 Absorb(FoundHere(l) \ {e}, e),
                 Attach(Head(l.left).members, e),
                 Link(Evidence(Head(l.left), e, Head(l.left).members, l.run)),
                 Carry(FoundHere(l) \ {e}, e, l.run)}
        BY BranchStmts
    <2> QED BY <1>1, <2>1
<1>6. \A f \in FoundHere(l) \ {e} : Leaving(Merges(l, e), f)
    BY <1>4 DEF Leaving, Absorb
<1> QED BY <1>2, <1>3, <1>4, <1>6 DEF Fine

LEMMA FilledTakes ==
    ASSUME NEW g \in Graph, NEW l \in Local, NEW m, NEW h, NEW prog,
           Partitioned(l.left), Gathering(g, l, <<>>), Filled(g, <<>>), TakesUp(l, m, g, h, prog)
    PROVE  Filled(h, prog)
<1> DEFINE c == Head(l.left)
<1>1. l.left \in Seq(Cluster) /\ l.left # <<>>
    BY DEF Local, TakesUp
<1>2. /\ c \in Cluster /\ c.members \subseteq Record
      /\ \A r \in c.members : l.found[r] = g.owner[r]
    <2>1. c \in Cluster /\ c.members \subseteq BatchRecords(l.left)
        BY <1>1, HeadApart
    <2> QED BY <2>1 DEF Cluster, Gathering
<1>3. CASE Skips(l, m, g, h, prog)
    BY <1>3 DEF Skips
<1>4. CASE Accumulated(l, m, g, h, prog)
    <2>1. PICK e \in Entity : h = g \/ h = BulkWrite(g, l.rows \cup {NewRow(l, e)})
        BY <1>4 DEF Accumulated
    <2>2. prog = <<>> /\ ~Skipped(c) /\ FoundHere(l) = {}
        BY <1>4 DEF Accumulated
    <2> DEFINE rows == l.rows \cup {NewRow(l, e)}
    <2>3. Loose(g, rows)
        BY <1>1, <2>2, RowJoins
    <2>4. \A w \in rows : w.members # {}
        BY <2>2 DEF Gathering, NewRow, Skipped
    <2> HIDE DEF rows
    <2>5. Filled(BulkWrite(g, rows), <<>>)
        BY <2>3, <2>4, FlushFills
    <2> QED BY <2>1, <2>2, <2>5 DEF rows
<1>5. CASE Writing(l, m, g, h, prog)
    <2>1. /\ ~Skipped(c) /\ h = g
          /\ \/ FoundHere(l) = {} /\ \E e \in Entity : prog = Creates(l, e)
             \/ \E e \in Entity : FoundHere(l) = {e} /\ prog = Absorbs(l, e)
             \/ \E e \in Entity : prog = Merges(l, e)
        BY <1>5 DEF Writing
    <2>2. PICK e \in Entity :
             \/ FoundHere(l) = {} /\ prog = Creates(l, e)
             \/ FoundHere(l) = {e} /\ prog = Absorbs(l, e)
             \/ prog = Merges(l, e)
        BY <2>1
    <2>3. /\ \A s \in Stmts(prog) : /\ s.op # "move"
                                    /\ s.op = "attach" => s.recs = c.members /\ s.ent = e
          /\ \E s \in Stmts(prog) : s.op = "attach" /\ s.recs = c.members /\ s.ent = e
        <3>1. prog = Creates(l, e) \/ prog = Absorbs(l, e) \/ prog = Merges(l, e)
            BY <2>2
        <3> QED BY <3>1, BranchesAttach
    <2>4. \A s \in Stmts(prog) : s.op = "node" => s.ent = e
        BY <2>2, BranchLeaves
    <2>5. \E r \in Record : Bound(h, prog, r, e)
        <3>1. PICK r \in c.members : r \in Record
            BY <1>2, <2>1 DEF Skipped
        <3>2. Bound(h, prog, r, e)
            BY <2>3, <3>1 DEF Bound
        <3> QED BY <3>1, <3>2
    <2>6. ASSUME NEW f \in Entity, f # e, Active(h, f)
          PROVE  Leaving(prog, f) \/ \E r \in Record : Bound(h, prog, r, f)
        <3>1. PICK r \in Record : Bound(g, <<>>, r, f)
            BY <2>1, <2>6, StmtsOfTuples DEF Filled, Leaving
        <3>2. g.owner[r] = f /\ f # NoEntity
            BY <3>1, StmtsOfTuples, MaxEntityAssumption DEF Bound, Entity, NoEntity
        <3>3. CASE r \in c.members
            <4>1. f \in FoundHere(l)
                BY <1>2, <3>2, <3>3 DEF FoundHere, FoundIn
            <4>2. prog = Merges(l, e)
                BY <2>2, <2>6, <4>1
            <4> QED BY <2>6, <4>1, <4>2, BranchLeaves
        <3>4. CASE r \notin c.members
            <4>1. Bound(h, prog, r, f)
                BY <2>1, <2>3, <3>2, <3>4 DEF Bound
            <4> QED BY <4>1
        <3> QED BY <3>3, <3>4
    <2> QED BY <2>4, <2>5, <2>6 DEF Filled
<1> QED BY <1>3, <1>4, <1>5 DEF TakesUp

\* The merge by shared field takes an entity's records and its status together.
LEMMA RemapFills ==
    ASSUME NEW g \in Graph, NEW remap \in [Entity -> Entity], Filled(g, <<>>)
    PROVE  Filled(RemapEntities(g, remap), <<>>)
<1> DEFINE h == RemapEntities(g, remap)
<1>1. /\ \A r \in Record : h.owner[r] = IF g.owner[r] = NoEntity THEN NoEntity ELSE remap[g.owner[r]]
      /\ \A e \in Entity : h.status[e] = IF remap[e] # e /\ Exists(g, e) THEN "merged_into" ELSE g.status[e]
    BY DEF RemapEntities, Graph
<1> HIDE DEF h
<1> SUFFICES ASSUME NEW e \in Entity, Active(h, e)
             PROVE  \E r \in Record : Bound(h, <<>>, r, e)
    BY StmtsOfTuples DEF Filled, h
<1>2. Active(g, e) /\ remap[e] = e
    BY <1>1 DEF Active, Exists
<1>3. PICK r \in Record : Bound(g, <<>>, r, e)
    BY <1>2, StmtsOfTuples DEF Filled, Leaving
<1>4. g.owner[r] = e /\ e # NoEntity
    BY <1>3, StmtsOfTuples, MaxEntityAssumption DEF Bound, Entity, NoEntity
<1>5. h.owner[r] = e
    BY <1>1, <1>2, <1>4
<1> QED BY <1>5, StmtsOfTuples DEF Bound

LEMMA FilledGoesOn ==
    ASSUME BaseInv, OneClient, NEW p \in Client, NEW next, NEW prog, NEW l,
           Continue(p, next, prog, l), Filled(work', prog)
    PROVE  FilledInv'
<1>1. ASSUME NEW q \in Client PROVE Filled(work', todo'[q])
    <2>1. todo'[q] = prog
        BY AloneReads
    <2> QED BY <2>1
<1> QED BY <1>1 DEF FilledInv, Filled, Active, Leaving, Bound, Stmts

LEMMA FilledNext ==
    ASSUME BaseInv, OneClient, OnlyResolves, MaxFails = 0, ResolveInv, ProgressInv, GatherInv,
           FilledInv, [Next]_vars
    PROVE  FilledInv'
<1>1. ASSUME NEW p \in Client, NEW next, NEW l, Continue(p, next, <<>>, l), todo[p] = <<>>,
             work' = work
      PROVE  FilledInv'
    BY <1>1, FilledGoesOn DEF FilledInv
<1>2. ASSUME NEW p \in Client, Invoke(p) PROVE FilledInv'
    <2>1. PICK first \in {"lookup", "check", "split", "target", "find", "scan"} :
            \E l : Begin(p, first, l)
        BY <1>2, InvokeFresh
    <2>2. PICK l : Begin(p, first, l)
        BY <2>1
    <2> QED BY <1>1, <2>2 DEF Begin, At, storeVars
<1>3. ASSUME NEW p \in Client, Write(p) PROVE FilledInv'
    <2>1. PICK rest \in Seq(AgreeingStmt), h \in AgreeingGraph :
            Executes(Statement(p), work, h, rest) /\ work' = h /\ Then(p, rest)
        BY <1>3, AloneWrites
    <2>2. /\ todo[p] \in Seq(AgreeingStmt) /\ todo[p] # <<>> /\ work \in Graph
          /\ todo'[p] = rest \o Tail(todo[p])
        BY <1>3, <2>1, AloneWrites DEF Then, BaseInv, IInv, CallInv, AgreeingGraph
    <2>3. Resolved(todo[p], Rows(View(p))) /\ Filled(work, todo[p])
        BY DEF BaseInv, RefInv, CallRefs, FilledInv
    <2>4. Filled(work', todo'[p])
        BY <2>1, <2>2, <2>3, FilledStep DEF Statement
    <2>5. ASSUME NEW q \in Client PROVE Filled(work', todo'[q])
        BY <2>4 DEF OneClient
    <2> QED BY <2>5 DEF FilledInv, Filled, Active, Leaving, Bound, Stmts
<1>4. ASSUME NEW p \in Client, Return(p) PROVE FilledInv'
    BY <1>1, <1>4 DEF Return, At, storeVars
<1>5. ASSUME NEW p \in Client, DetMergeFails(p) \/ Fail(p) PROVE FALSE
    BY <1>5, MergeFailure DEF Fail, BaseInv, IInv, BoundInv
<1>6. CASE UNCHANGED vars
    BY <1>6 DEF vars, FilledInv, Filled, Active, Leaving, Bound, Stmts
<1>7. ASSUME NEW p \in Client, Read(p) PROVE FilledInv'
    <2>1. /\ local[p] \in Local /\ View(p) = work /\ work \in Graph /\ pc[p] \in PC
          /\ Progress(pc[p], local[p], todo[p])
        BY BatchLocal, AloneSees
        DEF ProgressInv, BaseInv, IInv, StoreInv, CallInv, AgreeingGraph
    <2>2. CASE ResolveLookup(p) \/ ResolveNodes(p) \/ DetMergeRead(p)
        BY <1>1, <2>2 DEF ResolveLookup, ResolveNodes, DetMergeRead, At, storeVars
    <2>3. CASE Handler(p)
        <3>1. /\ pc[p] = "loop" /\ todo[p] = <<>>
              /\ TakesUp(local[p], local'[p], work, work', todo'[p])
            BY <2>3, ClusterTaken
        <3>2. /\ Suffix(local[p].left, local[p].clusters) /\ Partitioned(local[p].clusters)
              /\ local[p].left \in Seq(Cluster) /\ local[p].clusters \in Seq(Cluster)
            BY <2>1, <3>1 DEF Progress, BatchPC, Local
        <3>3. Partitioned(local[p].left) /\ Gathering(work, local[p], <<>>) /\ Filled(work, <<>>)
            BY <3>1, <3>2, SuffixPartitioned DEF GatherInv, FilledInv
        <3>4. Filled(work', todo'[p])
            BY <2>1, <3>1, <3>3, FilledTakes
        <3>5. ASSUME NEW q \in Client PROVE Filled(work', todo'[q])
            BY <3>4 DEF OneClient
        <3> QED BY <3>5 DEF FilledInv, Filled, Active, Leaving, Bound, Stmts
    <2>4. CASE ResolveFinish(p)
        <3> DEFINE rows == local[p].rows
        <3>1. PICK next, l : Continue(p, next, <<>>, l)
            BY <2>4 DEF ResolveFinish
        <3>2. pc[p] = "loop" /\ todo[p] = <<>>
            BY <2>4 DEF ResolveFinish, At
        <3>3. Gathering(work, local[p], <<>>) /\ rows \subseteq Row /\ Filled(work, <<>>)
            BY <2>1, <3>2 DEF GatherInv, Local, FilledInv
        <3>4. Loose(work, rows) /\ \A w \in rows : w.members # {}
            BY <2>1, <3>3, GatheringLoose DEF Gathering
        <3>5. work' = work \/ work' = BulkWrite(work, rows)
            BY <2>1, <2>4 DEF ResolveFinish, Flush, Commit, storeVars
        <3>6. Filled(work', <<>>)
            BY <2>1, <3>3, <3>4, <3>5, FlushFills
        <3> QED BY <3>1, <3>6, FilledGoesOn
    <2>5. CASE DetMergeWrite(p)
        <3>1. /\ Continue(p, "return", <<>>, local[p])
              /\ work' = RemapEntities(work, local[p].remap)
            BY <2>1, <2>5, ExecWork DEF DetMergeWrite
        <3>2. todo[p] = <<>> /\ local[p].remap \in [Entity -> Entity]
            BY <2>1, <2>5 DEF DetMergeWrite, At, Local
        <3>3. Filled(work', <<>>)
            BY <2>1, <3>1, <3>2, RemapFills DEF FilledInv
        <3> QED BY <3>1, <3>3, FilledGoesOn
    <2>6. pc[p] \notin PC \ (BatchPC \cup {"return"}) \/ pc[p] = "idle"
        BY <2>1 DEF ResolveInv
    <2>7. pc[p] = "idle" => FALSE
        BY <1>7 DEF Read, ResolveLookup, ResolveNodes, ResolveSkip, ResolveAccumulate,
            ResolveCreate, ResolveAbsorb, ResolveMerge, ResolveFinish, DetMergeRead,
            DetMergeWrite, AtCluster, MergeCheck, MergeCheckOther, MergeRecords, SplitCheck, ClaimTarget,
            ClaimRecord, MediateFind, MediateFindOther, Rule, MediateAct, StabilizeScan, StabilizeGroup,
            StabilizeLoser, StabilizeNext, At
    <2> QED BY <1>7, <2>2, <2>3, <2>4, <2>5, <2>6, <2>7, ElsewhereReads DEF Read, Handler
<1> QED BY <1>2, <1>3, <1>4, <1>5, <1>6, <1>7 DEF Next, Step, Done

\* The seed is what an earlier batch left: entities with records.
SeedFilled == \A i \in DOMAIN Seed : Seed[i].members # {}

LEMMA FilledInit ==
    ASSUME Init, SeedFilled
    PROVE  FilledInv
<1> DEFINE row(i) == [ent |-> i, members |-> Seed[i].members,
                      edges |-> Evidence(Seed[i], i, Seed[i].members, SeedRun)]
           rows == {row(i) : i \in DOMAIN Seed}
<1>1. DOMAIN Seed = 1 .. Len(Seed) /\ Len(Seed) \in Nat /\ Len(Seed) <= MaxEntity
      /\ \A i \in DOMAIN Seed : Seed[i] \in Cluster
    BY SeedAssumption, LenProperties, ElementOfSeq
<1>2. work = BulkWrite(EmptyGraph, rows)
    BY DEF Init, SeedGraph
<1>3. EmptyGraph \in Graph /\ \A r \in Record : EmptyGraph.owner[r] = NoEntity
    BY EmptyGraphType DEF EmptyGraph
<1>4. ASSUME NEW i \in DOMAIN Seed
      PROVE  row(i).ent \in Entity /\ row(i).members = Seed[i].members
             /\ row(i).members \subseteq Record /\ row(i).members # {}
    BY <1>1, MaxEntityAssumption DEF Entity, Cluster, SeedFilled
<1>5. ASSUME NEW i \in DOMAIN Seed, NEW j \in DOMAIN Seed
      PROVE  row(i) = row(j) \/ row(i).members \cap row(j).members = {}
    <2>1. i = j \/ Seed[i].members \cap Seed[j].members = {}
        BY PartitionAssumption DEF Partitioned
    <2> QED BY <1>4, <2>1
<1> HIDE DEF row
<1>6. Loose(EmptyGraph, rows) /\ \A w \in rows : w.members # {}
    BY <1>3, <1>4, <1>5 DEF Loose
<1>7. Filled(EmptyGraph, <<>>)
    BY StmtsOfTuples DEF Filled, Active, EmptyGraph
<1> HIDE DEF rows
<1>8. Filled(work, <<>>)
    BY <1>2, <1>3, <1>6, <1>7, FlushFills
<1> QED BY <1>8 DEF FilledInv, Init

LEMMA FilledOwns ==
    ASSUME BaseInv, FilledInv
    PROVE  ActiveOwnsRecords
<1> SUFFICES ASSUME Quiet, NEW e \in Entity, Active(durable, e)
             PROVE  RecordsOf(durable, e) # {}
    BY DEF ActiveOwnsRecords
<1>1. \A p \in Client : todo[p] = <<>>
    BY DEF Quiet, BaseInv, ControlInv
<1>2. writer = NoClient
    BY DEF Quiet, BaseInv, ControlInv, IInv, StoreInv
<1>3. work = durable
    BY <1>2 DEF BaseInv, RefInv, StoreRefs
<1>4. Filled(durable, <<>>)
    BY <1>1, <1>3 DEF FilledInv
<1>5. PICK r \in Record : Bound(durable, <<>>, r, e)
    BY <1>4, StmtsOfTuples DEF Filled, Leaving
<1> QED BY <1>5, StmtsOfTuples DEF Bound, RecordsOf

\* Resolution alone, with or without the deterministic merge, never leaves an
\* active entity without a record: as long as no call fails half way.
THEOREM ActiveAlwaysOwns ==
    ASSUME OneClient, OnlyResolves, MaxFails = 0, SeedFilled
    PROVE  Spec => []ActiveOwnsRecords
<1>1. Init => BaseInv /\ ResolveInv /\ ProgressInv /\ GatherInv /\ FilledInv
    BY InitBase, ProgressInit, GatherInit, FilledInit DEF Init, ResolveInv
<1>2. BaseInv /\ ResolveInv /\ ProgressInv /\ GatherInv /\ FilledInv /\ [Next]_vars
        => BaseInv' /\ ResolveInv' /\ ProgressInv' /\ GatherInv' /\ FilledInv'
    BY NextBase, ResolveOnlyNext, ProgressNext, GatherNext, FilledNext
<1>3. BaseInv /\ FilledInv => ActiveOwnsRecords
    BY FilledOwns
<1> QED BY <1>1, <1>2, <1>3, PTL DEF Spec

----------------------------------------------------------------------------
(* Conflicts follow the entity that survives. *)

\* The pair is a recorded conflict of w, or will be.
Reaches(g, prog, e, q, w) ==
    \/ \E y \in Conflicts(g) : y.pair = q /\ y.ent = w
    \/ \E s \in Stmts(prog) : s.op = "carry" /\ e \in s.ents
    \/ \E s \in Stmts(prog) :
           s.op = "link" /\ \E z \in s.edges : z.kind = "conflicts_with" /\ z.pair = q

\* The program records evidence on w alone, and w gets every conflict recorded
\* on one of ents.
Carries(g, prog, ents, w) ==
    /\ \A s \in Stmts(prog) : /\ s.op = "link" => \A x \in s.edges : x.ent = w
                              /\ s.op = "carry" => s.ent = w
    /\ \A x \in Conflicts(g) : x.ent \in ents => Reaches(g, prog, x.ent, x.pair, w)
Carried(g, l, prog, c) ==
    \/ Skipped(c)
    \/ \A w \in MergeWinner(l.found, c.members) : Carries(g, prog, FoundIn(l.found, c.members), w)
CarryInv ==
    \A p \in Client : pc[p] = "loop" /\ Behind(p) > 0 =>
        Carried(work, local[p], todo[p], LastCluster(p))

LEMMA ExecutesEdges ==
    ASSUME NEW g \in Graph, NEW s, NEW h, NEW rest, Executes(s, g, h, rest)
    PROVE  \/ h.edges = g.edges
           \/ s.op = "link" /\ \E x \in s.edges : h.edges = g.edges \cup {x}
<1>1. CASE h = UpsertIdentity(g, s.ent, s.status, s.into)
    BY <1>1 DEF UpsertIdentity, Graph
<1>2. CASE \E r \in s.recs : h = UpsertRecord(g, r, s.ent)
    BY <1>2 DEF UpsertRecord, Graph
<1>3. CASE \E v \in s.events : h = EmitEvents(g, {v})
    BY <1>3 DEF EmitEvents, Graph
<1>4. CASE \E f \in s.ents : h = RetireIdentity(g, f, s.into)
    BY <1>4 DEF RetireIdentity, Graph
<1>5. CASE s.op = "link" /\ \E x \in s.edges : h = AddEdges(g, {x})
    BY <1>5 DEF AddEdges, Graph
<1>6. CASE h = AddVerdict(g, s.pair, s.res)
    BY <1>6 DEF AddVerdict, Graph
<1> QED BY <1>1, <1>2, <1>3, <1>4, <1>5, <1>6, ExecutesShape

\* A conflict that reaches w goes on reaching it.
LEMMA ReachesStep ==
    ASSUME NEW g \in Graph, NEW prog \in Seq(AgreeingStmt), prog # <<>>, NEW h,
           NEW rest \in Seq(AgreeingStmt), Executes(Head(prog), g, h, rest),
           NEW ents, NEW w, Carries(g, prog, ents, w), NEW x \in Conflicts(g), x.ent \in ents
    PROVE  Reaches(h, rest \o Tail(prog), x.ent, x.pair, w)
<1> DEFINE s == Head(prog)
           more == rest \o Tail(prog)
<1>1. /\ Stmts(prog) = {s} \cup Stmts(Tail(prog))
      /\ Stmts(more) = Stmts(rest) \cup Stmts(Tail(prog))
    BY ProgramStep
<1>2. Executes(s, g, h, rest)
    OBVIOUS
<1> SUFFICES Reaches(h, more, x.ent, x.pair, w)
    OBVIOUS
<1> HIDE DEF s, more
<1>3. g.edges \subseteq h.edges
    BY <1>2, ExecutesEdges
<1>4. Reaches(g, prog, x.ent, x.pair, w)
    BY DEF Carries
<1>5. CASE \E y \in Conflicts(g) : y.pair = x.pair /\ y.ent = w
    BY <1>3, <1>5 DEF Reaches, Conflicts
<1>6. ASSUME NEW t \in Stmts(Tail(prog)),
             \/ t.op = "carry" /\ x.ent \in t.ents
             \/ t.op = "link" /\ \E z \in t.edges : z.kind = "conflicts_with" /\ z.pair = x.pair
      PROVE  Reaches(h, more, x.ent, x.pair, w)
    BY <1>1, <1>6 DEF Reaches
<1>7. CASE s.op = "carry" /\ x.ent \in s.ents
    <2>1. PICK e \in s.ents :
            LET pairs == {y.pair : y \in Conflicts(g) \cap EdgesOf(g, e)}
            IN rest = <<Link(EdgesFor("conflicts_with", s.ent, pairs, s.run)),
                        Carry(s.ents \ {e}, s.ent, s.run)>>
        BY <1>2, <1>7 DEF Executes, Vacuous
    <2> DEFINE pairs == {y.pair : y \in Conflicts(g) \cap EdgesOf(g, e)}
               a == Link(EdgesFor("conflicts_with", s.ent, pairs, s.run))
               b == Carry(s.ents \ {e}, s.ent, s.run)
    <2>2. x.ent = e => \E z \in a.edges : z.kind = "conflicts_with" /\ z.pair = x.pair
        <3>1. a.edges = EdgesFor("conflicts_with", s.ent, pairs, s.run)
            BY DEF Link
        <3>2. x.ent = e => x.pair \in pairs
            BY DEF Conflicts, EdgesOf
        <3> HIDE DEF a, pairs
        <3>3. \A q \in pairs : \E z \in EdgesFor("conflicts_with", s.ent, pairs, s.run) :
                    z.kind = "conflicts_with" /\ z.pair = q
            <4>1. ASSUME NEW q \in pairs
                  PROVE  \E z \in EdgesFor("conflicts_with", s.ent, pairs, s.run) :
                             z.kind = "conflicts_with" /\ z.pair = q
                <5> DEFINE z == [kind |-> "conflicts_with", ent |-> s.ent, pair |-> q, run |-> s.run]
                <5>1. z \in EdgesFor("conflicts_with", s.ent, pairs, s.run)
                    BY DEF EdgesFor
                <5>2. z.kind = "conflicts_with" /\ z.pair = q
                    OBVIOUS
                <5> HIDE DEF z
                <5> QED BY <5>1, <5>2
            <4> QED BY <4>1
        <3> QED BY <3>1, <3>2, <3>3
    <2>3. a.op = "link" /\ b.op = "carry" /\ b.ents = s.ents \ {e}
        BY DEF Link, Carry
    <2>4. rest = <<a, b>>
        BY <2>1
    <2> HIDE DEF a, b
    <2>5. Stmts(rest) = {a, b}
        BY <2>4, StmtsOfTuples
    <2>6. CASE x.ent = e
        BY <1>1, <2>2, <2>3, <2>5, <2>6 DEF Reaches
    <2>7. CASE x.ent # e
        BY <1>1, <1>7, <2>3, <2>5, <2>7 DEF Reaches
    <2> QED BY <2>6, <2>7
<1>8. ASSUME s.op = "link", NEW z \in s.edges, z.kind = "conflicts_with", z.pair = x.pair
      PROVE  Reaches(h, more, x.ent, x.pair, w)
    <2>1. PICK y \in s.edges : /\ h = AddEdges(g, {y})
                               /\ rest = IF s.edges = {y} THEN <<>> ELSE <<Link(s.edges \ {y})>>
        BY <1>2, <1>8 DEF Executes, Vacuous
    <2>2. CASE y = z
        <3>1. z \in h.edges
            BY <2>1, <2>2 DEF AddEdges, Graph
        <3>2. z.ent = w
            BY <1>1, <1>8 DEF Carries
        <3> QED BY <1>8, <3>1, <3>2 DEF Reaches, Conflicts
    <2>3. CASE y # z
        <3>1. Stmts(rest) = {Link(s.edges \ {y})}
            BY <2>1, <2>3, StmtsOfTuples
        <3>2. Link(s.edges \ {y}).op = "link" /\ Link(s.edges \ {y}).edges = s.edges \ {y}
            BY DEF Link
        <3> QED BY <1>1, <1>8, <2>3, <3>1, <3>2 DEF Reaches
    <2> QED BY <2>2, <2>3
<1>9. \/ \E y \in Conflicts(g) : y.pair = x.pair /\ y.ent = w
      \/ \E t \in Stmts(prog) :
            \/ t.op = "carry" /\ x.ent \in t.ents
            \/ t.op = "link" /\ \E z \in t.edges : z.kind = "conflicts_with" /\ z.pair = x.pair
    BY <1>4 DEF Reaches
<1> QED BY <1>1, <1>5, <1>6, <1>7, <1>8, <1>9

LEMMA CarriesStep ==
    ASSUME NEW g \in Graph, NEW prog \in Seq(AgreeingStmt), prog # <<>>, NEW h,
           NEW rest \in Seq(AgreeingStmt), Executes(Head(prog), g, h, rest),
           NEW ents, NEW w, Carries(g, prog, ents, w)
    PROVE  Carries(h, rest \o Tail(prog), ents, w)
<1> DEFINE s == Head(prog)
           more == rest \o Tail(prog)
           On(t) == /\ t.op = "link" => \A x \in t.edges : x.ent = w
                    /\ t.op = "carry" => t.ent = w
<1>1. /\ Stmts(prog) = {s} \cup Stmts(Tail(prog))
      /\ Stmts(more) = Stmts(rest) \cup Stmts(Tail(prog))
    BY ProgramStep
<1>2. \A x \in Conflicts(g) : x.ent \in ents => Reaches(h, more, x.ent, x.pair, w)
    BY ReachesStep
<1>3. Executes(s, g, h, rest)
    OBVIOUS
<1> SUFFICES Carries(h, more, ents, w)
    OBVIOUS
<1> HIDE DEF s, more
<1>4. On(s) /\ \A t \in Stmts(Tail(prog)) : On(t)
    BY <1>1 DEF Carries
<1>5. \A t \in Stmts(rest) : On(t)
    BY <1>3, <1>4, StatementsLeft
<1>6. \A t \in Stmts(more) : On(t)
    BY <1>1, <1>4, <1>5
<1>7. ASSUME NEW x \in Conflicts(h), x.ent \in ents
      PROVE  Reaches(h, more, x.ent, x.pair, w)
    <2>1. CASE x \in Conflicts(g)
        BY <1>2, <1>7, <2>1
    <2>2. CASE x \notin Conflicts(g)
        <3>1. s.op = "link" /\ x \in s.edges
            BY <1>3, <2>2, ExecutesEdges DEF Conflicts
        <3>2. x.ent = w
            BY <1>4, <3>1
        <3> QED BY <3>2 DEF Reaches
    <2> QED BY <2>1, <2>2
<1> QED BY <1>6, <1>7 DEF Carries

\* Of the entities found for a cluster one is foremost.
LEMMA WinnerUnique ==
    ASSUME IsFiniteSet(Record), NEW found \in [Record -> EntityOrNone],
           NEW members \in SUBSET Record,
           NEW w \in MergeWinner(found, members), NEW v \in MergeWinner(found, members)
    PROVE  w = v
<1> DEFINE ents == FoundIn(found, members)
           weight == [e \in ents |-> Cardinality({r \in members : found[r] = e})]
<1>1. \A e \in ents : weight[e] \in Nat
    <2>1. ASSUME NEW e \in ents PROVE Cardinality({r \in members : found[r] = e}) \in Nat
        <3>1. IsFiniteSet({r \in members : found[r] = e})
            BY FS_Subset
        <3> QED BY <3>1, FS_CardinalityType
    <2> QED BY <2>1
<1>2. ents \subseteq Nat
    BY MaxEntityAssumption DEF FoundIn, EntityOrNone
<1>3. MergeWinner(found, members) = Foremost(ents, weight)
    BY DEF MergeWinner
<1> HIDE DEF ents, weight
<1>4. w \in ents /\ v \in ents
    BY <1>3 DEF Foremost
<1>5. /\ weight[w] > weight[v] \/ (weight[w] = weight[v] /\ w <= v)
      /\ weight[v] > weight[w] \/ (weight[v] = weight[w] /\ v <= w)
    BY <1>3, <1>4 DEF Foremost
<1>6. weight[w] \in Nat /\ weight[v] \in Nat /\ w \in Nat /\ v \in Nat
    BY <1>1, <1>2, <1>4
<1> QED BY <1>5, <1>6

\* Taking up a cluster plans to carry what was recorded on its entities.
LEMMA CarriedTakes ==
    ASSUME IsFiniteSet(Record), NEW g \in Graph, NEW l \in Local, NEW m, NEW h, NEW prog,
           Head(l.left) \in Cluster, TakesUp(l, m, g, h, prog)
    PROVE  Carried(h, m, prog, Head(l.left))
<1> DEFINE c == Head(l.left)
           ents == FoundIn(l.found, c.members)
<1>1. /\ m.found = l.found /\ l.found \in [Record -> EntityOrNone] /\ c.members \subseteq Record
      /\ l.run \in Run /\ FoundHere(l) = ents
    BY DEF TakesUp, Local, Cluster, FoundHere
<1>2. MergeWinner(l.found, c.members) \subseteq ents
    BY DEF MergeWinner, Foremost
<1>3. CASE Skips(l, m, g, h, prog)
    BY <1>3 DEF Skips, Carried
<1>4. CASE ents = {}
    BY <1>1, <1>2, <1>4 DEF Carried
<1> HIDE DEF c, ents
<1> DEFINE On(s, w) == /\ s.op = "link" => \A x \in s.edges : x.ent = w
                       /\ s.op = "carry" => s.ent = w
<1>5. /\ \A e, st, in, w : On(Node(e, st, in), w)
      /\ \A evs, w : On(Emit(evs), w)
      /\ \A rs, e, w : On(Attach(rs, e), w)
      /\ \A es, e, w : On(Absorb(es, e), w)
      /\ \A es, run, w : On(Carry(es, w, run), w)
    BY DEF Node, Emit, Attach, Absorb, Carry
<1>6. ASSUME NEW w \in Entity, NEW changed PROVE On(Link(Evidence(Head(l.left), w, changed, l.run)), w)
    <2>1. \A x \in Evidence(Head(l.left), w, changed, l.run) : x.ent = w
        BY <1>1, EvidenceType
    <2> QED BY <2>1 DEF Link
<1>7. ASSUME NEW e \in Entity, ents = {e}, prog = Absorbs(l, e), h = g
      PROVE  Carried(h, m, prog, c)
    <2> DEFINE a == Node(e, Refreshed(l.snap[e]), l.snap[e].into)
               b == Emit({Ev("absorbed_record", e, NoEntity) : r \in Added(l)})
               d == Attach(Head(l.left).members, e)
               f == Link(Evidence(Head(l.left), e, Added(l), l.run))
    <2>1. On(a, e) /\ On(b, e) /\ On(d, e) /\ On(f, e)
        BY <1>5, <1>6
    <2>2. Stmts(prog) = {a, b, d, f}
        BY <1>7, BranchStmts
    <2> HIDE DEF a, b, d, f
    <2>3. \A s \in Stmts(prog) : On(s, e)
        BY <2>1, <2>2
    <2>4. \A x \in Conflicts(h) : x.ent \in ents => Reaches(h, prog, x.ent, x.pair, e)
        BY <1>7 DEF Reaches
    <2>5. Carries(h, prog, ents, e)
        BY <2>3, <2>4 DEF Carries
    <2> QED BY <1>1, <1>2, <1>7, <2>5 DEF Carried, ents
<1>8. ASSUME NEW w \in Entity, w \in MergeWinner(l.found, c.members), prog = Merges(l, w), h = g
      PROVE  Carried(h, m, prog, c)
    <2> DEFINE a == Node(w, "active", NoEntity)
               b == Emit({Ev("merged_with", w, NoEntity)})
               i == Absorb(FoundHere(l) \ {w}, w)
               d == Attach(Head(l.left).members, w)
               f == Link(Evidence(Head(l.left), w, Head(l.left).members, l.run))
               k == Carry(FoundHere(l) \ {w}, w, l.run)
    <2>1. On(a, w) /\ On(b, w) /\ On(i, w) /\ On(d, w) /\ On(f, w) /\ On(k, w)
        BY <1>5, <1>6
    <2>2. Stmts(prog) = {a, b, i, d, f, k}
        BY <1>8, BranchStmts
    <2>3. k.op = "carry" /\ k.ents = ents \ {w}
        BY <1>1 DEF Carry
    <2> HIDE DEF a, b, i, d, f, k
    <2>4. \A s \in Stmts(prog) : On(s, w)
        BY <2>1, <2>2
    <2>5. ASSUME NEW x \in Conflicts(h), x.ent \in ents
          PROVE  Reaches(h, prog, x.ent, x.pair, w)
        <3>1. CASE x.ent = w
            BY <3>1 DEF Reaches
        <3>2. CASE x.ent # w
            BY <2>2, <2>3, <2>5, <3>2 DEF Reaches
        <3> QED BY <3>1, <3>2
    <2>6. Carries(h, prog, ents, w)
        BY <2>4, <2>5 DEF Carries
    <2>7. \A v \in MergeWinner(l.found, c.members) : v = w
        BY <1>1, <1>8, WinnerUnique
    <2> QED BY <1>1, <2>6, <2>7 DEF Carried, ents
<1>9. CASE Writing(l, m, g, h, prog)
    BY <1>1, <1>4, <1>7, <1>8, <1>9 DEF Writing, c
<1>10. CASE Accumulated(l, m, g, h, prog)
    BY <1>1, <1>4, <1>10 DEF Accumulated, c
<1> QED BY <1>3, <1>9, <1>10 DEF TakesUp, c

LEMMA CarryNext ==
    ASSUME BaseInv, OneClient, IsFiniteSet(Record), ProgressInv, GatherInv, CarryInv,
           [Next]_vars
    PROVE  CarryInv'
<1> DEFINE To(l) == Len(l.clusters) - Len(l.left)
<1> SUFFICES ASSUME NEW p \in Client, pc'[p] = "loop", To(local'[p]) > 0
             PROVE  Carried(work', local'[p], todo'[p], local'[p].clusters[To(local'[p])])
    BY DEF CarryInv, LastCluster, Behind, Carried, Skipped, Carries, Reaches, Stmts
<1>1. /\ local[p] \in Local /\ Progress(pc[p], local[p], todo[p]) /\ work \in Graph
      /\ local[p].clusters \in Seq(Cluster) /\ local[p].left \in Seq(Cluster)
      /\ Len(local[p].clusters) \in Nat /\ Len(local[p].left) \in Nat
    BY BatchLocal, LenProperties
    DEF ProgressInv, Local, BaseInv, IInv, StoreInv, AgreeingGraph
<1>2. CASE ResolveNodes(p)
    <2>1. PICK x : Continue(p, "loop", <<>>, [local[p] EXCEPT !.snap = x])
        BY <1>2 DEF ResolveNodes
    <2>2. local'[p] = [local[p] EXCEPT !.snap = x]
        BY <2>1, AloneReads
    <2>3. local'[p].left = local[p].left /\ local'[p].clusters = local[p].clusters
        BY <2>2, BatchLocal
    <2>4. local[p].left = local[p].clusters
        BY <1>1, <1>2 DEF ResolveNodes, At, Progress, BatchPC
    <2>5. To(local'[p]) = Len(local[p].clusters) - Len(local[p].clusters)
        BY <2>3, <2>4
    <2>6. \A a \in Nat : ~(a - a > 0)
        OBVIOUS
    <2> QED BY <1>1, <2>5, <2>6
<1>3. CASE Handler(p)
    <2>1. /\ pc[p] = "loop" /\ TakesUp(local[p], local'[p], work, work', todo'[p])
        BY <1>3, ClusterTaken
    <2>2. local[p].left # <<>> /\ local'[p].left = Tail(local[p].left)
          /\ local'[p].clusters = local[p].clusters
        BY <2>1 DEF TakesUp
    <2>3. Suffix(local[p].left, local[p].clusters) /\ Partitioned(local[p].clusters)
        BY <1>1, <2>1 DEF Progress, BatchPC
    <2>4. /\ Len(local'[p].left) = Len(local[p].left) - 1
          /\ Head(local[p].left) = local[p].clusters[To(local[p]) + 1]
        BY <1>1, <2>2, <2>3, SuffixTail
    <2>5. To(local'[p]) = To(local[p]) + 1
        <3>1. To(local'[p]) = Len(local[p].clusters) - (Len(local[p].left) - 1)
            BY <2>2, <2>4
        <3>2. \A a, b \in Nat : a - (b - 1) = (a - b) + 1
            OBVIOUS
        <3> QED BY <1>1, <3>1, <3>2
    <2>6. Head(local[p].left) \in Cluster
        BY <1>1, <2>2, <2>3, HeadApart, SuffixPartitioned
    <2>7. Carried(work', local'[p], todo'[p], Head(local[p].left))
        BY <1>1, <2>1, <2>6, CarriedTakes
    <2> QED BY <2>2, <2>4, <2>5, <2>7
<1>4. CASE Write(p) /\ pc'[p] = pc[p] /\ local'[p] = local[p]
    <2> DEFINE c == LastCluster(p)
    <2>1. PICK rest \in Seq(AgreeingStmt), h \in AgreeingGraph :
            Executes(Statement(p), work, h, rest) /\ work' = h /\ Then(p, rest)
        BY <1>4, AloneWrites
    <2>2. todo[p] \in Seq(AgreeingStmt) /\ todo[p] # <<>>
        BY <1>4, AloneWrites
    <2>3. todo'[p] = rest \o Tail(todo[p])
        BY <2>1 DEF Then, BaseInv, IInv, CallInv
    <2>4. Carried(work, local[p], todo[p], c)
        BY <1>4 DEF CarryInv, Behind
    <2>5. \A ents, w : Carries(work, todo[p], ents, w) => Carries(work', todo'[p], ents, w)
        BY <1>1, <2>1, <2>2, <2>3, CarriesStep DEF Statement
    <2>6. Carried(work', local[p], todo'[p], c)
        BY <2>4, <2>5 DEF Carried
    <2> QED BY <1>4, <2>6 DEF LastCluster, Behind
<1>5. CASE UNCHANGED vars
    BY <1>5 DEF vars, CarryInv, LastCluster, Behind
<1>6. ~ResolveLookup(p)
    <2>1. ASSUME ResolveLookup(p) PROVE FALSE
        <3>1. PICK l : Continue(p, "nodes", <<>>, l)
            BY <2>1 DEF ResolveLookup
        <3> QED BY <3>1, AloneReads
    <2> QED BY <2>1
<1> QED BY <1>2, <1>3, <1>4, <1>5, <1>6, LoopSteps

LEMMA CarryCarries ==
    ASSUME BaseInv, OneClient, CarryInv
    PROVE  ConflictsCarried
<1> SUFFICES ASSUME NEW p \in Client, At(p, "loop"), Behind(p) > 0, ~Skipped(LastCluster(p)),
                    NEW w \in MergeWinner(local[p].found, LastCluster(p).members),
                    NEW x \in Conflicts(View(p)),
                    x.ent \in FoundIn(local[p].found, LastCluster(p).members)
             PROVE  \E y \in Conflicts(View(p)) : y.pair = x.pair /\ y.ent = w
    BY DEF ConflictsCarried
<1>1. View(p) = work /\ pc[p] = "loop" /\ todo[p] = <<>>
    BY AloneSees DEF At
<1>2. Carried(work, local[p], <<>>, LastCluster(p))
    BY <1>1 DEF CarryInv
<1>3. Reaches(work, <<>>, x.ent, x.pair, w)
    BY <1>1, <1>2 DEF Carried, Carries
<1> QED BY <1>1, <1>3, StmtsOfTuples DEF Reaches

\* Whenever a batch is done with a cluster, every conflict recorded on one of
\* the entities the cluster met is recorded on the one that survived, which is
\* one: no merge drops the evidence against it.
THEOREM ConflictsAlwaysCarried ==
    ASSUME OneClient, IsFiniteSet(Record)
    PROVE  Spec => []ConflictsCarried
<1>1. Init => BaseInv /\ ProgressInv /\ GatherInv /\ CarryInv
    BY InitBase, ProgressInit, GatherInit DEF Init, CarryInv
<1>2. BaseInv /\ ProgressInv /\ GatherInv /\ CarryInv /\ [Next]_vars
        => BaseInv' /\ ProgressInv' /\ GatherInv' /\ CarryInv'
    BY NextBase, ProgressNext, GatherNext, CarryNext
<1>3. BaseInv /\ CarryInv => ConflictsCarried
    BY CarryCarries
<1> QED BY <1>1, <1>2, <1>3, PTL DEF Spec

----------------------------------------------------------------------------
(* Stabilization consolidates what it found. *)

\* A component closed under the links holds all of an element's component, and
\* two components are one or share nothing.
LEMMA ComponentsApart ==
    ASSUME NEW links, \A k \in links : k \subseteq Entity, NEW e \in Entity, NEW f \in Entity
    PROVE  \/ ComponentOf(e, links) = ComponentOf(f, links)
           \/ ComponentOf(e, links) \cap ComponentOf(f, links) = {}
<1>1. ASSUME NEW x \in Entity, NEW y \in ComponentOf(x, links)
      PROVE  ComponentOf(y, links) = ComponentOf(x, links)
    <2>1. y \in Entity
        BY DEF ComponentOf
    <2>2. ASSUME NEW es \in SUBSET Entity, Closed(es, links), y \in es, x \notin es PROVE FALSE
        <3>1. Closed(Entity \ es, links)
            BY <2>2 DEF Closed
        <3>2. y \in Entity \ es
            BY <2>2, <3>1 DEF ComponentOf
        <3> QED BY <2>2, <3>2
    <2>3. \A es \in SUBSET Entity : Closed(es, links) => (x \in es <=> y \in es)
        BY <2>2 DEF ComponentOf
    <2> QED BY <2>3 DEF ComponentOf
<1> QED BY <1>1

\* The groups that a scan finds.
LEMMA GroupsFound ==
    ASSUME NEW g \in Graph
    PROVE  LET groups == OverlapGroups(g)
           IN /\ \A G, H \in groups : G = H \/ G \cap H = {}
              /\ \A e \in UNION groups : Active(g, e)
              /\ \A k \in PersistentOverlaps(g) : \E G \in groups : k \subseteq G
<1> DEFINE links == PersistentOverlaps(g)
           active == {e \in Entity : Active(g, e)}
<1>1. \A k \in links : k \subseteq active /\ k # {}
    BY DEF PersistentOverlaps, Active
<1>2. OverlapGroups(g) = {ComponentOf(e, links) : e \in UNION links}
    BY DEF OverlapGroups
<1> HIDE DEF links
<1>3. Closed(active, links)
    BY <1>1 DEF Closed
<1>4. UNION links \subseteq active /\ active \subseteq Entity
    BY <1>1
<1>5. ASSUME NEW e \in UNION links PROVE ComponentOf(e, links) \subseteq active
    BY <1>3, <1>4 DEF ComponentOf
<1>6. ASSUME NEW k \in links PROVE \E e \in UNION links : k \subseteq ComponentOf(e, links)
    <2>1. PICK e \in k : TRUE
        BY <1>1
    <2>2. ASSUME NEW f \in k PROVE f \in ComponentOf(e, links)
        <3>1. f \in Entity
            BY <1>1, <1>4
        <3>2. ASSUME NEW es \in SUBSET Entity, e \in es, Closed(es, links) PROVE f \in es
            BY <3>2 DEF Closed
        <3> QED BY <3>1, <3>2 DEF ComponentOf
    <2> QED BY <2>2
<1>7. \A e, f \in UNION links : \/ ComponentOf(e, links) = ComponentOf(f, links)
                                \/ ComponentOf(e, links) \cap ComponentOf(f, links) = {}
    BY <1>1, <1>4, ComponentsApart
<1> DEFINE groups == OverlapGroups(g)
<1>8. /\ \A G \in groups : \E e \in UNION links : G = ComponentOf(e, links)
      /\ \A e \in UNION links : ComponentOf(e, links) \in groups
    BY <1>2
<1> HIDE DEF groups
<1>9. \A G, H \in groups : G = H \/ G \cap H = {}
    BY <1>7, <1>8
<1>10. \A e \in UNION groups : Active(g, e)
    BY <1>5, <1>8
<1>11. \A k \in links : \E G \in groups : k \subseteq G
    BY <1>6, <1>8
<1> QED BY <1>9, <1>10, <1>11 DEF links, groups

\* Active for good: the overlap k is w, or was consolidated into w, or will be.
Leads(g, l, prog, e, w) ==
    \/ e = w
    \/ e \in Entity /\ g.into[e] = w
    \/ /\ w = l.ent
       /\ e \in l.others \/ \E s \in Stmts(prog) : s.op = "retire" /\ e \in s.ents
Settling(g, l, prog, k, w) ==
    /\ Active(g, w) /\ w \notin UNION l.groups /\ w \notin l.others
    /\ \A s \in Stmts(prog) : s.op = "retire" => w \notin s.ents
    /\ \A e \in k : Leads(g, l, prog, e, w)

\* What is left of a pass: entities that are active and in one place each, and
\* a program that retires others into the winner of the moment.
Retires(g, l, s) ==
    /\ s.op \in {"attach", "retire", "emit"}
    /\ s.op = "retire" =>
          /\ s.into = l.ent /\ s.ents \subseteq Entity
          /\ s.ents \cap (l.others \cup UNION l.groups) = {}
          /\ \A e \in s.ents : Active(g, e) \/ g.into[e] = l.ent
Consolidating(g, l, prog) ==
    /\ \A G, H \in l.groups : G = H \/ G \cap H = {}
    /\ \A e \in l.others \cup UNION l.groups : Active(g, e)
    /\ l.others \cap UNION l.groups = {}
    /\ \A s \in Stmts(prog) : Retires(g, l, s)
    /\ \A k \in l.links : \/ \E G \in l.groups : k \subseteq G
                          \/ \E w : Settling(g, l, prog, k, w)
Stabilizing(g, next, l, prog) ==
    /\ next \in {"scan", "group", "loser", "return"}
    /\ next # "loser" => l.others = {} /\ prog = <<>>
    /\ next = "return" => l.groups = {}
    /\ next # "scan" => Consolidating(g, l, prog)
StabilizeInv ==
    \A p \in Client : local[p].op = "stabilize" =>
        Stabilizing(work, pc[p], local[p], todo[p])

\* What a statement of a pass does to nodes.
LEMMA RetireStep ==
    ASSUME NEW g \in Graph, NEW s, NEW h, NEW rest, Executes(s, g, h, rest),
           s.op \in {"attach", "retire", "emit"}
    PROVE  /\ \A e : Active(g, e) => \/ Active(h, e)
                                     \/ s.op = "retire" /\ e \in s.ents /\ h.into[e] = s.into
           /\ \A e \in Entity : \/ h.into[e] = g.into[e]
                                \/ s.op = "retire" /\ e \in s.ents /\ h.into[e] = s.into
           /\ s.op = "retire" =>
                \A e \in s.ents : \/ Active(g, e) => h.into[e] = s.into
                                  \/ \E t \in Stmts(rest) : t.op = "retire" /\ e \in t.ents
           /\ s.op # "retire" => h.status = g.status /\ h.into = g.into
<1>1. CASE s.op # "retire"
    <2>1. h.status = g.status /\ h.into = g.into
        BY <1>1, ExecutesShape DEF UpsertRecord, EmitEvents, Graph
    <2> QED BY <1>1, <2>1 DEF Active
<1>2. CASE s.op = "retire" /\ s.ents = {}
    <2>1. h = g
        BY <1>2, ExecutesShape
    <2> QED BY <1>2, <2>1
<1>3. CASE s.op = "retire" /\ s.ents # {}
    <2>1. PICK e \in s.ents :
            /\ h = RetireIdentity(g, e, s.into)
            /\ rest = IF s.ents = {e} THEN <<>> ELSE <<Retire(s.ents \ {e}, s.into)>>
        BY <1>3 DEF Executes, Vacuous
    <2>2. \A f \in Entity : f # e => h.status[f] = g.status[f] /\ h.into[f] = g.into[f]
        BY <2>1 DEF RetireIdentity, Graph
    <2>3. e \in Entity => h.into[e] \in {g.into[e], s.into}
        BY <2>1 DEF RetireIdentity, Graph
    <2>4. Active(g, e) => h.into[e] = s.into
        BY <2>1 DEF RetireIdentity, Graph, Active, Exists
    <2>5. ASSUME NEW f \in s.ents, f # e
          PROVE  \E t \in Stmts(rest) : t.op = "retire" /\ f \in t.ents
        <3>1. rest = <<Retire(s.ents \ {e}, s.into)>>
            BY <2>1, <2>5
        <3>2. Stmts(rest) = {Retire(s.ents \ {e}, s.into)}
            BY <3>1, StmtsOfTuples
        <3> QED BY <2>5, <3>2 DEF Retire
    <2>6. \A f : Active(g, f) /\ f # e => Active(h, f)
        BY <2>2 DEF Active
    <2> QED BY <1>3, <2>2, <2>3, <2>4, <2>5, <2>6
<1> QED BY <1>1, <1>2, <1>3

LEMMA ConsolidatingStep ==
    ASSUME NEW g \in AgreeingGraph, NEW prog \in Seq(AgreeingStmt), prog # <<>>, NEW h,
           NEW rest \in Seq(AgreeingStmt), Executes(Head(prog), g, h, rest),
           NEW l, Consolidating(g, l, prog)
    PROVE  Consolidating(h, l, rest \o Tail(prog))
<1> DEFINE s == Head(prog)
           more == rest \o Tail(prog)
<1>1. /\ Stmts(prog) = {s} \cup Stmts(Tail(prog))
      /\ Stmts(more) = Stmts(rest) \cup Stmts(Tail(prog))
    BY ProgramStep
<1>2. Executes(s, g, h, rest) /\ g \in Graph /\ PointersAgree(g)
    BY DEF AgreeingGraph
<1> SUFFICES Consolidating(h, l, more)
    OBVIOUS
<1> HIDE DEF s, more
<1>3. Retires(g, l, s)
    BY <1>1 DEF Consolidating
<1>4. /\ \A e : Active(g, e) => \/ Active(h, e)
                                \/ s.op = "retire" /\ e \in s.ents /\ h.into[e] = s.into
      /\ \A e \in Entity : \/ h.into[e] = g.into[e]
                           \/ s.op = "retire" /\ e \in s.ents /\ h.into[e] = s.into
      /\ s.op = "retire" =>
            \A e \in s.ents : \/ Active(g, e) => h.into[e] = s.into
                              \/ \E t \in Stmts(rest) : t.op = "retire" /\ e \in t.ents
    BY <1>2, <1>3, RetireStep DEF Retires
<1>5. \A e \in Entity : Active(g, e) => g.into[e] = NoEntity
    BY <1>2 DEF PointersAgree, Active
<1>6. \A e \in l.others \cup UNION l.groups : Active(h, e)
    BY <1>3, <1>4 DEF Consolidating, Retires
<1>7. \A t \in Stmts(rest) : t.op = s.op /\ (s.op = "retire" => t.ents \subseteq s.ents /\ t.into = s.into)
    BY <1>2, <1>3, StatementsLeft DEF Retires
<1>8. ASSUME NEW t, Retires(g, l, t)
      PROVE  Retires(h, l, t)
    BY <1>3, <1>4, <1>8 DEF Retires
<1>9. \A t \in Stmts(rest) : Retires(g, l, t)
    BY <1>3, <1>7 DEF Retires
<1>10. \A t \in Stmts(more) : Retires(h, l, t)
    BY <1>1, <1>8, <1>9 DEF Consolidating
<1>11. ASSUME NEW k \in l.links, NEW w, Settling(g, l, prog, k, w)
       PROVE  Settling(h, l, more, k, w)
    <2>1. Active(h, w) /\ w \in Entity
        BY <1>1, <1>4, <1>11 DEF Settling, Active
    <2>2. \A t \in Stmts(more) : t.op = "retire" => w \notin t.ents
        BY <1>1, <1>7, <1>11 DEF Settling
    <2>3. ASSUME NEW e \in k PROVE Leads(h, l, more, e, w)
        <3>1. Leads(g, l, prog, e, w)
            BY <1>11 DEF Settling
        <3>2. CASE e = w \/ (w = l.ent /\ e \in l.others)
            BY <3>2 DEF Leads
        <3>3. CASE e \in Entity /\ g.into[e] = w
            <4>1. ~Active(g, e)
                BY <1>5, <2>1, <3>3, MaxEntityAssumption DEF Entity, NoEntity
            <4>2. h.into[e] = w
                BY <1>3, <1>4, <3>3, <4>1 DEF Retires
            <4> QED BY <3>3, <4>2 DEF Leads
        <3>4. ASSUME w = l.ent, NEW t \in Stmts(Tail(prog)), t.op = "retire", e \in t.ents
              PROVE  Leads(h, l, more, e, w)
            BY <1>1, <3>4 DEF Leads
        <3>5. CASE w = l.ent /\ s.op = "retire" /\ e \in s.ents
            <4>1. e \in Entity /\ (Active(g, e) \/ g.into[e] = w) /\ s.into = w
                BY <1>3, <3>5 DEF Retires
            <4>2. CASE \E t \in Stmts(rest) : t.op = "retire" /\ e \in t.ents
                BY <1>1, <3>5, <4>2 DEF Leads
            <4>3. CASE Active(g, e) => h.into[e] = s.into
                <5>1. h.into[e] = w
                    BY <1>4, <4>1, <4>3
                <5> QED BY <4>1, <5>1 DEF Leads
            <4> QED BY <1>4, <3>5, <4>2, <4>3
        <3> QED BY <1>1, <3>1, <3>2, <3>3, <3>4, <3>5 DEF Leads
    <2> QED BY <1>11, <2>1, <2>2, <2>3 DEF Settling
<1> QED BY <1>6, <1>10, <1>11 DEF Consolidating

\* The next group: its winner stays, its other members are still to consolidate.
LEMMA GroupTaken ==
    ASSUME NEW g, NEW l, l.others = {}, Consolidating(g, l, <<>>),
           NEW G \in l.groups, NEW w \in G,
           NEW m, m.groups = l.groups \ {G}, m.ent = w, m.others = G \ {w}, m.links = l.links
    PROVE  Consolidating(g, m, <<>>)
<1>1. Stmts(<<>>) = {}
    BY StmtsOfTuples
<1>2. (UNION m.groups) \cap G = {} /\ UNION m.groups \subseteq UNION l.groups
    <2>1. \A H \in m.groups : H \in l.groups /\ H \cap G = {}
        BY DEF Consolidating
    <2>2. ASSUME NEW x \in UNION m.groups PROVE x \notin G /\ x \in UNION l.groups
        <3>1. PICK H \in m.groups : x \in H
            OBVIOUS
        <3> QED BY <2>1, <3>1
    <2> QED BY <2>2
<1>3. \A e \in G \cup UNION m.groups : Active(g, e)
    BY <1>2 DEF Consolidating
<1>4. ASSUME NEW k, NEW v, Settling(g, l, <<>>, k, v)
      PROVE  Settling(g, m, <<>>, k, v)
    <2>1. Active(g, v) /\ v \notin UNION m.groups /\ v \notin m.others
        BY <1>2, <1>4 DEF Settling
    <2>2. \A e \in k : Leads(g, m, <<>>, e, v)
        BY <1>1, <1>4 DEF Settling, Leads
    <2> QED BY <1>1, <2>1, <2>2 DEF Settling
<1>5. ASSUME NEW k, k \subseteq G
      PROVE  Settling(g, m, <<>>, k, w)
    <2>1. Active(g, w) /\ w \notin UNION m.groups /\ w \notin m.others
        <3>1. w \notin UNION m.groups
            BY <1>2
        <3>2. w \notin m.others
            OBVIOUS
        <3>3. Active(g, w)
            BY <1>3
        <3> QED BY <3>1, <3>2, <3>3
    <2>2. \A e \in k : Leads(g, m, <<>>, e, w)
        BY <1>5 DEF Leads
    <2> QED BY <1>1, <2>1, <2>2 DEF Settling
<1>6. ASSUME NEW k \in m.links
      PROVE  \/ \E H \in m.groups : k \subseteq H
             \/ \E v : Settling(g, m, <<>>, k, v)
    <2>1. \/ \E H \in l.groups : k \subseteq H
          \/ \E v : Settling(g, l, <<>>, k, v)
        BY DEF Consolidating
    <2>2. ASSUME NEW H \in l.groups, k \subseteq H
          PROVE  H \in m.groups \/ Settling(g, m, <<>>, k, w)
        BY <1>5, <2>2
    <2> QED BY <1>4, <2>1, <2>2
<1> QED BY <1>1, <1>2, <1>3, <1>6 DEF Consolidating

\* The next loser: its records move and it is retired.
LEMMA LoserTaken ==
    ASSUME NEW g, NEW l, Consolidating(g, l, <<>>), NEW f \in l.others, NEW rs,
           NEW m, m.groups = l.groups, m.ent = l.ent, m.others = l.others \ {f},
           m.links = l.links, NEW u, NEW v, NEW prog,
           prog = <<Attach(rs, l.ent), Retire({f}, l.ent), Emit(u), Emit(v)>>
    PROVE  Consolidating(g, m, prog)
<1> DEFINE a == Attach(rs, l.ent)
           b == Retire({f}, l.ent)
<1>1. Stmts(<<>>) = {} /\ Stmts(prog) = {a, b, Emit(u), Emit(v)}
    <2>1. \A c, d : Stmts(<<a, b, c, d>>) = {a, b, c, d}
        BY StmtsOfTuples
    <2> QED BY <2>1, StmtsOfTuples
<1>2. /\ a.op = "attach" /\ Emit(u).op = "emit" /\ Emit(v).op = "emit"
      /\ b.op = "retire" /\ b.ents = {f} /\ b.into = l.ent
    BY DEF Attach, Retire, Emit
<1> HIDE DEF a, b
<1>3. f \notin UNION m.groups /\ Active(g, f)
    BY DEF Consolidating
<1>4. \A s \in Stmts(prog) : Retires(g, m, s)
    BY <1>1, <1>2, <1>3 DEF Retires, Active
<1>5. ASSUME NEW k, NEW w, Settling(g, l, <<>>, k, w)
      PROVE  Settling(g, m, prog, k, w)
    <2>1. Active(g, w) /\ w \notin UNION m.groups /\ w \notin m.others /\ w # f
        BY <1>5 DEF Settling
    <2>2. \A s \in Stmts(prog) : s.op = "retire" => w \notin s.ents
        BY <1>1, <1>2, <2>1
    <2>3. ASSUME NEW e \in k PROVE Leads(g, m, prog, e, w)
        <3>1. Leads(g, l, <<>>, e, w)
            BY <1>5 DEF Settling
        <3> QED BY <1>1, <1>2, <3>1 DEF Leads
    <2> QED BY <2>1, <2>2, <2>3 DEF Settling
<1>6. \A k \in l.links : \/ \E G \in l.groups : k \subseteq G
                         \/ \E w : Settling(g, l, <<>>, k, w)
    BY DEF Consolidating
<1>7. \A k \in m.links : \/ \E G \in m.groups : k \subseteq G
                         \/ \E w : Settling(g, m, prog, k, w)
    BY <1>5, <1>6
<1> QED BY <1>3, <1>4, <1>7 DEF Consolidating

LEMMA StabilizingGoesOn ==
    ASSUME BaseInv, OneClient, NEW p \in Client, NEW next, NEW prog, NEW l,
           Continue(p, next, prog, l), l.op = "stabilize" => Stabilizing(work', next, l, prog)
    PROVE  StabilizeInv'
<1>1. ASSUME NEW q \in Client, local'[q].op = "stabilize"
      PROVE  Stabilizing(work', pc'[q], local'[q], todo'[q])
    BY <1>1, AloneReads
<1> QED BY <1>1
    DEF StabilizeInv, Stabilizing, Consolidating, Settling, Leads, Retires, Active, Stmts

\* The updates of a call's variables in a pass.
Scanned(l, links, groups) == [l EXCEPT !.links = links, !.groups = groups]
Chosen(l, G, w) == [l EXCEPT !.groups = @ \ {G}, !.ent = w, !.others = G \ {w}]
Consolidated(l, e) == [l EXCEPT !.others = @ \ {e}]

LEMMA PassUpdates ==
    ASSUME NEW l \in Local
    PROVE  /\ \A x, y : LET m == Scanned(l, x, y)
                        IN m.op = l.op /\ m.links = x /\ m.groups = y /\ m.others = l.others
           /\ \A G, w : LET m == Chosen(l, G, w)
                        IN /\ m.op = l.op /\ m.links = l.links /\ m.groups = l.groups \ {G}
                           /\ m.ent = w /\ m.others = G \ {w}
           /\ \A e : LET m == Consolidated(l, e)
                     IN /\ m.op = l.op /\ m.links = l.links /\ m.groups = l.groups
                        /\ m.ent = l.ent /\ m.others = l.others \ {e}
BY DEF Local, Scanned, Chosen, Consolidated

LEMMA StabilizeReads ==
    ASSUME BaseInv, OneClient, StabilizeInv, NEW p \in Client,
           StabilizeScan(p) \/ StabilizeGroup(p) \/ StabilizeLoser(p) \/ StabilizeNext(p)
    PROVE  StabilizeInv'
<1> DEFINE l == local[p]
           g == work
<1>1. /\ l \in Local /\ work \in Graph /\ View(p) = g /\ work' = work /\ todo[p] = <<>>
      /\ l.op = "stabilize" => Stabilizing(g, pc[p], l, <<>>)
    <2>1. l \in Local
        BY BatchLocal
    <2>2. View(p) = g
        BY AloneSees
    <2>3. work \in Graph
        BY DEF BaseInv, IInv, StoreInv, AgreeingGraph
    <2>4. work' = work /\ todo[p] = <<>>
        BY DEF StabilizeScan, StabilizeGroup, StabilizeLoser, StabilizeNext, At, storeVars
    <2> QED BY <2>1, <2>2, <2>3, <2>4 DEF StabilizeInv
<1> HIDE DEF l, g
<1>2. CASE StabilizeScan(p)
    <2> DEFINE m == Scanned(l, PersistentOverlaps(g), OverlapGroups(g))
    <2>1. Continue(p, "group", <<>>, m) /\ pc[p] = "scan"
        BY <1>1, <1>2 DEF StabilizeScan, Scanned, At, l
    <2>2. /\ m.op = l.op /\ m.links = PersistentOverlaps(g) /\ m.groups = OverlapGroups(g)
          /\ m.others = l.others
        BY <1>1, PassUpdates
    <2> HIDE DEF m
    <2>3. ASSUME m.op = "stabilize" PROVE Stabilizing(g, "group", m, <<>>)
        <3>1. m.others = {}
            BY <1>1, <2>1, <2>2, <2>3 DEF Stabilizing
        <3>2. /\ \A G, H \in m.groups : G = H \/ G \cap H = {}
              /\ \A e \in UNION m.groups : Active(g, e)
              /\ \A k \in m.links : \E G \in m.groups : k \subseteq G
            BY <1>1, <2>2, GroupsFound DEF g
        <3>3. Consolidating(g, m, <<>>)
            BY <3>1, <3>2, StmtsOfTuples DEF Consolidating
        <3> QED BY <3>1, <3>3 DEF Stabilizing
    <2> QED BY <1>1, <2>1, <2>3, StabilizingGoesOn DEF g
<1>3. CASE StabilizeGroup(p)
    <2>1. PICK G \in l.groups : \E w \in ConsolidationWinner(g, G) :
            IF Active(g, w) THEN Continue(p, "loser", <<>>, Chosen(l, G, w))
                            ELSE Continue(p, "group", <<>>, [l EXCEPT !.groups = @ \ {G}])
        <3> DEFINE Goes(G, w) ==
                IF Active(g, w) THEN Continue(p, "loser", <<>>, Chosen(l, G, w))
                                ELSE Continue(p, "group", <<>>, [l EXCEPT !.groups = @ \ {G}])
        <3>1. \A G, w : [[l EXCEPT !.groups = @ \ {G}] EXCEPT !.ent = w, !.others = G \ {w}]
                            = Chosen(l, G, w)
            BY <1>1 DEF Chosen, Local
        <3> DEFINE Seen(G, w) ==
                IF Active(g, w)
                THEN Continue(p, "loser", <<>>,
                        [[l EXCEPT !.groups = @ \ {G}] EXCEPT !.ent = w, !.others = G \ {w}])
                ELSE Continue(p, "group", <<>>, [l EXCEPT !.groups = @ \ {G}])
        <3>2. \E G \in l.groups : \E w \in ConsolidationWinner(g, G) : Seen(G, w)
            <4>1. \E G \in local[p].groups : \E w \in ConsolidationWinner(View(p), G) :
                    IF Active(View(p), w)
                    THEN Continue(p, "loser", <<>>,
                            [[local[p] EXCEPT !.groups = @ \ {G}]
                                EXCEPT !.ent = w, !.others = G \ {w}])
                    ELSE Continue(p, "group", <<>>, [local[p] EXCEPT !.groups = @ \ {G}])
                BY <1>3 DEF StabilizeGroup
            <4>2. View(p) = g /\ local[p] = l
                BY <1>1 DEF l
            <4> QED BY <4>1, <4>2
        <3>3. \A G, w : Seen(G, w) = Goes(G, w)
            BY <3>1
        <3>4. ASSUME NEW G, NEW w, Goes(G, w)
              PROVE  IF Active(g, w)
                     THEN Continue(p, "loser", <<>>, Chosen(l, G, w))
                     ELSE Continue(p, "group", <<>>, [l EXCEPT !.groups = @ \ {G}])
            BY <3>4
        <3> HIDE DEF Seen, Goes
        <3>5. PICK G \in l.groups : \E w \in ConsolidationWinner(g, G) : Goes(G, w)
            BY <3>2, <3>3
        <3>6. PICK w \in ConsolidationWinner(g, G) : Goes(G, w)
            BY <3>5
        <3> QED BY <3>4, <3>6
    <2>2. PICK w \in ConsolidationWinner(g, G) :
            IF Active(g, w) THEN Continue(p, "loser", <<>>, Chosen(l, G, w))
                            ELSE Continue(p, "group", <<>>, [l EXCEPT !.groups = @ \ {G}])
        BY <2>1
    <2>3. w \in G /\ pc[p] = "group"
        BY <1>3 DEF ConsolidationWinner, Foremost, StabilizeGroup, At
    <2>4. [l EXCEPT !.groups = @ \ {G}].op = l.op
        BY <1>1 DEF Local
    <2>5. CASE l.op = "stabilize"
        <3> DEFINE m == Chosen(l, G, w)
        <3>1. Consolidating(g, l, <<>>) /\ l.others = {}
            BY <1>1, <2>3, <2>5 DEF Stabilizing
        <3>2. Active(g, w)
            BY <2>3, <3>1 DEF Consolidating
        <3>3. Continue(p, "loser", <<>>, m)
            BY <2>2, <3>2
        <3>4. /\ m.op = l.op /\ m.links = l.links /\ m.groups = l.groups \ {G}
              /\ m.ent = w /\ m.others = G \ {w}
            BY <1>1, PassUpdates
        <3> HIDE DEF m
        <3>5. Consolidating(g, m, <<>>)
            BY <2>3, <3>1, <3>4, GroupTaken
        <3>6. Stabilizing(g, "loser", m, <<>>)
            BY <3>5 DEF Stabilizing
        <3> QED BY <1>1, <3>3, <3>6, StabilizingGoesOn DEF g
    <2>6. CASE l.op # "stabilize"
        <3>1. Chosen(l, G, w).op = l.op
            BY <1>1, PassUpdates
        <3> QED BY <2>2, <2>4, <2>6, <3>1, StabilizingGoesOn
    <2> QED BY <2>5, <2>6
<1>4. CASE StabilizeLoser(p)
    <2>1. PICK e \in l.others :
            Continue(p, "loser",
                IF Active(g, e)
                THEN <<Attach(RecordsOf(g, e), l.ent), Retire({e}, l.ent),
                       Emit({Ev("consolidated", l.ent, NoEntity)}),
                       Emit({Ev("consolidated", e, l.ent)})>>
                ELSE <<>>, Consolidated(l, e))
        BY <1>1, <1>4 DEF StabilizeLoser, Consolidated, l
    <2> DEFINE m == Consolidated(l, e)
               prog == <<Attach(RecordsOf(g, e), l.ent), Retire({e}, l.ent),
                         Emit({Ev("consolidated", l.ent, NoEntity)}),
                         Emit({Ev("consolidated", e, l.ent)})>>
    <2>2. /\ m.op = l.op /\ m.links = l.links /\ m.groups = l.groups
          /\ m.ent = l.ent /\ m.others = l.others \ {e}
        BY <1>1, PassUpdates
    <2>3. pc[p] = "loser"
        BY <1>4 DEF StabilizeLoser, At
    <2>4. CASE l.op = "stabilize"
        <3>1. Consolidating(g, l, <<>>)
            BY <1>1, <2>3, <2>4 DEF Stabilizing
        <3>2. Active(g, e)
            BY <3>1 DEF Consolidating
        <3>3. Continue(p, "loser", prog, m)
            BY <2>1, <3>2
        <3> HIDE DEF m
        <3>4. Consolidating(g, m, prog)
            BY <2>2, <3>1, LoserTaken
        <3> HIDE DEF prog
        <3>5. Stabilizing(g, "loser", m, prog)
            BY <3>4 DEF Stabilizing
        <3> QED BY <1>1, <3>3, <3>5, StabilizingGoesOn DEF g
    <2>5. CASE l.op # "stabilize"
        BY <2>1, <2>2, <2>5, StabilizingGoesOn
    <2> QED BY <2>4, <2>5
<1>5. CASE StabilizeNext(p)
    <2>1. \/ pc[p] = "loser" /\ l.others = {} /\ Continue(p, "group", <<>>, l)
          \/ pc[p] = "group" /\ l.groups = {} /\ Continue(p, "return", <<>>, l)
        BY <1>5 DEF StabilizeNext, At, l
    <2>2. CASE pc[p] = "loser" /\ l.others = {} /\ Continue(p, "group", <<>>, l)
        <3>1. l.op = "stabilize" => Stabilizing(g, "group", l, <<>>)
            BY <1>1, <2>2 DEF Stabilizing
        <3> QED BY <1>1, <2>2, <3>1, StabilizingGoesOn DEF g
    <2>3. CASE pc[p] = "group" /\ l.groups = {} /\ Continue(p, "return", <<>>, l)
        <3>1. l.op = "stabilize" => Stabilizing(g, "return", l, <<>>)
            BY <1>1, <2>3 DEF Stabilizing
        <3> QED BY <1>1, <2>3, <3>1, StabilizingGoesOn DEF g
    <2> QED BY <2>1, <2>2, <2>3
<1> QED BY <1>2, <1>3, <1>4, <1>5

LEMMA StabilizeStep ==
    ASSUME BaseInv, OneClient, StabilizeInv, [Next]_vars
    PROVE  StabilizeInv'
<1>1. ASSUME NEW p \in Client, Invoke(p) PROVE StabilizeInv'
    <2>1. PICK first \in {"lookup", "check", "split", "target", "find", "scan"} :
            \E l : Begin(p, first, l) /\ Fresh(l) /\ first = Starts[l.op]
        BY <1>1, InvokeFresh
    <2>2. PICK l : Begin(p, first, l) /\ Fresh(l) /\ first = Starts[l.op]
        BY <2>1
    <2>3. l.others = {}
        BY <2>2 DEF Fresh, Idle
    <2>4. l.op = "stabilize" => Stabilizing(work', "scan", l, <<>>) /\ first = "scan"
        BY <2>2, <2>3 DEF Stabilizing, Starts
    <2> QED BY <2>2, <2>4, StabilizingGoesOn DEF Begin
<1>2. ASSUME NEW p \in Client, Write(p) PROVE StabilizeInv'
    <2>1. PICK rest \in Seq(AgreeingStmt), h \in AgreeingGraph :
            Executes(Statement(p), work, h, rest) /\ work' = h /\ Then(p, rest)
        BY <1>2, AloneWrites
    <2>2. /\ todo[p] \in Seq(AgreeingStmt) /\ todo[p] # <<>> /\ work \in AgreeingGraph
          /\ todo'[p] = rest \o Tail(todo[p]) /\ local' = local /\ pc' = pc
        BY <1>2, <2>1, AloneWrites DEF Then, BaseInv, IInv, CallInv
    <2>3. ASSUME local[p].op = "stabilize"
          PROVE  Stabilizing(work', pc[p], local[p], todo'[p])
        <3>1. Stabilizing(work, pc[p], local[p], todo[p])
            BY <2>3 DEF StabilizeInv
        <3>2. pc[p] = "loser" /\ Consolidating(work, local[p], todo[p])
            BY <2>2, <3>1 DEF Stabilizing
        <3>3. Consolidating(work', local[p], todo'[p])
            BY <2>1, <2>2, <3>2, ConsolidatingStep DEF Statement
        <3> QED BY <3>2, <3>3 DEF Stabilizing
    <2>4. ASSUME NEW q \in Client, local'[q].op = "stabilize"
          PROVE  Stabilizing(work', pc'[q], local'[q], todo'[q])
        <3>1. q = p
            BY DEF OneClient
        <3> QED BY <2>2, <2>3, <2>4, <3>1
    <2> QED BY <2>4
        DEF StabilizeInv, Stabilizing, Consolidating, Settling, Leads, Retires, Active, Stmts
<1>3. ASSUME NEW p \in Client, Return(p) \/ Fail(p) PROVE StabilizeInv'
    <2>1. Idle.op = "none"
        BY DEF Idle
    <2> QED BY <1>3, <2>1, StabilizingGoesOn DEF Return, Fail
<1>4. CASE UNCHANGED vars
    BY <1>4
    DEF vars, StabilizeInv, Stabilizing, Consolidating, Settling, Leads, Retires, Active, Stmts
<1>5. ASSUME NEW p \in Client, pc[p] \notin {"scan", "group", "loser", "return"},
             \E next, prog, l : Continue(p, next, prog, l) /\ l.op \in {local[p].op, "none"}
      PROVE  StabilizeInv'
    <2>1. PICK next, prog, l : Continue(p, next, prog, l) /\ l.op \in {local[p].op, "none"}
        BY <1>5
    <2>2. l.op # "stabilize"
        BY <1>5, <2>1 DEF StabilizeInv, Stabilizing
    <2> QED BY <2>1, <2>2, StabilizingGoesOn
<1>6. ASSUME NEW p \in Client,
             \/ MergeCheck(p) \/ MergeCheckOther(p) \/ MergeRecords(p) \/ SplitCheck(p) \/ ClaimTarget(p)
             \/ ClaimRecord(p) \/ MediateFind(p) \/ MediateFindOther(p) \/ MediateAct(p)
      PROVE  StabilizeInv'
    <2>1. PICK next \in PC \ BatchPC : \E prog, l :
                Continue(p, next, prog, l) /\ l.op \in {local[p].op, "none"}
        BY <1>6, ElsewhereReads
    <2>2. pc[p] \notin {"scan", "group", "loser", "return"}
        BY <1>6 DEF MergeCheck, MergeCheckOther, MergeRecords, SplitCheck, ClaimTarget, ClaimRecord, MediateFind, MediateFindOther, Rule,
            MediateAct, At
    <2> QED BY <1>5, <2>1, <2>2
<1>7. ASSUME NEW p \in Client, Handler(p) PROVE StabilizeInv'
    <2>1. pc[p] = "loop" /\ pc'[p] = "loop" /\ local'[p].op = local[p].op
        BY <1>7, ClusterTaken DEF TakesUp
    <2>2. ASSUME NEW q \in Client PROVE local'[q].op # "stabilize"
        <3>1. q = p
            BY DEF OneClient
        <3> QED BY <2>1, <3>1 DEF StabilizeInv, Stabilizing
    <2> QED BY <2>2 DEF StabilizeInv
<1>8. ASSUME NEW p \in Client,
             ResolveLookup(p) \/ ResolveNodes(p) \/ ResolveFinish(p) \/ DetMergeRead(p) \/ DetMergeWrite(p)
      PROVE  StabilizeInv'
    BY <1>5, <1>8, StageReads DEF BatchPC
<1>9. ASSUME NEW p \in Client, Read(p) PROVE StabilizeInv'
    BY <1>6, <1>7, <1>8, <1>9, StabilizeReads DEF Read, Handler
<1>10. ASSUME NEW p \in Client, DetMergeFails(p) PROVE StabilizeInv'
    BY <1>5, <1>10, MergeFailure
<1> QED BY <1>1, <1>2, <1>3, <1>4, <1>9, <1>10 DEF Next, Step, Done

LEMMA StabilizeConsolidates ==
    ASSUME BaseInv, OneClient, StabilizeInv
    PROVE  OverlapsConsolidated
<1> SUFFICES ASSUME NEW p \in Client, Returned(p, "stabilize"), NEW k \in local[p].links
             PROVE  \E w \in Entity : Active(durable, w) /\ \A e \in k : e = w \/ durable.into[e] = w
    BY DEF OverlapsConsolidated
<1>1. pc[p] = "return" /\ todo[p] = <<>> /\ local[p].op = "stabilize"
    BY DEF Returned, At
<1>2. work = durable
    BY <1>1, AloneSees
<1>3. local[p].groups = {} /\ local[p].others = {} /\ Consolidating(work, local[p], <<>>)
    BY <1>1 DEF StabilizeInv, Stabilizing
<1>4. PICK w : Settling(work, local[p], <<>>, k, w)
    BY <1>3 DEF Consolidating
<1> QED BY <1>2, <1>3, <1>4, StmtsOfTuples DEF Settling, Leads, Active

\* When a stabilization pass returns, the two sides of every overlap it found
\* are one active entity, though the pass follows its groups one by one and the
\* overlaps chain.
THEOREM OverlapsAlwaysConsolidated ==
    ASSUME OneClient
    PROVE  Spec => []OverlapsConsolidated
<1>1. Init => BaseInv /\ StabilizeInv
    BY InitBase DEF Init, StabilizeInv, Idle
<1>2. BaseInv /\ StabilizeInv /\ [Next]_vars => BaseInv' /\ StabilizeInv'
    BY NextBase, StabilizeStep
<1>3. BaseInv /\ StabilizeInv => OverlapsConsolidated
    BY StabilizeConsolidates
<1> QED BY <1>1, <1>2, <1>3, PTL DEF Spec

----------------------------------------------------------------------------
(* Two records that a steward has ruled distinct, batches among the calls.   *)
(* A split gives the second record to an entity that nothing yet points at.  *)

\* Every entity that has a row, or will get one, has been minted.
MintInv ==
    /\ Rows(work) \subseteq Minted
    /\ \A p \in Client :
          /\ \A s \in Stmts(todo[p]) : s.op = "node" => s.ent \in Minted
          /\ local[p].op = "resolve" => \A w \in local[p].rows : w.ent \in Minted

LEMMA MintedGrows ==
    ASSUME BaseInv, minted' = minted \/ Mint
    PROVE  Minted \subseteq Minted' /\ (Mint => NextEntity \in Minted') /\ NextEntity \notin Minted
<1>1. minted \in Nat
    BY MaxEntityAssumption DEF BaseInv, IInv, BoundInv
<1> QED BY <1>1 DEF Minted, Mint, NextEntity

LEMMA MintGoesOn ==
    ASSUME BaseInv, OneClient, NEW p \in Client, NEW next, NEW prog, NEW l,
           Continue(p, next, prog, l), Rows(work)' \subseteq Minted',
           \A s \in Stmts(prog) : s.op = "node" => s.ent \in Minted',
           l.op = "resolve" => \A w \in l.rows : w.ent \in Minted'
    PROVE  MintInv'
<1>1. \A q \in Client : todo'[q] = prog /\ local'[q] = l
    BY AloneReads
<1> QED BY <1>1 DEF MintInv, Stmts

\* What a call of a steward plans writes at most the node it has minted, and
\* no evidence.
LEMMA ElsewherePlans ==
    ASSUME BaseInv, OneClient, NEW p \in Client,
           \/ MergeCheck(p) \/ MergeCheckOther(p) \/ MergeRecords(p) \/ SplitCheck(p) \/ ClaimTarget(p)
           \/ ClaimRecord(p) \/ MediateFind(p) \/ MediateFindOther(p) \/ MediateAct(p)
           \/ StabilizeScan(p) \/ StabilizeGroup(p) \/ StabilizeLoser(p) \/ StabilizeNext(p)
    PROVE  \/ minted' = minted /\ Modest(todo'[p])
           \/ CanMint /\ Mint /\ Splits(todo'[p])
<1> DEFINE Plans == \/ minted' = minted /\ Modest(todo'[p])
                    \/ CanMint /\ Mint /\ Splits(todo'[p])
<1>1. ASSUME NEW next, NEW prog, NEW l, Continue(p, next, prog, l), Modest(prog),
             UNCHANGED boundVars
      PROVE  Plans
    BY <1>1, AloneReads DEF boundVars
<1>2. ASSUME NEW next, NEW prog, NEW l, Continue(p, next, prog, l), Splits(prog), CanMint, Mint
      PROVE  Plans
    BY <1>2, AloneReads
<1> HIDE DEF Plans
<1>3. ASSUME GiveUp(p), UNCHANGED boundVars PROVE Plans
    BY <1>1, <1>3, ModestPrograms DEF GiveUp
<1>4. ASSUME MergeCheck(p) \/ MergeCheckOther(p) PROVE Plans
    BY <1>1, <1>3, <1>4, ModestPrograms DEF MergeCheck, MergeCheckOther
<1>5. ASSUME MergeRecords(p) PROVE Plans
    BY <1>1, <1>5, ModestPrograms DEF MergeRecords
<1>6. ASSUME SplitCheck(p) PROVE Plans
    BY <1>2, <1>3, <1>6, ModestPrograms DEF SplitCheck
<1>7. ASSUME ClaimTarget(p) PROVE Plans
    BY <1>1, <1>3, <1>7, ModestPrograms DEF ClaimTarget
<1>8. ASSUME ClaimRecord(p) PROVE Plans
    BY <1>1, <1>3, <1>8, ModestPrograms DEF ClaimRecord
<1>9. ASSUME MediateFind(p) \/ MediateFindOther(p) PROVE Plans
    BY <1>1, <1>9, MediateFinds, ModestPrograms
<1>10. ASSUME MediateAct(p) PROVE Plans
    <2> DEFINE said == IF local[p].ent = NoEntity THEN {}
                       ELSE {Ev("conflict_mediated", local[p].ent, NoEntity)}
               split == SplitProgram(local[p].ent, {local[p].b})
               prog == Append(split, Emit(said))
    <2>1. CASE Continue(p, "return", <<Emit(said)>>, local[p]) /\ UNCHANGED boundVars
        BY <1>1, <2>1, ModestPrograms
    <2>2. CASE Continue(p, "return", prog, local[p]) /\ CanMint /\ Mint
        <3>1. Splits(split) /\ Stmts(prog) = Stmts(split) \cup {Emit(said)}
            BY AppendedSplit, ModestPrograms
        <3> HIDE DEF split, said
        <3>2. Splits(prog)
            BY <3>1 DEF Splits, Emit
        <3> QED BY <1>2, <2>2, <3>2
    <2> QED BY <1>10, <2>1, <2>2 DEF MediateAct
<1>11. ASSUME StabilizeScan(p) PROVE Plans
    BY <1>1, <1>11, ModestPrograms DEF StabilizeScan
<1>12. ASSUME StabilizeGroup(p) PROVE Plans
    <2>1. PICK next \in {"loser", "group"} : \E l : Continue(p, next, <<>>, l)
        BY <1>12 DEF StabilizeGroup
    <2> QED BY <1>1, <1>12, <2>1, ModestPrograms DEF StabilizeGroup
<1>13. ASSUME StabilizeLoser(p) PROVE Plans
    <2>1. \E prog, l : Continue(p, "loser", prog, l) /\ Modest(prog)
        BY <1>13, ModestPrograms DEF StabilizeLoser
    <2> QED BY <1>1, <1>13, <2>1 DEF StabilizeLoser
<1>14. ASSUME StabilizeNext(p) PROVE Plans
    BY <1>1, <1>14, ModestPrograms DEF StabilizeNext
<1>15. Plans
    BY <1>4, <1>5, <1>6, <1>7, <1>8, <1>9, <1>10, <1>11, <1>12, <1>13, <1>14
<1> QED BY <1>15 DEF Plans

LEMMA BulkWriteRows ==
    ASSUME NEW g \in Graph, NEW rows
    PROVE  Rows(BulkWrite(g, rows)) \subseteq Rows(g) \cup {w.ent : w \in rows}
<1> DEFINE ents == {w.ent : w \in rows}
<1>1. BulkWrite(g, rows).status = [e \in Entity |-> IF e \in ents THEN "active" ELSE g.status[e]]
    BY DEF BulkWrite, Graph
<1> HIDE DEF ents
<1>2. Rows(BulkWrite(g, rows)) \subseteq Rows(g) \cup ents
    BY <1>1 DEF Rows, Exists
<1> QED BY <1>2 DEF ents

LEMMA RemapRows ==
    ASSUME NEW g \in Graph, NEW remap
    PROVE  Rows(RemapEntities(g, remap)) = Rows(g)
<1>1. \A e \in Entity : RemapEntities(g, remap).status[e] =
            IF remap[e] # e /\ Exists(g, e) THEN "merged_into" ELSE g.status[e]
    BY DEF RemapEntities, Graph
<1> QED BY <1>1 DEF Rows, Exists

LEMMA MintHandler ==
    ASSUME BaseInv, OneClient, ProgressInv, MintInv, NEW p \in Client, Handler(p)
    PROVE  MintInv'
<1> DEFINE l == local[p]
           c == Head(l.left)
<1>1. pc[p] = "loop" /\ l.left # <<>> /\ AtCluster(p)
    BY DEF Handler, ResolveSkip, ResolveAccumulate, ResolveCreate, ResolveAbsorb, ResolveMerge,
           AtCluster, At
<1>2. /\ ThisCluster(p) = c /\ Existing(p) = FoundHere(l) /\ l \in Local /\ View(p) = work
      /\ l.op = "resolve" /\ work \in Graph
    BY <1>1, BatchLocal, AloneSees
    DEF ThisCluster, Existing, FoundHere, ProgressInv, Progress, BatchPC,
        BaseInv, IInv, StoreInv, AgreeingGraph
<1>3. /\ \A w \in l.rows : w.ent \in Minted
      /\ Rows(work) \subseteq Minted /\ FoundHere(l) \subseteq Minted
    BY <1>1, <1>2, ExistingRefs DEF MintInv, BaseInv
<1>4. ASSUME NEW prog, Resolve(p, prog), UNCHANGED storeVars, minted' = minted \/ Mint,
             \A s \in Stmts(prog) : s.op = "node" => s.ent \in Minted'
      PROVE  MintInv'
    <2>1. Continue(p, "loop", prog, Advanced(l))
        BY <1>4 DEF Resolve, Advanced
    <2>2. Advanced(l).rows = l.rows
        BY <1>2, SameCallUpdates
    <2>3. Rows(work)' \subseteq Minted' /\ \A w \in l.rows : w.ent \in Minted'
        BY <1>3, <1>4, MintedGrows DEF storeVars, Rows, Exists
    <2> QED BY <1>4, <2>1, <2>2, <2>3, MintGoesOn
<1>5. \A e : \A prog \in {Creates(l, e), Absorbs(l, e), Merges(l, e)} :
          \A s \in Stmts(prog) : s.op = "node" => s.ent = e
    BY BranchStmts DEF Node, Emit, Attach, Link, Absorb, Carry
<1>6. CASE ResolveSkip(p)
    BY <1>4, <1>6, StmtsOfTuples DEF ResolveSkip, boundVars
<1>7. CASE ResolveAccumulate(p)
    <2> DEFINE rows == l.rows \cup {NewRow(l, NextEntity)}
               full == Cardinality(UNION {w.members : w \in rows}) >= FlushRows
               m == Refilled(l, IF full THEN {} ELSE rows)
    <2>1. /\ Continue(p, "loop", <<>>, m)
          /\ IF full THEN Flush(p, rows) ELSE UNCHANGED storeVars
          /\ Mint
        BY <1>2, <1>7 DEF ResolveAccumulate, NewRow, Accumulates, ThisCluster, Refilled
    <2>2. m.rows = IF full THEN {} ELSE rows
        BY <1>2, SameCallUpdates
    <2>3. NextEntity \in Minted' /\ Minted \subseteq Minted'
        BY <2>1, MintedGrows
    <2>4. NewRow(l, NextEntity).ent = NextEntity
        BY DEF NewRow
    <2>5. \A w \in rows : w.ent \in Minted'
        BY <1>3, <2>3, <2>4
    <2> HIDE DEF m, full, rows
    <2>6. work' \in {work, BulkWrite(work, rows)}
        BY <1>2, <2>1 DEF Flush, Commit, storeVars
    <2>7. Rows(work') \subseteq Minted'
        BY <1>2, <1>3, <2>3, <2>5, <2>6, BulkWriteRows
    <2>8. Rows(work)' \subseteq Minted' /\ \A w \in m.rows : w.ent \in Minted'
        BY <2>2, <2>5, <2>7 DEF Rows, Exists
    <2> QED BY <2>1, <2>8, MintGoesOn, StmtsOfTuples
<1>8. CASE ResolveCreate(p)
    <2>1. Resolve(p, Creates(l, NextEntity)) /\ UNCHANGED storeVars /\ Mint
        BY <1>2, <1>8 DEF ResolveCreate, Creates, ThisCluster
    <2>2. NextEntity \in Minted'
        BY <2>1, MintedGrows
    <2> QED BY <1>4, <1>5, <2>1, <2>2
<1>9. CASE ResolveAbsorb(p)
    <2>1. PICK e \in Existing(p) : Resolve(p, Absorbs(l, e))
        BY <1>2, <1>9 DEF ResolveAbsorb, Absorbs, Added, ThisCluster
    <2>2. UNCHANGED <<storeVars, boundVars>>
        BY <1>9 DEF ResolveAbsorb
    <2>3. e \in Minted' /\ minted' = minted
        BY <1>2, <1>3, <2>2 DEF boundVars, Minted
    <2> QED BY <1>4, <1>5, <2>1, <2>2, <2>3
<1>10. CASE ResolveMerge(p)
    <2>1. PICK w \in MergeWinner(l.found, c.members) : Resolve(p, Merges(l, w))
        BY <1>2, <1>10 DEF ResolveMerge, Merges, FoundHere, ThisCluster
    <2>2. UNCHANGED <<storeVars, boundVars>>
        BY <1>10 DEF ResolveMerge
    <2>3. w \in Minted' /\ minted' = minted
        BY <1>2, <1>3, <2>2 DEF MergeWinner, Foremost, FoundHere, boundVars, Minted
    <2> QED BY <1>4, <1>5, <2>1, <2>2, <2>3
<1> QED BY <1>6, <1>7, <1>8, <1>9, <1>10 DEF Handler

LEMMA MintNext ==
    ASSUME BaseInv, OneClient, ProgressInv, MintInv, [Next]_vars
    PROVE  MintInv'
<1>0. work \in Graph /\ Rows(work) \subseteq Minted
    BY DEF MintInv, BaseInv, IInv, StoreInv, AgreeingGraph
<1>1. ASSUME NEW g, Rows(g) \subseteq Minted, work' = g, minted' = minted
      PROVE  Rows(work)' \subseteq Minted'
    BY <1>1 DEF Rows, Exists, Minted
<1>2. ASSUME NEW p \in Client, Invoke(p) PROVE MintInv'
    <2>1. PICK first, l : Begin(p, first, l) /\ Fresh(l)
        BY <1>2, InvokeFresh
    <2>2. l.rows = {}
        BY <2>1 DEF Fresh, Idle
    <2>3. Rows(work)' \subseteq Minted'
        BY <1>0, <1>1, <2>1 DEF Begin, storeVars
    <2> QED BY <2>1, <2>2, <2>3, MintGoesOn, StmtsOfTuples DEF Begin
<1>3. ASSUME NEW p \in Client, Write(p) PROVE MintInv'
    <2> DEFINE s == Statement(p)
    <2>1. PICK rest \in Seq(AgreeingStmt), h \in AgreeingGraph :
            Executes(s, work, h, rest) /\ work' = h /\ Then(p, rest)
        BY <1>3, AloneWrites
    <2>2. /\ todo[p] # <<>> /\ s \in AgreeingStmt
          /\ Stmts(todo[p]) = {s} \cup Stmts(Tail(todo[p]))
          /\ Stmts(todo'[p]) = Stmts(rest) \cup Stmts(Tail(todo[p]))
          /\ local' = local /\ minted' = minted
        BY <1>3, <2>1, WriteExecutes, ThenStmts DEF BaseInv, Then
    <2>3. Rows(h) = Rows(work) \cup IF s.op = "node" THEN {s.ent} ELSE {}
        BY <1>0, <2>1, <2>2, ExecutesNodes
    <2>4. s.op = "node" => s.ent \in Minted
        BY <2>2 DEF MintInv
    <2>5. Rows(work)' \subseteq Minted'
        BY <1>0, <1>1, <2>1, <2>2, <2>3, <2>4
    <2>6. \A t \in Stmts(rest) : t.op # "node"
        BY <2>1, StatementsLeft
    <2>7. Minted' = Minted /\ \A q \in Client : q = p
        BY <2>2 DEF Minted, OneClient
    <2>8. \A t \in Stmts(todo'[p]) : t.op = "node" => t.ent \in Minted'
        BY <2>2, <2>6, <2>7 DEF MintInv
    <2> QED BY <2>2, <2>5, <2>7, <2>8 DEF MintInv, Stmts
<1>4. ASSUME NEW p \in Client, Return(p) \/ Fail(p) PROVE MintInv'
    <2>1. work' \in {work, durable} /\ minted' = minted /\ Continue(p, "idle", <<>>, Idle)
        BY <1>4 DEF Return, Fail, Commit, storeVars, boundVars
    <2>2. Rows(durable) \subseteq Rows(work)
        BY DEF BaseInv, RefInv, StoreRefs
    <2>3. Rows(work)' \subseteq Minted'
        BY <1>0, <1>1, <2>1, <2>2
    <2>4. Idle.rows = {}
        BY DEF Idle
    <2> QED BY <2>1, <2>3, <2>4, MintGoesOn, StmtsOfTuples
<1>5. CASE UNCHANGED vars
    BY <1>5 DEF vars, MintInv, Rows, Exists, Minted, Stmts
<1>6. ASSUME NEW p \in Client, ResolveLookup(p) \/ ResolveNodes(p) \/ DetMergeRead(p)
      PROVE  MintInv'
    <2>1. PICK next, x : \/ Continue(p, next, <<>>, [local[p] EXCEPT !.found = x])
                         \/ Continue(p, next, <<>>, [local[p] EXCEPT !.snap = x])
                         \/ Continue(p, next, <<>>, [local[p] EXCEPT !.remap = x])
        BY <1>6 DEF ResolveLookup, ResolveNodes, DetMergeRead
    <2>2. work' = work /\ minted' = minted
        BY <1>6 DEF ResolveLookup, ResolveNodes, DetMergeRead, storeVars, boundVars
    <2>3. /\ [local[p] EXCEPT !.found = x].op = local[p].op
          /\ [local[p] EXCEPT !.found = x].rows = local[p].rows
          /\ [local[p] EXCEPT !.snap = x].op = local[p].op
          /\ [local[p] EXCEPT !.snap = x].rows = local[p].rows
          /\ [local[p] EXCEPT !.remap = x].op = local[p].op
          /\ [local[p] EXCEPT !.remap = x].rows = local[p].rows
        BY BatchLocal
    <2>4. Rows(work)' \subseteq Minted' /\ Minted' = Minted
        BY <1>0, <1>1, <2>2 DEF Minted
    <2>5. ASSUME NEW l, Continue(p, next, <<>>, l), l.op = local[p].op, l.rows = local[p].rows
          PROVE  MintInv'
        BY <2>4, <2>5, MintGoesOn, StmtsOfTuples DEF MintInv
    <2> QED BY <2>1, <2>3, <2>5
<1>7. ASSUME NEW p \in Client, ResolveFinish(p) PROVE MintInv'
    <2> DEFINE rows == local[p].rows
    <2>1. PICK next : Continue(p, next, <<>>, [local[p] EXCEPT !.rows = {}])
        BY <1>7 DEF ResolveFinish
    <2>2. [local[p] EXCEPT !.rows = {}].rows = {} /\ View(p) = work
        BY BatchLocal, AloneSees
    <2>3. work' \in {work, BulkWrite(work, rows)} /\ minted' = minted
        BY <1>7, <2>2 DEF ResolveFinish, Flush, Commit, storeVars, boundVars
    <2>4. \A w \in rows : w.ent \in Minted
        BY <1>7 DEF ResolveFinish, At, ProgressInv, Progress, BatchPC, MintInv
    <2>5. Rows(BulkWrite(work, rows)) \subseteq Minted
        BY <1>0, <2>4, BulkWriteRows
    <2>6. Rows(work)' \subseteq Minted'
        BY <1>0, <1>1, <2>3, <2>5
    <2> QED BY <2>1, <2>2, <2>6, MintGoesOn, StmtsOfTuples
<1>8. ASSUME NEW p \in Client, DetMergeWrite(p) PROVE MintInv'
    <2>1. Continue(p, "return", <<>>, local[p]) /\ minted' = minted
          /\ work' = RemapEntities(work, local[p].remap)
        BY <1>8, ExecWork DEF DetMergeWrite, boundVars
    <2>2. Rows(work)' \subseteq Minted' /\ Minted' = Minted
        BY <1>0, <1>1, <2>1, RemapRows DEF Minted
    <2> QED BY <2>1, <2>2, MintGoesOn, StmtsOfTuples DEF MintInv
<1>9. ASSUME NEW p \in Client,
             \/ MergeCheck(p) \/ MergeCheckOther(p) \/ MergeRecords(p) \/ SplitCheck(p) \/ ClaimTarget(p)
             \/ ClaimRecord(p) \/ MediateFind(p) \/ MediateFindOther(p) \/ MediateAct(p)
             \/ StabilizeScan(p) \/ StabilizeGroup(p) \/ StabilizeLoser(p) \/ StabilizeNext(p)
      PROVE  MintInv'
    <2>1. PICK next, prog, l : /\ Continue(p, next, prog, l) /\ l.op \in {local[p].op, "none"}
                               /\ pc[p] \in PC \ (BatchPC \cup {"return"}) /\ work' = work
        BY <1>9, ElsewhereReads DEF storeVars
    <2>2. l.op # "resolve"
        BY <2>1 DEF ProgressInv, Progress
    <2>3. todo'[p] = prog
        BY <2>1, AloneReads
    <2>4. \/ minted' = minted /\ Modest(prog)
          \/ Mint /\ Splits(prog)
        BY <1>9, <2>3, ElsewherePlans
    <2>5. Minted \subseteq Minted' /\ \A s \in Stmts(prog) : s.op = "node" => s.ent \in Minted'
        BY <2>4, MintedGrows DEF Modest, Splits
    <2>6. Rows(work)' \subseteq Minted'
        BY <1>0, <2>1, <2>5 DEF Rows, Exists
    <2> QED BY <2>1, <2>2, <2>5, <2>6, MintGoesOn
<1>10. ASSUME NEW p \in Client, Read(p) PROVE MintInv'
    BY <1>6, <1>7, <1>8, <1>9, <1>10, MintHandler DEF Read, Handler
<1>11. ASSUME NEW p \in Client, DetMergeFails(p) PROVE MintInv'
    <2>1. Continue(p, "return", <<>>, local[p]) /\ minted' = minted /\ work' = work
        BY <1>11, MergeFailure DEF storeVars
    <2>2. Rows(work)' \subseteq Minted' /\ Minted' = Minted
        BY <1>0, <1>1, <2>1 DEF Minted
    <2> QED BY <2>1, <2>2, MintGoesOn, StmtsOfTuples DEF MintInv
<1> QED BY <1>2, <1>3, <1>4, <1>5, <1>10, <1>11 DEF Next, Step, Done

LEMMA MintInit ==
    ASSUME Init
    PROVE  MintInv
<1>1. Rows(durable) \subseteq Minted
    BY StewardInit DEF StewardInv
<1>2. durable = work
    BY DEF Init
<1> QED BY <1>1, <1>2, StmtsOfTuples DEF Init, MintInv, Idle

\* A statement that will take record b from where it is.
Takes(g, b, s) ==
    /\ s.op \in {"attach", "move"} /\ b \in s.recs
    /\ s.op = "move" => s.from = g.owner[b]

\* The program leaves a where it is, brings nothing to it, and no entity holds
\* both records, or b will be taken away.
Apart(g, a, b, prog) ==
    /\ \A s \in Stmts(prog) :
          s.op \in {"attach", "move"} => a \notin s.recs /\ s.ent # g.owner[a]
    /\ \/ g.owner[a] = NoEntity \/ g.owner[a] # g.owner[b]
       \/ \E s \in Stmts(prog) : Takes(g, b, s)

\* Where mediate_conflict has come to: it asks for the entity of the second
\* record only when the first has none, acts on the entity of the first if that
\* has one, and a verdict of distinct has the two apart, or will.
Mediates(g, next, l, prog) ==
    l.op = "mediate" =>
        /\ l.a # l.b
        /\ next \in {"find", "findb", "act", "return"}
        /\ next \in {"find", "findb"} => prog = <<>>
        /\ next = "findb" => g.owner[l.a] = NoEntity
        /\ next = "act" => /\ g.owner[l.a] \in {l.ent, NoEntity}
                           /\ \A s \in Stmts(prog) : s.op = "verdict"
        /\ next = "return" /\ l.res = "distinct" => Apart(g, l.a, l.b, prog)

RulingInv == \A p \in Client : Mediates(work, pc[p], local[p], todo[p])

LEMMA ApartStep ==
    ASSUME NEW g \in Graph, NEW prog \in Seq(AgreeingStmt), prog # <<>>,
           NEW s \in AgreeingStmt, s = Head(prog), NEW h, NEW rest \in Seq(AgreeingStmt),
           Executes(s, g, h, rest), s.op \notin {"absorb", "carry"},
           NEW a \in Record, NEW b \in Record, Apart(g, a, b, prog)
    PROVE  Apart(h, a, b, rest \o Tail(prog))
<1> DEFINE next == rest \o Tail(prog)
<1>1. Stmts(prog) = {s} \cup Stmts(Tail(prog)) /\ Stmts(next) = Stmts(rest) \cup Stmts(Tail(prog))
    BY ProgramStep
<1> HIDE DEF next
<1>2. \A t \in Stmts(rest) : t.op \in {"attach", "move"} =>
          /\ s.op \in {"attach", "move"} /\ t.ent = s.ent /\ t.recs \subseteq s.recs
    BY StatementsLeft
<1>3. CASE \E r \in s.recs : s.op = "attach" /\ Gives(s, g, h, rest, r)
    <2>1. PICK r \in s.recs : s.op = "attach" /\ Gives(s, g, h, rest, r)
        BY <1>3
    <2>2. r # a /\ s.ent # g.owner[a]
        BY <1>1, <2>1 DEF Apart
    <2>3. h.owner[a] = g.owner[a] /\ h.owner[b] = IF r = b THEN s.ent ELSE g.owner[b]
        BY <2>1, <2>2 DEF Gives, Graph
    <2>4. \A t \in Stmts(next) :
             t.op \in {"attach", "move"} => a \notin t.recs /\ t.ent # h.owner[a]
        BY <1>1, <1>2, <2>3 DEF Apart
    <2>5. ASSUME r # b, g.owner[a] = g.owner[b], g.owner[a] # NoEntity PROVE \E t \in Stmts(next) : Takes(h, b, t)
        <3>1. PICK t \in Stmts(prog) : Takes(g, b, t)
            BY <2>5 DEF Apart
        <3>2. CASE t \in Stmts(Tail(prog))
            BY <1>1, <2>3, <2>5, <3>1, <3>2 DEF Takes
        <3>3. CASE t = s
            <4>1. rest = <<Attach(s.recs \ {r}, s.ent)>> /\ b \in s.recs \ {r}
                BY <2>1, <2>5, <3>1, <3>3 DEF Gives, Takes
            <4>2. \A u : Stmts(<<u>>) = {u}
                BY StmtsOfTuples
            <4>3. Stmts(rest) = {Attach(s.recs \ {r}, s.ent)}
                BY <4>1, <4>2
            <4>4. Attach(s.recs \ {r}, s.ent) \in Stmts(next)
                BY <1>1, <4>3
            <4> QED BY <4>1, <4>4 DEF Attach, Takes
        <3> QED BY <1>1, <3>1, <3>2, <3>3
    <2> QED BY <2>2, <2>3, <2>4, <2>5 DEF Apart, next
<1>4. CASE h.owner = g.owner /\ (s.op = "attach" => s.recs = {})
    <2>1. \A t \in Stmts(next) :
             t.op \in {"attach", "move"} => a \notin t.recs /\ t.ent # h.owner[a]
        BY <1>1, <1>2, <1>4 DEF Apart
    <2>2. ASSUME g.owner[a] = g.owner[b], g.owner[a] # NoEntity PROVE \E t \in Stmts(next) : Takes(h, b, t)
        <3>1. PICK t \in Stmts(prog) : Takes(g, b, t)
            BY <2>2 DEF Apart
        <3>2. CASE t \in Stmts(Tail(prog))
            BY <1>1, <1>4, <3>1, <3>2 DEF Takes
        <3>3. CASE t = s
            <4>1. s.op = "move" /\ b \in s.recs /\ s.from = g.owner[b]
                BY <1>4, <3>1, <3>3 DEF Takes
            <4>2. PICK r \in s.recs :
                    rest = <<Attach(IF g.owner[r] = s.from THEN {r} ELSE {}, s.ent),
                             Move(s.recs \ {r}, s.from, s.ent)>>
                BY <4>1 DEF Executes, Vacuous
            <4> DEFINE c == Attach(IF g.owner[r] = s.from THEN {r} ELSE {}, s.ent)
                       d == Move(s.recs \ {r}, s.from, s.ent)
            <4>3. /\ c.op = "attach" /\ (g.owner[r] = s.from => r \in c.recs)
                  /\ d.op = "move" /\ d.recs = s.recs \ {r} /\ d.from = s.from
                BY DEF Attach, Move
            <4> HIDE DEF c, d
            <4>4. c \in Stmts(next) /\ d \in Stmts(next)
                <5>1. rest = <<c, d>>
                    BY <4>2 DEF c, d
                <5>2. Stmts(rest) = {c, d}
                    BY <5>1, StmtsOfTuples
                <5> QED BY <1>1, <5>2
            <4>5. CASE r = b
                BY <4>1, <4>3, <4>4, <4>5 DEF Takes
            <4>6. CASE r # b
                BY <1>4, <4>1, <4>3, <4>4, <4>6 DEF Takes
            <4> QED BY <4>5, <4>6
        <3> QED BY <1>1, <3>1, <3>2, <3>3
    <2> QED BY <1>4, <2>1, <2>2 DEF Apart, next
<1> QED BY <1>3, <1>4, ExecutesOwner DEF OwnersGo

LEMMA ApartSplit ==
    ASSUME NEW g, NEW a, NEW b, a # b, NextEntity # g.owner[a], NEW said
    PROVE  Apart(g, a, b, Append(SplitProgram(g.owner[b], {b}), Emit(said)))
<1> DEFINE split == SplitProgram(g.owner[b], {b})
           m == Move({b}, g.owner[b], NextEntity)
<1>1. /\ m \in Stmts(split) /\ m.op = "move" /\ m.recs = {b} /\ m.from = g.owner[b]
      /\ m.ent = NextEntity /\ \A s \in Stmts(split) : s.op \in {"attach", "move"} => s = m
    <2> DEFINE x == Node(NextEntity, "active", NoEntity)
               y == Emit({Ev("manual_split", g.owner[b], NoEntity)})
               z == Emit({Ev("manual_split", NextEntity, NoEntity)})
    <2>1. split = <<x, m, y, z>>
        BY DEF SplitProgram
    <2>2. x.op = "node" /\ y.op = "emit" /\ z.op = "emit"
        BY DEF Node, Emit
    <2>3. m.op = "move" /\ m.recs = {b} /\ m.from = g.owner[b] /\ m.ent = NextEntity
        BY DEF Move
    <2> HIDE DEF x, y, z, m, split
    <2>4. Stmts(split) = {x, m, y, z}
        BY <2>1, StmtsOfTuples
    <2> QED BY <2>2, <2>3, <2>4
<1>2. Stmts(Append(split, Emit(said))) = Stmts(split) \cup {Emit(said)}
    BY AppendedSplit
<1>3. Emit(said).op = "emit"
    BY DEF Emit
<1> HIDE DEF split, m
<1> QED BY <1>1, <1>2, <1>3 DEF Apart, Takes, split

\* A statement of mediate_conflict: only its split gives a record away.
LEMMA MediatesStep ==
    ASSUME NEW g \in Graph, NEW prog \in Seq(AgreeingStmt), prog # <<>>,
           NEW s \in AgreeingStmt, s = Head(prog), NEW h, NEW rest \in Seq(AgreeingStmt),
           Executes(s, g, h, rest), s.op \notin {"absorb", "carry"},
           NEW next, NEW l \in Local, Mediates(g, next, l, prog)
    PROVE  Mediates(h, next, l, rest \o Tail(prog))
<1> SUFFICES ASSUME l.op = "mediate" PROVE Mediates(h, next, l, rest \o Tail(prog))
    BY DEF Mediates
<1> DEFINE more == rest \o Tail(prog)
<1>1. l.a \in Record /\ l.b \in Record
    BY DEF Local
<1>2. l.a # l.b /\ next \in {"act", "return"}
    BY DEF Mediates
<1>3. Stmts(prog) = {s} \cup Stmts(Tail(prog)) /\ Stmts(more) = Stmts(rest) \cup Stmts(Tail(prog))
    BY ProgramStep
<1>4. s.op = "verdict" => h.owner = g.owner /\ rest = <<>>
    BY ExecutesOwner DEF OwnersGo, Executes, Vacuous
<1>5. CASE next = "act"
    <2>1. s.op = "verdict" /\ g.owner[l.a] \in {l.ent, NoEntity}
        BY <1>3, <1>5 DEF Mediates
    <2>2. \A t \in Stmts(more) : t \in Stmts(prog)
        BY <1>3, <1>4, <2>1, StmtsOfTuples
    <2> HIDE DEF more
    <2>3. Mediates(h, next, l, more)
        BY <1>2, <1>4, <1>5, <2>1, <2>2 DEF Mediates
    <2> QED BY <2>3 DEF more
<1>6. CASE next = "return" /\ l.res = "distinct"
    <2> DEFINE a == l.a
               b == l.b
    <2>1. a \in Record /\ b \in Record /\ Apart(g, a, b, prog)
        BY <1>1, <1>6 DEF Mediates
    <2> HIDE DEF a, b
    <2>2. Apart(h, a, b, rest \o Tail(prog))
        BY <2>1, ApartStep
    <2> QED BY <1>2, <1>6, <2>2 DEF Mediates, a, b
<1> QED BY <1>2, <1>5, <1>6 DEF Mediates

LEMMA RulingGoesOn ==
    ASSUME OneClient, BaseInv, NEW p \in Client, NEW next, NEW prog, NEW l,
           Continue(p, next, prog, l), Mediates(work', next, l, prog)
    PROVE  RulingInv'
<1>1. \A q \in Client : q = p
    BY DEF OneClient
<1>2. pc'[p] = next /\ todo'[p] = prog /\ local'[p] = l
    BY AloneReads
<1>3. ASSUME NEW q \in Client PROVE Mediates(work, pc[q], local[q], todo[q])'
    BY <1>1, <1>2 DEF Mediates, Apart, Takes, Stmts
<1> QED BY <1>3 DEF RulingInv

LEMMA RulingWrites ==
    ASSUME BaseInv, OneClient, ProgressInv, RulingInv, NEW p \in Client, Write(p)
    PROVE  RulingInv'
<1> DEFINE s == Statement(p)
           prog == todo[p]
           l == local[p]
<1>1. /\ prog \in Seq(AgreeingStmt) /\ prog # <<>> /\ work \in Graph
      /\ \E rest \in Seq(AgreeingStmt), h \in AgreeingGraph :
            Executes(s, work, h, rest) /\ work' = h /\ Then(p, rest)
    BY AloneWrites DEF AgreeingGraph
<1>2. PICK rest \in Seq(AgreeingStmt), h \in AgreeingGraph :
            Executes(s, work, h, rest) /\ work' = h /\ Then(p, rest)
    BY <1>1
<1>3. s \in AgreeingStmt /\ s = Head(prog) /\ s \in Stmts(prog)
    BY <1>1, ProgramStep, WriteExecutes DEF BaseInv, Statement
<1>4. pc' = pc /\ local' = local /\ todo'[p] = rest \o Tail(prog)
    BY <1>2 DEF Then, BaseInv, IInv, CallInv
<1>5. Mediates(work, pc[p], l, prog) /\ l \in Local /\ (l.op = "mediate" => s.op \notin Branch)
    <2>1. l \in Local /\ Mediates(work, pc[p], l, prog)
        BY BatchLocal DEF RulingInv
    <2>2. l.op = "mediate" => pc[p] # "loop"
        BY DEF ProgressInv, Progress, BatchPC
    <2> QED BY <1>3, <2>1, <2>2 DEF BaseInv, ControlInv, Plain
<1> HIDE DEF s, prog, l
<1>6. Mediates(work', pc[p], l, rest \o Tail(prog))
    <2>1. CASE l.op = "mediate"
        <3>1. s.op \notin {"absorb", "carry"}
            BY <1>5, <2>1 DEF Branch
        <3> QED BY <1>1, <1>2, <1>3, <1>5, <3>1, MediatesStep
    <2> QED BY <2>1 DEF Mediates
<1>7. ASSUME NEW q \in Client PROVE Mediates(work, pc[q], local[q], todo[q])'
    <2>1. q = p
        BY DEF OneClient
    <2>2. pc'[q] = pc[p] /\ local'[q] = l /\ todo'[q] = rest \o Tail(prog)
        BY <1>4, <2>1 DEF l
    <2> QED BY <1>6, <2>2 DEF Mediates, Apart, Takes, Stmts
<1> QED BY <1>7 DEF RulingInv

LEMMA RulingElsewhere ==
    ASSUME BaseInv, OneClient, ProgressInv, MintInv, RulingInv, NEW p \in Client,
           \/ MergeCheck(p) \/ MergeCheckOther(p) \/ MergeRecords(p) \/ SplitCheck(p) \/ ClaimTarget(p)
           \/ ClaimRecord(p) \/ MediateFind(p) \/ MediateFindOther(p) \/ MediateAct(p)
           \/ StabilizeScan(p) \/ StabilizeGroup(p) \/ StabilizeLoser(p) \/ StabilizeNext(p)
    PROVE  RulingInv'
<1> DEFINE l == local[p]
<1>1. /\ UNCHANGED storeVars
      /\ \E next, prog, m : Continue(p, next, prog, m) /\ m.op \in {l.op, "none"}
    BY ElsewhereReads
<1>2. Mediates(work, pc[p], l, todo[p]) /\ l \in Local /\ View(p) = work
    BY BatchLocal, AloneSees DEF RulingInv
<1>3. ASSUME NEW next, NEW prog, NEW m, Continue(p, next, prog, m), Mediates(work, next, m, prog)
      PROVE  RulingInv'
    <2>1. Mediates(work', next, m, prog)
        BY <1>1, <1>3 DEF storeVars
    <2> QED BY <1>3, <2>1, RulingGoesOn
<1>4. CASE l.op # "mediate"
    <2>1. PICK next, prog, m : Continue(p, next, prog, m) /\ m.op \in {l.op, "none"}
        BY <1>1
    <2> QED BY <1>3, <1>4, <2>1 DEF Mediates
<1>5. ASSUME l.op = "mediate", NEW e, Rule(p, e), work.owner[l.a] \in {e, NoEntity}
      PROVE  RulingInv'
    <2> DEFINE m == [l EXCEPT !.ent = e]
               prog == <<RecordVerdict({l.a, l.b}, l.res)>>
    <2>1. Continue(p, "act", prog, m)
        BY <1>5 DEF Rule
    <2>2. m.op = l.op /\ m.a = l.a /\ m.b = l.b /\ m.ent = e
        BY <1>2 DEF Local
    <2>3. \A s \in Stmts(prog) : s.op = "verdict"
        BY StmtsOfTuples DEF RecordVerdict
    <2> HIDE DEF m, prog
    <2>4. Mediates(work, "act", m, prog)
        BY <1>2, <1>5, <2>2, <2>3 DEF Mediates
    <2> QED BY <1>3, <2>1, <2>4
<1>6. CASE l.op = "mediate" /\ MediateFind(p)
    <2>1. CASE work.owner[l.a] # NoEntity
        BY <1>2, <1>5, <1>6, <2>1 DEF MediateFind
    <2>2. CASE work.owner[l.a] = NoEntity
        <3>1. Continue(p, "findb", <<>>, l)
            BY <1>2, <1>6, <2>2 DEF MediateFind
        <3>2. Mediates(work, "findb", l, <<>>)
            BY <1>2, <1>6, <2>2 DEF Mediates
        <3> QED BY <1>3, <3>1, <3>2
    <2> QED BY <2>1, <2>2
<1>7. CASE l.op = "mediate" /\ MediateFindOther(p)
    <2>1. work.owner[l.a] = NoEntity
        BY <1>2, <1>7 DEF MediateFindOther, At, Mediates
    <2> QED BY <1>5, <1>7, <2>1 DEF MediateFindOther
<1>8. CASE l.op = "mediate" /\ MediateAct(p)
    <2> DEFINE said == IF l.ent = NoEntity THEN {} ELSE {Ev("conflict_mediated", l.ent, NoEntity)}
               prog == Append(SplitProgram(l.ent, {l.b}), Emit(said))
               Splitting == l.res = "distinct" /\ l.ent # NoEntity /\ work.owner[l.b] = l.ent
    <2>1. /\ pc[p] = "act"
          /\ IF Splitting THEN Continue(p, "return", prog, l) ELSE Continue(p, "return", <<Emit(said)>>, l)
          /\ Splitting => CanMint /\ Mint
        BY <1>2, <1>8 DEF MediateAct, At
    <2>2. l.a # l.b /\ work.owner[l.a] \in {l.ent, NoEntity}
        BY <1>2, <1>8, <2>1 DEF Mediates
    <2>3. CASE Splitting
        <3>1. work.owner[l.a] \in Rows(work) \cup {NoEntity}
            BY <1>2, PointsAt DEF BaseInv, RefInv, StoreRefs, OrNone, Local
        <3>2. NextEntity # work.owner[l.a]
            <4>1. NextEntity \in Entity
                BY <2>1, <2>3, MintGood DEF BaseInv, IInv
            <4>2. NextEntity # NoEntity
                BY <4>1, MaxEntityAssumption DEF Entity, NoEntity
            <4>3. NextEntity \notin Rows(work)
                BY <2>1, <2>3, MintedGrows DEF MintInv
            <4> QED BY <3>1, <4>2, <4>3
        <3>3. Apart(work, l.a, l.b, prog)
            BY <2>2, <2>3, <3>2, ApartSplit
        <3> HIDE DEF prog
        <3>4. Mediates(work, "return", l, prog)
            BY <2>2, <3>3 DEF Mediates
        <3> QED BY <1>3, <2>1, <2>3, <3>4
    <2>4. CASE ~Splitting
        <3>1. \A s \in Stmts(<<Emit(said)>>) : s.op = "emit"
            BY StmtsOfTuples DEF Emit
        <3>2. l.res = "distinct" =>
                  work.owner[l.a] = NoEntity \/ work.owner[l.a] # work.owner[l.b]
            BY <2>2, <2>4
        <3>3. Mediates(work, "return", l, <<Emit(said)>>)
            BY <2>2, <3>1, <3>2 DEF Mediates, Apart
        <3> HIDE DEF said
        <3> QED BY <1>3, <2>1, <2>4, <3>3
    <2> QED BY <2>3, <2>4
<1>9. ASSUME l.op = "mediate" PROVE MediateFind(p) \/ MediateFindOther(p) \/ MediateAct(p)
    <2>1. pc[p] \in {"find", "findb", "act", "return"}
        BY <1>2, <1>9 DEF Mediates
    <2> QED BY <2>1 DEF MergeCheck, MergeCheckOther, MergeRecords, SplitCheck, ClaimTarget, ClaimRecord,
                        StabilizeScan, StabilizeGroup, StabilizeLoser, StabilizeNext, At
<1> QED BY <1>4, <1>6, <1>7, <1>8, <1>9

\* mediate_conflict begins with two records.
LEMMA RulingInvokes ==
    ASSUME NEW p \in Client, Invoke(p), NEW g
    PROVE  \E first, l : Begin(p, first, l) /\ Mediates(g, first, l, <<>>)
<1>1. PICK first \in {"lookup", "check", "split", "target", "find", "scan"} :
        \E l : Begin(p, first, l) /\ Fresh(l) /\ first = Starts[l.op] /\ Given(l)
    BY InvokeFresh
<1>2. PICK l : Begin(p, first, l) /\ first = Starts[l.op] /\ Given(l)
    BY <1>1
<1>3. Mediates(g, first, l, <<>>)
    BY <1>2 DEF Mediates, Given, Starts
<1> QED BY <1>2, <1>3

LEMMA RulingNext ==
    ASSUME BaseInv, OneClient, ProgressInv, MintInv, RulingInv, [Next]_vars
    PROVE  RulingInv'
<1>1. ASSUME NEW p \in Client, Invoke(p) PROVE RulingInv'
    <2>1. PICK first, l : Begin(p, first, l) /\ Mediates(work', first, l, <<>>)
        BY <1>1, RulingInvokes
    <2> QED BY <2>1, RulingGoesOn DEF Begin
<1>2. ASSUME NEW p \in Client, Return(p) \/ Fail(p) PROVE RulingInv'
    <2>1. Continue(p, "idle", <<>>, Idle)
        BY <1>2 DEF Return, Fail
    <2>2. Mediates(work', "idle", Idle, <<>>)
        BY DEF Idle, Mediates
    <2> QED BY <2>1, <2>2, RulingGoesOn
<1>3. CASE UNCHANGED vars
    <2>1. RulingInv' <=> RulingInv
        BY <1>3 DEF vars, RulingInv, Mediates, Apart, Takes, Stmts
    <2> QED BY <2>1
<1>4. ASSUME NEW p \in Client, pc[p] \in BatchPC,
             \E next, prog, l : Continue(p, next, prog, l) /\ l.op = local[p].op
      PROVE  RulingInv'
    <2>1. PICK next, prog, l : Continue(p, next, prog, l) /\ l.op = local[p].op
        BY <1>4
    <2>2. l.op # "mediate"
        BY <1>4, <2>1 DEF ProgressInv, Progress
    <2> QED BY <2>1, <2>2, RulingGoesOn DEF Mediates
<1>5. ASSUME NEW p \in Client, Handler(p) PROVE RulingInv'
    <2>1. pc[p] = "loop" /\ local'[p].op = local[p].op
        BY <1>5, ClusterTaken DEF TakesUp
    <2>2. local'[p].op # "mediate"
        BY <2>1 DEF ProgressInv, Progress, BatchPC
    <2>3. ASSUME NEW q \in Client PROVE Mediates(work, pc[q], local[q], todo[q])'
        BY <2>2 DEF Mediates, OneClient
    <2> QED BY <2>3 DEF RulingInv
<1>6. ASSUME NEW p \in Client, DetMergeFails(p) PROVE RulingInv'
    BY <1>4, <1>6, MergeFailure DEF BatchPC
<1>7. ASSUME NEW p \in Client, Read(p) PROVE RulingInv'
    BY <1>4, <1>5, <1>7, StageReads, RulingElsewhere DEF Read, Handler
<1> QED BY <1>1, <1>2, <1>3, <1>6, <1>7, RulingWrites DEF Next, Step, Done

\* With one client at a time, when mediate_conflict returns from a verdict of
\* distinct no entity holds the two records, whichever of them it found owned,
\* and whatever batches, merges and consolidations came before.
THEOREM DistinctAlwaysSplits ==
    ASSUME OneClient
    PROVE  Spec => []DistinctSplits
<1>1. Init => BaseInv /\ ProgressInv /\ MintInv /\ RulingInv
    <2>1. Idle.op # "mediate"
        BY DEF Idle
    <2> QED BY <2>1, InitBase, ProgressInit, MintInit DEF Init, RulingInv, Mediates
<1>2. (BaseInv /\ ProgressInv /\ MintInv /\ RulingInv) /\ [Next]_vars
        => (BaseInv /\ ProgressInv /\ MintInv /\ RulingInv)'
    BY NextBase, ProgressNext, MintNext, RulingNext
<1>3. BaseInv /\ RulingInv => DistinctSplits
    <2> SUFFICES ASSUME BaseInv, RulingInv, NEW p \in Client, Returned(p, "mediate"),
                        local[p].res = "distinct", NEW e \in Entity,
                        {local[p].a, local[p].b} \subseteq RecordsOf(durable, e)
                 PROVE  FALSE
        BY DEF DistinctSplits
    <2>1. pc[p] = "return" /\ todo[p] = <<>> /\ local[p].op = "mediate"
        BY DEF Returned, At
    <2>2. work = durable
        BY <2>1, AloneSees
    <2>3. Apart(work, local[p].a, local[p].b, <<>>)
        BY <2>1 DEF RulingInv, Mediates
    <2>4. durable.owner[local[p].a] = e /\ durable.owner[local[p].b] = e /\ e # NoEntity
        BY MaxEntityAssumption DEF RecordsOf, Entity, NoEntity
    <2> QED BY <2>2, <2>3, <2>4, StmtsOfTuples DEF Apart
<1> QED BY <1>1, <1>2, <1>3, PTL DEF Spec
=============================================================================
