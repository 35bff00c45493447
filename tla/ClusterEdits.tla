----------------------------- MODULE ClusterEdits -----------------------------
(***************************************************************************)
(* The clusters of a run after the run: a stream adds records one by one   *)
(* (core/streaming.py, add_to_cluster) and stewards take records out or    *)
(* shatter clusters (unmerge_record, unmerge_cluster).  A cluster keeps    *)
(* the pairs it was built from, so that it can be split again.             *)
(***************************************************************************)
EXTENDS Integers, Sequences, FiniteSets, Functions

CONSTANTS
    Content,    \* what a row says
    Matchkey,   \* the ways to compare two rows
    Streamed,   \* those a stream uses: weighted or probabilistic ones with a threshold
    Score,      \* Score[k][c][d]: 0 if k does not link c with d, else 1 (weakly) or 2
    MaxSize,    \* most members a cluster is built with
    StartRows,  \* most rows of the frame a stream starts from
    MaxRows,    \* bound: rows of the frame; it may refuse one besides
    MaxEdits    \* bound: records taken out and clusters shattered

ASSUME BoundsAssumption == StartRows \in Nat /\ MaxRows \in Nat /\ MaxEdits \in Nat /\ MaxSize \in Nat
ASSUME MatchkeyAssumption ==
    IsFiniteSet(Matchkey) /\ Streamed \subseteq Matchkey
        /\ Score \in [Matchkey -> [Content -> [Content -> 0..2]]]

VARIABLES
    frame,      \* the rows; a row's id is its position
    clusters,   \* by id: [members: how often each row id is listed, pairs: <<a, b>> -> score]
    scored,     \* the pairs the run before the stream linked, with their scores
    keeps,      \* the run's clusters keep their pairs (its default ones do not)
    links,      \* history: the pairs inside the run's clusters, and those the stream found
    loose,      \* history: the rows that were in no cluster at the start
    refused,    \* history: the frame has refused a row
    edits       \* history: how many times a steward has taken clusters apart

vars == <<frame, clusters, scored, keeps, links, loose, refused, edits>>

Ids == 1..MaxRows
None == << >>
Least(S) == CHOOSE m \in S : \A n \in S : m <= n
Greatest(S) == CHOOSE m \in S : \A n \in S : n <= m
Updated(f, g) == [x \in DOMAIN f \cup DOMAIN g |-> IF x \in DOMAIN g THEN g[x] ELSE f[x]]

\* Of a member list the model keeps how often it lists an id, not the order.
Cluster(members, pairs) == [members |-> members, pairs |-> pairs]
Once(S) == [r \in S |-> 1]
Listed(members, id) ==
    [r \in DOMAIN members \cup {id} |->
        IF r \notin DOMAIN members THEN 1 ELSE IF r = id THEN members[r] + 1 ELSE members[r]]
Of(c) == DOMAIN c.members
Size(c) == Cardinality(UNION {{r} \X (1..c.members[r]) : r \in Of(c)})
Holding(cs, r) == {cid \in DOMAIN cs : r \in Of(cs[cid])}

NextIdCounted(cs) == Cardinality(DOMAIN cs) + 1  \* Mutant: ids are counted.
NextId(cs) == Greatest(DOMAIN cs \cup {0}) + 1

Retained(cs, gone) == cs  \* Mutant: the old clusters stay.
Without(cs, gone) == [cid \in DOMAIN cs \ gone |-> cs[cid]]

-----------------------------------------------------------------------------
(* build_clusters: the components of a graph, the oversized ones cut.      *)

Closed(S, edges) == \A e \in edges : e[1] \in S <=> e[2] \in S
Together(x, ids, edges) ==
    {y \in ids : \A S \in SUBSET ids : x \in S /\ Closed(S, edges) => y \in S}
Components(ids, edges) == {Together(x, ids, edges) : x \in ids}

Inside(S, edges) == {e \in edges : e[1] \in S /\ e[2] \in S}
Oversized(S) == Cardinality(S) > MaxSize

\* A component of more than MaxSize members is cut along some of its edges
\* until every part is small enough, or, when the budget of edges to look at
\* is spent, left whole.  Which edges are cut (the weakest of a spanning tree)
\* is abstracted away.
Partings(ids, edges) ==
    LET whole == Components(ids, edges)
        large == {e \in edges : \E C \in whole : Oversized(C) /\ e[1] \in C}
    IN  {P \in {Components(ids, edges \ cut) : cut \in SUBSET large} :
            \A T \in P : T \in whole \/ ~Oversized(T)}

\* What stayed whole comes first, by least member; the parts come as they were cut.
Numberings(P, whole) ==
    {n \in Bijection(1..Cardinality(P), P) :
        \A i, j \in DOMAIN n : i < j /\ n[j] \in whole =>
            n[i] \in whole /\ Least(n[i]) < Least(n[j])}

Part(T, pairs) == Cluster(Once(T), [e \in Inside(T, DOMAIN pairs) |-> pairs[e]])
Build(ids, pairs) ==
    UNION {{[i \in DOMAIN n |-> Part(n[i], pairs)] : n \in Numberings(P, Components(ids, DOMAIN pairs))}
            : P \in Partings(ids, DOMAIN pairs)}

-----------------------------------------------------------------------------
(* The run before the stream.                                              *)

\* Of the scores several matchkeys give a pair, the best stands.
Best(keys, c, d) == Greatest({Score[k][c][d] : k \in keys} \cup {0})

\* The run compares the pairs its blocks hold, by all of its matchkeys.
RunPairs(rows) ==
    {e \in (DOMAIN rows) \X (DOMAIN rows) : e[1] < e[2] /\ Best(Matchkey, rows[e[1]], rows[e[2]]) > 0}
Found(cs) == UNION {DOMAIN cs[cid].pairs : cid \in DOMAIN cs}
Forgetful(cs) == [cid \in DOMAIN cs |-> Cluster(cs[cid].members, None)]

\* A stream starts from the clusters of a run, or, by default, from none.
Init ==
    /\ frame \in UNION {[1..n -> Content] : n \in 0..StartRows}
    /\ \/ /\ \E compared \in SUBSET RunPairs(frame) :
                scored = [e \in compared |-> Best(Matchkey, frame[e[1]], frame[e[2]])]
          /\ keeps \in BOOLEAN
          /\ \E built \in Build(DOMAIN frame, scored) :
                /\ clusters = IF keeps THEN built ELSE Forgetful(built)
                /\ links = Found(built)
          /\ loose = {}
       \/ /\ frame # << >> /\ scored = None /\ keeps = TRUE
          /\ clusters = << >> /\ links = {} /\ loose = DOMAIN frame
    /\ refused = FALSE /\ edits = 0

-----------------------------------------------------------------------------
(* A record arrives.                                                       *)

NewId == Len(frame) + 1
Matches(c) == {i \in DOMAIN frame : Best(Streamed, c, frame[i]) > 0}
\* The cluster each match is in; of several, the last wins.
Last(r) == Greatest(Holding(clusters, r))
Matched(c) == {Last(r) : r \in {m \in Matches(c) : Holding(clusters, m) # {}}}
NewPairs(c, ids) == [p \in {<<i, NewId>> : i \in ids} |-> Best(Streamed, c, frame[p[1]])]

AddAlone ==
    clusters' = Updated(clusters, [cid \in {NextId(clusters)} |-> Cluster(Once({NewId}), None)])

Here(c, cid) == {r \in Matches(c) : Holding(clusters, r) # {} /\ Last(r) = cid}
AddTo(c, cid) ==
    clusters' = [clusters EXCEPT ![cid] =
        Cluster(Listed(@.members, NewId), Updated(@.pairs, NewPairs(c, Here(c, cid))))]

AllMembers(cids) ==
    [r \in UNION {Of(clusters[cid]) : cid \in cids} |->
        Cardinality(UNION {{cid} \X (1..clusters[cid].members[r]) : cid \in cids \cap Holding(clusters, r)})]
AllPairs(cids) ==
    [p \in UNION {DOMAIN clusters[cid].pairs : cid \in cids} |->
        clusters[CHOOSE cid \in cids : p \in DOMAIN clusters[cid].pairs].pairs[p]]
Merged(cids, pairs) ==
    LET rest == Without(clusters, cids)
    IN  Updated(rest, [cid \in {NextId(rest)} |-> Cluster(Listed(AllMembers(cids), NewId), pairs)])
MergeForgetful(c, cids) ==  \* Mutant: the merged clusters' own pairs are lost.
    clusters' = Merged(cids, NewPairs(c, Matches(c)))
\* The matched clusters become one, which keeps the new pairs whole: also
\* those with rows that are in no cluster.
MergeInto(c, cids) ==
    clusters' = Merged(cids, Updated(AllPairs(cids), NewPairs(c, Matches(c))))

AddToFirst(c) ==  \* Mutant: the record joins the first of the clusters.
    IF Matched(c) = {} THEN AddAlone ELSE AddTo(c, Least(Matched(c)))
AddToCluster(c) ==
    \/ Matched(c) = {} /\ AddAlone
    \/ \E cid \in Matched(c) : Matched(c) = {cid} /\ AddTo(c, cid)
    \/ Cardinality(Matched(c)) > 1 /\ MergeInto(c, Matched(c))

ProcessRecord(c) ==
    /\ Len(frame) < MaxRows
    /\ AddToCluster(c)
    /\ frame' = Append(frame, c)
    /\ links' = links \cup DOMAIN NewPairs(c, Matches(c))
    /\ UNCHANGED <<scored, keeps, loose, refused, edits>>

\* The clusters have the record, the frame refuses the row (its columns do not
\* fit) and the batch goes on: the next record gets the same id.
RefuseRow(c) ==
    /\ Len(frame) < MaxRows /\ ~refused  \* bounds
    /\ AddToCluster(c)
    /\ refused' = TRUE
    /\ UNCHANGED <<frame, scored, keeps, links, loose, edits>>

-----------------------------------------------------------------------------
(* A steward takes clusters apart.                                         *)

Endpoints(edges) == UNION {{e[1], e[2]} : e \in edges}
\* The evidence for a cluster: the pairs it keeps, or, if the caller has them,
\* those of the run that are between its members.
Evidence(c, fromRun) ==
    IF fromRun THEN [e \in Inside(Of(c), DOMAIN scored) |-> scored[e]] ELSE c.pairs
Kept(pairs, r, threshold) ==
    [p \in {q \in DOMAIN pairs : r \notin {q[1], q[2]} /\ pairs[q] >= threshold} |-> pairs[p]]

\* (The corrections it writes are submissions to the learning memory.)
UnmergeRecord(r, threshold) ==
    /\ edits < MaxEdits /\ edits' = edits + 1
    /\ \E source \in Holding(clusters, r), fromRun \in BOOLEAN :
        LET c    == clusters[source]
            left == Of(c) \ {r}
            kept == Kept(Evidence(c, fromRun), r, threshold)
            ends == Endpoints(DOMAIN kept)
            rest == Without(clusters, {source})
            next == NextId(rest)
        IN  /\ source = Least(Holding(clusters, r))
            /\ Size(c) > 1
            \* A pair with a row of no cluster: the Rust kernel takes the row
            \* in (the Python one raises before anything has changed: no step).
            /\ \E subs \in Build(left \cup ends, kept) :
                clusters' = Updated(rest, [cid \in next..next + Cardinality(DOMAIN subs) |->
                                IF cid = next THEN Cluster(Once({r}), None) ELSE subs[cid - next]])
            /\ UNCHANGED <<frame, scored, keeps, links, loose, refused>>

\* The member list of a cluster; any other order gives the parts other ids.
InOrder(c) ==
    {list \in [1..Size(c) -> Of(c)] :
        /\ \A i, j \in 1..Size(c) : i < j => list[i] <= list[j]
        /\ \A r \in Of(c) : Cardinality({i \in 1..Size(c) : list[i] = r}) = c.members[r]}

UnmergeCluster(cid) ==
    /\ edits < MaxEdits /\ edits' = edits + 1
    /\ \E list \in InOrder(clusters[cid]) :
        LET rest == Without(clusters, {cid})
            next == NextId(rest)
        IN  /\ clusters' = Updated(rest, [i \in next..next + Size(clusters[cid]) - 1 |->
                               Cluster(Once({list[i - next + 1]}), None)])
            /\ UNCHANGED <<frame, scored, keeps, links, loose, refused>>

Next ==
    \/ \E c \in Content : ProcessRecord(c)
    \/ \E c \in Content : RefuseRow(c)
    \/ \E r \in Ids, threshold \in {0, 2} : UnmergeRecord(r, threshold)
    \/ \E cid \in DOMAIN clusters : UnmergeCluster(cid)

Spec == Init /\ [][Next]_vars

-----------------------------------------------------------------------------
(* Properties.                                                             *)

\* A record is in one cluster, once, and none is lost, however records arrive and
\* clusters are taken apart: only a refused row's id is given twice, and only
\* a row the stream did not find in a cluster can be left out, or be taken
\* into several clusters by the pairs they keep (cluster.py:1619, streaming.py:140).
OneClusterEach ==
    ~refused =>
        \A r \in DOMAIN frame \ loose :
            \E cid \in DOMAIN clusters :
                Holding(clusters, r) = {cid} /\ clusters[cid].members[r] = 1

\* Where clusters keep their pairs, a cluster's members hang together by them, so
\* that taking a record out splits it where the evidence ends and nowhere
\* else, also after an oversized one was cut (cluster.py:1711, cluster.py:1229).
ClustersConnected ==
    keeps =>
        \A cid \in DOMAIN clusters :
            LET c == clusters[cid]
            IN  \E r \in Of(c) : Together(r, Of(c), Inside(Of(c), DOMAIN c.pairs)) = Of(c)

\* Two records are in one cluster exactly when a chain of links joins them, each
\* one inside a cluster the run built or found by the stream, whatever the
\* order in which records came and whichever clusters they bridged
\* (streaming.py:140, cluster.py:1536).
StreamFollowsLinks ==
    loose = {} /\ ~refused /\ edits = 0 =>
        \A r, s \in DOMAIN frame :
            Holding(clusters, r) = Holding(clusters, s) <=> s \in Together(r, DOMAIN frame, links)

\* An id does not change hands: ids are given again after a merge or a split,
\* but one that is in use before and after an edit names a cluster that
\* contains the old one or is a part of it (cluster.py:1620, cluster.py:1723).
IdsStayInTheFamily ==
    [][\A cid \in DOMAIN clusters \cap DOMAIN clusters' :
        LET old == Of(clusters[cid])
            new == Of(clusters'[cid])
        IN  old \subseteq new \/ new \ loose \subseteq old]_vars
=============================================================================
