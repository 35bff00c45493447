---------------------------- MODULE MCClusterEdits ----------------------------
(***************************************************************************)
(* Three contents: by name the middle one matches both ends, weakly the    *)
(* last; by e-mail, which only the run compares, the two ends match.       *)
(***************************************************************************)
EXTENDS ClusterEdits

Chain == {"a", "b", "c"}
Keys == {"name", "email"}
Names == {"name"}
Alike == [k \in Keys |-> [c \in Chain |-> [d \in Chain |->
            IF k = "email" THEN IF {c, d} = {"a", "c"} THEN 2 ELSE 0
            ELSE IF c = d \/ {c, d} = {"a", "b"} THEN 2
            ELSE IF {c, d} = {"b", "c"} THEN 1 ELSE 0]]]
=============================================================================
