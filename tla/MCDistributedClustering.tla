----------------------- MODULE MCDistributedClustering -----------------------
(***************************************************************************)
(* All graphs over a few records, their pairs spread over two partitions.  *)
(***************************************************************************)
EXTENDS DistributedClustering

CONSTANTS p1, p2

\* So low that a chain of all the records is over the limit.
Limits == [a \in Algorithm |-> IF a = "label_propagation" THEN 3 ELSE 2]
=============================================================================
