------------------------- MODULE MCPartitionReducer -------------------------
(* Three SPUs and two partitions replicated on all of them.  Partition 1's *)
(* replica on SPU 3 lags its leader by 5 and is never suitable; partition  *)
(* 2's replica on SPU 1 is one offset ahead of its leader, so its lag is   *)
(* negative.                                                               *)
EXTENDS PartitionReducer

MCReplicas == [p \in 1..2 |-> {1, 2, 3}]
MCInitLeader == <<1, 2>>
MCLeo == <<[s \in {1, 2, 3} |-> IF s = 3 THEN 0 ELSE 5],
           [s \in {1, 2, 3} |-> IF s = 1 THEN 4 ELSE 3]>>
====
