---------------------------- MODULE MCPrivateHeap ----------------------------
(* For the runs about the blocks: no guard and none of their properties     *)
(* reads the statistics, so states that differ only there are one.          *)
EXTENDS PrivateHeap
NoStatistics == <<blocks, live, [t \in Threads |-> <<at[t].do, at[t].mem>>]>>
=============================================================================
