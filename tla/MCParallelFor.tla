---------------------------- MODULE MCParallelFor ----------------------------
(***************************************************************************)
(* ParallelFor with the arguments at which the split changes its shape.    *)
(***************************************************************************)
EXTENDS ParallelFor

\* Empty spaces, fewer rows than threads, remainders, no and negative threads.
MCCalls ==
  {[low1 |-> l, high1 |-> h, low2 |-> 0, high2 |-> c, numThreads |-> n] :
     l \in {-1, 1}, h \in {0, 2, 4}, c \in {0, 1, 2}, n \in {-1, 0, 1, 2, 3, 4}}
=============================================================================
