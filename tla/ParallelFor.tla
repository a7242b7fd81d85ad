----------------------------- MODULE ParallelFor -----------------------------
(***************************************************************************)
(* parallel_for of simple-multithreader.h (group-16-5): the rows of an     *)
(* iteration space are split into one chunk per thread, each thread calls  *)
(* the lambda on its chunk, and the caller joins them all.  The 1D version *)
(* is the case of one column.                                              *)
(*                                                                         *)
(* pthread_create may fail; the code does not look at its result.          *)
(***************************************************************************)
EXTENDS Integers, FiniteSets

CONSTANTS Calls,        \* the arguments parallel_for is called with
          CreateFails   \* whether pthread_create may fail

ASSUME ParallelForAssumption ==
  /\ Calls \subseteq [low1 : Int, high1 : Int, low2 : Int, high2 : Int, numThreads : Int]
  /\ CreateFails \in BOOLEAN

VARIABLES
  arg,      \* the arguments of this call
  main,     \* where the caller is: "split", "join", "done" or "crashed"
  count,    \* its loop index
  current,  \* the first row not yet given away
  data,     \* ThreadData2 of each thread, low1 and high1
  thread,   \* each thread: "none", "failed", "runs" or "ended"
  row, col, \* where each thread is in its loops
  calls     \* how often the lambda was called for each (row, column)

pfVars == <<arg, main, count, current, data, thread, row, col, calls>>

N == IF arg.numThreads <= 0 THEN 1 ELSE arg.numThreads
Threads == 0..(N - 1)
Rows == arg.low1..(arg.high1 - 1)
Cols == arg.low2..(arg.high2 - 1)
Empty == arg.low1 >= arg.high1 \/ arg.low2 >= arg.high2

total == arg.high1 - arg.low1
base == total \div N
extra == total % N
\* Mutant: the remainder of the division is not given away.
LenNoExtra(t) == base
\* The number of rows of thread t.
ChunkLen(t) == IF t < extra THEN base + 1 ELSE base

PForInit ==
  /\ arg \in Calls
  /\ main = IF Empty THEN "done" ELSE "split"
  /\ count = 0 /\ current = arg.low1
  /\ data = [t \in Threads |-> [low |-> 0, high |-> 0]]
  /\ thread = [t \in Threads |-> "none"]
  /\ row = [t \in Threads |-> 0] /\ col = [t \in Threads |-> 0]
  /\ calls = [p \in Rows \X Cols |-> 0]

\* One turn of the while loop: fill the thread's data, then create it.
Create ==
  /\ main = "split" /\ count < N
  /\ LET x == current + ChunkLen(count)
     IN  /\ data' = [data EXCEPT ![count] = [low |-> current, high |-> x]]
         /\ current' = x
  /\ \/ /\ thread' = [thread EXCEPT ![count] = "runs"]
        /\ row' = [row EXCEPT ![count] = current] /\ col' = [col EXCEPT ![count] = arg.low2]
     \/ /\ CreateFails
        /\ thread' = [thread EXCEPT ![count] = "failed"]
        /\ UNCHANGED <<row, col>>
  /\ count' = count + 1
  /\ UNCHANGED <<arg, main, calls>>

SplitEnd ==
  /\ main = "split" /\ count = N
  /\ main' = "join" /\ count' = 0
  /\ UNCHANGED <<arg, current, data, thread, row, col, calls>>

\* runTask1, runTask2.
Call(t) ==
  /\ thread[t] = "runs" /\ row[t] < data[t].high /\ col[t] < arg.high2
  /\ calls' = [calls EXCEPT ![<<row[t], col[t]>>] = @ + 1]
  /\ col' = [col EXCEPT ![t] = @ + 1]
  /\ UNCHANGED <<arg, main, count, current, data, thread, row>>

\* Mutant: neither row nor column is advanced at the end of a row: the thread stays there.
NextRowStuck(t) ==
  /\ thread[t] = "runs" /\ row[t] < data[t].high /\ col[t] = arg.high2
  /\ UNCHANGED pfVars

NextRow(t) ==
  /\ thread[t] = "runs" /\ row[t] < data[t].high /\ col[t] = arg.high2
  /\ row' = [row EXCEPT ![t] = @ + 1] /\ col' = [col EXCEPT ![t] = arg.low2]
  /\ UNCHANGED <<arg, main, count, current, data, thread, calls>>

TaskEnd(t) ==
  /\ thread[t] = "runs" /\ row[t] >= data[t].high
  /\ thread' = [thread EXCEPT ![t] = "ended"]
  /\ UNCHANGED <<arg, main, count, current, data, row, col, calls>>

\* pthread_join; on a thread that was never created its handle is a zero: undefined.
Join ==
  /\ main = "join" /\ count < N
  /\ \/ thread[count] = "ended" /\ UNCHANGED main
     \/ thread[count] = "failed" /\ main' \in {"join", "crashed"}
  /\ count' = count + 1
  /\ UNCHANGED <<arg, current, data, thread, row, col, calls>>

\* Mutant: the last thread is not joined.
JoinEndEarly ==
  /\ main = "join" /\ count >= N - 1
  /\ main' = "done"
  /\ UNCHANGED <<arg, count, current, data, thread, row, col, calls>>

JoinEnd ==
  /\ main = "join" /\ count = N
  /\ main' = "done"
  /\ UNCHANGED <<arg, count, current, data, thread, row, col, calls>>

Returned == main \in {"done", "crashed"} /\ UNCHANGED pfVars

Task(t) == Call(t) \/ NextRow(t) \/ TaskEnd(t)
Caller == Create \/ SplitEnd \/ Join \/ JoinEnd
PForNext == Caller \/ (\E t \in Threads : Task(t)) \/ Returned

PForSpec == PForInit /\ [][PForNext]_pfVars
\* The operating system runs every thread.
FairPForSpec == PForSpec /\ WF_pfVars(Caller) /\ WF_pfVars(\E t \in Threads : Task(t))

-----------------------------------------------------------------------------
(* Properties.                                                             *)

\* When parallel_for returns, every iteration of a chunk has been executed exactly once,
\* unless its thread could not be created: with all threads this is what matrix.cpp:30
\* and vector.cpp:21 assert of the results.
EachExactlyOnce ==
  main = "done" =>
    \A p \in Rows \X Cols :
      \/ calls[p] = 1
      \/ calls[p] = 0 /\ \E t \in Threads : thread[t] = "failed" /\ data[t].low <= p[1] /\ p[1] < data[t].high

\* No thread is alive when parallel_for returns: data and the lambda live on the
\* caller's stack.
NoThreadOutlivesCall == main = "done" => \A t \in Threads : thread[t] # "runs"

\* parallel_for ends if the lambda does.
PForEnds == <>(main \in {"done", "crashed"})

=============================================================================
