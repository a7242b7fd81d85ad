----------------------------- MODULE MCScheduler -----------------------------
(***************************************************************************)
(* SimpleScheduler on small instances.                                     *)
(***************************************************************************)
EXTENDS SimpleScheduler

\* No earlier session.
FreshTable == {}
\* What Ctrl-C leaves of an entry, as far as it changes what the scheduler does with a new
\* job: one that it does not see until the shell makes it ready, one that is ready with the
\* pid of an old job, and one that it takes for ended because its fork failed.
UsedTable == {<<Stale, 1>>, <<Stale, 0>>, <<ForkFailed, 0>>}
=============================================================================
