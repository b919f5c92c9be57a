----------------------------- MODULE MCExecutor -----------------------------
(* The executor for TLC.  Threads are numbers, because the code compares   *)
(* g_thread_id with the number of workers, so there is no symmetry to use; *)
(* tasks are handed over in numeric order instead.                         *)
EXTENDS Executor

\* Two workers that steal from each other; one worker kept busy for ever.
PassingWorkloads ==
  {[nthreads |-> 2, tasks |-> 2, repeating |-> FALSE],
   [nthreads |-> 1, tasks |-> 3, repeating |-> TRUE]}

\* One worker, beside which an IO thread schedules.
SingleWorker == {[nthreads |-> 1, tasks |-> 3, repeating |-> FALSE]}
=============================================================================
