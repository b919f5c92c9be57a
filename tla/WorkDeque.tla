------------------------------ MODULE WorkDeque ------------------------------
(***************************************************************************)
(* What a work-stealing deque promises: every operation takes effect at    *)
(* one instant on one sequence of tasks.  The owner adds and removes at    *)
(* the bottom (the right end), everybody else removes at the top (the left *)
(* end), one task or half of them at a time, and a task that left the      *)
(* sequence was handed out exactly once.                                   *)
(*                                                                         *)
(* SPMCQueue is shown to implement this module when it is used as its      *)
(* header documents.                                                       *)
(***************************************************************************)
EXTENDS Naturals, Sequences

CONSTANTS Capacity, MaxTasks

VARIABLES dq,        \* the tasks in the deque, top first
          added,     \* tasks 1..added have entered it
          handedOut  \* how often each task was handed to a caller

vars == <<dq, added, handedOut>>

\* What TakeHalf takes of n tasks: half of them, but at least one.
Half(n) == IF n \div 2 = 0 THEN 1 ELSE n \div 2

Init ==
  /\ dq = <<>>
  /\ added = 0
  /\ handedOut = [k \in 1..MaxTasks |-> 0]

Add ==
  /\ added < MaxTasks
  /\ Len(dq) < Capacity
  /\ dq' = Append(dq, added + 1)
  /\ added' = added + 1
  /\ UNCHANGED handedOut

RemoveBottom ==
  /\ dq # <<>>
  /\ dq' = SubSeq(dq, 1, Len(dq) - 1)
  /\ handedOut' = [handedOut EXCEPT ![dq[Len(dq)]] = @ + 1]
  /\ UNCHANGED added

RemoveTop(n) ==
  /\ dq # <<>>
  /\ dq' = SubSeq(dq, n + 1, Len(dq))
  /\ handedOut' = [k \in 1..MaxTasks |->
       handedOut[k] + IF \E i \in 1..n : dq[i] = k THEN 1 ELSE 0]
  /\ UNCHANGED added

Next == Add \/ RemoveBottom \/ RemoveTop(1) \/ RemoveTop(Half(Len(dq)))

Spec == Init /\ [][Next]_vars
=============================================================================
