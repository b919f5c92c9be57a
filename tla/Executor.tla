------------------------------ MODULE Executor ------------------------------
(***************************************************************************)
(* WorkStealingExecutor of scheduler/executor.hpp: the workers' loop, the  *)
(* two schedule functions as called by workers, IO threads and external    *)
(* threads, parking, Start and Stop.                                       *)
(*                                                                         *)
(* The local deques and the global queue are taken at their contracts (a   *)
(* sequence per deque, each operation one step; module SPMCQueue shows     *)
(* when the deque keeps it).  The plain pointer lifo_slot is read and      *)
(* written in separate steps.  A relaxed load of is_parked may miss the    *)
(* store of another thread, so unpark may always do nothing.               *)
(***************************************************************************)
EXTENDS Integers, Sequences, Functions

CONSTANTS
  MaxTasks,              \* bound of the model: the number of TaskNodes
  NumWorkers,            \* bound of the model: the largest nthreads_
  NumIO,                 \* IO threads of a Scheduler, running IOLoop
  NumExternal,           \* threads with g_executor = nullptr
  Capacity,              \* kDefaultSpmcCapacity
  kGlobalCheckInterval,  \* 61 in the code
  Workloads              \* how the executor is constructed and used

ASSUME ConstantsOK ==
  /\ MaxTasks \in Nat
  /\ NumWorkers \in Nat \ {0} /\ NumIO \in Nat /\ NumExternal \in Nat
  /\ Capacity \in Nat \ {0}
  /\ kGlobalCheckInterval \in Nat \ {0}
  /\ Workloads \subseteq [nthreads: 1..NumWorkers, tasks: 0..MaxTasks,
                          repeating: BOOLEAN]

Tasks == 1..MaxTasks
NoTask == 0  \* nullptr

\* Threads are numbered: workers, then IO threads, then external threads.
Workers == 0..(NumWorkers - 1)
Callers == NumWorkers..(NumWorkers + NumIO + NumExternal - 1)
Threads == Workers \cup Callers

\* WorkerLoop and IOLoop both set g_executor; IO thread i has g_thread_id = i.
OnExecutor(th) == th < NumWorkers + NumIO
g_thread_id(th) == IF th \in Workers THEN th ELSE th - NumWorkers

VARIABLES
  load,       \* the workload: nthreads_, the number of tasks that are handed
              \* over, and whether one that has run may be scheduled again
  running,    \* running_
  stage,      \* of the thread that calls Start and Stop
  lifo_slot,  \* per worker
  queue,      \* per worker: the deque, top end first
  inbox,      \* per worker: the Treiber stack, head first
  is_parked,  \* per worker
  tick,       \* per worker, modulo kGlobalCheckInterval
  global,     \* global_queue_, head first
  pc,         \* per thread: the next step
  task,       \* per thread: WorkerLoop's task, or schedule's argument
  rest,       \* per thread: tasks it holds and still has to queue
  target,     \* per thread: the worker schedule is dealing with
  victims,    \* per worker: whom steal_task has still to try
  status      \* history, per task: "new", "pending" (scheduled), "ran"

lifecycle == <<load, running, stage>>
local == <<task, rest, target, victims>>
vars == <<lifecycle, lifo_slot, queue, inbox, is_parked, tick, global, pc,
          local, status>>

\* workers_: the others of Workers do not exist in this executor.
Crew == 0..(load.nthreads - 1)

Init ==
  /\ load \in Workloads
  /\ running = FALSE
  /\ stage = "stopped"
  /\ lifo_slot = [w \in Workers |-> NoTask]
  /\ queue = [w \in Workers |-> <<>>]
  /\ inbox = [w \in Workers |-> <<>>]
  /\ is_parked = [w \in Workers |-> FALSE]
  /\ tick = [w \in Workers |-> 0]
  /\ global = <<>>
  /\ pc = [th \in Threads |-> IF OnExecutor(th) THEN "off" ELSE "ready"]
  /\ task = [th \in Threads |-> NoTask]
  /\ rest = [th \in Threads |-> <<>>]
  /\ target = [th \in Threads |-> 0]
  /\ victims = [w \in Workers |-> {}]
  /\ status = [k \in Tasks |-> "new"]

Goto(th, label) == pc' = [pc EXCEPT ![th] = label]

\* schedule returns: to the task a worker is running, or to an outside caller.
Ready(th) == IF th \in Workers THEN "run" ELSE "ready"
Return(th) == /\ Goto(th, Ready(th))
              /\ task' = [task EXCEPT ![th] = NoTask]
              /\ target' = [target EXCEPT ![th] = 0]

num_to_take(size) == IF size \div 2 = 0 THEN 1 ELSE size \div 2

\* What TakeHalf returns of a queue of this size when its CAS succeeds.
TakeHalf(size) == IF size = 0 THEN 0 ELSE num_to_take(size)

-----------------------------------------------------------------------------
(* schedule                                                                *)

\* May thread th hand over task k?  Its node is not in the executor.  Tasks
\* are numbered in the order in which they are first handed over.
Schedulable(th, k) ==
  /\ pc[th] = Ready(th)
  /\ k <= load.tasks
  /\ \/ status[k] = "new" /\ \A j \in 1..(k - 1) : status[j] # "new"
     \/ status[k] = "ran" /\ load.repeating

Hand(th, k, w, label) ==
  /\ task' = [task EXCEPT ![th] = k]
  /\ target' = [target EXCEPT ![th] = w]
  /\ status' = [status EXCEPT ![k] = "pending"]
  /\ Goto(th, label)
  /\ UNCHANGED <<lifecycle, lifo_slot, queue, inbox, is_parked, tick, global,
                 rest, victims>>

\* schedule(task), first case: the caller's g_executor and g_thread_id say
\* that it is a worker of this executor.
ScheduleHere(th, k) ==
  /\ Schedulable(th, k)
  /\ OnExecutor(th) /\ g_thread_id(th) \in Crew
  /\ Hand(th, k, g_thread_id(th), "owner_check")

\* schedule(task), second case: P2C.  The two workers are random and their
\* loads are read unsynchronised, so any worker may be picked.
ScheduleP2C(th, k) ==
  /\ Schedulable(th, k)
  /\ ~(OnExecutor(th) /\ g_thread_id(th) \in Crew)
  /\ \E w \in Crew : Hand(th, k, w, "push_inbox")

\* schedule(task, thread_id).
ScheduleOn(th, k, thread_id) ==
  /\ Schedulable(th, k)
  /\ IF thread_id \notin Crew
     THEN Hand(th, k, thread_id, "push_global")
     ELSE Hand(th, k, thread_id,
               IF OnExecutor(th) /\ g_thread_id(th) = thread_id
               THEN "owner_check" ELSE "push_inbox")

\* if (!w.lifo_slot)
OwnerCheck(th) ==
  /\ pc[th] = "owner_check"
  /\ Goto(th, IF lifo_slot[target[th]] = NoTask
              THEN "owner_lifo" ELSE "owner_push")
  /\ UNCHANGED <<lifecycle, lifo_slot, queue, inbox, is_parked, tick, global,
                 local, status>>

\* w.lifo_slot = task
OwnerLifo(th) ==
  /\ pc[th] = "owner_lifo"
  /\ lifo_slot' = [lifo_slot EXCEPT ![target[th]] = task[th]]
  /\ Return(th)
  /\ UNCHANGED <<lifecycle, queue, inbox, is_parked, tick, global, rest,
                 victims, status>>

\* Mutant of OwnerPush: the full test is missing.
OwnerPushUnbounded(th) ==
  /\ pc[th] = "owner_push"
  /\ queue' = [queue EXCEPT ![target[th]] = Append(@, task[th])]
  /\ Return(th)
  /\ UNCHANGED <<lifecycle, lifo_slot, inbox, is_parked, tick, global, rest,
                 victims, status>>

\* w.queue.Push(task) with room.
OwnerPush(th) ==
  /\ pc[th] = "owner_push"
  /\ Len(queue[target[th]]) < Capacity
  /\ queue' = [queue EXCEPT ![target[th]] = Append(@, task[th])]
  /\ Return(th)
  /\ UNCHANGED <<lifecycle, lifo_slot, inbox, is_parked, tick, global, rest,
                 victims, status>>

\* w.queue.Push(task) with none: half of the queue is to be offloaded.
OwnerPushFull(th) ==
  /\ pc[th] = "owner_push"
  /\ Len(queue[target[th]]) = Capacity
  /\ Goto(th, "offload")
  /\ UNCHANGED <<lifecycle, lifo_slot, queue, inbox, is_parked, tick, global,
                 local, status>>

\* The first n tasks at the top of worker w's queue go to thread th.
TakeTop(w, n) == queue' = [queue EXCEPT ![w] = SubSeq(@, n + 1, Len(@))]

\* TakeHalf gets half of what thieves have left.
Offload(th) ==
  LET q == queue[target[th]]
      count == TakeHalf(Len(q)) IN
  /\ pc[th] = "offload"
  /\ count > 0
  /\ rest' = [rest EXCEPT ![th] = SubSeq(q, 1, count)]
  /\ TakeTop(target[th], count)
  /\ Goto(th, "push_global")
  /\ UNCHANGED <<lifecycle, lifo_slot, inbox, is_parked, tick, global, task,
                 target, victims, status>>

\* TakeHalf returns 0: empty by now, or a thief won the CAS.
OffloadNothing(th) ==
  /\ pc[th] = "offload"
  /\ Goto(th, "push_global")
  /\ UNCHANGED <<lifecycle, lifo_slot, queue, inbox, is_parked, tick, global,
                 local, status>>

\* global_queue_.PushBatch of the batch and the task, or Push of the task.
PushGlobal(th) ==
  /\ pc[th] = "push_global"
  /\ global' = global \o rest[th] \o <<task[th]>>
  /\ rest' = [rest EXCEPT ![th] = <<>>]
  /\ task' = [task EXCEPT ![th] = NoTask]
  /\ Goto(th, "wake_any")
  /\ UNCHANGED <<lifecycle, lifo_slot, queue, inbox, is_parked, tick, target,
                 victims, status>>

\* wake_any_worker: at most one worker seen parked is unparked.
WakeAny(th) ==
  /\ pc[th] = "wake_any"
  /\ \/ \E w \in Crew : is_parked' = [is_parked EXCEPT ![w] = FALSE]
     \/ UNCHANGED is_parked
  /\ Return(th)
  /\ UNCHANGED <<lifecycle, lifo_slot, queue, inbox, tick, global, rest,
                 victims, status>>

\* push_inbox: the CAS that links the node.
PushInbox(th) ==
  /\ pc[th] = "push_inbox"
  /\ inbox' = [inbox EXCEPT ![target[th]] = <<task[th]>> \o @]
  /\ task' = [task EXCEPT ![th] = NoTask]
  /\ Goto(th, "unpark")
  /\ UNCHANGED <<lifecycle, lifo_slot, queue, is_parked, tick, global, rest,
                 target, victims, status>>

\* unpark, which may miss a worker that is about to park.
Unpark(th) ==
  /\ pc[th] = "unpark"
  /\ \/ is_parked' = [is_parked EXCEPT ![target[th]] = FALSE]
     \/ UNCHANGED is_parked
  /\ Return(th)
  /\ UNCHANGED <<lifecycle, lifo_slot, queue, inbox, tick, global, rest,
                 victims, status>>

-----------------------------------------------------------------------------
(* WorkerLoop                                                              *)

Found(w, k, label) == /\ task' = [task EXCEPT ![w] = k]
                      /\ Goto(w, label)

\* The worker holds a task to run and others to queue first, if any.
Holding(w, k, others) ==
  /\ rest' = [rest EXCEPT ![w] = others]
  /\ Found(w, k, IF others = <<>> THEN "execute" ELSE "enqueue")

LoopExit(w) ==
  /\ pc[w] = "top"
  /\ ~running
  /\ Goto(w, "exited")
  /\ UNCHANGED <<lifecycle, lifo_slot, queue, inbox, is_parked, tick, global,
                 local, status>>

\* Mutant of CheckGlobal: the periodic look at the global queue is missing.
CheckGlobalNever(w) ==
  /\ pc[w] = "top"
  /\ running
  /\ tick' = [tick EXCEPT ![w] = (tick[w] + 1) % kGlobalCheckInterval]
  /\ Goto(w, "lifo")
  /\ UNCHANGED <<lifecycle, lifo_slot, queue, inbox, is_parked, global, local,
                 status>>

\* 1. Every kGlobalCheckInterval ticks the global queue comes first.
CheckGlobal(w) ==
  LET t == (tick[w] + 1) % kGlobalCheckInterval IN
  /\ pc[w] = "top"
  /\ running
  /\ tick' = [tick EXCEPT ![w] = t]
  /\ IF t = 0 /\ global # <<>>
     THEN Found(w, Head(global), "execute") /\ global' = Tail(global)
     ELSE Goto(w, "lifo") /\ UNCHANGED <<task, global>>
  /\ UNCHANGED <<lifecycle, lifo_slot, queue, inbox, is_parked, rest, target,
                 victims, status>>

\* 2. LIFO slot: read it...
TakeLifo(w) ==
  /\ pc[w] = "lifo"
  /\ IF lifo_slot[w] # NoTask
     THEN Found(w, lifo_slot[w], "clear_lifo")
     ELSE Goto(w, "inbox") /\ UNCHANGED task
  /\ UNCHANGED <<lifecycle, lifo_slot, queue, inbox, is_parked, tick, global,
                 rest, target, victims, status>>

\* ... and clear it.
ClearLifo(w) ==
  /\ pc[w] = "clear_lifo"
  /\ lifo_slot' = [lifo_slot EXCEPT ![w] = NoTask]
  /\ Goto(w, "execute")
  /\ UNCHANGED <<lifecycle, queue, inbox, is_parked, tick, global, local,
                 status>>

\* 3. pop_all_inbox: the newest task is run, the others are to be queued.
TakeInbox(w) ==
  /\ pc[w] = "inbox"
  /\ IF inbox[w] # <<>>
     THEN /\ Holding(w, Head(inbox[w]), Tail(inbox[w]))
          /\ inbox' = [inbox EXCEPT ![w] = <<>>]
     ELSE Goto(w, "pop") /\ UNCHANGED <<task, rest, inbox>>
  /\ UNCHANGED <<lifecycle, lifo_slot, queue, is_parked, tick, global, target,
                 victims, status>>

\* Mutant of Enqueue: the result of Push is not looked at.
EnqueueUnchecked(w) ==
  LET k == Head(rest[w])
      room == Len(queue[w]) < Capacity IN
  /\ pc[w] = "enqueue"
  /\ queue' = IF room THEN [queue EXCEPT ![w] = Append(@, k)] ELSE queue
  /\ rest' = [rest EXCEPT ![w] = Tail(@)]
  /\ Goto(w, IF Len(rest[w]) = 1 THEN "execute" ELSE "enqueue")
  /\ UNCHANGED <<lifecycle, lifo_slot, inbox, is_parked, tick, global, task,
                 target, victims, status>>

\* One of the others, from the inbox or from a stolen batch, goes to the local
\* queue or, if that is full, to the global one.
Enqueue(w) ==
  LET k == Head(rest[w])
      room == Len(queue[w]) < Capacity IN
  /\ pc[w] = "enqueue"
  /\ queue' = IF room THEN [queue EXCEPT ![w] = Append(@, k)] ELSE queue
  /\ global' = IF room THEN global ELSE Append(global, k)
  /\ rest' = [rest EXCEPT ![w] = Tail(@)]
  /\ Goto(w, IF Len(rest[w]) = 1 THEN "execute" ELSE "enqueue")
  /\ UNCHANGED <<lifecycle, lifo_slot, inbox, is_parked, tick, task, target,
                 victims, status>>

\* 4. TryPop at the bottom end of the local queue.
Pop(w) ==
  LET q == queue[w] IN
  /\ pc[w] = "pop"
  /\ IF q # <<>>
     THEN /\ Found(w, q[Len(q)], "execute")
          /\ queue' = [queue EXCEPT ![w] = SubSeq(q, 1, Len(q) - 1)]
          /\ UNCHANGED victims
     ELSE /\ victims' = [victims EXCEPT ![w] = Crew \ {w}]
          /\ Goto(w, "steal")
          /\ UNCHANGED <<task, queue>>
  /\ UNCHANGED <<lifecycle, lifo_slot, inbox, is_parked, tick, global, rest,
                 target, status>>

\* 5. steal_task: TakeHalf on a victim ...
StealHalf(w, v) ==
  LET q == queue[v]
      count == TakeHalf(Len(q)) IN
  /\ pc[w] = "steal"
  /\ v \in victims[w]
  /\ count > 0
  /\ Holding(w, Head(q), SubSeq(q, 2, count))
  /\ TakeTop(v, count)
  /\ UNCHANGED <<lifecycle, lifo_slot, inbox, is_parked, tick, global, target,
                 victims, status>>

\* ... or, if that returned 0, Steal of one task ...
StealOne(w, v) ==
  /\ pc[w] = "steal"
  /\ v \in victims[w]
  /\ queue[v] # <<>>
  /\ Found(w, Head(queue[v]), "execute")
  /\ TakeTop(v, 1)
  /\ UNCHANGED <<lifecycle, lifo_slot, inbox, is_parked, tick, global, rest,
                 target, victims, status>>

\* ... or nothing (empty, or lost both races): the next victim.
StealMiss(w, v) ==
  /\ pc[w] = "steal"
  /\ v \in victims[w]
  /\ victims' = [victims EXCEPT ![w] = @ \ {v}]
  /\ UNCHANGED <<lifecycle, lifo_slot, queue, inbox, is_parked, tick, global,
                 pc, task, rest, target, status>>

\* 6. No victim left: the global queue again.
PopGlobal(w) ==
  /\ pc[w] = "steal"
  /\ victims[w] = {}
  /\ IF global # <<>>
     THEN Found(w, Head(global), "execute") /\ global' = Tail(global)
     ELSE Goto(w, "idle") /\ UNCHANGED <<task, global>>
  /\ UNCHANGED <<lifecycle, lifo_slot, queue, inbox, is_parked, tick, rest,
                 target, victims, status>>

\* 7. task->run() begins; what it schedules are the schedule actions above.
Execute(w) ==
  /\ pc[w] = "execute"
  /\ status' = [status EXCEPT ![task[w]] = "ran"]
  /\ task' = [task EXCEPT ![w] = NoTask]
  /\ Goto(w, "run")
  /\ UNCHANGED <<lifecycle, lifo_slot, queue, inbox, is_parked, tick, global,
                 rest, target, victims>>

FinishRun(w) ==
  /\ pc[w] = "run"
  /\ Goto(w, "top")
  /\ UNCHANGED <<lifecycle, lifo_slot, queue, inbox, is_parked, tick, global,
                 local, status>>

\* empty_spins is below 32: pause or yield.
Backoff(w) ==
  /\ pc[w] = "idle"
  /\ Goto(w, "top")
  /\ UNCHANGED <<lifecycle, lifo_slot, queue, inbox, is_parked, tick, global,
                 local, status>>

\* park_and_wait up to its wait; it returns at once after Stop.
Park(w) ==
  /\ pc[w] = "idle"
  /\ is_parked' = [is_parked EXCEPT ![w] = running]
  /\ Goto(w, IF running THEN "parked" ELSE "top")
  /\ UNCHANGED <<lifecycle, lifo_slot, queue, inbox, tick, global, local,
                 status>>

\* Mutant of Unparked: the worker waits until it is unparked, with no timeout
\* and no look at running_.
UnparkedOnlyBySignal(w) ==
  /\ pc[w] = "parked"
  /\ ~is_parked[w]
  /\ Goto(w, "top")
  /\ UNCHANGED <<lifecycle, lifo_slot, queue, inbox, is_parked, tick, global,
                 local, status>>

\* The end of park_and_wait.
Unparked(w) ==
  /\ pc[w] = "parked"
  /\ is_parked' = [is_parked EXCEPT ![w] = FALSE]
  /\ Goto(w, "top")
  /\ UNCHANGED <<lifecycle, lifo_slot, queue, inbox, tick, global, local,
                 status>>

\* The condition of the wait loop fails.
ParkWoken(w) ==
  /\ ~running \/ ~is_parked[w] \/ inbox[w] # <<>>
  /\ Unparked(w)

\* Mutant of ParkTimeout: the wait ends only when it is signalled.
ParkTimeoutNever(w) == ~running /\ Unparked(w)

\* WaitWithTimeout times out after 100 microseconds.
ParkTimeout(w) == Unparked(w)

-----------------------------------------------------------------------------
(* Start and Stop, by the thread that owns the executor.                   *)

\* The workers enter their loop; a Scheduler starts its IO threads after them.
Start ==
  /\ stage = "stopped"
  /\ running' = TRUE
  /\ stage' = "started"
  /\ pc' = [th \in Threads |-> IF th \in Crew THEN "top"
                              ELSE IF th \in Callers /\ pc[th] = "off"
                                   THEN "ready" ELSE pc[th]]
  /\ UNCHANGED <<load, lifo_slot, queue, inbox, is_parked, tick, global, local,
                 status>>

\* running_.exchange(false), then unpark every worker (seen parked).
Stop ==
  /\ stage = "started"
  /\ running' = FALSE
  /\ stage' = "joining"
  /\ \E S \in SUBSET Crew :
       is_parked' = [w \in Workers |-> is_parked[w] /\ w \notin S]
  /\ UNCHANGED <<load, lifo_slot, queue, inbox, tick, global, pc, local,
                 status>>

StopJoin ==
  /\ stage = "joining"
  /\ \A w \in Crew : pc[w] = "exited"
  /\ stage' = "stopped"
  /\ UNCHANGED <<load, running, lifo_slot, queue, inbox, is_parked, tick,
                 global, pc, local, status>>

-----------------------------------------------------------------------------
Schedule(th) ==
  \E k \in Tasks :
    \/ ScheduleHere(th, k)
    \/ ScheduleP2C(th, k)
    \/ \E thread_id \in 0..load.nthreads : ScheduleOn(th, k, thread_id)

ScheduleStep(th) ==
  \/ OwnerCheck(th) \/ OwnerLifo(th) \/ OwnerPush(th) \/ OwnerPushFull(th)
  \/ Offload(th) \/ OffloadNothing(th) \/ PushGlobal(th) \/ WakeAny(th)
  \/ PushInbox(th) \/ Unpark(th)

WorkerStep(w) ==
  \/ LoopExit(w) \/ CheckGlobal(w) \/ TakeLifo(w) \/ ClearLifo(w)
  \/ TakeInbox(w) \/ Enqueue(w) \/ Pop(w)
  \/ \E v \in Workers : StealHalf(w, v) \/ StealOne(w, v) \/ StealMiss(w, v)
  \/ PopGlobal(w) \/ Execute(w)
  \/ Backoff(w) \/ Park(w) \/ ParkWoken(w) \/ ParkTimeout(w)

Next ==
  \/ \E th \in Threads : Schedule(th) \/ ScheduleStep(th)
  \/ \E w \in Workers : WorkerStep(w) \/ FinishRun(w)
  \/ Start \/ Stop \/ StopJoin

Spec == Init /\ [][Next]_vars

\* Every thread goes on; a task's body, which may schedule tasks on the way,
\* comes to its end.
Fairness ==
  /\ \A th \in Threads : WF_vars(ScheduleStep(th))
  /\ \A w \in Workers : WF_vars(WorkerStep(w)) /\ SF_vars(FinishRun(w))
  /\ WF_vars(StopJoin)

FairSpec == Spec /\ Fairness

-----------------------------------------------------------------------------
(* Properties                                                              *)

Labels == {"off", "top", "lifo", "clear_lifo", "inbox", "enqueue", "pop",
           "steal", "execute", "run", "idle", "parked", "exited", "ready",
           "owner_check", "owner_lifo", "owner_push", "offload", "push_global",
           "wake_any", "push_inbox", "unpark"}

\* The types of the variables; no local queue outgrows its array.
TypeOK ==
  /\ load \in Workloads
  /\ running \in BOOLEAN
  /\ stage \in {"stopped", "started", "joining"}
  /\ lifo_slot \in [Workers -> Tasks \cup {NoTask}]
  /\ queue \in [Workers -> Seq(Tasks)]
  /\ \A w \in Workers : Len(queue[w]) <= Capacity
  /\ inbox \in [Workers -> Seq(Tasks)]
  /\ is_parked \in [Workers -> BOOLEAN]
  /\ tick \in [Workers -> 0..(kGlobalCheckInterval - 1)]
  /\ global \in Seq(Tasks)
  /\ pc \in [Threads -> Labels]
  /\ task \in [Threads -> Tasks \cup {NoTask}]
  /\ rest \in [Threads -> Seq(Tasks)]
  /\ target \in [Threads -> 0..NumWorkers]
  /\ victims \in [Workers -> SUBSET Workers]
  /\ status \in [Tasks -> {"new", "pending", "ran"}]

\* The places in which the executor holds tasks, and what each of them holds.
\* Between TakeLifo and ClearLifo a worker's task is still the one in the slot
\* and counts there.
Places == {<<"global", 0>>}
            \cup {"slot", "queue", "inbox"} \X Workers
            \cup {"rest", "hand"} \X Threads

InSlot(w) == IF lifo_slot[w] = NoTask THEN <<>> ELSE <<lifo_slot[w]>>
InHand(th) ==
  IF task[th] = NoTask \/ (pc[th] = "clear_lifo" /\ lifo_slot[th] = task[th])
  THEN <<>> ELSE <<task[th]>>

Held(p) ==
  CASE p[1] = "global" -> global
    [] p[1] = "slot" -> InSlot(p[2])
    [] p[1] = "queue" -> queue[p[2]]
    [] p[1] = "inbox" -> inbox[p[2]]
    [] p[1] = "rest" -> rest[p[2]]
    [] p[1] = "hand" -> InHand(p[2])

\* A task that was handed to schedule and has not run is in exactly one place
\* of the executor, and one that is not scheduled is in none: whatever
\* overflows, is stolen or is drained, nothing is lost and nothing runs twice.
EveryTaskInOnePlace ==
  /\ \A p, q \in Places : \A i \in DOMAIN Held(p), j \in DOMAIN Held(q) :
       Held(p)[i] = Held(q)[j] => p = q /\ i = j
  /\ UNION {Range(Held(p)) : p \in Places}
       = {k \in Tasks : status[k] = "pending"}

\* "Every 61 ticks, check global queue to prevent starvation": a task in the
\* global queue leaves it even if tasks reschedule themselves for ever.
GlobalQueueServed ==
  \A k \in Tasks :
    k \in Range(global) ~> k \notin Range(global) \/ ~running

\* A scheduled task runs, unless the executor is stopped or other tasks keep
\* rescheduling themselves: a worker's LIFO slot comes before its inbox.
EveryTaskRuns ==
  \A k \in Tasks :
    status[k] = "pending" ~> status[k] = "ran" \/ ~running \/ load.repeating

\* Stop returns: no worker stays parked or misses running_ = false.
StopReturns == stage = "joining" ~> stage = "stopped"
=============================================================================
