--------------------------- MODULE ExecutorProofs ---------------------------
(***************************************************************************)
(* Executor, for any number of workers, callers and tasks: the types of    *)
(* its variables and, if no IO thread passes for a worker, that every      *)
(* scheduled task is in exactly one place.                                 *)
(***************************************************************************)
EXTENDS Executor, SequenceTheorems, TLAPS

\* Where a thread has a task in its hand.
Carrying == {"clear_lifo", "execute", "enqueue", "owner_check", "owner_lifo",
             "owner_push", "offload", "push_global", "push_inbox"}

\* Where it uses the worker that schedule is dealing with.
Aiming == {"owner_check", "owner_lifo", "owner_push", "offload", "push_inbox"}

\* What a thread holds agrees with where it is.
Hands ==
  \A th \in Threads :
    /\ pc[th] \in Carrying <=> task[th] # NoTask
    /\ rest[th] # <<>> => pc[th] \in {"enqueue", "push_global"}
    /\ pc[th] = "enqueue" => rest[th] # <<>>
    /\ pc[th] \in Aiming => target[th] \in Workers

\* Stop has joined every worker before Start starts them again.
Joined == stage = "stopped" => \A w \in Crew : pc[w] \in {"off", "exited"}

Base == TypeOK /\ Hands /\ Joined

-----------------------------------------------------------------------------
(* Numbers and sequences.                                                  *)

\* The numbers of threads and of workers.
LEMMA ThreadNumbers ==
  /\ Workers \subseteq Threads /\ Callers \subseteq Threads
  /\ Threads = 0..(NumWorkers + NumIO + NumExternal - 1)
  /\ NumWorkers \in Nat /\ NumIO \in Nat /\ NumExternal \in Nat
  /\ \A th \in Threads : th \in Workers <=> th < NumWorkers
  BY ConstantsOK DEF Threads, Workers, Callers

\* The executor's own workers are workers.
LEMMA CrewType ==
  ASSUME load \in Workloads
  PROVE  /\ Crew \subseteq Workers
         /\ load.nthreads \in 1..NumWorkers
         /\ Crew = 0..(load.nthreads - 1)
  BY ConstantsOK DEF Crew, Workers

\* Half of the tasks is at least one and at most all of them.
LEMMA NumToTake ==
  ASSUME NEW size \in Nat \ {0}
  PROVE  num_to_take(size) \in 1..size
  BY DEF num_to_take

\* A queue of which TakeHalf takes something is not empty.
LEMMA TakeHalfSome ==
  ASSUME NEW q \in Seq(Tasks), TakeHalf(Len(q)) > 0
  PROVE  /\ q # <<>> /\ Len(q) \in Nat \ {0}
         /\ TakeHalf(Len(q)) \in 1..Len(q)
  <1>1. Len(q) \in Nat \ {0} BY DEF TakeHalf
  <1>2. TakeHalf(Len(q)) = num_to_take(Len(q)) BY Zenon, <1>1 DEF TakeHalf
  <1>3. q # <<>> BY <1>1
  <1>4. QED BY <1>1, <1>2, <1>3, NumToTake

\* The first of a sequence and the others.
LEMMA HeadTail ==
  ASSUME NEW S, NEW q \in Seq(S), q # <<>>
  PROVE  /\ Head(q) \in S /\ Tail(q) \in Seq(S)
         /\ Len(q) \in Nat \ {0} /\ Len(Tail(q)) = Len(q) - 1
         /\ Tail(q) = <<>> <=> Len(q) = 1
         /\ Head(q) = q[1]
         /\ \A i \in 1..(Len(q) - 1) : Tail(q)[i] = q[i + 1]
  <1>1. /\ Head(q) \in S /\ Tail(q) \in Seq(S) /\ Head(q) = q[1]
        /\ Len(q) \in Nat \ {0} /\ Len(Tail(q)) = Len(q) - 1
    OBVIOUS
  <1>2. Tail(q) = <<>> <=> Len(Tail(q)) = 0 BY Zenon, <1>1, EmptySeq
  <1>3. \A i \in 1..(Len(q) - 1) : Tail(q)[i] = q[i + 1] OBVIOUS
  <1>4. QED BY <1>1, <1>2, <1>3

\* What a step of thread th has to keep of Hands and Joined.
LEMMA StepHands ==
  ASSUME Base, NEW th \in Threads, NEW l,
         pc[th] \notin {"off", "exited"},
         pc' = [pc EXCEPT ![th] = l],
         load' = load, stage' = stage,
         \A x \in Threads : x # th => /\ task'[x] = task[x]
                                      /\ rest'[x] = rest[x]
                                      /\ target'[x] = target[x],
         l \in Carrying <=> task'[th] # NoTask,
         rest'[th] # <<>> => l \in {"enqueue", "push_global"},
         l = "enqueue" => rest'[th] # <<>>,
         l \in Aiming => target'[th] \in Workers
  PROVE  Hands' /\ Joined'
  <1>1. pc'[th] = l /\ \A x \in Threads : x # th => pc'[x] = pc[x]
    BY DEF Base, TypeOK
  <1>2. Hands'
    BY <1>1 DEF Base, Hands
  <1>3. Joined'
    <2>1. Crew' = Crew BY DEF Crew
    <2>2. Crew \subseteq Threads
      BY CrewType, ThreadNumbers DEF Base, TypeOK
    <2>3. stage = "stopped" => th \notin Crew BY DEF Base, Joined
    <2>4. QED BY <1>1, <2>1, <2>2, <2>3 DEF Base, Joined
  <1>4. QED BY <1>2, <1>3

-----------------------------------------------------------------------------
(* Every step keeps the types and what the threads have in their hands.    *)

\* An executor that has not been started.
LEMMA InitBase == Init => Base
  <1> SUFFICES ASSUME Init PROVE Base OBVIOUS
  <1>1. TypeOK
    <2>1. \A w \in Workers : Len(queue[w]) <= Capacity
      BY ConstantsOK DEF Init
    <2>2. 0 \in 0..NumWorkers /\ 0 \in 0..(kGlobalCheckInterval - 1)
      BY ConstantsOK
    <2>3. load \in Workloads BY DEF Init
    <2>4. /\ queue \in [Workers -> Seq(Tasks)] /\ inbox \in [Workers -> Seq(Tasks)]
          /\ rest \in [Threads -> Seq(Tasks)] /\ global \in Seq(Tasks)
      BY DEF Init
    <2>5. pc \in [Threads -> Labels] BY DEF Init, Labels
    <2>6. QED BY Zenon, <2>1, <2>2, <2>3, <2>4, <2>5 DEF Init, TypeOK, NoTask
  <1>2. Hands BY DEF Init, Hands, Carrying, Aiming
  <1>3. Joined
    <2>1. ASSUME NEW w \in Crew PROVE w \in Threads /\ OnExecutor(w)
      <3>1. w \in Workers /\ w \in Threads
        BY <1>1, CrewType, ThreadNumbers DEF TypeOK
      <3>2. w \in Int /\ w < NumWorkers /\ NumWorkers \in Nat /\ NumIO \in Nat
        BY <3>1, ConstantsOK DEF Workers
      <3>3. QED BY <3>1, <3>2 DEF OnExecutor
    <2>2. QED BY <2>1 DEF Init, Joined
  <1>4. QED BY <1>1, <1>2, <1>3 DEF Base

\* Handing a task over.
LEMMA HandBase ==
  ASSUME Base, NEW th \in Threads, NEW k \in Tasks, NEW w \in 0..NumWorkers,
         NEW l \in {"owner_check", "push_inbox", "push_global"},
         pc[th] = Ready(th), Hand(th, k, w, l), l # "push_global" => w \in Workers
  PROVE  Base'
  <1>1. TypeOK'
    BY DEF Base, Hand, Goto, TypeOK, Labels, lifecycle
  <1>2. Hands' /\ Joined'
    <2>1. pc[th] \in {"run", "ready"} BY DEF Ready
    <2>2. rest[th] = <<>> BY <2>1 DEF Base, Hands
    <2>3. task'[th] = k /\ k # NoTask BY ConstantsOK DEF Base, TypeOK, Hand, Tasks, NoTask
    <2>4. QED BY Zenon, <2>1, <2>2, <2>3, StepHands
         DEF Hand, Goto, Carrying, Aiming, lifecycle, Base, TypeOK
  <1>3. QED BY <1>1, <1>2 DEF Base

\* The three ways into schedule.
LEMMA ScheduleBase ==
  ASSUME Base, NEW th \in Threads, Schedule(th)
  PROVE  Base'
  <1>1. /\ Crew \subseteq 0..NumWorkers /\ Crew \subseteq Workers
        /\ 0..load.nthreads \subseteq 0..NumWorkers
    BY CrewType, ConstantsOK DEF Base, TypeOK
  <1>2. PICK k \in Tasks : \/ ScheduleHere(th, k)
                           \/ ScheduleP2C(th, k)
                           \/ \E thread_id \in 0..load.nthreads : ScheduleOn(th, k, thread_id)
    BY DEF Schedule
  <1>3. CASE ScheduleHere(th, k)
    BY Zenon, <1>1, <1>3, HandBase DEF ScheduleHere, Schedulable
  <1>4. CASE ScheduleP2C(th, k)
    BY <1>1, <1>4, HandBase DEF ScheduleP2C, Schedulable
  <1>5. CASE \E thread_id \in 0..load.nthreads : ScheduleOn(th, k, thread_id)
    BY <1>1, <1>5, HandBase DEF ScheduleOn, Schedulable
  <1>6. QED BY <1>2, <1>3, <1>4, <1>5

\* The end of schedule.
LEMMA ReturnHands ==
  ASSUME Base, NEW th \in Threads, Return(th), pc[th] \notin {"off", "exited"},
         rest[th] = <<>> , rest' = rest, load' = load, stage' = stage
  PROVE  /\ Hands' /\ Joined'
         /\ pc' \in [Threads -> Labels]
         /\ task' \in [Threads -> Tasks \cup {NoTask}]
         /\ target' \in [Threads -> 0..NumWorkers]
  <1>1. /\ Ready(th) \in Labels \ Carrying
        /\ Ready(th) \notin {"enqueue", "push_global"} \cup Aiming
    BY DEF Ready, Labels, Carrying, Aiming
  <1>2. task'[th] = NoTask BY DEF Return, Base, TypeOK
  <1>3. Hands' /\ Joined'
    BY Zenon, <1>1, <1>2, StepHands DEF Return, Goto, Base, TypeOK
  <1>4. 0 \in 0..NumWorkers BY ConstantsOK
  <1>5. QED BY <1>1, <1>3, <1>4 DEF Return, Goto, Base, TypeOK

\* The steps of schedule that only change what the caller will do next.
LEMMA ScheduleGotoBase ==
  ASSUME Base, NEW th \in Threads,
         OwnerCheck(th) \/ OwnerPushFull(th) \/ OffloadNothing(th)
  PROVE  Base'
  <1>1. PICK l \in {"owner_lifo", "owner_push", "offload", "push_global"} :
           pc' = [pc EXCEPT ![th] = l]
    BY DEF OwnerCheck, OwnerPushFull, OffloadNothing, Goto
  <1>2. /\ pc[th] \in {"owner_check", "owner_push", "offload"}
        /\ UNCHANGED <<lifecycle, lifo_slot, queue, inbox, is_parked, tick,
                       global, local, status>>
    BY DEF OwnerCheck, OwnerPushFull, OffloadNothing
  <1>3. TypeOK' BY <1>1, <1>2 DEF Base, TypeOK, Labels, lifecycle, local
  <1>4. Hands' /\ Joined'
    <2>1. task[th] # NoTask /\ rest[th] = <<>>
      BY <1>2 DEF Base, Hands, Carrying
    <2>2. target[th] \in Workers BY <1>2 DEF Base, Hands, Aiming
    <2>3. QED BY Zenon, <1>1, <1>2, <2>1, <2>2, StepHands DEF lifecycle, local, Carrying
  <1>5. QED BY <1>3, <1>4 DEF Base

\* The steps that end with a return, and the pushes.
LEMMA ScheduleStepBase ==
  ASSUME Base, NEW th \in Threads, ScheduleStep(th)
  PROVE  Base'
  <1>1. CASE OwnerCheck(th) \/ OwnerPushFull(th) \/ OffloadNothing(th)
    BY <1>1, ScheduleGotoBase
  <1>2. CASE OwnerLifo(th)
    <2>1. rest[th] = <<>> /\ pc[th] = "owner_lifo"
      BY <1>2 DEF OwnerLifo, Base, Hands
    <2>2. Return(th) /\ UNCHANGED <<lifecycle, rest>> BY <1>2 DEF OwnerLifo
    <2>3. /\ Hands' /\ Joined'
          /\ pc' \in [Threads -> Labels]
          /\ task' \in [Threads -> Tasks \cup {NoTask}]
          /\ target' \in [Threads -> 0..NumWorkers]
      BY <2>1, <2>2, ReturnHands DEF lifecycle
    <2>4. TypeOK' BY Zenon, <1>2, <2>3 DEF OwnerLifo, lifecycle, Base, TypeOK
    <2>5. QED BY <2>3, <2>4 DEF Base
  <1>3. CASE OwnerPush(th)
    <2>1. rest[th] = <<>> /\ pc[th] = "owner_push" /\ task[th] \in Tasks
      BY Zenon, <1>3 DEF OwnerPush, Base, Hands, TypeOK, Carrying
    <2>2. Return(th) /\ UNCHANGED <<lifecycle, rest>> BY <1>3 DEF OwnerPush
    <2>3. /\ Hands' /\ Joined'
          /\ pc' \in [Threads -> Labels]
          /\ task' \in [Threads -> Tasks \cup {NoTask}]
          /\ target' \in [Threads -> 0..NumWorkers]
      BY <2>1, <2>2, ReturnHands DEF lifecycle
    <2>4. /\ queue' \in [Workers -> Seq(Tasks)]
          /\ \A w \in Workers : Len(queue'[w]) <= Capacity
      <3>1. /\ target[th] \in Workers /\ queue \in [Workers -> Seq(Tasks)]
            /\ \A w \in Workers : Len(queue[w]) <= Capacity
        BY <2>1 DEF Base, Hands, TypeOK, Aiming
      <3>2. /\ queue' = [queue EXCEPT ![target[th]] = Append(@, task[th])]
            /\ Len(queue[target[th]]) < Capacity
        BY <1>3 DEF OwnerPush
      <3>3. QED BY <2>1, <3>1, <3>2, ConstantsOK
    <2>5. TypeOK' BY <1>3, <2>3, <2>4 DEF OwnerPush, lifecycle, Base, TypeOK
    <2>6. QED BY <2>3, <2>5 DEF Base
  <1>4. CASE WakeAny(th) \/ Unpark(th)
    <2>1. rest[th] = <<>> /\ pc[th] \in {"wake_any", "unpark"}
      BY <1>4 DEF WakeAny, Unpark, Base, Hands
    <2>2. Return(th) /\ UNCHANGED <<lifecycle, rest>> BY <1>4 DEF WakeAny, Unpark
    <2>3. /\ Hands' /\ Joined'
          /\ pc' \in [Threads -> Labels]
          /\ task' \in [Threads -> Tasks \cup {NoTask}]
          /\ target' \in [Threads -> 0..NumWorkers]
      BY <2>1, <2>2, ReturnHands DEF lifecycle
    <2>4. is_parked' \in [Workers -> BOOLEAN]
      BY Zenon, <1>4 DEF WakeAny, Unpark, Base, TypeOK
    <2>5. TypeOK'
      BY <1>4, <2>3, <2>4 DEF WakeAny, Unpark, lifecycle, Base, TypeOK
    <2>6. QED BY <2>3, <2>5 DEF Base
  <1>5. CASE Offload(th)
    <2> DEFINE q == queue[target[th]]
               count == TakeHalf(Len(q))
    <2>1. /\ pc[th] = "offload" /\ count > 0
          /\ rest' = [rest EXCEPT ![th] = SubSeq(q, 1, count)]
          /\ queue' = [queue EXCEPT ![target[th]] = SubSeq(@, count + 1, Len(@))]
          /\ pc' = [pc EXCEPT ![th] = "push_global"]
          /\ UNCHANGED <<lifecycle, lifo_slot, inbox, is_parked, tick, global, task,
                         target, victims, status>>
      BY <1>5 DEF Offload, TakeTop, Goto
    <2>2. target[th] \in Workers /\ task[th] # NoTask
      BY <2>1 DEF Base, Hands, Aiming, Carrying
    <2>3. /\ q \in Seq(Tasks) /\ Len(q) <= Capacity
          /\ \A w \in Workers : Len(queue[w]) <= Capacity
      BY <2>2 DEF Base, TypeOK
    <2>4. Len(q) \in Nat \ {0} /\ count \in 1..Len(q)
      BY Zenon, <2>1, <2>3, TakeHalfSome
    <2> HIDE DEF count
    <2>5. /\ SubSeq(q, 1, count) \in Seq(Tasks)
          /\ SubSeq(q, count + 1, Len(q)) \in Seq(Tasks)
          /\ Len(SubSeq(q, count + 1, Len(q))) <= Capacity
      BY <2>3, <2>4, ConstantsOK
    <2>6. /\ queue' \in [Workers -> Seq(Tasks)]
          /\ \A w \in Workers : Len(queue'[w]) <= Capacity
      BY Zenon, <2>1, <2>2, <2>3, <2>5 DEF Base, TypeOK
    <2>7. TypeOK'
      BY Zenon, <2>1, <2>5, <2>6 DEF lifecycle, Base, TypeOK, Labels
    <2>8. Hands' /\ Joined'
      BY Zenon, <2>1, <2>2, StepHands DEF lifecycle, Base, TypeOK, Carrying, Aiming
    <2>9. QED BY <2>7, <2>8 DEF Base
  <1>6. CASE PushGlobal(th)
    <2>1. /\ pc[th] = "push_global" /\ task[th] \in Tasks
          /\ rest[th] \in Seq(Tasks) /\ global \in Seq(Tasks)
      BY <1>6 DEF PushGlobal, Base, Hands, TypeOK, Carrying
    <2>2. global' \in Seq(Tasks) BY <1>6, <2>1 DEF PushGlobal
    <2>3. TypeOK'
      BY <1>6, <2>2 DEF PushGlobal, Goto, lifecycle, Base, TypeOK, Labels
    <2>4. Hands' /\ Joined'
      BY Zenon, <1>6, StepHands
         DEF PushGlobal, Goto, lifecycle, Base, TypeOK, Carrying, Aiming
    <2>5. QED BY <2>3, <2>4 DEF Base
  <1>7. CASE PushInbox(th)
    <2>1. /\ pc[th] = "push_inbox" /\ task[th] \in Tasks
          /\ target[th] \in Workers /\ rest[th] = <<>>
      BY Zenon, <1>7 DEF PushInbox, Base, Hands, TypeOK, Carrying, Aiming
    <2>2. inbox' \in [Workers -> Seq(Tasks)]
      BY <1>7, <2>1 DEF PushInbox, Base, TypeOK
    <2>3. TypeOK'
      BY <1>7, <2>2 DEF PushInbox, Goto, lifecycle, Base, TypeOK, Labels
    <2>4. Hands' /\ Joined'
      BY Zenon, <1>7, <2>1, StepHands
         DEF PushInbox, Goto, lifecycle, Base, TypeOK, Carrying, Aiming
    <2>5. QED BY <2>3, <2>4 DEF Base
  <1>8. QED
    BY <1>1, <1>2, <1>3, <1>4, <1>5, <1>6, <1>7 DEF ScheduleStep

\* Steps of a worker with nothing in its hands, before and after.
LEMMA EmptyHandedHands ==
  ASSUME Base, NEW w \in Workers, NEW l \in Labels, l \notin Carrying,
         pc[w] \notin Carrying \cup {"off", "exited"},
         pc' = [pc EXCEPT ![w] = l], UNCHANGED <<lifecycle, task, rest, target>>
  PROVE  Hands' /\ Joined' /\ pc' \in [Threads -> Labels]
  <1>1. w \in Threads BY ThreadNumbers
  <1>2. task[w] = NoTask /\ rest[w] = <<>>
    BY <1>1 DEF Base, Hands, Carrying
  <1>3. l \notin Aiming /\ l # "enqueue" BY DEF Carrying, Aiming
  <1>4. Hands' /\ Joined' BY Zenon, <1>1, <1>2, <1>3, StepHands DEF lifecycle
  <1>5. QED BY Zenon, <1>4 DEF Base, TypeOK

\* Steps of a worker that finds a task, and others to queue first.
LEMMA HoldingHands ==
  ASSUME Base, NEW w \in Workers, NEW k \in Tasks, NEW others \in Seq(Tasks),
         pc[w] \notin Carrying \cup {"off", "exited"},
         Holding(w, k, others), UNCHANGED <<lifecycle, target>>
  PROVE  /\ Hands' /\ Joined' /\ pc' \in [Threads -> Labels]
         /\ task' \in [Threads -> Tasks \cup {NoTask}]
         /\ rest' \in [Threads -> Seq(Tasks)]
  <1>1. w \in Threads /\ k # NoTask BY ThreadNumbers, ConstantsOK DEF Tasks, NoTask
  <1> DEFINE l == IF others = <<>> THEN "execute" ELSE "enqueue"
  <1>2. /\ task' = [task EXCEPT ![w] = k] /\ rest' = [rest EXCEPT ![w] = others]
        /\ pc' = [pc EXCEPT ![w] = l]
    BY DEF Holding, Found, Goto
  <1>3. /\ pc' \in [Threads -> Labels] /\ task' \in [Threads -> Tasks \cup {NoTask}]
        /\ rest' \in [Threads -> Seq(Tasks)]
    BY Zenon, <1>2 DEF Base, TypeOK, Labels
  <1>4. task'[w] = k /\ rest'[w] = others BY <1>1, <1>2 DEF Base, TypeOK
  <1>5. l \in Carrying /\ l \notin Aiming BY DEF Carrying, Aiming
  <1>6. Hands' /\ Joined'
    BY Zenon, <1>1, <1>2, <1>4, <1>5, StepHands DEF lifecycle, Base, TypeOK
  <1>7. QED BY <1>3, <1>6

\* Steps of a worker that finds a single task.
LEMMA FoundHands ==
  ASSUME Base, NEW w \in Workers, NEW k \in Tasks, NEW l \in {"execute", "clear_lifo"},
         pc[w] \notin Carrying \cup {"off", "exited"},
         Found(w, k, l), UNCHANGED <<lifecycle, rest, target>>
  PROVE  /\ Hands' /\ Joined' /\ pc' \in [Threads -> Labels]
         /\ task' \in [Threads -> Tasks \cup {NoTask}]
  <1>1. w \in Threads /\ k # NoTask BY ThreadNumbers, ConstantsOK DEF Tasks, NoTask
  <1>2. /\ task' = [task EXCEPT ![w] = k] /\ pc' = [pc EXCEPT ![w] = l]
    BY DEF Found, Goto
  <1>3. pc' \in [Threads -> Labels] /\ task' \in [Threads -> Tasks \cup {NoTask}]
    BY Zenon, <1>2 DEF Base, TypeOK, Labels
  <1>4. task'[w] = k /\ rest[w] = <<>>
    BY <1>1, <1>2 DEF Base, TypeOK, Hands, Carrying
  <1>5. Hands' /\ Joined'
    BY Zenon, <1>1, <1>2, <1>4, StepHands DEF lifecycle, Base, TypeOK, Carrying, Aiming
  <1>6. QED BY <1>3, <1>5

\* Leaving the loop, backing off, parking and waking, the end of a task.
LEMMA IdleBase ==
  ASSUME Base, NEW w \in Workers,
         \/ LoopExit(w) \/ FinishRun(w) \/ Backoff(w)
         \/ Park(w) \/ Unparked(w)
  PROVE  Base'
  <1>1. PICK l \in {"exited", "top", "parked"} : pc' = [pc EXCEPT ![w] = l]
    BY DEF LoopExit, FinishRun, Backoff, Park, Unparked, Goto
  <1>2. /\ pc[w] \in {"top", "run", "idle", "parked"}
        /\ UNCHANGED <<lifecycle, lifo_slot, queue, inbox, tick, global, local,
                       status>>
    BY DEF LoopExit, FinishRun, Backoff, Park, Unparked
  <1>3. is_parked' \in [Workers -> BOOLEAN]
    BY Zenon DEF LoopExit, FinishRun, Backoff, Park, Unparked, Base, TypeOK
  <1>4. Hands' /\ Joined' /\ pc' \in [Threads -> Labels]
    BY Zenon, <1>1, <1>2, EmptyHandedHands DEF Carrying, Labels, local
  <1>5. TypeOK' BY <1>2, <1>3, <1>4 DEF Base, TypeOK, lifecycle, local
  <1>6. QED BY <1>4, <1>5 DEF Base

\* The two looks at the global queue.
LEMMA GlobalBase ==
  ASSUME Base, NEW w \in Workers, CheckGlobal(w) \/ PopGlobal(w)
  PROVE  Base'
  <1>1. /\ pc[w] \in {"top", "steal"}
        /\ UNCHANGED <<lifecycle, lifo_slot, queue, inbox, is_parked, rest,
                       target, victims, status>>
    BY Zenon DEF CheckGlobal, PopGlobal
  <1>2. tick' \in [Workers -> 0..(kGlobalCheckInterval - 1)]
    <2>1. CASE PopGlobal(w) BY <2>1 DEF PopGlobal, Base, TypeOK
    <2>2. CASE CheckGlobal(w)
      <3>1. tick[w] \in Nat BY DEF Base, TypeOK
      <3>2. (tick[w] + 1) % kGlobalCheckInterval \in 0..(kGlobalCheckInterval - 1)
        BY <3>1, ConstantsOK
      <3>3. QED BY <2>2, <3>2 DEF CheckGlobal, Base, TypeOK
    <2>3. QED BY <2>1, <2>2
  <1>3. CASE global # <<>> /\ Found(w, Head(global), "execute") /\ global' = Tail(global)
    <2>1. Head(global) \in Tasks /\ Tail(global) \in Seq(Tasks)
      BY <1>3 DEF Base, TypeOK
    <2>2. /\ Hands' /\ Joined' /\ pc' \in [Threads -> Labels]
          /\ task' \in [Threads -> Tasks \cup {NoTask}]
      BY <1>1, <1>3, <2>1, FoundHands DEF Carrying
    <2>3. TypeOK' BY Zenon, <1>1, <1>2, <1>3, <2>1, <2>2 DEF Base, TypeOK, lifecycle
    <2>4. QED BY <2>2, <2>3 DEF Base
  <1>4. CASE (Goto(w, "lifo") \/ Goto(w, "idle")) /\ UNCHANGED <<task, global>>
    <2>1. Hands' /\ Joined' /\ pc' \in [Threads -> Labels]
      BY <1>1, <1>4, EmptyHandedHands DEF Carrying, Labels, Goto
    <2>2. TypeOK' BY <1>1, <1>2, <1>4, <2>1 DEF Base, TypeOK, lifecycle
    <2>3. QED BY <2>1, <2>2 DEF Base
  <1>5. QED BY Zenon, <1>3, <1>4 DEF CheckGlobal, PopGlobal

\* The LIFO slot and the inbox.
LEMMA OwnBase ==
  ASSUME Base, NEW w \in Workers, TakeLifo(w) \/ ClearLifo(w) \/ TakeInbox(w)
  PROVE  Base'
  <1>1. CASE TakeLifo(w) /\ lifo_slot[w] # NoTask
    <2>1. lifo_slot[w] \in Tasks BY <1>1 DEF Base, TypeOK
    <2>2. /\ Hands' /\ Joined' /\ pc' \in [Threads -> Labels]
          /\ task' \in [Threads -> Tasks \cup {NoTask}]
      BY <1>1, <2>1, FoundHands DEF TakeLifo, Carrying
    <2>3. TypeOK' BY <1>1, <2>2 DEF TakeLifo, Base, TypeOK, lifecycle
    <2>4. QED BY <2>2, <2>3 DEF Base
  <1>2. CASE TakeLifo(w) /\ lifo_slot[w] = NoTask
    <2>1. Hands' /\ Joined' /\ pc' \in [Threads -> Labels]
      BY <1>2, EmptyHandedHands DEF TakeLifo, Carrying, Labels, Goto
    <2>2. TypeOK' BY Zenon, <1>2, <2>1 DEF TakeLifo, Base, TypeOK, lifecycle
    <2>3. QED BY <2>1, <2>2 DEF Base
  <1>3. CASE ClearLifo(w)
    <2>1. w \in Threads BY ThreadNumbers
    <2>2. task[w] # NoTask /\ rest[w] = <<>>
      BY Zenon, <1>3, <2>1 DEF ClearLifo, Base, Hands, Carrying
    <2>3. Hands' /\ Joined'
      BY Zenon, <1>3, <2>1, <2>2, StepHands
         DEF ClearLifo, Goto, lifecycle, local, Carrying, Aiming
    <2>4. TypeOK'
      BY Zenon, <1>3, <2>1 DEF ClearLifo, Goto, Base, TypeOK, lifecycle, local, Labels
    <2>5. QED BY <2>3, <2>4 DEF Base
  <1>4. CASE TakeInbox(w) /\ inbox[w] # <<>>
    <2>1. Head(inbox[w]) \in Tasks /\ Tail(inbox[w]) \in Seq(Tasks)
      BY <1>4 DEF Base, TypeOK
    <2>2. /\ Hands' /\ Joined' /\ pc' \in [Threads -> Labels]
          /\ task' \in [Threads -> Tasks \cup {NoTask}]
          /\ rest' \in [Threads -> Seq(Tasks)]
      BY Zenon, <1>4, <2>1, HoldingHands DEF TakeInbox, Carrying
    <2>3. inbox' \in [Workers -> Seq(Tasks)]
      <3>1. inbox \in [Workers -> Seq(Tasks)] BY DEF Base, TypeOK
      <3>2. inbox' = [inbox EXCEPT ![w] = <<>>] BY <1>4 DEF TakeInbox
      <3>3. <<>> \in Seq(Tasks) OBVIOUS
      <3>4. QED BY <3>1, <3>2, <3>3
    <2>4. TypeOK' BY Zenon, <1>4, <2>2, <2>3 DEF TakeInbox, Base, TypeOK, lifecycle
    <2>5. QED BY <2>2, <2>4 DEF Base
  <1>5. CASE TakeInbox(w) /\ inbox[w] = <<>>
    <2>1. Hands' /\ Joined' /\ pc' \in [Threads -> Labels]
      BY <1>5, EmptyHandedHands DEF TakeInbox, Carrying, Labels, Goto
    <2>2. TypeOK' BY Zenon, <1>5, <2>1 DEF TakeInbox, Base, TypeOK, lifecycle
    <2>3. QED BY <2>1, <2>2 DEF Base
  <1>6. QED BY <1>1, <1>2, <1>3, <1>4, <1>5

\* Queueing what came with a task.
LEMMA EnqueueBase ==
  ASSUME Base, NEW w \in Workers, Enqueue(w)
  PROVE  Base'
  <1>1. w \in Threads BY ThreadNumbers
  <1>2. /\ pc[w] = "enqueue" /\ task[w] # NoTask
        /\ rest[w] \in Seq(Tasks) /\ rest[w] # <<>>
        /\ queue \in [Workers -> Seq(Tasks)] /\ global \in Seq(Tasks)
        /\ \A v \in Workers : Len(queue[v]) <= Capacity
    BY Zenon, <1>1 DEF Enqueue, Base, TypeOK, Hands, Carrying
  <1>3. /\ Head(rest[w]) \in Tasks /\ Tail(rest[w]) \in Seq(Tasks)
        /\ Len(rest[w]) # 1 => Tail(rest[w]) # <<>>
        /\ Len(rest[w]) = 1 => Tail(rest[w]) = <<>>
    BY Zenon, <1>2, HeadTail
  <1>4. /\ queue' = IF Len(queue[w]) < Capacity
                    THEN [queue EXCEPT ![w] = Append(@, Head(rest[w]))] ELSE queue
        /\ global' = IF Len(queue[w]) < Capacity
                     THEN global ELSE Append(global, Head(rest[w]))
        /\ rest' = [rest EXCEPT ![w] = Tail(@)]
        /\ pc' = [pc EXCEPT ![w] = IF Len(rest[w]) = 1 THEN "execute" ELSE "enqueue"]
        /\ UNCHANGED <<lifecycle, lifo_slot, inbox, is_parked, tick, task, target,
                       victims, status>>
    BY DEF Enqueue, Goto
  <1>5. queue' \in [Workers -> Seq(Tasks)] /\ global' \in Seq(Tasks)
    BY <1>2, <1>3, <1>4
  <1>6. \A v \in Workers : Len(queue'[v]) <= Capacity
    BY <1>2, <1>3, <1>4, ConstantsOK
  <1>7. TypeOK'
    BY Zenon, <1>1, <1>3, <1>4, <1>5, <1>6 DEF Base, TypeOK, lifecycle, Labels
  <1>8. rest'[w] = Tail(rest[w]) BY <1>1, <1>4 DEF Base, TypeOK
  <1>9. Hands' /\ Joined'
    BY Zenon, <1>1, <1>2, <1>3, <1>4, <1>8, StepHands
       DEF lifecycle, Base, TypeOK, Carrying, Aiming
  <1>10. QED BY <1>7, <1>9 DEF Base

\* The local queue and those of the victims.
LEMMA TakeBase ==
  ASSUME Base, NEW w \in Workers, NEW v \in Workers,
         Pop(w) \/ StealHalf(w, v) \/ StealOne(w, v) \/ StealMiss(w, v)
  PROVE  Base'
  <1>1. /\ queue \in [Workers -> Seq(Tasks)]
        /\ \A x \in Workers : Len(queue[x]) <= Capacity
    BY DEF Base, TypeOK
  <1>2. CASE Pop(w) /\ queue[w] # <<>>
    <2> DEFINE q == queue[w]
    <2>1. /\ q[Len(q)] \in Tasks /\ SubSeq(q, 1, Len(q) - 1) \in Seq(Tasks)
          /\ Len(SubSeq(q, 1, Len(q) - 1)) <= Capacity
      BY <1>1, <1>2, ConstantsOK
    <2>2. /\ Hands' /\ Joined' /\ pc' \in [Threads -> Labels]
          /\ task' \in [Threads -> Tasks \cup {NoTask}]
      BY Zenon, <1>2, <2>1, FoundHands DEF Pop, Carrying
    <2>3. queue' = [queue EXCEPT ![w] = SubSeq(q, 1, Len(q) - 1)] BY <1>2 DEF Pop
    <2>4. /\ queue' \in [Workers -> Seq(Tasks)]
          /\ \A x \in Workers : Len(queue'[x]) <= Capacity
      BY <1>1, <2>1, <2>3
    <2>5. TypeOK' BY Zenon, <1>2, <2>2, <2>4 DEF Pop, Base, TypeOK, lifecycle
    <2>6. QED BY <2>2, <2>5 DEF Base
  <1>3. CASE Pop(w) /\ queue[w] = <<>>
    <2>1. Hands' /\ Joined' /\ pc' \in [Threads -> Labels]
      BY Zenon, <1>3, EmptyHandedHands DEF Pop, Carrying, Labels, Goto
    <2>2. victims' \in [Workers -> SUBSET Workers]
      <3>1. Crew \ {w} \in SUBSET Workers BY CrewType DEF Base, TypeOK
      <3>2. victims' = [victims EXCEPT ![w] = Crew \ {w}] BY <1>3 DEF Pop
      <3>3. QED BY <3>1, <3>2 DEF Base, TypeOK
    <2>3. TypeOK' BY Zenon, <1>3, <2>1, <2>2 DEF Pop, Base, TypeOK, lifecycle
    <2>4. QED BY <2>1, <2>3 DEF Base
  <1>4. CASE StealHalf(w, v)
    <2> DEFINE q == queue[v]
               count == TakeHalf(Len(q))
    <2>1. /\ pc[w] = "steal" /\ count > 0 /\ Holding(w, Head(q), SubSeq(q, 2, count))
          /\ queue' = [queue EXCEPT ![v] = SubSeq(q, count + 1, Len(q))]
          /\ UNCHANGED <<lifecycle, lifo_slot, inbox, is_parked, tick, global, target,
                         victims, status>>
      BY Zenon, <1>4 DEF StealHalf, TakeTop
    <2>2. q \in Seq(Tasks) /\ Len(q) <= Capacity BY <1>1
    <2>3. q # <<>> /\ Len(q) \in Nat \ {0} /\ count \in 1..Len(q)
      BY Zenon, <2>1, <2>2, TakeHalfSome
    <2> HIDE DEF count
    <2>4. /\ Head(q) \in Tasks /\ SubSeq(q, 2, count) \in Seq(Tasks)
          /\ SubSeq(q, count + 1, Len(q)) \in Seq(Tasks)
          /\ Len(SubSeq(q, count + 1, Len(q))) <= Capacity
      BY <2>1, <2>2, <2>3, ConstantsOK
    <2>5. /\ Hands' /\ Joined' /\ pc' \in [Threads -> Labels]
          /\ task' \in [Threads -> Tasks \cup {NoTask}]
          /\ rest' \in [Threads -> Seq(Tasks)]
      BY Zenon, <2>1, <2>4, HoldingHands DEF Carrying
    <2>6. /\ queue' \in [Workers -> Seq(Tasks)]
          /\ \A x \in Workers : Len(queue'[x]) <= Capacity
      BY Zenon, <1>1, <2>1, <2>4
    <2>7. TypeOK' BY Zenon, <2>1, <2>5, <2>6 DEF Base, TypeOK, lifecycle
    <2>8. QED BY <2>5, <2>7 DEF Base
  <1>5. CASE StealOne(w, v)
    <2> DEFINE q == queue[v]
    <2>1. /\ pc[w] = "steal" /\ q # <<>> /\ Found(w, Head(q), "execute")
          /\ queue' = [queue EXCEPT ![v] = SubSeq(q, 2, Len(q))]
          /\ UNCHANGED <<lifecycle, lifo_slot, inbox, is_parked, tick, global, rest,
                         target, victims, status>>
      BY <1>5 DEF StealOne, TakeTop
    <2>2. q \in Seq(Tasks) /\ Len(q) \in Nat \ {0} /\ Len(q) <= Capacity
      BY <1>1, <2>1
    <2>3. /\ Head(q) \in Tasks /\ SubSeq(q, 2, Len(q)) \in Seq(Tasks)
          /\ Len(SubSeq(q, 2, Len(q))) <= Capacity
      BY <2>1, <2>2, ConstantsOK
    <2>4. /\ Hands' /\ Joined' /\ pc' \in [Threads -> Labels]
          /\ task' \in [Threads -> Tasks \cup {NoTask}]
      BY <2>1, <2>3, FoundHands DEF Carrying
    <2>5. /\ queue' \in [Workers -> Seq(Tasks)]
          /\ \A x \in Workers : Len(queue'[x]) <= Capacity
      BY <1>1, <2>1, <2>3
    <2>6. TypeOK' BY Zenon, <2>1, <2>4, <2>5 DEF Base, TypeOK, lifecycle
    <2>7. QED BY <2>4, <2>6 DEF Base
  <1>6. CASE StealMiss(w, v)
    BY Zenon, <1>6 DEF StealMiss, Base, TypeOK, Hands, Joined, Crew, lifecycle
  <1>7. QED BY <1>2, <1>3, <1>4, <1>5, <1>6

\* A task begins to run.
LEMMA ExecuteBase ==
  ASSUME Base, NEW w \in Workers, Execute(w)
  PROVE  Base'
  <1>1. w \in Threads BY ThreadNumbers
  <1>2. rest[w] = <<>> BY Zenon, <1>1 DEF Execute, Base, Hands
  <1>3. Hands' /\ Joined'
    BY Zenon, <1>1, <1>2, StepHands
       DEF Execute, Goto, lifecycle, Base, TypeOK, Carrying, Aiming
  <1>4. TypeOK' BY Zenon, <1>1 DEF Execute, Goto, Base, TypeOK, lifecycle, Labels
  <1>5. QED BY <1>3, <1>4 DEF Base

\* Start and Stop.
LEMMA LifecycleBase ==
  ASSUME Base, Start \/ Stop \/ StopJoin
  PROVE  Base'
  <1>1. CASE Start
    <2>1. Crew \subseteq Workers /\ Workers \subseteq Threads
      BY Zenon, CrewType, ThreadNumbers DEF Base, TypeOK
    <2>2. \A th \in Threads :
            \/ pc'[th] = pc[th]
            \/ pc[th] \in {"off", "exited"} /\ pc'[th] \in {"top", "ready"}
      BY <1>1, <2>1 DEF Start, Base, Joined
    <2>3. pc' \in [Threads -> Labels]
      BY <1>1, <2>2 DEF Start, Base, TypeOK, Labels
    <2>4. TypeOK' BY <1>1, <2>3 DEF Start, Base, TypeOK, local
    <2>5. Hands'
      BY Zenon, <1>1, <2>2 DEF Start, Base, Hands, local, Carrying, Aiming
    <2>6. Joined' BY <1>1 DEF Start, Joined
    <2>7. QED BY <2>4, <2>5, <2>6 DEF Base
  <1>2. CASE Stop
    BY Zenon, <1>2 DEF Stop, Base, TypeOK, Hands, Joined, local
  <1>3. CASE StopJoin
    BY Zenon, <1>3 DEF StopJoin, Base, TypeOK, Hands, Joined, local, Crew
  <1>4. QED BY <1>1, <1>2, <1>3

\* Every step.
LEMMA NextBase ==
  ASSUME Base, [Next]_vars
  PROVE  Base'
  <1>1. ASSUME NEW w \in Workers, WorkerStep(w) PROVE Base'
    BY Zenon, <1>1, IdleBase, GlobalBase, OwnBase, EnqueueBase, TakeBase, ExecuteBase
       DEF WorkerStep, ParkWoken, ParkTimeout
  <1>2. CASE UNCHANGED vars
    BY Zenon, <1>2 DEF vars, lifecycle, local, Base, TypeOK, Hands, Joined, Crew
  <1>3. QED
    BY <1>1, <1>2, ScheduleBase, ScheduleStepBase, IdleBase, LifecycleBase DEF Next

\* The types of the executor's variables are invariant, whatever threads call
\* schedule and whatever the capacities: in particular no local queue outgrows
\* its array, and no null pointer is ever queued.
THEOREM ExecutorTypeCorrect == Spec => []TypeOK
  <1>1. Base => TypeOK BY DEF Base
  <1>2. QED BY <1>1, InitBase, NextBase, PTL DEF Spec

-----------------------------------------------------------------------------
(* Every scheduled task is in exactly one place.                           *)

\* IOLoop sets g_executor, and with it an IO thread takes schedule's first
\* case, which is meant for workers.
NoIOThreads == NumIO = 0

\* Only a worker is in schedule's first case, and only with its own Worker;
\* nobody else writes its LIFO slot.
Own ==
  \A th \in Threads :
    /\ pc[th] \in {"owner_check", "owner_lifo", "owner_push", "offload"}
         => th \in Workers /\ target[th] = th
    /\ pc[th] = "owner_lifo" => lifo_slot[th] = NoTask
    /\ pc[th] = "clear_lifo" => th \in Workers /\ lifo_slot[th] = task[th]

Distinct(s) == \A i, j \in DOMAIN s : s[i] = s[j] => i = j

\* What the places S hold: H gives the sequence of each, P all of it.
InOnePlace(H, S, P) ==
  /\ \A p \in S : Distinct(H[p])
  /\ \A p, q \in S : p # q => Range(H[p]) \cap Range(H[q]) = {}
  /\ \A k : k \in P <=> \E p \in S : k \in Range(H[p])

Contents == [p \in Places |-> Held(p)]
Pending == {k \in Tasks : status[k] = "pending"}
One == InOnePlace(Contents, Places, Pending)

-----------------------------------------------------------------------------
(* Sequences without repetition.                                           *)

\* A single task, and none.
LEMMA Singles ==
  /\ Distinct(<<>>) /\ Range(<<>>) = {}
  /\ \A k : Distinct(<<k>>) /\ Range(<<k>>) = {k}
  BY DEF Distinct, Range

\* A section of a sequence.
LEMMA Section ==
  ASSUME NEW s \in Seq(Tasks), Distinct(s),
         NEW m \in 1..(Len(s) + 1), NEW n \in 0..Len(s)
  PROVE  /\ Distinct(SubSeq(s, m, n))
         /\ Range(SubSeq(s, m, n)) = {s[i] : i \in m..n}
  <1>1. Len(s) \in Nat OBVIOUS
  <1>2. CASE m > n
    <2>1. m..n = {} BY <1>1, <1>2
    <2>2. SubSeq(s, m, n) = <<>> BY <1>1, <1>2, SubSeqProperties
    <2>3. QED BY <2>1, <2>2, Singles
  <1>3. CASE m <= n
    <2> DEFINE u == SubSeq(s, m, n)
    <2>1. DOMAIN u = 1..(n - m + 1) /\ DOMAIN s = 1..Len(s) BY <1>1, <1>3
    <2>2. \A i \in 1..(n - m + 1) : u[i] = s[m + i - 1] BY <1>1, <1>3
    <2> HIDE DEF u
    <2>3. \A i \in 1..(n - m + 1) : m + i - 1 \in 1..Len(s) /\ m + i - 1 \in m..n
      BY <1>1, <1>3
    <2>4. Distinct(u)
      <3> SUFFICES ASSUME NEW i \in 1..(n - m + 1), NEW j \in 1..(n - m + 1),
                          u[i] = u[j]
                   PROVE  i = j
        BY <2>1 DEF Distinct
      <3>1. s[m + i - 1] = s[m + j - 1] BY <2>2
      <3>2. m + i - 1 = m + j - 1 BY Zenon, <2>1, <2>3, <3>1 DEF Distinct
      <3>3. QED BY <1>1, <3>2
    <2>5. Range(u) \subseteq {s[i] : i \in m..n}
      BY <2>1, <2>2, <2>3 DEF Range
    <2>6. ASSUME NEW i \in m..n PROVE s[i] \in Range(u)
      <3>1. i - m + 1 \in 1..(n - m + 1) /\ m + (i - m + 1) - 1 = i
        BY <1>1, <1>3
      <3>2. QED BY Zenon, <2>1, <2>2, <3>1 DEF Range
    <2>7. QED BY <2>4, <2>5, <2>6 DEF u
  <1>4. QED BY <1>1, <1>2, <1>3

\* The whole of it, and what two sections have in common.
LEMMA Whole ==
  ASSUME NEW s \in Seq(Tasks), Distinct(s)
  PROVE  /\ Len(s) \in Nat
         /\ Range(s) = {s[i] : i \in 1..Len(s)}
         /\ \A i, j \in 1..Len(s) : s[i] = s[j] => i = j
  <1>1. DOMAIN s = 1..Len(s) /\ Len(s) \in Nat OBVIOUS
  <1>2. QED BY <1>1 DEF Distinct, Range

\* A task at the end.
LEMMA AppendOne ==
  ASSUME NEW s \in Seq(Tasks), NEW k \in Tasks, Distinct(s), k \notin Range(s)
  PROVE  /\ Distinct(Append(s, k))
         /\ Range(Append(s, k)) = Range(s) \cup {k}
  <1>1. Len(s) \in Nat /\ DOMAIN s = 1..Len(s) OBVIOUS
  <1> DEFINE u == Append(s, k)
  <1>2. DOMAIN u = 1..(Len(s) + 1) OBVIOUS
  <1>3. /\ \A i \in 1..Len(s) : u[i] = s[i]
        /\ u[Len(s) + 1] = k
    OBVIOUS
  <1> HIDE DEF u
  <1>4. \A i \in 1..(Len(s) + 1) : i \in 1..Len(s) \/ i = Len(s) + 1 BY <1>1
  <1>5. 1..Len(s) \subseteq 1..(Len(s) + 1) /\ Len(s) + 1 \in 1..(Len(s) + 1)
    BY <1>1
  <1>6. \A i \in 1..Len(s) : s[i] # k BY <1>1 DEF Range
  <1>7. Distinct(u)
    BY <1>1, <1>2, <1>3, <1>4, <1>6 DEF Distinct
  <1>8. Range(u) = Range(s) \cup {k}
    BY <1>1, <1>2, <1>3, <1>4, <1>5 DEF Range
  <1>9. QED BY <1>7, <1>8 DEF u

\* One sequence after another.
LEMMA Joining ==
  ASSUME NEW s \in Seq(Tasks), NEW t \in Seq(Tasks), Distinct(s), Distinct(t),
         Range(s) \cap Range(t) = {}
  PROVE  /\ Distinct(s \o t)
         /\ Range(s \o t) = Range(s) \cup Range(t)
  <1>1. /\ Len(s) \in Nat /\ DOMAIN s = 1..Len(s)
        /\ Len(t) \in Nat /\ DOMAIN t = 1..Len(t)
    OBVIOUS
  <1> DEFINE u == s \o t
             L == Len(s)
             M == Len(t)
  <1>2. DOMAIN u = 1..(L + M) BY ConcatProperties
  <1>3. /\ \A i \in 1..L : u[i] = s[i]
        /\ \A i \in (L + 1)..(L + M) : u[i] = t[i - L]
    OBVIOUS
  <1>4. L \in Nat /\ M \in Nat /\ DOMAIN s = 1..L /\ DOMAIN t = 1..M BY <1>1
  <1> HIDE DEF u, L, M
  <1>5. \A i \in 1..(L + M) : \/ i \in 1..L
                              \/ i \in (L + 1)..(L + M) /\ i - L \in 1..M
    BY <1>4
  <1>6. Distinct(u)
    <2> SUFFICES ASSUME NEW i \in 1..(L + M), NEW j \in 1..(L + M), u[i] = u[j]
                 PROVE  i = j
      BY <1>2 DEF Distinct
    <2>1. CASE i \in 1..L /\ j \in 1..L BY <1>3, <1>4, <2>1 DEF Distinct
    <2>2. CASE i \in 1..L /\ j \notin 1..L
      <3>1. u[i] \in Range(s) BY <1>3, <1>4, <2>2 DEF Range
      <3>2. u[j] \in Range(t) BY Zenon, <1>3, <1>4, <1>5, <2>2 DEF Range
      <3>3. QED BY <3>1, <3>2
    <2>3. CASE i \notin 1..L /\ j \in 1..L
      <3>1. u[j] \in Range(s) BY <1>3, <1>4, <2>3 DEF Range
      <3>2. u[i] \in Range(t) BY <1>3, <1>4, <1>5, <2>3 DEF Range
      <3>3. QED BY <3>1, <3>2
    <2>4. CASE i \notin 1..L /\ j \notin 1..L
      <3>1. i - L \in 1..M /\ j - L \in 1..M /\ t[i - L] = t[j - L]
        BY <1>3, <1>5, <2>4
      <3>2. i - L = j - L BY <1>4, <3>1 DEF Distinct
      <3>3. QED BY <1>4, <3>2
    <2>5. QED BY <2>1, <2>2, <2>3, <2>4
  <1>7. Range(u) \subseteq Range(s) \cup Range(t)
    BY Zenon, <1>2, <1>3, <1>4, <1>5 DEF Range
  <1>8. ASSUME NEW i \in 1..L PROVE s[i] \in Range(u)
    <2>1. i \in 1..(L + M) BY <1>4
    <2>2. QED BY <1>2, <1>3, <2>1 DEF Range
  <1>9. ASSUME NEW i \in 1..M PROVE t[i] \in Range(u)
    <2>1. i + L \in (L + 1)..(L + M) /\ i + L \in 1..(L + M) /\ (i + L) - L = i
      BY <1>4
    <2>2. QED BY <1>2, <1>3, <2>1 DEF Range
  <1>10. Range(s) \cup Range(t) \subseteq Range(u) BY <1>4, <1>8, <1>9 DEF Range
  <1>11. QED BY <1>6, <1>7, <1>10 DEF u

-----------------------------------------------------------------------------
(* The places.                                                             *)

\* The kinds of places.
LEMMA PlaceKinds ==
  /\ <<"global", 0>> \in Places
  /\ \A w \in Workers : /\ <<"slot", w>> \in Places
                        /\ <<"queue", w>> \in Places
                        /\ <<"inbox", w>> \in Places
  /\ \A th \in Threads : <<"rest", th>> \in Places /\ <<"hand", th>> \in Places
  /\ \A p \in Places :
       \/ p = <<"global", 0>>
       \/ \E w \in Workers : \/ p = <<"slot", w>>
                             \/ p = <<"queue", w>>
                             \/ p = <<"inbox", w>>
       \/ \E th \in Threads : p = <<"rest", th>> \/ p = <<"hand", th>>
  BY DEF Places

\* What is in each of them, in a state and in the next one.
LEMMA HeldAt ==
  /\ Contents[<<"global", 0>>] = global
  /\ \A w \in Workers : /\ Contents[<<"slot", w>>]
                             = IF lifo_slot[w] = NoTask THEN <<>> ELSE <<lifo_slot[w]>>
                        /\ Contents[<<"queue", w>>] = queue[w]
                        /\ Contents[<<"inbox", w>>] = inbox[w]
  /\ \A th \in Threads :
       /\ Contents[<<"rest", th>>] = rest[th]
       /\ Contents[<<"hand", th>>]
            = IF \/ task[th] = NoTask
                 \/ pc[th] = "clear_lifo" /\ lifo_slot[th] = task[th]
              THEN <<>> ELSE <<task[th]>>
  <1>1. \A p \in Places : Contents[p] = Held(p) BY DEF Contents
  <1>2. QED BY Zenon, <1>1, PlaceKinds DEF Held, InSlot, InHand

\* The same in the next state.
LEMMA HeldAtNext ==
  /\ Contents'[<<"global", 0>>] = global'
  /\ \A w \in Workers : /\ Contents'[<<"slot", w>>]
                             = IF lifo_slot'[w] = NoTask THEN <<>> ELSE <<lifo_slot'[w]>>
                        /\ Contents'[<<"queue", w>>] = queue'[w]
                        /\ Contents'[<<"inbox", w>>] = inbox'[w]
  /\ \A th \in Threads :
       /\ Contents'[<<"rest", th>>] = rest'[th]
       /\ Contents'[<<"hand", th>>]
            = IF \/ task'[th] = NoTask
                 \/ pc'[th] = "clear_lifo" /\ lifo_slot'[th] = task'[th]
              THEN <<>> ELSE <<task'[th]>>
  <1>1. \A p \in Places : Contents'[p] = Held(p)' BY DEF Contents, Places
  <1>2. QED BY Zenon, <1>1, PlaceKinds DEF Held, InSlot, InHand

\* What a thread has in its hand, in a state and in the next one.
LEMMA HandIs ==
  /\ Hands /\ Own => \A th \in Threads :
       Contents[<<"hand", th>>] = IF pc[th] \in Carrying \ {"clear_lifo"}
                                  THEN <<task[th]>> ELSE <<>>
  /\ Hands' /\ Own' => \A th \in Threads :
       Contents'[<<"hand", th>>] = IF pc'[th] \in Carrying \ {"clear_lifo"}
                                   THEN <<task'[th]>> ELSE <<>>
  BY Zenon, HeldAt, HeldAtNext DEF Hands, Own

\* The invariant is the property.
LEMMA OneIsProperty == One <=> EveryTaskInOnePlace
  <1>1. \A p \in Places : Contents[p] = Held(p) BY DEF Contents
  <1>2. ASSUME One PROVE EveryTaskInOnePlace
    <2>1. ASSUME NEW p \in Places, NEW q \in Places,
                 NEW i \in DOMAIN Held(p), NEW j \in DOMAIN Held(q),
                 Held(p)[i] = Held(q)[j]
          PROVE  p = q /\ i = j
      <3>1. Held(p)[i] \in Range(Held(p)) /\ Held(q)[j] \in Range(Held(q))
        BY DEF Range
      <3>2. p = q BY <1>1, <1>2, <2>1, <3>1 DEF One, InOnePlace
      <3>3. QED BY <1>1, <1>2, <2>1, <3>2 DEF One, InOnePlace, Distinct
    <2>2. UNION {Range(Held(p)) : p \in Places} = Pending
      BY <1>1, <1>2 DEF One, InOnePlace
    <2>3. QED BY <2>1, <2>2 DEF EveryTaskInOnePlace, Pending
  <1>3. ASSUME EveryTaskInOnePlace PROVE One
    BY <1>1, <1>3 DEF One, InOnePlace, EveryTaskInOnePlace, Distinct, Range, Pending
  <1>4. QED BY <1>2, <1>3

\* Tasks move within D, enter it or leave it.
LEMMA Moved ==
  ASSUME NEW S, NEW D, D \subseteq S, NEW H, NEW G, NEW P, NEW Q, NEW X,
         InOnePlace(H, S, P), InOnePlace(G, D, X),
         \A p \in S \ D : G[p] = H[p],
         \A k \in X : k \in P => \E p \in D : k \in Range(H[p]),
         \A k : k \in Q <=> \/ k \in X
                            \/ k \in P /\ \A p \in D : k \notin Range(H[p])
  PROVE  InOnePlace(G, S, Q)
  <1>1. \A p \in S : Distinct(G[p]) BY DEF InOnePlace
  <1>2. ASSUME NEW p \in D, NEW q \in S \ D, NEW k,
               k \in Range(G[p]), k \in Range(G[q])
        PROVE  FALSE
    <2>1. k \in X BY <1>2 DEF InOnePlace
    <2>2. k \in Range(H[q]) BY <1>2
    <2>3. k \in P BY <2>2 DEF InOnePlace
    <2>4. PICK r \in D : k \in Range(H[r]) BY <2>1, <2>3
    <2>5. r # q /\ r \in S /\ q \in S OBVIOUS
    <2>6. QED BY <2>2, <2>4, <2>5 DEF InOnePlace
  <1>3. ASSUME NEW p \in S, NEW q \in S, p # q
        PROVE  Range(G[p]) \cap Range(G[q]) = {}
    <2>1. CASE p \in D /\ q \in D BY <1>3, <2>1 DEF InOnePlace
    <2>2. CASE p \in D /\ q \notin D BY <1>2, <2>2
    <2>3. CASE p \notin D /\ q \in D BY <1>2, <2>3
    <2>4. CASE p \notin D /\ q \notin D BY <1>3, <2>4 DEF InOnePlace
    <2>5. QED BY <2>1, <2>2, <2>3, <2>4
  <1>4. ASSUME NEW k PROVE k \in Q <=> \E p \in S : k \in Range(G[p])
    <2>1. ASSUME k \in Q PROVE \E p \in S : k \in Range(G[p])
      <3>1. CASE k \in X BY Zenon, <3>1 DEF InOnePlace
      <3>2. CASE k \in P /\ \A p \in D : k \notin Range(H[p])
        <4>1. PICK p \in S : k \in Range(H[p]) BY <3>2 DEF InOnePlace
        <4>2. p \in S \ D BY <3>2, <4>1
        <4>3. QED BY <4>1, <4>2
      <3>3. QED BY <2>1, <3>1, <3>2
    <2>2. ASSUME NEW p \in S, k \in Range(G[p]) PROVE k \in Q
      <3>1. CASE p \in D
        <4>1. k \in X BY <2>2, <3>1 DEF InOnePlace
        <4>2. QED BY <4>1
      <3>2. CASE p \notin D
        <4>1. k \in Range(H[p]) BY <2>2, <3>2
        <4>2. k \in P BY Zenon, <4>1 DEF InOnePlace
        <4>3. \A q \in D : k \notin Range(H[q]) BY <3>2, <4>1 DEF InOnePlace
        <4>4. QED BY <4>2, <4>3
      <3>3. QED BY <3>1, <3>2
    <2>3. QED BY <2>1, <2>2
  <1>5. QED BY Zenon, <1>1, <1>3, <1>4 DEF InOnePlace

\* Tasks move within D.
LEMMA MovedWithin ==
  ASSUME One, NEW D, D \subseteq Places, NEW X, InOnePlace(Contents', D, X),
         \A p \in Places \ D : Contents'[p] = Contents[p],
         \A k : k \in X <=> \E p \in D : k \in Range(Contents[p]),
         status' = status
  PROVE  One'
  <1> DEFINE G == Contents'
             H == Contents
             P == Pending
  <1>1. InOnePlace(H, Places, P) BY Zenon DEF One
  <1>2. \A k \in X : k \in P BY Zenon, <1>1 DEF InOnePlace
  <1>3. /\ InOnePlace(G, D, X)
        /\ \A p \in Places \ D : G[p] = H[p]
        /\ \A k : k \in X <=> \E p \in D : k \in Range(H[p])
    BY Zenon
  <1> HIDE DEF G, H, P
  <1>4. \A k \in X : k \in P => \E p \in D : k \in Range(H[p]) BY Zenon, <1>3
  <1>5. \A k : k \in P <=> \/ k \in X
                           \/ k \in P /\ \A p \in D : k \notin Range(H[p])
    BY Zenon, <1>2, <1>3
  <1>6. InOnePlace(G, Places, P) BY SMTT(30), <1>1, <1>3, <1>4, <1>5, Moved
  <1>7. QED BY Zenon, <1>6 DEF G, P, One, Pending, Places

\* A step that moves tasks between two places.
LEMMA MovedTwo ==
  ASSUME One, NEW a \in Places, NEW b \in Places, a # b,
         \A p \in Places \ {a, b} : Contents'[p] = Contents[p],
         status' = status,
         Distinct(Contents'[a]), Distinct(Contents'[b]),
         Range(Contents'[a]) \cap Range(Contents'[b]) = {},
         Range(Contents'[a]) \cup Range(Contents'[b])
           = Range(Contents[a]) \cup Range(Contents[b])
  PROVE  One'
  <1> DEFINE D == {a, b}
             X == Range(Contents'[a]) \cup Range(Contents'[b])
             G == Contents'
  <1>1. D \subseteq Places BY Zenon
  <1>2. InOnePlace(G, D, X)
    <2>1. \A p \in D : Distinct(G[p]) BY Zenon
    <2>2. \A p, q \in D : p # q => Range(G[p]) \cap Range(G[q]) = {} OBVIOUS
    <2>3. \A k : k \in X <=> \E p \in D : k \in Range(G[p]) BY Zenon
    <2>4. QED BY Zenon, <2>1, <2>2, <2>3 DEF InOnePlace
  <1>3. \A k : k \in X <=> \E p \in D : k \in Range(Contents[p]) BY Zenon
  <1>4. \A p \in Places \ D : Contents'[p] = Contents[p] BY Zenon
  <1> HIDE DEF D, X
  <1>5. QED BY Zenon, <1>1, <1>2, <1>3, <1>4, MovedWithin

\* A step that moves tasks between three places.
LEMMA MovedThree ==
  ASSUME One, NEW a \in Places, NEW b \in Places, NEW c \in Places,
         a # b, a # c, b # c,
         \A p \in Places \ {a, b, c} : Contents'[p] = Contents[p],
         status' = status,
         Distinct(Contents'[a]), Distinct(Contents'[b]), Distinct(Contents'[c]),
         Range(Contents'[a]) \cap Range(Contents'[b]) = {},
         Range(Contents'[a]) \cap Range(Contents'[c]) = {},
         Range(Contents'[b]) \cap Range(Contents'[c]) = {},
         Range(Contents'[a]) \cup Range(Contents'[b]) \cup Range(Contents'[c])
           = Range(Contents[a]) \cup Range(Contents[b]) \cup Range(Contents[c])
  PROVE  One'
  <1> DEFINE D == {a, b, c}
             X == Range(Contents'[a]) \cup Range(Contents'[b]) \cup Range(Contents'[c])
             G == Contents'
  <1>1. D \subseteq Places BY Zenon
  <1>2. InOnePlace(G, D, X)
    <2>1. \A p \in D : Distinct(G[p]) BY Zenon
    <2>2. \A p, q \in D : p # q => Range(G[p]) \cap Range(G[q]) = {} OBVIOUS
    <2>3. \A k : k \in X <=> \E p \in D : k \in Range(G[p]) BY Zenon
    <2>4. QED BY Zenon, <2>1, <2>2, <2>3 DEF InOnePlace
  <1>3. \A k : k \in X <=> \E p \in D : k \in Range(Contents[p]) BY Zenon
  <1>4. \A p \in Places \ D : Contents'[p] = Contents[p] BY Zenon
  <1> HIDE DEF D, X
  <1>5. QED BY Zenon, <1>1, <1>2, <1>3, <1>4, MovedWithin

\* A step that changes what no place holds.
LEMMA MovedNothing ==
  ASSUME One, \A p \in Places : Contents'[p] = Contents[p], status' = status
  PROVE  One'
  <1>1. InOnePlace(Contents', Places, Pending) BY DEF One, InOnePlace
  <1>2. QED BY Zenon, <1>1 DEF One, Pending, Places

\* A step that schedules a task.
LEMMA MovedIn ==
  ASSUME One, NEW a \in Places, NEW k \in Tasks,
         \A p \in Places \ {a} : Contents'[p] = Contents[p],
         Contents[a] = <<>>, Contents'[a] = <<k>>,
         k \notin Pending, Pending' = Pending \cup {k}
  PROVE  One'
  <1> DEFINE G == Contents'
             H == Contents
  <1>1. InOnePlace(H, Places, Pending) BY DEF One
  <1>2. InOnePlace(G, {a}, {k}) BY Zenon, Singles DEF InOnePlace
  <1>3. \A j : \A p \in {a} : j \notin Range(H[p]) BY Singles
  <1>4. \A p \in Places \ {a} : G[p] = H[p] OBVIOUS
  <1> HIDE DEF G, H
  <1>5. \A j : j \in Pending \cup {k}
           <=> \/ j \in {k}
               \/ j \in Pending /\ \A p \in {a} : j \notin Range(H[p])
    BY <1>3
  <1>6. InOnePlace(G, Places, Pending \cup {k})
    BY <1>1, <1>2, <1>4, <1>5, Moved
  <1>7. QED BY <1>6 DEF G, One, Places

\* A step that runs one.
LEMMA MovedOut ==
  ASSUME One, NEW a \in Places, NEW k,
         \A p \in Places \ {a} : Contents'[p] = Contents[p],
         Contents[a] = <<k>>, Contents'[a] = <<>>, Pending' = Pending \ {k}
  PROVE  One'
  <1> DEFINE G == Contents'
             H == Contents
  <1>1. InOnePlace(H, Places, Pending) BY DEF One
  <1>2. InOnePlace(G, {a}, {}) BY Singles DEF InOnePlace
  <1>3. \A j : \A p \in {a} : j \in Range(H[p]) <=> j = k
    <2>1. Range(H[a]) = {k} BY Zenon, Singles
    <2>2. QED BY Zenon, <2>1
  <1>4. \A p \in Places \ {a} : G[p] = H[p] OBVIOUS
  <1> HIDE DEF G, H
  <1>5. \A j : j \in Pending \ {k}
           <=> \/ j \in {}
               \/ j \in Pending /\ \A p \in {a} : j \notin Range(H[p])
    BY <1>3
  <1>6. InOnePlace(G, Places, Pending \ {k})
    BY <1>1, <1>2, <1>4, <1>5, Moved
  <1>7. QED BY Zenon, <1>6 DEF G, One, Places

\* A step of thread th leaves the other threads alone, and with them what is
\* outside D.
LEMMA Frame ==
  ASSUME Own, NEW th \in Threads, NEW D,
         \A x \in Threads : x # th => /\ pc'[x] = pc[x]
                                      /\ task'[x] = task[x]
                                      /\ rest'[x] = rest[x],
         \A w \in Workers : w # th => lifo_slot'[w] = lifo_slot[w],
         <<"global", 0>> \in D \/ global' = global,
         \A w \in Workers : <<"queue", w>> \in D \/ queue'[w] = queue[w],
         \A w \in Workers : <<"inbox", w>> \in D \/ inbox'[w] = inbox[w],
         <<"rest", th>> \in D \/ rest'[th] = rest[th],
         \/ <<"hand", th>> \in D
         \/ Contents'[<<"hand", th>>] = Contents[<<"hand", th>>],
         <<"slot", th>> \in D \/ th \notin Workers \/ lifo_slot'[th] = lifo_slot[th]
  PROVE  \A p \in Places \ D : Contents'[p] = Contents[p]
  <1>1. ASSUME NEW x \in Threads, x # th
        PROVE  Contents'[<<"hand", x>>] = Contents[<<"hand", x>>]
    <2>1. Contents[<<"hand", x>>]
            = IF \/ task[x] = NoTask
                 \/ pc[x] = "clear_lifo" /\ lifo_slot[x] = task[x]
              THEN <<>> ELSE <<task[x]>>
      BY Zenon, HeldAt
    <2>2. Contents'[<<"hand", x>>]
            = IF \/ task'[x] = NoTask
                 \/ pc'[x] = "clear_lifo" /\ lifo_slot'[x] = task'[x]
              THEN <<>> ELSE <<task'[x]>>
      BY Zenon, HeldAtNext
    <2>3. /\ task'[x] = task[x] /\ pc'[x] = pc[x]
          /\ pc[x] = "clear_lifo" => lifo_slot'[x] = lifo_slot[x]
      BY Zenon, <1>1 DEF Own
    <2>4. QED BY Zenon, <2>1, <2>2, <2>3
  <1>2. ASSUME NEW p \in Places \ D PROVE Contents'[p] = Contents[p]
    <2>1. CASE p = <<"global", 0>> BY Zenon, <2>1, HeldAt, HeldAtNext
    <2>2. ASSUME NEW w \in Workers, p = <<"slot", w>>
          PROVE  Contents'[p] = Contents[p]
      <3>1. lifo_slot'[w] = lifo_slot[w] BY Zenon, <2>2
      <3>2. Contents[<<"slot", w>>]
              = IF lifo_slot[w] = NoTask THEN <<>> ELSE <<lifo_slot[w]>>
        BY Zenon, HeldAt
      <3>3. Contents'[<<"slot", w>>]
              = IF lifo_slot'[w] = NoTask THEN <<>> ELSE <<lifo_slot'[w]>>
        BY Zenon, HeldAtNext
      <3>4. Contents'[<<"slot", w>>] = Contents[<<"slot", w>>]
        BY Zenon, <3>1, <3>2, <3>3
      <3>5. QED BY Zenon, <2>2, <3>4
    <2>3. ASSUME NEW w \in Workers, p = <<"queue", w>>
          PROVE  Contents'[p] = Contents[p]
      <3>1. queue'[w] = queue[w] BY <2>3
      <3>2. Contents'[<<"queue", w>>] = Contents[<<"queue", w>>]
        BY Zenon, <3>1, HeldAt, HeldAtNext
      <3>3. QED BY Zenon, <2>3, <3>2
    <2>4. ASSUME NEW w \in Workers, p = <<"inbox", w>>
          PROVE  Contents'[p] = Contents[p]
      <3>1. inbox'[w] = inbox[w] BY Zenon, <2>4
      <3>2. Contents'[<<"inbox", w>>] = Contents[<<"inbox", w>>]
        BY Zenon, <3>1, HeldAt, HeldAtNext
      <3>3. QED BY Zenon, <2>4, <3>2
    <2>5. ASSUME NEW x \in Threads, p = <<"rest", x>>
          PROVE  Contents'[p] = Contents[p]
      <3>1. rest'[x] = rest[x] BY <2>5
      <3>2. Contents'[<<"rest", x>>] = Contents[<<"rest", x>>]
        BY Zenon, <3>1, HeldAt, HeldAtNext
      <3>3. QED BY <2>5, <3>2
    <2>6. ASSUME NEW x \in Threads, p = <<"hand", x>>
          PROVE  Contents'[p] = Contents[p]
      BY <1>1, <2>6
    <2>7. QED BY Zenon, <2>1, <2>2, <2>3, <2>4, <2>5, <2>6, PlaceKinds
  <1>3. QED BY <1>2

\* What a step of thread th has to keep of Own.
LEMMA StepOwn ==
  ASSUME Base, Own, NEW th \in Threads, NEW l,
         pc' = [pc EXCEPT ![th] = l],
         \A x \in Threads : x # th => target'[x] = target[x] /\ task'[x] = task[x],
         \A w \in Workers : w # th => lifo_slot'[w] = lifo_slot[w],
         l \in {"owner_check", "owner_lifo", "owner_push", "offload"}
           => th \in Workers /\ target'[th] = th,
         l = "owner_lifo" => lifo_slot'[th] = NoTask,
         l = "clear_lifo" => th \in Workers /\ lifo_slot'[th] = task'[th]
  PROVE  Own'
  <1>1. pc'[th] = l /\ \A x \in Threads : x # th => pc'[x] = pc[x]
    BY Zenon DEF Base, TypeOK
  <1>2. Workers \subseteq Threads BY ThreadNumbers
  <1>3. QED BY <1>1, <1>2 DEF Own

-----------------------------------------------------------------------------
(* Every step keeps the tasks in one place.                                *)

Strong == Base /\ Own /\ One

\* Different places hold different tasks, and none of them twice.
LEMMA Apart ==
  ASSUME One, NEW a \in Places
  PROVE  /\ Distinct(Contents[a])
         /\ \A b \in Places : a # b => Range(Contents[a]) \cap Range(Contents[b]) = {}
         /\ \A k \in Range(Contents[a]) : k \in Pending
  BY DEF One, InOnePlace

\* A step that moves no task, of a thread that holds one before and after it,
\* or neither before nor after.
LEMMA PlainOne ==
  ASSUME Strong, Base', NEW th \in Threads, NEW l,
         pc' = [pc EXCEPT ![th] = l],
         UNCHANGED <<lifo_slot, queue, inbox, global, rest, task, status>>,
         \A x \in Threads : x # th => target'[x] = target[x],
         "clear_lifo" \notin {l, pc[th]},
         l \in {"owner_check", "owner_lifo", "owner_push", "offload"}
           => th \in Workers /\ target'[th] = th,
         l = "owner_lifo" => lifo_slot[th] = NoTask
  PROVE  Own' /\ One'
  <1>1. Own' BY Zenon, StepOwn DEF Strong
  <1>2. pc'[th] = l /\ \A x \in Threads : x # th => pc'[x] = pc[x]
    BY Zenon DEF Strong, Base, TypeOK
  <1>3. Contents'[<<"hand", th>>] = Contents[<<"hand", th>>]
    <2>1. Contents[<<"hand", th>>] = IF task[th] = NoTask THEN <<>> ELSE <<task[th]>>
      BY Zenon, HeldAt
    <2>2. Contents'[<<"hand", th>>] = IF task[th] = NoTask THEN <<>> ELSE <<task[th]>>
      BY Zenon, <1>2, HeldAtNext
    <2>3. QED BY Zenon, <2>1, <2>2
  <1>4. \A p \in Places \ {} : Contents'[p] = Contents[p]
    BY Zenon, <1>2, <1>3, Frame DEF Strong
  <1>5. One' BY <1>4, MovedNothing DEF Strong
  <1>6. QED BY <1>1, <1>5

\* A task is handed over.
LEMMA HandOne ==
  ASSUME Strong, Base', NEW th \in Threads, NEW k \in Tasks, NEW w, NEW l,
         l \in {"owner_check", "push_inbox", "push_global"},
         pc[th] = Ready(th), status[k] # "pending", Hand(th, k, w, l),
         l = "owner_check" => th \in Workers /\ w = th
  PROVE  Own' /\ One'
  <1>1. /\ task' = [task EXCEPT ![th] = k] /\ target' = [target EXCEPT ![th] = w]
        /\ status' = [status EXCEPT ![k] = "pending"] /\ pc' = [pc EXCEPT ![th] = l]
        /\ UNCHANGED <<lifo_slot, queue, inbox, global, rest>>
    BY DEF Hand, Goto
  <1>2. /\ pc'[th] = l /\ task'[th] = k /\ target'[th] = w
        /\ \A x \in Threads : x # th => /\ pc'[x] = pc[x]
                                        /\ task'[x] = task[x]
                                        /\ target'[x] = target[x]
    BY Zenon, <1>1 DEF Strong, Base, TypeOK
  <1>3. Own'
    BY Zenon, <1>1, <1>2, StepOwn DEF Strong
  <1>4. pc[th] \in {"run", "ready"} BY DEF Ready
  <1> DEFINE a == <<"hand", th>>
  <1>5. Contents[a] = <<>> BY Zenon, <1>4, HandIs DEF Strong, Base, Carrying
  <1>6. Contents'[a] = <<k>> BY Zenon, <1>2, <1>3, HandIs DEF Base, Carrying
  <1>7. \A p \in Places \ {a} : Contents'[p] = Contents[p]
    <2>1. <<"hand", th>> \in {a} /\ Own BY DEF Strong
    <2>2. UNCHANGED <<lifo_slot, queue, inbox, global, rest>> BY <1>1
    <2>3. QED BY Zenon, <1>2, <2>1, <2>2, Frame
  <1>8. k \notin Pending /\ Pending' = Pending \cup {k}
    <2>1. \A j \in Tasks : status'[j] = IF j = k THEN "pending" ELSE status[j]
      BY Zenon, <1>1 DEF Strong, Base, TypeOK
    <2>2. QED BY Zenon, <2>1 DEF Pending
  <1>9. a \in Places BY Zenon, PlaceKinds
  <1>10. One' BY Zenon, <1>5, <1>6, <1>7, <1>8, <1>9, MovedIn DEF Strong
  <1>11. QED BY <1>3, <1>10

\* The three ways into schedule.
LEMMA ScheduleOne ==
  ASSUME NoIOThreads, Strong, Base', NEW th \in Threads, Schedule(th)
  PROVE  Own' /\ One'
  <1>1. /\ Crew \subseteq Workers
        /\ OnExecutor(th) => th \in Workers /\ g_thread_id(th) = th
    <2>1. Crew \subseteq Workers BY Zenon, CrewType DEF Strong, Base, TypeOK
    <2>2. OnExecutor(th) => th < NumWorkers
      BY ConstantsOK DEF OnExecutor, NoIOThreads
    <2>3. QED BY <2>1, <2>2, ThreadNumbers DEF g_thread_id
  <1>2. PICK k \in Tasks : \/ ScheduleHere(th, k)
                           \/ ScheduleP2C(th, k)
                           \/ \E thread_id \in 0..load.nthreads : ScheduleOn(th, k, thread_id)
    BY DEF Schedule
  <1>3. pc[th] = Ready(th) /\ status[k] # "pending"
    BY Zenon, <1>2 DEF ScheduleHere, ScheduleP2C, ScheduleOn, Schedulable
  <1>4. CASE ScheduleHere(th, k)
    BY <1>1, <1>3, <1>4, HandOne DEF ScheduleHere
  <1>5. CASE ScheduleP2C(th, k)
    BY <1>3, <1>5, HandOne DEF ScheduleP2C
  <1>6. CASE \E thread_id \in 0..load.nthreads : ScheduleOn(th, k, thread_id)
    <2>1. PICK i \in 0..load.nthreads : ScheduleOn(th, k, i) BY <1>6
    <2>2. CASE Hand(th, k, i, "push_global") \/ Hand(th, k, i, "push_inbox")
      BY <1>3, <2>2, HandOne
    <2>3. CASE Hand(th, k, i, "owner_check") /\ OnExecutor(th) /\ g_thread_id(th) = i
      BY <1>1, <1>3, <2>3, HandOne
    <2>4. QED BY <2>1, <2>2, <2>3 DEF ScheduleOn
  <1>7. QED BY <1>2, <1>4, <1>5, <1>6

\* The steps of schedule that leave the task in the caller's hand, and those
\* after it has left it.
LEMMA SchedulePlainOne ==
  ASSUME Strong, Base', NEW th \in Threads,
         \/ OwnerCheck(th) \/ OwnerPushFull(th) \/ OffloadNothing(th)
         \/ WakeAny(th) \/ Unpark(th)
  PROVE  Own' /\ One'
  <1>1. UNCHANGED <<lifo_slot, queue, inbox, global, rest, status>>
    BY Zenon DEF OwnerCheck, OwnerPushFull, OffloadNothing, WakeAny, Unpark, local
  <1>2. CASE OwnerCheck(th)
    <2>1. th \in Workers /\ target[th] = th
      BY Zenon, <1>2 DEF OwnerCheck, Strong, Own
    <2>2. QED
      BY Zenon, <1>1, <1>2, <2>1, PlainOne DEF OwnerCheck, Goto, local
  <1>3. CASE OwnerPushFull(th) \/ OffloadNothing(th)
    <2>1. th \in Workers /\ target[th] = th
      BY Zenon, <1>3 DEF OwnerPushFull, OffloadNothing, Strong, Own
    <2>2. QED
      BY Zenon, <1>1, <1>3, <2>1, PlainOne DEF OwnerPushFull, OffloadNothing, Goto, local
  <1>4. CASE WakeAny(th) \/ Unpark(th)
    <2>1. pc[th] \in {"wake_any", "unpark"} /\ Return(th) BY Zenon, <1>4 DEF WakeAny, Unpark
    <2>2. task[th] = NoTask BY Zenon, <2>1 DEF Strong, Base, Hands, Carrying
    <2>3. task' = task BY <2>1, <2>2 DEF Return, Strong, Base, TypeOK
    <2>4. Ready(th) \in {"run", "ready"} BY DEF Ready
    <2>5. \A x \in Threads : x # th => target'[x] = target[x]
      BY Zenon, <2>1 DEF Return, Strong, Base, TypeOK
    <2>6. pc' = [pc EXCEPT ![th] = Ready(th)] BY <2>1 DEF Return, Goto
    <2>7. QED BY Zenon, <1>1, <2>1, <2>3, <2>4, <2>5, <2>6, PlainOne
  <1>5. QED BY <1>2, <1>3, <1>4

\* The task goes to the caller's own LIFO slot, which is empty.
LEMMA OwnerLifoOne ==
  ASSUME Strong, Base', NEW th \in Threads, OwnerLifo(th)
  PROVE  Own' /\ One'
  <1>1. /\ th \in Workers /\ target[th] = th /\ lifo_slot[th] = NoTask
        /\ pc[th] = "owner_lifo" /\ task[th] \in Tasks /\ task[th] # NoTask
    BY Zenon DEF OwnerLifo, Strong, Own, Base, Hands, Carrying, TypeOK
  <1>2. /\ lifo_slot' = [lifo_slot EXCEPT ![th] = task[th]]
        /\ pc' = [pc EXCEPT ![th] = Ready(th)]
        /\ task' = [task EXCEPT ![th] = NoTask] /\ target' = [target EXCEPT ![th] = 0]
        /\ UNCHANGED <<queue, inbox, global, rest, status>>
    BY <1>1 DEF OwnerLifo, Return, Goto
  <1>3. /\ lifo_slot'[th] = task[th] /\ pc'[th] = Ready(th) /\ task'[th] = NoTask
        /\ \A x \in Threads : x # th => /\ pc'[x] = pc[x] /\ task'[x] = task[x]
                                        /\ target'[x] = target[x]
        /\ \A x \in Workers : x # th => lifo_slot'[x] = lifo_slot[x]
    BY <1>1, <1>2 DEF Strong, Base, TypeOK
  <1>4. Ready(th) \in {"run", "ready"} BY DEF Ready
  <1>5. Own' BY Zenon, <1>1, <1>2, <1>3, <1>4, StepOwn DEF Strong
  <1> DEFINE a == <<"hand", th>>
             b == <<"slot", th>>
  <1>6. Contents[a] = <<task[th]>> BY Zenon, <1>1, HandIs DEF Strong, Base, Carrying
  <1>7. Contents[b] = <<>> BY Zenon, <1>1, HeldAt
  <1>8. Contents'[a] = <<>> BY Zenon, <1>3, <1>4, <1>5, HandIs DEF Base, Carrying
  <1>9. Contents'[b] = <<task[th]>> BY Zenon, <1>1, <1>3, HeldAtNext
  <1>10. \A p \in Places \ {a, b} : Contents'[p] = Contents[p]
    <2>1. a \in {a, b} /\ b \in {a, b} /\ Own BY Zenon DEF Strong
    <2>2. UNCHANGED <<queue, inbox, global, rest>> BY Zenon, <1>2
    <2>3. QED BY Zenon, <1>3, <2>1, <2>2, Frame
  <1>11. a \in Places /\ b \in Places /\ a # b BY Zenon, <1>1, PlaceKinds
  <1> HIDE DEF a, b
  <1>12. One'
    BY Zenon, <1>2, <1>6, <1>7, <1>8, <1>9, <1>10, <1>11, Singles, MovedTwo DEF Strong
  <1>13. QED BY <1>5, <1>12

\* The task goes to the caller's own queue.
LEMMA OwnerPushOne ==
  ASSUME Strong, Base', NEW th \in Threads, OwnerPush(th)
  PROVE  Own' /\ One'
  <1>1. /\ th \in Workers /\ target[th] = th
        /\ pc[th] = "owner_push" /\ task[th] \in Tasks
        /\ queue[th] \in Seq(Tasks)
    <2>1. pc[th] = "owner_push" BY Zenon DEF OwnerPush
    <2>2. th \in Workers /\ target[th] = th BY Zenon, <2>1 DEF Strong, Own
    <2>3. task[th] # NoTask BY Zenon, <2>1 DEF Strong, Base, Hands, Carrying
    <2>4. task[th] \in Tasks \cup {NoTask} /\ queue[th] \in Seq(Tasks)
      BY Zenon, <2>2 DEF Strong, Base, TypeOK
    <2>5. QED BY Zenon, <2>1, <2>2, <2>3, <2>4
  <1>2. /\ queue' = [queue EXCEPT ![th] = Append(@, task[th])]
        /\ pc' = [pc EXCEPT ![th] = Ready(th)]
        /\ task' = [task EXCEPT ![th] = NoTask] /\ target' = [target EXCEPT ![th] = 0]
        /\ UNCHANGED <<lifo_slot, inbox, global, rest, status>>
    BY <1>1 DEF OwnerPush, Return, Goto
  <1>3. /\ queue'[th] = Append(queue[th], task[th])
        /\ pc'[th] = Ready(th) /\ task'[th] = NoTask
        /\ \A x \in Threads : x # th => /\ pc'[x] = pc[x] /\ task'[x] = task[x]
                                        /\ target'[x] = target[x]
        /\ \A x \in Workers : x # th => queue'[x] = queue[x]
    BY <1>1, <1>2 DEF Strong, Base, TypeOK
  <1>4. Ready(th) \in {"run", "ready"} BY DEF Ready
  <1>5. Own' BY Zenon, <1>1, <1>2, <1>3, <1>4, StepOwn DEF Strong
  <1> DEFINE a == <<"hand", th>>
             b == <<"queue", th>>
  <1>6. Contents[a] = <<task[th]>> BY Zenon, <1>1, HandIs DEF Strong, Base, Carrying
  <1>7. Contents[b] = queue[th] BY Zenon, <1>1, HeldAt
  <1>8. Contents'[a] = <<>> BY Zenon, <1>3, <1>4, <1>5, HandIs DEF Base, Carrying
  <1>9. Contents'[b] = Append(queue[th], task[th]) BY Zenon, <1>1, <1>3, HeldAtNext
  <1>10. \A p \in Places \ {a, b} : Contents'[p] = Contents[p]
    <2>1. a \in {a, b} /\ b \in {a, b} /\ Own BY Zenon DEF Strong
    <2>2. UNCHANGED <<lifo_slot, inbox, global, rest>> BY Zenon, <1>2
    <2>3. \A x \in Workers : <<"queue", x>> \in {a, b} \/ queue'[x] = queue[x]
      BY Zenon, <1>3
    <2>4. QED BY Zenon, <1>3, <2>1, <2>2, <2>3, Frame
  <1>11. a \in Places /\ b \in Places /\ a # b BY Zenon, <1>1, PlaceKinds
  <1> HIDE DEF a, b
  <1>12. Distinct(queue[th]) /\ task[th] \notin Range(queue[th])
    BY Zenon, <1>6, <1>7, <1>11, Apart, Singles DEF Strong
  <1>13. /\ Distinct(Contents'[b])
         /\ Range(Contents'[b]) = Range(queue[th]) \cup {task[th]}
    BY <1>1, <1>9, <1>12, AppendOne
  <1>14. One'
    BY Zenon, <1>2, <1>6, <1>7, <1>8, <1>10, <1>11, <1>13, Singles, MovedTwo DEF Strong
  <1>15. QED BY <1>5, <1>14

\* Half of the caller's queue goes to the batch for the global queue.
LEMMA OffloadOne ==
  ASSUME Strong, Base', NEW th \in Threads, Offload(th)
  PROVE  Own' /\ One'
  <1> DEFINE q == queue[th]
             count == TakeHalf(Len(q))
  <1>1. /\ th \in Workers /\ target[th] = th /\ pc[th] = "offload"
        /\ q \in Seq(Tasks) /\ rest[th] = <<>>
    BY Zenon DEF Offload, Strong, Own, Base, Hands, TypeOK
  <1>2. /\ count > 0
        /\ rest' = [rest EXCEPT ![th] = SubSeq(q, 1, count)]
        /\ queue' = [queue EXCEPT ![th] = SubSeq(q, count + 1, Len(q))]
        /\ pc' = [pc EXCEPT ![th] = "push_global"]
        /\ UNCHANGED <<lifo_slot, inbox, global, task, target, status>>
    BY Zenon, <1>1 DEF Offload, TakeTop, Goto
  <1>3. q # <<>> /\ Len(q) \in Nat \ {0} /\ count \in 1..Len(q)
    BY Zenon, <1>1, <1>2, TakeHalfSome
  <1>4. /\ queue'[th] = SubSeq(q, count + 1, Len(q)) /\ pc'[th] = "push_global"
        /\ rest'[th] = SubSeq(q, 1, count)
        /\ \A x \in Threads : x # th => pc'[x] = pc[x] /\ rest'[x] = rest[x]
        /\ \A x \in Workers : x # th => queue'[x] = queue[x]
    BY Zenon, <1>1, <1>2 DEF Strong, Base, TypeOK
  <1> HIDE DEF count
  <1>5. Own' BY Zenon, <1>2, StepOwn DEF Strong
  <1> DEFINE a == <<"rest", th>>
             b == <<"queue", th>>
             u == SubSeq(q, 1, count)
             v == SubSeq(q, count + 1, Len(q))
  <1>6. Contents[a] = <<>> /\ Contents[b] = q BY Zenon, <1>1, HeldAt
  <1>7. Contents'[a] = u /\ Contents'[b] = v BY Zenon, <1>1, <1>4, HeldAtNext
  <1>8. Contents'[<<"hand", th>>] = Contents[<<"hand", th>>]
    BY Zenon, <1>1, <1>2, <1>4, <1>5, HandIs DEF Strong, Base, Carrying
  <1>9. \A p \in Places \ {a, b} : Contents'[p] = Contents[p]
    <2>1. a \in {a, b} /\ b \in {a, b} /\ Own BY Zenon DEF Strong
    <2>2. UNCHANGED <<lifo_slot, inbox, global, task>> BY Zenon, <1>2
    <2>3. \A x \in Workers : <<"queue", x>> \in {a, b} \/ queue'[x] = queue[x]
      BY Zenon, <1>4
    <2>4. QED BY Zenon, <1>4, <1>8, <2>1, <2>2, <2>3, Frame
  <1>10. a \in Places /\ b \in Places /\ a # b BY Zenon, <1>1, PlaceKinds
  <1> HIDE DEF a, b
  <1>11. Distinct(q) BY Zenon, <1>6, <1>10, Apart DEF Strong
  <1>12. /\ Distinct(u) /\ Range(u) = {q[i] : i \in 1..count}
         /\ Distinct(v) /\ Range(v) = {q[i] : i \in (count + 1)..Len(q)}
    <2>1. /\ 1 \in 1..(Len(q) + 1) /\ count + 1 \in 1..(Len(q) + 1)
          /\ count \in 0..Len(q) /\ Len(q) \in 0..Len(q)
      BY <1>3
    <2>2. QED BY Zenon, <1>1, <1>11, <2>1, Section
  <1>13. /\ Range(q) = {q[i] : i \in 1..Len(q)}
         /\ \A i, j \in 1..Len(q) : q[i] = q[j] => i = j
    <2>1. q \in Seq(Tasks) BY <1>1
    <2> HIDE DEF q
    <2>2. QED BY <1>11, <2>1, Whole
  <1> HIDE DEF q, u, v
  <1>14. Range(u) \cap Range(v) = {}
    <2>1. \A i \in 1..count, j \in (count + 1)..Len(q) :
            i \in 1..Len(q) /\ j \in 1..Len(q) /\ i # j
      BY <1>3
    <2>2. QED BY Zenon, <1>12, <1>13, <2>1
  <1>15. Range(u) \cup Range(v) = Range(q)
    <2>1. /\ \A i \in 1..Len(q) : i \in 1..count \/ i \in (count + 1)..Len(q)
          /\ \A i \in 1..count : i \in 1..Len(q)
          /\ \A i \in (count + 1)..Len(q) : i \in 1..Len(q)
      BY <1>3
    <2>2. QED BY Zenon, <1>12, <1>13, <2>1
  <1>16. One'
    BY Zenon, <1>2, <1>6, <1>7, <1>9, <1>10, <1>12, <1>14, <1>15, Singles, MovedTwo DEF Strong
  <1>17. QED BY <1>5, <1>16

\* The batch and the task go to the global queue.
LEMMA PushGlobalOne ==
  ASSUME Strong, Base', NEW th \in Threads, PushGlobal(th)
  PROVE  Own' /\ One'
  <1>1. /\ pc[th] = "push_global" /\ task[th] \in Tasks
        /\ rest[th] \in Seq(Tasks) /\ global \in Seq(Tasks)
    <2>1. pc[th] = "push_global" BY Zenon DEF PushGlobal
    <2>2. task[th] # NoTask BY Zenon, <2>1 DEF Strong, Base, Hands, Carrying
    <2>3. /\ task[th] \in Tasks \cup {NoTask}
          /\ rest[th] \in Seq(Tasks) /\ global \in Seq(Tasks)
      BY Zenon DEF Strong, Base, TypeOK
    <2>4. QED BY Zenon, <2>1, <2>2, <2>3
  <1>2. /\ global' = global \o rest[th] \o <<task[th]>>
        /\ rest' = [rest EXCEPT ![th] = <<>>] /\ task' = [task EXCEPT ![th] = NoTask]
        /\ pc' = [pc EXCEPT ![th] = "wake_any"]
        /\ UNCHANGED <<lifo_slot, queue, inbox, target, status>>
    BY DEF PushGlobal, Goto
  <1>3. /\ pc'[th] = "wake_any" /\ task'[th] = NoTask /\ rest'[th] = <<>>
        /\ \A x \in Threads : x # th => /\ pc'[x] = pc[x] /\ task'[x] = task[x]
                                        /\ rest'[x] = rest[x]
    BY Zenon, <1>2 DEF Strong, Base, TypeOK
  <1>4. Own' BY Zenon, <1>2, <1>3, StepOwn DEF Strong
  <1> DEFINE a == <<"hand", th>>
             b == <<"rest", th>>
             c == <<"global", 0>>
             u == global \o rest[th]
  <1>5. Contents[a] = <<task[th]>> BY Zenon, <1>1, HandIs DEF Strong, Base, Carrying
  <1>6. Contents[b] = rest[th] /\ Contents[c] = global BY Zenon, HeldAt
  <1>7. Contents'[a] = <<>> BY Zenon, <1>3, <1>4, HandIs DEF Base, Carrying
  <1>8. Contents'[b] = <<>> /\ Contents'[c] = u \o <<task[th]>>
    BY Zenon, <1>2, <1>3, HeldAtNext
  <1>9. \A p \in Places \ {a, b, c} : Contents'[p] = Contents[p]
    <2>1. a \in {a, b, c} /\ b \in {a, b, c} /\ c \in {a, b, c} /\ Own BY DEF Strong
    <2>2. UNCHANGED <<lifo_slot, queue, inbox>> BY <1>2
    <2>3. QED BY Zenon, <1>3, <2>1, <2>2, Frame
  <1>10. /\ a \in Places /\ b \in Places /\ c \in Places
         /\ a # b /\ a # c /\ b # c
    BY PlaceKinds
  <1> HIDE DEF a, b, c
  <1>11. /\ Distinct(global) /\ Distinct(rest[th])
         /\ Range(global) \cap Range(rest[th]) = {}
         /\ task[th] \notin Range(global) \cup Range(rest[th])
    <2>1. /\ Distinct(global) /\ Distinct(rest[th])
          /\ Range(global) \cap Range(rest[th]) = {}
      BY Zenon, <1>6, <1>10, Apart DEF Strong
    <2>2. task[th] \in Range(Contents[a]) BY Zenon, <1>5, Singles
    <2>3. task[th] \notin Range(Contents[b]) /\ task[th] \notin Range(Contents[c])
      BY Zenon, <1>10, <2>2, Apart DEF Strong
    <2>4. QED BY Zenon, <1>6, <2>1, <2>3
  <1>12. Distinct(u) /\ Range(u) = Range(global) \cup Range(rest[th])
    BY <1>1, <1>11, Joining
  <1>13. u \in Seq(Tasks) BY <1>1
  <1> HIDE DEF u
  <1> DEFINE t == <<task[th]>>
  <1>14. /\ Distinct(t) /\ Range(t) = {task[th]} /\ t \in Seq(Tasks)
         /\ Contents'[c] = u \o t
    <2>1. Distinct(t) /\ Range(t) = {task[th]} BY Singles
    <2>2. t \in Seq(Tasks) BY <1>1
    <2>3. QED BY Zenon, <1>8, <2>1, <2>2
  <1> HIDE DEF t
  <1>15. Range(u) \cap Range(t) = {} BY Zenon, <1>11, <1>12, <1>14
  <1>16. /\ Distinct(Contents'[c])
         /\ Range(Contents'[c]) = Range(global) \cup Range(rest[th]) \cup {task[th]}
    BY <1>12, <1>13, <1>14, <1>15, Joining
  <1>17. /\ Range(Contents'[a]) = {} /\ Range(Contents'[b]) = {}
         /\ Distinct(Contents'[a]) /\ Distinct(Contents'[b])
         /\ Range(Contents[a]) = {task[th]}
    BY Zenon, <1>5, <1>7, <1>8, Singles
  <1>18. /\ Range(Contents'[a]) \cup Range(Contents'[b]) \cup Range(Contents'[c])
              = Range(Contents[a]) \cup Range(Contents[b]) \cup Range(Contents[c])
         /\ Range(Contents'[a]) \cap Range(Contents'[b]) = {}
         /\ Range(Contents'[a]) \cap Range(Contents'[c]) = {}
         /\ Range(Contents'[b]) \cap Range(Contents'[c]) = {}
    BY Zenon, <1>6, <1>16, <1>17
  <1>19. status' = status /\ One BY <1>2 DEF Strong
  <1>20. One' BY Zenon, <1>9, <1>10, <1>16, <1>17, <1>18, <1>19, MovedThree
  <1>21. QED BY <1>4, <1>20

\* The task goes to the inbox of a worker.
LEMMA PushInboxOne ==
  ASSUME Strong, Base', NEW th \in Threads, PushInbox(th)
  PROVE  Own' /\ One'
  <1> DEFINE w == target[th]
  <1>1. /\ pc[th] = "push_inbox" /\ task[th] \in Tasks
        /\ w \in Workers /\ inbox[w] \in Seq(Tasks)
    <2>1. pc[th] = "push_inbox" BY Zenon DEF PushInbox
    <2>2. task[th] # NoTask /\ w \in Workers
      BY Zenon, <2>1 DEF Strong, Base, Hands, Carrying, Aiming
    <2>3. task[th] \in Tasks \cup {NoTask} /\ inbox[w] \in Seq(Tasks)
      BY Zenon, <2>2 DEF Strong, Base, TypeOK
    <2>4. QED BY Zenon, <2>1, <2>2, <2>3
  <1>2. /\ inbox' = [inbox EXCEPT ![w] = <<task[th]>> \o @]
        /\ task' = [task EXCEPT ![th] = NoTask]
        /\ pc' = [pc EXCEPT ![th] = "unpark"]
        /\ UNCHANGED <<lifo_slot, queue, global, rest, target, status>>
    BY Zenon DEF PushInbox, Goto
  <1>3. /\ pc'[th] = "unpark" /\ task'[th] = NoTask
        /\ inbox'[w] = <<task[th]>> \o inbox[w]
        /\ \A x \in Threads : x # th => pc'[x] = pc[x] /\ task'[x] = task[x]
        /\ \A x \in Workers : x # w => inbox'[x] = inbox[x]
    BY Zenon, <1>1, <1>2 DEF Strong, Base, TypeOK
  <1>4. Own' BY Zenon, <1>2, <1>3, StepOwn DEF Strong
  <1> HIDE DEF w
  <1> DEFINE a == <<"hand", th>>
             b == <<"inbox", w>>
  <1>5. Contents[a] = <<task[th]>> BY Zenon, <1>1, HandIs DEF Strong, Base, Carrying
  <1>6. Contents[b] = inbox[w] BY Zenon, <1>1, HeldAt
  <1>7. Contents'[a] = <<>> BY Zenon, <1>3, <1>4, HandIs DEF Base, Carrying
  <1>8. Contents'[b] = <<task[th]>> \o inbox[w] BY Zenon, <1>1, <1>3, HeldAtNext
  <1>9. \A p \in Places \ {a, b} : Contents'[p] = Contents[p]
    <2>1. a \in {a, b} /\ b \in {a, b} /\ Own BY DEF Strong
    <2>2. UNCHANGED <<lifo_slot, queue, global, rest>> BY <1>2
    <2>3. \A x \in Workers : <<"inbox", x>> \in {a, b} \/ inbox'[x] = inbox[x] BY <1>3
    <2>4. QED BY Zenon, <1>3, <2>1, <2>2, <2>3, Frame
  <1>10. a \in Places /\ b \in Places /\ a # b BY Zenon, <1>1, PlaceKinds
  <1> HIDE DEF a, b
  <1>11. Distinct(inbox[w]) /\ task[th] \notin Range(inbox[w])
    BY Zenon, <1>5, <1>6, <1>10, Apart, Singles DEF Strong
  <1> DEFINE t == <<task[th]>>
  <1>12. /\ Distinct(t) /\ Range(t) = {task[th]} /\ t \in Seq(Tasks)
         /\ Contents'[b] = t \o inbox[w]
    BY <1>1, <1>8, Singles
  <1> HIDE DEF t
  <1>13. Range(t) \cap Range(inbox[w]) = {} BY <1>11, <1>12
  <1>14. /\ Distinct(Contents'[b])
         /\ Range(Contents'[b]) = {task[th]} \cup Range(inbox[w])
    BY <1>1, <1>11, <1>12, <1>13, Joining
  <1>15. /\ Range(Contents'[a]) = {} /\ Distinct(Contents'[a])
         /\ Range(Contents[a]) = {task[th]}
    BY Zenon, <1>5, <1>7, Singles
  <1>16. /\ Range(Contents'[a]) \cup Range(Contents'[b])
              = Range(Contents[a]) \cup Range(Contents[b])
         /\ Range(Contents'[a]) \cap Range(Contents'[b]) = {}
    BY Zenon, <1>6, <1>14, <1>15
  <1>17. status' = status /\ One BY <1>2 DEF Strong
  <1>18. One' BY Zenon, <1>9, <1>10, <1>14, <1>15, <1>16, <1>17, MovedTwo
  <1>19. QED BY <1>4, <1>18

\* A worker that takes a task into its empty hand from place b, which keeps
\* the others.
LEMMA TakenOne ==
  ASSUME Strong, Base', Own', NEW w \in Workers, NEW k, NEW b \in Places,
         b # <<"hand", w>>, pc[w] \notin Carrying \ {"clear_lifo"},
         pc'[w] \in Carrying \ {"clear_lifo"}, task'[w] = k,
         \A p \in Places \ {<<"hand", w>>, b} : Contents'[p] = Contents[p],
         status' = status, Distinct(Contents'[b]), k \notin Range(Contents'[b]),
         Range(Contents[b]) = Range(Contents'[b]) \cup {k}
  PROVE  One'
  <1> DEFINE a == <<"hand", w>>
  <1>1. w \in Threads BY Zenon, ThreadNumbers
  <1>2. a \in Places BY Zenon, <1>1, PlaceKinds
  <1>3. Contents[a] = <<>> BY Zenon, <1>1, HandIs DEF Strong, Base
  <1>4. Contents'[a] = <<k>> BY Zenon, <1>1, HandIs DEF Base
  <1>5. Range(Contents[a]) = {} /\ Range(Contents'[a]) = {k} /\ Distinct(Contents'[a])
    BY Zenon, <1>3, <1>4, Singles
  <1>6. b # a /\ \A p \in Places \ {a, b} : Contents'[p] = Contents[p] BY Zenon
  <1> HIDE DEF a
  <1>7. QED BY Zenon, <1>2, <1>5, <1>6, MovedTwo DEF Strong

\* The first task and the others.
LEMMA HeadApart ==
  ASSUME NEW s \in Seq(Tasks), s # <<>>, Distinct(s)
  PROVE  /\ Distinct(Tail(s)) /\ Head(s) \notin Range(Tail(s))
         /\ Range(s) = Range(Tail(s)) \cup {Head(s)}
  <1> DEFINE u == Tail(s)
             n == Len(s)
  <1>1. /\ n \in Nat \ {0} /\ Head(s) = s[1]
        /\ \A i \in 1..(n - 1) : u[i] = s[i + 1]
    BY HeadTail
  <1>2. DOMAIN u = 1..(n - 1) OBVIOUS
  <1>3. /\ Range(s) = {s[i] : i \in 1..n}
        /\ \A i, j \in 1..n : s[i] = s[j] => i = j
    BY Whole
  <1> HIDE DEF u, n
  <1>4. Distinct(u)
    <2> SUFFICES ASSUME NEW i \in 1..(n - 1), NEW j \in 1..(n - 1), u[i] = u[j]
                 PROVE  i = j
      BY <1>2 DEF Distinct
    <2>1. i + 1 \in 1..n /\ j + 1 \in 1..n BY <1>1
    <2>2. i + 1 = j + 1 BY <1>1, <1>3, <2>1
    <2>3. QED BY <2>2
  <1>5. Range(u) = {s[i + 1] : i \in 1..(n - 1)}
    <2>1. Range(u) = {u[i] : i \in 1..(n - 1)} BY <1>2 DEF Range
    <2>2. \A i \in 1..(n - 1) : u[i] = s[i + 1] BY <1>1
    <2>3. QED BY <2>1, <2>2
  <1>6. Head(s) \notin Range(u)
    <2>1. \A i \in 1..(n - 1) : i + 1 \in 1..n /\ 1 \in 1..n /\ i + 1 # 1 BY <1>1
    <2>2. QED BY <1>1, <1>3, <1>5, <2>1
  <1>7. Range(s) = Range(u) \cup {Head(s)}
    <2>1. ASSUME NEW i \in 1..n PROVE s[i] \in Range(u) \cup {Head(s)}
      <3>1. CASE i = 1 BY <1>1, <3>1
      <3>2. CASE i # 1
        <4>1. i - 1 \in 1..(n - 1) /\ (i - 1) + 1 = i BY <1>1, <3>2
        <4>2. u[i - 1] = s[i] BY <1>1, <4>1
        <4>3. QED BY <1>2, <4>1, <4>2 DEF Range
      <3>3. QED BY <3>1, <3>2
    <2>2. \A i \in 1..(n - 1) : i + 1 \in 1..n BY <1>1
    <2>3. 1 \in 1..n BY <1>1
    <2>4. Range(s) \subseteq Range(u) \cup {Head(s)} BY <1>3, <2>1
    <2>5. Range(u) \cup {Head(s)} \subseteq Range(s) BY <1>1, <1>3, <1>5, <2>2, <2>3
    <2>6. QED BY <2>4, <2>5
  <1>8. QED BY <1>4, <1>6, <1>7 DEF u

\* Leaving the loop, backing off, parking and waking, the end of a task.
LEMMA IdleOne ==
  ASSUME Strong, Base', NEW w \in Workers,
         \/ LoopExit(w) \/ FinishRun(w) \/ Backoff(w)
         \/ Park(w) \/ Unparked(w)
  PROVE  Own' /\ One'
  <1>1. PICK l \in {"exited", "top", "parked"} : pc' = [pc EXCEPT ![w] = l]
    BY Zenon DEF LoopExit, FinishRun, Backoff, Park, Unparked, Goto
  <1>2. /\ pc[w] \in {"top", "run", "idle", "parked"}
        /\ UNCHANGED <<lifo_slot, queue, inbox, global, local, status>>
    BY Zenon DEF LoopExit, FinishRun, Backoff, Park, Unparked
  <1>3. w \in Threads BY ThreadNumbers
  <1>4. UNCHANGED <<lifo_slot, queue, inbox, global, rest, task, target, status>>
    BY <1>2 DEF local
  <1>5. QED BY Zenon, <1>1, <1>2, <1>3, <1>4, PlainOne

\* The two looks at the global queue.
LEMMA GlobalOne ==
  ASSUME Strong, Base', NEW w \in Workers, CheckGlobal(w) \/ PopGlobal(w)
  PROVE  Own' /\ One'
  <1>1. /\ pc[w] \in {"top", "steal"}
        /\ UNCHANGED <<lifo_slot, queue, inbox, rest, target, status>>
    BY Zenon DEF CheckGlobal, PopGlobal
  <1>2. w \in Threads BY ThreadNumbers
  <1>3. CASE global # <<>> /\ Found(w, Head(global), "execute") /\ global' = Tail(global)
    <2> DEFINE k == Head(global)
    <2>1. task' = [task EXCEPT ![w] = k] /\ pc' = [pc EXCEPT ![w] = "execute"]
      BY <1>3 DEF Found, Goto
    <2>2. /\ task'[w] = k /\ pc'[w] = "execute"
          /\ \A x \in Threads : x # w => task'[x] = task[x] /\ pc'[x] = pc[x]
      BY Zenon, <1>2, <2>1 DEF Strong, Base, TypeOK
    <2>3. Own' BY Zenon, <1>1, <1>2, <2>1, <2>2, StepOwn DEF Strong
    <2> DEFINE a == <<"hand", w>>
               b == <<"global", 0>>
    <2>4. Contents[b] = global /\ Contents'[b] = Tail(global)
      BY Zenon, <1>3, HeldAt, HeldAtNext
    <2>5. \A p \in Places \ {a, b} : Contents'[p] = Contents[p]
      <3>1. a \in {a, b} /\ b \in {a, b} /\ Own BY DEF Strong
      <3>2. UNCHANGED <<lifo_slot, queue, inbox, rest>> BY <1>1
      <3>3. QED BY Zenon, <1>2, <2>2, <3>1, <3>2, Frame
    <2>6. b \in Places /\ b # a BY PlaceKinds
    <2>7. Distinct(global) BY Zenon, <2>4, <2>6, Apart DEF Strong
    <2>8. /\ Distinct(Tail(global)) /\ k \notin Range(Tail(global))
          /\ Range(global) = Range(Tail(global)) \cup {k}
      BY Zenon, <1>3, <2>7, HeadApart DEF Strong, Base, TypeOK
    <2>9. /\ pc[w] \notin Carrying \ {"clear_lifo"}
          /\ pc'[w] \in Carrying \ {"clear_lifo"}
      BY <1>1, <2>2 DEF Carrying
    <2> HIDE DEF k, b
    <2>10. /\ Distinct(Contents'[b]) /\ k \notin Range(Contents'[b])
           /\ Range(Contents[b]) = Range(Contents'[b]) \cup {k}
      BY Zenon, <2>4, <2>8
    <2>11. task'[w] = k /\ status' = status BY Zenon, <1>1, <2>2
    <2>12. One' BY Zenon, <2>3, <2>5, <2>6, <2>9, <2>10, <2>11, TakenOne
    <2>13. QED BY <2>3, <2>12
  <1>4. CASE (Goto(w, "lifo") \/ Goto(w, "idle")) /\ UNCHANGED <<task, global>>
    BY Zenon, <1>1, <1>2, <1>4, PlainOne DEF Goto
  <1>5. QED BY Zenon, <1>3, <1>4 DEF CheckGlobal, PopGlobal

\* The LIFO slot is read; its task is still there.
LEMMA TakeLifoOne ==
  ASSUME Strong, Base', NEW w \in Workers, TakeLifo(w)
  PROVE  Own' /\ One'
  <1>1. /\ pc[w] = "lifo"
        /\ UNCHANGED <<lifo_slot, queue, inbox, global, rest, target, status>>
    BY Zenon DEF TakeLifo
  <1>2. w \in Threads BY ThreadNumbers
  <1>3. CASE lifo_slot[w] # NoTask
    <2>1. /\ task' = [task EXCEPT ![w] = lifo_slot[w]]
          /\ pc' = [pc EXCEPT ![w] = "clear_lifo"]
      BY <1>3 DEF TakeLifo, Found, Goto
    <2>2. /\ task'[w] = lifo_slot[w] /\ pc'[w] = "clear_lifo"
          /\ \A x \in Threads : x # w => task'[x] = task[x] /\ pc'[x] = pc[x]
      BY Zenon, <1>2, <2>1 DEF Strong, Base, TypeOK
    <2>3. Own' BY Zenon, <1>1, <1>2, <2>1, <2>2, StepOwn DEF Strong
    <2>4. Contents[<<"hand", w>>] = <<>>
      BY Zenon, <1>1, <1>2, HandIs DEF Strong, Base, Carrying
    <2>5. Contents'[<<"hand", w>>] = <<>>
      BY Zenon, <1>2, <2>2, <2>3, HandIs DEF Base, Carrying
    <2>6. \A p \in Places \ {} : Contents'[p] = Contents[p]
      <3>1. UNCHANGED <<lifo_slot, queue, inbox, rest, global>> /\ Own
        BY <1>1 DEF Strong
      <3>2. QED BY Zenon, <1>2, <2>2, <2>4, <2>5, <3>1, Frame
    <2>7. One' BY Zenon, <1>1, <2>6, MovedNothing DEF Strong
    <2>8. QED BY <2>3, <2>7
  <1>4. CASE lifo_slot[w] = NoTask
    BY Zenon, <1>1, <1>2, <1>4, PlainOne DEF TakeLifo, Goto
  <1>5. QED BY <1>3, <1>4

\* The LIFO slot is cleared; nobody has put another task there.
LEMMA ClearLifoOne ==
  ASSUME Strong, Base', NEW w \in Workers, ClearLifo(w)
  PROVE  Own' /\ One'
  <1>1. w \in Threads BY ThreadNumbers
  <1>2. /\ pc[w] = "clear_lifo" /\ lifo_slot[w] = task[w] /\ task[w] # NoTask
    BY Zenon, <1>1 DEF ClearLifo, Strong, Own, Base, Hands, Carrying
  <1>3. /\ lifo_slot' = [lifo_slot EXCEPT ![w] = NoTask]
        /\ pc' = [pc EXCEPT ![w] = "execute"]
        /\ UNCHANGED <<queue, inbox, global, rest, task, target, status>>
    BY DEF ClearLifo, Goto, local
  <1>4. /\ lifo_slot'[w] = NoTask /\ pc'[w] = "execute"
        /\ \A x \in Threads : x # w => pc'[x] = pc[x]
        /\ \A x \in Workers : x # w => lifo_slot'[x] = lifo_slot[x]
    BY Zenon, <1>1, <1>3 DEF Strong, Base, TypeOK
  <1>5. Own' BY Zenon, <1>1, <1>3, <1>4, StepOwn DEF Strong
  <1> DEFINE a == <<"hand", w>>
             b == <<"slot", w>>
  <1>6. Contents[b] = <<task[w]>> BY Zenon, <1>2, HeldAt
  <1>7. Contents'[b] = <<>> BY Zenon, <1>4, HeldAtNext
  <1>8. \A p \in Places \ {a, b} : Contents'[p] = Contents[p]
    <2>1. a \in {a, b} /\ b \in {a, b} /\ Own BY DEF Strong
    <2>2. UNCHANGED <<queue, inbox, rest, global, task>> BY <1>3
    <2>3. QED BY Zenon, <1>1, <1>4, <2>1, <2>2, Frame
  <1>9. b \in Places /\ b # a BY Zenon, PlaceKinds
  <1>10. /\ pc[w] \notin Carrying \ {"clear_lifo"}
         /\ pc'[w] \in Carrying \ {"clear_lifo"}
    BY Zenon, <1>2, <1>4 DEF Carrying
  <1>11. /\ Range(Contents[b]) = {task[w]} /\ Range(Contents'[b]) = {}
         /\ Distinct(Contents'[b])
    BY Zenon, <1>6, <1>7, Singles
  <1> HIDE DEF b
  <1>12. One' BY Zenon, <1>3, <1>5, <1>8, <1>9, <1>10, <1>11, TakenOne
  <1>13. QED BY <1>5, <1>12

\* A worker that takes one task into its empty hand and others to be queued
\* from place b, which keeps what is left.
LEMMA HeldOne ==
  ASSUME Strong, Base', Own', NEW w \in Workers, NEW k, NEW others, NEW b \in Places,
         b # <<"hand", w>>, b # <<"rest", w>>, pc[w] \notin Carrying,
         pc'[w] \in {"execute", "enqueue"}, task'[w] = k, rest'[w] = others,
         \A p \in Places \ {<<"hand", w>>, <<"rest", w>>, b} :
           Contents'[p] = Contents[p],
         status' = status, Distinct(Contents'[b]), Distinct(others),
         k \notin Range(Contents'[b]), k \notin Range(others),
         Range(others) \cap Range(Contents'[b]) = {},
         Range(Contents[b]) = Range(Contents'[b]) \cup Range(others) \cup {k}
  PROVE  One'
  <1> DEFINE a == <<"hand", w>>
             c == <<"rest", w>>
  <1>1. w \in Threads BY Zenon, ThreadNumbers
  <1>2. a \in Places /\ c \in Places /\ a # c BY Zenon, <1>1, PlaceKinds
  <1>3. Contents[a] = <<>> BY Zenon, <1>1, HandIs DEF Strong, Base
  <1>4. Contents'[a] = <<k>> BY Zenon, <1>1, HandIs DEF Base, Carrying
  <1>5. Contents[c] = <<>>
    <2>1. rest[w] = <<>>
      <3>1. pc[w] # "enqueue" BY Zenon DEF Carrying
      <3>2. pc[w] # "push_global" BY Zenon DEF Carrying
      <3>3. QED BY Zenon, <1>1, <3>1, <3>2 DEF Strong, Base, Hands
    <2>2. QED BY Zenon, <1>1, <2>1, HeldAt
  <1>6. Contents'[c] = others BY Zenon, <1>1, HeldAtNext
  <1>7. /\ Range(Contents[a]) = {} /\ Range(Contents'[a]) = {k} /\ Distinct(Contents'[a])
        /\ Range(Contents[c]) = {}
    BY Zenon, <1>3, <1>4, <1>5, Singles
  <1>8. b # a /\ b # c /\ \A p \in Places \ {a, c, b} : Contents'[p] = Contents[p]
    BY Zenon
  <1> HIDE DEF a, c
  <1>9. /\ Range(Contents'[a]) \cup Range(Contents'[c]) \cup Range(Contents'[b])
             = Range(Contents[a]) \cup Range(Contents[c]) \cup Range(Contents[b])
        /\ Range(Contents'[a]) \cap Range(Contents'[c]) = {}
        /\ Range(Contents'[a]) \cap Range(Contents'[b]) = {}
        /\ Range(Contents'[c]) \cap Range(Contents'[b]) = {}
    BY Zenon, <1>6, <1>7
  <1>10. Distinct(Contents'[c]) /\ One BY Zenon, <1>6 DEF Strong
  <1>11. QED BY Zenon, <1>2, <1>7, <1>8, <1>9, <1>10, MovedThree

\* The inbox is taken as a whole.
LEMMA TakeInboxOne ==
  ASSUME Strong, Base', NEW w \in Workers, TakeInbox(w)
  PROVE  Own' /\ One'
  <1>1. /\ pc[w] = "inbox"
        /\ UNCHANGED <<lifo_slot, queue, global, target, status>>
    BY Zenon DEF TakeInbox
  <1>2. w \in Threads BY ThreadNumbers
  <1>3. CASE inbox[w] # <<>>
    <2> DEFINE k == Head(inbox[w])
               others == Tail(inbox[w])
               l == IF others = <<>> THEN "execute" ELSE "enqueue"
    <2>1. /\ task' = [task EXCEPT ![w] = k] /\ rest' = [rest EXCEPT ![w] = others]
          /\ pc' = [pc EXCEPT ![w] = l] /\ inbox' = [inbox EXCEPT ![w] = <<>>]
      BY Zenon, <1>3 DEF TakeInbox, Holding, Found, Goto
    <2>2. /\ task'[w] = k /\ rest'[w] = others /\ pc'[w] = l /\ inbox'[w] = <<>>
          /\ \A x \in Threads : x # w => /\ task'[x] = task[x] /\ pc'[x] = pc[x]
                                         /\ rest'[x] = rest[x]
          /\ \A x \in Workers : x # w => inbox'[x] = inbox[x]
      BY Zenon, <1>2, <2>1 DEF Strong, Base, TypeOK
    <2>3. l \in {"execute", "enqueue"} OBVIOUS
    <2> HIDE DEF l
    <2>4. Own' BY Zenon, <1>1, <1>2, <2>1, <2>2, <2>3, StepOwn DEF Strong
    <2> DEFINE a == <<"hand", w>>
               b == <<"inbox", w>>
               c == <<"rest", w>>
    <2>5. Contents[b] = inbox[w] /\ Contents'[b] = <<>>
      BY Zenon, <2>2, HeldAt, HeldAtNext
    <2>6. \A p \in Places \ {a, c, b} : Contents'[p] = Contents[p]
      <3>1. a \in {a, c, b} /\ c \in {a, c, b} /\ b \in {a, c, b} /\ Own BY DEF Strong
      <3>2. UNCHANGED <<lifo_slot, queue, global>> BY <1>1
      <3>3. \A x \in Workers : <<"inbox", x>> \in {a, c, b} \/ inbox'[x] = inbox[x]
        BY Zenon, <2>2
      <3>4. QED BY Zenon, <1>2, <2>2, <3>1, <3>2, <3>3, Frame
    <2>7. b \in Places /\ b # a /\ b # c BY Zenon, PlaceKinds
    <2>8. Distinct(inbox[w]) BY Zenon, <2>5, <2>7, Apart DEF Strong
    <2>9. /\ Distinct(others) /\ k \notin Range(others)
          /\ Range(inbox[w]) = Range(others) \cup {k}
      BY Zenon, <1>3, <2>8, HeadApart DEF Strong, Base, TypeOK
    <2>10. pc[w] \notin Carrying BY <1>1 DEF Carrying
    <2>11. /\ Range(Contents'[b]) = {} /\ Distinct(Contents'[b])
           /\ Range(Contents[b]) = Range(others) \cup {k}
      BY Zenon, <2>5, <2>9, Singles
    <2> HIDE DEF k, b, others
    <2>12. /\ task'[w] = k /\ rest'[w] = others /\ status' = status
           /\ pc'[w] \in {"execute", "enqueue"}
      BY Zenon, <1>1, <2>2, <2>3
    <2>13. /\ k \notin Range(Contents'[b]) /\ k \notin Range(others)
           /\ Range(others) \cap Range(Contents'[b]) = {} /\ Distinct(others)
           /\ Range(Contents[b]) = Range(Contents'[b]) \cup Range(others) \cup {k}
      BY Zenon, <2>9, <2>11
    <2>14. One' BY Zenon, <2>4, <2>6, <2>7, <2>10, <2>11, <2>12, <2>13, HeldOne
    <2>15. QED BY <2>4, <2>14
  <1>4. CASE inbox[w] = <<>>
    BY Zenon, <1>1, <1>2, <1>4, PlainOne DEF TakeInbox, Goto
  <1>5. QED BY Zenon, <1>3, <1>4

\* A task of the batch is queued, here or globally.
LEMMA EnqueueOne ==
  ASSUME Strong, Base', NEW w \in Workers, Enqueue(w)
  PROVE  Own' /\ One'
  <1> DEFINE k == Head(rest[w])
             l == IF Len(rest[w]) = 1 THEN "execute" ELSE "enqueue"
             room == Len(queue[w]) < Capacity
             b == IF room THEN <<"queue", w>> ELSE <<"global", 0>>
             c == <<"rest", w>>
  <1>1. w \in Threads BY ThreadNumbers
  <1>2. /\ pc[w] = "enqueue" /\ rest[w] \in Seq(Tasks) /\ rest[w] # <<>>
        /\ queue[w] \in Seq(Tasks) /\ global \in Seq(Tasks)
    BY Zenon, <1>1 DEF Enqueue, Strong, Base, TypeOK, Hands
  <1>3. /\ queue' = IF room THEN [queue EXCEPT ![w] = Append(@, k)] ELSE queue
        /\ global' = IF room THEN global ELSE Append(global, k)
        /\ rest' = [rest EXCEPT ![w] = Tail(@)]
        /\ pc' = [pc EXCEPT ![w] = l]
        /\ UNCHANGED <<lifo_slot, inbox, task, target, status>>
    BY Zenon DEF Enqueue, Goto
  <1>4. l \in {"execute", "enqueue"} OBVIOUS
  <1> HIDE DEF l
  <1>5. /\ rest'[w] = Tail(rest[w]) /\ pc'[w] = l
        /\ \A x \in Threads : x # w => rest'[x] = rest[x] /\ pc'[x] = pc[x]
        /\ \A x \in Workers : x # w => queue'[x] = queue[x]
        /\ queue'[w] = IF room THEN Append(queue[w], k) ELSE queue[w]
    BY Zenon, <1>1, <1>3 DEF Strong, Base, TypeOK
  <1>6. Own' BY Zenon, <1>1, <1>3, <1>4, StepOwn DEF Strong
  <1> DEFINE s == IF room THEN queue[w] ELSE global
  <1> HIDE DEF k
  <1>7. Contents[b] = s /\ Contents'[b] = Append(s, k)
    BY Zenon, <1>3, <1>5, HeldAt, HeldAtNext
  <1>8. Contents[c] = rest[w] /\ Contents'[c] = Tail(rest[w])
    BY Zenon, <1>1, <1>5, HeldAt, HeldAtNext
  <1>9. Contents'[<<"hand", w>>] = Contents[<<"hand", w>>]
    BY Zenon, <1>1, <1>2, <1>3, <1>4, <1>5, <1>6, HandIs DEF Strong, Base, Carrying
  <1>10. \A p \in Places \ {b, c} : Contents'[p] = Contents[p]
    <2>1. /\ <<"global", 0>> \in {b, c} \/ global' = global
          /\ \A x \in Workers : <<"queue", x>> \in {b, c} \/ queue'[x] = queue[x]
      BY Zenon, <1>3, <1>5
    <2>2. c \in {b, c} /\ Own BY DEF Strong
    <2>3. UNCHANGED <<lifo_slot, inbox, task>> BY <1>3
    <2> HIDE DEF b
    <2>4. QED BY Zenon, <1>1, <1>5, <1>9, <2>1, <2>2, <2>3, Frame
  <1>11. b \in Places /\ c \in Places /\ b # c BY Zenon, <1>1, PlaceKinds
  <1>12. s \in Seq(Tasks) /\ k \in Tasks BY Zenon, <1>2, HeadTail DEF k
  <1> HIDE DEF b, c, s
  <1>13. /\ Distinct(s) /\ Distinct(rest[w]) /\ Range(s) \cap Range(rest[w]) = {}
    BY Zenon, <1>7, <1>8, <1>11, Apart DEF Strong
  <1>14. /\ Distinct(Tail(rest[w])) /\ k \notin Range(Tail(rest[w]))
         /\ Range(rest[w]) = Range(Tail(rest[w])) \cup {k}
    BY Zenon, <1>2, <1>13, HeadApart DEF k
  <1>15. k \notin Range(s) BY <1>13, <1>14
  <1>16. Distinct(Append(s, k)) /\ Range(Append(s, k)) = Range(s) \cup {k}
    BY <1>12, <1>13, <1>15, AppendOne
  <1>17. /\ Distinct(Contents'[b]) /\ Distinct(Contents'[c])
         /\ Range(Contents'[b]) \cap Range(Contents'[c]) = {}
         /\ Range(Contents'[b]) \cup Range(Contents'[c])
              = Range(Contents[b]) \cup Range(Contents[c])
    BY Zenon, <1>7, <1>8, <1>13, <1>14, <1>16
  <1>18. status' = status /\ One BY <1>3 DEF Strong
  <1>19. One' BY Zenon, <1>10, <1>11, <1>17, <1>18, MovedTwo
  <1>20. QED BY <1>6, <1>19

\* The task at the bottom of the worker's own queue.
LEMMA PopOne ==
  ASSUME Strong, Base', NEW w \in Workers, Pop(w)
  PROVE  Own' /\ One'
  <1>1. /\ pc[w] = "pop"
        /\ UNCHANGED <<lifo_slot, inbox, global, rest, target, status>>
    BY Zenon DEF Pop
  <1>2. w \in Threads /\ queue[w] \in Seq(Tasks)
    BY Zenon, ThreadNumbers DEF Strong, Base, TypeOK
  <1>3. CASE queue[w] # <<>>
    <2> DEFINE q == queue[w]
               n == Len(q)
               k == q[n]
               u == SubSeq(q, 1, n - 1)
    <2>1. /\ task' = [task EXCEPT ![w] = k] /\ pc' = [pc EXCEPT ![w] = "execute"]
          /\ queue' = [queue EXCEPT ![w] = u]
      BY Zenon, <1>3 DEF Pop, Found, Goto
    <2>2. /\ task'[w] = k /\ pc'[w] = "execute" /\ queue'[w] = u
          /\ \A x \in Threads : x # w => task'[x] = task[x] /\ pc'[x] = pc[x]
          /\ \A x \in Workers : x # w => queue'[x] = queue[x]
      BY Zenon, <1>2, <2>1 DEF Strong, Base, TypeOK
    <2>3. Own' BY Zenon, <1>1, <1>2, <2>1, <2>2, StepOwn DEF Strong
    <2> DEFINE a == <<"hand", w>>
               b == <<"queue", w>>
    <2>4. Contents[b] = q /\ Contents'[b] = u BY Zenon, <2>2, HeldAt, HeldAtNext
    <2>5. \A p \in Places \ {a, b} : Contents'[p] = Contents[p]
      <3>1. a \in {a, b} /\ b \in {a, b} /\ Own BY DEF Strong
      <3>2. UNCHANGED <<lifo_slot, inbox, rest, global>> BY <1>1
      <3>3. \A x \in Workers : <<"queue", x>> \in {a, b} \/ queue'[x] = queue[x]
        BY Zenon, <2>2
      <3>4. QED BY Zenon, <1>2, <2>2, <3>1, <3>2, <3>3, Frame
    <2>6. b \in Places /\ b # a BY Zenon, PlaceKinds
    <2>7. Distinct(q) BY Zenon, <2>4, <2>6, Apart DEF Strong
    <2>8. n \in Nat \ {0} BY <1>2, <1>3
    <2>9. Distinct(u) /\ Range(u) = {q[i] : i \in 1..(n - 1)}
      <3>1. 1 \in 1..(Len(q) + 1) /\ n - 1 \in 0..Len(q) BY <2>8
      <3>2. QED BY Zenon, <1>2, <2>7, <3>1, Section
    <2>10. /\ Range(q) = {q[i] : i \in 1..n}
           /\ \A i, j \in 1..n : q[i] = q[j] => i = j
      BY <1>2, <2>7, Whole
    <2>11. /\ pc[w] \notin Carrying \ {"clear_lifo"}
           /\ pc'[w] \in Carrying \ {"clear_lifo"}
      BY Zenon, <1>1, <2>2 DEF Carrying
    <2>12. k = q[n] OBVIOUS
    <2> HIDE DEF q, n, k, u, b
    <2>13. \A i \in 1..(n - 1) : i \in 1..n /\ n \in 1..n /\ i # n BY <2>8
    <2>14. k \notin Range(u) BY Zenon, <2>9, <2>10, <2>12, <2>13
    <2>15. \A i \in 1..n : i \in 1..(n - 1) \/ i = n BY <2>8
    <2>16. n \in 1..n BY <2>8
    <2>17. Range(q) = Range(u) \cup {k}
      BY Zenon, <2>9, <2>10, <2>12, <2>13, <2>15, <2>16
    <2>18. /\ Distinct(Contents'[b]) /\ k \notin Range(Contents'[b])
           /\ Range(Contents[b]) = Range(Contents'[b]) \cup {k}
      BY Zenon, <2>4, <2>9, <2>14, <2>17
    <2>19. task'[w] = k /\ status' = status BY Zenon, <1>1, <2>2
    <2>20. One' BY Zenon, <2>3, <2>5, <2>6, <2>11, <2>18, <2>19, TakenOne
    <2>21. QED BY <2>3, <2>20
  <1>4. CASE queue[w] = <<>>
    <2>1. pc' = [pc EXCEPT ![w] = "steal"] /\ UNCHANGED <<task, queue>>
      BY Zenon, <1>4 DEF Pop, Goto
    <2>2. QED BY Zenon, <1>1, <1>2, <2>1, PlainOne
  <1>5. QED BY <1>3, <1>4

\* Half of a victim's queue: the first task into the hand, the others to be
\* queued.
LEMMA StealHalfOne ==
  ASSUME Strong, Base', NEW w \in Workers, NEW v \in Workers, StealHalf(w, v)
  PROVE  Own' /\ One'
  <1> DEFINE q == queue[v]
             n == Len(q)
             count == TakeHalf(n)
             k == Head(q)
             others == SubSeq(q, 2, count)
             u == SubSeq(q, count + 1, n)
             l == IF others = <<>> THEN "execute" ELSE "enqueue"
  <1>1. w \in Threads /\ q \in Seq(Tasks) BY Zenon, ThreadNumbers DEF Strong, Base, TypeOK
  <1>2. /\ pc[w] = "steal" /\ count > 0
        /\ task' = [task EXCEPT ![w] = k] /\ rest' = [rest EXCEPT ![w] = others]
        /\ pc' = [pc EXCEPT ![w] = l] /\ queue' = [queue EXCEPT ![v] = u]
        /\ UNCHANGED <<lifo_slot, inbox, global, target, status>>
    BY Zenon DEF StealHalf, Holding, Found, Goto, TakeTop
  <1>3. q # <<>> /\ n \in Nat \ {0} /\ count \in 1..n /\ k = q[1]
    <2>1. q # <<>> /\ n \in Nat \ {0} /\ count \in 1..n
      BY Zenon, <1>1, <1>2, TakeHalfSome
    <2>2. QED BY <1>1, <2>1
  <1>4. l \in {"execute", "enqueue"} OBVIOUS
  <1> HIDE DEF l, count
  <1>5. /\ task'[w] = k /\ rest'[w] = others /\ pc'[w] = l /\ queue'[v] = u
        /\ \A x \in Threads : x # w => /\ task'[x] = task[x] /\ pc'[x] = pc[x]
                                       /\ rest'[x] = rest[x]
        /\ \A x \in Workers : x # v => queue'[x] = queue[x]
    BY Zenon, <1>1, <1>2 DEF Strong, Base, TypeOK
  <1>6. Own' BY Zenon, <1>1, <1>2, <1>4, <1>5, StepOwn DEF Strong
  <1> DEFINE a == <<"hand", w>>
             b == <<"queue", v>>
             c == <<"rest", w>>
  <1>7. Contents[b] = q /\ Contents'[b] = u BY Zenon, <1>5, HeldAt, HeldAtNext
  <1>8. \A p \in Places \ {a, c, b} : Contents'[p] = Contents[p]
    <2>1. a \in {a, c, b} /\ c \in {a, c, b} /\ b \in {a, c, b} /\ Own BY DEF Strong
    <2>2. UNCHANGED <<lifo_slot, inbox, global>> BY <1>2
    <2>3. \A x \in Workers : <<"queue", x>> \in {a, c, b} \/ queue'[x] = queue[x]
      BY Zenon, <1>5
    <2>4. QED BY Zenon, <1>1, <1>5, <2>1, <2>2, <2>3, Frame
  <1>9. b \in Places /\ b # a /\ b # c BY Zenon, PlaceKinds
  <1>10. Distinct(q) BY Zenon, <1>7, <1>9, Apart DEF Strong
  <1>11. /\ Distinct(others) /\ Range(others) = {q[i] : i \in 2..count}
         /\ Distinct(u) /\ Range(u) = {q[i] : i \in (count + 1)..n}
    <2>1. /\ 2 \in 1..(Len(q) + 1) /\ count + 1 \in 1..(Len(q) + 1)
          /\ count \in 0..Len(q) /\ n \in 0..Len(q)
      BY <1>3
    <2>2. QED BY Zenon, <1>1, <1>10, <2>1, Section
  <1>12. /\ Range(q) = {q[i] : i \in 1..n}
         /\ \A i, j \in 1..n : q[i] = q[j] => i = j
    <2>1. q \in Seq(Tasks) BY <1>1
    <2> HIDE DEF q
    <2>2. QED BY <1>10, <2>1, Whole
  <1>13. pc[w] \notin Carrying BY <1>2 DEF Carrying
  <1> HIDE DEF q, n, k, others, u, b
  <1>14. /\ 1 \in 1..n
         /\ \A i \in 2..count : i \in 1..n /\ i # 1
         /\ \A i \in (count + 1)..n : i \in 1..n /\ i # 1
         /\ \A i \in 2..count : \A j \in (count + 1)..n : i # j
         /\ \A i \in 1..n : i = 1 \/ i \in 2..count \/ i \in (count + 1)..n
    BY <1>3
  <1>15. k \notin Range(u) /\ k \notin Range(others)
    BY Zenon, <1>3, <1>11, <1>12, <1>14
  <1>16. Range(others) \cap Range(u) = {}
    <2>1. ASSUME NEW x \in Range(others), x \in Range(u) PROVE FALSE
      <3>1. PICK i \in 2..count : x = q[i] BY <1>11
      <3>2. PICK j \in (count + 1)..n : x = q[j] BY <1>11, <2>1
      <3>3. i \in 1..n /\ j \in 1..n /\ i # j BY <1>14
      <3>4. QED BY Zenon, <1>12, <3>1, <3>2, <3>3
    <2>2. QED BY <2>1
  <1>17. Range(q) = Range(u) \cup Range(others) \cup {k}
    BY <1>3, <1>11, <1>12, <1>14
  <1>18. /\ Distinct(Contents'[b]) /\ Distinct(others)
         /\ k \notin Range(Contents'[b]) /\ k \notin Range(others)
         /\ Range(others) \cap Range(Contents'[b]) = {}
         /\ Range(Contents[b]) = Range(Contents'[b]) \cup Range(others) \cup {k}
    BY Zenon, <1>7, <1>11, <1>15, <1>16, <1>17
  <1>19. /\ task'[w] = k /\ rest'[w] = others /\ status' = status
         /\ pc'[w] \in {"execute", "enqueue"}
    BY Zenon, <1>2, <1>4, <1>5
  <1>20. One' BY Zenon, <1>6, <1>8, <1>9, <1>13, <1>18, <1>19, HeldOne
  <1>21. QED BY <1>6, <1>20

\* The first task of a victim's queue.
LEMMA StealOneOne ==
  ASSUME Strong, Base', NEW w \in Workers, NEW v \in Workers, StealOne(w, v)
  PROVE  Own' /\ One'
  <1> DEFINE q == queue[v]
             n == Len(q)
             k == Head(q)
             u == SubSeq(q, 2, n)
  <1>1. w \in Threads /\ q \in Seq(Tasks) BY Zenon, ThreadNumbers DEF Strong, Base, TypeOK
  <1>2. /\ pc[w] = "steal" /\ q # <<>>
        /\ task' = [task EXCEPT ![w] = k] /\ pc' = [pc EXCEPT ![w] = "execute"]
        /\ queue' = [queue EXCEPT ![v] = u]
        /\ UNCHANGED <<lifo_slot, inbox, global, rest, target, status>>
    <2>1. /\ pc[w] = "steal" /\ q # <<>> /\ Found(w, k, "execute") /\ TakeTop(v, 1)
          /\ UNCHANGED <<lifo_slot, inbox, global, rest, target, status>>
      BY Zenon DEF StealOne
    <2>2. task' = [task EXCEPT ![w] = k] /\ pc' = [pc EXCEPT ![w] = "execute"]
      BY Zenon, <2>1 DEF Found, Goto
    <2>3. queue' = [queue EXCEPT ![v] = u] BY <2>1 DEF TakeTop
    <2>4. QED BY <2>1, <2>2, <2>3
  <1>3. n \in Nat \ {0} /\ k = q[1] BY <1>1, <1>2
  <1>4. /\ task'[w] = k /\ pc'[w] = "execute" /\ queue'[v] = u
        /\ \A x \in Threads : x # w => task'[x] = task[x] /\ pc'[x] = pc[x]
        /\ \A x \in Workers : x # v => queue'[x] = queue[x]
    BY Zenon, <1>1, <1>2 DEF Strong, Base, TypeOK
  <1>5. Own' BY Zenon, <1>1, <1>2, <1>4, StepOwn DEF Strong
  <1> DEFINE a == <<"hand", w>>
             b == <<"queue", v>>
  <1>6. Contents[b] = q /\ Contents'[b] = u BY Zenon, <1>4, HeldAt, HeldAtNext
  <1>7. \A p \in Places \ {a, b} : Contents'[p] = Contents[p]
    <2>1. a \in {a, b} /\ b \in {a, b} /\ Own BY DEF Strong
    <2>2. UNCHANGED <<lifo_slot, inbox, rest, global>> BY <1>2
    <2>3. \A x \in Workers : <<"queue", x>> \in {a, b} \/ queue'[x] = queue[x] BY Zenon, <1>4
    <2>4. QED BY Zenon, <1>1, <1>4, <2>1, <2>2, <2>3, Frame
  <1>8. b \in Places /\ b # a BY Zenon, PlaceKinds
  <1>9. Distinct(q) BY Zenon, <1>6, <1>8, Apart DEF Strong
  <1>10. Distinct(u) /\ Range(u) = {q[i] : i \in 2..n}
    <2>1. 2 \in 1..(Len(q) + 1) /\ n \in 0..Len(q) BY <1>3
    <2>2. QED BY Zenon, <1>1, <1>9, <2>1, Section
  <1>11. /\ Range(q) = {q[i] : i \in 1..n}
         /\ \A i, j \in 1..n : q[i] = q[j] => i = j
    BY <1>1, <1>9, Whole
  <1>12. /\ pc[w] \notin Carrying \ {"clear_lifo"}
         /\ pc'[w] \in Carrying \ {"clear_lifo"}
    BY Zenon, <1>2, <1>4 DEF Carrying
  <1> HIDE DEF q, n, k, u, b
  <1>13. /\ 1 \in 1..n /\ \A i \in 2..n : i \in 1..n /\ i # 1
         /\ \A i \in 1..n : i = 1 \/ i \in 2..n
    BY <1>3
  <1>14. k \notin Range(u) BY Zenon, <1>3, <1>10, <1>11, <1>13
  <1>15. Range(q) = Range(u) \cup {k} BY <1>3, <1>10, <1>11, <1>13
  <1>16. /\ Distinct(Contents'[b]) /\ k \notin Range(Contents'[b])
         /\ Range(Contents[b]) = Range(Contents'[b]) \cup {k}
    BY Zenon, <1>6, <1>10, <1>14, <1>15
  <1>17. task'[w] = k /\ status' = status BY Zenon, <1>2, <1>4
  <1>18. One' BY Zenon, <1>5, <1>7, <1>8, <1>12, <1>16, <1>17, TakenOne
  <1>19. QED BY <1>5, <1>18

\* A task begins to run and leaves the executor.
LEMMA ExecuteOne ==
  ASSUME Strong, Base', NEW w \in Workers, Execute(w)
  PROVE  Own' /\ One'
  <1>1. w \in Threads BY ThreadNumbers
  <1>2. pc[w] = "execute" /\ task[w] \in Tasks
    <2>1. pc[w] = "execute" BY DEF Execute
    <2>2. task[w] # NoTask BY Zenon, <1>1, <2>1 DEF Strong, Base, Hands, Carrying
    <2>3. QED BY Zenon, <1>1, <2>1, <2>2 DEF Strong, Base, TypeOK
  <1>3. /\ status' = [status EXCEPT ![task[w]] = "ran"]
        /\ task' = [task EXCEPT ![w] = NoTask] /\ pc' = [pc EXCEPT ![w] = "run"]
        /\ UNCHANGED <<lifo_slot, queue, inbox, global, rest, target>>
    BY Zenon DEF Execute, Goto
  <1>4. /\ task'[w] = NoTask /\ pc'[w] = "run"
        /\ \A x \in Threads : x # w => task'[x] = task[x] /\ pc'[x] = pc[x]
    BY Zenon, <1>1, <1>3 DEF Strong, Base, TypeOK
  <1>5. Own' BY Zenon, <1>1, <1>3, <1>4, StepOwn DEF Strong
  <1> DEFINE a == <<"hand", w>>
             k == task[w]
  <1>6. Contents[a] = <<k>> BY Zenon, <1>1, <1>2, HandIs DEF Strong, Base, Carrying
  <1>7. Contents'[a] = <<>> BY Zenon, <1>1, <1>4, <1>5, HandIs DEF Base, Carrying
  <1>8. \A p \in Places \ {a} : Contents'[p] = Contents[p]
    <2>1. a \in {a} /\ Own BY DEF Strong
    <2>2. UNCHANGED <<lifo_slot, queue, inbox, global, rest>> BY <1>3
    <2>3. QED BY Zenon, <1>1, <1>4, <2>1, <2>2, Frame
  <1>9. Pending' = Pending \ {k}
    BY Zenon, <1>2, <1>3 DEF Pending, Strong, Base, TypeOK, Tasks
  <1>10. a \in Places BY Zenon, <1>1, PlaceKinds
  <1> HIDE DEF a, k
  <1>11. One' BY Zenon, <1>6, <1>7, <1>8, <1>9, <1>10, MovedOut DEF Strong
  <1>12. QED BY <1>5, <1>11

\* Steps that leave all the places as they are, and the threads' steps too,
\* but for Start, which lets threads begin that hold nothing.
LEMMA StillOne ==
  ASSUME Strong, Base',
         UNCHANGED <<lifo_slot, queue, inbox, global, rest, task, target, status>>,
         \A th \in Threads :
           \/ pc'[th] = pc[th]
           \/ pc[th] \in {"off", "exited"} /\ pc'[th] \in {"top", "ready"}
  PROVE  Own' /\ One'
  <1>1. Own' BY Zenon DEF Strong, Own
  <1>2. ASSUME NEW p \in Places PROVE Contents'[p] = Contents[p]
    <2>1. CASE p = <<"global", 0>> BY Zenon, <2>1, HeldAt, HeldAtNext
    <2>2. ASSUME NEW w \in Workers
          PROVE  /\ Contents'[<<"slot", w>>] = Contents[<<"slot", w>>]
                 /\ Contents'[<<"queue", w>>] = Contents[<<"queue", w>>]
                 /\ Contents'[<<"inbox", w>>] = Contents[<<"inbox", w>>]
      <3>1. Contents[<<"slot", w>>]
              = IF lifo_slot[w] = NoTask THEN <<>> ELSE <<lifo_slot[w]>>
        BY Zenon, HeldAt
      <3>2. Contents'[<<"slot", w>>]
              = IF lifo_slot[w] = NoTask THEN <<>> ELSE <<lifo_slot[w]>>
        BY Zenon, HeldAtNext
      <3>3. Contents[<<"queue", w>>] = queue[w] /\ Contents[<<"inbox", w>>] = inbox[w]
        BY Zenon, HeldAt
      <3>4. Contents'[<<"queue", w>>] = queue[w] /\ Contents'[<<"inbox", w>>] = inbox[w]
        BY Zenon, HeldAtNext
      <3>5. QED BY Zenon, <3>1, <3>2, <3>3, <3>4
    <2>3. ASSUME NEW th \in Threads, p = <<"rest", th>>
          PROVE  Contents'[p] = Contents[p]
      <3>1. Contents[<<"rest", th>>] = rest[th] BY Zenon, HeldAt
      <3>2. Contents'[<<"rest", th>>] = rest'[th] BY Zenon, HeldAtNext
      <3>3. QED BY Zenon, <2>3, <3>1, <3>2
    <2>4. ASSUME NEW th \in Threads, p = <<"hand", th>>
          PROVE  Contents'[p] = Contents[p]
      <3>1. Contents[<<"hand", th>>] = IF pc[th] \in Carrying \ {"clear_lifo"}
                                       THEN <<task[th]>> ELSE <<>>
        BY Zenon, HandIs DEF Strong, Base
      <3>2. Contents'[<<"hand", th>>] = IF pc'[th] \in Carrying \ {"clear_lifo"}
                                        THEN <<task'[th]>> ELSE <<>>
        BY Zenon, <1>1, HandIs DEF Base
      <3>3. pc'[th] \in Carrying \ {"clear_lifo"} <=> pc[th] \in Carrying \ {"clear_lifo"}
        BY Zenon DEF Carrying
      <3>4. QED BY Zenon, <2>4, <3>1, <3>2, <3>3
    <2>5. ASSUME NEW w \in Workers,
                 p = <<"slot", w>> \/ p = <<"queue", w>> \/ p = <<"inbox", w>>
          PROVE  Contents'[p] = Contents[p]
      BY Zenon, <2>2, <2>5
    <2>6. QED BY Zenon, <2>1, <2>3, <2>4, <2>5, PlaceKinds
  <1>3. One' BY Zenon, <1>2, MovedNothing DEF Strong
  <1>4. QED BY Zenon, <1>1, <1>3

\* An executor that has not been started holds nothing.
LEMMA InitOne == Init => Own /\ One
  <1> SUFFICES ASSUME Init PROVE Own /\ One OBVIOUS
  <1>1. Own BY Zenon DEF Init, Own
  <1>2. ASSUME NEW p \in Places PROVE Contents[p] = <<>>
    <2>1. CASE p = <<"global", 0>> BY Zenon, <2>1, HeldAt DEF Init
    <2>2. ASSUME NEW w \in Workers
          PROVE  /\ Contents[<<"slot", w>>] = <<>>
                 /\ Contents[<<"queue", w>>] = <<>>
                 /\ Contents[<<"inbox", w>>] = <<>>
      <3>1. lifo_slot[w] = NoTask /\ queue[w] = <<>> /\ inbox[w] = <<>> BY Zenon DEF Init
      <3>2. QED BY Zenon, <3>1, HeldAt
    <2>3. ASSUME NEW th \in Threads
          PROVE  Contents[<<"rest", th>>] = <<>> /\ Contents[<<"hand", th>>] = <<>>
      <3>1. task[th] = NoTask /\ rest[th] = <<>> BY Zenon DEF Init
      <3>2. QED BY Zenon, <3>1, HeldAt
    <2>4. QED BY Zenon, <2>1, <2>2, <2>3, PlaceKinds
  <1>3. Pending = {} BY Zenon DEF Init, Pending
  <1>4. One BY Zenon, <1>2, <1>3, Singles DEF One, InOnePlace
  <1>5. QED BY <1>1, <1>4

\* Every step.
LEMMA NextOne ==
  ASSUME NoIOThreads, Strong, [Next]_vars
  PROVE  Strong'
  <1>1. Base' BY NextBase DEF Strong
  <1>2. ASSUME NEW th \in Threads, ScheduleStep(th) PROVE Own' /\ One'
    BY Zenon, <1>1, <1>2, SchedulePlainOne, OwnerLifoOne, OwnerPushOne, OffloadOne,
       PushGlobalOne, PushInboxOne DEF ScheduleStep
  <1>3. ASSUME NEW w \in Workers, WorkerStep(w) PROVE Own' /\ One'
    <2>1. ASSUME NEW v \in Workers, StealMiss(w, v) PROVE Own' /\ One'
      BY Zenon, <1>1, <2>1, StillOne DEF StealMiss
    <2>2. QED
      BY Zenon, <1>1, <1>3, <2>1, IdleOne, GlobalOne, TakeLifoOne, ClearLifoOne, TakeInboxOne,
         EnqueueOne, PopOne, StealHalfOne, StealOneOne, ExecuteOne
         DEF WorkerStep, ParkWoken, ParkTimeout
  <1>4. CASE Start
    <2>1. Crew \subseteq Workers /\ Workers \subseteq Threads
      BY Zenon, CrewType, ThreadNumbers DEF Strong, Base, TypeOK
    <2>2. \A th \in Threads :
            \/ pc'[th] = pc[th]
            \/ pc[th] \in {"off", "exited"} /\ pc'[th] \in {"top", "ready"}
      BY Zenon, <1>4, <2>1 DEF Start, Strong, Base, Joined
    <2>3. UNCHANGED <<lifo_slot, queue, inbox, global, rest, task, target, status>>
      BY <1>4 DEF Start, local
    <2>4. QED BY Zenon, <1>1, <2>2, <2>3, StillOne DEF Strong
  <1>5. CASE Stop \/ StopJoin \/ UNCHANGED vars
    <2>1. UNCHANGED <<lifo_slot, queue, inbox, global, rest, task, target, status>>
      BY Zenon, <1>5 DEF Stop, StopJoin, vars, local
    <2>2. \A th \in Threads :
            \/ pc'[th] = pc[th]
            \/ pc[th] \in {"off", "exited"} /\ pc'[th] \in {"top", "ready"}
      BY Zenon, <1>5 DEF Stop, StopJoin, vars
    <2>3. QED BY Zenon, <1>1, <2>1, <2>2, StillOne DEF Strong
  <1>6. ASSUME NEW th \in Threads, Schedule(th) PROVE Own' /\ One'
    BY <1>1, <1>6, ScheduleOne
  <1>7. Own' /\ One'
    <2>1. ASSUME NEW w \in Workers, FinishRun(w) PROVE Own' /\ One'
      BY <1>1, <2>1, IdleOne
    <2>2. QED BY Zenon, <1>2, <1>3, <1>4, <1>5, <1>6, <2>1 DEF Next, Strong
  <1>8. QED BY <1>1, <1>7 DEF Strong

\* Without IO threads that pass for workers, every task that was handed to
\* schedule and has not run is in exactly one place, and every other task in
\* none: no overflow, batch, steal or drain of the executor loses a task or
\* duplicates it, for any number of workers and outside callers, any capacity
\* of the local queues, and whatever Start and Stop do meanwhile.
THEOREM TaskInOnePlace ==
  ASSUME NoIOThreads PROVE Spec => []EveryTaskInOnePlace
  <1>1. Init => Strong BY InitBase, InitOne DEF Strong
  <1>2. Strong /\ [Next]_vars => Strong' BY NextOne
  <1>3. Strong => EveryTaskInOnePlace BY OneIsProperty DEF Strong
  <1>4. QED BY <1>1, <1>2, <1>3, PTL DEF Spec
=============================================================================
