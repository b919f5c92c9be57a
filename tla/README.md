# ant_server: TLA+ specifications, model checking and proofs

This directory specifies the concurrent core of `ant_server`, a C++20 coroutine
and io_uring HTTP server (`src/include/ant_server`), checks it with TLC and
proves its safety with TLAPS, for instances of any size. `PROJECT.json` holds the
machine-readable index: which definition stands for which lines, which run checks
what, the hazards of the code and the theorems.

## 1. The system

```
 client -> Acceptor -> handle_http_client (coroutine, under with_timeout 5 s)
                          | co_await Read/Write/CloseAwaiter
                          v
            Context (io_uring, one IO thread)    TimerKeeper (timer thread)
                          | on_complete              | expired task
                          v                          v
                WorkStealingExecutor: workers with LIFO slot, SPMCQueue, inbox;
                one global IntrusiveSpinLockQueue
```

| Part | State | Operations | Hard behaviour |
|---|---|---|---|
| `SPMCQueue` (`spmc_queue.hpp`) | `buffer_`, `bottom_`, `top_` | Push, TryPop, Steal, TakeHalf | owner and thieves meet at the last task; TakeHalf claims before it copies; relaxed stores |
| `WorkStealingExecutor` (`executor.hpp`) | per worker: `lifo_slot`, queue, inbox, `is_parked`, `tick`; global queue; `running_` | two `schedule`, WorkerLoop, steal_task, park/unpark, Start, Stop | overflow while being stolen from; missed wakeups; starvation; who counts as the owner |
| `TimerKeeper` (`timer_keeper.hpp`) | wheel, `task_map_`, `last_tick_`, `running_` | AddTimer, CancelTimer, Run, Start, Stop | slot computed before and id read after the lock; cancel against expiry; due times within a tick |
| connection (`server.hpp`, `timeput_awaiter.hpp`, `socket_awaiter.hpp`) | coroutine, awaiter, stop token and callback, timer | handle_http_client, with_timeout, the awaiters | timeout at any moment of any operation; an awaiter's successor has its address |
| `Context`, `IOuringSocketService`, `Acceptor` | the ring | submit, ProcessEvents, accept | a ring without a lock |
| `IntrusiveSpinLockQueue` (`mpmc_queue.hpp`) | linked list | Push, PushBatch, Pop | all under one lock |
| `Scheduler` (`scheduler.hpp`) | contexts, threads | IOLoop, Start, Stop | thread-locals of IO threads; joins from two threads |
| `HttpParser` (`http/parser.hpp`), over `llhttp` and `butil::IOBuf` | llhttp's state and flags; `read_buf` | parse, pop_front | a request cut over several reads; whole blocks consumed; flags cleared before they are asked for |
| `ResumeOnAwaiter`, `SleepAwaiter`, `type.hpp`, `random.hpp`, `constants.hpp`, the rest of the vendored `butil` and `llhttp` | | | see section 8 |

## 2. Modules

| Module | Models | Correspondence |
|---|---|---|
| `WorkDeque` | abstract deque | what a work-stealing deque promises: each operation at one instant on one sequence |
| `SPMCQueue` | the deque | one action per load, store or CAS on `top_`, `bottom_` or a slot; `b`, `t`, `item`, `left` are the locals of the operation each thread is in. `StoreDelay` lets the store of line 45 stay in a store buffer (`pending`); `ThiefTakesHalf` lets thieves call TakeHalf as `steal_task` does |
| `Executor` | the executor | deques and global queue as sequences, each operation one step; `lifo_slot`, a plain pointer, is read and written in separate steps; threads are workers, IO threads of a Scheduler (whose thread-locals look like a worker's) and external threads |
| `TimerKeeper` | the timing wheel | everything under `mu_` is one action; the computation of the slot, the return of the id and each dispatch, which are outside `mu_`, are actions of their own |
| `HttpParser` | `parse`, and what it uses of `llhttp` and `IOBuf` | operators without state: a request is two pieces (its head, and the tail that ends it), a block a sequence of pieces. `ExecutePiece` is `llhttp_execute` on one piece (`RequestLine`, `Headers`, `MessageComplete` and `Failed` are the transitions it makes), `ExecuteBlock` the body of parse's loop, `PopFrontBlock` one turn of pop_front's |
| `SequenceFold` | the loops over a buffer | `Fold` takes the body of a loop as a function of what has been computed so far and of the next element |
| `HttpConnection` | one connection | extends `HttpParser`. A step of the IO thread per stretch of code between suspensions or between accesses shared with the worker; the worker runs the timeout's callback; kernel, client and timer are environment. `Accept`, `AcceptFails` and `Rearm` are `Acceptor::on_complete`. The client sends requests piece by piece and may wait for its responses, pipeline, or close |
| `SPMCQueueProofs`, `SPMCExactlyOnceProofs`, `SPMCRefinementProofs` | | theorems about `SPMCQueue` |
| `TimerKeeperProofs` | | theorems about `TimerKeeper` |
| `DivisionLemmas` | | quotients and remainders by a parameter, used by the deque's and the wheel's proofs |
| `ExecutorProofs` | | theorems about `Executor` |
| `HttpParserProofs` | | theorems about `HttpParser`, with the induction over sequences they need |
| `HttpConnectionProofs` | | theorems about `HttpConnection` |
| `MC*` | | the modules TLC runs, with the symmetry of thieves for `SPMCQueue`, the workloads of `Executor` and the requests of the client |

How they fit together: `Executor` uses the deque at the contract that
`SPMCQueue` is shown to implement (and shown to break in two ways);
`HttpConnection` uses the timer as "an armed timer falls due, and its callback is
run by the worker", which is what `TimerKeeper` (`EventuallyDispatched`) and
`Executor` (`EveryTaskRuns`) show of their parts.

A few modelling decisions:

* A task is a number. In `SPMCQueue` the k-th successful push pushes task k; an
  intrusive node is in at most one queue, so this loses nothing.
* `& kMask` is a remainder: `kMaxSize` is a power of two. The 64-bit indices
  are unbounded here; one push per nanosecond would take 290 years to overflow.
* A relaxed load of `is_parked` may return an old value, so `unpark` may always
  do nothing. P2C reads two loads unsynchronised; any worker may be picked.
* `compare_exchange_weak` may fail without a reason.
* After Run has deleted an entry whose id AddTimer has not returned yet, the
  memory may be another entry's: the returned id is any allocated entry's, or
  its own.
* How an executor is built and used is chosen once, in `Init`, from `Workloads`:
  the number of its workers, of tasks handed over, and whether a task that has
  run may be scheduled again.
* parse is translated with what it relies on in llhttp: the end of a message
  calls `on_message_complete`, pauses on an upgrade, and otherwise clears the
  flags; a message that ends the connection puts llhttp into its closed state,
  where further bytes are an error. URL and header strings are left out, since
  the server looks at none of them.
* The destructor of `std::stop_callback` waits for a callback running on
  another thread (C++20); `Resumed` has this as a guard.
* The ring has no lock. A submission made while the other thread is on it may
  be lost, may stay in the queue until a later submit of either thread
  (`late`, `SubmitLate`), or may be one that the kernel rejects (result
  "failed"); `spoiled` records that it happened. A cancellation that is handed
  over late names an address of the frame, and ends the operation which then
  lies there.
* The accept is multishot: it stays in the ring (`accepting`) until a completion
  without `IORING_CQE_F_MORE`, or with an error, after which `on_complete` submits
  it again (`Rearm`); that submission may be spoiled too.
* TakeHalf returns 0 for an empty queue, and `steal_task` then tries Steal
  (`StealOne`); so does the model.

## 3. Runs

| Run | Bounds | Distinct states | Result |
|---|---|---|---|
| `spmc_contract` | 2 thieves, 4 slots, 5 tasks, documented use, sequentially consistent | 93,419 | passes |
| `spmc_as_used` | 2 thieves, 2 slots, 4 tasks, thieves call TakeHalf, store delayed | 295,620 | passes |
| `spmc_thief_takes_half` | 4 slots, 5 tasks, thieves call TakeHalf | | `NoTaskTwice` violated |
| `spmc_store_delay` | 4 slots, 4 tasks, store delayed | | `NoTaskTwice` violated |
| `timer_wheel` | 2 timers, 2 slots, ticks of 2 units, delays 1 and 4, restart | 369,593 | passes |
| `timer_rechain` | the same wheel | | `OnlyMultiRoundStays` violated |
| `executor_workers` | queues of 1, check every 2 ticks, 1 external thread; either 2 workers and 2 tasks, or 1 worker and 3 tasks that may repeat | 89,988 | passes |
| `executor_io_thread` | 1 worker, 1 IO thread, 3 tasks | | `EveryTaskInOnePlace` violated |
| `connection` | 4 pieces (2 requests), HTTP/1.1, HTTP/1.0 and upgrade | 792,467 | passes |
| `keep_alive` | 2 pieces, with and without Connection: close | | `KeepAliveAsAsked` violated |
| `connection_idle` | 2 pieces | | `IdleConnectionCloses` violated |
| `connection_ring` | 2 pieces | | `RingDrivenByIoThread` violated |

Why the bounds are enough. The deque: four slots and five tasks let the indices
wrap and TakeHalf take two; two thieves race each other as well as the owner.
The two-slot instance makes every push reuse a slot. The wheel: a delay of 4
units is one full turn of two slots of two units, a delay of 1 falls due within
a tick; the clock runs a full turn beyond the last AddTimer. The executor:
queues of one slot overflow at the second task. A batch of two or more stolen
tasks needs a queue of four and five tasks, beyond TLC's reach with everything
else; the theorems of section 6 hold for every capacity and batch. The two
workloads ask the two questions there are about scheduling: stealing needs two
workers, starvation one worker that never runs out of tasks. The connection:
four pieces are two requests, each read whole or cut, the second arriving while
the first is parsed, written or already answered, by a client that waits and by
one that does not; the timeout may come at any point of this. The three
requests end in llhttp's three ways: the next message, the closed state, a pause.

Deadlock is checked everywhere but in the timer's runs, where the bounded clock
stops.

### What the violations show

* **A thief calls TakeHalf** (`executor.hpp:309`), "Owner Thread TakeHalf operation"
  (`spmc_queue.hpp:87`). A thief has read `bottom_` when there are two tasks; the
  owner pops both, the last one by a CAS that advances `top_`; the thief reads the
  new `top_`, thinks that one task is left, and its CAS claims the task which the
  owner popped first. There is a longer way to the same violation, which TLC
  reports when the owner is kept from popping: a thief has claimed a slot and not
  copied it, the owner's Push reuses the slot, and the new task is handed out
  twice.
* **TryPop's store and load are not ordered** (`spmc_queue.hpp:45`). A thief that
  still reads the old `bottom_` wins a task which the owner, having read the old
  `top_`, takes without a CAS.
* **A timer that falls due within the tick being scanned is re-chained**
  (`timer_keeper.hpp:165`) though it is no "Multi-round timer", and so is one
  whose slot the hand passed before it was chained. It is a turn late, 4096
  ticks of 10 ms; `AtMostOneTurnLate` shows that it is never later than that.
* **An IO thread is taken for a worker** (`executor.hpp:117`): it has the same
  `g_executor` and a small `g_thread_id`. Both then use the plain `lifo_slot`.
* **The first read has no stop token** (`timeput_awaiter.hpp:36`): the child
  starts before the token is set. A client that never sends is never closed.
* **A request to close is answered keep-alive** (`http/parser.hpp:122`). parse asks
  `llhttp_should_keep_alive` when `llhttp_execute` has returned, by which time the
  end of the message has cleared the flags; the answer then depends on the
  version alone. llhttp.h:698 says what it should be.
* **The timeout submits from a worker** (`service.hpp:66`) on a ring
  "Exclusively owned and driven by a single IO thread" (`context.hpp:21`).

## 4. Properties

`SPMCQueue`: `NoTaskTwice`, `NoTaskLost`, `ImplementsWorkDeque` (refinement of
`WorkDeque`; TakeHalf takes effect at its CAS, TryPop when it takes its task),
`NoEmptySlotHandedOut`, `OccupancyBounded`.
`TimerKeeper`: `NoDanglingEntry` (what CancelTimer and Run dereference is
allocated, mapped and chained where it belongs), `CanceledNeverDispatched`,
`PendingTimerHasOwnId` (the id is read after the lock is released; as long as the
timer is chained, the caller has its own), `AtMostOneTurnLate`, `EventuallyDispatched`, `CollectedIsDispatched`.
`Executor`: `EveryTaskInOnePlace`, `EveryTaskRuns`, `GlobalQueueServed`,
`StopReturns`.
`HttpConnection`: `CancelNamesLiveAwaiter` (the awaiters of a coroutine follow each
other at one address), `NothingAfterClose`, `StopReachesPending` (a stop that is
requested while the operation is being submitted, while the callback is being
constructed, or later cancels the operation all the same),
`EachRequestAnsweredOnce` (however the
requests of a client that waits are cut into reads, none is lost, answered twice
or rejected), `RequestAnswered` and `ServedConnectionCloses` (liveness), and the
three that the code violates: `KeepAliveAsAsked`, `IdleConnectionCloses`,
`RingDrivenByIoThread`.

Every property of a passing run has a mutant, an operator defined next to the
action it changes, under which TLC finds the property violated.

## 5. Fairness

* `TimerKeeper`: the timer thread, the clock, and calls of AddTimer and Stop that
  have begun go on (weak fairness). Start and Stop need not be called.
* `Executor`: each thread goes on (weak fairness per thread); a task's body ends
  (strong fairness of `FinishRun`, since scheduling another task disables it for
  a while). Nobody needs to schedule, start or stop anything. Waking is not
  assumed: `unpark` may do nothing, and the 100 microsecond timeout is a step of
  the worker.
* `HttpConnection`: the IO thread finishes what it began and comes to every
  completion although it also serves other connections, the worker runs the
  callback, the kernel completes a read that has data or an end, and a close (weak
  fairness of each). Nothing is assumed of the timer: what the timeout leads to is
  stated of a timer that is due. The client owes nothing, and a write it does not
  take need not complete. Accepts do not fail for ever (strong fairness of
  `Accept`, which a failed accept disables until it is armed again). Nothing is
  expected of an entry that a race left in the queue; what follows only if no
  submission is spoiled says so (`spoiled`).

## 6. Theorems

### The deque

For every capacity, every set of thieves and every number of tasks
(assumption `ConstantsOK` of `SPMCQueue`: the owner is no thief, the capacity is a
positive number):

* `SPMCQueueProofs`, however the deque is used: `TypeCorrect`, `OccupancyTheorem`,
  `NoEmptySlotTheorem`.
* `SPMCExactlyOnceProofs`, with the hypothesis `Contract` (thieves do not call
  TakeHalf, no store is delayed): `TaskHandedOutOnce` and `TaskNeverLost`. The two
  violation runs show that neither half of `Contract` can be dropped.
* `SPMCRefinementProofs`, with the same hypothesis: `DequeImplementsSequence`, the
  deque implements `WorkDeque` (`ImplementsWorkDeque`).

The argument. `OccupancyBounded` is not inductive: `Bounds` adds where `bottom_`,
`pending` and the owner's locals are at each step of an operation (in TryPop
`bottom_` is one below the end of the deque). For empty slots, `Slots` says that
every index below `top_`, `bottom_`, or what a thread has read of them has a
slot that was written once; slots are never emptied. For exactly-once, `Inv` says
that the slots of the held indices (`top_` to the end, and what TakeHalf has
claimed) hold pairwise different tasks that nobody has, and every other pushed
task was handed out once (`Exact`); that a thief about to CAS, if `top_` still
has the value it read, has read the task at `top_` (`ThievesSee`); and where
`top_` and `bottom_` are at each step (`Control`). One lemma says what taking
the task of one held index does to `Exact`, one what publishing does; two indices
less than a capacity apart have different slots (`SlotDistinct`), which is where
the bound on the occupancy is needed.

The refinement needs no stronger invariant. In a state of `Inv` the sequence is the
slots between `top_` and the end (`Between`), and a task that TakeHalf has claimed
counts as handed out. Lemmas about `Between` say what one index more or less at
the bottom, or n less at the top, do to it. Each action then is an abstract step or
changes nothing of the mapping: PushPublish is Add, PopTake and PopWin are
RemoveBottom, StealWin and HalfWin are RemoveTop of one and of half. Two of the
silent ones are not obvious: PushWrite writes a slot outside the sequence
(`SlotDistinct`), and HalfCopy hands out a task that counted already and that
no other claimed slot holds (`Exact`).

### The timing wheel

For every set of timers, number of slots, tick length and set of delays, and
however long the clock runs (assumption `ConstantsOK` of `TimerKeeper`: slots and
ticks are not empty, delays are not negative), `TimerKeeperProofs` proves
`TimerTypeCorrect`, `WheelWellFormed` (`NoDanglingEntry`), `CancelWins`
(`CanceledNeverDispatched`), `OwnIdWhilePending` (`PendingTimerHasOwnId`) and
`LateByOneTurn` (`AtMostOneTurnLate`).

The argument. `NoDanglingEntry` needs `Owned`: no entry is canceled before it is
chained, and what Run has collected is not chained any more. `AtMostOneTurnLate`
is not inductive, since it does not say where the hand has been. `NotPassed` does:
since the entry was inserted, the hand has not been at its slot in a tick after
its own. A scan keeps it because an entry left in a visited slot has
`expire_at > now`, so its tick is not before the current one (`DivMono`). It gives
the bound because any `kWheelSlots` consecutive ticks visit every slot
(`TurnVisits`): a hand further than a turn past the entry would have been there.

The proofs keep the model's bound `LastAdd`, as they keep every guard, and do not
use it: `Clock` and `AddCompute` preserve the invariant without their bounds.

### The executor

For every number of workers, IO and external threads, tasks, slots and check
interval, and every set of workloads (assumption `ConstantsOK` of `Executor`),
`ExecutorProofs` proves:

* `ExecutorTypeCorrect`, with `Len(queue[w]) <= Capacity` in it. The
  type invariant is not inductive: what a thread holds must agree with where it is
  (`Hands`), and Start must find every worker joined (`Joined`).
* With the hypothesis `NoIOThreads`: `TaskInOnePlace`
  (`EveryTaskInOnePlace`). The run `executor_io_thread` shows that the hypothesis
  cannot be dropped.

The argument. A task moves between places (global queue, slots, queues, inboxes,
hands, and the rest of a batch), and every action is one of a few moves: a task or a
section of a sequence from one place to another, into the executor, out of it.
`One` restates the property as three facts: what a place holds has no repetition, two
places have nothing in common, together they hold what is pending. One
lemma per kind of move (`Moved`, `MovedTwo`, `MovedThree`, `MovedIn`, `MovedOut`) says
that it keeps them, so that a lemma about an action only has to name its places.
The plain `lifo_slot` needs `Own`: whoever is in schedule's first case is a worker
dealing with its own Worker, the slot it found empty is still empty when it writes,
and the one it found full still holds that task when it clears it. This is where
`NoIOThreads` is used.

The theorem is about the executor over deques that keep their contract. As
`spmc_thief_takes_half` and `spmc_store_delay` show, `SPMCQueue` breaks the contract
as the executor uses it. `TaskInOnePlace` says that the executor's own steps, given
such deques, neither lose nor duplicate a task.

### The parser

For every buffer, whatever its blocks and pieces, `HttpParserProofs` proves:

* `PopFrontDrops`: pop_front drops exactly the first n pieces, whatever blocks they
  are in, and leaves no block empty;
* `ConsumedIsThere`: parse never reports more as consumed than there is;
* `OneRequestParsed`: however a single request is cut into blocks, parse asks for
  more until all of it is there, and then succeeds and consumes all of it.

The argument is induction over the blocks, and within a block over its pieces. The
induction theorems of the library take the predicate as an operator, which the
provers cannot instantiate; here a predicate is the set of the sequences it holds
of. `LeastNumber` (from the library's theorem about minimal elements) gives
`NumberInduction` and `SequenceInduction` for such sets. For the same reason the body
of a loop is a function, and `FoldEmpty` and `FoldAppend` say how `Fold` goes
through a sequence. `PopFrontDrops` needs the invariant `PoppedTo`, which relates what is
still to be dropped to what is kept; `OneRequestParsed` needs `Parsed`, which says where
llhttp is after no piece, the head, or the whole request.

### The connection

For every set of requests and every number of pieces (`ConstantsOK` of
`HttpConnection`), `HttpConnectionProofs` proves every invariant of the run
`connection`: `CancelOfLiveAwaiter` (`CancelNamesLiveAwaiter`), `NothingLeft`
(`NothingAfterClose`), `StopIsHeard` (`StopReachesPending`), `ConnectionTypeCorrect`
(`TypeOK`) and `RequestsAnsweredOnce` (`EachRequestAnsweredOnce`).

The argument has four invariants, each proved with the help of those before it.

* `Inv`, the control. `CallbackOfLive`: a stop callback exists only while its
  awaiter is suspended in a read or write, and the worker is canceling exactly
  while the callback runs, which the destructor of `cb_` waits for. `Settled`: the
  operation of an awaiter is out of the ring, and of its queue, when its coroutine
  goes on (one that is late has a suspended coroutine waiting for it), and the timer is canceled or collected when the coroutine has ended. Neither depends on
  what parse returns.
* `Heard`, the stop. `StopReachesPending` is not inductive: it says nothing of the
  time before the stop. `Heard` adds that until then an operation that pends, once its
  awaiter has been suspended, has its callback registered, so that RequestStop finds it.
* `Data`, the types, and where the data of a read are (`Reads`): a read that completed
  without data would append an empty block. It needs that pop_front leaves
  no block empty.
* `Served`, the requests of a client that waits. `EachRequestAnsweredOnce` speaks of
  counts and of a rejection. `Served` says why they agree: what has been sent and not
  consumed (in `read_buf`, in the read that completes, in the socket) is nothing, a
  head, or one whole request (`AtMostOneRequest`), and a client that has all responses
  has no request on its way (`Delivers`). `OneRequestParsed` then says what parse makes of
  it, and `PopFrontDrops` what is left.

## 7. Only model-checked

Liveness under fairness is outside the prover's reach: `EventuallyDispatched`,
`CollectedIsDispatched`, `EveryTaskRuns`, `GlobalQueueServed`, `StopReturns`,
`ServedConnectionCloses`, `RequestAnswered`. Two of the proved invariants are what is
hard in them: `AtMostOneTurnLate` for `EventuallyDispatched`, `StopReachesPending` for
`ServedConnectionCloses`.

Every invariant of a passing run is proved, with the hypotheses named above. One
question goes the other way: what happens when a queue of several slots
overflows while thieves empty it is beyond TLC's workloads, and only the theorem
`TaskInOnePlace` answers it.

## 8. Not modelled

Of the 2,100 lines of `src/include`, comments and declarations included, the
modules stand for about 710. Of the 72,000 vendored lines under `src/3rd_party`
they stand for some 400, those which decide when a message ends and what is left
of `read_buf`. The rest of that code has no part in what is specified here:

* `llhttp.c` is a generated state machine over single bytes. `HttpParser` has what
  the server can tell apart: whether a request ends, where, and with which flags.
* `butil`: reference counts, block allocation and the thread-local block cache of
  `IOBuf`; logging, files, strings, time and containers, none of which hold state of
  the server.
* The strings parse cuts out of a request, and the inline storage of
  `TypeErasedTask`: data, not control.
* A full submission queue: `GetSqe` returns null and no caller tests it.
* What else a submission garbled by two threads may do: make the kernel perform
  another operation than either meant, or one whose completion nobody hears of.
* Memory orders weaker than a store buffer in front of TryPop's store; in
  particular the relaxed load of `bottom_` in TakeHalf (`spmc_queue.hpp:89`), which a
  thief may perform, reads the current value here.
* Connections under a `Scheduler`, where `on_complete` schedules the coroutine on an
  executor while `await_suspend` may not have returned (`socket_awaiter.hpp:86`).
* Start and Stop of `Scheduler`, which join the same threads from two threads, and the
  lifecycle of `Context` and `Server`.
* The linked list of `IntrusiveSpinLockQueue`: each operation holds one lock, and
  `Executor` uses the FIFO that this gives.
* On which worker a task runs (`resume_on.hpp`): `Executor` does not record it.
* `SleepAwaiter` and `ResumeOnAwaiter`: one call each of operations modelled here.

## 9. What would come next

1. Connections under a `Scheduler`, composed with the executor.
2. `Scheduler`: Start and Stop, the joins, the order of the parts.
