------------------------------ MODULE SPMCQueue ------------------------------
(***************************************************************************)
(* The per-worker deque of src/include/ant_server/scheduler/spmc_queue.hpp *)
(* One action per access to the shared state (top_, bottom_, a slot of     *)
(* buffer_); a private computation belongs to the access that precedes it. *)
(*                                                                         *)
(* The owner runs Push, TryPop and TakeHalf.  A thief runs Steal and, when *)
(* ThiefTakesHalf, TakeHalf as well: the header calls TakeHalf an          *)
(* "Owner Thread ... operation", but steal_task in executor.hpp calls it   *)
(* on the victim's deque.                                                  *)
(*                                                                         *)
(* TryPop stores bottom_ (line 45, relaxed) and then loads top_ (line 46,  *)
(* acquire).  Neither C++ nor the x86 and ARM store buffers keep a store   *)
(* before a later load of another location, so with StoreDelay the store   *)
(* may stay in the owner's store buffer (`pending') and reach memory       *)
(* later.  With StoreDelay = FALSE the code runs under sequential          *)
(* consistency.                                                            *)
(***************************************************************************)
EXTENDS Integers, Sequences

CONSTANTS
  Owner,           \* the worker thread the deque belongs to
  Thieves,         \* the threads that steal from it
  kMaxSize,        \* capacity; the code masks an index, which for its power
                   \* of two is the remainder used here
  MaxTasks,        \* bound of the model: how many tasks the owner pushes
  ThiefTakesHalf,  \* do thieves call TakeHalf, as steal_task does?
  StoreDelay       \* may TryPop's first store be delayed past its load?

ASSUME ConstantsOK ==
  /\ Owner \notin Thieves
  /\ kMaxSize \in Nat \ {0}
  /\ MaxTasks \in Nat
  /\ ThiefTakesHalf \in BOOLEAN
  /\ StoreDelay \in BOOLEAN

Threads == {Owner} \cup Thieves

\* Task k is the node of the k-th successful push: an intrusive node is in at
\* most one queue, so no task is pushed again while the model runs.
Tasks == 1..MaxTasks

\* nullptr, the value of a slot that was never written.
NoTask == 0

\* `pending' when the owner's store buffer is empty (never a value of bottom_).
Drained == -2

VARIABLES
  buffer,   \* buffer_
  bottom,   \* bottom_
  top,      \* top_
  pending,  \* a store to bottom_ that has not reached memory, or Drained
  pushed,   \* history: tasks 1..pushed have been published
  taken,    \* history: how often each task was returned to a caller
  pc,       \* where each thread is in its operation
  b, t,     \* the locals b and t of each thread's operation
  item,     \* the local task of Steal
  left      \* TakeHalf: claimed slots not copied yet (t is the next of them)

vars == <<buffer, bottom, top, pending, pushed, taken, pc, b, t, item, left>>

PushPC  == {"push_write", "push_publish"}
PopPC   == {"pop_load", "pop_cas", "pop_restore"}
StealPC == {"steal_load", "steal_read", "steal_cas"}
HalfPC  == {"half_load", "half_cas", "half_copy"}
Labels  == {"idle"} \cup PushPC \cup PopPC \cup StealPC \cup HalfPC

Slot(i) == i % kMaxSize

Init ==
  /\ buffer = [s \in 0..(kMaxSize - 1) |-> NoTask]
  /\ bottom = 0
  /\ top = 0
  /\ pending = Drained
  /\ pushed = 0
  /\ taken = [k \in 0..MaxTasks |-> 0]
  /\ pc = [th \in Threads |-> "idle"]
  /\ b = [th \in Threads |-> 0]
  /\ t = [th \in Threads |-> 0]
  /\ item = [th \in Threads |-> NoTask]
  /\ left = [th \in Threads |-> 0]

\* A thread reads its own delayed store.
BottomSeenBy(th) == IF th = Owner /\ pending # Drained THEN pending ELSE bottom

Goto(th, label) == pc' = [pc EXCEPT ![th] = label]

\* The operation returns: its locals go out of scope.
Return(th) ==
  /\ pc' = [pc EXCEPT ![th] = "idle"]
  /\ b' = [b EXCEPT ![th] = 0]
  /\ t' = [t EXCEPT ![th] = 0]
  /\ item' = [item EXCEPT ![th] = NoTask]

HandOut(k) == taken' = [taken EXCEPT ![k] = @ + 1]

-----------------------------------------------------------------------------
(* Push.  A full deque makes Push return false, which changes nothing.     *)

\* Mutant of PushLoad: the full test lets one task too many in.
PushLoadOneTooMany ==
  /\ pc[Owner] = "idle"
  /\ pushed < MaxTasks
  /\ BottomSeenBy(Owner) - top <= kMaxSize
  /\ b' = [b EXCEPT ![Owner] = BottomSeenBy(Owner)]
  /\ Goto(Owner, "push_write")
  /\ UNCHANGED <<buffer, bottom, top, pending, pushed, taken, t, item, left>>

PushLoad ==
  /\ pc[Owner] = "idle"
  /\ pushed < MaxTasks
  /\ BottomSeenBy(Owner) - top < kMaxSize
  /\ b' = [b EXCEPT ![Owner] = BottomSeenBy(Owner)]
  /\ Goto(Owner, "push_write")
  /\ UNCHANGED <<buffer, bottom, top, pending, pushed, taken, t, item, left>>

\* The stores of one thread leave its store buffer in order, so the slot is
\* written after a delayed store of bottom_.
PushWrite ==
  /\ pc[Owner] = "push_write"
  /\ pending = Drained
  /\ buffer' = [buffer EXCEPT ![Slot(b[Owner])] = pushed + 1]
  /\ Goto(Owner, "push_publish")
  /\ UNCHANGED <<bottom, top, pending, pushed, taken, b, t, item, left>>

PushPublish ==
  /\ pc[Owner] = "push_publish"
  /\ bottom' = b[Owner] + 1
  /\ pushed' = pushed + 1
  /\ Return(Owner)
  /\ UNCHANGED <<buffer, top, pending, taken, left>>

-----------------------------------------------------------------------------
(* TryPop.                                                                 *)

PopStore ==
  /\ pc[Owner] = "idle"
  /\ pending = Drained
  /\ b' = [b EXCEPT ![Owner] = bottom - 1]
  /\ pending' = IF StoreDelay THEN bottom - 1 ELSE Drained
  /\ bottom' = IF StoreDelay THEN bottom ELSE bottom - 1
  /\ Goto(Owner, "pop_load")
  /\ UNCHANGED <<buffer, top, pushed, taken, t, item, left>>

\* The delayed store reaches memory.
Drain ==
  /\ pending # Drained
  /\ bottom' = pending
  /\ pending' = Drained
  /\ UNCHANGED <<buffer, top, pushed, taken, pc, b, t, item, left>>

\* Mutant of PopTake: the last task, too, is taken without a CAS.
PopTakeLastWithoutCAS ==
  /\ pc[Owner] = "pop_load"
  /\ top <= b[Owner]
  /\ HandOut(buffer[Slot(b[Owner])])
  /\ Return(Owner)
  /\ UNCHANGED <<buffer, bottom, top, pending, pushed, left>>

\* More than one task left: the owner takes the bottom one without a CAS.
PopTake ==
  /\ pc[Owner] = "pop_load"
  /\ top < b[Owner]
  /\ HandOut(buffer[Slot(b[Owner])])
  /\ Return(Owner)
  /\ UNCHANGED <<buffer, bottom, top, pending, pushed, left>>

PopLast ==
  /\ pc[Owner] = "pop_load"
  /\ top = b[Owner]
  /\ t' = [t EXCEPT ![Owner] = top]
  /\ Goto(Owner, "pop_cas")
  /\ UNCHANGED <<buffer, bottom, top, pending, pushed, taken, b, item, left>>

PopEmpty ==
  /\ pc[Owner] = "pop_load"
  /\ top > b[Owner]
  /\ Goto(Owner, "pop_restore")
  /\ UNCHANGED <<buffer, bottom, top, pending, pushed, taken, b, t, item, left>>

\* The CAS on top_; a locked instruction drains the store buffer first.
PopWin ==
  /\ pc[Owner] = "pop_cas"
  /\ pending = Drained
  /\ top = t[Owner]
  /\ top' = top + 1
  /\ HandOut(buffer[Slot(b[Owner])])
  /\ Goto(Owner, "pop_restore")
  /\ UNCHANGED <<buffer, bottom, pending, pushed, b, t, item, left>>

PopLose ==
  /\ pc[Owner] = "pop_cas"
  /\ pending = Drained
  /\ top # t[Owner]
  /\ Goto(Owner, "pop_restore")
  /\ UNCHANGED <<buffer, bottom, top, pending, pushed, taken, b, t, item, left>>

\* Mutant of PopRestore: bottom_ is left decremented.
PopRestoreForgotten ==
  /\ pc[Owner] = "pop_restore"
  /\ pending = Drained
  /\ bottom' = b[Owner]
  /\ Return(Owner)
  /\ UNCHANGED <<buffer, top, pending, pushed, taken, left>>

PopRestore ==
  /\ pc[Owner] = "pop_restore"
  /\ pending = Drained
  /\ bottom' = b[Owner] + 1
  /\ Return(Owner)
  /\ UNCHANGED <<buffer, top, pending, pushed, taken, left>>

-----------------------------------------------------------------------------
(* Steal.                                                                  *)

StealLoadTop(th) ==
  /\ pc[th] = "idle"
  /\ t' = [t EXCEPT ![th] = top]
  /\ Goto(th, "steal_load")
  /\ UNCHANGED <<buffer, bottom, top, pending, pushed, taken, b, item, left>>

StealLoadBottom(th) ==
  /\ pc[th] = "steal_load"
  /\ t[th] < bottom
  /\ Goto(th, "steal_read")
  /\ UNCHANGED <<buffer, bottom, top, pending, pushed, taken, b, t, item, left>>

StealEmpty(th) ==
  /\ pc[th] = "steal_load"
  /\ t[th] >= bottom
  /\ Return(th)
  /\ UNCHANGED <<buffer, bottom, top, pending, pushed, taken, left>>

StealRead(th) ==
  /\ pc[th] = "steal_read"
  /\ item' = [item EXCEPT ![th] = buffer[Slot(t[th])]]
  /\ Goto(th, "steal_cas")
  /\ UNCHANGED <<buffer, bottom, top, pending, pushed, taken, b, t, left>>

StealWin(th) ==
  /\ pc[th] = "steal_cas"
  /\ top = t[th]
  /\ top' = top + 1
  /\ HandOut(item[th])
  /\ Return(th)
  /\ UNCHANGED <<buffer, bottom, pending, pushed, left>>

\* compare_exchange_weak: it may fail although top_ still has the value.
StealLose(th) ==
  /\ pc[th] = "steal_cas"
  /\ Return(th)
  /\ UNCHANGED <<buffer, bottom, top, pending, pushed, taken, left>>

-----------------------------------------------------------------------------
(* TakeHalf, by the owner and, when ThiefTakesHalf, by a thief.            *)

HalfLoadBottom(th) ==
  /\ pc[th] = "idle"
  /\ b' = [b EXCEPT ![th] = BottomSeenBy(th)]
  /\ Goto(th, "half_load")
  /\ UNCHANGED <<buffer, bottom, top, pending, pushed, taken, t, item, left>>

\* Mutant of HalfLoadTop: the test for an empty deque is size < 0.
HalfLoadTopWhenEmpty(th) ==
  /\ pc[th] = "half_load"
  /\ b[th] - top >= 0
  /\ t' = [t EXCEPT ![th] = top]
  /\ Goto(th, "half_cas")
  /\ UNCHANGED <<buffer, bottom, top, pending, pushed, taken, b, item, left>>

HalfLoadTop(th) ==
  /\ pc[th] = "half_load"
  /\ b[th] - top > 0
  /\ t' = [t EXCEPT ![th] = top]
  /\ Goto(th, "half_cas")
  /\ UNCHANGED <<buffer, bottom, top, pending, pushed, taken, b, item, left>>

HalfEmpty(th) ==
  /\ pc[th] = "half_load"
  /\ b[th] - top <= 0
  /\ Return(th)
  /\ UNCHANGED <<buffer, bottom, top, pending, pushed, taken, left>>

\* Mutant of num_to_take: one task too many of a deque with several.
num_to_take_and_one(size) == IF size \div 2 = 0 THEN 1 ELSE size \div 2 + 1

num_to_take(size) == IF size \div 2 = 0 THEN 1 ELSE size \div 2

HalfWin(th) ==
  /\ pc[th] = "half_cas"
  /\ th = Owner => pending = Drained
  /\ top = t[th]
  /\ top' = top + num_to_take(b[th] - t[th])
  /\ left' = [left EXCEPT ![th] = num_to_take(b[th] - t[th])]
  /\ Goto(th, "half_copy")
  /\ UNCHANGED <<buffer, bottom, pending, pushed, taken, b, t, item>>

HalfLose(th) ==
  /\ pc[th] = "half_cas"
  /\ th = Owner => pending = Drained
  /\ top # t[th]
  /\ Return(th)
  /\ UNCHANGED <<buffer, bottom, top, pending, pushed, taken, left>>

\* Mutant of HalfCopy: the loop runs for i <= num_to_take.
HalfCopyOneTooMany(th) ==
  /\ pc[th] = "half_copy"
  /\ left[th] >= 0
  /\ HandOut(buffer[Slot(t[th])])
  /\ t' = [t EXCEPT ![th] = @ + 1]
  /\ left' = [left EXCEPT ![th] = @ - 1]
  /\ UNCHANGED <<buffer, bottom, top, pending, pushed, pc, b, item>>

\* out_batch[i] = buffer_[(t + i) & kMask], one slot per step.
HalfCopy(th) ==
  /\ pc[th] = "half_copy"
  /\ left[th] > 0
  /\ HandOut(buffer[Slot(t[th])])
  /\ t' = [t EXCEPT ![th] = @ + 1]
  /\ left' = [left EXCEPT ![th] = @ - 1]
  /\ UNCHANGED <<buffer, bottom, top, pending, pushed, pc, b, item>>

HalfReturn(th) ==
  /\ pc[th] = "half_copy"
  /\ left[th] = 0
  /\ Return(th)
  /\ UNCHANGED <<buffer, bottom, top, pending, pushed, taken, left>>

-----------------------------------------------------------------------------
TakeHalf(th) ==
  \/ HalfLoadBottom(th) \/ HalfLoadTop(th) \/ HalfEmpty(th)
  \/ HalfWin(th) \/ HalfLose(th) \/ HalfCopy(th) \/ HalfReturn(th)

Steal(th) ==
  \/ StealLoadTop(th) \/ StealLoadBottom(th) \/ StealEmpty(th)
  \/ StealRead(th) \/ StealWin(th) \/ StealLose(th)

Push == PushLoad \/ PushWrite \/ PushPublish

TryPop == 
  \/ PopStore \/ PopTake \/ PopLast \/ PopEmpty
  \/ PopWin \/ PopLose \/ PopRestore

Next ==
  \/ Push
  \/ TryPop
  \/ Drain
  \/ TakeHalf(Owner)
  \/ \E th \in Thieves : Steal(th)
  \/ ThiefTakesHalf /\ \E th \in Thieves : TakeHalf(th)

Spec == Init /\ [][Next]_vars

-----------------------------------------------------------------------------
(* Properties.                                                             *)

\* The types of the variables: in particular no index of top_ or of a copy loop
\* goes below zero.
TypeOK ==
  /\ buffer \in [0..(kMaxSize - 1) -> 0..MaxTasks]
  /\ bottom \in Int
  /\ top \in Nat
  /\ pending \in Int
  /\ pushed \in 0..MaxTasks
  /\ taken \in [0..MaxTasks -> Nat]
  /\ pc \in [Threads -> Labels]
  /\ b \in [Threads -> Int]
  /\ t \in [Threads -> Nat]
  /\ item \in [Threads -> 0..MaxTasks]
  /\ left \in [Threads -> Nat]

\* The indices TakeHalf of thread th has won and not copied yet.
Claimed(th) == t[th]..(t[th] + left[th] - 1)

BeingCopied(k) ==
  \E th \in Threads : \E i \in Claimed(th) : buffer[Slot(i)] = k

\* The deque's tasks are at the indices top .. LiveEnd - 1: a TryPop that has
\* stored bottom_ has not removed its task before it returns.
LiveEnd == IF pc[Owner] \in PopPC THEN b[Owner] + 1 ELSE BottomSeenBy(Owner)

\* No task is returned to two callers, so WorkerLoop resumes no coroutine
\* twice: TryPop without a CAS (line 49), TryPop's CAS against a thief's CAS
\* for the last task (lines 52 and 71), and TakeHalf (line 101).
NoTaskTwice == \A k \in Tasks : taken[k] <= 1

\* A task whose Push returned true has been returned to a caller, is still
\* between top_ and bottom_, or is in the range a TakeHalf is copying: no
\* interleaving drops it or overwrites its slot.
NoTaskLost ==
  \A k \in 1..pushed :
    \/ taken[k] > 0
    \/ \E i \in top..(LiveEnd - 1) : buffer[Slot(i)] = k
    \/ BeingCopied(k)

\* TakeHalf and TryPop never hand out a slot that no Push has written: the
\* callers dereference what they get (batch[i]->next, task->run()).  Holds
\* also with thieves calling TakeHalf and TryPop's store delayed.  A slot is
\* never emptied, so a task handed out again is NoTaskTwice's concern.
NoEmptySlotHandedOut == taken[NoTask] = 0

\* Push decides "not full" on a top_ that may already be stale, and TryPop's
\* store may be delayed: still, there are never more than kMaxSize tasks
\* between top_ and bottom_, so Push overwrites no task that is not claimed.
OccupancyBounded == bottom - top <= kMaxSize

\* The deque as a sequence, with TakeHalf's tasks handed out when it wins
\* its CAS.
Deque == INSTANCE WorkDeque WITH
  Capacity  <- kMaxSize,
  dq        <- [i \in 1..(LiveEnd - top) |-> buffer[Slot(top + i - 1)]],
  added     <- pushed,
  handedOut <- [k \in Tasks |-> taken[k] + IF BeingCopied(k) THEN 1 ELSE 0]

\* Every operation appears to happen at one instant: LIFO for the owner, FIFO
\* for thieves, half (at least one) for TakeHalf.
ImplementsWorkDeque == Deque!Spec
=============================================================================
