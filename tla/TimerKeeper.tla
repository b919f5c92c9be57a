----------------------------- MODULE TimerKeeper -----------------------------
(***************************************************************************)
(* The hashed timing wheel of scheduler/timer_keeper.hpp: AddTimer and     *)
(* CancelTimer run on any thread, Run on the timer thread.  Everything     *)
(* under mu_ is one action; what runs outside mu_ (computing the slot,     *)
(* reading entry->id for the return value, dispatching expired tasks) is   *)
(* an action of its own.                                                   *)
(*                                                                         *)
(* Time advances in the finest unit the clock can tell apart; a tick has   *)
(* kTickMs of them.  A bucket is a set: the code chains a bucket's entries *)
(* in some order, and no property depends on it.                           *)
(***************************************************************************)
EXTENDS Integers, FiniteSets

CONSTANTS
  Timers,       \* the entries: one per call of AddTimer
  kWheelSlots,  \* slots of the wheel (4096 in the code)
  kTickMs,      \* clock units per tick
  Delays,       \* the delays callers ask for
  LastAdd,      \* bound of the model: no AddTimer starts after this time
  MaxTime,      \* bound of the model: the clock stops here
  MaxStarts     \* bound of the model: how often Start is called

ASSUME ConstantsOK ==
  /\ kWheelSlots \in Nat \ {0}
  /\ kTickMs \in Nat \ {0}
  /\ Delays \subseteq Nat
  /\ LastAdd \in Nat /\ MaxTime \in Nat /\ MaxStarts \in Nat

Slots == 0..(kWheelSlots - 1)

VARIABLES
  now,        \* steady_clock::now() - start_time_
  buckets,    \* buckets_: the entries chained in each slot
  task_map,   \* task_map_: the ids that CancelTimer finds
  last_tick,  \* last_tick_
  running,    \* running_
  starts,     \* how often Start created the thread
  pc,         \* where the timer thread is
  expired,    \* Run's list expired_head
  phase,      \* the life of each entry
  expire_at,  \* entry->expire_at
  canceled,   \* entry->canceled
  handle,     \* the id AddTimer returned, NoId before
  inserted    \* history: last_tick_ when the entry was inserted

wheel == <<buckets, task_map, last_tick, expired, phase, canceled>>
vars == <<now, buckets, task_map, last_tick, running, starts, pc, expired,
          phase, expire_at, canceled, handle, inserted>>

NoId == 0

Phases == {"unused", "computed", "chained", "expired", "dispatched", "deleted"}

\* Is the entry still allocated?  Run deletes it when it expires or is reaped.
Allocated(i) == phase[i] \in {"computed", "chained"}

target_tick(i) == expire_at[i] \div kTickMs
slot(k) == k % kWheelSlots

Init ==
  /\ now = 0
  /\ buckets = [s \in Slots |-> {}]
  /\ task_map = {}
  /\ last_tick = 0
  /\ running = FALSE
  /\ starts = 0
  /\ pc = "off"
  /\ expired = {}
  /\ phase = [i \in Timers |-> "unused"]
  /\ expire_at = [i \in Timers |-> 0]
  /\ canceled = [i \in Timers |-> FALSE]
  /\ handle = [i \in Timers |-> NoId]
  /\ inserted = [i \in Timers |-> 0]

-----------------------------------------------------------------------------
(* AddTimer and CancelTimer, on the caller's thread.                       *)

\* Mutant of AddCompute: the delay is subtracted.
AddComputeBackwards(i, delay) ==
  /\ phase[i] = "unused"
  /\ now <= LastAdd
  /\ phase' = [phase EXCEPT ![i] = "computed"]
  /\ expire_at' = [expire_at EXCEPT ![i] = now - delay]
  /\ UNCHANGED <<now, buckets, task_map, last_tick, running, starts, pc,
                 expired, canceled, handle, inserted>>

\* add_internal before it locks: a fresh id, expire_at, and from it the slot.
AddCompute(i, delay) ==
  /\ phase[i] = "unused"
  /\ now <= LastAdd
  /\ phase' = [phase EXCEPT ![i] = "computed"]
  /\ expire_at' = [expire_at EXCEPT ![i] = now + delay]
  /\ UNCHANGED <<now, buckets, task_map, last_tick, running, starts, pc,
                 expired, canceled, handle, inserted>>

\* Under mu_: chain the entry, map its id, signal.  A signalled wait ends like
\* one that timed out, so Wake covers it.
AddInsert(i) ==
  /\ phase[i] = "computed"
  /\ buckets' = [buckets EXCEPT ![slot(target_tick(i))] = @ \cup {i}]
  /\ task_map' = task_map \cup {i}
  /\ phase' = [phase EXCEPT ![i] = "chained"]
  /\ inserted' = [inserted EXCEPT ![i] = last_tick]
  /\ UNCHANGED <<now, last_tick, running, starts, pc, expired, expire_at,
                 canceled, handle>>

\* Mutant of AddReturn: the id is read back from what all callers share, where
\* another call's may be by then.
AddReturnShared(i) ==
  /\ phase[i] \notin {"unused", "computed"}
  /\ handle[i] = NoId
  /\ \E id \in {j \in Timers : j = i \/ Allocated(j)} :
       handle' = [handle EXCEPT ![i] = id]
  /\ UNCHANGED <<now, buckets, task_map, last_tick, running, starts, pc,
                 expired, phase, expire_at, canceled, inserted>>

\* return entry->id, read after mu_ is released.  If Run has deleted the entry
\* by then, the memory may have become the entry of another AddTimer.
AddReturn(i) ==
  /\ phase[i] \notin {"unused", "computed"}
  /\ handle[i] = NoId
  /\ \E id \in IF Allocated(i) THEN {i} ELSE {j \in Timers : j = i \/ Allocated(j)} :
       handle' = [handle EXCEPT ![i] = id]
  /\ UNCHANGED <<now, buckets, task_map, last_tick, running, starts, pc,
                 expired, phase, expire_at, canceled, inserted>>

\* Mutant of CancelTimer: it marks the entry without looking the id up.
CancelTimerUnmapped(i) ==
  /\ handle[i] # NoId
  /\ canceled' = [canceled EXCEPT ![handle[i]] = TRUE]
  /\ task_map' = task_map \ {handle[i]}
  /\ UNCHANGED <<now, buckets, last_tick, running, starts, pc, expired, phase,
                 expire_at, handle, inserted>>

\* CancelTimer with the id the caller got; an id that is not mapped (it has
\* expired) is ignored.
CancelTimer(i) ==
  /\ handle[i] # NoId
  /\ handle[i] \in task_map
  /\ canceled' = [canceled EXCEPT ![handle[i]] = TRUE]
  /\ task_map' = task_map \ {handle[i]}
  /\ UNCHANGED <<now, buckets, last_tick, running, starts, pc, expired, phase,
                 expire_at, handle, inserted>>

-----------------------------------------------------------------------------
(* The timer thread.                                                       *)

current_tick == now \div kTickMs

\* Mutant of Visited: the hand jumps to the current tick.
VisitedCurrentOnly == {slot(current_tick)}

\* The slots from last_tick_ up to current_tick, and the entries in them.
Visited == {slot(k) : k \in last_tick..current_tick}
Scanned == UNION {buckets[s] : s \in Visited}

\* An entry is deleted if canceled, collected if its time has come, and
\* chained back into its slot otherwise.
Reaped == {i \in Scanned : canceled[i]}
Due == {i \in Scanned : ~canceled[i] /\ expire_at[i] <= now}

\* Mutant of Scan: an expired id stays in task_map_.
ScanKeepsIds ==
  /\ pc = "scan"
  /\ running
  /\ buckets' = [s \in Slots |-> buckets[s] \ (Reaped \cup Due)]
  /\ phase' = [i \in Timers |-> IF i \in Reaped THEN "deleted"
                               ELSE IF i \in Due THEN "expired" ELSE phase[i]]
  /\ last_tick' = IF last_tick <= current_tick THEN current_tick + 1 ELSE last_tick
  /\ expired' = Due
  /\ pc' = IF Due = {} THEN "wait" ELSE "dispatch"
  /\ UNCHANGED <<now, task_map, running, starts, expire_at, canceled, handle,
                 inserted>>

\* One pass of Run under mu_.
Scan ==
  /\ pc = "scan"
  /\ running
  /\ buckets' = [s \in Slots |-> buckets[s] \ (Reaped \cup Due)]
  /\ task_map' = task_map \ Due
  /\ phase' = [i \in Timers |-> IF i \in Reaped THEN "deleted"
                               ELSE IF i \in Due THEN "expired" ELSE phase[i]]
  /\ last_tick' = IF last_tick <= current_tick THEN current_tick + 1 ELSE last_tick
  /\ expired' = Due
  /\ pc' = IF Due = {} THEN "wait" ELSE "dispatch"
  /\ UNCHANGED <<now, running, starts, expire_at, canceled, handle, inserted>>

\* Mutant of Wake: the wait has no timeout and only Stop signals.
WakeOnStop ==
  /\ pc = "wait"
  /\ ~running
  /\ pc' = "scan"
  /\ UNCHANGED <<now, wheel, running, starts, expire_at, handle, inserted>>

\* cv_.WaitWithTimeout ends: timeout, signal or spurious wakeup.
Wake ==
  /\ pc = "wait"
  /\ pc' = "scan"
  /\ UNCHANGED <<now, wheel, running, starts, expire_at, handle, inserted>>

\* Mutant of Dispatch: the loop over expired_head ends when Stop is called.
DispatchWhileRunning(i) ==
  /\ pc = "dispatch"
  /\ running
  /\ i \in expired
  /\ expired' = expired \ {i}
  /\ phase' = [phase EXCEPT ![i] = "dispatched"]
  /\ pc' = IF expired = {i} THEN "scan" ELSE "dispatch"
  /\ UNCHANGED <<now, buckets, task_map, last_tick, running, starts, expire_at,
                 canceled, handle, inserted>>

\* executor_.schedule of one expired task, outside mu_.
Dispatch(i) ==
  /\ pc = "dispatch"
  /\ i \in expired
  /\ expired' = expired \ {i}
  /\ phase' = [phase EXCEPT ![i] = "dispatched"]
  /\ pc' = IF expired = {i} THEN "scan" ELSE "dispatch"
  /\ UNCHANGED <<now, buckets, task_map, last_tick, running, starts, expire_at,
                 canceled, handle, inserted>>

\* Run sees running_ = false, before or after it locks.
Exit ==
  /\ pc = "scan"
  /\ ~running
  /\ pc' = "done"
  /\ UNCHANGED <<now, wheel, running, starts, expire_at, handle, inserted>>

-----------------------------------------------------------------------------
(* Start and Stop, by the thread that owns the keeper.                     *)

Start ==
  /\ pc = "off"
  /\ starts < MaxStarts
  /\ running' = TRUE
  /\ starts' = starts + 1
  /\ pc' = "scan"
  /\ UNCHANGED <<now, wheel, expire_at, handle, inserted>>

StopRequest ==
  /\ running
  /\ running' = FALSE
  /\ UNCHANGED <<now, wheel, starts, pc, expire_at, handle, inserted>>

\* Stop's thread_.join() returns.
StopJoin ==
  /\ pc = "done"
  /\ pc' = "off"
  /\ UNCHANGED <<now, wheel, running, starts, expire_at, handle, inserted>>

\* Time passes.  A call of AddTimer that has computed its slot is not delayed
\* beyond LastAdd: the clock is bounded, and the bound leaves a full turn of
\* the wheel after that.
Clock ==
  /\ now < MaxTime
  /\ now < LastAdd \/ \A i \in Timers : phase[i] # "computed"
  /\ now' = now + 1
  /\ UNCHANGED <<wheel, running, starts, pc, expire_at, handle, inserted>>

Run == Scan \/ Wake \/ Exit \/ \E i \in Timers : Dispatch(i)

Next ==
  \/ \E i \in Timers : \E delay \in Delays : AddCompute(i, delay)
  \/ \E i \in Timers : AddInsert(i) \/ AddReturn(i) \/ CancelTimer(i)
  \/ Run
  \/ Start \/ StopRequest \/ StopJoin
  \/ Clock

Spec == Init /\ [][Next]_vars

\* The timer thread keeps running, the clock keeps going, and a call of
\* AddTimer or Stop that has begun goes on.
Fairness ==
  /\ WF_vars(Run)
  /\ WF_vars(Clock)
  /\ WF_vars(StopJoin)
  /\ \A i \in Timers : WF_vars(AddInsert(i)) /\ WF_vars(AddReturn(i))

FairSpec == Spec /\ Fairness

-----------------------------------------------------------------------------
(* Properties.                                                             *)

\* The types of the variables.
TypeOK ==
  /\ now \in Nat
  /\ buckets \in [Slots -> SUBSET Timers]
  /\ task_map \subseteq Timers
  /\ last_tick \in Nat
  /\ running \in BOOLEAN
  /\ starts \in Nat
  /\ pc \in {"off", "scan", "wait", "dispatch", "done"}
  /\ expired \subseteq Timers
  /\ phase \in [Timers -> Phases]
  /\ expire_at \in [Timers -> Nat]
  /\ canceled \in [Timers -> BOOLEAN]
  /\ handle \in [Timers -> Timers \cup {NoId}]
  /\ inserted \in [Timers -> Nat]

\* The pointers CancelTimer follows and Run chains are valid: a mapped id is
\* the id of an allocated entry that is not canceled, a chained entry is in
\* exactly the slot of its tick, and no deleted entry is in any slot.
NoDanglingEntry ==
  /\ task_map = {i \in Timers : phase[i] = "chained" /\ ~canceled[i]}
  /\ \A s \in Slots :
       buckets[s] = {i \in Timers : phase[i] = "chained" /\ slot(target_tick(i)) = s}

\* A timer that CancelTimer found is never dispatched, and one is dispatched
\* only after its delay: Run erases the id under the same mu_ under which it
\* decides to dispatch.
CanceledNeverDispatched ==
  \A i \in Timers : phase[i] \in {"expired", "dispatched"} =>
    ~canceled[i] /\ expire_at[i] <= now

\* Whoever holds an id for a timer that is still in the wheel holds that timer's
\* own and can cancel it.  The unlocked read of entry->id returns another
\* timer's id only to a caller whose own timer Run has already taken out.
PendingTimerHasOwnId ==
  \A i \in Timers : phase[i] = "chained" => handle[i] \in {NoId, i}

\* The hand never gets more than one turn past an entry that is due: past the
\* tick after its own, or past the position it had when the entry came in
\* (the slot is computed before mu_ is taken, so the hand may be further).
AtMostOneTurnLate ==
  \A i \in Timers : phase[i] = "chained" =>
    \/ last_tick <= target_tick(i) + kWheelSlots
    \/ last_tick < inserted[i] + kWheelSlots

\* While the keeper runs, every chained timer is dispatched, unless it is
\* canceled or the keeper is stopped.
EventuallyDispatched ==
  \A i \in Timers :
    phase[i] = "chained" /\ ~canceled[i] ~>
      phase[i] = "dispatched" \/ canceled[i] \/ ~running

\* What Run has collected is dispatched even if Stop comes in between: the
\* loop over expired_head does not look at running_.
CollectedIsDispatched ==
  \A i \in Timers : phase[i] = "expired" ~> phase[i] = "dispatched"

\* "Multi-round timer: re-chain to remaining list for this slot": what stays
\* chained behind the hand has rounds to go, so its tick is still ahead.
OnlyMultiRoundStays ==
  \A i \in Timers :
    phase[i] = "chained" /\ ~canceled[i] => last_tick <= target_tick(i)
=============================================================================
