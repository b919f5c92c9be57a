------------------------- MODULE TimerKeeperProofs -------------------------
(***************************************************************************)
(* Proofs about the timing wheel, for every number of timers and slots,    *)
(* every tick length and all delays: type correctness, NoDanglingEntry,    *)
(* CanceledNeverDispatched, PendingTimerHasOwnId and AtMostOneTurnLate.    *)
(***************************************************************************)
EXTENDS TimerKeeper, DivisionLemmas, TLAPS

-----------------------------------------------------------------------------
(* The inductive invariant.                                                *)

\* Only a chained entry is ever marked as canceled, and Run's list holds
\* entries that it has unchained.
Owned ==
  /\ \A i \in Timers : phase[i] \in {"unused", "computed"} => ~canceled[i]
  /\ \A i \in expired : phase[i] = "expired"

\* Since an entry was inserted, the hand has not been at its slot in a tick
\* after its own: there the scan would have found it due.
NotPassed ==
  \A i \in Timers : \A k \in Nat :
    /\ phase[i] = "chained"
    /\ slot(k) = slot(target_tick(i)) /\ k > target_tick(i) /\ k >= inserted[i]
    => k >= last_tick

Inv == TypeOK /\ Owned /\ NoDanglingEntry /\ CanceledNeverDispatched /\ NotPassed

-----------------------------------------------------------------------------
(* Ticks and slots are numbers.                                            *)

\* The hand's tick.
LEMMA CurrentTickType == ASSUME TypeOK PROVE current_tick \in Nat
  BY Zenon, ConstantsOK, DivModType DEF TypeOK, current_tick

\* The tick of an entry.
LEMMA TargetTickType ==
  ASSUME TypeOK, NEW i \in Timers PROVE target_tick(i) \in Nat
  BY ConstantsOK, DivModType DEF TypeOK, target_tick

\* The slot of a tick is a slot of the wheel.
LEMMA SlotType == ASSUME NEW k \in Nat PROVE slot(k) \in Slots
  BY ConstantsOK, DivModType DEF slot, Slots

-----------------------------------------------------------------------------
(* What the scan does, entry by entry.                                     *)

\* An entry the scan leaves chained keeps its phase; one that is gone was
\* canceled or due.
LEMMA ScanEffect ==
  ASSUME TypeOK, Scan, NEW i \in Timers
  PROVE  /\ i \in Reaped => phase'[i] = "deleted"
         /\ i \in Due => phase'[i] = "expired"
         /\ i \notin Reaped \cup Due => phase'[i] = phase[i]
         /\ ~(i \in Reaped /\ i \in Due)
  BY DEF Scan, Reaped, Due

\* The entries the scan sees are the chained ones in the slots it visits.
LEMMA ScannedChained ==
  ASSUME TypeOK, NoDanglingEntry, NEW i \in Scanned
  PROVE  i \in Timers /\ phase[i] = "chained"
  <1>1. \A k \in Nat : slot(k) \in Slots BY SlotType
  <1>2. Visited \subseteq Slots
    <2>1. last_tick..current_tick \subseteq Nat BY CurrentTickType DEF TypeOK
    <2>2. QED BY <1>1, <2>1 DEF Visited
  <1>3. QED BY <1>2 DEF Scanned, NoDanglingEntry

\* What the scan deletes or collects was chained.
LEMMA GoneWasChained ==
  ASSUME TypeOK, NoDanglingEntry, NEW i \in Reaped \cup Due
  PROVE  i \in Timers /\ phase[i] = "chained"
  BY ScannedChained DEF Reaped, Due

\* After the scan the hand is past the current tick, or where it was.
LEMMA ScanHand ==
  ASSUME TypeOK, Scan
  PROVE  /\ last_tick' \in Nat
         /\ \A k \in Nat : k >= last_tick /\ k < last_tick' => k <= current_tick
  <1>1. current_tick \in Nat /\ last_tick \in Nat BY CurrentTickType DEF TypeOK
  <1>2. CASE last_tick <= current_tick
    <2>1. last_tick' = current_tick + 1 BY <1>2 DEF Scan
    <2>2. QED BY <1>1, <2>1
  <1>3. CASE ~(last_tick <= current_tick)
    <2>1. last_tick' = last_tick BY <1>3 DEF Scan
    <2>2. QED BY <1>1, <2>1
  <1>4. QED BY <1>2, <1>3

-----------------------------------------------------------------------------
(* One lemma per group of actions.                                         *)

\* What NotPassed says of an entry is kept by a step that leaves the hand and
\* the chained entries alone.
LEMMA NotPassedFrame ==
  ASSUME NotPassed, last_tick' = last_tick,
         \A i \in Timers : phase'[i] = "chained" =>
           /\ phase[i] = "chained"
           /\ expire_at'[i] = expire_at[i]
           /\ inserted'[i] = inserted[i]
  PROVE  NotPassed'
  BY DEF NotPassed, target_tick, slot

\* The steps that change neither an entry nor the wheel: those of Start and
\* Stop, the waits of the timer thread, the return of AddTimer and the clock.
LEMMA QuietStep ==
  ASSUME Inv,
         \/ \E i \in Timers : AddReturn(i)
         \/ Wake \/ Exit \/ Start \/ StopRequest \/ StopJoin \/ Clock
         \/ UNCHANGED vars
  PROVE  Inv'
  <1>1. TypeOK /\ Owned /\ NoDanglingEntry /\ CanceledNeverDispatched /\ NotPassed
    BY DEF Inv
  <1>2. UNCHANGED <<wheel, expire_at, inserted>>
    BY DEF AddReturn, Wake, Exit, Start, StopRequest, StopJoin, Clock, vars, wheel
  <1>3. TypeOK'
    <2>1. CASE \E i \in Timers : AddReturn(i)
      BY <1>1, <2>1 DEF TypeOK, AddReturn, Allocated
    <2>2. CASE Wake \/ Exit \/ StopJoin \/ UNCHANGED vars
      BY <1>1, <2>2 DEF TypeOK, Wake, Exit, StopJoin, vars, wheel
    <2>3. CASE Start \/ StopRequest
      <3>1. starts' \in Nat BY <1>1, <2>3 DEF TypeOK, Start, StopRequest
      <3>2. running' \in BOOLEAN BY Zenon, <2>3 DEF Start, StopRequest
      <3>3. UNCHANGED <<now, wheel, expire_at, handle, inserted>>
        BY <2>3 DEF Start, StopRequest
      <3>4. pc' \in {"scan", pc} BY <2>3 DEF Start, StopRequest
      <3>5. QED BY <1>1, <3>1, <3>2, <3>3, <3>4 DEF TypeOK, wheel
    <2>4. CASE Clock BY <1>1, <2>4 DEF TypeOK, Clock, wheel
    <2>5. QED BY <2>1, <2>2, <2>3, <2>4
  <1>4. Owned' BY <1>1, <1>2 DEF Owned, wheel
  <1>5. NoDanglingEntry' BY <1>1, <1>2 DEF NoDanglingEntry, wheel, target_tick, slot
  <1>6. CanceledNeverDispatched'
    <2>1. now' \in Nat /\ now' >= now
      BY <1>1 DEF TypeOK, AddReturn, Wake, Exit, Start, StopRequest, StopJoin,
                  Clock, vars
    <2>2. now \in Nat /\ \A i \in Timers : expire_at[i] \in Nat
      BY <1>1 DEF TypeOK
    <2>3. QED BY <1>1, <1>2, <2>1, <2>2 DEF CanceledNeverDispatched, wheel
  <1>7. NotPassed' BY <1>1, <1>2, NotPassedFrame DEF wheel
  <1>8. QED BY <1>3, <1>4, <1>5, <1>6, <1>7 DEF Inv

\* AddTimer before it locks.
LEMMA AddComputeStep ==
  ASSUME Inv, NEW i \in Timers, NEW delay \in Delays, AddCompute(i, delay)
  PROVE  Inv'
  <1>1. TypeOK /\ Owned /\ NoDanglingEntry /\ CanceledNeverDispatched /\ NotPassed
    BY DEF Inv
  <1>2. now + delay \in Nat BY <1>1, ConstantsOK DEF TypeOK
  <1>3. TypeOK' BY <1>1, <1>2 DEF TypeOK, AddCompute, Phases
  <1>4. /\ phase[i] = "unused" /\ phase'[i] = "computed"
        /\ \A j \in Timers : j # i => phase'[j] = phase[j] /\ expire_at'[j] = expire_at[j]
    BY <1>1 DEF TypeOK, AddCompute
  <1>5. UNCHANGED <<now, buckets, task_map, last_tick, expired, canceled, inserted>>
    BY DEF AddCompute
  <1>6. Owned'
    <2>1. expired \subseteq Timers BY <1>1 DEF TypeOK
    <2>2. QED BY <1>1, <1>4, <1>5, <2>1 DEF Owned
  <1>7. \A j \in Timers : (phase'[j] = "chained") <=> (phase[j] = "chained")
    BY <1>4
  <1>8. \A j \in Timers : phase[j] = "chained" => expire_at'[j] = expire_at[j]
    BY <1>4
  <1>9. NoDanglingEntry'
    BY <1>1, <1>5, <1>7, <1>8 DEF NoDanglingEntry, target_tick, slot
  <1>10. CanceledNeverDispatched' BY <1>1, <1>4, <1>5 DEF CanceledNeverDispatched
  <1>11. NotPassed' BY <1>1, <1>5, <1>7, <1>8, NotPassedFrame
  <1>12. QED BY <1>3, <1>6, <1>9, <1>10, <1>11 DEF Inv

\* AddTimer under mu_.
LEMMA AddInsertStep ==
  ASSUME Inv, NEW i \in Timers, AddInsert(i)
  PROVE  Inv'
  <1>1. TypeOK /\ Owned /\ NoDanglingEntry /\ CanceledNeverDispatched /\ NotPassed
    BY DEF Inv
  <1>2. slot(target_tick(i)) \in Slots BY <1>1, TargetTickType, SlotType
  <1>3. TypeOK' BY <1>1, <1>2 DEF TypeOK, AddInsert, Phases
  <1>4. /\ phase[i] = "computed" /\ phase'[i] = "chained"
        /\ \A j \in Timers : j # i => phase'[j] = phase[j] /\ inserted'[j] = inserted[j]
        /\ inserted'[i] = last_tick
    BY <1>1 DEF TypeOK, AddInsert
  <1>5. UNCHANGED <<now, last_tick, expired, expire_at, canceled>> BY DEF AddInsert
  <1>6. Owned'
    <2>1. expired \subseteq Timers BY <1>1 DEF TypeOK
    <2>2. QED BY <1>1, <1>4, <1>5, <2>1 DEF Owned
  <1>7. NoDanglingEntry'
    <2>1. ~canceled[i] BY <1>1, <1>4 DEF Owned
    <2>2. task_map' = {j \in Timers : phase'[j] = "chained" /\ ~canceled'[j]}
      BY <1>1, <1>4, <1>5, <2>1 DEF NoDanglingEntry, AddInsert
    <2>3. ASSUME NEW s \in Slots
          PROVE  buckets'[s] = {j \in Timers :
                   phase'[j] = "chained" /\ slot(target_tick(j)) = s}
      <3>1. buckets[s] = {j \in Timers :
              phase[j] = "chained" /\ slot(target_tick(j)) = s}
        BY <1>1 DEF NoDanglingEntry
      <3>2. buckets'[s] = IF s = slot(target_tick(i)) THEN buckets[s] \cup {i}
                          ELSE buckets[s]
        BY Zenon, <1>1, <1>2 DEF TypeOK, AddInsert
      <3>3. QED BY <1>4, <3>1, <3>2
    <2>4. \A j \in Timers : slot(target_tick(j))' = slot(target_tick(j))
      BY <1>5 DEF slot, target_tick
    <2>5. QED BY <2>2, <2>3, <2>4 DEF NoDanglingEntry
  <1>8. CanceledNeverDispatched' BY <1>1, <1>4, <1>5 DEF CanceledNeverDispatched
  <1>9. NotPassed'
    <2>1. \A j \in Timers : target_tick(j)' = target_tick(j) BY <1>5 DEF target_tick
    <2>2. QED BY <1>1, <1>4, <1>5, <2>1 DEF NotPassed, slot
  <1>10. QED BY <1>3, <1>6, <1>7, <1>8, <1>9 DEF Inv

\* CancelTimer.
LEMMA CancelStep ==
  ASSUME Inv, NEW c \in Timers, CancelTimer(c)
  PROVE  Inv'
  <1>1. TypeOK /\ Owned /\ NoDanglingEntry /\ CanceledNeverDispatched /\ NotPassed
    BY DEF Inv
  <1>2. PICK i \in Timers : /\ i \in task_map
                            /\ canceled' = [canceled EXCEPT ![i] = TRUE]
                            /\ task_map' = task_map \ {i}
    BY Zenon, <1>1 DEF TypeOK, CancelTimer
  <1>3. UNCHANGED <<now, buckets, last_tick, running, starts, pc, expired, phase,
                    expire_at, handle, inserted>>
    BY DEF CancelTimer
  <1>4. TypeOK' BY <1>1, <1>2, <1>3 DEF TypeOK
  <1>5. phase[i] = "chained" BY <1>1, <1>2 DEF NoDanglingEntry
  <1>6. canceled'[i] /\ \A j \in Timers : j # i => canceled'[j] = canceled[j]
    BY <1>1, <1>2 DEF TypeOK
  <1>7. Owned' BY <1>1, <1>3, <1>5, <1>6 DEF Owned
  <1>8. NoDanglingEntry'
    <2>1. task_map' = {j \in Timers : phase'[j] = "chained" /\ ~canceled'[j]}
      BY <1>1, <1>2, <1>3, <1>6 DEF NoDanglingEntry
    <2>2. \A s \in Slots : buckets'[s] =
            {j \in Timers : phase'[j] = "chained" /\ slot(target_tick(j))' = s}
      BY <1>1, <1>3 DEF NoDanglingEntry, slot, target_tick
    <2>3. QED BY <2>1, <2>2 DEF NoDanglingEntry
  <1>9. CanceledNeverDispatched'
    BY <1>1, <1>3, <1>5, <1>6 DEF CanceledNeverDispatched
  <1>10. NotPassed' BY <1>1, <1>3, NotPassedFrame
  <1>11. QED BY <1>4, <1>7, <1>8, <1>9, <1>10 DEF Inv

\* The dispatch of one collected task.
LEMMA DispatchStep ==
  ASSUME Inv, NEW i \in Timers, Dispatch(i)
  PROVE  Inv'
  <1>1. TypeOK /\ Owned /\ NoDanglingEntry /\ CanceledNeverDispatched /\ NotPassed
    BY DEF Inv
  <1>2. TypeOK' BY <1>1 DEF TypeOK, Dispatch, Phases
  <1>3. phase[i] = "expired" BY <1>1 DEF Owned, Dispatch
  <1>4. /\ phase'[i] = "dispatched"
        /\ \A j \in Timers : j # i => phase'[j] = phase[j]
    BY <1>1 DEF TypeOK, Dispatch
  <1>5. UNCHANGED <<now, buckets, task_map, last_tick, expire_at, canceled, inserted>>
    BY DEF Dispatch
  <1>6. Owned'
    <2>1. expired \subseteq Timers /\ expired' = expired \ {i}
      BY <1>1 DEF TypeOK, Dispatch
    <2>2. QED BY <1>1, <1>4, <1>5, <2>1 DEF Owned
  <1>7. \A j \in Timers : (phase'[j] = "chained") <=> (phase[j] = "chained")
    BY <1>3, <1>4
  <1>8. NoDanglingEntry'
    BY <1>1, <1>5, <1>7 DEF NoDanglingEntry, target_tick, slot
  <1>9. CanceledNeverDispatched'
    BY <1>1, <1>3, <1>4, <1>5 DEF CanceledNeverDispatched
  <1>10. NotPassed' BY <1>1, <1>5, <1>7, NotPassedFrame
  <1>11. QED BY <1>2, <1>6, <1>8, <1>9, <1>10 DEF Inv

\* The hand visits the slots up to the current tick: an entry that stays
\* chained in one of them is not due, so its tick has not passed.
LEMMA ScanKeepsNotPassed ==
  ASSUME TypeOK, NoDanglingEntry, NotPassed, Scan
  PROVE  NotPassed'
  <1>1. UNCHANGED <<now, expire_at, canceled, inserted>> BY DEF Scan
  <1>2. SUFFICES ASSUME NEW i \in Timers, NEW k \in Nat,
                        phase'[i] = "chained",
                        slot(k) = slot(target_tick(i)),
                        k > target_tick(i), k >= inserted[i]
                 PROVE  k >= last_tick'
    BY <1>1 DEF NotPassed, slot, target_tick
  <1>3. phase[i] = "chained" /\ i \notin Reaped \cup Due BY <1>2, ScanEffect
  <1>4. k >= last_tick BY <1>2, <1>3 DEF NotPassed
  <1>5. SUFFICES ASSUME k < last_tick' PROVE FALSE BY <1>2, ScanHand
  <1>6. k <= current_tick BY <1>4, <1>5, ScanHand
  <1>7. slot(k) \in Visited
    <2>1. k \in last_tick..current_tick
      BY <1>4, <1>6, CurrentTickType DEF TypeOK
    <2>2. QED BY <2>1 DEF Visited
  <1>8. i \in buckets[slot(k)] BY <1>2, <1>3, SlotType DEF NoDanglingEntry
  <1>9. i \in Scanned BY <1>7, <1>8 DEF Scanned
  <1>10. ~(expire_at[i] <= now) BY <1>3, <1>9 DEF Reaped, Due
  <1>11. now \in Nat /\ expire_at[i] \in Nat BY DEF TypeOK
  <1>12. current_tick <= target_tick(i)
    BY <1>10, <1>11, ConstantsOK, DivMono DEF current_tick, target_tick
  <1>13. QED BY <1>2, <1>6, <1>12, CurrentTickType, TargetTickType

\* One pass of Run under mu_.
LEMMA ScanStep ==
  ASSUME Inv, Scan
  PROVE  Inv'
  <1>1. TypeOK /\ Owned /\ NoDanglingEntry /\ CanceledNeverDispatched /\ NotPassed
    BY DEF Inv
  <1>2. \A i \in Reaped \cup Due : i \in Timers /\ phase[i] = "chained"
    BY <1>1, GoneWasChained
  <1>3. UNCHANGED <<now, running, starts, expire_at, canceled, handle, inserted>>
    BY DEF Scan
  <1>4. \A i \in Timers : /\ i \in Reaped => phase'[i] = "deleted"
                          /\ i \in Due => phase'[i] = "expired"
                          /\ i \notin Reaped \cup Due => phase'[i] = phase[i]
    BY <1>1, ScanEffect
  <1>5. /\ expired' = Due /\ task_map' = task_map \ Due
        /\ buckets' = [s \in Slots |-> buckets[s] \ (Reaped \cup Due)]
    BY DEF Scan
  <1>6. /\ \A i \in Reaped : canceled[i]
        /\ \A i \in Due : ~canceled[i] /\ expire_at[i] <= now
    BY DEF Reaped, Due
  <1>7. TypeOK'
    <2>1. phase' \in [Timers -> Phases]
      <3>1. phase' = [i \in Timers |-> IF i \in Reaped THEN "deleted"
                        ELSE IF i \in Due THEN "expired" ELSE phase[i]]
        BY DEF Scan
      <3>2. phase \in [Timers -> Phases] BY <1>1 DEF TypeOK
      <3>3. QED BY <3>1, <3>2 DEF Phases
    <2>2. buckets' \in [Slots -> SUBSET Timers] BY <1>1, <1>5 DEF TypeOK
    <2>3. task_map' \subseteq Timers /\ expired' \subseteq Timers
      BY <1>1, <1>2, <1>5 DEF TypeOK
    <2>4. last_tick' \in Nat BY <1>1, ScanHand
    <2>5. pc' \in {"wait", "dispatch"} BY DEF Scan
    <2>6. QED BY <1>1, <1>3, <2>1, <2>2, <2>3, <2>4, <2>5 DEF TypeOK
  <1>8. Owned'
    <2>1. \A i \in Timers : phase'[i] \in {"unused", "computed"} => phase'[i] = phase[i]
      BY <1>4
    <2>2. \A i \in expired' : phase'[i] = "expired" BY <1>2, <1>4, <1>5
    <2>3. QED BY <1>1, <1>3, <2>1, <2>2 DEF Owned
  <1>9. NoDanglingEntry'
    <2>1. \A i \in Timers : phase'[i] = "chained" <=>
                              phase[i] = "chained" /\ i \notin Reaped \cup Due
      BY <1>2, <1>4
    <2>2. task_map' = {i \in Timers : phase'[i] = "chained" /\ ~canceled'[i]}
      BY <1>1, <1>3, <1>5, <1>6, <2>1 DEF NoDanglingEntry
    <2>3. \A i \in Timers : slot(target_tick(i))' = slot(target_tick(i))
      BY <1>3 DEF slot, target_tick
    <2>4. \A s \in Slots : buckets'[s] =
            {i \in Timers : phase'[i] = "chained" /\ slot(target_tick(i)) = s}
      BY <1>1, <1>5, <2>1 DEF NoDanglingEntry
    <2>5. QED BY <2>2, <2>3, <2>4 DEF NoDanglingEntry
  <1>10. CanceledNeverDispatched'
    BY <1>1, <1>3, <1>4, <1>6 DEF CanceledNeverDispatched
  <1>11. NotPassed' BY <1>1, ScanKeepsNotPassed
  <1>12. QED BY <1>7, <1>8, <1>9, <1>10, <1>11 DEF Inv

-----------------------------------------------------------------------------
(* The theorems.                                                           *)

\* Inv is inductive.
LEMMA Inductive == Spec => []Inv
  <1>1. Init => Inv
    <2>1. SUFFICES ASSUME Init PROVE Inv OBVIOUS
    <2>2. TypeOK BY Zenon, <2>1 DEF Init, TypeOK, Phases, NoId
    <2>3. Owned BY <2>1 DEF Init, Owned
    <2>4. NoDanglingEntry BY <2>1 DEF Init, NoDanglingEntry
    <2>5. CanceledNeverDispatched BY <2>1 DEF Init, CanceledNeverDispatched
    <2>6. NotPassed BY <2>1 DEF Init, NotPassed
    <2>7. QED BY <2>2, <2>3, <2>4, <2>5, <2>6 DEF Inv
  <1>2. Inv /\ [Next]_vars => Inv'
    <2>1. SUFFICES ASSUME Inv, [Next]_vars PROVE Inv' OBVIOUS
    <2>2. CASE \E i \in Timers : \E delay \in Delays : AddCompute(i, delay)
      BY <2>1, <2>2, AddComputeStep
    <2>3. CASE \E i \in Timers : AddInsert(i) BY <2>1, <2>3, AddInsertStep
    <2>4. CASE \E i \in Timers : CancelTimer(i) BY <2>1, <2>4, CancelStep
    <2>5. CASE \E i \in Timers : Dispatch(i) BY <2>1, <2>5, DispatchStep
    <2>6. CASE Scan BY <2>1, <2>6, ScanStep
    <2>7. CASE \/ \E i \in Timers : AddReturn(i)
               \/ Wake \/ Exit \/ Start \/ StopRequest \/ StopJoin \/ Clock
               \/ UNCHANGED vars
      BY <2>1, <2>7, QuietStep
    <2>8. QED BY <2>1, <2>2, <2>3, <2>4, <2>5, <2>6, <2>7 DEF Next, Run
  <1>3. QED BY <1>1, <1>2, PTL DEF Spec

\* AddTimer returns no id before the entry is in the wheel.
IdsAfterInsert ==
  \A i \in Timers : phase[i] \in {"unused", "computed"} => handle[i] = NoId

\* AddTimer's return: an entry that is still allocated gives its own id.
LEMMA AddReturnOwnId ==
  ASSUME TypeOK, PendingTimerHasOwnId, IdsAfterInsert, NEW i \in Timers, AddReturn(i)
  PROVE  PendingTimerHasOwnId' /\ IdsAfterInsert'
  <1>1. PICK id \in IF Allocated(i) THEN {i} ELSE {j \in Timers : j = i \/ Allocated(j)} :
          handle' = [handle EXCEPT ![i] = id]
    BY Zenon DEF AddReturn
  <1>2. phase' = phase /\ phase[i] \notin {"unused", "computed"} BY DEF AddReturn
  <1>3. handle'[i] = id /\ \A j \in Timers : j # i => handle'[j] = handle[j]
    BY Zenon, <1>1 DEF TypeOK
  <1>4. phase[i] = "chained" => id = i BY Zenon, <1>1 DEF Allocated
  <1>5. PendingTimerHasOwnId'
    BY <1>2, <1>3, <1>4 DEF PendingTimerHasOwnId
  <1>6. IdsAfterInsert' BY <1>2, <1>3 DEF IdsAfterInsert
  <1>7. QED BY <1>5, <1>6

\* Every other step leaves the ids alone, and only an entry that nobody has an
\* id of yet comes into the wheel.
LEMMA OthersOwnId ==
  ASSUME Inv, PendingTimerHasOwnId, IdsAfterInsert, [Next]_vars,
         ~\E i \in Timers : AddReturn(i)
  PROVE  PendingTimerHasOwnId' /\ IdsAfterInsert'
  <1> USE DEF Inv
  <1> SUFFICES
        /\ handle' = handle
        /\ \A j \in Timers :
             /\ phase'[j] \in {"unused", "computed"} =>
                  phase[j] \in {"unused", "computed"}
             /\ phase'[j] = "chained" => phase[j] \in {"computed", "chained"}
    BY Zenon DEF PendingTimerHasOwnId, IdsAfterInsert
  <1>1. CASE \E i \in Timers : \E delay \in Delays : AddCompute(i, delay)
    BY <1>1 DEF AddCompute, TypeOK
  <1>2. CASE \E i \in Timers : AddInsert(i) BY <1>2 DEF AddInsert, TypeOK
  <1>3. CASE \E i \in Timers : CancelTimer(i) BY <1>3 DEF CancelTimer
  <1>4. CASE \E i \in Timers : Dispatch(i) BY <1>4 DEF Dispatch, TypeOK
  <1>5. CASE Scan
    <2>1. handle' = handle BY <1>5 DEF Scan
    <2>2. QED BY <1>5, <2>1, ScanEffect
  <1>6. CASE Wake \/ Exit \/ Start \/ StopRequest \/ StopJoin \/ Clock \/ UNCHANGED vars
    BY <1>6 DEF Wake, Exit, Start, StopRequest, StopJoin, Clock, vars, wheel
  <1>7. QED BY <1>1, <1>2, <1>3, <1>4, <1>5, <1>6 DEF Next, Run

\* The slot of a due entry comes up once a turn, so an entry that the hand has
\* not passed is at most one turn late.
LEMMA NotPassedBoundsDelay ==
  ASSUME TypeOK, NotPassed
  PROVE  AtMostOneTurnLate
  <1>1. SUFFICES ASSUME NEW i \in Timers, phase[i] = "chained",
                        last_tick > target_tick(i) + kWheelSlots,
                        last_tick >= inserted[i] + kWheelSlots
                 PROVE  FALSE
    <2>1. /\ last_tick \in Nat /\ kWheelSlots \in Nat
          /\ \A i \in Timers : target_tick(i) \in Nat /\ inserted[i] \in Nat
      BY ConstantsOK, TargetTickType DEF TypeOK
    <2>2. QED BY <2>1 DEF AtMostOneTurnLate
  <1> DEFINE m == last_tick - kWheelSlots
  <1>2. /\ last_tick \in Nat /\ inserted[i] \in Nat /\ target_tick(i) \in Nat
        /\ kWheelSlots \in Nat \ {0}
    BY ConstantsOK, TargetTickType DEF TypeOK
  <1>3. /\ m \in Nat /\ m + kWheelSlots = last_tick
        /\ target_tick(i) < m /\ target_tick(i) <= m /\ inserted[i] <= m
    BY <1>1, <1>2
  <1> HIDE DEF m
  <1>4. PICK k \in Nat : /\ k >= m /\ k < m + kWheelSlots
                         /\ k % kWheelSlots = target_tick(i) % kWheelSlots
    BY Zenon, <1>2, <1>3, TurnVisits
  <1>5. k < last_tick /\ k > target_tick(i) /\ k >= inserted[i] BY <1>2, <1>3, <1>4
  <1>6. slot(k) = slot(target_tick(i)) BY <1>4 DEF slot
  <1>7. k >= last_tick BY <1>1, <1>5, <1>6 DEF NotPassed
  <1>8. QED BY <1>2, <1>5, <1>7

\* The variables of the keeper keep their types.
THEOREM TimerTypeCorrect == Spec => []TypeOK
  <1>1. Inv => TypeOK BY DEF Inv
  <1>2. QED BY <1>1, Inductive, PTL

\* No id that CancelTimer finds and no chain that Run follows leads to a
\* deleted entry, however AddTimer, CancelTimer, Run and Stop interleave.
THEOREM WheelWellFormed == Spec => []NoDanglingEntry
  <1>1. Inv => NoDanglingEntry BY DEF Inv
  <1>2. QED BY <1>1, Inductive, PTL

\* A timer that CancelTimer found is never dispatched, and none before its
\* delay has passed.
THEOREM CancelWins == Spec => []CanceledNeverDispatched
  <1>1. Inv => CanceledNeverDispatched BY DEF Inv
  <1>2. QED BY <1>1, Inductive, PTL

\* An id that AddTimer has returned for a timer in the wheel is that timer's,
\* however late it is read and whatever has become of other entries' memory.
THEOREM OwnIdWhilePending == Spec => []PendingTimerHasOwnId
  <1>1. Init => PendingTimerHasOwnId /\ IdsAfterInsert
    BY Zenon DEF Init, PendingTimerHasOwnId, IdsAfterInsert
  <1>2. Inv /\ PendingTimerHasOwnId /\ IdsAfterInsert /\ [Next]_vars
          => (PendingTimerHasOwnId /\ IdsAfterInsert)'
    BY AddReturnOwnId, OthersOwnId DEF Inv
  <1>3. QED BY <1>1, <1>2, Inductive, PTL DEF Spec

\* For every size of the wheel, length of a tick and set of delays, the hand
\* is never more than one turn past an entry that waits in the wheel.
THEOREM LateByOneTurn == Spec => []AtMostOneTurnLate
  <1>1. Inv => AtMostOneTurnLate BY NotPassedBoundsDelay DEF Inv
  <1>2. QED BY <1>1, Inductive, PTL
=============================================================================
