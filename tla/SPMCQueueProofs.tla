--------------------------- MODULE SPMCQueueProofs ---------------------------
(***************************************************************************)
(* Proofs about the deque, for every capacity, number of thieves and       *)
(* number of tasks.                                                        *)
(*                                                                         *)
(* This module: what holds however the deque is used, TypeOK,              *)
(* OccupancyBounded and NoEmptySlotHandedOut.  SPMCExactlyOnceProofs: what *)
(* holds when the deque is used as its header documents.                   *)
(***************************************************************************)
EXTENDS SPMCQueue, DivisionLemmas, TLAPS

-----------------------------------------------------------------------------
(* Arithmetic of the ring.                                                 *)

\* A remainder is an index of buffer_.
LEMMA SlotType == ASSUME NEW i \in Nat PROVE Slot(i) \in 0..(kMaxSize - 1)
  BY ConstantsOK DEF Slot

\* Two indices less than kMaxSize apart have different slots of buffer_.
LEMMA SlotDistinct ==
  ASSUME NEW i \in Nat, NEW j \in Nat, i < j, j < i + kMaxSize
  PROVE  Slot(i) # Slot(j)
  <1> DEFINE k == kMaxSize
             p == i \div k
             q == j \div k
             r == i % k
  <1>1. SUFFICES ASSUME i % k = j % k PROVE FALSE BY DEF Slot
  <1>2. k \in Nat \ {0} BY ConstantsOK
  <1>3. i = k * p + r /\ j = k * q + r BY <1>1, <1>2, DivMod
  <1>4. p \in Int /\ q \in Int /\ r \in Int BY <1>2
  <1>5. i < j /\ j < i + k OBVIOUS
  <1> HIDE DEF k, p, q, r
  <1>6. CASE p < q
    <2>1. k * p + k <= k * q BY <1>2, <1>4, <1>6, MultiplesApart
    <2>2. QED BY <1>2, <1>3, <1>4, <1>5, <2>1
  <1>7. CASE q < p
    <2>1. k * q + k <= k * p BY <1>2, <1>4, <1>7, MultiplesApart
    <2>2. QED BY <1>2, <1>3, <1>4, <1>5, <2>1
  <1>8. CASE p = q BY <1>3, <1>5, <1>8
  <1>9. QED BY <1>4, <1>6, <1>7, <1>8

\* TakeHalf takes at least one task and no more than there are.
LEMMA NumToTake ==
  ASSUME NEW n \in Nat \ {0}
  PROVE  num_to_take(n) \in 1..n
  BY DEF num_to_take

-----------------------------------------------------------------------------
(* However the deque is used.                                              *)

\* The values of bottom_, top_ and the locals derived from them.
OwnerBounds ==
  /\ OccupancyBounded
  /\ bottom >= 0 \/ pc[Owner] \in PopPC
  /\ pending # Drained => pending < bottom
  /\ pending = Drained \/ pending >= 0 \/ pc[Owner] \in PopPC
  /\ pc[Owner] \in PushPC => /\ pushed < MaxTasks
                              /\ b[Owner] >= 0 /\ b[Owner] - top < kMaxSize
  /\ pc[Owner] = "push_publish" => pending = Drained
  /\ pc[Owner] \in PopPC =>
       /\ b[Owner] >= -1
       /\ b[Owner] + 1 - top <= kMaxSize
       /\ \/ pending = Drained /\ bottom = b[Owner]
          \/ pending = b[Owner] /\ bottom = b[Owner] + 1
  /\ pc[Owner] = "pop_cas" => b[Owner] = t[Owner]

HalfBounds ==
  \A th \in Threads :
    pc[th] = "half_cas" => t[th] < b[th]

Bounds == OwnerBounds /\ HalfBounds

\* The owner is a thread.
LEMMA OwnerIsThread == Owner \in Threads
  BY DEF Threads

\* A thief is a thread other than the owner.
LEMMA ThiefIsThread ==
  ASSUME NEW th \in Thieves PROVE th \in Threads /\ th # Owner
  BY ConstantsOK DEF Threads

\* Every label an action goes to is a label.
LEMMA LabelsType ==
  /\ PushPC \subseteq Labels /\ PopPC \subseteq Labels
  /\ StealPC \subseteq Labels /\ HalfPC \subseteq Labels
  /\ "idle" \in Labels
  BY DEF Labels

\* An empty deque satisfies the types and the bounds.
LEMMA BoundsInit == Init => TypeOK /\ Bounds
  BY ConstantsOK
     DEF Init, TypeOK, Bounds, OwnerBounds, HalfBounds, OccupancyBounded, Threads, Drained, NoTask,
         Labels, PushPC, PopPC, StealPC, HalfPC

\* A call returns: its thread is idle and has well-typed locals, and the
\* other threads keep theirs.
LEMMA ReturnEffect ==
  ASSUME TypeOK, NEW th \in Threads, Return(th)
  PROVE  /\ pc' \in [Threads -> Labels]
         /\ b' \in [Threads -> Int]
         /\ t' \in [Threads -> Nat]
         /\ item' \in [Threads -> 0..MaxTasks]
         /\ pc'[th] = "idle"
         /\ \A x \in Threads : x # th =>
              pc'[x] = pc[x] /\ b'[x] = b[x] /\ t'[x] = t[x] /\ item'[x] = item[x]
  <1>1. pc' \in [Threads -> Labels] BY LabelsType DEF Return, TypeOK
  <1>2. b' \in [Threads -> Int] BY DEF Return, TypeOK
  <1>3. t' \in [Threads -> Nat] BY DEF Return, TypeOK
  <1>4. item' \in [Threads -> 0..MaxTasks]
    BY ConstantsOK DEF Return, TypeOK, NoTask
  <1>5. pc'[th] = "idle" BY DEF Return, TypeOK
  <1>6. \A x \in Threads : x # th =>
          pc'[x] = pc[x] /\ b'[x] = b[x] /\ t'[x] = t[x] /\ item'[x] = item[x]
    BY DEF Return, TypeOK
  <1>7. QED BY <1>1, <1>2, <1>3, <1>4, <1>5, <1>6

\* A thread moves to its next label.
LEMMA GotoEffect ==
  ASSUME TypeOK, NEW th \in Threads, NEW label \in Labels, Goto(th, label)
  PROVE  /\ pc' \in [Threads -> Labels]
         /\ pc'[th] = label
         /\ \A x \in Threads : x # th => pc'[x] = pc[x]
  BY DEF Goto, TypeOK

\* A task is handed out: the counts stay counts.
LEMMA HandOutType ==
  ASSUME TypeOK, NEW k \in 0..MaxTasks, HandOut(k)
  PROVE  taken' \in [0..MaxTasks -> Nat]
  <1>1. taken \in [0..MaxTasks -> Nat] BY DEF TypeOK
  <1>2. taken[k] + 1 \in Nat BY <1>1
  <1>3. QED BY <1>1, <1>2 DEF HandOut

\* The numbers OwnerBounds is about.
LEMMA OwnerNumbers ==
  ASSUME TypeOK
  PROVE  /\ top \in Nat /\ bottom \in Int /\ pending \in Int
         /\ pushed \in Nat /\ b[Owner] \in Int /\ t[Owner] \in Nat
  BY ConstantsOK, OwnerIsThread DEF TypeOK

\* Every step of Push, TryPop, Steal and TakeHalf preserves the types; the
\* bounds show that a slot's index is a natural number.
LEMMA TypeStep == TypeOK /\ Bounds /\ [Next]_vars => TypeOK'
  <1> SUFFICES ASSUME TypeOK, Bounds, [Next]_vars PROVE TypeOK'
    OBVIOUS
  <1>own. Owner \in Threads BY OwnerIsThread
  <1>num. kMaxSize \in Nat \ {0} /\ MaxTasks \in Nat BY ConstantsOK
  <1>1. CASE PushLoad
    <2>1. pc' \in [Threads -> Labels]
      BY <1>1, <1>own, LabelsType, GotoEffect DEF PushLoad, PushPC
    <2>2. b' \in [Threads -> Int]
      BY <1>1, <1>own DEF PushLoad, BottomSeenBy, TypeOK
    <2>3. QED BY Zenon, <1>1, <2>1, <2>2 DEF PushLoad, TypeOK
  <1>2. CASE PushWrite
    <2>1. b[Owner] \in Nat /\ pushed + 1 \in 0..MaxTasks
      BY <1>2, <1>own, <1>num DEF PushWrite, TypeOK, Bounds, OwnerBounds, PushPC
    <2>2. Slot(b[Owner]) \in 0..(kMaxSize - 1) BY <2>1, SlotType
    <2>3. pc' \in [Threads -> Labels]
      BY <1>2, <1>own, LabelsType, GotoEffect DEF PushWrite, PushPC
    <2>4. buffer' \in [0..(kMaxSize - 1) -> 0..MaxTasks]
      BY <1>2, <1>own, <2>1, <2>2 DEF PushWrite, TypeOK
    <2>5. QED BY Zenon, <1>2, <2>3, <2>4 DEF PushWrite, TypeOK
  <1>3. CASE PushPublish
    <2>1. pc' \in [Threads -> Labels] /\ b' \in [Threads -> Int]
          /\ t' \in [Threads -> Nat] /\ item' \in [Threads -> 0..MaxTasks]
      BY <1>3, <1>own, ReturnEffect DEF PushPublish
    <2>2. bottom' \in Int
      BY <1>3, <1>own DEF PushPublish, TypeOK
    <2>3. pushed' \in 0..MaxTasks
      BY <1>3, <1>own, <1>num DEF PushPublish, Bounds, OwnerBounds, PushPC, TypeOK
    <2>4. QED BY Zenon, <1>3, <2>1, <2>2, <2>3 DEF PushPublish, TypeOK
  <1>4. CASE PopStore
    <2>1. pc' \in [Threads -> Labels]
      BY <1>4, <1>own, LabelsType, GotoEffect DEF PopStore, PopPC
    <2>2. b' \in [Threads -> Int]
      BY <1>4, <1>own DEF PopStore, TypeOK
    <2>3. bottom' \in Int
      BY <1>4, <1>own DEF PopStore, TypeOK
    <2>4. pending' \in Int
      BY <1>4, <1>own DEF PopStore, Drained, TypeOK
    <2>5. QED BY <1>4, <2>1, <2>2, <2>3, <2>4 DEF PopStore, TypeOK
  <1>5. CASE Drain
    <2>1. bottom' \in Int
      BY <1>5, <1>own DEF Drain, TypeOK
    <2>2. pending' \in Int
      BY <1>5, <1>own DEF Drain, Drained, TypeOK
    <2>3. QED BY <1>5, <2>1, <2>2 DEF Drain, TypeOK
  <1>6. CASE PopTake
    <2>1. b[Owner] \in Nat
      BY <1>6, <1>own DEF PopTake, TypeOK, Bounds, OwnerBounds
    <2>2. buffer[Slot(b[Owner])] \in 0..MaxTasks BY Zenon, <2>1, SlotType DEF TypeOK
    <2>3. pc' \in [Threads -> Labels] /\ b' \in [Threads -> Int]
          /\ t' \in [Threads -> Nat] /\ item' \in [Threads -> 0..MaxTasks]
      BY <1>6, <1>own, ReturnEffect DEF PopTake
    <2>4. taken' \in [0..MaxTasks -> Nat]
      BY <1>6, <2>2, HandOutType DEF PopTake
    <2>5. QED BY Zenon, <1>6, <2>3, <2>4 DEF PopTake, TypeOK
  <1>7. CASE PopLast
    <2>1. pc' \in [Threads -> Labels]
      BY <1>7, <1>own, LabelsType, GotoEffect DEF PopLast, PopPC
    <2>2. t' \in [Threads -> Nat]
      BY <1>7, <1>own DEF PopLast, TypeOK
    <2>3. QED BY <1>7, <2>1, <2>2 DEF PopLast, TypeOK
  <1>8. CASE PopEmpty
    <2>1. pc' \in [Threads -> Labels]
      BY <1>8, <1>own, LabelsType, GotoEffect DEF PopEmpty, PopPC
    <2>2. QED BY Zenon, <1>8, <2>1 DEF PopEmpty, TypeOK
  <1>9. CASE PopWin
    <2>1. b[Owner] \in Nat
      BY <1>9, <1>own DEF PopWin, TypeOK, Bounds, OwnerBounds
    <2>2. buffer[Slot(b[Owner])] \in 0..MaxTasks BY Zenon, <2>1, SlotType DEF TypeOK
    <2>3. pc' \in [Threads -> Labels]
      BY <1>9, <1>own, LabelsType, GotoEffect DEF PopWin, PopPC
    <2>4. top' \in Nat
      BY <1>9, <1>own, <2>2 DEF PopWin, TypeOK
    <2>5. taken' \in [0..MaxTasks -> Nat]
      BY <1>9, <2>2, HandOutType DEF PopWin
    <2>6. QED BY Zenon, <1>9, <2>3, <2>4, <2>5 DEF PopWin, TypeOK
  <1>10. CASE PopLose
    <2>1. pc' \in [Threads -> Labels]
      BY <1>10, <1>own, LabelsType, GotoEffect DEF PopLose, PopPC
    <2>2. QED BY <1>10, <2>1 DEF PopLose, TypeOK
  <1>11. CASE PopRestore
    <2>1. pc' \in [Threads -> Labels] /\ b' \in [Threads -> Int]
          /\ t' \in [Threads -> Nat] /\ item' \in [Threads -> 0..MaxTasks]
      BY <1>11, <1>own, ReturnEffect DEF PopRestore
    <2>2. bottom' \in Int
      BY <1>11, <1>own DEF PopRestore, TypeOK
    <2>3. QED BY Zenon, <1>11, <2>1, <2>2 DEF PopRestore, TypeOK
  <1>12. ASSUME NEW th \in Thieves, StealLoadTop(th) PROVE TypeOK'
    <2>th. th \in Threads /\ th # Owner BY ThiefIsThread
    <2>1. pc' \in [Threads -> Labels]
      BY <1>12, <2>th, LabelsType, GotoEffect DEF StealLoadTop, StealPC
    <2>2. t' \in [Threads -> Nat]
      BY <1>12, <2>th DEF StealLoadTop, TypeOK
    <2>3. QED BY <1>12, <2>1, <2>2 DEF StealLoadTop, TypeOK
  <1>13. ASSUME NEW th \in Thieves, StealLoadBottom(th) PROVE TypeOK'
    <2>th. th \in Threads /\ th # Owner BY ThiefIsThread
    <2>1. pc' \in [Threads -> Labels]
      BY <1>13, <2>th, LabelsType, GotoEffect DEF StealLoadBottom, StealPC
    <2>2. QED BY Zenon, <1>13, <2>1 DEF StealLoadBottom, TypeOK
  <1>14. ASSUME NEW th \in Thieves, StealEmpty(th) PROVE TypeOK'
    <2>th. th \in Threads /\ th # Owner BY ThiefIsThread
    <2>1. pc' \in [Threads -> Labels] /\ b' \in [Threads -> Int]
          /\ t' \in [Threads -> Nat] /\ item' \in [Threads -> 0..MaxTasks]
      BY <1>14, <2>th, ReturnEffect DEF StealEmpty
    <2>2. QED BY Zenon, <1>14, <2>1 DEF StealEmpty, TypeOK
  <1>15. ASSUME NEW th \in Thieves, StealRead(th) PROVE TypeOK'
    <2>th. th \in Threads /\ th # Owner BY ThiefIsThread
    <2>1. t[th] \in Nat BY <2>th DEF TypeOK
    <2>2. buffer[Slot(t[th])] \in 0..MaxTasks BY Zenon, <2>1, SlotType DEF TypeOK
    <2>3. pc' \in [Threads -> Labels]
      BY <1>15, <2>th, LabelsType, GotoEffect DEF StealRead, StealPC
    <2>4. item' \in [Threads -> 0..MaxTasks]
      BY <1>15, <2>th, <1>num, <2>2 DEF StealRead, TypeOK
    <2>5. QED BY Zenon, <1>15, <2>3, <2>4 DEF StealRead, TypeOK
  <1>16. ASSUME NEW th \in Thieves, StealWin(th) PROVE TypeOK'
    <2>th. th \in Threads /\ th # Owner BY ThiefIsThread
    <2>1. pc' \in [Threads -> Labels] /\ b' \in [Threads -> Int]
          /\ t' \in [Threads -> Nat] /\ item' \in [Threads -> 0..MaxTasks]
      BY <1>16, <2>th, ReturnEffect DEF StealWin
    <2>2. top' \in Nat
      BY <1>16, <2>th DEF StealWin, TypeOK
    <2>3. taken' \in [0..MaxTasks -> Nat]
      BY Zenon, <1>16, <2>th, HandOutType DEF StealWin, TypeOK
    <2>4. QED BY Zenon, <1>16, <2>1, <2>2, <2>3 DEF StealWin, TypeOK
  <1>17. ASSUME NEW th \in Thieves, StealLose(th) PROVE TypeOK'
    <2>th. th \in Threads /\ th # Owner BY ThiefIsThread
    <2>1. pc' \in [Threads -> Labels] /\ b' \in [Threads -> Int]
          /\ t' \in [Threads -> Nat] /\ item' \in [Threads -> 0..MaxTasks]
      BY <1>17, <2>th, ReturnEffect DEF StealLose
    <2>2. QED BY <1>17, <2>1 DEF StealLose, TypeOK
  <1>18. ASSUME NEW th \in Threads, HalfLoadBottom(th) PROVE TypeOK'
    <2>1. pc' \in [Threads -> Labels]
      BY <1>18, <1>own, LabelsType, GotoEffect DEF HalfLoadBottom, HalfPC
    <2>2. b' \in [Threads -> Int]
      BY <1>18, <1>own DEF HalfLoadBottom, BottomSeenBy, TypeOK
    <2>3. QED BY <1>18, <2>1, <2>2 DEF HalfLoadBottom, TypeOK
  <1>19. ASSUME NEW th \in Threads, HalfLoadTop(th) PROVE TypeOK'
    <2>1. pc' \in [Threads -> Labels]
      BY <1>19, <1>own, LabelsType, GotoEffect DEF HalfLoadTop, HalfPC
    <2>2. t' \in [Threads -> Nat]
      BY <1>19, <1>own DEF HalfLoadTop, TypeOK
    <2>3. QED BY Zenon, <1>19, <2>1, <2>2 DEF HalfLoadTop, TypeOK
  <1>20. ASSUME NEW th \in Threads, HalfEmpty(th) PROVE TypeOK'
    <2>1. pc' \in [Threads -> Labels] /\ b' \in [Threads -> Int]
          /\ t' \in [Threads -> Nat] /\ item' \in [Threads -> 0..MaxTasks]
      BY <1>20, <1>own, ReturnEffect DEF HalfEmpty
    <2>2. QED BY Zenon, <1>20, <2>1 DEF HalfEmpty, TypeOK
  <1>21. ASSUME NEW th \in Threads, HalfWin(th) PROVE TypeOK'
    <2>1. b[th] - t[th] \in Nat \ {0}
      BY <1>21 DEF HalfWin, TypeOK, Bounds, HalfBounds
    <2>2. num_to_take(b[th] - t[th]) \in Nat \ {0} BY <2>1, NumToTake
    <2>3. pc' \in [Threads -> Labels]
      BY <1>21, <1>own, LabelsType, GotoEffect DEF HalfWin, HalfPC
    <2>4. top' \in Nat
      BY <1>21, <1>own, <2>2 DEF HalfWin, TypeOK
    <2>5. left' \in [Threads -> Nat]
      BY <1>21, <1>own, <2>2 DEF HalfWin, TypeOK
    <2>6. QED BY Zenon, <1>21, <2>3, <2>4, <2>5 DEF HalfWin, TypeOK
  <1>22. ASSUME NEW th \in Threads, HalfLose(th) PROVE TypeOK'
    <2>1. pc' \in [Threads -> Labels] /\ b' \in [Threads -> Int]
          /\ t' \in [Threads -> Nat] /\ item' \in [Threads -> 0..MaxTasks]
      BY <1>22, <1>own, ReturnEffect DEF HalfLose
    <2>2. QED BY Zenon, <1>22, <2>1 DEF HalfLose, TypeOK
  <1>23. ASSUME NEW th \in Threads, HalfCopy(th) PROVE TypeOK'
    <2>1. t[th] \in Nat BY DEF TypeOK
    <2>2. buffer[Slot(t[th])] \in 0..MaxTasks BY <2>1, SlotType DEF TypeOK
    <2>3. taken' \in [0..MaxTasks -> Nat]
      BY <1>23, <2>2, HandOutType DEF HalfCopy
    <2>4. left' \in [Threads -> Nat]
      <3>1. left \in [Threads -> Nat] BY DEF TypeOK
      <3>2. left[th] - 1 \in Nat BY <1>23, <3>1 DEF HalfCopy
      <3>3. left' = [left EXCEPT ![th] = left[th] - 1] BY <1>23 DEF HalfCopy
      <3>4. QED BY <3>1, <3>2, <3>3
    <2>5. t' \in [Threads -> Nat]
      <3>1. t \in [Threads -> Nat] BY DEF TypeOK
      <3>2. t[th] + 1 \in Nat BY <2>1
      <3>3. t' = [t EXCEPT ![th] = t[th] + 1] BY <1>23 DEF HalfCopy
      <3>4. QED BY <3>1, <3>2, <3>3
    <2>6. QED BY Zenon, <1>23, <2>3, <2>4, <2>5 DEF HalfCopy, TypeOK
  <1>24. ASSUME NEW th \in Threads, HalfReturn(th) PROVE TypeOK'
    <2>1. pc' \in [Threads -> Labels] /\ b' \in [Threads -> Int]
          /\ t' \in [Threads -> Nat] /\ item' \in [Threads -> 0..MaxTasks]
      BY <1>24, <1>own, ReturnEffect DEF HalfReturn
    <2>2. QED BY Zenon, <1>24, <2>1 DEF HalfReturn, TypeOK
  <1>25. CASE UNCHANGED vars
    BY <1>25 DEF vars, TypeOK
  <1>26. QED
    BY <1>1, <1>2, <1>3, <1>4, <1>5, <1>6, <1>7, <1>8, <1>9, <1>10, <1>11, <1>12,
       <1>13, <1>14, <1>15, <1>16, <1>17, <1>18, <1>19, <1>20, <1>21, <1>22, <1>23, <1>24, <1>25,
       OwnerIsThread, ThiefIsThread
       DEF Next, Push, TryPop, Steal, TakeHalf

\* Every step preserves the bounds: in particular Push's test of b - t (line 32)
\* stays true until it publishes, because top_ only grows.
LEMMA BoundsStep == TypeOK /\ Bounds /\ [Next]_vars => Bounds'
  <1> SUFFICES ASSUME TypeOK, Bounds, [Next]_vars PROVE Bounds'
    OBVIOUS
  <1>own. Owner \in Threads BY OwnerIsThread
  <1>num. kMaxSize \in Nat \ {0} /\ MaxTasks \in Nat BY ConstantsOK
  <1>loc. /\ top \in Nat /\ bottom \in Int /\ pending \in Int
          /\ pushed \in Nat /\ b[Owner] \in Int /\ t[Owner] \in Nat
    BY OwnerNumbers
  <1>1. CASE PushLoad
    <2>1. pc'[Owner] = "push_write" /\ \A x \in Threads : x # Owner => pc'[x] = pc[x]
      BY <1>1, <1>own, LabelsType, GotoEffect DEF PushLoad, PushPC
    <2>2. OwnerBounds'
      BY Zenon, <1>1, <1>own, <1>num, <2>1
         DEF PushLoad, BottomSeenBy, Drained, TypeOK, Bounds, OwnerBounds, OccupancyBounded,
             PushPC, PopPC
    <2>3. HalfBounds'
      BY <1>1, <1>own, <2>1
         DEF PushLoad, TypeOK, Bounds, HalfBounds
    <2>4. QED BY <2>2, <2>3 DEF Bounds
  <1>2. CASE PushWrite
    <2>1. pc'[Owner] = "push_publish" /\ \A x \in Threads : x # Owner => pc'[x] = pc[x]
      BY <1>2, <1>own, LabelsType, GotoEffect DEF PushWrite, PushPC
    <2>2. OwnerBounds'
      BY <1>2, <1>own, <1>num, <2>1
         DEF PushWrite, Drained, TypeOK, Bounds, OwnerBounds, OccupancyBounded,
             PushPC, PopPC
    <2>3. HalfBounds'
      BY Zenon, <1>2, <1>own, <2>1
         DEF PushWrite, TypeOK, Bounds, HalfBounds
    <2>4. QED BY <2>2, <2>3 DEF Bounds
  <1>3. CASE PushPublish
    <2>1. pc'[Owner] = "idle" /\ \A x \in Threads : x # Owner =>
            pc'[x] = pc[x] /\ b'[x] = b[x] /\ t'[x] = t[x]
      BY Zenon, <1>3, <1>own, ReturnEffect DEF PushPublish
    <2>2. OwnerBounds'
      <3>1. /\ bottom' = b[Owner] + 1 /\ top' = top /\ pending' = pending
            /\ pc[Owner] = "push_publish"
        BY <1>3 DEF PushPublish
      <3>2. b[Owner] >= 0 /\ b[Owner] - top < kMaxSize /\ pending = Drained
        BY <3>1 DEF Bounds, OwnerBounds, PushPC
      <3>3. QED
        BY <1>num, <1>loc, <2>1, <3>1, <3>2
           DEF OwnerBounds, OccupancyBounded, PushPC, PopPC
    <2>3. HalfBounds'
      BY Zenon, <1>3, <1>own, <2>1
         DEF PushPublish, TypeOK, Bounds, HalfBounds
    <2>4. QED BY <2>2, <2>3 DEF Bounds
  <1>4. CASE PopStore
    <2>1. pc'[Owner] = "pop_load" /\ \A x \in Threads : x # Owner => pc'[x] = pc[x]
      BY <1>4, <1>own, LabelsType, GotoEffect DEF PopStore, PopPC
    <2>2. OwnerBounds'
      BY <1>4, <1>own, <1>num, <2>1
         DEF PopStore, Drained, TypeOK, Bounds, OwnerBounds, OccupancyBounded,
             PushPC, PopPC
    <2>3. HalfBounds'
      BY Zenon, <1>4, <1>own, <2>1
         DEF PopStore, TypeOK, Bounds, HalfBounds
    <2>4. QED BY <2>2, <2>3 DEF Bounds
  <1>5. CASE Drain
    <2>1. OwnerBounds'
      BY <1>5, <1>own, <1>num
         DEF Drain, Drained, TypeOK, Bounds, OwnerBounds, OccupancyBounded,
             PushPC, PopPC
    <2>2. HalfBounds'
      BY <1>5, <1>own
         DEF Drain, TypeOK, Bounds, HalfBounds
    <2>3. QED BY <2>1, <2>2 DEF Bounds
  <1>6. CASE PopTake
    <2>1. pc'[Owner] = "idle" /\ \A x \in Threads : x # Owner =>
            pc'[x] = pc[x] /\ b'[x] = b[x] /\ t'[x] = t[x]
      BY <1>6, <1>own, ReturnEffect DEF PopTake
    <2>2. /\ top' = top /\ bottom' = bottom /\ pending' = pending
          /\ pc[Owner] = "pop_load" /\ top < b[Owner]
      BY <1>6 DEF PopTake
    <2>3. OwnerBounds'
      BY <2>1, <2>2, <1>num, <1>loc
         DEF Bounds, OwnerBounds, OccupancyBounded, Drained, PushPC, PopPC
    <2>4. HalfBounds'
      BY Zenon, <1>6, <1>own, <2>1
         DEF PopTake, TypeOK, Bounds, HalfBounds
    <2>5. QED BY <2>3, <2>4 DEF Bounds
  <1>7. CASE PopLast
    <2>1. pc'[Owner] = "pop_cas" /\ \A x \in Threads : x # Owner => pc'[x] = pc[x]
      BY <1>7, <1>own, LabelsType, GotoEffect DEF PopLast, PopPC
    <2>2. OwnerBounds'
      BY <1>7, <1>own, <1>num, <2>1
         DEF PopLast, TypeOK, Bounds, OwnerBounds, OccupancyBounded,
             PushPC, PopPC
    <2>3. HalfBounds'
      BY Zenon, <1>7, <1>own, <2>1
         DEF PopLast, TypeOK, Bounds, HalfBounds
    <2>4. QED BY <2>2, <2>3 DEF Bounds
  <1>8. CASE PopEmpty
    <2>1. pc'[Owner] = "pop_restore" /\ \A x \in Threads : x # Owner => pc'[x] = pc[x]
      BY Zenon, <1>8, <1>own, LabelsType, GotoEffect DEF PopEmpty, PopPC
    <2>2. OwnerBounds'
      BY <1>8, <1>own, <1>num, <2>1
         DEF PopEmpty, TypeOK, Bounds, OwnerBounds, OccupancyBounded,
             PushPC, PopPC
    <2>3. HalfBounds'
      BY Zenon, <1>8, <1>own, <2>1
         DEF PopEmpty, TypeOK, Bounds, HalfBounds
    <2>4. QED BY <2>2, <2>3 DEF Bounds
  <1>9. CASE PopWin
    <2>1. pc'[Owner] = "pop_restore" /\ \A x \in Threads : x # Owner => pc'[x] = pc[x]
      BY Zenon, <1>9, <1>own, LabelsType, GotoEffect DEF PopWin, PopPC
    <2>2. /\ top' = top + 1 /\ bottom' = bottom /\ pending' = pending
          /\ pc[Owner] = "pop_cas" /\ b' = b /\ t' = t
      BY <1>9 DEF PopWin
    <2>3. OwnerBounds'
      BY <2>1, <2>2, <1>num, <1>loc
         DEF Bounds, OwnerBounds, OccupancyBounded, Drained, PushPC, PopPC
    <2>4. HalfBounds'
      BY Zenon, <1>9, <1>own, <2>1
         DEF PopWin, TypeOK, Bounds, HalfBounds
    <2>5. QED BY <2>3, <2>4 DEF Bounds
  <1>10. CASE PopLose
    <2>1. pc'[Owner] = "pop_restore" /\ \A x \in Threads : x # Owner => pc'[x] = pc[x]
      BY <1>10, <1>own, LabelsType, GotoEffect DEF PopLose, PopPC
    <2>2. OwnerBounds'
      BY <1>10, <1>own, <1>num, <2>1
         DEF PopLose, Drained, TypeOK, Bounds, OwnerBounds, OccupancyBounded,
             PushPC, PopPC
    <2>3. HalfBounds'
      BY Zenon, <1>10, <1>own, <2>1
         DEF PopLose, TypeOK, Bounds, HalfBounds
    <2>4. QED BY <2>2, <2>3 DEF Bounds
  <1>11. CASE PopRestore
    <2>1. pc'[Owner] = "idle" /\ \A x \in Threads : x # Owner =>
            pc'[x] = pc[x] /\ b'[x] = b[x] /\ t'[x] = t[x]
      BY <1>11, <1>own, ReturnEffect DEF PopRestore
    <2>2. /\ top' = top /\ bottom' = b[Owner] + 1 /\ pending' = pending
          /\ pc[Owner] = "pop_restore" /\ pending = Drained
      BY <1>11 DEF PopRestore
    <2>3. OwnerBounds'
      BY <2>1, <2>2, <1>num, <1>loc
         DEF Bounds, OwnerBounds, OccupancyBounded, Drained, PushPC, PopPC
    <2>4. HalfBounds'
      BY Zenon, <1>11, <1>own, <2>1
         DEF PopRestore, TypeOK, Bounds, HalfBounds
    <2>5. QED BY <2>3, <2>4 DEF Bounds
  <1>12. ASSUME NEW th \in Thieves, StealLoadTop(th) PROVE Bounds'
    <2>th. th \in Threads /\ th # Owner BY ThiefIsThread
    <2>1. pc'[th] = "steal_load" /\ \A x \in Threads : x # th => pc'[x] = pc[x]
      BY <1>12, <2>th, LabelsType, GotoEffect DEF StealLoadTop, StealPC
    <2>2. OwnerBounds'
      BY Zenon, <1>12, <2>th, <1>own, <1>num, <2>1
         DEF StealLoadTop, TypeOK, Bounds, OwnerBounds, OccupancyBounded,
             PushPC, PopPC
    <2>3. HalfBounds'
      BY Zenon, <1>12, <2>th, <2>1
         DEF StealLoadTop, TypeOK, Bounds, HalfBounds
    <2>4. QED BY <2>2, <2>3 DEF Bounds
  <1>13. ASSUME NEW th \in Thieves, StealLoadBottom(th) PROVE Bounds'
    <2>th. th \in Threads /\ th # Owner BY ThiefIsThread
    <2>1. pc'[th] = "steal_read" /\ \A x \in Threads : x # th => pc'[x] = pc[x]
      BY <1>13, <2>th, LabelsType, GotoEffect DEF StealLoadBottom, StealPC
    <2>2. OwnerBounds'
      BY Zenon, <1>13, <2>th, <1>own, <1>num, <2>1
         DEF StealLoadBottom, TypeOK, Bounds, OwnerBounds, OccupancyBounded,
             PushPC, PopPC
    <2>3. HalfBounds'
      BY Zenon, <1>13, <2>th, <2>1
         DEF StealLoadBottom, TypeOK, Bounds, HalfBounds
    <2>4. QED BY <2>2, <2>3 DEF Bounds
  <1>14. ASSUME NEW th \in Thieves, StealEmpty(th) PROVE Bounds'
    <2>th. th \in Threads /\ th # Owner BY ThiefIsThread
    <2>1. pc'[th] = "idle" /\ \A x \in Threads : x # th =>
            pc'[x] = pc[x] /\ b'[x] = b[x] /\ t'[x] = t[x]
      BY <1>14, <2>th, ReturnEffect DEF StealEmpty
    <2>2. OwnerBounds'
      BY Zenon, <1>14, <2>th, <1>own, <1>num, <2>1
         DEF StealEmpty, TypeOK, Bounds, OwnerBounds, OccupancyBounded,
             PushPC, PopPC
    <2>3. HalfBounds'
      BY Zenon, <1>14, <2>th, <2>1
         DEF StealEmpty, TypeOK, Bounds, HalfBounds
    <2>4. QED BY <2>2, <2>3 DEF Bounds
  <1>15. ASSUME NEW th \in Thieves, StealRead(th) PROVE Bounds'
    <2>th. th \in Threads /\ th # Owner BY ThiefIsThread
    <2>1. pc'[th] = "steal_cas" /\ \A x \in Threads : x # th => pc'[x] = pc[x]
      BY <1>15, <2>th, LabelsType, GotoEffect DEF StealRead, StealPC
    <2>2. OwnerBounds'
      BY Zenon, <1>15, <2>th, <1>own, <1>num, <2>1
         DEF StealRead, TypeOK, Bounds, OwnerBounds, OccupancyBounded,
             PushPC, PopPC
    <2>3. HalfBounds'
      BY Zenon, <1>15, <2>th, <2>1
         DEF StealRead, TypeOK, Bounds, HalfBounds
    <2>4. QED BY <2>2, <2>3 DEF Bounds
  <1>16. ASSUME NEW th \in Thieves, StealWin(th) PROVE Bounds'
    <2>th. th \in Threads /\ th # Owner BY ThiefIsThread
    <2>1. pc'[th] = "idle" /\ \A x \in Threads : x # th =>
            pc'[x] = pc[x] /\ b'[x] = b[x] /\ t'[x] = t[x]
      BY <1>16, <2>th, ReturnEffect DEF StealWin
    <2>2. /\ top' = top + 1 /\ bottom' = bottom /\ pending' = pending
          /\ pushed' = pushed
      BY <1>16 DEF StealWin
    <2>3. OwnerBounds'
      BY <2>1, <2>2, <1>num, <1>loc, <1>own, <2>th
         DEF Bounds, OwnerBounds, OccupancyBounded, Drained, PushPC, PopPC
    <2>4. HalfBounds'
      BY Zenon, <1>16, <2>th, <2>1
         DEF StealWin, TypeOK, Bounds, HalfBounds
    <2>5. QED BY <2>3, <2>4 DEF Bounds
  <1>17. ASSUME NEW th \in Thieves, StealLose(th) PROVE Bounds'
    <2>th. th \in Threads /\ th # Owner BY ThiefIsThread
    <2>1. pc'[th] = "idle" /\ \A x \in Threads : x # th =>
            pc'[x] = pc[x] /\ b'[x] = b[x] /\ t'[x] = t[x]
      BY <1>17, <2>th, ReturnEffect DEF StealLose
    <2>2. OwnerBounds'
      BY Zenon, <1>17, <2>th, <1>own, <1>num, <2>1
         DEF StealLose, TypeOK, Bounds, OwnerBounds, OccupancyBounded,
             PushPC, PopPC
    <2>3. HalfBounds'
      BY Zenon, <1>17, <2>th, <2>1
         DEF StealLose, TypeOK, Bounds, HalfBounds
    <2>4. QED BY <2>2, <2>3 DEF Bounds
  <1>18. ASSUME NEW th \in Threads, HalfLoadBottom(th) PROVE Bounds'
    <2>1. pc'[th] = "half_load" /\ \A x \in Threads : x # th => pc'[x] = pc[x]
      BY <1>18, <1>own, LabelsType, GotoEffect DEF HalfLoadBottom, HalfPC
    <2>2. OwnerBounds'
      BY Zenon, <1>18, <1>own, <1>num, <2>1
         DEF HalfLoadBottom, BottomSeenBy, Drained, TypeOK, Bounds, OwnerBounds, OccupancyBounded,
             PushPC, PopPC
    <2>3. HalfBounds'
      BY Zenon, <1>18, <1>own, <2>1
         DEF HalfLoadBottom, TypeOK, Bounds, HalfBounds
    <2>4. QED BY <2>2, <2>3 DEF Bounds
  <1>19. ASSUME NEW th \in Threads, HalfLoadTop(th) PROVE Bounds'
    <2>1. pc'[th] = "half_cas" /\ \A x \in Threads : x # th => pc'[x] = pc[x]
      BY Zenon, <1>19, <1>own, LabelsType, GotoEffect DEF HalfLoadTop, HalfPC
    <2>2. OwnerBounds'
      BY Zenon, <1>19, <1>own, <1>num, <2>1
         DEF HalfLoadTop, TypeOK, Bounds, OwnerBounds, OccupancyBounded,
             PushPC, PopPC
    <2>3. HalfBounds'
      <3>1. b' = b /\ t' = [t EXCEPT ![th] = top] /\ b[th] - top > 0
        BY Zenon, <1>19 DEF HalfLoadTop
      <3>2. b[th] \in Int /\ t \in [Threads -> Nat] BY DEF TypeOK
      <3>3. t'[th] < b'[th] BY <1>loc, <3>1, <3>2
      <3>4. \A x \in Threads : x # th => t'[x] = t[x] BY <3>1, <3>2
      <3>5. QED BY <2>1, <3>1, <3>3, <3>4 DEF Bounds, HalfBounds
    <2>4. QED BY <2>2, <2>3 DEF Bounds
  <1>20. ASSUME NEW th \in Threads, HalfEmpty(th) PROVE Bounds'
    <2>1. pc'[th] = "idle" /\ \A x \in Threads : x # th =>
            pc'[x] = pc[x] /\ b'[x] = b[x] /\ t'[x] = t[x]
      BY <1>20, <1>own, ReturnEffect DEF HalfEmpty
    <2>2. OwnerBounds'
      BY Zenon, <1>20, <1>own, <1>num, <2>1
         DEF HalfEmpty, TypeOK, Bounds, OwnerBounds, OccupancyBounded,
             PushPC, PopPC
    <2>3. HalfBounds'
      BY Zenon, <1>20, <1>own, <2>1
         DEF HalfEmpty, TypeOK, Bounds, HalfBounds
    <2>4. QED BY <2>2, <2>3 DEF Bounds
  <1>21. ASSUME NEW th \in Threads, HalfWin(th) PROVE Bounds'
    <2>1. b[th] - t[th] \in Nat \ {0}
      BY <1>21 DEF HalfWin, TypeOK, Bounds, HalfBounds
    <2>2. num_to_take(b[th] - t[th]) \in Nat \ {0} BY <2>1, NumToTake
    <2>3. /\ pc[th] = "half_cas" /\ pc'[th] = "half_copy"
          /\ \A x \in Threads : x # th => pc'[x] = pc[x]
      BY <1>21, <1>own, LabelsType, GotoEffect DEF HalfWin, HalfPC
    <2>4. /\ top' >= top /\ top' \in Nat /\ bottom' = bottom /\ pending' = pending
          /\ pushed' = pushed /\ b' = b /\ t' = t
      <3> DEFINE n == num_to_take(b[th] - t[th])
      <3>1. n \in Nat /\ top' = top + n BY <1>21, <2>2 DEF HalfWin
      <3> HIDE DEF n
      <3>2. top' >= top /\ top' \in Nat BY <3>1, <1>loc
      <3>3. QED BY <3>2, <1>21 DEF HalfWin
    <2>5. OwnerBounds'
      <3>1. OwnerBounds BY DEF Bounds
      <3>2. OccupancyBounded'
        BY <2>4, <1>num, <1>loc, <3>1 DEF OwnerBounds, OccupancyBounded
      <3>3. CASE th = Owner
        BY <2>3, <2>4, <3>1, <3>2, <3>3 DEF OwnerBounds, PushPC, PopPC
      <3>4. CASE th # Owner
        <4>1. pc'[Owner] = pc[Owner] BY <1>own, <2>3, <3>4
        <4>2. b[Owner] - top < kMaxSize => b[Owner] - top' < kMaxSize
          BY <2>4, <1>num, <1>loc
        <4>3. b[Owner] + 1 - top <= kMaxSize => b[Owner] + 1 - top' <= kMaxSize
          BY <2>4, <1>num, <1>loc
        <4>4. QED BY <2>4, <3>1, <3>2, <4>1, <4>2, <4>3 DEF OwnerBounds
      <3>5. QED BY <3>3, <3>4
    <2>6. HalfBounds'
      BY Zenon, <1>21, <1>own, <2>2, <2>3
         DEF HalfWin, TypeOK, Bounds, HalfBounds
    <2>7. QED BY <2>5, <2>6 DEF Bounds
  <1>22. ASSUME NEW th \in Threads, HalfLose(th) PROVE Bounds'
    <2>1. pc'[th] = "idle" /\ \A x \in Threads : x # th =>
            pc'[x] = pc[x] /\ b'[x] = b[x] /\ t'[x] = t[x]
      BY <1>22, <1>own, ReturnEffect DEF HalfLose
    <2>2. OwnerBounds'
      BY Zenon, <1>22, <1>own, <1>num, <2>1
         DEF HalfLose, TypeOK, Bounds, OwnerBounds, OccupancyBounded,
             PushPC, PopPC
    <2>3. HalfBounds'
      BY Zenon, <1>22, <1>own, <2>1
         DEF HalfLose, TypeOK, Bounds, HalfBounds
    <2>4. QED BY <2>2, <2>3 DEF Bounds
  <1>23. ASSUME NEW th \in Threads, HalfCopy(th) PROVE Bounds'
    <2>1. OwnerBounds'
      BY <1>23, <1>own, <1>num
         DEF HalfCopy, TypeOK, Bounds, OwnerBounds, OccupancyBounded,
             PushPC, PopPC
    <2>2. HalfBounds'
      BY <1>23, <1>own
         DEF HalfCopy, TypeOK, Bounds, HalfBounds
    <2>3. QED BY <2>1, <2>2 DEF Bounds
  <1>24. ASSUME NEW th \in Threads, HalfReturn(th) PROVE Bounds'
    <2>1. pc'[th] = "idle" /\ \A x \in Threads : x # th =>
            pc'[x] = pc[x] /\ b'[x] = b[x] /\ t'[x] = t[x]
      BY Zenon, <1>24, <1>own, ReturnEffect DEF HalfReturn
    <2>2. OwnerBounds'
      BY Zenon, <1>24, <1>own, <1>num, <2>1
         DEF HalfReturn, TypeOK, Bounds, OwnerBounds, OccupancyBounded,
             PushPC, PopPC
    <2>3. HalfBounds'
      BY Zenon, <1>24, <1>own, <2>1
         DEF HalfReturn, TypeOK, Bounds, HalfBounds
    <2>4. QED BY <2>2, <2>3 DEF Bounds
  <1>25. CASE UNCHANGED vars
    BY Zenon, <1>25 DEF vars, Bounds, OwnerBounds, HalfBounds, OccupancyBounded
  <1>26. QED
    BY <1>1, <1>2, <1>3, <1>4, <1>5, <1>6, <1>7, <1>8, <1>9, <1>10, <1>11, <1>12,
       <1>13, <1>14, <1>15, <1>16, <1>17, <1>18, <1>19, <1>20, <1>21, <1>22, <1>23, <1>24, <1>25,
       OwnerIsThread, ThiefIsThread
       DEF Next, Push, TryPop, Steal, TakeHalf

\* Type correctness, whatever the constants.
THEOREM TypeCorrect == Spec => []TypeOK
  <1>1. TypeOK /\ Bounds /\ [Next]_vars => (TypeOK /\ Bounds)'
    BY TypeStep, BoundsStep
  <1>2. QED BY BoundsInit, <1>1, PTL DEF Spec

\* Push never overwrites a task that nobody has claimed: the deque holds at
\* most kMaxSize tasks, even with delayed stores and thieves calling TakeHalf.
THEOREM OccupancyTheorem == Spec => []OccupancyBounded
  <1>1. TypeOK /\ Bounds /\ [Next]_vars => (TypeOK /\ Bounds)'
    BY TypeStep, BoundsStep
  <1>2. Bounds => OccupancyBounded BY DEF Bounds, OwnerBounds
  <1>3. QED BY BoundsInit, <1>1, <1>2, PTL DEF Spec

-----------------------------------------------------------------------------
(* No empty slot is handed out.                                            *)

\* Every index below e has a slot that some Push has written.
Written(buf, e) == \A j \in Nat : j < e => buf[Slot(j)] # NoTask

OwnerSlots ==
  /\ Written(buffer, bottom)
  /\ Written(buffer, top)
  /\ pc[Owner] = "push_write" => Written(buffer, b[Owner])
  /\ pc[Owner] = "push_publish" => Written(buffer, b[Owner] + 1)
  /\ pc[Owner] \in PopPC => Written(buffer, b[Owner] + 1)

ThreadSlots(th) ==
  /\ pc[th] \in {"steal_read", "steal_cas"} => Written(buffer, t[th] + 1)
  /\ pc[th] = "steal_cas" => item[th] # NoTask
  /\ pc[th] \in {"half_load", "half_cas"} => Written(buffer, b[th])
  /\ pc[th] = "half_copy" => Written(buffer, t[th] + left[th])

Slots ==
  /\ OwnerSlots
  /\ \A th \in Threads : ThreadSlots(th)
  /\ NoEmptySlotHandedOut

\* What is written below e is written below any smaller index.
LEMMA WrittenMono ==
  ASSUME NEW buf, NEW d \in Int, NEW e \in Int, d <= e, Written(buf, e)
  PROVE  Written(buf, d)
  BY DEF Written

\* The locals of the other threads are as before.
Others(th) ==
  \A x \in Threads : x # th =>
    /\ pc'[x] = pc[x] /\ b'[x] = b[x] /\ t'[x] = t[x]
    /\ item'[x] = item[x] /\ left'[x] = left[x]

\* A step that writes no slot leaves the facts about the other threads alone.
LEMMA OthersKeepSlots ==
  ASSUME NEW th \in Threads, Slots, Others(th), buffer' = buffer
  PROVE  \A x \in Threads : x # th => ThreadSlots(x)'
  BY DEF Slots, ThreadSlots, Others

\* Handing out a task other than nullptr.
LEMMA HandOutTask ==
  ASSUME TypeOK, NoEmptySlotHandedOut, NEW k, k # NoTask, HandOut(k)
  PROVE  NoEmptySlotHandedOut'
  <1>1. taken \in [0..MaxTasks -> Nat] BY DEF TypeOK
  <1>2. NoTask \in 0..MaxTasks BY ConstantsOK DEF NoTask
  <1>3. QED BY <1>1, <1>2 DEF HandOut, NoEmptySlotHandedOut

\* bottom_ as its owner or a thief reads it.
LEMMA SeenWritten ==
  ASSUME TypeOK, Bounds, Slots, NEW th \in Threads
  PROVE  BottomSeenBy(th) \in Int /\ Written(buffer, BottomSeenBy(th))
  BY OwnerNumbers, WrittenMono
     DEF BottomSeenBy, Slots, OwnerSlots, Bounds, OwnerBounds

\* In an empty deque there is nothing below top_ and bottom_.
LEMMA SlotsInit == Init => Slots
  BY OwnerIsThread, ConstantsOK
     DEF Init, Slots, OwnerSlots, ThreadSlots, Written, NoEmptySlotHandedOut,
         NoTask, PopPC

\* Every step preserves Slots: a Push fills the slot of the index it publishes,
\* and nothing ever empties a slot.
LEMMA SlotsStep ==
  TypeOK /\ Bounds /\ Slots /\ [Next]_vars /\ TypeOK' => Slots'
  <1> SUFFICES ASSUME TypeOK, Bounds, Slots, [Next]_vars, TypeOK' PROVE Slots'
    OBVIOUS
  <1>own. Owner \in Threads BY OwnerIsThread
  <1>loc. /\ top \in Nat /\ bottom \in Int /\ pending \in Int
          /\ pushed \in Nat /\ b[Owner] \in Int /\ t[Owner] \in Nat
    BY OwnerNumbers
  <1>1. CASE PushLoad
    <2>1. pc'[Owner] = "push_write" /\ Others(Owner)
      <3>1. pc'[Owner] = "push_write" /\ \A x \in Threads : x # Owner => pc'[x] = pc[x]
        BY <1>1, <1>own, LabelsType, GotoEffect DEF PushLoad, PushPC
      <3>2. QED BY <1>1, <3>1, <1>own DEF PushLoad, Others, TypeOK
    <2>2. buffer' = buffer BY <1>1 DEF PushLoad
    <2>3. t[Owner] \in Nat /\ b[Owner] \in Int /\ left[Owner] \in Nat
      BY <1>own DEF TypeOK
    <2>4. OwnerSlots'
      <3>1. b'[Owner] = BottomSeenBy(Owner) BY <1>1, <1>own DEF PushLoad, TypeOK
      <3>2. bottom' = bottom /\ top' = top BY <1>1 DEF PushLoad
      <3>3. QED
        BY <1>own, <2>1, <2>2, <3>1, <3>2, SeenWritten DEF Slots, OwnerSlots, PopPC
    <2>5. ThreadSlots(Owner)'
      BY Zenon, <1>1, <1>own, <1>loc, <2>1, <2>2, <2>3, WrittenMono
         DEF PushLoad, BottomSeenBy, Slots, OwnerSlots, ThreadSlots, Bounds, OwnerBounds,
             PushPC, PopPC
    <2>7. NoEmptySlotHandedOut'
      BY <1>1 DEF PushLoad, Slots, NoEmptySlotHandedOut
    <2>8. QED BY <1>own, <2>1, <2>2, <2>4, <2>5, <2>7, OthersKeepSlots DEF Slots
  <1>2. CASE PushPublish
    <2>1. pc'[Owner] = "idle" /\ Others(Owner)
      BY Zenon, <1>2, <1>own, ReturnEffect DEF PushPublish, Others
    <2>2. buffer' = buffer BY <1>2 DEF PushPublish
    <2>3. t[Owner] \in Nat /\ b[Owner] \in Int /\ left[Owner] \in Nat
      BY <1>own DEF TypeOK
    <2>4. OwnerSlots'
      BY Zenon, <1>2, <1>own, <1>loc, <2>1, <2>2, <2>3, WrittenMono
         DEF PushPublish, Others, Slots, OwnerSlots, ThreadSlots, Bounds, OwnerBounds,
             PushPC, PopPC
    <2>5. ThreadSlots(Owner)'
      BY <1>2, <1>own, <1>loc, <2>1, <2>2, <2>3, WrittenMono
         DEF PushPublish, Slots, OwnerSlots, ThreadSlots, Bounds, OwnerBounds,
             PushPC, PopPC
    <2>7. NoEmptySlotHandedOut'
      BY <1>2 DEF PushPublish, Slots, NoEmptySlotHandedOut
    <2>8. QED BY <1>own, <2>1, <2>2, <2>4, <2>5, <2>7, OthersKeepSlots DEF Slots
  <1>3. CASE PopStore
    <2>1. pc'[Owner] = "pop_load" /\ Others(Owner)
      <3>1. pc'[Owner] = "pop_load" /\ \A x \in Threads : x # Owner => pc'[x] = pc[x]
        BY <1>3, <1>own, LabelsType, GotoEffect DEF PopStore, PopPC
      <3>2. QED BY <1>3, <3>1, <1>own DEF PopStore, Others, TypeOK
    <2>2. buffer' = buffer BY <1>3 DEF PopStore
    <2>3. t[Owner] \in Nat /\ b[Owner] \in Int /\ left[Owner] \in Nat
      BY <1>own DEF TypeOK
    <2>4. OwnerSlots'
      <3>1. b'[Owner] = bottom - 1 BY <1>3, <1>own DEF PopStore, TypeOK
      <3>2. bottom' <= bottom /\ bottom' \in Int /\ top' = top
        BY <1>3, <1>loc DEF PopStore
      <3>3. Written(buffer, bottom') /\ Written(buffer, b'[Owner] + 1)
        BY <1>loc, <3>1, <3>2, WrittenMono DEF Slots, OwnerSlots
      <3>4. QED BY Zenon, <2>1, <2>2, <3>2, <3>3 DEF Slots, OwnerSlots
    <2>5. ThreadSlots(Owner)'
      BY Zenon, <1>3, <1>own, <1>loc, <2>1, <2>2, <2>3, WrittenMono
         DEF PopStore, Slots, OwnerSlots, ThreadSlots, Bounds, OwnerBounds,
             PushPC, PopPC
    <2>7. NoEmptySlotHandedOut'
      BY <1>3 DEF PopStore, Slots, NoEmptySlotHandedOut
    <2>8. QED BY <1>own, <2>1, <2>2, <2>4, <2>5, <2>7, OthersKeepSlots DEF Slots
  <1>4. CASE Drain
    <2>1. pc' = pc /\ Others(Owner)
      BY <1>4, <1>own DEF Drain, Others, TypeOK
    <2>2. buffer' = buffer BY <1>4 DEF Drain
    <2>3. t[Owner] \in Nat /\ b[Owner] \in Int /\ left[Owner] \in Nat
      BY <1>own DEF TypeOK
    <2>4. OwnerSlots'
      BY <1>4, <1>own, <1>loc, <2>1, <2>2, <2>3, WrittenMono
         DEF Drain, Others, Slots, OwnerSlots, ThreadSlots, Bounds, OwnerBounds,
             PushPC, PopPC
    <2>5. ThreadSlots(Owner)'
      BY Zenon, <1>4, <1>own, <1>loc, <2>1, <2>2, <2>3, WrittenMono
         DEF Drain, Slots, OwnerSlots, ThreadSlots, Bounds, OwnerBounds,
             PushPC, PopPC
    <2>7. NoEmptySlotHandedOut'
      BY <1>4 DEF Drain, Slots, NoEmptySlotHandedOut
    <2>8. QED BY <1>own, <2>1, <2>2, <2>4, <2>5, <2>7, OthersKeepSlots DEF Slots
  <1>5. CASE PopTake
    <2>1. pc'[Owner] = "idle" /\ Others(Owner)
      BY Zenon, <1>5, <1>own, ReturnEffect DEF PopTake, Others
    <2>2. buffer' = buffer BY <1>5 DEF PopTake
    <2>3. t[Owner] \in Nat /\ b[Owner] \in Int /\ left[Owner] \in Nat
      BY <1>own DEF TypeOK
    <2>4. OwnerSlots'
      BY Zenon, <1>5, <1>own, <1>loc, <2>1, <2>2, <2>3, WrittenMono
         DEF PopTake, Others, Slots, OwnerSlots, ThreadSlots, Bounds, OwnerBounds,
             PushPC, PopPC
    <2>5. ThreadSlots(Owner)'
      BY Zenon, <1>5, <1>own, <1>loc, <2>1, <2>2, <2>3, WrittenMono
         DEF PopTake, Slots, OwnerSlots, ThreadSlots, Bounds, OwnerBounds,
             PushPC, PopPC
    <2>6. buffer[Slot(b[Owner])] # NoTask
      <3>1. pc[Owner] = "pop_load" /\ top < b[Owner] BY <1>5 DEF PopTake
      <3>2. Written(buffer, b[Owner] + 1) BY Zenon, <3>1 DEF Slots, OwnerSlots, PopPC
      <3>3. b[Owner] \in Nat /\ b[Owner] < b[Owner] + 1 BY <1>loc, <3>1
      <3>4. QED BY <3>2, <3>3 DEF Written
    <2>7. NoEmptySlotHandedOut' BY <1>5, <2>6, HandOutTask DEF PopTake, Slots
    <2>8. QED BY <1>own, <2>1, <2>2, <2>4, <2>5, <2>7, OthersKeepSlots DEF Slots
  <1>6. CASE PopLast
    <2>1. pc'[Owner] = "pop_cas" /\ Others(Owner)
      <3>1. pc'[Owner] = "pop_cas" /\ \A x \in Threads : x # Owner => pc'[x] = pc[x]
        BY Zenon, <1>6, <1>own, LabelsType, GotoEffect DEF PopLast, PopPC
      <3>2. QED BY <1>6, <3>1, <1>own DEF PopLast, Others, TypeOK
    <2>2. buffer' = buffer BY <1>6 DEF PopLast
    <2>3. t[Owner] \in Nat /\ b[Owner] \in Int /\ left[Owner] \in Nat
      BY <1>own DEF TypeOK
    <2>4. OwnerSlots'
      BY Zenon, <1>6, <1>own, <1>loc, <2>1, <2>2, <2>3, WrittenMono
         DEF PopLast, Others, Slots, OwnerSlots, ThreadSlots, Bounds, OwnerBounds,
             PushPC, PopPC
    <2>5. ThreadSlots(Owner)'
      BY Zenon, <1>6, <1>own, <1>loc, <2>1, <2>2, <2>3, WrittenMono
         DEF PopLast, Slots, OwnerSlots, ThreadSlots, Bounds, OwnerBounds,
             PushPC, PopPC
    <2>7. NoEmptySlotHandedOut'
      BY Zenon, <1>6 DEF PopLast, Slots, NoEmptySlotHandedOut
    <2>8. QED BY <1>own, <2>1, <2>2, <2>4, <2>5, <2>7, OthersKeepSlots DEF Slots
  <1>7. CASE PopEmpty
    <2>1. pc'[Owner] = "pop_restore" /\ Others(Owner)
      <3>1. pc'[Owner] = "pop_restore" /\ \A x \in Threads : x # Owner => pc'[x] = pc[x]
        BY Zenon, <1>7, <1>own, LabelsType, GotoEffect DEF PopEmpty, PopPC
      <3>2. QED BY <1>7, <3>1, <1>own DEF PopEmpty, Others, TypeOK
    <2>2. buffer' = buffer BY <1>7 DEF PopEmpty
    <2>3. t[Owner] \in Nat /\ b[Owner] \in Int /\ left[Owner] \in Nat
      BY <1>own DEF TypeOK
    <2>4. OwnerSlots'
      BY Zenon, <1>7, <1>own, <1>loc, <2>1, <2>2, <2>3, WrittenMono
         DEF PopEmpty, Others, Slots, OwnerSlots, ThreadSlots, Bounds, OwnerBounds,
             PushPC, PopPC
    <2>5. ThreadSlots(Owner)'
      BY Zenon, <1>7, <1>own, <1>loc, <2>1, <2>2, <2>3, WrittenMono
         DEF PopEmpty, Slots, OwnerSlots, ThreadSlots, Bounds, OwnerBounds,
             PushPC, PopPC
    <2>7. NoEmptySlotHandedOut'
      BY <1>7 DEF PopEmpty, Slots, NoEmptySlotHandedOut
    <2>8. QED BY <1>own, <2>1, <2>2, <2>4, <2>5, <2>7, OthersKeepSlots DEF Slots
  <1>8. CASE PopWin
    <2>1. pc'[Owner] = "pop_restore" /\ Others(Owner)
      <3>1. pc'[Owner] = "pop_restore" /\ \A x \in Threads : x # Owner => pc'[x] = pc[x]
        BY Zenon, <1>8, <1>own, LabelsType, GotoEffect DEF PopWin, PopPC
      <3>2. QED BY <1>8, <3>1, <1>own DEF PopWin, Others, TypeOK
    <2>2. buffer' = buffer BY <1>8 DEF PopWin
    <2>3. t[Owner] \in Nat /\ b[Owner] \in Int /\ left[Owner] \in Nat
      BY <1>own DEF TypeOK
    <2>4. OwnerSlots'
      BY Zenon, <1>8, <1>own, <1>loc, <2>1, <2>2, <2>3, WrittenMono
         DEF PopWin, Others, Slots, OwnerSlots, ThreadSlots, Bounds, OwnerBounds,
             PushPC, PopPC
    <2>5. ThreadSlots(Owner)'
      BY Zenon, <1>8, <1>own, <1>loc, <2>1, <2>2, <2>3, WrittenMono
         DEF PopWin, Slots, OwnerSlots, ThreadSlots, Bounds, OwnerBounds,
             PushPC, PopPC
    <2>6. buffer[Slot(b[Owner])] # NoTask
      <3>1. pc[Owner] = "pop_cas" BY <1>8 DEF PopWin
      <3>2. Written(buffer, b[Owner] + 1) BY <3>1 DEF Slots, OwnerSlots, PopPC
      <3>3. b[Owner] = t[Owner] BY Zenon, <3>1 DEF Bounds, OwnerBounds
      <3>4. b[Owner] \in Nat /\ b[Owner] < b[Owner] + 1 BY <1>loc, <3>3
      <3>5. QED BY <3>2, <3>4 DEF Written
    <2>7. NoEmptySlotHandedOut' BY Zenon, <1>8, <2>6, HandOutTask DEF PopWin, Slots
    <2>8. QED BY <1>own, <2>1, <2>2, <2>4, <2>5, <2>7, OthersKeepSlots DEF Slots
  <1>9. CASE PopLose
    <2>1. pc'[Owner] = "pop_restore" /\ Others(Owner)
      <3>1. pc'[Owner] = "pop_restore" /\ \A x \in Threads : x # Owner => pc'[x] = pc[x]
        BY Zenon, <1>9, <1>own, LabelsType, GotoEffect DEF PopLose, PopPC
      <3>2. QED BY <1>9, <3>1, <1>own DEF PopLose, Others, TypeOK
    <2>2. buffer' = buffer BY <1>9 DEF PopLose
    <2>3. t[Owner] \in Nat /\ b[Owner] \in Int /\ left[Owner] \in Nat
      BY <1>own DEF TypeOK
    <2>4. OwnerSlots'
      BY Zenon, <1>9, <1>own, <1>loc, <2>1, <2>2, <2>3, WrittenMono
         DEF PopLose, Others, Slots, OwnerSlots, ThreadSlots, Bounds, OwnerBounds,
             PushPC, PopPC
    <2>5. ThreadSlots(Owner)'
      BY Zenon, <1>9, <1>own, <1>loc, <2>1, <2>2, <2>3, WrittenMono
         DEF PopLose, Slots, OwnerSlots, ThreadSlots, Bounds, OwnerBounds,
             PushPC, PopPC
    <2>7. NoEmptySlotHandedOut'
      BY Zenon, <1>9 DEF PopLose, Slots, NoEmptySlotHandedOut
    <2>8. QED BY <1>own, <2>1, <2>2, <2>4, <2>5, <2>7, OthersKeepSlots DEF Slots
  <1>10. CASE PopRestore
    <2>1. pc'[Owner] = "idle" /\ Others(Owner)
      BY Zenon, <1>10, <1>own, ReturnEffect DEF PopRestore, Others
    <2>2. buffer' = buffer BY Zenon, <1>10 DEF PopRestore
    <2>3. t[Owner] \in Nat /\ b[Owner] \in Int /\ left[Owner] \in Nat
      BY <1>own DEF TypeOK
    <2>4. OwnerSlots'
      BY Zenon, <1>10, <1>own, <1>loc, <2>1, <2>2, <2>3, WrittenMono
         DEF PopRestore, Others, Slots, OwnerSlots, ThreadSlots, Bounds, OwnerBounds,
             PushPC, PopPC
    <2>5. ThreadSlots(Owner)'
      BY Zenon, <1>10, <1>own, <1>loc, <2>1, <2>2, <2>3, WrittenMono
         DEF PopRestore, Slots, OwnerSlots, ThreadSlots, Bounds, OwnerBounds,
             PushPC, PopPC
    <2>7. NoEmptySlotHandedOut'
      BY <1>10 DEF PopRestore, Slots, NoEmptySlotHandedOut
    <2>8. QED BY <1>own, <2>1, <2>2, <2>4, <2>5, <2>7, OthersKeepSlots DEF Slots
  <1>11. ASSUME NEW th \in Thieves, StealLoadTop(th) PROVE Slots'
    <2>th. th \in Threads /\ th # Owner BY ThiefIsThread
    <2>1. pc'[th] = "steal_load" /\ Others(th)
      <3>1. pc'[th] = "steal_load" /\ \A x \in Threads : x # th => pc'[x] = pc[x]
        BY <1>11, <2>th, LabelsType, GotoEffect DEF StealLoadTop, StealPC
      <3>2. QED BY <1>11, <3>1, <2>th DEF StealLoadTop, Others, TypeOK
    <2>2. buffer' = buffer BY <1>11 DEF StealLoadTop
    <2>3. t[th] \in Nat /\ b[th] \in Int /\ left[th] \in Nat
      BY <2>th DEF TypeOK
    <2>4. OwnerSlots'
      BY Zenon, <1>11, <2>th, <1>own, <1>loc, <2>1, <2>2, <2>3, WrittenMono
         DEF StealLoadTop, Others, Slots, OwnerSlots, ThreadSlots, Bounds, OwnerBounds,
             PushPC, PopPC
    <2>5. ThreadSlots(th)'
      BY Zenon, <1>11, <2>th, <1>loc, <2>1, <2>2, <2>3, WrittenMono
         DEF StealLoadTop, Slots, OwnerSlots, ThreadSlots, Bounds, OwnerBounds,
             PushPC, PopPC
    <2>7. NoEmptySlotHandedOut'
      BY <1>11 DEF StealLoadTop, Slots, NoEmptySlotHandedOut
    <2>8. QED BY <2>th, <2>1, <2>2, <2>4, <2>5, <2>7, OthersKeepSlots DEF Slots
  <1>12. ASSUME NEW th \in Thieves, StealLoadBottom(th) PROVE Slots'
    <2>th. th \in Threads /\ th # Owner BY ThiefIsThread
    <2>1. pc'[th] = "steal_read" /\ Others(th)
      <3>1. pc'[th] = "steal_read" /\ \A x \in Threads : x # th => pc'[x] = pc[x]
        BY Zenon, <1>12, <2>th, LabelsType, GotoEffect DEF StealLoadBottom, StealPC
      <3>2. QED BY <1>12, <3>1, <2>th DEF StealLoadBottom, Others, TypeOK
    <2>2. buffer' = buffer BY Zenon, <1>12 DEF StealLoadBottom
    <2>3. t[th] \in Nat /\ b[th] \in Int /\ left[th] \in Nat
      BY <2>th DEF TypeOK
    <2>4. OwnerSlots'
      BY Zenon, <1>12, <2>th, <1>own, <1>loc, <2>1, <2>2, <2>3, WrittenMono
         DEF StealLoadBottom, Others, Slots, OwnerSlots, ThreadSlots, Bounds, OwnerBounds,
             PushPC, PopPC
    <2>5. ThreadSlots(th)'
      <3>1. t' = t /\ t[th] < bottom BY <1>12 DEF StealLoadBottom
      <3>2. Written(buffer, bottom) BY DEF Slots, OwnerSlots
      <3>3. t[th] + 1 \in Int /\ t[th] + 1 <= bottom BY <1>loc, <2>3, <3>1
      <3>4. Written(buffer, t[th] + 1) BY <1>loc, <3>2, <3>3, WrittenMono
      <3>5. QED BY Zenon, <2>1, <2>2, <3>1, <3>4 DEF ThreadSlots
    <2>7. NoEmptySlotHandedOut'
      BY <1>12 DEF StealLoadBottom, Slots, NoEmptySlotHandedOut
    <2>8. QED BY <2>th, <2>1, <2>2, <2>4, <2>5, <2>7, OthersKeepSlots DEF Slots
  <1>13. ASSUME NEW th \in Thieves, StealEmpty(th) PROVE Slots'
    <2>th. th \in Threads /\ th # Owner BY ThiefIsThread
    <2>1. pc'[th] = "idle" /\ Others(th)
      BY Zenon, <1>13, <2>th, ReturnEffect DEF StealEmpty, Others
    <2>2. buffer' = buffer BY Zenon, <1>13 DEF StealEmpty
    <2>3. t[th] \in Nat /\ b[th] \in Int /\ left[th] \in Nat
      BY <2>th DEF TypeOK
    <2>4. OwnerSlots'
      BY Zenon, <1>13, <2>th, <1>own, <1>loc, <2>1, <2>2, <2>3, WrittenMono
         DEF StealEmpty, Others, Slots, OwnerSlots, ThreadSlots, Bounds, OwnerBounds,
             PushPC, PopPC
    <2>5. ThreadSlots(th)'
      BY Zenon, <1>13, <2>th, <1>loc, <2>1, <2>2, <2>3, WrittenMono
         DEF StealEmpty, Slots, OwnerSlots, ThreadSlots, Bounds, OwnerBounds,
             PushPC, PopPC
    <2>7. NoEmptySlotHandedOut'
      BY <1>13 DEF StealEmpty, Slots, NoEmptySlotHandedOut
    <2>8. QED BY <2>th, <2>1, <2>2, <2>4, <2>5, <2>7, OthersKeepSlots DEF Slots
  <1>14. ASSUME NEW th \in Thieves, StealRead(th) PROVE Slots'
    <2>th. th \in Threads /\ th # Owner BY ThiefIsThread
    <2>1. pc'[th] = "steal_cas" /\ Others(th)
      <3>1. pc'[th] = "steal_cas" /\ \A x \in Threads : x # th => pc'[x] = pc[x]
        BY Zenon, <1>14, <2>th, LabelsType, GotoEffect DEF StealRead, StealPC
      <3>2. QED BY <1>14, <3>1, <2>th DEF StealRead, Others, TypeOK
    <2>2. buffer' = buffer BY <1>14 DEF StealRead
    <2>3. t[th] \in Nat /\ b[th] \in Int /\ left[th] \in Nat
      BY <2>th DEF TypeOK
    <2>4. OwnerSlots'
      BY Zenon, <1>14, <2>th, <1>own, <1>loc, <2>1, <2>2, <2>3, WrittenMono
         DEF StealRead, Others, Slots, OwnerSlots, ThreadSlots, Bounds, OwnerBounds,
             PushPC, PopPC
    <2>5. ThreadSlots(th)'
      <3>1. item'[th] = buffer[Slot(t[th])] BY <1>14, <2>th DEF StealRead, TypeOK
      <3>2. t' = t /\ Written(buffer, t[th] + 1)
        BY <1>14, <2>th DEF StealRead, Slots, ThreadSlots
      <3>3. buffer[Slot(t[th])] # NoTask BY <2>3, <3>2 DEF Written
      <3>4. QED BY Zenon, <2>1, <2>2, <3>1, <3>2, <3>3 DEF ThreadSlots
    <2>7. NoEmptySlotHandedOut'
      BY Zenon, <1>14 DEF StealRead, Slots, NoEmptySlotHandedOut
    <2>8. QED BY <2>th, <2>1, <2>2, <2>4, <2>5, <2>7, OthersKeepSlots DEF Slots
  <1>15. ASSUME NEW th \in Thieves, StealWin(th) PROVE Slots'
    <2>th. th \in Threads /\ th # Owner BY ThiefIsThread
    <2>1. pc'[th] = "idle" /\ Others(th)
      BY <1>15, <2>th, ReturnEffect DEF StealWin, Others
    <2>2. buffer' = buffer BY <1>15 DEF StealWin
    <2>3. t[th] \in Nat /\ b[th] \in Int /\ left[th] \in Nat
      BY <2>th DEF TypeOK
    <2>4. OwnerSlots'
      BY Zenon, <1>15, <2>th, <1>own, <1>loc, <2>1, <2>2, <2>3, WrittenMono
         DEF StealWin, Others, Slots, OwnerSlots, ThreadSlots, Bounds, OwnerBounds,
             PushPC, PopPC
    <2>5. ThreadSlots(th)'
      BY Zenon, <1>15, <2>th, <1>loc, <2>1, <2>2, <2>3, WrittenMono
         DEF StealWin, Slots, OwnerSlots, ThreadSlots, Bounds, OwnerBounds,
             PushPC, PopPC
    <2>6. item[th] # NoTask
      BY Zenon, <1>15, <2>th DEF StealWin, Slots, ThreadSlots
    <2>7. NoEmptySlotHandedOut' BY <1>15, <2>6, HandOutTask DEF StealWin, Slots
    <2>8. QED BY <2>th, <2>1, <2>2, <2>4, <2>5, <2>7, OthersKeepSlots DEF Slots
  <1>16. ASSUME NEW th \in Thieves, StealLose(th) PROVE Slots'
    <2>th. th \in Threads /\ th # Owner BY ThiefIsThread
    <2>1. pc'[th] = "idle" /\ Others(th)
      BY Zenon, <1>16, <2>th, ReturnEffect DEF StealLose, Others
    <2>2. buffer' = buffer BY <1>16 DEF StealLose
    <2>3. t[th] \in Nat /\ b[th] \in Int /\ left[th] \in Nat
      BY <2>th DEF TypeOK
    <2>4. OwnerSlots'
      BY Zenon, <1>16, <2>th, <1>own, <1>loc, <2>1, <2>2, <2>3, WrittenMono
         DEF StealLose, Others, Slots, OwnerSlots, ThreadSlots, Bounds, OwnerBounds,
             PushPC, PopPC
    <2>5. ThreadSlots(th)'
      BY Zenon, <1>16, <2>th, <1>loc, <2>1, <2>2, <2>3, WrittenMono
         DEF StealLose, Slots, OwnerSlots, ThreadSlots, Bounds, OwnerBounds,
             PushPC, PopPC
    <2>7. NoEmptySlotHandedOut'
      BY <1>16 DEF StealLose, Slots, NoEmptySlotHandedOut
    <2>8. QED BY <2>th, <2>1, <2>2, <2>4, <2>5, <2>7, OthersKeepSlots DEF Slots
  <1>17. ASSUME NEW th \in Threads, HalfLoadBottom(th) PROVE Slots'
    <2>1. pc'[th] = "half_load" /\ Others(th)
      <3>1. pc'[th] = "half_load" /\ \A x \in Threads : x # th => pc'[x] = pc[x]
        BY <1>17, <1>own, LabelsType, GotoEffect DEF HalfLoadBottom, HalfPC
      <3>2. QED BY <1>17, <3>1, <1>own DEF HalfLoadBottom, Others, TypeOK
    <2>2. buffer' = buffer BY <1>17 DEF HalfLoadBottom
    <2>3. t[th] \in Nat /\ b[th] \in Int /\ left[th] \in Nat
      BY <1>own DEF TypeOK
    <2>4. OwnerSlots'
      BY Zenon, <1>17, <1>own, <1>own, <1>loc, <2>1, <2>2, <2>3, WrittenMono
         DEF HalfLoadBottom, BottomSeenBy, Others, Slots, OwnerSlots, ThreadSlots, Bounds, OwnerBounds,
             PushPC, PopPC
    <2>5. ThreadSlots(th)'
      <3>1. b'[th] = BottomSeenBy(th) BY <1>17 DEF HalfLoadBottom, TypeOK
      <3>2. QED BY Zenon, <2>1, <2>2, <3>1, SeenWritten DEF ThreadSlots
    <2>7. NoEmptySlotHandedOut'
      BY <1>17 DEF HalfLoadBottom, Slots, NoEmptySlotHandedOut
    <2>8. QED BY <1>own, <2>1, <2>2, <2>4, <2>5, <2>7, OthersKeepSlots DEF Slots
  <1>18. ASSUME NEW th \in Threads, HalfLoadTop(th) PROVE Slots'
    <2>1. pc'[th] = "half_cas" /\ Others(th)
      <3>1. pc'[th] = "half_cas" /\ \A x \in Threads : x # th => pc'[x] = pc[x]
        BY Zenon, <1>18, <1>own, LabelsType, GotoEffect DEF HalfLoadTop, HalfPC
      <3>2. QED BY <1>18, <3>1, <1>own DEF HalfLoadTop, Others, TypeOK
    <2>2. buffer' = buffer BY Zenon, <1>18 DEF HalfLoadTop
    <2>3. t[th] \in Nat /\ b[th] \in Int /\ left[th] \in Nat
      BY <1>own DEF TypeOK
    <2>4. OwnerSlots'
      BY Zenon, <1>18, <1>own, <1>own, <1>loc, <2>1, <2>2, <2>3, WrittenMono
         DEF HalfLoadTop, Others, Slots, OwnerSlots, ThreadSlots, Bounds, OwnerBounds,
             PushPC, PopPC
    <2>5. ThreadSlots(th)'
      BY Zenon, <1>18, <1>own, <1>loc, <2>1, <2>2, <2>3, WrittenMono
         DEF HalfLoadTop, Slots, OwnerSlots, ThreadSlots, Bounds, OwnerBounds,
             PushPC, PopPC
    <2>7. NoEmptySlotHandedOut'
      BY Zenon, <1>18 DEF HalfLoadTop, Slots, NoEmptySlotHandedOut
    <2>8. QED BY <1>own, <2>1, <2>2, <2>4, <2>5, <2>7, OthersKeepSlots DEF Slots
  <1>19. ASSUME NEW th \in Threads, HalfEmpty(th) PROVE Slots'
    <2>1. pc'[th] = "idle" /\ Others(th)
      BY Zenon, <1>19, <1>own, ReturnEffect DEF HalfEmpty, Others
    <2>2. buffer' = buffer BY Zenon, <1>19 DEF HalfEmpty
    <2>3. t[th] \in Nat /\ b[th] \in Int /\ left[th] \in Nat
      BY <1>own DEF TypeOK
    <2>4. OwnerSlots'
      BY Zenon, <1>19, <1>own, <1>own, <1>loc, <2>1, <2>2, <2>3, WrittenMono
         DEF HalfEmpty, Others, Slots, OwnerSlots, ThreadSlots, Bounds, OwnerBounds,
             PushPC, PopPC
    <2>5. ThreadSlots(th)'
      BY Zenon, <1>19, <1>own, <1>loc, <2>1, <2>2, <2>3, WrittenMono
         DEF HalfEmpty, Slots, OwnerSlots, ThreadSlots, Bounds, OwnerBounds,
             PushPC, PopPC
    <2>7. NoEmptySlotHandedOut'
      BY <1>19 DEF HalfEmpty, Slots, NoEmptySlotHandedOut
    <2>8. QED BY <1>own, <2>1, <2>2, <2>4, <2>5, <2>7, OthersKeepSlots DEF Slots
  <1>20. ASSUME NEW th \in Threads, HalfWin(th) PROVE Slots'
    <2>1. pc'[th] = "half_copy" /\ Others(th)
      <3>1. pc'[th] = "half_copy" /\ \A x \in Threads : x # th => pc'[x] = pc[x]
        BY Zenon, <1>20, <1>own, LabelsType, GotoEffect DEF HalfWin, HalfPC
      <3>2. QED BY Zenon, <1>20, <3>1, <1>own DEF HalfWin, Others, TypeOK
    <2>2. buffer' = buffer BY Zenon, <1>20 DEF HalfWin
    <2>3. t[th] \in Nat /\ b[th] \in Int /\ left[th] \in Nat
      BY <1>own DEF TypeOK
    <2>4. /\ top' \in Int /\ top' <= b[th] /\ left'[th] = top' - t[th] /\ t' = t
      <3> DEFINE n == num_to_take(b[th] - t[th])
      <3>1. b[th] - t[th] \in Nat \ {0}
        BY <1>20, <2>3 DEF HalfWin, Bounds, HalfBounds
      <3>2. n \in 1..(b[th] - t[th]) BY <3>1, NumToTake
      <3>3. top' = t[th] + n /\ left'[th] = n /\ t' = t
        BY <1>20 DEF HalfWin, TypeOK
      <3> HIDE DEF n
      <3>4. QED BY <2>3, <3>2, <3>3
    <2>5. Written(buffer, top')
      <3>1. Written(buffer, b[th]) BY <1>20 DEF HalfWin, Slots, ThreadSlots
      <3>2. QED BY <2>3, <2>4, <3>1, WrittenMono
    <2>6. OwnerSlots' /\ ThreadSlots(th)'
      <3>1. bottom' = bottom /\ b' = b BY <1>20 DEF HalfWin
      <3>2. t[th] + left'[th] = top' BY <2>3, <2>4
      <3>3. OwnerSlots'
        BY Zenon, <1>own, <2>1, <2>2, <2>5, <3>1 DEF Others, Slots, OwnerSlots, PopPC
      <3>4. ThreadSlots(th)' BY Zenon, <2>1, <2>2, <2>4, <2>5, <3>2 DEF ThreadSlots
      <3>5. QED BY <3>3, <3>4
    <2>7. NoEmptySlotHandedOut'
      BY Zenon, <1>20 DEF HalfWin, Slots, NoEmptySlotHandedOut
    <2>8. QED BY <1>own, <2>1, <2>2, <2>6, <2>7, OthersKeepSlots DEF Slots
  <1>21. ASSUME NEW th \in Threads, HalfLose(th) PROVE Slots'
    <2>1. pc'[th] = "idle" /\ Others(th)
      BY <1>21, <1>own, ReturnEffect DEF HalfLose, Others
    <2>2. buffer' = buffer BY Zenon, <1>21 DEF HalfLose
    <2>3. t[th] \in Nat /\ b[th] \in Int /\ left[th] \in Nat
      BY <1>own DEF TypeOK
    <2>4. OwnerSlots'
      BY Zenon, <1>21, <1>own, <1>own, <1>loc, <2>1, <2>2, <2>3, WrittenMono
         DEF HalfLose, Others, Slots, OwnerSlots, ThreadSlots, Bounds, OwnerBounds,
             PushPC, PopPC
    <2>5. ThreadSlots(th)'
      BY Zenon, <1>21, <1>own, <1>loc, <2>1, <2>2, <2>3, WrittenMono
         DEF HalfLose, Slots, OwnerSlots, ThreadSlots, Bounds, OwnerBounds,
             PushPC, PopPC
    <2>7. NoEmptySlotHandedOut'
      BY <1>21 DEF HalfLose, Slots, NoEmptySlotHandedOut
    <2>8. QED BY <1>own, <2>1, <2>2, <2>4, <2>5, <2>7, OthersKeepSlots DEF Slots
  <1>22. ASSUME NEW th \in Threads, HalfCopy(th) PROVE Slots'
    <2>1. pc' = pc /\ Others(th)
      BY Zenon, <1>22, <1>own DEF HalfCopy, Others, TypeOK
    <2>2. buffer' = buffer BY Zenon, <1>22 DEF HalfCopy
    <2>3. t[th] \in Nat /\ b[th] \in Int /\ left[th] \in Nat
      BY <1>own DEF TypeOK
    <2>4. OwnerSlots'
      BY Zenon, <1>22, <1>own, <1>own, <1>loc, <2>1, <2>2, <2>3, WrittenMono
         DEF HalfCopy, Others, Slots, OwnerSlots, ThreadSlots, Bounds, OwnerBounds,
             PushPC, PopPC
    <2>5. ThreadSlots(th)'
      <3>1. t'[th] = t[th] + 1 /\ left'[th] = left[th] - 1
        BY Zenon, <1>22 DEF HalfCopy, TypeOK
      <3>2. t'[th] + left'[th] = t[th] + left[th] BY <2>3, <3>1
      <3>3. QED BY Zenon, <1>22, <2>1, <2>2, <3>2 DEF HalfCopy, Slots, ThreadSlots
    <2>6. buffer[Slot(t[th])] # NoTask
      <3>1. pc[th] = "half_copy" /\ left[th] > 0 BY <1>22 DEF HalfCopy
      <3>2. Written(buffer, t[th] + left[th]) BY <3>1 DEF Slots, ThreadSlots
      <3>3. t[th] < t[th] + left[th] BY <2>3, <3>1
      <3>4. QED BY <2>3, <3>2, <3>3 DEF Written
    <2>7. NoEmptySlotHandedOut' BY <1>22, <2>6, HandOutTask DEF HalfCopy, Slots
    <2>8. QED BY <1>own, <2>1, <2>2, <2>4, <2>5, <2>7, OthersKeepSlots DEF Slots
  <1>23. ASSUME NEW th \in Threads, HalfReturn(th) PROVE Slots'
    <2>1. pc'[th] = "idle" /\ Others(th)
      BY Zenon, <1>23, <1>own, ReturnEffect DEF HalfReturn, Others
    <2>2. buffer' = buffer BY <1>23 DEF HalfReturn
    <2>3. t[th] \in Nat /\ b[th] \in Int /\ left[th] \in Nat
      BY <1>own DEF TypeOK
    <2>4. OwnerSlots'
      BY Zenon, <1>23, <1>own, <1>own, <1>loc, <2>1, <2>2, <2>3, WrittenMono
         DEF HalfReturn, Others, Slots, OwnerSlots, ThreadSlots, Bounds, OwnerBounds,
             PushPC, PopPC
    <2>5. ThreadSlots(th)'
      BY Zenon, <1>23, <1>own, <1>loc, <2>1, <2>2, <2>3, WrittenMono
         DEF HalfReturn, Slots, OwnerSlots, ThreadSlots, Bounds, OwnerBounds,
             PushPC, PopPC
    <2>7. NoEmptySlotHandedOut'
      BY Zenon, <1>23 DEF HalfReturn, Slots, NoEmptySlotHandedOut
    <2>8. QED BY <1>own, <2>1, <2>2, <2>4, <2>5, <2>7, OthersKeepSlots DEF Slots
  <1>24. CASE PushWrite
    <2>1. pc'[Owner] = "push_publish" /\ Others(Owner)
      <3>1. pc'[Owner] = "push_publish" /\ \A x \in Threads : x # Owner => pc'[x] = pc[x]
        BY <1>24, <1>own, LabelsType, GotoEffect DEF PushWrite, PushPC
      <3>2. QED BY Zenon, <1>24, <3>1, <1>own DEF PushWrite, Others
    <2>2. b[Owner] \in Nat /\ pushed + 1 # NoTask
      BY <1>24, <1>loc DEF PushWrite, Bounds, OwnerBounds, PushPC, NoTask
    <2>3. buffer \in [0..(kMaxSize - 1) -> 0..MaxTasks] BY DEF TypeOK
    <2>4. \A j \in Nat : /\ Slot(j) \in 0..(kMaxSize - 1)
                         /\ buffer[Slot(j)] # NoTask => buffer'[Slot(j)] # NoTask
                         /\ j = b[Owner] => buffer'[Slot(j)] # NoTask
      BY Zenon, <1>24, <2>2, <2>3, SlotType DEF PushWrite
    <2>5. \A e : Written(buffer, e) => Written(buffer', e)
      BY <2>4 DEF Written
    <2>6. Written(buffer', b[Owner] + 1)
      <3>1. Written(buffer, b[Owner]) BY Zenon, <1>24 DEF PushWrite, Slots, OwnerSlots
      <3>2. QED BY <2>2, <2>4, <3>1 DEF Written
    <2>7. OwnerSlots'
      BY Zenon, <1>24, <2>1, <2>5, <2>6 DEF PushWrite, Slots, OwnerSlots, PopPC
    <2>8. \A x \in Threads : ThreadSlots(x)'
      BY Zenon, <2>1, <2>5 DEF Slots, ThreadSlots, Others
    <2>9. NoEmptySlotHandedOut' BY Zenon, <1>24 DEF PushWrite, Slots, NoEmptySlotHandedOut
    <2>10. QED BY <2>7, <2>8, <2>9 DEF Slots
  <1>25. CASE UNCHANGED vars
    BY Zenon, <1>25 DEF vars, Slots, OwnerSlots, ThreadSlots, NoEmptySlotHandedOut
  <1>26. QED
    BY <1>1, <1>2, <1>3, <1>4, <1>5, <1>6, <1>7, <1>8, <1>9, <1>10, <1>11, <1>12,
       <1>13, <1>14, <1>15, <1>16, <1>17, <1>18, <1>19, <1>20, <1>21, <1>22, <1>23, <1>24, <1>25,
       OwnerIsThread, ThiefIsThread
       DEF Next, Push, TryPop, Steal, TakeHalf

\* No caller is ever given nullptr out of a slot, however the deque is used.
THEOREM NoEmptySlotTheorem == Spec => []NoEmptySlotHandedOut
  <1>1. TypeOK /\ Bounds /\ Slots /\ [Next]_vars => (TypeOK /\ Bounds /\ Slots)'
    BY TypeStep, BoundsStep, SlotsStep
  <1>2. Slots => NoEmptySlotHandedOut BY DEF Slots
  <1>3. QED BY BoundsInit, SlotsInit, <1>1, <1>2, PTL DEF Spec
=============================================================================
