------------------------ MODULE SPMCExactlyOnceProofs ------------------------
(***************************************************************************)
(* When the deque is used as its header documents (only the owner calls    *)
(* TakeHalf) and TryPop's store of bottom_ is not delayed past its load of *)
(* top_, every task is handed out exactly once: NoTaskTwice and NoTaskLost *)
(* for every capacity, number of thieves and number of tasks.              *)
(*                                                                         *)
(* The inductive invariant relates the slots between top_ and bottom_ (and *)
(* those TakeHalf is copying) to the tasks nobody has yet (Contents), says *)
(* what a thief in the middle of Steal still knows (ThievesSee), and where *)
(* top_ and bottom_ are at each step of the owner (Control).               *)
(***************************************************************************)
EXTENDS SPMCQueueProofs

-----------------------------------------------------------------------------
(* Used as documented: exactly once.                                       *)

Contract == ThiefTakesHalf = FALSE /\ StoreDelay = FALSE

\* The indices of the tasks that are in the deque or being copied.
Held == Claimed(Owner) \cup (top..(LiveEnd - 1))

\* The slots of a set H of indices hold distinct tasks of 1..p that nobody
\* has, and every other task of 1..p was handed out once.
Exact(H, buf, tk, p) ==
  /\ \A i \in H : buf[Slot(i)] \in 1..p /\ tk[buf[Slot(i)]] = 0
  /\ \A i, j \in H : i # j => buf[Slot(i)] # buf[Slot(j)]
  /\ \A k \in 1..p : tk[k] = 1 \/ \E i \in H : buf[Slot(i)] = k
  /\ \A k \in Tasks : tk[k] <= 1 /\ (k > p => tk[k] = 0)

\* Who is where, and where top_ and bottom_ are then.
Control ==
  /\ pending = Drained
  /\ pc[Owner] \notin StealPC
  /\ \A th \in Thieves : pc[th] \in {"idle"} \cup StealPC /\ left[th] = 0
  /\ pc[Owner] # "half_copy" => left[Owner] = 0
  /\ pc[Owner] \in PushPC \cup {"half_load", "half_cas"} => b[Owner] = bottom
  /\ pc[Owner] = "pop_restore" => top = b[Owner] + 1
  /\ pc[Owner] = "half_copy" => /\ t[Owner] + left[Owner] <= top
                                /\ bottom - t[Owner] <= kMaxSize
  /\ pc[Owner] \in {"pop_cas", "half_cas"} => t[Owner] <= top
  /\ top <= LiveEnd

\* The index a thief is about to win is still in the deque if top_ still has
\* its value, and the thief has read that index's task.
ThievesSee ==
  \A th \in Thieves :
    /\ pc[th] \in StealPC => t[th] <= top
    /\ pc[th] \in {"steal_read", "steal_cas"} /\ t[th] = top => top < LiveEnd
    /\ pc[th] = "steal_cas" /\ t[th] = top => item[th] = buffer[Slot(top)]

Contents ==
  /\ Exact(Held, buffer, taken, pushed)
  /\ pc[Owner] = "push_publish" => buffer[Slot(b[Owner])] = pushed + 1

Inv == TypeOK /\ Bounds /\ Control /\ ThievesSee /\ Contents

-----------------------------------------------------------------------------
(* What one step does to the contents.                                     *)

\* Taking the task at one held index keeps the rest exact.
LEMMA ExactTake ==
  ASSUME NEW H, NEW buf, NEW tk \in [0..MaxTasks -> Nat],
         NEW p \in 0..MaxTasks, Exact(H, buf, tk, p), NEW i \in H
  PROVE  Exact(H \ {i}, buf, [tk EXCEPT ![buf[Slot(i)]] = @ + 1], p)
  <1> DEFINE k == buf[Slot(i)]
             tk2 == [tk EXCEPT ![k] = @ + 1]
  <1>1. k \in 1..p /\ tk[k] = 0 BY DEF Exact
  <1>2. k \in 0..MaxTasks BY <1>1, ConstantsOK
  <1>3. tk2[k] = 1 BY <1>1, <1>2
  <1>4. \A m \in 0..MaxTasks : m # k => tk2[m] = tk[m] BY <1>2
  <1>5. \A j \in H \ {i} : buf[Slot(j)] # k BY DEF Exact
  <1> HIDE DEF k, tk2
  <1>6. \A j \in H \ {i} : buf[Slot(j)] \in 1..p /\ tk2[buf[Slot(j)]] = 0
    <2>1. TAKE j \in H \ {i}
    <2>2. buf[Slot(j)] \in 1..p /\ tk[buf[Slot(j)]] = 0 BY DEF Exact
    <2>3. buf[Slot(j)] \in 0..MaxTasks BY <2>2, ConstantsOK
    <2>4. QED BY <2>2, <2>3, <1>4, <1>5
  <1>7. \A j, l \in H \ {i} : j # l => buf[Slot(j)] # buf[Slot(l)]
    BY DEF Exact
  <1>8. \A m \in 1..p : tk2[m] = 1 \/ \E j \in H \ {i} : buf[Slot(j)] = m
    <2>1. TAKE m \in 1..p
    <2>2. m \in 0..MaxTasks BY ConstantsOK
    <2>3. tk[m] = 1 \/ \E j \in H : buf[Slot(j)] = m BY DEF Exact
    <2>4. QED BY <2>2, <2>3, <1>3, <1>4 DEF k
  <1>9. \A m \in Tasks : tk2[m] <= 1 /\ (m > p => tk2[m] = 0)
    <2>1. TAKE m \in Tasks
    <2>2. m \in 0..MaxTasks BY ConstantsOK DEF Tasks
    <2>3. tk[m] <= 1 /\ (m > p => tk[m] = 0) BY DEF Exact
    <2>4. QED BY <2>2, <2>3, <1>1, <1>3, <1>4
  <1>10. QED BY Zenon, <1>6, <1>7, <1>8, <1>9 DEF Exact, k, tk2

\* Publishing the next task at an index that is not held.
LEMMA ExactPublish ==
  ASSUME NEW H, NEW buf, NEW tk \in [0..MaxTasks -> Nat],
         NEW p \in 0..MaxTasks, p < MaxTasks, Exact(H, buf, tk, p),
         NEW e, e \notin H, buf[Slot(e)] = p + 1
  PROVE  Exact(H \cup {e}, buf, tk, p + 1)
  <1>1. p + 1 \in Tasks BY ConstantsOK DEF Tasks
  <1>2. tk[p + 1] = 0 BY <1>1, ConstantsOK DEF Exact
  <1>3. \A i \in H : buf[Slot(i)] \in 1..p BY DEF Exact
  <1>4. \A i \in H \cup {e} : buf[Slot(i)] \in 1..(p + 1) /\ tk[buf[Slot(i)]] = 0
    <2>1. \A i \in H : tk[buf[Slot(i)]] = 0 BY DEF Exact
    <2>2. \A x \in 1..p : x \in 1..(p + 1) BY ConstantsOK
    <2>3. p + 1 \in 1..(p + 1) BY ConstantsOK
    <2>4. QED BY <1>2, <1>3, <2>1, <2>2, <2>3
  <1>5. \A i, j \in H \cup {e} : i # j => buf[Slot(i)] # buf[Slot(j)]
    <2>1. p + 1 \notin 1..p BY ConstantsOK
    <2>2. \A i, j \in H : i # j => buf[Slot(i)] # buf[Slot(j)] BY DEF Exact
    <2>3. QED BY <1>3, <2>1, <2>2
  <1>6. \A k \in 1..(p + 1) : tk[k] = 1 \/ \E i \in H \cup {e} : buf[Slot(i)] = k
    <2>1. \A k \in 1..p : tk[k] = 1 \/ \E i \in H : buf[Slot(i)] = k BY DEF Exact
    <2>2. \A k \in 1..(p + 1) : k \in 1..p \/ k = p + 1 BY ConstantsOK
    <2>3. QED BY <2>1, <2>2
  <1>7. \A k \in Tasks : tk[k] <= 1 /\ (k > p + 1 => tk[k] = 0)
    <2>1. \A k \in Tasks : tk[k] <= 1 /\ (k > p => tk[k] = 0) BY DEF Exact
    <2>2. \A k \in Tasks : k > p + 1 => k > p BY ConstantsOK DEF Tasks
    <2>3. QED BY <2>1, <2>2
  <1>8. QED BY <1>4, <1>5, <1>6, <1>7 DEF Exact

\* Writing a slot that no held index uses.
LEMMA ExactWrite ==
  ASSUME NEW H, NEW buf, NEW buf2, NEW tk, NEW p,
         Exact(H, buf, tk, p), \A i \in H : buf2[Slot(i)] = buf[Slot(i)]
  PROVE  Exact(H, buf2, tk, p)
  BY DEF Exact

-----------------------------------------------------------------------------
(* Facts about the state that the proof of each step uses.                 *)

\* Outside TakeHalf's copy loop nothing is claimed.
LEMMA ClaimedEmpty ==
  ASSUME TypeOK, left[Owner] = 0
  PROVE  Claimed(Owner) = {}
  <1>1. t[Owner] \in Nat BY OwnerNumbers
  <1>2. QED BY <1>1 DEF Claimed

\* With no store delayed, the end of the deque is bottom_, or one more while
\* a TryPop is under way.
LEMMA LiveEndIs ==
  ASSUME Control
  PROVE  LiveEnd = IF pc[Owner] \in PopPC THEN b[Owner] + 1 ELSE bottom
  BY DEF Control, LiveEnd, BottomSeenBy

\* The thieves and what they have read are as before.
SameThieves ==
  \A th \in Thieves : /\ pc'[th] = pc[th] /\ t'[th] = t[th]
                       /\ item'[th] = item[th] /\ left'[th] = left[th]

\* A step of the owner that moves neither end of the deque.
LEMMA OwnerQuiet ==
  ASSUME Inv, TypeOK', SameThieves,
         top' = top, buffer' = buffer, taken' = taken, pushed' = pushed,
         LiveEnd' = LiveEnd, left[Owner] = 0, left'[Owner] = 0,
         pc'[Owner] # "push_publish"
  PROVE  ThievesSee' /\ Contents'
  <1>1. ThievesSee'
    BY DEF Inv, ThievesSee, SameThieves
  <1>2. Claimed(Owner) = {} BY ClaimedEmpty DEF Inv
  <1>3. Claimed(Owner)' = {}
    <2>1. t'[Owner] \in Nat BY OwnerIsThread DEF TypeOK
    <2>2. QED BY <2>1 DEF Claimed
  <1>4. Held' = Held BY <1>2, <1>3 DEF Held
  <1>5. Contents' BY <1>4 DEF Inv, Contents
  <1>6. QED BY <1>1, <1>5

\* A step of a thief leaves the owner's view of the deque alone.
LEMMA ThiefStep ==
  ASSUME Inv, NEW th \in Thieves, bottom' = bottom, pending' = pending, left' = left,
         pc'[Owner] = pc[Owner], b'[Owner] = b[Owner], t'[Owner] = t[Owner]
  PROVE  LiveEnd' = LiveEnd /\ Claimed(Owner)' = Claimed(Owner)
  BY DEF LiveEnd, BottomSeenBy, Claimed

\* The same, when top_ does not move either.
LEMMA ThiefQuiet ==
  ASSUME Inv, NEW th \in Thieves, bottom' = bottom, pending' = pending, left' = left,
         pc'[Owner] = pc[Owner], b'[Owner] = b[Owner], t'[Owner] = t[Owner],
         \A x \in Thieves : x # th => pc'[x] = pc[x] /\ t'[x] = t[x] /\ item'[x] = item[x],
         top' = top, buffer' = buffer, taken' = taken, pushed' = pushed,
         pc'[th] \in {"idle"} \cup StealPC,
         pc'[th] \in StealPC => t'[th] <= top,
         pc'[th] \in {"steal_read", "steal_cas"} /\ t'[th] = top => top < LiveEnd,
         pc'[th] = "steal_cas" /\ t'[th] = top => item'[th] = buffer[Slot(top)]
  PROVE  Control' /\ ThievesSee' /\ Contents'
  <1>1. LiveEnd' = LiveEnd /\ Claimed(Owner)' = Claimed(Owner) BY ThiefStep
  <1>2. Held' = Held BY <1>1 DEF Held
  <1>3. Contents' BY <1>2 DEF Inv, Contents
  <1>4. Control' BY <1>1 DEF Inv, Control
  <1>5. ThievesSee' BY <1>1 DEF Inv, ThievesSee
  <1>6. QED BY <1>3, <1>4, <1>5

-----------------------------------------------------------------------------
(* The steps of the owner.                                                *)

\* Each step of Push, TryPop and TakeHalf by the owner preserves the invariant.
LEMMA OwnerSteps ==
  ASSUME Contract, Inv, TypeOK', Bounds',
         Push \/ TryPop \/ Drain \/ TakeHalf(Owner)
  PROVE  Control' /\ ThievesSee' /\ Contents'
  <1>own. Owner \in Threads /\ \A th \in Thieves : th \in Threads /\ th # Owner
    BY OwnerIsThread, ThiefIsThread
  <1>num. kMaxSize \in Nat \ {0} /\ MaxTasks \in Nat BY ConstantsOK
  <1>loc. /\ top \in Nat /\ bottom \in Int /\ pending = Drained
          /\ pushed \in Nat /\ b[Owner] \in Int /\ t[Owner] \in Nat
    BY OwnerNumbers DEF Inv, Control
  <1>end. LiveEnd = IF pc[Owner] \in PopPC THEN b[Owner] + 1 ELSE bottom
    BY LiveEndIs DEF Inv
  <1>pop. pc[Owner] \in PopPC => bottom = b[Owner]
    BY <1>loc DEF Inv, Bounds, OwnerBounds, Drained
  <1>1. CASE PushLoad
    <2>1. /\ pc'[Owner] = "push_write" /\ SameThieves
      <3>1. pc'[Owner] = "push_write" /\ \A x \in Threads : x # Owner => pc'[x] = pc[x]
        BY <1>1, <1>own, LabelsType, GotoEffect DEF PushLoad, PushPC, Inv
      <3>2. QED BY <1>1, <1>own, <3>1 DEF PushLoad, SameThieves, Inv, TypeOK
    <2>2. /\ top' = top /\ buffer' = buffer /\ taken' = taken /\ pushed' = pushed
          /\ pending' = Drained /\ left' = left
      BY <1>1, <1>loc DEF PushLoad, Contract
    <2>3. pc[Owner] = "idle" /\ b'[Owner] = bottom /\ bottom' = bottom
      BY <1>1, <1>own, <1>loc DEF PushLoad, Inv, TypeOK, Contract, BottomSeenBy
    <2>4. LiveEnd' = LiveEnd
      BY <1>end, <1>pop, <1>loc, <2>1, <2>2, <2>3
         DEF LiveEnd, BottomSeenBy, PopPC, Inv, Control, PushPC
    <2>5. left[Owner] = 0 BY <2>3 DEF Inv, Control
    <2>6. ThievesSee' /\ Contents' BY <2>1, <2>2, <2>4, <2>5, OwnerQuiet
    <2>7. Control'
      BY Zenon, <1>own, <1>num, <1>loc, <1>end, <1>pop, <2>1, <2>2, <2>3, <2>4, <2>5
         DEF Inv, Control, Bounds, OwnerBounds, SameThieves, PushPC, PopPC, StealPC
    <2>8. QED BY <2>6, <2>7
  <1>2. CASE PopStore
    <2>1. /\ pc'[Owner] = "pop_load" /\ SameThieves
      <3>1. pc'[Owner] = "pop_load" /\ \A x \in Threads : x # Owner => pc'[x] = pc[x]
        BY <1>2, <1>own, LabelsType, GotoEffect DEF PopStore, PopPC, Inv
      <3>2. QED BY <1>2, <1>own, <3>1 DEF PopStore, SameThieves, Inv, TypeOK
    <2>2. /\ top' = top /\ buffer' = buffer /\ taken' = taken /\ pushed' = pushed
          /\ pending' = Drained /\ left' = left
      BY <1>2, <1>loc DEF PopStore, Contract
    <2>3. pc[Owner] = "idle" /\ b'[Owner] = bottom - 1 /\ bottom' = bottom - 1
      BY <1>2, <1>own DEF PopStore, Inv, TypeOK, Contract
    <2>4. LiveEnd' = LiveEnd
      BY <1>end, <1>pop, <1>loc, <2>1, <2>2, <2>3
         DEF LiveEnd, BottomSeenBy, PopPC, Inv, Control, PushPC
    <2>5. left[Owner] = 0 BY <2>3 DEF Inv, Control
    <2>6. ThievesSee' /\ Contents' BY <2>1, <2>2, <2>4, <2>5, OwnerQuiet
    <2>7. Control'
      BY <1>own, <1>num, <1>loc, <1>end, <1>pop, <2>1, <2>2, <2>3, <2>4, <2>5
         DEF Inv, Control, Bounds, OwnerBounds, SameThieves, PushPC, PopPC, StealPC
    <2>8. QED BY <2>6, <2>7
  <1>3. CASE PopLast
    <2>1. /\ pc'[Owner] = "pop_cas" /\ SameThieves
      <3>1. pc'[Owner] = "pop_cas" /\ \A x \in Threads : x # Owner => pc'[x] = pc[x]
        BY <1>3, <1>own, LabelsType, GotoEffect DEF PopLast, PopPC, Inv
      <3>2. QED BY <1>3, <1>own, <3>1 DEF PopLast, SameThieves, Inv, TypeOK
    <2>2. /\ top' = top /\ buffer' = buffer /\ taken' = taken /\ pushed' = pushed
          /\ pending' = Drained /\ left' = left
      BY <1>3, <1>loc DEF PopLast, Contract
    <2>3. pc[Owner] = "pop_load" /\ b'[Owner] = b[Owner] /\ bottom' = bottom
          /\ t'[Owner] = top
      BY <1>3, <1>own DEF PopLast, Inv, TypeOK, Contract
    <2>4. LiveEnd' = LiveEnd
      BY Zenon, <1>end, <1>pop, <1>loc, <2>1, <2>2, <2>3
         DEF LiveEnd, BottomSeenBy, PopPC, Inv, Control, PushPC
    <2>5. left[Owner] = 0 BY <2>3 DEF Inv, Control
    <2>6. ThievesSee' /\ Contents' BY <2>1, <2>2, <2>4, <2>5, OwnerQuiet
    <2>7. Control'
      BY <1>own, <1>num, <1>loc, <1>end, <1>pop, <2>1, <2>2, <2>3, <2>4, <2>5
         DEF Inv, Control, Bounds, OwnerBounds, SameThieves, PushPC, PopPC, StealPC
    <2>8. QED BY <2>6, <2>7
  <1>4. CASE PopEmpty
    <2>1. /\ pc'[Owner] = "pop_restore" /\ SameThieves
      <3>1. pc'[Owner] = "pop_restore" /\ \A x \in Threads : x # Owner => pc'[x] = pc[x]
        BY Zenon, <1>4, <1>own, LabelsType, GotoEffect DEF PopEmpty, PopPC, Inv
      <3>2. QED BY <1>4, <1>own, <3>1 DEF PopEmpty, SameThieves, Inv, TypeOK
    <2>2. /\ top' = top /\ buffer' = buffer /\ taken' = taken /\ pushed' = pushed
          /\ pending' = Drained /\ left' = left
      BY Zenon, <1>4, <1>loc DEF PopEmpty, Contract
    <2>3. pc[Owner] = "pop_load" /\ b'[Owner] = b[Owner] /\ bottom' = bottom /\ top > b[Owner]
      BY <1>4, <1>own DEF PopEmpty, Inv, TypeOK, Contract
    <2>4. LiveEnd' = LiveEnd
      BY <1>end, <1>pop, <1>loc, <2>1, <2>2, <2>3
         DEF LiveEnd, BottomSeenBy, PopPC, Inv, Control, PushPC
    <2>5. left[Owner] = 0 BY <2>3 DEF Inv, Control
    <2>6. ThievesSee' /\ Contents' BY <2>1, <2>2, <2>4, <2>5, OwnerQuiet
    <2>7. Control'
      BY <1>own, <1>num, <1>loc, <1>end, <1>pop, <2>1, <2>2, <2>3, <2>4, <2>5
         DEF Inv, Control, Bounds, OwnerBounds, SameThieves, PushPC, PopPC, StealPC
    <2>8. QED BY <2>6, <2>7
  <1>5. CASE PopLose
    <2>1. /\ pc'[Owner] = "pop_restore" /\ SameThieves
      <3>1. pc'[Owner] = "pop_restore" /\ \A x \in Threads : x # Owner => pc'[x] = pc[x]
        BY <1>5, <1>own, LabelsType, GotoEffect DEF PopLose, PopPC, Inv
      <3>2. QED BY <1>5, <1>own, <3>1 DEF PopLose, SameThieves, Inv, TypeOK
    <2>2. /\ top' = top /\ buffer' = buffer /\ taken' = taken /\ pushed' = pushed
          /\ pending' = Drained /\ left' = left
      BY <1>5, <1>loc DEF PopLose, Contract
    <2>3. pc[Owner] = "pop_cas" /\ b'[Owner] = b[Owner] /\ bottom' = bottom /\ top # t[Owner]
      BY <1>5, <1>own DEF PopLose, Inv, TypeOK, Contract
    <2>4. LiveEnd' = LiveEnd
      BY <1>end, <1>pop, <1>loc, <2>1, <2>2, <2>3
         DEF LiveEnd, BottomSeenBy, PopPC, Inv, Control, PushPC
    <2>5. left[Owner] = 0 BY <2>3 DEF Inv, Control
    <2>6. ThievesSee' /\ Contents' BY <2>1, <2>2, <2>4, <2>5, OwnerQuiet
    <2>7. Control'
      <3>1. Control /\ b[Owner] = t[Owner] BY <2>3 DEF Inv, Bounds, OwnerBounds
      <3>2. t[Owner] <= top /\ top <= LiveEnd BY <2>3, <3>1 DEF Control
      <3>3. LiveEnd = b[Owner] + 1 BY <1>end, <2>3 DEF PopPC
      <3>4. top' = b'[Owner] + 1 /\ top' <= LiveEnd'
        BY <1>loc, <2>2, <2>3, <2>4, <3>1, <3>2, <3>3
      <3>5. \A th \in Thieves : pc'[th] \in {"idle"} \cup StealPC /\ left'[th] = 0
        BY <2>1, <3>1 DEF Control, SameThieves
      <3>6. QED BY <2>1, <2>2, <2>5, <3>4, <3>5 DEF Control, PushPC, StealPC
    <2>8. QED BY <2>6, <2>7
  <1>6. CASE PopRestore
    <2>1. /\ pc'[Owner] = "idle" /\ SameThieves
      BY <1>6, <1>own, ReturnEffect DEF PopRestore, SameThieves, Inv
    <2>2. /\ top' = top /\ buffer' = buffer /\ taken' = taken /\ pushed' = pushed
          /\ pending' = Drained /\ left' = left
      BY <1>6, <1>loc DEF PopRestore, Contract
    <2>3. pc[Owner] = "pop_restore" /\ bottom' = b[Owner] + 1
      BY <1>6, <1>own DEF PopRestore, Inv, TypeOK, Contract
    <2>4. LiveEnd' = LiveEnd
      BY Zenon, <1>end, <1>pop, <1>loc, <2>1, <2>2, <2>3
         DEF LiveEnd, BottomSeenBy, PopPC, Inv, Control, PushPC
    <2>5. left[Owner] = 0 BY <2>3 DEF Inv, Control
    <2>6. ThievesSee' /\ Contents' BY <2>1, <2>2, <2>4, <2>5, OwnerQuiet
    <2>7. Control'
      BY Zenon, <1>own, <1>num, <1>loc, <1>end, <1>pop, <2>1, <2>2, <2>3, <2>4, <2>5
         DEF Inv, Control, Bounds, OwnerBounds, SameThieves, PushPC, PopPC, StealPC
    <2>8. QED BY <2>6, <2>7
  <1>7. CASE HalfLoadBottom(Owner)
    <2>1. /\ pc'[Owner] = "half_load" /\ SameThieves
      <3>1. pc'[Owner] = "half_load" /\ \A x \in Threads : x # Owner => pc'[x] = pc[x]
        BY <1>7, <1>own, LabelsType, GotoEffect DEF HalfLoadBottom, HalfPC, Inv
      <3>2. QED BY <1>7, <1>own, <3>1 DEF HalfLoadBottom, SameThieves, Inv, TypeOK
    <2>2. /\ top' = top /\ buffer' = buffer /\ taken' = taken /\ pushed' = pushed
          /\ pending' = Drained /\ left' = left
      BY <1>7, <1>loc DEF HalfLoadBottom, Contract
    <2>3. pc[Owner] = "idle" /\ b'[Owner] = bottom /\ bottom' = bottom
      BY <1>7, <1>own, <1>loc DEF HalfLoadBottom, Inv, TypeOK, Contract, BottomSeenBy
    <2>4. LiveEnd' = LiveEnd
      BY <1>end, <1>pop, <1>loc, <2>1, <2>2, <2>3
         DEF LiveEnd, BottomSeenBy, PopPC, Inv, Control, PushPC
    <2>5. left[Owner] = 0 BY <2>3 DEF Inv, Control
    <2>6. ThievesSee' /\ Contents' BY <2>1, <2>2, <2>4, <2>5, OwnerQuiet
    <2>7. Control'
      BY Zenon, <1>own, <1>num, <1>loc, <1>end, <1>pop, <2>1, <2>2, <2>3, <2>4, <2>5
         DEF Inv, Control, Bounds, OwnerBounds, SameThieves, PushPC, PopPC, StealPC
    <2>8. QED BY <2>6, <2>7
  <1>8. CASE HalfLoadTop(Owner)
    <2>1. /\ pc'[Owner] = "half_cas" /\ SameThieves
      <3>1. pc'[Owner] = "half_cas" /\ \A x \in Threads : x # Owner => pc'[x] = pc[x]
        BY Zenon, <1>8, <1>own, LabelsType, GotoEffect DEF HalfLoadTop, HalfPC, Inv
      <3>2. QED BY <1>8, <1>own, <3>1 DEF HalfLoadTop, SameThieves, Inv, TypeOK
    <2>2. /\ top' = top /\ buffer' = buffer /\ taken' = taken /\ pushed' = pushed
          /\ pending' = Drained /\ left' = left
      BY <1>8, <1>loc DEF HalfLoadTop, Contract
    <2>3. pc[Owner] = "half_load" /\ b'[Owner] = b[Owner] /\ bottom' = bottom /\ t'[Owner] = top
      BY <1>8, <1>own DEF HalfLoadTop, Inv, TypeOK, Contract
    <2>4. LiveEnd' = LiveEnd
      BY <1>end, <1>pop, <1>loc, <2>1, <2>2, <2>3
         DEF LiveEnd, BottomSeenBy, PopPC, Inv, Control, PushPC
    <2>5. left[Owner] = 0 BY Zenon, <2>3 DEF Inv, Control
    <2>6. ThievesSee' /\ Contents' BY <2>1, <2>2, <2>4, <2>5, OwnerQuiet
    <2>7. Control'
      BY <1>own, <1>num, <1>loc, <1>end, <1>pop, <2>1, <2>2, <2>3, <2>4, <2>5
         DEF Inv, Control, Bounds, OwnerBounds, SameThieves, PushPC, PopPC, StealPC
    <2>8. QED BY <2>6, <2>7
  <1>9. CASE HalfEmpty(Owner)
    <2>1. /\ pc'[Owner] = "idle" /\ SameThieves
      BY Zenon, <1>9, <1>own, ReturnEffect DEF HalfEmpty, SameThieves, Inv
    <2>2. /\ top' = top /\ buffer' = buffer /\ taken' = taken /\ pushed' = pushed
          /\ pending' = Drained /\ left' = left
      BY <1>9, <1>loc DEF HalfEmpty, Contract
    <2>3. pc[Owner] = "half_load" /\ bottom' = bottom
      BY <1>9, <1>own DEF HalfEmpty, Inv, TypeOK, Contract
    <2>4. LiveEnd' = LiveEnd
      BY <1>end, <1>pop, <1>loc, <2>1, <2>2, <2>3
         DEF LiveEnd, BottomSeenBy, PopPC, Inv, Control, PushPC
    <2>5. left[Owner] = 0 BY <2>3 DEF Inv, Control
    <2>6. ThievesSee' /\ Contents' BY <2>1, <2>2, <2>4, <2>5, OwnerQuiet
    <2>7. Control'
      BY Zenon, <1>own, <1>num, <1>loc, <1>end, <1>pop, <2>1, <2>2, <2>3, <2>4, <2>5
         DEF Inv, Control, Bounds, OwnerBounds, SameThieves, PushPC, PopPC, StealPC
    <2>8. QED BY <2>6, <2>7
  <1>10. CASE HalfLose(Owner)
    <2>1. /\ pc'[Owner] = "idle" /\ SameThieves
      BY <1>10, <1>own, ReturnEffect DEF HalfLose, SameThieves, Inv
    <2>2. /\ top' = top /\ buffer' = buffer /\ taken' = taken /\ pushed' = pushed
          /\ pending' = Drained /\ left' = left
      BY <1>10, <1>loc DEF HalfLose, Contract
    <2>3. pc[Owner] = "half_cas" /\ bottom' = bottom
      BY <1>10, <1>own DEF HalfLose, Inv, TypeOK, Contract
    <2>4. LiveEnd' = LiveEnd
      BY <1>end, <1>pop, <1>loc, <2>1, <2>2, <2>3
         DEF LiveEnd, BottomSeenBy, PopPC, Inv, Control, PushPC
    <2>5. left[Owner] = 0 BY <2>3 DEF Inv, Control
    <2>6. ThievesSee' /\ Contents' BY <2>1, <2>2, <2>4, <2>5, OwnerQuiet
    <2>7. Control'
      BY Zenon, <1>own, <1>num, <1>loc, <1>end, <1>pop, <2>1, <2>2, <2>3, <2>4, <2>5
         DEF Inv, Control, Bounds, OwnerBounds, SameThieves, PushPC, PopPC, StealPC
    <2>8. QED BY <2>6, <2>7
  <1>11. CASE HalfReturn(Owner)
    <2>1. /\ pc'[Owner] = "idle" /\ SameThieves
      BY Zenon, <1>11, <1>own, ReturnEffect DEF HalfReturn, SameThieves, Inv
    <2>2. /\ top' = top /\ buffer' = buffer /\ taken' = taken /\ pushed' = pushed
          /\ pending' = Drained /\ left' = left
      BY <1>11, <1>loc DEF HalfReturn, Contract
    <2>3. pc[Owner] = "half_copy" /\ bottom' = bottom /\ left[Owner] = 0
      BY <1>11, <1>own DEF HalfReturn, Inv, TypeOK, Contract
    <2>4. LiveEnd' = LiveEnd
      BY Zenon, <1>end, <1>pop, <1>loc, <2>1, <2>2, <2>3
         DEF LiveEnd, BottomSeenBy, PopPC, Inv, Control, PushPC
    <2>5. left[Owner] = 0 BY Zenon, <2>3 DEF Inv, Control
    <2>6. ThievesSee' /\ Contents' BY <2>1, <2>2, <2>4, <2>5, OwnerQuiet
    <2>7. Control'
      BY Zenon, <1>own, <1>num, <1>loc, <1>end, <1>pop, <2>1, <2>2, <2>3, <2>4, <2>5
         DEF Inv, Control, Bounds, OwnerBounds, SameThieves, PushPC, PopPC, StealPC
    <2>8. QED BY <2>6, <2>7
  <1>12. CASE Drain BY Zenon, <1>12, <1>loc DEF Drain
  <1>13. CASE PushWrite
    <2>1. pc'[Owner] = "push_publish" /\ SameThieves
      <3>1. pc'[Owner] = "push_publish" /\ \A x \in Threads : x # Owner => pc'[x] = pc[x]
        BY <1>13, <1>own, LabelsType, GotoEffect DEF PushWrite, PushPC, Inv
      <3>2. QED BY Zenon, <1>13, <1>own, <3>1 DEF PushWrite, SameThieves
    <2>2. /\ top' = top /\ taken' = taken /\ pushed' = pushed /\ bottom' = bottom
          /\ pending' = Drained /\ left' = left /\ b' = b /\ t' = t
          /\ pc[Owner] = "push_write"
          /\ buffer' = [buffer EXCEPT ![Slot(b[Owner])] = pushed + 1]
      BY <1>13, <1>loc DEF PushWrite
    <2>3. b[Owner] = bottom /\ left[Owner] = 0 /\ bottom \in Nat
          /\ bottom - top < kMaxSize
      BY <2>2, <1>loc DEF Inv, Control, Bounds, OwnerBounds, PushPC
    <2>4. LiveEnd = bottom /\ LiveEnd' = bottom
      BY Zenon, <1>end, <2>1, <2>2, <1>loc DEF LiveEnd, BottomSeenBy, PopPC
    <2>5. Held = top..(bottom - 1) /\ Held' = Held
      BY <2>2, <2>3, <2>4, ClaimedEmpty DEF Held, Claimed, Inv
    <2>6. \A i \in Held : i \in Nat /\ Slot(i) # Slot(bottom)
      <3>1. TAKE i \in Held
      <3>2. i \in Nat /\ i < bottom /\ bottom < i + kMaxSize
        BY <2>3, <2>5, <1>loc, <1>num
      <3>3. QED BY <2>3, <3>2, SlotDistinct
    <2>7. Slot(bottom) \in 0..(kMaxSize - 1) /\ buffer \in [0..(kMaxSize - 1) -> 0..MaxTasks]
      BY Zenon, <2>3, SlotType DEF Inv, TypeOK
    <2>8. \A i \in Held : buffer'[Slot(i)] = buffer[Slot(i)]
      BY <2>2, <2>3, <2>6, <2>7, SlotType
    <2>9. Contents'
      <3>1. Exact(Held, buffer', taken, pushed)
        BY <2>8, ExactWrite DEF Inv, Contents
      <3>2. buffer'[Slot(b[Owner])] = pushed + 1 BY <2>2, <2>3, <2>7
      <3>3. QED BY <3>1, <3>2, <2>2, <2>5 DEF Contents
    <2>10. ThievesSee'
      <3>1. top < LiveEnd => top \in Held BY <2>3, <2>4, <2>5, <1>loc
      <3>2. QED BY <2>1, <2>2, <2>4, <2>8, <3>1 DEF Inv, ThievesSee, SameThieves
    <2>11. Control'
      BY <1>own, <2>1, <2>2, <2>3, <2>4
         DEF Inv, Control, SameThieves, PushPC, PopPC, StealPC
    <2>12. QED BY <2>9, <2>10, <2>11
  <1>14. CASE PushPublish
    <2>1. pc'[Owner] = "idle" /\ SameThieves
      BY Zenon, <1>14, <1>own, ReturnEffect DEF PushPublish, SameThieves, Inv
    <2>2. /\ top' = top /\ taken' = taken /\ pushed' = pushed + 1
          /\ bottom' = b[Owner] + 1 /\ buffer' = buffer
          /\ pending' = Drained /\ left' = left /\ pc[Owner] = "push_publish"
      BY Zenon, <1>14, <1>loc DEF PushPublish
    <2>3. b[Owner] = bottom /\ left[Owner] = 0 /\ bottom \in Nat
          /\ pushed < MaxTasks /\ bottom' = bottom + 1
      <3>1. Control /\ OwnerBounds BY DEF Inv, Bounds
      <3>2. b[Owner] = bottom /\ left[Owner] = 0 BY Zenon, <2>2, <3>1 DEF Control, PushPC
      <3>3. pushed < MaxTasks /\ b[Owner] >= 0 BY <2>2, <3>1 DEF OwnerBounds, PushPC
      <3>4. QED BY <2>2, <1>loc, <3>2, <3>3
    <2>4. LiveEnd = bottom /\ LiveEnd' = bottom + 1
      BY <1>end, <2>1, <2>2, <2>3, <1>loc DEF LiveEnd, BottomSeenBy, PopPC
    <2>5. top <= bottom BY <2>4 DEF Inv, Control
    <2>6. Held = top..(bottom - 1) /\ Held' = Held \cup {bottom}
      <3>1. Held = top..(bottom - 1)
        BY <2>3, <2>4, ClaimedEmpty DEF Held, Inv
      <3>2. t'[Owner] \in Nat BY <1>own DEF TypeOK
      <3>3. Claimed(Owner)' = {} BY <2>2, <2>3, <3>2 DEF Claimed
      <3>4. Held' = top..bottom BY <2>2, <2>3, <2>4, <3>3 DEF Held
      <3>5. QED BY <3>1, <3>4, <2>3, <2>5, <1>loc
    <2>7. bottom \notin Held BY <2>3, <2>6, <1>loc
    <2>8. Contents'
      <3>1. buffer[Slot(bottom)] = pushed + 1 BY <2>2, <2>3 DEF Inv, Contents
      <3>2. taken \in [0..MaxTasks -> Nat] /\ pushed \in 0..MaxTasks
        BY DEF Inv, TypeOK
      <3>3. Exact(Held \cup {bottom}, buffer, taken, pushed + 1)
        BY <2>3, <2>7, <3>1, <3>2, ExactPublish DEF Inv, Contents
      <3>4. QED BY <3>3, <2>1, <2>2, <2>6 DEF Contents
    <2>9. ThievesSee'
      BY <2>1, <2>2, <2>4, <2>3, <1>loc DEF Inv, ThievesSee, SameThieves
    <2>10. Control'
      BY <1>own, <1>loc, <2>1, <2>2, <2>3, <2>4, <2>5
         DEF Inv, Control, SameThieves, PushPC, PopPC, StealPC
    <2>11. QED BY <2>8, <2>9, <2>10
  <1>15. CASE PopTake
    <2>1. pc'[Owner] = "idle" /\ SameThieves
      BY Zenon, <1>15, <1>own, ReturnEffect DEF PopTake, SameThieves, Inv
    <2>2. /\ top' = top /\ pushed' = pushed /\ bottom' = bottom /\ buffer' = buffer
          /\ taken' = [taken EXCEPT ![buffer[Slot(b[Owner])]] = @ + 1]
          /\ pending' = Drained /\ left' = left /\ pc[Owner] = "pop_load"
          /\ top < b[Owner]
      BY <1>15, <1>loc DEF PopTake, HandOut
    <2>3. left[Owner] = 0 /\ bottom = b[Owner]
      BY Zenon, <2>2, <1>pop DEF Inv, Control, PopPC
    <2>4. LiveEnd = bottom + 1 /\ LiveEnd' = bottom
      BY <1>end, <2>1, <2>2, <2>3, <1>loc DEF LiveEnd, BottomSeenBy, PopPC
    <2>5. Held = top..bottom /\ Held' = top..(bottom - 1)
      <3>1. Held = top..bottom
        BY <2>3, <2>4, <1>loc, ClaimedEmpty DEF Held, Inv
      <3>2. t'[Owner] \in Nat BY <1>own DEF TypeOK
      <3>3. Claimed(Owner)' = {} BY <2>2, <2>3, <3>2 DEF Claimed
      <3>4. QED BY <2>2, <2>4, <3>1, <3>3 DEF Held
    <2>6. bottom \in Held /\ Held' = Held \ {bottom}
      BY <2>2, <2>3, <2>5, <1>loc
    <2>7. Contents'
      <3>1. taken \in [0..MaxTasks -> Nat] /\ pushed \in 0..MaxTasks
        BY DEF Inv, TypeOK
      <3>2. Exact(Held \ {bottom}, buffer, [taken EXCEPT ![buffer[Slot(bottom)]] = @ + 1], pushed)
        BY Zenon, <2>6, <3>1, ExactTake DEF Inv, Contents
      <3>3. QED BY <3>2, <2>1, <2>2, <2>3, <2>6 DEF Contents
    <2>8. ThievesSee'
      BY Zenon, <2>1, <2>2, <2>3, <2>4 DEF Inv, ThievesSee, SameThieves
    <2>9. Control'
      <3>1. top' <= LiveEnd' BY <1>loc, <2>2, <2>3, <2>4
      <3>2. Control BY DEF Inv
      <3>3. \A th \in Thieves : pc'[th] \in {"idle"} \cup StealPC /\ left'[th] = 0
        BY <2>1, <2>2, <3>2 DEF Control, SameThieves
      <3>4. QED
        BY Zenon, <2>1, <2>2, <2>3, <3>1, <3>3 DEF Control, PushPC, StealPC
    <2>10. QED BY <2>7, <2>8, <2>9
  <1>16. CASE PopWin
    <2>1. pc'[Owner] = "pop_restore" /\ SameThieves
      <3>1. pc'[Owner] = "pop_restore" /\ \A x \in Threads : x # Owner => pc'[x] = pc[x]
        BY <1>16, <1>own, LabelsType, GotoEffect DEF PopWin, PopPC, Inv
      <3>2. QED BY <1>16, <1>own, <3>1 DEF PopWin, SameThieves
    <2>2. /\ top' = top + 1 /\ pushed' = pushed /\ bottom' = bottom /\ buffer' = buffer
          /\ taken' = [taken EXCEPT ![buffer[Slot(b[Owner])]] = @ + 1]
          /\ pending' = Drained /\ left' = left /\ b' = b /\ t' = t
          /\ pc[Owner] = "pop_cas" /\ top = t[Owner]
      BY <1>16, <1>loc DEF PopWin, HandOut
    <2>3. left[Owner] = 0 /\ bottom = b[Owner] /\ b[Owner] = top
      BY Zenon, <2>2, <1>pop DEF Inv, Control, PopPC, Bounds, OwnerBounds
    <2>4. LiveEnd = top + 1 /\ LiveEnd' = top + 1
      BY Zenon, <1>end, <2>1, <2>2, <2>3, <1>loc DEF LiveEnd, BottomSeenBy, PopPC
    <2>5. Held = top..top /\ Held' = (top + 1)..top
      <3>1. Claimed(Owner) = {} /\ Claimed(Owner)' = {}
        BY Zenon, <2>2, <2>3, ClaimedEmpty DEF Claimed, Inv
      <3>2. LiveEnd - 1 = top /\ LiveEnd' - 1 = top BY <2>4, <1>loc
      <3>3. Held = top..top BY Zenon, <3>1, <3>2 DEF Held
      <3>4. Held' = (top + 1)..top BY <2>2, <3>1, <3>2 DEF Held
      <3>5. QED BY <3>3, <3>4
    <2>6. top \in Held /\ Held' = Held \ {top}
      BY <2>5, <1>loc
    <2>7. Contents'
      <3>1. taken \in [0..MaxTasks -> Nat] /\ pushed \in 0..MaxTasks
        BY DEF Inv, TypeOK
      <3>2. Exact(Held \ {top}, buffer, [taken EXCEPT ![buffer[Slot(top)]] = @ + 1], pushed)
        BY Zenon, <2>6, <3>1, ExactTake DEF Inv, Contents
      <3>3. QED BY Zenon, <3>2, <2>1, <2>2, <2>3, <2>6 DEF Contents
    <2>8. ThievesSee'
      <3>1. \A th \in Thieves : t[th] \in Nat BY <1>own DEF Inv, TypeOK
      <3>2. QED BY <2>1, <2>2, <3>1, <1>loc DEF Inv, ThievesSee, SameThieves, StealPC
    <2>9. Control'
      BY <1>own, <1>loc, <2>1, <2>2, <2>3, <2>4
         DEF Inv, Control, SameThieves, PushPC, PopPC, StealPC
    <2>10. QED BY <2>7, <2>8, <2>9
  <1>17. CASE HalfWin(Owner)
    <2> DEFINE n == num_to_take(b[Owner] - t[Owner])
    <2>1. pc'[Owner] = "half_copy" /\ \A x \in Threads : x # Owner => pc'[x] = pc[x]
      BY Zenon, <1>17, <1>own, LabelsType, GotoEffect DEF HalfWin, HalfPC, Inv
    <2>2. /\ top' = top + n /\ pushed' = pushed /\ bottom' = bottom /\ buffer' = buffer
          /\ taken' = taken /\ pending' = Drained /\ b' = b /\ t' = t /\ item' = item
          /\ left' = [left EXCEPT ![Owner] = n]
          /\ pc[Owner] = "half_cas" /\ top = t[Owner]
      BY Zenon, <1>17, <1>loc DEF HalfWin
    <2>3. left[Owner] = 0 /\ bottom = b[Owner] /\ top < bottom
          /\ bottom - top <= kMaxSize
      BY Zenon, <2>2, <1>own DEF Inv, Control, PushPC, Bounds, OwnerBounds, HalfBounds,
                          OccupancyBounded
    <2>4. n \in 1..(bottom - top)
      <3>1. bottom - top \in Nat \ {0} BY <2>3, <1>loc
      <3>2. QED BY Zenon, <2>2, <2>3, <3>1, NumToTake
    <2> HIDE DEF n
    <2>5. SameThieves /\ left'[Owner] = n
      BY <1>own, <2>1, <2>2 DEF SameThieves, Inv, TypeOK
    <2>6. LiveEnd = bottom /\ LiveEnd' = bottom
      BY Zenon, <1>end, <2>1, <2>2, <1>loc DEF LiveEnd, BottomSeenBy, PopPC
    <2>7. Held' = Held
      <3>1. Held = top..(bottom - 1)
        BY <2>3, <2>6, ClaimedEmpty DEF Held, Inv
      <3>2. Held' = (top..(top + n - 1)) \cup ((top + n)..(bottom - 1))
        BY <2>2, <2>5, <2>6 DEF Held, Claimed
      <3>3. QED BY <3>1, <3>2, <2>4, <1>loc
    <2>8. Contents' BY <2>1, <2>2, <2>7 DEF Inv, Contents
    <2>9. ThievesSee'
      <3>1. \A th \in Thieves : t[th] \in Nat BY <1>own DEF Inv, TypeOK
      <3>2. top < top' BY <2>2, <2>4, <1>loc
      <3>3. QED
        BY <2>2, <2>5, <2>4, <3>1, <3>2, <1>loc
           DEF Inv, ThievesSee, SameThieves, StealPC
    <2>10. Control'
      BY <1>own, <1>loc, <1>num, <2>1, <2>2, <2>3, <2>4, <2>5, <2>6
         DEF Inv, Control, SameThieves, PushPC, PopPC, StealPC
    <2>11. QED BY <2>8, <2>9, <2>10
  <1>18. CASE HalfCopy(Owner)
    <2>1. /\ top' = top /\ pushed' = pushed /\ bottom' = bottom /\ buffer' = buffer
          /\ taken' = [taken EXCEPT ![buffer[Slot(t[Owner])]] = @ + 1]
          /\ pending' = Drained /\ b' = b /\ pc' = pc /\ item' = item
          /\ pc[Owner] = "half_copy" /\ left[Owner] > 0
      BY Zenon, <1>18, <1>loc DEF HalfCopy, HandOut
    <2>2. t'[Owner] = t[Owner] + 1 /\ left'[Owner] = left[Owner] - 1 /\ SameThieves
      BY Zenon, <1>18, <1>own DEF HalfCopy, Inv, TypeOK, SameThieves
    <2>3. left[Owner] \in Nat BY <1>own DEF Inv, TypeOK
    <2>4. t[Owner] + left[Owner] <= top /\ bottom - t[Owner] <= kMaxSize
      BY Zenon, <2>1 DEF Inv, Control
    <2>5. LiveEnd = bottom /\ LiveEnd' = bottom
      BY <1>end, <2>1, <1>loc DEF LiveEnd, BottomSeenBy, PopPC
    <2>6. t[Owner] \in Held /\ Held' = Held \ {t[Owner]}
      <3>1. Held = (t[Owner]..(t[Owner] + left[Owner] - 1)) \cup (top..(bottom - 1))
        BY <2>5 DEF Held, Claimed
      <3>2. Held' = ((t[Owner] + 1)..(t[Owner] + left[Owner] - 1)) \cup (top..(bottom - 1))
        BY <2>1, <2>2, <2>3, <2>5, <1>loc DEF Held, Claimed
      <3>3. QED BY <3>1, <3>2, <2>1, <2>3, <2>4, <1>loc
    <2>7. Contents'
      <3>1. taken \in [0..MaxTasks -> Nat] /\ pushed \in 0..MaxTasks
        BY DEF Inv, TypeOK
      <3>2. Exact(Held \ {t[Owner]}, buffer, [taken EXCEPT ![buffer[Slot(t[Owner])]] = @ + 1], pushed)
        BY Zenon, <2>6, <3>1, ExactTake DEF Inv, Contents
      <3>3. QED BY Zenon, <3>2, <2>1, <2>6 DEF Contents
    <2>8. ThievesSee'
      BY Zenon, <2>1, <2>2, <2>5 DEF Inv, ThievesSee, SameThieves
    <2>9. Control'
      BY <1>own, <1>loc, <1>num, <2>1, <2>2, <2>3, <2>4, <2>5
         DEF Inv, Control, SameThieves, PushPC, PopPC, StealPC
    <2>10. QED BY <2>7, <2>8, <2>9
  <1>19. QED
    BY <1>1, <1>2, <1>3, <1>4, <1>5, <1>6, <1>7, <1>8, <1>9, <1>10, <1>11,
       <1>12, <1>13, <1>14, <1>15, <1>16, <1>17, <1>18
       DEF Push, TryPop, TakeHalf

-----------------------------------------------------------------------------
(* The steps of a thief.                                                   *)

\* Each step of Steal by a thief preserves the invariant.
LEMMA ThiefSteps ==
  ASSUME Inv, TypeOK', NEW th \in Thieves, Steal(th)
  PROVE  Control' /\ ThievesSee' /\ Contents'
  <1>own. Owner \in Threads /\ th \in Threads /\ th # Owner
          /\ \A x \in Thieves : x \in Threads /\ x # Owner
    BY OwnerIsThread, ThiefIsThread
  <1>loc. /\ top \in Nat /\ bottom \in Int /\ pending = Drained /\ t[th] \in Nat
          /\ pushed \in Nat /\ b[Owner] \in Int /\ t[Owner] \in Nat
    BY Zenon, <1>own, OwnerNumbers DEF Inv, Control, TypeOK
  <1>see. /\ pc[th] \in StealPC => t[th] <= top
          /\ pc[th] \in {"steal_read", "steal_cas"} /\ t[th] = top => top < LiveEnd
          /\ pc[th] = "steal_cas" /\ t[th] = top => item[th] = buffer[Slot(top)]
    BY Zenon DEF Inv, ThievesSee
  <1>1. CASE StealLoadTop(th)
    <2>1. /\ bottom' = bottom /\ pending' = pending /\ left' = left
          /\ top' = top /\ buffer' = buffer /\ taken' = taken /\ pushed' = pushed
          /\ b' = b /\ item' = item
      BY <1>1 DEF StealLoadTop
    <2>2. pc'[th] = "steal_load" /\ \A x \in Threads : x # th => pc'[x] = pc[x]
      BY <1>1, <1>own, LabelsType, GotoEffect DEF StealLoadTop, StealPC, Inv
    <2>3. t'[th] = top /\ \A x \in Threads : x # th => t'[x] = t[x]
      BY <1>1, <1>own DEF StealLoadTop, Inv, TypeOK
    <2>4. QED BY <1>own, <1>loc, <2>1, <2>2, <2>3, ThiefQuiet DEF StealPC
  <1>2. CASE StealLoadBottom(th)
    <2>1. /\ bottom' = bottom /\ pending' = pending /\ left' = left
          /\ top' = top /\ buffer' = buffer /\ taken' = taken /\ pushed' = pushed
          /\ b' = b /\ item' = item /\ t' = t
          /\ pc[th] = "steal_load" /\ t[th] < bottom
      BY Zenon, <1>2 DEF StealLoadBottom
    <2>2. pc'[th] = "steal_read" /\ \A x \in Threads : x # th => pc'[x] = pc[x]
      BY <1>2, <1>own, LabelsType, GotoEffect DEF StealLoadBottom, StealPC, Inv
    <2>3. bottom <= LiveEnd
      BY <1>loc, LiveEndIs DEF Inv, Bounds, OwnerBounds, Drained
    <2>4. LiveEnd \in Int BY <1>loc, LiveEndIs DEF Inv
    <2>5. t[th] <= top BY Zenon, <1>see, <2>1 DEF StealPC
    <2>6. t[th] = top => top < LiveEnd BY <1>loc, <2>1, <2>3, <2>4
    <2>7. QED
      BY Zenon, <1>own, <2>1, <2>2, <2>5, <2>6, ThiefQuiet DEF StealPC
  <1>3. CASE StealEmpty(th)
    <2>1. /\ bottom' = bottom /\ pending' = pending /\ left' = left
          /\ top' = top /\ buffer' = buffer /\ taken' = taken /\ pushed' = pushed
      BY <1>3 DEF StealEmpty
    <2>2. pc'[th] = "idle" /\ \A x \in Threads : x # th =>
            pc'[x] = pc[x] /\ b'[x] = b[x] /\ t'[x] = t[x] /\ item'[x] = item[x]
      BY Zenon, <1>3, <1>own, ReturnEffect DEF StealEmpty, Inv
    <2>3. QED BY <1>own, <2>1, <2>2, ThiefQuiet DEF StealPC
  <1>4. CASE StealRead(th)
    <2>1. /\ bottom' = bottom /\ pending' = pending /\ left' = left
          /\ top' = top /\ buffer' = buffer /\ taken' = taken /\ pushed' = pushed
          /\ b' = b /\ t' = t /\ pc[th] = "steal_read"
      BY <1>4 DEF StealRead
    <2>2. pc'[th] = "steal_cas" /\ \A x \in Threads : x # th => pc'[x] = pc[x]
      BY Zenon, <1>4, <1>own, LabelsType, GotoEffect DEF StealRead, StealPC, Inv
    <2>3. item'[th] = buffer[Slot(t[th])] /\ \A x \in Threads : x # th => item'[x] = item[x]
      BY <1>4, <1>own DEF StealRead, Inv, TypeOK
    <2>4. QED
      BY Zenon, <1>own, <1>loc, <1>see, <2>1, <2>2, <2>3, ThiefQuiet DEF StealPC
  <1>5. CASE StealLose(th)
    <2>1. /\ bottom' = bottom /\ pending' = pending /\ left' = left
          /\ top' = top /\ buffer' = buffer /\ taken' = taken /\ pushed' = pushed
      BY <1>5 DEF StealLose
    <2>2. pc'[th] = "idle" /\ \A x \in Threads : x # th =>
            pc'[x] = pc[x] /\ b'[x] = b[x] /\ t'[x] = t[x] /\ item'[x] = item[x]
      BY Zenon, <1>5, <1>own, ReturnEffect DEF StealLose, Inv
    <2>3. QED BY <1>own, <2>1, <2>2, ThiefQuiet DEF StealPC
  <1>6. CASE StealWin(th)
    <2>1. /\ bottom' = bottom /\ pending' = pending /\ left' = left
          /\ top' = top + 1 /\ buffer' = buffer /\ pushed' = pushed
          /\ taken' = [taken EXCEPT ![item[th]] = @ + 1]
          /\ pc[th] = "steal_cas" /\ top = t[th]
      BY Zenon, <1>6 DEF StealWin, HandOut
    <2>2. pc'[th] = "idle" /\ \A x \in Threads : x # th =>
            pc'[x] = pc[x] /\ b'[x] = b[x] /\ t'[x] = t[x] /\ item'[x] = item[x]
      BY Zenon, <1>6, <1>own, ReturnEffect DEF StealWin, Inv
    <2>3. LiveEnd' = LiveEnd /\ Claimed(Owner)' = Claimed(Owner)
      BY Zenon, <1>own, <2>1, <2>2, ThiefStep
    <2>4. top < LiveEnd /\ item[th] = buffer[Slot(top)] BY Zenon, <1>see, <2>1
    <2>5. LiveEnd = (IF pc[Owner] \in PopPC THEN b[Owner] + 1 ELSE bottom)
          /\ LiveEnd \in Int
      BY <1>loc, LiveEndIs DEF Inv
    <2>6. top \notin Claimed(Owner)
      <3>1. left[Owner] \in Nat BY <1>own DEF Inv, TypeOK
      <3>2. left[Owner] = 0 \/ t[Owner] + left[Owner] <= top BY Zenon DEF Inv, Control
      <3>3. QED BY <1>loc, <3>1, <3>2 DEF Claimed
    <2>7. top \in Held /\ Held' = Held \ {top}
      <3>1. Held = Claimed(Owner) \cup (top..(LiveEnd - 1)) BY DEF Held
      <3>2. Held' = Claimed(Owner) \cup ((top + 1)..(LiveEnd - 1))
        BY <2>1, <2>3 DEF Held
      <3>3. QED BY <1>loc, <2>4, <2>5, <2>6, <3>1, <3>2
    <2>8. Contents'
      <3>1. taken \in [0..MaxTasks -> Nat] /\ pushed \in 0..MaxTasks
        BY DEF Inv, TypeOK
      <3>2. Exact(Held \ {top}, buffer, [taken EXCEPT ![buffer[Slot(top)]] = @ + 1], pushed)
        BY Zenon, <2>7, <3>1, ExactTake DEF Inv, Contents
      <3>3. QED BY Zenon, <1>own, <3>2, <2>1, <2>2, <2>4, <2>7 DEF Contents, Inv
    <2>9. ThievesSee'
      <3>1. \A x \in Thieves : t[x] \in Nat BY <1>own DEF Inv, TypeOK
      <3>2. QED
        BY <1>own, <1>loc, <2>1, <2>2, <3>1 DEF Inv, ThievesSee, StealPC
    <2>10. Control'
      <3>1. pc[Owner] # "pop_restore"
        <4>1. pc[Owner] = "pop_restore" => top = b[Owner] + 1 BY Zenon DEF Inv, Control
        <4>2. pc[Owner] = "pop_restore" => LiveEnd = b[Owner] + 1 BY <2>5 DEF PopPC
        <4>3. QED BY <1>loc, <2>4, <4>1, <4>2
      <3>2. pc'[Owner] = pc[Owner] /\ b'[Owner] = b[Owner] /\ t'[Owner] = t[Owner]
        BY <1>own, <2>2
      <3>3. top' <= LiveEnd' BY <1>loc, <2>1, <2>3, <2>4, <2>5
      <3>4. \A x \in Thieves : pc'[x] \in {"idle"} \cup StealPC /\ left'[x] = 0
        BY Zenon, <1>own, <2>1, <2>2 DEF Inv, Control
      <3>5. pc[Owner] = "half_copy" => t[Owner] + left[Owner] <= top'
        <4>1. left[Owner] \in Nat BY <1>own DEF Inv, TypeOK
        <4>2. pc[Owner] = "half_copy" => t[Owner] + left[Owner] <= top
          BY DEF Inv, Control
        <4>3. QED BY <4>1, <4>2, <1>loc, <2>1
      <3>6. pc[Owner] \in {"pop_cas", "half_cas"} => t[Owner] <= top'
        BY <1>loc, <2>1 DEF Inv, Control
      <3>7. QED
        BY Zenon, <2>1, <3>1, <3>2, <3>3, <3>4, <3>5, <3>6 DEF Inv, Control
    <2>11. QED BY <2>8, <2>9, <2>10
  <1>7. QED BY <1>1, <1>2, <1>3, <1>4, <1>5, <1>6 DEF Steal

-----------------------------------------------------------------------------
(* The theorems.                                                           *)

\* The empty deque satisfies the invariant.
LEMMA InvInit == Init => Inv
  <1> SUFFICES ASSUME Init PROVE Inv OBVIOUS
  <1>1. TypeOK /\ Bounds BY BoundsInit
  <1>2. LiveEnd = 0 /\ Control
    BY ConstantsOK, OwnerIsThread, ThiefIsThread
       DEF Init, Control, LiveEnd, BottomSeenBy, StealPC, PopPC, PushPC
  <1>3. ThievesSee
    BY ThiefIsThread DEF Init, ThievesSee, StealPC
  <1>4. Held = {} BY <1>1, <1>2, ClaimedEmpty, OwnerIsThread DEF Held, Init
  <1>5. Contents
    BY <1>4, ConstantsOK, OwnerIsThread DEF Init, Contents, Exact, Tasks
  <1>6. QED BY <1>1, <1>2, <1>3, <1>5 DEF Inv

\* The invariant is inductive when the deque is used as documented.
LEMMA InvStep == ASSUME Contract PROVE Inv /\ [Next]_vars => Inv'
  <1> SUFFICES ASSUME Inv, [Next]_vars PROVE Inv' OBVIOUS
  <1>1. TypeOK' /\ Bounds' BY TypeStep, BoundsStep DEF Inv
  <1>2. CASE Push \/ TryPop \/ Drain \/ TakeHalf(Owner)
    BY <1>1, <1>2, OwnerSteps DEF Inv
  <1>3. CASE \E th \in Thieves : Steal(th)
    BY <1>1, <1>3, ThiefSteps DEF Inv
  <1>4. CASE UNCHANGED vars
    <2>1. LiveEnd' = LiveEnd /\ Held' = Held
      BY <1>4 DEF vars, LiveEnd, BottomSeenBy, Held, Claimed
    <2>2. Control' /\ ThievesSee' /\ Contents'
      BY Zenon, <1>4, <2>1 DEF vars, Inv, Control, ThievesSee, Contents
    <2>3. QED BY <1>1, <2>2 DEF Inv
  <1>5. QED BY <1>2, <1>3, <1>4 DEF Next, Contract

\* The invariant implies that no task is handed out twice and none is lost.
LEMMA InvImplies == Inv => NoTaskTwice /\ NoTaskLost
  <1> SUFFICES ASSUME Inv PROVE NoTaskTwice /\ NoTaskLost OBVIOUS
  <1>1. Exact(Held, buffer, taken, pushed) BY DEF Inv, Contents
  <1>2. NoTaskTwice BY <1>1 DEF Exact, NoTaskTwice
  <1>3. NoTaskLost
    <2>1. SUFFICES ASSUME NEW k \in 1..pushed
                   PROVE  \/ taken[k] > 0
                          \/ \E i \in top..(LiveEnd - 1) : buffer[Slot(i)] = k
                          \/ BeingCopied(k)
      BY DEF NoTaskLost
    <2>2. taken[k] = 1 \/ \E i \in Held : buffer[Slot(i)] = k BY <1>1 DEF Exact
    <2>3. QED BY <2>2, OwnerIsThread DEF Held, BeingCopied
  <1>4. QED BY <1>2, <1>3

\* Used as documented, the deque hands no task to two callers, whatever the
\* capacity, the number of thieves and the interleaving: TryPop's last-task
\* CAS against Steal's CAS, and TakeHalf's CAS against both.
THEOREM TaskHandedOutOnce ==
  ASSUME Contract PROVE Spec => []NoTaskTwice
  <1>1. Inv => NoTaskTwice BY InvImplies
  <1>2. Inv /\ [Next]_vars => Inv' BY InvStep
  <1>3. QED BY <1>1, <1>2, InvInit, PTL DEF Spec

\* Used as documented, a task whose Push returned true is never lost or
\* overwritten before it is handed out.
THEOREM TaskNeverLost ==
  ASSUME Contract PROVE Spec => []NoTaskLost
  <1>1. Inv => NoTaskLost BY InvImplies
  <1>2. Inv /\ [Next]_vars => Inv' BY InvStep
  <1>3. QED BY <1>1, <1>2, InvInit, PTL DEF Spec
=============================================================================
