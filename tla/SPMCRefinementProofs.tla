------------------------ MODULE SPMCRefinementProofs ------------------------
(***************************************************************************)
(* When the deque is used as its header documents and no store is delayed, *)
(* it implements WorkDeque: every operation takes effect at one instant on *)
(* one sequence, for every capacity, number of thieves and number of       *)
(* tasks.  The invariant is that of SPMCExactlyOnceProofs.                 *)
(***************************************************************************)
EXTENDS SPMCExactlyOnceProofs, SequenceTheorems

\* The refinement mapping: the sequence, and how often each task has left it.
Dq == [i \in 1..(LiveEnd - top) |-> buffer[Slot(top + i - 1)]]
Out == [k \in Tasks |-> taken[k] + IF BeingCopied(k) THEN 1 ELSE 0]

\* The slots of some indices hold task k; so do the first n of a sequence.
InSlots(I, buf, k) == \E i \in I : buf[Slot(i)] = k
InFirst(s, n, k) == \E i \in 1..n : s[i] = k

\* u is s, which is not empty, without its first n.
IsDrop(u, s, n) == s # <<>> /\ u = SubSeq(s, n + 1, Len(s))

\* The mapping of given ends, slots, counts and claimed indices.
Between(lo, hi, buf) == [i \in 1..(hi - lo) |-> buf[Slot(lo + i - 1)]]
Given(tk, C, buf) ==
  [k \in Tasks |-> tk[k] + IF \E i \in C : buf[Slot(i)] = k THEN 1 ELSE 0]

-----------------------------------------------------------------------------
(* The sequence of the slots between two indices.                          *)

\* Its length, and its members.
LEMMA BetweenSeq ==
  ASSUME NEW S, NEW buf \in [0..(kMaxSize - 1) -> S],
         NEW lo \in Nat, NEW hi \in Nat, lo <= hi
  PROVE  /\ Between(lo, hi, buf) \in Seq(S)
         /\ Len(Between(lo, hi, buf)) = hi - lo
  <1>1. \A i \in 1..(hi - lo) : buf[Slot(lo + i - 1)] \in S
    <2>1. TAKE i \in 1..(hi - lo)
    <2>2. lo + i - 1 \in Nat OBVIOUS
    <2>3. QED BY <2>2, SlotType
  <1>2. hi - lo \in Nat OBVIOUS
  <1>3. QED BY <1>1, <1>2 DEF Between

\* A sequence with the right length and members is this one.
LEMMA BetweenIs ==
  ASSUME NEW S, NEW buf \in [0..(kMaxSize - 1) -> S],
         NEW lo \in Nat, NEW hi \in Nat, lo <= hi,
         NEW u \in Seq(S), Len(u) = hi - lo,
         \A i \in 1..(hi - lo) : u[i] = buf[Slot(lo + i - 1)]
  PROVE  u = Between(lo, hi, buf)
  <1> DEFINE v == Between(lo, hi, buf)
  <1>1. v \in Seq(S) /\ Len(v) = hi - lo BY ZenonT(30), BetweenSeq
  <1>2. \A i \in 1..(hi - lo) : v[i] = buf[Slot(lo + i - 1)] BY DEF Between
  <1> HIDE DEF v
  <1>3. \A i \in 1..Len(u) : u[i] = v[i] BY <1>2
  <1>4. u = v BY <1>1, <1>3, SeqEqual
  <1>5. QED BY <1>4 DEF v

\* One index more at the bottom.
LEMMA BetweenAppend ==
  ASSUME NEW S, NEW buf \in [0..(kMaxSize - 1) -> S],
         NEW lo \in Nat, NEW hi \in Nat, NEW e \in Nat, lo <= e, hi = e + 1
  PROVE  Append(Between(lo, e, buf), buf[Slot(e)]) = Between(lo, hi, buf)
  <1> DEFINE s == Between(lo, e, buf)
             u == Append(s, buf[Slot(e)])
  <1>1. s \in Seq(S) /\ Len(s) = e - lo BY ZenonT(30), BetweenSeq
  <1>2. \A i \in 1..(e - lo) : s[i] = buf[Slot(lo + i - 1)] BY DEF Between
  <1>3. buf[Slot(e)] \in S BY SlotType
  <1> HIDE DEF s
  <1>4. /\ u \in Seq(S) /\ Len(u) = Len(s) + 1
        /\ \A i \in 1..Len(s) : u[i] = s[i]
        /\ u[Len(s) + 1] = buf[Slot(e)]
    BY <1>1, <1>3
  <1> HIDE DEF u
  <1>5. ASSUME NEW i \in 1..(hi - lo) PROVE u[i] = buf[Slot(lo + i - 1)]
    <2>1. CASE i = hi - lo
      <3>1. lo + i - 1 = e /\ i = Len(s) + 1 BY <1>1, <2>1
      <3>2. QED BY <1>4, <3>1
    <2>2. CASE i # hi - lo
      <3>1. i \in 1..(e - lo) BY <2>2
      <3>2. QED BY <1>1, <1>2, <1>4, <3>1
    <2>3. QED BY <2>1, <2>2
  <1>6. Len(u) = hi - lo /\ lo <= hi BY <1>1, <1>4
  <1>7. u = Between(lo, hi, buf) BY ZenonT(30), <1>4, <1>5, <1>6, BetweenIs
  <1>8. QED BY <1>7 DEF u, s

\* Without its last, which is the slot of the last index.
LEMMA BetweenFront ==
  ASSUME NEW S, NEW buf \in [0..(kMaxSize - 1) -> S],
         NEW lo \in Nat, NEW hi \in Nat, NEW e \in Nat, lo <= e, hi = e + 1
  PROVE  /\ Between(lo, hi, buf) # <<>>
         /\ Between(lo, e, buf)
              = SubSeq(Between(lo, hi, buf), 1, Len(Between(lo, hi, buf)) - 1)
         /\ Between(lo, hi, buf)[Len(Between(lo, hi, buf))] = buf[Slot(e)]
  <1> DEFINE s == Between(lo, hi, buf)
             n == Len(s) - 1
             u == SubSeq(s, 1, n)
  <1>1. lo <= hi OBVIOUS
  <1>2. s \in Seq(S) /\ Len(s) = hi - lo BY ZenonT(30), <1>1, BetweenSeq
  <1>3. \A i \in 1..(hi - lo) : s[i] = buf[Slot(lo + i - 1)] BY DEF Between
  <1> HIDE DEF s
  <1>4. n = e - lo /\ n \in 0..Len(s) BY <1>2
  <1> HIDE DEF n
  <1>5. u \in Seq(S) /\ Len(u) = n /\ \A i \in 1..n : u[i] = s[i]
    BY <1>2, <1>4, SubSeqProperties
  <1> HIDE DEF u
  <1>6. \A i \in 1..(e - lo) : u[i] = buf[Slot(lo + i - 1)]
    BY <1>3, <1>4, <1>5
  <1>7. u = Between(lo, e, buf)
    <2>1. Len(u) = e - lo BY <1>4, <1>5
    <2>2. QED BY ZenonT(30), <1>5, <1>6, <2>1, BetweenIs
  <1>8. s # <<>> BY <1>2
  <1>9. s[Len(s)] = buf[Slot(e)]
    <2>1. Len(s) \in 1..(hi - lo) /\ lo + Len(s) - 1 = e BY <1>2
    <2>2. QED BY Zenon, <1>3, <2>1
  <1>10. QED BY <1>7, <1>8, <1>9 DEF u, n, s

\* Without its first n, which are the slots of the first n indices.
LEMMA BetweenDrop ==
  ASSUME NEW S, NEW buf \in [0..(kMaxSize - 1) -> S],
         NEW lo \in Nat, NEW hi \in Nat, NEW l \in Nat, lo < l, l <= hi,
         NEW n, n = l - lo
  PROVE  IsDrop(Between(l, hi, buf), Between(lo, hi, buf), n)
  <1> DEFINE s == Between(lo, hi, buf)
             u == SubSeq(s, n + 1, Len(s))
  <1>1. lo <= hi OBVIOUS
  <1>2. s \in Seq(S) /\ Len(s) = hi - lo BY ZenonT(30), <1>1, BetweenSeq
  <1>3. \A i \in 1..(hi - lo) : s[i] = buf[Slot(lo + i - 1)] BY DEF Between
  <1> HIDE DEF s
  <1>4. /\ u \in Seq(S) /\ Len(u) = hi - l
        /\ \A i \in 1..(hi - l) : u[i] = s[n + i]
    <2>1. /\ SubSeq(s, n + 1, Len(s)) \in Seq(S)
          /\ Len(SubSeq(s, n + 1, Len(s)))
               = IF n + 1 <= Len(s) THEN Len(s) - (n + 1) + 1 ELSE 0
          /\ \A i \in 1..(Len(s) - (n + 1) + 1) :
               SubSeq(s, n + 1, Len(s))[i] = s[(n + 1) + i - 1]
      BY <1>2, SubSeqProperties
    <2>2. QED BY <1>2, <2>1
  <1> HIDE DEF u
  <1>5. ASSUME NEW i \in 1..(hi - l) PROVE u[i] = buf[Slot(l + i - 1)]
    <2>1. n + i \in 1..(hi - lo) /\ lo + (n + i) - 1 = l + i - 1 OBVIOUS
    <2>2. s[n + i] = buf[Slot(lo + (n + i) - 1)] BY <1>3, <2>1
    <2>3. QED BY <1>4, <2>1, <2>2
  <1>6. u = Between(l, hi, buf) BY ZenonT(30), <1>4, <1>5, BetweenIs
  <1>7. s # <<>> BY <1>2
  <1>8. QED BY <1>6, <1>7 DEF u, s, IsDrop

\* Its first n are the slots of the first n indices.
LEMMA BetweenFirst ==
  ASSUME NEW buf, NEW lo \in Nat, NEW hi \in Nat, NEW l \in Nat,
         lo < l, l <= hi, NEW n, n = l - lo, NEW k
  PROVE  InFirst(Between(lo, hi, buf), n, k) <=> InSlots(lo..(l - 1), buf, k)
  <1> DEFINE s == Between(lo, hi, buf)
  <1>1. \A i \in 1..(hi - lo) : s[i] = buf[Slot(lo + i - 1)] BY DEF Between
  <1> HIDE DEF s
  <1>2. ASSUME NEW i \in 1..n, s[i] = k
        PROVE  \E j \in lo..(l - 1) : buf[Slot(j)] = k
    <2>1. i \in 1..(hi - lo) /\ lo + i - 1 \in lo..(l - 1) OBVIOUS
    <2>2. QED BY <1>1, <1>2, <2>1
  <1>3. ASSUME NEW j \in lo..(l - 1), buf[Slot(j)] = k
        PROVE  \E i \in 1..n : s[i] = k
    <2>1. j - lo + 1 \in 1..(hi - lo) /\ j - lo + 1 \in 1..n
          /\ lo + (j - lo + 1) - 1 = j
      OBVIOUS
    <2>2. QED BY <1>1, <1>3, <2>1
  <1>4. QED BY <1>2, <1>3 DEF s, InFirst, InSlots

-----------------------------------------------------------------------------
(* The mapping in a state of the invariant, and the abstract steps.        *)

Mapped ==
  /\ top \in Nat /\ LiveEnd \in Nat /\ top <= LiveEnd
  /\ buffer \in [0..(kMaxSize - 1) -> 0..MaxTasks]
  /\ taken \in [0..MaxTasks -> Nat]
  /\ Dq = Between(top, LiveEnd, buffer)
  /\ Out = Given(taken, Claimed(Owner), buffer)
  /\ LiveEnd = IF pc[Owner] \in PopPC THEN b[Owner] + 1 ELSE bottom
  /\ left[Owner] = 0 => Claimed(Owner) = {}

\* Only the owner copies, so what is being copied is what it has claimed.
LEMMA MappedIs == Inv => Mapped
  <1> SUFFICES ASSUME Inv PROVE Mapped OBVIOUS
  <1>1. /\ top \in Nat /\ top <= LiveEnd
        /\ buffer \in [0..(kMaxSize - 1) -> 0..MaxTasks]
        /\ taken \in [0..MaxTasks -> Nat]
    BY DEF Inv, TypeOK, Control
  <1>2. LiveEnd = IF pc[Owner] \in PopPC THEN b[Owner] + 1 ELSE bottom
    BY LiveEndIs DEF Inv
  <1>3. LiveEnd \in Nat
    <2>1. LiveEnd \in Int BY <1>2, OwnerNumbers DEF Inv
    <2>2. QED BY <1>1, <2>1
  <1>4. Dq = Between(top, LiveEnd, buffer) BY DEF Dq, Between
  <1>5. ASSUME NEW th \in Thieves PROVE Claimed(th) = {}
    <2>1. left[th] = 0 /\ t[th] \in Nat
      BY ThiefIsThread DEF Inv, Control, TypeOK
    <2>2. QED BY <2>1 DEF Claimed
  <1>6. \A k : BeingCopied(k) <=> \E i \in Claimed(Owner) : buffer[Slot(i)] = k
    BY Zenon, <1>5 DEF BeingCopied, Threads
  <1>7. Out = Given(taken, Claimed(Owner), buffer)
    BY Zenon, <1>6 DEF Out, Given
  <1>8. left[Owner] = 0 => Claimed(Owner) = {} BY ClaimedEmpty DEF Inv
  <1>9. QED BY Zenon, <1>1, <1>2, <1>3, <1>4, <1>7, <1>8 DEF Mapped

\* The same after a step.
LEMMA MappedNext == Inv' => Mapped'
  BY MappedIs, PTL

\* The sequence has a task for every index between the two ends.
LEMMA LengthIs ==
  ASSUME Inv PROVE Len(Dq) = LiveEnd - top
  <1>1. /\ top \in Nat /\ LiveEnd \in Nat /\ top <= LiveEnd
        /\ Dq = Between(top, LiveEnd, buffer)
        /\ buffer \in [0..(kMaxSize - 1) -> 0..MaxTasks]
    BY MappedIs DEF Mapped
  <1>2. QED BY ZenonT(30), <1>1, BetweenSeq

\* Add, under the mapping.
LEMMA AddIs ==
  ASSUME pushed < MaxTasks, Len(Dq) < kMaxSize, Dq' = Append(Dq, pushed + 1),
         pushed' = pushed + 1, Out' = Out
  PROVE  Deque!Next
  BY Zenon DEF Deque!Next, Deque!Add, Dq, Out

\* RemoveBottom, under the mapping.
LEMMA RemoveBottomIs ==
  ASSUME Dq # <<>>, Dq' = SubSeq(Dq, 1, Len(Dq) - 1),
         Out' = [Out EXCEPT ![Dq[Len(Dq)]] = @ + 1], pushed' = pushed
  PROVE  Deque!Next
  BY Zenon DEF Deque!Next, Deque!RemoveBottom, Dq, Out

\* RemoveTop, under the mapping, for one task or half of them.
LEMMA RemoveTopIs ==
  ASSUME NEW n, n = 1 \/ n = Deque!Half(Len(Dq)),
         Dq # <<>>, Dq' = SubSeq(Dq, n + 1, Len(Dq)),
         Out' = [k \in 1..MaxTasks |->
                   Out[k] + IF \E i \in 1..n : Dq[i] = k THEN 1 ELSE 0],
         pushed' = pushed
  PROVE  Deque!Next
  <1>1. CASE n = 1
    BY Zenon, <1>1 DEF Deque!Next, Deque!RemoveTop, Dq, Out
  <1>2. CASE n = Deque!Half(Len(Dq))
    BY Zenon, <1>2 DEF Deque!Next, Deque!RemoveTop, Dq, Out
  <1>3. QED BY <1>1, <1>2

\* A step that changes none of what the mapping looks at.
LEMMA Stutter ==
  ASSUME Dq' = Dq, pushed' = pushed, Out' = Out
  PROVE  UNCHANGED Deque!vars
  BY Zenon DEF Deque!vars, Dq, Out

-----------------------------------------------------------------------------
(* What each kind of step does under the mapping.                          *)

\* A step that moves neither end, nor the range that TakeHalf copies.
LEMMA QuietRefines ==
  ASSUME Inv, Inv', top' = top, LiveEnd' = LiveEnd, buffer' = buffer,
         taken' = taken, pushed' = pushed,
         Claimed(Owner)' = Claimed(Owner)
  PROVE  UNCHANGED Deque!vars
  <1>1. Mapped /\ Mapped' BY MappedIs, MappedNext
  <1>2. Dq' = Dq BY <1>1 DEF Mapped
  <1>3. Out' = Out BY <1>1 DEF Mapped
  <1>4. QED BY <1>2, <1>3, Stutter

\* The task at a held index is a task, and nobody has it.
LEMMA HeldTask ==
  ASSUME Inv, NEW i \in Held
  PROVE  buffer[Slot(i)] \in Tasks
  <1>1. buffer[Slot(i)] \in 1..pushed BY DEF Inv, Contents, Exact
  <1>2. pushed \in 0..MaxTasks BY DEF Inv, TypeOK
  <1>3. QED BY <1>1, <1>2, ConstantsOK DEF Tasks

\* The owner takes the bottom task: TryPop with a CAS and without one.
LEMMA TakeBottomRefines ==
  ASSUME Inv, Inv', NEW e \in Nat, top <= e, LiveEnd = e + 1,
         left[Owner] = 0, left'[Owner] = 0,
         Between(top', LiveEnd', buffer) = Between(top, e, buffer),
         buffer' = buffer, pushed' = pushed,
         HandOut(buffer[Slot(e)])
  PROVE  Deque!Next
  <1>1. Mapped /\ Mapped' BY MappedIs, MappedNext
  <1>2. /\ top \in Nat /\ LiveEnd \in Nat /\ top <= LiveEnd
        /\ buffer \in [0..(kMaxSize - 1) -> 0..MaxTasks]
        /\ Dq = Between(top, LiveEnd, buffer) /\ Dq' = Between(top, e, buffer)
    BY <1>1 DEF Mapped
  <1>3. /\ Dq # <<>> /\ Dq' = SubSeq(Dq, 1, Len(Dq) - 1)
        /\ Dq[Len(Dq)] = buffer[Slot(e)]
    BY ZenonT(30), <1>2, BetweenFront
  <1>4. buffer[Slot(e)] \in Tasks
    <2>1. e \in Held BY <1>2 DEF Held
    <2>2. QED BY <2>1, HeldTask
  <1>5. Out' = [Out EXCEPT ![buffer[Slot(e)]] = @ + 1]
    <2> DEFINE k == buffer[Slot(e)]
    <2>1. Tasks \subseteq 0..MaxTasks BY ConstantsOK DEF Tasks
    <2>2. taken \in [0..MaxTasks -> Nat] BY <1>1 DEF Mapped
    <2>3. k \in Tasks /\ taken' = [taken EXCEPT ![k] = @ + 1]
      BY <1>4 DEF HandOut
    <2> HIDE DEF k
    <2>4. \A m \in Tasks : /\ taken[m] \in Nat
                          /\ taken'[m] = IF m = k THEN taken[m] + 1 ELSE taken[m]
      BY <2>1, <2>2, <2>3
    <2>5. Out = Given(taken, {}, buffer) /\ Out' = Given(taken', {}, buffer)
      BY Zenon, <1>1 DEF Mapped
    <2>6. Out = [m \in Tasks |-> taken[m]] BY <2>4, <2>5 DEF Given
    <2>7. Out' = [m \in Tasks |-> taken'[m]] BY <2>4, <2>5 DEF Given
    <2>8. Out' = [Out EXCEPT ![k] = @ + 1] BY <2>3, <2>4, <2>6, <2>7
    <2>9. QED BY <2>8 DEF k
  <1>6. Out' = [Out EXCEPT ![Dq[Len(Dq)]] = @ + 1] BY Zenon, <1>3, <1>5
  <1>7. QED BY <1>3, <1>6, RemoveBottomIs

\* The owner publishes the task it has written below the bottom one.
LEMMA PublishRefines ==
  ASSUME Inv, Inv', NEW e \in Nat, LiveEnd = e, LiveEnd' = e + 1, top' = top,
         buffer' = buffer, taken' = taken, pushed' = pushed + 1,
         pushed < MaxTasks, e - top < kMaxSize, buffer[Slot(e)] = pushed + 1,
         left[Owner] = 0, left'[Owner] = 0
  PROVE  Deque!Next
  <1>1. Mapped /\ Mapped' BY MappedIs, MappedNext
  <1>2. /\ top \in Nat /\ top <= e /\ LiveEnd' \in Nat
        /\ buffer \in [0..(kMaxSize - 1) -> 0..MaxTasks]
        /\ Dq = Between(top, e, buffer) /\ Dq' = Between(top, LiveEnd', buffer)
        /\ Out = Given(taken, {}, buffer) /\ Out' = Given(taken, {}, buffer)
    BY Zenon, <1>1 DEF Mapped
  <1>3. Len(Dq) = e - top BY LengthIs
  <1>4. Dq' = Append(Dq, pushed + 1) BY ZenonT(30), <1>2, BetweenAppend
  <1>5. Len(Dq) < kMaxSize BY <1>3
  <1>6. Out' = Out BY <1>2
  <1>7. QED BY <1>4, <1>5, <1>6, AddIs

\* The owner writes a slot that is not in the deque.
LEMMA WriteRefines ==
  ASSUME Inv, Inv', top' = top, LiveEnd' = LiveEnd, taken' = taken,
         pushed' = pushed, left[Owner] = 0, left'[Owner] = 0,
         \A i \in top..(LiveEnd - 1) : buffer'[Slot(i)] = buffer[Slot(i)]
  PROVE  UNCHANGED Deque!vars
  <1>1. Mapped /\ Mapped' BY MappedIs, MappedNext
  <1>2. /\ top \in Nat /\ LiveEnd \in Nat
        /\ Dq = Between(top, LiveEnd, buffer)
        /\ Dq' = Between(top, LiveEnd, buffer')
        /\ Out = Given(taken, {}, buffer) /\ Out' = Given(taken, {}, buffer')
    BY Zenon, <1>1 DEF Mapped
  <1>3. \A i \in 1..(LiveEnd - top) : top + i - 1 \in top..(LiveEnd - 1) BY <1>2
  <1>4. Dq' = Dq BY <1>2, <1>3 DEF Between
  <1>5. Out' = Out BY <1>2 DEF Given
  <1>6. QED BY <1>4, <1>5, Stutter

\* The top moves down by n.
LEMMA TopMoves ==
  ASSUME Inv, Inv', NEW n, n = top' - top, top < top', top' <= LiveEnd,
         LiveEnd' = LiveEnd, buffer' = buffer
  PROVE  /\ Dq # <<>> /\ Dq' = SubSeq(Dq, n + 1, Len(Dq))
         /\ \A m : InFirst(Dq, n, m) <=> InSlots(top..(top' - 1), buffer, m)
  <1>1. Mapped /\ Mapped' BY MappedIs, MappedNext
  <1>2. /\ top \in Nat /\ LiveEnd \in Nat /\ top' \in Nat
        /\ buffer \in [0..(kMaxSize - 1) -> 0..MaxTasks]
    BY <1>1 DEF Mapped
  <1>3. /\ Dq = Between(top, LiveEnd, buffer)
        /\ Dq' = Between(top', LiveEnd, buffer)
    BY <1>1 DEF Mapped
  <1>4. IsDrop(Between(top', LiveEnd, buffer), Between(top, LiveEnd, buffer), n)
    BY ZenonT(30), <1>2, BetweenDrop
  <1>5. \A m : InFirst(Between(top, LiveEnd, buffer), n, m)
                <=> InSlots(top..(top' - 1), buffer, m)
    BY ZenonT(30), <1>2, BetweenFirst
  <1>6. IsDrop(Dq', Dq, n) BY <1>3, <1>4
  <1>7. QED BY Zenon, <1>3, <1>5, <1>6 DEF IsDrop

\* A thief takes the top task.
LEMMA TakeTopRefines ==
  ASSUME Inv, Inv', top < LiveEnd, top' = top + 1, LiveEnd' = LiveEnd,
         buffer' = buffer, pushed' = pushed, HandOut(buffer[Slot(top)]),
         Claimed(Owner)' = Claimed(Owner)
  PROVE  Deque!Next
  <1> DEFINE k == buffer[Slot(top)]
             C == Claimed(Owner)
             c(m) == IF \E i \in C : buffer[Slot(i)] = m THEN 1 ELSE 0
  <1>1. Mapped /\ Mapped' BY MappedIs, MappedNext
  <1>2. /\ top \in Nat /\ LiveEnd \in Nat
        /\ top < top' /\ top' <= LiveEnd /\ 1 = top' - top
    BY <1>1 DEF Mapped
  <1>3. /\ Dq # <<>> /\ Dq' = SubSeq(Dq, 1 + 1, Len(Dq))
        /\ \A m : InFirst(Dq, 1, m) <=> InSlots(top..(top' - 1), buffer, m)
    BY Zenon, <1>2, TopMoves
  <1>4. \A m : (\E i \in 1..1 : Dq[i] = m) <=> m = k
    <2>1. top..(top' - 1) = {top} BY <1>2
    <2>2. QED BY Zenon, <1>3, <2>1 DEF InFirst, InSlots
  <1>5. k \in Tasks
    <2>1. top \in Held BY <1>2 DEF Held
    <2>2. QED BY <2>1, HeldTask
  <1>6. \A m \in Tasks : /\ taken[m] \in Nat
                         /\ taken'[m] = taken[m] + IF m = k THEN 1 ELSE 0
    <2>1. Tasks \subseteq 0..MaxTasks BY ConstantsOK DEF Tasks
    <2>2. taken \in [0..MaxTasks -> Nat] BY Zenon, <1>1 DEF Mapped
    <2>3. taken' = [taken EXCEPT ![k] = @ + 1] BY DEF HandOut
    <2> HIDE DEF k
    <2>4. QED BY <1>5, <2>1, <2>2, <2>3
  <1>7. Out = [m \in Tasks |-> taken[m] + c(m)] BY <1>1 DEF Mapped, Given
  <1>8. Out' = [m \in Tasks |-> taken'[m] + c(m)] BY <1>1 DEF Mapped, Given
  <1>9. \A m : c(m) \in Nat OBVIOUS
  <1> HIDE DEF k, c
  <1>10. Out' = [m \in 1..MaxTasks |-> Out[m] + IF m = k THEN 1 ELSE 0]
    BY <1>6, <1>7, <1>8, <1>9 DEF Tasks
  <1>11. Out' = [m \in 1..MaxTasks |->
                   Out[m] + IF \E i \in 1..1 : Dq[i] = m THEN 1 ELSE 0]
    BY Zenon, <1>4, <1>10
  <1>12. QED BY Zenon, <1>3, <1>11, RemoveTopIs

\* TakeHalf wins its CAS: its tasks leave the sequence before they are copied.
LEMMA TakeHalfRefines ==
  ASSUME Inv, Inv', NEW n \in Nat, top' = top + n, n = Deque!Half(LiveEnd - top),
         0 < n, n <= LiveEnd - top, LiveEnd' = LiveEnd,
         buffer' = buffer, pushed' = pushed, taken' = taken,
         left[Owner] = 0, Claimed(Owner)' = top..(top' - 1)
  PROVE  Deque!Next
  <1> DEFINE C == top..(top' - 1)
  <1>1. Mapped /\ Mapped' BY MappedIs, MappedNext
  <1>2. /\ top \in Nat /\ LiveEnd \in Nat
        /\ top < top' /\ top' <= LiveEnd /\ n = top' - top
    <2>1. top \in Nat /\ LiveEnd \in Nat BY Zenon, <1>1 DEF Mapped
    <2>2. QED BY <2>1
  <1>3. /\ Dq # <<>> /\ Dq' = SubSeq(Dq, n + 1, Len(Dq))
        /\ \A m : InFirst(Dq, n, m) <=> InSlots(C, buffer, m)
    BY Zenon, <1>2, TopMoves
  <1>4. Len(Dq) = LiveEnd - top
    BY LengthIs
  <1>5. \A m \in Tasks : taken[m] \in Nat
    <2>1. Tasks \subseteq 0..MaxTasks BY ConstantsOK DEF Tasks
    <2>2. QED BY Zenon, <1>1, <2>1 DEF Mapped
  <1>6. Out = Given(taken, {}, buffer) /\ Out' = Given(taken, C, buffer)
    BY Zenon, <1>1 DEF Mapped
  <1>7. Out = [m \in Tasks |-> taken[m]] BY <1>5, <1>6 DEF Given
  <1>8. Out' = [m \in Tasks |-> taken[m] + IF InSlots(C, buffer, m) THEN 1 ELSE 0]
    BY Zenon, <1>6 DEF Given, InSlots
  <1> HIDE DEF C
  <1>9. Out' = [m \in Tasks |-> Out[m] + IF InFirst(Dq, n, m) THEN 1 ELSE 0]
    BY Zenon, <1>3, <1>7, <1>8
  <1>10. Out' = [m \in 1..MaxTasks |->
                   Out[m] + IF \E i \in 1..n : Dq[i] = m THEN 1 ELSE 0]
    BY Zenon, <1>9 DEF InFirst, Tasks
  <1>11. n = Deque!Half(Len(Dq)) BY Zenon, <1>4
  <1>12. QED BY Zenon, <1>3, <1>10, <1>11, RemoveTopIs

\* TakeHalf copies a task that has left the sequence: nothing happens.
LEMMA CopyRefines ==
  ASSUME Inv, Inv', top' = top, LiveEnd' = LiveEnd, buffer' = buffer,
         pushed' = pushed, NEW i \in Claimed(Owner), HandOut(buffer[Slot(i)]),
         Claimed(Owner)' = Claimed(Owner) \ {i}
  PROVE  UNCHANGED Deque!vars
  <1> DEFINE k == buffer[Slot(i)]
             C == Claimed(Owner)
             c(m) == IF \E j \in C : buffer[Slot(j)] = m THEN 1 ELSE 0
             d(m) == IF \E j \in C \ {i} : buffer[Slot(j)] = m THEN 1 ELSE 0
  <1>1. Mapped /\ Mapped' BY MappedIs, MappedNext
  <1>2. Dq' = Dq BY <1>1 DEF Mapped
  <1>3. \A j \in C : j # i => buffer[Slot(j)] # k
    <2>1. C \subseteq Held BY DEF Held
    <2>2. \A x, y \in Held : x # y => buffer[Slot(x)] # buffer[Slot(y)]
      BY DEF Inv, Contents, Exact
    <2>3. QED BY <2>1, <2>2
  <1>4. k \in Tasks BY HeldTask DEF Held
  <1>5. \A m \in Tasks : /\ taken[m] \in Nat
                         /\ taken'[m] = taken[m] + IF m = k THEN 1 ELSE 0
    <2>1. Tasks \subseteq 0..MaxTasks BY ConstantsOK DEF Tasks
    <2>2. taken \in [0..MaxTasks -> Nat] BY <1>1 DEF Mapped
    <2>3. taken' = [taken EXCEPT ![k] = @ + 1] BY DEF HandOut
    <2> HIDE DEF k
    <2>4. QED BY <1>4, <2>1, <2>2, <2>3
  <1>6. Out = [m \in Tasks |-> taken[m] + c(m)] BY <1>1 DEF Mapped, Given
  <1>7. Out' = [m \in Tasks |-> taken'[m] + d(m)] BY <1>1 DEF Mapped, Given
  <1>8. c(k) = 1 /\ d(k) = 0 BY <1>3
  <1>9. \A m : m # k => c(m) = d(m) /\ c(m) \in Nat OBVIOUS
  <1> HIDE DEF k, c, d
  <1>10. \A m \in Tasks : taken[m] + c(m) = taken'[m] + d(m)
    BY <1>5, <1>8, <1>9
  <1>11. Out' = Out BY <1>6, <1>7, <1>10
  <1>12. QED BY <1>2, <1>11, Stutter

-----------------------------------------------------------------------------
(* The steps of the owner.                                                 *)

\* A step of the owner that moves neither end, outside TakeHalf's copy loop.
LEMMA OwnerQuietRefines ==
  ASSUME Inv, Inv', top' = top, LiveEnd' = LiveEnd, buffer' = buffer,
         taken' = taken, pushed' = pushed, left' = left, left[Owner] = 0
  PROVE  UNCHANGED Deque!vars
  <1>1. Mapped /\ Mapped' BY MappedIs, MappedNext
  <1>2. Claimed(Owner)' = Claimed(Owner) BY Zenon, <1>1 DEF Mapped
  <1>3. QED BY <1>2, QuietRefines

\* Push under way: it has read bottom_, and there is room.
LEMMA PushState ==
  ASSUME Inv, pc[Owner] \in PushPC
  PROVE  /\ b[Owner] = bottom /\ left[Owner] = 0 /\ bottom \in Nat
         /\ pushed < MaxTasks /\ bottom - top < kMaxSize
  <1>1. Control /\ OwnerBounds /\ bottom \in Int
    BY OwnerNumbers DEF Inv, Bounds
  <1>2. b[Owner] = bottom /\ left[Owner] = 0 BY <1>1 DEF Control, PushPC
  <1>3. pushed < MaxTasks /\ b[Owner] >= 0 /\ b[Owner] - top < kMaxSize
    BY <1>1 DEF OwnerBounds
  <1>4. QED BY <1>1, <1>2, <1>3

\* Each step of Push, TryPop and TakeHalf by the owner is a step of the
\* sequence or changes nothing of it.
LEMMA OwnerRefines ==
  ASSUME Contract, Inv, Inv', Push \/ TryPop \/ Drain \/ TakeHalf(Owner)
  PROVE  Deque!Next \/ UNCHANGED Deque!vars
  <1>own. Owner \in Threads BY OwnerIsThread
  <1>loc. /\ top \in Nat /\ bottom \in Int /\ pending = Drained
          /\ pushed \in Nat /\ b[Owner] \in Int /\ t[Owner] \in Nat
    BY Zenon, OwnerNumbers DEF Inv, Control
  <1>end. LiveEnd = IF pc[Owner] \in PopPC THEN b[Owner] + 1 ELSE bottom
    BY MappedIs DEF Mapped
  <1>nxt. LiveEnd' = IF pc'[Owner] \in PopPC THEN b'[Owner] + 1 ELSE bottom'
    BY MappedNext DEF Mapped
  <1>pop. pc[Owner] \in PopPC => bottom = b[Owner]
    BY <1>loc DEF Inv, Bounds, OwnerBounds, Drained
  <1>1. CASE PushLoad
    <2>1. pc'[Owner] = "push_write"
      BY <1>1, <1>own, LabelsType, GotoEffect DEF PushLoad, PushPC, Inv
    <2>2. /\ top' = top /\ buffer' = buffer /\ taken' = taken /\ pushed' = pushed
          /\ left' = left /\ pc[Owner] = "idle"
      BY <1>1 DEF PushLoad
    <2>3. bottom' = bottom BY <1>1, <1>own DEF PushLoad, Inv, TypeOK
    <2>4. LiveEnd' = LiveEnd
      BY <1>loc, <1>end, <1>nxt, <1>pop, <2>1, <2>2, <2>3 DEF PopPC
    <2>5. left[Owner] = 0 BY <2>2 DEF Inv, Control
    <2>6. QED BY <2>2, <2>4, <2>5, OwnerQuietRefines
  <1>2. CASE PopStore
    <2>1. pc'[Owner] = "pop_load"
      BY <1>2, <1>own, LabelsType, GotoEffect DEF PopStore, PopPC, Inv
    <2>2. /\ top' = top /\ buffer' = buffer /\ taken' = taken /\ pushed' = pushed
          /\ left' = left /\ pc[Owner] = "idle"
      BY <1>2 DEF PopStore
    <2>3. b'[Owner] = bottom - 1 BY Zenon, <1>2, <1>own DEF PopStore, Inv, TypeOK
    <2>4. LiveEnd' = LiveEnd
      <3>1. LiveEnd = bottom BY <1>end, <2>2 DEF PopPC
      <3>2. LiveEnd' = b'[Owner] + 1 BY <1>nxt, <2>1 DEF PopPC
      <3>3. QED BY <1>loc, <2>3, <3>1, <3>2
    <2>5. left[Owner] = 0 BY <2>2 DEF Inv, Control
    <2>6. QED BY <2>2, <2>4, <2>5, OwnerQuietRefines
  <1>3. CASE PopLast
    <2>1. pc'[Owner] = "pop_cas"
      BY <1>3, <1>own, LabelsType, GotoEffect DEF PopLast, PopPC, Inv
    <2>2. /\ top' = top /\ buffer' = buffer /\ taken' = taken /\ pushed' = pushed
          /\ left' = left /\ pc[Owner] = "pop_load"
      BY <1>3 DEF PopLast
    <2>3. b'[Owner] = b[Owner] BY <1>3, <1>own DEF PopLast, Inv, TypeOK
    <2>4. LiveEnd' = LiveEnd
      BY <1>loc, <1>end, <1>nxt, <1>pop, <2>1, <2>2, <2>3 DEF PopPC
    <2>5. left[Owner] = 0 BY <2>2 DEF Inv, Control
    <2>6. QED BY <2>2, <2>4, <2>5, OwnerQuietRefines
  <1>4. CASE PopEmpty
    <2>1. pc'[Owner] = "pop_restore"
      BY Zenon, <1>4, <1>own, LabelsType, GotoEffect DEF PopEmpty, PopPC, Inv
    <2>2. /\ top' = top /\ buffer' = buffer /\ taken' = taken /\ pushed' = pushed
          /\ left' = left /\ pc[Owner] = "pop_load"
      BY <1>4 DEF PopEmpty
    <2>3. b'[Owner] = b[Owner] BY <1>4, <1>own DEF PopEmpty, Inv, TypeOK
    <2>4. LiveEnd' = LiveEnd
      BY <1>loc, <1>end, <1>nxt, <1>pop, <2>1, <2>2, <2>3 DEF PopPC
    <2>5. left[Owner] = 0 BY <2>2 DEF Inv, Control
    <2>6. QED BY <2>2, <2>4, <2>5, OwnerQuietRefines
  <1>5. CASE PopLose
    <2>1. pc'[Owner] = "pop_restore"
      BY <1>5, <1>own, LabelsType, GotoEffect DEF PopLose, PopPC, Inv
    <2>2. /\ top' = top /\ buffer' = buffer /\ taken' = taken /\ pushed' = pushed
          /\ left' = left /\ pc[Owner] = "pop_cas"
      BY <1>5 DEF PopLose
    <2>3. b'[Owner] = b[Owner] BY <1>5, <1>own DEF PopLose, Inv, TypeOK
    <2>4. LiveEnd' = LiveEnd
      BY <1>loc, <1>end, <1>nxt, <1>pop, <2>1, <2>2, <2>3 DEF PopPC
    <2>5. left[Owner] = 0 BY Zenon, <2>2 DEF Inv, Control
    <2>6. QED BY <2>2, <2>4, <2>5, OwnerQuietRefines
  <1>6. CASE PopRestore
    <2>1. pc'[Owner] = "idle"
      BY Zenon, <1>6, <1>own, ReturnEffect DEF PopRestore, Inv
    <2>2. /\ top' = top /\ buffer' = buffer /\ taken' = taken /\ pushed' = pushed
          /\ left' = left /\ pc[Owner] = "pop_restore"
      BY <1>6 DEF PopRestore
    <2>3. bottom' = b[Owner] + 1 BY <1>6, <1>own DEF PopRestore, Inv, TypeOK
    <2>4. LiveEnd' = LiveEnd
      BY <1>loc, <1>end, <1>nxt, <1>pop, <2>1, <2>2, <2>3 DEF PopPC
    <2>5. left[Owner] = 0 BY Zenon, <2>2 DEF Inv, Control
    <2>6. QED BY <2>2, <2>4, <2>5, OwnerQuietRefines
  <1>7. CASE HalfLoadBottom(Owner)
    <2>1. pc'[Owner] = "half_load"
      BY <1>7, <1>own, LabelsType, GotoEffect DEF HalfLoadBottom, HalfPC, Inv
    <2>2. /\ top' = top /\ buffer' = buffer /\ taken' = taken /\ pushed' = pushed
          /\ left' = left /\ pc[Owner] = "idle"
      BY <1>7 DEF HalfLoadBottom
    <2>3. bottom' = bottom BY <1>7, <1>own DEF HalfLoadBottom, Inv, TypeOK
    <2>4. LiveEnd' = LiveEnd
      BY <1>loc, <1>end, <1>nxt, <1>pop, <2>1, <2>2, <2>3 DEF PopPC
    <2>5. left[Owner] = 0 BY <2>2 DEF Inv, Control
    <2>6. QED BY <2>2, <2>4, <2>5, OwnerQuietRefines
  <1>8. CASE HalfLoadTop(Owner)
    <2>1. pc'[Owner] = "half_cas"
      BY Zenon, <1>8, <1>own, LabelsType, GotoEffect DEF HalfLoadTop, HalfPC, Inv
    <2>2. /\ top' = top /\ buffer' = buffer /\ taken' = taken /\ pushed' = pushed
          /\ left' = left /\ pc[Owner] = "half_load"
      BY <1>8 DEF HalfLoadTop
    <2>3. bottom' = bottom BY <1>8, <1>own DEF HalfLoadTop, Inv, TypeOK
    <2>4. LiveEnd' = LiveEnd
      BY <1>loc, <1>end, <1>nxt, <1>pop, <2>1, <2>2, <2>3 DEF PopPC
    <2>5. left[Owner] = 0 BY Zenon, <2>2 DEF Inv, Control
    <2>6. QED BY <2>2, <2>4, <2>5, OwnerQuietRefines
  <1>9. CASE HalfEmpty(Owner)
    <2>1. pc'[Owner] = "idle"
      BY Zenon, <1>9, <1>own, ReturnEffect DEF HalfEmpty, Inv
    <2>2. /\ top' = top /\ buffer' = buffer /\ taken' = taken /\ pushed' = pushed
          /\ left' = left /\ pc[Owner] = "half_load"
      BY <1>9 DEF HalfEmpty
    <2>3. bottom' = bottom BY <1>9, <1>own DEF HalfEmpty, Inv, TypeOK
    <2>4. LiveEnd' = LiveEnd
      BY Zenon, <1>loc, <1>end, <1>nxt, <1>pop, <2>1, <2>2, <2>3 DEF PopPC
    <2>5. left[Owner] = 0 BY <2>2 DEF Inv, Control
    <2>6. QED BY <2>2, <2>4, <2>5, OwnerQuietRefines
  <1>10. CASE HalfLose(Owner)
    <2>1. pc'[Owner] = "idle"
      BY <1>10, <1>own, ReturnEffect DEF HalfLose, Inv
    <2>2. /\ top' = top /\ buffer' = buffer /\ taken' = taken /\ pushed' = pushed
          /\ left' = left /\ pc[Owner] = "half_cas"
      BY <1>10 DEF HalfLose
    <2>3. bottom' = bottom BY <1>10, <1>own DEF HalfLose, Inv, TypeOK
    <2>4. LiveEnd' = LiveEnd
      BY <1>loc, <1>end, <1>nxt, <1>pop, <2>1, <2>2, <2>3 DEF PopPC
    <2>5. left[Owner] = 0 BY Zenon, <2>2 DEF Inv, Control
    <2>6. QED BY <2>2, <2>4, <2>5, OwnerQuietRefines
  <1>11. CASE HalfReturn(Owner)
    <2>1. pc'[Owner] = "idle"
      BY <1>11, <1>own, ReturnEffect DEF HalfReturn, Inv
    <2>2. /\ top' = top /\ buffer' = buffer /\ taken' = taken /\ pushed' = pushed
          /\ left' = left /\ pc[Owner] = "half_copy"
      BY <1>11 DEF HalfReturn
    <2>3. bottom' = bottom BY <1>11, <1>own DEF HalfReturn, Inv, TypeOK
    <2>4. LiveEnd' = LiveEnd
      BY <1>loc, <1>end, <1>nxt, <1>pop, <2>1, <2>2, <2>3 DEF PopPC
    <2>5. left[Owner] = 0 BY <1>11 DEF HalfReturn
    <2>6. QED BY <2>2, <2>4, <2>5, OwnerQuietRefines
  <1>12. CASE Drain BY <1>12, <1>loc DEF Drain
  <1>13. CASE PushWrite
    <2>1. pc'[Owner] = "push_publish"
      BY <1>13, <1>own, LabelsType, GotoEffect DEF PushWrite, PushPC, Inv
    <2>2. /\ top' = top /\ taken' = taken /\ pushed' = pushed /\ bottom' = bottom
          /\ left' = left /\ pc[Owner] = "push_write"
          /\ buffer' = [buffer EXCEPT ![Slot(b[Owner])] = pushed + 1]
      BY <1>13 DEF PushWrite
    <2>3. b[Owner] = bottom /\ left[Owner] = 0 /\ bottom \in Nat
          /\ bottom - top < kMaxSize
      BY <2>2, PushState DEF PushPC
    <2>4. LiveEnd = bottom /\ LiveEnd' = bottom
      BY <1>end, <1>nxt, <2>1, <2>2 DEF PopPC
    <2>5. \A i \in top..(LiveEnd - 1) : i \in Nat /\ Slot(i) # Slot(bottom)
      <3>1. TAKE i \in top..(LiveEnd - 1)
      <3>2. i \in Nat /\ i < bottom /\ bottom < i + kMaxSize
        BY <2>3, <2>4, <1>loc, ConstantsOK
      <3>3. QED BY <2>3, <3>2, SlotDistinct
    <2>6. Slot(bottom) \in 0..(kMaxSize - 1) /\ buffer \in [0..(kMaxSize - 1) -> 0..MaxTasks]
      BY Zenon, <2>3, SlotType DEF Inv, TypeOK
    <2>7. \A i \in top..(LiveEnd - 1) : buffer'[Slot(i)] = buffer[Slot(i)]
      BY <2>2, <2>3, <2>5, <2>6, SlotType
    <2>8. left'[Owner] = 0 /\ LiveEnd' = LiveEnd BY <2>2, <2>3, <2>4
    <2>9. UNCHANGED Deque!vars BY <2>2, <2>3, <2>7, <2>8, WriteRefines
    <2>10. QED BY <2>9
  <1>14. CASE PushPublish
    <2>1. pc'[Owner] = "idle"
      BY <1>14, <1>own, ReturnEffect DEF PushPublish, Inv
    <2>2. /\ top' = top /\ taken' = taken /\ pushed' = pushed + 1
          /\ bottom' = b[Owner] + 1 /\ buffer' = buffer
          /\ left' = left /\ pc[Owner] = "push_publish"
      BY <1>14 DEF PushPublish
    <2>3. b[Owner] = bottom /\ left[Owner] = 0 /\ bottom \in Nat
          /\ pushed < MaxTasks /\ bottom - top < kMaxSize
      BY <2>2, PushState DEF PushPC
    <2>4. LiveEnd = bottom /\ LiveEnd' = bottom + 1
      BY <1>end, <1>nxt, <2>1, <2>2, <2>3 DEF PopPC
    <2>5. buffer[Slot(bottom)] = pushed + 1
      BY <2>2, <2>3 DEF Inv, Contents
    <2>6. left'[Owner] = 0 BY <2>2, <2>3
    <2>7. Deque!Next BY <2>2, <2>3, <2>4, <2>5, <2>6, PublishRefines
    <2>8. QED BY <2>7
  <1>15. CASE PopTake
    <2> DEFINE e == b[Owner]
    <2>1. pc'[Owner] = "idle"
      BY <1>15, <1>own, ReturnEffect DEF PopTake, Inv
    <2>2. /\ top' = top /\ pushed' = pushed /\ bottom' = bottom /\ buffer' = buffer
          /\ HandOut(buffer[Slot(e)]) /\ left' = left /\ pc[Owner] = "pop_load"
          /\ top < e
      BY <1>15 DEF PopTake
    <2>3. left[Owner] = 0 /\ bottom = e
      BY <2>2, <1>pop DEF Inv, Control, PopPC
    <2>4. LiveEnd = e + 1 /\ LiveEnd' = e
      BY Zenon, <1>end, <1>nxt, <2>1, <2>2, <2>3 DEF PopPC
    <2>5. e \in Nat /\ top <= e
      <3>1. e \in Int /\ top \in Nat /\ top < e BY Zenon, <1>loc, <2>2
      <3> HIDE DEF e
      <3>2. QED BY <3>1
    <2> HIDE DEF e
    <2>6. left'[Owner] = 0 /\ Between(top', LiveEnd', buffer) = Between(top, e, buffer)
      BY Zenon, <2>2, <2>3, <2>4
    <2>7. Deque!Next BY <2>2, <2>3, <2>4, <2>5, <2>6, TakeBottomRefines
    <2>8. QED BY <2>7
  <1>16. CASE PopWin
    <2> DEFINE e == b[Owner]
    <2>1. pc'[Owner] = "pop_restore"
      BY Zenon, <1>16, <1>own, LabelsType, GotoEffect DEF PopWin, PopPC, Inv
    <2>2. /\ top' = top + 1 /\ pushed' = pushed /\ b' = b /\ buffer' = buffer
          /\ HandOut(buffer[Slot(e)]) /\ left' = left /\ pc[Owner] = "pop_cas"
          /\ top = t[Owner]
      BY <1>16 DEF PopWin
    <2>3. left[Owner] = 0 /\ e = top
      BY Zenon, <2>2 DEF Inv, Control, PopPC, Bounds, OwnerBounds
    <2>4. LiveEnd = e + 1 /\ LiveEnd' = e + 1
      BY Zenon, <1>end, <1>nxt, <2>1, <2>2, <2>3 DEF PopPC
    <2>5. e \in Nat /\ top <= e BY <1>loc, <2>3
    <2>6. left'[Owner] = 0 BY Zenon, <2>2, <2>3
    <2>7. Between(top', LiveEnd', buffer) = Between(top, e, buffer)
      <3>1. LiveEnd' - top' = 0 /\ e - top = 0 BY <1>loc, <2>2, <2>3, <2>4
      <3>2. QED BY <3>1 DEF Between
    <2> HIDE DEF e
    <2>8. Deque!Next BY <2>2, <2>3, <2>4, <2>5, <2>6, <2>7, TakeBottomRefines
    <2>9. QED BY <2>8
  <1>17. CASE HalfWin(Owner)
    <2> DEFINE n == num_to_take(b[Owner] - t[Owner])
    <2>1. pc'[Owner] = "half_copy"
      BY <1>17, <1>own, LabelsType, GotoEffect DEF HalfWin, HalfPC, Inv
    <2>2. /\ top' = top + n /\ pushed' = pushed /\ bottom' = bottom /\ buffer' = buffer
          /\ taken' = taken /\ t' = t /\ left' = [left EXCEPT ![Owner] = n]
          /\ pc[Owner] = "half_cas" /\ top = t[Owner]
      BY Zenon, <1>17 DEF HalfWin
    <2>3. left[Owner] = 0 /\ bottom = b[Owner] /\ top < bottom
      BY Zenon, <2>2, <1>own DEF Inv, Control, PushPC, Bounds, OwnerBounds, HalfBounds
    <2>4. n \in 1..(bottom - top)
      <3>1. bottom \in Int /\ top \in Nat /\ top < bottom BY Zenon, <1>loc, <2>3
      <3>2. bottom - top \in Nat \ {0} BY <3>1
      <3>3. n = num_to_take(bottom - top) BY Zenon, <2>2, <2>3
      <3>4. QED BY Zenon, <3>2, <3>3, NumToTake
    <2>5. LiveEnd = bottom /\ LiveEnd' = LiveEnd
      BY Zenon, <1>end, <1>nxt, <2>1, <2>2 DEF PopPC
    <2>6. n = Deque!Half(LiveEnd - top)
      BY Zenon, <2>2, <2>3, <2>5 DEF num_to_take, Deque!Half
    <2> HIDE DEF n
    <2>7. left'[Owner] = n BY <1>own, <2>2 DEF Inv, TypeOK
    <2>8. n \in Nat /\ 0 < n /\ n <= LiveEnd - top BY <1>loc, <2>4, <2>5
    <2>9. Claimed(Owner)' = top..(top' - 1)
      <3>1. t'[Owner] = top BY Zenon, <2>2
      <3>2. top + n - 1 = top' - 1 BY <1>loc, <2>2, <2>8
      <3>3. Claimed(Owner)' = t'[Owner]..(t'[Owner] + left'[Owner] - 1)
        BY DEF Claimed
      <3>4. QED BY Zenon, <2>7, <3>1, <3>2, <3>3
    <2>10. Deque!Next
      BY Zenon, <2>2, <2>3, <2>5, <2>6, <2>8, <2>9, TakeHalfRefines
    <2>11. QED BY <2>10
  <1>18. CASE HalfCopy(Owner)
    <2> DEFINE i == t[Owner]
    <2>1. /\ top' = top /\ pushed' = pushed /\ bottom' = bottom /\ buffer' = buffer
          /\ HandOut(buffer[Slot(i)]) /\ b' = b /\ pc' = pc /\ left[Owner] > 0
      BY <1>18 DEF HalfCopy
    <2>2. t'[Owner] = i + 1 /\ left'[Owner] = left[Owner] - 1
      BY Zenon, <1>18, <1>own DEF HalfCopy, Inv, TypeOK
    <2>3. left[Owner] \in Nat BY <1>own DEF Inv, TypeOK
    <2>4. LiveEnd' = LiveEnd BY <1>end, <1>nxt, <2>1
    <2>5. i \in Claimed(Owner) /\ Claimed(Owner)' = Claimed(Owner) \ {i}
      <3> DEFINE l == left[Owner]
      <3>1. Claimed(Owner) = i..(i + l - 1) BY DEF Claimed
      <3>2. Claimed(Owner)' = (i + 1)..(i + 1 + (l - 1) - 1)
        BY Zenon, <2>2 DEF Claimed
      <3>3. i \in Nat /\ l \in Nat /\ l > 0 BY <1>loc, <2>1, <2>3
      <3> HIDE DEF i, l
      <3>4. i \in i..(i + l - 1)
            /\ (i + 1)..(i + 1 + (l - 1) - 1) = (i..(i + l - 1)) \ {i}
        BY <3>3
      <3>5. QED BY Zenon, <3>1, <3>2, <3>4
    <2> HIDE DEF i
    <2>6. UNCHANGED Deque!vars BY <2>1, <2>4, <2>5, CopyRefines
    <2>7. QED BY <2>6
  <1>19. QED
    BY <1>1, <1>2, <1>3, <1>4, <1>5, <1>6, <1>7, <1>8, <1>9, <1>10, <1>11,
       <1>12, <1>13, <1>14, <1>15, <1>16, <1>17, <1>18
       DEF Push, TryPop, TakeHalf

-----------------------------------------------------------------------------
(* The steps of a thief.                                                   *)

\* Winning Steal's CAS takes the top task; nothing else a thief does shows.
LEMMA ThiefRefines ==
  ASSUME Inv, Inv', NEW th \in Thieves, Steal(th)
  PROVE  Deque!Next \/ UNCHANGED Deque!vars
  <1>own. Owner \in Threads /\ th \in Threads /\ Owner # th
    BY OwnerIsThread, ThiefIsThread
  <1>1. /\ bottom' = bottom /\ pending' = pending /\ left' = left
        /\ buffer' = buffer /\ pushed' = pushed
    BY Zenon DEF Steal, StealLoadTop, StealLoadBottom, StealEmpty, StealRead,
           StealWin, StealLose
  <1>2. pc'[Owner] = pc[Owner] /\ b'[Owner] = b[Owner] /\ t'[Owner] = t[Owner]
    <2>1. CASE Return(th) BY <1>own, <2>1, ReturnEffect DEF Inv
    <2>2. CASE ~Return(th)
      BY Zenon, <1>own, <2>2 DEF Steal, StealLoadTop, StealLoadBottom, StealEmpty,
           StealRead, StealWin, StealLose, Goto, Inv, TypeOK
    <2>3. QED BY <2>1, <2>2
  <1>3. LiveEnd' = LiveEnd /\ Claimed(Owner)' = Claimed(Owner)
    BY Zenon, <1>1, <1>2, ThiefStep
  <1>4. CASE StealWin(th)
    <2>1. top' = top + 1 /\ HandOut(item[th]) /\ pc[th] = "steal_cas" /\ top = t[th]
      BY Zenon, <1>4 DEF StealWin
    <2>2. top < LiveEnd /\ item[th] = buffer[Slot(top)]
      BY Zenon, <2>1 DEF Inv, ThievesSee
    <2>3. HandOut(buffer[Slot(top)]) BY Zenon, <2>1, <2>2
    <2>4. Deque!Next BY <1>1, <1>3, <2>1, <2>2, <2>3, TakeTopRefines
    <2>5. QED BY <2>4
  <1>5. CASE ~StealWin(th)
    <2>1. top' = top /\ taken' = taken
      BY <1>5 DEF Steal, StealLoadTop, StealLoadBottom, StealEmpty, StealRead,
                  StealLose
    <2>2. UNCHANGED Deque!vars BY <1>1, <1>3, <2>1, QuietRefines
    <2>3. QED BY <2>2
  <1>6. QED BY <1>4, <1>5

-----------------------------------------------------------------------------
(* The theorem.                                                            *)

\* The empty ring is the empty sequence, with nothing handed out.
LEMMA InitRefines == Init => Deque!Init
  <1> SUFFICES ASSUME Init PROVE Deque!Init OBVIOUS
  <1>1. Mapped BY InvInit, MappedIs
  <1>2. /\ top = 0 /\ LiveEnd = 0 /\ Claimed(Owner) = {}
    BY <1>1, OwnerIsThread DEF Init, Mapped, PopPC
  <1>3. Dq = <<>> BY <1>2 DEF Dq
  <1>4. Out = [k \in 1..MaxTasks |-> 0]
    <2>1. \A k \in Tasks : taken[k] = 0 BY ConstantsOK DEF Init, Tasks
    <2>2. Out = Given(taken, {}, buffer) BY <1>1, <1>2 DEF Mapped
    <2>3. QED BY <2>1, <2>2 DEF Given, Tasks
  <1>5. pushed = 0 BY DEF Init
  <1>6. QED BY Zenon, <1>3, <1>4, <1>5 DEF Deque!Init, Dq, Out

\* Every step of the deque is a step of the sequence or changes nothing of it.
LEMMA StepRefines ==
  ASSUME Contract
  PROVE  Inv /\ Inv' /\ [Next]_vars => [Deque!Next]_(Deque!vars)
  <1> SUFFICES ASSUME Inv, Inv', [Next]_vars
               PROVE  Deque!Next \/ UNCHANGED Deque!vars
    OBVIOUS
  <1>1. CASE Push \/ TryPop \/ Drain \/ TakeHalf(Owner)
    BY <1>1, OwnerRefines
  <1>2. CASE \E th \in Thieves : Steal(th)
    BY <1>2, ThiefRefines
  <1>3. CASE UNCHANGED vars
    <2>1. LiveEnd' = LiveEnd /\ Claimed(Owner)' = Claimed(Owner)
      BY <1>3 DEF vars, LiveEnd, BottomSeenBy, Claimed
    <2>2. /\ top' = top /\ buffer' = buffer /\ taken' = taken
          /\ pushed' = pushed
      BY <1>3 DEF vars
    <2>3. UNCHANGED Deque!vars BY <2>1, <2>2, QuietRefines
    <2>4. QED BY <2>3
  <1>4. QED BY <1>1, <1>2, <1>3 DEF Next, Contract

\* Used as documented, the deque is linearizable: Push, TryPop, Steal and
\* TakeHalf each take effect at one instant on one sequence (LIFO for the
\* owner, FIFO for thieves, half for TakeHalf), whatever the capacity, the
\* number of thieves and the interleaving of their loads, stores and CASes.
THEOREM DequeImplementsSequence ==
  ASSUME Contract PROVE Spec => ImplementsWorkDeque
  <1>1. Inv /\ [Next]_vars => Inv' BY InvStep
  <1>2. Inv /\ Inv' /\ [Next]_vars => [Deque!Next]_(Deque!vars) BY StepRefines
  <1>3. QED
    BY <1>1, <1>2, InvInit, InitRefines, PTL
       DEF Spec, ImplementsWorkDeque, Deque!Spec
=============================================================================
