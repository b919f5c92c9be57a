------------------------ MODULE HttpConnectionProofs ------------------------
(***************************************************************************)
(* HttpConnection: its safety, for a client that sends any requests in any *)
(* number of pieces, by four invariants, each of which rests on the ones   *)
(* before it: Inv, about control alone; Heard, about the stop; Data, the   *)
(* types and where the data of a read are; Served, about the requests that *)
(* are on their way.  What parse and pop_front do with them is shown in    *)
(* HttpParserProofs.                                                       *)
(***************************************************************************)
EXTENDS HttpConnection, HttpParserProofs, FiniteSetTheorems

-----------------------------------------------------------------------------
(* Control: the awaiters, their callbacks and the timer.                   *)

\* The stop callback exists while its awaiter is suspended in a read or a write;
\* the worker is canceling exactly while the callback runs, and then names the
\* awaiter constructed last.
CallbackOfLive ==
  /\ worker = "cancel" <=> cb = "running"
  /\ cb # "none" => /\ co \in {"read", "write"}
                    /\ io \notin {"bind", "run", "cancel"}
  /\ worker = "cancel" => canceling = awaits
  /\ io = "bind" => /\ co \in {"read", "write", "close"}
                    /\ bound => co # "close"

\* The operation of an awaiter is out of the ring when its coroutine goes on,
\* and the timer is disarmed when the coroutine has ended.  What is left in the
\* queue is left by a race; an operation there is that of a suspended awaiter,
\* which has none in the ring.
Settled ==
  /\ io \in {"resume", "run"} \/ co = "none" => op = "none"
  /\ late # {} => spoiled
  /\ "operation" \in late => /\ op = "none"
                             /\ co \in {"read", "write", "close"}
                             /\ io \notin {"resume", "run"}
  /\ co = "done" => /\ io \in {"idle", "other"}
                    /\ op = "none"
                    /\ timer # "armed"

Inv == CallbackOfLive /\ Settled

\* Both hold of a connection that has not been accepted.
LEMMA InitInv == Init => Inv
  BY DEF Init, Inv, CallbackOfLive, Settled

\* A new awaiter is constructed while no callback of its predecessor is left.
LEMMA AwaitInv ==
  ASSUME Inv, NEW kind \in {"read", "write", "close"}, Await(kind),
         cb' = "none", worker' = worker, worker # "cancel",
         io \in {"resume", "run"} \/ co = "none"
  PROVE  Inv'
  <1>1. op = "none" /\ "operation" \notin late
    BY DEF Inv, Settled
  <1>2. CallbackOfLive'
    BY Zenon DEF Await, Inv, CallbackOfLive
  <1>3. io' = "bind" /\ co' = kind
    BY Zenon DEF Await
  <1>4. Submitted("operation", "pending", worker) BY Zenon DEF Await
  <1>5. late' # {} => spoiled'
    BY <1>4 DEF Submitted, Spoiled, Inv, Settled
  <1>6. "operation" \in late' => op' = "none"
    BY <1>1, <1>4 DEF Submitted, Spoiled
  <1>7. Settled'
    BY <1>3, <1>5, <1>6 DEF Settled
  <1>8. QED BY <1>2, <1>7 DEF Inv

\* Every step of the IO thread preserves the invariant.
LEMMA IoThreadInv ==
  ASSUME Inv, IoThread
  PROVE  Inv'
  <1>1. CASE Accept
    <2>1. cb = "none" /\ worker # "cancel"
      BY <1>1 DEF Accept, Inv, CallbackOfLive
    <2>2. QED BY <1>1, <2>1, AwaitInv DEF Accept
  <1>12. CASE Rearm
    BY <1>12 DEF Rearm, Spoiled, coroutine, Inv, CallbackOfLive, Settled
  <1>2. CASE Reap
    BY <1>2 DEF Reap, Results, ring, Inv, CallbackOfLive, Settled
  <1>3. CASE Bind
    BY <1>3 DEF Bind, coroutine, ring, Inv, CallbackOfLive, Settled
  <1>4. CASE Arm
    BY <1>4 DEF Arm, ring, Inv, CallbackOfLive, Settled
  <1>5. CASE CancelHere
    BY <1>5 DEF CancelHere, Submitted, Spoiled, Canceled, coroutine, Inv,
                CallbackOfLive, Settled
  <1>6. CASE ReadSome
    BY <1>6 DEF ReadSome, Resumed, ring, Inv, CallbackOfLive, Settled
  <1>7. CASE WrittenKeepAlive
    BY <1>7 DEF WrittenKeepAlive, Resumed, ring, Inv, CallbackOfLive, Settled
  <1>8. CASE Closed
    BY <1>8 DEF Closed, Resumed, ring, Inv, CallbackOfLive, Settled
  <1>9. CASE ReadNothing \/ WrittenClose
    <2>1. /\ cb' = "none" /\ worker' = worker /\ Await("close")
          /\ worker # "cancel" /\ io = "resume"
      BY <1>9 DEF ReadNothing, WrittenClose, Resumed, Inv, CallbackOfLive
    <2>2. QED BY <2>1, AwaitInv
  <1>10. CASE ParseNeedMore \/ ParseSuccess \/ ParseError
    <2>1. io = "run" /\ cb' = cb /\ worker' = worker
      BY <1>10 DEF ParseNeedMore, ParseSuccess, ParseError
    <2>2. Await("read") \/ Await("write") \/ Await("close")
      BY <1>10 DEF ParseNeedMore, ParseSuccess, ParseError
    <2>3. cb' = "none" /\ worker # "cancel"
      BY <2>1 DEF Inv, CallbackOfLive
    <2>4. QED BY <2>1, <2>2, <2>3, AwaitInv
  <1>11. CASE IoReturns
    BY <1>11 DEF IoReturns, coroutine, ring, Inv, CallbackOfLive, Settled
  <1>13. QED
    BY <1>1, <1>2, <1>3, <1>4, <1>5, <1>6, <1>7, <1>8, <1>9, <1>10, <1>11,
       <1>12 DEF IoThread

\* Every step of the worker does: it starts a callback only of a suspended
\* awaiter, which waits for the callback's end.
LEMMA WorkerInv ==
  ASSUME Inv, Worker
  PROVE  Inv'
  <1>1. CASE RequestStop
    BY <1>1 DEF RequestStop, coroutine, ring, Inv, CallbackOfLive, Settled
  <1>2. CASE CancelThere
    BY <1>2 DEF CancelThere, Submitted, Spoiled, Canceled, coroutine, Inv,
                CallbackOfLive, Settled
  <1>3. CASE WorkerReturns
    BY <1>3 DEF WorkerReturns, coroutine, ring, Inv, CallbackOfLive, Settled
  <1>4. QED BY <1>1, <1>2, <1>3 DEF Worker

\* So do the other threads' work, the timer, the kernel and the client.
LEMMA OthersInv ==
  ASSUME Inv,
         \/ IoElsewhere \/ WorkerElsewhere \/ TimerDue \/ AcceptFails
         \/ \E entry \in {"operation", "cancel", "accept"} : SubmitLate(entry)
         \/ CompleteSomeRead \/ CompleteClose \/ CompleteWrite
         \/ Client
  PROVE  Inv'
  <1>1. CASE IoElsewhere
    BY <1>1 DEF IoElsewhere, coroutine, ring, Inv, CallbackOfLive, Settled
  <1>2. CASE WorkerElsewhere
    BY <1>2 DEF WorkerElsewhere, coroutine, ring, Inv, CallbackOfLive, Settled
  <1>3. CASE TimerDue
    BY <1>3 DEF TimerDue, coroutine, ring, Inv, CallbackOfLive, Settled
  <1>4. CASE CompleteSomeRead \/ CompleteClose \/ CompleteWrite
    <2>1. /\ op = "pending"
          /\ UNCHANGED <<io, worker, coroutine, cb, timer, ring, canceling>>
      BY <1>4 DEF CompleteSomeRead, CompleteRead, CompleteReadEnd,
                  CompleteClose, CompleteWrite
    <2>2. QED BY <2>1 DEF coroutine, ring, Inv, CallbackOfLive, Settled
  <1>5. CASE Client
    <2>1. UNCHANGED <<io, worker, coroutine, op, cb, timer, ring, canceling>>
      BY <1>5 DEF Client, ClientSendsHead, ClientSendsTail, ClientCloses, Send
    <2>2. QED BY <2>1 DEF coroutine, ring, Inv, CallbackOfLive, Settled
  <1>6. CASE AcceptFails
    BY <1>6 DEF AcceptFails, coroutine, Inv, CallbackOfLive, Settled
  <1>7. ASSUME NEW entry \in {"operation", "cancel", "accept"}, SubmitLate(entry)
        PROVE  Inv'
    BY <1>7 DEF SubmitLate, Canceled, coroutine, Inv, CallbackOfLive, Settled
  <1>8. QED BY <1>1, <1>2, <1>3, <1>4, <1>5, <1>6, <1>7

\* The invariant is inductive.
THEOREM ControlInvariant == Spec => []Inv
  <1>1. Inv /\ [Next]_vars => Inv'
    <2>1. ASSUME Inv, Next PROVE Inv'
      BY <2>1, IoThreadInv, WorkerInv, OthersInv DEF Next
    <2>2. ASSUME Inv, UNCHANGED vars PROVE Inv'
      BY <2>2 DEF vars, coroutine, ring, Inv, CallbackOfLive, Settled
    <2>3. QED BY <2>1, <2>2
  <1>2. QED BY <1>1, InitInv, PTL DEF Spec

\* A cancellation submitted by the worker names the live awaiter: ~stop_callback
\* waits for a running callback before the next awaiter takes its address.
THEOREM CancelOfLiveAwaiter == Spec => []CancelNamesLiveAwaiter
  <1>1. Inv => CancelNamesLiveAwaiter
    BY DEF Inv, CallbackOfLive, CancelNamesLiveAwaiter
  <1>2. QED BY <1>1, ControlInvariant, PTL

\* When the coroutine has ended, the ring, the callbacks and the timer hold
\* nothing of it, however late its timeout.
THEOREM NothingLeft == Spec => []NothingAfterClose
  <1>1. Inv => NothingAfterClose
    BY DEF Inv, CallbackOfLive, Settled, NothingAfterClose
  <1>2. QED BY <1>1, ControlInvariant, PTL

-----------------------------------------------------------------------------
(* The stop.                                                               *)

\* While the operation of an awaiter with a token pends, its callback waits for
\* the stop or, the stop being requested, a cancellation is about to be
\* submitted.  Inv tells which callback the worker may be running.
Heard ==
  bound /\ op = "pending" /\ ~spoiled /\ io # "bind" =>
    IF stop THEN io = "cancel" \/ worker = "cancel" ELSE cb = "registered"

\* A cancellation that no race spoils leaves nothing pending.
LEMMA CanceledIs ==
  ASSUME NEW other, Submitted("cancel", Canceled, other)
  PROVE  spoiled' \/ op' # "pending"
  BY DEF Submitted, Spoiled, Canceled

\* A step that leaves the callback, the stop and the operation alone, or ends
\* the operation, preserves Heard.
LEMMA SameHeard ==
  ASSUME Heard, op' = "pending" => op = "pending",
         UNCHANGED <<bound, stop, cb>>, spoiled => spoiled',
         io = "bind" => io' = "bind",
         io = "cancel" => io' = "cancel",
         worker = "cancel" => worker' = "cancel"
  PROVE  Heard'
  BY DEF Heard

\* Every step of the IO thread preserves Heard: Bind, because the constructor
\* of cb_ looks at the stop again.
LEMMA IoThreadHeard ==
  ASSUME Inv, Heard, IoThread
  PROVE  Heard'
  <1>1. CASE \/ Accept \/ ReadNothing \/ WrittenClose
             \/ ParseNeedMore \/ ParseSuccess \/ ParseError
    <2>1. io' = "bind"
      BY <1>1 DEF Accept, ReadNothing, WrittenClose, ParseNeedMore,
                  ParseSuccess, ParseError, Await
    <2> QED BY <2>1 DEF Heard
  <1>2. CASE Reap \/ ReadSome \/ WrittenKeepAlive \/ Closed
    <2>1. op' = "none"
      BY <1>2 DEF Reap, ReadSome, WrittenKeepAlive, Closed, Resumed, ring, Inv,
                  Settled
    <2> QED BY <2>1 DEF Heard
  <1>3. CASE Bind
    BY <1>3 DEF Bind, coroutine, ring, Heard
  <1>4. CASE CancelHere
    BY <1>4, CanceledIs DEF CancelHere, Heard
  <1>5. CASE Arm \/ IoReturns
    BY <1>5, SameHeard DEF Arm, IoReturns, coroutine, ring
  <1>6. CASE Rearm
    BY <1>6, SameHeard DEF Rearm, Spoiled, coroutine
  <1> QED BY <1>1, <1>2, <1>3, <1>4, <1>5, <1>6 DEF IoThread

\* So does every other step: RequestStop, because a callback that waits for the
\* stop is run.
LEMMA OthersHeard ==
  ASSUME Inv, Heard,
         \/ Worker \/ IoElsewhere \/ WorkerElsewhere \/ TimerDue \/ AcceptFails
         \/ \E entry \in {"operation", "cancel", "accept"} : SubmitLate(entry)
         \/ CompleteSomeRead \/ CompleteClose \/ CompleteWrite
         \/ Client
  PROVE  Heard'
  <1>1. CASE RequestStop
    BY <1>1 DEF RequestStop, coroutine, ring, Heard
  <1>2. CASE CancelThere
    BY <1>2, CanceledIs DEF CancelThere, Heard
  <1>3. CASE WorkerReturns \/ IoElsewhere \/ WorkerElsewhere \/ TimerDue
    BY <1>3, SameHeard DEF WorkerReturns, IoElsewhere, WorkerElsewhere,
                           TimerDue, coroutine, ring
  <1>4. CASE CompleteSomeRead \/ CompleteClose \/ CompleteWrite
    <2>1. op' # "pending"
      BY <1>4 DEF CompleteSomeRead, CompleteRead, CompleteReadEnd,
                  CompleteClose, CompleteWrite
    <2> QED BY <2>1 DEF Heard
  <1>5. CASE Client
    BY <1>5, SameHeard DEF Client, ClientSendsHead, ClientSendsTail,
                           ClientCloses, Send, coroutine, ring
  <1>6. CASE AcceptFails
    BY <1>6, SameHeard DEF AcceptFails, coroutine
  <1>7. ASSUME NEW entry \in {"operation", "cancel", "accept"}, SubmitLate(entry)
        PROVE  Heard'
    <2>1. spoiled'
      BY <1>7 DEF SubmitLate, Inv, Settled
    <2> QED BY <2>1 DEF Heard
  <1> QED BY <1>1, <1>2, <1>3, <1>4, <1>5, <1>6, <1>7 DEF Worker

\* No stop is missed: whichever of request_stop and the constructor of cb_
\* comes first, a read or a write that pends is about to be canceled.
THEOREM StopIsHeard == Spec => []StopReachesPending
  <1>1. Init => Heard
    BY DEF Init, Heard
  <1>2. Inv /\ Heard /\ [Next]_vars => Heard'
    <2>1. ASSUME Inv, Heard, Next PROVE Heard'
      BY <2>1, IoThreadHeard, OthersHeard DEF Next
    <2>2. ASSUME Heard, UNCHANGED vars PROVE Heard'
      BY <2>2, SameHeard DEF vars, coroutine, ring
    <2> QED BY <2>1, <2>2
  <1>3. Heard => StopReachesPending
    BY DEF Heard, StopReachesPending
  <1> QED BY <1>1, <1>2, <1>3, ControlInvariant, PTL DEF Spec

-----------------------------------------------------------------------------
(* The types, and where the data of a read are.                            *)

\* A set of numbers that is not empty has its minimum as a member.
LEMMA MinIndex ==
  ASSUME NEW T, T \subseteq Nat, T # {}
  PROVE  Min(T) \in T
  <1>1. \E x \in T : \A y \in T : x =< y
    BY Zenon, LeastNumber
  <1> QED BY <1>1, Zenon DEF Min

\* If parse succeeds, the request that it answers is one that is in the buffer.
LEMMA FirstRequestType ==
  ASSUME NEW buf \in Seq(Seq(Pieces)), parse(buf).status = "success"
  PROVE  FirstRequest(buf) \in Requests
  <1> DEFINE flat == Contents(buf)
             I == {i \in DOMAIN flat : flat[i].part = "tail"}
  <1>1. flat \in Seq(Pieces)
    BY ContentsType
  <1>2. I # {} /\ I \subseteq Nat
    <2>1. DOMAIN flat = 1..Len(flat)
      BY <1>1
    <2> QED BY <2>1, SuccessHasTail
  <1>3. FirstRequest(buf) = flat[Min(I)].request
    BY DEF FirstRequest
  <1>4. Min(I) \in I
    <2> HIDE DEF I
    <2> QED BY Zenon, <1>2, MinIndex
  <1>5. flat[Min(I)] \in Pieces
    <2> HIDE DEF flat
    <2> QED BY <1>1, <1>4
  <1>6. flat[Min(I)].request \in Requests
    <2> HIDE DEF flat, I
    <2> QED BY <1>5 DEF Pieces
  <1> QED BY <1>3, <1>6

\* A completed read has data for the coroutine, and nothing else has: the data
\* stay until they are appended to read_buf.
Reads ==
  /\ res # "none" => io = "resume"
  /\ got # <<>> <=> "data" \in {op, res}
  /\ got # <<>> => co = "read"

\* The types and where the data are; the one needs the other, since a read
\* without data would append an empty block.
Data == TypeOK /\ Reads

\* Both hold of a connection that has not been accepted.
LEMMA InitData == Init => Data
  <1>1. ASSUME Init PROVE TypeOK
    <2>1. NoRequest \in Requests
      BY DEF NoRequest, Requests
    <2>2. 0 \in 0..MaxPieces
      BY ConstantsOK
    <2>3. <<>> \in Seq(Pieces) /\ <<>> \in Seq(Seq(Pieces) \ {<<>>})
      OBVIOUS
    <2> QED BY Zenon, <1>1, <2>1, <2>2, <2>3 DEF Init, TypeOK
  <1>2. ASSUME Init PROVE Reads
    BY <1>2 DEF Init, Reads
  <1> QED BY <1>1, <1>2 DEF Data

\* A race leaves the queue and the history in their types.
LEMMA SpoiledType ==
  ASSUME TypeOK, NEW entry \in {"operation", "cancel", "accept"}, NEW other,
         Spoiled(entry, other)
  PROVE  spoiled' \in BOOLEAN /\ late' \subseteq {"operation", "cancel", "accept"}
  BY DEF TypeOK, Spoiled

\* Submitting leaves the operation and the queue in their types.
LEMMA SubmittedType ==
  ASSUME TypeOK, NEW result \in {"none", "pending"} \cup Results, NEW other,
         NEW entry \in {"operation", "cancel", "accept"},
         Submitted(entry, result, other)
  PROVE  /\ op' \in {"none", "pending"} \cup Results
         /\ spoiled' \in BOOLEAN
         /\ late' \subseteq {"operation", "cancel", "accept"}
  <1>1. CASE op' = result /\ UNCHANGED <<late, spoiled>>
    BY Zenon, <1>1 DEF TypeOK
  <1>2. CASE op' = op /\ Spoiled(entry, other)
    BY Zenon, <1>2, SpoiledType DEF TypeOK
  <1>3. CASE op' = "failed" /\ spoiled' = TRUE /\ UNCHANGED late
    BY Zenon, <1>3 DEF TypeOK, Results
  <1> QED BY Zenon, <1>1, <1>2, <1>3 DEF Submitted

\* So does a new awaiter, with all that it sets.
LEMMA AwaitType ==
  ASSUME TypeOK, NEW kind \in {"read", "write", "close"}, Await(kind)
  PROVE  /\ co' \in {"none", "parse", "read", "write", "close", "done"}
         /\ bound' \in BOOLEAN /\ awaits' \in Nat
         /\ io' = "bind"
         /\ op' \in {"none", "pending"} \cup Results
         /\ spoiled' \in BOOLEAN
         /\ late' \subseteq {"operation", "cancel", "accept"}
  <1>1. /\ op' \in {"none", "pending"} \cup Results
        /\ spoiled' \in BOOLEAN
        /\ late' \subseteq {"operation", "cancel", "accept"}
    BY Zenon, SubmittedType DEF Await
  <1>2. bound' \in BOOLEAN
    BY DEF Await, TypeOK
  <1> QED BY <1>1, <1>2 DEF Await, TypeOK

\* Every step of the IO thread preserves the types: a read appends a block that
\* is not empty, pop_front leaves none.
LEMMA IoThreadType ==
  ASSUME Data, IoThread
  PROVE  TypeOK'
  <1>0. TypeOK BY DEF Data
  <1>1. CASE Accept
    BY <1>0, <1>1, AwaitType DEF Accept, parsing, client, ring, TypeOK
  <1>2. CASE Reap
    BY <1>0, <1>2 DEF Reap, parsing, client, ring, TypeOK, Results
  <1>3. CASE Bind
    BY <1>0, <1>3 DEF Bind, coroutine, parsing, client, ring, TypeOK
  <1>4. CASE Arm
    BY <1>0, <1>4 DEF Arm, parsing, client, ring, TypeOK
  <1>5. CASE CancelHere
    <2>1. /\ op' \in {"none", "pending"} \cup Results
          /\ spoiled' \in BOOLEAN
          /\ late' \subseteq {"operation", "cancel", "accept"}
      BY <1>0, <1>5, SubmittedType DEF CancelHere, Canceled, TypeOK, Results
    <2> QED BY <1>0, <1>5, <2>1
            DEF CancelHere, coroutine, parsing, client, ring, TypeOK
  <1>6. CASE ReadSome
    <2>1. got \in Blocks
      BY <1>0, <1>6 DEF ReadSome, Data, Reads, TypeOK, Blocks
    <2>2. read_buf' \in Seq(Blocks)
      BY <1>0, <1>6, <2>1 DEF ReadSome, TypeOK, Blocks
    <2>3. got' \in Seq(Pieces)
      BY <1>6 DEF ReadSome
    <2> QED BY <1>0, <1>6, <2>2, <2>3
            DEF ReadSome, Resumed, parsing, client, ring, TypeOK, Blocks
  <1>7. CASE WrittenKeepAlive
    BY <1>0, <1>7 DEF WrittenKeepAlive, Resumed, parsing, client, ring, TypeOK
  <1>8. CASE Closed
    BY <1>0, <1>8 DEF Closed, Resumed, parsing, client, ring, TypeOK
  <1>9. CASE ReadNothing
    BY <1>0, <1>9, AwaitType
       DEF ReadNothing, Resumed, parsing, client, ring, TypeOK
  <1>10. CASE WrittenClose
    BY <1>0, <1>10, AwaitType
       DEF WrittenClose, Resumed, parsing, client, ring, TypeOK
  <1>11. CASE ParseNeedMore
    BY <1>0, <1>11, AwaitType DEF ParseNeedMore, parsing, client, ring, TypeOK
  <1>12. CASE ParseSuccess
    <2>1. /\ parse(read_buf).status = "success"
          /\ read_buf' = pop_front(read_buf, parse(read_buf).consumed)
          /\ keep' = parse(read_buf).keep_alive
          /\ asked' = FirstRequest(read_buf)
      BY <1>12 DEF ParseSuccess
    <2>2. read_buf \in Seq(Blocks)
      BY <1>0 DEF TypeOK, Blocks
    <2>3. read_buf \in Seq(Seq(Pieces))
      BY <2>2 DEF Blocks
    <2>4. /\ parse(read_buf).consumed \in Nat
          /\ parse(read_buf).keep_alive \in BOOLEAN
      BY <2>3, ParseType, ResultIs DEF parse
    <2>5. read_buf' \in Seq(Seq(Pieces) \ {<<>>})
      BY Zenon, <2>1, <2>2, <2>4, PopFrontType DEF Blocks
    <2>6. asked' \in Requests
      BY <2>1, <2>3, FirstRequestType
    <2>7. keep' \in BOOLEAN
      BY <2>1, <2>4
    <2>8. answered' \in Nat
      BY <1>0, <1>12 DEF ParseSuccess, TypeOK
    <2> QED BY <1>0, <1>12, <2>5, <2>6, <2>7, <2>8, AwaitType
            DEF ParseSuccess, client, ring, TypeOK
  <1>13. CASE ParseError
    BY <1>0, <1>13, AwaitType DEF ParseError, client, ring, TypeOK
  <1>14. CASE IoReturns
    BY <1>0, <1>14 DEF IoReturns, coroutine, parsing, client, ring, TypeOK
  <1>15. CASE Rearm
    <2>1. /\ spoiled' \in BOOLEAN
          /\ late' \subseteq {"operation", "cancel", "accept"}
      BY <1>0, <1>15, SpoiledType DEF Rearm, TypeOK
    <2>2. accepting' \in BOOLEAN
      BY Zenon, <1>0, <1>15 DEF Rearm, TypeOK
    <2> QED BY <1>0, <1>15, <2>1, <2>2
            DEF Rearm, coroutine, parsing, client, TypeOK
  <1> QED
    BY <1>1, <1>2, <1>3, <1>4, <1>5, <1>6, <1>7, <1>8, <1>9, <1>10, <1>11,
       <1>12, <1>13, <1>14, <1>15 DEF IoThread, Data

\* Every step of the worker preserves the types.
LEMMA WorkerType ==
  ASSUME Data, Worker
  PROVE  TypeOK'
  <1>0. TypeOK BY DEF Data
  <1>1. CASE RequestStop
    BY <1>0, <1>1 DEF RequestStop, coroutine, parsing, client, ring, TypeOK
  <1>2. CASE CancelThere
    <2>1. /\ op' \in {"none", "pending"} \cup Results
          /\ spoiled' \in BOOLEAN
          /\ late' \subseteq {"operation", "cancel", "accept"}
      BY <1>0, <1>2, SubmittedType DEF CancelThere, Canceled, TypeOK, Results
    <2> QED BY <1>0, <1>2, <2>1
            DEF CancelThere, coroutine, parsing, client, ring, TypeOK
  <1>3. CASE WorkerReturns
    BY <1>0, <1>3 DEF WorkerReturns, coroutine, parsing, client, ring, TypeOK
  <1> QED BY <1>1, <1>2, <1>3 DEF Worker

\* The client's socket takes pieces, up to the bound of the model.
LEMMA SendType ==
  ASSUME TypeOK, NEW request \in Requests, NEW part \in {"head", "tail"},
         Send(Piece(part, request))
  PROVE  sock' \in Seq(Pieces) /\ sent' \in 0..MaxPieces
  <1>1. Piece(part, request) \in Pieces
    BY DEF Piece, Pieces
  <1>2. sock' \in Seq(Pieces)
    <2> DEFINE x == Piece(part, request)
    <2>1. sock' = Append(sock, x) /\ x \in Pieces
      BY <1>1 DEF Send
    <2> HIDE DEF x
    <2> QED BY <2>1 DEF TypeOK
  <1>3. sent' \in 0..MaxPieces
    BY ConstantsOK DEF Send, TypeOK
  <1> QED BY <1>2, <1>3

\* So do the other threads' work, the timer, the kernel and the client.
LEMMA OthersType ==
  ASSUME Data,
         \/ IoElsewhere \/ WorkerElsewhere \/ TimerDue \/ AcceptFails
         \/ \E entry \in {"operation", "cancel", "accept"} : SubmitLate(entry)
         \/ CompleteSomeRead \/ CompleteClose \/ CompleteWrite
         \/ Client
  PROVE  TypeOK'
  <1>0. TypeOK BY DEF Data
  <1>1. CASE IoElsewhere
    BY <1>0, <1>1 DEF IoElsewhere, coroutine, parsing, client, ring, TypeOK
  <1>2. CASE WorkerElsewhere
    BY <1>0, <1>2 DEF WorkerElsewhere, coroutine, parsing, client, ring, TypeOK
  <1>3. CASE TimerDue
    BY <1>0, <1>3 DEF TimerDue, coroutine, parsing, client, ring, TypeOK
  <1>4. ASSUME NEW n \in 1..MaxPieces, CompleteRead(n) PROVE TypeOK'
    <2>1. got' \in Seq(Pieces) /\ sock' \in Seq(Pieces)
      BY <1>0, <1>4 DEF CompleteRead, TypeOK
    <2> QED BY <1>0, <1>4, <2>1
            DEF CompleteRead, coroutine, parsing, ring, TypeOK, Results
  <1>5. CASE CompleteReadEnd
    BY <1>0, <1>5
       DEF CompleteReadEnd, coroutine, parsing, client, ring, TypeOK, Results
  <1>6. CASE CompleteClose
    BY <1>0, <1>6
       DEF CompleteClose, coroutine, parsing, client, ring, TypeOK, Results
  <1>7. CASE CompleteWrite
    BY <1>0, <1>7 DEF CompleteWrite, coroutine, parsing, ring, TypeOK, Results
  <1>8. ASSUME NEW request \in ClientRequests, ClientSendsHead(request)
        PROVE  TypeOK'
    <2>1. request \in Requests
      BY <1>8, ConstantsOK
    <2>2. sock' \in Seq(Pieces) /\ sent' \in 0..MaxPieces
      BY <1>0, <1>8, <2>1, SendType DEF ClientSendsHead
    <2>3. asking' = request /\ pipelined' \in BOOLEAN
      BY <1>0, <1>8 DEF ClientSendsHead, TypeOK
    <2> QED BY <1>0, <1>8, <2>1, <2>2, <2>3
            DEF ClientSendsHead, Send, coroutine, parsing, ring, TypeOK
  <1>9. CASE ClientSendsTail
    <2>1. asking \in Requests /\ NoRequest \in Requests
      BY <1>0 DEF TypeOK, NoRequest, Requests
    <2>2. sock' \in Seq(Pieces) /\ sent' \in 0..MaxPieces
      BY <1>0, <1>9, <2>1, SendType DEF ClientSendsTail
    <2> QED BY <1>0, <1>9, <2>1, <2>2
            DEF ClientSendsTail, Send, coroutine, parsing, ring, TypeOK
  <1>10. CASE ClientCloses
    BY <1>0, <1>10 DEF ClientCloses, coroutine, parsing, ring, TypeOK
  <1>11. CASE AcceptFails
    <2>1. accepting' \in BOOLEAN
      BY Zenon, <1>11 DEF AcceptFails
    <2> QED BY <1>0, <1>11, <2>1
            DEF AcceptFails, coroutine, parsing, client, TypeOK
  <1>12. ASSUME NEW entry \in {"operation", "cancel", "accept"}, SubmitLate(entry)
         PROVE  TypeOK'
    <2>1. op' \in {"none", "pending"} \cup Results
      BY <1>0, <1>12 DEF SubmitLate, Canceled, TypeOK, Results
    <2>2. accepting' \in BOOLEAN
      BY Zenon, <1>12 DEF SubmitLate
    <2> QED BY <1>0, <1>12, <2>1, <2>2
            DEF SubmitLate, coroutine, parsing, client, TypeOK
  <1> QED
    BY <1>1, <1>2, <1>3, <1>4, <1>5, <1>6, <1>7, <1>8, <1>9, <1>10, <1>11,
       <1>12 DEF CompleteSomeRead, Client

\* A new awaiter is constructed when no read has data for the coroutine.
LEMMA AwaitReads ==
  ASSUME Reads, NEW kind \in {"read", "write", "close"}, Await(kind),
         op = "none", res # "data", res' = "none", got' = got
  PROVE  Reads'
  BY DEF Await, Submitted, Spoiled, Reads

\* Every step of the IO thread preserves Reads: ReadSome takes the data, and any
\* other result comes without.
LEMMA IoThreadReads ==
  ASSUME Inv, Reads, IoThread
  PROVE  Reads'
  <1>1. CASE Accept
    <2>1. got = <<>> /\ op # "data" /\ res = "none" /\ res' = res /\ got' = got
      BY <1>1 DEF Accept, Reads
    <2> QED BY <1>1, <2>1 DEF Accept, Await, Submitted, Reads
  <1>2. CASE Reap
    BY <1>2 DEF Reap, Results, Reads
  <1>3. CASE Bind
    BY <1>3 DEF Bind, coroutine, ring, Reads
  <1>4. CASE Arm
    BY <1>4 DEF Arm, Reads
  <1>5. CASE CancelHere
    BY <1>5 DEF CancelHere, Submitted, Canceled, coroutine, ring, Reads
  <1>6. CASE ReadSome
    BY <1>6 DEF ReadSome, Resumed, Reads, ring, Inv, Settled
  <1>7. CASE WrittenKeepAlive
    BY <1>7 DEF WrittenKeepAlive, Resumed, Reads, ring, Inv, Settled
  <1>8. CASE Closed
    BY <1>8 DEF Closed, Resumed, Reads, ring, Inv, Settled
  <1>9. CASE ReadNothing
    <2>1. op = "none" /\ res # "data" /\ res' = "none" /\ got' = got
      BY <1>9 DEF ReadNothing, Resumed, Inv, Settled
    <2> QED BY <1>9, <2>1, AwaitReads DEF ReadNothing
  <1>10. CASE WrittenClose
    <2>1. op = "none" /\ res # "data" /\ res' = "none" /\ got' = got
      BY <1>10 DEF WrittenClose, Resumed, Reads, Inv, Settled
    <2> QED BY <1>10, <2>1, AwaitReads DEF WrittenClose
  <1>11. CASE ParseNeedMore \/ ParseSuccess \/ ParseError
    <2>1. io = "run" /\ res' = res /\ got' = got
      BY <1>11 DEF ParseNeedMore, ParseSuccess, ParseError
    <2>2. Await("read") \/ Await("write") \/ Await("close")
      BY Zenon, <1>11 DEF ParseNeedMore, ParseSuccess, ParseError
    <2>3. op = "none" /\ res = "none"
      BY <2>1 DEF Reads, Inv, Settled
    <2> QED BY <2>1, <2>2, <2>3, AwaitReads
  <1>12. CASE IoReturns \/ Rearm
    BY <1>12 DEF IoReturns, Rearm, coroutine, Reads
  <1> QED
    BY <1>1, <1>2, <1>3, <1>4, <1>5, <1>6, <1>7, <1>8, <1>9, <1>10, <1>11,
       <1>12 DEF IoThread

\* So does every other step: the kernel gives data to a pending read only.
LEMMA OthersReads ==
  ASSUME Inv, Data,
         \/ Worker \/ IoElsewhere \/ WorkerElsewhere \/ TimerDue \/ AcceptFails
         \/ \E entry \in {"operation", "cancel", "accept"} : SubmitLate(entry)
         \/ CompleteSomeRead \/ CompleteClose \/ CompleteWrite
         \/ Client
  PROVE  Reads'
  <1>0. TypeOK /\ Reads BY DEF Data
  <1>1. CASE RequestStop \/ WorkerReturns \/ WorkerElsewhere \/ TimerDue
    <2>1. UNCHANGED <<io, coroutine, op, got>>
      BY <1>1 DEF RequestStop, WorkerReturns, WorkerElsewhere, TimerDue
    <2> QED BY <1>0, <2>1 DEF coroutine, ring, Reads
  <1>2. CASE CancelThere
    BY <1>0, <1>2 DEF CancelThere, Submitted, Canceled, coroutine, ring, Reads
  <1>3. CASE IoElsewhere \/ AcceptFails
    BY <1>0, <1>3 DEF IoElsewhere, AcceptFails, coroutine, Reads
  <1>4. ASSUME NEW n \in 1..MaxPieces, CompleteRead(n) PROVE Reads'
    <2>1. /\ op = "pending" /\ co = "read" /\ op' = "data"
          /\ UNCHANGED <<io, co, res>>
      BY <1>4 DEF CompleteRead, coroutine, ring
    <2>2. got' # <<>>
      <3>1. Len(SubSeq(sock, 1, n)) = n /\ n # 0
        BY <1>0, <1>4 DEF CompleteRead, TypeOK
      <3>2. got' = SubSeq(sock, 1, n)
        BY <1>4 DEF CompleteRead
      <3> QED BY Zenon, <3>1, <3>2
    <2> QED BY <1>0, <2>1, <2>2 DEF Reads
  <1>5. CASE CompleteReadEnd \/ CompleteClose \/ CompleteWrite
    <2>1. /\ op = "pending" /\ op' \in {"end", "ok"}
          /\ UNCHANGED <<io, co, res, got>>
      BY <1>5 DEF CompleteReadEnd, CompleteClose, CompleteWrite, coroutine, ring
    <2> QED BY <1>0, <2>1 DEF Reads
  <1>6. CASE Client
    <2>1. UNCHANGED <<io, coroutine, op, got>>
      BY Zenon, <1>6 DEF Client, ClientSendsHead, ClientSendsTail, ClientCloses, Send
    <2> QED BY <1>0, <2>1 DEF coroutine, ring, Reads
  <1>7. ASSUME NEW entry \in {"operation", "cancel", "accept"}, SubmitLate(entry)
        PROVE  Reads'
    <2>1. /\ op' = "data" <=> op = "data"
          /\ UNCHANGED <<io, co, res, got>>
      BY <1>7 DEF SubmitLate, Canceled, coroutine, Inv, Settled
    <2> QED BY <1>0, <2>1 DEF Reads
  <1> QED
    BY <1>1, <1>2, <1>3, <1>4, <1>5, <1>6, <1>7 DEF CompleteSomeRead, Worker

\* Data is an invariant, given the control invariant.
THEOREM DataInvariant == Spec => []Data
  <1>1. Inv /\ Data /\ [Next]_vars => Data'
    <2>1. ASSUME Inv, Data, Next PROVE Data'
      <3>1. TypeOK'
        BY <2>1, IoThreadType, WorkerType, OthersType DEF Next
      <3>2. Reads'
        BY <2>1, IoThreadReads, OthersReads DEF Next, Data
      <3> QED BY <3>1, <3>2 DEF Data
    <2>2. ASSUME Data, UNCHANGED vars PROVE Data'
      <3>1. UNCHANGED <<io, worker, coroutine, op, got, cb, stop, timer, client,
                        ring, canceling>>
        BY Zenon, <2>2 DEF vars
      <3>2. TypeOK'
        BY <2>2, <3>1 DEF coroutine, parsing, client, ring, Data, TypeOK
      <3>3. Reads'
        BY Zenon, <2>2, <3>1 DEF coroutine, ring, Data, Reads
      <3> QED BY Zenon, <3>2, <3>3 DEF Data
    <2> QED BY <2>1, <2>2
  <1>2. QED BY <1>1, InitData, ControlInvariant, PTL DEF Spec

\* The variables of a connection have their types; above all read_buf, which
\* parse and pop_front are given: however the stream is cut and however much
\* parse consumes, none of its blocks is ever empty.
THEOREM ConnectionTypeCorrect == Spec => []TypeOK
  <1>1. Data => TypeOK BY DEF Data
  <1>2. QED BY <1>1, DataInvariant, PTL

-----------------------------------------------------------------------------
(* The requests of a client that waits for each response.                  *)

\* The client has no more responses than the coroutine has begun to write, and
\* fewer while one is being written or is to be.
Delivers ==
  /\ delivered <= answered
  /\ co = "write" /\ (op = "pending" \/ "operation" \in late) =>
       delivered < answered

\* What the client has sent and parse has not consumed.
Outstanding == Contents(read_buf) \o got \o sock

\* The client has sent n requests and all are answered, n and the head of the
\* next, or n of which the last is on its way in whole.
AtMostOneRequest ==
  \/ sent % 2 = 0 /\ answered = sent \div 2 /\ Nothing(Outstanding)
  \/ sent % 2 = 1 /\ answered = sent \div 2 /\ HeadOnly(Outstanding)
  \/ sent % 2 = 0 /\ answered + 1 = sent \div 2 /\ WholeRequest(Outstanding)

\* A client that waits for each response is not rejected, and has at most one
\* request on its way.
Waiting == ~pipelined => ~rejected /\ AtMostOneRequest

\* Delivers is what Waiting needs: who has all responses has no request on the
\* way.
Served == Delivers /\ Waiting

\* Both hold of a connection that has not been accepted.
LEMMA InitServed == Init => Served
  <1> SUFFICES ASSUME Init PROVE Served
    OBVIOUS
  <1>1. Delivers
    BY DEF Init, Delivers
  <1>2. Outstanding = <<>>
    <2>1. read_buf = <<>> /\ got = <<>> /\ sock = <<>>
      BY DEF Init
    <2>2. Contents(read_buf) = <<>>
      BY <2>1, ContentsEmpty
    <2> QED BY <2>1, <2>2 DEF Outstanding
  <1>3. Nothing(Outstanding)
    BY <1>2 DEF Nothing
  <1> QED BY <1>1, <1>3 DEF Init, Served, Waiting, AtMostOneRequest

\* The parts of what is outstanding are sequences of pieces.
LEMMA Parts ==
  ASSUME TypeOK
  PROVE  /\ read_buf \in Seq(Blocks) /\ read_buf \in Seq(Seq(Pieces))
         /\ Contents(read_buf) \in Seq(Pieces)
         /\ got \in Seq(Pieces) /\ sock \in Seq(Pieces)
         /\ Outstanding \in Seq(Pieces)
  <1>1. read_buf \in Seq(Blocks) /\ got \in Seq(Pieces) /\ sock \in Seq(Pieces)
    BY DEF TypeOK, Blocks
  <1>2. read_buf \in Seq(Seq(Pieces))
    BY <1>1 DEF Blocks
  <1>3. Contents(read_buf) \in Seq(Pieces)
    BY <1>2, ContentsType
  <1>4. Outstanding \in Seq(Pieces)
    BY <1>1, <1>3 DEF Outstanding
  <1> QED BY <1>1, <1>2, <1>3, <1>4

\* A step that reads, sends and parses nothing, and begins no write, changes
\* nothing for the client.
LEMMA SameServed ==
  ASSUME Served, UNCHANGED <<read_buf, got, sock, sent, answered, rejected,
                             pipelined, delivered>>,
         co' = "write" /\ (op' = "pending" \/ "operation" \in late') =>
           co = "write" /\ (op = "pending" \/ "operation" \in late)
  PROVE  Served'
  <1>1. Delivers'
    BY DEF Served, Delivers
  <1>2. Waiting'
    BY Zenon DEF Served, Waiting, AtMostOneRequest, Nothing, HeadOnly, WholeRequest,
           Outstanding
  <1> QED BY <1>1, <1>2 DEF Served

\* ReadSome moves what was read to the end of read_buf.
LEMMA ReadSomeServed ==
  ASSUME Data, Served, ReadSome
  PROVE  Served'
  <1>1. Delivers'
    BY DEF ReadSome, parsing, client, ring, Served, Delivers
  <1>2. Outstanding' = Outstanding
    <2> DEFINE f == Contents(read_buf)
    <2>1. TypeOK BY DEF Data
    <2>2. f \in Seq(Pieces) /\ got \in Seq(Pieces) /\ sock \in Seq(Pieces)
      BY <2>1, Parts
    <2>3. Contents(Append(read_buf, got)) = f \o got
      BY <2>1, Parts, ContentsAppend
    <2>4. Outstanding' = (f \o got) \o <<>> \o sock
      BY <2>3 DEF ReadSome, client, ring, Outstanding
    <2>5. Outstanding = (f \o got) \o sock
      BY DEF Outstanding
    <2> HIDE DEF f
    <2>6. (f \o got) \o <<>> = f \o got
      BY <2>2
    <2> QED BY <2>4, <2>5, <2>6
  <1>3. Waiting'
    BY Zenon, <1>2 DEF ReadSome, parsing, client, Served, Waiting, AtMostOneRequest,
                Nothing, HeadOnly, WholeRequest
  <1> QED BY <1>1, <1>3 DEF Served

\* A sequence is its first n elements and the others.
LEMMA CutInTwo ==
  ASSUME NEW s \in Seq(Pieces), NEW n \in 1..Len(s)
  PROVE  SubSeq(s, 1, n) \o SubSeq(s, n + 1, Len(s)) = s
  OBVIOUS

\* Concatenation is associative.
LEMMA Assoc ==
  ASSUME NEW a \in Seq(Pieces), NEW b \in Seq(Pieces), NEW c \in Seq(Pieces)
  PROVE  (a \o b) \o c = a \o (b \o c)
  OBVIOUS

\* A completed read moves the front of the socket into its block, which is
\* empty: the read was the only one.
LEMMA CompleteReadServed ==
  ASSUME Inv, Data, Served, NEW n \in 1..MaxPieces, CompleteRead(n)
  PROVE  Served'
  <1>0. TypeOK /\ Reads BY DEF Data
  <1>1. Delivers'
    BY DEF CompleteRead, coroutine, parsing, ring, Served, Delivers
  <1>2. Outstanding' = Outstanding
    <2> DEFINE f == Contents(read_buf)
               a == SubSeq(sock, 1, n)
               b == SubSeq(sock, n + 1, Len(sock))
    <2>1. f \in Seq(Pieces) /\ sock \in Seq(Pieces) /\ n \in 1..Len(sock)
      BY <1>0, Parts DEF CompleteRead
    <2>2. got = <<>>
      <3>1. op = "pending" /\ res # "data"
        BY <1>0 DEF CompleteRead, Reads, Inv, Settled
      <3> QED BY <1>0, <3>1 DEF Reads
    <2>3. Outstanding' = (f \o a) \o b
      BY DEF CompleteRead, coroutine, ring, Outstanding
    <2>4. Outstanding = (f \o <<>>) \o sock
      BY <2>2 DEF Outstanding
    <2>5. a \in Seq(Pieces) /\ b \in Seq(Pieces)
      BY <2>1
    <2>6. a \o b = sock
      BY <2>1, CutInTwo
    <2> HIDE DEF f, a, b
    <2>7. f \o <<>> = f
      BY <2>1
    <2>8. (f \o a) \o b = f \o (a \o b)
      BY Zenon, <2>1, <2>5, Assoc
    <2> QED BY <2>3, <2>4, <2>6, <2>7, <2>8
  <1>3. Waiting'
    BY Zenon, <1>2 DEF CompleteRead, coroutine, parsing, ring, Served, Waiting,
                AtMostOneRequest, Nothing, HeadOnly, WholeRequest
  <1> QED BY <1>1, <1>3 DEF Served

\* A number beyond one leaves no room up to two.
LEMMA TwoAtMost ==
  ASSUME NEW a \in Nat, NEW b \in Nat, a > 1, NEW c, c = a + b, c <= 2
  PROVE  c = 2 /\ a = 2 /\ b = 0
  OBVIOUS

\* The length and the elements of a sequence with one more.
LEMMA AppendFacts ==
  ASSUME NEW X, NEW s \in Seq(X), NEW x \in X
  PROVE  /\ Len(Append(s, x)) = Len(s) + 1
         /\ \A i \in 1..Len(s) : Append(s, x)[i] = s[i]
         /\ Append(s, x)[Len(s) + 1] = x
  OBVIOUS

\* The same for a second element.
LEMMA AppendSecond ==
  ASSUME NEW s \in Seq(Pieces), Len(s) = 1, NEW x \in Pieces
  PROVE  /\ Len(Append(s, x)) = 2 /\ Append(s, x)[1] = s[1]
         /\ Append(s, x)[2] = x
  <1>1. /\ Len(Append(s, x)) = Len(s) + 1
        /\ \A i \in 1..Len(s) : Append(s, x)[i] = s[i]
        /\ Append(s, x)[Len(s) + 1] = x
    BY Zenon, AppendFacts
  <1>2. 1 \in 1..Len(s) /\ Len(s) + 1 = 2
    OBVIOUS
  <1> QED BY <1>1, <1>2, Zenon

\* The beginning of at most one request is nothing, a head, or all of it with
\* nothing after it.
LEMMA Beginnings ==
  ASSUME NEW flat \in Seq(Pieces), NEW rest \in Seq(Pieces),
         NEW w, w = flat \o rest,
         Nothing(w) \/ HeadOnly(w) \/ WholeRequest(w)
  PROVE  \/ Nothing(flat)
         \/ HeadOnly(flat)
         \/ WholeRequest(flat) /\ WholeRequest(w) /\ Len(rest) = 0
  <1>1. /\ Len(w) = Len(flat) + Len(rest)
        /\ Len(flat) \in Nat /\ Len(rest) \in Nat
        /\ \A i \in 1..Len(flat) : w[i] = flat[i]
    BY ConcatFacts
  <1>2. CASE Len(flat) = 0
    BY <1>2 DEF Nothing
  <1>3. CASE Len(flat) = 1
    <2>1. w[1].part = "head"
      BY <1>1, <1>3 DEF Nothing, HeadOnly, WholeRequest
    <2>2. w[1] = flat[1]
      BY <1>1, <1>3
    <2> QED BY <1>3, <2>1, <2>2 DEF HeadOnly
  <1>4. CASE Len(flat) > 1
    <2>1. Len(w) = 2 /\ Len(flat) = 2 /\ Len(rest) = 0
      <3>1. Len(w) <= 2
        BY DEF Nothing, HeadOnly, WholeRequest
      <3> QED BY Zenon, <1>1, <1>4, <3>1, TwoAtMost
    <2>2. WholeRequest(w)
      <3>1. ~Nothing(w) /\ ~HeadOnly(w)
        BY <2>1 DEF Nothing, HeadOnly
      <3> QED BY Zenon, <3>1
    <2>3. w[1] = flat[1] /\ w[2] = flat[2]
      <3>1. 1 \in 1..2 /\ 2 \in 1..2
        OBVIOUS
      <3> QED BY Zenon, <1>1, <2>1, <3>1
    <2> QED BY <2>1, <2>2, <2>3 DEF WholeRequest
  <1>5. Len(flat) = 0 \/ Len(flat) = 1 \/ Len(flat) > 1
    <2>1. \A n \in Nat : n = 0 \/ n = 1 \/ n > 1
      OBVIOUS
    <2> QED BY Zenon, <1>1, <2>1
  <1> QED BY <1>2, <1>3, <1>4, <1>5

\* What parse finds when at most one request is on its way: it never fails, and
\* succeeds only if the whole request is in read_buf and nothing follows it.
LEMMA ParseOfWaiting ==
  ASSUME TypeOK, AtMostOneRequest
  PROVE  /\ parse(read_buf).status \in {"need_more", "success"}
         /\ parse(read_buf).status = "success" =>
              /\ WholeRequest(Outstanding)
              /\ Len(Contents(read_buf)) = 2
              /\ parse(read_buf).consumed = 2
              /\ got = <<>> /\ sock = <<>>
  <1> DEFINE flat == Contents(read_buf)
             rest == got \o sock
  <1>1. /\ read_buf \in Seq(Blocks) /\ flat \in Seq(Pieces)
        /\ got \in Seq(Pieces) /\ sock \in Seq(Pieces)
    BY Parts
  <1>2. rest \in Seq(Pieces) /\ Len(rest) = Len(got) + Len(sock)
    BY <1>1
  <1>3. Outstanding = flat \o rest
    <2> HIDE DEF flat
    <2>1. Outstanding = (flat \o got) \o sock
      BY DEF Outstanding, flat
    <2> QED BY Zenon, <1>1, <2>1, Assoc
  <1>4. \/ Nothing(Outstanding) \/ HeadOnly(Outstanding)
        \/ WholeRequest(Outstanding)
    BY DEF AtMostOneRequest
  <1>5. /\ Nothing(flat) \/ HeadOnly(flat)
             => parse(read_buf).status = "need_more"
        /\ WholeRequest(flat) => /\ parse(read_buf).status = "success"
                                 /\ parse(read_buf).consumed = 2
    BY <1>1, OneRequestParsed
  <1>6. Len(rest) = 0 => got = <<>> /\ sock = <<>>
    <2> SUFFICES ASSUME Len(rest) = 0 PROVE got = <<>> /\ sock = <<>>
      OBVIOUS
    <2>1. Len(got) = 0 /\ Len(sock) = 0
      BY <1>1, <1>2
    <2> QED BY <1>1, <2>1
  <1> HIDE DEF flat, rest
  <1>7. \/ Nothing(flat) \/ HeadOnly(flat)
        \/ WholeRequest(flat) /\ WholeRequest(Outstanding) /\ Len(rest) = 0
    BY Zenon, <1>1, <1>2, <1>3, <1>4, Beginnings
  <1>8. WholeRequest(flat) => Len(flat) = 2
    BY DEF WholeRequest
  <1> QED BY <1>5, <1>6, <1>7, <1>8 DEF flat

\* When parse succeeds, pop_front drops the one request, and one more is
\* answered.
LEMMA ParseSuccessServed ==
  ASSUME Data, Served, ParseSuccess
  PROVE  Served'
  <1>0. TypeOK BY DEF Data
  <1>1. Delivers'
    <2>1. answered \in Nat /\ delivered \in Nat
      BY <1>0 DEF TypeOK
    <2>2. delivered <= answered
      BY DEF Served, Delivers
    <2>3. answered' = answered + 1 /\ delivered' = delivered
      BY DEF ParseSuccess, client, ring
    <2> QED BY <2>1, <2>2, <2>3 DEF Delivers
  <1>2. ASSUME ~pipelined' PROVE ~rejected' /\ AtMostOneRequest'
    <2>1. ~pipelined /\ ~rejected' /\ AtMostOneRequest
      BY <1>2 DEF ParseSuccess, client, ring, Served, Waiting
    <2>2. /\ parse(read_buf).status = "success"
          /\ read_buf' = pop_front(read_buf, parse(read_buf).consumed)
          /\ answered' = answered + 1
          /\ sent' = sent /\ got' = got /\ sock' = sock
      BY DEF ParseSuccess, client, ring
    <2>3. /\ WholeRequest(Outstanding) /\ Len(Contents(read_buf)) = 2
          /\ parse(read_buf).consumed = 2 /\ got = <<>> /\ sock = <<>>
      BY <1>0, <2>1, <2>2, ParseOfWaiting
    <2>4. Contents(pop_front(read_buf, 2))
            = SubSeq(Contents(read_buf), 3, Len(Contents(read_buf)))
      <3>1. read_buf \in Seq(Blocks) /\ 2 \in Nat /\ 2 + 1 = 3
        BY <1>0, Parts
      <3> QED BY Zenon, <3>1, PopFrontDrops
    <2>5. Len(Contents(pop_front(read_buf, 2))) = 0
      <3> DEFINE f == Contents(read_buf)
      <3>1. f \in Seq(Pieces) /\ Len(f) = 2
        BY <1>0, <2>3, Parts
      <3> HIDE DEF f
      <3>2. Len(SubSeq(f, 3, Len(f))) = 0
        BY <3>1
      <3> QED BY <2>4, <3>2 DEF f
    <2>6. /\ Contents(read_buf') \in Seq(Pieces)
          /\ Len(Contents(read_buf')) = 0
      <3>1. read_buf' \in Seq(Blocks)
        BY Zenon, <1>0, <2>2, <2>3, Parts, PopFrontType
      <3>2. read_buf' \in Seq(Seq(Pieces))
        BY <3>1 DEF Blocks
      <3> QED BY <2>2, <2>3, <2>5, <3>2, ContentsType
    <2>7. Nothing(Outstanding')
      <3> DEFINE f == Contents(read_buf')
      <3>1. Outstanding' = (f \o <<>>) \o <<>>
        BY <2>2, <2>3 DEF Outstanding
      <3>2. f \in Seq(Pieces) /\ Len(f) = 0
        BY <2>6
      <3> HIDE DEF f
      <3>3. Len((f \o <<>>) \o <<>>) = 0
        BY <3>2
      <3> QED BY <3>1, <3>3 DEF Nothing
    <2>8. sent % 2 = 0 /\ answered + 1 = sent \div 2
      <3>1. ~Nothing(Outstanding) /\ ~HeadOnly(Outstanding)
        BY <2>3 DEF Nothing, HeadOnly, WholeRequest
      <3> QED BY <2>1, <3>1 DEF AtMostOneRequest
    <2> QED BY <2>1, <2>2, <2>7, <2>8 DEF AtMostOneRequest
  <1> QED BY <1>1, <1>2 DEF Served, Waiting

\* What the client sends comes last.
LEMMA SendServed ==
  ASSUME TypeOK, NEW request \in Requests, NEW part \in {"head", "tail"},
         Send(Piece(part, request))
  PROVE  /\ Piece(part, request) \in Pieces
         /\ Piece(part, request).part = part
         /\ Outstanding' = Append(Outstanding, Piece(part, request))
  <1> DEFINE x == Piece(part, request)
             g == Contents(read_buf) \o got
  <1>1. x \in Pieces /\ x.part = part
    BY DEF Piece, Pieces
  <1>2. sock' = Append(sock, x) /\ UNCHANGED <<read_buf, got>>
    BY DEF Send, coroutine, ring
  <1>3. Outstanding' = g \o Append(sock, x)
    BY <1>2 DEF Outstanding
  <1>4. g \in Seq(Pieces) /\ sock \in Seq(Pieces)
    BY Parts
  <1>5. Outstanding = g \o sock
    BY DEF Outstanding
  <1> HIDE DEF x, g
  <1>6. g \o Append(sock, x) = Append(g \o sock, x)
    BY <1>1, <1>4
  <1> QED BY <1>1, <1>3, <1>5, <1>6 DEF x

\* The client begins a request when none is on its way, and completes the one it
\* has begun.
LEMMA ClientServed ==
  ASSUME Data, Served, Client
  PROVE  Served'
  <1>0. /\ TypeOK /\ sent \in Nat /\ answered \in Nat /\ delivered \in Nat
        /\ Outstanding \in Seq(Pieces)
    <2>1. TypeOK
      BY Zenon DEF Data
    <2>2. sent \in 0..MaxPieces /\ answered \in Nat /\ delivered \in Nat
      BY Zenon, <2>1 DEF TypeOK
    <2>3. sent \in Nat
      BY <2>2, ConstantsOK
    <2> QED BY Zenon, <2>1, <2>2, <2>3, Parts
  <1>1. Delivers'
    BY Zenon DEF Client, ClientSendsHead, ClientSendsTail, ClientCloses, Send,
           coroutine, parsing, ring, Served, Delivers
  <1>2. ASSUME NEW request \in ClientRequests, ClientSendsHead(request),
               ~pipelined'
        PROVE  ~rejected' /\ AtMostOneRequest'
    <2>1. /\ ~pipelined /\ ~(delivered < sent \div 2) /\ sent % 2 = 0
          /\ sent' = sent + 1 /\ answered' = answered /\ rejected' = rejected
      BY Zenon, <1>2 DEF ClientSendsHead, Send, coroutine, parsing, ring
    <2>2. ~rejected /\ AtMostOneRequest /\ delivered <= answered
      BY <2>1 DEF Served, Waiting, Delivers
    <2>3. answered >= sent \div 2
      BY <1>0, <2>1, <2>2
    <2>4. Nothing(Outstanding) /\ answered = sent \div 2
      BY <1>0, <2>1, <2>2, <2>3 DEF AtMostOneRequest
    <2> DEFINE x == Piece("head", request)
    <2>5. /\ x \in Pieces /\ x.part = "head"
          /\ Outstanding' = Append(Outstanding, x)
      BY <1>0, <1>2, ConstantsOK, SendServed DEF ClientSendsHead
    <2> HIDE DEF x
    <2>6. HeadOnly(Outstanding')
      <3> DEFINE o == Outstanding
      <3>1. o \in Seq(Pieces) /\ Len(o) = 0
        BY <1>0, <2>4 DEF Nothing
      <3> HIDE DEF o
      <3>2. Len(Append(o, x)) = 1 /\ Append(o, x)[1] = x
        BY <2>5, <3>1
      <3> QED BY <2>5, <3>2 DEF HeadOnly, o
    <2>7. (sent + 1) % 2 = 1 /\ (sent + 1) \div 2 = sent \div 2
      BY <1>0, <2>1
    <2> QED BY Zenon, <2>1, <2>2, <2>4, <2>6, <2>7 DEF AtMostOneRequest, HeadOnly
  <1>3. ASSUME ClientSendsTail, ~pipelined'
        PROVE  ~rejected' /\ AtMostOneRequest'
    <2>1. /\ ~pipelined /\ sent % 2 = 1
          /\ sent' = sent + 1 /\ answered' = answered /\ rejected' = rejected
      BY <1>3 DEF ClientSendsTail, Send, coroutine, parsing, ring
    <2>2. ~rejected /\ AtMostOneRequest
      BY <2>1 DEF Served, Waiting
    <2>3. HeadOnly(Outstanding) /\ answered = sent \div 2
      BY <2>1, <2>2 DEF AtMostOneRequest
    <2> DEFINE x == Piece("tail", asking)
    <2>4. /\ x \in Pieces /\ x.part = "tail"
          /\ Outstanding' = Append(Outstanding, x)
      BY Zenon, <1>0, <1>3, SendServed DEF ClientSendsTail, TypeOK
    <2> HIDE DEF x
    <2>5. WholeRequest(Outstanding')
      <3> DEFINE o == Outstanding
      <3>1. o \in Seq(Pieces) /\ Len(o) = 1 /\ o[1].part = "head"
        BY <1>0, <2>3 DEF HeadOnly
      <3> HIDE DEF o
      <3>2. /\ Len(Append(o, x)) = 2 /\ Append(o, x)[1] = o[1]
            /\ Append(o, x)[2] = x
        BY <2>4, <3>1, AppendSecond
      <3> QED BY <2>4, <3>1, <3>2 DEF WholeRequest, o
    <2>6. (sent + 1) % 2 = 0 /\ (sent + 1) \div 2 = sent \div 2 + 1
      BY <1>0, <2>1
    <2> QED BY Zenon, <2>1, <2>2, <2>3, <2>5, <2>6 DEF AtMostOneRequest, WholeRequest
  <1>4. CASE ClientCloses
    BY <1>4, SameServed DEF ClientCloses, coroutine, parsing, ring
  <1> QED BY <1>1, <1>2, <1>3, <1>4 DEF Client, Served, Waiting

\* Every step of the IO thread preserves Served; ParseError is taken only if the
\* client did not wait.
LEMMA IoThreadServed ==
  ASSUME Inv, Data, Served, IoThread
  PROVE  Served'
  <1>1. CASE Accept \/ ReadNothing \/ WrittenClose \/ ParseNeedMore
    <2>1. /\ UNCHANGED <<read_buf, got, sock, sent, answered, rejected,
                         pipelined, delivered>>
          /\ co' # "write"
      BY Zenon, <1>1 DEF Accept, ReadNothing, WrittenClose, ParseNeedMore, Await,
                  parsing, client, ring
    <2> QED BY <2>1, SameServed
  <1>2. CASE WrittenKeepAlive \/ Closed
    <2>1. /\ UNCHANGED <<read_buf, got, sock, sent, answered, rejected,
                         pipelined, delivered>>
          /\ co' # "write"
      BY Zenon, <1>2 DEF WrittenKeepAlive, Closed, parsing, client, ring
    <2> QED BY <2>1, SameServed
  <1>3. CASE Reap \/ Bind \/ Arm \/ CancelHere \/ IoReturns \/ Rearm
    <2>1. /\ UNCHANGED <<read_buf, got, sock, sent, answered, rejected,
                         pipelined, delivered>>
          /\ co' = co /\ (op' = "pending" => op = "pending")
          /\ "operation" \in late' => "operation" \in late
      BY Zenon, <1>3 DEF Reap, Bind, Arm, Rearm, CancelHere, IoReturns, Submitted,
                  Spoiled, Canceled,
                  coroutine, parsing, client, ring
    <2> QED BY <2>1, SameServed
  <1>4. CASE ReadSome
    BY <1>4, ReadSomeServed
  <1>5. CASE ParseSuccess
    BY <1>5, ParseSuccessServed
  <1>6. CASE ParseError
    <2>1. TypeOK BY DEF Data
    <2>2. pipelined
      <3> SUFFICES ASSUME ~pipelined PROVE FALSE
        OBVIOUS
      <3>1. AtMostOneRequest
        BY DEF Served, Waiting
      <3>2. parse(read_buf).status \in {"need_more", "success"}
        BY <2>1, <3>1, ParseOfWaiting
      <3> QED BY <1>6, <3>2 DEF ParseError
    <2>3. pipelined' = pipelined
      BY <1>6 DEF ParseError, client, ring
    <2>4. Delivers'
      BY Zenon, <1>6 DEF ParseError, Await, client, ring, Served, Delivers
    <2> QED BY <2>2, <2>3, <2>4 DEF Served, Waiting
  <1> QED
    BY <1>1, <1>2, <1>3, <1>4, <1>5, <1>6 DEF IoThread

\* So do the worker, the timer and the kernel, which delivers a response only of
\* a write that pends.
LEMMA OthersServed ==
  ASSUME Inv, Data, Served,
         \/ Worker \/ IoElsewhere \/ WorkerElsewhere \/ TimerDue \/ AcceptFails
         \/ \E entry \in {"operation", "cancel", "accept"} : SubmitLate(entry)
         \/ CompleteSomeRead \/ CompleteClose \/ CompleteWrite
  PROVE  Served'
  <1>1. CASE \/ Worker \/ IoElsewhere \/ WorkerElsewhere \/ TimerDue
             \/ AcceptFails \/ CompleteReadEnd \/ CompleteClose
    <2>1. /\ UNCHANGED <<read_buf, got, sock, sent, answered, rejected,
                         pipelined, delivered>>
          /\ co' = co /\ (op' = "pending" => op = "pending")
          /\ "operation" \in late' => "operation" \in late
      BY Zenon, <1>1 DEF Worker, RequestStop, CancelThere, WorkerReturns, IoElsewhere,
                  WorkerElsewhere, TimerDue, AcceptFails, CompleteReadEnd,
                  CompleteClose, Submitted, Spoiled, Canceled, coroutine,
                  parsing, client, ring
    <2> QED BY Zenon, <2>1, SameServed
  <1>2. ASSUME NEW n \in 1..MaxPieces, CompleteRead(n) PROVE Served'
    BY <1>2, CompleteReadServed
  <1>3. CASE CompleteWrite
    <2>1. delivered \in Nat /\ answered \in Nat
      BY Zenon DEF Data, TypeOK
    <2>2. /\ delivered < answered /\ delivered' = delivered + 1
          /\ answered' = answered /\ op' = "ok" /\ op = "pending"
          /\ late' = late
      BY Zenon, <1>3 DEF CompleteWrite, coroutine, parsing, ring, Served, Delivers
    <2>3. Delivers'
      <3>1. "operation" \notin late'
        BY <2>2 DEF Inv, Settled
      <3> QED BY <2>1, <2>2, <3>1 DEF Delivers
    <2>4. UNCHANGED <<read_buf, got, sock, sent, answered, rejected, pipelined>>
      BY Zenon, <1>3 DEF CompleteWrite, coroutine, parsing, ring
    <2>5. Waiting'
      BY Zenon, <2>4 DEF Served, Waiting, AtMostOneRequest, Nothing, HeadOnly,
                  WholeRequest, Outstanding
    <2> QED BY <2>3, <2>5 DEF Served
  <1>4. ASSUME NEW entry \in {"operation", "cancel", "accept"}, SubmitLate(entry)
        PROVE  Served'
    <2>1. /\ UNCHANGED <<read_buf, got, sock, sent, answered, rejected,
                         pipelined, delivered>>
          /\ co' = co
          /\ op' = "pending" \/ "operation" \in late' =>
               op = "pending" \/ "operation" \in late
      BY <1>4 DEF SubmitLate, Canceled, coroutine, parsing, client
    <2> QED BY Zenon, <2>1, SameServed
  <1> QED BY <1>1, <1>2, <1>3, <1>4 DEF CompleteSomeRead

\* Served is an invariant, given the control invariant and Data.
THEOREM ServedInvariant == Spec => []Served
  <1>1. Inv /\ Data /\ Served /\ [Next]_vars => Served'
    <2>1. ASSUME Inv, Data, Served, Next PROVE Served'
      BY <2>1, IoThreadServed, OthersServed, ClientServed DEF Next
    <2>2. ASSUME Served, UNCHANGED vars PROVE Served'
      BY <2>2, SameServed DEF vars, coroutine, parsing, client, ring
    <2> QED BY <2>1, <2>2
  <1>2. QED BY <1>1, InitServed, ControlInvariant, DataInvariant, PTL DEF Spec

\* Requests that end in what is on its way: none before its tail has been sent,
\* then one.
LEMMA TailsOf ==
  ASSUME NEW w \in Seq(Pieces)
  PROVE  /\ Nothing(w) \/ HeadOnly(w) => Tails(w) = 0
         /\ WholeRequest(w) => Tails(w) = 1
  <1> DEFINE I == {i \in DOMAIN w : w[i].part = "tail"}
  <1>1. DOMAIN w = 1..Len(w)
    OBVIOUS
  <1>2. ASSUME Nothing(w) \/ HeadOnly(w) PROVE I = {}
    <2>1. 1..0 = {} /\ 1..1 = {1} /\ "head" # "tail"
      OBVIOUS
    <2> QED BY Zenon, <1>1, <1>2, <2>1 DEF Nothing, HeadOnly
  <1>3. ASSUME WholeRequest(w) PROVE I = {2}
    <2>1. 1..2 = {1, 2} /\ "head" # "tail"
      OBVIOUS
    <2> QED BY Zenon, <1>1, <1>3, <2>1 DEF WholeRequest
  <1>4. Cardinality({}) = 0 /\ Cardinality({2}) = 1
    BY Zenon, FS_EmptySet, FS_Singleton
  <1>5. Tails(w) = Cardinality(I)
    BY DEF Tails
  <1> QED BY Zenon, <1>2, <1>3, <1>4, <1>5

\* However its requests are cut into reads, and whenever the timeout falls due,
\* a client that waits for each response is never rejected, and each request it
\* has sent is answered once or still on its way.
THEOREM RequestsAnsweredOnce == Spec => []EachRequestAnsweredOnce
  <1>1. Data /\ Served => EachRequestAnsweredOnce
    <2> SUFFICES ASSUME Data, Served, ~pipelined
                 PROVE  ~rejected /\ answered + Tails(Outstanding) = sent \div 2
      BY DEF EachRequestAnsweredOnce, Outstanding
    <2>1. /\ Outstanding \in Seq(Pieces) /\ answered \in Nat
          /\ ~rejected /\ AtMostOneRequest
      BY Zenon, Parts DEF Data, TypeOK, Served, Waiting
    <2>2. /\ Nothing(Outstanding) \/ HeadOnly(Outstanding)
               => Tails(Outstanding) = 0
          /\ WholeRequest(Outstanding) => Tails(Outstanding) = 1
      BY <2>1, TailsOf
    <2> QED BY <2>1, <2>2 DEF AtMostOneRequest
  <1>2. QED BY <1>1, DataInvariant, ServedInvariant, PTL
=============================================================================
