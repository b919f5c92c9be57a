--------------------------- MODULE HttpConnection ---------------------------
(***************************************************************************)
(* The life of one connection of a Server without a Scheduler (test/main): *)
(* the coroutine handle_http_client (server.hpp) under with_timeout        *)
(* (awaiter/timeput_awaiter.hpp), its awaiters (awaiter/socket_awaiter.hpp)*)
(* and the io_uring Context that drives them.                              *)
(*                                                                         *)
(* Two threads act: the IO thread, which runs the loop of Context::Start   *)
(* and, g_executor being null there, resumes the coroutine itself; and the *)
(* worker of the server's executor, which runs the timer's callback.  Both *)
(* also serve other connections on the same ring.  The kernel, the client  *)
(* and the timer (modules TimerKeeper and Executor) take steps of their    *)
(* own.  The client sends requests in pieces; HttpParser says what becomes *)
(* of the pieces that were read.                                           *)
(***************************************************************************)
EXTENDS HttpParser

CONSTANTS
  MaxPieces,      \* bound of the model: how many pieces the client sends
  ClientRequests  \* what it may ask for

ASSUME ConstantsOK == MaxPieces \in Nat /\ ClientRequests \subseteq Requests

VARIABLES
  io,        \* the IO thread's next step for this connection
  worker,    \* the worker's
  co,        \* where handle_http_client is
  keep,      \* keep_alive of the request being answered
  read_buf,  \* its blocks
  res,       \* res_ of the awaiter
  op,        \* the awaiter's operation in the ring: "pending" or its result
  got,       \* what a completed read has written into its block
  token,     \* has the promise its stop token?
  bound,     \* token_ of the awaiter: could a stop be requested?
  cb,        \* the awaiter's stop callback cb_
  stop,      \* source_->stop_requested()
  timer,     \* the timer of with_timeout
  sock,      \* pieces received by the kernel and not read
  sent,      \* number of pieces the client has sent
  asking,    \* the request of which it has sent the head only
  delivered, \* number of responses it has received
  pipelined, \* history: did it send a request before it had a response?
  peer,      \* the client's end of the connection
  answered,  \* history: number of responses the coroutine has begun to write
  asked,     \* history: the request that the last one of them answers
  rejected,  \* history: did parse fail?
  accepting, \* is the multishot accept in the ring?
  late,      \* what the ring holds and no submit has handed to the kernel yet
  spoiled,   \* history: did two threads on the ring spoil a submission?
  awaits,    \* history: number of awaiters constructed
  canceling  \* history: the awaiter whose callback the worker is running

parsing == <<keep, answered, asked, rejected>>
coroutine == <<co, parsing, read_buf, res, token, bound, awaits>>
client == <<sock, sent, asking, delivered, pipelined, peer>>
ring == <<accepting, late, spoiled>>
vars == <<io, worker, coroutine, op, got, cb, stop, timer, client, ring,
          canceling>>

NoRequest == [http11 |-> FALSE, connection |-> "none"]

Init ==
  /\ io = "idle" /\ worker = "idle"
  /\ co = "none" /\ read_buf = <<>> /\ res = "none"
  /\ keep = FALSE /\ answered = 0 /\ asked = NoRequest /\ rejected = FALSE
  /\ op = "none" /\ got = <<>>
  /\ token = FALSE /\ bound = FALSE /\ cb = "none"
  /\ stop = FALSE /\ timer = "none"
  /\ sock = <<>> /\ sent = 0 /\ asking = NoRequest
  /\ delivered = 0 /\ pipelined = FALSE /\ peer = "open"
  /\ accepting = TRUE /\ late = {} /\ spoiled = FALSE
  /\ awaits = 0 /\ canceling = 0

Results == {"data", "end", "canceled", "failed", "ok"}

\* GetSqe and Submit by one thread while the other is on the ring too, which has
\* no lock: the entry is lost, or stays in the queue until a later submit.
Spoiled(entry, other) ==
  /\ other = "other"
  /\ spoiled' = TRUE
  /\ late' \in {late, late \cup {entry}}

\* GetSqe and Submit of an awaiter's operation or cancellation.  An entry that
\* both threads fill may also be one that the kernel rejects.
Submitted(entry, result, other) ==
  \/ op' = result /\ UNCHANGED <<late, spoiled>>
  \/ op' = op /\ Spoiled(entry, other)
  \/ /\ entry = "operation" /\ other = "other"
     /\ op' = "failed" /\ spoiled' = TRUE /\ UNCHANGED late

-----------------------------------------------------------------------------
(* The coroutine, on the IO thread.                                        *)

\* Mutant of Await: the awaiter does not take the promise's token.
AwaitWithoutToken(kind) ==
  /\ co' = kind
  /\ bound' = FALSE
  /\ awaits' = awaits + 1
  /\ io' = "bind"
  /\ Submitted("operation", "pending", worker)

\* co_await of a new awaiter: await_suspend takes the promise's token (a
\* CloseAwaiter takes none) and submits.
Await(kind) ==
  /\ co' = kind
  /\ bound' = (token /\ kind # "close")
  /\ awaits' = awaits + 1
  /\ io' = "bind"
  /\ Submitted("operation", "pending", worker)

\* Acceptor::on_complete with a connection: with_timeout's await_suspend up to
\* the return of task_func_().  The coroutine starts, has nothing to parse and
\* reads.  Without IORING_CQE_F_MORE the accept has left the ring.
Accept ==
  /\ io = "idle"
  /\ co = "none"
  /\ accepting
  /\ accepting' \in BOOLEAN
  /\ Await("read")
  /\ UNCHANGED <<worker, parsing, read_buf, res, token, got, cb, stop, timer,
                 client, canceling>>

\* Acceptor::on_complete with an error, which ends the multishot accept.
AcceptFails ==
  /\ io = "idle"
  /\ co = "none"
  /\ accepting
  /\ accepting' = FALSE
  /\ io' = "rearm"
  /\ UNCHANGED <<worker, coroutine, op, got, cb, stop, timer, client, late,
                 spoiled, canceling>>

\* The end of Acceptor::on_complete: submit_multishot_accept.
Rearm ==
  /\ io = "rearm"
  /\ \/ accepting' = TRUE /\ UNCHANGED <<late, spoiled>>
     \/ UNCHANGED accepting /\ Spoiled("accept", worker)
  /\ io' = "idle"
  /\ UNCHANGED <<worker, coroutine, op, got, cb, stop, timer, client,
                 canceling>>

\* Mutant of Bind: a stop that has already been requested is not looked at.
BindStopIgnored ==
  /\ io = "bind"
  /\ cb' = IF bound THEN "registered" ELSE "none"
  /\ io' = IF token THEN "idle" ELSE "arm"
  /\ UNCHANGED <<worker, coroutine, op, got, stop, timer, client, ring,
                 canceling>>

\* bind_stop_callback, the end of await_suspend.  On a stop that has already
\* been requested the callback runs within the constructor of cb_.
Bind ==
  /\ io = "bind"
  /\ cb' = IF bound /\ ~stop THEN "registered" ELSE "none"
  /\ io' = IF bound /\ stop THEN "cancel" ELSE IF token THEN "idle" ELSE "arm"
  /\ UNCHANGED <<worker, coroutine, op, got, stop, timer, client, ring,
                 canceling>>

\* The rest of with_timeout's await_suspend: set_stop_token, set_continuation,
\* AddTimer.  Control returns to Acceptor::on_complete.
Arm ==
  /\ io = "arm"
  /\ token' = TRUE
  /\ timer' = "armed"
  /\ io' = IF accepting THEN "idle" ELSE "rearm"
  /\ UNCHANGED <<worker, co, parsing, read_buf, res, bound, awaits, op, got,
                 cb, stop, client, ring, canceling>>

\* SubmitCancel names the awaiter; the kernel ends a pending operation of it.
Canceled == IF op = "pending" THEN "canceled" ELSE op

\* on_cancel from the constructor of cb_.
CancelHere ==
  /\ io = "cancel"
  /\ Submitted("cancel", Canceled, worker)
  /\ io' = "idle"
  /\ UNCHANGED <<worker, coroutine, got, cb, stop, timer, client, accepting,
                 canceling>>

\* ProcessEvents finds the CQE: prepare_complete, on_complete, resume.
Reap ==
  /\ io = "idle"
  /\ op \in Results
  /\ res' = op
  /\ op' = "none"
  /\ io' = "resume"
  /\ UNCHANGED <<worker, co, parsing, read_buf, got, token, bound, awaits, cb,
                 stop, timer, client, ring, canceling>>

\* Mutant of Resumed: the destructor does not wait for a running callback.
ResumedWithoutWaiting ==
  /\ io = "resume"
  /\ cb' = "none"
  /\ res' = "none"

\* The end of the co_await: await_resume and the destructor of the awaiter,
\* where ~stop_callback waits for a callback that another thread is running.
Resumed ==
  /\ io = "resume"
  /\ cb # "running"
  /\ cb' = "none"
  /\ res' = "none"

ReadSome ==
  /\ Resumed
  /\ co = "read" /\ res = "data"
  /\ read_buf' = Append(read_buf, got)
  /\ got' = <<>>
  /\ co' = "parse"
  /\ io' = "run"
  /\ UNCHANGED <<worker, parsing, token, bound, awaits, op, stop, timer,
                 client, ring, canceling>>

\* read_bytes <= 0: disconnected, or an error, -ECANCELED among them.
ReadNothing ==
  /\ Resumed
  /\ co = "read" /\ res # "data"
  /\ Await("close")
  /\ UNCHANGED <<worker, parsing, read_buf, token, got, stop, timer, client,
                 accepting, canceling>>

\* The response is sent, or not: the result of the write is not looked at.
WrittenKeepAlive ==
  /\ Resumed
  /\ co = "write" /\ keep
  /\ co' = "parse"
  /\ io' = "run"
  /\ UNCHANGED <<worker, parsing, read_buf, token, bound, awaits, op, got,
                 stop, timer, client, ring, canceling>>

WrittenClose ==
  /\ Resumed
  /\ co = "write" /\ ~keep
  /\ Await("close")
  /\ UNCHANGED <<worker, parsing, read_buf, token, got, stop, timer, client,
                 accepting, canceling>>

\* Mutant of Closed: with_timeout does not cancel its timer.
ClosedTimerLeft ==
  /\ Resumed
  /\ co = "close"
  /\ co' = "done"
  /\ io' = "idle"
  /\ UNCHANGED <<worker, parsing, read_buf, token, bound, awaits, op, got,
                 stop, timer, client, ring, canceling>>

\* co_return: FinalAwaiter resumes with_timeout, which cancels its timer (too
\* late for one that is due), and the detached coroutine ends.
Closed ==
  /\ Resumed
  /\ co = "close"
  /\ co' = "done"
  /\ timer' = IF timer = "armed" THEN "canceled" ELSE timer
  /\ io' = "idle"
  /\ UNCHANGED <<worker, parsing, read_buf, token, bound, awaits, op, got,
                 stop, client, ring, canceling>>

ParseNeedMore ==
  /\ io = "run"
  /\ parse(read_buf).status = "need_more"
  /\ Await("read")
  /\ UNCHANGED <<worker, parsing, read_buf, res, token, got, cb, stop, timer,
                 client, accepting, canceling>>

\* The first request that ends in these blocks.
FirstRequest(buf) ==
  LET pieces == Contents(buf) IN
  pieces[Min({i \in DOMAIN pieces : pieces[i].part = "tail"})].request

\* Mutant of ParseSuccess: what was parsed stays in read_buf.
ParseSuccessNotPopped ==
  /\ io = "run"
  /\ \E result \in {parse(read_buf)} :
       /\ result.status = "success"
       /\ keep' = result.keep_alive
  /\ answered' = answered + 1
  /\ asked' = FirstRequest(read_buf)
  /\ Await("write")
  /\ UNCHANGED <<worker, read_buf, rejected, res, token, got, cb, stop, timer,
                 client, accepting, canceling>>

\* A request is complete: what parse consumed leaves read_buf, the response is
\* written.
ParseSuccess ==
  /\ io = "run"
  /\ \E result \in {parse(read_buf)} :
       /\ result.status = "success"
       /\ read_buf' = pop_front(read_buf, result.consumed)
       /\ keep' = result.keep_alive
  /\ answered' = answered + 1
  /\ asked' = FirstRequest(read_buf)
  /\ Await("write")
  /\ UNCHANGED <<worker, rejected, res, token, got, cb, stop, timer, client,
                 accepting, canceling>>

ParseError ==
  /\ io = "run"
  /\ parse(read_buf).status = "error"
  /\ rejected' = TRUE
  /\ Await("close")
  /\ UNCHANGED <<worker, keep, answered, asked, read_buf, res, token, got, cb,
                 stop, timer, client, accepting, canceling>>

-----------------------------------------------------------------------------
(* The timer and the worker.                                               *)

\* TimerKeeper has collected the timer and scheduled its callback.
TimerDue ==
  /\ timer = "armed"
  /\ timer' = "due"
  /\ UNCHANGED <<io, worker, coroutine, op, got, cb, stop, client, ring,
                 canceling>>

\* The callback: request_stop, which runs cb_ if it is registered.
RequestStop ==
  /\ worker = "idle"
  /\ timer = "due"
  /\ timer' = "done"
  /\ stop' = TRUE
  /\ IF cb = "registered"
     THEN worker' = "cancel" /\ cb' = "running" /\ canceling' = awaits
     ELSE UNCHANGED <<worker, cb, canceling>>
  /\ UNCHANGED <<io, coroutine, op, got, client, ring>>

\* on_cancel from request_stop: SubmitCancel on the IO thread's ring.
CancelThere ==
  /\ worker = "cancel"
  /\ Submitted("cancel", Canceled, io)
  /\ cb' = "none"
  /\ worker' = "idle"
  /\ canceling' = 0
  /\ UNCHANGED <<io, coroutine, got, stop, timer, client, accepting>>

-----------------------------------------------------------------------------
(* The other connections, the kernel and the client.                       *)

\* A thread comes to every CQE and every task in its queue: it turns to others
\* only before this connection's are there, and may be slow to return.
IoElsewhere ==
  /\ io = "idle"
  /\ co # "none" /\ op \notin Results
  /\ io' = "other"
  /\ UNCHANGED <<worker, coroutine, op, got, cb, stop, timer, client, ring,
                 canceling>>

IoReturns ==
  /\ io = "other"
  /\ io' = "idle"
  /\ UNCHANGED <<worker, coroutine, op, got, cb, stop, timer, client, ring,
                 canceling>>

WorkerElsewhere ==
  /\ worker = "idle"
  /\ timer # "due"
  /\ worker' = "other"
  /\ UNCHANGED <<io, coroutine, op, got, cb, stop, timer, client, ring,
                 canceling>>

WorkerReturns ==
  /\ worker = "other"
  /\ worker' = "idle"
  /\ UNCHANGED <<io, coroutine, op, got, cb, stop, timer, client, ring,
                 canceling>>

\* A submit of either thread hands over what a race left in the queue.  A
\* cancellation that comes late ends what the frame awaits by then.
SubmitLate(entry) ==
  /\ entry \in late
  /\ late' = late \ {entry}
  /\ op' = CASE entry = "operation" -> "pending"
             [] entry = "cancel" -> Canceled
             [] entry = "accept" -> op
  /\ accepting' = (accepting \/ entry = "accept")
  /\ UNCHANGED <<io, worker, coroutine, got, cb, stop, timer, client, spoiled,
                 canceling>>

\* A pending operation completes: a read with some of what has arrived, as much
\* as the block has room for, or at the end of the stream; a write when the
\* client takes it.
CompleteRead(n) ==
  /\ op = "pending" /\ co = "read"
  /\ n \in 1..Len(sock)
  /\ op' = "data"
  /\ got' = SubSeq(sock, 1, n)
  /\ sock' = SubSeq(sock, n + 1, Len(sock))
  /\ UNCHANGED <<io, worker, coroutine, cb, stop, timer, sent, asking,
                 delivered, pipelined, peer, ring, canceling>>

CompleteReadEnd ==
  /\ op = "pending" /\ co = "read"
  /\ sock = <<>> /\ peer = "closed"
  /\ op' = "end"
  /\ UNCHANGED <<io, worker, coroutine, got, cb, stop, timer, client, ring,
                 canceling>>

CompleteWrite ==
  /\ op = "pending" /\ co = "write"
  /\ op' = "ok"
  /\ delivered' = delivered + 1
  /\ UNCHANGED <<io, worker, coroutine, got, cb, stop, timer, sock, sent,
                 asking, pipelined, peer, ring, canceling>>

CompleteClose ==
  /\ op = "pending" /\ co = "close"
  /\ op' = "ok"
  /\ UNCHANGED <<io, worker, coroutine, got, cb, stop, timer, client, ring,
                 canceling>>

Send(piece) ==
  /\ peer = "open"
  /\ sent < MaxPieces
  /\ sent' = sent + 1
  /\ sock' = Append(sock, piece)
  /\ UNCHANGED <<io, worker, coroutine, op, got, cb, stop, timer, delivered,
                 peer, ring, canceling>>

ClientSendsHead(request) ==
  /\ sent % 2 = 0
  /\ Send(Piece("head", request))
  /\ asking' = request
  /\ pipelined' = (pipelined \/ delivered < sent \div 2)

ClientSendsTail ==
  /\ sent % 2 = 1
  /\ Send(Piece("tail", asking))
  /\ asking' = NoRequest
  /\ UNCHANGED pipelined

ClientCloses ==
  /\ peer = "open"
  /\ peer' = "closed"
  /\ UNCHANGED <<io, worker, coroutine, op, got, cb, stop, timer, sock, sent,
                 asking, delivered, pipelined, ring, canceling>>

-----------------------------------------------------------------------------
IoThread ==
  \/ Accept \/ Rearm \/ Reap
  \/ Bind \/ Arm \/ CancelHere
  \/ ReadSome \/ ReadNothing \/ WrittenKeepAlive \/ WrittenClose \/ Closed
  \/ ParseNeedMore \/ ParseError \/ ParseSuccess
  \/ IoReturns

Worker == RequestStop \/ CancelThere \/ WorkerReturns

CompleteSomeRead == CompleteReadEnd \/ \E n \in 1..MaxPieces : CompleteRead(n)

Client ==
  \/ \E request \in ClientRequests : ClientSendsHead(request)
  \/ ClientSendsTail
  \/ ClientCloses

Next ==
  \/ IoThread \/ IoElsewhere
  \/ Worker \/ WorkerElsewhere
  \/ TimerDue
  \/ AcceptFails
  \/ \E entry \in {"operation", "cancel", "accept"} : SubmitLate(entry)
  \/ CompleteSomeRead \/ CompleteClose \/ CompleteWrite
  \/ Client

Spec == Init /\ [][Next]_vars

\* The IO thread finishes what it began and comes to every CQE and every
\* accepted connection, the worker to every task, the kernel completes what can
\* be completed, and accepts do not fail for ever.  Of what a race left in the
\* queue nothing is expected.  The client owes nothing: it need not send, close
\* or take its response.  The timer may be as slow as it likes: what follows
\* from it is stated of a timer that is due.
Fairness ==
  /\ WF_vars(IoThread)
  /\ SF_vars(Accept)
  /\ WF_vars(Worker)
  /\ WF_vars(CompleteSomeRead \/ CompleteClose)

FairSpec == Spec /\ Fairness

-----------------------------------------------------------------------------
(* Properties.                                                             *)

\* The types of the variables.
TypeOK ==
  /\ io \in {"idle", "other", "bind", "arm", "rearm", "cancel", "resume",
             "run"}
  /\ worker \in {"idle", "other", "cancel"}
  /\ co \in {"none", "parse", "read", "write", "close", "done"}
  /\ keep \in BOOLEAN /\ rejected \in BOOLEAN
  /\ answered \in Nat /\ asked \in Requests
  /\ read_buf \in Seq(Seq(Pieces) \ {<<>>})
  /\ res \in {"none"} \cup Results
  /\ op \in {"none", "pending"} \cup Results
  /\ got \in Seq(Pieces)
  /\ token \in BOOLEAN /\ bound \in BOOLEAN
  /\ cb \in {"none", "registered", "running"}
  /\ stop \in BOOLEAN
  /\ timer \in {"none", "armed", "due", "done", "canceled"}
  /\ sock \in Seq(Pieces) /\ sent \in 0..MaxPieces
  /\ asking \in Requests
  /\ delivered \in Nat /\ pipelined \in BOOLEAN
  /\ peer \in {"open", "closed"}
  /\ accepting \in BOOLEAN /\ spoiled \in BOOLEAN
  /\ late \subseteq {"operation", "cancel", "accept"}
  /\ awaits \in Nat /\ canceling \in Nat

\* The worker cancels only the awaiter whose callback it is running, and that
\* awaiter is still alive: its successor lies at the same address of the frame
\* and would be the one canceled.
CancelNamesLiveAwaiter ==
  worker = "cancel" => /\ canceling = awaits
                       /\ co \in {"read", "write"}
                       /\ io # "bind"

\* No stop is missed: once it is requested, a read or a write that took the
\* token and still pends is about to be canceled, by the thread that requests
\* the stop or, if that came first, by the one that constructs cb_.  (Unless
\* two threads on the ring spoiled a submission.)
StopReachesPending ==
  stop /\ bound /\ op = "pending" /\ ~spoiled =>
    io \in {"bind", "cancel"} \/ worker = "cancel"

\* When the coroutine has ended its descriptor may be another connection's:
\* no operation of this one is in the ring or in its queue, no callback can
\* submit anything, and no timer is left armed, whenever the timeout fell due.
NothingAfterClose ==
  co = "done" => /\ op = "none" /\ "operation" \notin late
                 /\ cb = "none" /\ worker # "cancel"
                 /\ timer # "armed"

\* When the time of a connection is up and anything was read from it, it is
\* closed in the end, though the client neither sends nor closes nor takes its
\* response: the stop reaches a pending read or write, and on the next one it
\* has already been requested.  (Unless two threads on the ring spoiled
\* a submission.)
ServedConnectionCloses == timer = "due" /\ awaits > 1 ~> co = "done" \/ spoiled

Tails(pieces) == Cardinality({i \in DOMAIN pieces : pieces[i].part = "tail"})

\* However its requests are cut into reads, a client that waits for each
\* response is never rejected, and each request it has sent is either answered,
\* once, or still on its way: in the socket, in the block of a completed read,
\* in read_buf.  parse consumes whole blocks, and parses what it left again.
EachRequestAnsweredOnce ==
  ~pipelined => /\ ~rejected
                /\ answered + Tails(Contents(read_buf) \o got \o sock)
                     = sent \div 2

\* A request that a client which waits for each response has sent is answered,
\* unless the connection's time is up or the server has ended it.
RequestAnswered ==
  answered < sent \div 2 ~>
    answered >= sent \div 2 \/ stop \/ pipelined \/ co = "done" \/ spoiled

\* "Returns `1` if there might be any other messages following the last that
\* was successfully parsed": after a request that ends the connection there are
\* none.
KeepAliveAsAsked ==
  co = "write" /\ ~pipelined =>
    keep = IF asked.http11 THEN asked.connection # "close"
                           ELSE asked.connection = "keep-alive"

\* "5s Idle Timeout & Connection Cleanup": a connection on which the client
\* does "not send data" is closed when its time is up.
IdleConnectionCloses == timer = "due" ~> co = "done" \/ spoiled \/ sent > 0

\* The ring is "exclusively owned and driven by a single IO thread": the worker
\* is never about to submit while the IO thread uses the ring.
RingDrivenByIoThread == worker = "cancel" => io # "other"
=============================================================================
