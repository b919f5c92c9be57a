----------------------------- MODULE HttpParser -----------------------------
(***************************************************************************)
(* HttpParser::parse (http/parser.hpp) over the blocks of an IOBuf, and    *)
(* what it uses of llhttp.                                                 *)
(*                                                                         *)
(* A request is its HTTP version and what it says of the connection.  Its  *)
(* bytes are two pieces: the head begins with the request line; the tail   *)
(* begins somewhere in a header and ends the message.  A block is a        *)
(* sequence of pieces, lengths are counted in pieces.                      *)
(***************************************************************************)
EXTENDS Naturals, SequenceFold

Requests == [http11: BOOLEAN,
             connection: {"none", "close", "keep-alive", "upgrade"}]

Piece(part, request) == [part |-> part, request |-> request]
Pieces == [part: {"head", "tail"}, request: Requests]

\* The bytes of an IOBuf: its blocks, one after the other.
Joined == [x \in Seq(Pieces) |-> [block \in Seq(Pieces) |-> x \o block]]
Contents(buf) == Fold(Joined, <<>>, buf)

-----------------------------------------------------------------------------
(* llhttp.  `at' is where its state machine is; `complete' and `consumed'  *)
(* belong to parse.                                                        *)

Parsers == [at: {"start", "message", "closed", "paused", "failed"},
            http11: BOOLEAN,
            flags: SUBSET {"none", "close", "keep-alive", "upgrade"},
            complete: BOOLEAN, consumed: Nat]

\* llhttp_reset, with HttpRequest {} and total_consumed = 0.
reset == [at |-> "start", http11 |-> FALSE, flags |-> {}, complete |-> FALSE,
          consumed |-> 0]

\* A request without a body never needs an EOF.
llhttp_should_keep_alive(p) ==
  IF p.http11 THEN "close" \notin p.flags ELSE "keep-alive" \in p.flags

\* It clears the flags; the next message, or the closed state, follows.
llhttp__after_message_complete(p) ==
  [p EXCEPT !.flags = {},
            !.at = IF llhttp_should_keep_alive(p) THEN "start" ELSE "closed"]

\* Does the request leave HTTP?
upgrade(p) == "upgrade" \in p.flags

\* The end of a message: on_message_complete, then a pause on an upgrade, with
\* the flags as they are.
MessageComplete(p) ==
  IF upgrade(p)
  THEN [p EXCEPT !.complete = TRUE, !.at = "paused"]
  ELSE llhttp__after_message_complete([p EXCEPT !.complete = TRUE])

\* The end of the request line: the version.
RequestLine(p, request) ==
  [p EXCEPT !.at = "message", !.http11 = request.http11, !.consumed = @ + 1]

\* The Connection header.
Headers(p, request) ==
  [p EXCEPT !.flags = {request.connection}, !.consumed = @ + 1]

\* Bytes after a message that ends the connection, and a tail where a request
\* line should be, are errors.
Failed(p) == [p EXCEPT !.at = "failed"]

\* llhttp_execute goes on from its state with the next piece of a block, which
\* parse counts as consumed.
ExecutePiece(p, piece) ==
  CASE p.at \in {"paused", "failed"} -> p
    [] p.at = "start" /\ piece.part = "head" -> RequestLine(p, piece.request)
    [] p.at = "message" /\ piece.part = "tail" ->
         MessageComplete(Headers(p, piece.request))
    [] OTHER -> Failed(p)

Executed == [p \in Parsers |-> [piece \in Pieces |-> ExecutePiece(p, piece)]]

\* Mutant of ExecuteBlock: only the first block is looked at.
ExecuteFirstBlock(p, block) ==
  IF p.consumed > 0
  THEN p
  ELSE Fold(Executed, p, block)

\* The body of parse's loop, which ends with the block that ends a message.
ExecuteBlock(p, block) ==
  IF p.complete \/ p.at = "failed"
  THEN p
  ELSE Fold(Executed, p, block)

BlockExecuted ==
  [p \in Parsers |-> [block \in Seq(Pieces) |-> ExecuteBlock(p, block)]]

\* The result of parse: status, consumed_bytes and req.keep_alive.
Result(p) ==
  IF p.at = "failed"
  THEN [status |-> "error", consumed |-> 0, keep_alive |-> FALSE]
  ELSE [status |-> IF p.complete THEN "success" ELSE "need_more",
        consumed |-> p.consumed,
        keep_alive |-> llhttp_should_keep_alive(p)]

parse(buf) == Result(Fold(BlockExecuted, reset, buf))

-----------------------------------------------------------------------------
(* IOBuf::pop_front: whole blocks go, the last one is shortened.           *)

\* Mutant of PopFrontBlock: a block that is used up stays, empty.
PopFrontBlockEmptied(rest, block) ==
  IF rest.n > Len(block)
  THEN [rest EXCEPT !.n = @ - Len(block)]
  ELSE [n |-> 0,
        buf |-> Append(rest.buf, SubSeq(block, rest.n + 1, Len(block)))]

PopFrontBlock(rest, block) ==
  IF rest.n >= Len(block)
  THEN [rest EXCEPT !.n = @ - Len(block)]
  ELSE [n |-> 0,
        buf |-> Append(rest.buf, SubSeq(block, rest.n + 1, Len(block)))]

FrontPopped ==
  [rest \in [n: Nat, buf: Seq(Seq(Pieces))] |->
     [block \in Seq(Pieces) |-> PopFrontBlock(rest, block)]]

pop_front(buf, n) == Fold(FrontPopped, [n |-> n, buf |-> <<>>], buf).buf
=============================================================================
