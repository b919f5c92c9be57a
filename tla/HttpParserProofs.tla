-------------------------- MODULE HttpParserProofs --------------------------
(***************************************************************************)
(* HttpParser: what parse and pop_front compute, for every IOBuf.  Both    *)
(* are loops over its blocks, so the proofs are inductions over sequences. *)
(* The library's induction theorems take the predicate as an operator,     *)
(* which the provers cannot instantiate; here a set stands for it, and     *)
(* induction comes from the least counterexample (WFMin).                  *)
(***************************************************************************)
EXTENDS HttpParser, WellFoundedInduction, TLAPS

-----------------------------------------------------------------------------
(* Induction.                                                              *)

\* Every non-empty set of numbers has a least element.
LEMMA LeastNumber ==
  ASSUME NEW T, T \subseteq Nat, T # {}
  PROVE  \E x \in T : \A y \in T : x <= y
  <1>1. PICK x \in T : \A y \in T : ~(<<y, x>> \in OpToRel(<, Nat))
    BY NatLessThanWellFounded, WFMin, Zenon
  <1>2. \A y \in T : ~(y < x)
    BY Zenon, <1>1 DEF OpToRel
  <1>3. \A y \in T : x <= y
    BY <1>2
  <1> QED
    BY <1>3

\* Induction over the numbers.
LEMMA NumberInduction ==
  ASSUME NEW S, 0 \in S, \A n \in Nat : n \in S => n + 1 \in S
  PROVE  \A n \in Nat : n \in S
  <1> SUFFICES ASSUME \E n \in Nat : n \notin S PROVE FALSE
    OBVIOUS
  <1> DEFINE T == Nat \ S
  <1>1. T \subseteq Nat /\ T # {}
    OBVIOUS
  <1>2. PICK x \in T : \A y \in T : x <= y
    <2> HIDE DEF T
    <2> QED BY Zenon, <1>1, LeastNumber
  <1>3. x \in Nat /\ x # 0
    BY <1>2
  <1>4. x - 1 \in Nat /\ ~(x <= x - 1) /\ (x - 1) + 1 = x
    BY <1>3
  <1>5. x - 1 \in S
    BY <1>4, <1>2
  <1> QED
    BY <1>4, <1>5, <1>2

\* Induction over the sequences, which grow at their end.
LEMMA SequenceInduction ==
  ASSUME NEW X, NEW S, <<>> \in S,
         \A s \in Seq(X), x \in X : s \in S => Append(s, x) \in S
  PROVE  \A s \in Seq(X) : s \in S
  <1> DEFINE N == {n \in Nat : \A s \in Seq(X) : Len(s) = n => s \in S}
  <1>1. 0 \in N
    OBVIOUS
  <1>2. ASSUME NEW n \in Nat, n \in N PROVE n + 1 \in N
    <2>1. SUFFICES ASSUME NEW s \in Seq(X), Len(s) = n + 1 PROVE s \in S
      OBVIOUS
    <2> DEFINE t == SubSeq(s, 1, n)
    <2>2. t \in Seq(X) /\ Len(t) = n
      BY <2>1
    <2>3. s[n + 1] \in X /\ s = Append(t, s[n + 1])
      BY <2>1
    <2>4. t \in S
      BY Zenon, <2>2, <1>2
    <2> QED
      BY Zenon, <2>2, <2>3, <2>4
  <1>3. \A n \in Nat : n \in N
    <2> HIDE DEF N
    <2> QED BY <1>1, <1>2, NumberInduction
  <1> QED
    BY <1>3

\* The maximum of a non-empty set of indices is its largest element.
LEMMA MaxIndex ==
  ASSUME NEW n \in Nat, NEW t \in SUBSET (1..n), t # {}
  PROVE  /\ Max(t) \in t
         /\ \A y \in t : y <= Max(t)
  <1> DEFINE B == {m \in Nat : \A y \in t : y <= m}
  <1>1. B \subseteq Nat /\ B # {}
    <2>1. n \in B OBVIOUS
    <2> QED BY <2>1
  <1>2. PICK m \in B : \A y \in B : m <= y
    <2> HIDE DEF B
    <2> QED BY Zenon, <1>1, LeastNumber
  <1>3. m \in Nat /\ \A y \in t : y <= m
    BY <1>2
  <1>4. m \in t
    <2> SUFFICES ASSUME m \notin t PROVE FALSE
      OBVIOUS
    <2>1. PICK z \in t : TRUE BY Zenon
    <2>2. z \in 1..n OBVIOUS
    <2>3. m # 0 /\ m - 1 \in Nat
      BY <2>1, <2>2, <1>3
    <2>4. \A y \in t : y <= m - 1
      BY <1>3, <2>3
    <2>5. m - 1 \in B BY <2>3, <2>4
    <2> QED BY <2>5, <1>2, <1>3
  <1>5. \A y \in t : m >= y
    BY <1>3
  <1>6. \E x \in t : \A y \in t : x >= y
    BY <1>4, <1>5
  <1>7. Max(t) \in t /\ \A y \in t : Max(t) >= y
    BY <1>6, Zenon DEF Max
  <1> QED
    BY <1>7

-----------------------------------------------------------------------------
(* Fold.                                                                   *)

\* iter is the function that Fold applies to the first n indices of s: it
\* takes the largest index of a set last.
Iterates(iter, F, base, s, n) ==
  iter = [t \in SUBSET (1..n) |->
          IF t = {} THEN base ELSE F[iter[t \ {Max(t)}]][s[Max(t)]]]

\* Such a function on n indices can be continued to the next.
LEMMA IterStep ==
  ASSUME NEW F, NEW base, NEW s, NEW n \in Nat,
         NEW it, Iterates(it, F, base, s, n)
  PROVE  \E iter : Iterates(iter, F, base, s, n + 1)
  <1> DEFINE iter == [t \in SUBSET (1..(n + 1)) |->
                        IF n + 1 \in t
                        THEN F[it[t \ {n + 1}]][s[n + 1]] ELSE it[t]]
  <1>1. ASSUME NEW t \in SUBSET (1..(n + 1))
        PROVE  iter[t] = IF t = {} THEN base
                         ELSE F[iter[t \ {Max(t)}]][s[Max(t)]]
    <2>1. CASE n + 1 \in t
      <3>1. Max(t) = n + 1
        <4>1. Max(t) \in t /\ \A y \in t : y <= Max(t)
          <5>1. n + 1 \in Nat /\ t # {} BY <2>1
          <5> QED BY Zenon, <5>1, MaxIndex
        <4> HIDE DEF iter
        <4>2. n + 1 <= Max(t) /\ Max(t) \in 1..(n + 1) BY Zenon, <4>1, <2>1
        <4> QED BY <4>2
      <3>2. t \ {n + 1} \in SUBSET (1..(n + 1)) /\ n + 1 \notin t \ {n + 1}
        OBVIOUS
      <3>3. iter[t \ {n + 1}] = it[t \ {n + 1}]
        BY <3>2
      <3> QED BY <2>1, <3>1, <3>3
    <2>2. CASE n + 1 \notin t
      <3>1. t \in SUBSET (1..n)
        BY <2>2
      <3>2. iter[t] = it[t]
        BY <2>2
      <3>3. it[t] = IF t = {} THEN base ELSE F[it[t \ {Max(t)}]][s[Max(t)]]
        BY <3>1, Zenon DEF Iterates
      <3>4. t \ {Max(t)} \in SUBSET (1..(n + 1)) /\ n + 1 \notin t \ {Max(t)}
        BY Zenon, <2>2
      <3>5. iter[t \ {Max(t)}] = it[t \ {Max(t)}]
        BY <3>4
      <3> QED BY Zenon, <3>2, <3>3, <3>5
    <2> QED BY Zenon, <2>1, <2>2
  <1>2. iter = [t \in SUBSET (1..(n + 1)) |-> iter[t]]
    OBVIOUS
  <1>3. Iterates(iter, F, base, s, n + 1)
    <2> HIDE DEF iter
    <2> QED BY <1>1, <1>2, Zenon DEF Iterates
  <1> QED BY <1>3

\* There is such a function for every number of indices.
LEMMA IterExists ==
  ASSUME NEW F, NEW base, NEW s, NEW n \in Nat
  PROVE  \E iter : Iterates(iter, F, base, s, n)
  <1> DEFINE N == {k \in Nat : \E iter : Iterates(iter, F, base, s, k)}
  <1>1. 0 \in N
    <2> DEFINE iter == [t \in SUBSET (1..0) |-> base]
    <2>1. 1..0 = {} OBVIOUS
    <2>2. \A t \in SUBSET (1..0) : t = {}
      BY <2>1
    <2>3. Iterates(iter, F, base, s, 0)
      BY <2>2 DEF Iterates
    <2> QED BY <2>3
  <1>2. ASSUME NEW k \in Nat, k \in N PROVE k + 1 \in N
    BY <1>2, IterStep
  <1>3. \A k \in Nat : k \in N
    <2> HIDE DEF N
    <2> QED BY <1>1, <1>2, NumberInduction
  <1> QED BY <1>3

\* What Fold chooses.
LEMMA FoldIs ==
  ASSUME NEW F, NEW base, NEW s
  PROVE  Fold(F, base, s) = (CHOOSE iter : iter = [t \in SUBSET (DOMAIN s) |->
          IF t = {} THEN base ELSE F[iter[t \ {Max(t)}]][s[Max(t)]]])[DOMAIN s]
  BY DEF Fold, MapThenFoldSet

\* g[k] is the state after k elements.
Folds(g, F, base, s) ==
  /\ g[0] = base
  /\ \A k \in 1..Len(s) : g[k] = F[g[k - 1]][s[k]]

\* Fold goes through s from left to right.
LEMMA FoldSteps ==
  ASSUME NEW F, NEW base, NEW Y, NEW s \in Seq(Y)
  PROVE  \E g : Folds(g, F, base, s) /\ Fold(F, base, s) = g[Len(s)]
  <1> DEFINE iter == CHOOSE iter : Iterates(iter, F, base, s, Len(s))
  <1>1. Iterates(iter, F, base, s, Len(s))
    <2>1. Len(s) \in Nat OBVIOUS
    <2>2. \E it : Iterates(it, F, base, s, Len(s)) BY Zenon, <2>1, IterExists
    <2> QED BY <2>2, Zenon
  <1>2. Fold(F, base, s) = iter[1..Len(s)]
    <2>1. DOMAIN s = 1..Len(s) OBVIOUS
    <2> QED BY <2>1, FoldIs, Zenon DEF Iterates
  <1> HIDE DEF iter
  <1> DEFINE g == [k \in 0..Len(s) |-> iter[1..k]]
  <1>3. g[0] = base
    <2>1. 1..0 = {} /\ {} \in SUBSET (1..Len(s)) /\ 0 \in 0..Len(s) OBVIOUS
    <2>2. iter[{}] = base BY <1>1, <2>1 DEF Iterates
    <2> QED BY <2>1, <2>2
  <1>4. ASSUME NEW k \in 1..Len(s) PROVE g[k] = F[g[k - 1]][s[k]]
    <2>1. 1..k \in SUBSET (1..Len(s)) /\ 1..k # {} /\ k \in 0..Len(s)
          /\ k - 1 \in 0..Len(s) /\ (1..k) \ {k} = 1..(k - 1)
      OBVIOUS
    <2>2. Max(1..k) = k
      <3>1. Max(1..k) \in 1..k /\ \A y \in 1..k : y <= Max(1..k)
        <4>1. k \in Nat /\ 1..k \in SUBSET (1..k) OBVIOUS
        <4> QED BY Zenon, <2>1, <4>1, MaxIndex
      <3> QED BY <3>1
    <2>3. iter[1..k] = F[iter[(1..k) \ {Max(1..k)}]][s[Max(1..k)]]
      BY <1>1, <2>1, Zenon DEF Iterates
    <2>4. g[k] = iter[1..k] /\ g[k - 1] = iter[1..(k - 1)]
      BY Zenon, <2>1
    <2> HIDE DEF g
    <2> QED BY Zenon, <2>1, <2>2, <2>3, <2>4
  <1>5. Len(s) \in 0..Len(s) OBVIOUS
  <1> QED BY Zenon, <1>2, <1>3, <1>4, <1>5 DEF Folds

\* A loop over nothing leaves the state alone.
LEMMA FoldEmpty ==
  ASSUME NEW F, NEW base
  PROVE  Fold(F, base, <<>>) = base
  <1>1. <<>> \in Seq({}) /\ Len(<<>>) = 0 OBVIOUS
  <1>2. PICK g : Folds(g, F, base, <<>>) /\ Fold(F, base, <<>>) = g[0]
    BY Zenon, <1>1, FoldSteps
  <1> QED BY <1>2 DEF Folds

\* What happens in the first elements does not depend on those that follow.
LEMMA FoldsAgree ==
  ASSUME NEW F, NEW base, NEW Y, NEW s \in Seq(Y), NEW y \in Y,
         NEW g, Folds(g, F, base, s),
         NEW h, Folds(h, F, base, Append(s, y))
  PROVE  h[Len(s)] = g[Len(s)]
  <1> DEFINE N == {k \in Nat : k <= Len(s) => h[k] = g[k]}
  <1>1. 0 \in N
    BY DEF Folds
  <1>2. ASSUME NEW k \in Nat, k \in N PROVE k + 1 \in N
    <2> SUFFICES ASSUME k + 1 <= Len(s) PROVE h[k + 1] = g[k + 1]
      OBVIOUS
    <2>1. k + 1 \in 1..Len(s) /\ (k + 1) - 1 = k /\ k <= Len(s)
      OBVIOUS
    <2>2. /\ k + 1 \in 1..Len(Append(s, y))
          /\ Append(s, y)[k + 1] = s[k + 1]
      BY <2>1
    <2>3. g[k + 1] = F[g[k]][s[k + 1]]
      BY <2>1 DEF Folds
    <2>4. h[k + 1] = F[h[k]][s[k + 1]]
      BY <2>1, <2>2 DEF Folds
    <2>5. h[k] = g[k]
      BY <1>2, <2>1
    <2> QED BY <2>3, <2>4, <2>5
  <1>3. \A k \in Nat : k \in N
    <2> HIDE DEF N
    <2> QED BY <1>1, <1>2, NumberInduction
  <1> QED BY <1>3

\* The last element is the last step of the loop.
LEMMA FoldAppend ==
  ASSUME NEW F, NEW base, NEW Y, NEW s \in Seq(Y), NEW y \in Y
  PROVE  Fold(F, base, Append(s, y)) = F[Fold(F, base, s)][y]
  <1>1. /\ Append(s, y) \in Seq(Y)
        /\ Len(Append(s, y)) = Len(s) + 1
        /\ Append(s, y)[Len(s) + 1] = y
        /\ Len(s) + 1 \in 1..(Len(s) + 1)
        /\ (Len(s) + 1) - 1 = Len(s)
    OBVIOUS
  <1>2. PICK g : Folds(g, F, base, s) /\ Fold(F, base, s) = g[Len(s)]
    BY FoldSteps
  <1>3. PICK h : Folds(h, F, base, Append(s, y))
                 /\ Fold(F, base, Append(s, y)) = h[Len(Append(s, y))]
    BY Zenon, <1>1, FoldSteps
  <1>4. h[Len(s)] = g[Len(s)]
    BY <1>2, <1>3, FoldsAgree
  <1>5. h[Len(s) + 1] = F[h[Len(s)]][y]
    BY <1>1, <1>3 DEF Folds
  <1> QED BY <1>1, <1>2, <1>3, <1>4, <1>5

\* A loop whose steps stay in a set stays in it.
LEMMA FoldType ==
  ASSUME NEW F, NEW X, NEW Y, \A x \in X, y \in Y : F[x][y] \in X,
         NEW base \in X, NEW s \in Seq(Y)
  PROVE  Fold(F, base, s) \in X
  <1> DEFINE S == {r \in Seq(Y) : Fold(F, base, r) \in X}
  <1>1. <<>> \in S
    BY FoldEmpty
  <1>2. ASSUME NEW r \in Seq(Y), NEW y \in Y, r \in S PROVE Append(r, y) \in S
    <2>1. Append(r, y) \in Seq(Y) OBVIOUS
    <2>2. Fold(F, base, Append(r, y)) = F[Fold(F, base, r)][y]
      BY FoldAppend
    <2> QED BY <1>2, <2>1, <2>2
  <1>3. \A r \in Seq(Y) : r \in S
    <2> HIDE DEF S
    <2> QED BY <1>1, <1>2, SequenceInduction
  <1> QED BY <1>3

-----------------------------------------------------------------------------
(* llhttp and the loop of parse: types, and what the end of a message is.  *)

\* Joining pieces and a block is concatenation.
LEMMA JoinedIs ==
  ASSUME NEW x \in Seq(Pieces), NEW block \in Seq(Pieces)
  PROVE  Joined[x][block] = x \o block /\ Joined[x][block] \in Seq(Pieces)
  BY DEF Joined

\* An IOBuf without blocks has no bytes.
LEMMA ContentsEmpty == Contents(<<>>) = <<>>
  BY FoldEmpty DEF Contents

\* The bytes of an IOBuf of any blocks are a sequence of pieces.
LEMMA ContentsType ==
  ASSUME NEW buf \in Seq(Seq(Pieces))
  PROVE  Contents(buf) \in Seq(Pieces)
  <1>1. \A x \in Seq(Pieces), y \in Seq(Pieces) : Joined[x][y] \in Seq(Pieces)
    BY JoinedIs
  <1>2. <<>> \in Seq(Pieces) OBVIOUS
  <1>3. Fold(Joined, <<>>, buf) \in Seq(Pieces)
    BY Zenon, <1>1, <1>2, FoldType
  <1> QED BY <1>3 DEF Contents

\* A block that is appended comes last.
LEMMA ContentsAppend ==
  ASSUME NEW buf \in Seq(Seq(Pieces)), NEW block \in Seq(Pieces)
  PROVE  Contents(Append(buf, block)) = Contents(buf) \o block
  <1>1. Contents(Append(buf, block)) = Joined[Contents(buf)][block]
    BY FoldAppend DEF Contents
  <1>2. Contents(buf) \in Seq(Pieces)
    BY ContentsType
  <1> QED BY <1>1, <1>2, JoinedIs

\* At the end of a message the parser is complete and has not failed, whether it
\* pauses on an upgrade, goes on or is closed.
LEMMA MessageCompleteType ==
  ASSUME NEW p \in Parsers
  PROVE  /\ MessageComplete(p) \in Parsers
         /\ MessageComplete(p).consumed = p.consumed
         /\ MessageComplete(p).complete
         /\ MessageComplete(p).at # "failed"
  <1>1. CASE upgrade(p)
    BY Zenon, <1>1 DEF MessageComplete, Parsers
  <1>2. CASE ~upgrade(p)
    <2> DEFINE q == [p EXCEPT !.complete = TRUE]
    <2>1. q \in Parsers /\ q.consumed = p.consumed /\ q.complete
      BY Zenon DEF Parsers
    <2>2. MessageComplete(p) = llhttp__after_message_complete(q)
      BY Zenon, <1>2 DEF MessageComplete
    <2> HIDE DEF q
    <2>3. CASE llhttp_should_keep_alive(q)
      BY Zenon, <2>1, <2>2, <2>3 DEF llhttp__after_message_complete, Parsers
    <2>4. CASE ~llhttp_should_keep_alive(q)
      BY Zenon, <2>1, <2>2, <2>4 DEF llhttp__after_message_complete, Parsers
    <2> QED BY <2>3, <2>4
  <1> QED BY <1>1, <1>2

\* llhttp_execute on a tail where one is expected ends the message.
LEMMA ExecuteTail ==
  ASSUME NEW p \in Parsers, NEW piece \in Pieces, p.at = "message",
         piece.part = "tail"
  PROVE  /\ ExecutePiece(p, piece) \in Parsers
         /\ ExecutePiece(p, piece).consumed = p.consumed + 1
         /\ ExecutePiece(p, piece).complete
         /\ ExecutePiece(p, piece).at # "failed"
  <1> DEFINE q == Headers(p, piece.request)
  <1>1. q \in Parsers /\ q.consumed = p.consumed + 1
    <2>1. /\ {piece.request.connection}
               \in SUBSET {"none", "close", "keep-alive", "upgrade"}
          /\ p.consumed + 1 \in Nat
      BY DEF Parsers, Pieces, Requests
    <2> QED BY Zenon, <2>1 DEF Headers, Parsers
  <1>2. ExecutePiece(p, piece) = MessageComplete(q)
    BY DEF ExecutePiece
  <1> HIDE DEF q
  <1> QED BY <1>1, <1>2, MessageCompleteType

\* llhttp_execute on a head where a request line is expected begins a message.
LEMMA ExecuteHead ==
  ASSUME NEW p \in Parsers, NEW piece \in Pieces, p.at = "start",
         piece.part = "head"
  PROVE  /\ ExecutePiece(p, piece) \in Parsers
         /\ ExecutePiece(p, piece).consumed = p.consumed + 1
         /\ ExecutePiece(p, piece).complete = p.complete
         /\ ExecutePiece(p, piece).at = "message"
  <1> DEFINE q == RequestLine(p, piece.request)
  <1>1. /\ q \in Parsers /\ q.consumed = p.consumed + 1
        /\ q.complete = p.complete /\ q.at = "message"
    <2>1. piece.request.http11 \in BOOLEAN /\ p.consumed + 1 \in Nat
      BY DEF Parsers, Pieces, Requests
    <2> QED BY Zenon, <2>1 DEF RequestLine, Parsers
  <1>2. ExecutePiece(p, piece) = q
    BY DEF ExecutePiece
  <1> QED BY <1>1, <1>2

\* Whatever the piece, llhttp_execute leaves a parser, which has consumed at
\* most that piece; a head never completes a message.
LEMMA ExecutePieceType ==
  ASSUME NEW p \in Parsers, NEW piece \in Pieces
  PROVE  /\ ExecutePiece(p, piece) \in Parsers
         /\ ExecutePiece(p, piece).consumed <= p.consumed + 1
         /\ piece.part = "head" => ExecutePiece(p, piece).complete = p.complete
  <1>0. p.consumed \in Nat BY DEF Parsers
  <1>1. CASE p.at \in {"paused", "failed"}
    BY <1>0, <1>1 DEF ExecutePiece
  <1>2. CASE p.at = "start" /\ piece.part = "head"
    BY <1>0, <1>2, ExecuteHead
  <1>3. CASE p.at = "message" /\ piece.part = "tail"
    BY <1>0, <1>3, ExecuteTail
  <1>4. CASE ~ \/ p.at \in {"paused", "failed"}
               \/ p.at = "start" /\ piece.part = "head"
               \/ p.at = "message" /\ piece.part = "tail"
    <2> DEFINE q == Failed(p)
    <2>1. q \in Parsers /\ q.consumed = p.consumed /\ q.complete = p.complete
      BY DEF Failed, Parsers
    <2>2. ExecutePiece(p, piece) = q
      BY <1>4 DEF ExecutePiece
    <2> HIDE DEF q
    <2> QED BY <1>0, <2>1, <2>2
  <1> QED BY <1>1, <1>2, <1>3, <1>4

\* The blocks of an IOBuf: none is empty.
Blocks == Seq(Pieces) \ {<<>>}

\* Pieces that end no message.
Heads == {piece \in Pieces : piece.part = "head"}

\* The parsers that have not seen the end of a message.
Unfinished == {p \in Parsers : ~p.complete}

\* A sequence all of whose elements are in T is a sequence over T.
LEMMA Retyped ==
  ASSUME NEW S, NEW T, NEW s \in Seq(S), \A i \in 1..Len(s) : s[i] \in T
  PROVE  s \in Seq(T)
  OBVIOUS

\* The function that parse folds over a block is llhttp_execute.
LEMMA ExecutedIs ==
  ASSUME NEW p \in Parsers, NEW piece \in Pieces
  PROVE  Executed[p][piece] = ExecutePiece(p, piece)
  BY DEF Executed

\* The function that parse folds over a buffer is the body of its loop.
LEMMA BlockExecutedIs ==
  ASSUME NEW p \in Parsers, NEW block \in Seq(Pieces)
  PROVE  BlockExecuted[p][block] = ExecuteBlock(p, block)
  BY DEF BlockExecuted

\* The body of parse's loop leaves a parser.
LEMMA ExecuteBlockType ==
  ASSUME NEW p \in Parsers, NEW block \in Seq(Pieces)
  PROVE  ExecuteBlock(p, block) \in Parsers
  <1>1. \A q \in Parsers, piece \in Pieces : Executed[q][piece] \in Parsers
    BY ExecutedIs, ExecutePieceType
  <1>2. Fold(Executed, p, block) \in Parsers
    BY <1>1, FoldType
  <1> QED BY <1>2 DEF ExecuteBlock

\* A block of heads does not complete a message.
LEMMA HeadsUnfinished ==
  ASSUME NEW p \in Unfinished, NEW block \in Seq(Heads)
  PROVE  ExecuteBlock(p, block) \in Unfinished
  <1>1. \A q \in Unfinished, piece \in Heads : Executed[q][piece] \in Unfinished
    BY ExecutedIs, ExecutePieceType DEF Unfinished, Heads
  <1>2. Fold(Executed, p, block) \in Unfinished
    BY <1>1, FoldType
  <1> QED BY <1>2 DEF ExecuteBlock

\* The loop of parse leaves a parser, for every buffer.
LEMMA ParseType ==
  ASSUME NEW buf \in Seq(Seq(Pieces))
  PROVE  Fold(BlockExecuted, reset, buf) \in Parsers
  <1>1. \A q \in Parsers, block \in Seq(Pieces) :
          BlockExecuted[q][block] \in Parsers
    BY BlockExecutedIs, ExecuteBlockType
  <1>2. reset \in Parsers
    BY DEF reset, Parsers
  <1> QED BY <1>1, <1>2, FoldType

\* A buffer of heads does not complete a message.
LEMMA ParseHeads ==
  ASSUME NEW buf \in Seq(Seq(Heads))
  PROVE  Fold(BlockExecuted, reset, buf) \in Unfinished
  <1>1. \A q \in Unfinished, block \in Seq(Heads) :
          BlockExecuted[q][block] \in Unfinished
    <2> SUFFICES ASSUME NEW q \in Unfinished, NEW block \in Seq(Heads)
                 PROVE  BlockExecuted[q][block] \in Unfinished
      OBVIOUS
    <2>1. q \in Parsers /\ block \in Seq(Pieces)
      BY DEF Unfinished, Heads
    <2> QED BY <2>1, BlockExecutedIs, HeadsUnfinished
  <1>2. reset \in Unfinished
    BY DEF reset, Parsers, Unfinished
  <1> QED BY <1>1, <1>2, FoldType

\* If all pieces of a buffer are heads, all its blocks are blocks of heads.
LEMMA ContentsHeads ==
  ASSUME NEW buf \in Seq(Seq(Pieces)), Contents(buf) \in Seq(Heads)
  PROVE  buf \in Seq(Seq(Heads))
  <1> DEFINE S == {b \in Seq(Seq(Pieces)) :
                     Contents(b) \in Seq(Heads) => b \in Seq(Seq(Heads))}
  <1>1. <<>> \in S
    OBVIOUS
  <1>2. ASSUME NEW b \in Seq(Seq(Pieces)), NEW block \in Seq(Pieces), b \in S
        PROVE  Append(b, block) \in S
    <2>1. Append(b, block) \in Seq(Seq(Pieces))
      OBVIOUS
    <2> SUFFICES ASSUME Contents(Append(b, block)) \in Seq(Heads)
                 PROVE  Append(b, block) \in Seq(Seq(Heads))
      BY <2>1
    <2>2. Contents(Append(b, block)) = Contents(b) \o block
      BY ContentsAppend
    <2>3. Contents(b) \in Seq(Pieces)
      BY ContentsType
    <2> DEFINE f == Contents(b)
    <2>4. f \in Seq(Pieces) /\ f \o block \in Seq(Heads)
      BY <2>2, <2>3
    <2> HIDE DEF f
    <2>5. f \in Seq(Heads)
      <3>1. \A i \in 1..Len(f) : f[i] = (f \o block)[i]
        BY <2>4
      <3>2. \A i \in 1..Len(f) : f[i] \in Heads
        BY <2>4, <3>1
      <3> QED BY <2>4, <3>2, Retyped
    <2>6. block \in Seq(Heads)
      <3>1. \A i \in 1..Len(block) : block[i] = (f \o block)[Len(f) + i]
        BY <2>4
      <3>2. \A i \in 1..Len(block) : block[i] \in Heads
        BY <2>4, <3>1
      <3> QED BY <3>2, Retyped
    <2> QED BY <1>2, <2>5, <2>6 DEF f
  <1>3. \A b \in Seq(Seq(Pieces)) : b \in S
    <2> HIDE DEF S
    <2> QED BY <1>1, <1>2, SequenceInduction
  <1> QED BY <1>3

\* parse succeeds only if a message is complete, and reports a number of pieces
\* no larger than what llhttp has consumed.
LEMMA ResultIs ==
  ASSUME NEW p \in Parsers
  PROVE  /\ Result(p).status = "success" => p.complete
         /\ Result(p).consumed \in Nat
         /\ Result(p).consumed <= p.consumed
         /\ Result(p).keep_alive \in BOOLEAN
  <1>1. p.consumed \in Nat /\ p.http11 \in BOOLEAN
    BY DEF Parsers
  <1>2. llhttp_should_keep_alive(p) \in BOOLEAN
    <2>1. /\ ("close" \notin p.flags) \in BOOLEAN
          /\ ("keep-alive" \in p.flags) \in BOOLEAN
      BY SMT
    <2> QED BY <1>1, <2>1, Zenon DEF llhttp_should_keep_alive
  <1>3. CASE p.at = "failed"
    BY <1>1, <1>3 DEF Result
  <1>4. CASE p.at # "failed"
    <2> DEFINE k == llhttp_should_keep_alive(p)
               s == IF p.complete THEN "success" ELSE "need_more"
    <2>1. Result(p) = [status |-> s, consumed |-> p.consumed, keep_alive |-> k]
      BY <1>4 DEF Result
    <2>2. s = "success" => p.complete
      OBVIOUS
    <2>3. k \in BOOLEAN
      BY <1>2
    <2> HIDE DEF k, s
    <2> QED BY <1>1, <2>1, <2>2, <2>3
  <1> QED BY <1>3, <1>4

\* If parse succeeds, a request ends somewhere in the buffer.
LEMMA SuccessHasTail ==
  ASSUME NEW buf \in Seq(Seq(Pieces)), parse(buf).status = "success"
  PROVE  \E i \in 1..Len(Contents(buf)) : Contents(buf)[i].part = "tail"
  <1> DEFINE flat == Contents(buf)
  <1>1. flat \in Seq(Pieces)
    BY ContentsType
  <1>2. Fold(BlockExecuted, reset, buf).complete
    BY ParseType, ResultIs DEF parse
  <1>3. flat \notin Seq(Heads)
    <2> SUFFICES ASSUME flat \in Seq(Heads) PROVE FALSE
      OBVIOUS
    <2>1. buf \in Seq(Seq(Heads))
      BY ContentsHeads
    <2> QED BY <1>2, <2>1, ParseHeads DEF Unfinished
  <1> HIDE DEF flat
  <1>4. PICK i \in 1..Len(flat) : flat[i] \notin Heads
    BY <1>1, <1>3, Retyped
  <1>5. flat[i] \in Pieces
    BY <1>1, <1>4
  <1>6. flat[i].part = "tail"
    BY <1>4, <1>5 DEF Heads, Pieces
  <1> QED BY <1>4, <1>6 DEF flat

-----------------------------------------------------------------------------
(* pop_front.                                                              *)

\* What pop_front has still to drop, and the blocks it has kept.
Rests == [n: Nat, buf: Seq(Blocks)]

\* The function that pop_front folds over a buffer is the body of its loop.
LEMMA FrontPoppedIs ==
  ASSUME NEW rest \in [n: Nat, buf: Seq(Seq(Pieces))], NEW block \in Seq(Pieces)
  PROVE  FrontPopped[rest][block] = PopFrontBlock(rest, block)
  BY DEF FrontPopped

\* The body of pop_front's loop keeps no empty block and never counts below
\* zero.
LEMMA PopFrontBlockType ==
  ASSUME NEW rest \in Rests, NEW block \in Blocks
  PROVE  /\ FrontPopped[rest][block] = PopFrontBlock(rest, block)
         /\ PopFrontBlock(rest, block) \in Rests
  <1>1. rest.n \in Nat /\ rest.buf \in Seq(Blocks) /\ block \in Seq(Pieces)
    BY DEF Rests, Blocks
  <1>2. rest \in [n: Nat, buf: Seq(Seq(Pieces))]
    <2>1. rest.buf \in Seq(Seq(Pieces))
      BY <1>1 DEF Blocks
    <2> QED BY <1>1, <2>1 DEF Rests
  <1>3. CASE rest.n >= Len(block)
    <2>1. rest.n - Len(block) \in Nat
      BY <1>1, <1>3
    <2>2. PopFrontBlock(rest, block) = [rest EXCEPT !.n = rest.n - Len(block)]
      BY <1>3 DEF PopFrontBlock
    <2>3. PopFrontBlock(rest, block) \in Rests
      BY <2>1, <2>2 DEF Rests
    <2> QED BY <1>1, <1>2, <2>3, FrontPoppedIs
  <1>4. CASE ~(rest.n >= Len(block))
    <2> DEFINE cut == SubSeq(block, rest.n + 1, Len(block))
    <2>1. cut \in Seq(Pieces) /\ Len(cut) # 0
      BY <1>1, <1>4
    <2>2. cut \in Blocks
      <3> HIDE DEF cut
      <3>1. cut # <<>> BY <2>1
      <3> QED BY <2>1, <3>1 DEF Blocks
    <2>3. PopFrontBlock(rest, block) = [n |-> 0, buf |-> Append(rest.buf, cut)]
      BY <1>4 DEF PopFrontBlock
    <2> HIDE DEF cut
    <2>4. Append(rest.buf, cut) \in Seq(Blocks)
      BY <1>1, <2>2
    <2>5. PopFrontBlock(rest, block) \in Rests
      BY <2>3, <2>4 DEF Rests
    <2> QED BY <1>1, <1>2, <2>5, FrontPoppedIs
  <1> QED BY <1>3, <1>4

\* pop_front leaves a buffer without empty blocks.
LEMMA PopFrontType ==
  ASSUME NEW buf \in Seq(Blocks), NEW n \in Nat
  PROVE  /\ Fold(FrontPopped, [n |-> n, buf |-> <<>>], buf) \in Rests
         /\ pop_front(buf, n) \in Seq(Blocks)
  <1>1. \A rest \in Rests, block \in Blocks : FrontPopped[rest][block] \in Rests
    BY PopFrontBlockType
  <1>2. [n |-> n, buf |-> <<>>] \in Rests
    BY DEF Rests
  <1>3. Fold(FrontPopped, [n |-> n, buf |-> <<>>], buf) \in Rests
    BY <1>1, <1>2, FoldType
  <1> QED BY <1>3 DEF pop_front, Rests

\* s is what is left of u when its first n elements are gone.
LeftOf(s, u, n) == s = SubSeq(u, n + 1, Len(u))

\* Of a sequence of at most n elements, nothing is left.
LEMMA NothingLeftOf ==
  ASSUME NEW u \in Seq(Pieces), NEW n \in Nat, n >= Len(u)
  PROVE  LeftOf(<<>>, u, n)
  BY DEF LeftOf

\* If all of u goes, and k elements of b after it, the rest of b is left.
LEMMA LeftOfPart ==
  ASSUME NEW u \in Seq(Pieces), NEW b \in Seq(Pieces), NEW n \in Nat,
         n >= Len(u), NEW k \in Nat, k = n - Len(u)
  PROVE  LeftOf(SubSeq(b, k + 1, Len(b)), u \o b, n)
  BY DEF LeftOf

\* The length and the elements of a concatenation.
LEMMA ConcatFacts ==
  ASSUME NEW X, NEW u \in Seq(X), NEW b \in Seq(X), NEW w, w = u \o b
  PROVE  /\ w \in Seq(X) /\ Len(w) = Len(u) + Len(b)
         /\ \A i \in 1..Len(u) : w[i] = u[i]
         /\ \A i \in 1..Len(b) : w[Len(u) + i] = b[i]
  OBVIOUS

\* If only elements of u go, what is left of u is followed by all of b.
LEMMA LeftOfBoth ==
  ASSUME NEW u \in Seq(Pieces), NEW b \in Seq(Pieces), NEW n \in Nat,
         n <= Len(u), NEW s \in Seq(Pieces), LeftOf(s, u, n)
  PROVE  LeftOf(s \o b, u \o b, n)
  <1> DEFINE l == s \o b
             w == u \o b
             r == SubSeq(w, n + 1, Len(w))
  <1>1. /\ Len(s) = Len(u) - n
        /\ \A i \in 1..Len(s) : s[i] = u[n + i]
    BY DEF LeftOf
  <1>2. /\ w \in Seq(Pieces) /\ Len(w) = Len(u) + Len(b)
        /\ \A i \in 1..Len(u) : w[i] = u[i]
        /\ \A i \in 1..Len(b) : w[Len(u) + i] = b[i]
    BY ConcatFacts
  <1>3. /\ l \in Seq(Pieces) /\ Len(l) = Len(s) + Len(b)
        /\ \A i \in 1..Len(s) : l[i] = s[i]
        /\ \A i \in 1..Len(b) : l[Len(s) + i] = b[i]
    BY ConcatFacts
  <1>4. /\ r \in Seq(Pieces) /\ Len(r) = Len(w) - n
        /\ \A i \in 1..Len(r) : r[i] = w[n + i]
    <2> HIDE DEF w
    <2> QED BY <1>2
  <1> HIDE DEF l, w, r
  <1>5. Len(l) = Len(r)
    BY <1>1, <1>2, <1>3, <1>4
  <1>6. ASSUME NEW i \in 1..Len(l) PROVE l[i] = r[i]
    <2>1. CASE i <= Len(s)
      <3>1. i \in 1..Len(s) /\ n + i \in 1..Len(u)
        BY <1>1, <2>1
      <3> QED BY <1>1, <1>2, <1>3, <1>4, <1>5, <3>1
    <2>2. CASE i > Len(s)
      <3> DEFINE j == i - Len(s)
      <3>1. /\ j \in 1..Len(b) /\ i = Len(s) + j /\ n + i = Len(u) + j
        BY <1>1, <1>3, <2>2
      <3> HIDE DEF j
      <3>2. l[i] = b[j] /\ w[n + i] = b[j]
        BY <1>2, <1>3, <3>1
      <3> QED BY <1>4, <1>5, <3>2
    <2> QED BY <1>1, <2>1, <2>2
  <1>7. l = r
    BY <1>3, <1>4, <1>5, <1>6
  <1> QED BY Zenon, <1>7 DEF LeftOf, l, r, w

\* If u has at most n elements, what is left of it is empty.
LEMMA LeftOfShort ==
  ASSUME NEW u \in Seq(Pieces), NEW n \in Nat, n >= Len(u), NEW s,
         LeftOf(s, u, n)
  PROVE  s = <<>>
  BY DEF LeftOf

\* The part from the first to the last element is the whole.
LEMMA WholeBlock ==
  ASSUME NEW b \in Seq(Pieces)
  PROVE  SubSeq(b, 1, Len(b)) = b
  OBVIOUS

\* Where pop_front's loop is after the blocks whose pieces are flat: it has
\* still to drop what exceeds them, or it has dropped n pieces and kept the
\* others.
PoppedTo(rest, flat, n) ==
  /\ rest.n = IF n >= Len(flat) THEN n - Len(flat) ELSE 0
  /\ LeftOf(Contents(rest.buf), flat, n)

\* The body of pop_front's loop keeps that, whether the block goes, is cut or
\* stays whole.
LEMMA PoppedStep ==
  ASSUME NEW rest \in Rests, NEW block \in Blocks, NEW flat \in Seq(Pieces),
         NEW n \in Nat, PoppedTo(rest, flat, n)
  PROVE  PoppedTo(PopFrontBlock(rest, block), flat \o block, n)
  <1>1. /\ rest.n \in Nat /\ rest.buf \in Seq(Blocks)
        /\ block \in Seq(Pieces) /\ Len(block) \in Nat \ {0}
    BY DEF Rests, Blocks
  <1>2. rest.buf \in Seq(Seq(Pieces))
    BY <1>1 DEF Blocks
  <1>3. /\ Len(flat \o block) = Len(flat) + Len(block)
        /\ flat \o block \in Seq(Pieces)
    BY <1>1
  <1>4. CASE rest.n >= Len(block)
    <2>1. n >= Len(flat) /\ rest.n = n - Len(flat)
      BY <1>1, <1>4 DEF PoppedTo
    <2> DEFINE new == PopFrontBlock(rest, block)
    <2>2. new.n = rest.n - Len(block) /\ new.buf = rest.buf
      BY <1>4 DEF PopFrontBlock, Rests
    <2>3. Contents(rest.buf) = <<>>
      BY <2>1, LeftOfShort DEF PoppedTo
    <2>4. n >= Len(flat \o block) /\ new.n = n - Len(flat \o block)
      BY <1>1, <1>3, <1>4, <2>1, <2>2
    <2>5. LeftOf(<<>>, flat \o block, n)
      BY Zenon, <1>3, <2>4, NothingLeftOf
    <2> HIDE DEF new
    <2>6. PoppedTo(new, flat \o block, n)
      BY <2>2, <2>3, <2>4, <2>5 DEF PoppedTo
    <2> QED BY <2>6 DEF new
  <1>5. CASE ~(rest.n >= Len(block))
    <2> DEFINE cut == SubSeq(block, rest.n + 1, Len(block))
               new == PopFrontBlock(rest, block)
    <2>1. new.n = 0 /\ new.buf = Append(rest.buf, cut)
      BY Zenon, <1>5 DEF PopFrontBlock
    <2>2. cut \in Seq(Pieces)
      BY <1>1
    <2>3. Contents(new.buf) = Contents(rest.buf) \o cut
      <3> HIDE DEF cut, new
      <3> QED BY <1>2, <2>1, <2>2, ContentsAppend
    <2>4. n < Len(flat \o block)
      BY <1>1, <1>3, <1>5 DEF PoppedTo
    <2>5. LeftOf(Contents(rest.buf) \o cut, flat \o block, n)
      <3>1. CASE n >= Len(flat)
        <4>1. rest.n = n - Len(flat)
          BY <3>1 DEF PoppedTo
        <4>2. Contents(rest.buf) = <<>>
          BY <3>1, LeftOfShort DEF PoppedTo
        <4>3. Contents(rest.buf) \o cut = cut
          <5> HIDE DEF cut
          <5> QED BY <4>2, <2>2
        <4>4. LeftOf(cut, flat \o block, n)
          BY Zenon, <1>1, <3>1, <4>1, LeftOfPart
        <4> QED BY Zenon, <4>3, <4>4
      <3>2. CASE ~(n >= Len(flat))
        <4>1. rest.n = 0
          BY <3>2 DEF PoppedTo
        <4>2. cut = block
          BY <1>1, <4>1, WholeBlock
        <4>3. LeftOf(Contents(rest.buf) \o block, flat \o block, n)
          <5>1. Contents(rest.buf) \in Seq(Pieces)
            BY <1>2, ContentsType
          <5>2. n <= Len(flat) /\ LeftOf(Contents(rest.buf), flat, n)
            BY <3>2 DEF PoppedTo
          <5> QED BY <1>1, <5>1, <5>2, LeftOfBoth
        <4> QED BY Zenon, <4>2, <4>3
      <3> QED BY <3>1, <3>2
    <2> HIDE DEF cut, new
    <2>6. PoppedTo(new, flat \o block, n)
      BY <1>3, <2>1, <2>3, <2>4, <2>5 DEF PoppedTo
    <2> QED BY <2>6 DEF new
  <1> QED BY <1>4, <1>5

\* pop_front drops the first n pieces and no other, whatever blocks they are in,
\* and leaves no block empty.
THEOREM PopFrontDrops ==
  ASSUME NEW buf \in Seq(Blocks), NEW n \in Nat
  PROVE  /\ pop_front(buf, n) \in Seq(Blocks)
         /\ Contents(pop_front(buf, n))
              = SubSeq(Contents(buf), n + 1, Len(Contents(buf)))
  <1> DEFINE base == [n |-> n, buf |-> <<>>]
             S == {b \in Seq(Blocks) :
                     PoppedTo(Fold(FrontPopped, base, b), Contents(b), n)}
  <1>1. <<>> \in S
    <2>1. Fold(FrontPopped, base, <<>>) = base /\ Contents(<<>>) = <<>>
      BY FoldEmpty, ContentsEmpty
    <2>2. base.n = n /\ base.buf = <<>> /\ Len(<<>>) = 0 /\ <<>> \in Seq(Pieces)
      OBVIOUS
    <2>3. LeftOf(<<>>, <<>>, n)
      <3>1. n >= Len(<<>>) BY <2>2
      <3> QED BY <2>2, <3>1, NothingLeftOf, Zenon
    <2>4. PoppedTo(base, <<>>, n)
      BY <2>1, <2>2, <2>3 DEF PoppedTo
    <2> HIDE DEF base
    <2> QED BY <2>1, <2>4
  <1>2. ASSUME NEW b \in Seq(Blocks), NEW block \in Blocks, b \in S
        PROVE  Append(b, block) \in S
    <2>1. b \in Seq(Seq(Pieces)) /\ block \in Seq(Pieces)
      BY DEF Blocks
    <2> DEFINE rest == Fold(FrontPopped, base, b)
               flat == Contents(b)
    <2>2. rest \in Rests
      BY PopFrontType
    <2>3. flat \in Seq(Pieces)
      BY <2>1, ContentsType
    <2>4. PoppedTo(rest, flat, n)
      BY <1>2
    <2>5. Contents(Append(b, block)) = flat \o block
      BY <2>1, ContentsAppend
    <2>6. Fold(FrontPopped, base, Append(b, block)) = FrontPopped[rest][block]
      BY FoldAppend
    <2>7. Append(b, block) \in Seq(Blocks)
      OBVIOUS
    <2> HIDE DEF rest, flat, base
    <2>8. FrontPopped[rest][block] = PopFrontBlock(rest, block)
      BY <2>2, PopFrontBlockType
    <2>9. PoppedTo(PopFrontBlock(rest, block), flat \o block, n)
      BY <2>2, <2>3, <2>4, PoppedStep
    <2> QED BY Zenon, <2>5, <2>6, <2>7, <2>8, <2>9
  <1>3. \A b \in Seq(Blocks) : b \in S
    <2> HIDE DEF S
    <2> QED BY <1>1, <1>2, SequenceInduction
  <1>4. PoppedTo(Fold(FrontPopped, base, buf), Contents(buf), n)
    BY <1>3
  <1>5. LeftOf(Contents(pop_front(buf, n)), Contents(buf), n)
    BY <1>4 DEF PoppedTo, pop_front
  <1> QED BY Zenon, <1>5, PopFrontType DEF LeftOf

-----------------------------------------------------------------------------
(* What parse consumes, and how it reads a single request.                 *)

\* llhttp never consumes more of a block than there is.
LEMMA BlockConsumed ==
  ASSUME NEW p \in Parsers, NEW block \in Seq(Pieces)
  PROVE  ExecuteBlock(p, block).consumed <= p.consumed + Len(block)
  <1> DEFINE S == {b \in Seq(Pieces) :
                     Fold(Executed, p, b).consumed <= p.consumed + Len(b)}
  <1>0. p.consumed \in Nat
    BY DEF Parsers
  <1>1. <<>> \in S
    <2>1. Fold(Executed, p, <<>>) = p
      BY FoldEmpty
    <2> QED BY <1>0, <2>1
  <1>2. ASSUME NEW b \in Seq(Pieces), NEW piece \in Pieces, b \in S
        PROVE  Append(b, piece) \in S
    <2> DEFINE q == Fold(Executed, p, b)
    <2>1. q \in Parsers
      <3>1. \A r \in Parsers, x \in Pieces : Executed[r][x] \in Parsers
        BY ExecutedIs, ExecutePieceType
      <3> QED BY <3>1, FoldType
    <2>2. Fold(Executed, p, Append(b, piece)) = Executed[q][piece]
      BY FoldAppend
    <2>3. q.consumed <= p.consumed + Len(b)
      BY <1>2
    <2> HIDE DEF q
    <2>4. /\ Executed[q][piece] = ExecutePiece(q, piece)
          /\ ExecutePiece(q, piece) \in Parsers
          /\ ExecutePiece(q, piece).consumed <= q.consumed + 1
      BY <2>1, ExecutedIs, ExecutePieceType
    <2>5. q.consumed \in Nat /\ ExecutePiece(q, piece).consumed \in Nat
      BY <2>1, <2>4 DEF Parsers
    <2>6. Len(Append(b, piece)) = Len(b) + 1 /\ Append(b, piece) \in Seq(Pieces)
      OBVIOUS
    <2> DEFINE c == ExecutePiece(q, piece).consumed
    <2>7. c <= q.consumed + 1 /\ c \in Nat
      BY <2>4, <2>5
    <2> HIDE DEF c
    <2>8. c <= p.consumed + (Len(b) + 1)
      BY <1>0, <2>3, <2>5, <2>7
    <2> QED BY <2>2, <2>4, <2>6, <2>8 DEF c
  <1>3. \A b \in Seq(Pieces) : b \in S
    <2> HIDE DEF S
    <2> QED BY <1>1, <1>2, SequenceInduction
  <1>4. Fold(Executed, p, block).consumed <= p.consumed + Len(block)
    BY <1>3
  <1>5. CASE p.complete \/ p.at = "failed"
    BY <1>0, <1>5 DEF ExecuteBlock
  <1>6. CASE ~(p.complete \/ p.at = "failed")
    BY <1>4, <1>6 DEF ExecuteBlock
  <1> QED BY <1>5, <1>6

\* parse reports no more as consumed than there is: pop_front, which is given
\* consumed_bytes, never runs past the end of the buffer.
THEOREM ConsumedIsThere ==
  ASSUME NEW buf \in Seq(Seq(Pieces))
  PROVE  parse(buf).consumed <= Len(Contents(buf))
  <1> DEFINE P(b) == Fold(BlockExecuted, reset, b)
             S == {b \in Seq(Seq(Pieces)) :
                     P(b).consumed <= Len(Contents(b))}
  <1>1. <<>> \in S
    <2>1. P(<<>>) = reset /\ Contents(<<>>) = <<>>
      BY FoldEmpty, ContentsEmpty
    <2>2. reset.consumed = 0 /\ Len(<<>>) = 0
      BY DEF reset
    <2> HIDE DEF P
    <2> QED BY <2>1, <2>2
  <1>2. ASSUME NEW b \in Seq(Seq(Pieces)), NEW block \in Seq(Pieces), b \in S
        PROVE  Append(b, block) \in S
    <2>1. P(b) \in Parsers
      BY ParseType
    <2>2. P(Append(b, block)) = BlockExecuted[P(b)][block]
      BY FoldAppend
    <2>3. Append(b, block) \in Seq(Seq(Pieces))
      OBVIOUS
    <2>4. P(Append(b, block)) \in Parsers
      BY Zenon, <2>3, ParseType
    <2>5. Contents(Append(b, block)) = Contents(b) \o block
          /\ Contents(b) \in Seq(Pieces)
      BY ContentsAppend, ContentsType
    <2>6. P(b).consumed <= Len(Contents(b))
      BY <1>2
    <2> HIDE DEF P
    <2> DEFINE p == P(b)
               q == P(Append(b, block))
               flat == Contents(b)
    <2>7. q = ExecuteBlock(p, block) /\ q.consumed <= p.consumed + Len(block)
      BY <2>1, <2>2, BlockExecutedIs, BlockConsumed
    <2>8. p.consumed \in Nat /\ q.consumed \in Nat
      BY <2>1, <2>4 DEF Parsers
    <2>9. flat \in Seq(Pieces) /\ p.consumed <= Len(flat)
      BY <2>5, <2>6
    <2> HIDE DEF p, q, flat
    <2>10. Len(flat \o block) = Len(flat) + Len(block)
      BY <2>9
    <2>11. q.consumed <= Len(flat \o block)
      BY <2>7, <2>8, <2>9, <2>10
    <2> QED BY Zenon, <2>3, <2>5, <2>11 DEF p, q, flat
  <1>3. \A b \in Seq(Seq(Pieces)) : b \in S
    <2> HIDE DEF S
    <2> QED BY <1>1, <1>2, SequenceInduction
  <1>4. P(buf).consumed <= Len(Contents(buf))
    BY <1>3
  <1>5. P(buf) \in Parsers /\ Contents(buf) \in Seq(Pieces)
    BY ParseType, ContentsType
  <1>6. parse(buf) = Result(P(buf))
    BY DEF parse
  <1> HIDE DEF P
  <1> DEFINE p == P(buf)
             flat == Contents(buf)
  <1>7. /\ p.consumed \in Nat /\ Len(flat) \in Nat /\ p.consumed <= Len(flat)
        /\ Result(p).consumed \in Nat /\ Result(p).consumed <= p.consumed
    BY <1>4, <1>5, ResultIs DEF Parsers
  <1> HIDE DEF p, flat
  <1>8. Result(p).consumed <= Len(flat)
    BY <1>7
  <1> QED BY <1>6, <1>8 DEF p, flat

\* What has arrived of a single request: nothing, its head, or all of it.
Nothing(flat) == Len(flat) = 0
HeadOnly(flat) == Len(flat) = 1 /\ flat[1].part = "head"
WholeRequest(flat) ==
  Len(flat) = 2 /\ flat[1].part = "head" /\ flat[2].part = "tail"

\* What the parser is after it, in each of the three cases.
Parsed(p, flat) ==
  /\ Nothing(flat) => p = reset
  /\ HeadOnly(flat) => p.at = "message" /\ ~p.complete /\ p.consumed = 1
  /\ WholeRequest(flat) => p.at # "failed" /\ p.complete /\ p.consumed = 2

\* llhttp_reset: a parser at the start of a message that has consumed nothing.
LEMMA ResetIs ==
  /\ reset \in Parsers /\ reset.at = "start"
  /\ ~reset.complete /\ reset.consumed = 0
  BY DEF reset, Parsers

\* On a block of one piece the body of parse's loop is llhttp_execute on it.
LEMMA ExecuteOne ==
  ASSUME NEW p \in Parsers, ~p.complete, p.at # "failed",
         NEW block \in Seq(Pieces), Len(block) = 1
  PROVE  /\ block[1] \in Pieces
         /\ ExecuteBlock(p, block) = ExecutePiece(p, block[1])
  <1> DEFINE h == block[1]
             e == <<>>
  <1>1. h \in Pieces /\ e \in Seq(Pieces) /\ block = Append(e, h)
    OBVIOUS
  <1>2. Fold(Executed, p, e) = p
    BY FoldEmpty
  <1> HIDE DEF h, e
  <1>3. Fold(Executed, p, Append(e, h)) = Executed[Fold(Executed, p, e)][h]
    BY <1>1, FoldAppend
  <1>4. Fold(Executed, p, block) = ExecutePiece(p, h)
    BY <1>1, <1>2, <1>3, ExecutedIs
  <1> QED BY <1>1, <1>4 DEF ExecuteBlock, h

\* On a block of two pieces it is llhttp_execute on one and then on the other.
LEMMA ExecuteTwo ==
  ASSUME NEW p \in Parsers, ~p.complete, p.at # "failed",
         NEW block \in Seq(Pieces), Len(block) = 2
  PROVE  /\ block[1] \in Pieces /\ block[2] \in Pieces
         /\ ExecuteBlock(p, block)
              = ExecutePiece(ExecutePiece(p, block[1]), block[2])
  <1> DEFINE h == block[1]
             t == block[2]
             b == <<h>>
  <1>1. h \in Pieces /\ t \in Pieces /\ block = Append(b, t)
    OBVIOUS
  <1>2. b \in Seq(Pieces) /\ Len(b) = 1 /\ b[1] = h
    OBVIOUS
  <1> HIDE DEF h, t, b
  <1>3. ExecuteBlock(p, b) = ExecutePiece(p, h)
    BY <1>2, ExecuteOne
  <1>4. Fold(Executed, p, b) = ExecutePiece(p, h)
    BY <1>3 DEF ExecuteBlock
  <1>5. Fold(Executed, p, Append(b, t)) = Executed[Fold(Executed, p, b)][t]
    BY <1>1, <1>2, FoldAppend
  <1>6. ExecutePiece(p, h) \in Parsers
    BY <1>1, ExecutePieceType
  <1>7. Fold(Executed, p, block) = ExecutePiece(ExecutePiece(p, h), t)
    BY <1>1, <1>4, <1>5, <1>6, ExecutedIs
  <1> QED BY <1>1, <1>7 DEF ExecuteBlock, h, t

\* How one and two are sums.
LEMMA SmallSums ==
  ASSUME NEW a \in Nat, NEW b \in Nat \ {0}
  PROVE  /\ a + b = 1 => a = 0 /\ b = 1
         /\ a + b = 2 /\ a # 0 => a = 1 /\ b = 1
         /\ a + b = 2 /\ a = 0 => b = 2
  OBVIOUS

\* The body of parse's loop keeps Parsed, whether the block holds the head, the
\* tail or both.
LEMMA ParsedStep ==
  ASSUME NEW p \in Parsers, NEW flat \in Seq(Pieces), NEW block \in Blocks,
         Parsed(p, flat)
  PROVE  Parsed(ExecuteBlock(p, block), flat \o block)
  <1> DEFINE w == flat \o block
             q == ExecuteBlock(p, block)
  <1>1. block \in Seq(Pieces) /\ Len(block) \in Nat \ {0}
    BY DEF Blocks
  <1>2. /\ Len(w) = Len(flat) + Len(block) /\ Len(flat) \in Nat
        /\ \A i \in 1..Len(flat) : w[i] = flat[i]
        /\ \A i \in 1..Len(block) : w[Len(flat) + i] = block[i]
    BY <1>1, ConcatFacts
  <1> HIDE DEF w
  <1> DEFINE lf == Len(flat)
             lb == Len(block)
  <1>2a. lf \in Nat /\ lb \in Nat \ {0} /\ Len(w) = lf + lb
    BY <1>1, <1>2
  <1>3. ~Nothing(w)
    BY <1>1, <1>2 DEF Nothing
  <1>4. ASSUME HeadOnly(w)
        PROVE  q.at = "message" /\ ~q.complete /\ q.consumed = 1
    <2>1. Len(flat) = 0 /\ Len(block) = 1
      <3>1. Len(w) = 1
        BY <1>4 DEF HeadOnly
      <3> HIDE DEF lf, lb
      <3>2. lf = 0 /\ lb = 1
        BY Zenon, <1>2a, <3>1, SmallSums
      <3> QED BY <3>2 DEF lf, lb
    <2>2. p = reset
      BY <2>1 DEF Parsed, Nothing
    <2>3. block[1].part = "head"
      BY <1>2, <1>4, <2>1 DEF HeadOnly
    <2>4. block[1] \in Pieces /\ q = ExecutePiece(p, block[1])
      BY <1>1, <2>1, <2>2, ResetIs, ExecuteOne
    <2>5. /\ q.consumed = p.consumed + 1 /\ q.complete = p.complete
          /\ q.at = "message"
      BY <2>2, <2>3, <2>4, ResetIs, ExecuteHead
    <2> QED BY <2>2, <2>5, ResetIs
  <1>5. ASSUME WholeRequest(w)
        PROVE  q.at # "failed" /\ q.complete /\ q.consumed = 2
    <2>1. CASE Len(flat) = 0
      <3>1. Len(block) = 2
        <4>1. Len(w) = 2 /\ lf = 0
          BY Zenon, <1>5, <2>1 DEF WholeRequest
        <4> HIDE DEF lf, lb
        <4>2. lb = 2
          BY Zenon, <1>2a, <4>1, SmallSums
        <4> QED BY Zenon, <4>2 DEF lb
      <3>2. p = reset
        BY <2>1 DEF Parsed, Nothing
      <3>3. block[1].part = "head" /\ block[2].part = "tail"
        BY <1>2, <1>5, <2>1, <3>1 DEF WholeRequest
      <3> DEFINE m == ExecutePiece(p, block[1])
      <3>4. block[1] \in Pieces /\ block[2] \in Pieces
            /\ q = ExecutePiece(m, block[2])
        BY <1>1, <3>1, <3>2, ResetIs, ExecuteTwo
      <3>5. m \in Parsers /\ m.consumed = 1 /\ m.at = "message"
        BY <3>2, <3>3, <3>4, ResetIs, ExecuteHead
      <3> HIDE DEF m, q
      <3>6. q.consumed = m.consumed + 1 /\ q.complete /\ q.at # "failed"
        BY <3>3, <3>4, <3>5, ExecuteTail
      <3> QED BY <3>5, <3>6
    <2>2. CASE Len(flat) # 0
      <3>1. Len(flat) = 1 /\ Len(block) = 1
        <4>1. Len(w) = 2 /\ lf # 0
          BY <1>5, <2>2 DEF WholeRequest
        <4> HIDE DEF lf, lb
        <4>2. lf = 1 /\ lb = 1
          BY Zenon, <1>2a, <4>1, SmallSums
        <4> QED BY <4>2 DEF lf, lb
      <3>2. flat[1].part = "head" /\ block[1].part = "tail"
        BY <1>2, <1>5, <3>1 DEF WholeRequest
      <3>3. p.at = "message" /\ ~p.complete /\ p.consumed = 1
        BY <3>1, <3>2 DEF Parsed, HeadOnly
      <3>4. block[1] \in Pieces /\ q = ExecutePiece(p, block[1])
        BY <1>1, <3>1, <3>3, ExecuteOne
      <3> HIDE DEF q
      <3>5. q.consumed = p.consumed + 1 /\ q.complete /\ q.at # "failed"
        BY <3>2, <3>3, <3>4, ExecuteTail
      <3> QED BY <3>3, <3>5
    <2> QED BY <2>1, <2>2
  <1> QED BY <1>3, <1>4, <1>5 DEF Parsed, w

\* So after any buffer the parser is where Parsed says.
LEMMA ParsedAll ==
  ASSUME NEW buf \in Seq(Blocks)
  PROVE  Parsed(Fold(BlockExecuted, reset, buf), Contents(buf))
  <1> DEFINE P(b) == Fold(BlockExecuted, reset, b)
             S == {b \in Seq(Blocks) : Parsed(P(b), Contents(b))}
  <1>1. <<>> \in S
    <2>1. P(<<>>) = reset /\ Contents(<<>>) = <<>> /\ Len(<<>>) = 0
      BY FoldEmpty, ContentsEmpty
    <2>2. Parsed(reset, <<>>)
      BY <2>1 DEF Parsed, HeadOnly, WholeRequest
    <2> HIDE DEF P
    <2> QED BY <2>1, <2>2
  <1>2. ASSUME NEW b \in Seq(Blocks), NEW block \in Blocks, b \in S
        PROVE  Append(b, block) \in S
    <2>1. b \in Seq(Seq(Pieces)) /\ block \in Seq(Pieces)
      BY DEF Blocks
    <2>2. P(b) \in Parsers
      BY <2>1, ParseType
    <2>3. P(Append(b, block)) = BlockExecuted[P(b)][block]
      BY FoldAppend
    <2>4. Append(b, block) \in Seq(Blocks)
      OBVIOUS
    <2>5. Contents(Append(b, block)) = Contents(b) \o block
          /\ Contents(b) \in Seq(Pieces)
      BY <2>1, ContentsAppend, ContentsType
    <2>6. Parsed(P(b), Contents(b))
      BY <1>2
    <2> HIDE DEF P
    <2>7. P(Append(b, block)) = ExecuteBlock(P(b), block)
      BY <2>1, <2>2, <2>3, BlockExecutedIs
    <2>8. Parsed(ExecuteBlock(P(b), block), Contents(b) \o block)
      BY <2>2, <2>5, <2>6, ParsedStep
    <2> QED BY Zenon, <2>4, <2>5, <2>7, <2>8
  <1>3. \A b \in Seq(Blocks) : b \in S
    <2> HIDE DEF S
    <2> QED BY <1>1, <1>2, SequenceInduction
  <1> QED BY <1>3

\* However a single request is cut into blocks, parse asks for more until all of
\* it is there, and then succeeds and consumes all of it.
THEOREM OneRequestParsed ==
  ASSUME NEW buf \in Seq(Blocks)
  PROVE  /\ Nothing(Contents(buf)) \/ HeadOnly(Contents(buf))
              => parse(buf).status = "need_more"
         /\ WholeRequest(Contents(buf))
              => parse(buf).status = "success" /\ parse(buf).consumed = 2
  <1> DEFINE p == Fold(BlockExecuted, reset, buf)
             flat == Contents(buf)
  <1>1. Parsed(p, flat)
    BY ParsedAll
  <1>2. parse(buf) = Result(p)
    BY DEF parse
  <1> HIDE DEF p
  <1>3. ASSUME Nothing(flat) PROVE Result(p).status = "need_more"
    BY <1>1, <1>3, ResetIs DEF Parsed, Result
  <1>4. ASSUME HeadOnly(flat) PROVE Result(p).status = "need_more"
    BY <1>1, <1>4 DEF Parsed, Result
  <1>5. ASSUME WholeRequest(flat)
        PROVE  Result(p).status = "success" /\ Result(p).consumed = 2
    BY <1>1, <1>5 DEF Parsed, Result
  <1> QED BY <1>2, <1>3, <1>4, <1>5
=============================================================================
