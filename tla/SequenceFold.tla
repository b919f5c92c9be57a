---------------------------- MODULE SequenceFold ----------------------------
(* A loop over a sequence, with the body given as a function.              *)
EXTENDS Sequences, FiniteSetsExt

\* From the first to the last, each element y of s takes the state x to F[x][y].
Fold(F, base, s) ==
  MapThenFoldSet(LAMBDA y, x : F[x][y], base, LAMBDA i : s[i],
                 LAMBDA S : Max(S), DOMAIN s)
=============================================================================
