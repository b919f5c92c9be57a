---------------------------- MODULE MCSPMCQueue ----------------------------
(* The deque of one worker for TLC: thieves are interchangeable.           *)
EXTENDS SPMCQueue, TLC

Symmetry == Permutations(Thieves)
=============================================================================
