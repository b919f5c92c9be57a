--------------------------- MODULE MCTimerKeeper ---------------------------
(* The timing wheel for TLC: a wheel of two slots, a tick of two clock     *)
(* units, so that a timer may fall due in the middle of a tick and a delay *)
(* of four units takes a whole turn.                                       *)
EXTENDS TimerKeeper
=============================================================================
