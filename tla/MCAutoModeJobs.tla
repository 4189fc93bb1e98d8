--------------------------- MODULE MCAutoModeJobs ---------------------------
(***************************************************************************)
(* Two jobs, of the same session or of two sessions, and two clock         *)
(* readings, enough for every comparison to go either way.                 *)
(***************************************************************************)
EXTENDS AutoModeJobs, TLC

CONSTANTS j1, j2, s1, s2

MCJobs     == {j1, j2}
MCSessions == {s1, s2}
MCTimes    == 1..2
MCSymmetry == Permutations(MCJobs) \cup Permutations(MCSessions)

=============================================================================
