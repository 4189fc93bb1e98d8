--------------------------- MODULE MCAutomations ---------------------------
(***************************************************************************)
(* Two runs and two listening threads: a thread that is stopped beside the *)
(* one that replaces it, a run for a user beside one for an event.         *)
(***************************************************************************)
EXTENDS Automations, TLC

CONSTANTS r1, r2, s1, s2

MCRuns     == {r1, r2}
MCSessions == {s1, s2}
MCSymmetry == Permutations(MCRuns) \cup Permutations(MCSessions)

=============================================================================
