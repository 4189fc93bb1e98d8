------------------------------ MODULE MCSkills ------------------------------
(***************************************************************************)
(* Two executions, two listening threads and two versions of the package:  *)
(* a thread that is stopped beside the one that replaces it, a plan that   *)
(* waits beside one that runs, an upgrade and its rollback.                *)
(***************************************************************************)
EXTENDS Skills, TLC

CONSTANTS x1, x2, s1, s2, v1, v2

MCExecutions == {x1, x2}
MCSessions   == {s1, s2}
MCVersions   == {v1, v2}
MCSymmetry   == Permutations(MCExecutions) \cup Permutations(MCSessions)
                \cup Permutations(MCVersions)

=============================================================================
