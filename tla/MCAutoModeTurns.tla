-------------------------- MODULE MCAutoModeTurns --------------------------
(***************************************************************************)
(* A small instance of AutoModeTurns for TLC.  The executors and the call  *)
(* identities are interchangeable; times are not.                          *)
(***************************************************************************)
EXTENDS AutoModeTurns, TLC

CONSTANTS e1, e2, call1, call2, files1, files2

MCExecutors == {e1, e2}
MCCallIds   == {call1, call2}
MCContents  == {files1, files2}
MCTimes     == 1..3
MCSymmetry  == Permutations(MCExecutors) \cup Permutations(MCCallIds)
                 \cup Permutations(MCContents)

=============================================================================
