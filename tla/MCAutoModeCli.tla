--------------------------- MODULE MCAutoModeCli ---------------------------
(***************************************************************************)
(* A small instance of the desktop host and the command line together.     *)
(***************************************************************************)
EXTENDS AutoModeCli, TLC

CONSTANTS e1, e2, call1, files1, files2

MCExecutors == {e1, e2}
MCCallIds   == {call1}
MCContents  == {files1, files2}
MCTimes     == 1..2
MCSymmetry  == Permutations(MCExecutors) \cup Permutations(MCContents)

=============================================================================
