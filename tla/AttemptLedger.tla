--------------------------- MODULE AttemptLedger ---------------------------
(***************************************************************************)
(* What the durable turn attempt promises about calls that leave the       *)
(* machine, without sessions, checkpoints, clocks, processes or restarts:  *)
(*                                                                         *)
(*   - attempts are issued one at a time, the next one only after the      *)
(*     previous one was concluded;                                         *)
(*   - an attempt makes at most one Provider call;                         *)
(*   - an attempt is concluded exactly once, by the commit of its result   *)
(*     or, when the result is unknown, by the user's decision, and never   *)
(*     by a lease that expires.                                            *)
(*                                                                         *)
(* AutoModeTurns implements this specification, whatever its executors,    *)
(* its clock and its storage do.                                           *)
(***************************************************************************)
EXTENDS Integers

VARIABLES
    row,        \* the outstanding attempt and what is known of it
    issued,     \* attempts issued so far: 1..issued
    called,     \* attempts that reached their Provider
    concluded   \* attempts whose outcome is durable

ledger == <<row, issued, called, concluded>>

NoRow == [id |-> 0, status |-> "None"]

Init ==
    /\ row = NoRow
    /\ issued = 0
    /\ called = {}
    /\ concluded = {}

Issue ==
    /\ row = NoRow
    /\ issued' = issued + 1
    /\ row' = [id |-> issued', status |-> "Active"]
    /\ UNCHANGED <<called, concluded>>

\* An executor that lost its attempt may still make its one call.
Call ==
    /\ \E id \in (1..issued) \ called : called' = called \cup {id}
    /\ UNCHANGED <<row, issued, concluded>>

LoseTrack ==
    /\ row.status = "Active"
    /\ row' = [row EXCEPT !.status = "Indeterminate"]
    /\ UNCHANGED <<issued, called, concluded>>

\* Commit of an Active attempt, resolution of an Indeterminate one.
Conclude ==
    /\ row # NoRow
    /\ row' = NoRow
    /\ concluded' = concluded \cup {row.id}
    /\ UNCHANGED <<issued, called>>

Next == Issue \/ Call \/ LoseTrack \/ Conclude

Spec == Init /\ [][Next]_ledger

\* Nothing issued is forgotten: what is not concluded is the outstanding row.
NothingForgotten == (1..issued) \ concluded \subseteq {row.id}

=============================================================================
