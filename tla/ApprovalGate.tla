---------------------------- MODULE ApprovalGate ----------------------------
(***************************************************************************)
(* What an approval promises: work that needs one begins only while one    *)
(* granted by the user is in force, at most once, and never after it was   *)
(* refused or is spent, whatever crashes in between.                       *)
(***************************************************************************)
CONSTANT Requests

VARIABLES
    decision, \* decision[r]: what became of request r
    begun     \* the requests whose work has begun

vars == <<decision, begun>>

Decisions == {"none", "pending", "granted", "refused", "spent"}

Init ==
    /\ decision = [r \in Requests |-> "none"]
    /\ begun = {}

\* The moves a request may make, and the ones a restart makes for it.
Moves == {<<"none", "pending">>, <<"pending", "granted">>, <<"pending", "refused">>}
Expiries == {<<"granted", "spent">>, <<"pending", "refused">>}

Change(r) == <<decision[r], decision'[r]>>
Others(r) == \A q \in Requests \ {r} : decision'[q] = decision[q]

\* The request is asked for, granted or refused.
Decide(r) ==
    /\ Change(r) \in Moves /\ Others(r)
    /\ UNCHANGED begun

Begin(r) ==
    /\ decision[r] = "granted"
    /\ r \notin begun
    /\ begun' = begun \cup {r}
    /\ UNCHANGED decision

\* One restart spends every grant in force and refuses what ran out.
Restart ==
    /\ \A r \in Requests : decision'[r] # decision[r] => Change(r) \in Expiries
    /\ UNCHANGED begun

Next ==
    /\ decision' \in [Requests -> Decisions]
    /\ \/ Restart
       \/ \E r \in Requests : Decide(r) \/ Begin(r)

Spec == Init /\ [][Next]_vars
=============================================================================
