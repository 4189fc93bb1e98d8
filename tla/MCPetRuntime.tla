---------------------------- MODULE MCPetRuntime ----------------------------
(***************************************************************************)
(* A slow profile, a fast one that may fall quiet, and the actions that    *)
(* lead into every kind of state: an edge to return to, a state that a     *)
(* feedback shares with an action of the pet's own, and others.            *)
(***************************************************************************)
EXTENDS PetRuntime

MCActions == {"Idle", "Observe", "Walk", "Perch", "Celebrate"}
MCPolicies ==
    {[active |-> TRUE, capacity |-> 1, refill |-> 2],
     [active |-> TRUE, capacity |-> 2, refill |-> 1],
     [active |-> FALSE, capacity |-> 2, refill |-> 1]}

=============================================================================
