-------------------------- MODULE MCRuntimeEventBus --------------------------
(* Two subscriptions with queues of one or two events on a shared buffer of *)
(* two; four events of two types overflow all of them.                     *)
EXTENDS RuntimeEventBus

CONSTANTS Pet, Profile

MCTypes == {Pet, Profile}
MCCapacities == {1, 2}
=============================================================================
