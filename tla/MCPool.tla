------------------------------- MODULE MCPool -------------------------------
(* An interactive and a long worker; a call to a mod that lives on the long
   worker, and executes. *)
EXTENDS Pool

CONSTANTS ui, bulk, mod, job

MCHome == [c \in Calls |-> IF c = mod THEN bulk ELSE None]

MCConfigs == {[queueDepth |-> 1, saturation |-> "ShedOldest", failFast |-> TRUE],
              [queueDepth |-> 1, saturation |-> "Reject", failFast |-> TRUE],
              [queueDepth |-> 0, saturation |-> "Reject", failFast |-> TRUE],
              [queueDepth |-> 1, saturation |-> "Backpressure", failFast |-> FALSE]}
=============================================================================
