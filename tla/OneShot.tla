------------------------------- MODULE OneShot -------------------------------
(***************************************************************************)
(* What the result of a call promises (runtimes/rust/src/pending.rs): it   *)
(* is settled once, bookkeeping about the call done first, and whoever     *)
(* receives it receives that result, once.                                 *)
(***************************************************************************)
CONSTANTS Results, NoResult

VARIABLES
    settled,   \* the call's result, NoResult while it has none
    received   \* the result somebody was handed, NoResult until then

Init == settled = NoResult /\ received = NoResult

Settle(r) ==
    /\ settled = NoResult
    /\ settled' = r
    /\ UNCHANGED received

Receive ==
    /\ settled # NoResult
    /\ received = NoResult
    /\ received' = settled
    /\ UNCHANGED settled

Next == (\E r \in Results : Settle(r)) \/ Receive

Spec == Init /\ [][Next]_<<settled, received>>
=============================================================================
