--------------------------- MODULE PendingProofs ---------------------------
(***************************************************************************)
(* The one-shot of Pending.tla, proved for any number of tasks and polls:  *)
(* its safety properties, and that it implements OneShot.                  *)
(***************************************************************************)
EXTENDS Pending, TLAPS

(* Who holds the mutex is who is in a critical section. *)
Mutex ==
    /\ lock = "producer" <=> prod \in {"write", "store", "take"}
    /\ lock = "consumer" <=> cons \in {"waitCheck", "cbClaim", "cbRead"}

(* How far the delivery has come, as the slot shows it. *)
Progress ==
    /\ state = "EMPTY" <=> prod \in {"running", "hook", "lock", "write", "store"}
    /\ result = NoResult <=> prod = "running"
    /\ hooked <=> prod \notin {"running", "hook"}

(* Where the value is: in the producer's hands, in the cell, or handed out. *)
Custody ==
    /\ prod \in {"running", "hook", "lock", "write"} => cell = NoResult
    /\ prod = "store" \/ state = "READY" => cell = result
    /\ state # "TAKEN" => got = NoResult
    /\ cons \in Reads \/ prod = "read" => state = "TAKEN" /\ cell = result /\ got = NoResult
    /\ state = "TAKEN" /\ cons \notin Reads /\ prod # "read" => got = result
    /\ ~(cons \in Reads /\ prod = "read")

(* A callback exists only once the host has let go of its Pending, so the
   delivery that calls it has nobody to notify. *)
CallbackAlone ==
    callback \/ prod \in {"claim", "read"} => cons \in {"dropLoad", "dropCancel", "gone"}

(* The waker of the task that polled last travels from the waiters through
   the producer's hands to the executor. *)
WakerTravels ==
    /\ cons = "pollClaim" /\ state = "EMPTY" => waker = task
    /\ cons \in {"pollSet", "pollClaim"} => task # NoTask
    /\ cons = "free" /\ task # NoTask /\ state # "TAKEN" =>
          \/ waker = task /\ prod \in {"running", "hook", "lock", "write", "store", "take"}
          \/ taken = task /\ prod \in {"notify", "wake"}
          \/ task \in woken /\ prod = "done"

(* The token is set by cancel() or by a drop that the policy lets cancel. *)
TokenCause ==
    /\ token => asked \/ (cons = "gone" /\ policy = "Cancel")
    /\ cons = "dropCancel" => policy = "Cancel"
    /\ result = "cancelled" => token

IndInv ==
    /\ TypeOK /\ Mutex /\ Progress /\ Custody /\ CallbackAlone /\ WakerTravels /\ TokenCause
    /\ NoMissedNotify

USE DEF slotVars, prodVars, consVars, rest

(* The invariant holds before the call has done anything. *)
LEMMA InitInv == Init => IndInv
<1> SUFFICES ASSUME Init PROVE IndInv
  OBVIOUS
<1> USE PendingAssumption DEF Init, NoResult
<1>1. TypeOK
  <2>1. /\ callback \in BOOLEAN /\ hooked \in BOOLEAN /\ token \in BOOLEAN /\ timed \in BOOLEAN
        /\ signalled \in BOOLEAN /\ asked \in BOOLEAN
    BY Zenon
  <2>2. polls \in 0..MaxPolls
    OBVIOUS
  <2>3. cons \in ConsSteps
    BY DEF ConsSteps
  <2> QED
    BY <2>1, <2>2, <2>3 DEF TypeOK, ProdSteps, Holders, Results
<1>2. Mutex /\ Custody /\ CallbackAlone
  BY DEF Mutex, Custody, CallbackAlone, Reads
<1>3. Progress
  BY DEF Progress
<1>4. WakerTravels /\ TokenCause /\ NoMissedNotify
  BY DEF WakerTravels, TokenCause, NoMissedNotify
<1> QED
  BY <1>1, <1>2, <1>3, <1>4 DEF IndInv

(* Every step of either thread preserves it. *)
LEMMA InvStep == IndInv /\ [Next]_vars => IndInv'
<1> SUFFICES ASSUME IndInv, [Next]_vars PROVE IndInv'
  OBVIOUS
<1> USE PendingAssumption DEF IndInv, TypeOK, Mutex, Progress, Custody, CallbackAlone,
        WakerTravels, TokenCause, NoMissedNotify, Reads, ConsSteps, ProdSteps, Holders,
        Results, NoResult
<1>1. CASE Complete
  BY <1>1 DEF Complete
<1>2. CASE DropCompleter
  BY <1>2 DEF DropCompleter
<1>3. CASE Hook
  BY <1>3 DEF Hook
<1>4. CASE Lock
  BY <1>4 DEF Lock
<1>5. CASE Write
  BY <1>5 DEF Write
<1>6. CASE Store
  BY <1>6 DEF Store
<1>7. CASE TakeWaiters
  <2> USE <1>7 DEF TakeWaiters
  <2>1. TypeOK'
    <3>1. callback' \in BOOLEAN
      BY Zenon
    <3> QED
      BY <3>1
  <2>2. Mutex' /\ Progress' /\ Custody'
    OBVIOUS
  <2>3. CallbackAlone' /\ WakerTravels' /\ TokenCause'
    OBVIOUS
  <2>4. NoMissedNotify'
    OBVIOUS
  <2> QED
    BY <2>1, <2>2, <2>3, <2>4
<1>8. CASE Claim
  BY <1>8 DEF Claim
<1>9. CASE CallBack
  BY <1>9 DEF CallBack
<1>10. CASE Notify
  <2> USE <1>10 DEF Notify
  <2>1. TypeOK'
    OBVIOUS
  <2>2. Mutex' /\ Progress' /\ Custody'
    OBVIOUS
  <2>3. CallbackAlone' /\ WakerTravels' /\ TokenCause'
    OBVIOUS
  <2>4. NoMissedNotify'
    OBVIOUS
  <2> QED
    BY <2>1, <2>2, <2>3, <2>4
<1>11. CASE Wake
  BY <1>11 DEF Wake
<1>12. CASE PollRegister
  BY <1>12 DEF PollRegister
<1>13. CASE PollRecheck
  BY <1>13 DEF PollRecheck, Take
<1>14. CASE ReadCell
  BY <1>14 DEF ReadCell
<1>15. CASE WaitClaim
  BY <1>15 DEF WaitClaim, Take
<1>16. CASE WaitLoad
  BY <1>16 DEF WaitLoad
<1>17. CASE WaitLock
  BY <1>17 DEF WaitLock
<1>18. CASE WaitCheck
  <2> USE <1>18 DEF WaitCheck
  <2>1. TypeOK'
    <3>1. signalled' \in BOOLEAN
      BY Zenon
    <3> QED
      BY <3>1
  <2>2. Mutex' /\ Progress' /\ Custody'
    OBVIOUS
  <2>3. CallbackAlone' /\ WakerTravels' /\ TokenCause'
    OBVIOUS
  <2>4. NoMissedNotify'
    OBVIOUS
  <2> QED
    BY <2>1, <2>2, <2>3, <2>4
<1>19. CASE Awake
  BY <1>19 DEF Awake
<1>20. CASE CallbackLock
  BY <1>20 DEF CallbackLock
<1>21. CASE CallbackSet
  <2> USE <1>21 DEF CallbackSet, Take
  <2>1. TypeOK'
    <3>1. callback' \in BOOLEAN
      BY Zenon
    <3> QED
      BY <3>1
  <2>2. Mutex' /\ Progress' /\ Custody'
    OBVIOUS
  <2>3. CallbackAlone' /\ WakerTravels' /\ TokenCause'
    OBVIOUS
  <2>4. NoMissedNotify'
    OBVIOUS
  <2> QED
    BY <2>1, <2>2, <2>3, <2>4
<1>22. CASE DropLoad
  BY <1>22 DEF DropLoad
<1>23. CASE DropCancel
  BY <1>23 DEF DropCancel
<1>24. CASE TryTake
  BY <1>24 DEF TryTake, Take
<1>25. ASSUME NEW k \in Tasks, Poll(k) PROVE IndInv'
  BY <1>25 DEF Poll, Take
<1>26. CASE Wait
  BY <1>26 DEF Wait
<1>27. CASE OnComplete
  BY <1>27 DEF OnComplete
<1>28. CASE Detach
  BY <1>28 DEF Detach
<1>29. CASE Release
  BY <1>29 DEF Release
<1>30. CASE Cancel
  BY <1>30 DEF Cancel
<1>31. CASE TimeOut
  <2> USE <1>31 DEF TimeOut
  <2>1. TypeOK'
    OBVIOUS
  <2>2. Mutex' /\ Progress' /\ Custody'
    OBVIOUS
  <2>3. CallbackAlone' /\ WakerTravels' /\ TokenCause'
    OBVIOUS
  <2>4. NoMissedNotify'
    OBVIOUS
  <2> QED
    BY <2>1, <2>2, <2>3, <2>4
<1>32. CASE SpuriousWake
  BY <1>32 DEF SpuriousWake
<1>33. CASE UNCHANGED vars
  BY <1>33 DEF vars
<1> HIDE DEF IndInv
<1> QED
  BY <1>1, <1>2, <1>3, <1>4, <1>5, <1>6, <1>7, <1>8, <1>9, <1>10, <1>11, <1>12, <1>13, <1>14, <1>15, <1>16,
     <1>17, <1>18, <1>19, <1>20, <1>21, <1>22, <1>23, <1>24, <1>25, <1>26, <1>27, <1>28, <1>29, <1>30, <1>31, <1>32, <1>33
  DEF Next, ProducerStep, ConsumerStep, HostStep

(* The parts of the invariant are what the runs check. *)
LEMMA InvImplies == IndInv => CellIsPrivate /\ HookBeforeResult /\ NoLostWake /\ DetachedRunsOn
BY DEF IndInv, TypeOK, Progress, Custody, WakerTravels, TokenCause, CellIsPrivate,
       HookBeforeResult, NoLostWake, DetachedRunsOn, Reads, ConsSteps, ProdSteps, Results, NoResult

(* The invariant holds for ever. *)
LEMMA Invariant == Spec => []IndInv
<1>1. Init => IndInv
  BY InitInv
<1>2. IndInv /\ [Next]_vars => IndInv'
  BY InvStep
<1> QED
  BY <1>1, <1>2, PTL DEF Spec

(* The slot is well typed throughout. *)
THEOREM PendingType == Spec => []TypeOK
<1>1. IndInv => TypeOK
  BY DEF IndInv
<1> QED
  BY <1>1, Invariant, PTL

(* The value cell is never accessed by two threads at once, and whoever wins
   the compare-exchange finds the value there. *)
THEOREM CellRaceFree == Spec => []CellIsPrivate
<1>1. IndInv => CellIsPrivate
  BY InvImplies
<1> QED
  BY <1>1, Invariant, PTL

(* No consumer sees a result before the call's bookkeeping is done. *)
THEOREM HookFirst == Spec => []HookBeforeResult
<1>1. IndInv => HookBeforeResult
  BY InvImplies
<1> QED
  BY <1>1, Invariant, PTL

(* Neither an awaiting task nor a sleeping thread misses the delivery. *)
THEOREM WakesReachConsumers == Spec => [](NoLostWake /\ NoMissedNotify)
<1>1. IndInv => NoLostWake /\ NoMissedNotify
  BY InvImplies DEF IndInv
<1> QED
  BY <1>1, Invariant, PTL

(* A detached call is cancelled only by a host that asks for it. *)
THEOREM DetachHolds == Spec => []DetachedRunsOn
<1>1. IndInv => DetachedRunsOn
  BY InvImplies
<1> QED
  BY <1>1, Invariant, PTL

(* The slot is sound in every state: the theorems above together. *)
THEOREM SlotSound == Spec => []SlotHolds
<1>1. IndInv => SlotHolds
  BY InvImplies DEF IndInv, SlotHolds
<1> QED
  BY <1>1, Invariant, PTL

-----------------------------------------------------------------------------
(* The refinement: the slot's result settles with Store and is received with
   the read of the cell; every other step stutters. *)

(* A step either leaves the abstract one-shot alone, settles it or hands its
   result out. *)
LEMMA RefineStep == IndInv /\ IndInv' /\ [Next]_vars => [One!Next]_<<IF state = "EMPTY" THEN NoResult ELSE result, got>>
<1> SUFFICES ASSUME IndInv, IndInv', [Next]_vars
             PROVE  [One!Next]_<<IF state = "EMPTY" THEN NoResult ELSE result, got>>
  OBVIOUS
<1> DEFINE S == IF state = "EMPTY" THEN NoResult ELSE result
<1>1. CASE Store
  <2>1. S = NoResult /\ S' = result /\ result \in Results /\ got' = got
    BY <1>1 DEF Store, IndInv, TypeOK, Progress, NoResult, Results
  <2> QED
    BY <2>1 DEF One!Next, One!Settle
<1>2. CASE CallBack \/ ReadCell
  <2>1. S = result /\ S' = S /\ S # NoResult /\ got = NoResult /\ got' = result
    BY <1>2 DEF CallBack, ReadCell, IndInv, TypeOK, Progress, Custody, NoResult, Results, Reads
  <2> QED
    BY <2>1 DEF One!Next, One!Receive
<1>3. CASE UNCHANGED <<S, got>>
  BY <1>3
<1>4. ASSUME ~Store, ~CallBack, ~ReadCell PROVE UNCHANGED <<S, got>>
  <2> USE <1>4 DEF IndInv, TypeOK, Progress
  <2>1. CASE Complete \/ DropCompleter
    BY <2>1 DEF Complete, DropCompleter
  <2>2. CASE Hook \/ Lock \/ Write \/ TakeWaiters \/ Claim \/ Notify \/ Wake
    BY <2>2 DEF Hook, Lock, Write, TakeWaiters, Claim, Notify, Wake
  <2>3. CASE \/ PollRegister \/ PollRecheck \/ WaitClaim \/ WaitLoad \/ WaitLock \/ WaitCheck
             \/ Awake \/ CallbackLock \/ CallbackSet \/ DropLoad \/ DropCancel
    BY <2>3 DEF PollRegister, PollRecheck, WaitClaim, WaitLoad, WaitLock, WaitCheck, Awake,
                CallbackLock, CallbackSet, DropLoad, DropCancel, Take
  <2>4. CASE HostStep
    BY <2>4 DEF HostStep, TryTake, Poll, Wait, OnComplete, Detach, Release, Cancel, TimeOut,
                SpuriousWake, Take
  <2>5. CASE UNCHANGED vars
    BY <2>5 DEF vars
  <2> QED
    BY <2>1, <2>2, <2>3, <2>4, <2>5 DEF Next, ProducerStep, ConsumerStep
<1> QED
  BY <1>1, <1>2, <1>3, <1>4

(* Pending implements OneShot: whatever the two threads do, the call settles
   once and its result is handed out once, unchanged. *)
THEOREM ImplementsOneShot == Spec => OneShotSpec
<1>1. Init => One!Init
  BY DEF Init, One!Init
<1>2. IndInv /\ IndInv' /\ [Next]_vars => [One!Next]_<<IF state = "EMPTY" THEN NoResult ELSE result, got>>
  BY RefineStep
<1> QED
  BY <1>1, <1>2, Invariant, PTL DEF Spec, OneShotSpec, One!Spec
=============================================================================
