------------------------------- MODULE Pending -------------------------------
(***************************************************************************)
(* The one-shot behind every call into a runtime thread (runtimes/rust/    *)
(* src/pending.rs): a Completer on the runtime thread, a Pending on the    *)
(* host's, and between them a Slot of an atomic state, an unsynchronised   *)
(* value cell and a mutex with a condition variable.                       *)
(*                                                                         *)
(* One step is one access to shared memory.  Rust's ownership gives a      *)
(* Pending a single consumer at a time, so the contenders for the slot are *)
(* the host's thread and the runtime's.                                    *)
(***************************************************************************)
EXTENDS Naturals

CONSTANTS
    Tasks,    \* the executor tasks that may poll the Pending
    NoTask,
    MaxPolls  \* bound: how many times the host looks before it commits

ASSUME PendingAssumption == NoTask \notin Tasks /\ MaxPolls \in Nat

NoResult == "none"
Results  == {"ok", "cancelled", "dropped"}
Holders  == {"nobody", "producer", "consumer"}

VARIABLES
    state,      \* Slot.state: EMPTY, READY or TAKEN
    cell,       \* Slot.value
    lock,       \* who holds Slot.waiters
    waker,      \* Waiters.waker: the task to wake
    callback,   \* Waiters.on_complete is set
    hooked,     \* Completer.before_delivery has run
    token,      \* CallToken.flag
    prod,       \* where the runtime thread is
    result,     \* what it is delivering
    taken,      \* the task whose waker deliver took out of the waiters
    cons,       \* where the host's thread is
    policy,     \* Pending.on_drop
    timed,      \* the wait has a deadline
    polls,      \* how often the host has looked so far
    task,       \* the task whose poll was the host's last look
    woken,      \* tasks the executor was told to poll again
    signalled,  \* the condition variable was notified during this wait
    got,        \* what the consumer, or its callback, was handed
    asked       \* history: the host called cancel()

slotVars == <<state, cell, lock, waker, callback>>
prodVars == <<prod, result, hooked, taken>>
consVars == <<cons, policy, timed, polls, task>>
rest     == <<token, asked>>
vars     == <<slotVars, prodVars, consVars, woken, signalled, got, rest>>

ProdSteps == {"running", "hook", "lock", "write", "store", "take", "claim", "read",
              "notify", "wake", "done"}

(* The consumer's steps that read the value cell, after winning it. *)
Reads     == {"read", "lastRead", "cbRead"}
ConsSteps == Reads \cup
             {"free", "pollSet", "pollClaim", "waitClaim", "waitLoad", "waitLock",
              "waitCheck", "asleep", "cbLock", "cbClaim", "dropLoad", "dropCancel", "gone"}

TypeOK ==
    /\ state \in {"EMPTY", "READY", "TAKEN"}
    /\ cell \in Results \cup {NoResult}
    /\ lock \in Holders
    /\ waker \in Tasks \cup {NoTask}
    /\ callback \in BOOLEAN
    /\ hooked \in BOOLEAN
    /\ token \in BOOLEAN
    /\ prod \in ProdSteps
    /\ result \in Results \cup {NoResult}
    /\ taken \in Tasks \cup {NoTask}
    /\ cons \in ConsSteps
    /\ policy \in {"Cancel", "Detach"}
    /\ timed \in BOOLEAN
    /\ polls \in 0..MaxPolls
    /\ task \in Tasks \cup {NoTask}
    /\ woken \subseteq Tasks
    /\ signalled \in BOOLEAN
    /\ got \in Results \cup {NoResult}
    /\ asked \in BOOLEAN

Init ==
    /\ state = "EMPTY"
    /\ cell = NoResult
    /\ lock = "nobody"
    /\ waker = NoTask
    /\ callback = FALSE
    /\ hooked = FALSE
    /\ token = FALSE
    /\ prod = "running"
    /\ result = NoResult
    /\ taken = NoTask
    /\ cons = "free"
    /\ policy = "Cancel"
    /\ timed = FALSE
    /\ polls = 0
    /\ task = NoTask
    /\ woken = {}
    /\ signalled = FALSE
    /\ got = NoResult
    /\ asked = FALSE

-----------------------------------------------------------------------------
(* The runtime thread: Completer. *)

(* Completer::complete.  A call ends cancelled only when its token is set. *)
Complete ==
    /\ prod = "running"
    /\ \E r \in {"ok"} \cup {c \in {"cancelled"} : token} : result' = r
    /\ prod' = "hook"
    /\ UNCHANGED <<slotVars, hooked, taken, consVars, woken, signalled, got, rest>>

(* Mutant of DropCompleter: the hook runs only when the call completes. *)
DropCompleter_NoHook ==
    /\ prod = "running"
    /\ result' = "dropped"
    /\ prod' = "lock"
    /\ UNCHANGED <<slotVars, hooked, taken, consVars, woken, signalled, got, rest>>

(* Drop for Completer: the worker went away without replying. *)
DropCompleter ==
    /\ prod = "running"
    /\ result' = "dropped"
    /\ prod' = "hook"
    /\ UNCHANGED <<slotVars, hooked, taken, consVars, woken, signalled, got, rest>>

(* deliver runs the before_delivery hook. *)
Hook ==
    /\ prod = "hook"
    /\ hooked' = TRUE
    /\ prod' = "lock"
    /\ UNCHANGED <<slotVars, result, taken, consVars, woken, signalled, got, rest>>

(* Mutant of Lock: the state is published before the value is written. *)
Lock_PublishFirst ==
    /\ prod = "lock"
    /\ lock = "nobody"
    /\ lock' = "producer"
    /\ state' = "READY"
    /\ prod' = "write"
    /\ UNCHANGED <<cell, waker, callback, result, hooked, taken, consVars, woken, signalled,
                   got, rest>>

(* deliver locks the waiters. *)
Lock ==
    /\ prod = "lock"
    /\ lock = "nobody"
    /\ lock' = "producer"
    /\ prod' = "write"
    /\ UNCHANGED <<state, cell, waker, callback, result, hooked, taken, consVars, woken,
                   signalled, got, rest>>

(* Mutant of Write: a call cancelled after it ended is still reported so. *)
Write_Reclassified ==
    /\ prod = "write"
    /\ cell' = IF token THEN "cancelled" ELSE result
    /\ prod' = "store"
    /\ UNCHANGED <<state, lock, waker, callback, result, hooked, taken, consVars, woken,
                   signalled, got, rest>>

(* deliver writes the value cell. *)
Write ==
    /\ prod = "write"
    /\ cell' = result
    /\ prod' = "store"
    /\ UNCHANGED <<state, lock, waker, callback, result, hooked, taken, consVars, woken,
                   signalled, got, rest>>

(* Mutant of Store: a dropped response gets a state of its own. *)
Store_Flagged ==
    /\ prod = "store"
    /\ state' = IF result = "dropped" THEN "DROPPED" ELSE "READY"
    /\ prod' = "take"
    /\ UNCHANGED <<cell, lock, waker, callback, result, hooked, taken, consVars, woken,
                   signalled, got, rest>>

(* deliver publishes the state. *)
Store ==
    /\ prod = "store"
    /\ state' = "READY"
    /\ prod' = "take"
    /\ UNCHANGED <<cell, lock, waker, callback, result, hooked, taken, consVars, woken,
                   signalled, got, rest>>

(* Mutant of TakeWaiters: a registered waker hides the callback. *)
TakeWaiters_WakerFirst ==
    /\ prod = "take"
    /\ prod' = IF callback /\ waker = NoTask THEN "claim" ELSE "notify"
    /\ taken' = waker
    /\ callback' = FALSE
    /\ waker' = NoTask
    /\ lock' = "nobody"
    /\ UNCHANGED <<state, cell, result, hooked, consVars, woken, signalled, got, rest>>

(* deliver takes the callback and the waker, and unlocks. *)
TakeWaiters ==
    /\ prod = "take"
    /\ prod' = IF callback THEN "claim" ELSE "notify"
    /\ taken' = waker
    /\ callback' = FALSE
    /\ waker' = NoTask
    /\ lock' = "nobody"
    /\ UNCHANGED <<state, cell, result, hooked, consVars, woken, signalled, got, rest>>

(* With a callback, deliver claims the value itself and wakes nobody. *)
Claim ==
    /\ prod = "claim"
    /\ IF state = "READY"
       THEN state' = "TAKEN" /\ prod' = "read"
       ELSE prod' = "done" /\ UNCHANGED state
    /\ UNCHANGED <<cell, lock, waker, callback, result, hooked, taken, consVars, woken,
                   signalled, got, rest>>

(* deliver hands the value to the callback, on the runtime thread. *)
CallBack ==
    /\ prod = "read"
    /\ got' = cell
    /\ cell' = NoResult
    /\ prod' = "done"
    /\ UNCHANGED <<state, lock, waker, callback, result, hooked, taken, consVars, woken,
                   signalled, rest>>

(* Otherwise it notifies the condition variable ... *)
Notify ==
    /\ prod = "notify"
    /\ signalled' = (signalled \/ cons = "asleep")
    /\ prod' = "wake"
    /\ UNCHANGED <<slotVars, result, hooked, taken, consVars, woken, got, rest>>

(* ... and wakes the task that polled last. *)
Wake ==
    /\ prod = "wake"
    /\ woken' = woken \cup ({taken} \ {NoTask})
    /\ prod' = "done"
    /\ UNCHANGED <<slotVars, result, hooked, taken, consVars, signalled, got, rest>>

-----------------------------------------------------------------------------
(* The host's thread: Pending. *)

(* Slot::take, the compare-exchange: on success the consumer goes to read
   the cell, otherwise to where its caller goes next. *)
Take(reading, otherwise) ==
    IF state = "READY"
    THEN state' = "TAKEN" /\ cons' = reading
    ELSE cons' = otherwise /\ UNCHANGED state

(* Pending::try_take, once per frame. *)
TryTake ==
    /\ cons = "free"
    /\ polls < MaxPolls
    /\ polls' = polls + 1
    /\ Take("read", "free")
    /\ task' = NoTask
    /\ UNCHANGED <<cell, lock, waker, callback, prodVars, policy, timed, woken, signalled,
                   got, rest>>

(* Future::poll by task k: woken, or for reasons of its own. *)
Poll(k) ==
    /\ cons = "free"
    /\ k \in woken \/ polls < MaxPolls
    /\ polls' = IF k \in woken THEN polls ELSE polls + 1
    /\ woken' = woken \ {k}
    /\ task' = k
    /\ Take("read", "pollSet")
    /\ UNCHANGED <<cell, lock, waker, callback, prodVars, policy, timed, signalled, got, rest>>

(* Mutant of PollRegister: no second look once the waker is registered. *)
PollRegister_NoRecheck ==
    /\ cons = "pollSet"
    /\ lock = "nobody"
    /\ waker' = task
    /\ cons' = "free"
    /\ UNCHANGED <<state, cell, lock, callback, prodVars, policy, timed, polls, task, woken,
                   signalled, got, rest>>

(* poll leaves its waker, under the lock. *)
PollRegister ==
    /\ cons = "pollSet"
    /\ lock = "nobody"
    /\ waker' = task
    /\ cons' = "pollClaim"
    /\ UNCHANGED <<state, cell, lock, callback, prodVars, policy, timed, polls, task, woken,
                   signalled, got, rest>>

(* poll looks again; the producer may have completed in between. *)
PollRecheck ==
    /\ cons = "pollClaim"
    /\ Take("read", "free")
    /\ UNCHANGED <<cell, lock, waker, callback, prodVars, policy, timed, polls, task, woken,
                   signalled, got, rest>>

(* The consumer that won the compare-exchange reads the cell.  try_take and
   poll leave the Pending with the host; wait returns and drops it;
   on_complete unlocks, runs the callback here and drops it. *)
ReadCell ==
    /\ cons \in Reads
    /\ got' = cell
    /\ cell' = NoResult
    /\ cons' = IF cons = "read" THEN "free" ELSE "dropLoad"
    /\ lock' = IF cons = "cbRead" THEN "nobody" ELSE lock
    /\ task' = NoTask
    /\ UNCHANGED <<state, waker, callback, prodVars, policy, timed, polls, woken, signalled, rest>>

(* Pending::wait and wait_timeout. *)
Wait ==
    /\ cons = "free"
    /\ timed' \in BOOLEAN
    /\ cons' = "waitClaim"
    /\ task' = NoTask
    /\ UNCHANGED <<slotVars, prodVars, policy, polls, woken, signalled, got, rest>>

WaitClaim ==
    /\ cons = "waitClaim"
    /\ Take("lastRead", "waitLoad")
    /\ UNCHANGED <<cell, lock, waker, callback, prodVars, policy, timed, polls, task, woken,
                   signalled, got, rest>>

(* A result taken earlier ends the wait with an error. *)
WaitLoad ==
    /\ cons = "waitLoad"
    /\ cons' = IF state = "TAKEN" THEN "dropLoad" ELSE "waitLock"
    /\ UNCHANGED <<slotVars, prodVars, policy, timed, polls, task, woken, signalled, got, rest>>

(* Mutant of WaitLock: it sleeps without looking at the state again. *)
WaitLock_NoCheck ==
    /\ cons = "waitLock"
    /\ lock = "nobody"
    /\ cons' = "asleep"
    /\ signalled' = FALSE
    /\ UNCHANGED <<slotVars, prodVars, policy, timed, polls, task, woken, got, rest>>

WaitLock ==
    /\ cons = "waitLock"
    /\ lock = "nobody"
    /\ lock' = "consumer"
    /\ cons' = "waitCheck"
    /\ UNCHANGED <<state, cell, waker, callback, prodVars, policy, timed, polls, task, woken,
                   signalled, got, rest>>

(* Under the lock: still empty, it sleeps, which releases the lock. *)
WaitCheck ==
    /\ cons = "waitCheck"
    /\ lock' = "nobody"
    /\ IF state # "EMPTY"
       THEN cons' = "waitClaim" /\ UNCHANGED signalled
       ELSE cons' = "asleep" /\ signalled' = FALSE
    /\ UNCHANGED <<state, cell, waker, callback, prodVars, policy, timed, polls, task, woken,
                   got, rest>>

(* The condition variable was notified. *)
Awake ==
    /\ cons = "asleep"
    /\ signalled
    /\ lock = "nobody"
    /\ cons' = "waitClaim"
    /\ UNCHANGED <<slotVars, prodVars, policy, timed, polls, task, woken, signalled, got, rest>>

(* The condition variable returns for no reason. *)
SpuriousWake ==
    /\ cons = "asleep"
    /\ lock = "nobody"
    /\ cons' = "waitClaim"
    /\ UNCHANGED <<slotVars, prodVars, policy, timed, polls, task, woken, signalled, got, rest>>

(* The deadline passes, before the sleep or during it: unless the state has
   changed the wait returns, dropping the Pending. *)
TimeOut ==
    /\ timed
    /\ \/ cons = "waitCheck" /\ state = "EMPTY"
       \/ cons = "asleep" /\ lock = "nobody"
    /\ lock' = "nobody"
    /\ cons' = IF state = "EMPTY" THEN "dropLoad" ELSE "waitClaim"
    /\ UNCHANGED <<state, cell, waker, callback, prodVars, policy, timed, polls, task, woken,
                   signalled, got, rest>>

(* Pending::on_complete detaches the call and locks the waiters. *)
OnComplete ==
    /\ cons = "free"
    /\ policy' = "Detach"
    /\ cons' = "cbLock"
    /\ task' = NoTask
    /\ UNCHANGED <<slotVars, prodVars, timed, polls, woken, signalled, got, rest>>

CallbackLock ==
    /\ cons = "cbLock"
    /\ lock = "nobody"
    /\ lock' = "consumer"
    /\ cons' = "cbClaim"
    /\ UNCHANGED <<state, cell, waker, callback, prodVars, policy, timed, polls, task, woken,
                   signalled, got, rest>>

(* on_complete takes a value that is there, or leaves its callback. *)
CallbackSet ==
    /\ cons = "cbClaim"
    /\ Take("cbRead", "dropLoad")
    /\ IF state = "READY"
       THEN UNCHANGED <<callback, lock>>
       ELSE callback' = TRUE /\ lock' = "nobody"
    /\ UNCHANGED <<cell, waker, prodVars, policy, timed, polls, task, woken, signalled, got, rest>>

(* Pending::detach, and a plain drop. *)
Detach ==
    /\ cons = "free"
    /\ policy' = "Detach"
    /\ cons' = "dropLoad"
    /\ task' = NoTask
    /\ UNCHANGED <<slotVars, prodVars, timed, polls, woken, signalled, got, rest>>

Release ==
    /\ cons = "free"
    /\ cons' = "dropLoad"
    /\ task' = NoTask
    /\ UNCHANGED <<slotVars, prodVars, policy, timed, polls, woken, signalled, got, rest>>

(* Mutant of DropLoad: the drop policy is not looked at. *)
DropLoad_AnyPolicy ==
    /\ cons = "dropLoad"
    /\ cons' = IF state = "EMPTY" THEN "dropCancel" ELSE "gone"
    /\ UNCHANGED <<slotVars, prodVars, policy, timed, polls, task, woken, signalled, got, rest>>

(* Drop for Pending reads the state ... *)
DropLoad ==
    /\ cons = "dropLoad"
    /\ cons' = IF policy = "Cancel" /\ state = "EMPTY" THEN "dropCancel" ELSE "gone"
    /\ UNCHANGED <<slotVars, prodVars, policy, timed, polls, task, woken, signalled, got, rest>>

(* ... and trips the call's token. *)
DropCancel ==
    /\ cons = "dropCancel"
    /\ token' = TRUE
    /\ cons' = "gone"
    /\ UNCHANGED <<slotVars, prodVars, policy, timed, polls, task, woken, signalled, got, asked>>

(* Pending::cancel, or a clone of its token, from any thread. *)
Cancel ==
    /\ ~asked
    /\ token' = TRUE
    /\ asked' = TRUE
    /\ UNCHANGED <<slotVars, prodVars, consVars, woken, signalled, got>>

-----------------------------------------------------------------------------
ProducerStep ==
    \/ Complete \/ DropCompleter \/ Hook \/ Lock \/ Write \/ Store \/ TakeWaiters
    \/ Claim \/ CallBack \/ Notify \/ Wake

(* What the host's thread does once it has entered an operation. *)
ConsumerStep ==
    \/ PollRegister \/ PollRecheck \/ ReadCell
    \/ WaitClaim \/ WaitLoad \/ WaitLock \/ WaitCheck \/ Awake
    \/ CallbackLock \/ CallbackSet \/ DropLoad \/ DropCancel

(* What the host chooses to do, and when its deadline passes. *)
HostStep ==
    \/ TryTake \/ (\E k \in Tasks : Poll(k)) \/ Wait \/ OnComplete \/ Detach \/ Release
    \/ Cancel \/ TimeOut \/ SpuriousWake

Next == ProducerStep \/ ConsumerStep \/ HostStep

Spec == Init /\ [][Next]_vars

(* Fairness: both threads are scheduled, the call ends, the runtime thread
   gets the mutex in the end however often spurious wake-ups make the host
   take it, and an executor polls a task it was told to wake.  Nothing is
   assumed of the host's choices. *)
Fairness ==
    /\ SF_vars(ProducerStep)
    /\ WF_vars(ConsumerStep)
    /\ \A k \in Tasks : WF_vars(k \in woken /\ Poll(k))

FairSpec == Spec /\ Fairness

-----------------------------------------------------------------------------
(* Properties. *)

(* The value cell needs no lock (the claim behind `unsafe impl Sync`): no two
   threads are ever about to access it at once, and whoever won the state
   finds a value in it. *)
CellIsPrivate ==
    /\ cons \in Reads => prod \notin {"write", "read"} /\ cell # NoResult
    /\ prod = "read" => cell # NoResult

(* However the call ends, its bookkeeping is settled before any consumer can
   see the result: poll, wait, try_take, is_ready or a callback. *)
HookBeforeResult == state # "EMPTY" \/ got # NoResult => hooked

(* A task whose poll returned Pending is told when the result is there, even
   if it registered its waker while the producer was delivering. *)
NoLostWake ==
    cons = "free" /\ task # NoTask /\ state = "READY" /\ prod = "done" => task \in woken

(* A thread asleep on the condition variable once the producer is done was
   notified: its check and its sleep leave no gap. *)
NoMissedNotify == cons = "asleep" /\ prod \in {"wake", "done"} => signalled

(* A detached call, or one with a callback, runs on: "it will not be
   cancelled" unless the host says so. *)
DetachedRunsOn == policy = "Detach" /\ ~asked => ~token /\ result # "cancelled"

(* The slot is sound: one thread at a time in its cell, the producer's bookkeeping before the
   result, no wake-up lost by any way of waiting, and a detached call left alone. *)
SlotHolds ==
    /\ TypeOK
    /\ CellIsPrivate
    /\ HookBeforeResult
    /\ NoLostWake /\ NoMissedNotify
    /\ DetachedRunsOn

(* The slot implements a one-shot: the result settles once and is handed out
   once, whole, to one consumer. *)
One == INSTANCE OneShot WITH settled  <- IF state = "EMPTY" THEN NoResult ELSE result,
                             received <- got
OneShotSpec == One!Spec

(* Every wait() returns, every callback runs and every await resolves once
   the call has ended, whichever order the two threads' steps come in. *)
EveryConsumerServed ==
    /\ cons = "waitClaim" ~> cons = "gone"
    /\ callback /\ state = "EMPTY" ~> got # NoResult
    /\ cons = "free" /\ task # NoTask ~> got # NoResult \/ task = NoTask

=============================================================================
