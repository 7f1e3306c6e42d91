------------------------------- MODULE BusHub -------------------------------
(***************************************************************************)
(* The events bus a Rust pool's workers share (runtimes/rust/src/          *)
(* bus_hub.rs), together with the three loops that drive it: the kernel's  *)
(* blocking delivery (deliverRemote), the parked delivery of a yielding    *)
(* worker (AwaitAnswer), and the command loop that serves a worker's inbox.*)
(*                                                                         *)
(* Every method of the hub runs under one mutex, so each is one step.      *)
(* Script runs between the steps.  A worker is a thread: its activations   *)
(* (the script it is in the middle of) form a stack, because a worker that *)
(* waits for another worker's answer serves its own inbox on top of the    *)
(* wait.                                                                   *)
(***************************************************************************)
EXTENDS Integers, Sequences, FiniteSets

CONSTANTS
    Workers,      \* the pool's worker indices
    NoWorker,     \* "no worker", not an element of Workers
    MaxTickets,   \* bound: how many deliveries cross between workers
    Yielding,     \* the workers built in RuntimeMode::Async
    Mortal,       \* the workers whose command loop may be stopped
    Retirable,    \* the workers a host may retire
    Interruptible \* the workers whose calls may run out of budget

ASSUME BusAssumption ==
    /\ NoWorker \notin Workers /\ IsFiniteSet(Workers)
    /\ MaxTickets \in Nat
    /\ Yielding \subseteq Workers
    /\ Mortal \subseteq Workers
    /\ Retirable \subseteq Workers
    /\ Interruptible \subseteq Workers

Tickets  == 1..MaxTickets
NoTicket == 0
Outcomes == {"none", "ran", "skipped"}

(***************************************************************************)
(* An activation is one piece of script on a worker's stack: the request   *)
(* it answers (NoTicket for a host command) and the answer it is blocked   *)
(* on (NoTicket while it runs).                                            *)
(***************************************************************************)
Activation == [serving : Tickets \cup {NoTicket}, waiting : Tickets \cup {NoTicket}]

(***************************************************************************)
(* Where a worker's command loop is.  Each command is preceded by          *)
(* serve_bus; a ServeBus command then serves once more, any other command  *)
(* runs its script.  A yielding loop told to stop polls its flights out    *)
(* ("stopping") and takes no further command.                              *)
(***************************************************************************)
Phases == {"idle", "preServe", "serve", "preRun", "run", "stopping", "stopped"}

VARIABLES
    nextTicket,  \* HubState.next_ticket
    inbox,       \* HubState.inbox, by ticket
    replies,     \* HubState.replies
    awaiting,    \* HubState.awaiting
    registered,  \* the keys of HubState.wakers
    retired,     \* HubState.retired
    replyWakers, \* the keys of HubState.reply_wakers
    bells,       \* ServeBus commands queued for each worker
    ringing,     \* the worker whose waker the thread is about to call
    phase,       \* each worker's place in its command loop
    stack,       \* each worker's activations, innermost last
    parked,      \* the worker whose flight awaits the ticket (AwaitAnswer)
    woken,       \* parked tickets whose future is scheduled to be polled
    loose,       \* parked tickets no call of the loop awaits
    lost         \* history: requests whose serving an interrupt unwound

hubVars    == <<nextTicket, inbox, replies, awaiting, registered, retired, replyWakers>>
threadVars == <<bells, ringing, phase, stack, parked, woken, loose>>
vars       == <<hubVars, threadVars, lost>>

TypeOK ==
    /\ nextTicket \in 0..MaxTickets
    /\ inbox \in [Workers -> Seq(Tickets)]
    /\ replies \in [Tickets -> Outcomes]
    /\ awaiting \in [Tickets -> Workers \cup {NoWorker}]
    /\ registered \subseteq Workers
    /\ retired \subseteq Workers
    /\ replyWakers \subseteq Tickets
    /\ bells \in [Workers -> Nat]
    /\ ringing \in [Workers -> Workers \cup {NoWorker}]
    /\ phase \in [Workers -> Phases]
    /\ stack \in [Workers -> Seq(Activation)]
    /\ parked \in [Tickets -> Workers \cup {NoWorker}]
    /\ woken \subseteq Tickets
    /\ loose \subseteq Tickets
    /\ lost \subseteq Tickets

Init ==
    /\ nextTicket = 0
    /\ inbox = [w \in Workers |-> <<>>]
    /\ replies = [t \in Tickets |-> "none"]
    /\ awaiting = [t \in Tickets |-> NoWorker]
    /\ registered = {}
    /\ retired = {}
    /\ replyWakers = {}
    /\ bells = [w \in Workers |-> 0]
    /\ ringing = [w \in Workers |-> NoWorker]
    /\ phase = [w \in Workers |-> "idle"]
    /\ stack = [w \in Workers |-> <<>>]
    /\ parked = [t \in Tickets |-> NoWorker]
    /\ woken = {}
    /\ loose = {}
    /\ lost = {}

-----------------------------------------------------------------------------
(* The worker's thread. *)

Busy(w) == stack[w] # <<>>
Top(w)  == stack[w][Len(stack[w])]

(* The thread is executing script: neither blocked on an answer nor inside
   the hub's call, about to ring the target's bell. *)
Running(w) == Busy(w) /\ Top(w).waiting = NoTicket /\ ringing[w] = NoWorker

(* The thread is in the kernel's poll loop. *)
Blocked(w) == Busy(w) /\ Top(w).waiting # NoTicket /\ ringing[w] = NoWorker

(* The thread is between two activations of its command loop. *)
Unoccupied(w) == ~Busy(w) /\ ringing[w] = NoWorker

Push(w, ticket) == Append(stack[w], [serving |-> ticket, waiting |-> NoTicket])
Pop(w)          == SubSeq(stack[w], 1, Len(stack[w]) - 1)
Waiting(w, t)   == [stack[w] EXCEPT ![Len(stack[w])].waiting = t]

Serving(w) == {stack[w][i].serving : i \in 1..Len(stack[w])} \ {NoTicket}

(* What the loop does once the script of a phase has ended, or has been
   interrupted: serve_bus's error is dropped, so either way it goes on. *)
After(p) == CASE p = "preServe" -> "serve"
              [] p = "preRun"   -> "run"
              [] p = "stopping" -> "stopping"
              [] OTHER          -> "idle"

(* Entering "run" starts the command's own script on an empty stack. *)
Resume(w) ==
    /\ phase' = [phase EXCEPT ![w] = After(@)]
    /\ stack' = [stack EXCEPT ![w] =
                    IF phase[w] = "preRun"
                    THEN <<[serving |-> NoTicket, waiting |-> NoTicket]>>
                    ELSE <<>>]

-----------------------------------------------------------------------------
(* The hub's methods. *)

(* BusHub::register: the pool registers a worker's waker once its thread is
   spawned, under an index it never reuses. *)
Register(w) ==
    /\ w \notin registered \cup retired
    /\ registered' = registered \cup {w}
    /\ UNCHANGED <<nextTicket, inbox, replies, awaiting, retired, replyWakers,
                   threadVars, lost>>

(* Mutant of Call: the target's retirement is not looked at. *)
Call_Unchecked(w, v) ==
    /\ nextTicket < MaxTickets
    /\ nextTicket' = nextTicket + 1
    /\ inbox' = [inbox EXCEPT ![v] = Append(@, nextTicket + 1)]
    /\ awaiting' = [awaiting EXCEPT ![nextTicket + 1] = v]
    /\ ringing' = [ringing EXCEPT ![w] = v]
    /\ UNCHANGED replies

(* BusHub::call: a delivery from w to a handler v holds.  A worker that is
   retired or has no waker is answered for at once. *)
Call(w, v) ==
    LET ticket == nextTicket + 1 IN
    /\ nextTicket < MaxTickets
    /\ nextTicket' = ticket
    /\ IF v \in retired \/ v \notin registered
       THEN /\ replies' = [replies EXCEPT ![ticket] = "skipped"]
            /\ UNCHANGED <<inbox, awaiting, ringing>>
       ELSE /\ inbox' = [inbox EXCEPT ![v] = Append(@, ticket)]
            /\ awaiting' = [awaiting EXCEPT ![ticket] = v]
            /\ ringing' = [ringing EXCEPT ![w] = v]
            /\ UNCHANGED replies

(* The tail of BusHub::call, after the lock is released: the target's waker
   queues a ServeBus command, or finds the channel closed. *)
Ring(w) ==
    /\ ringing[w] # NoWorker
    /\ bells' = [bells EXCEPT ![ringing[w]] = IF phase[ringing[w]] = "stopped" THEN @ ELSE @ + 1]
    /\ ringing' = [ringing EXCEPT ![w] = NoWorker]
    /\ UNCHANGED <<hubVars, phase, stack, parked, woken, loose, lost>>

(* Mutants of Reply: the answer is stored whether or not it is awaited; the
   parked caller's waker is not called; the answer is not stored unless a
   caller is parked on it. *)
Reply_Unchecked(id, outcome) ==
    /\ awaiting' = [awaiting EXCEPT ![id] = NoWorker]
    /\ replies' = [replies EXCEPT ![id] = outcome]
    /\ replyWakers' = replyWakers \ {id}
    /\ woken' = woken \cup ({id} \cap replyWakers)

Reply_NoWake(id, outcome) ==
    IF awaiting[id] # NoWorker
    THEN /\ awaiting' = [awaiting EXCEPT ![id] = NoWorker]
         /\ replies' = [replies EXCEPT ![id] = outcome]
         /\ replyWakers' = replyWakers \ {id}
         /\ UNCHANGED woken
    ELSE UNCHANGED <<awaiting, replies, replyWakers, woken>>

Reply_ParkedOnly(id, outcome) ==
    /\ awaiting' = [awaiting EXCEPT ![id] = NoWorker]
    /\ replies' = IF id \in replyWakers THEN [replies EXCEPT ![id] = outcome] ELSE replies
    /\ replyWakers' = replyWakers \ {id}
    /\ woken' = woken \cup ({id} \cap replyWakers)

(* BusHub::reply: an answer nobody awaits any more is dropped. *)
Reply(id, outcome) ==
    IF awaiting[id] # NoWorker
    THEN /\ awaiting' = [awaiting EXCEPT ![id] = NoWorker]
         /\ replies' = [replies EXCEPT ![id] = outcome]
         /\ replyWakers' = replyWakers \ {id}
         /\ woken' = woken \cup ({id} \cap replyWakers)
    ELSE UNCHANGED <<awaiting, replies, replyWakers, woken>>

(* Mutant of Retire: only the queue is answered, not what w is serving. *)
Retire_QueuedOnly(w) ==
    LET queued == {inbox[w][i] : i \in 1..Len(inbox[w])} IN
    /\ w \in Retirable \cap registered
    /\ w \notin retired
    /\ retired' = retired \cup {w}
    /\ registered' = registered \ {w}
    /\ inbox' = [inbox EXCEPT ![w] = <<>>]
    /\ replies' = [t \in Tickets |-> IF t \in queued THEN "skipped" ELSE replies[t]]
    /\ awaiting' = [t \in Tickets |-> IF t \in queued THEN NoWorker ELSE awaiting[t]]
    /\ replyWakers' = {}
    /\ woken' = woken \cup replyWakers
    /\ UNCHANGED <<nextTicket, bells, ringing, phase, stack, parked, loose, lost>>

(* BusHub::retire: what is queued for w, and what w is serving, is answered
   as a handler that did not run, and every parked caller is woken. *)
Retire(w) ==
    LET queued   == {inbox[w][i] : i \in 1..Len(inbox[w])}
        stranded == {t \in Tickets : awaiting[t] = w}
        answered == queued \cup stranded
    IN
    /\ w \in Retirable \cap registered
    /\ w \notin retired
    /\ retired' = retired \cup {w}
    /\ registered' = registered \ {w}
    /\ inbox' = [inbox EXCEPT ![w] = <<>>]
    /\ replies' = [t \in Tickets |-> IF t \in answered THEN "skipped" ELSE replies[t]]
    /\ awaiting' = [t \in Tickets |-> IF t \in answered THEN NoWorker ELSE awaiting[t]]
    /\ replyWakers' = {}
    /\ woken' = woken \cup replyWakers
    /\ UNCHANGED <<nextTicket, bells, ringing, phase, stack, parked, loose, lost>>

-----------------------------------------------------------------------------
(* The kernel's synchronous delivery. *)

(* Mutant of Emit: the kernel waits under the ticket before its own. *)
Emit_Stale(w, v) ==
    /\ Running(w)
    /\ v # w
    /\ Call(w, v)
    /\ stack' = [stack EXCEPT ![w] = Waiting(w, nextTicket)]
    /\ UNCHANGED <<registered, retired, replyWakers, bells, phase, parked, woken, loose, lost>>

(* deliverRemote: a handler or host emit that runs on w calls v and blocks. *)
Emit(w, v) ==
    /\ Running(w)
    /\ v # w
    /\ Call(w, v)
    /\ stack' = [stack EXCEPT ![w] = Waiting(w, nextTicket + 1)]
    /\ UNCHANGED <<registered, retired, replyWakers, bells, phase, parked, woken, loose, lost>>

(* BusHub::poll finds the answer: the delivery returns to the emit's loop. *)
PollDone(w) ==
    /\ Blocked(w)
    /\ replies[Top(w).waiting] # "none"
    /\ replies' = [replies EXCEPT ![Top(w).waiting] = "none"]
    /\ stack' = [stack EXCEPT ![w] = Waiting(w, NoTicket)]
    /\ UNCHANGED <<nextTicket, inbox, awaiting, registered, retired, replyWakers,
                   bells, ringing, phase, parked, woken, loose, lost>>

(* Mutants of PollServe: the request is read but left in the queue; the poll
   waits for the answer only. *)
PollServe_Peek(w) ==
    /\ Blocked(w)
    /\ replies[Top(w).waiting] = "none"
    /\ inbox[w] # <<>>
    /\ stack' = [stack EXCEPT ![w] = Push(w, Head(inbox[w]))]
    /\ UNCHANGED <<hubVars, bells, ringing, phase, parked, woken, loose, lost>>

PollServe_Deaf(w) ==
    /\ Blocked(w)
    /\ replies[Top(w).waiting] = "none"
    /\ inbox[w] # <<>>
    /\ UNCHANGED vars

(* BusHub::poll finds no answer but a request: the kernel runs it on top of
   the wait. *)
PollServe(w) ==
    /\ Blocked(w)
    /\ replies[Top(w).waiting] = "none"
    /\ inbox[w] # <<>>
    /\ stack' = [stack EXCEPT ![w] = Push(w, Head(inbox[w]))]
    /\ inbox' = [inbox EXCEPT ![w] = Tail(@)]
    /\ UNCHANGED <<nextTicket, replies, awaiting, registered, retired, replyWakers,
                   bells, ringing, phase, parked, woken, loose, lost>>

(* Mutant of Finish: a served request's script ends without a reply. *)
Finish_Silent(w) ==
    /\ Running(w)
    /\ IF Top(w).serving = NoTicket
       THEN Resume(w)
       ELSE /\ stack' = [stack EXCEPT ![w] = Pop(w)]
            /\ UNCHANGED phase
    /\ UNCHANGED <<hubVars, bells, ringing, parked, woken, loose, lost>>

(* The innermost script ends.  serveRequest answers the request it served;
   a host command's own script hands the thread back to the loop. *)
Finish(w) ==
    LET served == Top(w).serving IN
    /\ Running(w)
    /\ IF served # NoTicket
       THEN \E outcome \in {"ran", "skipped"} : Reply(served, outcome)
       ELSE UNCHANGED <<awaiting, replies, replyWakers, woken>>
    /\ IF served = NoTicket
       THEN Resume(w)
       ELSE /\ stack' = [stack EXCEPT ![w] = Pop(w)]
            /\ UNCHANGED phase
    /\ UNCHANGED <<nextTicket, inbox, registered, retired, bells, ringing, parked, loose, lost>>

(* The interrupt handler stops the thread's script: the budget is spent, or
   a poll answered "stop" and the kernel spun until the handler fired.  The
   error cannot be caught, so every activation unwinds and none replies. *)
Interrupt(w) ==
    /\ w \in Interruptible
    /\ Running(w) \/ Blocked(w)
    /\ lost' = lost \cup {t \in Serving(w) : awaiting[t] = w}
    /\ Resume(w)
    /\ UNCHANGED <<hubVars, bells, ringing, parked, woken, loose>>

-----------------------------------------------------------------------------
(* The command loop. *)

(* Mutants of TakeServeBus: the loop turns without a command; one turn of
   the loop coalesces every queued ServeBus. *)
TakeServeBus_Unasked(w) ==
    /\ Unoccupied(w) /\ phase[w] = "idle"
    /\ bells' = [bells EXCEPT ![w] = @ - 1]
    /\ phase' = [phase EXCEPT ![w] = "preServe"]
    /\ UNCHANGED <<hubVars, ringing, stack, parked, woken, loose, lost>>

TakeServeBus_Coalesced(w) ==
    /\ Unoccupied(w) /\ phase[w] = "idle"
    /\ bells[w] > 0
    /\ bells' = [bells EXCEPT ![w] = 0]
    /\ phase' = [phase EXCEPT ![w] = "preServe"]
    /\ UNCHANGED <<hubVars, ringing, stack, parked, woken, loose, lost>>

(* run_blocking and run_yielding take a ServeBus command off the channel. *)
TakeServeBus(w) ==
    /\ Unoccupied(w) /\ phase[w] = "idle"
    /\ bells[w] > 0
    /\ bells' = [bells EXCEPT ![w] = @ - 1]
    /\ phase' = [phase EXCEPT ![w] = "preServe"]
    /\ UNCHANGED <<hubVars, ringing, stack, parked, woken, loose, lost>>

(* Any other command the host queued; the guard on tickets only keeps the
   model from taking commands that can no longer cross workers. *)
TakeCommand(w) ==
    /\ Unoccupied(w) /\ phase[w] = "idle"
    /\ nextTicket < MaxTickets
    /\ phase' = [phase EXCEPT ![w] = "preRun"]
    /\ UNCHANGED <<hubVars, bells, ringing, stack, parked, woken, loose, lost>>

(* serveInbox: takes the next request queued for w, or returns. *)
ServeInbox(w) ==
    /\ Unoccupied(w)
    /\ phase[w] \in {"preServe", "serve", "preRun"}
    /\ IF inbox[w] # <<>>
       THEN /\ stack' = [stack EXCEPT ![w] = Push(w, Head(inbox[w]))]
            /\ inbox' = [inbox EXCEPT ![w] = Tail(@)]
            /\ UNCHANGED phase
       ELSE Resume(w) /\ UNCHANGED inbox
    /\ UNCHANGED <<nextTicket, replies, awaiting, registered, retired, replyWakers,
                   bells, ringing, parked, woken, loose, lost>>

(* A Stop command.  A blocking loop ends at once and drops its channel; a
   yielding loop first polls its flights out.  It waits for flights only: the
   asks no flight awaits are dropped with the runtime, without telling the
   hub. *)
Stop(w) ==
    /\ w \in Mortal
    /\ Unoccupied(w)
    /\ phase[w] \in {"idle", "stopping"}
    /\ IF \E t \in Tickets : parked[t] = w /\ t \notin loose
       THEN /\ phase[w] = "idle"
            /\ phase' = [phase EXCEPT ![w] = "stopping"]
            /\ UNCHANGED <<bells, parked, woken, loose>>
       ELSE LET dropped == {t \in Tickets : parked[t] = w} IN
            /\ phase' = [phase EXCEPT ![w] = "stopped"]
            /\ bells' = [bells EXCEPT ![w] = 0]
            /\ parked' = [t \in Tickets |-> IF t \in dropped THEN NoWorker ELSE parked[t]]
            /\ woken' = woken \ dropped
            /\ loose' = loose \ dropped
    /\ UNCHANGED <<hubVars, ringing, stack, lost>>

-----------------------------------------------------------------------------
(* The parked delivery of a yielding worker. *)

(* emit_stepped, and events.emitAsync through peer.ask: the delivery is
   awaited by a future; the script goes on.  emit_stepped is a flight of the
   loop, and so is a call whose script awaits its emitAsync.  peer.ask alone
   only spawns the future: when no flight awaits it, as when a handler that
   serves a request drops the promise, it is polled while other calls of the
   worker are, and not otherwise. *)
Ask(w, v) ==
    /\ w \in Yielding
    /\ Running(w)
    /\ v # w
    /\ Call(w, v)
    /\ parked' = [parked EXCEPT ![nextTicket + 1] = w]
    /\ woken' = woken \cup {nextTicket + 1}
    /\ \E awaited \in {a \in BOOLEAN : a => Top(w).serving = NoTicket} :
          loose' = IF awaited THEN loose ELSE loose \cup {nextTicket + 1}
    /\ UNCHANGED <<registered, retired, replyWakers, bells, phase, stack, lost>>

(* AwaitAnswer::poll takes the answer and the call continues as script. *)
PollAnswer(t) ==
    LET w == parked[t] IN
    /\ w # NoWorker /\ t \in woken
    /\ Unoccupied(w) /\ phase[w] \in {"idle", "stopping"}
    /\ replies[t] # "none"
    /\ replies' = [replies EXCEPT ![t] = "none"]
    /\ replyWakers' = replyWakers \ {t}
    /\ woken' = woken \ {t}
    /\ parked' = [parked EXCEPT ![t] = NoWorker]
    /\ stack' = [stack EXCEPT ![w] = Push(w, NoTicket)]
    /\ phase' = [phase EXCEPT ![w] = IF @ = "idle" THEN "run" ELSE @]
    /\ loose' = loose \ {t}
    /\ UNCHANGED <<nextTicket, inbox, awaiting, registered, retired, bells, ringing, lost>>

(* AwaitAnswer::poll finds no answer: it leaves its waker with the hub. *)
PollPending(t) ==
    LET w == parked[t] IN
    /\ w # NoWorker /\ t \in woken
    /\ Unoccupied(w) /\ phase[w] \in {"idle", "stopping"}
    /\ replies[t] = "none"
    /\ replyWakers' = replyWakers \cup {t}
    /\ woken' = woken \ {t}
    /\ UNCHANGED <<nextTicket, inbox, replies, awaiting, registered, retired,
                   bells, ringing, phase, stack, parked, loose, lost>>

(* AwaitAnswer::poll finds no answer and no budget: BusHub::abandon.  The hub
   is left between the two, so an answer may arrive in time to be removed;
   the ticket stays in awaiting, and an answer that comes later is kept. *)
Abandon(t) ==
    LET w == parked[t] IN
    /\ w \in Interruptible /\ t \in woken
    /\ Unoccupied(w) /\ phase[w] \in {"idle", "stopping"}
    /\ replies' = [replies EXCEPT ![t] = "none"]
    /\ replyWakers' = replyWakers \ {t}
    /\ woken' = woken \ {t}
    /\ parked' = [parked EXCEPT ![t] = NoWorker]
    /\ loose' = loose \ {t}
    /\ UNCHANGED <<nextTicket, inbox, awaiting, registered, retired,
                   bells, ringing, phase, stack, lost>>

(* AwaitAnswer's watcher thread re-schedules the wait every few milliseconds. *)
Watch(t) ==
    /\ parked[t] # NoWorker
    /\ t \notin woken
    /\ woken' = woken \cup {t}
    /\ UNCHANGED <<hubVars, bells, ringing, phase, stack, parked, loose, lost>>

-----------------------------------------------------------------------------
Next ==
    \/ \E w \in Workers :
          \/ Register(w) \/ Retire(w)
          \/ Ring(w) \/ PollDone(w) \/ PollServe(w) \/ Finish(w) \/ Interrupt(w)
          \/ TakeServeBus(w) \/ TakeCommand(w) \/ ServeInbox(w) \/ Stop(w)
          \/ \E v \in Workers : Emit(w, v) \/ Ask(w, v)
    \/ \E t \in Tickets : PollAnswer(t) \/ PollPending(t) \/ Abandon(t) \/ Watch(t)

Spec == Init /\ [][Next]_vars

-----------------------------------------------------------------------------
(* Fairness: a live worker's thread is scheduled, the script it runs ends,
   its command channel is first-in first-out (a queued ServeBus is reached)
   and its queue runs empty now and then, so a woken flight gets polled.
   An ask no flight awaits is promised nothing: run_yielding polls its flights
   and, with none, blocks in recv().  Nothing is assumed of hosts, of retired
   workers, of the watcher thread or of budgets. *)
ThreadStep(w) ==
    /\ w \notin retired
    /\ Ring(w) \/ PollDone(w) \/ PollServe(w) \/ Finish(w) \/ ServeInbox(w)

ServeStep(w)  == w \notin retired /\ TakeServeBus(w)
FlightStep(t) == t \notin loose /\ parked[t] \notin retired /\ (PollAnswer(t) \/ PollPending(t))

Fairness ==
    /\ \A w \in Workers : WF_vars(ThreadStep(w)) /\ SF_vars(ServeStep(w))
    /\ \A t \in Tickets : SF_vars(FlightStep(t))

FairSpec == Spec /\ Fairness

-----------------------------------------------------------------------------
(* Properties. *)

Queued(t)   == \E w \in Workers : \E i \in 1..Len(inbox[w]) : inbox[w][i] = t
WaitedBy(w) == {stack[w][i].waiting : i \in 1..Len(stack[w])} \ {NoTicket}
WaitedOn(t) == parked[t] # NoWorker \/ \E w \in Workers : t \in WaitedBy(w)

(* Every request still owed an answer is in exactly one place: queued for
   the worker it was sent to, being served by it, or lost with an interrupted
   call; that worker is not retired and no answer exists yet.  This is what
   lets retire() find everything it must answer. *)
OwedOnce ==
    \A t \in Tickets : awaiting[t] # NoWorker =>
        /\ awaiting[t] \notin retired
        /\ replies[t] = "none"
        /\ \/ \E i \in 1..Len(inbox[awaiting[t]]) : inbox[awaiting[t]][i] = t
           \/ t \in Serving(awaiting[t])
           \/ t \in lost

(* A request never runs twice: a ticket sits at most once in all inboxes and
   stacks together, and one whose serving was cut short is never queued
   again, whatever retires, interrupts and late replies happen around it. *)
ServedOnce ==
    \A w, v \in Workers :
        /\ \A i \in 1..Len(inbox[w]), j \in 1..Len(inbox[v]) :
              inbox[w][i] = inbox[v][j] => w = v /\ i = j
        /\ \A i \in 1..Len(stack[w]), j \in 1..Len(stack[v]) :
              stack[w][i].serving # NoTicket /\ stack[w][i].serving = stack[v][j].serving
                => w = v /\ i = j
        /\ \A i \in 1..Len(inbox[w]) :
              inbox[w][i] \notin Serving(v) \cup lost /\ awaiting[inbox[w][i]] = w

(* A caller never waits for a ticket the hub has forgotten: whatever a
   blocked or parked delivery waits for is answered or still owed. *)
NoOrphanedWait ==
    \A t \in Tickets : WaitedOn(t) => replies[t] # "none" \/ awaiting[t] # NoWorker

(* A retired worker owes nobody: its queue is empty and every request sent
   to it, the one it was serving included, has been answered for it. *)
RetiredOwesNothing ==
    \A w \in retired : inbox[w] = <<>> /\ \A t \in Tickets : awaiting[t] # w

(* A parked delivery whose answer has arrived is scheduled to be polled: no
   order of reply, retire, poll and waker registration loses the wake-up. *)
NoLostWakeup ==
    \A t \in Tickets : parked[t] # NoWorker =>
        \/ t \in woken
        \/ t \in replyWakers /\ replies[t] = "none"

(* A request queued for a worker that sits idle in recv() has a ServeBus
   command behind it, sent or about to be: requests left in the inbox by an
   interrupted serveInbox are not stranded. *)
QueuedIsRung ==
    \A w \in Workers : inbox[w] # <<>> /\ Unoccupied(w) /\ phase[w] = "idle"
        => bells[w] > 0 \/ \E u \in Workers : ringing[u] = w

(* Every request is owed by one worker and served once, every wait has an answer or somebody
   who owes it, and none of the two wake-ups a request needs is lost. *)
RequestsHold ==
    /\ TypeOK
    /\ OwedOnce /\ ServedOnce
    /\ NoOrphanedWait /\ RetiredOwesNothing
    /\ NoLostWakeup /\ QueuedIsRung

(* Tickets grow along every chain of waits: an activation waits for a
   ticket younger than the request it serves, and the activations of one
   stack wait for ever younger tickets. *)
WaitsGrow ==
    \A w \in Workers : \A i \in 1..Len(stack[w]) :
        /\ i < Len(stack[w]) => stack[w][i].waiting # NoTicket
        /\ stack[w][i].waiting # NoTicket => stack[w][i].serving < stack[w][i].waiting
        /\ \A j \in 1..Len(stack[w]) :
              i < j /\ stack[w][j].waiting # NoTicket => stack[w][i].waiting < stack[w][j].waiting

(* What worker w's thread can do now without any budget running out. *)
CanStep(w) ==
    \/ ringing[w] # NoWorker
    \/ Running(w)
    \/ Blocked(w) /\ (replies[Top(w).waiting] # "none" \/ inbox[w] # <<>>)
    \/ Unoccupied(w) /\ phase[w] # "stopped" /\ inbox[w] # <<>>

(* "Two workers emitting into each other cannot deadlock" (bus_hub.rs): when
   some worker is blocked, some worker can take a step, unless a request a
   blocked worker waits for died with an interrupted call or was sent to a
   worker whose loop has ended; then the waiting call's own budget ends it. *)
NoCircularWait ==
    (\E w \in Workers : Blocked(w)) =>
        \/ \E w \in Workers : CanStep(w)
        \/ \E w \in Workers : Blocked(w) /\
              \/ Top(w).waiting \in lost
              \/ phase[awaiting[Top(w).waiting]] = "stopped"

(* No chain of waits closes: each link waits for a younger ticket, and its end can step. *)
WaitsHold == WaitsGrow /\ NoCircularWait

(* An answer is final: once the hub holds a ticket's answer it changes only
   by being taken, so a worker's late reply cannot replace the one retire()
   gave for it, nor retire() a reply that came first. *)
AnswersAreFinal ==
    [][\A t \in Tickets : replies[t] # "none" => replies'[t] \in {replies[t], "none"}]_vars

(* Every delivery that blocks or parks is answered: handlers that emit into
   each other across any workers, and workers retired meanwhile, never leave
   a caller waiting, as long as no budget runs out while a request is served
   and no loop that still has a seat is stopped.  Of an emitAsync no call of
   the loop awaits the hub's half is all that is claimed: its answer arrives
   and stays, but an idle worker polls nothing and may never read it. *)
EveryWaitEnds ==
    \A t \in Tickets :
        nextTicket >= t ~> \/ ~ WaitedOn(t)
                           \/ t \in loose /\ replies[t] # "none"
                           \/ \E w \in retired : t \in WaitedBy(w) \/ parked[t] = w
                           \/ lost # {}
                           \/ \E w \in Workers \ retired : phase[w] \in {"stopping", "stopped"}

=============================================================================
