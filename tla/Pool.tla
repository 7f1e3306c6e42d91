-------------------------------- MODULE Pool --------------------------------
(***************************************************************************)
(* XriptPool (runtimes/rust/src/pool.rs): calls routed to workers, the     *)
(* bounded queue the pool keeps beside each worker's own, saturation and   *)
(* shedding, the supervisor that quarantines a worker stuck in a host      *)
(* binding, and retirement.                                                *)
(*                                                                         *)
(* A worker is a blocking XriptHandle, kept to what the pool sees of it:   *)
(* its channel, in_flight, and the completion of each call (Handle and     *)
(* Pending have the rest).  Every call is dispatched by a host thread of   *)
(* its own.                                                                *)
(***************************************************************************)
EXTENDS Integers, Sequences, FiniteSets

CONSTANTS
    Calls,
    Workers,
    Long,        \* the workers on the long lane; the others are interactive
    Home,        \* Home[c]: the worker c's mod lives on, None for an execute
    Configs,     \* the PoolConfigs: queue_depth, saturation, whether wedge_policy is FailFast
    Blocking,    \* the calls whose script calls a binding that may block
    RetireFrom,  \* the states of a worker in which the host may retire it
    None

ASSUME PoolAssumption ==
    /\ IsFiniteSet(Calls)
    /\ Long \subseteq Workers
    /\ Home \in [Calls -> Workers \cup {None}]
    /\ Configs \subseteq [queueDepth : Nat, saturation : {"Reject", "ShedOldest", "Backpressure"},
                         failFast : BOOLEAN]
    /\ Blocking \subseteq Calls
    /\ None \notin Calls \cup Workers

(* The threads that answer queued calls themselves: a dispatch that sheds, the
   supervisor, a host that retires a worker. *)
Wardens == {"supervisor", "host"}
Actors  == Calls \cup Wardens
Answers == {"none", "ok", "cancelled", "shed", "wedged", "saturated"}

(* WorkerState, with Idle and Running, which nothing tells apart, as Healthy. *)
States == {"Healthy", "Unhealthy", "Retired"}

VARIABLES
    config,    \* the pool's configuration
    long,      \* the calls whose intent asks for the long lane
    at,        \* where each call's dispatch is
    where,     \* the worker it was routed to
    watched,   \* the calls whose on_complete is registered
    chan,      \* each handle's command channel
    serving,   \* the call each runtime thread is busy with, its callback included
    flight,    \* each handle's in_flight
    binding,   \* whether a call has yet to enter its host binding, is in it, or left
    result,    \* what the handle's own Pending holds
    cb,        \* where each completion callback is
    queue,     \* Worker.queue
    depth,     \* Worker.depth
    settled,   \* the calls whose settled flag is set
    token,     \* the calls whose token is cancelled
    answer,    \* what the Pending the caller holds resolves to
    state,     \* Worker.state
    doing,     \* what the supervisor and a retiring host are doing, to which worker
    snap,      \* the in_flight token an answering thread saw when it began
    picked     \* the call it has taken out of the queue

dispatchVars == <<at, where, watched>>
threadVars   == <<chan, serving, flight, binding, result>>
bookVars     == <<queue, depth, settled>>
answerVars   == <<token, answer>>
healthVars   == <<state, doing>>
actorVars    == <<snap, picked>>
setup == <<config, long>>
vars == <<setup, dispatchVars, threadVars, cb, bookVars, answerVars, healthVars, actorVars>>

Idle == [at |-> "idle", worker |-> None]

(* A queue without its i-th entry, and without c, which is in it at most once. *)
RemovedAt(q, i) == SubSeq(q, 1, i - 1) \o SubSeq(q, i + 1, Len(q))
Has(q, c) == \E i \in 1..Len(q) : q[i] = c
Without(q, c) == IF Has(q, c) THEN RemovedAt(q, CHOOSE i \in 1..Len(q) : q[i] = c) ELSE q

TypeOK ==
    /\ config \in Configs /\ long \subseteq Calls
    /\ at \in [Calls -> {"new", "check", "snapshot", "pick", "claim", "cancel", "fail", "send",
                         "count", "push", "watch", "callback", "done"}]
    /\ where \in [Calls -> Workers \cup {None}]
    /\ watched \subseteq Calls
    /\ chan \in [Workers -> Seq(Calls)]
    /\ serving \in [Workers -> Calls \cup {None}]
    /\ flight \in [Workers -> Calls \cup {None}]
    /\ binding \in [Calls -> {"before", "inside", "after"}]
    /\ result \in [Calls -> {"none", "ok", "cancelled"}]
    /\ cb \in [Calls -> {"no", "swap", "drop", "complete", "end"}]
    /\ queue \in [Workers -> Seq(Calls)]
    /\ depth \in [Workers -> 0..Cardinality(Calls)]
    /\ settled \subseteq Calls /\ token \subseteq Calls
    /\ answer \in [Calls -> Answers]
    /\ state \in [Workers -> States]
    /\ doing \in [Wardens -> [at : {"idle", "Healthy", "Unhealthy",
                                   "snapshot", "pick", "claim", "cancel", "fail"},
                              worker : Workers \cup {None}]]
    /\ snap \in [Actors -> Calls \cup {None}]
    /\ picked \in [Actors -> Calls \cup {None}]

Init ==
    /\ config \in Configs
    /\ long \in SUBSET {c \in Calls : Home[c] = None}
    /\ at = [c \in Calls |-> "new"]
    /\ where = [c \in Calls |-> None]
    /\ watched = {}
    /\ chan = [w \in Workers |-> <<>>]
    /\ serving = [w \in Workers |-> None]
    /\ flight = [w \in Workers |-> None]
    /\ binding = [c \in Calls |-> IF c \in Blocking THEN "before" ELSE "after"]
    /\ result = [c \in Calls |-> "none"]
    /\ cb = [c \in Calls |-> "no"]
    /\ queue = [w \in Workers |-> <<>>]
    /\ depth = [w \in Workers |-> 0]
    /\ settled = {}
    /\ token = {}
    /\ answer = [c \in Calls |-> "none"]
    /\ state = [w \in Workers |-> "Healthy"]
    /\ doing = [a \in Wardens |-> Idle]
    /\ snap = [a \in Actors |-> None]
    /\ picked = [a \in Actors |-> None]

-----------------------------------------------------------------------------
(* Routing. *)

Routable(w) == state[w] = "Healthy"

(* PoolView::least_loaded; which of several equals is left open. *)
LeastLoaded(lane) ==
    {w \in lane : Routable(w) /\ \A v \in lane : Routable(v) => depth[w] <= depth[v]}

(* The first lane of a list that has a routable worker. *)
Resolve(first, second) == IF LeastLoaded(first) # {} THEN LeastLoaded(first) ELSE LeastLoaded(second)

(* Where a call goes: a mod's call to the mod's home, whatever its state; an
   execute to its lane, or to the other one.  With no worker left to route to
   an execute gets a runtime of its own, outside this module. *)
Targets(c) ==
    IF Home[c] # None THEN {Home[c]}
    ELSE IF c \in long THEN Resolve(Long, Workers \ Long)
    ELSE Resolve(Workers \ Long, Long)

Route(c) ==
    /\ at[c] = "new"
    /\ \E w \in Targets(c) : where' = [where EXCEPT ![c] = w]
    /\ at' = [at EXCEPT ![c] = "check"]
    /\ UNCHANGED <<setup, watched, threadVars, cb, bookVars, answerVars, healthVars, actorVars>>

-----------------------------------------------------------------------------
(* Dispatch. *)

Refused(c) == config.failFast /\ state[where[c]] = "Unhealthy"
Full(c)    == depth[where[c]] >= config.queueDepth

(* Mutant of Policy: every lane is treated as the long one. *)
Policy_OneLane(c) == config.saturation

(* The interactive lane always waits. *)
Policy(c)  == IF where[c] \in Long THEN config.saturation ELSE "Backpressure"

Refuse(c) ==
    /\ at[c] = "check" /\ Refused(c)
    /\ answer' = [answer EXCEPT ![c] = "wedged"]
    /\ at' = [at EXCEPT ![c] = "done"]
    /\ UNCHANGED <<setup, where, watched, threadVars, cb, bookVars, token, healthVars, actorVars>>

Reject(c) ==
    /\ at[c] = "check" /\ ~Refused(c) /\ Full(c) /\ Policy(c) = "Reject"
    /\ answer' = [answer EXCEPT ![c] = "saturated"]
    /\ at' = [at EXCEPT ![c] = "done"]
    /\ UNCHANGED <<setup, where, watched, threadVars, cb, bookVars, token, healthVars, actorVars>>

(* Admitted, after shedding the oldest queued call if the policy says so. *)
Admit(c) ==
    /\ at[c] = "check" /\ ~Refused(c) /\ ~(Full(c) /\ Policy(c) = "Reject")
    /\ at' = [at EXCEPT ![c] = IF Full(c) /\ Policy(c) = "ShedOldest" THEN "snapshot" ELSE "send"]
    /\ UNCHANGED <<setup, where, watched, threadVars, cb, bookVars, answerVars, healthVars, actorVars>>

(* build: the handle has the command before the pool has an entry for it. *)
Send(c) ==
    /\ at[c] = "send"
    /\ chan' = [chan EXCEPT ![where[c]] = Append(@, c)]
    /\ at' = [at EXCEPT ![c] = "count"]
    /\ UNCHANGED <<setup, where, watched, serving, flight, binding, result, cb, bookVars, answerVars,
                   healthVars, actorVars>>

Count(c) ==
    /\ at[c] = "count"
    /\ depth' = [depth EXCEPT ![where[c]] = @ + 1]
    /\ at' = [at EXCEPT ![c] = "push"]
    /\ UNCHANGED <<setup, where, watched, threadVars, cb, queue, settled, answerVars, healthVars,
                   actorVars>>

Push(c) ==
    /\ at[c] = "push"
    /\ queue' = [queue EXCEPT ![where[c]] = Append(@, c)]
    /\ at' = [at EXCEPT ![c] = "watch"]
    /\ UNCHANGED <<setup, where, watched, threadVars, cb, depth, settled, answerVars, healthVars,
                   actorVars>>

(* Mutant of Watch: a call that completed already is not called back. *)
Watch_Later(c) ==
    /\ at[c] = "watch"
    /\ watched' = watched \cup {c}
    /\ at' = [at EXCEPT ![c] = "done"]
    /\ UNCHANGED <<setup, where, threadVars, cb, bookVars, answerVars, healthVars, actorVars>>

(* on_complete: the callback runs on this thread if the call has completed. *)
Watch(c) ==
    /\ at[c] = "watch"
    /\ watched' = watched \cup {c}
    /\ IF result[c] # "none"
       THEN cb' = [cb EXCEPT ![c] = "swap"] /\ at' = [at EXCEPT ![c] = "callback"]
       ELSE at' = [at EXCEPT ![c] = "done"] /\ UNCHANGED cb
    /\ UNCHANGED <<setup, where, threadVars, bookVars, answerVars, healthVars, actorVars>>

-----------------------------------------------------------------------------
(* The runtime thread of a blocking handle. *)

Stuck(w) == serving[w] # None /\ binding[serving[w]] = "inside"

(* The completion of c on its own thread, which runs a registered callback
   before it goes back to the channel. *)
Complete(w, c, r) ==
    /\ result' = [result EXCEPT ![c] = r]
    /\ cb' = IF c \in watched THEN [cb EXCEPT ![c] = "swap"] ELSE cb
    /\ serving' = [serving EXCEPT ![w] = IF c \in watched THEN c ELSE None]

(* shed_if_cancelled *)
TakeCancelled(w) ==
    /\ serving[w] = None /\ chan[w] # <<>> /\ Head(chan[w]) \in token
    /\ chan' = [chan EXCEPT ![w] = Tail(@)]
    /\ Complete(w, Head(chan[w]), "cancelled")
    /\ UNCHANGED <<setup, dispatchVars, flight, binding, bookVars, answerVars, healthVars, actorVars>>

(* Past the token check, and serving the bus before the call is in flight. *)
Take(w) ==
    /\ serving[w] = None /\ chan[w] # <<>> /\ Head(chan[w]) \notin token
    /\ chan' = [chan EXCEPT ![w] = Tail(@)]
    /\ serving' = [serving EXCEPT ![w] = Head(chan[w])]
    /\ UNCHANGED <<setup, dispatchVars, flight, binding, result, cb, bookVars, answerVars,
                   healthVars, actorVars>>

(* The call is in flight and its script runs. *)
Start(w) ==
    /\ serving[w] # None /\ flight[w] = None /\ result[serving[w]] = "none"
    /\ flight' = [flight EXCEPT ![w] = serving[w]]
    /\ UNCHANGED <<setup, dispatchVars, chan, serving, binding, result, cb, bookVars, answerVars,
                   healthVars, actorVars>>

(* The script enters a host binding, and the binding returns, if ever. *)
EnterBinding(w) ==
    /\ flight[w] # None /\ binding[flight[w]] = "before"
    /\ binding' = [binding EXCEPT ![flight[w]] = "inside"]
    /\ UNCHANGED <<setup, dispatchVars, chan, serving, flight, result, cb, bookVars, answerVars,
                   healthVars, actorVars>>

LeaveBinding(w) ==
    /\ Stuck(w)
    /\ binding' = [binding EXCEPT ![serving[w]] = "after"]
    /\ UNCHANGED <<setup, dispatchVars, chan, serving, flight, result, cb, bookVars, answerVars,
                   healthVars, actorVars>>

(* The script ends; the interrupt ends it early if its token was cancelled.
   The entry leaves in_flight before the result is delivered. *)
Finish(w) ==
    /\ flight[w] # None /\ binding[flight[w]] = "after"
    /\ flight' = [flight EXCEPT ![w] = None]
    /\ \E r \in IF flight[w] \in token THEN {"ok", "cancelled"} ELSE {"ok"} :
          Complete(w, flight[w], r)
    /\ UNCHANGED <<setup, dispatchVars, chan, binding, bookVars, answerVars, healthVars, actorVars>>

-----------------------------------------------------------------------------
(* The completion callback dispatch registers, on whichever thread runs it. *)

CallbackSwap(c) ==
    /\ cb[c] = "swap"
    /\ settled' = settled \cup {c}
    /\ cb' = [cb EXCEPT ![c] = IF c \in settled THEN "complete" ELSE "drop"]
    /\ UNCHANGED <<setup, dispatchVars, threadVars, queue, depth, answerVars, healthVars, actorVars>>

(* Mutant of CallbackDrop: the entry stays in the pool's queue. *)
CallbackDrop_Lingers(c) ==
    /\ cb[c] = "drop"
    /\ depth' = [depth EXCEPT ![where[c]] = @ - 1]
    /\ cb' = [cb EXCEPT ![c] = "complete"]
    /\ UNCHANGED <<setup, dispatchVars, threadVars, queue, settled, answerVars, healthVars, actorVars>>

(* The count and the entry; a settled entry between the two is inert. *)
CallbackDrop(c) ==
    /\ cb[c] = "drop"
    /\ depth' = [depth EXCEPT ![where[c]] = @ - 1]
    /\ queue' = [queue EXCEPT ![where[c]] = Without(@, c)]
    /\ cb' = [cb EXCEPT ![c] = "complete"]
    /\ UNCHANGED <<setup, dispatchVars, threadVars, settled, answerVars, healthVars, actorVars>>

(* The completer goes to whoever takes it first; then the thread moves on. *)
CallbackComplete(c) ==
    /\ cb[c] = "complete"
    /\ answer' = IF answer[c] = "none" THEN [answer EXCEPT ![c] = result[c]] ELSE answer
    /\ cb' = [cb EXCEPT ![c] = "end"]
    /\ IF at[c] = "callback"
       THEN at' = [at EXCEPT ![c] = "done"] /\ UNCHANGED serving
       ELSE serving' = [serving EXCEPT ![where[c]] = None] /\ UNCHANGED at
    /\ UNCHANGED <<setup, where, watched, chan, flight, binding, result, bookVars, token, healthVars,
                   actorVars>>

-----------------------------------------------------------------------------
(* answer_queued: the pool answers calls its worker's thread may never reach. *)

(* Which worker an actor is answering for, and the step it is at. *)
Ward(a) == IF a \in Calls THEN where[a] ELSE doing[a].worker
Step(a) == IF a \in Calls THEN at[a] ELSE doing[a].at

(* Actor a goes to step; a warden that is done lets its worker go. *)
Goto(a, step) ==
    IF a \in Calls THEN at' = [at EXCEPT ![a] = step] /\ UNCHANGED doing
    ELSE /\ doing' = [doing EXCEPT ![a] = IF step = "idle" THEN Idle ELSE [@ EXCEPT !.at = step]]
         /\ UNCHANGED at

(* After one answer a dispatch has shed enough; the others go on to the last. *)
AfterOne(a) == IF a \in Calls THEN "send" ELSE "pick"

Snapshot(a) ==
    /\ Step(a) = "snapshot"
    /\ snap' = [snap EXCEPT ![a] = flight[Ward(a)]]
    /\ Goto(a, "pick")
    /\ UNCHANGED <<setup, where, watched, threadVars, cb, bookVars, answerVars, state, picked>>

(* The positions of the queue a may answer. *)
Eligible(a) == {i \in DOMAIN queue[Ward(a)] :
                   queue[Ward(a)][i] \notin settled /\ queue[Ward(a)][i] # snap[a]}

(* The oldest of them is taken out. *)
Pick(a) ==
    /\ Step(a) = "pick"
    /\ \E i \in Eligible(a) :
          /\ \A j \in Eligible(a) : i <= j
          /\ queue' = [queue EXCEPT ![Ward(a)] = RemovedAt(@, i)]
          /\ picked' = [picked EXCEPT ![a] = queue[Ward(a)][i]]
    /\ Goto(a, "claim")
    /\ UNCHANGED <<setup, where, watched, threadVars, cb, depth, settled, answerVars, state, snap>>

PickNone(a) ==
    /\ Step(a) = "pick" /\ Eligible(a) = {}
    /\ snap' = [snap EXCEPT ![a] = None]
    /\ Goto(a, IF a \in Calls THEN "send" ELSE "idle")
    /\ UNCHANGED <<setup, where, watched, threadVars, cb, bookVars, answerVars, state, picked>>

(* Mutant of Claim: the flag is set without looking at what it held. *)
Claim_Blind(a) ==
    LET c == picked[a] IN
    /\ Step(a) = "claim"
    /\ settled' = settled \cup {c}
    /\ depth' = [depth EXCEPT ![Ward(a)] = @ - 1]
    /\ Goto(a, "cancel")
    /\ UNCHANGED <<setup, where, watched, threadVars, cb, queue, answerVars, state, actorVars>>

(* Whoever sets the flag first answers the call and gives its place back. *)
Claim(a) ==
    LET c == picked[a] IN
    /\ Step(a) = "claim"
    /\ settled' = settled \cup {c}
    /\ IF c \in settled
       THEN Goto(a, "pick") /\ picked' = [picked EXCEPT ![a] = None] /\ UNCHANGED depth
       ELSE Goto(a, "cancel") /\ depth' = [depth EXCEPT ![Ward(a)] = @ - 1] /\ UNCHANGED picked
    /\ UNCHANGED <<setup, where, watched, threadVars, cb, queue, answerVars, state, snap>>

(* Mutant of CancelQueued: the token is left alone. *)
CancelQueued_Not(a) ==
    /\ Step(a) = "cancel"
    /\ Goto(a, "fail")
    /\ UNCHANGED <<setup, where, watched, threadVars, cb, bookVars, answerVars, state, actorVars>>

CancelQueued(a) ==
    /\ Step(a) = "cancel"
    /\ token' = token \cup {picked[a]}
    /\ Goto(a, "fail")
    /\ UNCHANGED <<setup, where, watched, threadVars, cb, bookVars, answer, state, actorVars>>

Fail(a) ==
    LET c == picked[a] IN
    /\ Step(a) = "fail"
    /\ answer' = IF answer[c] # "none" THEN answer
                 ELSE [answer EXCEPT ![c] = IF a \in Calls THEN "shed" ELSE "wedged"]
    /\ picked' = [picked EXCEPT ![a] = None]
    /\ snap' = IF AfterOne(a) = "pick" THEN snap ELSE [snap EXCEPT ![a] = None]
    /\ Goto(a, AfterOne(a))
    /\ UNCHANGED <<setup, where, watched, threadVars, cb, bookVars, token, state>>

-----------------------------------------------------------------------------
(* The supervisor, one worker at a time, and retirement. *)

(* What a worker's health may make of it.  Whether the call has been in the
   binding for long enough is left open; only a thread inside a binding stops
   its heartbeat. *)
Verdicts(w) == IF flight[w] # None /\ Stuck(w) THEN {"Healthy", "Unhealthy"} ELSE {"Healthy"}

(* A retired worker is skipped; the health of any other is read. *)
Sample(w) ==
    /\ doing["supervisor"] = Idle /\ state[w] # "Retired"
    /\ \E v \in Verdicts(w) : doing' = [doing EXCEPT !["supervisor"] = [at |-> v, worker |-> w]]
    /\ UNCHANGED <<setup, dispatchVars, threadVars, cb, bookVars, answerVars, state, actorVars>>

(* Mutant of Mark: the queue is left to the worker. *)
Mark_Silent(w) ==
    LET verdict == doing["supervisor"].at IN
    /\ doing["supervisor"].worker = w /\ verdict \in {"Healthy", "Unhealthy"}
    /\ state' = IF state[w] = "Unhealthy" THEN state ELSE [state EXCEPT ![w] = verdict]
    /\ doing' = [doing EXCEPT !["supervisor"] = Idle]
    /\ UNCHANGED <<setup, dispatchVars, threadVars, cb, bookVars, answerVars, actorVars>>

(* The verdict is written over whatever the state has become, unless that is
   Unhealthy; a worker newly Unhealthy has its queue answered. *)
Mark(w) ==
    LET verdict == doing["supervisor"].at
        left    == state[w] = "Unhealthy" IN
    /\ doing["supervisor"].worker = w /\ verdict \in {"Healthy", "Unhealthy"}
    /\ state' = IF left THEN state ELSE [state EXCEPT ![w] = verdict]
    /\ doing' = [doing EXCEPT !["supervisor"] = IF verdict = "Unhealthy" /\ ~left
                                                THEN [@ EXCEPT !.at = "snapshot"] ELSE Idle]
    /\ UNCHANGED <<setup, dispatchVars, threadVars, cb, bookVars, answerVars, actorVars>>

(* retire_worker; a replacement worker is left out. *)
Retire(w) ==
    /\ doing["host"] = Idle /\ state[w] \in RetireFrom
    /\ state' = [state EXCEPT ![w] = "Retired"]
    /\ doing' = [doing EXCEPT !["host"] = [at |-> "snapshot", worker |-> w]]
    /\ UNCHANGED <<setup, dispatchVars, threadVars, cb, bookVars, answerVars, actorVars>>

-----------------------------------------------------------------------------

Dispatch(c) == \/ Route(c) \/ Refuse(c) \/ Reject(c) \/ Admit(c) \/ Send(c) \/ Count(c)
               \/ Push(c) \/ Watch(c)
Callback(c) == CallbackSwap(c) \/ CallbackDrop(c) \/ CallbackComplete(c)
Serve(w)    == \/ TakeCancelled(w) \/ Take(w) \/ Start(w) \/ EnterBinding(w) \/ Finish(w)
AnswerQueued(a) == \/ Snapshot(a) \/ Pick(a) \/ PickNone(a) \/ Claim(a) \/ CancelQueued(a)
                   \/ Fail(a)
Supervise(w) == Sample(w) \/ Mark(w)

Next ==
    \/ \E c \in Calls : Dispatch(c) \/ Callback(c)
    \/ \E w \in Workers : Serve(w) \/ LeaveBinding(w) \/ Supervise(w) \/ Retire(w)
    \/ \E a \in Actors : AnswerQueued(a)

Spec == Init /\ [][Next]_vars

(* Every thread keeps running.  A binding need not return, a host need not
   retire anything, and a supervisor need not look at a worker again: its next
   pass may be arbitrarily late. *)
FairSpec ==
    /\ Spec
    /\ \A c \in Calls : WF_vars(Dispatch(c)) /\ WF_vars(Callback(c))
    /\ \A w \in Workers : WF_vars(Serve(w)) /\ WF_vars(Mark(w))
    /\ \A a \in Actors : WF_vars(AnswerQueued(a))

-----------------------------------------------------------------------------
(* Properties. *)

(* Whether some thread is between two updates of w's books. *)
Busy(w) ==
    \/ \E c \in Calls : where[c] = w /\ (at[c] = "push" \/ cb[c] = "drop")
    \/ \E a \in Actors : Ward(a) = w /\ Step(a) = "claim"

(* depth and the queue are two records of one thing, kept by the dispatching
   threads, the runtime thread and three answering threads without a common
   lock: whenever none of them is between its two updates they agree.  Routing
   and the saturation policy read one, shedding and quarantine the other. *)
BooksBalance == \A w \in Workers : ~Busy(w) => depth[w] = Len(queue[w])

(* The books agree and neither is driven below zero: an unsigned depth never wraps. *)
BooksHold == TypeOK /\ BooksBalance

(* A call answered by the pool while it was still in its worker's channel never
   starts, even if the worker's thread comes back: the token is cancelled before
   the caller hears. *)
AnsweredNeverStarts ==
    [][\A w \in Workers : \A i \in DOMAIN chan[w] :
          answer[chan[w][i]] \in {"shed", "wedged"} => serving'[w] # chan[w][i] \/ result'[chan[w][i]] # "none"]_vars

(* The supervisor's quarantine answers the calls queued behind a stuck one
   whether or not the worker's thread ever returns: a call in the queue when its
   worker is about to be marked Unhealthy is answered, unless the thread comes
   back and starts it first. *)
QuarantineAnswersQueue ==
    \A c \in Calls : \A w \in Workers :
        (/\ doing["supervisor"] = [at |-> "Unhealthy", worker |-> w] /\ state[w] = "Healthy"
         /\ \E i \in DOMAIN queue[w] : queue[w][i] = c) ~> answer[c] # "none" \/ flight[w] = c

(* As long as every binding returns, every call dispatched is answered, by its
   worker or by the pool. *)
CallsAnswered ==
    (\A c \in Calls : []<>(binding[c] # "inside"))
        => \A c \in Calls : at[c] = "check" ~> answer[c] # "none"

(* What retire_worker's documentation promises: a worker leaves routing forever. *)
RetiredForever == [][\A w \in Workers : state[w] = "Retired" => state'[w] = "Retired"]_vars
=============================================================================
