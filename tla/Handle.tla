------------------------------- MODULE Handle -------------------------------
(***************************************************************************)
(* A runtime on a thread of its own (runtimes/rust/src/handle.rs): the     *)
(* handle's verbs on the host's threads, the command channel, and the two  *)
(* command loops, run_blocking and run_yielding.                           *)
(*                                                                         *)
(* A call is a command with a reply: sent, then shed or served, then       *)
(* answered.  Its script is one interval between "run" and "hook"; on a    *)
(* yielding runtime it may park on a host future and be polled again.      *)
(***************************************************************************)
EXTENDS Naturals, Sequences, FiniteSets

CONSTANTS
    Calls,    \* the calls the host sends, each at most once
    Inline,   \* the calls that never park (load_mod and the reads)
    NoCall,
    Modes,    \* whether it may be built in RuntimeMode::Async, or not, or either
    MayFail   \* the runtime's construction may fail

ASSUME HandleAssumption ==
    /\ Inline \subseteq Calls
    /\ NoCall \notin Calls
    /\ Modes \subseteq BOOLEAN
    /\ MayFail \in BOOLEAN

(* The stop commands: shutdown(), kill(), and the one a dropped handle sends. *)
Stops == {"shutdown", "kill", "drop"}
DropsQueue(s) == s = "kill"

ASSUME StopsAssumption == Calls \cap Stops = {} /\ NoCall \notin Stops

Answers == {"none", "ok", "cancelled", "gone", "initFailed"}
Reports == {"none", "sent", "report", "error"}
Phases  == {"init", "failed", "recv", "serve", "run", "hook", "publish", "poll", "park",
            "asleep", "finish", "reply", "close", "ended"}

VARIABLES
    queue,     \* the mpsc channel
    open,      \* its receiver is alive
    token,     \* the calls whose CallToken is cancelled
    inFlight,  \* Shared.in_flight
    killed,    \* Shared.killed
    stopping,  \* Shared.stopping
    initError, \* Shared.init_error is set
    phase,     \* where the runtime thread is
    current,   \* the command it has taken, or the flight it polls
    outcome,   \* what the current call's script came to
    flights,   \* the parked calls
    toPoll,    \* the flights the present pass has still to poll
    ready,     \* flights whose host future settled or whose budget is spent
    stopCmd,   \* the stop a loop is carrying out, NoCall if none
    unparked,  \* the thread's park token
    waking,    \* commands whose sender has yet to unpark the thread
    killing,   \* where kill() is
    alive,     \* the handle has not been dropped
    yields,    \* the runtime is in RuntimeMode::Async
    sent,      \* history: the calls sent
    started,   \* history: the calls whose script began
    early,     \* history: the calls cancelled while they were queued
    before,    \* history: for each stop, the calls sent ahead of it
    answer,    \* what each call's Pending holds
    report     \* what each stop's Pending holds

channel == <<queue, open>>
shared  == <<token, inFlight, killed, stopping, initError>>
loop    == <<phase, current, outcome, flights, toPoll, stopCmd>>
host    == <<waking, killing, alive>>
history == <<sent, started, early, before>>
replies == <<answer, report>>
vars    == <<yields, channel, shared, loop, ready, unparked, host, history, replies>>

TypeOK ==
    /\ queue \in Seq(Calls \cup Stops)
    /\ open \in BOOLEAN
    /\ token \subseteq Calls
    /\ inFlight \subseteq Calls
    /\ killed \in BOOLEAN
    /\ stopping \in BOOLEAN
    /\ initError \in BOOLEAN
    /\ phase \in Phases
    /\ current \in Calls \cup {NoCall}
    /\ outcome \in Answers
    /\ flights \subseteq Calls
    /\ toPoll \subseteq Calls
    /\ ready \subseteq Calls
    /\ stopCmd \in Stops \cup {NoCall}
    /\ unparked \in BOOLEAN
    /\ waking \subseteq Calls \cup Stops
    /\ killing \in {"no", "flagged", "cancelled", "done"}
    /\ alive \in BOOLEAN
    /\ yields \in Modes
    /\ sent \subseteq Calls
    /\ started \subseteq Calls
    /\ early \subseteq Calls
    /\ before \in [Stops -> SUBSET Calls]
    /\ answer \in [Calls -> Answers]
    /\ report \in [Stops -> Reports]

Init ==
    /\ yields \in Modes
    /\ queue = <<>>
    /\ open = TRUE
    /\ token = {}
    /\ inFlight = {}
    /\ killed = FALSE
    /\ stopping = FALSE
    /\ initError = FALSE
    /\ phase = "init"
    /\ current = NoCall
    /\ outcome = "none"
    /\ flights = {}
    /\ toPoll = {}
    /\ ready = {}
    /\ stopCmd = NoCall
    /\ unparked = FALSE
    /\ waking = {}
    /\ killing = "no"
    /\ alive = TRUE
    /\ sent = {}
    /\ started = {}
    /\ early = {}
    /\ before = [s \in Stops |-> {}]
    /\ answer = [c \in Calls |-> "none"]
    /\ report = [s \in Stops |-> "none"]

InQueue(x) == \E i \in 1..Len(queue) : queue[i] = x

-----------------------------------------------------------------------------
(* The host's threads. *)

(* Mutant of Send: the loop is not told. *)
Send_NoWake(c) ==
    /\ alive /\ c \notin sent
    /\ sent' = sent \cup {c}
    /\ IF open
       THEN queue' = Append(queue, c) /\ UNCHANGED answer
       ELSE /\ answer' = [answer EXCEPT ![c] = IF initError THEN "initFailed" ELSE "gone"]
            /\ UNCHANGED queue
    /\ UNCHANGED <<yields, open, shared, loop, ready, unparked, host, started, early, before, report>>

(* Every verb: XriptHandle::send.  A closed channel hands the command back
   and it is aborted on the spot. *)
Send(c) ==
    /\ alive /\ c \notin sent
    /\ sent' = sent \cup {c}
    /\ IF open
       THEN /\ queue' = Append(queue, c)
            /\ waking' = waking \cup {c}
            /\ UNCHANGED answer
       ELSE /\ answer' = [answer EXCEPT ![c] = IF initError THEN "initFailed" ELSE "gone"]
            /\ UNCHANGED <<queue, waking>>
    /\ UNCHANGED <<yields, open, shared, loop, ready, unparked, killing, alive, started, early, before,
                   report>>

(* wake_worker, after the send. *)
WakeWorker(x) ==
    /\ x \in waking
    /\ waking' = waking \ {x}
    /\ unparked' = TRUE
    /\ UNCHANGED <<yields, channel, shared, loop, ready, killing, alive, history, replies>>

(* The host cancels a call, or drops its Pending. *)
CancelCall(c) ==
    /\ c \in sent \ token
    /\ answer[c] = "none"
    /\ token' = token \cup {c}
    /\ early' = IF InQueue(c) THEN early \cup {c} ELSE early
    /\ UNCHANGED <<yields, channel, inFlight, killed, stopping, initError, loop, ready, unparked, host,
                   sent, started, before, replies>>

(* XriptHandle::stop: the stop command joins the queue like any other; with
   the thread gone the report is immediate. *)
SendStop(s) ==
    /\ report[s] = "none"
    /\ stopping' = TRUE
    /\ before' = [before EXCEPT ![s] = sent]
    /\ IF open
       THEN /\ queue' = Append(queue, s)
            /\ report' = [report EXCEPT ![s] = "sent"]
       ELSE /\ report' = [report EXCEPT ![s] = "report"]
            /\ UNCHANGED queue

Shutdown ==
    /\ alive
    /\ SendStop("shutdown")
    /\ waking' = IF open THEN waking \cup {"shutdown"} ELSE waking
    /\ UNCHANGED <<yields, open, token, inFlight, killed, initError, loop, ready, unparked, killing,
                   alive, sent, started, early, answer>>

(* XriptHandle::kill, in its three steps: the flag ... *)
KillFlag ==
    /\ alive /\ killing = "no"
    /\ killed' = TRUE
    /\ killing' = "flagged"
    /\ UNCHANGED <<yields, channel, token, inFlight, stopping, initError, loop, ready, unparked, waking,
                   alive, history, replies>>

(* ... the tokens of what is in flight at this moment ... *)
KillTokens ==
    /\ killing = "flagged"
    /\ token' = token \cup inFlight
    /\ killing' = "cancelled"
    /\ UNCHANGED <<yields, channel, inFlight, killed, stopping, initError, loop, ready, unparked, waking,
                   alive, history, replies>>

(* ... and the stop command. *)
KillStop ==
    /\ killing = "cancelled"
    /\ SendStop("kill")
    /\ killing' = "done"
    /\ waking' = IF open THEN waking \cup {"kill"} ELSE waking
    /\ UNCHANGED <<yields, open, token, inFlight, killed, initError, loop, ready, unparked, alive,
                   sent, started, early, answer>>

(* Drop for XriptHandle: the stop is sent only if none was, and the thread
   is not unparked for it. *)
DropHandle ==
    /\ alive /\ killing \in {"no", "done"}
    /\ alive' = FALSE
    /\ IF stopping
       THEN UNCHANGED <<queue, stopping, before, report>>
       ELSE SendStop("drop")
    /\ UNCHANGED <<yields, open, token, inFlight, killed, initError, loop, ready, unparked, waking,
                   killing, sent, started, early, answer>>

(* A parked call's host future settles, or its watcher finds the budget spent
   or the token cancelled: the thread is unparked. *)
Settle(c) ==
    /\ c \in flights \ ready
    /\ ready' = ready \cup {c}
    /\ unparked' = TRUE
    /\ UNCHANGED <<yields, channel, shared, loop, host, history, replies>>

-----------------------------------------------------------------------------
(* The runtime thread: construction. *)

Construct ==
    /\ phase = "init"
    /\ phase' = "recv"
    /\ UNCHANGED <<yields, channel, shared, current, outcome, flights, toPoll, stopCmd, ready, unparked,
                   host, history, replies>>

ConstructFails ==
    /\ MayFail
    /\ phase = "init"
    /\ initError' = TRUE
    /\ phase' = "failed"
    /\ UNCHANGED <<yields, channel, token, inFlight, killed, stopping, current, outcome, flights, toPoll,
                   stopCmd, ready, unparked, host, history, replies>>

(* A failed runtime keeps draining, so callers get an answer. *)
DrainFailed ==
    /\ phase = "failed"
    /\ queue # <<>>
    /\ queue' = Tail(queue)
    /\ IF Head(queue) \in Stops
       THEN /\ report' = [report EXCEPT ![Head(queue)] = "report"]
            /\ phase' = "close"
            /\ UNCHANGED answer
       ELSE /\ answer' = [answer EXCEPT ![Head(queue)] = "initFailed"]
            /\ UNCHANGED <<phase, report>>
    /\ UNCHANGED <<yields, open, shared, current, outcome, flights, toPoll, stopCmd, ready, unparked,
                   host, history>>

-----------------------------------------------------------------------------
(* The runtime thread: the command loop. *)

Receiving == phase = "recv" /\ stopCmd = NoCall /\ queue # <<>>

(* Mutant of RecvStop: the stop is entered in in_flight like a call. *)
RecvStop_Tracked ==
    /\ Receiving /\ Head(queue) \in Stops
    /\ queue' = Tail(queue)
    /\ stopCmd' = Head(queue)
    /\ inFlight' = inFlight \cup {Head(queue)}
    /\ token' = IF DropsQueue(Head(queue)) THEN token \cup flights ELSE token
    /\ phase' = IF yields THEN "poll" ELSE "finish"
    /\ toPoll' = flights
    /\ UNCHANGED <<yields, open, killed, stopping, initError, current, outcome, flights, ready, unparked,
                   host, history, replies>>

(* A stop command.  A yielding loop polls its flights out first, cancelled if
   the queue is to be dropped. *)
RecvStop ==
    /\ Receiving /\ Head(queue) \in Stops
    /\ queue' = Tail(queue)
    /\ stopCmd' = Head(queue)
    /\ token' = IF DropsQueue(Head(queue)) THEN token \cup flights ELSE token
    /\ phase' = IF yields THEN "poll" ELSE "finish"
    /\ toPoll' = flights
    /\ UNCHANGED <<yields, open, inFlight, killed, stopping, initError, current, outcome, flights, ready,
                   unparked, host, history, replies>>

(* shed_if_cancelled: skipped outright. *)
RecvShed ==
    /\ Receiving /\ Head(queue) \in Calls
    /\ Head(queue) \in token \/ killed
    /\ queue' = Tail(queue)
    /\ answer' = [answer EXCEPT ![Head(queue)] = "cancelled"]
    /\ UNCHANGED <<yields, open, shared, loop, ready, unparked, host, history, report>>

(* Mutant of RecvCall: only kill() sheds. *)
RecvCall_KillOnly ==
    /\ Receiving /\ Head(queue) \in Calls
    /\ ~killed
    /\ queue' = Tail(queue)
    /\ current' = Head(queue)
    /\ phase' = "serve"
    /\ UNCHANGED <<yields, open, shared, outcome, flights, toPoll, stopCmd, ready, unparked, host,
                   history, replies>>

(* Otherwise the call is taken, and the loop serves the shared bus first. *)
RecvCall ==
    /\ Receiving /\ Head(queue) \in Calls
    /\ Head(queue) \notin token /\ ~killed
    /\ queue' = Tail(queue)
    /\ current' = Head(queue)
    /\ phase' = "serve"
    /\ UNCHANGED <<yields, open, shared, outcome, flights, toPoll, stopCmd, ready, unparked, host,
                   history, replies>>

(* serve_bus has returned: the call is entered in in_flight and begins. *)
Start ==
    /\ phase = "serve"
    /\ inFlight' = inFlight \cup {current}
    /\ started' = started \cup {current}
    /\ phase' = "run"
    /\ UNCHANGED <<yields, channel, token, killed, stopping, initError, current, outcome, flights,
                   toPoll, stopCmd, ready, unparked, host, sent, early, before, replies>>

(* The script ends: cancelled if the interrupt handler saw the token. *)
ScriptEnds ==
    /\ phase = "run"
    /\ \E o \in {"ok"} \cup {x \in {"cancelled"} : current \in token} : outcome' = o
    /\ phase' = "hook"
    /\ UNCHANGED <<yields, channel, shared, current, flights, toPoll, stopCmd, ready, unparked, host,
                   history, replies>>

(* On a yielding runtime the first poll may leave the call parked. *)
ScriptParks ==
    /\ yields
    /\ phase = "run"
    /\ current \notin Inline
    /\ flights' = flights \cup {current}
    /\ current' = NoCall
    /\ phase' = "recv"
    /\ UNCHANGED <<yields, channel, shared, outcome, toPoll, stopCmd, ready, unparked, host, history,
                   replies>>

(* Mutant of Hook: in_flight is tidied only when the loop comes round. *)
Hook_Late ==
    /\ phase = "hook"
    /\ phase' = "publish"
    /\ UNCHANGED <<yields, channel, shared, current, outcome, flights, toPoll, stopCmd, ready, unparked,
                   host, history, replies>>

(* The reply's before_delivery hook: forget_in_flight. *)
Hook ==
    /\ phase = "hook"
    /\ inFlight' = inFlight \ {current}
    /\ phase' = "publish"
    /\ UNCHANGED <<yields, channel, token, killed, stopping, initError, current, outcome, flights,
                   toPoll, stopCmd, ready, unparked, host, history, replies>>

(* The result is delivered; a flight that ended goes on with the pass. *)
Publish ==
    /\ phase = "publish"
    /\ answer' = [answer EXCEPT ![current] = outcome]
    /\ inFlight' = inFlight \ {current}
    /\ flights' = flights \ {current}
    /\ phase' = IF current \in flights THEN "poll" ELSE "recv"
    /\ current' = NoCall
    /\ outcome' = "none"
    /\ UNCHANGED <<yields, channel, token, killed, stopping, initError, toPoll, stopCmd, ready, unparked,
                   host, history, report>>

(* run_yielding finds the channel empty: it makes a pass over its flights. *)
BeginPass ==
    /\ phase = "recv" /\ stopCmd = NoCall
    /\ queue = <<>> /\ flights # {}
    /\ phase' = "poll"
    /\ toPoll' = flights
    /\ UNCHANGED <<yields, channel, shared, current, outcome, flights, stopCmd, ready, unparked, host,
                   history, replies>>

(* Flight::poll: done if its future settled or its token is cancelled. *)
PollFlight(c) ==
    /\ phase = "poll" /\ c \in toPoll
    /\ toPoll' = toPoll \ {c}
    /\ IF c \in ready \cup token
       THEN /\ current' = c
            /\ \E o \in {"ok" : x \in {c} \cap ready} \cup {"cancelled" : x \in {c} \cap token} :
                  outcome' = o
            /\ phase' = "hook"
       ELSE UNCHANGED <<current, outcome, phase>>
    /\ UNCHANGED <<yields, channel, shared, flights, stopCmd, ready, unparked, host, history, replies>>

(* Mutant of EndPass: a stop does not wait for the flights. *)
EndPass_Hasty ==
    /\ phase = "poll" /\ toPoll = {}
    /\ phase' = IF stopCmd # NoCall THEN "finish" ELSE IF flights # {} THEN "park" ELSE "recv"
    /\ UNCHANGED <<yields, channel, shared, current, outcome, flights, toPoll, stopCmd, ready, unparked,
                   host, history, replies>>

(* The pass is over: with no flight left a stop is carried out. *)
EndPass ==
    /\ phase = "poll" /\ toPoll = {}
    /\ phase' = IF flights # {} THEN "park" ELSE IF stopCmd # NoCall THEN "finish" ELSE "recv"
    /\ UNCHANGED <<yields, channel, shared, current, outcome, flights, toPoll, stopCmd, ready, unparked,
                   host, history, replies>>

(* thread::park, which a park token makes return at once, ... *)
Park ==
    /\ phase = "park"
    /\ phase' = "asleep"
    /\ UNCHANGED <<yields, channel, shared, current, outcome, flights, toPoll, stopCmd, ready, unparked,
                   host, history, replies>>

(* ... then round the loop: commands first, unless a stop is under way. *)
Unpark ==
    /\ phase = "asleep" /\ unparked
    /\ unparked' = FALSE
    /\ IF stopCmd = NoCall
       THEN phase' = "recv" /\ UNCHANGED toPoll
       ELSE phase' = "poll" /\ toPoll' = flights
    /\ UNCHANGED <<yields, channel, shared, current, outcome, flights, stopCmd, ready, host, history,
                   replies>>

(* finish_stop, dropping the queue: each command is aborted as cancelled. *)
DropQueued ==
    /\ phase = "finish" /\ DropsQueue(stopCmd)
    /\ queue # <<>>
    /\ queue' = Tail(queue)
    /\ IF Head(queue) \in Calls
       THEN answer' = [answer EXCEPT ![Head(queue)] = "cancelled"] /\ UNCHANGED report
       ELSE report' = [report EXCEPT ![Head(queue)] = "error"] /\ UNCHANGED answer
    /\ UNCHANGED <<yields, open, shared, loop, ready, unparked, host, history>>

(* finish_stop replies, and the loop ends. *)
Report ==
    /\ phase = "finish"
    /\ DropsQueue(stopCmd) => queue = <<>>
    /\ report' = [report EXCEPT ![stopCmd] = "report"]
    /\ phase' = "close"
    /\ UNCHANGED <<yields, channel, shared, current, outcome, flights, toPoll, stopCmd, ready, unparked,
                   host, history, answer>>

(* Mutant of Close: what is left in the channel is forgotten. *)
Close_Silent ==
    /\ phase = "close"
    /\ open' = FALSE
    /\ queue' = <<>>
    /\ phase' = "ended"
    /\ UNCHANGED <<yields, shared, current, outcome, flights, toPoll, stopCmd, ready, unparked, host,
                   history, replies>>

(* The thread drops the receiver, and with it the commands that came after
   the stop: their completers are dropped and fail them. *)
Close ==
    /\ phase = "close"
    /\ open' = FALSE
    /\ answer' = [c \in Calls |-> IF InQueue(c) THEN "gone" ELSE answer[c]]
    /\ report' = [s \in Stops |-> IF InQueue(s) THEN "error" ELSE report[s]]
    /\ queue' = <<>>
    /\ phase' = "ended"
    /\ UNCHANGED <<yields, shared, current, outcome, flights, toPoll, stopCmd, ready, unparked, host,
                   history>>

-----------------------------------------------------------------------------
LoopStep ==
    \/ Construct \/ ConstructFails \/ DrainFailed
    \/ RecvStop \/ RecvShed \/ RecvCall \/ Start \/ ScriptEnds \/ ScriptParks \/ Hook \/ Publish
    \/ BeginPass \/ (\E c \in Calls : PollFlight(c)) \/ EndPass \/ Park \/ Unpark
    \/ DropQueued \/ Report \/ Close

HostStep ==
    \/ \E c \in Calls : Send(c) \/ CancelCall(c)
    \/ Shutdown \/ KillFlag \/ DropHandle

Next ==
    \/ LoopStep \/ HostStep \/ KillTokens \/ KillStop
    \/ \E x \in Calls \cup Stops : WakeWorker(x)
    \/ \E c \in Calls : Settle(c)

Spec == Init /\ [][Next]_vars

(* Fairness: the runtime thread is scheduled and the script it runs ends; a
   verb the host has entered finishes; a parked call's future settles or its
   watcher ends it.  Nothing is assumed of which verbs the host calls. *)
Fairness ==
    /\ WF_vars(LoopStep)
    /\ WF_vars(KillTokens \/ KillStop)
    /\ WF_vars(\E x \in Calls \cup Stops : WakeWorker(x))
    /\ WF_vars(\E c \in Calls : Settle(c))

FairSpec == Spec /\ Fairness

-----------------------------------------------------------------------------
(* Properties. *)

(* What in_flight() shows is true at every moment: a call that runs or is
   parked is in it, and no consumer can hold the result of a call that still
   is; a pool takes the difference for queued against dispatched. *)
InFlightTruth ==
    /\ inFlight = (flights \cup {c \in {current} : phase \in {"run", "hook"}})
                  \ {c \in {current} : phase = "publish"}
    /\ \A c \in inFlight : answer[c] = "none" /\ c \in started

(* "A token tripped before the command is dequeued skips the call outright,
   unconditionally" (pending.rs). *)
EarlyCancelNeverRuns == early \cap started = {}

(* A stop's report confirms what it promises: every call sent ahead of it has
   been answered, none is left parked, and a shutdown has really run each of
   them unless the host cancelled it or killed the runtime. *)
ReportMeansDrained ==
    \A s \in Stops : report[s] = "report" /\ ~initError =>
        /\ flights = {}
        /\ \A c \in before[s] :
              /\ answer[c] # "none"
              /\ answer[c] = "cancelled" => c \in token \/ killed
              /\ answer[c] = "gone" => \E r \in Stops \ {s} : c \notin before[r] /\ report[r] = "report"

(* A yielding loop that sleeps while a call waits in its channel is about to
   be unparked: neither a send nor a settling future is slept through. *)
NoSleepThrough ==
    phase = "asleep" /\ ~unparked =>
        /\ flights \cap ready = {}
        /\ stopCmd = NoCall => \A c \in Calls : InQueue(c) => waking # {}

(* What the loop shows the host is true: its calls in flight, its sleeping with nothing to do,
   and the report of a stop. *)
LoopHolds == TypeOK /\ InFlightTruth /\ NoSleepThrough /\ ReportMeansDrained

(* Every call sent is answered and every stop resolves, whatever the host
   cancels, kills or drops, and when construction fails too. *)
EverythingAnswered ==
    /\ \A c \in Calls : c \in sent ~> answer[c] # "none"
    /\ \A s \in Stops : report[s] = "sent" ~> report[s] \in {"report", "error"}

=============================================================================
