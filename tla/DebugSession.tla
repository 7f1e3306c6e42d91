---------------------------- MODULE DebugSession ----------------------------
(***************************************************************************)
(* The debug session of the Node and JavaScript runtimes (debug-core.ts,   *)
(* debug-session.ts and debug-instrument.ts, the same in both, and         *)
(* debugExecute and the probe of their sandbox.ts).                        *)
(*                                                                         *)
(* debugExecute rewrites a script so that every line that begins a         *)
(* statement first asks the session whether to stop there, and, if so,     *)
(* awaits a gate.  The host hears of it through onStopped and opens the    *)
(* gate with a verb: resume, or one of the steps.  Everything runs on one  *)
(* event loop, so a step here is what runs between two awaits.  There is   *)
(* one session, and one gate, for all the scripts of a runtime.            *)
(*                                                                         *)
(* A script is the sequence of its lines; a line says whether it begins a  *)
(* statement, the block it stands in, as a path of blocks from the         *)
(* outermost, and what it declares: a name, the block it is visible in     *)
(* (a var's is the whole function) and whether it may be read before its   *)
(* line (a var may).  After a line the script may go on at any line:       *)
(* branches, loops and calls are not told apart.  Values, columns, ids and *)
(* texts are left out: a variable is shown, or is undefined because it is  *)
(* not in scope.                                                           *)
(***************************************************************************)
EXTENDS Naturals, Sequences, SequencesExt, FiniteSets

CONSTANTS
    Runs,           \* the calls of debugExecute
    Programs,       \* the scripts they may be given
    Requests,       \* the sets of lines the host may ask to break at
    AtOnce,         \* bound: how many runs may be under way together
    AnswersInside,  \* whether the host may call a verb from inside onStopped
    MaxLaps,        \* bound: how often a script goes back to an earlier line
    MaxVerbs        \* bound: how often the host acts unasked

VARIABLES
    core,      \* the DebugCore
    resolver,  \* the gate: the run whose await the next release ends
    run,       \* each run: its script, where it is and on which line
    verbs      \* how often the host has acted

vars == <<core, resolver, run, verbs>>

Nobody == "nobody"
Main == "xript-script.js"
Sources == {Main, "elsewhere.js"}
StepModes == {"in", "over", "out"}
ASSUME ConstantsAssumption ==
    /\ Nobody \notin Runs /\ IsFiniteSet(Runs)
    /\ \A p \in Programs : p # <<>>
    /\ AtOnce \in Nat /\ MaxLaps \in Nat /\ MaxVerbs \in Nat /\ AnswersInside \in BOOLEAN

-----------------------------------------------------------------------------
(* The script as it is rewritten. *)

(* The lines that begin a statement; the others are left as they are. *)
InstrumentSource(program) == {i \in DOMAIN program : program[i].statement}
(* Every name declared on a line above, whatever block it was declared in. *)
NamesAbove(program, line) == UNION {{d.name : d \in program[i].declares} : i \in 1..(line - 1)}
(* The declarations `name` may mean on a line: those of the innermost block around it. *)
Meaning(program, line, name) ==
    LET around == {[line |-> i, of |-> d] : i \in DOMAIN program, d \in UNION {program[i].declares : i \in DOMAIN program}}
        visible == {m \in around : m.of \in program[m.line].declares /\ m.of.name = name /\ IsPrefix(m.of.block, program[line].block)}
    IN  {m \in visible : \A other \in visible : Len(other.of.block) <= Len(m.of.block)}
(* `typeof` spares a name nobody declares, and throws on a let or const that stands further down. *)
SnapshotThrows(program, line) ==
    \E n \in NamesAbove(program, line) : Meaning(program, line, n) # {} /\ \A m \in Meaning(program, line, n) : ~ m.of.hoisted /\ m.line >= line
LocalsSnapshot(program, line) == [n \in NamesAbove(program, line) |-> IF Meaning(program, line, n) = {} THEN "undefined" ELSE "shown"]

-----------------------------------------------------------------------------
(* The core: breakpoints, what the host asked for, and the stop there is to look at. *)

NewCore ==
    [breakpoints |-> [s \in Sources |-> {}], breakable |-> {}, stepMode |-> "none", pauseRequested |-> FALSE, paused |-> FALSE,
     frame |-> [line |-> 0, of |-> Nobody], registry |-> {}, lastStopped |-> [reason |-> "none", hit |-> {}], told |-> "nothing"]

(* A breakpoint binds to a line of the script that is loaded, or does not. *)
Bound(lines, breakable) == {[line |-> l, verified |-> l \in breakable] : l \in lines}
(* A mutated form: breakpoints set before the script is known stay unbound. *)
LinesOnly(c, lines) == [c EXCEPT !.breakable = lines]
SetBreakableLines(c, lines) ==
    [c EXCEPT !.breakable = lines, !.breakpoints[Main] = Bound({b.line : b \in @}, lines)]
(* A breakpoint of a source that is not the script's binds to nothing. *)
SetBreakpoints(c, source, lines) ==
    [c EXCEPT !.breakpoints[source] = IF source = Main THEN Bound(lines, c.breakable) ELSE Bound(lines, {})]
ClearBreakpoints(c, source) == [c EXCEPT !.breakpoints[source] = {}]
PauseRequest(c) == [c EXCEPT !.pauseRequested = TRUE]
Resume(c) == [c EXCEPT !.stepMode = "none", !.paused = FALSE, !.pauseRequested = FALSE, !.told = "continued"]
StepTo(c, mode) == [c EXCEPT !.stepMode = mode, !.paused = FALSE, !.told = "continued"]

BreakpointsAt(c, line) == {b \in c.breakpoints[Main] : b.verified /\ b.line = line}
(* Why a line is stopped at, the request to pause before the step before a breakpoint. *)
Reason(c, line) == IF c.pauseRequested THEN "pause" ELSE IF c.stepMode # "none" THEN "step" ELSE "breakpoint"
ShouldStop(c, line) == c.pauseRequested \/ c.stepMode # "none" \/ BreakpointsAt(c, line) # {}
(* Asking uses up the request to pause. *)
Asked(c) == [c EXCEPT !.pauseRequested = FALSE]
(* A mutated form: the variables of the stop before are still registered. *)
KeepsRegistry(c, reason, of, line, locals) ==
    [c EXCEPT !.paused = TRUE, !.frame = [line |-> line, of |-> of], !.registry = @ \cup DOMAIN locals, !.told = "stopped"]
EnterPause(c, reason, of, line, locals) ==
    [c EXCEPT !.paused = TRUE, !.frame = [line |-> line, of |-> of], !.registry = DOMAIN locals, !.told = "stopped",
              !.lastStopped = [reason |-> reason, hit |-> IF reason = "breakpoint" THEN BreakpointsAt(c, line) ELSE {}]]

-----------------------------------------------------------------------------
(* The gate: one place for the await that is to be ended. *)

Parked(r) == run[r].at = "parked"
(* A mutated form: the gate forgets who waited before it opens. *)
ForgetsFirst(runs) == runs
Opened(runs) == IF resolver = Nobody THEN runs ELSE [runs EXCEPT ![resolver].at = "released"]

(* What the host does from inside onStopped, before the script has begun to wait: it opens a gate
   nobody waits at yet, or the one of another run. *)
Answers(c) == {c} \cup (IF AnswersInside THEN {Resume(c)} \cup {StepTo(c, mode) : mode \in StepModes} ELSE {})

-----------------------------------------------------------------------------
(* The runs. *)

Idle == [at |-> "idle", script |-> <<>>, line |-> 0, laps |-> 0]
UnderWay == {r \in Runs : run[r].at \notin {"idle", "done", "failed"}}
Init ==
    /\ core = NewCore /\ resolver = Nobody /\ verbs = 0
    /\ run = [r \in Runs |-> Idle]

(* A call that is cancelled, or has no session, changes nothing. *)
DebugDenied(r) ==
    /\ run[r].at = "idle"
    /\ run' = [run EXCEPT ![r].at = "failed"]
    /\ UNCHANGED <<core, resolver, verbs>>

(* debugExecute instruments the script, binds the breakpoints to it and runs it to its first await. *)
DebugExecute(r, program) ==
    /\ run[r].at = "idle" /\ Cardinality(UnderWay) < AtOnce
    /\ core' = SetBreakableLines(core, InstrumentSource(program))
    /\ run' = [run EXCEPT ![r] = [at |-> "running", script |-> program, line |-> 1, laps |-> 0]]
    /\ UNCHANGED <<resolver, verbs>>

(* A script that does not compile has moved the breakpoints all the same. *)
DebugRefused(r, program) ==
    /\ run[r].at = "idle" /\ Cardinality(UnderWay) < AtOnce
    /\ core' = SetBreakableLines(core, InstrumentSource(program))
    /\ run' = [run EXCEPT ![r].at = "failed"]
    /\ UNCHANGED <<resolver, verbs>>

(* A line is run, and the script goes on at a line or is over. *)
Onward(r) == (run[r].line + 1)..(Len(run[r].script) + 1)
Back(r) == IF run[r].laps < MaxLaps THEN 1..run[r].line ELSE {}
Advance(r, to) ==
    [run EXCEPT ![r] = [at |-> IF to > Len(run[r].script) THEN "ended" ELSE "running", script |-> run[r].script, line |-> to,
                        laps |-> IF to > run[r].line THEN run[r].laps ELSE run[r].laps + 1]]
Stops(r) == run[r].line \in InstrumentSource(run[r].script) /\ ShouldStop(core, run[r].line)
Statement(r) ==
    /\ run[r].at = "running" /\ ~ Stops(r)
    /\ \E to \in Onward(r) \cup Back(r) : run' = Advance(r, to)
    /\ UNCHANGED <<core, resolver, verbs>>

(* A mutated form: the stop is forgotten as soon as it is announced. *)
ForgetsTheWait(r) ==
    /\ run[r].at = "running" /\ Stops(r) /\ ~ SnapshotThrows(run[r].script, run[r].line)
    /\ LET stopped == EnterPause(Asked(core), Reason(core, run[r].line), r, run[r].line, LocalsSnapshot(run[r].script, run[r].line))
       IN  core' \in Answers(stopped) /\ resolver' = resolver
           /\ run' = [(IF core' = stopped THEN run ELSE Opened(run)) EXCEPT ![r].at = "parked"]
    /\ UNCHANGED verbs
(* The script stops: its locals are taken, the host is told and may answer, and only then does the
   script wait, in the gate's one place. *)
Stop(r) ==
    /\ run[r].at = "running" /\ Stops(r) /\ ~ SnapshotThrows(run[r].script, run[r].line)
    /\ LET stopped == EnterPause(Asked(core), Reason(core, run[r].line), r, run[r].line, LocalsSnapshot(run[r].script, run[r].line))
       IN  /\ core' \in Answers(stopped)
           /\ run' = [(IF core' = stopped THEN run ELSE Opened(run)) EXCEPT ![r].at = "parked"]
    /\ resolver' = r
    /\ UNCHANGED verbs
(* The gate was opened: the statement itself runs. *)
GoOn(r) ==
    /\ run[r].at = "released"
    /\ \E to \in Onward(r) \cup Back(r) : run' = Advance(r, to)
    /\ UNCHANGED <<core, resolver, verbs>>

(* A script that throws, at a statement or because its locals cannot be taken, or whose value
   cannot be read, ends its run and nothing of what the host asked for is taken back. *)
Throw(r) ==
    /\ \/ run[r].at \in {"released", "ended"} /\ core' = core
       \/ run[r].at = "running" /\ ~ Stops(r) /\ core' = core
       \/ run[r].at = "running" /\ Stops(r) /\ SnapshotThrows(run[r].script, run[r].line) /\ core' = Asked(core)
    /\ run' = [run EXCEPT ![r].at = "failed"]
    /\ UNCHANGED <<resolver, verbs>>
(* A run that succeeds resumes the session, whoever is waiting at the gate; Node reads the value
   only then, and may still fail at it. *)
Settle(r) ==
    /\ run[r].at = "ended"
    /\ core' = Resume(core) /\ resolver' = Nobody
    /\ \E outcome \in {"done", "failed"} : run' = [Opened(run) EXCEPT ![r].at = outcome]
    /\ UNCHANGED verbs

-----------------------------------------------------------------------------
(* The host. *)

Acts == verbs < MaxVerbs /\ verbs' = verbs + 1
HostSetsBreakpoints(source, lines) == Acts /\ core' = SetBreakpoints(core, source, lines) /\ UNCHANGED <<resolver, run>>
HostClearsBreakpoints(source) == Acts /\ core' = ClearBreakpoints(core, source) /\ UNCHANGED <<resolver, run>>
HostPauses == Acts /\ core' = PauseRequest(core) /\ UNCHANGED <<resolver, run>>
HostSteps(mode) ==
    /\ Acts
    /\ core' = StepTo(core, mode) /\ resolver' = Nobody /\ run' = Opened(run)
HostResumes == Acts /\ core' = Resume(core) /\ resolver' = Nobody /\ run' = Opened(run)
(* The host continues a session it was told has stopped. *)
HostContinues ==
    /\ core.told = "stopped"
    /\ core' = Resume(core) /\ resolver' = Nobody /\ run' = Opened(run)
    /\ UNCHANGED verbs

Next ==
    \/ \E r \in Runs, p \in Programs : DebugExecute(r, p) \/ DebugRefused(r, p)
    \/ \E r \in Runs : DebugDenied(r) \/ Statement(r) \/ Stop(r) \/ GoOn(r) \/ Throw(r) \/ Settle(r)
    \/ \E s \in Sources : HostClearsBreakpoints(s) \/ \E lines \in Requests : HostSetsBreakpoints(s, lines)
    \/ HostPauses \/ (\E mode \in StepModes : HostSteps(mode)) \/ HostResumes \/ HostContinues

Spec == Init /\ [][Next]_vars

(* The event loop gets to every job, and a host that was told of a stop continues some time. *)
Fairness ==
    /\ \A r \in Runs : WF_vars(Statement(r) \/ Stop(r) \/ GoOn(r) \/ Settle(r) \/ Throw(r))
    /\ WF_vars(HostContinues)
FairSpec == Spec /\ Fairness

-----------------------------------------------------------------------------
(* The state has its type. *)
TypeOK ==
    /\ resolver \in Runs \cup {Nobody} /\ verbs \in 0..MaxVerbs
    /\ \A r \in Runs : run[r].at \in {"idle", "running", "parked", "released", "ended", "done", "failed"}
    /\ core.stepMode \in StepModes \cup {"none"} /\ core.told \in {"nothing", "stopped", "continued"}
    /\ core.pauseRequested \in BOOLEAN /\ core.paused \in BOOLEAN

(* The host is told a stop exactly while a run waits, the session calls itself paused then, and
   the gate the next verb opens is the one that run waits at. *)
StoppedIsResumable ==
    /\ core.paused <=> core.told = "stopped"
    /\ core.told = "stopped" <=> \E r \in Runs : Parked(r)
    /\ \A r \in Runs : Parked(r) => resolver = r

(* What the host inspects at a stop is the run that waits: its line, and the names above it. *)
StopsShowTheirLine ==
    \A r \in Runs : Parked(r) =>
        core.frame = [line |-> run[r].line, of |-> r] /\ core.registry = NamesAbove(run[r].script, run[r].line)

(* A breakpoint on a statement of the script that runs is bound, whichever was there first, and no
   other is. *)
BreakpointsBind ==
    \A r \in UnderWay : \A b \in core.breakpoints[Main] : b.verified <=> b.line \in InstrumentSource(run[r].script)

(* A stop is what the host is told it is: it can be resumed, it shows the line of the run that
   waits, and it comes where a breakpoint is bound. *)
StopsHold == TypeOK /\ StoppedIsResumable /\ StopsShowTheirLine /\ BreakpointsBind

(* Every run ends. *)
EveryRunEnds == \A r \in Runs : run[r].at = "running" ~> run[r].at \in {"done", "failed"}

=============================================================================
