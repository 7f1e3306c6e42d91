------------------------- MODULE DebugSessionProofs -------------------------
(***************************************************************************)
(* What a host may rely on at a stop, for any scripts, breakpoints and     *)
(* number of debugExecute calls, when they are made one at a time and the  *)
(* host answers a stop only after onStopped has returned.                  *)
(*                                                                         *)
(* StopsHold is not inductive: that the waiting run is the one the gate    *)
(* knows needs that a filled gate has a run behind it (GateFilled); that   *)
(* the breakpoints fit the running script needs that the core remembers    *)
(* that script's lines (LinesKnown) and that only one script runs (Alone). *)
(***************************************************************************)
EXTENDS DebugSession, FiniteSetTheorems, TLAPS

Places == {"idle", "running", "parked", "released", "ended", "done", "failed"}

(* The shapes TypeOK leaves out, and that the updates of the steps rely on. *)
Fields == {"breakpoints", "breakable", "stepMode", "pauseRequested", "paused", "frame", "registry", "lastStopped", "told"}
CoreShape(c) == DOMAIN c = Fields /\ DOMAIN c.breakpoints = Sources
Shapes == CoreShape(core) /\ run \in [Runs -> [at : Places, script : Programs \cup {<<>>}, line : Nat, laps : Nat]]

(* A host that awaits each debugExecute, and answers a stop once onStopped has returned. *)
Orderly == AtOnce = 1 /\ ~ AnswersInside

(* At most one run is under way. *)
Alone == \A r, s \in UnderWay : r = s
(* A gate that knows a run has that run waiting at it. *)
GateFilled == resolver # Nobody => Parked(resolver)
(* The core knows the lines of the script that runs, and every breakpoint of it was bound to them. *)
LinesKnown ==
    /\ \A r \in UnderWay : core.breakable = InstrumentSource(run[r].script)
    /\ \A b \in core.breakpoints[Main] : b.verified <=> b.line \in core.breakable

IInv == TypeOK /\ Shapes /\ Alone /\ GateFilled /\ LinesKnown /\ StoppedIsResumable /\ StopsShowTheirLine

LEMMA InitInv == Init => IInv
<1> SUFFICES ASSUME Init PROVE IInv
  OBVIOUS
<1> USE DEF Init, NewCore, Idle
<1>1. UnderWay = {} /\ \A r \in Runs : ~ Parked(r)
  BY DEF UnderWay, Parked
<1>2. TypeOK
  BY ConstantsAssumption DEF TypeOK, StepModes
<1>3. Shapes
  BY DEF Shapes, CoreShape, Fields, Places, Sources
<1>4. core.breakpoints[Main] = {}
  BY DEF Sources
<1> QED
  BY <1>1, <1>2, <1>3, <1>4 DEF IInv, Alone, GateFilled, LinesKnown, StoppedIsResumable, StopsShowTheirLine

(* What the invariant claims follows from it. *)
LEMMA Claims == IInv => StopsHold
BY DEF IInv, StopsHold, BreakpointsBind, LinesKnown

-----------------------------------------------------------------------------
(* The pieces of the steps. *)

(* A session with room for one run that has room has none. *)
LEMMA Room ==
    ASSUME AtOnce = 1, Cardinality(UnderWay) < AtOnce
    PROVE  UnderWay = {}
<1>1. IsFiniteSet(UnderWay)
  BY ConstantsAssumption, FS_Subset DEF UnderWay
<1>2. Cardinality(UnderWay) \in Nat
  BY <1>1, FS_CardinalityType
<1>3. Cardinality(UnderWay) = 0
  BY <1>2
<1> QED
  BY <1>1, <1>3, FS_EmptySet

(* The breakpoints of a core fit the lines it knows. *)
Fits(c) == \A b \in c.breakpoints[Main] : b.verified <=> b.line \in c.breakable
(* Two cores show the host the same stop, or none. *)
SameStop(c, d) == c.paused = d.paused /\ c.told = d.told /\ c.frame = d.frame /\ c.registry = d.registry
(* What the type invariant says of a core. *)
CoreTyped(c) ==
    /\ c.stepMode \in StepModes \cup {"none"} /\ c.told \in {"nothing", "stopped", "continued"}
    /\ c.pauseRequested \in BOOLEAN /\ c.paused \in BOOLEAN

(* A breakpoint is bound exactly when its line is one that can be stopped at. *)
LEMMA BoundFits ==
    ASSUME NEW lines, NEW breakable, NEW b \in Bound(lines, breakable)
    PROVE  b.verified <=> b.line \in breakable
<1>1. PICK l \in lines : b = [line |-> l, verified |-> l \in breakable]
  BY DEF Bound
<1>2. b.line = l
  BY <1>1
<1>3. b.verified = (l \in breakable)
  BY <1>1
<1> QED
  BY <1>2, <1>3

(* Binding the breakpoints to a script: they fit its lines, and the stop is as it was. *)
LEMMA Rebound ==
    ASSUME NEW c, CoreShape(c), CoreTyped(c), NEW lines
    PROVE  LET d == SetBreakableLines(c, lines)
           IN  CoreShape(d) /\ CoreTyped(d) /\ Fits(d) /\ SameStop(c, d) /\ d.breakable = lines
<1> DEFINE bound == Bound({b.line : b \in c.breakpoints[Main]}, lines)
           d == SetBreakableLines(c, lines)
<1>1. /\ DOMAIN d = Fields /\ DOMAIN d.breakpoints = Sources /\ d.breakpoints[Main] = bound
      /\ d.breakable = lines /\ d.stepMode = c.stepMode /\ d.told = c.told /\ d.paused = c.paused
      /\ d.pauseRequested = c.pauseRequested /\ d.frame = c.frame /\ d.registry = c.registry
  BY DEF CoreShape, Fields, Sources, SetBreakableLines
<1>2. \A b \in bound : b.verified <=> b.line \in lines
  BY BoundFits
<1> HIDE DEF bound, d
<1> QED
  BY <1>1, <1>2 DEF d, CoreShape, CoreTyped, Fits, SameStop

(* Setting or clearing the breakpoints of a source keeps the rest fitting. *)
LEMMA BreakpointsSet ==
    ASSUME NEW c, CoreShape(c), CoreTyped(c), Fits(c), NEW source \in Sources, NEW set,
           source = Main => \A b \in set : b.verified <=> b.line \in c.breakable
    PROVE  LET d == [c EXCEPT !.breakpoints[source] = set]
           IN  CoreShape(d) /\ CoreTyped(d) /\ Fits(d) /\ SameStop(c, d) /\ d.breakable = c.breakable
<1> DEFINE d == [c EXCEPT !.breakpoints[source] = set]
<1>1. /\ DOMAIN d = Fields /\ DOMAIN d.breakpoints = Sources
      /\ d.breakpoints[Main] = IF source = Main THEN set ELSE c.breakpoints[Main]
      /\ d.breakable = c.breakable /\ d.stepMode = c.stepMode /\ d.told = c.told /\ d.paused = c.paused
      /\ d.pauseRequested = c.pauseRequested /\ d.frame = c.frame /\ d.registry = c.registry
  BY DEF CoreShape, Fields, Sources
<1> HIDE DEF d
<1> QED
  BY <1>1 DEF d, CoreShape, CoreTyped, Fits, SameStop

(* The other operations on the core leave its breakpoints, and what they fit, alone. *)
LEMMA CoreOps ==
    ASSUME NEW c, CoreShape(c), CoreTyped(c), Fits(c)
    PROVE  /\ LET d == PauseRequest(c)
              IN  CoreShape(d) /\ CoreTyped(d) /\ Fits(d) /\ SameStop(c, d) /\ d.breakable = c.breakable
           /\ LET d == Asked(c)
              IN  CoreShape(d) /\ CoreTyped(d) /\ Fits(d) /\ SameStop(c, d) /\ d.breakable = c.breakable
           /\ LET d == Resume(c)
              IN  CoreShape(d) /\ CoreTyped(d) /\ Fits(d) /\ ~ d.paused /\ d.told = "continued" /\ d.breakable = c.breakable
           /\ \A mode \in StepModes : LET d == StepTo(c, mode)
              IN  CoreShape(d) /\ CoreTyped(d) /\ Fits(d) /\ ~ d.paused /\ d.told = "continued" /\ d.breakable = c.breakable
           /\ \A reason, of, line, locals : LET d == EnterPause(c, reason, of, line, locals)
              IN  /\ CoreShape(d) /\ CoreTyped(d) /\ Fits(d) /\ d.paused /\ d.told = "stopped" /\ d.breakable = c.breakable
                  /\ d.frame = [line |-> line, of |-> of] /\ d.registry = DOMAIN locals
<1> USE DEF CoreShape, Fields, CoreTyped, Fits, SameStop
<1>1. LET d == PauseRequest(c)
      IN  CoreShape(d) /\ CoreTyped(d) /\ Fits(d) /\ SameStop(c, d) /\ d.breakable = c.breakable
  BY DEF PauseRequest
<1>2. LET d == Asked(c)
      IN  CoreShape(d) /\ CoreTyped(d) /\ Fits(d) /\ SameStop(c, d) /\ d.breakable = c.breakable
  BY DEF Asked
<1>3. LET d == Resume(c)
      IN  CoreShape(d) /\ CoreTyped(d) /\ Fits(d) /\ ~ d.paused /\ d.told = "continued" /\ d.breakable = c.breakable
  BY DEF Resume
<1>4. ASSUME NEW mode \in StepModes PROVE LET d == StepTo(c, mode)
      IN  CoreShape(d) /\ CoreTyped(d) /\ Fits(d) /\ ~ d.paused /\ d.told = "continued" /\ d.breakable = c.breakable
  BY DEF StepTo
<1>5. ASSUME NEW reason, NEW of, NEW line, NEW locals PROVE LET d == EnterPause(c, reason, of, line, locals)
      IN  /\ CoreShape(d) /\ CoreTyped(d) /\ Fits(d) /\ d.paused /\ d.told = "stopped" /\ d.breakable = c.breakable
          /\ d.frame = [line |-> line, of |-> of] /\ d.registry = DOMAIN locals
  BY DEF EnterPause
<1> QED
  BY <1>1, <1>2, <1>3, <1>4, <1>5

-----------------------------------------------------------------------------
(* The steps. *)

(* The invariant of a core, and what a step has to keep of it. *)
Kept(c) == CoreShape(c) /\ CoreTyped(c) /\ Fits(c)
LEMMA IInvParts ==
    IInv <=> /\ Kept(core) /\ resolver \in Runs \cup {Nobody} /\ verbs \in 0..MaxVerbs
             /\ run \in [Runs -> [at : Places, script : Programs \cup {<<>>}, line : Nat, laps : Nat]]
             /\ Alone /\ GateFilled /\ StoppedIsResumable /\ StopsShowTheirLine
             /\ \A r \in UnderWay : core.breakable = InstrumentSource(run[r].script)
BY DEF IInv, Kept, CoreTyped, Fits, TypeOK, Shapes, LinesKnown, Places

RunType == [at : Places, script : Programs \cup {<<>>}, line : Nat, laps : Nat]
Over == {"idle", "done", "failed"}

(* While nobody waits the gate is empty and the session does not call itself stopped. *)
LEMMA NobodyWaits ==
    ASSUME IInv, \A r \in Runs : ~ Parked(r)
    PROVE  resolver = Nobody /\ core.told # "stopped" /\ ~ core.paused
<1>1. resolver \in Runs \cup {Nobody} /\ GateFilled /\ StoppedIsResumable
  BY IInvParts
<1> QED
  BY <1>1 DEF GateFilled, StoppedIsResumable

(* A run that is under way and does not wait is the only one, and nobody waits. *)
LEMMA TheOnlyRun ==
    ASSUME IInv, NEW r \in Runs, run[r].at \in {"running", "released", "ended"}
    PROVE  UnderWay \subseteq {r} /\ (\A s \in Runs : ~ Parked(s)) /\ core.breakable = InstrumentSource(run[r].script)
<1>1. r \in UnderWay /\ ~ Parked(r)
  BY DEF UnderWay, Parked
<1>2. UnderWay \subseteq {r}
  BY <1>1, IInvParts DEF Alone
<1>3. \A s \in Runs : Parked(s) => s \in UnderWay
  BY DEF UnderWay, Parked
<1> QED
  BY <1>1, <1>2, <1>3, IInvParts

(* A step that moves the only run, and leaves nobody waiting. *)
LEMMA RunMoves ==
    ASSUME IInv, NEW r \in Runs, UnderWay \subseteq {r}, NEW x \in RunType, run' = [run EXCEPT ![r] = x],
           \A s \in Runs : ~ Parked(s), x.at # "parked",
           Kept(core'), core'.told # "stopped", ~ core'.paused, resolver' = Nobody, verbs' = verbs,
           x.at \notin Over => core'.breakable = InstrumentSource(x.script)
    PROVE  IInv'
<1>1. run' \in [Runs -> RunType] /\ run'[r] = x /\ \A s \in Runs \ {r} : run'[s] = run[s]
  BY IInvParts DEF RunType
<1>2. \A s \in Runs : ~ Parked(s)'
  BY <1>1 DEF Parked
<1>3. \A s \in Runs \ {r} : run[s].at \in Over
  BY DEF UnderWay, Over
<1>4. UnderWay' \subseteq {r} /\ (r \in UnderWay' => x.at \notin Over)
  BY <1>1, <1>3 DEF UnderWay, Over
<1>5. Alone' /\ GateFilled' /\ StoppedIsResumable' /\ StopsShowTheirLine'
  BY <1>2, <1>4 DEF Alone, GateFilled, StoppedIsResumable, StopsShowTheirLine, Kept, CoreTyped
<1>6. (\A s \in UnderWay : core.breakable = InstrumentSource(run[s].script))'
  BY <1>1, <1>4
<1>7. Kept(core)'
  OBVIOUS
<1> QED
  BY <1>1, <1>5, <1>6, <1>7, IInvParts DEF RunType, IInv, Kept, CoreTyped, Fits, TypeOK, Shapes, LinesKnown, Places

(* A step of the host that leaves the stop and the runs alone. *)
LEMMA HostQuiet ==
    ASSUME IInv, run' = run, resolver' = resolver, verbs' \in 0..MaxVerbs,
           Kept(core'), SameStop(core, core'), core'.breakable = core.breakable
    PROVE  IInv'
<1>1. UnderWay' = UnderWay /\ \A s \in Runs : Parked(s)' <=> Parked(s)
  BY DEF UnderWay, Parked
<1>2. Alone' /\ GateFilled'
  BY <1>1, IInvParts DEF Alone, GateFilled, Parked
<1>3. StoppedIsResumable' /\ StopsShowTheirLine'
  BY <1>1, IInvParts DEF StoppedIsResumable, StopsShowTheirLine, SameStop, NamesAbove
<1>4. (\A s \in UnderWay : core.breakable = InstrumentSource(run[s].script))'
  BY <1>1, IInvParts
<1>5. Kept(core)'
  OBVIOUS
<1> QED
  BY <1>2, <1>3, <1>4, <1>5, IInvParts DEF IInv, Kept, CoreTyped, Fits, TypeOK, Shapes, LinesKnown, Places

(* A verb opens the gate: the run that waited goes on, and the stop is over. *)
LEMMA GateOpens ==
    ASSUME IInv, run' = Opened(run), resolver' = Nobody, verbs' \in 0..MaxVerbs,
           Kept(core'), core'.told = "continued", ~ core'.paused, core'.breakable = core.breakable
    PROVE  IInv'
<1>0. /\ run \in [Runs -> RunType] /\ resolver \in Runs \cup {Nobody} /\ Nobody \notin Runs
      /\ \A s \in Runs : Parked(s) => resolver = s
      /\ resolver # Nobody => Parked(resolver)
  BY IInvParts, ConstantsAssumption DEF RunType, StoppedIsResumable, GateFilled
<1>1. run' \in [Runs -> RunType] /\ \A s \in Runs : /\ run'[s].script = run[s].script
                                                    /\ s # resolver => run'[s].at = run[s].at
                                                    /\ s = resolver => run'[s].at = "released"
  BY <1>0 DEF Opened, RunType, Places
<1>2. \A s \in Runs : ~ Parked(s)'
  BY <1>0, <1>1 DEF Parked
<1>3. UnderWay' = UnderWay
  BY <1>0, <1>1 DEF UnderWay, Parked
<1>4. Alone' /\ GateFilled' /\ StoppedIsResumable' /\ StopsShowTheirLine'
  BY <1>2, <1>3, IInvParts DEF Alone, GateFilled, StoppedIsResumable, StopsShowTheirLine, Kept, CoreTyped
<1>5. (\A s \in UnderWay : core.breakable = InstrumentSource(run[s].script))'
  BY <1>1, <1>3, IInvParts DEF UnderWay
<1>6. Kept(core)'
  OBVIOUS
<1> QED
  BY <1>1, <1>4, <1>5, <1>6, IInvParts DEF RunType, IInv, Kept, CoreTyped, Fits, TypeOK, Shapes, LinesKnown, Places

(* The record a run has after one more line of its script. *)
LEMMA Advanced ==
    ASSUME run \in [Runs -> RunType], NEW r \in Runs, NEW to \in Onward(r) \cup Back(r)
    PROVE  \E x \in RunType : Advance(r, to) = [run EXCEPT ![r] = x] /\ x.script = run[r].script /\ x.at \in {"running", "ended"}
<1> DEFINE at == IF to > Len(run[r].script) THEN "ended" ELSE "running"
           laps == IF to > run[r].line THEN run[r].laps ELSE run[r].laps + 1
           x == [at |-> at, script |-> run[r].script, line |-> to, laps |-> laps]
<1>1. run[r].script \in Programs \cup {<<>>} /\ run[r].line \in Nat /\ run[r].laps \in Nat
  BY DEF RunType
<1>2. to \in Nat
  BY <1>1 DEF Onward, Back
<1>3. laps \in Nat /\ at \in {"running", "ended"}
  BY <1>1
<1>4. Advance(r, to) = [run EXCEPT ![r] = x]
  BY DEF Advance
<1> HIDE DEF at, laps
<1>5. x \in RunType /\ x.script = run[r].script /\ x.at = at
  BY <1>1, <1>2, <1>3 DEF RunType, Places
<1> HIDE DEF x
<1> QED
  BY <1>3, <1>4, <1>5

(* debugExecute, whether the script compiles or not. *)
LEMMA StartStep ==
    ASSUME IInv, AtOnce = 1, NEW r \in Runs, NEW p \in Programs, DebugExecute(r, p) \/ DebugRefused(r, p)
    PROVE  IInv'
<1>1. UnderWay = {} /\ run \in [Runs -> RunType]
  BY Room, IInvParts DEF DebugExecute, DebugRefused, RunType
<1>2. \A s \in Runs : ~ Parked(s)
  BY <1>1 DEF UnderWay, Parked
<1>3. resolver = Nobody /\ core.told # "stopped" /\ ~ core.paused
  BY <1>2, NobodyWaits
<1>4. Kept(core') /\ SameStop(core, core') /\ core'.breakable = InstrumentSource(p)
  BY Rebound, IInvParts DEF Kept, DebugExecute, DebugRefused
<1>5. core'.told # "stopped" /\ ~ core'.paused
  BY <1>3, <1>4 DEF SameStop
<1>6. PICK x \in RunType : run' = [run EXCEPT ![r] = x] /\ x.at # "parked" /\ (x.at \notin Over => x.script = p)
  <2>1. CASE DebugExecute(r, p)
    <3> DEFINE new == [at |-> "running", script |-> p, line |-> 1, laps |-> 0]
    <3>1. new \in RunType /\ new.at = "running" /\ new.script = p
      BY DEF RunType, Places
    <3>2. run' = [run EXCEPT ![r] = new]
      BY <2>1 DEF DebugExecute
    <3> HIDE DEF new
    <3> QED
      BY <3>1, <3>2
  <2>2. CASE DebugRefused(r, p)
    <3>1. [run[r] EXCEPT !.at = "failed"] \in RunType /\ [run[r] EXCEPT !.at = "failed"].at = "failed"
      BY <1>1 DEF RunType, Places
    <3>2. run' = [run EXCEPT ![r] = [run[r] EXCEPT !.at = "failed"]]
      BY <2>2 DEF DebugRefused
    <3> QED
      BY <3>1, <3>2 DEF Over
  <2> QED
    BY <2>1, <2>2
<1>7. resolver' = Nobody /\ verbs' = verbs
  BY <1>3 DEF DebugExecute, DebugRefused
<1> QED
  BY <1>1, <1>2, <1>4, <1>5, <1>6, <1>7, RunMoves

(* A call that is denied: whoever waits goes on waiting. *)
LEMMA DeniedStep ==
    ASSUME IInv, NEW r \in Runs, DebugDenied(r)
    PROVE  IInv'
<1>1. /\ run[r].at = "idle" /\ run \in [Runs -> RunType] /\ run' = [run EXCEPT ![r].at = "failed"]
      /\ core' = core /\ resolver' = resolver /\ verbs' = verbs
  BY IInvParts DEF DebugDenied, RunType
<1>2. run' \in [Runs -> RunType] /\ run'[r].at = "failed" /\ \A s \in Runs \ {r} : run'[s] = run[s]
  BY <1>1 DEF RunType, Places
<1>3. UnderWay' = UnderWay /\ r \notin UnderWay /\ \A s \in Runs : Parked(s)' <=> Parked(s)
  BY <1>1, <1>2 DEF UnderWay, Parked
<1>4. Alone' /\ GateFilled' /\ StoppedIsResumable'
  BY <1>1, <1>3, IInvParts DEF Alone, GateFilled, StoppedIsResumable
<1>5. StopsShowTheirLine'
  <2>1. \A s \in Runs : Parked(s) => run'[s] = run[s]
    BY <1>1, <1>2 DEF Parked
  <2> QED
    BY <2>1, <1>1, <1>3, IInvParts DEF StopsShowTheirLine
<1>6. (\A s \in UnderWay : core.breakable = InstrumentSource(run[s].script))'
  BY <1>1, <1>2, <1>3, IInvParts DEF UnderWay
<1> QED
  BY <1>1, <1>2, <1>4, <1>5, <1>6, IInvParts DEF RunType, IInv, Kept, CoreTyped, Fits, TypeOK, Shapes, LinesKnown, Places

(* A line that is run, after a stop or without one. *)
LEMMA LineStep ==
    ASSUME IInv, NEW r \in Runs, Statement(r) \/ GoOn(r)
    PROVE  IInv'
<1>1. run[r].at \in {"running", "released"} /\ run \in [Runs -> RunType]
  BY IInvParts DEF Statement, GoOn, RunType
<1>2. UnderWay \subseteq {r} /\ (\A s \in Runs : ~ Parked(s)) /\ core.breakable = InstrumentSource(run[r].script)
  BY <1>1, TheOnlyRun
<1>3. resolver = Nobody /\ core.told # "stopped" /\ ~ core.paused
  BY <1>2, NobodyWaits
<1>4. PICK x \in RunType : run' = [run EXCEPT ![r] = x] /\ x.script = run[r].script /\ x.at \in {"running", "ended"}
  BY <1>1, Advanced DEF Statement, GoOn
<1>5. core' = core /\ resolver' = resolver /\ verbs' = verbs
  BY DEF Statement, GoOn
<1>6. Kept(core') /\ core'.told # "stopped" /\ ~ core'.paused /\ core'.breakable = InstrumentSource(x.script)
  BY <1>2, <1>3, <1>4, <1>5, IInvParts
<1> QED
  BY <1>2, <1>3, <1>4, <1>5, <1>6, RunMoves

(* A run that throws. *)
LEMMA ThrowStep ==
    ASSUME IInv, NEW r \in Runs, Throw(r)
    PROVE  IInv'
<1>1. run[r].at \in {"running", "released", "ended"} /\ run \in [Runs -> RunType]
  BY IInvParts DEF Throw, RunType
<1>2. UnderWay \subseteq {r} /\ (\A s \in Runs : ~ Parked(s)) /\ core.breakable = InstrumentSource(run[r].script)
  BY <1>1, TheOnlyRun
<1>3. resolver = Nobody /\ core.told # "stopped" /\ ~ core.paused
  BY <1>2, NobodyWaits
<1>4. Kept(core') /\ SameStop(core, core')
  <2>1. core' = core \/ core' = Asked(core)
    BY DEF Throw
  <2>2. Kept(core)
    BY IInvParts
  <2>3. Kept(Asked(core)) /\ SameStop(core, Asked(core))
    BY <2>2, CoreOps DEF Kept
  <2> QED
    BY <2>1, <2>2, <2>3 DEF SameStop
<1>5. core'.told # "stopped" /\ ~ core'.paused
  BY <1>3, <1>4 DEF SameStop
<1> DEFINE x == [run[r] EXCEPT !.at = "failed"]
<1>6. x \in RunType /\ x.at = "failed"
  BY <1>1 DEF RunType, Places
<1>7. run' = [run EXCEPT ![r] = x] /\ resolver' = Nobody /\ verbs' = verbs
  BY <1>3 DEF Throw
<1> HIDE DEF x
<1>8. x.at # "parked" /\ x.at \in Over
  BY <1>6 DEF Over
<1> QED
  BY <1>2, <1>4, <1>5, <1>6, <1>7, <1>8, RunMoves

(* A run that succeeds resumes the session: with one run at a time, nobody is waiting then. *)
LEMMA SettleStep ==
    ASSUME IInv, NEW r \in Runs, Settle(r)
    PROVE  IInv'
<1>1. run[r].at = "ended" /\ run \in [Runs -> RunType]
  BY IInvParts DEF Settle, RunType
<1>2. UnderWay \subseteq {r} /\ (\A s \in Runs : ~ Parked(s)) /\ core.breakable = InstrumentSource(run[r].script)
  BY <1>1, TheOnlyRun
<1>3. resolver = Nobody
  BY <1>2, NobodyWaits
<1>4. Kept(core') /\ core'.told # "stopped" /\ ~ core'.paused
  BY IInvParts, CoreOps DEF Kept, Settle
<1>o. PICK outcome \in {"done", "failed"} : run' = [Opened(run) EXCEPT ![r].at = outcome]
  BY DEF Settle
<1> DEFINE x == [run[r] EXCEPT !.at = outcome]
<1>5. x \in RunType /\ x.at \in {"done", "failed"}
  BY <1>1 DEF RunType, Places
<1>6. run' = [run EXCEPT ![r] = x] /\ resolver' = Nobody /\ verbs' = verbs
  BY <1>3, <1>o DEF Settle, Opened
<1> HIDE DEF x
<1>7. x.at # "parked" /\ x.at \in Over
  BY <1>5 DEF Over
<1> QED
  BY <1>2, <1>4, <1>5, <1>6, <1>7, RunMoves

(* The script stops and waits: what the host is shown is its line and the names above it. *)
LEMMA StopStep ==
    ASSUME IInv, ~ AnswersInside, NEW r \in Runs, Stop(r)
    PROVE  IInv'
<1>1. run[r].at = "running" /\ run \in [Runs -> RunType]
  BY IInvParts DEF Stop, RunType
<1>2. UnderWay \subseteq {r} /\ (\A s \in Runs : ~ Parked(s)) /\ core.breakable = InstrumentSource(run[r].script)
  BY <1>1, TheOnlyRun
<1> DEFINE locals == LocalsSnapshot(run[r].script, run[r].line)
           stopped == EnterPause(Asked(core), Reason(core, run[r].line), r, run[r].line, locals)
<1>3. core' = stopped /\ run' = [run EXCEPT ![r].at = "parked"] /\ resolver' = r /\ verbs' = verbs
  BY DEF Stop, Answers
<1>4. Kept(Asked(core)) /\ Asked(core).breakable = core.breakable
  BY IInvParts, CoreOps DEF Kept
<1>5. /\ Kept(stopped) /\ stopped.paused /\ stopped.told = "stopped" /\ stopped.breakable = core.breakable
      /\ stopped.frame = [line |-> run[r].line, of |-> r] /\ stopped.registry = DOMAIN locals
  BY <1>4, CoreOps DEF Kept
<1>6. DOMAIN locals = NamesAbove(run[r].script, run[r].line)
  BY DEF LocalsSnapshot
<1> HIDE DEF locals, stopped
<1>7. /\ run' \in [Runs -> RunType] /\ \A s \in Runs \ {r} : run'[s] = run[s]
      /\ run'[r].at = "parked" /\ run'[r].script = run[r].script /\ run'[r].line = run[r].line
  BY <1>1, <1>3 DEF RunType, Places
<1>8. \A s \in Runs : Parked(s)' <=> s = r
  BY <1>2, <1>7 DEF Parked
<1>9. UnderWay' \subseteq {r}
  BY <1>2, <1>7 DEF UnderWay
<1>10. Alone' /\ GateFilled' /\ StoppedIsResumable'
  <2>1. resolver' = r /\ core'.paused /\ core'.told = "stopped" /\ core'.paused \in BOOLEAN
    BY <1>3, <1>5 DEF Kept, CoreTyped
  <2> QED
    BY <2>1, <1>7, <1>8, <1>9 DEF Alone, GateFilled, StoppedIsResumable, Parked
<1>11. StopsShowTheirLine'
  BY <1>3, <1>5, <1>6, <1>7, <1>8 DEF StopsShowTheirLine
<1>12. (\A s \in UnderWay : core.breakable = InstrumentSource(run[s].script))'
  BY <1>2, <1>3, <1>5, <1>7, <1>9
<1>13. Kept(core)' /\ resolver' \in Runs /\ verbs' \in 0..MaxVerbs
  BY <1>3, <1>5, IInvParts
<1> QED
  BY <1>7, <1>10, <1>11, <1>12, <1>13
  DEF RunType, IInv, Kept, CoreTyped, Fits, TypeOK, Shapes, LinesKnown, Places

(* What the host does unasked, and when it continues a stop. *)
LEMMA HostStep ==
    ASSUME IInv, \/ \E s \in Sources : HostClearsBreakpoints(s) \/ \E lines \in Requests : HostSetsBreakpoints(s, lines)
                 \/ HostPauses \/ (\E mode \in StepModes : HostSteps(mode)) \/ HostResumes \/ HostContinues
    PROVE  IInv'
<1>1. Kept(core) /\ verbs \in 0..MaxVerbs /\ (Acts => verbs' \in 0..MaxVerbs)
  BY IInvParts, ConstantsAssumption DEF Acts
<1>2. ASSUME NEW s \in Sources, HostClearsBreakpoints(s)
      PROVE  IInv'
  <2>1. Kept(ClearBreakpoints(core, s)) /\ SameStop(core, ClearBreakpoints(core, s))
        /\ ClearBreakpoints(core, s).breakable = core.breakable
    BY <1>1, BreakpointsSet DEF Kept, ClearBreakpoints
  <2> QED
    BY <1>1, <1>2, <2>1, HostQuiet DEF HostClearsBreakpoints
<1>3. ASSUME NEW s \in Sources, NEW lines \in Requests, HostSetsBreakpoints(s, lines)
      PROVE  IInv'
  <2> DEFINE set == IF s = Main THEN Bound(lines, core.breakable) ELSE Bound(lines, {})
  <2>1. s = Main => \A b \in set : b.verified <=> b.line \in core.breakable
    BY BoundFits
  <2>2. core' = [core EXCEPT !.breakpoints[s] = set]
    BY <1>3 DEF HostSetsBreakpoints, SetBreakpoints
  <2> HIDE DEF set
  <2>3. Kept(core') /\ SameStop(core, core') /\ core'.breakable = core.breakable
    BY <1>1, <2>1, <2>2, BreakpointsSet DEF Kept
  <2> QED
    BY <1>1, <1>3, <2>3, HostQuiet DEF HostSetsBreakpoints
<1>4. CASE HostPauses
  <2>1. Kept(core') /\ SameStop(core, core') /\ core'.breakable = core.breakable
    BY <1>1, <1>4, CoreOps DEF Kept, HostPauses
  <2> QED
    BY <1>1, <1>4, <2>1, HostQuiet DEF HostPauses
<1>5. ASSUME NEW mode \in StepModes, HostSteps(mode)
      PROVE  IInv'
  <2>1. Kept(core') /\ core'.told = "continued" /\ ~ core'.paused /\ core'.breakable = core.breakable
    BY <1>1, <1>5, CoreOps DEF Kept, HostSteps
  <2> QED
    BY <1>1, <1>5, <2>1, GateOpens DEF HostSteps
<1>6. CASE HostContinues
  <2>1. Kept(core') /\ core'.told = "continued" /\ ~ core'.paused /\ core'.breakable = core.breakable
    BY <1>1, <1>6, CoreOps DEF Kept, HostContinues
  <2> QED
    BY <1>1, <1>6, <2>1, GateOpens DEF HostContinues
<1>7. CASE HostResumes
  <2>1. Kept(core') /\ core'.told = "continued" /\ ~ core'.paused /\ core'.breakable = core.breakable
    BY <1>1, <1>7, CoreOps DEF Kept, HostResumes
  <2> QED
    BY <1>1, <1>7, <2>1, GateOpens DEF HostResumes
<1> QED
  BY <1>2, <1>3, <1>4, <1>5, <1>6, <1>7

(* Every step keeps the invariant. *)
LEMMA NextInv ==
    ASSUME Orderly
    PROVE  IInv /\ [Next]_vars => IInv'
<1> SUFFICES ASSUME IInv, [Next]_vars PROVE IInv'
  OBVIOUS
<1> USE DEF Orderly
<1>1. CASE UNCHANGED vars
  <2>1. run' = run /\ resolver' = resolver /\ verbs' = verbs /\ core' = core
    BY <1>1 DEF vars
  <2> QED
    BY <2>1, HostQuiet, IInvParts DEF SameStop
<1>2. CASE Next
  BY <1>2, StartStep, DeniedStep, LineStep, StopStep, ThrowStep, SettleStep, HostStep DEF Next
<1> QED
  BY <1>1, <1>2

(* With one debugExecute at a time and a host that answers after onStopped has
   returned, whatever the scripts, the breakpoints and the order of the verbs:
   the host is told of a stop exactly while a run waits at the gate the next
   verb opens, the frame and the variables it inspects are those of that run,
   and the bound breakpoints are exactly those on lines the running script
   can stop at. *)
THEOREM TrueStops ==
    ASSUME Orderly
    PROVE  Spec => []StopsHold
<1>1. IInv /\ [Next]_vars => IInv'
  BY NextInv
<1>2. QED
  BY InitInv, <1>1, Claims, PTL DEF Spec
=============================================================================
