------------------------------ MODULE Sandbox ------------------------------
(***************************************************************************)
(* The asynchronous JavaScript sandbox: who is running, on whose budget,   *)
(* and who is told when it ends.                                           *)
(*                                                                         *)
(* One thread runs everything.  What is running right now is a stack of    *)
(* activations in which script and host code alternate: the host enters    *)
(* the engine (execute, an export, a hook, a drain of the promise jobs),   *)
(* the script calls a binding, the binding calls a callback or re-enters   *)
(* the sandbox.  Between stacks the event loop delivers what settled.      *)
(*                                                                         *)
(*   sandbox.ts         the entry points, drainWithin, the interrupt frames*)
(*   caller-context.ts  lanes of caller frames and the lane in force       *)
(*   callbacks.ts       binding scopes and the stop a host cannot swallow  *)
(*   retained.ts        callbacks kept past their binding call             *)
(*   stack-guard.ts     an engine fault retires the runtime                *)
(*                                                                         *)
(* The engine is external: a continuation it stops never settles the       *)
(* promise it belongs to, which is what drainWithin says of it.            *)
(***************************************************************************)
EXTENDS Naturals, Sequences, SequencesExt, FiniteSets

CONSTANTS
    Mods,         \* the mods whose code runs
    Calls,        \* slots for asynchronous calls, each used once
    None,         \* no mod, no call
    Timeout,      \* the budget of every call, in ticks
    MaxTime,      \* bound on the clock
    MaxDepth,     \* bound on the activations on the stack
    MaxOps,       \* bound on what scripts and hosts may start or retain
    MaxRetained,  \* limits.max_retained_callbacks
    Doing         \* what the environment may do

Root == "root"
Lanes == Calls \cup {Root}
Entries == {"execute", "invoke", "strict", "fire", "executeAsync", "invokeAsync", "module",
            "drain", "emit", "callback", "late", "between"}

ASSUME SandboxAssumption ==
    /\ None \notin Mods \cup Calls
    /\ Root \notin Calls
    /\ Timeout \in Nat \ {0} /\ MaxDepth \in Nat \ {0} /\ MaxOps \in Nat
    /\ MaxTime \in Nat /\ MaxRetained \in Nat
    /\ Doing \subseteq Entries \cup {"loose", "cancel", "fault", "dispose", "retain"}

VARIABLES
    now,        \* Date.now()
    ops,        \* what was started or retained so far
    stack,      \* the activations, innermost last
    frames,     \* the interrupt frames: [lvl, call, deadline]
    lanes,      \* the caller frames of each lane
    active,     \* the lane in force
    syncDepth,  \* asyncHost.syncDepth
    cbDepth,    \* support.depth
    jobs,       \* the engine's job queue
    pend,       \* async bindings whose host work has not settled
    st,         \* how far each asynchronous call's own code is
    todo,       \* module loads still to drain their first jobs
    stalls,     \* calls a stopped drain would fail
    failing,    \* calls whose stall has been rejected
    answered,   \* calls whose promise the host has
    held,       \* the retained callbacks: [fn, owner]
    cancelled,  \* the cancellation token
    faulted,    \* an engine fault was recorded
    disposed,
    stray,      \* history: where the lowest caller frame a stop left in each lane
                \* lies, 0 for a lane that holds none
    seen        \* history: "left" once a promise job was left for another drain,
                \* "lent" once an executeAsync was started in another call's lane,
                \* "misheld" once a callback was retained over a frame a stop left

callVars == <<st, todo, stalls, failing, answered>>
vars == <<now, ops, stack, frames, lanes, active, syncDepth, cbDepth, jobs, pend, callVars,
          held, cancelled, faulted, disposed, stray, seen>>

Owner == Mods \cup {None}
Status == {"idle", "running", "parked", "queued", "resolved", "dead"}
ScriptActivation ==
    [k : {"script"}, via : Entries, call : Calls \cup {None}, own : Owner, base : Nat,
     prev : Lanes, sync : {0, 1}, cb : {0, 1}, rest : Seq(Mods), reg : SUBSET Calls, pid : Nat,
     ran : BOOLEAN]
HostActivation ==
    [k : {"host"}, call : Calls \cup {None}, own : Owner, async : BOOLEAN, fatal : BOOLEAN]
Activation == ScriptActivation \cup HostActivation

TypeOK ==
    /\ now \in 0..MaxTime /\ ops \in 0..MaxOps
    /\ \A i \in 1..Len(stack) : stack[i] \in Activation
    /\ frames \subseteq [lvl : 0..MaxDepth, call : Calls \cup {None}, deadline : Nat]
    /\ lanes \in [Lanes -> Seq(Owner)] /\ active \in Lanes
    /\ syncDepth \in Nat /\ cbDepth \in Nat
    /\ jobs \in Seq([call : Calls \cup {None}, own : Owner])
    /\ pend \subseteq [id : Nat, call : Calls \cup {None}, lane : Lanes, own : Owner,
                       fatal : BOOLEAN]
    /\ st \in [Calls -> Status]
    /\ todo \cup stalls \cup failing \cup answered \subseteq Calls
    /\ held \subseteq [fn : Owner, owner : Owner]
    /\ {cancelled, faulted, disposed} \subseteq BOOLEAN 
    /\ stray \in [Lanes -> Nat] /\ seen \subseteq {"left", "lent", "misheld"}

Init ==
    /\ now = 0 /\ ops = 0 /\ stack = <<>> /\ frames = {}
    /\ lanes = [l \in Lanes |-> <<>>] /\ active = Root
    /\ syncDepth = 0 /\ cbDepth = 0 /\ jobs = <<>> /\ pend = {}
    /\ st = [c \in Calls |-> "idle"]
    /\ todo = {} /\ stalls = {} /\ failing = {} /\ answered = {} /\ held = {}
    /\ cancelled = FALSE /\ faulted = FALSE /\ disposed = FALSE
    /\ stray = [l \in Lanes |-> 0] /\ seen = {}

-----------------------------------------------------------------------------
(* What is on the stack, and what the host may do now. *)

Top == stack[Len(stack)]
Level == Len(stack)
InScript == stack # <<>> /\ Top.k = "script"
InHost == IF stack = <<>> THEN TRUE ELSE Top.k = "host"

\* CallerContext.current and depth.
Current == IF lanes[active] = <<>> THEN None ELSE Last(lanes[active])
Depth == Len(lanes[active])

\* due(): any frame's deadline, whichever call pushed it, and the token they share.
Due == \E f \in frames : cancelled \/ now >= f.deadline

\* Mutant: the caller stack is not restored after a stop.
NeverUnwound(lns, lane, depth) == lns

\* unwindTo on the lane in force: drops the frames above depth.
Unwound(lns, lane, depth) ==
    [lns EXCEPT ![lane] = IF Len(@) > depth THEN SubSeq(@, 1, depth) ELSE @]

\* History: a stop leaves what lies over the first base frames of a lane. Those
\* frames are strays; a lane cut below its lowest stray has none.
Marked(mk, lns, lane, base) ==
    [mk EXCEPT ![lane] = IF Len(lns[lane]) > base THEN IF @ \in 1..base THEN @ ELSE base + 1
                         ELSE IF @ > base THEN 0 ELSE @]
\* The end of an entry leaves no stray of its own: what it finds it keeps or cuts.
Cleared(mk, lns, lane, base) == IF mk[lane] = 0 THEN mk ELSE Marked(mk, lns, lane, base)

\* Mutant: a faulted engine still takes calls.
UnguardedSurface ==
    InHost /\ ~disposed /\ Level < MaxDepth /\ ops < MaxOps /\ ops' = ops + 1

\* A surface method: refused on a faulted engine (containSurface) or a disposed one.
Surface ==
    /\ InHost /\ ~faulted /\ ~disposed
    /\ Level < MaxDepth /\ ops < MaxOps /\ ops' = ops + 1

\* A call gets a slot no call has had; which one makes no difference.
Fresh(c) == st[c] = "idle" /\ c = CHOOSE d \in Calls : st[d] = "idle"

Script(via, call, own, base) ==
    [k |-> "script", via |-> via, call |-> call, own |-> own, base |-> base, prev |-> active,
     sync |-> 0, cb |-> 0, rest |-> <<>>, reg |-> {}, pid |-> 0, ran |-> FALSE]

\* pushInterruptFrame: a frame the activation at this level pops, or one an
\* asynchronous call keeps until it is answered.
LevelFrame(lvl) == [lvl |-> lvl, call |-> None, deadline |-> now + Timeout]
CallFrame(c) == [lvl |-> 0, call |-> c, deadline |-> now + Timeout]

Push(a) == stack' = Append(stack, a)

\* History: a promise job is now queued that its own call does not drain at once,
\* or cannot: an exhausted engine drains nothing.
Left(yes) == seen' = IF yes THEN seen \cup {"left"} ELSE seen
Same(vs) == UNCHANGED vs

-----------------------------------------------------------------------------
(* The entry points. *)

\* execute(code) inside callerContext.run(m): a mod load's script, or the
\* host's own code, which runs as nobody (m = None).
Execute(m) ==
    /\ Surface /\ ~cancelled /\ "execute" \in Doing
    /\ Push([Script("execute", None, m, Depth) EXCEPT !.sync = 1])
    /\ frames' = frames \cup {LevelFrame(Level + 1)}
    /\ lanes' = [lanes EXCEPT ![active] = Append(@, m)]
    /\ syncDepth' = syncDepth + 1
    /\ Same(<<now, active, cbDepth, jobs, pend, callVars, held, cancelled, faulted, disposed, stray, seen>>)

\* invokeExport: run as the export's owner; a strict one (refusePromise) also
\* refuses async bindings while it runs.
InvokeExport(m, via) ==
    /\ Surface /\ ~cancelled /\ via \in Doing
    /\ LET s == IF via = "strict" THEN 1 ELSE 0 IN
       /\ Push([Script(via, None, m, Depth) EXCEPT !.sync = s])
       /\ syncDepth' = syncDepth + s
    /\ frames' = frames \cup {LevelFrame(Level + 1)}
    /\ lanes' = [lanes EXCEPT ![active] = Append(@, m)]
    /\ Same(<<now, active, cbDepth, jobs, pend, callVars, held, cancelled, faulted, disposed, stray, seen>>)

\* fireHook: each handler runs between enterCaller and leaveCaller of its
\* owner, both called from sandbox code; the fire itself is budgeted or not.
FireHook(handlers, budgeted) ==
    /\ Surface /\ "fire" \in Doing
    /\ Push([Script("fire", None, Head(handlers), Depth) EXCEPT !.rest = Tail(handlers)])
    /\ frames' = frames \cup (IF budgeted THEN {LevelFrame(Level + 1)} ELSE {})
    /\ lanes' = [lanes EXCEPT ![active] = Append(@, Head(handlers))]
    /\ Same(<<now, active, syncDepth, cbDepth, jobs, pend, callVars, held, cancelled, faulted,
              disposed, stray, seen>>)

\* executeAsync inside callerContext.run(null): the interrupt frame covers only
\* the synchronous start, and the lane its resumptions run in is the one in
\* force ("lent" when that is another call's).
ExecuteAsync(c) ==
    /\ Surface /\ ~cancelled /\ "executeAsync" \in Doing /\ Fresh(c)
    /\ Push(Script("executeAsync", c, None, Depth))
    /\ frames' = frames \cup {LevelFrame(Level + 1)}
    /\ lanes' = [lanes EXCEPT ![active] = Append(@, None)]
    /\ st' = [st EXCEPT ![c] = "running"]
    /\ seen' = seen \cup (IF jobs # <<>> THEN {"left"} ELSE {})
                    \cup (IF active # Root THEN {"lent"} ELSE {})
    /\ Same(<<now, active, syncDepth, cbDepth, jobs, pend, todo, stalls, failing, answered,
              held, cancelled, faulted, disposed, stray>>)

\* invokeExportAsync and evaluateModule under runAsync: a lane of the call's
\* own, and a frame that stays until the call is answered.
StartInLane(c, m, via) ==
    /\ Surface /\ ~cancelled /\ via \in Doing /\ Fresh(c)
    /\ Push(Script(via, c, m, Depth))
    /\ frames' = frames \cup {CallFrame(c)}
    /\ lanes' = [lanes EXCEPT ![c] = <<m>>] /\ active' = c
    /\ st' = [st EXCEPT ![c] = "running"] /\ Left(jobs # <<>>)
    /\ Same(<<now, syncDepth, cbDepth, jobs, pend, todo, stalls, failing, answered, held, cancelled,
              faulted, disposed, stray>>)

-----------------------------------------------------------------------------
(* How an activation ends. *)

Job(call, own) == [call |-> call, own |-> own]
DrainScript(q, prev, base, reg) ==
    [Script("drain", Head(q).call, Head(q).own, base) EXCEPT !.prev = prev, !.reg = reg]

\* drainWithin(lane): runs the whole queue q in lane, under one fresh frame;
\* a call that registers its stall (reg) does so once the drain is over. The
\* caller frames over are open around the drain and gone after it.
Drain(stk, frs, lns, q, lane, prev, reg, over) ==
    IF q = <<>> \/ faulted
    THEN /\ stack' = stk /\ frames' = frs /\ lanes' = lns /\ active' = prev /\ jobs' = q
         /\ stalls' = stalls \cup reg
    ELSE /\ stack' = Append(stk, DrainScript(q, prev, Len(lns[prev]), reg))
         /\ frames' = frs \cup {LevelFrame(Len(stk) + 1)}
         /\ lanes' = [lns EXCEPT ![prev] = @ \o over] /\ active' = lane /\ jobs' = Tail(q)
         /\ stalls' = stalls

\* The host's finally blocks around the script activation a at level lvl. A
\* callback restores no caller stack: callerContext.run takes back only the
\* frame it pushed for a retained one.
FramesAfter(lvl) == {f \in frames : f.lvl # lvl}
LanesAfter(a) ==
    IF a.via \notin {"callback", "late"} THEN Unwound(lanes, a.prev, a.base)
    ELSE IF a.ran THEN [lanes EXCEPT ![a.prev] = RemoveAt(@, a.base + 1)]
    ELSE lanes
\* leaveCaller: the lane in force loses its top frame, whoever's it is.
Popped == [lanes EXCEPT ![active] = Front(@)]

\* Mutant: the synchronous depth is lowered by every entry, not only by those that raised it.
LowersAlways(a) == syncDepth' = syncDepth - 1 /\ cbDepth' = cbDepth - a.cb

Counters(a) == syncDepth' = syncDepth - a.sync /\ cbDepth' = cbDepth - a.cb

\* How the call's code stands when its activation ends: its promise settled,
\* it awaits binding p, or its continuation is queued.
Settled(c, how) == st' = IF c = None THEN st ELSE [st EXCEPT ![c] = how]

\* The activation a at level lvl ends with the call's code in state how and
\* the queue q; the stack keeps the lvl - 1 activations below.
\* executeAsync and invokeSuspendable drain at once, then wait; evaluateModule
\* drains after one more turn of the event loop.
Finish(a, lvl, how, q) ==
    LET below == SubSeq(stack, 1, lvl - 1) IN
    /\ Counters(a)
    /\ Settled(a.call, how)
    /\ \/ /\ a.via \in {"executeAsync", "invokeAsync"}
          /\ Drain(below, FramesAfter(lvl), LanesAfter(a), q,
                   IF a.via = "invokeAsync" THEN a.call ELSE a.prev, a.prev, {a.call},
                   IF a.via = "invokeAsync" THEN <<>> ELSE <<None>>)
          /\ todo' = todo /\ stray' = Cleared(stray, LanesAfter(a), a.prev, a.base)
       \/ /\ a.via = "drain" /\ q # <<>>
          /\ stack' = Append(below, [a EXCEPT !.call = Head(q).call, !.own = Head(q).own])
          /\ jobs' = Tail(q)
          /\ UNCHANGED <<frames, lanes, active, todo, stalls, stray>>
       \/ /\ a.via = "fire" /\ a.rest # <<>>
          /\ stack' = Append(below, [a EXCEPT !.own = Head(a.rest), !.rest = Tail(@)])
          /\ lanes' = [lanes EXCEPT ![active] = Append(Front(@), Head(a.rest))]
          /\ stray' = Cleared(stray, Popped, active, a.base)
          /\ jobs' = q
          /\ UNCHANGED <<frames, active, todo, stalls>>
       \/ /\ a.via = "emit"
          /\ stack' = below /\ jobs' = q
          /\ lanes' = Popped /\ stray' = Cleared(stray, Popped, active, a.base)
          /\ UNCHANGED <<frames, active, todo, stalls>>
       \/ /\ \/ a.via \notin {"executeAsync", "invokeAsync", "drain", "fire", "emit"}
             \/ a.via = "drain" /\ q = <<>>
             \/ a.via = "fire" /\ a.rest = <<>>
          /\ stack' = below /\ active' = a.prev /\ jobs' = q
          /\ frames' = FramesAfter(lvl) /\ lanes' = LanesAfter(a)
          /\ stray' = Cleared(stray, LanesAfter(a), a.prev, a.base)
          /\ todo' = IF a.via = "module" THEN todo \cup {a.call} ELSE todo
          /\ stalls' = stalls \cup a.reg

\* The script returns or throws: its promise, if it has one, is settled.
Return ==
    /\ InScript
    /\ Finish(Top, Level, "resolved", jobs) /\ Left(Top.via = "module" /\ jobs # <<>>)
    /\ Same(<<now, ops, pend, failing, answered, held, cancelled, faulted, disposed>>)

\* The code of an asynchronous call awaits an already settled promise.
AwaitTick ==
    /\ InScript /\ Top.call # None /\ ops < MaxOps /\ ops' = ops + 1
    /\ Finish(Top, Level, "queued", Append(jobs, Job(Top.call, Top.own)))
    /\ Left(Top.via = "module" \/ (faulted /\ Top.via # "drain"))
    /\ Same(<<now, pend, failing, answered, held, cancelled, faulted, disposed>>)

\* The engine stops the activation: the sandbox frames above the host boundary
\* go without their finally blocks, so an emitting handler never leaves.
Boundary(lvl) ==
    CHOOSE b \in 1..lvl : /\ stack[b].k = "script" /\ stack[b].via # "emit"
                          /\ \A i \in (b + 1)..lvl : stack[i].k = "script" /\ stack[i].via = "emit"

\* Mutant: a stopped drain fails nobody.
FailsNobody(a) == {}

\* The calls a stop fails: every one that waits, when a drain was stopped.
FailedBy(a) == IF a.via = "drain" THEN stalls ELSE {}

\* What the stop of the script under host boundary b does: a callback's stop is
\* held by the scope that called it; a stopped drain fails every waiting call;
\* a stopped start rejects its call; anything else throws to the host below.
StopAt(b, lvl, fault) ==
    LET a == stack[b] below == SubSeq(stack, 1, b - 1) IN
    /\ Counters(a)
    /\ frames' = FramesAfter(b) /\ lanes' = LanesAfter(a) /\ active' = a.prev
    /\ stack' = IF a.via = "callback" /\ ~fault
                THEN [below EXCEPT ![b - 1].fatal = TRUE] ELSE below
    /\ pend' = IF a.via = "late" /\ ~fault
               THEN {IF p.id = a.pid THEN [p EXCEPT !.fatal = TRUE] ELSE p : p \in pend}
               ELSE pend
    /\ Settled(a.call, IF a.via = "drain" THEN "dead" ELSE "resolved")
    /\ failing' = failing \cup FailedBy(a)
    /\ stalls' = IF a.via = "drain" THEN stalls \cup a.reg ELSE stalls
    /\ jobs' = jobs
    /\ stray' = Cleared(IF b < lvl THEN Marked(stray, lanes, active, stack[b + 1].base) ELSE stray,
                        LanesAfter(a), a.prev, a.base)
    /\ Left(jobs # <<>>)

Stop ==
    /\ InScript /\ Due
    /\ StopAt(Boundary(Level), Level, FALSE)
    /\ Same(<<now, ops, todo, answered, held, cancelled, faulted, disposed>>)

\* An engine fault under the call: recorded, and contained like a throw.
Fault ==
    /\ InScript /\ "fault" \in Doing
    /\ StopAt(Boundary(Level), Level, TRUE) /\ faulted' = TRUE
    /\ Same(<<now, ops, todo, answered, held, cancelled, disposed>>)

-----------------------------------------------------------------------------
(* What a script does while it runs. *)

\* A promise job nobody awaits.
QueueJob ==
    /\ InScript /\ "loose" \in Doing /\ ops < MaxOps /\ ops' = ops + 1
    /\ jobs' = Append(jobs, Job(None, Top.own)) /\ Left(TRUE)
    /\ Same(<<now, stack, frames, lanes, active, syncDepth, cbDepth, pend, callVars, held, cancelled,
              faulted, disposed, stray>>)

\* events.emit from the script: the kernel dispatches a handler of m in place.
Emit(m) ==
    /\ InScript /\ "emit" \in Doing /\ Level < MaxDepth /\ ops < MaxOps /\ ops' = ops + 1
    /\ Push(Script("emit", None, m, Depth))
    /\ lanes' = [lanes EXCEPT ![active] = Append(@, m)]
    /\ Same(<<now, frames, active, syncDepth, cbDepth, jobs, pend, callVars, held, cancelled,
              faulted, disposed, stray, seen>>)

\* A binding call. An async one refuses to start inside a callback or a
\* synchronous execution; its host function starts inside the scope.
CallBinding(async) ==
    /\ InScript /\ Level < MaxDepth /\ ops < MaxOps /\ ops' = ops + 1
    /\ async => cbDepth = 0 /\ syncDepth = 0
    /\ Push([k |-> "host", call |-> Top.call, own |-> Top.own, async |-> async, fatal |-> FALSE])
    /\ Same(<<now, frames, lanes, active, syncDepth, cbDepth, jobs, pend, callVars, held, cancelled,
              faulted, disposed, stray, seen>>)

-----------------------------------------------------------------------------
(* What a host does inside a binding call, or between calls. *)

\* Mutant: the scope's stop is dropped when the host returns normally.
SwallowingReturn ==
    /\ stack # <<>> /\ Top.k = "host" /\ ~Top.async /\ stack' = Front(stack)
    /\ Same(<<now, ops, frames, lanes, active, syncDepth, cbDepth, jobs, pend, callVars, held,
              cancelled, faulted, disposed, stray, seen>>)

\* The binding returns. A stop its scope holds is taken first (takeOutcome):
\* the script that called it is stopped whatever the host did.
BindingReturn ==
    /\ stack # <<>> /\ Top.k = "host" /\ ~Top.async
    /\ IF Top.fatal
       THEN /\ StopAt(Boundary(Level - 1), Level - 1, FALSE)
            /\ Same(<<now, ops, todo, answered, held, cancelled, faulted, disposed>>)
       ELSE /\ stack' = Front(stack)
            /\ Same(<<now, ops, frames, lanes, active, syncDepth, cbDepth, jobs, pend, callVars, held,
                      cancelled, faulted, disposed, stray, seen>>)

UsedIds == {p.id : p \in pend}
FreshId == CHOOSE n \in 1..(Cardinality(pend) + 1) : n \notin UsedIds /\ 1..(n - 1) \subseteq UsedIds

\* An async binding's host function reaches its first await: the scope is left
\* but stays open, and the script holds a promise it may await.
BindingAwaits(awaited) ==
    /\ stack # <<>> /\ Top.k = "host" /\ Top.async
    /\ awaited => Top.call # None /\ stack[Level - 1].via # "emit"
    /\ pend' = pend \cup {[id |-> FreshId, call |-> IF awaited THEN Top.call ELSE None,
                           lane |-> active, own |-> Top.own, fatal |-> Top.fatal]}
    /\ IF awaited
       THEN Finish(stack[Level - 1], Level - 1, "parked", jobs)
            /\ Left(stack[Level - 1].via = "module" /\ jobs # <<>>)
       ELSE /\ stack' = Front(stack)
            /\ Same(<<frames, lanes, active, syncDepth, cbDepth, jobs, st, todo, stalls, stray, seen>>)
    /\ Same(<<now, ops, failing, answered, held, cancelled, faulted, disposed>>)

\* The host calls a call-scoped callback from inside its binding call; a scope
\* that holds a stop calls nothing more.
CallCallback ==
    /\ stack # <<>> /\ Top.k = "host" /\ ~Top.fatal /\ ~faulted
    /\ "callback" \in Doing /\ Level < MaxDepth /\ ops < MaxOps /\ ops' = ops + 1
    /\ Push([Script("callback", None, Top.own, Depth) EXCEPT !.cb = 1])
    /\ cbDepth' = cbDepth + 1
    /\ Same(<<now, frames, lanes, active, syncDepth, jobs, pend, callVars, held, cancelled, faulted,
              disposed, stray, seen>>)

\* The host of an async binding calls its callback after an await of its own.
CallLate(p) ==
    /\ stack = <<>> /\ ~p.fatal /\ ~faulted /\ ~disposed
    /\ "late" \in Doing /\ Level < MaxDepth /\ ops < MaxOps /\ ops' = ops + 1
    /\ Push([Script("late", None, p.own, Depth) EXCEPT !.cb = 1, !.pid = p.id])
    /\ cbDepth' = cbDepth + 1
    /\ Same(<<now, frames, lanes, active, syncDepth, jobs, pend, callVars, held, cancelled, faulted,
              disposed, stray, seen>>)

\* retain(): one record per function and owning mod, up to the limit; the
\* owner is whoever the caller context names now.
Retain ==
    /\ "retain" \in Doing /\ ~disposed /\ ops < MaxOps /\ ops' = ops + 1
    /\ \E fn \in IF stack # <<>> /\ Top.k = "host" THEN {Top.own}
                 ELSE IF stack = <<>> THEN {p.own : p \in pend} ELSE {} :
         LET r == [fn |-> fn, owner |-> Current] IN
         r \notin held /\ Cardinality(held) < MaxRetained /\ held' = held \cup {r}
    /\ seen' = IF stray[active] = 0 THEN seen ELSE seen \cup {"misheld"}
    /\ Same(<<now, stack, frames, lanes, active, syncDepth, cbDepth, jobs, pend, callVars,
              cancelled, faulted, disposed, stray>>)

\* A retained callback is called: on the running binding's budget, or between
\* calls under a frame of its own; either way as the mod that owns it.
CallRetained(r) ==
    /\ InHost /\ ~faulted /\ IF stack = <<>> THEN TRUE ELSE ~Top.fatal
    /\ Level < MaxDepth /\ ops < MaxOps /\ ops' = ops + 1
    /\ Push([Script(IF stack = <<>> THEN "between" ELSE "callback", None, r.fn, Depth)
             EXCEPT !.cb = 1, !.ran = TRUE])
    /\ frames' = IF stack = <<>> THEN frames \cup {LevelFrame(Level + 1)} ELSE frames
    /\ lanes' = [lanes EXCEPT ![active] = Append(@, r.owner)]
    /\ cbDepth' = cbDepth + 1
    /\ Same(<<now, active, syncDepth, jobs, pend, callVars, held, cancelled, faulted, disposed, stray, seen>>)

\* releaseRetained(mod).
ReleaseOwner(m) ==
    /\ InHost /\ \E r \in held : r.owner = m
    /\ held' = {r \in held : r.owner # m}
    /\ Same(<<now, ops, stack, frames, lanes, active, syncDepth, cbDepth, jobs, pend, callVars,
              cancelled, faulted, disposed, stray, seen>>)

-----------------------------------------------------------------------------
(* The event loop. *)

\* A binding's host work settles: the promise is settled, which queues the
\* continuation awaiting it, and the queue is drained in the call's lane.
Settle(p) ==
    /\ stack = <<>> /\ p \in pend /\ pend' = pend \ {p}
    /\ Drain(<<>>, frames, lanes,
             IF p.call = None THEN jobs ELSE Append(jobs, Job(p.call, p.own)), p.lane, active, {}, <<>>)
    /\ Settled(p.call, "queued") /\ Left(jobs # <<>> \/ faulted)
    /\ Same(<<now, ops, syncDepth, cbDepth, todo, failing, answered, held, cancelled, faulted, disposed,
              stray>>)

\* evaluateModule resumes after awaiting the evaluation, and drains its lane.
ModuleDrain(c) ==
    /\ stack = <<>> /\ c \in todo /\ todo' = todo \ {c} /\ ~disposed
    /\ Drain(<<>>, frames, lanes, jobs, c, active, {}, <<>>)
    /\ Same(<<now, ops, syncDepth, cbDepth, pend, st, failing, answered, held, cancelled, faulted,
              disposed, stray, seen>>)

\* Mutant: the call's interrupt frame is not popped when it is answered.
KeepsFrame(c) == frames

FramesOnAnswer(c) == {f \in frames : f.call # c}

\* The awaiting host code resumes: the lane is emptied, the frame popped.
Answer(c) ==
    /\ stack = <<>> /\ c \notin answered \cup todo
    /\ st[c] = "resolved" \/ c \in failing
    /\ answered' = answered \cup {c}
    /\ stalls' = stalls \ {c} /\ failing' = failing \ {c}
    /\ lanes' = [lanes EXCEPT ![c] = <<>>]
    /\ frames' = FramesOnAnswer(c)
    /\ stray' = [stray EXCEPT ![c] = 0]
    /\ Same(<<now, ops, stack, active, syncDepth, cbDepth, jobs, pend, st, todo, held, cancelled,
              faulted, disposed, seen>>)

Tick ==
    /\ now < MaxTime /\ now' = now + 1
    /\ Same(<<ops, stack, frames, lanes, active, syncDepth, cbDepth, jobs, pend, callVars, held,
              cancelled, faulted, disposed, stray, seen>>)

Cancel ==
    /\ "cancel" \in Doing /\ ~cancelled /\ cancelled' = TRUE
    /\ Same(<<now, ops, stack, frames, lanes, active, syncDepth, cbDepth, jobs, pend, callVars, held,
              faulted, disposed, stray, seen>>)

\* dispose(), between calls: pending promises and their scopes go, and every
\* retained callback is released; a faulted engine is left as it is.
Dispose ==
    /\ "dispose" \in Doing /\ stack = <<>> /\ ~disposed /\ disposed' = TRUE
    /\ pend' = {} /\ held' = IF faulted THEN held ELSE {}
    /\ Same(<<now, ops, stack, frames, lanes, active, syncDepth, cbDepth, jobs, callVars, cancelled,
              faulted, stray, seen>>)

-----------------------------------------------------------------------------

Start ==
    \/ \E m \in Owner : Execute(m)
    \/ \E m \in Mods, via \in {"invoke", "strict"} : InvokeExport(m, via)
    \/ \E m, n \in Mods, b \in BOOLEAN : FireHook(IF m = n THEN <<m>> ELSE <<m, n>>, b)
    \/ \E c \in Calls : ExecuteAsync(c)
    \/ \E c \in Calls, m \in Mods, via \in {"invokeAsync", "module"} : StartInLane(c, m, via)

Run ==
    \/ Return \/ AwaitTick \/ Stop \/ Fault \/ QueueJob
    \/ \E m \in Mods : Emit(m)
    \/ \E async \in BOOLEAN : CallBinding(async)

Host ==
    \/ BindingReturn \/ CallCallback \/ Retain
    \/ \E awaited \in BOOLEAN : BindingAwaits(awaited)
    \/ \E p \in pend : CallLate(p)
    \/ \E r \in held : CallRetained(r)
    \/ \E m \in Owner : ReleaseOwner(m)

Loop ==
    \/ \E p \in pend : Settle(p)
    \/ \E c \in Calls : ModuleDrain(c) \/ Answer(c)
    \/ Tick \/ Cancel \/ Dispose

Next == Start \/ Run \/ Host \/ Loop

Spec == Init /\ [][Next]_vars

\* Scripts return or are stopped, bindings return and settle, and the event
\* loop delivers; nothing makes the host start anything.
Fairness ==
    /\ WF_vars(Return \/ Stop)
    /\ WF_vars(BindingReturn \/ \E awaited \in BOOLEAN : BindingAwaits(awaited))
    /\ \A c \in Calls : WF_vars(ModuleDrain(c)) /\ WF_vars(Answer(c))
    /\ WF_vars(\E p \in pend : Settle(p))

FairSpec == Spec /\ Fairness

-----------------------------------------------------------------------------
(* Properties. *)

Waiting(c) == st[c] # "idle" /\ c \notin answered

\* Whatever ran and however it ended - nested, stopped mid-handler, faulted -
\* once nothing runs the caller stack is empty, the root lane is in force, the
\* counters async bindings consult are back at zero, and the only interrupt
\* frames left belong to calls still waiting. (A call-scoped callback called
\* after its host awaited has no caller that restores the stack: a handler it
\* stopped in leaves its frame in the root lane, where it stays.)
AtRest ==
    stack = <<>> =>
        /\ active = Root
        /\ syncDepth = 0 /\ cbDepth = 0
        /\ \A f \in frames : f.lvl = 0 /\ Waiting(f.call)
        /\ stray[Root] # 0 \/ lanes[Root] = <<>>

\* The sandbox's bookkeeping is sound while something runs and spent when nothing does.
BookkeepingHolds == TypeOK /\ AtRest

\* Script is credited to the mod whose code it is or to nobody, across any
\* interleaving of suspended calls, nested entries and stops. Four things break
\* it, each excepted where it happens: a promise job another call's drain runs
\* ("left"); an executeAsync that resumes in a lane it was lent ("lent"); a frame
\* that a stop inside an emitted handler left in the lane the script runs in, under
\* a callback or in a drained lane, for as long as it lies there (stray); and a
\* callback retained over such a frame ("misheld"). spec/bindings.md says "Attribution
\* follows the logical call" and excepts none of the four.
CreditedToItsMod ==
    InScript /\ seen = {} /\ stray[active] = 0 => Current \in {Top.own, None}

\* A budget stop inside a callback ends the binding call that made it and the
\* script under it, whatever the host does in between.
StopNotSwallowed ==
    [][(stack # <<>> /\ Top.k = "host" /\ ~Top.async /\ Top.fatal /\ Len(stack') < Level)
       => Len(stack') <= Level - 2]_vars

\* After an engine fault or a disposal no script starts again: not through the
\* surface, a settling binding, a late callback or a retained one.
EndIsFinal ==
    [][(stack = <<>> /\ (faulted \/ disposed)) => stack' = <<>>]_vars

\* A call parked on an async binding, its stall registered, is answered: its
\* continuation runs once the binding settles, or is failed by the stop of
\* whichever drain it was queued in, be it another call's job that was stopped,
\* unless the runtime is disposed or faulted. drainWithin's comment promises it to
\* every waiting call; a call registers its stall only after its own first drain,
\* and one whose continuation that drain stops is failed by nobody and waits for
\* ever, so the promise is asked of registered calls alone.
ParkedCallsAnswered ==
    \A c \in Calls :
        (c \in stalls /\ st[c] = "parked") ~> (c \in answered \/ disposed \/ faulted)

=============================================================================
