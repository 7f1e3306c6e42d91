------------------------------ MODULE EventBus ------------------------------
(***************************************************************************)
(* The events bus kernel (runtimes/rust/src/event_bus_kernel.js, embedded  *)
(* in each worker) on runtimes that share a bus: every operation is        *)
(* a loop that reads the shared state, applies its change to the copy and  *)
(* writes it back if nobody wrote in between (mutate over BusHub::read and *)
(* BusHub::write).  Handlers stay with the runtime that registered them.   *)
(*                                                                         *)
(* A runtime runs one operation at a time; an emit is a session that walks *)
(* a snapshot of the event's listeners and has each one served on its own  *)
(* runtime (how the request travels there is BusHub's business).           *)
(***************************************************************************)
EXTENDS BusState

CONSTANTS
    MaxEmits,      \* bound: how many emits are made
    Programs,      \* bound: what one behaviour's scripts do (their operations, the parties
                   \* calling them, how many subscriptions and emits they make)
    Interruptible  \* the runtimes whose calls may run out of budget

Sessions == 1..MaxEmits

(* The operation a runtime is in: what is asked, of what and by whom; for the
   claim of a once-subscription the emit it is made for and whether this
   round's copy took it. *)
Kinds == {"on", "once", "off", "declare", "declareEvent", "cancel", "claimOnce", "cancelOwned",
          "claim", "seed"}
Operation == [kind : Kinds, about : Tokens \cup Events \cup Owners \cup Prefixes \cup {None},
              caller : Owners, sess : {0} \cup Sessions, claimed : BOOLEAN]

ASSUME EventBusAssumption ==
    /\ MaxEmits \in Nat
    /\ Interruptible \subseteq Workers
    /\ None \notin Operation

VARIABLES
    scripts,     \* what this behaviour's scripts do, a member of Programs
    hub,         \* HubState.state
    installed,   \* the runtimes whose kernel is constructed
    op,          \* the operation each runtime is in, None if none
    step,        \* where its mutate loop is
    copy,        \* the changed copy it is about to write
    current,     \* the hub's version is still the one the copy was read at
    handlers,    \* the tokens each runtime holds a handler for
    session,     \* each emit: its listeners, the place reached and the stage
    issued,      \* history: the subscription behind every token issued
    runs,        \* history: how often each token's handler was entered
    granted,     \* history: the mods told that they hold a namespace
    told,        \* history: the declarations confirmed to their party
    interrupted  \* history: the runtimes an interrupt has unwound

loopVars == <<op, step, copy, current>>
history  == <<issued, runs, granted, told, interrupted>>
vars     == <<scripts, hub, installed, loopVars, handlers, session, history>>

Steps  == {"idle", "read", "write", "after"}
Stages == {"unused", "route", "serve", "running", "done"}

TypeOK ==
    /\ scripts \in Programs
    /\ hub \in State
    /\ installed \subseteq Workers
    /\ step \in [Workers -> Steps]
    /\ op \in [Workers -> Operation \cup {None}]
    /\ \A w \in Workers : (op[w] = None <=> step[w] = "idle") /\ (step[w] = "write" => copy[w] \in State)
    /\ current \in [Workers -> BOOLEAN]
    /\ handlers \in [Workers -> SUBSET Tokens]
    /\ \A k \in Sessions : session[k].stage \in Stages /\ session[k].index \in 1..(MaxSubs + 1)
    /\ issued \in [Tokens -> Sub \cup {None}]
    /\ runs \in [Tokens -> 0..MaxEmits]
    /\ granted \in [Prefixes -> SUBSET Mods]
    /\ interrupted \subseteq Workers

Init ==
    /\ scripts \in Programs
    /\ hub = blankState
    /\ installed = {}
    /\ op = [w \in Workers |-> None]
    /\ step = [w \in Workers |-> "idle"]
    /\ copy = [w \in Workers |-> None]
    /\ current = [w \in Workers |-> FALSE]
    /\ handlers = [w \in Workers |-> {}]
    /\ session = [k \in Sessions |-> [event |-> None, listeners |-> <<>>, index |-> 1,
                                      stage |-> "unused", at |-> None]]
    /\ issued = [t \in Tokens |-> None]
    /\ runs = [t \in Tokens |-> 0]
    /\ granted = [p \in Prefixes |-> {}]
    /\ told = [e \in Events |-> None]
    /\ interrupted = {}

-----------------------------------------------------------------------------
(* Entering an operation: what is checked before mutate is called. *)

Begin(w, o) ==
    /\ step[w] = "idle"
    /\ o.kind = "seed" \/ (o.kind \in scripts.ops /\ o.caller \in scripts.parties)
    /\ op' = [op EXCEPT ![w] = o]
    /\ step' = [step EXCEPT ![w] = "read"]
    /\ UNCHANGED <<scripts, hub, copy, current, handlers, history>>

Op(kind, about, caller) == [kind |-> kind, about |-> about, caller |-> caller,
                           sess |-> 0, claimed |-> FALSE]

(* The kernel's construction seeds the catalogue from the manifest. *)
Install(w) ==
    /\ w \notin installed
    /\ installed' = installed \cup {w}
    /\ Begin(w, Op("seed", None, Host))
    /\ UNCHANGED <<scripts, session>>

(* events.on and events.once, on an event the catalogue resolves. *)
Subscribe(w) ==
    /\ w \in installed
    /\ \E e \in Events, c \in Owners, kind \in {"on", "once"} :
          Declared(hub, e) /\ Begin(w, Op(kind, e, c))
    /\ UNCHANGED <<scripts, installed, session>>

(* events.cancel, and the cancel() of the object events.on returned. *)
CancelToken(w) ==
    /\ w \in installed
    /\ \E t \in Tokens, c \in Owners : Begin(w, Op("cancel", t, c))
    /\ UNCHANGED <<scripts, installed, session>>

(* events.off returns early when nobody listens. *)
Off(w) ==
    /\ w \in installed
    /\ \E e \in Events, c \in Owners : hub.byEvent[e] # <<>> /\ Begin(w, Op("off", e, c))
    /\ UNCHANGED <<scripts, installed, session>>

(* events.cancelOwned: one's own, or anybody's with events.off; the host's. *)
CancelOwned(w) ==
    /\ w \in installed
    /\ \E o \in Owners, c \in Owners :
          (c = o \/ c \in Privileged \cup {Host}) /\ Begin(w, Op("cancelOwned", o, c))
    /\ UNCHANGED <<scripts, installed, session>>

(* events.claim, only for a mod. *)
Claim(w) ==
    /\ w \in installed
    /\ \E p \in Prefixes, c \in Mods : Begin(w, Op("claim", p, c))
    /\ UNCHANGED <<scripts, installed, session>>

(* events.declare and the host's declareEvent. *)
Declare(w) ==
    /\ w \in installed
    /\ \E e \in Events :
          \/ \E c \in Owners : Begin(w, Op("declare", e, c))
          \/ Begin(w, Op("declareEvent", e, Host))
    /\ UNCHANGED <<scripts, installed, session>>

-----------------------------------------------------------------------------
(* The mutate loop. *)

(* The bound on tokens, taken as one more reason to give up. *)
Full(o) == o.kind \in {"on", "once"} /\ hub.sequence \in {scripts.subs, MaxSubs}

(* Mutant of Attempt: a change that throws does not leave the loop. *)
Attempt_KeepsLooping(w) ==
    /\ step[w] = "read"
    /\ IF Throws(hub, op[w]) \/ Full(op[w])
       THEN op' = [op EXCEPT ![w] = None] /\ UNCHANGED <<step, copy, current, handlers>>
       ELSE /\ copy' = [copy EXCEPT ![w] = Change(hub, w, op[w])]
            /\ current' = [current EXCEPT ![w] = TRUE]
            /\ step' = [step EXCEPT ![w] = "write"]
            /\ UNCHANGED <<op, handlers>>
    /\ UNCHANGED <<scripts, hub, installed, session, history>>

(* One round: the state is read and the change applied to the copy.  A change
   that throws leaves the loop; one that detaches tokens of this runtime
   deletes their handlers at once, before the write is known to succeed. *)
Attempt(w) ==
    /\ step[w] = "read"
    /\ IF Throws(hub, op[w]) \/ Full(op[w])
       THEN /\ op' = [op EXCEPT ![w] = None]
            /\ step' = [step EXCEPT ![w] = "idle"]
            /\ UNCHANGED <<copy, current, handlers>>
       ELSE /\ copy' = [copy EXCEPT ![w] = Change(hub, w, op[w])]
            /\ current' = [current EXCEPT ![w] = TRUE]
            /\ handlers' = [handlers EXCEPT ![w] =
                  @ \ {t \in Detached(hub, op[w]) : hub.subs[t].worker = w}]
            /\ step' = [step EXCEPT ![w] = "write"]
            /\ op' = [op EXCEPT ![w].claimed = op[w].kind = "claimOnce" /\ Detached(hub, op[w]) # {}]
    /\ UNCHANGED <<scripts, hub, installed, session, history>>

(* What the committed change tells its caller. *)
Tell(w) ==
    /\ granted' = IF op[w].kind = "claim" /\ copy[w].claims[op[w].about] = op[w].caller
                  THEN [granted EXCEPT ![op[w].about] = @ \cup {op[w].caller}]
                  ELSE granted
    /\ told' = IF op[w].kind \in {"declare", "declareEvent"}
               THEN [told EXCEPT ![op[w].about] = Party(op[w])]
               ELSE told
    /\ issued' = IF op[w].kind \in {"on", "once"}
                 THEN [issued EXCEPT ![copy[w].sequence] = copy[w].subs[copy[w].sequence]]
                 ELSE issued

(* Mutant of Write: the version is not compared. *)
Write_Blind(w) ==
    /\ step[w] = "write"
    /\ hub' = copy[w]
    /\ current' = [v \in Workers |-> FALSE]
    /\ step' = [step EXCEPT ![w] = "after"]
    /\ Tell(w)
    /\ UNCHANGED <<scripts, installed, op, copy, handlers, session, runs, interrupted>>

(* BusHub::write: refused if another write came in between. *)
Write(w) ==
    /\ step[w] = "write"
    /\ IF current[w]
       THEN /\ hub' = copy[w]
            /\ current' = [v \in Workers |-> FALSE]
            /\ step' = [step EXCEPT ![w] = "after"]
            /\ Tell(w)
            /\ UNCHANGED copy
       ELSE /\ step' = [step EXCEPT ![w] = "read"]
            /\ copy' = [copy EXCEPT ![w] = None]
            /\ UNCHANGED <<hub, current, granted, told, issued>>
    /\ UNCHANGED <<scripts, installed, op, handlers, session, runs, interrupted>>

(* serve's handler is entered, or the listener is skipped. *)
Enter(k, t)  == /\ runs' = [runs EXCEPT ![t] = @ + 1]
                /\ session' = [session EXCEPT ![k].stage = "running"]
Skip(k)      == /\ session' = [session EXCEPT ![k].stage = "route", ![k].index = @ + 1]
                /\ UNCHANGED runs

(* Mutant of Finish: the new subscription's handler is stored before the
   handlers of cancelled subscriptions are forgotten, by their old list. *)
Finish_ForgetsNew(w) ==
    /\ step[w] = "after"
    /\ handlers' = [handlers EXCEPT ![w] =
          CASE op[w].kind \in {"on", "once"} -> @ \cap (Live(copy[w]) \ {copy[w].sequence})
            [] op[w].kind = "claimOnce" -> @ \ {op[w].about}
            [] OTHER -> @]
    /\ IF op[w].kind = "claimOnce"
       THEN IF op[w].claimed THEN Enter(op[w].sess, op[w].about) ELSE Skip(op[w].sess)
       ELSE UNCHANGED <<runs, session>>
    /\ op' = [op EXCEPT ![w] = None]
    /\ step' = [step EXCEPT ![w] = "idle"]
    /\ copy' = [copy EXCEPT ![w] = None]
    /\ UNCHANGED <<scripts, hub, installed, current, issued, granted, told, interrupted>>

(* After the write: subscribe forgets the handlers whose subscriptions others
   cancelled and stores its own; serve, having claimed a once-subscription,
   runs its handler, and skips it if somebody else had claimed it. *)
Finish(w) ==
    /\ step[w] = "after"
    /\ handlers' = [handlers EXCEPT ![w] =
          CASE op[w].kind \in {"on", "once"} -> (@ \cap Live(copy[w])) \cup {copy[w].sequence}
            [] op[w].kind = "claimOnce" -> @ \ {op[w].about}
            [] OTHER -> @]
    /\ IF op[w].kind = "claimOnce"
       THEN IF op[w].claimed THEN Enter(op[w].sess, op[w].about) ELSE Skip(op[w].sess)
       ELSE UNCHANGED <<runs, session>>
    /\ op' = [op EXCEPT ![w] = None]
    /\ step' = [step EXCEPT ![w] = "idle"]
    /\ copy' = [copy EXCEPT ![w] = None]
    /\ UNCHANGED <<scripts, hub, installed, current, issued, granted, told, interrupted>>

-----------------------------------------------------------------------------
(* Emits. *)

(* events.emit, or the host's emit, begin or dispatchAwaiting: the listeners
   of this moment are the ones the emit walks. *)
Emit(k) ==
    /\ installed # {} /\ k <= scripts.emits
    /\ session[k].stage = "unused"
    /\ \A j \in 1..(k - 1) : session[j].stage # "unused"
    /\ \E e \in Events :
          /\ Declared(hub, e)
          /\ session' = [session EXCEPT ![k].event = e, ![k].listeners = hub.byEvent[e],
                                        ![k].stage = "route"]
    /\ UNCHANGED <<scripts, hub, installed, loopVars, handlers, history>>

(* deliver, and stepSession: the next listener still subscribed is to be
   served where its handler lives. *)
Route(k) ==
    /\ session[k].stage = "route"
    /\ IF session[k].index > Len(session[k].listeners)
       THEN session' = [session EXCEPT ![k].stage = "done"] /\ UNCHANGED runs
       ELSE LET sub == hub.subs[session[k].listeners[session[k].index]] IN
            IF sub = None
            THEN Skip(k)
            ELSE session' = [session EXCEPT ![k].stage = "serve", ![k].at = sub.worker] /\ UNCHANGED runs
    /\ UNCHANGED <<scripts, hub, installed, loopVars, handlers, issued, granted, told, interrupted>>

(* The listener the session has reached. *)
Listener(k) == session[k].listeners[session[k].index]

(* Mutant of Serve: a once-subscription is run without being claimed. *)
Serve_NoClaim(w, k) ==
    /\ session[k].stage = "serve" /\ session[k].at = w
    /\ step[w] = "idle"
    /\ IF Listener(k) \in handlers[w] \cap Live(hub)
       THEN Enter(k, Listener(k))
       ELSE Skip(k)
    /\ UNCHANGED <<scripts, hub, installed, loopVars, handlers, issued, granted, told, interrupted>>

(* serve: skipped without a handler, without a subscription, or when the
   payload does not match; a once-subscription has to be claimed first. *)
Serve(w, k) ==
    LET t == Listener(k) IN
    /\ session[k].stage = "serve" /\ session[k].at = w
    /\ step[w] = "idle"
    /\ \/ /\ t \notin handlers[w] \cap Live(hub)
          /\ handlers' = [handlers EXCEPT ![w] = @ \ {t}]
          /\ Skip(k)
          /\ UNCHANGED <<op, step>>
       \/ /\ t \in handlers[w] \cap Live(hub)
          /\ UNCHANGED handlers
          /\ \/ Skip(k) /\ UNCHANGED <<op, step>>
             \/ ~hub.subs[t].once /\ Enter(k, t) /\ UNCHANGED <<op, step>>
             \/ /\ hub.subs[t].once
                /\ op' = [op EXCEPT ![w] = [Op("claimOnce", t, Host) EXCEPT !.sess = k]]
                /\ step' = [step EXCEPT ![w] = "read"]
                /\ UNCHANGED <<session, runs>>
    /\ UNCHANGED <<scripts, hub, installed, copy, current, issued, granted, told, interrupted>>

(* The handler returns or throws; its emit goes on. *)
EndHandler(k) ==
    /\ session[k].stage = "running"
    /\ Skip(k)
    /\ UNCHANGED <<scripts, hub, installed, loopVars, handlers, issued, granted, told, interrupted>>

(* The interrupt handler unwinds the runtime's script in the middle of an
   operation: nothing after that point happens, and an emit waiting for it
   ends with its own budget. *)
Interrupt(w) ==
    /\ w \in Interruptible /\ "interrupt" \in scripts.ops
    /\ step[w] # "idle" /\ op[w].kind # "seed"
    /\ interrupted' = interrupted \cup {w}
    /\ op' = [op EXCEPT ![w] = None]
    /\ step' = [step EXCEPT ![w] = "idle"]
    /\ copy' = [copy EXCEPT ![w] = None]
    /\ session' = [k \in Sessions |-> IF op[w].sess = k THEN [session[k] EXCEPT !.stage = "done"]
                                      ELSE session[k]]
    /\ UNCHANGED <<scripts, hub, installed, current, handlers, issued, runs, granted, told>>

-----------------------------------------------------------------------------
Next ==
    \/ \E w \in Workers :
          \/ Install(w) \/ Subscribe(w) \/ CancelToken(w) \/ Off(w) \/ CancelOwned(w)
          \/ Claim(w) \/ Declare(w)
          \/ Attempt(w) \/ Write(w) \/ Finish(w) \/ Interrupt(w)
          \/ \E k \in Sessions : Serve(w, k)
    \/ \E k \in Sessions : Emit(k) \/ Route(k) \/ EndHandler(k)

Spec == Init /\ [][Next]_vars

-----------------------------------------------------------------------------
(* Properties. *)

(* The two views of the subscriptions agree: each event's list names exactly
   the live subscriptions to it, each once, oldest first.  detachIn, off and
   subscribers() index one by the other without looking. *)
IndexExact ==
    \A e \in Events :
        /\ Listeners(hub, e) = {t \in Live(hub) : hub.subs[t].event = e}
        /\ \A i, j \in 1..Len(hub.byEvent[e]) : i < j => hub.byEvent[e][i] < hub.byEvent[e][j]

(* A once-handler runs at most once, however many emits race for it, and
   never for a subscription that was cancelled instead of claimed. *)
OnceAtMostOnce ==
    \A t \in Tokens : issued[t] # None /\ issued[t].once =>
        runs[t] <= 1 /\ (runs[t] = 1 => t \in hub.spent)

(* A subscription is recorded as spent only if its handler ran or is about
   to: cancel() answers `spent` from this record.  Only an interrupt between
   the claim and the call can separate the two. *)
SpentMeansRan ==
    \A t \in hub.spent :
        \/ runs[t] = 1
        \/ \E w \in Workers : op[w] # None /\ op[w].kind = "claimOnce" /\ op[w].about = t
        \/ issued[t].worker \in interrupted

(* A live subscription can be heard: between operations the runtime that made
   it holds its handler, although detachIn deletes handlers before the write
   is known to succeed and cancelled ones are forgotten late. *)
NoDeafSubscription ==
    \A t \in Live(hub) : LET w == hub.subs[t].worker IN
        op[w] = None /\ w \notin interrupted => t \in handlers[w]

(* Every subscription can be found and heard: the indexes agree and its handler is kept. *)
SubscriptionsHold == TypeOK /\ IndexExact /\ NoDeafSubscription

(* A once-handler runs once for the claim that spends it, and nothing else spends it. *)
OnceHolds == OnceAtMostOnce /\ SpentMeansRan

(* A namespace is granted to one mod for good: nobody else is ever told that
   it holds it, whichever runtimes the claims race on. *)
ClaimExclusive == \A p \in Prefixes : granted[p] \subseteq {hub.claims[p]}

(* A confirmed declaration stays its party's, and the manifest's events stay
   the manifest's, even if a runtime constructed later seeds again. *)
DeclarationsKept ==
    \A e \in Events :
        /\ told[e] # None => hub.party[e] = told[e]
        /\ hub.seeded /\ e \in Manifest => hub.party[e] = "manifest"

(* Names stay with whoever was told to hold them, namespaces and declarations alike. *)
NamesHold == ClaimExclusive /\ DeclarationsKept

(* The runtimes together implement one registry whose operations happen one
   at a time: no update is lost to a concurrent one. *)
Registry == INSTANCE EventRegistry WITH registry <- hub
RegistrySpec == Registry!Spec
=============================================================================
