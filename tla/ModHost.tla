------------------------------ MODULE ModHost ------------------------------
(***************************************************************************)
(* Loading mods into a running JavaScript runtime, and calling into them.  *)
(*                                                                         *)
(*   index.ts    loadMod, loadModAsync, the export gates, hook fills       *)
(*   sandbox.ts  the export namespaces kept inside the engine: one bucket  *)
(*               per mod and one for the host, and one variable that says  *)
(*               whose bucket a registration goes to                       *)
(*                                                                         *)
(* A script-format entry is evaluated in one piece whichever operation     *)
(* loads it.  A module-format entry is evaluated across two awaits, and    *)
(* longer when the module awaits at its top level; meanwhile the host goes *)
(* on: it loads other mods, executes code, invokes exports, fires hooks.   *)
(* A function is identified by whoever's code registered it.               *)
(***************************************************************************)
EXTENDS Naturals, Sequences, SequencesExt, FiniteSets

CONSTANTS
    Mods,        \* the mods there are to load
    Host,        \* the host's own bucket, "" in the code
    None,        \* no function, no capability
    Names,       \* export names
    Hooks,
    Catalog,     \* what each mod's manifest and source say
    Granted,     \* grantedCapabilities
    EntryErrors, \* options.entryErrors: "throw" or "report"
    MaxLate,     \* bound on registrations made after the entry
    MaxFires     \* bound on hook fires

(***************************************************************************)
(* format    modEntryFormat                                                *)
(* declares  modEntryExports: a capability, or None, for each export       *)
(* scripts   the names each entry script registers, in order               *)
(* exports   the functions a module exports at its top level               *)
(* fills     its hook fills                                                *)
(***************************************************************************)
Manifest == [format : {"script", "module"}, declares : UNION {[D -> Granted \cup {None, "ungranted"}] : D \in SUBSET Names},
             scripts : Seq(SUBSET Names), exports : SUBSET Names, fills : Seq([hook : Hooks, handler : Names])]

ASSUME ModHostAssumption ==
    /\ Host \notin Mods /\ None \notin Mods \cup {Host} /\ None \notin Granted
    /\ "ungranted" \notin Granted
    /\ \A m \in Mods : Catalog[m] \in Manifest
    /\ \A m \in Mods : Catalog[m].format = "module" => Len(Catalog[m].scripts) = 1
    /\ EntryErrors \in {"throw", "report"}
    /\ MaxLate \in Nat /\ MaxFires \in Nat

VARIABLES
    phase,        \* how far the load of each mod is
    owner,        \* exportOwner, the bucket registrations go to
    buckets,      \* exportsByOwner: whose function each bucket holds under each name
    declared,     \* mods with an entry in exportCapabilities and exportOwners
    hookFills,    \* hookFillRegistry
    loadedMods,
    diagnostics,  \* what onModDiagnostic was sent: [mod, code]
    reported,     \* reportedHookFillDenials
    audits,       \* how often the audit sink heard of each denial
    evaluated,    \* history: mods some script of which was evaluated
    overlapped,   \* history: mods whose entry was open while others registered or loaded
    ran,          \* history: the functions the last operation ran
    late, fires   \* counters for the bounds

vars == <<phase, owner, buckets, declared, hookFills, loadedMods, diagnostics, reported, audits,
          evaluated, overlapped, ran, late, fires>>

Owners == Mods \cup {Host}
Phases == {"idle", "evaluating", "awaiting", "harvesting", "registered", "failed"}
HookFill == [hook : Hooks, handler : Names, mod : Mods]

TypeOK ==
    /\ phase \in [Mods -> Phases] /\ owner \in Owners
    /\ buckets \in [Owners -> [Names -> Owners \cup {None}]]
    /\ declared \subseteq Mods /\ evaluated \subseteq Mods /\ overlapped \subseteq Mods
    /\ hookFills \in Seq(HookFill) /\ loadedMods \in Seq(Mods)
    /\ diagnostics \subseteq [mod : Mods, code : {"missing-entry-script", "entry-failed"}]
    /\ reported \subseteq HookFill /\ audits \in [HookFill -> Nat]
    /\ ran \subseteq [by : Owners, name : Names, as : Owners]
    /\ late \in 0..MaxLate /\ fires \in 0..MaxFires

Init ==
    /\ phase = [m \in Mods |-> "idle"]
    /\ owner = Host /\ buckets = [o \in Owners |-> [n \in Names |-> None]]
    /\ declared = {} /\ hookFills = <<>> /\ loadedMods = <<>>
    /\ diagnostics = {} /\ reported = {} /\ audits = [f \in HookFill |-> 0]
    /\ evaluated = {} /\ overlapped = {} /\ ran = {} /\ late = 0 /\ fires = 0

-----------------------------------------------------------------------------
(* The export namespaces, and who may be called through them. *)

\* xript.exports.register: a later registration replaces an earlier one.
Register(b, o, by, names) == [b EXCEPT ![o] = [n \in Names |-> IF n \in names THEN by ELSE @[n]]]

\* The module harvest leaves a name the bucket already holds alone.
Harvest(b, o, by, names) == Register(b, o, by, {n \in names : b[o][n] = None})

OwnersOf(n) == {o \in Owners : buckets[o][n] # None}

\* exportOwners: the mods that declared the export.
DeclaredOwners(n) == {m \in declared : n \in DOMAIN Catalog[m].declares}

\* deniedCapability: the capability the owning mod declared and the host did not grant.
Denied(m, n) ==
    /\ m \in declared /\ n \in DOMAIN Catalog[m].declares
    /\ Catalog[m].declares[n] \notin Granted \cup {None}

\* gateExport: the one declared owner of a name, None when no mod declares it; no
\* owner at all when the call is refused as ambiguous or for want of a capability.
GateExport(n) ==
    CASE DeclaredOwners(n) = {} -> {None}
      [] Cardinality(DeclaredOwners(n)) > 1 -> {}
      [] OTHER -> {m \in DeclaredOwners(n) : ~ Denied(m, n)}

\* __xript_invoke_export with exportCaller: what runs and whom it is credited to.
Dispatch(n, o) ==
    LET from == IF o # None THEN {o} ELSE IF Cardinality(OwnersOf(n)) = 1 THEN OwnersOf(n) ELSE {}
    IN  {[by |-> buckets[x][n], name |-> n, as |-> x] : x \in {y \in from : buckets[y][n] # None}}

-----------------------------------------------------------------------------
(* Loading.  A load whose manifest is refused changes nothing and is left out. *)

\* Mutant: a failed load takes its declarations back.
Forgotten(m, failure) == IF failure = "none" THEN declared \cup {m} ELSE declared

\* registerExportCapabilities, before the entry runs.
Declared(m, failure) == declared \cup {m}

\* The end of loadMod: what a failure of the entry means under the host's policy.
\* A cancellation or an unsupported module propagates whatever the policy.
Conclude(m, failure) ==
    /\ IF failure = "none" \/ (failure = "error" /\ EntryErrors = "report")
       THEN /\ phase' = [phase EXCEPT ![m] = "registered"]
            /\ hookFills' = hookFills \o [i \in 1..Len(Catalog[m].fills) |->
                    [hook |-> Catalog[m].fills[i].hook, handler |-> Catalog[m].fills[i].handler, mod |-> m]]
            /\ loadedMods' = Append(loadedMods, m)
       ELSE phase' = [phase EXCEPT ![m] = "failed"] /\ UNCHANGED <<hookFills, loadedMods>>

Diagnosed(m, code) == diagnostics \cup {[mod |-> m, code |-> code]}

\* The mods whose module is being evaluated, and those of them another party's step overlaps.
Open == {m \in Mods : phase[m] \in {"evaluating", "awaiting", "harvesting"}}
Overlaps(by) == overlapped \cup (Open \ {by})

\* missingEntryScript is asked before any script runs.
MissingEntryScript(m) ==
    /\ phase[m] = "idle" /\ Catalog[m].scripts # <<>>
    /\ declared' = Declared(m, "error")
    /\ diagnostics' = Diagnosed(m, "missing-entry-script")
    /\ Conclude(m, "error")
    /\ ran' = {} /\ UNCHANGED <<owner, buckets, reported, audits, evaluated, overlapped, late, fires>>

\* The names the first k scripts register, and those the next one did before it threw.
After(m, k, extra) == UNION {Catalog[m].scripts[i] : i \in 1..k} \cup extra

\* loadMod, or loadModAsync, of a script-format entry: the scripts up to the first that
\* throws, in one piece, with the owner set to the mod and then to null.
LoadScripts(m) ==
    /\ phase[m] = "idle" /\ Catalog[m].format = "script"
    /\ \E k \in 0..Len(Catalog[m].scripts), failure \in {"none", "error", "propagates"} :
        /\ (k = Len(Catalog[m].scripts)) <=> (failure = "none")
        /\ \E extra \in SUBSET (IF failure = "none" THEN {} ELSE Catalog[m].scripts[k + 1]) :
              buckets' = Register(buckets, m, m, After(m, k, extra))
        /\ declared' = Declared(m, failure)
        /\ diagnostics' = IF failure = "error" THEN Diagnosed(m, "entry-failed") ELSE diagnostics
        /\ Conclude(m, failure)
    /\ owner' = Host /\ evaluated' = evaluated \cup {m} /\ overlapped' = Overlaps(m)
    /\ ran' = {} /\ UNCHANGED <<reported, audits, late, fires>>

\* Mutant: the owner is set when the load begins and never returned to the host.
StaysOwner(m) ==
    /\ phase[m] = "harvesting"
    /\ buckets' = Harvest(buckets, owner, m, Catalog[m].exports)
    /\ Conclude(m, "none")
    /\ overlapped' = Overlaps(m)
    /\ ran' = {} /\ UNCHANGED <<owner, declared, diagnostics, reported, audits, evaluated, late, fires>>

\* loadModAsync of a module up to its first await: an import it may not make refuses it,
\* a cancelled call or a sandbox without modules throws past the policy, otherwise its
\* synchronous part has run.
StartModule(m) ==
    /\ phase[m] = "idle" /\ Catalog[m].format = "module"
    /\ declared' = Declared(m, "none")
    /\ \/ /\ owner' = m /\ buckets' = Register(buckets, m, m, Catalog[m].scripts[1])
          /\ phase' = [phase EXCEPT ![m] = "evaluating"]
          /\ evaluated' = evaluated \cup {m}
          /\ UNCHANGED <<hookFills, loadedMods, diagnostics>>
       \/ \E failure \in {"error", "propagates"} :
          /\ owner' = Host
          /\ diagnostics' = IF failure = "error" THEN Diagnosed(m, "entry-failed") ELSE diagnostics
          /\ Conclude(m, failure)
          /\ UNCHANGED <<buckets, evaluated>>
    /\ overlapped' = Overlaps(m)
    /\ ran' = {} /\ UNCHANGED <<reported, audits, late, fires>>

\* evaluateModule between its awaits: the drain, in which the module may reach a
\* top-level await on a binding, or finish.
DrainModule(m) ==
    /\ phase[m] = "evaluating"
    /\ \E next \in {"awaiting", "harvesting"} : phase' = [phase EXCEPT ![m] = next]
    /\ ran' = {}
    /\ UNCHANGED <<owner, buckets, declared, hookFills, loadedMods, diagnostics, reported, audits, evaluated, overlapped, late, fires>>

\* The binding settles and the module runs to its end, registering what it likes.
ResumeModule(m) ==
    /\ phase[m] = "awaiting"
    /\ \E names \in SUBSET Catalog[m].scripts[1] : buckets' = Register(buckets, owner, m, names)
    /\ phase' = [phase EXCEPT ![m] = "harvesting"]
    /\ overlapped' = Overlaps(m) /\ ran' = {}
    /\ UNCHANGED <<owner, declared, hookFills, loadedMods, diagnostics, reported, audits, evaluated, late, fires>>

\* The module's promise settles: harvest, return to the host's bucket, conclude.
FinishModule(m) ==
    /\ phase[m] = "harvesting"
    /\ \E failure \in {"none", "error", "propagates"} :
        /\ buckets' = IF failure = "none" THEN Harvest(buckets, owner, m, Catalog[m].exports) ELSE buckets
        /\ diagnostics' = IF failure = "error" THEN Diagnosed(m, "entry-failed") ELSE diagnostics
        /\ Conclude(m, failure)
    /\ owner' = Host /\ overlapped' = Overlaps(m)
    /\ ran' = {} /\ UNCHANGED <<declared, reported, audits, evaluated, late, fires>>

\* loadMod of a module: refused before anything is registered.
LoadModuleSync(m) ==
    /\ phase[m] = "idle" /\ Catalog[m].format = "module"
    /\ phase' = [phase EXCEPT ![m] = "failed"]
    /\ ran' = {}
    /\ UNCHANGED <<owner, buckets, declared, hookFills, loadedMods, diagnostics, reported, audits, evaluated, overlapped, late, fires>>

-----------------------------------------------------------------------------
(* What the host does meanwhile. *)

\* Code the host executes, or a handler of a mod that ran, registers an export.
LateRegister ==
    /\ late < MaxLate
    /\ \E by \in evaluated \cup {Host}, n \in Names :
          buckets' = Register(buckets, owner, by, {n}) /\ overlapped' = Overlaps(by)
    /\ late' = late + 1 /\ ran' = {}
    /\ UNCHANGED <<phase, owner, declared, hookFills, loadedMods, diagnostics, reported, audits, evaluated, fires>>

\* invokeExport by name alone.
InvokeExport(n) ==
    /\ GateExport(n) # {}
    /\ \E o \in GateExport(n) : ran' = Dispatch(n, o)
    /\ UNCHANGED <<phase, owner, buckets, declared, hookFills, loadedMods, diagnostics, reported, audits, evaluated, overlapped, late, fires>>

\* invokeModExport and, with the command's own mod and handler, invokeCommand.
InvokeModExport(m, n) ==
    /\ ~ Denied(m, n)
    /\ ran' = Dispatch(n, m)
    /\ UNCHANGED <<phase, owner, buckets, declared, hookFills, loadedMods, diagnostics, reported, audits, evaluated, overlapped, late, fires>>

\* Mutant: the denial is reported on every fire.
NeverReported(f) == FALSE

\* auditHookFillDenial: one report for a mod, handler and hook.
AlreadyReported(f) == f \in reported

\* fireHookWithFills: every fill of the hook, in registration order, each gated.
FireHook(h) ==
    /\ fires < MaxFires /\ fires' = fires + 1
    /\ LET due == {f \in Range(hookFills) : f.hook = h}
           refused == {f \in due : Denied(f.mod, f.handler)}
           news == {f \in refused : ~ AlreadyReported(f)}
       IN  /\ ran' = UNION {Dispatch(f.handler, f.mod) : f \in due \ refused}
           /\ reported' = reported \cup refused
           /\ audits' = [f \in HookFill |-> IF f \in news THEN audits[f] + 1 ELSE audits[f]]
    /\ UNCHANGED <<phase, owner, buckets, declared, hookFills, loadedMods, diagnostics, evaluated, overlapped, late>>

Next ==
    \/ \E m \in Mods : MissingEntryScript(m) \/ LoadScripts(m) \/ LoadModuleSync(m) \/ StartModule(m)
    \/ \E m \in Mods : DrainModule(m) \/ ResumeModule(m) \/ FinishModule(m)
    \/ LateRegister
    \/ \E n \in Names : InvokeExport(n) \/ \E m \in Mods : InvokeModExport(m, n)
    \/ \E h \in Hooks : FireHook(h)

Spec == Init /\ [][Next]_vars

-----------------------------------------------------------------------------
(* Properties. *)

\* "Registration is mod-scoped" (spec/modules.md), as far as it holds.  register() and the
\* module harvest write through exportOwner, one variable that stays set across the awaits
\* of a module's entry, so a mod's namespace holds that mod's functions alone unless its
\* own entry was open while other code registered or another load began or ended.
BucketIsPrivate == \A m \in Mods \ overlapped, n \in Names : buckets[m][n] \in {m, None}

\* What the entry of a mod that loaded without a diagnostic registers and exports.
EntryNames(m) ==
    IF Catalog[m].format = "module" THEN Catalog[m].scripts[1] \cup Catalog[m].exports
    ELSE After(m, Len(Catalog[m].scripts), {})
LoadedWhole(m) == m \in Range(loadedMods) /\ \A d \in diagnostics : d.mod # m

\* The other half of it: what such an entry registered is found under its mod's own name.
EntryAtHome == \A m \in Mods \ overlapped : LoadedWhole(m) => \A n \in EntryNames(m) : buckets[m][n] # None

\* Export namespaces are kept apart, with overlapped entries as the one exception: there a
\* module's functions land in the host's bucket, or in that of the mod loaded meanwhile.
NamespacesHold == BucketIsPrivate /\ EntryAtHome

\* No operation runs a function under a name for which the mod that registered it declared
\* a capability the host did not grant: not by name, not through a command or a hook fill,
\* and not what a failed load left behind.  What landed in the namespace of a mod whose
\* entry was overlapped is gated by that mod's declarations instead.
GateHolds ==
    \A r \in ran :
        \/ r.as # r.by /\ r.as \in overlapped
        \/ ~ (/\ r.by \in Mods /\ r.name \in DOMAIN Catalog[r.by].declares
              /\ Catalog[r.by].declares[r.name] \notin Granted \cup {None})

\* The audit sink hears of a refused hook fill once, however often the hook fires, and
\* never of a fill whose mod did not load.
AuditedOnce == \A f \in HookFill : audits[f] = (IF f \in reported THEN 1 ELSE 0) /\ (f \in reported => f.mod \in Range(loadedMods))

\* A capability the host did not grant stops its operation at every way in, and the host
\* hears of it once.
CapabilitiesHold == TypeOK /\ GateHolds /\ AuditedOnce
=============================================================================
