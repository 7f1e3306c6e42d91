------------------------------ MODULE Globals ------------------------------
(* What building a JavaScript sandbox puts in front of its scripts: the host's bindings behind
   their declarations (runtimes/js/src/presence.ts, with-caller.ts), the globals of the runtime
   itself, the seal put on all of them, and the hook registrations reached through them
   (runtimes/js/src/sandbox.ts). *)
EXTENDS Integers, Sequences, SequencesExt, TLC

CONSTANT Granted   \* the capabilities the host granted

(* A host value: a function (perhaps caller-aware), an object, the native getter of a property *)
(* (perhaps with its setter), or anything else. *)
HostValue(t, props) == [t |-> t, aware |-> FALSE, as |-> <<>>, set |-> FALSE, props |-> props]
NoProps == <<>>
Undefined == HostValue("undefined", NoProps)
Primitive == HostValue("primitive", NoProps)
IsContainer(v) == v.t \in {"object", "fn"}
Read(v) == IF v.t = "getter" THEN Primitive ELSE v
HasOwn(c, name) == IsContainer(c) /\ name \in DOMAIN c.props
OwnMember(c, name) == IF HasOwn(c, name) THEN Read(c.props[name]) ELSE Undefined

(* Every caller-aware function is replaced by one that knows its name. An object in which one was
   replaced is copied, and copying reads each of its properties. *)
RECURSIVE ResolveCallerAware(_, _)
ResolveCallerAware(tree, prefix) ==
    LET Next(name) ==
            LET value == Read(tree.props[name]) path == Append(prefix, name)
            IN  CASE value.aware -> [value EXCEPT !.aware = FALSE, !.as = path]
                  [] value.t = "object" -> ResolveCallerAware(value, path)
                  [] OTHER -> value
    IN  IF tree.t # "object" \/ \A n \in DOMAIN tree.props : Next(n) = Read(tree.props[n]) THEN tree
        ELSE [tree EXCEPT !.props = [n \in DOMAIN @ |-> Next(n)]]

-----------------------------------------------------------------------------
(* Presence. A binding is [kind, optional, async, cap, mode, members]. *)

(* Whether the host supplies an accessor the declaration can use: a native getter, or an object
   with a get function; and the setter too for get-set. *)
HostAccessorFor(c, name, mode) ==
    /\ HasOwn(c, name)
    /\ LET native == c.props[name].t = "getter" supplied == OwnMember(c, name)
       IN  /\ native \/ OwnMember(supplied, "get").t = "fn"
           /\ mode = "get-set" => IF native THEN c.props[name].set ELSE OwnMember(supplied, "set").t = "fn"

Supplies(binding, c, name) ==
    CASE binding.kind = "namespace" -> OwnMember(c, name).t = "object"
      [] binding.kind = "accessor" -> HostAccessorFor(c, name, binding.mode)
      [] OTHER -> OwnMember(c, name).t = "fn"
(* A mutated form: a required binding the host left out is skipped too. *)
OmitsRequired(binding, c, name) == ~ Supplies(binding, c, name)
OmitsBinding(binding, c, name) == binding.optional /\ ~ Supplies(binding, c, name)

RECURSIVE ProvidedBindingPaths(_, _, _), MissingBindingNames(_, _, _)
ProvidedBindingPaths(bindings, c, prefix) ==
    UNION {LET path == Append(prefix, n)
           IN  {path} \cup IF bindings[n].kind = "namespace" THEN ProvidedBindingPaths(bindings[n].members, OwnMember(c, n), path) ELSE {} :
              n \in {m \in DOMAIN bindings : Supplies(bindings[m], c, m)}}
MissingBindingNames(bindings, c, prefix) ==
    UNION {LET path == Append(prefix, n) nested == OwnMember(c, n)
           IN  CASE bindings[n].kind = "namespace" ->
                      MissingBindingNames(bindings[n].members, IF nested.t = "object" THEN nested ELSE Undefined, path)
                 [] ~ Supplies(bindings[n], c, n) -> {path}
                 [] OTHER -> {} :
              n \in {m \in DOMAIN bindings : ~ OmitsBinding(bindings[m], c, m)}}

-----------------------------------------------------------------------------
(* Installing. A script value is a function with what calling it does, an object with an identity,
   or an accessor; a property also says whether a script may write or delete it. *)

Value(t, does) == [t |-> t, does |-> does, sets |-> "", id |-> "", props |-> NoProps, frozen |-> FALSE]
Absent == Value("undefined", "")
Fn(does) == Value("function", does)
Obj(id, props) == [Value("object", "") EXCEPT !.id = id, !.props = props]
Open(value) == [value |-> value, open |-> TRUE]
Locked(value) == [value |-> value, open |-> FALSE]

(* What a call of a binding comes to. *)
CreateHostFunctionWrapper(binding, hostFn) ==
    CASE binding.cap # "" /\ binding.cap \notin Granted -> "denied"
      [] hostFn = Undefined -> "missing"
      [] hostFn.t # "fn" -> "broken"
      [] OTHER -> "answers"
CreateAsyncUnsupportedStub == "unsupported"
RegisterAsyncBinding(binding, hostFn) ==
    CASE binding.cap # "" /\ binding.cap \notin Granted -> "denied"
      [] hostFn = Undefined -> "missing"
      [] hostFn.t # "fn" -> "broken"
      [] OTHER -> "answers"
RegisterBinding(binding, hostFn, tier) ==
    Open(Fn(CASE tier = "async" /\ binding.async -> RegisterAsyncBinding(binding, hostFn)
              [] tier = "sync" /\ binding.async -> CreateAsyncUnsupportedStub
              [] OTHER -> CreateHostFunctionWrapper(binding, hostFn)))

RegisterAccessor(binding, c, name) ==
    LET supplied == IF HostAccessorFor(c, name, binding.mode) THEN HostValue("fn", NoProps) ELSE Undefined
        does == CreateHostFunctionWrapper(binding, supplied)
    IN  Locked([Value("accessor", does) EXCEPT !.sets = IF binding.mode = "get-set" THEN does ELSE "read-only"])

RECURSIVE RegisterMembers(_, _, _, _)
RegisterMembers(bindings, c, path, tier) ==
    [n \in DOMAIN bindings |->
        LET binding == bindings[n] at == Append(path, n)
        IN  CASE OmitsBinding(binding, c, n) -> Open(Absent)
              [] binding.kind = "accessor" -> RegisterAccessor(binding, c, n)
              [] binding.kind = "namespace" -> Open(Obj("host", RegisterMembers(binding.members, OwnMember(c, n), at, tier)))
              [] OTHER -> RegisterBinding(binding, OwnMember(c, n), tier)]

RECURSIVE DeepFreeze(_)
DeepFreeze(value) ==
    IF value.t \notin {"object", "function"} THEN value
    ELSE [value EXCEPT !.frozen = TRUE, !.props = [n \in DOMAIN @ |-> Locked(IF @[n].value.t = "object" THEN DeepFreeze(@[n].value) ELSE @[n].value)]]
FreezeNamespaces(globals, bindings) ==
    [n \in DOMAIN globals |->
        IF n \in DOMAIN bindings /\ bindings[n].kind = "namespace" THEN [globals[n] EXCEPT !.value = DeepFreeze(@)] ELSE globals[n]]

PresenceProbe(globals, paths) == ("xript" :> Open(Obj("runtime", "has" :> Locked(Fn("probe"))))) @@ globals
InjectBindings(globals, bindings, host, tier) ==
    FreezeNamespaces(RegisterMembers(bindings, host, <<>>, tier) @@ PresenceProbe(globals, ProvidedBindingPaths(bindings, host, <<>>)), bindings)

BuiltIn(id, names) == Obj(id, [n \in names |-> Open(Fn("runtime"))])
InjectConsole == "console" :> Open(BuiltIn("runtime", {"log", "warn"}))
InjectErrorClasses == [n \in {"BindingError", "CapabilityDeniedError"} |-> Open(Fn("runtime"))]

(* The handlers of a phased hook are kept by phase. *)
RegistryKey(hook, phase) == IF phase = "" THEN hook ELSE hook \o ":" \o phase
InjectHooks(globals, hooks) ==
    ("hooks" :> Open(Obj("runtime", [h \in DOMAIN hooks |->
        Open(IF hooks[h] = {} THEN Fn(RegistryKey(h, "")) ELSE Obj("runtime", [p \in hooks[h] |-> Open(Fn(RegistryKey(h, p)))]))]))) @@ globals
InstallEventBus(globals, hostEvents) ==
    IF hostEvents THEN globals ELSE ("events" :> Open(DeepFreeze(BuiltIn("runtime", {"on", "emit"})))) @@ globals
LIFECYCLES == {"mount", "unmount", "update", "suspend", "resume"}
InjectFragmentAPI(globals) ==
    [globals EXCEPT !["hooks"].value.props = ("fragment" :> Open(BuiltIn("runtime", LIFECYCLES))) @@ @]
(* A frozen xript silently keeps exports out. *)
InjectExportsAPI(globals) ==
    LET held == globals["xript"].value
        xript == IF held.t = "object" THEN held ELSE Obj("runtime", NoProps)
        exports == "exports" :> Open(DeepFreeze(BuiltIn("runtime", {"register"})))
    IN  [globals EXCEPT !["xript"].value = IF xript.frozen THEN xript ELSE [xript EXCEPT !.props = exports @@ @]]
FreezeHooksAndFragments(globals) == [globals EXCEPT !["hooks"].value = DeepFreeze(@)]

SHADOWING_BUILTINS == {"events", "hooks", "xript"}
(* The bindings whose global no longer holds the host's value. *)
ReplacedBindings(bindings, before, after) ==
    {n \in SHADOWING_BUILTINS \cap DOMAIN bindings : <<before[n].value.t, before[n].value.id>> # <<after[n].value.t, after[n].value.id>>}

FrozenHolders == {"hooks", "xript", "console", "BindingError", "CapabilityDeniedError"}
(* A mutated form: only the runtime's own globals are sealed. *)
SealOwnGlobals(globals, bindings) ==
    [n \in DOMAIN globals |-> IF n \in FrozenHolders THEN Locked(DeepFreeze(globals[n].value)) ELSE globals[n]]
SealGlobals(globals, bindings) ==
    LET names == DOMAIN bindings \cup FrozenHolders \cup {"events"}
    IN  [n \in DOMAIN globals |->
            IF n \notin names THEN globals[n] ELSE Locked(IF n \in FrozenHolders THEN DeepFreeze(globals[n].value) ELSE globals[n].value)]

(* Building refuses host events without an `events` binding to install. *)
AssertHostEventsManifest(bindings, hostEvents) == hostEvents => "events" \in DOMAIN bindings
(* The order in which createSandbox builds. *)
CreateSandbox(m, hostBindings, tier, hostEvents) ==
    LET host == ResolveCallerAware(hostBindings, <<>>)
        bound == InjectBindings(InjectErrorClasses @@ InjectConsole, m.bindings, host, tier)
        installed == FreezeHooksAndFragments(InjectExportsAPI(InjectFragmentAPI(InstallEventBus(InjectHooks(bound, m.hooks), hostEvents))))
    IN  [globals |-> SealGlobals(installed, m.bindings),
         known |-> ProvidedBindingPaths(m.bindings, host, <<>>),
         missing |-> MissingBindingNames(m.bindings, hostBindings, <<>>),
         replaced |-> ReplacedBindings(m.bindings, bound, installed)]

(* The registration a hook fired by the host reaches, if any. *)
FireKey(hooks, hook, phase) ==
    CASE hook \notin DOMAIN hooks -> ""
      [] phase # "" /\ phase \notin hooks[hook] -> ""
      [] OTHER -> RegistryKey(hook, phase)

-----------------------------------------------------------------------------
(* What the sandbox promises of all this. *)

RECURSIVE DeclaredPaths(_, _), At(_, _), OptionalOn(_, _), InstalledProps(_)
DeclaredPaths(bindings, prefix) ==
    UNION {{Append(prefix, n)} \cup DeclaredPaths(bindings[n].members, Append(prefix, n)) : n \in DOMAIN bindings}
(* What a script finds at a path; below an absent namespace it finds nothing. *)
At(props, path) ==
    CASE Head(path) \notin DOMAIN props -> Absent
      [] Len(path) = 1 -> props[Head(path)].value
      [] OTHER -> At(props[Head(path)].value.props, Tail(path))
OptionalOn(bindings, path) ==
    \/ bindings[Head(path)].optional
    \/ Len(path) > 1 /\ OptionalOn(bindings[Head(path)].members, Tail(path))
InstalledProps(props) == UNION {{props[n]} \cup InstalledProps(props[n].value.props) : n \in DOMAIN props}

(* An accessor the host supplies natively and building loses: a caller-aware function beside it has
   the namespace copied, and the copy holds what the getter gave instead of the getter. *)
RECURSIVE Within(_, _), BindingAt(_, _)
Within(c, path) == IF path = <<>> THEN c ELSE Within(OwnMember(c, Head(path)), Tail(path))
BindingAt(bindings, path) == IF Len(path) = 1 THEN bindings[path[1]] ELSE BindingAt(bindings[Head(path)].members, Tail(path))
Flattened(m, hostBindings, p) ==
    LET given == Within(hostBindings, Front(p)) b == BindingAt(m.bindings, p)
    IN  /\ b.kind = "accessor" /\ HostAccessorFor(given, Last(p), b.mode)
        /\ given.props[Last(p)].t = "getter" /\ ResolveCallerAware(given, <<>>) # given

(* A binding that answers is one xript.has reports; one that throws as unimplemented is one the
   host was told it misses; one that reads as undefined was optional and is neither. The exception
   is an accessor that building loses: it throws or is undefined, and xript.has denies it, but the
   host, which did supply it, is told of nothing missing. *)
PresenceHolds(m, hostBindings, tier, hostEvents) ==
    \A built \in {CreateSandbox(m, hostBindings, tier, hostEvents)} :
        \A p \in {q \in DeclaredPaths(m.bindings, <<>>) : q[1] \notin built.replaced} :
            LET found == At(built.globals, p) known == p \in built.known missing == p \in built.missing
            IN  CASE found.does = "answers" -> known /\ ~ missing
                  [] found.does \in {"missing", "broken"} -> ~ known /\ (missing <=> ~ Flattened(m, hostBindings, p))
                  [] found.does \in {"denied", "unsupported"} ->
                        IF Flattened(m, hostBindings, p) THEN ~ known /\ ~ missing ELSE known # missing
                  [] found.t = "undefined" -> OptionalOn(m.bindings, p) /\ ~ known /\ ~ missing
                  [] OTHER -> ~ missing

(* No script can change anything installed; a binding hidden by a global of the runtime is
   reported, and only such a one; and a hook's fire reaches its own registrations alone. *)
GlobalsHold(m, hostBindings, tier, hostEvents) ==
    \A built \in {CreateSandbox(m, hostBindings, tier, hostEvents)} :
    LET Registrations == {<<h, p>> : h \in DOMAIN m.hooks, p \in {""} \cup UNION {m.hooks[h] : h \in DOMAIN m.hooks}}
        Registers(h, p) == At(built.globals, IF p = "" THEN <<"hooks", h>> ELSE <<"hooks", h, p>>).does
    IN  /\ \A prop \in InstalledProps(built.globals) : ~ prop.open
        /\ \A n \in DOMAIN m.bindings : n \in built.replaced <=> At(built.globals, <<n>>).id = "runtime"
        /\ \A r \in Registrations :
              FireKey(m.hooks, r[1], r[2]) # "" =>
                  {s \in Registrations : Registers(s[1], s[2]) = FireKey(m.hooks, r[1], r[2])} \subseteq {r}
        /\ \A h \in DOMAIN m.hooks, p \in {""} : m.hooks[h] = {} => Registers(h, p) = FireKey(m.hooks, h, p)
        /\ \A h \in DOMAIN m.hooks : \A p \in m.hooks[h] : Registers(h, p) = FireKey(m.hooks, h, p)
=============================================================================
