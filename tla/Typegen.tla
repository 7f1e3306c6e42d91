------------------------------ MODULE Typegen ------------------------------
(* The type generator (tools/typegen/src/index.ts, commands.ts): the declarations it writes for a
   manifest. A declaration has a scope, the names around it; a keyword; a name; the declared types
   its text refers to; whether it may be absent; and what using it gives. The text of types and
   comments is left out (TypeRef renders a type), as are the declarations of the fragment formats
   (Formats). `of` tells apart two declarations written for different parts of a manifest. *)
EXTENDS Lint, Naming

Declaration(scope, kind, name, refs, of) ==
    [scope |-> scope, kind |-> kind, name |-> name, refs |-> refs, maybe |-> FALSE, gives |-> <<"type">>, of |-> of]
Inside(scope, name) == Append(scope, name)
InsideType(scope, name) == scope \o <<"type", name>>
Member(scope, name, refs, of) == Declaration(scope, "property", name, refs, of)

IsSafeIdentifier(n) == n \notin UnsafeIdentifiers
RefsOf(ref) == IF ref = Undefined THEN {} ELSE TypeRefNames(ref)
RenderParams(v) == UNION {RefsOf(At(p, "type")) : p \in ParamsOf(v)}
RenderReturn(v) == RefsOf(ReturnTypeRef(At(v, "returns")))

-----------------------------------------------------------------------------
(* Bindings. *)

IsNamespace(b) == Has(b, "members")
IsAccessor(b) == IsString(At(b, "accessor"))
IsOptionalBinding(b) == Is(b, "optional")

(* A mutated form: only a namespace's own members are looked at. *)
OwnMembersNeedLiteral(b) == \E m \in Values(At(b, "members")) : IsOptionalBinding(m) \/ IsAccessor(m)
(* A namespace declaration can neither leave a member out nor hold a live value. *)
RECURSIVE NamespaceNeedsTypeLiteral(_)
NamespaceNeedsTypeLiteral(b) ==
    \E m \in Values(At(b, "members")) : IsOptionalBinding(m) \/ IsAccessor(m) \/ (IsNamespace(m) /\ NamespaceNeedsTypeLiteral(m))
RECURSIVE NamespaceIsDeclarable(_)
NamespaceIsDeclarable(b) ==
    \A n \in DOMAIN FieldsOf(At(b, "members")) :
        IsSafeIdentifier(n) /\ (IsNamespace(At(At(b, "members"), n)) => NamespaceIsDeclarable(At(At(b, "members"), n)))

(* A binding written as a call, as a value, or as something with members. *)
Written(scope, kind, name, b, gives, refs) ==
    [Declaration(scope, kind, name, refs, <<"binding">>) EXCEPT !.gives = <<gives>>, !.maybe = IsOptionalBinding(b) /\ kind \notin {"function", "namespace"}]
AsCall(scope, kind, name, b) == Written(scope, kind, name, b, IF Is(b, "async") THEN "promise" ELSE "call", RenderParams(b) \cup RenderReturn(b))
AsValue(scope, kind, name, b) == Written(scope, kind, name, b, "value", RefsOf(At(b, "type")))

RECURSIVE MemberTypeLines(_, _, _)
NamespaceTypeLiteral(scope, b) == UNION {MemberTypeLines(scope, n, At(b, "members").fields[n]) : n \in DOMAIN FieldsOf(At(b, "members"))}
MemberTypeLines(scope, name, b) ==
    IF IsNamespace(b) THEN {Written(scope, "property", name, b, "members", {})} \cup NamespaceTypeLiteral(Inside(scope, name), b)
    ELSE IF IsAccessor(b) THEN {AsValue(scope, IF At(b, "accessor") = Str("get") THEN "readonly" ELSE "property", name, b)}
    ELSE {AsCall(scope, IF IsOptionalBinding(b) THEN "property" ELSE "method", name, b)}

(* A namespace declaration and those nested in it: everything else in it is a function. *)
RECURSIVE GenerateNestedNamespace(_, _, _)
GenerateNestedNamespace(scope, name, b) ==
    LET members == At(b, "members")
        within == Inside(scope, name)
    IN  {Written(scope, "namespace", name, b, "members", {})}
        \cup UNION {IF IsNamespace(members.fields[n]) THEN GenerateNestedNamespace(within, n, members.fields[n])
                    ELSE {AsCall(within, "function", n, members.fields[n])} : n \in DOMAIN FieldsOf(members)}
GenerateNamespace(scope, name, b) ==
    IF IsOptionalBinding(b) \/ NamespaceNeedsTypeLiteral(b) \/ ~ NamespaceIsDeclarable(b)
    THEN {Written(scope, "const", name, b, "members", {})} \cup NamespaceTypeLiteral(Inside(scope, name), b)
    ELSE GenerateNestedNamespace(scope, name, b)
GenerateFunction(scope, name, b) == {AsCall(scope, IF IsOptionalBinding(b) THEN "const" ELSE "function", name, b)}
GenerateAccessor(scope, name, b) == {AsValue(scope, IF At(b, "accessor") = Str("get") THEN "const" ELSE "let", name, b)}

(* Names no declaration can have are gathered in one interface. *)
GenerateUndeclarableBindings(scope, bindings, names) ==
    IF names = {} THEN {}
    ELSE {Declaration(scope, "interface", "XriptGlobals", {}, <<"undeclarable">>)}
         \cup UNION {MemberTypeLines(InsideType(scope, "XriptGlobals"), n, bindings[n]) : n \in names}
GenerateBindingBlocks(scope, bindings) ==
    LET safe == {n \in DOMAIN bindings : IsSafeIdentifier(n)}
    IN  UNION {IF IsNamespace(bindings[n]) THEN GenerateNamespace(scope, n, bindings[n])
               ELSE IF IsAccessor(bindings[n]) THEN GenerateAccessor(scope, n, bindings[n]) ELSE GenerateFunction(scope, n, bindings[n]) : n \in safe}
        \cup GenerateUndeclarableBindings(scope, bindings, DOMAIN bindings \ safe)

-----------------------------------------------------------------------------
(* Types: a field spells out its own values, or those of the type it names. *)

HasValues(type) == ItemsOf(At(type, "values")) # <<>>
ResolveFieldType(field, types) ==
    LET named == {t \in DOMAIN types : At(field, "type") = Str(<<t>>) /\ HasValues(types[t])}
    IN  IF ItemsOf(At(field, "enum")) # <<>> \/ named # {} THEN {} ELSE RefsOf(At(field, "type"))
FieldTypes(def, types) == UNION {ResolveFieldType(f, types) : f \in Values(At(def, "fields"))}
GenerateEnumType(scope, name) == {Declaration(scope, "type", name, {}, <<"enum">>)}
GenerateObjectType(scope, name, def, types) == {Declaration(scope, "interface", name, FieldTypes(def, types), <<"object">>)}
GenerateAccessorInterface(scope, name, def, types) ==
    IF Values(At(def, "fields")) = {} THEN {} ELSE {Declaration(scope, "interface", name \o "Accessor", FieldTypes(def, types), <<"accessor">>)}
GenerateTypeBlocks(scope, types) ==
    UNION {IF Has(types[t], "values") THEN GenerateEnumType(scope, t)
           ELSE GenerateObjectType(scope, t, types[t], types) \cup GenerateAccessorInterface(scope, t, types[t], types) : t \in DOMAIN types}

-----------------------------------------------------------------------------
(* Hooks, the slots that are filled by hooks among them, and the life of a fragment. *)

EffectiveHooks(host) ==
    LET hooks == FieldsOf(At(host, "hooks"))
        slots == {s \in Range(SlotsOf(host)) : HookAccept \in Accepts(s) /\ At(s, "id").string \notin DOMAIN hooks}
    IN  Spread([n \in {At(s, "id").string : s \in slots} |-> Obj(Empty)], hooks)
PhasesOf(hook) == StringsOf(At(hook, "phases"))
HooksAreDeclarable(hooks) == \A n \in DOMAIN hooks : IsSafeIdentifier(n) /\ \A p \in PhasesOf(hooks[n]) : IsSafeIdentifier(p)
FragmentLifecycles == {"mount", "unmount", "update", "suspend", "resume"}

(* `fn` is what a registration is written as in the form that is used, and `space` what holds some. *)
HookMembers(scope, hooks, fn, space) ==
    UNION {IF PhasesOf(hooks[n]) = {} THEN {Declaration(scope, fn, n, RenderParams(hooks[n]), <<"hook">>)}
           ELSE {Declaration(scope, space, n, {}, <<"hook">>)} \cup {Declaration(Inside(scope, n), fn, p, RenderParams(hooks[n]), <<"hook">>) : p \in PhasesOf(hooks[n])} : n \in DOMAIN hooks}
GenerateFragmentHooks(scope, fn, space) ==
    {Declaration(scope, space, "fragment", {}, <<"lifecycle">>)} \cup {Declaration(Inside(scope, "fragment"), fn, l, {"XriptFragmentProxy"}, <<"lifecycle">>) : l \in FragmentLifecycles}
GenerateHooksNamespace(scope, hooks, slotted) ==
    LET literal == ~ HooksAreDeclarable(hooks)
        fn == IF literal THEN "method" ELSE "function"
        space == IF literal THEN "property" ELSE "namespace"
        within == Inside(scope, "hooks")
    IN  {Declaration(scope, IF literal THEN "const" ELSE "namespace", "hooks", {}, <<"hooks">>)} \cup HookMembers(within, hooks, fn, space)
        \cup (IF slotted THEN GenerateFragmentHooks(within, fn, space) ELSE {})

-----------------------------------------------------------------------------
(* Slots and commands. *)

GenerateFragmentAPITypes(scope) == {Declaration(scope, "interface", "XriptFragmentProxy", {}, <<"api">>)}
GenerateSlotTypes(scope, slots) ==
    {Declaration(scope, "type", "XriptSlot", {}, <<"slots">>), Declaration(scope, "interface", "XriptSlots", {}, <<"slots">>)}
    \cup {Member(InsideType(scope, "XriptSlots"), At(slots[i], "id").string, {}, <<ToString(i)>>) : i \in DOMAIN slots}
GenerateCommandSlotTypes(scope, slots) ==
    LET names == UniqueNames(<<>>, [i \in DOMAIN slots |-> At(slots[i], "id").string])
        within == Inside(scope, "xript")
    IN  IF slots = <<>> THEN {}
        ELSE {Declaration(scope, "typespace", "xript", {}, <<"commands">>), Declaration(within, "typespace", "commandSlots", {}, <<"commands">>),
              Declaration(within, "type", "CommandSlotId", {}, <<"commands">>), Declaration(scope, "type", "XriptCommandHandler", {}, <<"commands">>)}
             \cup {Declaration(Inside(within, "commandSlots"), "interface", names[i], {}, <<ToString(i)>>) : i \in DOMAIN slots}
GenerateSlotBlocks(scope, host) ==
    IF SlotsOf(host) = <<>> THEN {}
    ELSE GenerateFragmentAPITypes(scope) \cup GenerateSlotTypes(scope, SlotsOf(host))
         \cup GenerateCommandSlotTypes(scope, SelectSeq(SlotsOf(host), LAMBDA s : IsCommandSlot(s) /\ IsString(At(s, "id"))))

(* A fill of a slot nobody declares is a command by its looks. *)
LooksLikeCommandFill(fill) ==
    /\ ~ IsFragmentFill(fill) /\ ~ IsObject(At(fill, "fns"))
    /\ NonEmpty(At(fill, "handler")) /\ At(fill, "id") \in {Str(i) : i \in CommandIds}
ModCommands(mod, known) ==
    LET fills == FieldsOf(At(mod, "fills"))
        List(s) == FillEntries(fills[s])
        Counts(f) == LooksLikeCommandFill(f) /\ ~ Has(f, "capability")
        Heard(s) == {i \in DOMAIN List(s) : Counts(List(s)[i]) /\ \A j \in 1..(i - 1) : Counts(List(s)[j]) => At(List(s)[j], "id") # At(List(s)[i], "id")}
    IN  UNION {{[slot |-> s, fill |-> List(s)[i]] : i \in Heard(s)} : s \in DOMAIN fills \cap known}
(* What a caller must pass: the required keys the fill does not bind. *)
CallArgsType(fill) ==
    LET bound == DOMAIN FieldsOf(At(fill, "args"))
        properties == DOMAIN FieldsOf(At(At(fill, "input"), "properties"))
        optional == IsObject(At(fill, "input")) /\ properties # {} => StringsOf(At(At(fill, "input"), "required")) \subseteq bound
    IN  <<IF optional THEN "args?" ELSE "args">> \o SetToSeq(IF IsObject(At(fill, "input")) THEN properties ELSE bound)
GenerateCommandCatalog(scope, commands) ==
    LET within == Inside(scope, "commands")
    IN  IF commands = {} THEN {}
        ELSE {Declaration(scope, "typespace", "commands", {}, <<"catalog">>), Declaration(within, "interface", "Catalog", {}, <<"catalog">>), Declaration(within, "type", "Id", {"Catalog"}, <<"catalog">>)}
             \cup {[Member(InsideType(within, "Catalog"), At(c.fill, "id").string, {}, <<c.slot>>) EXCEPT !.gives = CallArgsType(c.fill)] : c \in commands}

-----------------------------------------------------------------------------
(* Events: every id and addressed form, the payload and the arguments it is spread into. *)

SpreadArgs(payload, node, types) ==
    LET fields == IF node.name \in DOMAIN types THEN At(types[node.name], "fields") ELSE Undefined
    IN  CASE node.kind \in {"map", "union", "optional", "unknown"} -> {}
          [] node.kind = "name" /\ IsObject(fields) -> FieldTypes(types[node.name], types)
          [] node.kind = "name" /\ node.name \in {"any", "unknown", "void", "undefined"} -> {}
          [] OTHER -> RefsOf(payload)
EventHandlerArgs(payload, types) == IF payload = Undefined THEN {} ELSE SpreadArgs(payload, Resolved(payload), types)
GenerateEventCatalog(scope, events, types) ==
    LET IdsOf(e) == {At(e, "id").string} \cup StringsOf(At(e, "addressed"))
        Keys(interface, Refs(_)) == UNION {{Member(InsideType(scope, interface), id, Refs(At(events[i], "payload")), <<ToString(i)>>) : id \in IdsOf(events[i])} : i \in DOMAIN events}
    IN  {Declaration(scope, "interface", "XriptEvents", {}, <<"events">>), Declaration(scope, "interface", "XriptEventArgs", {}, <<"events">>),
         Declaration(scope, "type", "XriptEventId", {}, <<"events">>), Declaration(scope, "type", "XriptModEventId", {}, <<"events">>)}
        \cup Keys("XriptEvents", RefsOf) \cup Keys("XriptEventArgs", LAMBDA p : EventHandlerArgs(p, types))
DeclaresEventsBinding(host) == Has(At(host, "bindings"), "events")
GenerateEventsGlobal(scope) ==
    {Declaration(scope, "namespace", "events", {"XriptEvents", "XriptEventId", "XriptModEventId", "XriptEventArgs", "XriptSubscription", "XriptCancelResult",
                                             "XriptSubscribeOptions", "XriptEventEntry", "XriptSubscribers"}, <<"bus">>),
     Declaration(scope, "interface", "XriptSubscription", {"XriptCancelResult"}, <<"bus">>)}
    \cup {Declaration(scope, "interface", n, {}, <<"bus">>) : n \in {"XriptCancelResult", "XriptSubscribeOptions", "XriptEventEntry", "XriptSubscribers"}}
GenerateEventBlocks(scope, host) ==
    IF ItemsOf(At(host, "events")) = <<>> THEN {}
    ELSE GenerateEventCatalog(scope, ItemsOf(At(host, "events")), FieldsOf(At(host, "types")))
         \cup (IF DeclaresEventsBinding(host) THEN {} ELSE GenerateEventsGlobal(scope))

-----------------------------------------------------------------------------
(* What is written for a mod: its handlers, the bindings its fragments read, its exports, its roles. *)

ResolveFillHandlers(fill) == IF ItemsOf(At(fill, "handlers")) # <<>> THEN At(fill, "handlers") ELSE At(fill, "events")
FillsOf(mod) == UNION {{[slot |-> s, at |-> <<s, ToString(i)>>, fill |-> FillEntries(At(mod, "fills").fields[s])[i]] : i \in DOMAIN FillEntries(At(mod, "fills").fields[s])} :
                       s \in DOMAIN FieldsOf(At(mod, "fills"))}
GenerateFragmentHandlerTypes(scope, mod) ==
    LET wired == {f \in FillsOf(mod) : ItemsOf(ResolveFillHandlers(f.fill)) # <<>>}
        Key(f) == IF NonEmpty(At(f.fill, "id")) THEN f.slot \o "::" \o At(f.fill, "id").string ELSE f.slot
    IN  IF wired = {} THEN {}
        ELSE {Declaration(scope, "interface", "FragmentHandlers", {}, <<"handlers">>)} \cup {Member(InsideType(scope, "FragmentHandlers"), Key(f), {}, f.at) : f \in wired}

(* The type a fragment's binding has, where the manifest at hand declares it. *)
BindingValueType(binding, types) == IF NonEmpty(At(binding, "type")) THEN {At(binding, "type").string} \cap DOMAIN types ELSE {}
GenerateFragmentBindingTypes(scope, mod, types) ==
    LET Named(fill) == {b \in Range(ItemsOf(At(fill, "bindings"))) : IsString(At(b, "name"))}
        bound == {f \in FillsOf(mod) : Named(f.fill) # {}}
        Base(f) == PascalCase(IF IsString(At(f.fill, "id")) THEN At(f.fill, "id").string ELSE f.slot)
        within == Inside(scope, "XriptFragments")
    IN  IF bound = {} THEN {}
        ELSE {Declaration(scope, "typespace", "XriptFragments", {}, <<"fragments">>)}
             \cup UNION {{Declaration(within, "interface", Base(f) \o "Bindings", {}, f.at), Declaration(within, "type", Base(f) \o "Binding", {Base(f) \o "Bindings"}, f.at)}
                         \cup {Member(InsideType(within, Base(f) \o "Bindings"), At(b, "name").string, BindingValueType(b, types), f.at) : b \in Named(f.fill)} : f \in bound}
GenerateExportsInterface(scope, mod) ==
    LET exports == ExportsOf(mod)
    IN  IF DOMAIN exports = {} THEN {}
        ELSE {Declaration(scope, "interface", "Exports", {}, <<"exports">>)}
             \cup {Declaration(InsideType(scope, "Exports"), "method", n, RenderParams(exports[n]) \cup RenderReturn(exports[n]), <<"exports">>) : n \in DOMAIN exports}
GenerateProvidedRolesInterface(scope, provides) ==
    IF provides = <<>> THEN {}
    ELSE {Declaration(scope, "interface", "ProvidedRoles", {}, <<"roles">>)} \cup {Member(InsideType(scope, "ProvidedRoles"), At(provides[i], "role").string, {}, <<ToString(i)>>) : i \in DOMAIN provides}

GenerateCapabilityTypes(scope, host) ==
    IF DOMAIN CapabilityDeclarations(host) = {} THEN {} ELSE {Declaration(scope, "type", n, {}, <<"capabilities">>) : n \in {"XriptCapability", "XriptCapabilityRef"}}
GenerateLibraryModules(host) == {Declaration(<<"modules">>, "module", n, {}, <<"library">>) : n \in DOMAIN FieldsOf(At(host, "libraries"))}
GenerateXriptConst(scope) == {Declaration(scope, "const", "xript", {}, <<"xript">>)}
GenerateGrantShapeInterfaces(scope) == {Declaration(scope, "interface", n, {}, <<"grants">>) : n \in {"CapabilityPrompt", "InstallDescriptor", "DiscoveryResult"}}

(* The routing tables, the deadline of a slot that declares one beside its intent. *)
SlotBudget(m, s) == IF s.kind = "slots" /\ Has(At(SlotAt(m, s.name[1]), "limits"), "timeout_ms") THEN <<"timeout">> ELSE <<>>
PathOf(s) == s.kind \o "/" \o FoldLeft(LAMBDA path, n : IF path = "" THEN n ELSE path \o "." \o n, "", s.name)
GenerateExecutionTable(scope, m, name, surfaces) ==
    IF surfaces = {} THEN {}
    ELSE {Declaration(scope, "const", name, {}, <<"intent">>)}
         \cup {[Member(Inside(scope, name), PathOf(s), {}, <<"intent">>) EXCEPT !.gives = <<s.resolved.duration, s.resolved.affinity>> \o SlotBudget(m, s)] : s \in surfaces}
ExecutionTables(scope, m) ==
    GenerateExecutionTable(scope, m, "xriptExecution", {s \in ExecutionSurfaces(m) : s.kind # "exports"})
    \cup GenerateExecutionTable(scope, m, "xriptModExecution", {s \in ExecutionSurfaces(m) : s.kind = "exports"})

-----------------------------------------------------------------------------
(* The two files: the declarations of a manifest, and the ambient ones a mod's author writes
   against, where the world is the host's and only the fills and the exports are the mod's. *)
Global == <<"global">>
File == <<"file">>
AllSlots(m, host) == IF host = Undefined THEN DOMAIN FieldsOf(At(m, "fills")) ELSE {At(s, "id").string : s \in {t \in Range(SlotsOf(host)) : IsCommandSlot(t) /\ IsString(At(t, "id"))}}
Surroundings(scope, env) ==
    GenerateTypeBlocks(scope, FieldsOf(At(env, "types"))) \cup GenerateBindingBlocks(scope, FieldsOf(At(env, "bindings")))
    \cup (IF DOMAIN FieldsOf(At(env, "hooks")) = {} /\ SlotsOf(env) = <<>> THEN {} ELSE GenerateHooksNamespace(scope, EffectiveHooks(env), SlotsOf(env) # <<>>))
    \cup GenerateSlotBlocks(scope, env) \cup GenerateEventBlocks(scope, env) \cup GenerateCapabilityTypes(scope, env)
Contributed(scope, m, options) ==
    GenerateFragmentHandlerTypes(scope, m) \cup GenerateFragmentBindingTypes(scope, m, FieldsOf(At(m, "types"))) \cup GenerateExportsInterface(scope, m)
    \cup GenerateCommandCatalog(scope, ModCommands(m, AllSlots(m, options.host)))
    \cup (IF options.grants THEN GenerateGrantShapeInterfaces(scope) ELSE {})
(* The ambient file declares the world globally and what the mod adds as a module of its own; the
   plain one declares everything globally. *)
AmbientWorld(m, options) == IF options.ambient /\ options.host # Undefined THEN options.host ELSE m
AmbientExtras(env) == GenerateXriptConst(Global) \cup GenerateLibraryModules(env)
GenerateTypes(m, options) ==
    LET env == AmbientWorld(m, options)
        scope == IF options.ambient THEN File ELSE Global
    IN  Surroundings(Global, env) \cup Contributed(scope, m, options)
        \cup (IF options.ambient THEN AmbientExtras(env) ELSE GenerateProvidedRolesInterface(Global, ReadProvides(m)))
        \cup (IF options.ambient \/ options.intent THEN ExecutionTables(scope, m) ELSE {})

-----------------------------------------------------------------------------
(* TypeScript's rules for a file of declarations: what one name may stand for in one scope, and
   where a type may be named from. *)
TypeKinds == {"interface", "type"}
ValueKinds == {"function", "const", "let", "namespace", "property", "readonly", "method"}
Clash(d, e) ==
    /\ d # e /\ d.scope = e.scope /\ d.name = e.name
    /\ \/ d.kind \in TypeKinds /\ e.kind \in TypeKinds
       \/ d.kind \in ValueKinds /\ e.kind \in ValueKinds /\ {d.kind, e.kind} \notin {{"function"}, {"namespace"}, {"method"}, {"function", "namespace"}}
Visible(decls, d, name) == \E e \in decls : e.kind \in TypeKinds /\ e.name = name /\ (IsPrefix(e.scope, d.scope) \/ e.scope = Global)
Compiles(decls) == (\A d, e \in decls : ~ Clash(d, e)) /\ \A d \in decls : \A n \in d.refs : Visible(decls, d, n)

(* What a host may not do for its own names to stay apart. The linter answers for the first of
   these; nothing does for the others. *)
UnprefixedNames == {"CapabilityPrompt", "InstallDescriptor", "DiscoveryResult", "Exports", "FragmentHandlers", "ProvidedRoles"}
IdsApart(list) == \A i, j \in DOMAIN list : i # j => At(list[i], "id") # At(list[j], "id")
Tidy(host) ==
        /\ \A findings \in {LintManifests(host, {}, Inherits({}, {}, {}))} :
             ErrorsIn(findings) = {} /\ \A f \in findings : f[1] # "binding-shadows-builtin"
        /\ IdsApart(SlotsOf(host)) /\ IdsApart(ItemsOf(At(host, "events")))
        /\ "fragment" \notin DOMAIN EffectiveHooks(host) /\ DOMAIN FieldsOf(At(host, "types")) \cap UnprefixedNames = {}

(* A mod's file in the world of its host: no two of its fills may be told apart by their slot
   alone, and no command id serves two slots. *)
ModTidy(mod, host) ==
    LET fills == FillsOf(mod)
        Base(f) == IF IsString(At(f.fill, "id")) THEN PascalCase(At(f.fill, "id").string) ELSE PascalCase(f.slot)
        commands == ModCommands(mod, AllSlots(mod, host))
    IN  /\ \A f, g \in fills : f # g => Base(f) # Base(g)
        /\ \A c, d \in commands : c # d => At(c.fill, "id") # At(d.fill, "id")
        /\ \A e \in Values(Obj(ExportsOf(mod))) : RenderParams(e) \cup RenderReturn(e) \subseteq DOMAIN FieldsOf(At(host, "types"))
(* What the linter passes compiles, whichever of the two files it is; a host alone is written for
   a mod that says nothing. *)
NoMod == Obj(Empty)
CleanCompiles(mod, host, decls) == Tidy(host) /\ ModTidy(mod, host) => Compiles(decls)

RECURSIVE BindingsWithin(_, _)
BindingsWithin(bindings, path) ==
    UNION {{[path |-> path, name |-> n, def |-> bindings[n]]} \cup BindingsWithin(FieldsOf(At(bindings[n], "members")), Append(path, n)) : n \in DOMAIN bindings}
(* Every binding is written once, where a script finds it, as what it is: called, awaited, read or
   assigned, and possibly absent exactly when the host may leave it out. *)
SurfaceIsTyped(host, decls) ==
    LET At1(b) == {d \in decls : d.of = <<"binding">> /\ d.name = b.name /\ d.scope \in {Global \o b.path, InsideType(Global, "XriptGlobals") \o b.path}}
        Fits(b, d) == /\ d.maybe = IsOptionalBinding(b.def)
                      /\ d.gives = <<IF IsNamespace(b.def) THEN "members" ELSE IF IsAccessor(b.def) THEN "value" ELSE IF Is(b.def, "async") THEN "promise" ELSE "call">>
                      /\ IsAccessor(b.def) /\ ~ IsNamespace(b.def) => (d.kind \in {"const", "readonly"} <=> At(b.def, "accessor") = Str("get"))
    IN  \A b \in BindingsWithin(FieldsOf(At(host, "bindings")), <<>>) : Cardinality(At1(b)) = 1 /\ \A d \in At1(b) : Fits(b, d)
=============================================================================
