------------------------------- MODULE Docgen -------------------------------
(* The documentation generator (tools/docgen/src/index.ts, commands.ts): the pages written for a
   manifest. A page is its slug and the set of facts it tells, a fact <<what, of, words>>: what is
   said, the dotted name it is said of, and the words it is said with. Descriptions, headings,
   fixed prose, file extensions and the order of lines are left out; the tables of the fragment
   formats are in Formats. `options` says whether a host is given beside a mod and the grant
   shapes are asked for. *)
EXTENDS Typegen

Page(slug, facts) == [slug |-> slug, facts |-> facts]
Says(what, of, words) == <<what, of, words>>
SaysIf(condition, fact) == IF condition THEN {fact} ELSE {}
Items(v) == Range(ItemsOf(v))
Word1(v, k) == IF IsString(At(v, k)) THEN At(v, k).string ELSE "undefined"
IdOf(v) == Word1(v, "id")
WordOr(v, k, other) == IF NonEmpty(At(v, k)) THEN At(v, k).string ELSE other

-----------------------------------------------------------------------------
(* What is said of one binding. *)

OptionalNote(b, path) == SaysIf(Is(b, "optional"), Says("optional", path, <<>>))
(* A table of the index names a gate; a page also says what grant passes it. *)
GateCell(v, path) == {Says("gate", path, <<c>>) : c \in GateOf(v)}
AccessLabel(mode) == IF mode \in {"read", "write"} THEN mode ELSE mode \o ":"
DescribeCapability(v, path) == {Says("requires", path, <<c, AccessLabel(Capability[c].mode)>> \o ScopeOf(c)) : c \in GateOf(v)}

AccessorSignature(b, path) ==
    {Says("value", path, <<IF At(b, "accessor") = Str("get") THEN "readonly" ELSE "assignable">> \o (IF Has(b, "type") THEN TypeRefToTypeScript(At(b, "type")) ELSE <<"unknown">>))}
AccessorModeText(b, path) == {Says("mode", path, <<IF At(b, "accessor") = Str("get") THEN "read live" ELSE "read and written live">>)}
AppendAccessor(b, path) ==
    SaysIf(NonEmpty(At(b, "deprecated")), Says("deprecated", path, <<>>)) \cup OptionalNote(b, path)
    \cup AccessorSignature(b, path) \cup AccessorModeText(b, path) \cup DescribeCapability(b, path)

(* A callback is explained by how long it lives; one inside a list or a union counts too. *)
RefersToFunction(ref) == HasFunction(Resolved(ref))
CallbackNote(params, path) ==
    {Says("callback", path, <<At(p, "name").string, IF Is(p, "retain") THEN "retained" ELSE "scoped">>) : p \in {q \in Range(params) : RefersToFunction(At(q, "type"))}}
RetainedFieldNote(fields, path) ==
    {Says("callback", path, <<f, "retained">>) : f \in {g \in DOMAIN fields : Is(fields[g], "retain") /\ RefersToFunction(At(fields[g], "type"))}}

IsOptionalParam(p) == Has(p, "default") \/ At(p, "required") = False \/ At(p, "optional") = True
SignatureParams(params) ==
    LET One(p, name, type) == IF Is(p, "variadic") THEN <<"...", name, ":">> \o Wrap(Resolved(At(p, "type")), 2, type) \o <<"[]">>
                              ELSE <<name, IF IsOptionalParam(p) THEN "?:" ELSE ":">> \o type
    IN  JoinText([i \in DOMAIN params |-> One(params[i], At(params[i], "name").string, TypeRefToTypeScript(At(params[i], "type")))], ",")
ParameterRows(params, path) ==
    UNION {LET at == Append(path, At(p, "name").string)
           IN  {Says("parameter", at, <<IF Is(p, "variadic") \/ IsOptionalParam(p) THEN "No" ELSE "Yes">> \o TypeRefToTypeScript(At(p, "type")))}
               \cup SaysIf(Has(p, "default"), Says("default", at, <<At(p, "default")>>))
               \cup SaysIf(Is(p, "variadic"), Says("variadic", at, <<>>)) \cup SaysIf(Is(p, "retain"), Says("retained", at, <<>>)) : p \in Range(params)}

SignatureReturn(b) ==
    LET Awaited(type) == IF Is(b, "async") THEN <<"Promise<">> \o type \o <<">">> ELSE type
        Rendered(declared) == IF declared = Undefined THEN <<"void">> ELSE TypeRefToTypeScript(declared)
    IN  Awaited(Rendered(ReturnTypeRef(At(b, "returns"))))
ReturnsText(b, path) == SaysIf(Has(b, "returns"), Says("returns", path, TypeRefToTypeScript(ReturnTypeRef(At(b, "returns"))) \o (IF Is(b, "async") THEN <<"async">> ELSE <<>>)))

(* What a reader of the page alone must know of a call's cost: nothing where it is the usual. *)
ExecutionNote(m, at, async, path) ==
    LET Told(resolved) == SaysIf(~ IsDefaultIntent(resolved), Says("execution", path, <<resolved.duration, resolved.affinity>>))
                          \cup SaysIf(async, Says("async", path, <<>>)) \cup SaysIf(resolved.duration \in {"long", "unbounded"}, Says("unlimited", path, <<>>))
    IN  Told(ResolveExecutionIntent(m, at))

FunctionFacts(m, b, path) ==
    LET params == ItemsOf(At(b, "params"))
    IN  SaysIf(NonEmpty(At(b, "deprecated")), Says("deprecated", path, <<>>)) \cup OptionalNote(b, path)
        \cup {Says("call", path, <<"(">> \o SignatureParams(params) \o <<")", ":">> \o SignatureReturn(b))}
        \cup ExecutionNote(m, <<"bindings", path>>, Is(b, "async"), path) \cup ParameterRows(params, path) \cup CallbackNote(params, path)
        \cup ReturnsText(b, path) \cup DescribeCapability(b, path)
        \cup {Says("example", path, <<>>) : x \in Items(At(b, "examples"))}
AppendNamespaceMember(m, b, path) == FunctionFacts(m, b, path)

(* A namespace in a namespace is named only where it may be absent. *)
RECURSIVE AppendNamespaceMembers(_, _, _)
AppendNamespaceMembers(m, members, prefix) ==
    UNION {LET b == members[n]
               path == Append(prefix, n)
           IN  IF IsNamespace(b) THEN OptionalNote(b, path) \cup AppendNamespaceMembers(m, FieldsOf(At(b, "members")), path)
               ELSE IF IsAccessor(b) THEN AppendAccessor(b, path) ELSE AppendNamespaceMember(m, b, path) : n \in DOMAIN members}

GenerateAccessorPage(name, b) == Page(<<"bindings", name>>, AppendAccessor(b, <<name>>))
GenerateFunctionPage(name, b, m) == Page(<<"bindings", name>>, FunctionFacts(m, b, <<name>>))
GenerateNamespacePage(name, b, m) == Page(<<"bindings", name>>, OptionalNote(b, <<name>>) \cup AppendNamespaceMembers(m, FieldsOf(At(b, "members")), <<name>>))

-----------------------------------------------------------------------------
(* Types and hooks. *)

EnumFacts(name, def) ==
    {Says("enum", <<name>>, <<v>>) : v \in StringsOf(At(def, "values"))} \cup SaysIf(Is(def, "open"), Says("open", <<name>>, <<>>))
FieldFacts(name, field, f) ==
    LET at == <<name, field>>
        required == IF Has(f, "default") THEN "Yes" ELSE IF Is(f, "optional") THEN "No" ELSE "Yes"
    IN  {Says("field", at, <<required, IF Is(f, "optional") THEN "?:" ELSE ":">> \o TypeRefToTypeScript(At(f, "type")))}
        \cup SaysIf(Has(f, "default"), Says("default", at, <<At(f, "default")>>)) \cup {Says("allowed", at, <<v>>) : v \in Items(At(f, "enum"))}
        \cup SaysIf(Is(f, "retain"), Says("retained", at, <<>>))
GenerateTypePage(name, def) ==
    LET fields == FieldsOf(At(def, "fields"))
    IN  Page(<<"types", name>>,
             IF Has(def, "values") THEN EnumFacts(name, def)
             ELSE UNION {FieldFacts(name, f, fields[f]) : f \in DOMAIN fields} \cup RetainedFieldNote(fields, <<name>>))

(* A slot filled by hooks is a hook: its description and its gate go with it. *)
DocHooks(m) ==
    LET hooks == FieldsOf(At(m, "hooks"))
        slots == SlotsOf(m)
        folded == {i \in DOMAIN slots : HookAccept \in Accepts(slots[i]) /\ IdOf(slots[i]) \notin DOMAIN hooks /\ \A j \in 1..(i - 1) : IdOf(slots[j]) = IdOf(slots[i]) => HookAccept \notin Accepts(slots[j])}
        Slot(n) == slots[CHOOSE i \in folded : IdOf(slots[i]) = n]
    IN  Spread([n \in {IdOf(slots[i]) : i \in folded} |-> Obj(Keep(FieldsOf(Slot(n)), {"description", "capability"}))], hooks)

GenerateHookPage(name, hook, m) ==
    LET params == ItemsOf(At(hook, "params"))
        places == IF PhasesOf(hook) = {} THEN {<<name>>} ELSE {<<name, p>> : p \in PhasesOf(hook)}
    IN  Page(<<"hooks", name>>,
             SaysIf(NonEmpty(At(hook, "deprecated")), Says("deprecated", <<name>>, <<>>)) \cup ExecutionNote(m, <<"hooks", <<name>>>>, Is(hook, "async"), <<name>>)
             \cup {Says("registration", at, <<"(">> \o SignatureParams(params) \o <<")", "=>", "void">>) : at \in places} \cup {Says("phase", <<name>>, <<p>>) : p \in PhasesOf(hook)} \cup ParameterRows(params, <<name>>) \cup DescribeCapability(hook, <<name>>))

(* The page of the fragment proxy: the moments a mod may hook, and what it may do to a fragment. *)
ProxyMethods == [toggle |-> <<"selector", "condition">>, addClass |-> <<"selector", "className">>, removeClass |-> <<"selector", "className">>,
                 setText |-> <<"selector", "text">>, setProp |-> <<"selector", "prop", "value">>, setAttr |-> <<"selector", "attr", "value">>,
                 removeAttr |-> <<"selector", "attr">>, replaceChildren |-> <<"selector", "content">>]
GenerateFragmentAPIPage ==
    Page(<<"fragment-api">>,
         {Says("registration", <<"fragment", l>>, <<"fragmentId">> \o (IF l = "update" THEN <<"bindings", "fragment">> ELSE <<"fragment">>)) : l \in FragmentLifecycles}
         \cup {Says("method", <<n>>, ProxyMethods[n]) : n \in DOMAIN ProxyMethods} \cup {Says("deprecated", <<"setAttr">>, <<>>)})
(* The shapes of a grant flow: the fields each has, needed or not. *)
GrantShapes ==
    [CapabilityPrompt |-> [needed |-> {"capability", "description", "risk", "mod", "requestedScope", "state"}, free |-> {"reason"}],
     InstallDescriptor |-> [needed |-> {"name", "version", "source"}, free |-> {"title", "integrity", "signature", "capabilities", "manifest"}],
     DiscoveryResult |-> [needed |-> {"mods"}, free |-> {"scannedAt"}]]
GenerateGrantShapesPage ==
    Page(<<"capability-grant-shapes">>, UNION {{Says("shape", <<n, f>>, <<IF f \in GrantShapes[n].needed THEN "Yes" ELSE "No">>) : f \in GrantShapes[n].needed \cup GrantShapes[n].free} : n \in DOMAIN GrantShapes})

-----------------------------------------------------------------------------
(* Gates, grouped by what unlocks them. A library's gate is told where libraries are. *)

RECURSIVE BindingRequirements(_, _)
BindingRequirements(bindings, prefix) ==
    UNION {LET b == bindings[n]
               path == Append(prefix, n)
           IN  IF IsNamespace(b) THEN BindingRequirements(FieldsOf(At(b, "members")), path)
               ELSE {[capability |-> c, kind |-> "binding", of |-> path, link |-> <<"bindings", path[1]>>] : c \in GateOf(b)} : n \in DOMAIN bindings}
CollectCapabilityRequirements(m) ==
    LET hooks == FieldsOf(At(m, "hooks"))
        Of(list, kind) == UNION {{[capability |-> c, kind |-> kind, of |-> <<IdOf(v)>>, link |-> <<>>] : c \in GateOf(v)} : v \in Items(At(m, list))}
    IN  BindingRequirements(FieldsOf(At(m, "bindings")), <<>>)
        \cup UNION {{[capability |-> c, kind |-> "hook", of |-> <<n>>, link |-> <<"hooks", n>>] : c \in GateOf(hooks[n])} : n \in DOMAIN hooks}
        \cup Of("slots", "slot") \cup Of("events", "event")

(* A mutated form: only what asks for the capability itself is listed under it. *)
DirectRequirements(name, requirements) == {r \in requirements : r.capability = name}
RequirementsUnder(name, requirements) == {r \in requirements : r.capability = name \/ ScopeSubsumes(ScopeOf(name), ScopeOf(r.capability))}
RequirementsSection(m) ==
    LET all == CollectCapabilityRequirements(m)
    IN  UNION {{Says("unlocks", <<c>> \o r.of, <<r.kind, r.capability>>) : r \in RequirementsUnder(c, all)}
               \cup {Says("link", r.link, <<>>) : r \in {q \in RequirementsUnder(c, all) : q.link # <<>>}} : c \in DOMAIN CapabilityDeclarations(m)}
CapabilitiesSection(m) ==
    LET caps == CapabilityDeclarations(m)
        Depth(c) == IF Len(ScopeOf(c)) > 1 THEN <<"nested", ToString(Len(ScopeOf(c)))>> ELSE <<"top-level">>
    IN  {Says("capability", <<c>>, <<WordOr(caps[c], "risk", "low")>> \o Depth(c)) : c \in DOMAIN caps}
        \cup {Says("instances", <<c>>, <<WordOr(At(caps[c], "instances"), "example", "-")>>) : c \in {d \in DOMAIN caps : Has(caps[d], "instances")}}
        \cup SaysIf(\E c \in DOMAIN caps : Len(ScopeOf(c)) > 1, Says("subsumes", <<>>, <<>>))

-----------------------------------------------------------------------------
(* The sections of the index. *)

SurfaceSection(m) ==
    LET bindings == FieldsOf(At(m, "bindings"))
        Group(b) == IF IsNamespace(b) THEN <<"namespace", ToString(Cardinality(DOMAIN FieldsOf(At(b, "members"))))>> ELSE IF IsAccessor(b) THEN <<"value">> ELSE <<"function">>
    IN  {Says("link", <<"bindings", n>>, <<>>) : n \in DOMAIN bindings} \cup {Says("surface", <<n>>, Group(bindings[n])) : n \in DOMAIN bindings}
HooksSection(m) ==
    LET hooks == FieldsOf(At(m, "hooks"))
    IN  {Says("link", <<"hooks", n>>, <<>>) : n \in DOMAIN hooks} \cup UNION {{Says("phases", <<n>>, <<p>>) : p \in PhasesOf(hooks[n])} : n \in DOMAIN hooks}
GenerateExportsSection(m) ==
    LET exports == ExportsOf(m)
        intent(n) == ResolveExecutionIntent(m, <<"exports", <<n>>>>)
    IN  UNION {{Says("export", <<n>>, <<intent(n).duration, intent(n).affinity>>)} \cup GateCell(exports[n], <<n>>) : n \in DOMAIN exports}
GenerateExecutionSection(m) ==
    LET surfaces == ExecutionSurfaces(m)
    IN  IF (\A s \in surfaces : ~ s.declared) /\ ~ IsObject(At(m, "execution")) THEN {}
        ELSE {Says("intent", <<s.kind>> \o s.name, <<s.resolved.duration, s.resolved.affinity, IF s.declared THEN "Yes" ELSE "inherited">>) : s \in surfaces}

EventDetailLines(e) ==
    SaysIf(Is(e, "pattern"), Says("family", <<IdOf(e)>>, <<>>)) \cup SaysIf(At(e, "emit") = Str("mods"), Says("mods emit", <<IdOf(e)>>, <<>>))
    \cup {Says("addressed", <<IdOf(e)>>, <<a>>) : a \in StringsOf(At(e, "addressed"))} \cup {Says("match", <<IdOf(e)>>, <<k>>) : k \in StringsOf(At(e, "keys"))}
EventsSection(m) ==
    UNION {{Says("event", <<IdOf(e)>>, IF Has(e, "payload") THEN TypeRefToTypeScript(At(e, "payload")) ELSE <<"-">>)} \cup GateCell(e, <<IdOf(e)>>) \cup EventDetailLines(e) : e \in EventsOf(m)}
LibrariesSection(m) ==
    LET libraries == FieldsOf(At(m, "libraries"))
    IN  UNION {{Says("library", <<n>>, <<WordOr(libraries[n], "version", "-")>>)} \cup GateCell(libraries[n], <<n>>)
               \cup SaysIf(NonEmpty(At(libraries[n], "deprecated")), Says("deprecated", <<n>>, <<>>)) : n \in DOMAIN libraries}
TypesSection(m) ==
    LET types == FieldsOf(At(m, "types"))
    IN  {Says("link", <<"types", n>>, <<>>) : n \in DOMAIN types} \cup {Says("type", <<n>>, <<IF Has(types[n], "values") THEN "enum" ELSE "interface">>) : n \in DOMAIN types}

CommandSlots(slots) == SelectSeq(slots, LAMBDA s : IsCommandSlot(s) /\ IsString(At(s, "id")))
(* The deadline a slot declares for calls into it: a column there is only where one declares it. *)
DeclaresBudget(slot) == Has(At(slot, "limits"), "timeout_ms")
BudgetOf(slot) == IF DeclaresBudget(slot) THEN <<ToString(At(At(slot, "limits"), "timeout_ms").number), "ms">> ELSE <<"inherited">>
BudgetCells(slots) == IF \E s \in slots : DeclaresBudget(s) THEN {Says("budget", <<IdOf(s)>>, BudgetOf(s)) : s \in slots} ELSE {}
(* What a host asks of a command: keys it must have, and keys that are only narrowed. *)
FillContract(slot) ==
    LET payload == At(slot, "payload")
        required == StringsOf(At(payload, "required"))
        parts == {<<"requires", k>> : k \in required} \cup {<<"narrows", k>> : k \in DOMAIN FieldsOf(At(payload, "properties")) \ required}
    IN  IF ~ IsObject(payload) THEN {<<"open">>} ELSE IF parts = {} THEN {<<"constrained">>} ELSE parts
GenerateHostCommandsSection(slots) ==
    UNION {{Says("command slot", <<IdOf(s)>>, <<IF Is(s, "multiple") THEN "Yes" ELSE "No">>)} \cup GateCell(s, <<IdOf(s)>>)
           \cup {Says("contract", <<IdOf(s)>>, c) : c \in FillContract(s)} \cup SaysIf(~ Is(s, "multiple"), Says("singular", <<>>, <<>>)) : s \in Range(slots)}
    \cup BudgetCells(Range(slots))
(* Every other slot is listed as a place for fragments; a slot that shares a command slot's id is not. *)
UISlotsSection(m) ==
    LET commands == {IdOf(s) : s \in Range(CommandSlots(SlotsOf(m)))}
        slots == {s \in Range(SlotsOf(m)) : IdOf(s) \notin commands}
        Intent(s) == ResolveExecutionIntent(m, <<"slots", <<IdOf(s)>>>>)
    IN  UNION {{Says("slot", <<IdOf(s)>>, <<IF Is(s, "multiple") THEN "Yes" ELSE "No", WordOr(s, "style", "inherit")>>)} \cup GateCell(s, <<IdOf(s)>>)
               \cup {Says("accepts", <<IdOf(s)>>, <<a>>) : a \in Accepts(s)} : s \in slots}
        \cup (IF \E s \in slots : Has(s, "execution") THEN {Says("execution", <<IdOf(s)>>, <<Intent(s).duration, Intent(s).affinity>>) : s \in slots} ELSE {})
        \cup BudgetCells(slots) \cup SaysIf(slots # {}, Says("link", <<"fragment-api">>, <<>>))

FragmentSlots(m) == {s \in Range(SlotsOf(m)) : Accepts(s) \cap (KnownFormats \cup DOMAIN FieldsOf(At(m, "formats"))) # {}}
GenerateExpressionsSection(m) == {Says("expressions", <<IdOf(s)>>, <<>>) : s \in FragmentSlots(m)}

ProvidesSection(m) ==
    UNION {{Says("role", <<At(r, "role").string>>, <<f, At(r, "fns").fields[f].string>>) : f \in DOMAIN FieldsOf(At(r, "fns"))} : r \in Range(ReadProvides(m))}
HandlersSection(m) ==
    LET Alias(f) == ItemsOf(At(f, "handlers")) = <<>>
        Rows(f) == ItemsOf(IF Alias(f) THEN At(f, "events") ELSE At(f, "handlers"))
    IN  UNION {{Says("handler", f.at, <<Word1(h, "selector"), Word1(h, "on"), Word1(h, "handler")>>) : h \in Range(Rows(f.fill))} \cup SaysIf(Alias(f.fill) /\ Rows(f.fill) # <<>>, Says("deprecated", f.at, <<>>)) : f \in FillsOf(m)}

(* One cell for a schema: its keys, `?` where one may be left out; otherwise the values it lists,
   its type or types, or the schema it refers to. *)
SummarizeSchema(schema) ==
    LET names == FieldsOf(At(schema, "properties"))
        required == StringsOf(At(schema, "required"))
        type == At(schema, "type")
    IN  CASE schema = True -> <<"any">>
          [] schema = False -> <<"never">>
          [] ~ IsObject(schema) -> <<"-">>
          [] DOMAIN names # {} -> <<"keys">> \o SetToSeq({IF n \in required THEN n ELSE n \o "?" : n \in DOMAIN names})
          [] IsList(At(schema, "enum")) -> <<"one of">> \o [i \in DOMAIN ItemsOf(At(schema, "enum")) |-> ToString(ItemsOf(At(schema, "enum"))[i])]
          [] IsString(type) -> <<type.string>>
          [] IsList(type) -> <<"one of">> \o [i \in DOMAIN type.items |-> type.items[i].string]
          [] IsString(At(schema, "$ref")) -> <<At(schema, "$ref").string>>
          [] OTHER -> <<"any">>

(* The commands a mod contributes to the slots its host says take some, or to any slot when no
   host is given: an entry that is no command, claims its own gate or repeats an id is passed over. *)
DocCommands(m, options) ==
    LET fills == FieldsOf(At(m, "fills"))
        heard == IF options.host = Undefined THEN DOMAIN fills ELSE {IdOf(s) : s \in Range(CommandSlots(SlotsOf(options.host)))}
        List(s) == FillEntries(fills[s])
        Counts(f) == LooksLikeCommandFill(f) /\ ~ Has(f, "capability")
        First(s, i) == Counts(List(s)[i]) /\ \A j \in 1..(i - 1) : Counts(List(s)[j]) => At(List(s)[j], "id") # At(List(s)[i], "id")
    IN  UNION {{[slot |-> s, fill |-> List(s)[i]] : i \in {j \in DOMAIN List(s) : First(s, j)}} : s \in DOMAIN fills \cap heard}
(* The gate told with a command: its export's, and otherwise that of the first slot of its id. *)
RequiresOf(m, slots, c) ==
    LET export == IF At(c.fill, "handler").string \in DOMAIN ExportsOf(m) THEN ExportsOf(m)[At(c.fill, "handler").string] ELSE Undefined
        named == SelectSeq(CommandSlots(slots), LAMBDA s : IdOf(s) = c.slot)
    IN  IF Has(export, "capability") THEN GateOf(export) ELSE IF named = <<>> THEN {} ELSE GateOf(named[1])
GenerateModCommandsSection(m, options) ==
    LET slots == SlotsOf(IF options.host = Undefined THEN m ELSE options.host)
    IN  UNION {LET path == <<c.slot, IdOf(c.fill)>>
               IN  {Says("command", path, <<At(c.fill, "handler").string, IF IsString(At(c.fill, "title")) THEN At(c.fill, "title").string ELSE IdOf(c.fill)>>),
                    Says("input", path, SummarizeSchema(At(c.fill, "input"))), Says("output", path, SummarizeSchema(At(c.fill, "output")))}
                   \cup {Says("gate", path, <<g>>) : g \in RequiresOf(m, slots, c)} \cup {Says("bound", path, <<k>>) : k \in DOMAIN FieldsOf(At(c.fill, "args"))}
                   \cup SaysIf(At(c.fill, "exposed") = False, Says("unexposed", path, <<>>)) : c \in DocCommands(m, options)}

(* What heads the index: the name to show and the version, where there is one. *)
Heading(m) == {Says("title", <<>>, <<WordOr(m, "title", Word1(m, "name"))>>)} \cup SaysIf(NonEmpty(At(m, "version")), Says("version", <<>>, <<Word1(m, "version")>>))
GenerateIndexPage(m, options) ==
    Page(<<"index">>,
         Heading(m) \cup SurfaceSection(m) \cup HooksSection(m) \cup GenerateExportsSection(m) \cup GenerateExecutionSection(m) \cup EventsSection(m) \cup LibrariesSection(m)
         \cup TypesSection(m) \cup GenerateHostCommandsSection(CommandSlots(SlotsOf(m))) \cup UISlotsSection(m) \cup GenerateExpressionsSection(m)
         \cup CapabilitiesSection(m) \cup RequirementsSection(m) \cup ProvidesSection(m) \cup GenerateModCommandsSection(m, options) \cup HandlersSection(m))

DocPages(m, hooks, options) ==
    LET bindings == FieldsOf(At(m, "bindings"))
        types == FieldsOf(At(m, "types"))
    IN  {GenerateIndexPage(m, options)}
        \cup {IF IsNamespace(bindings[n]) THEN GenerateNamespacePage(n, bindings[n], m) ELSE IF IsAccessor(bindings[n]) THEN GenerateAccessorPage(n, bindings[n])
              ELSE GenerateFunctionPage(n, bindings[n], m) : n \in DOMAIN bindings}
        \cup {GenerateHookPage(n, hooks[n], m) : n \in DOMAIN hooks} \cup {GenerateTypePage(n, types[n]) : n \in DOMAIN types}
        \cup SaysIf(SlotsOf(m) # <<>>, GenerateFragmentAPIPage) \cup SaysIf(options.grants, GenerateGrantShapesPage)
GenerateDocs(manifest, options) ==
    DocPages(IF DOMAIN DocHooks(manifest) = {} THEN manifest ELSE Obj(Spread(manifest.fields, "hooks" :> Obj(DocHooks(manifest)))), DocHooks(manifest), options)

(* A page is a file under its slug. *)
WriteDocsToDirectory(pages) == [slug \in {p.slug : p \in pages} |-> (CHOOSE p \in pages : p.slug = slug).facts]

-----------------------------------------------------------------------------
PageAt(pages, slug) == CHOOSE p \in pages : p.slug = slug

(* No page overwrites another, and a link of the index leads to one that is written. *)
LinksLead(pages) ==
    LET files == WriteDocsToDirectory(pages)
    IN  /\ Cardinality(DOMAIN files) = Cardinality(pages)
        /\ \A s \in DOMAIN files : \A f \in files[s] : f[1] = "link" => f[2] \in DOMAIN files

(* A declared capability is a scope with no mode; under each of them stand exactly the gates a
   grant of it opens, and a gate told there is told at the place it guards. *)
ScopeOnly(m) == \A c \in DOMAIN CapabilityDeclarations(m) : Capability[c].mode = "write"
GatesTold(m, pages) ==
    LET index == PageAt(pages, <<"index">>).facts
        bindings == {b \in BindingsWithin(FieldsOf(At(m, "bindings")), <<>>) : ~ IsNamespace(b.def)}
        hooks == DocHooks(m)
        sites == {[of |-> Append(b.path, b.name), def |-> b.def, page |-> (<<"bindings">> \o Append(b.path, b.name))] : b \in bindings}
                 \cup {[of |-> <<n>>, def |-> hooks[n], page |-> <<"hooks", n>>] : n \in DOMAIN hooks}
                 \cup {[of |-> <<IdOf(v)>>, def |-> v, page |-> <<"index">>] : v \in Range(SlotsOf(m)) \cup EventsOf(m)}
        On(site) == PageAt(pages, SubSeq(site.page, 1, IF site.page = <<"index">> THEN 1 ELSE 2)).facts
    IN  \A s \in sites : \A c \in GateOf(s.def) :
          /\ \E f \in On(s) : f[1] = (IF s.page = <<"index">> THEN "gate" ELSE "requires") /\ f[2] = s.of /\ f[3][1] = c
          /\ \A d \in DOMAIN CapabilityDeclarations(m) : Satisfies(d, c) <=> \E f \in index : f[1] = "unlocks" /\ f[2] = <<d>> \o s.of /\ f[3][2] = c
(* A slot that hooks fill is documented under its own gate: the host's slot and the hook it is
   told as are one place. *)
FoldedGatesKept(m, pages) ==
    \A s \in Range(SlotsOf(m)) : HookAccept \in Accepts(s) /\ ~ Has(At(m, "hooks"), IdOf(s)) =>
        \A c \in GateOf(s) : \E f \in PageAt(pages, <<"hooks", IdOf(s)>>).facts : f[1] = "requires" /\ f[2] = <<IdOf(s)>> /\ f[3][1] = c
(* The page of a binding and its generated type agree: what may be absent, what is awaited, what
   is read and what is assigned. *)
PagesMatchTypes(m, pages, decls) ==
    \A b \in BindingsWithin(FieldsOf(At(m, "bindings")), <<>>) :
        LET path == Append(b.path, b.name)
            facts == PageAt(pages, <<"bindings", path[1]>>).facts
            typed == {d \in decls : d.of = <<"binding">> /\ d.name = b.name /\ d.scope \in {Global \o b.path, InsideType(Global, "XriptGlobals") \o b.path}}
            Has1(what, words) == \E f \in facts : f[1] = what /\ f[2] = path /\ (words = "" \/ f[3][1] = words)
        IN  \A d \in typed :
              /\ d.maybe <=> Has1("optional", "")
              /\ d.gives = <<"promise">> <=> Has1("async", "")
              /\ d.gives = <<"value">> => (d.kind \in {"const", "readonly"} <=> Has1("value", "readonly"))
              /\ d.gives \in {<<"call">>, <<"promise">>} => \E f \in facts : f[1] = "call" /\ f[2] = path
(* The parameters a page marks as needed are those its types demand. *)
RequiredTold(m, pages) ==
    \A b \in {c \in BindingsWithin(FieldsOf(At(m, "bindings")), <<>>) : ~ IsNamespace(c.def) /\ ~ IsAccessor(c.def)} : \A p \in ParamsOf(b.def) :
        \E f \in PageAt(pages, <<"bindings", Append(b.path, b.name)[1]>>).facts :
            f[1] = "parameter" /\ f[2] = b.path \o <<b.name, At(p, "name").string>> /\ f[3][1] = (IF Is(p, "variadic") \/ IsOptionalParameter(p) THEN "No" ELSE "Yes")
DocsAreTrue(m, pages, decls) ==
    /\ LinksLead(pages) /\ FoldedGatesKept(m, pages) /\ RequiredTold(m, pages)
    /\ ScopeOnly(m) => GatesTold(m, pages)
    /\ PagesMatchTypes(m, pages, decls)

(* A command is told with the gate that will be asked for, and told exactly when the types list it. *)
CommandsTold(mod, pages, decls) ==
    LET index == PageAt(pages, <<"index">>).facts
        listed == {d \in decls : Len(d.scope) > 1 /\ d.scope[Len(d.scope)] = "Catalog"}
        told == {f \in index : f[1] = "command"}
    IN  /\ {<<d.of[1], d.name>> : d \in listed} = {f[2] : f \in told}
        /\ \A f \in told : LET asked == {At(ExportsOf(mod)[n], "capability") : n \in {f[3][1]} \cap DOMAIN ExportsOf(mod)}
                           IN  \A g \in asked : NonEmpty(g) => Says("gate", f[2], <<g.string>>) \in index
=============================================================================
