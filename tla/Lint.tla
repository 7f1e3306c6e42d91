-------------------------------- MODULE Lint --------------------------------
(* The linter (tools/validate/src/lint.ts, manifest-util.ts): what is said of a host manifest and
   of the mods beside it. A finding is <<code, subject>>; its severity goes with its code. The
   fragment formats are audited in Formats and the expressions in ExprLint. *)
EXTENDS ModChecks, Intent

CONSTANT ReservedNames   \* the names that begin with "xript", in any case

IsReservedIdentifier(name) == name \in ReservedNames
BuiltinGlobals == {"events", "hooks", "xript", "console"}
EscalationSegments == {"admin", "shell", "exec", "root", "sudo", "all", "host"}

Errors == {"filled-but-undeclared", "undeclared-capability", "undeclared-type", "reserved-identifier", "generated-accessor-collision",
           "abstract-type-unfilled", "command-fill-capability", "command-missing-handler", "command-invalid-id", "command-duplicate-id",
           "command-args-not-object", "command-unbound-arg", "command-handler-unknown"}
Warnings == {"dynamic-scope-undeclared", "callback-does-not-cross", "binding-shadows-builtin", "dead-slot", "vestigial-capability", "command-slot-singular",
             "command-slot-ungated", "execution-long-no-limits", "execution-long-binding-blocks", "execution-unbounded-in-hook", "capability-escalation"}
Severity(code) == CASE code \in Errors -> "error" [] code \in Warnings -> "warn" [] OTHER -> "info"

-----------------------------------------------------------------------------
(* A host declares capabilities as a record; the list of a mod declares none. *)
CapabilityDeclarations(m) == FieldsOf(At(m, "capabilities"))
ScopeOf(ref) == Capability[ref].scope

(* The nearest declared scope a reference sits below, when it is not itself declared. *)
StrictAncestorOf(declared, ref) ==
    LET above == {c \in declared : IsStrictPrefix(ScopeOf(c), ScopeOf(ref))}
    IN  IF above = {} \/ \E c \in declared : ScopeOf(c) = ScopeOf(ref) THEN {}
        ELSE {CHOOSE c \in above : \A d \in above : Len(ScopeOf(c)) >= Len(ScopeOf(d))}
DeclaredSatisfiesRef(declared, ref) == \E c \in declared : Satisfies(c, ref)

(* The capability something gates on; an empty one gates on nothing. *)
GateOf(v) == IF NonEmpty(At(v, "capability")) THEN {At(v, "capability").string} ELSE {}
RECURSIVE BindingGates(_)
BindingGates(b) == GateOf(b) \cup UNION {BindingGates(n) : n \in Values(At(b, "members"))}
(* A mutated form: only the bindings at the top are looked at. *)
TopLevelGates(host) ==
    UNION {GateOf(s) : s \in Range(SlotsOf(host)) \cup Values(At(host, "libraries")) \cup Values(At(host, "hooks")) \cup Values(At(host, "bindings"))}
GateCapabilities(host) ==
    UNION {GateOf(s) : s \in Range(SlotsOf(host)) \cup Values(At(host, "libraries")) \cup Values(At(host, "hooks"))}
    \cup UNION {BindingGates(b) : b \in Values(At(host, "bindings"))}

-----------------------------------------------------------------------------
(* Every place the host writes a type: parameters, returns and accessors through the namespaces,
   hook parameters, event payloads, and the fields of the declared types. *)
Site(where, ref) == IF ref = Undefined THEN {} ELSE {[where |-> where, ref |-> ref]}
ParamsOf(v) == {p \in Range(ItemsOf(At(v, "params"))) : IsObject(p)}
ParamSites(v, owner) == UNION {Site(Append(owner, At(p, "name")), At(p, "type")) : p \in ParamsOf(v)}
RECURSIVE BindingSites(_, _)
BindingSites(bindings, prefix) ==
    UNION {LET d == At(bindings, name)
               at == Append(prefix, name)
           IN  CASE Has(d, "members") -> BindingSites(At(d, "members"), at)
                 [] ~ Has(d, "members") /\ Has(d, "accessor") -> Site(<<"accessor", at>>, At(d, "type"))
                 [] OTHER -> ParamSites(d, <<"binding", at>>) \cup Site(<<"return", at>>, ReturnTypeRef(At(d, "returns"))) :
           name \in DOMAIN FieldsOf(bindings)}
EventsOf(host) == Range(ItemsOf(At(host, "events")))
TypeRefSites(host) ==
    LET hooks == At(host, "hooks")
        types == At(host, "types")
    IN  BindingSites(At(host, "bindings"), <<>>)
        \cup UNION {ParamSites(hooks.fields[h], <<"hook", h>>) : h \in DOMAIN FieldsOf(hooks)}
        \cup UNION {Site(<<"event", At(e, "id")>>, At(e, "payload")) : e \in EventsOf(host)}
        \cup UNION {LET fields == At(types.fields[t], "fields") IN UNION {Site(<<"field", t, f>>, At(fields.fields[f], "type")) : f \in DOMAIN FieldsOf(fields)} :
                    t \in DOMAIN FieldsOf(types)}
TypeReferences(host) == UNION {TypeRefNames(s.ref) : s \in TypeRefSites(host)}

RECURSIVE CallableParams(_)
CallableParams(bindings) ==
    UNION {IF Has(b, "members") THEN CallableParams(At(b, "members")) ELSE IF Has(b, "accessor") THEN {} ELSE ParamsOf(b) : b \in Values(bindings)}
SpellingFindings(host) ==
    UNION {{<<IF w \in LooseWords THEN "loose-type-word" ELSE "noncanonical-type-spelling", s.where>> : w \in NonCanonicalSpellings(s.ref)} : s \in TypeRefSites(host)}
    \cup {<<"param-optional-alias", At(p, "name")>> : p \in {q \in CallableParams(At(host, "bindings")) \cup UNION {ParamsOf(h) : h \in Values(At(host, "hooks"))} : Has(q, "optional")}}

(* A function outside the parameters of a binding; a hook may be handed a retained one. *)
FunctionTypesOutsideParams(host) ==
    LET hooks == At(host, "hooks")
        Promises(p) == ~ Is(p, "retain") /\ ContainsFunctionType(At(p, "type"))
    IN  {s.where : s \in {t \in TypeRefSites(host) : t.where[1] \in {"accessor", "return", "event"} /\ ContainsFunctionType(t.ref)}}
        \cup UNION {{<<"hook", h, At(p, "name")>> : p \in {q \in ParamsOf(hooks.fields[h]) : Promises(q)}} : h \in DOMAIN FieldsOf(hooks)}

-----------------------------------------------------------------------------
(* The slots a mod fills, in any of the shapes that name one. *)
SlotFillReferences(mod) ==
    DOMAIN FieldsOf(At(mod, "fills")) \cup DOMAIN FieldsOf(At(At(mod, "contributions"), "slots"))
    \cup {At(f, "slot").string : f \in {g \in Range(ItemsOf(At(mod, "fragments"))) : NonEmpty(At(g, "slot"))}}

ModFindings(host, mod) ==
    LET declared == DOMAIN CapabilityDeclarations(host)
        ids == {At(s, "id").string : s \in {t \in Range(SlotsOf(host)) : NonEmpty(At(t, "id"))}}
        asks == DeclaredCapabilities(mod)
        Dynamic(c) == \E parent \in StrictAncestorOf(declared, c) : ~ Has(CapabilityDeclarations(host)[parent], "instances")
    IN  {<<"legacy-shape", At(mod, "name")>> : x \in {k \in {"any"} : Has(mod, "fragments") \/ Has(mod, "contributions")}}
        \cup {<<"filled-but-undeclared", id>> : id \in SlotFillReferences(mod) \ ids}
        \cup {<<"undeclared-capability", c>> : c \in {d \in asks : ~ DeclaredSatisfiesRef(declared, d)}}
        \cup {<<"dynamic-scope-undeclared", c>> : c \in {d \in asks : DeclaredSatisfiesRef(declared, d) /\ Dynamic(d)}}

(* A mutated form: what a namespace's members gate on is not looked at. *)
SurfaceGatesAtTop(host) == {s \in ExecutionSurfaces(host) : s.kind \in {"bindings", "hooks"} /\ Len(s.name) = 1}
SurfaceGates(host) == {s \in ExecutionSurfaces(host) : s.kind \in {"bindings", "hooks"}}
GateFindings(host) ==
    LET declared == DOMAIN CapabilityDeclarations(host)
        Lacks(c) == c # "" /\ ~ DeclaredSatisfiesRef(declared, c)
    IN  {<<"undeclared-capability", c>> : c \in {d \in UNION {GateOf(v) : v \in Range(SlotsOf(host)) \cup EventsOf(host) \cup Values(At(host, "libraries"))}
                                                       \cup UNION {s.capability : s \in SurfaceGates(host)} : Lacks(d)}}

NameFindings(host) ==
    LET types == FieldsOf(At(host, "types"))
        bindings == DOMAIN FieldsOf(At(host, "bindings"))
    IN  {<<"undeclared-type", n>> : n \in TypeReferences(host) \ DOMAIN types}
        \cup {<<"reserved-identifier", n>> : n \in {k \in DOMAIN types \cup bindings : IsReservedIdentifier(k)}}
        \cup {<<"binding-shadows-builtin", n>> : n \in bindings \cap BuiltinGlobals}
        \cup {<<"generated-accessor-collision", n>> : n \in {k \in DOMAIN types : DOMAIN FieldsOf(At(types[k], "fields")) # {} /\ k \o "Accessor" \in DOMAIN types}}

(* What is declared and never used, reserved and inherited declarations aside. *)
UnusedFindings(host, mods, inherited) ==
    LET filled == UNION {SlotFillReferences(m) : m \in mods}
        asked == UNION {DeclaredCapabilities(m) : m \in mods}
        Used(c) == \E r \in GateCapabilities(host) \cup asked : Satisfies(c, r)
        declared == CapabilityDeclarations(host)
    IN  {<<"dead-slot", At(s, "id").string>> : s \in {t \in Range(SlotsOf(host)) :
            NonEmpty(At(t, "id")) /\ At(t, "id").string \notin filled \cup inherited.slots /\ ~ Is(t, "reserved")}}
        \cup {<<"vestigial-capability", c>> : c \in {d \in DOMAIN declared \ inherited.capabilities : ~ Used(d) /\ ~ Is(declared[d], "reserved")}}
        \cup {<<"abstract-type-unfilled", t>> : t \in inherited.abstractTypes}

Undescribed(v) == ~ NonEmpty(At(v, "description"))
TellingFindings(host) ==
    {<<"ungated-slot", At(s, "id")>> : s \in {t \in Range(SlotsOf(host)) : GateOf(t) = {} /\ ~ IsCommandSlot(t)}}
    \cup {<<"undescribed", At(s, "id").string>> : s \in {t \in Range(SlotsOf(host)) : Undescribed(t)}}
    \cup {<<"undescribed", c>> : c \in {d \in DOMAIN CapabilityDeclarations(host) : Undescribed(CapabilityDeclarations(host)[d])}}

(* A declared scope that ends in a word of authority, below one a host would grant broadly. *)
EscalationFindings(declared) ==
    {<<"capability-escalation", c>> : c \in {d \in declared : /\ Len(ScopeOf(d)) > 1 /\ Last(ScopeOf(d)) \in EscalationSegments
                                                             /\ \E a \in declared : IsStrictPrefix(ScopeOf(a), ScopeOf(d))}}

-----------------------------------------------------------------------------
(* Commands: a palette of one, an open one, the defects a load would raise, and what the fills
   leave unsaid. *)
CommandSlotsOf(host) == {s \in Range(SlotsOf(host)) : IsCommandSlot(s) /\ NonEmpty(At(s, "id"))}
CommandFindings(host, mods) ==
    LET FillOf(mod, s) == At(At(mod, "fills"), At(s, "id").string)
        aimed == {<<mod, s>> \in mods \X CommandSlotsOf(host) : FillOf(mod, s) # Undefined}
        Views(p) == CommandFillViews(FillOf(p[1], p[2]))
        OwnersOf(s, id) == {p \in aimed : p[2] = s /\ \E v \in Views(p) : At(v, "id").string = id}
        Uniform(p) == /\ GateOf(p[2]) # {} /\ DeclaredExportNames(p[1]) # {} /\ Views(p) # {}
                      /\ \A v \in Views(p) : At(v, "handler").string \notin DOMAIN ExportCapabilityMap(p[1])
        Ids(s) == UNION {{At(v, "id").string : v \in Views(p)} : p \in {q \in aimed : q[2] = s}}
    IN  {<<"command-slot-singular", At(s, "id")>> : s \in {t \in CommandSlotsOf(host) : ~ Is(t, "multiple")}}
        \cup {<<"command-slot-ungated", At(s, "id")>> : s \in {t \in CommandSlotsOf(host) : GateOf(t) = {}}}
        \cup UNION {{<<d[2], At(p[1], "name")>> : d \in CommandDefects(FillOf(p[1], p[2]), DeclaredExportNames(p[1]))} : p \in aimed}
        \cup UNION {{<<"command-opaque-args", At(v, "id")>> : v \in {w \in Views(p) : ~ IsObject(At(w, "input")) /\ FieldsOf(At(w, "args")) # Empty}} : p \in aimed}
        \cup {<<"command-uniform-authority", At(p[1], "name")>> : p \in {q \in aimed : Uniform(q)}}
        \cup UNION {{<<"command-id-collision", i>> : i \in {j \in Ids(s) : Cardinality(OwnersOf(s, j)) > 1}} : s \in CommandSlotsOf(host)}

-----------------------------------------------------------------------------
(* Declared execution intent. *)
IsNetworkedCapability(gate) == \E c \in gate : Capability[c].scope[1] \in {"net", "fs"}
ExportFills(mod) ==
    UNION {UNION {LET named == Values(At(f, "fns")) \cup {At(f, "handler")}
                  IN  {<<id, n.string>> : n \in {m \in named : IsString(m)}} : f \in {g \in Range(FillEntries(At(At(mod, "fills"), id))) : IsObject(g)}} :
           id \in DOMAIN FieldsOf(At(mod, "fills"))}
ExecutionFindings(host, mods) ==
    LET Takes(s, ds) == s.resolved.duration \in ds
        lasting == {"long", "unbounded"}
        OfSurface(s) ==
          {code \in {"execution-async-instant", "execution-long-no-limits", "execution-long-binding-blocks", "execution-unbounded-in-hook",
                     "execution-pinned-stateless", "execution-missing-on-networked"} :
            CASE code = "execution-async-instant" -> s.kind = "bindings" /\ s.async /\ Takes(s, {"instant"})
              [] code = "execution-long-no-limits" -> s.kind \in {"slots", "hooks"} /\ ~ s.limits /\ Takes(s, lasting)
              [] code = "execution-long-binding-blocks" -> s.kind = "bindings" /\ Takes(s, lasting)
              [] code = "execution-unbounded-in-hook" -> s.kind = "hooks" /\ Takes(s, {"unbounded"})
              [] code = "execution-pinned-stateless" -> s.kind = "bindings" /\ s.resolved.affinity = "pinned" /\ s.capability \subseteq {""} /\ ~ s.hasParams
              [] OTHER -> s.kind = "bindings" /\ ~ s.declared /\ IsNetworkedCapability(s.capability \ {""})}
        Gap(mod, f) == CompareDuration(ResolveExecutionIntent(mod, <<"exports", <<f[2]>>>>).duration, ResolveExecutionIntent(host, <<"slots", <<f[1]>>>>).duration)
    IN  UNION {{<<code, s.name>> : code \in OfSurface(s)} : s \in ExecutionSurfaces(host)}
        \cup UNION {{<<"execution-intent-conflict", f>> : f \in {g \in ExportFills(mod) : Gap(mod, g) >= 2}} : mod \in mods}

-----------------------------------------------------------------------------
(* The whole pass, and how it is counted. *)
Inherits(slots, capabilities, abstractTypes) == [slots |-> slots, capabilities |-> capabilities, abstractTypes |-> abstractTypes]
LintManifests(host, mods, inherited) ==
    UNION {ModFindings(host, m) : m \in mods} \cup GateFindings(host) \cup NameFindings(host)
    \cup {<<"callback-does-not-cross", w>> : w \in FunctionTypesOutsideParams(host)}
    \cup UnusedFindings(host, mods, inherited) \cup TellingFindings(host) \cup SpellingFindings(host) \cup CommandFindings(host, mods)
    \cup EscalationFindings(DOMAIN CapabilityDeclarations(host))
    \cup {<<f[2], f[1]>> : f \in UNION {FragmentFillFindings(m, {}) : m \in mods}} \cup ExecutionFindings(host, mods)
ErrorsIn(findings) == {f \in findings : Severity(f[1]) = "error"}

-----------------------------------------------------------------------------
(* Whatever says `capability` anywhere in a host's surface gates on it. *)
RECURSIVE GatesWithin(_)
GatesWithin(v) == GateOf(v) \cup UNION {GatesWithin(x) : x \in Values(v) \cup Range(ItemsOf(v))}
GatesOf(host) == UNION {GatesWithin(At(host, k)) : k \in DOMAIN FieldsOf(host) \ {"capabilities"}}

(* A gate no declared capability covers is an error, whatever it gates, and nothing else is. *)
GatesAccountedFor(host) ==
    {f[2] : f \in {g \in LintManifests(host, {}, Inherits({}, {}, {})) : g[1] = "undeclared-capability"}}
        = {c \in GatesOf(host) : ~ DeclaredSatisfiesRef(DOMAIN CapabilityDeclarations(host), c)}
=============================================================================
