---------------------------- MODULE MCManifests ----------------------------
(***************************************************************************)
(* Questions put to the parts that read manifests, one a step: the loaders *)
(* of a runtime, the validator, the linter, the score, the generators of   *)
(* types and of documentation. Each is asked over every combination of a   *)
(* few declarations.                                                       *)
(***************************************************************************)
EXTENDS Score, Docgen

CONSTANT Questions   \* what may be asked of each part
VARIABLE asked

Nothing == [about |-> "nothing"]
MCInit == asked = Nothing
PickPart == asked = Nothing /\ \E part \in DOMAIN Questions : asked' = [about |-> "part", part |-> part]
Ask == asked.about = "part" /\ asked' \in Questions[asked.part]
MCNext == PickPart \/ Ask
MCSpec == MCInit /\ [][MCNext]_asked

Bare == [k \in {} |-> True]
One(id, decl) == Obj(id :> decl)
Maybe(k, values) == {Bare} \cup {k :> v : v \in values}
Every(fs) == FoldLeft(LAMBDA acc, f : acc @@ f, Bare, fs)
Host(fs) == Obj(Every(fs))
Word(n) == Str(<<n>>)

MCCapability == ("ui" :> [mode |-> "write", scope |-> <<"ui">>]) @@ ("read:ui" :> [mode |-> "read", scope |-> <<"ui">>])
                @@ ("read:ui.menu" :> [mode |-> "read", scope |-> <<"ui", "menu">>]) @@ ("ui.menu" :> [mode |-> "write", scope |-> <<"ui", "menu">>])
                @@ ("net" :> [mode |-> "write", scope |-> <<"net">>])
MCNameOrder == <<"alpha", "beta", "go", "palette", "panel", "player", "run">>
MCVersions == <<"0.1", "0.2">>
MCPascal == ("go" :> "Go") @@ ("g-o" :> "Go") @@ ("g.o" :> "Go") @@ ("palette" :> "Palette") @@ ("panel" :> "Panel")

-----------------------------------------------------------------------------
(* Chains: a root manifest, two bases, and the ways they refer to each other. *)

Text(x) == Str(x)
WithMarker(f) == Obj(Spread(f, "refines" :> True))
Shape(v) == Obj("fields" :> Obj("a" :> Text(v)))
TypeMaps == {One("T", Shape("1")), One("T", Obj("abstract" :> True)), One("T", WithMarker("fields" :> Obj("b" :> Text("2")))),
             One("T", WithMarker("fields" :> Obj("a" :> Text("2")))), One("U", Shape("1")), One("constructor", Shape("1"))}
SlotEntry(id, v) == [k \in {"id"} |-> Text(id)] @@ ("accepts" :> Text(v))
SlotLists == {Arr(<<Obj(SlotEntry("s", "1"))>>), Arr(<<WithMarker(SlotEntry("s", "2")), Obj(SlotEntry("t", "1"))>>), Arr(<<Obj(SlotEntry("t", "1")), Obj(SlotEntry("s", "2"))>>),
              Arr(<<Obj("accepts" :> Text("1"))>>)}
NodesOf(n, props) == Obj("nodes" :> Obj(n :> props))
Node(p, sink) == Obj("props" :> Obj(p :> Obj("sink" :> Text(sink))))
Refined(v) == WithMarker(v.fields)
BlockMaps == {One("f", NodesOf("n", Node("p", "text"))), One("f", Refined(NodesOf("n", Node("p", "uri")))), One("f", Refined(NodesOf("n", Refined(Node("q", "uri"))))),
              One("f", Refined(NodesOf("o", Node("p", "uri")))), One("g", NodesOf("n", Refined(Node("p", "text")))),
              One("g", NodesOf("constructor", Node("p", "text")))}
Budgets == {Obj("timeout" :> Text("1")), Obj("memory" :> Text("2"))}
Alone(key, values) == {Empty} \cup {key :> v : v \in values}
KindsOfKey == [types |-> TypeMaps, bindings |-> TypeMaps, slots |-> SlotLists, formats |-> BlockMaps, vocabularies |-> BlockMaps, events |-> {Arr(<<>>)}, execution |-> Budgets]

Ref(abs, segs) == [absolute |-> abs, segments |-> segs]
RootPath == <<"host", "app.json">>
BasePath == <<"host", "base.json">>
OtherPath == <<"canon.json">>
ToBase == Ref(FALSE, <<".", "base.json">>)
ToOther == Ref(FALSE, <<"..", "canon.json">>)
Shapes == {[root |-> <<ToBase>>, base |-> <<>>], [root |-> <<ToBase, ToOther>>, base |-> <<>>], [root |-> <<ToBase>>, base |-> <<ToOther>>],
           [root |-> <<Ref(TRUE, <<"host", "base.json">>)>>, base |-> <<ToOther>>], [root |-> <<ToBase>>, base |-> <<ToBase>>],
           [root |-> <<ToBase>>, base |-> <<Ref(FALSE, <<"app.json">>)>>], [root |-> <<ToBase, Ref(FALSE, <<"gone.json">>)>>, base |-> <<>>]}
WithExtends(m, refs) == IF refs = <<>> THEN m ELSE [k \in {"extends"} |-> refs] @@ m
Chain(shape, child, base, other) ==
    (RootPath :> WithExtends(child, shape.root)) @@ (BasePath :> WithExtends(base, shape.base)) @@ (OtherPath :> other)
Chains(keys) == UNION {{[about |-> "chain", key |-> k, files |-> Chain(s, c, b, o)] :
                    s \in Shapes, c, b, o \in Alone(k, KindsOfKey[k])} : k \in keys}

(* Nothing a base declares is dropped or replaced without the child's consent. *)
NothingSilentlyLost ==
    asked.about = "chain" /\ asked.key \in MapKeys \cup {"slots"} =>
        KeptUnlessRefined(asked.files[RootPath], DirOf(RootPath), asked.files, asked.key)

(* The tools know what a manifest inherits. *)
ProvenanceTold ==
    asked.about = "chain" /\ asked.key \in {"slots", "formats", "vocabularies", "types"} =>
        ProvenanceIsTrue(asked.files[RootPath], DirOf(RootPath), asked.files, asked.key)

(* Loaders and tools flatten alike, the execution budgets and inherited names aside. *)
ResolversAgree == asked.about = "chain" => SameManifest(asked.files[RootPath], RootPath, asked.files, {asked.key} \ {"execution"})

-----------------------------------------------------------------------------
(* Type references: atoms, one constructor over them, and another over those. *)

Spelling(ts) == Str(ts)
TypeAtoms == {Word("T"), Word("int"), Word("function"), Spelling(<<"T", "[]">>), Spelling(<<"string", "|", "null">>), Spelling(<<"(", "A", "|", "B", ")", "[]", "?">>), Spelling(<<"A", "|">>), Num(1)}
Param(n, type, more) == Obj([k \in {"name", "type"} |-> IF k = "name" THEN Str(n) ELSE type] @@ more)
Signature(params, returns) == Obj("function" :> Obj(("params" :> Arr(params)) @@ (IF returns = Undefined THEN Bare ELSE "returns" :> returns)))
Over1(refs) == {Obj(k :> r) : k \in {"array", "map", "optional"}, r \in refs}
               \cup {Obj("union" :> Arr(<<a, b>>)) : a, b \in refs}
               \cup {Signature(<<Param("in", r, Bare)>>, Undefined) : r \in refs}
               \cup {Signature(<<>>, r) : r \in refs}
Marks == {Bare, "default" :> Num(1), "required" :> False, "optional" :> True}
ParamLists == {<<Param("a", t, m1), Param("a", u, m2)>> : t \in {Word("T"), Word("function"), Spelling(<<"A", "|", "B">>)}, u \in {Word("T"), Word("function")}, m1 \in Marks, m2 \in Marks \cup {"variadic" :> True}}
TypeRefs == TypeAtoms \cup Over1(TypeAtoms) \cup Over1(Over1({Word("T"), Word("function"), Spelling(<<"A", "|", "B">>)}))
            \cup {Signature(ps, Word("function")) : ps \in ParamLists} \cup Over1({Signature(ps, Undefined) : ps \in ParamLists})
RefQuestions == {[about |-> "type", ref |-> r] : r \in TypeRefs}

(* A rendered type reads as the type the manifest declares, but for the functions left bare. *)
TypesReadBack == asked.about = "type" => RendersItsMeaning(asked.ref)

(* Bindings that take callbacks: bare, optional, inside containers, and on a type that holds itself. *)
Keeps == {Bare, "retain" :> True}
CallbackRefs == {Word("function"), Spelling(<<"function", "?">>), Obj("optional" :> Word("function")), Obj("array" :> Word("function")),
                 Spelling(<<"function", "|", "null">>), Signature(<<>>, Undefined), Word("T"), Spelling(<<"T", "[]">>), Obj("map" :> Obj("optional" :> Word("T")))}
CallbackTypes == {One("T", Obj("fields" :> Obj(("cb" :> Obj(("type" :> c) @@ k)) @@ ("next" :> Obj("type" :> n))))) :
                    c \in {Word("function"), Spelling(<<"(", "function", "?", ")">>), Obj("array" :> Word("function"))}, k \in Keeps, n \in {Word("T"), Obj("array" :> Word("T")), Spelling(<<"T", "|", "null">>)}}
Places == UNION {[1..n -> {"cb", "next", "0"}] : n \in 0..3}
RetainQuestions == {[about |-> "retain", params |-> <<Param("a", Word("T"), Bare), Param("f", r, k @@ v)>>, types |-> t, argument |-> a] :
                       r \in CallbackRefs, k \in Keeps, v \in {Bare, "variadic" :> True}, t \in CallbackTypes, a \in 1..3}
SeenQuestions == {[about |-> "seen", params |-> <<Param("a", r, m1), Param("b", Word("function"), m2)>>] : r \in CallbackRefs, m1, m2 \in Marks}
(* Callbacks are retained where the manifest marks them and refused where it declares functions. *)
CallbacksKept ==
    /\ asked.about = "retain" => \A steps \in Places : RetainedWhereMarked(asked.params, asked.types, asked.argument, steps)
    /\ asked.about = "seen" => \A seen \in [1..2 -> {"function", "null", "undefined", "object"}] : RefusedAsDeclared(asked.params, seen)

-----------------------------------------------------------------------------
(* Mods and the hosts they are for: one fill or two of a slot of each kind. *)

Slot(id, accepts, gate) == Obj(("id" :> Str(id)) @@ ("accepts" :> Arr(<<Str(accepts)>>)) @@ (IF gate = "" THEN Bare ELSE "capability" :> Str(gate)))
SlotHost(slots) == Obj(("slots" :> Arr(slots)) @@ ("capabilities" :> One("ui", Obj(Empty))))
CommandFills == {Obj(h @@ i @@ a @@ c) : h \in Maybe("handler", {Str("run"), Str("")}), i \in Maybe("id", {Str("go"), Str("GO")}),
                    a \in {Bare, "args" :> Str("x"), ("args" :> One("a", Num(1))) @@ ("input" :> Obj(("additionalProperties" :> False) @@ ("properties" :> Obj(Empty))))},
                    c \in Maybe("capability", {Str("ui")})}
FragmentFills == {Obj(("format" :> Str(f)) @@ ("source" :> Str(s)) @@ m) : f \in {"html", "toml"}, s \in {"<b>", "a.html", "<bad"},
                    m \in {Bare, "inline" :> True, "events" :> Arr(<<>>)}}
Named(i, more) == Obj(("handler" :> Str("run")) @@ ("id" :> Str(i)) @@ more)
FewCommands == {Named("go", Bare), Named("run", Bare), Named("GO", Bare), Named("go", "args" :> Str("x"))}
FewFragments == {Obj(("format" :> Str("html")) @@ ("source" :> Str("<b>")) @@ m) : m \in {Bare, "inline" :> True}}
Pairs(fills, few) == {<<f>> : f \in fills} \cup {<<f, g>> : f, g \in few}
Entry(exports) == Obj(("script" :> Str("main.js")) @@ ("exports" :> exports))
Mod(caps, entry, id, fills) == Obj(("xript" :> Str("0.2")) @@ ("name" :> Str("alpha")) @@ ("version" :> Str("1")) @@ ("entry" :> entry)
                                   @@ ("capabilities" :> Arr(caps)) @@ ("fills" :> One(id, Arr(fills))))
ExportMaps == {Obj(Empty), One("run", Obj(Empty)), One("run", Obj("capability" :> Str("ui.menu")))}
SlotGates == {"", "read:ui"}
CommandPairs == {[about |-> "mod", host |-> SlotHost(<<Slot("palette", "command", g)>>), mod |-> Mod(c, Entry(x), "palette", f)] :
                    g \in SlotGates, c \in {<<>>, <<Str("ui")>>, <<Str("read:ui.menu")>>}, x \in ExportMaps, f \in Pairs(CommandFills, FewCommands)}
FragmentPairs == {[about |-> "mod", host |-> SlotHost(<<Slot("panel", "html", g)>>), mod |-> Mod(c, Entry(Obj(Empty)), s, f)] :
                    g \in SlotGates, c \in {<<>>, <<Str("ui")>>}, s \in {"panel", "palette"}, f \in Pairs(FragmentFills, FewFragments)}
RoleFills == {Obj(f) : f \in Maybe("fns", {Obj(Empty), One("q", Str("run")), One("q", Num(1))})}
HookFills == {Obj(f) : f \in Maybe("handler", {Str("run"), Str("")})}
OwnIdFills == {Obj(("format" :> Str("html")) @@ ("source" :> Str("<b>")) @@ ("id" :> Str(i))) : i \in {"go", ""}}
KindPairs(s, kind, fills) == {[about |-> "mod", host |-> SlotHost(<<Slot(s, kind, g)>>), mod |-> Mod(<<Str("ui")>>, e, s, f)] :
                    g \in SlotGates, e \in {Entry(Obj(Empty)), Obj("script" :> Str("")), Arr(<<>>)}, f \in Pairs(fills, fills)}
OtherPairs == KindPairs("palette", "role", RoleFills) \cup KindPairs("GO", "role", RoleFills) \cup KindPairs("panel", "hook", HookFills) \cup KindPairs("panel", "html", OwnIdFills)
(* What the validator passes, the runtime loads, but for what neither schema nor cross-check asks. *)
CleanLoads == asked.about = "mod" => CleanMeansLoads(asked.mod, asked.host) /\ SameMarkupWarnings(asked.mod, asked.host, {"a.html"})

(* Three mods with a command or a fragment each, loaded in any order. *)
Loaded(name, contributions, roles) == [name |-> name, fragments |-> contributions, provides |-> roles, commands |-> contributions]
Offer(mod, id, slot, priority) == [mod |-> mod, id |-> id, slot |-> slot, priority |-> priority]
Offers(mod) == {<<>>} \cup {<<Offer(mod, i, s, p)>> : i \in {"go", "run"}, s \in {"palette"}, p \in {0, 1}}
Wide(slot, many) == Obj(Spread(slot.fields, [k \in {"multiple"} |-> many]))
LoadQuestions == {[about |-> "load", host |-> SlotHost(<<Wide(Slot("palette", "command", ""), m), Slot("panel", "html", "")>>), preferences |-> f,
                   mods |-> <<Loaded("alpha", a, {"palette"}), Loaded("beta", b, r), Loaded("player", c, {})>>] :
                      a \in Offers("alpha"), b \in Offers("beta"), c \in Offers("player"), m \in {True, False}, r \in {{}, {"palette"}}, f \in {"go" :> "beta", "palette" :> "beta"}}
References == [id : {"go", "run"}, mod : {"", "alpha"}]
(* The order mods were loaded in shows neither in the fragments nor in the commands of a slot, nor in
   who provides a role (fragment.ts, roles.ts, commands.ts); hooks do run in load order, and are
   not asked about. *)
LoadOrderInvisible == asked.about = "load" => OrderOfLoadIsInvisible(asked.mods, asked.host, References, asked.preferences)

(* The errors a run of the schema reports: the alternatives of a oneOf, and what stands beside it. *)
ErrorAt(path, keyword, branch) == [path |-> path, keyword |-> keyword, branch |-> branch]
SchemaErrors == {ErrorAt(<<>>, "unevaluatedProperties", 0), ErrorAt(<<>>, "required", 0), ErrorAt(<<"a">>, "oneOf", 0), ErrorAt(<<"a">>, "type", 1),
                 ErrorAt(<<"a">>, "type", 2), ErrorAt(<<"a", "b">>, "oneOf", 2), ErrorAt(<<"a", "b">>, "type", 3), ErrorAt(<<"a", "b">>, "unevaluatedProperties", 4)}
(* The same at the top, where an overlay may offer alternatives beside the keys nothing evaluates. *)
TopErrors == {ErrorAt(<<>>, "unevaluatedProperties", 0), ErrorAt(<<>>, "oneOf", 0), ErrorAt(<<>>, "required", 0), ErrorAt(<<>>, "required", 1), ErrorAt(<<"a">>, "oneOf", 0)}
ErrorQuestions == {[about |-> "errors", errors |-> e] : e \in UNION {[1..n -> SchemaErrors] \cup [1..n -> TopErrors] : n \in 1..4}}
(* Only a stray key can hide a failure, and only from a oneOf at the top. *)
VerdictsStand == asked.about = "errors" => VerdictStands(asked.errors)

-----------------------------------------------------------------------------
(* Versions and schemas: a host or a mod that names a schema, a version, both or neither, and the
   world an overlay is looked for in; the schemas differ in which one the manifest fails. *)
MCVersionLines == ("v0.1" :> "0.1") @@ ("0.1.7" :> "0.1")
MCSchemaUrls == ("ours" :> [kind |-> "manifest", version |-> "0.1"]) @@ ("ours-mod" :> [kind |-> "mod-manifest", version |-> "0.1"])
                @@ ("ours-latest" :> [kind |-> "manifest", version |-> ""]) @@ ("ours-old" :> [kind |-> "manifest", version |-> "0.0"])
                @@ [u \in {"remote", "local"} |-> [kind |-> u, version |-> ""]]
Worlds == [cached : BOOLEAN, restricted : BOOLEAN, transport : BOOLEAN, fetched : BOOLEAN, writable : BOOLEAN, readable : BOOLEAN]
Offline == [cached |-> FALSE, restricted |-> FALSE, transport |-> FALSE, fetched |-> FALSE, writable |-> FALSE, readable |-> FALSE]
SchemaRuns == {[schema \in ({"manifest", "mod-manifest"} \X {"0.1", "0.2"}) \cup {Overlay} |->
                  [schema |-> Obj(c @@ i), errors |-> IF schema[2] \in failing THEN <<ErrorAt(<<>>, "required", 0)>> ELSE <<>>, stray |-> TRUE]] :
                      failing \in {{"0.1"}, {"0.2"}, {"", "0.2"}}, c \in Maybe("unevaluatedProperties", {False}), i \in Maybe("$id", {Str("id")})}
Versioned(urls, more) == {Obj(s @@ f @@ more) : s \in Maybe("$schema", {Str(u) : u \in urls}), f \in Maybe("xript", {Str("0.1.7"), Str("0.2"), Str("0.0")})}
Asked(manifests, kinds, versions, worlds) ==
    {[about |-> "schema", manifest |-> m, kind |-> k, explicit |-> v, world |-> w, runs |-> r] :
        m \in manifests, k \in kinds, v \in versions, w \in worlds, r \in SchemaRuns}
Bindings == "bindings" :> Obj(Empty)
SchemaQuestions ==
    Asked(Versioned({"ours", "ours-mod", "ours-latest", "ours-old"}, Bindings) \cup Versioned({"ours-mod"}, "entry" :> Str("main.js")),
          {"", "app", "mod"}, {"", "v0.1", "0.0"}, {Offline})
    \cup Asked(Versioned({"remote", "local"}, Bindings), {""}, {"", "0.0"}, Worlds)
SchemasTold ==
    asked.about = "schema" => SchemaIsTold(asked.manifest, asked.kind, asked.explicit, asked.world, Worlds, asked.runs)

(* Entries of every shape, and what lies where they point. *)
Entries == {Str("main.js"), Arr(<<Str("main.js"), Str("b.js")>>)}
           \cup {Obj(s @@ f @@ x) : s \in Maybe("script", {Str("main.js"), Str("")}), f \in Maybe("format", {Str("script"), Str("module")}), x \in Maybe("exports", {One("run", Obj(Empty))})}
Sources == [readable : BOOLEAN, commonjs : BOOLEAN, imports : BOOLEAN, exports : SUBSET {"run"}]
EntryQuestions == {[about |-> "entry", manifest |-> Obj("entry" :> e), source |-> s, runs |-> r] : e \in Entries, s \in Sources, r \in SchemaRuns}
EntriesChecked == asked.about = "entry" => EntryIsChecked(asked.manifest, Offline, asked.runs, asked.source)

-----------------------------------------------------------------------------
(* Gates: a capability asked for here or there, some of them declared. *)
Gated(g) == IF g = "none" THEN Bare ELSE "capability" :> Str(g)
Gates == {"none", "", "ui", "read:ui", "ui.menu"}
Few == {"none", "ui.menu"}
SlotOf(id, accepts, more) == Obj(("id" :> Str(id)) @@ ("accepts" :> Arr(<<Str(accepts)>>)) @@ more)
GateHosts == {Host(<<"capabilities" :> Obj([c \in caps |-> Obj(Empty)]),
                     "slots" :> Arr(<<SlotOf("panel", k, Gated(s))>>), "events" :> Arr(<<Obj(("id" :> Str("go")) @@ Gated(e))>>),
                     "libraries" :> One("lib", Obj(Gated(l))), "hooks" :> One("go", Obj(Gated(h))),
                     "bindings" :> Obj(("top" :> Obj(Gated(b))) @@ ("space" :> Obj("members" :> Obj(("in" :> Obj(Gated(n))) @@ ("deep" :> Obj("members" :> One("x", Obj(Gated(d)))))))))>>) :
                caps \in {{}, {"ui"}, {"read:ui", "ui.menu"}}, s, n \in Gates, e, l, h, b, d \in Few, k \in {"html", "hook"}}
GateQuestions == {[about |-> "gates", host |-> h] : h \in GateHosts}
(* A gate no declared capability covers is an error wherever it stands, and nothing else is. *)
GatesAccounted == asked.about = "gates" => GatesAccountedFor(asked.host)

-----------------------------------------------------------------------------
(* Intent: what a host and a mod say of one call, and what the caller says. *)
Intents == {NoIntent} \cup {d @@ a : d \in {<<>>} \cup {"duration" :> x : x \in Range(DurationOrder)}, a \in {<<>>} \cup {"affinity" :> x : x \in Range(AffinityOrder)}}
Saying(i) == IF i = NoIntent THEN Bare ELSE "execution" :> Obj([k \in DOMAIN i |-> Str(i[k])])
IntentHost(wide, own) == Host(<<Saying(wide), "slots" :> Arr(<<SlotOf("panel", "html", Saying(own)), SlotOf("panel", "html", Bare)>>)>>)
IntentMod(wide, own) == Host(<<Saying(wide), "entry" :> Obj("exports" :> One("go", Obj(Saying(own))))>>)
FewIntents == {NoIntent, "duration" :> "instant", "affinity" :> "isolated", ("duration" :> "unbounded") @@ ("affinity" :> "pinned")}
IntentQuestions == {[about |-> "intent", host |-> IntentHost(w, o), mod |-> IntentMod(v, p), callSite |-> c] : w, v \in FewIntents, c \in {NoIntent, "duration" :> "instant"}, o, p \in Intents}
(* A call runs as its caller says, and otherwise as neither side is weakened by the other. *)
NobodyWeakened ==
    asked.about = "intent" =>
        LET slot == ResolveExecutionIntent(asked.host, <<"slots", <<"panel">>>>)
            export == ResolveExecutionIntent(asked.mod, <<"exports", <<"go">>>>)
            inForce == ResolveInvokeIntent(asked.host, asked.mod, "panel", "go", asked.callSite)
        IN  IF asked.callSite # NoIntent THEN \A k \in DOMAIN asked.callSite : inForce[k] = asked.callSite[k]
            ELSE /\ AtLeast(inForce, slot) /\ AtLeast(inForce, export)
                 /\ NeitherIsWeakened(DeclaredExecutionIntent(asked.host, <<"slots", <<"panel">>>>), DeclaredExecutionIntent(asked.mod, <<"exports", <<"go">>>>))

-----------------------------------------------------------------------------
(* Scores: a host before and after its surface changed. *)
Declaring == {Bare, Saying("duration" :> "long")}
ScoreHosts == {Host(<<c, s, b, e>>) : c \in Maybe("capabilities", {One("ui", Obj(Empty))}), e \in Maybe("events", {Arr(<<>>), Arr(<<Obj("id" :> Str("go"))>>)}),
                      s \in Maybe("slots", {Arr(<<SlotOf("panel", "command", m @@ g @@ i)>>) : m \in Maybe("multiple", {True}), g \in {Gated("ui"), Gated("none")}, i \in Declaring}),
                      b \in Maybe("bindings", {Obj(("go" :> Obj(i)) @@ j) : i \in Declaring, j \in Maybe("run", {Obj(Empty)})})}
ScoreQuestions == {[about |-> "score", before |-> a, after |-> b] : a \in {h \in ScoreHosts : ~ Has(h, "events")}, b \in ScoreHosts}
Scored(host) == ScoreManifests(host, {}, {}, Inherits({}, {}, {}))
(* A diff of two scores says which way a host went. *)
DiffsTellTheTruth ==
    asked.about = "score" => \A scores \in {[at \in {"before", "after"} |-> Scored(asked[at])]} : DiffTellsTheTruth(scores.before, scores.after)

-----------------------------------------------------------------------------
(* Generated types: a namespace of each shape, and hosts with names that are hard to keep apart. *)
Fn(more) == Obj(("params" :> Arr(<<Obj(("name" :> Str("x")) @@ ("type" :> Word("T")))>>)) @@ more)
Defaulted == Obj("params" :> Arr(<<Obj(("name" :> Str("x")) @@ ("type" :> Word("T")) @@ ("default" :> True)), Obj(("name" :> Str("y")) @@ ("type" :> Word("function")) @@ ("retain" :> True))>>))
Leaves == {Fn(Bare), Defaulted, Fn("optional" :> True), Fn("async" :> True)} \cup {Obj(("accessor" :> Str(a)) @@ ("type" :> Word("string")) @@ o) : a \in {"get", "get-set"}, o \in Maybe("optional", {True})}
Space(members, o) == Obj(("members" :> Obj(members)) @@ o)
Names == {"run", "delete"}
Spaces == {Space(n :> l, o) : n \in Names, l \in Leaves, o \in Maybe("optional", {True})}
Trees == Leaves \cup Spaces \cup {Space((n :> s) @@ ("run" :> l), o) : n \in Names \cup {"in-"}, s \in Spaces, l \in {Fn(Bare), Fn("optional" :> True)}, o \in Maybe("optional", {True})}
TypesOf(names) == Obj([n \in names |-> IF n = "E" THEN Obj("values" :> Arr(<<Str("a")>>)) ELSE Obj("fields" :> One("f", Obj("type" :> Word("E"))))])
BindingHosts == {Host(<<"types" :> TypesOf({"T", "E"}), "bindings" :> One(n, t)>>) : n \in {"T", "delete"}, t \in Trees}
NameHosts == {Host(<<"types" :> TypesOf(ts), "bindings" :> One(b, Fn(Bare)), h, s, e>>) :
                ts \in {{}, {"T", "E"}, {"T", "E", "TAccessor"}, {"T", "XriptSlot"}, {"T", "Exports"}}, b \in {"go", "hooks", "events", "xript", "XriptGlobals"},
                h \in Maybe("hooks", {One(n, Fn(p)) : n \in {"go", "delete", "fragment"}, p \in Maybe("phases", {Arr(<<Str("pre")>>)})}),
                s \in Maybe("slots", {Arr(<<SlotOf(i, k, Bare), SlotOf("panel", "command", Bare)>>) : i \in {"go", "g-o", "panel"}, k \in {"hook", "command"}}
                                     \cup {Arr([i \in 1..3 |-> SlotOf(<<"go", "g-o", "g.o">>[i], "command", Bare)])}),
                e \in Maybe("events", {Arr(<<Obj(("id" :> Str("go")) @@ p @@ a)>>) : p \in Maybe("payload", {Word("T"), Word("E"), Obj("map" :> Word("T"))}), a \in Maybe("addressed", {Arr(<<Str("go.<x>")>>)})})}
Options == {[ambient |-> a, intent |-> TRUE, grants |-> TRUE, host |-> Undefined] : a \in BOOLEAN}
TypeQuestions == {[about |-> "types", host |-> h] : h \in BindingHosts \cup NameHosts}
ModHosts == {Host(<<"types" :> TypesOf({"T", "E"}), "slots" :> Arr(<<SlotOf("panel", "html", Bare), SlotOf("palette", k, Gated("ui.menu"))>>)>>) : k \in {"command", "html"}}
Wired == Obj(("selector" :> Str(".go")) @@ ("on" :> Str("click")) @@ ("handler" :> Str("run")))
SomeFills == {Obj(i @@ h @@ b @@ w) : i \in Maybe("id", {Str("go"), Str("g-o")}), h \in Maybe("handler", {Str("run")}), w \in Maybe("handlers", {Arr(<<Wired>>)}),
                     b \in Maybe("bindings", {Arr(<<Obj(("name" :> Str("x")) @@ ("type" :> Str(t)))>>) : t \in {"T", "string"}})}
Modded == {Host(<<"fills" :> Obj(("panel" :> Arr(<<f>>)) @@ ("palette" :> g)), "entry" :> Obj("exports" :> One("run", Fn(x)))>>) :
              f \in SomeFills, g \in {Arr(<<>>)} \cup {Arr(<<h>>) : h \in SomeFills}, x \in {Bare, "returns" :> Word("E"), "returns" :> Word("U"), Gated("ui")}}
ModTypeQuestions == {[about |-> "modtypes", host |-> h, mod |-> m] : h \in ModHosts, m \in Modded}
(* What is asked about: a mod in the world of its host, or a host by itself. *)
OfAMod == asked.about = "modtypes"
Subject == IF OfAMod THEN asked.mod ELSE asked.host
Asking(grants) == [ambient |-> OfAMod, intent |-> TRUE, grants |-> grants, host |-> IF OfAMod THEN asked.host ELSE Undefined]
(* What the linter passes compiles, for a host and for a mod, and types every binding as what it is. *)
TypesCompile ==
    asked.about \in {"types", "modtypes"} =>
        \A o \in IF OfAMod THEN {Asking(TRUE)} ELSE Options : \A decls \in {GenerateTypes(Subject, o)} :
            /\ CleanCompiles(IF OfAMod THEN asked.mod ELSE NoMod, asked.host, decls)
            /\ ~ OfAMod => SurfaceIsTyped(asked.host, decls)

(* The documentation of a host and of a mod says what is so. *)
DocsTellTheTruth ==
    asked.about \in {"gates", "types", "modtypes"} =>
        \A pages \in {GenerateDocs(Subject, Asking(~ OfAMod))}, decls \in {GenerateTypes(Subject, Asking(~ OfAMod))} :
            IF OfAMod THEN CommandsTold(asked.mod, pages, decls) ELSE DocsAreTrue(asked.host, pages, decls)

-----------------------------------------------------------------------------
(* What the run checks, the parts above put together. *)

(* A chain of manifests is flattened without loss, and alike by the runtime (extends.ts) and by
   the tools (resolve.ts), which know what was inherited; but for `execution`, which the runtime
   replaces, and a name every object inherits, which the tools alone may refuse. *)
ChainsFlatten == NothingSilentlyLost /\ ResolversAgree /\ ProvenanceTold
(* The runtime does as a manifest that passed the validator says: its mods load, its callbacks are
   retained where they are marked and refused where they are no functions, and a call runs under
   an intent that weakens neither side's. Not every mod that passes loads: see Unpoliced. *)
RuntimeKeepsItsWord == CleanLoads /\ CallbacksKept /\ NobodyWeakened
(* What is generated for a host or a mod that passes is TypeScript that compiles, and gives each
   reference and each binding the type the manifest declares, but for an optional function before
   a required parameter, which is left without its parentheses. *)
TypesHold == TypesReadBack /\ TypesCompile
(* What the tools report is so: a gate no capability covers, a schema's verdict made readable, the
   schema it comes from, the entry beside a mod, the way a score went, and every line of the
   documentation; but for a failure that a stray key at the root hides (StrayKeyWins). *)
ReportsHold == GatesAccounted /\ VerdictsStand /\ SchemasTold /\ EntriesChecked /\ DiffsTellTheTruth /\ DocsTellTheTruth

-----------------------------------------------------------------------------
MCQuestions == [refs |-> RefQuestions, retain |-> RetainQuestions \cup SeenQuestions, chain |-> Chains(DOMAIN KindsOfKey), mod |-> CommandPairs \cup FragmentPairs \cup OtherPairs,
                load |-> LoadQuestions, errors |-> ErrorQuestions, schema |-> SchemaQuestions, entry |-> EntryQuestions,
                gates |-> GateQuestions, intent |-> IntentQuestions, score |-> ScoreQuestions, types |-> TypeQuestions, mods |-> ModTypeQuestions]
=============================================================================
