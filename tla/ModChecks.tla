----------------------------- MODULE ModChecks -----------------------------
(* What the validator says of a manifest (tools/validate/src/core.ts, commands.ts, fills.ts):
   the schema's own errors, made readable; the rules the schema cannot state; and a mod's fills
   against the host they are for. Ajv is external: its run is the list of the errors it reports. *)
EXTENDS ModFills, TypeRef

CONSTANTS
    BrokenSources,    \* inline sources the sanitizer refuses
    MarkupSources,    \* the sources that read as markup
    SpeaksVersions,   \* the manifest versions the toolchain has a schema for, oldest first
    VersionLines,     \* the version lines that other spellings of a version name
    SchemaUrls        \* what a `$schema` is: [kind, version], ours by its kind, "remote" or "local"

(* An Ajv error: where, what rule, which alternative of a oneOf it came from. *)
Under(e, path) == IsPrefix(path, e.path)

(* A mutated form: the oneOf goes, whether or not anything explains it. *)
CollapseAway(errors) == {errors[i] : i \in {j \in DOMAIN errors : errors[j].keyword # "oneOf" /\ errors[j].path # <<>>}}

(* Of every failed oneOf, deepest first, keep the alternative that came closest: the errors below
   its path when there are some, otherwise those of the alternative with the fewest. The oneOf
   itself goes when an error is left to explain it. *)
CollapseOneOf(errors) ==
    LET metas == SetToSortSeq({i \in DOMAIN errors : errors[i].keyword = "oneOf"},
                              LAMBDA i, j : Len(errors[i].path) > Len(errors[j].path) \/ (Len(errors[i].path) = Len(errors[j].path) /\ i < j))
        Step(kept, meta) ==
          LET p == errors[meta].path
              under == {i \in kept : errors[i].keyword # "oneOf" /\ Under(errors[i], p)}
              direct == {i \in under : errors[i].path = p}
              Branch(i) == {j \in direct : errors[j].branch = errors[i].branch}
              FirstOf(i) == CHOOSE j \in Branch(i) : \A k \in Branch(i) : j <= k
              Closer(i, j) == Cardinality(Branch(i)) < Cardinality(Branch(j)) \/ (Cardinality(Branch(i)) = Cardinality(Branch(j)) /\ FirstOf(i) <= FirstOf(j))
              drop == IF under # direct THEN direct ELSE {i \in direct : \E j \in direct : ~ Closer(i, j)}
          IN  IF meta \notin kept THEN kept
              ELSE (kept \ drop) \ (IF under \ drop # {} THEN {meta} ELSE {})
        kept == FoldLeft(Step, DOMAIN errors, metas)
    IN  {errors[i] : i \in kept}

(* A key nothing evaluated at the top is a warning: a runtime ignores it. *)
TopLevelUnknown(e) == e.keyword = "unevaluatedProperties" /\ e.path = <<>>
DemoteUnknownTopLevelKeys(errors) == [errors |-> {e \in errors : ~ TopLevelUnknown(e)}, warnings |-> {e \in errors : TopLevelUnknown(e)}]

(* A schema that leaves its top level open is closed by a wrapper, so the keys nothing evaluated
   are reported; one that closes itself, or has no name to refer to it by, is taken as it is. *)
TopLevelCloses(schema) == Has(schema, "unevaluatedProperties") \/ Has(schema, "additionalProperties")
WrapsSchema(schema) == ~ TopLevelCloses(schema) /\ Has(schema, "$id")
StrayKey == [path |-> <<>>, keyword |-> "unevaluatedProperties", branch |-> 0]
(* The errors of a run: what the schema reports of the manifest, and its stray key if it is closed. *)
ErrorsOfRun(run) == run.errors \o (IF run.stray /\ WrapsSchema(run.schema) THEN <<StrayKey>> ELSE <<>>)

-----------------------------------------------------------------------------
(* What a schema cannot say. *)

Is(v, k) == At(v, k) = True
ParameterListErrors(params) ==
    UNION {{code \in {"variadic-position", "optional-required-conflict", "retain-not-function"} :
        LET p == ItemsOf(params)[i]
        IN  CASE code = "variadic-position" -> Is(p, "variadic") /\ i # Len(params.items)
              [] code = "optional-required-conflict" -> IsBoolean(At(p, "optional")) /\ At(p, "optional") = At(p, "required")
              [] OTHER -> Is(p, "retain") /\ ~ IsFunctionTyped(At(p, "type"))} : i \in {j \in DOMAIN ItemsOf(params) : IsObject(ItemsOf(params)[j])}}

Values(v) == {FieldsOf(v)[k] : k \in DOMAIN FieldsOf(v)}
TypeFieldErrors(types) ==
    {"retain-not-function" : f \in {g \in UNION {Values(At(t, "fields")) : t \in Values(types)} : Is(g, "retain") /\ ~ IsFunctionTyped(At(g, "type"))}}

RECURSIVE BindingParamErrors(_)
BindingParamErrors(bindings) ==
    UNION {IF Has(b, "members") THEN BindingParamErrors(At(b, "members")) ELSE ParameterListErrors(At(b, "params")) : b \in Values(bindings)}
ValidateParameterLists(m) ==
    BindingParamErrors(At(m, "bindings")) \cup TypeFieldErrors(At(m, "types"))
    \cup UNION {ParameterListErrors(At(d, "params")) : d \in Values(At(m, "hooks")) \cup Range(ExportsOf(m))}

(* Warnings: a field's enum of another type, the old spelling of J5ML, the old contribution keys. *)
TypeOfScalar(v) == CASE IsString(v) -> "string" [] IsNumber(v) -> "number" [] IsBoolean(v) -> "boolean" [] OTHER -> "other"
ValidateFieldEnums(m) ==
    {"enum-type-mismatch" : f \in {g \in UNION {Values(At(t, "fields")) : t \in Values(At(m, "types"))} :
        /\ At(g, "type") \in {Str(<<"string">>), Str(<<"number">>), Str(<<"boolean">>)}
        /\ \E v \in Range(ItemsOf(At(g, "enum"))) : TypeOfScalar(v) # At(g, "type").string[1]}}
ValidateDeprecatedJ5mlSpellings(m) ==
    {"deprecated" : s \in {t \in Range(SlotsOf(m)) : "jsml" \in Accepts(t)} \cup {f \in Values(At(m, "formats")) : At(f, "syntax") = Str("jsml")}}
ValidateLegacyContributionShapes(m) == {k \in {"fragments", "contributions"} : Has(m, k)}

ReadProvides(m) == ItemsOf(At(At(m, "contributions"), "provides"))
ValidateProviderRoles(m) ==
    {"duplicate-role" : i \in {j \in DOMAIN ReadProvides(m) : /\ IsString(At(ReadProvides(m)[j], "role"))
                                                             /\ \E k \in 1..(j - 1) : At(ReadProvides(m)[k], "role") = At(ReadProvides(m)[j], "role")}}
ValidateProviderRoleFns(m) ==
    IF ~ IsObject(At(At(m, "entry"), "exports")) THEN {}
    ELSE {"provides-fn-unbound" : f \in {g \in UNION {Values(At(p, "fns")) : p \in Range(ReadProvides(m))} : IsString(g) /\ g.string \notin DOMAIN ExportsOf(m)}}

DeclaredCapabilities(m) == StringsOf(At(m, "capabilities"))
ValidateExportCapabilities(m) ==
    {"export-capability" : e \in {n \in DOMAIN ExportCapabilityMap(m) : ~ GrantedSatisfies(DeclaredCapabilities(m), ExportCapabilityMap(m)[n])}}

(* The two verdicts: errors decide, warnings are reported beside them. *)
Result(errors, warnings) == [valid |-> errors = {}, errors |-> errors, warnings |-> warnings]
Judged(shown, found, warned) == Result({e.keyword : e \in shown.errors} \cup found, {e.keyword : e \in shown.warnings} \cup warned)
ValidateManifest(m, errors) ==
    Judged(DemoteUnknownTopLevelKeys(CollapseOneOf(errors)), ValidateParameterLists(m), ValidateFieldEnums(m) \cup ValidateDeprecatedJ5mlSpellings(m))
ValidateModManifest(m, errors) ==
    Judged(DemoteUnknownTopLevelKeys(CollapseOneOf(errors)), ValidateExportCapabilities(m) \cup ValidateProviderRoles(m) \cup ValidateParameterLists(m),
           ValidateProviderRoleFns(m) \cup ValidateLegacyContributionShapes(m))
ValidateShape(errors) == [valid |-> errors = <<>>, errors |-> CollapseOneOf(errors)]

IsModManifest(m) == (\E k \in {"fragments", "entry", "fills", "contributions"} : Has(m, k)) /\ ~ Has(m, "bindings")

(* An entry's source: the CommonJS it uses, whether it imports, the names it exports. *)
NoEntry == [script |-> Undefined, format |-> "none", exports |-> {}]
ReadEntryBlock(m) ==
    LET entry == At(m, "entry")
    IN  CASE IsString(entry) -> [NoEntry EXCEPT !.script = entry, !.format = "script"]
          [] IsObject(entry) /\ NonEmpty(At(entry, "script")) ->
               [script |-> At(entry, "script"), format |-> IF IsString(At(entry, "format")) THEN At(entry, "format").string ELSE "script",
                exports |-> DOMAIN ExportsOf(m)]
          [] OTHER -> NoEntry
ValidateEntrySource(m, source) ==
    LET block == ReadEntryBlock(m)
        module == block.format = "module"
    IN  [errors |-> {c \in {"commonjs-detected", "import-denied"} : IF c = "commonjs-detected" THEN source.commonjs ELSE module /\ source.imports},
         warnings |-> IF module /\ block.exports \ source.exports # {} THEN {"export-unbound"} ELSE {}]

-----------------------------------------------------------------------------
(* The version a manifest is checked against: asked for, else named by its `$schema`, else by its
   `xript` field, else the newest. *)
CurrentVersion == SpeaksVersions[Len(SpeaksVersions)]
NormalizeSpecVersion(v) == IF v \in DOMAIN VersionLines THEN VersionLines[v] ELSE v
DeclaredSchema(m) == IF IsString(At(m, "$schema")) THEN SchemaUrls[At(m, "$schema").string] ELSE [kind |-> "none", version |-> ""]
SchemaKinds == {"manifest", "mod-manifest"}
VersionOfSchema(m) == IF DeclaredSchema(m).kind \in SchemaKinds THEN DeclaredSchema(m).version ELSE ""
VersionOfField(m) == IF IsString(At(m, "xript")) THEN NormalizeSpecVersion(At(m, "xript").string) ELSE ""

Target(version, source, note) == [version |-> version, source |-> source, note |-> note]
Unsupported == Target("", "unsupported", FALSE)
ResolveTargetVersion(m, explicit) ==
    LET spoken == Range(SpeaksVersions)
        wanted == NormalizeSpecVersion(explicit)
    IN  CASE explicit # "" -> IF wanted \in spoken THEN Target(wanted, "option", FALSE) ELSE Unsupported
          [] explicit = "" /\ VersionOfSchema(m) \in spoken -> Target(VersionOfSchema(m), "$schema", FALSE)
          [] explicit = "" /\ VersionOfSchema(m) \notin spoken /\ VersionOfField(m) \in spoken -> Target(VersionOfField(m), "xript", FALSE)
          [] OTHER -> Target(CurrentVersion, "default", VersionOfSchema(m) # "" \/ VersionOfField(m) # "")

(* The schema itself: bundled when it is ours, otherwise the overlay from the cache, the network
   or the disk; whatever fails falls back to the newest bundled one and says so. *)
Overlay == <<"overlay", "">>
ResolveAgainst(declared, target, kind, world) ==
    LET Using(source, schema) == [source |-> source, schema |-> schema, target |-> Unsupported, warning |-> FALSE, cached |-> world.cached]
        Versioned(source, k) == [Using(source, <<k, target.version>>) EXCEPT !.target = target]
        fallback == [Using("bundled-fallback", <<kind, CurrentVersion>>) EXCEPT !.warning = TRUE]
    IN  CASE declared.kind \in {"none"} \cup SchemaKinds /\ target = Unsupported -> [Using("refused", <<kind, "">>) EXCEPT !.warning = TRUE]
          [] declared.kind = "none" /\ target # Unsupported -> Versioned("bundled-fallback", kind)
          [] declared.kind \in SchemaKinds /\ target # Unsupported -> Versioned("bundled-known", declared.kind)
          [] declared.kind = "remote" /\ world.cached -> Using("remote-cached", Overlay)
          [] declared.kind = "remote" /\ ~ world.cached ->
               IF world.restricted \/ ~ world.transport \/ ~ world.fetched THEN fallback
               ELSE [Using("remote-fetched", Overlay) EXCEPT !.cached = world.writable]
          [] OTHER -> IF world.readable THEN Using("local", Overlay) ELSE fallback
ResolveSchema(m, kind, explicit, world) == ResolveAgainst(DeclaredSchema(m), ResolveTargetVersion(m, explicit), kind, world)

(* A manifest against a schema, as a mod or as a host. *)
AsMod(m, kind) == IF kind = "" THEN IsModManifest(m) ELSE kind = "mod"
KindOf(mod) == IF mod THEN "mod-manifest" ELSE "manifest"
Verdict(m, mod, run) == IF mod THEN ValidateModManifest(m, ErrorsOfRun(run)) ELSE ValidateManifest(m, ErrorsOfRun(run))
Reporting(result, warnings, target) == [valid |-> result.valid, errors |-> result.errors, warnings |-> result.warnings \cup warnings, target |-> target]
Refusing(keyword) == [valid |-> FALSE, errors |-> {keyword}, warnings |-> {}, target |-> Unsupported]
Noted(target) == {"version-fallback" : t \in {u \in {target} : u.note}}

(* In memory, where an overlay the caller did not bring is not looked for. *)
ValidateManifestForVersion(m, kind, explicit, runs) ==
    LET mod == AsMod(m, kind)
        target == ResolveTargetVersion(m, explicit)
        foreign == DeclaredSchema(m).kind \in {"remote", "local"}
    IN  IF ~ foreign /\ target = Unsupported THEN Refusing("version")
        ELSE Reporting(Verdict(m, mod, runs[<<KindOf(mod), IF foreign THEN CurrentVersion ELSE target.version>>]),
                       IF foreign THEN {"schema-fallback"} ELSE Noted(target), IF foreign THEN Unsupported ELSE target)

(* With the disk and the network at hand. *)
ApplySchemaResolution(result, resolved) ==
    Reporting(result, {"schema-fallback" : r \in {q \in {resolved} : q.warning}} \cup Noted(resolved.target), resolved.target)
UnderResolution(m, mod, resolved, runs) ==
    IF resolved.source = "refused" THEN Refusing("version")
    ELSE ApplySchemaResolution(Verdict(m, mod, runs[resolved.schema]), resolved)
ValidateManifestVersioned(m, kind, explicit, world, runs) ==
    LET mod == AsMod(m, kind)
    IN  UnderResolution(m, mod, ResolveSchema(m, KindOf(mod), explicit, world), runs)

(* A file: read, parsed and flattened, then checked; and with a mod the entry that lies beside it. *)
WithEntry(result, m, source) ==
    IF result = Refusing("version") \/ ReadEntryBlock(m) = NoEntry \/ ~ source.readable THEN result
    ELSE LET found == ValidateEntrySource(m, source)
         IN  [result EXCEPT !.errors = @ \cup found.errors, !.warnings = @ \cup found.warnings, !.valid = @ /\ found.errors = {}]
ValidateManifestFile(file, explicit, world, runs, source) ==
    LET m == file.flat.manifest
        EntryToo(result) == IF IsModManifest(m) THEN WithEntry(result, m, source) ELSE result
    IN  CASE ~ file.readable -> Refusing("file")
          [] file.readable /\ ~ file.parses -> Refusing("parse")
          [] file.readable /\ file.parses /\ ~ file.flat.ok -> Refusing("extends")
          [] OTHER -> EntryToo(ValidateManifestVersioned(m, "", explicit, world, runs))
ValidateModManifestFile(file, explicit, world, runs, source) ==
    CASE ~ file.readable -> Refusing("file")
      [] file.readable /\ ~ file.parses -> Refusing("parse")
      [] OTHER -> WithEntry(ValidateManifestVersioned(file.manifest, "mod", explicit, world, runs), file.manifest, source)

-----------------------------------------------------------------------------
(* A mod against its host. *)

DeclaredExportNames(mod) == DOMAIN ExportsOf(mod)
FillEntries(v) == IF IsList(v) THEN v.items ELSE <<v>>

(* The first defect of a command fill; the ids seen are those of the fills before it that got as
   far as their id, whatever was found wrong after. *)
ReachesId(fill) == IsObject(fill) /\ CommandIssue(fill, {}) \notin {"command-fill-capability", "command-missing-handler", "command-invalid-id"}
(* A mutated form: two commands may share an id. *)
NothingSeenBefore(entries, i) == {}
SeenBefore(entries, i) == {At(entries[j], "id").string : j \in {k \in 1..(i - 1) : ReachesId(entries[k])}}
CommandDefects(fills, exportNames) ==
    LET entries == FillEntries(fills)
        Defect(i) == IF ~ IsObject(entries[i]) THEN "command-missing-handler"
                     ELSE LET issue == CommandIssue(entries[i], SeenBefore(entries, i))
                          IN  IF issue = "none" /\ exportNames # {} /\ At(entries[i], "handler").string \notin exportNames
                              THEN "command-handler-unknown" ELSE issue
    IN  {<<i, Defect(i)>> : i \in {j \in DOMAIN entries : Defect(j) # "none"}}
(* The commands tools describe: the first of each id. *)
CommandFillViews(fills) ==
    LET entries == FillEntries(fills)
    IN  {entries[i] : i \in {j \in DOMAIN entries : ReachesId(entries[j]) /\ At(entries[j], "id").string \notin SeenBefore(entries, j)}}

(* A fragment's source against its format. *)
VocabularyFindings(fill) ==
    IF At(fill, "format").string \notin KnownFormats THEN {"cross-fill-format"}
    ELSE IF Is(fill, "inline") /\ At(fill, "source").string \in BrokenSources THEN {"cross-fill-vocabulary"} ELSE {}

FragmentCrossErrors(mod, host) ==
    UNION {LET slot == SlotNamed(host, At(f, "slot").string)
           IN  CASE slot = Undefined -> {"cross-slot"}
                 [] slot # Undefined /\ At(f, "format").string \notin Accepts(slot) -> {"cross-format"}
                 [] OTHER -> IF IsFragmentFill(f) THEN VocabularyFindings(f) ELSE {} : f \in Range(ItemsOf(At(mod, "fragments")))}

PayloadRefuses(slot, fill) == Has(slot, "payload") /\ ~ (StringsOf(At(slot, "payload")) \subseteq DOMAIN FieldsOf(fill))
FillCrossErrors(mod, host, id) ==
    LET slot == SlotNamed(host, id)
        entries == FillEntries(At(At(mod, "fills"), id))
        OfFragment(f) == IF At(f, "format").string \notin Accepts(slot) THEN {"cross-fill-format"} ELSE VocabularyFindings(f)
    IN  IF slot = Undefined THEN {"cross-fill-slot"}
        ELSE {"cross-fill-capability" : x \in {y \in {slot} : ~ SlotGateHolds(slot, DeclaredCapabilities(mod))}}
             \cup (IF IsCommandSlot(slot) THEN {d[2] : d \in CommandDefects(At(At(mod, "fills"), id), DeclaredExportNames(mod))}
                   ELSE UNION {OfFragment(f) : f \in {e \in Range(entries) : IsFragmentFill(e)}})
             \cup {"cross-fill-payload" : f \in {e \in Range(entries) : PayloadRefuses(slot, e)}}

CrossValidate(mod, host) ==
    FragmentCrossErrors(mod, host) \cup UNION {FillCrossErrors(mod, host, id) : id \in DOMAIN FieldsOf(At(mod, "fills"))}
    \cup {"cross-capability" : c \in {d \in DeclaredCapabilities(mod) : \A scope \in DOMAIN FieldsOf(At(host, "capabilities")) : ~ Satisfies(scope, d)}}

(* What is said of a mod's fragment fills before it is ever loaded. *)
FragmentFillViews(mod) ==
    LET fills == At(mod, "fills")
        ofFills == FlattenSeq([i \in DOMAIN SetToSeq(DOMAIN FieldsOf(fills)) |-> ItemsOf(fills.fields[SetToSeq(DOMAIN fills.fields)[i]])])
    IN  SelectSeq(ofFills \o ItemsOf(At(mod, "fragments")), LAMBDA f : IsObject(f) /\ IsFragmentFill(f))
FragmentFillFindings(mod, sources) ==
    LET views == FragmentFillViews(mod)
        aliased == {i \in DOMAIN views : Has(views[i], "events")}
    IN  {<<i, "markup-source-not-inline">> : i \in {j \in DOMAIN views :
            ~ Is(views[j], "inline") /\ At(views[j], "source").string \in MarkupSources \ sources}}
        \cup {<<i, "deprecated-events-alias">> : i \in {j \in aliased : \A k \in aliased : j <= k}}
        \cup {<<i, "non-portable-binding-field">> : i \in {j \in DOMAIN views :
            \E b \in Range(ItemsOf(At(views[j], "bindings"))) : ~ (DOMAIN FieldsOf(b) \subseteq {"name", "path", "type"})}}

-----------------------------------------------------------------------------
(* What the verdicts promise. *)

(* A stray key that passes for the alternative of a oneOf that came closest (core.ts:143-151): every
   error stands at the top, a oneOf is among them, and no alternative has fewer errors than there
   are stray keys. Only the stray keys are kept, and these are then no more than warnings. *)
StrayKeyWins(errors) ==
    LET strays == {i \in DOMAIN errors : TopLevelUnknown(errors[i])}
        others == {i \in DOMAIN errors \ strays : errors[i].keyword # "oneOf"}
        Branch(i) == {j \in DOMAIN errors : errors[j].keyword # "oneOf" /\ errors[j].branch = errors[i].branch}
        First(is) == CHOOSE i \in is : \A j \in is : i <= j
        Closer(is, js) == Cardinality(is) < Cardinality(js) \/ (Cardinality(is) = Cardinality(js) /\ First(is) < First(js))
    IN  /\ strays # {} /\ strays \cup others # DOMAIN errors
        /\ \A i \in DOMAIN errors : errors[i].path = <<>>
        /\ \A i \in others : Branch(i) \cap strays = {} /\ Closer(strays, Branch(i))

(* Making a schema's errors readable turns a failure into a pass only where a stray key passes for
   an alternative: any other run of the schema that failed on more than stray top-level keys stays
   a failure, and an error no oneOf stands above is shown as it is; a document refused by its
   shape is told why. *)
VerdictStands(errors) ==
    LET shown == DemoteUnknownTopLevelKeys(CollapseOneOf(errors)).errors
        failures == {i \in DOMAIN errors : ~ TopLevelUnknown(errors[i])}
    IN  /\ failures # {} => (shown = {} <=> StrayKeyWins(errors))
        /\ errors # <<>> => ~ ValidateShape(errors).valid /\ ValidateShape(errors).errors # {}
        /\ \A i \in failures : (\A j \in DOMAIN errors : errors[j].keyword = "oneOf" => ~ Under(errors[i], errors[j].path)) => errors[i] \in shown

(* A verdict says which schema it comes from: one the manifest or the caller names, unless it says
   that it fell back; in memory and from disk alike where no overlay is declared; and an overlay
   that was fetched and kept is the one every later run uses, whatever the network does. *)
NamedVersions(m, explicit) ==
    IF explicit # "" THEN {NormalizeSpecVersion(explicit)}
    ELSE LET named == {VersionOfSchema(m), VersionOfField(m)} \ {""} IN IF named = {} THEN {CurrentVersion} ELSE named
SchemaIsTold(m, kind, explicit, world, worlds, runs) ==
    LET declared == DeclaredSchema(m).kind
        own == KindOf(AsMod(m, kind))
        Told(result) == {"schema-fallback", "version-fallback"} \cap result.warnings # {} \/ result = Refusing("version")
    IN  \A resolved \in {ResolveSchema(m, own, explicit, world)}, result \in {ValidateManifestVersioned(m, kind, explicit, world, runs)} :
        /\ Told(result) \/ (IF declared \in {"remote", "local"} THEN resolved.schema = Overlay ELSE resolved.schema[2] \in NamedVersions(m, explicit))
        /\ declared \in {"none", own} => result = ValidateManifestForVersion(m, kind, explicit, runs)
        /\ declared = "remote" /\ resolved.cached =>
              \A later \in worlds : later.cached => ResolveSchema(m, own, explicit, later).schema = Overlay

(* The two file validators agree about a mod that extends nothing, pass nothing the manifest
   itself fails on, and check the entry that the runtime evaluates, the way it evaluates it. *)
EntryIsChecked(m, world, runs, source) ==
    LET file == [readable |-> TRUE, parses |-> TRUE, manifest |-> m, flat |-> [ok |-> TRUE, manifest |-> m]]
        entry == At(m, "entry")
        single == ~ IsList(entry) /\ EntryIssues(entry) = {}
    IN  \A asMod \in {ValidateModManifestFile(file, "", world, runs, source)} :
        /\ ValidateManifestFile(file, "", world, runs, source) = asMod
        /\ asMod.valid => ValidateManifestVersioned(m, "mod", "", world, runs).valid
        /\ single => /\ ModEntryScripts(entry) = <<ReadEntryBlock(m).script>>
                     /\ "import-denied" \in asMod.errors <=> source.readable /\ source.imports /\ ModEntryFormat(entry) = "module"

(* What the mod schema asks of an entry and of a mod; of a fill, only that it is an object. *)
SchemaAcceptsEntry(entry) ==
    \/ IsString(entry)
    \/ IsList(entry) /\ entry.items # <<>> /\ \A i \in DOMAIN entry.items : IsString(entry.items[i])
    \/ /\ IsObject(entry) /\ IsString(At(entry, "script"))
       /\ Has(entry, "format") => At(entry, "format") \in {Str("script"), Str("module")}
       /\ Has(entry, "exports") => IsObject(At(entry, "exports"))
SchemaAcceptsMod(mod) ==
    /\ \A k \in {"xript", "name", "version"} : NonEmpty(At(mod, k))
    /\ Has(mod, "fills") => IsObject(At(mod, "fills")) /\ \A v \in Values(At(mod, "fills")) : IsList(v) /\ \A i \in DOMAIN v.items : IsObject(v.items[i])
    /\ Has(mod, "entry") => SchemaAcceptsEntry(At(mod, "entry"))
ChecksClean(mod, host) == SchemaAcceptsMod(mod) /\ ValidateModManifest(mod, <<>>).valid /\ CrossValidate(mod, host) = {}
(* What a load demands and neither the schema nor the cross-check does: a name for an entry's script,
   a handler for a hook, one map of names for a role with a good name, an id for a fragment that brings its own. *)
Unpoliced(mod, host) ==
    \/ IsObject(At(mod, "entry")) /\ ~ NonEmpty(At(At(mod, "entry"), "script"))
    \/ \E id \in DOMAIN FieldsOf(At(mod, "fills")) :
          LET slot == SlotNamed(host, id)
              entries == FillEntries(At(At(mod, "fills"), id))
              Some(Bad(_)) == \E i \in DOMAIN entries : Bad(entries[i])
          IN  \/ IsRoleSlot(slot) /\ (Len(entries) > 1 \/ Some(LAMBDA f : id \notin RoleNames \/ ~ MapsFns(At(f, "fns"))))
              \/ IsHookSlot(slot) /\ Some(LAMBDA f : ~ NonEmpty(At(f, "handler")))
              \/ Some(LAMBDA f : SlotKindForFill(slot, f) = "fragment" /\ Has(f, "id") /\ ~ NonEmpty(At(f, "id")))

(* A mod that the validator finds nothing wrong with against a host that grants it what it asks
   for is one the runtime loads, unless it lacks something that is Unpoliced. *)
CleanMeansLoads(mod, host) == ChecksClean(mod, host) => (LoadsClean(mod, host, DeclaredCapabilities(mod)) <=> ~ Unpoliced(mod, host))

(* Markup a load would look up as a file and not find is found by the check too, and only that. *)
SameMarkupWarnings(mod, host, sources) ==
    LET Count(found, code) == Cardinality({f \in found : f[2] = code})
    IN  LoadsClean(mod, host, DeclaredCapabilities(mod)) =>
          \A taken \in {NormalizeModFills(mod, host, DeclaredCapabilities(mod))}, code \in {"markup-source-not-inline", "deprecated-events-alias"} :
             Count(FragmentFillFindings(mod, sources), code) >= Count(FragmentDiagnostics(taken.fragments, sources, MarkupSources), code)
=============================================================================
