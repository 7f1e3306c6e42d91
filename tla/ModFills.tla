------------------------------ MODULE ModFills ------------------------------
(* What a runtime makes of a mod's manifest before any of its code runs (runtimes/js/src:
   fragment.ts, commands.ts, slots.ts, roles.ts, slot-kinds.ts): the fills are sorted by the
   kind of slot they go to, refused or normalised, and the surviving contributions of all mods
   are put in the one order a host sees. *)
EXTENDS JsonValue, Integers, SequencesExt

CONSTANTS
    Capability,      \* what each capability name means: its mode and its scope, a list of segments
    CommandIds,      \* the names that match the pattern of a command id
    RoleNames,       \* the names that match the pattern of a role
    NameOrder,       \* every name, in the order `<` puts them
    KnownFormats     \* the fragment formats that resolve to a profile

(* Capabilities: a grant covers its mode, or any when it writes, and every scope below its own. *)
ModeSatisfies(grant, wanted) == grant = "write" \/ grant = wanted
ScopeSubsumes(grant, wanted) == IsPrefix(grant, wanted)
Satisfies(grant, wanted) ==
    /\ ModeSatisfies(Capability[grant].mode, Capability[wanted].mode)
    /\ ScopeSubsumes(Capability[grant].scope, Capability[wanted].scope)
GrantedSatisfies(granted, wanted) == \E g \in granted : Satisfies(g, wanted)

-----------------------------------------------------------------------------
(* The kind of a slot is decided by what it accepts, the first of these that is there; a fill of
   any other slot is a fragment when it has a format and a source. *)
RoleAccept == "role"
HookAccept == "hook"
CommandAccept == "command"

Accepts(slot) == StringsOf(At(slot, "accepts"))
IsRoleSlot(slot) == RoleAccept \in Accepts(slot)
IsHookSlot(slot) == HookAccept \in Accepts(slot) /\ ~ IsRoleSlot(slot)
IsCommandSlot(slot) == CommandAccept \in Accepts(slot) /\ ~ IsRoleSlot(slot) /\ ~ IsHookSlot(slot)
IsFragmentFill(fill) == IsString(At(fill, "format")) /\ IsString(At(fill, "source"))
SlotKindForFill(slot, fill) ==
    CASE IsRoleSlot(slot) -> "role" [] IsHookSlot(slot) -> "hook" [] IsCommandSlot(slot) -> "command"
      [] IsFragmentFill(fill) -> "fragment" [] OTHER -> "data"

-----------------------------------------------------------------------------
(* Commands. *)

ExportsOf(mod) == IF IsObject(At(mod, "entry")) THEN FieldsOf(At(At(mod, "entry"), "exports")) ELSE Empty
ExportCapabilityMap(mod) ==
    LET exports == ExportsOf(mod)
        gated == {n \in DOMAIN exports : IsString(At(exports[n], "capability"))}
    IN  [n \in gated |-> At(exports[n], "capability").string]

NonEmpty(v) == IsString(v) /\ v.string # ""
(* The keys a closed input declares; an input that is not closed bounds nothing. *)
Closed(fill) == IsObject(At(fill, "input")) /\ At(At(fill, "input"), "additionalProperties") = False
ClosedInputKeys(fill) == DOMAIN FieldsOf(At(At(fill, "input"), "properties"))

(* The first thing wrong with a command fill; `seen` are the ids taken in its slot. *)
CommandIssue(fill, seen) ==
    CASE Has(fill, "capability") -> "command-fill-capability"
      [] ~ NonEmpty(At(fill, "handler")) -> "command-missing-handler"
      [] ~ IsString(At(fill, "id")) \/ At(fill, "id") \notin {Str(i) : i \in CommandIds} -> "command-invalid-id"
      [] At(fill, "id").string \in seen -> "command-duplicate-id"
      [] Has(fill, "args") /\ ~ IsObject(At(fill, "args")) -> "command-args-not-object"
      [] Closed(fill) /\ ~ (DOMAIN FieldsOf(At(fill, "args")) \subseteq ClosedInputKeys(fill)) -> "command-unbound-arg"
      [] OTHER -> "none"

(* The gates a command passes are its slot's and its export's; the export's is the narrower. *)
NormalizeCommandFill(fill, slot, mod) ==
    LET handler == At(fill, "handler").string
        exports == ExportCapabilityMap(mod)
        ofExport == IF handler \in DOMAIN exports THEN {exports[handler]} ELSE {}
        ofSlot == IF NonEmpty(At(slot, "capability")) THEN {At(slot, "capability").string} ELSE {}
    IN  [mod |-> At(mod, "name").string, slot |-> At(slot, "id").string, id |-> At(fill, "id").string, handler |-> handler,
         args |-> FieldsOf(At(fill, "args")), capabilities |-> ofSlot \cup ofExport,
         capability |-> IF ofExport # {} THEN ofExport ELSE ofSlot,
         priority |-> IF IsNumber(At(fill, "priority")) THEN At(fill, "priority").number ELSE 0,
         exposed |-> At(fill, "exposed") # False]

-----------------------------------------------------------------------------
(* A manifest's own shape. *)

EntryIssues(entry) ==
    IF IsString(entry) THEN {}
    ELSE IF IsList(entry) THEN {"entry" : i \in {j \in DOMAIN entry.items : ~ IsString(entry.items[j])}}
    ELSE IF ~ IsObject(entry) THEN {"entry"}
    ELSE {k \in {"script"} : ~ NonEmpty(At(entry, k))}
         \cup {k \in {"format"} : Has(entry, k) /\ At(entry, k) \notin {Str("script"), Str("module")}}
         \cup {k \in {"exports"} : Has(entry, k) /\ ~ IsObject(At(entry, k))}

(* The scripts an entry asks for, in order, and how they are evaluated. *)
ModEntryScripts(entry) ==
    CASE entry = Undefined -> <<>> [] IsString(entry) -> <<entry>> [] IsList(entry) -> entry.items [] OTHER -> <<At(entry, "script")>>
ModEntryFormat(entry) == IF IsObject(entry) /\ At(entry, "format") = Str("module") THEN "module" ELSE "script"

MapsFns(fns) == IsObject(fns) /\ DOMAIN FieldsOf(fns) # {} /\ \A f \in DOMAIN FieldsOf(fns) : IsString(fns.fields[f])
ContributionIssues(contributions) ==
    LET provides == ItemsOf(At(contributions, "provides"))
        Role(i) == At(provides[i], "role")
        BadRole(i) == Role(i) \notin {Str(r) : r \in RoleNames} \/ \E j \in 1..(i - 1) : Role(j) = Role(i)
        BadFns(i) == ~ MapsFns(At(provides[i], "fns"))
    IN  IF ~ IsObject(contributions) THEN {"contributions"}
        ELSE IF Has(contributions, "provides") /\ ~ IsList(At(contributions, "provides")) THEN {"provides"}
        ELSE {"provides" : i \in {j \in DOMAIN provides : ~ IsObject(provides[j]) \/ BadRole(j) \/ BadFns(j)}}

FragmentIssues(fragments) ==
    IF ~ IsList(fragments) THEN {"fragments"}
    ELSE {"fragments" : i \in {j \in DOMAIN fragments.items :
            (\E k \in {"id", "slot", "format"} : ~ NonEmpty(At(fragments.items[j], k))) \/ ~ IsString(At(fragments.items[j], "source"))}}

ModManifestIssues(mod) ==
    {k \in {"xript", "name", "version"} : ~ NonEmpty(At(mod, k))}
    \cup {k \in {"family"} : Has(mod, k) /\ At(mod, k) \notin {Str(r) : r \in RoleNames}}
    \cup {k \in {"capabilities"} : Has(mod, k) /\ ~ IsList(At(mod, k))}
    \cup (IF Has(mod, "entry") THEN EntryIssues(At(mod, "entry")) ELSE {})
    \cup (IF Has(mod, "fragments") THEN FragmentIssues(At(mod, "fragments")) ELSE {})
    \cup (IF Has(mod, "contributions") THEN ContributionIssues(At(mod, "contributions")) ELSE {})

-----------------------------------------------------------------------------
(* The fills against the host's slots. *)

SlotsOf(host) == ItemsOf(At(host, "slots"))
\* The last slot of a name wins in the map the loader builds.
SlotNamed(host, id) == LET is == {i \in DOMAIN SlotsOf(host) : At(SlotsOf(host)[i], "id") = Str(id)}
                       IN  IF is = {} THEN Undefined ELSE SlotsOf(host)[CHOOSE i \in is : \A j \in is : j <= i]
SlotGateHolds(slot, granted) == ~ NonEmpty(At(slot, "capability")) \/ GrantedSatisfies(granted, At(slot, "capability").string)

(* One fill after the others of its slot: what it contributes, and the issue it raises. *)
NoFills == [provides |-> <<>>, hooks |-> <<>>, commands |-> <<>>, fragments |-> <<>>, data |-> <<>>, ids |-> {}, issues |-> {}]
Blame(acc, issue) == [acc EXCEPT !.issues = @ \cup {issue}]
FillIssue(acc, slot, fill, granted) ==
    LET kind == SlotKindForFill(slot, fill)
    IN  CASE ~ IsObject(fill) -> "shape"
          [] kind = "role" /\ ~ IsObject(At(fill, "fns")) -> "fns"
          [] kind = "hook" /\ ~ NonEmpty(At(fill, "handler")) -> "handler"
          [] kind = "command" /\ CommandIssue(fill, acc.ids) # "none" -> CommandIssue(fill, acc.ids)
          [] kind # "fragment" /\ ~ SlotGateHolds(slot, granted) -> "capability"
          [] OTHER -> "none"

TakeFill(acc, slot, fill, index, mod, granted) ==
    LET kind == SlotKindForFill(slot, fill)
        id == At(slot, "id")
        issue == FillIssue(acc, slot, fill, granted)
        \* normalizeCommandFill takes the id once it finds nothing wrong, before the slot's gate is asked.
        ids == acc.ids \cup (IF kind = "command" /\ issue \in {"none", "capability"} THEN {At(fill, "id").string} ELSE {})
    IN  CASE issue # "none" -> [Blame(acc, <<id.string, index, issue>>) EXCEPT !.ids = ids]
          [] kind = "role" -> [acc EXCEPT !.provides = Append(@, Obj([k \in {"role", "fns"} |-> IF k = "role" THEN id ELSE At(fill, "fns")]))]
          [] kind = "hook" -> [acc EXCEPT !.hooks = Append(@, [hook |-> id.string, handler |-> At(fill, "handler").string])]
          [] kind = "command" -> [acc EXCEPT !.commands = Append(@, NormalizeCommandFill(fill, slot, mod)), !.ids = ids]
          [] kind = "fragment" -> [acc EXCEPT !.fragments = Append(@, Obj(Spread([k \in {"id"} |-> [string |-> id.string, fill |-> index]],
                                                                              Spread(fill.fields, [k \in {"slot"} |-> id]))))]
          [] OTHER -> [acc EXCEPT !.data = Append(@, <<id.string, fill>>)]

(* The mod's own fills in one walk; ids are taken slot by slot. *)
NormalizeModFills(mod, host, granted) ==
    LET fills == At(mod, "fills")
        Walk(acc, id, slot, entries) ==
          IF ~ IsList(entries) \/ slot = Undefined THEN Blame(acc, <<id>>)
          ELSE FoldLeft(LAMBDA a, i : TakeFill(a, slot, entries.items[i], i, mod, granted), [acc EXCEPT !.ids = {}], [i \in DOMAIN entries.items |-> i])
    IN  IF ~ Has(mod, "fills") THEN NoFills
        ELSE IF Has(mod, "fragments") \/ Has(mod, "contributions") \/ ~ IsObject(fills) THEN Blame(NoFills, <<"fills">>)
        ELSE FoldLeft(LAMBDA acc, id : Walk(acc, id, SlotNamed(host, id), fills.fields[id]), NoFills, SetToSeq(DOMAIN fills.fields))

(* The manifest the checks that follow read: the fills replaced by what they became. *)
NormalizedManifest(mod, taken) ==
    IF ~ Has(mod, "fills") THEN mod
    ELSE Obj(Spread(Drop(mod.fields, {"fills"}),
               [k \in {j \in {"fragments", "contributions"} : IF j = "fragments" THEN taken.fragments # <<>> ELSE taken.provides # <<>>} |->
                  IF k = "fragments" THEN Arr(taken.fragments) ELSE Obj([p \in {"provides"} |-> Arr(taken.provides)])]))

(* The fragments against the slots they name. *)
ModIssuesAgainstApp(mod, host, granted) ==
    {<<"slot", i>> : i \in {j \in DOMAIN ItemsOf(At(mod, "fragments")) :
        LET fragment == At(mod, "fragments").items[j]
            slot == SlotNamed(host, At(fragment, "slot").string)
        IN  \/ slot = Undefined
            \/ At(fragment, "format").string \notin Accepts(slot)
            \/ At(fragment, "format").string \notin KnownFormats
            \/ ~ SlotGateHolds(slot, granted)}}

(* A load gets as far as the mod's scripts when nothing was refused. *)
LoadsClean(mod, host, granted) ==
    \A taken \in {NormalizeModFills(mod, host, granted)} :
        /\ taken.issues = {}
        /\ \A manifest \in {NormalizedManifest(mod, taken)} :
             ModManifestIssues(manifest) = {} /\ ModIssuesAgainstApp(manifest, host, granted) = {}

(* What a load reports of the fragments it accepted, against the sources the host supplied: a
   source that is not there, and the old name of `handlers`, once a mod. *)
FragmentDiagnostics(fragments, sources, Markup) ==
    LET Missing(f) == At(f, "inline") # True /\ IsString(At(f, "source")) /\ At(f, "source").string \notin sources
        aliased == {i \in DOMAIN fragments : Has(fragments[i], "events")}
    IN  {<<i, IF At(fragments[i], "source").string \in Markup THEN "markup-source-not-inline" ELSE "missing-fragment-source">> :
            i \in {j \in DOMAIN fragments : Missing(fragments[j])}}
        \cup {<<i, "deprecated-events-alias">> : i \in {j \in aliased : \A k \in aliased : j <= k}}

-----------------------------------------------------------------------------
(* What a host is shown: contributions of all mods by priority, then id, then mod name. *)

Rank(name) == CHOOSE i \in DOMAIN NameOrder : NameOrder[i] = name
(* A mutated form: the order two keys deep, ties left to the order of loading. *)
ComesFirstByIdAlone(a, b) == a.priority > b.priority \/ (a.priority = b.priority /\ Rank(a.id) < Rank(b.id))
ComesFirst(a, b) ==
    \/ a.priority > b.priority
    \/ a.priority = b.priority /\ (Rank(a.id) < Rank(b.id) \/ (a.id = b.id /\ Rank(a.mod) < Rank(b.mod)))
(* A stable sort: equals stay in the order they came. *)
Ordered(s) == LET Before(i, j) == ComesFirst(s[i], s[j]) \/ (~ ComesFirst(s[j], s[i]) /\ i <= j)
                  Place(i) == Cardinality({j \in DOMAIN s : Before(j, i)})
              IN  [p \in DOMAIN s |-> s[CHOOSE i \in DOMAIN s : Place(i) = p]]

(* A mod as it is loaded: its name, its fragments, its roles and its commands. *)
\* slots.find: here the first slot of a name counts.
Multiple(host, slot) == LET named == SelectSeq(SlotsOf(host), LAMBDA s : At(s, "id") = Str(slot)) IN named # <<>> /\ At(named[1], "multiple") = True
Offered(host, slot, ordered) == IF Multiple(host, slot) \/ ordered = <<>> THEN ordered ELSE <<Head(ordered)>>
Contributions(slot, mods, key) == FlattenSeq([i \in DOMAIN mods |-> SelectSeq(mods[i][key], LAMBDA c : c.slot = slot)])

OrderContributions(contributions) == Ordered(contributions)
ResolveSlotContributions(slot, mods, host) == Offered(host, slot, OrderContributions(Contributions(slot, mods, "fragments")))

OrderCommands(commands) == Ordered(commands)
MarkCollisions(commands) ==
    [i \in DOMAIN commands |-> [command |-> commands[i], collides |-> \E j \in DOMAIN commands \ {i} : commands[j].id = commands[i].id]]
ResolveCommandsAll(slot, mods) == MarkCollisions(OrderCommands(Contributions(slot, mods, "commands")))
ResolveCommands(slot, mods, host) == Offered(host, slot, ResolveCommandsAll(slot, mods))

(* A reference is a bare id, or one with its mod in front, which ignores preferences. *)
ResolveCommand(ref, mods, host, preferences) ==
    LET available == FlattenSeq([i \in DOMAIN SlotsOf(host) |-> ResolveCommands(At(SlotsOf(host)[i], "id").string, mods, host)])
        named == SelectSeq(available, LAMBDA c : c.command.id = ref.id /\ (ref.mod = "" \/ c.command.mod = ref.mod))
        preferred == IF ref.id \in DOMAIN preferences THEN preferences[ref.id]
                     ELSE IF named # <<>> /\ named[1].command.slot \in DOMAIN preferences THEN preferences[named[1].command.slot] ELSE ""
        favoured == SelectSeq(named, LAMBDA c : c.command.mod = preferred)
    IN  IF named = <<>> THEN <<>>
        ELSE IF ref.mod = "" /\ preferred # "" /\ favoured # <<>> THEN <<favoured[1]>> ELSE <<named[1]>>

(* A role has neither priority nor id: the mod's name alone orders its providers. *)
ResolveRoleAll(role, mods) ==
    LET providers == SelectSeq(mods, LAMBDA m : role \in m.provides)
    IN  Ordered([i \in DOMAIN providers |-> [mod |-> providers[i].name, id |-> role, priority |-> 0]])
ResolveRole(role, mods, preferences) ==
    LET candidates == ResolveRoleAll(role, mods)
        favoured == SelectSeq(candidates, LAMBDA c : role \in DOMAIN preferences /\ c.mod = preferences[role])
    IN  IF candidates = <<>> THEN <<>> ELSE IF favoured # <<>> THEN <<favoured[1]>> ELSE <<candidates[1]>>

(* Which contribution a host sees, and which wins, does not depend on the order it loaded its
   mods in: any two loads of the same mods give the same answers. *)
OrderOfLoadIsInvisible(mods, host, refs, preferences) ==
    \A p \in {q \in [DOMAIN mods -> DOMAIN mods] : \A i, j \in DOMAIN mods : q[i] = q[j] => i = j} :
        LET other == [i \in DOMAIN mods |-> mods[p[i]]]
            ids == {At(s, "id").string : s \in Range(SlotsOf(host))}
        IN  /\ \A s \in ids : /\ ResolveSlotContributions(s, mods, host) = ResolveSlotContributions(s, other, host)
                              /\ ResolveCommands(s, mods, host) = ResolveCommands(s, other, host)
                              /\ ResolveRole(s, mods, preferences) = ResolveRole(s, other, preferences)
            /\ \A r \in refs : ResolveCommand(r, mods, host, preferences) = ResolveCommand(r, other, host, preferences)
=============================================================================
