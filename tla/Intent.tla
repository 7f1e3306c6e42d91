------------------------------- MODULE Intent -------------------------------
(* Execution intent (tools/validate/src/execution.ts): how long a surface says its calls take and
   where they may run, what is in force where nothing is said, and how the claims of a host and a
   mod about one call are combined. A surface is <<kind, name>>, a name the list of its dotted
   segments. *)
EXTENDS JsonValue, Integers, SequencesExt

DurationOrder == <<"instant", "brief", "long", "unbounded">>
AffinityOrder == <<"any", "pinned", "isolated">>
DefaultExecutionIntent == [duration |-> "brief", affinity |-> "any"]
RankIn(order, x) == CHOOSE i \in DOMAIN order : order[i] = x

(* The axes an `execution` block states; a word outside its order is not heard. *)
AsIntent(v) ==
    LET Hears(k, order) == IsString(At(v, k)) /\ \E i \in DOMAIN order : At(v, k) = Str(order[i])
        axes == {k \in {"duration", "affinity"} : Hears(k, IF k = "duration" THEN DurationOrder ELSE AffinityOrder)}
    IN  [k \in axes |-> At(v, k).string]
NoIntent == [silent |-> TRUE]
IntentOf(v) == IF IsObject(v) THEN AsIntent(v) ELSE NoIntent
WithDefaults(intent) == [k \in DOMAIN DefaultExecutionIntent |-> IF k \in DOMAIN intent THEN intent[k] ELSE DefaultExecutionIntent[k]]

(* A mutated form: an axis a party is silent on is no opinion. *)
SilenceIsNoOpinion(order, a, b, axis) ==
    LET said == {x[axis] : x \in {y \in {a, b} : axis \in DOMAIN y}}
    IN  IF said = {} THEN DefaultExecutionIntent[axis] ELSE CHOOSE x \in said : \A y \in said : RankIn(order, x) >= RankIn(order, y)
(* The greater of the two claims, where silence claims the default. *)
MaxBy(order, a, b, axis) ==
    LET x == WithDefaults(a)[axis]
        y == WithDefaults(b)[axis]
    IN  IF RankIn(order, x) >= RankIn(order, y) THEN x ELSE y
WidenExecutionIntent(a, b) ==
    [duration |-> MaxBy(DurationOrder, a, b, "duration"), affinity |-> MaxBy(AffinityOrder, a, b, "affinity")]

RECURSIVE BindingAt(_, _)
BindingAt(bindings, name) ==
    LET next == At(bindings, Head(name))
    IN  IF ~ IsObject(next) THEN Undefined ELSE IF Len(name) = 1 THEN next ELSE BindingAt(At(next, "members"), Tail(name))

(* The first slot of an id is the one that is asked. *)
SlotAt(m, id) ==
    LET slots == ItemsOf(At(m, "slots"))
        of == {i \in DOMAIN slots : IsObject(slots[i]) /\ At(slots[i], "id") = Str(id)}
    IN  IF of = {} THEN Undefined ELSE slots[CHOOSE i \in of : \A j \in of : i <= j]
ExportAt(m, name) ==
    LET def == At(At(At(m, "entry"), "exports"), name) IN IF IsObject(def) THEN def ELSE Undefined

SurfaceAt(m, path) ==
    CASE path[1] = "bindings" -> BindingAt(At(m, "bindings"), path[2])
      [] path[1] = "hooks" -> At(At(m, "hooks"), path[2][1])
      [] path[1] = "slots" -> SlotAt(m, path[2][1])
      [] path[1] = "exports" -> ExportAt(m, path[2][1])

(* What a surface says for itself; <<>> asks the manifest. *)
DeclaredExecutionIntent(m, path) == IntentOf(At(IF path = <<>> THEN m ELSE SurfaceAt(m, path), "execution"))
OwnOr(own, whole) == IF own # NoIntent THEN own ELSE whole
ResolveExecutionIntent(m, path) == WithDefaults(OwnOr(DeclaredExecutionIntent(m, path), DeclaredExecutionIntent(m, <<>>)))

(* A call into an export: what the host says at the call wins alone, otherwise the slot's claim
   and the export's are widened. "" is an option left out. *)
ResolveInvokeIntent(host, mod, slot, export, callSite) ==
    IF callSite # NoIntent THEN WithDefaults(callSite)
    ELSE WidenExecutionIntent(ResolveExecutionIntent(host, IF slot = "" THEN <<>> ELSE <<"slots", <<slot>>>>),
                              ResolveExecutionIntent(mod, IF export = "" THEN <<>> ELSE <<"exports", <<export>>>>))

IsDefaultIntent(intent) == intent = DefaultExecutionIntent
CompareDuration(a, b) == RankIn(DurationOrder, a) - RankIn(DurationOrder, b)

(* Every binding that is not a namespace, by its dotted name. *)
RECURSIVE WalkBindings(_, _)
WalkBindings(bindings, prefix) ==
    UNION {LET def == At(bindings, name)
           IN  IF ~ IsObject(def) THEN {}
               ELSE IF IsObject(At(def, "members")) THEN WalkBindings(At(def, "members"), Append(prefix, name))
               ELSE {[name |-> Append(prefix, name), def |-> def]} : name \in DOMAIN FieldsOf(bindings)}

(* Every surface that can declare intent, as all the tools list them. *)
Surface(kind, name, def, own, whole) ==
    [kind |-> kind, name |-> name, declared |-> own # NoIntent,
     resolved |-> WithDefaults(OwnOr(own, whole)), async |-> At(def, "async") = True,
     capability |-> IF IsString(At(def, "capability")) THEN {At(def, "capability").string} ELSE {},
     limits |-> IsObject(At(def, "limits")), hasParams |-> ItemsOf(At(def, "params")) # <<>>]
ExecutionSurfaces(m) ==
    LET Named(v) == {n \in DOMAIN FieldsOf(v) : IsObject(v.fields[n])}
        hooks == At(m, "hooks")
        exports == At(At(m, "entry"), "exports")
        slots == {s \in ToSet(ItemsOf(At(m, "slots"))) : IsString(At(s, "id"))}
        found == {<<"bindings", b.name, b.def>> : b \in WalkBindings(At(m, "bindings"), <<>>)}
                 \cup {<<"hooks", <<n>>, hooks.fields[n]>> : n \in Named(hooks)}
                 \cup {<<"slots", <<At(s, "id").string>>, s>> : s \in slots}
                 \cup {<<"exports", <<n>>, exports.fields[n]>> : n \in Named(exports)}
    IN  {Surface(f[1], f[2], f[3], DeclaredExecutionIntent(m, <<f[1], f[2]>>), DeclaredExecutionIntent(m, <<>>)) : f \in found}

-----------------------------------------------------------------------------
(* Neither party to a call can weaken the other, nor pull a silent one below the default, and
   what is in force does not depend on which of them is asked first. *)
AtLeast(a, b) ==
    /\ RankIn(DurationOrder, a.duration) >= RankIn(DurationOrder, b.duration)
    /\ RankIn(AffinityOrder, a.affinity) >= RankIn(AffinityOrder, b.affinity)
NeitherIsWeakened(a, b) ==
    LET both == WidenExecutionIntent(a, b)
    IN  /\ AtLeast(both, WithDefaults(a)) /\ AtLeast(both, WithDefaults(b)) /\ both = WidenExecutionIntent(b, a)
        /\ \A k \in {"duration", "affinity"} : both[k] \in {WithDefaults(a)[k], WithDefaults(b)[k]}
=============================================================================
