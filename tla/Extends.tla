------------------------------ MODULE Extends ------------------------------
(* How a runtime flattens a manifest's `extends` chain (runtimes/js/src/extends.ts): the bases
   are loaded in order, each flattened itself, and merged left to right; the manifest is merged
   last. Adding a name is free; a name both sides declare is a conflict unless the base's type
   is abstract (a fill) or the child says `refines`. Conflicts are collected and thrown together.

   A manifest is the function of its top-level keys; `extends` holds a list of references. *)
EXTENDS JsonValue, Integers, SequencesExt

CONSTANT InheritedNames     \* the keys `in` finds on an empty object, such as "constructor"

MapKeys == {"bindings", "capabilities", "hooks", "types"}

Refining(v) == IsObject(v) /\ Get(v.fields, "refines") = True
IsAbstractType(v) == IsObject(v) /\ Get(v.fields, "abstract") = True

(* Objects merge key by key, anything else is replaced; the child's marker is not copied. *)
RECURSIVE DeepMerge(_, _)
DeepMerge(base, child) ==
    LET c == Drop(child, {"refines"})
    IN  [k \in DOMAIN base \cup DOMAIN c |->
            IF k \notin DOMAIN c THEN base[k]
            ELSE IF k \in DOMAIN base /\ IsObject(base[k]) /\ IsObject(c[k])
                 THEN Obj(DeepMerge(base[k].fields, c[k].fields)) ELSE c[k]]

(* What a name present on both sides becomes in a map: types alone may be filled or refined. *)
Fills(b, c, key) == key = "types" /\ IsAbstractType(b) /\ IsObject(c)
Refines(b, c, key) == key = "types" /\ IsObject(b) /\ Refining(c)

MapConflicts(target, source, key) ==
    {<<key, id>> : id \in {i \in DOMAIN source \cap DOMAIN target :
        ~ Fills(target[i], source[i], key) /\ ~ Refines(target[i], source[i], key)}}

(* A mutated form: a concrete type of the same name silently replaces the base's. *)
MergeMapsSilently(target, source, key) == <<Spread(target, source), {}>>

MergeMaps(target, source, key) ==
    LET refused == MapConflicts(target, source, key)
        Kept(id) == IF id \notin DOMAIN source \/ <<key, id>> \in refused THEN target[id]
                    ELSE IF id \in DOMAIN target /\ ~ Fills(target[id], source[id], key)
                         THEN Obj(DeepMerge(target[id].fields, source[id].fields)) ELSE source[id]
    IN  <<[id \in DOMAIN target \cup DOMAIN source |-> Kept(id)], refused>>

(* Slots keep their order: a refining slot is merged where its id already stands. *)
SlotId(slot) == IF IsObject(slot) THEN Get(slot.fields, "id") ELSE Undefined
Merged(slots, i, slot) == [slots EXCEPT ![i] = Obj(DeepMerge(slots[i].fields, slot.fields))]

MergeSlots(base, child) ==
    LET Named(slots, id) == {i \in DOMAIN slots : id # Undefined /\ SlotId(slots[i]) = id}
        Take(acc, slot) ==
            LET here == Named(acc[1], SlotId(slot))
            IN  IF here = {} THEN <<Append(acc[1], slot), acc[2]>>
                ELSE IF Refining(slot)
                     THEN <<Merged(acc[1], CHOOSE i \in here : \A j \in here : i <= j, slot), acc[2]>>
                ELSE <<acc[1], acc[2] \cup {<<"slots", SlotId(slot)>>}>>
    IN  FoldLeft(Take, <<base, {}>>, child)

WithoutRefines(v) == IF IsObject(v) THEN Obj(Drop(v.fields, {"refines"})) ELSE v

(* A prop is replaced whole: a sink is never inherited by a retyped prop. *)
MergeProps(base, child) == Spread(FieldsOf(base), FieldsOf(child))

MergeNode(base, child) ==
    LET plain == Drop(Spread(base, Drop(child, {"refines", "props"})), {"refines", "props"})
    IN  IF "props" \in DOMAIN base \cup DOMAIN child
        THEN Spread(plain, [k \in {"props"} |-> Obj(MergeProps(Get(base, k), Get(child, k)))])
        ELSE plain

(* The nodes of a format or of a vocabulary, whose pointer is `owner`. *)
MergeNodes(base, child, owner) ==
    LET b == FieldsOf(base)
        c == FieldsOf(child)
        clash == {n \in DOMAIN b \cap DOMAIN c : ~ Refining(c[n])}
    IN  <<[n \in DOMAIN b \cup DOMAIN c |->
             IF n \notin DOMAIN b THEN WithoutRefines(c[n])
             ELSE IF n \notin DOMAIN c \/ n \in clash THEN WithoutRefines(b[n])
             ELSE Obj(MergeNode(FieldsOf(b[n]), c[n].fields))],
          {<<owner, n>> : n \in clash}>>

(* One declaration onto its base: every key replaces (a list of vocabularies or schemes whole),
   the nodes merge. *)
MergeFormat(base, child, id) ==
    LET plain == Drop(Spread(base, child), {"refines", "nodes"})
        With(nodes) == <<Spread(plain, [k \in {"nodes"} |-> Obj(nodes[1])]), nodes[2]>>
    IN  IF "nodes" \in DOMAIN base \cup DOMAIN child
        THEN With(MergeNodes(Get(base, "nodes"), Get(child, "nodes"), id))
        ELSE <<plain, {}>>

MergeVocabulary(base, child, id) == MergeFormat(base, child, id)

(* The merged declarations of a block, and the conflicts of the block and of each of them. *)
MergedBlock(key, merged, clash) ==
    <<[id \in DOMAIN merged |-> Obj(merged[id][1])], {<<key, id>> : id \in clash} \cup UNION {merged[id][2] : id \in DOMAIN merged}>>

MergeFormats(base, child) ==
    LET b == FieldsOf(base)
        c == FieldsOf(child)
        clash == {id \in DOMAIN b \cap DOMAIN c : ~ Refining(c[id])}
        One(id) == CASE id \notin DOMAIN c \/ id \in clash -> MergeFormat(Empty, FieldsOf(b[id]), id)
                     [] id \notin DOMAIN b -> MergeFormat(Empty, FieldsOf(c[id]), id)
                     [] OTHER -> MergeFormat(FieldsOf(b[id]), c[id].fields, id)
    IN  MergedBlock("formats", [id \in DOMAIN b \cup DOMAIN c |-> One(id)], clash)

MergeVocabularies(base, child) ==
    LET b == FieldsOf(base)
        c == FieldsOf(child)
        clash == {id \in DOMAIN b \cap DOMAIN c : ~ Refining(c[id])}
        One(id) == CASE id \notin DOMAIN c \/ id \in clash -> MergeVocabulary(Empty, FieldsOf(b[id]), id)
                     [] id \notin DOMAIN b -> MergeVocabulary(Empty, FieldsOf(c[id]), id)
                     [] OTHER -> MergeVocabulary(FieldsOf(b[id]), c[id].fields, id)
    IN  MergedBlock("vocabularies", [id \in DOMAIN b \cup DOMAIN c |-> One(id)], clash)

(* The outcome of a step that may throw. *)
Thrown(reason) == [thrown |-> reason]
Ok(m) == [manifest |-> m]
Succeeds(r) == "manifest" \in DOMAIN r

(* What merges under one key, as <<value, conflicts>>: the maps only where both declare them. *)
MergeUnder(base, child, key) ==
    LET As(Kind(_), merged) == <<Kind(merged[1]), merged[2]>>
    IN  CASE key = "slots" -> As(Arr, MergeSlots(ItemsOf(Get(base, key)), ItemsOf(Get(child, key))))
          [] key = "formats" -> As(Obj, MergeFormats(Get(base, key), Get(child, key)))
          [] key = "vocabularies" -> As(Obj, MergeVocabularies(Get(base, key), Get(child, key)))
          [] OTHER -> As(Obj, MergeMaps(base[key].fields, child[key].fields, key))
(* All conflicts are thrown together. *)
WithMerged(plain, merged) ==
    LET conflicts == UNION {merged[k][2] : k \in DOMAIN merged}
    IN  IF conflicts # {} THEN Thrown(conflicts)
        ELSE Ok(Drop(Spread(plain, [k \in DOMAIN merged |-> merged[k][1]]), {"extends"}))
MergeManifests(base, child) ==
    LET touched == ({"slots", "formats", "vocabularies"} \cap (DOMAIN base \cup DOMAIN child)) \cup (MapKeys \cap DOMAIN base \cap DOMAIN child)
    IN  WithMerged(Spread(base, child), [k \in touched |-> MergeUnder(base, child, k)])

(* A reference is a list of segments from its directory, or from the root when it is absolute:
   absolute references are taken as they are written. *)
JoinPath(dir, ref) ==
    LET Walk(parts, segment) == CASE segment = "." -> parts
                                  [] segment = ".." -> IF parts = <<>> THEN <<>> ELSE Front(parts)
                                  [] OTHER -> Append(parts, segment)
    IN  IF ref.absolute THEN ref.segments ELSE FoldLeft(Walk, dir, ref.segments)

DirOf(path) == IF path = <<>> THEN <<>> ELSE Front(path)

(* `extends` is a reference or a list of them. *)
ExtendsList(m) == IF "extends" \in DOMAIN m THEN m["extends"] ELSE <<>>

(* The flattening: a chain of the paths being resolved stops a cycle. `files` is what the loader
   can read; a path it cannot read is refused. *)
MergedOnto(composed, next) ==
    IF ~ Succeeds(composed) THEN composed ELSE IF ~ Succeeds(next) THEN next ELSE MergeManifests(composed.manifest, next.manifest)
RECURSIVE ResolveInternal(_, _, _, _)
ResolveInternal(m, dir, files, chain) ==
    LET Base(path) == IF Contains(chain, path) THEN Thrown("cycle")
                      ELSE IF path \notin DOMAIN files THEN Thrown("missing")
                      ELSE ResolveInternal(files[path], DirOf(path), files, Append(chain, path))
    IN  IF "extends" \notin DOMAIN m THEN Ok(m)
        ELSE MergedOnto(FoldLeft(LAMBDA composed, ref : MergedOnto(composed, Base(JoinPath(dir, ref))), Ok(Empty), ExtendsList(m)),
                        Ok(Drop(m, {"extends"})))

ResolveExtends(m, dir, files) == ResolveInternal(m, dir, files, <<>>)

-----------------------------------------------------------------------------
(* How the validator flattens the same chain (tools/validate/src/resolve.ts). It follows the
   runtime's rules in code of its own, with three differences: the first conflict throws, a name
   is looked up with `in`, which also finds what every object inherits, and `execution` merges
   property by property. *)

(* key in base *)
Finds(base, key) == key \in DOMAIN base \cup InheritedNames

MapRefused(base, child, key) ==
    \E id \in DOMAIN child : /\ Finds(base, id)
                             /\ ~ (id \in DOMAIN base /\ (Fills(base[id], child[id], key) \/ Refines(base[id], child[id], key)))

ResolvedMap(base, child, key) ==
    Spread(base, [id \in DOMAIN child |->
        IF id \in DOMAIN base /\ ~ Fills(base[id], child[id], key)
        THEN Obj(DeepMerge(base[id].fields, child[id].fields)) ELSE child[id]])

(* An id already pushed is merged in place or throws; <<FALSE, ...>> is the throw. *)
ResolvedSlots(base, child) ==
    LET Push(acc, slot) ==
          LET same == {i \in DOMAIN acc[2] : SlotId(slot) # Undefined /\ SlotId(acc[2][i]) = SlotId(slot)}
          IN  IF ~ acc[1] \/ (same # {} /\ ~ Refining(slot)) THEN <<FALSE, acc[2]>>
              ELSE IF same = {} THEN <<TRUE, Append(acc[2], slot)>>
              ELSE <<TRUE, Merged(acc[2], CHOOSE i \in same : \A j \in same : i <= j, slot)>>
    IN  FoldLeft(Push, <<TRUE, base>>, child)

NodesRefused(base, child) == \E n \in DOMAIN child : Finds(base, n) /\ ~ Refining(child[n])

(* A mutated form: a refined node replaces the base's, marker and all. *)
ReplacedNodes(base, child) == Spread(base, child)

ResolvedNodes(base, child) ==
    [n \in DOMAIN base \cup DOMAIN child |->
        IF n \notin DOMAIN base THEN WithoutRefines(child[n])
        ELSE IF n \notin DOMAIN child THEN WithoutRefines(base[n])
        ELSE Obj(MergeNode(FieldsOf(base[n]), child[n].fields))]

ResolvedFormat(base, child) ==
    LET plain == Drop(Spread(base, child), {"refines", "nodes"})
    IN  IF "nodes" \in DOMAIN base \cup DOMAIN child
        THEN Spread(plain, [k \in {"nodes"} |-> Obj(ResolvedNodes(FieldsOf(Get(base, k)), FieldsOf(Get(child, k))))])
        ELSE plain

(* A block of declarations, formats or vocabularies alike: what stands on one side only is merged too,
   onto nothing. *)
NodesOfBlock(block, id) == IF id \in DOMAIN block THEN FieldsOf(Get(FieldsOf(block[id]), "nodes")) ELSE Empty
BlockRefused(base, child) ==
    \/ \E id \in DOMAIN base : NodesRefused(Empty, NodesOfBlock(base, id))
    \/ \E id \in DOMAIN child : (Finds(base, id) /\ ~ Refining(child[id])) \/ NodesRefused(NodesOfBlock(base, id), NodesOfBlock(child, id))

ResolvedFormats(base, child) ==
    [id \in DOMAIN base \cup DOMAIN child |->
        Obj(CASE id \notin DOMAIN child -> ResolvedFormat(Empty, FieldsOf(base[id]))
              [] id \notin DOMAIN base -> ResolvedFormat(Empty, FieldsOf(child[id]))
              [] OTHER -> ResolvedFormat(FieldsOf(base[id]), FieldsOf(child[id])))]

ResolvedVocabularies(base, child) == ResolvedFormats(base, child)

(* Each property the child states wins; the others stay. *)
MergeExecution(base, child) ==
    IF ~ IsObject(base) THEN (IF child = Undefined THEN base ELSE child)
    ELSE IF ~ IsObject(child) THEN base ELSE Obj(Spread(base.fields, child.fields))

ResolvedManifest(base, child) ==
    LET B(k) == FieldsOf(Get(base, k))
        C(k) == FieldsOf(Get(child, k))
        slots == ResolvedSlots(ItemsOf(Get(base, "slots")), ItemsOf(Get(child, "slots")))
        Block(k) == CASE k \in MapKeys -> Obj(ResolvedMap(B(k), C(k), k))
                      [] k = "slots" -> Arr(slots[2])
                      [] k = "formats" -> Obj(ResolvedFormats(B(k), C(k)))
                      [] k = "vocabularies" -> Obj(ResolvedVocabularies(B(k), C(k)))
                      [] OTHER -> MergeExecution(Get(base, k), Get(child, k))
        blocks == (MapKeys \cup {"slots", "formats", "vocabularies", "execution"}) \cap (DOMAIN base \cup DOMAIN child)
    IN  IF \/ \E k \in MapKeys : MapRefused(B(k), C(k), k)
           \/ ~ slots[1]
           \/ \E k \in {"formats", "vocabularies"} : BlockRefused(B(k), C(k))
        THEN Thrown("conflict")
        ELSE Ok(Drop(Spread(Spread(base, child), [k \in blocks |-> Block(k)]), {"extends"}))

(* path.resolve: an absolute reference is normalised too. *)
ResolvePath(dir, ref) == JoinPath(IF ref.absolute THEN <<>> ELSE dir, [ref EXCEPT !.absolute = FALSE])

ResolvedOnto(composed, next) ==
    IF ~ Succeeds(composed) THEN composed ELSE IF ~ Succeeds(next) THEN next ELSE ResolvedManifest(composed.manifest, next.manifest)
RECURSIVE ResolveWithChain(_, _, _, _)
ResolveWithChain(m, dir, files, chain) ==
    LET Base(path) == IF Contains(chain, path) THEN Thrown("cycle")
                      ELSE IF path \notin DOMAIN files THEN Thrown("missing")
                      ELSE ResolveWithChain(files[path], DirOf(path), files, Append(chain, path))
    IN  IF ExtendsList(m) = <<>> THEN Ok(Drop(m, {"extends"}))
        ELSE ResolvedOnto(FoldLeft(LAMBDA composed, ref : ResolvedOnto(composed, Base(ResolvePath(dir, ref))), Ok(Empty), ExtendsList(m)), Ok(m))

(* A manifest given as a file is itself the first link of its chain. *)
ResolveManifestFile(path, files) ==
    IF path \notin DOMAIN files THEN Thrown("missing")
    ELSE ResolveWithChain(files[path], DirOf(path), files, <<path>>)

(* What the names of a manifest's own declarations are, and the abstract types among them. *)
LocalNames(m, key) == IF key = "slots" THEN {SlotId(s) : s \in Range(ItemsOf(Get(m, key)))} \ {Undefined}
                      ELSE DOMAIN FieldsOf(Get(m, key))
AbstractTypeNames(m) == {t \in LocalNames(m, "types") : IsAbstractType(Get(m, "types").fields[t])}

(* Which names came from a base; of types, the ones still abstract. *)
ResolveProvenance(m, dir, files) ==
    LET Inherited(flat, key) == LocalNames(flat, key) \ LocalNames(m, key)
        Told(r) == IF ~ Succeeds(r) THEN r
                   ELSE [resolved |-> r.manifest,
                         inherited |-> [key \in {"slots", "capabilities", "formats", "vocabularies", "types"} |->
                                           Inherited(r.manifest, key) \cap (IF key = "types" THEN AbstractTypeNames(r.manifest) ELSE LocalNames(r.manifest, key))]]
    IN  Told(ResolveWithChain(m, dir, files, <<>>))

-----------------------------------------------------------------------------
(* What both resolvers promise. *)

(* The manifests of a chain in the order they are merged, the manifest itself last. *)
RECURSIVE MergeOrder(_, _, _)
MergeOrder(m, dir, files) ==
    LET Bases(acc, ref) == acc \o MergeOrder(files[JoinPath(dir, ref)], DirOf(JoinPath(dir, ref)), files)
    IN  Append(FoldLeft(Bases, <<>>, ExtendsList(m)), m)

(* What a manifest declares under a key by name, and a name's declarations along a chain. *)
Declares(m, key, id) ==
    IF key = "slots" THEN \E i \in DOMAIN ItemsOf(Get(m, key)) : SlotId(ItemsOf(Get(m, key))[i]) = id
    ELSE id \in DOMAIN FieldsOf(Get(m, key))
DeclarationIn(m, key, id) ==
    IF key = "slots" THEN SelectSeq(ItemsOf(Get(m, key)), LAMBDA s : SlotId(s) = id)[1] ELSE FieldsOf(Get(m, key))[id]

(* Everything an object says, a larger one says too. *)
RECURSIVE Within(_, _)
Within(said, kept) ==
    said = kept \/ (IsObject(said) /\ IsObject(kept) /\
                    \A k \in DOMAIN said.fields : k \in DOMAIN kept.fields /\ Within(said.fields[k], kept.fields[k]))

(* The collision rule: of a name declared along a chain, nothing a manifest says is lost in the
   result unless a later manifest opted in: by filling it where it is abstract, or by a
   refinement that says the same key again. *)
KeptUnlessRefined(m, dir, files, key) ==
    LET order == MergeOrder(m, dir, files)
        Opted(j, id, k) == /\ Declares(order[j], key, id)
                           /\ Refining(DeclarationIn(order[j], key, id))
                           /\ k \in DOMAIN FieldsOf(DeclarationIn(order[j], key, id))
        Filled(i, id) == \E j \in 1..Len(order) : j > i /\ key = "types" /\ Declares(order[j], key, id)
    IN  \A r \in {ResolveExtends(m, dir, files)} : Succeeds(r) =>
          \A i \in DOMAIN order : \A id \in LocalNames(order[i], key) :
             LET said == FieldsOf(DeclarationIn(order[i], key, id))
             IN  /\ Declares(r.manifest, key, id)
                 /\ \/ IsAbstractType(Obj(said)) /\ Filled(i, id)
                    \/ \A k \in DOMAIN said \ {"refines"} :
                          LET kept == FieldsOf(DeclarationIn(r.manifest, key, id))
                          IN  k \in DOMAIN kept /\ (Within(said[k], kept[k]) \/ \E j \in DOMAIN order : j > i /\ Opted(j, id, k))

(* What the tools call inherited is declared by a base and not by the manifest itself, and nothing
   inherited goes unmentioned; a type they call unfilled is one no manifest of the chain fills. *)
ProvenanceIsTrue(m, dir, files, key) ==
    LET order == MergeOrder(m, dir, files)
        OfBases == UNION {LocalNames(order[i], key) : i \in 1..(Len(order) - 1)} \ LocalNames(m, key)
        Unfilled(id) == \A i \in DOMAIN order : Declares(order[i], key, id) => IsAbstractType(DeclarationIn(order[i], key, id))
    IN  \A p \in {ResolveProvenance(m, dir, files)} : "inherited" \in DOMAIN p =>
            p.inherited[key] = IF key = "types" THEN {id \in OfBases : Unfilled(id)} ELSE OfBases

(* The names under a key that the tools look up with `in`: of declarations, and of a format's or
   a vocabulary's nodes. *)
LookedUp(m, key) ==
    IF key \in MapKeys THEN LocalNames(m, key)
    ELSE IF key \in {"formats", "vocabularies"} THEN LocalNames(m, key) \cup UNION {DOMAIN NodesOfBlock(FieldsOf(Get(m, key)), id) : id \in LocalNames(m, key)}
    ELSE {}

(* `extends` is flattened identically by loaders and tools: the runtime and the validator both
   refuse a chain, or both make the same manifest of it, compared under `keys`. The exception is
   a name every object inherits: a chain that declares one may be refused by the validator alone,
   as a conflict with a base that does not declare it. *)
SameManifest(m, path, files, keys) ==
    \A ours \in {ResolveExtends(m, DirOf(path), files)}, theirs \in {ResolveManifestFile(path, files)} :
        IF Succeeds(ours) /\ theirs = Thrown("conflict")
        THEN \E f \in Range(MergeOrder(m, DirOf(path), files)) : \E key \in keys : LookedUp(f, key) \cap InheritedNames # {}
        ELSE /\ Succeeds(ours) = Succeeds(theirs)
             /\ Succeeds(ours) => Keep(ours.manifest, keys) = Keep(theirs.manifest, keys)
=============================================================================
