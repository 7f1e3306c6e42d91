------------------------------ MODULE Formats ------------------------------
(* The linter's pass over a host's fragment formats (tools/validate/src/lint.ts formatFindings).
   Formats and vocabularies are as in Markup; a finding is <<code, subject>>. What is missing a
   description is reported elsewhere in the linter the same way and is left out here. *)
EXTENDS Ops, Naming

ReservedFormatIds == DOMAIN BuiltinProfiles \cup {"application/x-xript-role", "application/x-xript-hook", "application/x-xript-command"}
FormatErrors == {"builtin-format-redeclared", "prohibited-scheme", "invalid-schemes", "unknown-vocabulary", "invalid-format-scope",
                 "prop-name-reserved", "sink-requires-string", "bind-target-undeclared"}

SinkOf(prop) == prop.sink
(* The vocabulary an entry of a resolved scope came from; the format's own nodes are its own. *)
VocabularyOf(decl, i) == IF decl.inline THEN (IF i = 1 THEN "#inline" ELSE decl.vocabularies[i - 1]) ELSE decl.vocabularies[i]

NodeFindings(owner, name, node, html) ==
    {<<"stripped-name-shadowed", owner, name>> : x \in {y \in {name} : ~ html /\ LowerOf(y) \in StrippedElements}}
    \cup {<<"prop-name-reserved", owner, name, p>> : p \in {q \in DOMAIN node.props : LowerOf(q) \in EventNames}}
    \cup {<<"sink-requires-string", owner, name, p>> :
            p \in {q \in DOMAIN node.props : LowerOf(q) \notin EventNames /\ SinkOf(node.props[q]) # "text" /\ node.props[q].types # {"str"}}}
    \cup {<<"bind-target-undeclared", owner, name, b>> : b \in {node.bindTo} \ ({"", "children"} \cup DOMAIN node.props)}

(* A mutated form: a prop is in conflict when its sinks differ at all. *)
SinksDiffer(profile, prop) == Cardinality(DeclaredSinks(profile, prop)) > 1
(* The sinks a prop is given across the whole scope, text and the reserved names aside. *)
InConflict(profile, prop) == LowerOf(prop) \notin EventNames /\ Cardinality(DeclaredSinks(profile, prop) \ {"text"}) > 1

OneFormatFindings(id, formats, vocabularies, accepted, inherited) ==
    LET decl == formats[id]
        answer == ResolveFormatProfile(id, formats, vocabularies)
        profile == answer.profile
        declaredAt == {i \in DOMAIN profile.scope : profile.scope[i].kind = "declared"}
        Owner(i) == VocabularyOf(decl, i)
        NodesAt(i) == DOMAIN profile.scope[i].nodes
        dead == {<<"dead-format", id>> : x \in {y \in {id} : y \notin accepted \cup inherited}}
        refused == IF answer.code \in {"prohibited-scheme", "invalid-schemes", "unknown-vocabulary"} THEN answer.code ELSE "invalid-format-scope"
    IN  IF id \in ReservedFormatIds THEN {<<"builtin-format-redeclared", id>>}
        ELSE IF ~ answer.ok THEN dead \cup {<<refused, id>>}
        ELSE dead
             \cup {<<"closed-schemes", id>> : x \in {y \in {decl.schemes} : y # <<"#absent">> /\ profile.schemes = {}}}
             \cup UNION {{<<"vocabulary-node-shadowed", Owner(i), n>> : n \in {m \in NodesAt(i) : \E j \in declaredAt : j < i /\ m \in NodesAt(j)}} : i \in declaredAt}
             \cup UNION {UNION {NodeFindings(Owner(i), n, profile.scope[i].nodes[n], SpeaksHtml(profile)) : n \in NodesAt(i)} : i \in declaredAt}
             \cup {<<"prop-sink-conflict", id, p>> : p \in {q \in UNION {UNION {DOMAIN profile.scope[i].nodes[n].props : n \in NodesAt(i)} : i \in declaredAt} : InConflict(profile, q)}}

FormatFindings(formats, vocabularies, accepted, inheritedFormats, inheritedVocabularies) ==
    LET InScope(id) == IF id \in ReservedFormatIds \/ ~ ResolveFormatProfile(id, formats, vocabularies).ok THEN {}
                       ELSE Range(formats[id].vocabularies)
    IN  UNION {OneFormatFindings(id, formats, vocabularies, accepted, inheritedFormats) : id \in DOMAIN formats}
        \cup {<<"dead-vocabulary", v>> : v \in (DOMAIN vocabularies \ UNION {InScope(id) : id \in DOMAIN formats}) \ inheritedVocabularies}

-----------------------------------------------------------------------------
(* The linter foretells the runtime: where it sees no error the format resolves and every prop it
   declares can be given some value, and it sees a conflict exactly where every op on the prop is
   refused for it. *)
LintForetells(id, formats, vocabularies, samples) ==
    LET findings == FormatFindings(formats, vocabularies, {}, {}, {})
        wrong == {f \in findings : f[1] \in FormatErrors}
        answer == ResolveFormatProfile(id, formats, vocabularies)
        scope == answer.profile.scope
        Keeps(node, p) == \E v \in samples : DeclaredProp(p, v, node, answer.profile.schemes).props # <<>>
        Conflicts(p) == \A v \in samples : RouteOpValue(answer.profile, p, v).code = "prop-sink-conflict"
    IN  /\ wrong = {} => answer.ok
        /\ answer.ok => \A i \in DOMAIN scope : \A n \in DOMAIN scope[i].nodes : \A p \in DOMAIN scope[i].nodes[n].props :
                          /\ wrong = {} => Keeps(scope[i].nodes[n], p)
                          /\ LowerOf(p) \notin EventNames => (<<"prop-sink-conflict", id, p>> \in findings <=> Conflicts(p))

-----------------------------------------------------------------------------
(* The types generated for a host's fragment formats (tools/typegen/src/index.ts
   generateFormatTypes): for every vocabulary some format speaks, an interface for the props of each
   node, a tuple type for the node, and a union over them. A declaration is [name, node, rest], rest
   the types its children may have. What is said of each prop is left out. *)

(* The vocabularies of the formats that resolve, each once; a format's own nodes are its own. *)
TypedVocabularies(formats, vocabularies) ==
    LET resolved == {f \in DOMAIN formats : ResolveFormatProfile(f, formats, vocabularies).ok}
        Scope(f) == ResolveFormatProfile(f, formats, vocabularies).profile.scope
        Key(f, i) == IF formats[f].inline THEN (IF i = 1 THEN f ELSE formats[f].vocabularies[i - 1]) ELSE formats[f].vocabularies[i]
        Typed(f) == {i \in DOMAIN Scope(f) : Scope(f)[i].kind = "declared" /\ DOMAIN Scope(f)[i].nodes # {}}
    IN  UNION {{[key |-> Key(f, i), nodes |-> Scope(f)[i].nodes] : i \in Typed(f)} : f \in resolved}

(* The children of a node whose constraint names none of its own vocabulary are left open. *)
ChildrenRest(constraint, union, types) ==
    CASE constraint = {} -> {}
      [] constraint = AnyChild -> {union, "string"}
      [] constraint = TextOnly -> {"string"}
      [] OTHER -> LET own == constraint \cap DOMAIN types IN IF own = {} THEN {union, "string"} ELSE {types[n] : n \in own}

VocabularyTypes(prefix, nodes) ==
    LET names == SetToSeq(DOMAIN nodes)
        stems == UniqueNames(<<"Node">>, names)
        StemOf(n) == stems[CHOOSE i \in DOMAIN names : names[i] = n]
        NodeType(n) == prefix \o StemOf(n) \o "Node"
        union == prefix \o "Node"
        Says(name, node, rest) == [name |-> name, node |-> node, rest |-> rest]
    IN  <<Says(prefix \o "NodeProps", "", {}), Says(union, "", {NodeType(n) : n \in DOMAIN nodes})>>
        \o [i \in DOMAIN names |-> Says(prefix \o stems[i] \o "Props", names[i], {})]
        \o [i \in DOMAIN names |-> Says(NodeType(names[i]), names[i], ChildrenRest(nodes[names[i]].children, union, [n \in DOMAIN nodes |-> NodeType(n)]))]
GenerateFormatTypes(formats, vocabularies) ==
    LET collected == SetToSeq(TypedVocabularies(formats, vocabularies))
        prefixes == UniqueNames(<<>>, [i \in DOMAIN collected |-> collected[i].key])
    IN  [i \in DOMAIN collected |-> [nodes |-> collected[i].nodes, types |-> VocabularyTypes(prefixes[i], collected[i].nodes)]]

(* The table documented for each format: the host's own nodes in its scope, none where the scope
   does not resolve. *)
GenerateFormatsSection(formats, vocabularies) ==
    LET Found(f) == ResolveFormatProfile(f, formats, vocabularies)
        Own(f) == {v \in Range(Found(f).profile.scope) : v.kind = "declared"}
    IN  [f \in DOMAIN formats |-> IF Found(f).ok THEN UNION {{<<n, v.nodes[n].children>> : n \in DOMAIN v.nodes} : v \in Own(f)} ELSE {}]

-----------------------------------------------------------------------------
(* The types of one vocabulary are told apart and name only each other, and they let a node hold
   every node of its vocabulary, and every text, that the sanitizer would keep in it; what is typed
   is what is documented. *)
TypesForetell(formats, vocabularies) ==
    /\ UNION {DOMAIN block.nodes : block \in Range(GenerateFormatTypes(formats, vocabularies))} = {row[1] : row \in UNION Range(GenerateFormatsSection(formats, vocabularies))}
    /\ \A block \in Range(GenerateFormatTypes(formats, vocabularies)) :
           LET types == block.types
               union == types[2]
           IN  /\ \A i, j \in DOMAIN types : i # j => types[i].name # types[j].name
               /\ \A t \in Range(types) : t.rest \ {"string"} \subseteq {u.name : u \in Range(types)}
               /\ \A n \in DOMAIN block.nodes :
                    LET tuple == types[CHOOSE i \in DOMAIN types : i > 2 + Cardinality(DOMAIN block.nodes) /\ types[i].node = n]
                        constraint == block.nodes[n].children
                    IN  /\ TextAllowed(constraint) => "string" \in tuple.rest
                        /\ \A c \in DOMAIN block.nodes : ChildAllowed(constraint, c) =>
                             union.name \in tuple.rest \/ \E i \in DOMAIN types : types[i].node = c /\ types[i].name \in tuple.rest
=============================================================================
