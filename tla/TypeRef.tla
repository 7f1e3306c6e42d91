------------------------------ MODULE TypeRef ------------------------------
(* Type references (tools/validate/src/type-ref.ts): how a manifest spells a type, the tree it
   is parsed into, the TypeScript it is rendered as, and the names it refers to. A spelling is
   the list of its tokens; white space is below the model. *)
EXTENDS JsonValue, Integers, SequencesExt

CONSTANT UnsafeIdentifiers   \* the reserved words of TypeScript

PrimitiveTypeNames == {"string", "number", "boolean", "void", "null", "undefined", "any", "unknown"}
(* Accepted words that are not the canonical spelling; the last three leave a shape unsaid. *)
LooseWords == {"array", "object", "function"}
TypeWords == {"int", "integer", "float", "bool"} \cup LooseWords
Symbols == {"|", "[]", "?", "(", ")"}

NameNode(n) == [kind |-> "name", name |-> n]
ArrayNode(e) == [kind |-> "array", element |-> e]
UnionNode(ms) == [kind |-> "union", members |-> ms]
MapNode(v) == [kind |-> "map", value |-> v]
OptionalNode(n) == [kind |-> "optional", inner |-> n]
FunctionNode == [kind |-> "function"]
UnknownNode == [kind |-> "unknown"]
SignatureNode(ps, r) == [kind |-> "signature", params |-> ps, returns |-> r]
NoNode == [kind |-> "none"]

(* T[], T?, A | B and parentheses; a spelling that is none of these is an opaque name. *)
TokenAt(ts, i) == IF i \in DOMAIN ts THEN ts[i] ELSE ""
RECURSIVE ParseTypePrimary(_, _), ParseMore(_, _, _), ParseSuffix(_, _, _)
ParseSuffix(ts, i, node) ==
    CASE TokenAt(ts, i) = "[]" -> ParseSuffix(ts, i + 1, ArrayNode(node))
      [] TokenAt(ts, i) = "?" -> ParseSuffix(ts, i + 1, OptionalNode(node))
      [] OTHER -> <<node, i>>
(* A union with the member just parsed, or nothing where none was. *)
ParseMore(ts, members, next) ==
    IF next = <<>> THEN <<>>
    ELSE IF TokenAt(ts, next[2]) = "|" THEN ParseMore(ts, Append(members, next[1]), ParseTypePrimary(ts, next[2] + 1))
    ELSE <<IF members = <<>> THEN next[1] ELSE UnionNode(Append(members, next[1])), next[2]>>
ParseUnion(ts, i) == ParseMore(ts, <<>>, ParseTypePrimary(ts, i))
ParseGroup(ts, inner) == IF inner # <<>> /\ TokenAt(ts, inner[2]) = ")" THEN ParseSuffix(ts, inner[2] + 1, inner[1]) ELSE <<>>
ParseTypePrimary(ts, i) ==
    CASE TokenAt(ts, i) \notin Symbols \cup {""} -> ParseSuffix(ts, i + 1, NameNode(ts[i]))
      [] TokenAt(ts, i) = "(" -> ParseGroup(ts, ParseUnion(ts, i + 1))
      [] OTHER -> <<>>
Opaque == "an unparsed spelling"
ParsedWhole(ts, parsed) == IF parsed = <<>> \/ parsed[2] # Len(ts) + 1 THEN NameNode(Opaque) ELSE parsed[1]
ParseTypeString(ts) == ParsedWhole(ts, ParseUnion(ts, 1))

ReturnTypeRef(returns) == IF Has(returns, "type") THEN At(returns, "type") ELSE returns

RECURSIVE ParseTypeRef(_)
ParseTypeRef(ref) ==
    LET signature == At(ref, "function")
        params == SelectSeq(ItemsOf(At(signature, "params")), IsObject)
    IN  CASE IsString(ref) -> ParseTypeString(ref.string)
          [] Has(ref, "array") -> ArrayNode(ParseTypeRef(At(ref, "array")))
          [] Has(ref, "union") -> UnionNode([i \in DOMAIN ItemsOf(At(ref, "union")) |-> ParseTypeRef(At(ref, "union").items[i])])
          [] Has(ref, "map") -> MapNode(ParseTypeRef(At(ref, "map")))
          [] Has(ref, "optional") -> OptionalNode(ParseTypeRef(At(ref, "optional")))
          [] IsObject(signature) -> SignatureNode(params, IF Has(signature, "returns") THEN ParseTypeRef(At(signature, "returns")) ELSE NoNode)
          [] OTHER -> UnknownNode

RECURSIVE ResolveTypeWords(_)
ResolveTypeWords(node) ==
    CASE node.kind = "name" ->
           (CASE node.name \in {"int", "integer", "float"} -> NameNode("number") [] node.name = "bool" -> NameNode("boolean")
              [] node.name = "array" -> ArrayNode(NameNode("any")) [] node.name = "object" -> MapNode(NameNode("any"))
              [] node.name = "function" -> FunctionNode [] OTHER -> node)
      [] node.kind = "array" -> ArrayNode(ResolveTypeWords(node.element))
      [] node.kind = "union" -> UnionNode([i \in DOMAIN node.members |-> ResolveTypeWords(node.members[i])])
      [] node.kind = "map" -> MapNode(ResolveTypeWords(node.value))
      [] node.kind = "optional" -> OptionalNode(ResolveTypeWords(node.inner))
      [] node.kind = "signature" -> [node EXCEPT !.returns = ResolveTypeWords(@)]
      [] OTHER -> node
Resolved(ref) == ResolveTypeWords(ParseTypeRef(ref))

(* A function is what may be retained or passed as a callback. *)
Unwrapped(node) == IF node.kind = "optional" THEN node.inner ELSE node
IsFunctionTyped(ref) == Unwrapped(Resolved(ref)).kind \in {"function", "signature"}

(* The parts of a node, and the nodes of its parameters apart. *)
Below(node) ==
    CASE node.kind = "array" -> {node.element} [] node.kind = "union" -> Range(node.members) [] node.kind = "map" -> {node.value}
      [] node.kind = "optional" -> {node.inner} [] node.kind = "signature" -> {node.returns} \ {NoNode} [] OTHER -> {}
ParamRefs(node) == IF node.kind = "signature" THEN {At(p, "type") : p \in Range(node.params)} ELSE {}

RECURSIVE NamesIn(_)
NamesIn(node) ==
    (IF node.kind = "name" THEN {node.name} \ PrimitiveTypeNames ELSE {})
    \cup UNION {NamesIn(n) : n \in Below(node)} \cup UNION {NamesIn(Resolved(r)) : r \in ParamRefs(node)}
TypeRefNames(ref) == NamesIn(Resolved(ref))

RECURSIVE HasFunction(_)
HasFunction(node) == node.kind \in {"function", "signature"} \/ \E n \in Below(node) : HasFunction(n)
ContainsFunctionType(ref) == ref # Undefined /\ HasFunction(Resolved(ref))

(* The spellings lint would replace: the type words, and the T? suffix. *)
RECURSIVE WordsIn(_), SuffixIn(_)
WordsIn(node) ==
    (IF node.kind = "name" THEN {node.name} \cap TypeWords ELSE {})
    \cup UNION {WordsIn(n) : n \in Below(node)} \cup UNION {WordsIn(ParseTypeRef(r)) : r \in ParamRefs(node)}
SuffixIn(ref) ==
    IF IsString(ref) THEN \E i \in DOMAIN ref.string : ref.string[i] = "?"
    ELSE \/ \E k \in {"array", "map", "optional"} : Has(ref, k) /\ SuffixIn(At(ref, k))
         \/ \E r \in Range(ItemsOf(At(ref, "union"))) : SuffixIn(r)
         \/ Has(At(ref, "function"), "returns") /\ SuffixIn(At(At(ref, "function"), "returns"))
NonCanonicalSpellings(ref) == WordsIn(ParseTypeRef(ref)) \cup (IF SuffixIn(ref) THEN {"T?"} ELSE {})

-----------------------------------------------------------------------------
(* Rendering to TypeScript, as a list of tokens. *)

IsOptionalParameter(p) == Has(p, "default") \/ At(p, "required") = False \/ At(p, "optional") = True

(* A parameter's name is only a label: a reserved word or a name taken before it gets a suffix. *)
SafeLabel(name) == IF name \in UnsafeIdentifiers THEN name \o "_" ELSE name
LabelOf(p) == SafeLabel(IF IsString(At(p, "name")) THEN At(p, "name").string ELSE "arg")
Numbered(label, n) == IF n = 1 THEN label ELSE label \o ToString(n)
(* The first spelling of a label not used before it. *)
Unused(used, label) ==
    LET free == {n \in 1..(Len(used) + 1) : Numbered(label, n) \notin Range(used)}
    IN  Numbered(label, CHOOSE n \in free : \A k \in free : n <= k)
ParameterIdentifiers(params) == FoldLeft(LAMBDA used, p : Append(used, Unused(used, LabelOf(p))), <<>>, params)

Wrapped(text, binds, minimum) == IF binds < minimum THEN <<"(">> \o text \o <<")">> ELSE text
Binds(node) == CASE node.kind \in {"function", "signature"} -> 0 [] node.kind \in {"union", "optional"} -> 1 [] OTHER -> 2
JoinText(texts, sep) == FoldLeft(LAMBDA acc, t : IF acc = <<>> THEN t ELSE acc \o <<sep>> \o t, <<>>, texts)

(* A mutated form: the element of an array is never put in parentheses. *)
UnwrappedElement(node, minimum, text) == text
Wrap(node, minimum, text) == Wrapped(text, Binds(node), minimum)

RECURSIVE Render(_)
RenderParameter(p, id, type, beforeRequired) ==
    CASE At(p, "variadic") = True -> <<"...", id, ":">> \o Wrap(Resolved(At(p, "type")), 2, type) \o <<"[]">>
      [] ~ IsOptionalParameter(p) -> <<id, ":">> \o type
      [] beforeRequired -> <<id, ":">> \o type \o <<"|", "undefined">>
      [] OTHER -> <<id, "?:">> \o type
ParametersToTypeScript(params, types) ==
    LET ids == ParameterIdentifiers(params)
        required == {i \in DOMAIN params : At(params[i], "variadic") # True /\ ~ IsOptionalParameter(params[i])}
    IN  JoinText([i \in DOMAIN params |-> RenderParameter(params[i], ids[i], types[i], \E j \in required : j > i)], ",")
Render(node) ==
    CASE node.kind = "name" -> <<node.name>>
      [] node.kind = "function" -> <<"(", "...", "args", ":", "any", "[]", ")", "=>", "any">>
      [] node.kind = "signature" ->
           <<"(">> \o ParametersToTypeScript(node.params, [i \in DOMAIN node.params |-> Render(Resolved(At(node.params[i], "type")))]) \o <<")", "=>">>
           \o (IF node.returns = NoNode THEN <<"void">> ELSE Render(node.returns))
      [] node.kind = "array" -> Wrap(node.element, 2, Render(node.element)) \o <<"[]">>
      [] node.kind = "map" -> <<"Record<">> \o Render(node.value) \o <<">">>
      [] node.kind = "union" -> JoinText([i \in DOMAIN node.members |-> Wrap(node.members[i], 1, Render(node.members[i]))], "|")
      [] node.kind = "optional" -> Wrap(node.inner, 1, Render(node.inner)) \o <<"|", "undefined">>
      [] OTHER -> <<"unknown">>
TypeRefToTypeScript(ref) == Render(Resolved(ref))

-----------------------------------------------------------------------------
(* What the rendered text means: a reader of TypeScript's types, in which a function type takes
   everything to its right and may stand in a union or under a suffix only in parentheses. A
   type is the set of its alternatives; <<>> is a text that is not a type. *)

RECURSIVE ReadType(_, _), ReadParams(_, _, _, _), ReadMembers(_, _, _), ReadPostfix(_, _), ReadSuffix(_, _, _)
Closes(ts, i) == CHOOSE j \in i..Len(ts) :
    /\ Cardinality({k \in i..j : ts[k] = "("}) = Cardinality({k \in i..j : ts[k] = ")"})
    /\ \A m \in i..(j - 1) : Cardinality({k \in i..m : ts[k] = "("}) > Cardinality({k \in i..m : ts[k] = ")"})
OpensFunction(ts, i) == TokenAt(ts, i) = "(" /\ TokenAt(ts, Closes(ts, i) + 1) = "=>"

ReadType(ts, i) ==
    LET params == ReadParams(ts, i + 1, <<>>, FALSE)
        result == ReadType(ts, params[2] + 2)
    IN  IF ~ OpensFunction(ts, i) THEN ReadMembers(ts, i, {})
        ELSE IF params = <<>> THEN <<>>
        ELSE IF result = <<>> THEN <<>> ELSE <<{[fn |-> params[1], returns |-> result[1]]}, result[2]>>

(* No two parameters share a name, none that is needed follows one that is not, a rest is last. *)
ReadParams(ts, i, done, marked) ==
    LET rest == TokenAt(ts, i) = "..."
        at == IF rest THEN i + 1 ELSE i
        optional == TokenAt(ts, at + 1) = "?:"
        type == ReadType(ts, at + 2)
        param == [id |-> TokenAt(ts, at), rest |-> rest, type |-> type[1] \cup (IF optional THEN {[name |-> "undefined"]} ELSE {})]
        fits == \A k \in DOMAIN done : ~ done[k].rest /\ done[k].id # param.id
        follows == marked /\ ~ optional /\ ~ rest
    IN  IF TokenAt(ts, i) = ")" THEN <<done, i>>
        ELSE IF type = <<>> THEN <<>>
        ELSE IF ~ fits \/ follows THEN <<>>
        ELSE ReadParams(ts, IF TokenAt(ts, type[2]) = "," THEN type[2] + 1 ELSE type[2], Append(done, param), marked \/ optional)

ReadMembers(ts, i, seen) ==
    LET After(one) == IF one = <<>> THEN <<>>
                      ELSE IF TokenAt(ts, one[2]) = "|" THEN ReadMembers(ts, one[2] + 1, seen \cup one[1]) ELSE <<seen \cup one[1], one[2]>>
    IN  IF OpensFunction(ts, i) THEN <<>> ELSE After(ReadPostfix(ts, i))
ReadSuffix(ts, i, type) == IF TokenAt(ts, i) = "[]" THEN ReadSuffix(ts, i + 1, {[array |-> type]}) ELSE <<type, i>>
ReadPostfix(ts, i) ==
    LET ends == IF TokenAt(ts, i) = "(" THEN ")" ELSE ">"
        Closed(inner) == IF inner = <<>> THEN <<>> ELSE IF TokenAt(ts, inner[2]) # ends THEN <<>>
                         ELSE ReadSuffix(ts, inner[2] + 1, IF ends = ")" THEN inner[1] ELSE {[map |-> inner[1]]})
    IN  IF TokenAt(ts, i) \in {"(", "Record<"} THEN Closed(ReadType(ts, i + 1))
        ELSE IF TokenAt(ts, i) \in {"", ")", ">", "[]", "|", ",", "=>", "...", ":", "?:"} THEN <<>>
        ELSE ReadSuffix(ts, i + 1, {[name |-> ts[i]]})

(* The same alternatives read off the tree. *)
RECURSIVE Alternatives(_)
Alternatives(node) ==
    LET ids == ParameterIdentifiers(node.params)
        Type(p) == Alternatives(Resolved(At(p, "type")))
        Param(i) == LET p == node.params[i]
                        rest == At(p, "variadic") = True
                    IN  [id |-> ids[i], rest |-> rest,
                         type |-> IF rest THEN {[array |-> Type(p)]} ELSE IF IsOptionalParameter(p) THEN Type(p) \cup {[name |-> "undefined"]} ELSE Type(p)]
    IN  CASE node.kind = "name" -> {[name |-> node.name]}
          [] node.kind = "array" -> {[array |-> Alternatives(node.element)]}
          [] node.kind = "map" -> {[map |-> Alternatives(node.value)]}
          [] node.kind = "union" -> UNION {Alternatives(m) : m \in Range(node.members)}
          [] node.kind = "optional" -> Alternatives(node.inner) \cup {[name |-> "undefined"]}
          [] node.kind = "function" -> {[fn |-> <<[id |-> "args", rest |-> TRUE, type |-> {[array |-> {[name |-> "any"]}]}]>>, returns |-> {[name |-> "any"]}]}
          [] node.kind = "signature" -> {[fn |-> [i \in DOMAIN node.params |-> Param(i)],
                                          returns |-> IF node.returns = NoNode THEN {[name |-> "void"]} ELSE Alternatives(node.returns)]}
          [] OTHER -> {[name |-> "unknown"]}

(* Where the renderer forgets the parentheses (type-ref.ts:102): an optional parameter of a function
   type that a required one follows. It is written `f: () => T | undefined`, which makes the
   result optional and leaves the parameter needed, in spite of spec/bindings.md:122. *)
Required(p) == At(p, "variadic") # True /\ ~ IsOptionalParameter(p)
Bares(p, type) == At(p, "variadic") # True /\ IsOptionalParameter(p) /\ Binds(type) = 0
RECURSIVE LeavesBare(_)
LeavesBare(node) ==
    \/ \E n \in Below(node) : LeavesBare(n)
    \/ /\ node.kind = "signature"
       /\ \E i \in DOMAIN node.params : \E type \in {Resolved(At(node.params[i], "type"))} :
             LeavesBare(type) \/ (Bares(node.params[i], type) /\ \E j \in DOMAIN node.params : j > i /\ Required(node.params[j]))

(* The TypeScript a reference is rendered as is a type; it reads as the type it stands for exactly
   when no optional function is left bare before a required parameter. *)
RendersItsMeaning(ref) ==
    LET text == TypeRefToTypeScript(ref)
        read == ReadType(text, 1)
    IN  /\ read # <<>> /\ read[2] = Len(text) + 1
        /\ (read[1] = Alternatives(Resolved(ref))) <=> ~ LeavesBare(Resolved(ref))

-----------------------------------------------------------------------------
(* What a binding's declaration says of the callbacks it is given: where in the arguments one may
   be retained (runtimes/js/src/retain-positions.ts), and which arguments must be functions
   (callbacks.ts). A place is a path: the number of an argument, then the keys and indices below
   it. *)

(* The runtime reads a reference by itself: it knows `function` among the type words and no other,
   and keeps nothing of a signature. *)
RECURSIVE FunctionWords(_)
FunctionWords(node) ==
    CASE node = NameNode("function") -> FunctionNode
      [] node.kind = "array" -> ArrayNode(FunctionWords(node.element))
      [] node.kind = "optional" -> OptionalNode(FunctionWords(node.inner))
      [] node.kind = "union" -> UnionNode([i \in DOMAIN node.members |-> FunctionWords(node.members[i])])
      [] OTHER -> node
RuntimeTypeString(ts) == FunctionWords(ParseTypeString(ts))
RECURSIVE RuntimeTypeRef(_)
RuntimeTypeRef(ref) ==
    CASE IsString(ref) -> RuntimeTypeString(ref.string)
      [] Has(ref, "function") -> FunctionNode
      [] Has(ref, "optional") -> OptionalNode(RuntimeTypeRef(At(ref, "optional")))
      [] Has(ref, "array") -> ArrayNode(RuntimeTypeRef(At(ref, "array")))
      [] Has(ref, "map") -> MapNode(RuntimeTypeRef(At(ref, "map")))
      [] IsList(At(ref, "union")) -> UnionNode([i \in DOMAIN At(ref, "union").items |-> RuntimeTypeRef(At(ref, "union").items[i])])
      [] OTHER -> NameNode("")

DeclaredFields(types, name) == At(At(types, name), "fields")

(* A mutated form: the mark of a parameter covers the functions inside it as well. *)
RECURSIVE MarkCoversAll(_, _, _, _)
MarkCoversAll(node, retainHere, steps, types) ==
    CASE node.kind = "function" -> retainHere /\ steps = <<>>
      [] node.kind = "optional" -> MarkCoversAll(node.inner, retainHere, steps, types)
      [] node.kind \in {"array", "map"} -> steps # <<>> /\ MarkCoversAll(IF node.kind = "array" THEN node.element ELSE node.value, retainHere, Tail(steps), types)
      [] node.kind = "union" -> \E m \in Range(node.members) : MarkCoversAll(m, retainHere, steps, types)
      [] OTHER -> steps # <<>> /\ Has(DeclaredFields(types, node.name), Head(steps))
                  /\ LET field == At(DeclaredFields(types, node.name), Head(steps))
                     IN  MarkCoversAll(RuntimeTypeRef(At(field, "type")), At(field, "retain") = True, Tail(steps), types)
(* Whether a type leads, along some steps, to a function that is marked: the mark of a parameter or
   a field holds for its own type or an optional of it. *)
RECURSIVE RetainsAt(_, _, _, _)
RetainsAt(node, retainHere, steps, types) ==
    CASE node.kind = "function" -> retainHere /\ steps = <<>>
      [] node.kind = "optional" -> RetainsAt(node.inner, retainHere, steps, types)
      [] node.kind = "array" -> steps # <<>> /\ RetainsAt(node.element, FALSE, Tail(steps), types)
      [] node.kind = "map" -> steps # <<>> /\ RetainsAt(node.value, FALSE, Tail(steps), types)
      [] node.kind = "union" -> \E m \in Range(node.members) : RetainsAt(m, FALSE, steps, types)
      [] OTHER -> steps # <<>> /\ Has(DeclaredFields(types, node.name), Head(steps))
                  /\ LET field == At(DeclaredFields(types, node.name), Head(steps))
                     IN  RetainsAt(RuntimeTypeRef(At(field, "type")), At(field, "retain") = True, Tail(steps), types)

(* The parameter an argument belongs to: the last one takes all the rest if it is variadic. *)
ParamOf(params, argument) ==
    LET last == Len(params)
    IN  CASE argument \in DOMAIN params -> <<params[argument]>>
          [] argument > last /\ last > 0 -> IF At(params[last], "variadic") = True THEN <<params[last]>> ELSE <<>>
          [] OTHER -> <<>>
RetainPositions(params, types, argument, steps) ==
    \E p \in Range(ParamOf(params, argument)) : RetainsAt(RuntimeTypeRef(At(p, "type")), At(p, "retain") = True, steps, types)

(* The parameters that must be functions, and the first argument that is none. *)
IsFunctionTypeRef(ref) == ref = Str(<<"function">>) \/ Has(ref, "function")
FunctionParamChecks(params) ==
    LET Wrapped1(p) == At(At(p, "type"), "optional")
    IN  {[index |-> i, optional |-> ~ IsFunctionTypeRef(At(params[i], "type")) \/ IsOptionalParameter(params[i])] :
            i \in {j \in DOMAIN params : IsFunctionTypeRef(At(params[j], "type")) \/ IsFunctionTypeRef(Wrapped1(params[j]))}}
Refuses(check, seen) == seen[check.index] # "function" /\ ~ (check.optional /\ seen[check.index] \in {"undefined", "null"})
FunctionParamViolation(params, seen) == \E check \in FunctionParamChecks(params) : Refuses(check, seen)

-----------------------------------------------------------------------------
(* The declarations, parameters or fields, whose own value stands at the end of some steps: the
   types are the validator's reading of them. *)

RECURSIVE Landings(_, _)
Landings(node, steps) ==
    CASE node.kind \in {"optional", "union"} -> UNION {Landings(n, steps) : n \in Below(node)}
      [] node.kind \in {"array", "map"} /\ steps # <<>> -> UNION {Landings(n, Tail(steps)) : n \in Below(node)}
      [] node.kind = "name" /\ steps # <<>> -> {<<node.name, steps>>}
      [] OTHER -> {}
RECURSIVE Holders(_, _, _)
Holders(declaration, steps, types) ==
    IF steps = <<>> THEN {declaration}
    ELSE LET fields == {l \in Landings(Resolved(At(declaration, "type")), steps) : Has(DeclaredFields(types, l[1]), Head(l[2]))}
         IN  UNION {Holders(At(DeclaredFields(types, l[1]), Head(l[2])), Tail(l[2]), types) : l \in fields}

(* A callback may be retained exactly at the parameters and fields that are marked and that the
   validator takes for functions, at any depth, and nowhere inside them. *)
RetainedWhereMarked(params, types, argument, steps) ==
    RetainPositions(params, types, argument, steps)
    <=> \E p \in Range(ParamOf(params, argument)) : \E d \in Holders(p, steps, types) :
            At(d, "retain") = True /\ IsFunctionTyped(At(d, "type"))

(* A call is refused exactly when a parameter that is declared a function is given something else;
   one that may be left out may be. A T? spelling of an optional is not looked into. *)
RefusedAsDeclared(params, seen) ==
    FunctionParamViolation(params, seen) <=>
        \E i \in DOMAIN params :
            LET type == At(params[i], "type")
                mayBeAbsent == IsOptionalParameter(params[i]) \/ Resolved(type).kind = "optional"
            IN  /\ IsFunctionTyped(type) /\ ~ SuffixIn(type)
                /\ seen[i] # "function"
                /\ ~ (mayBeAbsent /\ seen[i] \in {"undefined", "null"})
=============================================================================
