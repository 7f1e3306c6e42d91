---------------------------- MODULE MCFragments ----------------------------
(***************************************************************************)
(* Instances for TLC of everything a fragment goes through: the renders of *)
(* Fragment, and questions put to the pure parts (the grammar, the static  *)
(* reading, the text scanner, the sanitizer and the op pass), one a step.  *)
(* The values a host and its scripts exchange are asked about beside them, *)
(* as MCCrossing has it.                                                   *)
(***************************************************************************)
EXTENDS ExprLint, Formats

CONSTANTS
    Questions,   \* what may be asked of each pure part
    MAX_CROSSING_DEPTH, NATIVE_STRINGIFY_DEPTH, UNTRACKED_CONTAINERS, MAX_JSON_DEPTH
VARIABLE asked
V == INSTANCE MCCrossing
ASSUME DepthsAssumption == V!DepthsInOrder

mcVars == <<fragmentVars, asked>>
Nothing == [about |-> "nothing"]

MCInit == FragmentInit /\ asked = Nothing
Render == asked = Nothing /\ FragmentNext /\ UNCHANGED asked
Ask ==
    /\ template = <<>> /\ renders = 0
    /\ \/ asked = Nothing /\ \E part \in DOMAIN Questions : asked' = [about |-> "part", part |-> part]
       \/ asked.about = "part" /\ asked' \in Questions[asked.part]
    /\ UNCHANGED fragmentVars
MCNext == Render \/ Ask
MCSpec == MCInit /\ [][MCNext]_mcVars

-----------------------------------------------------------------------------
(* The grammar. *)

MCLiterals == ("1" :> Num(1)) @@ ("0" :> Num(0)) @@ ("'a'" :> Str(<<"a">>)) @@ ("true" :> Bool(TRUE)) @@ ("null" :> Null)
MCCodeUnit == [c \in {"a"} |-> 97] @@ ("A" :> 65) @@ (" " :> 32) @@ ("true" :> 116) @@ ("false" :> 102) @@ ("," :> 44)
              @@ [c \in {ToString(n) : n \in 0..9} |-> 48] @@ ("-1" :> 45) @@ ("." :> 46)
MCUpper == "a" :> "A"
MCNumerals == -2..9

Name(n) == [t |-> "name", name |-> n]
Lit(tok) == [t |-> "lit", v |-> MCLiterals[tok]]
Member(obj, n) == [t |-> "member", obj |-> obj, name |-> n]
Call(n, args) == [t |-> "call", name |-> n, args |-> args]

\* Trees one operator deep over some operands, and two deep.
Over(ops, operands) ==
    {Joined(op, l, r) : op \in ops, l \in operands, r \in operands}
    \cup {[t |-> "unary", op |-> op, arg |-> a] : op \in {"!", "-"}, a \in operands}
    \cup {[t |-> "index", obj |-> a, index |-> b] : a \in operands, b \in operands}
    \cup {Member(a, "k") : a \in operands}
Atoms == {Name("x"), Lit("1")}
Shallow == Atoms \cup Over({"??", "||", "==", "<", "-", "*"}, Atoms)
           \cup {[t |-> "cond", test |-> a, cons |-> Name("x"), alt |-> a] : a \in Atoms} \cup {Call("max", <<a, Name("x")>>) : a \in Atoms}
Deep == Over({"??", "&&", "==", "<=", "+", "-", "*"}, Shallow)
        \cup {[t |-> "cond", test |-> a, cons |-> b, alt |-> Name("x")] : a \in Shallow, b \in Shallow}
        \cup {[t |-> "cond", test |-> Name("x"), cons |-> Name("x"), alt |-> a] : a \in Shallow}

GrammarQuestions == {[about |-> "grammar", ast |-> a] : a \in Deep}
                    \cup {[about |-> "header", item |-> i, index |-> j, ast |-> a] :
                            i, j \in {"x", "row", "null", "in", "function"}, a \in Shallow}

\* The parser against its reference.
ParserFollows ==
    CASE asked.about = "grammar" -> ParserFollowsReference(asked.ast, [x |-> Num(2)])
      [] asked.about = "header" -> HeaderReadsBack(asked.item, asked.index, asked.ast)
      [] OTHER -> TRUE

-----------------------------------------------------------------------------
(* Static findings: names of declared types, and a call of every builtin. *)

MCTypes == [n |-> "num", s |-> "str", b |-> "bool"]
MCSamples == {Null, Num(0), Num(1), Str(<<"a">>), Str(<<"1">>), Str(<<>>), Bool(TRUE), Bool(FALSE)}
Typed == {Name("n"), Name("s"), Name("b"), Lit("1"), Lit("'a'"), Lit("null")}
ArgumentLists(f) ==
    LET most == IF Builtins[f].variadic THEN 2 ELSE Len(Builtins[f].params)
    IN  UNION {[1..k -> Typed] : k \in Builtins[f].min..most}
TypedQuestions ==
    {[about |-> "types", ast |-> a] :
        a \in {Joined(op, l, r) : op \in {"+", "-", "%", "<", ">="}, l \in Typed, r \in Typed}
              \cup {Member(a, "length") : a \in Typed} \cup {[t |-> "index", obj |-> a, index |-> b] : a \in Typed, b \in Typed}
              \cup UNION {{Call(f, args) : args \in ArgumentLists(f)} : f \in DOMAIN Builtins}
              \cup {Call("max", <<Call(f, <<a>>), Joined("<", a, a)>>) : f \in {"str", "bool", "abs"}, a \in Typed}}

FindingsHold == asked.about = "types" => FindingsAreTrue(asked.ast, MCTypes, MCSamples)

-----------------------------------------------------------------------------
(* Texts with interpolation sites. *)

MCIsExpression(body) == body # <<>> /\ \A i \in 1..Len(body) : body[i] = "x"
Texts == UNION {[1..k -> {"\\", "{", "}", "x"}] : k \in 0..6}
         \cup {a \o <<"{", "{", "x", "}", "}">> \o b : a, b \in UNION {[1..k -> {"\\", "{", "x"}] : k \in 0..3}}
TextQuestions == {[about |-> "text", text |-> t] : t \in Texts}

TextsRoundTrip == asked.about = "text" => SegmentsRoundTrip(asked.text)

-----------------------------------------------------------------------------
(* Markup. *)

MCLower == ("DIV" :> "div") @@ ("viewBox" :> "viewbox") @@ ("OnClick" :> "onclick") @@ ("Script" :> "script")
MCAllowedElements == {"div", "svg", "style", "br"}
MCStrippedElements == {"script", "title"}
MCUnwrappedElements == {"body"}
MCSvgTextElements == {"title"}
MCVoidElements == {"br"}
MCRawTextElements == {"script", "title", "style"}
MCCustomElementNames == {"x-card", "x-row"}
MCAllowedAttributes == {"href", "src", "style", "id", "viewbox"}
MCSvgTextAttributes == {"id"}
MCMetadataNames == {"data-k", "data-bind"}
MCEventNames == {"onclick"}
MCForbiddenNames == {"__proto__"}
MCMalformedNames == {"1x"}
MCScheme == ("https:u" :> "https") @@ ("js:u" :> "javascript") @@ ("data:png" :> "data") @@ ("data:txt" :> "data") @@ ("app:u" :> "app")
MCSafeImages == {"data:png"}
MCTrimmed == " https:u" :> "https:u"
\* A style with a url() in it, one that is nothing else, and one url() spelled around another.
MCStyleTokens == ("css" :> <<"css">>) @@ ("" :> <<>>) @@ ("css+bad" :> <<"css", "url", "(", "x", ")">>)
                 @@ ("bad" :> <<"behavior", ":", "x">>) @@ ("url(y)" :> <<"url", "(", "y", ")">>)
                 @@ ("urlurl(x)(y)" :> <<"url", "url", "(", "x", ")", "(", "y", ")">>)
DivWith(attrs) == <<OpenTag("div", attrs, FALSE), CloseTag("div")>>
MCHtmlTokens == ("<div onclick>" :> DivWith(<<[name |-> "onclick", value |-> StrVal("x")]>>)) @@ ("<div>" :> DivWith(<<>>))
                @@ ("<div style>" :> DivWith(<<[name |-> "style", value |-> StrVal("urlurl(x)(y)")]>>))
                @@ ("<div style=url(y)>" :> DivWith(<<[name |-> "style", value |-> StrVal("url(y)")]>>))
MCHtmlCleaned == [s \in DOMAIN MCHtmlTokens |-> IF s = "<div style>" THEN "<div style=url(y)>" ELSE "<div>"]

\* A card with a text, two rows below it that disagree about one prop, and a leaf.
Definition(props, children) == [props |-> props, children |-> children, bindTo |-> ""]
PropOf(sink) == [sink |-> sink, types |-> {}]
CardNodes == ("x-card" :> Definition(("to" :> PropOf("uri")) @@ ("art" :> PropOf("css")), {"x-row", "div"}))
             @@ ("x-row" :> Definition(("to" :> PropOf("text")) @@ ("art" :> PropOf("image-uri")) @@ ("body" :> PropOf("html")), TextOnly))
             @@ ("x-dot" :> Definition("size" :> [sink |-> "text", types |-> {"num"}], {}))
Cards == [kind |-> "declared", nodes |-> CardNodes]
\* Declared formats, as a manifest spells them.
MCFormats == ("cards" :> [syntax |-> "jsml", schemes |-> <<"#absent">>, inline |-> FALSE, nodes |-> <<>>, vocabularies |-> <<"app.cards">>])
             @@ ("mixed" :> [syntax |-> "html", schemes |-> <<"app", "data">>, inline |-> FALSE, nodes |-> <<>>, vocabularies |-> <<"app.cards", "html">>])
             @@ ("own" :> [syntax |-> "html", schemes |-> <<"#absent">>, inline |-> TRUE, nodes |-> ("Script" :> Definition(<<>>, AnyChild)),
                          vocabularies |-> <<"html">>])
             @@ ("late" :> [syntax |-> "html", schemes |-> <<"#absent">>, inline |-> FALSE, nodes |-> <<>>, vocabularies |-> <<"html", "app.cards">>])
             @@ ("bare" :> [syntax |-> "html", schemes |-> <<>>, inline |-> FALSE, nodes |-> <<>>, vocabularies |-> <<>>])
             @@ ("odd" :> [syntax |-> "yaml", schemes |-> <<>>, inline |-> FALSE, nodes |-> <<>>, vocabularies |-> <<"html">>])
             @@ ("vb" :> [syntax |-> "html", schemes |-> <<"app", "vbscript">>, inline |-> FALSE, nodes |-> <<>>, vocabularies |-> <<"html">>])
             @@ ("ref" :> [syntax |-> "html", schemes |-> <<"#malformed">>, inline |-> FALSE, nodes |-> <<>>, vocabularies |-> <<"nope">>])
             @@ ("undeclared" :> [syntax |-> "html", schemes |-> <<"#absent">>, inline |-> FALSE, nodes |-> <<>>, vocabularies |-> <<"nope">>])
MCVocabularies == "app.cards" :> CardNodes
Resolved(f) == ResolveFormatProfile(f, MCFormats, MCVocabularies)
Profiles == {Resolved(f).profile : f \in {g \in DOMAIN MCFormats \cup DOMAIN BuiltinProfiles : Resolved(g).ok}}

Prop(n, v) == [name |-> n, value |-> v]
PropLists == {<<>>, <<Prop("OnClick", StrVal("x")), Prop("id", StrVal("i"))>>, <<Prop("href", StrVal(" https:u"))>>,
              <<Prop("href", StrVal("js:u")), Prop("src", StrVal("data:png"))>>, <<Prop("style", StrVal("css+bad"))>>,
              <<Prop("to", StrVal("app:u")), Prop("viewbox", [t |-> "null", v |-> "null"])>>,
              <<Prop("art", StrVal("css+bad")), Prop("__proto__", StrVal("x")), Prop("data-bind", [t |-> "num", v |-> "1"])>>,
              <<Prop("style", StrVal("urlurl(x)(y)")), Prop("art", StrVal("urlurl(x)(y)")), Prop("body", StrVal("<div style>"))>>,
              <<Prop("body", StrVal("<div onclick>")), Prop("size", [t |-> "num", v |-> "1"]), Prop("1x", StrVal(""))>>}
TagNames == {"div", "DIV", "Script", "svg", "title", "style", "what", "body", "x-card", "x-row", "x-dot", "br"}
Leaf == TextNode(<<"w">>)
Trees == {<<Element(n, p, <<Leaf>>, FALSE)>> : n \in TagNames, p \in PropLists}
         \cup {<<Element(n, <<>>, <<Element(m, <<>>, <<Leaf, Element(k, <<>>, <<TextNode(<<"blank">>)>>, FALSE)>>, FALSE)>>, FALSE)>> :
                  n, m, k \in TagNames}
Tokens == {OpenTag(n, <<>>, FALSE) : n \in {"DIV", "Script", "svg", "title", "style", "what"}}
          \cup {CloseTag(n) : n \in {"div", "script", "svg", "title"}} \cup {TextToken(<<"w">>), OpenTag("br", <<>>, FALSE),
                 TextToken(<<"bad", ";", "css+bad">>), TextToken(<<"urlurl(x)(y)">>), TextToken(<<"{", "a", ":", "bad", ";", "b", ":", "css", ";", "c", "}">>)}
MarkupQuestions ==
    {[about |-> "tree", tree |-> t, profile |-> p, strict |-> s] : t \in Trees, p \in Profiles, s \in BOOLEAN}
    \cup {[about |-> "html", tokens |-> ts] : ts \in UNION {[1..k -> Tokens] : k \in 0..3}}

OpValues == {StrVal("app:u"), StrVal("urlurl(x)(y)"), StrVal("js:u"), StrVal("css+bad"), [t |-> "bool", v |-> "false"], [t |-> "null", v |-> "null"], [t |-> "obj", v |-> "{}"]}
NoChildren == [shape |-> "other", markup |-> <<>>, nodes |-> <<>>]
Ops == {[op |-> o, by |-> by, prop |-> p, value |-> v, children |-> NoChildren] :
            o \in {"toggle", "setText", "addClass", "setAttr", "setProp", "removeAttr"}, by \in {"id", "selector"},
            p \in {"", "to", "art", "body", "href", "style", "onclick", "nope"}, v \in OpValues}
       \cup {[op |-> "replaceChildren", by |-> "id", prop |-> "", value |-> StrVal(""), children |-> c] :
               c \in {[shape |-> "nodes", markup |-> <<>>, nodes |-> t] : t \in Trees}
                     \cup {[shape |-> "strings", markup |-> <<ts>>, nodes |-> <<>>] : ts \in [1..2 -> Tokens]} \cup {NoChildren}}
OpQuestions == {[about |-> "op", op |-> o, profile |-> p] : o \in Ops, p \in Profiles}

\* The sanitizer's three ways in.
Sanitized ==
    CASE asked.about = "tree" -> /\ SanitizedIsStable(asked.tree, asked.profile, asked.strict)
                                 /\ MarkupIsInert(asked.tree, asked.profile) /\ ValidMeansClean(asked.tree, asked.profile)
      [] asked.about = "html" -> HtmlIsStable(asked.tokens)
      [] OTHER -> TRUE
OpsFit == asked.about = "op" => OpFitsEverySink(asked.op, asked.profile)

\* Formats a host might declare: two vocabularies that may both have a say about a node and a prop.
LintProps == {<<>>} \cup {n :> [sink |-> k, types |-> t] : n \in {"to", "OnClick"}, k \in {"text", "uri", "css"}, t \in {{}, {"str"}, {"num"}}}
LintNodes == {<<>>} \cup {n :> Definition(p, AnyChild) : n \in {"x-card", "title"}, p \in LintProps}
             \cup {"x-dot" :> [Definition(p, AnyChild) EXCEPT !.bindTo = "to"] : p \in {<<>>, "to" :> [sink |-> "text", types |-> {}]}}
FormatOf(nodes, vocabularies, schemes) == [syntax |-> "j5ml", schemes |-> schemes, inline |-> nodes # <<>>, nodes |-> nodes, vocabularies |-> vocabularies]
LintQuestions == {[about |-> "format", formats |-> "f" :> FormatOf(own, vs, sch), vocabularies |-> "v" :> shared] :
                     own, shared \in LintNodes, vs \in {<<>>, <<"v">>, <<"v", "html">>}, sch \in {<<"#absent">>}}
                 \cup {[about |-> "format", formats |-> "f" :> FormatOf(<<>>, vs, sch), vocabularies |-> "v" :> <<>>] :
                     vs \in {<<>>, <<"v">>, <<"html">>, <<"html", "v">>, <<"w">>}, sch \in {<<"#absent">>, <<>>, <<"app">>, <<"vbscript">>, <<"#malformed">>}}
LintSamples == {StrVal("w"), [t |-> "num", v |-> "1"]}
MCPascal == ("f" :> "F") @@ ("v" :> "V") @@ ("w" :> "W") @@ ("x-card" :> "XCard") @@ ("x_card" :> "XCard") @@ ("node" :> "Node") @@ ("title" :> "Title") @@ ("x-dot" :> "XDot")
Nested == {("x-card" :> Definition(<<>>, c)) @@ ("x_card" :> Definition(<<>>, d)) @@ ("node" :> Definition(<<>>, TextOnly)) :
              c, d \in {{}, AnyChild, TextOnly, {"node"}, {"x-card", "node"}, {"div"}}}
TypedQuestions1 == {[about |-> "format", formats |-> "f" :> FormatOf(own, vs, <<"#absent">>), vocabularies |-> "v" :> shared] :
                       own \in {<<>>, "node" :> Definition(<<>>, AnyChild)}, shared \in Nested, vs \in {<<"v">>, <<"v", "html">>}}
FormatsForetold ==
    asked.about = "format" => /\ LintForetells("f", asked.formats, asked.vocabularies, LintSamples)
                              /\ TypesForetell(asked.formats, asked.vocabularies)

MCQuestions == V!MCQuestions @@ [grammar |-> GrammarQuestions, types |-> TypedQuestions, texts |-> TextQuestions,
                markup |-> MarkupQuestions, ops |-> OpQuestions, formats |-> LintQuestions \cup TypedQuestions1]

-----------------------------------------------------------------------------
(* Templates and data: rows of keyed items, each with tags of its own. *)

Plain(name, cond, bind, kids) ==
    [kind |-> "element", name |-> name, segs |-> <<>>, each |-> None, key |-> None, cond |-> cond, bind |-> bind, kids |-> kids]
Each(item, source, key, node) == [node EXCEPT !.each = [item |-> item, index |-> "i", expr |-> source], !.key = key]
Says1(ast) == [kind |-> "text", name |-> "#text", segs |-> <<[kind |-> "literal", words |-> <<"w">>], [kind |-> "expr", ast |-> ast]>>,
               each |-> None, key |-> None, cond |-> None, bind |-> None, kids |-> <<>>]
RowKey == Member(Name("row"), "id")
Tags == Each("tag", Member(Name("row"), "tags"), Name("tag"), Plain("div", Joined("==", Name("tag"), Name("hot")), None, <<Says1(Name("tag"))>>))
Rows(kids) == Each("row", Name("rows"), RowKey, Plain("x-card", None, None, kids))
After == Plain("div", Name("hot"), None, <<Says1(Name("rows"))>>)
FlatTemplate == <<Rows(<<Plain("div", Joined("==", RowKey, Name("hot")), None, <<Says1(Name("i"))>>)>>), After, Plain("br", None, Name("hot"), <<>>)>>
NestedTemplate == <<After, Rows(<<Tags, Plain("div", RowKey, None, <<>>)>>)>>
UnkeyedTemplate == <<Plain("div", None, None, <<Each("rows", Name("rows"), None, Plain("div", None, Member(Name("rows"), "id"), <<>>))>>),
                     [Plain("div", Name("hot"), None, <<>>) EXCEPT !.key = Name("hot")]>>
\* Keyed tags in rows that every render replaces.
ReplacedTemplate == <<Each("row", Name("rows"), None, Plain("x-card", None, None, <<Tags>>))>>
\* "class" is a word the grammar does not let stand as a name; a binding may still be called so.
RawBind == [t |-> "raw", name |-> "class"]
\* Rows that a data-bind above them is written over.
CoveredTemplate == <<Plain("div", None, Name("hot"), <<Rows(<<>>)>>), Plain("div", None, RawBind, <<>>)>>
MCTemplates == {<<>>, FlatTemplate, NestedTemplate, UnkeyedTemplate, ReplacedTemplate, CoveredTemplate}
Row(id, tags) == [t |-> "obj", v |-> [id |-> id, tags |-> [t |-> "arr", v |-> tags]]]
A == Row(Str(<<"a">>), <<Str(<<"a">>), Num(1)>>)
B == Row(Num(1), <<Num(1), Str(<<"a">>)>>)
C == Row(Str(<<"1">>), <<Str(<<"a">>), Str(<<"a">>)>>)
Keyless == Row(Null, <<>>)
RowLists == {<<>>, <<A>>, <<A, B>>, <<B, A>>, <<A, B, C>>, <<C, A, B>>, <<C, B, A>>, <<A, A>>, <<B, Keyless>>, <<A, B, C, A>>}
MCData == {[t |-> "obj", v |-> [list |-> [t |-> "arr", v |-> rows], hot |-> h]] : rows \in RowLists, h \in {Str(<<"a">>)}}
          \cup {[t |-> "obj", v |-> [hot |-> Null]]}
MCDeclared == ("class" :> <<[key |-> "hot", index |-> -1]>>) @@ [spare |-> <<[key |-> "hot", index |-> -1]>>, rows |-> <<[key |-> "list", index |-> -1]>>, hot |-> <<[key |-> "hot", index |-> -1]>>]
MCProfile == [id |-> "mixed", syntax |-> "html", scope |-> <<Cards, HtmlVocabulary>>, schemes |-> {"app"}, builtin |-> FALSE]

-----------------------------------------------------------------------------
(* What the run checks, the parts above put together.                      *)

\* The paths a render reports, and the patches from one render to the next, fit the tree the
\* host draws (fragment.ts processTree, repeat.ts diffRepeat), but for what a data-bind above has
\* written over and for a repeat inside a copy that was drawn anew: its patch reuses nodes that
\* went with the old copy, and exactly those are missing.
RepeatsAddressTree == PathsAddressTree /\ PatchesReachTree
\* What is said of a fragment before it is rendered is so when it is: the names it reads
\* (fragmentReadNames), what its expressions are blamed for, and what a format will refuse. The
\* names missed are those of a data-bind outside the grammar, which is reported invalid.
StaticReadingHolds == ReadsCoverRender /\ FindingsHold /\ FormatsForetold
\* An expression parses into the tree it was written from, and a text with interpolation sites
\* reads back from its segments (expr.ts, interpolate.ts).
ReadsBack == ParserFollows /\ TextsRoundTrip
\* Nothing the sanitizer or the op pass lets through is something it would refuse (tree.ts,
\* html.ts, ops.ts), but for a style that removing one match turns into another (rules.ts looks
\* once): there a second pass changes what the first one left.
SanitizedHolds == Sanitized /\ OpsFit
\* Values cross between script and host whole, in both directions and by either encoding, and
\* the engine's unguarded recursion is kept within what it is trusted with (crossing.ts); but for
\* a text in which a NUL and a lone surrogate leave the length as it was, and a symbol's
\* description, which come out changed and unnoticed.
ValuesCross == V!ReadsIntact /\ V!NativeDepthBounded /\ V!ArrivesIntact
\* What is installed, what is reported installed and what is reported missing agree, and none of
\* it can be changed (presence.ts, sandbox.ts); but for a getter beside a caller-aware sibling,
\* which with-caller.ts copies to a value: it is absent and nobody is told.
SurfaceTold == V!PresenceTold /\ V!GlobalsSealed
\* Node's values cross whole, and neither side is handed an object of the other's realm
\* (realm.ts); but for what only a container of the context's own holds that is not converted,
\* for errors and promises in a circle, whose crossing is never done, and for functions in an
\* argument that leads back to itself.
RealmsApart == V!RealmsApart

=============================================================================
