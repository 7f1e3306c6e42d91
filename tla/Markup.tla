------------------------------- MODULE Markup -------------------------------
(***************************************************************************)
(* Fragment markup (tools/sanitize/src): the vocabularies a format brings  *)
(* into scope, the sanitizer that walks a tree against them, and the       *)
(* projection between HTML tokens and trees.                               *)
(*                                                                         *)
(* A node is [kind, name, text, props, kids, selfClosing]; text is a       *)
(* sequence of words and props a sequence of [name, value] in source       *)
(* order.  A prop value is [t, v] with v what String(value) yields.        *)
(* Tokens are the tokenizer's output, so that escaping and decoding, each  *)
(* other's inverse, stay below the model.  A text that a style or html     *)
(* cleaner looks into is a name for the tokens it is read as, and what the *)
(* cleaner makes of them is named again; any other text has nothing in it  *)
(* to clean.                                                               *)
(***************************************************************************)
EXTENDS Integers, Sequences, SequencesExt, FiniteSets, FiniteSetsExt

CONSTANTS
    Lower,                                                  \* toLowerCase, where it changes a name
    AllowedElements, StrippedElements, UnwrappedElements, SvgTextElements, VoidElements, RawTextElements,
    CustomElementNames,                                     \* the names isCustomElementName accepts
    AllowedAttributes, SvgTextAttributes, MetadataNames, EventNames, ForbiddenNames, MalformedNames,
    Scheme,                                                 \* the scheme a text opens with, where it has one
    SafeImages,                                             \* SAFE_DATA_IMAGE_PATTERN
    Trimmed,                                                \* trim, where it changes a text
    StyleTokens, HtmlTokens,                                \* the texts that are looked into, and what they hold
    HtmlCleaned                                             \* what the sanitizer below makes of HtmlTokens' texts

Via(f, s) == IF s \in DOMAIN f THEN f[s] ELSE s
LowerOf(name) == Via(Lower, name)
Refused == "#refused"
ProhibitedSchemes == {"javascript", "vbscript"}
DefaultSchemes == {"http", "https", "mailto", "data"}
ProtocolProps == {"id", "data-bind", "data-if", "data-each", "data-key"}

NoProps == <<>>
TextNode(words) == [kind |-> "text", name |-> "#text", text |-> words, props |-> NoProps, kids |-> <<>>, selfClosing |-> FALSE]
Element(name, props, kids, selfClosing) ==
    [kind |-> "element", name |-> name, text |-> <<>>, props |-> props, kids |-> kids, selfClosing |-> selfClosing]
StrVal(s) == [t |-> "str", v |-> s]

\* setProp: a name already written keeps its place.
SetProp(props, name, value) ==
    IF \E i \in 1..Len(props) : props[i].name = name
    THEN [i \in 1..Len(props) |-> IF props[i].name = name THEN [name |-> name, value |-> value] ELSE props[i]]
    ELSE Append(props, [name |-> name, value |-> value])

-----------------------------------------------------------------------------
(* rules.ts *)

IsAllowedAttribute(name) ==
    \/ name \in MetadataNames
    \/ name \notin EventNames /\ name \in AllowedAttributes

\* sanitizeUri: what to keep, or Refused.
SanitizeUri(s, attr, schemes) ==
    LET uri == Via(Trimmed, s)
        scheme == IF uri \in DOMAIN Scheme THEN Scheme[uri] ELSE "none"
    IN  CASE scheme = "none" -> uri
          [] scheme \in ProhibitedSchemes \/ scheme \notin schemes -> Refused
          [] scheme = "data" -> IF attr = "src" /\ uri \in SafeImages THEN uri ELSE Refused
          [] OTHER -> uri

\* The text with these tokens.
TextOf(texts, tokens) == CHOOSE s \in DOMAIN texts : texts[s] = tokens

\* DANGEROUS_STYLE_PATTERNS: where the match of word's pattern that opens at i ends, 0 where there is none.
PatternEnd(ts, i, word) ==
    LET closes == {j \in (i + 2)..Len(ts) : ts[j] = ")"}
        stops == {j \in (i + 2)..Len(ts) : ts[j] \in {";", "}"}} \cup {Len(ts) + 1}
        Then(t) == i < Len(ts) /\ ts[i + 1] = t
    IN  CASE ts[i] # word -> 0
          [] word \in {"url", "expression"} -> IF Then("(") /\ closes # {} THEN Min(closes) ELSE 0
          [] OTHER -> IF Then(":") THEN Min(stops) - 1 ELSE 0

\* value.replace(pattern, "") with the g flag: one pass, which does not look again at what it joins.
Without(ts, word) ==
    LET from[i \in 1..(Len(ts) + 1)] ==
            IF i > Len(ts) THEN <<>>
            ELSE LET end == PatternEnd(ts, i, word) IN IF end = 0 THEN <<ts[i]>> \o from[i + 1] ELSE from[end + 1]
    IN  from[1]

\* sanitizeStyleValue: each pattern in turn.
StripPatterns(ts) == FoldLeft(Without, ts, <<"url", "expression", "-moz-binding", "behavior">>)
CleanStyle(s) == IF s \in DOMAIN StyleTokens THEN TextOf(StyleTokens, StripPatterns(StyleTokens[s])) ELSE s

\* The declarations between { and }: those without a value go.
Declarations(ts) ==
    LET Split(parts, t) == IF t = ";" THEN Append(parts, <<>>) ELSE Append(Front(parts), Append(Last(parts), t))
        colons(d) == {i \in DOMAIN d : d[i] = ":"}
        kept == SelectSeq(FoldLeft(Split, <<<<>>>>, ts), LAMBDA d : colons(d) # {} /\ Min(colons(d)) < Len(d))
    IN  FlattenSeq([i \in DOMAIN kept |-> Append(kept[i], ";")])
Tidied(ts) ==
    LET from[i \in 1..(Len(ts) + 1)] ==
            LET ends == {j \in (i + 1)..Len(ts) : ts[j] = "}"}
            IN  CASE i > Len(ts) -> <<>>
                  [] ts[i] = "{" /\ ends # {} ->
                        <<"{">> \o Declarations(SubSeq(ts, i + 1, Min(ends) - 1)) \o <<"}">> \o from[Min(ends) + 1]
                  [] OTHER -> <<ts[i]>> \o from[i + 1]
    IN  from[1]

\* sanitizeStyleBlock, over a block's words.
StyleWords(words) == FlattenSeq([i \in DOMAIN words |-> IF words[i] \in DOMAIN StyleTokens THEN StyleTokens[words[i]] ELSE <<words[i]>>])
SanitizeStyleBlock(words) == Tidied(StripPatterns(StyleWords(words)))

-----------------------------------------------------------------------------
(* profiles.ts.  A vocabulary is [kind, nodes]; a node definition is        *)
(* [props, children, bindTo] with props a function to [sink, types] and     *)
(* children a set of names, AnyChild or TextOnly.                              *)

AnyChild == {"#any"}
TextOnly == {"#text"}
HtmlVocabulary == [kind |-> "html", nodes |-> <<>>]

SpeaksHtml(profile) == \E i \in 1..Len(profile.scope) : profile.scope[i].kind = "html"
SpeaksOnlyHtml(profile) == Len(profile.scope) = 1 /\ SpeaksHtml(profile)

Claimants(profile, name) ==
    {i \in 1..Len(profile.scope) : profile.scope[i].kind = "declared" /\ name \in DOMAIN profile.scope[i].nodes}
AnyVocabularyDeclares(profile, name) == Claimants(profile, name) # {}
\* nodeDefinition, where some vocabulary declares the name.
NodeDefinition(profile, name) == profile.scope[Min(Claimants(profile, name))].nodes[name]

Builtin(id, syntax) == [id |-> id, syntax |-> syntax, scope |-> <<HtmlVocabulary>>, schemes |-> DefaultSchemes, builtin |-> TRUE]
BuiltinProfiles == [f \in {"text/html", "text/html+jsml", "application/j5ml+json", "application/jsml+json"} |->
                        Builtin(f, IF f \in {"text/html", "text/html+jsml"} THEN "html" ELSE "j5ml")]

FormatError(code) == [ok |-> FALSE, code |-> code]

\* parseSchemes: the effective set, or the code the first bad entry is refused with.
ParseSchemes(raw) ==
    IF raw = <<"#absent">> THEN [ok |-> TRUE, schemes |-> DefaultSchemes]
    ELSE LET bad == {i \in 1..Len(raw) : raw[i] \in ProhibitedSchemes \cup {"#nonstring", "#malformed"}}
         IN  IF bad = {} THEN [ok |-> TRUE, schemes |-> Range(raw)]
             ELSE FormatError(IF raw[Min(bad)] \in ProhibitedSchemes THEN "prohibited-scheme" ELSE "invalid-schemes")

\* One entry of a format's vocabularies list.
ResolveReference(ref, vocabularies) ==
    CASE ref = "html" -> [ok |-> TRUE, entry |-> HtmlVocabulary]
      [] ref \in DOMAIN vocabularies -> [ok |-> TRUE, entry |-> [kind |-> "declared", nodes |-> vocabularies[ref]]]
      [] ref = "#nonstring" -> FormatError("malformed")
      [] OTHER -> FormatError("unknown-vocabulary")

\* Mutant: a declared name is compared with the stripped ones as it is spelled.
ShadowsVerbatim(scope) ==
    \E i \in 1..Len(scope) : \E name \in DOMAIN scope[i].nodes : name \in StrippedElements

Shadows(scope) ==
    \E i \in 1..Len(scope) : \E name \in DOMAIN scope[i].nodes : LowerOf(name) \in StrippedElements

\* resolveFormatProfile, over what a declared format refers to.
ProfileOver(format, decl, schemes, scope) ==
    LET html == {i \in DOMAIN scope : scope[i].kind = "html"}
    IN  CASE html # {} /\ Min(html) # Len(scope) -> FormatError("html-not-last")
          [] scope = <<>> -> FormatError("empty-scope")
          [] html # {} /\ Shadows(scope) -> FormatError("stripped-name-shadowed")
          [] OTHER -> [ok |-> TRUE, profile |-> [id |-> format, syntax |-> IF decl.syntax = "html" THEN "html" ELSE "j5ml",
                                                 scope |-> scope, schemes |-> schemes, builtin |-> FALSE]]
ResolveDeclared(format, decl, schemes, refs) ==
    LET badRefs == {i \in DOMAIN refs : ~ refs[i].ok}
    IN  CASE decl.syntax \notin {"html", "j5ml", "jsml"} -> FormatError("unknown-syntax")
          [] ~ schemes.ok -> schemes
          [] badRefs # {} -> refs[Min(badRefs)]
          [] OTHER -> ProfileOver(format, decl, schemes.schemes,
                                  (IF decl.inline THEN <<[kind |-> "declared", nodes |-> decl.nodes]>> ELSE <<>>)
                                  \o [i \in DOMAIN refs |-> refs[i].entry])

\* resolveFormatProfile: its answer, or the code of the first objection.
ResolveFormatProfile(format, formats, vocabularies) ==
    IF format \in DOMAIN BuiltinProfiles THEN [ok |-> TRUE, profile |-> BuiltinProfiles[format]]
    ELSE IF format \notin DOMAIN formats THEN FormatError("unknown")
    ELSE
    ResolveDeclared(format, formats[format], ParseSchemes(formats[format].schemes),
                    [i \in DOMAIN formats[format].vocabularies |-> ResolveReference(formats[format].vocabularies[i], vocabularies)])

\* projectsToHtml.
ProjectsToHtml(profile) ==
    profile.builtin \/ /\ SpeaksHtml(profile)
                       /\ \A i \in 1..Len(profile.scope) : DOMAIN profile.scope[i].nodes \subseteq CustomElementNames

-----------------------------------------------------------------------------
(* Sinks: vocabulary.ts applySink, and fragment.ts applySink and propSink.  *)

\* The html sink is sanitizeHtmlString, whose format has no declared node and so no sink: HtmlCleaned
\* is SanitizeHtml's own answer (TextsAreNamed), named here to keep the two apart.
CleanHtml(s) == Via(HtmlCleaned, s)

ApplySink(sink, value, schemes) ==
    LET OrNull(s) == IF s = Refused THEN [t |-> "refused", v |-> Refused] ELSE StrVal(s)
    IN  CASE sink = "text" -> value
          [] value.t # "str" -> OrNull(Refused)
          [] sink = "uri" -> OrNull(SanitizeUri(value.v, "href", schemes))
          [] sink = "image-uri" -> OrNull(SanitizeUri(value.v, "src", schemes))
          [] sink = "css" -> OrNull(IF CleanStyle(value.v) = "" /\ Via(Trimmed, value.v) # "" THEN Refused
                                    ELSE CleanStyle(value.v))
          [] OTHER -> OrNull(CleanHtml(value.v))

-----------------------------------------------------------------------------
(* vocabulary.ts.  Sanitizing yields [tree, diags]; a diagnostic is         *)
(* [code, severity, stripped], stripped when the code also lists it among   *)
(* the stripped elements or attributes.                                     *)

Diag(code, severity, stripped) == [code |-> code, severity |-> severity, stripped |-> stripped]
Gives(tree, diags) == [tree |-> tree, diags |-> diags]
Drops(code, severity, stripped) == Gives(<<>>, <<Diag(code, severity, stripped)>>)
Gather(results) ==
    Gives(FlattenSeq([i \in 1..Len(results) |-> results[i].tree]), FlattenSeq([i \in 1..Len(results) |-> results[i].diags]))

VocabularySeverity(ctx) == IF ctx.profile.builtin /\ ~ ctx.strict THEN "warning" ELSE "error"

\* segmentTextNode: every site whose body is not an expression is an error.
SegmentText(node, ctx) ==
    Gives(<<node>>, IF ctx.interpolate /\ "badsite" \in Range(node.text)
                    THEN <<Diag("invalid-expression", "error", FALSE)>> ELSE <<>>)

\* resolveNode: the first vocabulary in scope that claims the name; html declines what it does not know.
ResolveNode(name, profile, inSvg) ==
    LET lower == LowerOf(name)
        As(kind, n) == [kind |-> kind, name |-> n]
        html == CASE inSvg /\ lower \in SvgTextElements -> As("svg-text", lower)
                  [] lower \in StrippedElements -> As("stripped", lower)
                  [] lower \in UnwrappedElements /\ profile.syntax = "html" -> As("unwrap", lower)
                  [] lower \in AllowedElements -> As("html", lower)
                  [] OTHER -> As("unknown", name)
        htmlAt == {i \in 1..Len(profile.scope) : profile.scope[i].kind = "html" /\ html.kind # "unknown"}
    IN  CASE Claimants(profile, name) \cup htmlAt = {} -> As("unknown", name)
          [] Min(Claimants(profile, name) \cup htmlAt) \in Claimants(profile, name) -> As("declared", name)
          [] OTHER -> html

\* A prop kept under a name, dropped with a diagnostic, or dropped without one.
KeptProp(name, value) == [props |-> <<[name |-> name, value |-> value]>>, diags |-> <<>>]
DroppedProp(code, stripped) == [props |-> <<>>, diags |-> <<Diag(code, "warning", stripped)>>]
LostProp == [props |-> <<>>, diags |-> <<>>]

ProjectsToMarkup(value) == value.t \notin {"null", "bool"}
CanonicalAttributeName(name) == IF name = "viewbox" THEN "viewBox" ELSE name

\* sanitizeHtmlNode, one prop.
HtmlProp(key, value, schemes) ==
    LET k == LowerOf(key)
    IN  CASE k \in ForbiddenNames \cup MalformedNames -> DroppedProp("unsafe-prop", TRUE)
          [] ~ IsAllowedAttribute(k) -> DroppedProp(IF k \in EventNames THEN "unsafe-prop" ELSE "unknown-prop", TRUE)
          [] k \in {"href", "src"} /\ ProjectsToMarkup(value) ->
                LET uri == SanitizeUri(value.v, k, schemes)
                IN  IF uri = Refused THEN DroppedProp("unsafe-prop", TRUE) ELSE KeptProp(k, StrVal(uri))
          [] k = "style" /\ ProjectsToMarkup(value) ->
                IF CleanStyle(value.v) = "" THEN LostProp ELSE KeptProp(k, StrVal(CleanStyle(value.v)))
          [] OTHER -> KeptProp(CanonicalAttributeName(k), value)

\* sanitizeSvgTextNode, one prop.
SvgTextProp(key, value) ==
    LET k == LowerOf(key)
    IN  IF k \notin ForbiddenNames \cup MalformedNames /\ k \in SvgTextAttributes \cup MetadataNames
        THEN KeptProp(k, value) ELSE DroppedProp(IF k \in EventNames THEN "unsafe-prop" ELSE "unknown-prop", TRUE)

\* matchesJsonType; no types admits every value.
MatchesJsonType(value, types) == types = {} \/ value.t \in types

\* sanitizeDeclaredNode, one prop.
SunkProp(key, cleaned) == IF cleaned.t = "refused" THEN DroppedProp("unsafe-prop", FALSE) ELSE KeptProp(key, cleaned)
DeclaredProp(key, value, definition, schemes) ==
    CASE LowerOf(key) \in ForbiddenNames \cup EventNames -> DroppedProp("unsafe-prop", FALSE)
      [] key \in ProtocolProps -> IF value.t = "str" THEN KeptProp(key, value) ELSE DroppedProp("invalid-prop", FALSE)
      [] LowerOf(key) \in MetadataNames -> KeptProp(key, value)
      [] key \notin DOMAIN definition.props -> DroppedProp("unknown-prop", FALSE)
      [] ~ MatchesJsonType(value, definition.props[key].types) -> DroppedProp("invalid-prop", FALSE)
      [] definition.props[key].sink # "text" /\ value.t # "str" -> DroppedProp("invalid-prop", FALSE)
      [] OTHER -> SunkProp(key, ApplySink(definition.props[key].sink, value, schemes))

\* What the rules made of a node's props, put together.
SanitizeProps(ruled) ==
    LET Step(acc, r) == [props |-> FoldLeft(LAMBDA ps, q : SetProp(ps, q.name, q.value), acc.props, r.props),
                         diags |-> acc.diags \o r.diags]
    IN  FoldLeft(Step, [props |-> NoProps, diags |-> <<>>], ruled)

\* collectSvgText: the text below, without what stripped and style elements hold.
RECURSIVE CollectSvgText(_)
CollectSvgText(nodes) ==
    Gather([i \in DOMAIN nodes |->
        CASE nodes[i].kind = "text" -> Gives(nodes[i].text, <<>>)
          [] LowerOf(nodes[i].name) \in StrippedElements -> Drops("stripped-node", "warning", TRUE)
          [] LowerOf(nodes[i].name) = "style" -> Drops("illegal-child", "warning", FALSE)
          [] OTHER -> [CollectSvgText(nodes[i].kids) EXCEPT !.diags = <<Diag("illegal-child", "warning", FALSE)>> \o @]])

TextAllowed(constraint) == constraint \in {AnyChild, TextOnly}
ChildAllowed(constraint, name) == constraint = AnyChild \/ (constraint # TextOnly /\ name \in constraint)

\* The context below an html element.
BelowHtml(tag, ctx) == IF tag = "svg" THEN [ctx EXCEPT !.inSvg = TRUE] ELSE ctx

\* walkNodes, with sanitizeSvgTextNode, sanitizeDeclaredNode and sanitizeHtmlNode.
RECURSIVE WalkNodes(_, _, _)
Following(diags, result) == Gives(result.tree, diags \o result.diags)
SvgText(words, ctx) ==
    IF words.tree = <<>> THEN Gives(<<>>, words.diags) ELSE Following(words.diags, SegmentText(TextNode(words.tree), ctx))
RuledProp(p, at, definition, schemes) ==
    CASE at.kind = "svg-text" -> SvgTextProp(p.name, p.value)
      [] at.kind = "html" -> HtmlProp(p.name, p.value, schemes)
      [] OTHER -> DeclaredProp(p.name, p.value, definition, schemes)
Rebuilt(node, at, props, kids) ==
    Gives(<<Element(at.name, props.props, kids.tree, node.selfClosing /\ at.kind # "svg-text")>>, props.diags \o kids.diags)
SanitizeElement(node, at, ctx) ==
    LET definition == NodeDefinition(ctx.profile, node.name)
    IN  Rebuilt(node, at,
                SanitizeProps([i \in DOMAIN node.props |-> RuledProp(node.props[i], at, definition, ctx.profile.schemes)]),
                CASE at.kind = "svg-text" -> SvgText(CollectSvgText(node.kids), ctx)
                  [] at.kind = "html" -> WalkNodes(node.kids, BelowHtml(at.name, ctx), AnyChild)
                  [] OTHER -> WalkNodes(node.kids, ctx, definition.children))

WalkNode(node, at, ctx, constraint) ==
    LET unknown == <<Diag("unknown-node", VocabularySeverity(ctx), FALSE)>>
    IN  CASE node.kind = "text" ->
               IF TextAllowed(constraint) THEN SegmentText(node, ctx)
               ELSE IF Range(node.text) \subseteq {"blank"} THEN Gives(<<>>, <<>>)
               ELSE Drops("illegal-child", VocabularySeverity(ctx), FALSE)
          [] at.kind = "unknown" ->
               IF VocabularySeverity(ctx) = "warning" /\ ctx.profile.syntax = "html"
               THEN Following(unknown, WalkNodes(node.kids, ctx, constraint)) ELSE Gives(<<>>, unknown)
          [] at.kind = "stripped" -> Drops("stripped-node", "warning", TRUE)
          [] at.kind = "unwrap" -> WalkNodes(node.kids, ctx, constraint)
          [] ~ ChildAllowed(constraint, at.name) -> Drops("illegal-child", VocabularySeverity(ctx), FALSE)
          [] OTHER -> SanitizeElement(node, at, ctx)
WalkNodes(nodes, ctx, constraint) ==
    Gather([i \in DOMAIN nodes |-> WalkNode(nodes[i], ResolveNode(nodes[i].name, ctx.profile, ctx.inSvg), ctx, constraint)])

\* sanitizeTree.
SanitizeTree(tree, profile, strict, interpolate) ==
    WalkNodes(tree, [profile |-> profile, strict |-> strict, interpolate |-> interpolate, inSvg |-> FALSE], AnyChild)

\* createFragmentInstance refuses a source with an error.
Mounts(result) == \A i \in 1..Len(result.diags) : result.diags[i].severity # "error"

\* validateFragment: the format resolves, and the walk raises no error and strips nothing.
ValidateFragment(tree, resolved) ==
    /\ resolved.ok
    /\ \A result \in {SanitizeTree(tree, resolved.profile, FALSE, FALSE)} :
          Mounts(result) /\ \A i \in 1..Len(result.diags) : ~ result.diags[i].stripped

-----------------------------------------------------------------------------
(* html.ts and tree.ts: tokens are [type, tag, attrs, selfClosing, text].   *)

OpenTag(tag, attrs, selfClosing) == [type |-> "open", tag |-> tag, attrs |-> attrs, selfClosing |-> selfClosing, text |-> <<>>]
CloseTag(tag) == [type |-> "close", tag |-> tag, attrs |-> <<>>, selfClosing |-> FALSE, text |-> <<>>]
TextToken(words) == [type |-> "text", tag |-> "", attrs |-> <<>>, selfClosing |-> FALSE, text |-> words]

\* attributesToProps: the first occurrence of a name wins, an empty value is true.
AttributesToProps(attrs) ==
    LET Add(props, a) == IF \E i \in 1..Len(props) : props[i].name = a.name THEN props
                         ELSE Append(props, [a EXCEPT !.value = IF a.value.v = "" THEN [t |-> "bool", v |-> "true"] ELSE a.value])
    IN  FoldLeft(Add, <<>>, attrs)

Adopt(parent, child) == [parent EXCEPT !.kids = Append(@, child)]
\* Closes every open element above depth d.
CloseTo(stack, d) ==
    FoldLeft(LAMBDA s, i : Append(SubSeq(s, 1, Len(s) - 2), Adopt(s[Len(s) - 1], s[Len(s)])), stack, [i \in 1..(Len(stack) - d) |-> i])

\* collectStyleContent.
StyleContent(tokens, i) ==
    LET end == Min({j \in (i + 1)..Len(tokens) : tokens[j].type = "close" /\ LowerOf(tokens[j].tag) = "style"} \cup {Len(tokens) + 1})
    IN  FlattenSeq([j \in 1..(end - i - 1) |-> tokens[i + j].text])

\* htmlToTree.
HtmlToTree(tokens, profile) ==
    LET HtmlRules(tag) == SpeaksHtml(profile) /\ ~ AnyVocabularyDeclares(profile, tag)
        Opened(stack, tag) == {d \in 2..Len(stack) : LowerOf(stack[d].name) = tag}
        Put(acc, node) == [acc EXCEPT !.stack[Len(acc.stack)] = Adopt(@, node)]
        Open(acc, i) ==
            LET tok == tokens[i]  tag == LowerOf(tok.tag)
                void == tag \in VoidElements
                node == Element(tok.tag, AttributesToProps(tok.attrs), <<>>, tok.selfClosing /\ ~ void)
                raw == /\ HtmlRules(tok.tag)
                       /\ tag = "style" \/ tag \in StrippedElements
                       /\ ~ (tag \in SvgTextElements /\ \E d \in 1..Len(acc.stack) : LowerOf(acc.stack[d].name) = "svg")
                css == IF tag = "style" THEN SanitizeStyleBlock(StyleContent(tokens, i)) ELSE <<>>
                filled == IF css = <<>> THEN node ELSE Adopt(node, TextNode(css))
            IN  CASE raw /\ (tok.selfClosing \/ void) -> Put(acc, filled)
                  [] raw -> [Put(acc, filled) EXCEPT !.skip = tag, !.skipRaw = tag \in RawTextElements]
                  [] tok.selfClosing \/ void -> Put(acc, node)
                  [] OTHER -> [acc EXCEPT !.stack = Append(@, node)]
        Close(acc, tag) ==
            IF tag \in VoidElements \/ Opened(acc.stack, tag) = {} THEN acc
            ELSE [acc EXCEPT !.stack = CloseTo(@, Max(Opened(acc.stack, tag)) - 1)]
        Plain(acc, i) ==
            CASE tokens[i].type = "text" -> Put(acc, TextNode(tokens[i].text))
              [] tokens[i].type = "open" -> Open(acc, i)
              [] tokens[i].type = "close" -> Close(acc, LowerOf(tokens[i].tag))
              [] OTHER -> acc
        Step(acc, i) ==
            LET closes == IF tokens[i].type = "close" THEN LowerOf(tokens[i].tag) ELSE ""
            IN  CASE acc.skip = "" -> Plain(acc, i)
                  [] closes = acc.skip -> [acc EXCEPT !.skip = ""]
                  [] closes # "" /\ ~ acc.skipRaw /\ Opened(acc.stack, closes) # {} -> Plain([acc EXCEPT !.skip = ""], i)
                  [] OTHER -> acc
        root == Element("#root", <<>>, <<>>, FALSE)
        end == FoldLeft(Step, [stack |-> <<root>>, skip |-> "", skipRaw |-> FALSE], [i \in 1..Len(tokens) |-> i])
    IN  CloseTo(end.stack, 1)[1].kids

\* treeToHtml, as the tokens its text reads back as: neighbouring texts are one text.
RECURSIVE NodeTokens(_)
NodeTokens(node) ==
    LET attrs == [i \in 1..Len(node.props) |->
                    [node.props[i] EXCEPT !.value = StrVal(IF node.props[i].value = [t |-> "bool", v |-> "true"] THEN ""
                                                           ELSE node.props[i].value.v)]]
        Written(p) == p.name \notin MalformedNames
        kept == SelectSeq([i \in 1..Len(attrs) |-> [old |-> node.props[i], new |-> attrs[i]]],
                          LAMBDA p : Written(p.old) /\ p.old.value \notin {[t |-> "bool", v |-> "false"], [t |-> "null", v |-> "null"]})
        tags == [i \in 1..Len(kept) |-> kept[i].new]
    IN  CASE node.kind = "text" -> IF node.text = <<>> THEN <<>> ELSE <<TextToken(node.text)>>
          [] node.name \in VoidElements \/ (node.selfClosing /\ node.kids = <<>>) -> <<OpenTag(node.name, tags, TRUE)>>
          [] OTHER -> <<OpenTag(node.name, tags, FALSE)>>
                      \o FlattenSeq([i \in 1..Len(node.kids) |-> NodeTokens(node.kids[i])]) \o <<CloseTag(node.name)>>
TreeToHtml(tree) ==
    LET Join(ts, t) == IF t.type = "text" /\ ts # <<>> /\ Last(ts).type = "text"
                       THEN Append(Front(ts), TextToken(Last(ts).text \o t.text)) ELSE Append(ts, t)
    IN  FoldLeft(Join, <<>>, FlattenSeq([i \in 1..Len(tree) |-> NodeTokens(tree[i])]))

\* sanitizeHtmlString, hence sanitizeHTML.
SanitizeHtml(tokens) ==
    LET html == BuiltinProfiles["text/html"]
    IN  TreeToHtml(SanitizeTree(HtmlToTree(tokens, html), html, FALSE, FALSE).tree)

\* What a cleaner makes of a text that is looked into has a name, and HtmlCleaned is what
\* SanitizeHtml makes of it.
ASSUME TextsAreNamed ==
    /\ \A s \in DOMAIN StyleTokens : StripPatterns(StyleTokens[s]) \in Range(StyleTokens)
    /\ DOMAIN HtmlCleaned = DOMAIN HtmlTokens
    /\ \A s \in DOMAIN HtmlTokens : HtmlTokens[HtmlCleaned[s]] = SanitizeHtml(HtmlTokens[s])

-----------------------------------------------------------------------------
(* Properties. *)

(***************************************************************************)
(* The cleaners are one pass: where a style holds one pattern inside the   *)
(* spelling of another, removing the inner one leaves the outer, and the   *)
(* text is not settled.  Settled says that this is not so of what it is    *)
(* given; the runs ask both kinds.                                         *)
(***************************************************************************)
SettledTexts(texts) ==
    \A s \in texts :
        /\ \A once \in {CleanStyle(s)} : CleanStyle(once) = once
        /\ CleanHtml(CleanHtml(s)) = CleanHtml(s)
SettledBlocks(tokens) ==
    \A i \in DOMAIN tokens :
        tokens[i].type = "open" /\ LowerOf(tokens[i].tag) = "style" =>
            \A once \in {SanitizeStyleBlock(StyleContent(tokens, i))} : SanitizeStyleBlock(once) = once

\* Every element of a tree.
RECURSIVE ElementsOf(_)
ElementsOf(nodes) ==
    UNION {(IF nodes[i].kind = "element" THEN {nodes[i]} ELSE {}) \cup ElementsOf(nodes[i].kids) : i \in 1..Len(nodes)}

PropTexts(props) == {props[i].value.v : i \in DOMAIN props}
TokenTexts(tokens) == UNION {PropTexts(tokens[i].attrs) : i \in DOMAIN tokens}
TreeTexts(tree) == UNION {PropTexts(e.props) : e \in ElementsOf(tree)}

\* A tree without its props.
RECURSIVE Bare(_)
Bare(nodes) == [i \in DOMAIN nodes |-> [nodes[i] EXCEPT !.props = NoProps, !.kids = Bare(@)]]

(***************************************************************************)
(* A sanitized tree is sanitized: going through the walk again changes     *)
(* nothing and raises nothing, and where html is spoken no element it      *)
(* always strips is left, hoisted children and svg text included           *)
(* (sanitizeTree; a fragment's tree is sanitized when it mounts and its    *)
(* parts again as ops).  The exception is a style that is not settled: a   *)
(* url() is left in it, though "url() references ... are stripped"         *)
(* (spec/fragments.md:459), and the next walk takes it away.  Even then    *)
(* nothing but props changes.                                              *)
(***************************************************************************)
SanitizedIsStable(tree, profile, strict) ==
    \A once \in {SanitizeTree(tree, profile, strict, FALSE)} : \A again \in {SanitizeTree(once.tree, profile, strict, FALSE)} :
        /\ SettledTexts(TreeTexts(tree)) => again = Gives(once.tree, <<>>)
        /\ Bare(again.tree) = Bare(once.tree)
        /\ SpeaksHtml(profile) =>
              \A e \in ElementsOf(once.tree) : LowerOf(e.name) \in StrippedElements => e.name \in SvgTextElements

(***************************************************************************)
(* A fragment that is sent to a browser as markup holds no element there   *)
(* that is neither html the sanitizer allows nor a custom element, so no   *)
(* declared node can come alive as something html owns (projectsToHtml,    *)
(* sanitizeFragment).                                                      *)
(***************************************************************************)
MarkupIsInert(tree, profile) ==
    ProjectsToHtml(profile) =>
        \A e \in ElementsOf(SanitizeTree(tree, profile, FALSE, FALSE).tree) :
            e.name \in AllowedElements \cup SvgTextElements \cup CustomElementNames

(***************************************************************************)
(* What validateFragment calls valid is mounted as it was written: under   *)
(* a format of html alone no element that is always stripped is anywhere   *)
(* in it, hoisted and unwrapped parts included, and no element that is     *)
(* kept has an event attribute.                                            *)
(***************************************************************************)
ValidMeansClean(tree, profile) ==
    profile.builtin /\ profile.syntax = "html" /\ ValidateFragment(tree, [ok |-> TRUE, profile |-> profile]) =>
        \A e \in ElementsOf(tree) :
            /\ LowerOf(e.name) \in StrippedElements => LowerOf(e.name) \in SvgTextElements
            /\ LowerOf(e.name) \in AllowedElements => \A i \in DOMAIN e.props : LowerOf(e.props[i].name) \notin EventNames

\* Sanitizing is stable over the whole trip from markup to markup (sanitizeHTML), where the styles
\* in it are settled.
HtmlIsStable(tokens) ==
    SettledTexts(TokenTexts(tokens)) /\ SettledBlocks(tokens) => \A once \in {SanitizeHtml(tokens)} : SanitizeHtml(once) = once

=============================================================================
