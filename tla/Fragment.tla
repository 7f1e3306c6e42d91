------------------------------ MODULE Fragment ------------------------------
(***************************************************************************)
(* A fragment instance (runtimes/js/src/fragment.ts): the bind pass over a *)
(* sanitized template, the repeat state it carries from one getContent to  *)
(* the next, and a host that patches the copies it has drawn.              *)
(*                                                                         *)
(* A template node is [kind, name, segs, each, key, cond, bind, kids];     *)
(* None marks an absent attribute and an expression is its parsed tree.  A *)
(* bound node also records where it came from, [source, within], which no  *)
(* code reads: the properties use it to tell copies apart.                 *)
(***************************************************************************)
EXTENDS Xeg, Markup

CONSTANTS
    Templates,   \* sanitized templates a fragment may mount
    Data,        \* what the host may pass to getContent
    Declared,    \* the fragment's bindings: name -> path
    Profile,     \* the format's resolved profile
    MaxCopies,   \* MAX_REPEAT_COPIES
    MaxRenders   \* bound on renders explored

VARIABLES
    template,    \* the sanitized tree
    repeatState, \* site -> [mode, keys], what the last render left
    result,      \* the last FragmentUpdateResult
    drawn,       \* site -> the host's drawn copies, in order, as [key, id]
    fresh,       \* ids handed out so far
    renders

fragmentVars == <<template, repeatState, result, drawn, fresh, renders>>

-----------------------------------------------------------------------------
(***************************************************************************)
(* Keys of repeated copies and the patch from one render to the next       *)
(* (tools/sanitize/src/repeat.ts).                                         *)
(*                                                                         *)
(* A key is its keyToken, <<type, text>>; what a data-key may evaluate to  *)
(* besides a string or a finite number is Bad.  Positions are counted from *)
(* 0, as the code counts them.                                             *)
(***************************************************************************)

Bad == <<"bad", <<>>>>

\* indexKeys, replaceKeys: the positions themselves.
IndexKeys(n) == [i \in 1..n |-> <<"num", <<ToString(i - 1)>>>>]

\* resolveRepeatKeys: one bad or repeated key drops the whole repeat to positions.
ResolveRepeatKeys(values) ==
    IF Bad \in Range(values) \/ \E i, j \in 1..Len(values) : i < j /\ values[i] = values[j]
    THEN [mode |-> "index", keys |-> IndexKeys(Len(values))]
    ELSE [mode |-> "keyed", keys |-> values]

(***************************************************************************)
(* longestIncreasingSubsequence, by patience: tails[k] is the index of the *)
(* smallest value that ends an increasing run of length k, pred the index  *)
(* each value follows.  The result is indices into seq.                    *)
(***************************************************************************)
Patience(seq) ==
    LET Place(acc, i) ==
            LET at == Min({k \in 1..Len(acc.tails) : seq[acc.tails[k]] >= seq[i]} \cup {Len(acc.tails) + 1})
            IN  [tails |-> IF at > Len(acc.tails) THEN Append(acc.tails, i) ELSE [acc.tails EXCEPT ![at] = i],
                 pred  |-> Append(acc.pred, IF at > 1 THEN acc.tails[at - 1] ELSE 0)]
    IN  FoldLeft(Place, [tails |-> <<>>, pred |-> <<>>], [i \in 1..Len(seq) |-> i])

LongestIncreasing(seq) ==
    LET p == Patience(seq)
        walk[k \in 0..Len(p.tails)] == IF k = 0 THEN p.tails[Len(p.tails)] ELSE p.pred[walk[k - 1]]
    IN  IF seq = <<>> THEN {} ELSE {walk[k] : k \in 0..(Len(p.tails) - 1)}

Removes(keys, gone) ==
    SelectSeq([i \in 1..Len(keys) |-> [op |-> "remove", key |-> keys[i], from |-> i - 1, to |-> -1]],
              LAMBDA o : o.key \in gone)

Inserts(keys) == [i \in 1..Len(keys) |-> [op |-> "insert", key |-> keys[i], from |-> -1, to |-> i - 1]]

\* Mutant: copies keep their nodes by key even when what a key means has changed.
KeepsAcrossModes(previous, next) ==
    LET PosIn(k) == CHOOSE i \in 1..Len(previous.keys) : previous.keys[i] = k
        had == Range(previous.keys)
    IN  Removes(previous.keys, had \ Range(next.keys))
        \o [i \in 1..Len(next.keys) |->
              IF next.keys[i] \notin had THEN Inserts(next.keys)[i]
              ELSE [op |-> "move", key |-> next.keys[i], from |-> PosIn(next.keys[i]) - 1, to |-> i - 1]]

\* diffRepeat, with previous = [mode |-> "none"] on a site's first render.
DiffRepeat(previous, next) ==
    IF previous.mode = "none" THEN Inserts(next.keys)
    ELSE IF next.mode = "replace" \/ previous.mode # next.mode
    THEN Removes(previous.keys, Range(previous.keys)) \o Inserts(next.keys)
    ELSE
    LET From(k) == CHOOSE i \in 1..Len(previous.keys) : previous.keys[i] = k
        had == Range(previous.keys)
        kept == SelectSeq([i \in 1..Len(next.keys) |-> i], LAMBDA i : next.keys[i] \in had)
        stable == {kept[i] : i \in LongestIncreasing([i \in 1..Len(kept) |-> From(next.keys[kept[i]])])}
    IN  Removes(previous.keys, had \ Range(next.keys))
        \o [i \in 1..Len(next.keys) |->
              IF next.keys[i] \notin had THEN Inserts(next.keys)[i]
              ELSE [op |-> IF i \in stable THEN "reuse" ELSE "move", key |-> next.keys[i],
                    from |-> From(next.keys[i]) - 1, to |-> i - 1]]


-----------------------------------------------------------------------------
None == [t |-> "none"]
AbsentValue == [t |-> "absent", v |-> 0]

\* resolveBindingPath: own keys of objects and positions of arrays, nothing else.  A part
\* of a path is [key, index], index the position it spells or -1.
ResolveBindingPath(data, path) ==
    LET Step(x, part) ==
          CASE x.t = "arr" /\ 0 <= part.index /\ part.index < Len(x.v) -> x.v[part.index + 1]
            [] x.t = "obj" /\ part.key \in DOMAIN x.v -> x.v[part.key]
            [] OTHER -> AbsentValue
    IN  FoldLeft(Step, data, path)

ResolveBindings(data) == [n \in DOMAIN Declared |-> ResolveBindingPath(data, Declared[n])]

\* A scope as expressions see it: an absent value is no binding at all.
Seen(b) == [n \in {m \in DOMAIN b : b[m].t # "absent"} |-> b[n]]
ValueOf(ast, b) == Eval(ast, Seen(b))

\* resolveSegments.
ResolveSegments(segs, b) ==
    FlattenSeq([i \in 1..Len(segs) |-> IF segs[i].kind = "literal" THEN segs[i].words ELSE RenderValue(ValueOf(segs[i].ast, b))])

\* bindValue: a bare name with no value writes nothing, an expression always writes.  A source
\* outside the grammar, [t |-> "raw", name], is looked up whole, as if it were a bare name.
BindValue(ast, b) ==
    IF ast.t \in {"name", "raw"}
    THEN IF ast.name \in DOMAIN Seen(b) THEN [writes |-> TRUE, text |-> RenderValue(ToExprValue(b[ast.name]))]
         ELSE [writes |-> FALSE, text |-> <<>>]
    ELSE [writes |-> TRUE, text |-> RenderValue(ValueOf(ast, b))]

\* isVoidNode and bindTarget.
BindTarget(name) ==
    IF AnyVocabularyDeclares(Profile, name)
    THEN LET d == NodeDefinition(Profile, name)
         IN  IF d.bindTo # "" THEN d.bindTo ELSE IF d.children = {} THEN "value" ELSE "children"
    ELSE IF name \in VoidElements THEN "value" ELSE "children"

\* routePropValueDetailed: the routed value, or why it was refused.
RoutePropValue(name, prop, value) ==
    LET Settle(x) == IF x.t = "refused" THEN [ok |-> FALSE, why |-> "unsafe-prop", value |-> x] ELSE [ok |-> TRUE, why |-> "", value |-> x]
        Undeclared == [ok |-> FALSE, why |-> "unknown-prop", value |-> value]
        k == LowerOf(prop)
        declared == AnyVocabularyDeclares(Profile, name)
        sink == CASE declared -> NodeDefinition(Profile, name).props[prop].sink
                  [] k = "href" -> "uri" [] k = "src" -> "image-uri" [] OTHER -> "text"
    IN  CASE declared /\ prop \in ProtocolProps -> Settle(value)
          [] declared /\ prop \notin DOMAIN NodeDefinition(Profile, name).props -> Undeclared
          [] ~ declared /\ (~ SpeaksHtml(Profile) \/ ~ IsAllowedAttribute(k)) -> Undeclared
          [] ~ declared /\ k = "style" -> Settle(StrVal(CleanStyle(value.v)))
          [] OTHER -> Settle(ApplySink(sink, value, Profile.schemes))

(***************************************************************************)
(* parseRepeatHeader over tokens, " " a run of whitespace: item in expr,   *)
(* or (item, index) in expr.  Skip passes whitespace, each letter below is *)
(* where the code's cursor stands when it looks for the next piece.        *)
(***************************************************************************)
NoHeader == [ok |-> FALSE, header |-> None]
ParseRepeatHeader(ts) ==
    LET Skip(i) == IF At(ts, i, {" "}) THEN i + 1 ELSE i
        Ident(i) == i <= Len(ts) /\ IsProperty(ts[i])
        list == At(ts, Skip(1), {"("})
        item == IF list THEN Skip(Skip(1) + 1) ELSE Skip(1)
        two == list /\ At(ts, Skip(item + 1), {","})
        index == Skip(Skip(item + 1) + 1)
        close == IF two THEN Skip(index + 1) ELSE Skip(item + 1)
        in == IF list THEN Skip(close + 1) ELSE Skip(item + 1)
        binders == {ts[item]} \cup IF two THEN {ts[index]} ELSE {}
        rest == SelectSeq(SubSeq(ts, in + 1, Len(ts)), LAMBDA t : t # " ")
        Over(parsed) ==
            IF ~ parsed.ok THEN NoHeader
            ELSE [ok |-> TRUE, header |-> [item |-> ts[item], index |-> IF two THEN ts[index] ELSE "", expr |-> parsed.ast]]
    IN  IF ~ Ident(item) \/ (two /\ ~ Ident(index)) \/ (list /\ ~ At(ts, close, {")"})) \/ (~ list /\ ~ At(ts, item + 1, {" "}))
        THEN NoHeader
        ELSE IF ~ At(ts, in, {"in"}) \/ ~ At(ts, in + 1, {" "}) \/ binders \cap {"true", "false", "null", "in"} # {}
                \/ (two /\ ts[item] = ts[index])
        THEN NoHeader
        ELSE Over(ParseExpression(rest))

\* repeatScope: $index, the item and the index name over the enclosing scope.
RepeatScope(b, header, item, index) ==
    (IF header.index = "" THEN <<>> ELSE header.index :> Num(index)) @@ (header.item :> item) @@ ("$index" :> Num(index)) @@ b

\* evaluateRepeatItems: anything but an array repeats nothing.
EvaluateRepeatItems(header, b) ==
    LET Items(x) == IF x.t = "arr" THEN x.v ELSE <<>>
    IN  Items(ValueOf(header.expr, b))

\* keyToken, or Bad for what cannot be a key.
KeyToken(x) == IF x.t \in {"num", "str"} THEN <<x.t, RenderValue(x)>> ELSE Bad

(***************************************************************************)
(* processTree.  The context threads what the code mutates: the bound      *)
(* nodes out so far, the copies left, the findings, and next, this         *)
(* render's repeat sites.                                                  *)
(***************************************************************************)
\* Mutant: a node is placed where its template stands.
TemplatePlace(path, ctx, source) == Append(path, Last(source))
\* Where the next bound node goes: its parent's path and what is already out there.
PlaceIn(path, ctx, source) == Append(path, Len(ctx.out))

RECURSIVE BindChildren(_, _, _, _, _, _), BindNode(_, _, _, _, _, _)

\* The copies a template expands to, cut at what the render may still produce.
Copies(node, b, ctx) ==
    LET Cut(items) ==
            [scopes |-> [i \in 1..Min({Len(items), ctx.remaining}) |-> RepeatScope(b, node.each, items[i], i - 1)],
             cut |-> Len(items) > ctx.remaining]
    IN  Cut(EvaluateRepeatItems(node.each, b))

\* What the render knows once a repeat's copies and keys are settled.
OpenRepeat(ctx, node, path, site, copies, r) ==
    LET previous == IF site \in DOMAIN ctx.previous THEN ctx.previous[site] ELSE [mode |-> "none", keys |-> <<>>]
        repeat == [site |-> site, path |-> path, start |-> Len(ctx.out), count |-> Len(copies.scopes),
                   mode |-> r.mode, keys |-> r.keys, patch |-> DiffRepeat(previous, r)]
    IN  [ctx EXCEPT !.remaining = @ - Len(copies.scopes), !.repeats = Append(@, repeat), !.next = (site :> r) @@ @,
                    !.diags = @ \o (IF copies.cut THEN <<"repeat-limit">> ELSE <<>>)
                                \o (IF node.key # None /\ r.mode = "index" THEN <<"bad-key">> ELSE <<>>)]

BindCopies(node, ctx, path, source, within, copies, r) ==
    FoldLeft(LAMBDA c, i : BindNode([node EXCEPT !.each = None, !.key = None], copies.scopes[i], c, path, source,
                                    Append(within, r.keys[i])),
             OpenRepeat(ctx, node, path, <<source, within>>, copies, r), [i \in DOMAIN copies.scopes |-> i])

KeysOf(node, scopes) ==
    IF node.key = None THEN [mode |-> "replace", keys |-> IndexKeys(Len(scopes))]
    ELSE ResolveRepeatKeys([i \in DOMAIN scopes |-> KeyToken(ValueOf(node.key, scopes[i]))])

Expand(node, ctx, path, source, within, copies) ==
    BindCopies(node, ctx, path, source, within, copies, KeysOf(node, copies.scopes))

ExpandRepeat(node, b, ctx, path, source, within) == Expand(node, ctx, path, source, within, Copies(node, b, ctx))

BindChildren(nodes, b, ctx, path, parentSource, within) ==
    FoldLeft(LAMBDA c, i : IF nodes[i].kind = "element" /\ nodes[i].each # None
                           THEN ExpandRepeat(nodes[i], b, c, path, Append(parentSource, i - 1), within)
                           ELSE BindNode(nodes[i], b, c, path, Append(parentSource, i - 1), within),
             ctx, [i \in DOMAIN nodes |-> i])

\* What a bound node adds to the render below it: itself, and why its data-bind was refused.
Placed(ctx, below, node, from, prop, kids, refused) ==
    [below EXCEPT !.out = Append(ctx.out, [kind |-> "element", name |-> node.name, text |-> <<>>, prop |-> prop,
                                           kids |-> kids, from |-> from]),
                  !.diags = @ \o refused]
Said(words, from) == [kind |-> "text", name |-> "#text", text |-> words, prop |-> StrVal(""), kids |-> <<>>, from |-> from]

PlaceRouted(ctx, below, node, from, routed) ==
    Placed(ctx, below, node, from, IF routed.ok THEN routed.value ELSE StrVal(""), below.out,
           IF routed.ok THEN <<>> ELSE <<routed.why>>)

\* bindNode's write of data-bind: over the children, or routed into the prop it names.
WriteBound(ctx, below, node, from, written, target) ==
    IF ~ written.writes THEN Placed(ctx, below, node, from, StrVal(""), below.out, <<>>)
    ELSE IF target = "children" THEN Placed(ctx, below, node, from, StrVal(""), <<Said(written.text, from)>>, <<>>)
    ELSE PlaceRouted(ctx, below, node, from,
                     RoutePropValue(node.name, target, StrVal(IF written.text = <<>> THEN "" ELSE written.text[1])))

\* bindNode's data-if.
WithCondition(below, node, b, path, from) ==
    IF node.cond = None THEN below
    ELSE [below EXCEPT !.conditions = Append(@, [path |-> path, from |-> from, visible |-> IsTruthy(ValueOf(node.cond, b))])]

BindElement(node, b, ctx, here, from) ==
    WriteBound(ctx, WithCondition(BindChildren(node.kids, b, [ctx EXCEPT !.out = <<>>], here, from.source, from.within),
                                  node, b, here, from),
               node, from, IF node.bind = None THEN [writes |-> FALSE, text |-> <<>>] ELSE BindValue(node.bind, b),
               BindTarget(node.name))

\* bindNode: the children first, then data-if, then what data-bind writes; path is the parent's.
BindNode(node, b, ctx, path, source, within) ==
    IF node.kind = "text"
    THEN [ctx EXCEPT !.out = Append(@, Said(ResolveSegments(node.segs, b), [source |-> source, within |-> within]))]
    ELSE BindElement(node, b, ctx, PlaceIn(path, ctx, source), [source |-> source, within |-> within])

\* A render before it has met a node.
Unbound(previous) == [out |-> <<>>, remaining |-> MaxCopies, conditions |-> <<>>, repeats |-> <<>>,
                      diags |-> <<>>, previous |-> previous, next |-> <<>>]

ProcessTree(tree, b, previous) == BindChildren(tree, b, Unbound(previous), <<>>, <<>>, <<>>)

-----------------------------------------------------------------------------
(* A host that keeps what it drew, as a tree: a copy lies in the copy of    *)
(* the repeat around it, and goes when that one is removed.  It carries out *)
(* the patches in the order they are reported, outer repeats first, and     *)
(* gives every inserted copy a new drawn node; a patch that keeps a node    *)
(* which is gone leaves a Missing.                                             *)

Missing == [key |-> Bad, id |-> 0]

\* The sites whose copies site lies in: the nearest one is one key shorter.
Around(site, sites) == {s \in sites : Len(s[2]) < Len(site[2]) /\ IsPrefix(s[2], site[2]) /\ IsPrefix(s[1], site[1])}
KeyAround(site, s) == site[2][Len(s[2]) + 1]

\* What stands at site once the repeats around it are redrawn: nothing in a copy that is new.
Standing(site, redrawn) ==
    IF site \in DOMAIN drawn
       /\ \A s \in Around(site, DOMAIN redrawn) :
             s \in DOMAIN drawn /\ \E c \in Range(redrawn[s]) \cap Range(drawn[s]) : c.key = KeyAround(site, s)
    THEN drawn[site] ELSE <<>>

ApplyPatch(before, patch, keys, idBase) ==
    LET placed == SelectSeq(patch, LAMBDA o : o.op # "remove")
    IN  [i \in 1..Len(placed) |->
            IF placed[i].op = "insert" THEN [key |-> keys[i], id |-> idBase + i]
            ELSE IF placed[i].from < Len(before) THEN before[placed[i].from + 1] ELSE Missing]

Redraw(repeats) ==
    LET Carry(acc, r) == [tree |-> (r.site :> ApplyPatch(Standing(r.site, acc.tree), r.patch, r.keys, acc.ids)) @@ acc.tree,
                          ids |-> acc.ids + r.count]
    IN  FoldLeft(Carry, [tree |-> <<>>, ids |-> fresh], repeats).tree

\* createFragmentInstance.
FragmentInit ==
    /\ template \in Templates
    /\ repeatState = <<>>
    /\ result = Unbound(<<>>)
    /\ drawn = <<>>
    /\ fresh = 0
    /\ renders = 0

\* getContent(data), and the host's redraw of what it returns.
GetContent(data) ==
    /\ renders < MaxRenders
    /\ result' = ProcessTree(template, ResolveBindings(data), repeatState)
    /\ repeatState' = result'.next
    /\ drawn' = Redraw(result'.repeats)
    /\ fresh' = fresh + FoldLeft(LAMBDA n, r : n + r.count, 0, result'.repeats)
    /\ renders' = renders + 1
    /\ UNCHANGED template

FragmentNext == \E data \in Data : GetContent(data)

FragmentSpec == FragmentInit /\ [][FragmentNext]_fragmentVars

-----------------------------------------------------------------------------
(* Properties. *)

\* The node a path leads to in the bound tree, if it leads to one.
RECURSIVE NodesAt(_, _)
NodesAt(nodes, path) ==
    IF path = <<>> \/ path[1] >= Len(nodes) THEN {}
    ELSE IF Len(path) = 1 THEN {nodes[path[1] + 1]} ELSE NodesAt(nodes[path[1] + 1].kids, Tail(path))

\* An element above the node writes its data-bind over its children.
RECURSIVE BoundAbove(_, _)
BoundAbove(nodes, source) ==
    Len(source) > 1 /\ (nodes[source[1] + 1].bind # None \/ BoundAbove(nodes[source[1] + 1].kids, Tail(source)))

(***************************************************************************)
(* Every path in conditions addresses the node of the bound tree whose     *)
(* data-if it reports, copy by copy, and each repeat's range holds exactly *)
(* its copies in key order (spec/fragments.md, "every path in conditions   *)
(* addresses the expanded tree"), for the nodes that no element above has  *)
(* written over with its own data-bind: the paths are counted while copies *)
(* are still being expanded before them.                                   *)
(***************************************************************************)
PathsAddressTree ==
    /\ \A i \in 1..Len(result.conditions) :
          LET c == result.conditions[i]
          IN  ~ BoundAbove(template, c.from.source) => \E node \in NodesAt(result.out, c.path) : node.from = c.from
    /\ \A i \in 1..Len(result.repeats) : \A k \in 1..result.repeats[i].count :
          LET r == result.repeats[i]
          IN  ~ BoundAbove(template, r.site[1]) =>
                \E node \in NodesAt(result.out, Append(r.path, r.start + k - 1)) :
                    node.from = [source |-> r.site[1], within |-> Append(r.site[2], r.keys[k])]

\* A longest way to keep nodes in order, by brute force.
InOrder(ids) == {s \in SUBSET (1..Len(ids)) : \A i, j \in s : i < j => ids[i] < ids[j]}

\* The copy that site lies in, or one around that, is an insert of this render.
InNewCopy(site) ==
    \E i \in 1..Len(result.repeats) :
        LET r == result.repeats[i]
        IN  r.site \in Around(site, {r.site}) /\ \E o \in Range(r.patch) : o.op = "insert" /\ o.key = KeyAround(site, r.site)

(***************************************************************************)
(* A host that carries out the patches of a render ends with one drawn     *)
(* node per copy, each carrying its copy's key, no node drawn twice, and   *)
(* moves as few of the kept ones as it can (diffRepeat, and the repeat     *)
(* state kept between renders), again where no data-bind is written over   *)
(* the copies.                                                             *)
(*                                                                         *)
(* With one exception, which the run reaches.  "Nothing about identity     *)
(* carries over" when a repeat is replaced or changes mode (repeat.ts      *)
(* 293-294), but the previous render of a repeat inside it is still found  *)
(* by the enclosing copy's key, a position that both renders have.  The    *)
(* inner patch then says reuse or move of nodes that went with the copy    *)
(* they lay in, and exactly those are missing from what the host draws.    *)
(***************************************************************************)
PatchesReachTree ==
    \A i \in 1..Len(result.repeats) :
        LET r == result.repeats[i]
            now == drawn[r.site]
            placed == SelectSeq(r.patch, LAMBDA o : o.op # "remove")
            kept == SelectSeq(r.patch, LAMBDA o : o.op \in {"reuse", "move"})
            moves == SelectSeq(r.patch, LAMBDA o : o.op = "move")
            gone == {k \in 1..Len(placed) : placed[k].op # "insert" /\ InNewCopy(r.site)}
        IN  ~ BoundAbove(template, r.site[1]) =>
            /\ Len(now) = r.count /\ Len(placed) = r.count
            /\ \A k \in 1..r.count : IF k \in gone THEN now[k] = Missing ELSE now[k].key = r.keys[k] /\ now[k].id # 0
            /\ \A j, k \in (1..r.count) \ gone : j # k => now[j].id # now[k].id
            /\ \A s \in InOrder([k \in 1..Len(kept) |-> kept[k].from]) : Len(moves) <= Len(kept) - Cardinality(s)

(***************************************************************************)
(* A repeat header spelled either way, with as little whitespace as it     *)
(* needs, reads back as its names and its expression, unless a name is     *)
(* refused (parseRepeatHeader).                                            *)
(***************************************************************************)
HeaderReadsBack(item, index, ast) ==
    LET Reads(r, i, refused) ==
            IF refused THEN ~ r.ok ELSE r = [ok |-> TRUE, header |-> [item |-> item, index |-> i, expr |-> ast]]
    IN  /\ Reads(ParseRepeatHeader(<<item, " ", "in", " ">> \o Spelled(ast, 1)), "", item \in {"null", "in"})
        /\ Reads(ParseRepeatHeader(<<"(", item, ",", index, ")", "in", " ">> \o Spelled(ast, 1)), index,
                 {item, index} \cap {"null", "in"} # {} \/ item = index)

=============================================================================
