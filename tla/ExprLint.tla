------------------------------ MODULE ExprLint ------------------------------
(***************************************************************************)
(* What static reading says of a fragment's expressions                    *)
(* (tools/validate/src/expressions.ts): the names it reads, and the        *)
(* findings a lint raises about types and builtin arguments.               *)
(***************************************************************************)
EXTENDS Fragment

\* repeatScopeOf: the names a data-each brings into scope for the node and what is below it.
RepeatNames(node, outer) ==
    IF node.kind # "element" \/ node.each = None THEN outer
    ELSE outer \cup {"$index", node.each.item} \cup ({node.each.index} \ {""})

ExprSite(surface, ast, scope) == [surface |-> surface, ast |-> ast, scope |-> scope]

\* Mutant: a header is read in the scope it opens.
HeaderInItsScope(node, outer) ==
    IF node.each = None THEN <<>> ELSE <<ExprSite("data-each", node.each.expr, RepeatNames(node, outer))>>
\* repeatSite: a data-each header is evaluated in the enclosing scope, not its own.
RepeatSite(node, outer) ==
    IF node.each = None THEN <<>> ELSE <<ExprSite("data-each", node.each.expr, outer)>>

\* collectSites: every expression a tree carries, with the repeat names in scope at it.
RECURSIVE CollectSites(_, _)
CollectSites(nodes, outer) ==
    LET One(node) ==
          LET scope == RepeatNames(node, outer)
              At1(surface, ast) == IF ast = None THEN <<>> ELSE <<ExprSite(surface, ast, scope)>>
              sites == SelectSeq(node.segs, LAMBDA s : s.kind = "expr")
          IN  IF node.kind = "text" THEN [i \in 1..Len(sites) |-> ExprSite("interpolation", sites[i].ast, outer)]
              ELSE RepeatSite(node, outer) \o (IF node.each = None THEN <<>> ELSE At1("data-key", node.key))
                   \o At1("data-if", node.cond) \o At1("data-bind", node.bind) \o CollectSites(node.kids, scope)
    IN  FlattenSeq([i \in 1..Len(nodes) |-> One(nodes[i])])

\* fragmentReadNames: the free names of every site that parses; any other contributes nothing.
Parsed(site) == site.ast.t # "raw"
FragmentReadNames(tree) ==
    LET sites == SelectSeq(CollectSites(tree, {}), Parsed) IN UNION {NamesOf(sites[i].ast) \ sites[i].scope : i \in 1..Len(sites)}

\* typeOf: what typeFindings knows of an operand.
TypeOf(ast, scope, types) ==
    CASE ast.t = "name" /\ ast.name \notin scope /\ ast.name \in DOMAIN types -> types[ast.name]
      [] ast.t = "lit" /\ ast.v.t \in {"num", "str", "bool"} -> ast.v.t
      [] OTHER -> "unknown"

\* A finding names the node it is about and what it says the node evaluates to.
Says(ast, value) == [ast |-> ast, value |-> value]

\* Mutant: one operand of a known wrong type is taken for any operand of another type.
BlamesAnyPlus(ast, scope, types) ==
    LET l == TypeOf(ast.left, scope, types)  r == TypeOf(ast.right, scope, types)
    IN  IF l # "unknown" /\ r # "unknown" /\ ast.op \in {"+", "-", "*", "/", "%"} /\ (l # "num" \/ r # "num")
        THEN <<Says(ast, Null)>> ELSE <<>>

\* typeFindings on a binary node: arithmetic on another type, a comparison of two types.
BinaryFindings(ast, scope, types) ==
    LET l == TypeOf(ast.left, scope, types)  r == TypeOf(ast.right, scope, types)
    IN  CASE "unknown" \in {l, r} -> <<>>
          [] ast.op \in {"-", "*", "/", "%"} -> IF l # "num" \/ r # "num" THEN <<Says(ast, Null)>> ELSE <<>>
          [] ast.op \in {"<", "<=", ">", ">="} /\ l # r -> <<Says(ast, Bool(FALSE))>>
          [] OTHER -> <<>>

\* typeFindings on a member or an index: of these types it says that they have none.
MemberFindings(ast, scope, types) ==
    IF TypeOf(ast.obj, scope, types) \in {"num", "bool", "str"} THEN <<Says(ast, Null)>> ELSE <<>>

\* typeFindings: every node of a site's tree.
TypeFindings(ast, scope, types) ==
    LET One(node) == CASE node.t \in {"member", "index"} -> MemberFindings(node, scope, types)
                       [] node.t = "binary" -> BinaryFindings(node, scope, types)
                       [] OTHER -> <<>>
        all == Subtrees(ast)
    IN  FlattenSeq([i \in 1..Len(all) |-> One(all[i])])

\* staticType: what a builtin returns counts when it is one type and never null.
Returns(name) == CASE name = "str" -> "str" [] name = "bool" -> "bool" [] OTHER -> "unknown"
StaticType(ast, scope, types) ==
    CASE ast.t = "lit" -> ast.v.t
      [] ast.t = "unary" /\ ast.op = "!" -> "bool"
      [] ast.t = "binary" /\ ast.op \in {"==", "!=", "<", "<=", ">", ">="} -> "bool"
      [] ast.t = "call" -> Returns(ast.name)
      [] OTHER -> TypeOf(ast, scope, types)

\* signatureFindings: an argument of a known type that its parameter does not admit.
SignatureFindings(ast, scope, types) ==
    LET Wrong(call, i) == LET params == Builtins[call.name].params
                              wanted == params[Min({i, Len(params)})]
                              actual == StaticType(call.args[i], scope, types)
                          IN  "any" \notin wanted /\ actual \notin wanted \cup {"unknown"}
        One(node) == IF node.t = "call" /\ \E i \in 1..Len(node.args) : Wrong(node, i) THEN <<Says(node, Null)>> ELSE <<>>
        all == Subtrees(ast)
    IN  FlattenSeq([i \in 1..Len(all) |-> One(all[i])])

\* writeBackFindings: ids whose data-bind has no path to write to; a node's name stands for its id.
RECURSIVE ComputedIds(_, _)
ComputedIds(nodes, outer) ==
    UNION {LET scope == RepeatNames(nodes[i], outer)
           IN  (IF nodes[i].kind = "element" /\ nodes[i].bind # None /\ nodes[i].bind.t # "raw"
                   /\ (nodes[i].bind.t # "name" \/ nodes[i].bind.name \in scope)
                THEN {nodes[i].name} ELSE {}) \cup ComputedIds(nodes[i].kids, scope) : i \in 1..Len(nodes)}

\* orphanKeyFindings: a data-key where nothing repeats.
RECURSIVE OrphanKeys(_)
OrphanKeys(nodes) ==
    UNION {(IF nodes[i].kind = "element" /\ nodes[i].key # None /\ nodes[i].each = None THEN {nodes[i].name} ELSE {})
           \cup OrphanKeys(nodes[i].kids) : i \in 1..Len(nodes)}

(***************************************************************************)
(* analyzeExpressions for one fill: the sources that do not parse, the     *)
(* names read and not declared, the ones declared and not read, and the    *)
(* findings site by site and node by node; handlers are the ids an input   *)
(* or change handler is bound to.                                          *)
(***************************************************************************)
AnalyzeExpressions(tree, declared, types, handlers) ==
    LET all == CollectSites(tree, {})
        sites == SelectSeq(all, Parsed)
        read == FragmentReadNames(tree)
    IN  [invalid  |-> {s.ast.name : s \in {t \in Range(all) : ~ Parsed(t)}},
         unknown  |-> read \ declared,
         unused   |-> declared \ read,
         types    |-> FlattenSeq([i \in 1..Len(sites) |-> TypeFindings(sites[i].ast, sites[i].scope, types)
                                                          \o SignatureFindings(sites[i].ast, sites[i].scope, types)]),
         orphans  |-> OrphanKeys(tree),
         readonly |-> handlers \cap ComputedIds(tree, {})]

-----------------------------------------------------------------------------
(* Properties. *)

\* A template without its orphaned keys.
RECURSIVE WithoutKeys(_)
WithoutKeys(nodes) ==
    [i \in 1..Len(nodes) |-> [nodes[i] EXCEPT !.key = IF nodes[i].each = None THEN None ELSE @, !.kids = WithoutKeys(@)]]

(***************************************************************************)
(* The names static reading lists are all a render depends on: taking away *)
(* the bindings reported unused changes no tree, condition, repeat or      *)
(* finding (analyzeExpressions, fragmentReadNames: "exactly the names a    *)
(* fill's bindings must declare"), and a data-key reported as orphaned     *)
(* really does nothing.  The exception is a data-bind outside the grammar: *)
(* static reading counts it as reading nothing, while bindValue looks its  *)
(* source up as a name, so a binding of that name is read although it is   *)
(* reported unused.  Each such source is itself reported invalid, and      *)
(* these are the only names the list may miss.                             *)
(***************************************************************************)
ReadsCoverRender ==
    \A d \in Data :
        LET Read(b, analysis) ==
                {ProcessTree(tree, [n \in names |-> b[n]], repeatState) :
                    tree \in {template, IF analysis.orphans = {} THEN template ELSE WithoutKeys(template)},
                    names \in {DOMAIN b, DOMAIN b \ (analysis.unused \ analysis.invalid)}}
        IN  Cardinality(Read(ResolveBindings(d), AnalyzeExpressions(template, DOMAIN Declared, <<>>, {}))) = 1

\* The bindings a set of types admits: a value of the type, or nothing at all.
Admits(types, samples) == {b \in [DOMAIN types -> samples] : \A n \in DOMAIN types : b[n].t \in {types[n], "null"}}

\* A member or an index read of a text.
ReadsText(ast, types) == ast.t \in {"member", "index"} /\ TypeOf(ast.obj, {}, types) = "str"

(***************************************************************************)
(* What a finding says of an expression is what evaluating it yields, for  *)
(* every binding of the declared types (typeFindings, signatureFindings:   *)
(* "always resolves to null", "always false", "evaluates to null").  Left  *)
(* out is the one claim that does not hold: a text has a length and        *)
(* positions (readMember), though the finding says it has no members.      *)
(***************************************************************************)
FindingsAreTrue(ast, types, samples) ==
    LET said == TypeFindings(ast, {}, types) \o SignatureFindings(ast, {}, types)
    IN  \A i \in 1..Len(said) : ~ ReadsText(said[i].ast, types) =>
            \A b \in Admits(types, samples) :
                LET x == Eval(said[i].ast, b) IN x.t = said[i].value.t /\ x.v = said[i].value.v

=============================================================================
