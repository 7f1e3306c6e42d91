-------------------------------- MODULE Xeg --------------------------------
(***************************************************************************)
(* XEG, the expression grammar of fragments (tools/sanitize/src/expr.ts):  *)
(* the parser over tokens, the evaluator, and the sites of expressions in  *)
(* a text.                                                                 *)
(*                                                                         *)
(* A token is a string; numbers and string literals are the tokens of      *)
(* Literals.  A value is [t, v] with t one of "num", "str", "bool",        *)
(* "null", "arr", "obj"; "hole" stands for what JSON cannot express (NaN,  *)
(* an infinity, a function).  Numbers are integers, so an expression       *)
(* divides only what divides evenly; strings are sequences of characters,  *)
(* and an integer prints as one character.                                 *)
(***************************************************************************)
EXTENDS Integers, Sequences, SequencesExt, FiniteSets, FiniteSetsExt, TLC

CONSTANTS
    Literals,   \* literal tokens and their values
    CodeUnit,   \* the code unit of each character
    Upper,      \* the capital of each letter that has one
    Numerals,   \* the integers a character may spell
    MaxNodes,   \* DEFAULT_MAX_EXPRESSION_NODES
    MaxNesting, \* MAX_EXPRESSION_DEPTH
    IsExpression(_)  \* whether a trimmed body of a text is a member of the grammar

Null == [t |-> "null", v |-> 0]
Hole == [t |-> "hole", v |-> 0]
Num(n) == [t |-> "num", v |-> n]
Str(s) == [t |-> "str", v |-> s]
Bool(b) == [t |-> "bool", v |-> b]

\* The builtin table: what each parameter admits ("any" admits everything), how many of
\* them are required, and whether the last one repeats.
Number == {"num"}
Text == {"str"}
Anything == {"any"}
Builtins == [
    abs |-> [params |-> <<Number>>, min |-> 1, variadic |-> FALSE],
    round |-> [params |-> <<Number>>, min |-> 1, variadic |-> FALSE],
    floor |-> [params |-> <<Number>>, min |-> 1, variadic |-> FALSE],
    ceil |-> [params |-> <<Number>>, min |-> 1, variadic |-> FALSE],
    fixed |-> [params |-> <<Number, Number>>, min |-> 2, variadic |-> FALSE],
    upper |-> [params |-> <<Text>>, min |-> 1, variadic |-> FALSE],
    lower |-> [params |-> <<Text>>, min |-> 1, variadic |-> FALSE],
    trim |-> [params |-> <<Text>>, min |-> 1, variadic |-> FALSE],
    max |-> [params |-> <<Number>>, min |-> 1, variadic |-> TRUE],
    min |-> [params |-> <<Number>>, min |-> 1, variadic |-> TRUE],
    clamp |-> [params |-> <<Number, Number, Number>>, min |-> 3, variadic |-> FALSE],
    pad |-> [params |-> <<Text, Number, Text>>, min |-> 2, variadic |-> FALSE],
    slice |-> [params |-> <<Text, Number, Number>>, min |-> 2, variadic |-> FALSE],
    len |-> [params |-> <<{"str", "arr", "obj"}>>, min |-> 1, variadic |-> FALSE],
    has |-> [params |-> <<{"str", "arr", "obj"}, Anything>>, min |-> 2, variadic |-> FALSE],
    join |-> [params |-> <<{"arr"}, Text>>, min |-> 1, variadic |-> FALSE],
    at |-> [params |-> <<{"str", "arr"}, Number>>, min |-> 2, variadic |-> FALSE],
    str |-> [params |-> <<Anything>>, min |-> 1, variadic |-> FALSE],
    num |-> [params |-> <<Anything>>, min |-> 1, variadic |-> FALSE],
    bool |-> [params |-> <<Anything>>, min |-> 1, variadic |-> FALSE]]

-----------------------------------------------------------------------------
(* The parser.  Each step answers [ok, ast, at]: where it stopped, or that it failed. *)

Reserved == {"function", "return", "var", "let", "const", "new", "delete", "typeof", "void", "in", "instanceof",
             "this", "class", "import", "export", "await", "yield", "if", "else", "for", "while", "do", "switch",
             "case", "try", "catch", "throw", "undefined", "globalThis", "eval", "arguments"}
Punctuation == {"?", ":", "??", "||", "&&", "==", "!=", "<", "<=", ">", ">=", "+", "-", "*", "/", "%",
                "!", "(", ")", "[", "]", ".", ","}
IsName(tok) == tok \notin Punctuation \cup DOMAIN Literals
\* What may follow a dot: the words that are literals elsewhere as well.
IsProperty(tok) == IsName(tok) \/ tok \in {"true", "false", "null"}

\* parseNullish down to parseMultiplicative: one left-associative level each.
Levels == << {"??"}, {"||"}, {"&&"}, {"==", "!="}, {"<", "<=", ">", ">="}, {"+", "-"}, {"*", "/", "%"} >>

Failed == [ok |-> FALSE, ast |-> Null, at |-> 0]
Ok(ast, at) == [ok |-> TRUE, ast |-> ast, at |-> at]
At(ts, i, toks) == i <= Len(ts) /\ ts[i] \in toks
Joined(op, l, r) == [t |-> IF op \in {"??", "||", "&&"} THEN "logical" ELSE "binary", op |-> op, left |-> l, right |-> r]

RECURSIVE ParseExpr(_, _, _), ParseLevel(_, _, _, _), ParseRest(_, _, _, _), ParseUnary(_, _, _),
          ParsePostfix(_, _, _), ParseArgs(_, _, _, _)

\* expect: the step that must close what r opened.
Closed(ts, r, close) == IF r.ok /\ At(ts, r.at, {close}) THEN Ok(r.ast, r.at + 1) ELSE Failed

\* parseExpr: the conditional, right-associative.
ParseExpr(ts, i, d) ==
    LET Whole(test, cons, alt) ==
            IF alt.ok THEN Ok([t |-> "cond", test |-> test.ast, cons |-> cons.ast, alt |-> alt.ast], alt.at) ELSE Failed
        Else(test, cons) == IF cons.ok THEN Whole(test, cons, ParseExpr(ts, cons.at, d)) ELSE Failed
        Then(test) == IF ~ test.ok \/ ~ At(ts, test.at, {"?"}) THEN test
                      ELSE Else(test, Closed(ts, ParseExpr(ts, test.at + 1, d), ":"))
    IN  Then(ParseLevel(ts, i, d, 1))

\* Mutant: every level groups to the right.
RightGrouping(ts, left, d, k) ==
    IF ~ (left.ok /\ At(ts, left.at, Levels[k])) THEN left
    ELSE LET right == ParseLevel(ts, left.at + 1, d, k)
         IN  IF right.ok THEN Ok(Joined(ts[left.at], left.ast, right.ast), right.at) ELSE Failed

\* The while loop of a level.
ParseRest(ts, left, d, k) ==
    IF ~ (left.ok /\ At(ts, left.at, Levels[k])) THEN left
    ELSE LET With(right) ==
                 IF right.ok THEN ParseRest(ts, Ok(Joined(ts[left.at], left.ast, right.ast), right.at), d, k) ELSE Failed
         IN  With(ParseLevel(ts, left.at + 1, d, k + 1))

ParseLevel(ts, i, d, k) ==
    IF k > Len(Levels) THEN ParseUnary(ts, i, d) ELSE ParseRest(ts, ParseLevel(ts, i, d, k + 1), d, k)

ParseUnary(ts, i, d) ==
    IF ~ At(ts, i, {"!", "-", "+"}) THEN
        LET \* parsePrimary: literals, names, calls of builtins, groups.
            Called(args) ==
                IF /\ args.ok
                   /\ Len(args.ast) >= Builtins[ts[i]].min
                   /\ Builtins[ts[i]].variadic \/ Len(args.ast) <= Len(Builtins[ts[i]].params)
                THEN Ok([t |-> "call", name |-> ts[i], args |-> args.ast], args.at) ELSE Failed
            primary ==
                CASE i > Len(ts) -> Failed
                  [] ts[i] \in DOMAIN Literals -> Ok([t |-> "lit", v |-> Literals[ts[i]]], i + 1)
                  [] ts[i] = "(" -> IF d >= MaxNesting THEN Failed ELSE Closed(ts, ParseExpr(ts, i + 1, d + 1), ")")
                  [] ts[i] \in Reserved -> Failed
                  [] IsName(ts[i]) /\ At(ts, i + 1, {"("}) ->
                        IF ts[i] \notin DOMAIN Builtins \/ d >= MaxNesting THEN Failed
                        ELSE Called(ParseArgs(ts, i + 2, d + 1, <<>>))
                  [] IsName(ts[i]) -> Ok([t |-> "name", name |-> ts[i]], i + 1)
                  [] OTHER -> Failed
            Postfix(p) == IF p.ok THEN ParsePostfix(ts, p, d) ELSE Failed
        IN  Postfix(primary)
    ELSE LET Over(arg) == IF arg.ok THEN Ok([t |-> "unary", op |-> ts[i], arg |-> arg.ast], arg.at) ELSE Failed
         IN  Over(ParseUnary(ts, i + 1, d))

\* parsePostfix: members and indices; a value is not callable.
ParsePostfix(ts, target, d) ==
    CASE At(ts, target.at, {"."}) ->
            IF target.at < Len(ts) /\ IsProperty(ts[target.at + 1])
            THEN ParsePostfix(ts, Ok([t |-> "member", obj |-> target.ast, name |-> ts[target.at + 1]], target.at + 2), d)
            ELSE Failed
      [] At(ts, target.at, {"["}) ->
            LET Indexed(index) ==
                    IF index.ok THEN ParsePostfix(ts, Ok([t |-> "index", obj |-> target.ast, index |-> index.ast], index.at), d)
                    ELSE Failed
            IN  IF d >= MaxNesting THEN Failed ELSE Indexed(Closed(ts, ParseExpr(ts, target.at + 1, d + 1), "]"))
      [] At(ts, target.at, {"("}) -> Failed
      [] OTHER -> target

ParseArgs(ts, i, d, args) ==
    IF args = <<>> /\ At(ts, i, {")"}) THEN Ok(<<>>, i + 1)
    ELSE LET After(arg) ==
                 CASE ~ arg.ok -> Failed
                   [] At(ts, arg.at, {","}) -> ParseArgs(ts, arg.at + 1, d, Append(args, arg.ast))
                   [] At(ts, arg.at, {")"}) -> Ok(Append(args, arg.ast), arg.at + 1)
                   [] OTHER -> Failed
         IN  After(ParseExpr(ts, i, d))

\* The operands of a node.
Kids(ast) ==
    CASE ast.t \in {"binary", "logical"} -> <<ast.left, ast.right>>
      [] ast.t = "cond" -> <<ast.test, ast.cons, ast.alt>>
      [] ast.t = "unary" -> <<ast.arg>>
      [] ast.t = "member" -> <<ast.obj>>
      [] ast.t = "index" -> <<ast.obj, ast.index>>
      [] ast.t = "call" -> ast.args
      [] OTHER -> <<>>

\* visitAst: the node and everything below it.
RECURSIVE Subtrees(_)
Subtrees(ast) == <<ast>> \o FlattenSeq([i \in 1..Len(Kids(ast)) |-> Subtrees(Kids(ast)[i])])

\* parseExpression: all of the tokens, within the node cap.
ParseExpression(ts) ==
    LET Whole(r) == IF r.ok /\ r.at = Len(ts) + 1 /\ Len(Subtrees(r.ast)) <= MaxNodes THEN r ELSE Failed
    IN  Whole(ParseExpr(ts, 1, 0))

\* ParsedExpression.names.
NamesOf(ast) == {a.name : a \in {b \in Range(Subtrees(ast)) : b.t = "name"}}

-----------------------------------------------------------------------------
(* The evaluator. *)

IsTruthy(x) ==
    CASE x.t = "null" -> FALSE [] x.t = "bool" -> x.v [] x.t = "num" -> x.v # 0 [] x.t = "str" -> x.v # <<>> [] OTHER -> TRUE

\* renderValue: the one stringification.
RECURSIVE RenderValue(_)
RenderJoined(items, sep) ==
    FoldLeft(LAMBDA acc, i : (IF i = 1 THEN <<>> ELSE acc \o sep) \o RenderValue(items[i]), <<>>, [i \in 1..Len(items) |-> i])
RenderValue(x) ==
    CASE x.t = "null" -> <<>> [] x.t = "str" -> x.v [] x.t = "bool" -> <<IF x.v THEN "true" ELSE "false">>
      [] x.t = "num" -> <<ToString(x.v)>> [] x.t = "arr" -> RenderJoined(x.v, <<",">>) [] OTHER -> <<"[object Object]">>

\* toExprValue: a host value, with what an expression must not reach taken out.
RECURSIVE ToExprValue(_)
ToExprValue(x) ==
    CASE x.t = "hole" -> Null
      [] x.t = "arr" -> [x EXCEPT !.v = [i \in 1..Len(x.v) |-> ToExprValue(x.v[i])]]
      [] x.t = "obj" -> [x EXCEPT !.v = [k \in DOMAIN x.v \ {"__proto__", "constructor", "prototype"} |-> ToExprValue(x.v[k])]]
      [] OTHER -> x

IsPrimitive(x) == x.t \notin {"arr", "obj"}
StrictEqual(x, y) == IsPrimitive(x) /\ IsPrimitive(y) /\ x.t = y.t /\ x.v = y.v

\* A position counted from the end when it is negative; characters are counted from 0.
ItemAt(s, i) == {s[k + 1] : k \in {IF i < 0 THEN Len(s) + i ELSE i} \cap (0..Len(s) - 1)}
UnitAt(s, i) == IF ItemAt(s, i) = {} THEN Null ELSE Str(<<CHOOSE c \in ItemAt(s, i) : TRUE>>)
ElementAt(s, i) == IF ItemAt(s, i) = {} THEN Null ELSE CHOOSE x \in ItemAt(s, i) : TRUE

\* String.prototype.trim, and Number() of a text: an empty one is 0, one that spells no number is none.
TrimText(s) ==
    LET ink == {i \in 1..Len(s) : s[i] # " "} IN IF ink = {} THEN <<>> ELSE SubSeq(s, Min(ink), Max(ink))
SpelledBy(s) ==
    IF TrimText(s) = <<>> THEN {0} ELSE {n \in Numerals : TrimText(s) = <<ToString(n)>>}

\* readMember: a text key of an array is a number, a number key of an object a name.
ReadMember(x, key) ==
    CASE x.t = "str" /\ key.t = "num" -> UnitAt(x.v, key.v)
      [] x.t \in {"str", "arr"} /\ key.t = "str" /\ key.v = <<"length">> -> Num(Len(x.v))
      [] x.t = "arr" /\ key.t = "num" -> ElementAt(x.v, key.v)
      [] x.t = "arr" -> LET at == {n \in SpelledBy(key.v) : 0 <= n /\ n < Len(x.v)}
                        IN  IF at = {} THEN Null ELSE ElementAt(x.v, CHOOSE n \in at : TRUE)
      [] x.t = "obj" -> LET name == RenderValue(key)
                        IN  IF Len(name) = 1 /\ name[1] \in DOMAIN x.v THEN x.v[name[1]] ELSE Null
      [] OTHER -> Null

\* Strings are ordered by their code units.
Before(s, r) ==
    \E k \in 0..Min({Len(s), Len(r)}) :
        /\ SubSeq(s, 1, k) = SubSeq(r, 1, k) /\ k < Len(r)
        /\ IF k < Len(s) THEN CodeUnit[s[k + 1]] < CodeUnit[r[k + 1]] ELSE TRUE

Compare(op, x, y) ==
    /\ x.t = y.t /\ x.t \in {"num", "str"}
    /\ LET less == IF x.t = "num" THEN x.v < y.v ELSE Before(x.v, y.v)
       IN  CASE op = "<" -> less [] op = "<=" -> less \/ x = y [] op = ">" -> ~ less /\ x # y [] OTHER -> ~ less

Size(n) == IF n < 0 THEN -n ELSE n
\* JavaScript's % takes the sign of the dividend.
Remainder(a, b) == LET m == Size(a) % Size(b) IN IF a < 0 THEN -m ELSE m

Arithmetic(op, x, y) ==
    IF x.t # "num" \/ y.t # "num" THEN Null
    ELSE CASE op = "+" -> Num(x.v + y.v) [] op = "-" -> Num(x.v - y.v) [] op = "*" -> Num(x.v * y.v)
           [] y.v = 0 -> Null
           [] op = "/" -> Num(CHOOSE q \in (-Size(x.v))..Size(x.v) : q * y.v = x.v)
           [] OTHER -> Num(Remainder(x.v, y.v))

\* binary "+": text when either side is text and both are primitive.
Plus(x, y) ==
    IF "str" \in {x.t, y.t}
    THEN IF IsPrimitive(x) /\ IsPrimitive(y) THEN Str(RenderValue(x) \o RenderValue(y)) ELSE Null
    ELSE Arithmetic("+", x, y)

Sliced(s, from, to) ==
    LET Bound(i) == LET k == IF i < 0 THEN Len(s) + i ELSE i IN Min({Max({k, 0}), Len(s)})
    IN  SubSeq(s, Bound(from) + 1, Bound(to))

Padded(s, n, fill) ==
    [i \in 1..(n - Len(s)) |-> fill[((i - 1) % Len(fill)) + 1]] \o s

\* callBuiltin: an argument of the wrong type makes the call null.
CallBuiltin(name, args) ==
    LET n == Len(args)  a == args[1]
        Of(i, types) == i <= n /\ args[i].t \in types
        numbers == \A i \in 1..n : Of(i, Number)
        Mapped(f) == Str([i \in 1..Len(a.v) |-> IF a.v[i] \in DOMAIN f THEN f[a.v[i]] ELSE a.v[i]])
    IN  CASE name \in {"abs", "round", "floor", "ceil"} -> IF ~ numbers THEN Null ELSE IF name = "abs" THEN Num(Size(a.v)) ELSE a
          [] name = "fixed" ->
                IF ~ numbers \/ args[2].v \notin 0..20 THEN Null
                ELSE Str(<<ToString(a.v)>> \o (IF args[2].v = 0 THEN <<>> ELSE <<".">> \o [i \in 1..args[2].v |-> "0"]))
          [] name \in {"upper", "lower", "trim"} ->
                CASE a.t # "str" -> Null
                  [] name = "upper" -> Mapped(Upper)
                  [] name = "lower" -> Mapped(AntiFunction(Upper))
                  [] OTHER -> Str(TrimText(a.v))
          [] name \in {"min", "max"} ->
                IF ~ numbers THEN Null
                ELSE LET all == {args[i].v : i \in 1..n} IN Num(IF name = "min" THEN Min(all) ELSE Max(all))
          [] name = "clamp" -> IF ~ numbers \/ args[2].v > args[3].v THEN Null ELSE Num(Min({Max({a.v, args[2].v}), args[3].v}))
          [] name = "pad" ->
                LET fill == IF n > 2 THEN args[3] ELSE Str(<<" ">>)
                IN  IF ~ Of(1, Text) \/ ~ Of(2, Number) \/ args[2].v \notin 0..4096 \/ fill.t # "str" \/ fill.v = <<>> THEN Null
                    ELSE IF Len(a.v) >= args[2].v THEN a ELSE Str(Padded(a.v, args[2].v, fill.v))
          [] name = "slice" ->
                IF ~ Of(1, Text) \/ ~ Of(2, Number) \/ (n > 2 /\ ~ Of(3, Number)) THEN Null
                ELSE Str(Sliced(a.v, args[2].v, IF n > 2 THEN args[3].v ELSE Len(a.v)))
          [] name = "len" -> IF Of(1, Text \cup {"arr"}) THEN Num(Len(a.v)) ELSE IF a.t = "obj" THEN Num(Cardinality(DOMAIN a.v)) ELSE Null
          [] name = "has" ->
                CASE a.t = "str" -> Bool(args[2].t = "str" /\ \E i \in 0..Len(a.v) : IsPrefix(args[2].v, SubSeq(a.v, i + 1, Len(a.v))))
                  [] a.t = "arr" -> Bool(\E i \in 1..Len(a.v) : StrictEqual(a.v[i], args[2]))
                  [] a.t = "obj" -> Bool(args[2].t = "str" /\ Len(args[2].v) = 1 /\ args[2].v[1] \in DOMAIN a.v)
                  [] OTHER -> Null
          [] name = "join" -> IF a.t # "arr" \/ (n > 1 /\ ~ Of(2, Text)) THEN Null
                              ELSE Str(RenderJoined(a.v, IF n > 1 THEN args[2].v ELSE <<",">>))
          [] name = "at" -> IF ~ Of(2, Number) THEN Null
                            ELSE IF a.t = "str" THEN UnitAt(a.v, args[2].v)
                            ELSE IF a.t = "arr" THEN ElementAt(a.v, args[2].v) ELSE Null
          [] name = "str" -> Str(RenderValue(a))
          [] name = "num" ->
                CASE a.t = "num" -> a
                  [] a.t = "bool" -> Num(IF a.v THEN 1 ELSE 0)
                  [] a.t = "str" /\ TrimText(a.v) # <<>> /\ SpelledBy(a.v) # {} -> Num(CHOOSE k \in SpelledBy(a.v) : TRUE)
                  [] OTHER -> Null
          [] OTHER -> Bool(IsTruthy(a))

\* evalNode, hence evaluateAst: total over every tree and every binding.
RECURSIVE Eval(_, _)
Eval(ast, b) ==
    CASE ast.t = "lit" -> ast.v
      [] ast.t = "name" -> IF ast.name \in DOMAIN b THEN ToExprValue(b[ast.name]) ELSE Null
      [] ast.t = "member" -> ReadMember(Eval(ast.obj, b), Str(<<ast.name>>))
      [] ast.t = "index" -> LET key == Eval(ast.index, b)
                            IN  IF key.t \in {"num", "str"} THEN ReadMember(Eval(ast.obj, b), key) ELSE Null
      [] ast.t = "unary" -> LET x == Eval(ast.arg, b)
                            IN  CASE ast.op = "!" -> Bool(~ IsTruthy(x)) [] x.t # "num" -> Null
                                  [] ast.op = "-" -> Num(-x.v) [] OTHER -> x
      [] ast.t = "logical" -> LET x == Eval(ast.left, b)
                              IN  CASE ast.op = "&&" -> IF IsTruthy(x) THEN Eval(ast.right, b) ELSE x
                                    [] ast.op = "||" -> IF IsTruthy(x) THEN x ELSE Eval(ast.right, b)
                                    [] OTHER -> IF x.t = "null" THEN Eval(ast.right, b) ELSE x
      [] ast.t = "cond" -> IF IsTruthy(Eval(ast.test, b)) THEN Eval(ast.cons, b) ELSE Eval(ast.alt, b)
      [] ast.t = "call" -> CallBuiltin(ast.name, [i \in 1..Len(ast.args) |-> Eval(ast.args[i], b)])
      [] OTHER -> LET x == Eval(ast.left, b)  y == Eval(ast.right, b)
                  IN  CASE ast.op = "==" -> Bool(StrictEqual(x, y))
                        [] ast.op = "!=" -> Bool(~ StrictEqual(x, y))
                        [] ast.op \in {"<", "<=", ">", ">="} -> Bool(Compare(ast.op, x, y))
                        [] ast.op = "+" -> Plus(x, y)
                        [] OTHER -> Arithmetic(ast.op, x, y)

\* evaluateExpression: a source outside the grammar is null.
EvaluateExpression(ts, b) == LET r == ParseExpression(ts) IN IF r.ok THEN Eval(r.ast, b) ELSE Null

\* evaluateCondition.
EvaluateCondition(ts, b) == IsTruthy(EvaluateExpression(ts, b))

-----------------------------------------------------------------------------
(* The grammar as its reference states it: a table of precedences, all       *)
(* binary operators grouping to the left (spec/expression-reference.json).   *)

Precedence(ast) ==
    CASE ast.t = "cond" -> 1
      [] ast.t \in {"binary", "logical"} ->
            CASE ast.op = "??" -> 2 [] ast.op = "||" -> 3 [] ast.op = "&&" -> 4 [] ast.op \in {"==", "!="} -> 5
              [] ast.op \in {"<", "<=", ">", ">="} -> 6 [] ast.op \in {"+", "-"} -> 7 [] OTHER -> 8
      [] ast.t = "unary" -> 9
      [] OTHER -> 10

\* An expression with no more brackets than the table asks for.
RECURSIVE Spelled(_, _)
Spelled(ast, least) ==
    LET p == Precedence(ast)
        bare == CASE ast.t = "cond" -> Spelled(ast.test, 2) \o <<"?">> \o Spelled(ast.cons, 1) \o <<":">> \o Spelled(ast.alt, 1)
                  [] ast.t \in {"binary", "logical"} -> Spelled(ast.left, p) \o <<ast.op>> \o Spelled(ast.right, p + 1)
                  [] ast.t = "unary" -> <<ast.op>> \o Spelled(ast.arg, p)
                  [] ast.t = "member" -> Spelled(ast.obj, p) \o <<".", ast.name>>
                  [] ast.t = "index" -> Spelled(ast.obj, p) \o <<"[">> \o Spelled(ast.index, 1) \o <<"]">>
                  [] ast.t = "call" -> <<ast.name, "(">>
                        \o FlattenSeq([i \in 1..Len(ast.args) |-> (IF i = 1 THEN <<>> ELSE <<",">>) \o Spelled(ast.args[i], 1)]) \o <<")">>
                  [] ast.t = "lit" -> <<CHOOSE tok \in DOMAIN Literals : Literals[tok] = ast.v>>
                  [] OTHER -> <<ast.name>>
    IN  IF p < least THEN <<"(">> \o bare \o <<")">> ELSE bare

\* How deep an expression's brackets nest.
NestingOf(ts) ==
    LET Depth(i) == Cardinality({j \in 1..i : ts[j] \in {"(", "["}}) - Cardinality({j \in 1..i : ts[j] \in {")", "]"}})
    IN  Max({0} \cup {Depth(i) : i \in 1..Len(ts)})

(***************************************************************************)
(* An expression written with only the brackets the reference's precedence *)
(* table asks for parses back to itself, exactly when it is within the     *)
(* node cap and the nesting limit (Parser, one method per level), and is   *)
(* worth what its tree is worth, beyond the limits nothing.                *)
(***************************************************************************)
ParserFollowsReference(ast, b) ==
    LET Within(ts) == Len(Subtrees(ast)) <= MaxNodes /\ NestingOf(ts) <= MaxNesting
        Follows(ts, r) == /\ r.ok <=> Within(ts)
                          /\ r.ok => r.ast = ast
                          /\ EvaluateCondition(ts, b) <=> Within(ts) /\ IsTruthy(Eval(ast, b))
        Parsed(ts) == Follows(ts, ParseExpression(ts))
    IN  Parsed(Spelled(ast, 1))

-----------------------------------------------------------------------------
(* {{ expression }} sites in a text node (interpolate.ts).  A text is a sequence of characters, of
   which the scanner tells apart "\\", "{", "}", " " and the rest. *)

OpenMark == <<"{", "{">>
CloseMark == <<"}", "}">>
EscapeMark == <<"\\", "{", "{">>

StartsAt(text, mark, i) == i + Len(mark) - 1 <= Len(text) /\ SubSeq(text, i, i + Len(mark) - 1) = mark
HasMark(text, mark) == \E i \in 1..Len(text) : StartsAt(text, mark, i)

\* String.prototype.trim.
Trim(text) ==
    LET ink == {i \in 1..Len(text) : text[i] # " "}
    IN  IF ink = {} THEN <<>> ELSE SubSeq(text, Min(ink), Max(ink))

Literal(text) == [kind |-> "literal", text |-> text]
Site(source) == [kind |-> "expr", text |-> source]

Flush(acc) == IF acc.literal = <<>> THEN acc.segments ELSE Append(acc.segments, Literal(acc.literal))

\* Mutant: an escape leaves the scan looking as if nothing had happened.
SkipsEscape(acc) == [acc EXCEPT !.literal = @ \o OpenMark, !.at = @ + Len(EscapeMark)]
\* \{{ is a literal {{, and counts as a change.
TakeEscape(acc) == [acc EXCEPT !.literal = @ \o OpenMark, !.opened = TRUE, !.at = @ + Len(EscapeMark)]

\* A site closes at the first }}; a body that nests or is no expression is an issue.
TakeSite(text, acc, close) ==
    LET body == SubSeq(text, acc.at + 2, close - 1)
    IN  [literal |-> <<>>, opened |-> TRUE, at |-> close + 2, segments |-> Append(Flush(acc), Site(Trim(body))),
         issues |-> acc.issues + (IF HasMark(body, OpenMark) \/ ~ IsExpression(Trim(body)) THEN 1 ELSE 0)]

\* segmentText: one turn of the loop.
ScanStep(text, acc) ==
    LET closes == {j \in (acc.at + 2)..Len(text) : StartsAt(text, CloseMark, j)}
    IN  CASE StartsAt(text, EscapeMark, acc.at) -> TakeEscape(acc)
          [] ~ StartsAt(text, OpenMark, acc.at) -> [acc EXCEPT !.literal = Append(@, text[acc.at]), !.at = @ + 1]
          [] closes = {} -> [acc EXCEPT !.literal = @ \o OpenMark, !.at = @ + 2]
          [] OTHER -> TakeSite(text, acc, Min(closes))

\* segmentText: the segments, or none when the scan changed nothing.
SegmentSource(text) ==
    LET scan == FoldLeft(LAMBDA acc, n : IF acc.at > Len(text) THEN acc ELSE ScanStep(text, acc),
                         [literal |-> <<>>, opened |-> FALSE, at |-> 1, segments |-> <<>>, issues |-> 0],
                         [n \in 1..Len(text) |-> n])
    IN  [changed |-> scan.opened, segments |-> IF scan.opened THEN Flush(scan) ELSE <<>>, issues |-> scan.issues]

\* segmentsToSource: every {{ of a literal is escaped, left to right.
EscapeOpens(text) ==
    FoldLeft(LAMBDA acc, i : CASE i < acc.at -> acc
                               [] StartsAt(text, OpenMark, i) -> [out |-> acc.out \o EscapeMark, at |-> i + 2]
                               [] OTHER -> [out |-> Append(acc.out, text[i]), at |-> i + 1],
             [out |-> <<>>, at |-> 1], [i \in 1..Len(text) |-> i]).out
SegmentsToSource(segments) ==
    FlattenSeq([i \in 1..Len(segments) |->
        IF segments[i].kind = "literal" THEN EscapeOpens(segments[i].text)
        ELSE OpenMark \o <<" ">> \o segments[i].text \o <<" ">> \o CloseMark])

(***************************************************************************)
(* A text without issues means the same once it has been segmented and     *)
(* written back: the same segments, and none of its escapes is lost        *)
(* (segmentText, segmentsToSource "used only to assert round-trip          *)
(* fidelity").                                                             *)
(***************************************************************************)
SegmentsRoundTrip(text) ==
    LET s == SegmentSource(text)
        again == SegmentSource(SegmentsToSource(s.segments))
    IN  /\ (s.changed /\ s.issues = 0) => again = s
        /\ ~ s.changed => s.issues = 0 /\ ~ HasMark(text, EscapeMark)

=============================================================================
