------------------------------ MODULE Crossing ------------------------------
(* Values crossing the sandbox boundary (crossing.ts, marshal.ts).  Going    *)
(* out, a script value is spelled by one of two encoders: a JSON pass whose  *)
(* replacer marks what JSON would change, or a tape of shape codes, numbers, *)
(* text and leaves; the host has a reader for each.  Coming in, a host value *)
(* is spelled as JSON or as a tape the sandbox decodes.  A value is a leaf   *)
(* [k, at, s] or a reference [k |-> "ref", at |-> object] into a heap, so    *)
(* shared and cyclic values are ordinary.  Texts are sequences of code       *)
(* units, of which NUL and a lone surrogate are the ones C strings lose.     *)
EXTENDS Integers, Sequences, SequencesExt, TLC

CONSTANTS MAX_CROSSING_DEPTH, NATIVE_STRINGIFY_DEPTH, UNTRACKED_CONTAINERS,
          MAX_JSON_DEPTH

(* The depths leave each other room. *)
DepthsInOrder ==
    /\ {MAX_CROSSING_DEPTH, NATIVE_STRINGIFY_DEPTH, UNTRACKED_CONTAINERS,
        MAX_JSON_DEPTH} \subseteq Nat
    /\ UNTRACKED_CONTAINERS < NATIVE_STRINGIFY_DEPTH
    /\ NATIVE_STRINGIFY_DEPTH <= MAX_CROSSING_DEPTH
    /\ MAX_JSON_DEPTH < MAX_CROSSING_DEPTH

Nul == 0
Lone == 1
Replacement == 9

Value(k, at, s) == [k |-> k, at |-> at, s |-> s]
Plain(k) == Value(k, 0, <<>>)
Num(n) == Value("number", n, <<>>)
Text(s) == Value("text", 0, s)
Ref(o) == Value("ref", o, <<>>)
NoBox == Plain("none")
IsSpecial(v) == v.k \in {"nan", "inf", "-inf", "-0"}

(* A heap object.  box is the primitive a wrapper object holds, derived says *)
(* its class extends the wrapper's; toJSON is "none", "throws" or "gives";   *)
(* hidden are the properties reached without being own and enumerable.       *)
Entry(key, val) == [key |-> key, val |-> val]
Object(array, items) ==
    [array |-> array, items |-> items, box |-> NoBox, derived |-> FALSE,
     toJSON |-> "none", gives |-> NoBox, hidden |-> <<>>, class |-> FALSE]

Tree(k, items) == [k |-> k, items |-> items]
Shape(o) == IF o.array THEN "array" ELSE "object"

(* The names an error keeps outside its own enumerable keys.                 *)
NAMED == <<<<2>>, <<3>>, <<4>>>>
PROTO == <<5>>

Blank == [codes |-> <<>>, numbers |-> <<>>, text |-> <<>>, leaves |-> <<>>, fail |-> ""]
Code(T, c) == [T EXCEPT !.codes = Append(@, c)]
Number(T, v) == [T EXCEPT !.numbers = Append(@, v)]
Spelled(T, c, s) ==
    [Number(Code(T, c), Num(Len(s))) EXCEPT !.text = @ \o s]
Failed(T, why) == [T EXCEPT !.fail = why]

Found(h, v, name) ==
    LET all == h[v.at].items \o h[v.at].hidden
        at == SelectInSeq(all, LAMBDA e : e.key = name)
    IN  IF at = 0 \/ h[v.at].array THEN Plain("undefined") ELSE all[at].val

Enumerable(h, v, name) == \E e \in ToSet(h[v.at].items) : e.key = name

NeedsNamed(h, v) ==
    /\ v.k = "ref"
    /\ ~h[v.at].array
    /\ \/ h[v.at].toJSON # "none"
       \/ \E name \in ToSet(NAMED) :
              ~Enumerable(h, v, name) /\ Found(h, v, name).k # "undefined"

Unwrap(h, v) == IF v.k = "ref" /\ h[v.at].box # NoBox THEN h[v.at].box ELSE v

Prepare(h, v) ==
    IF v.k # "ref" THEN v
    ELSE IF h[v.at].toJSON = "gives" THEN Unwrap(h, h[v.at].gives)
    ELSE Unwrap(h, v)

LeafCode == [undefined |-> "u", true |-> "t", false |-> "f", null |-> "n", symbol |-> "n"]

SpellLeaf(T, v) ==
    CASE v.k = "number" \/ IsSpecial(v) -> Number(Code(T, "d"), v)
      [] v.k = "text" -> Spelled(T, "s", v.s)
      [] v.k = "bigint" -> Spelled(T, "b", v.s)
      [] v.k = "function" -> [Code(T, "F") EXCEPT !.leaves = Append(@, v.at)]
      [] OTHER -> Code(T, LeafCode[v.k])

(* How many levels up a cycle points: the innermost open container that is   *)
(* the one met again.                                                        *)
Up(anc, o) == Len(anc) + 1 - SelectLastInSeq(anc, LAMBDA a : a = o)

RECURSIVE Walk(_, _, _, _, _)

(* name, message and stack of source, after the entries of the frame that    *)
(* carries them; one that cannot be spelled is rolled back.                  *)
EmitNamed(h, T, source, emitted) ==
    LET Emit(t, name) ==
            LET found == Found(h, source, name)
                value == Prepare(h, found)
                next == Walk(h, Spelled(t, "s", name), value, <<>>, NoBox)
            IN  IF \/ name \in emitted
                   \/ found.k \in {"undefined", "thrower"}
                   \/ value.k = "symbol"
                   \/ next.fail # ""
                THEN t ELSE next
    IN  FoldLeft(Emit, T, NAMED)

Walk(h, T, v, anc, named) ==
    IF T.fail # "" THEN T
    ELSE IF v.k = "thrower" THEN Failed(T, "threw")
    ELSE IF v.k # "ref" THEN SpellLeaf(T, v)
    ELSE IF v.at \in ToSet(anc) THEN Number(Code(T, "c"), Num(Up(anc, v.at)))
    ELSE IF Len(anc) >= MAX_CROSSING_DEPTH THEN Failed(T, "deep")
    ELSE
    LET o == h[v.at]
        Item(t, e) ==
            LET item == Prepare(h, e.val)
                Under(tt) == Walk(h, tt, item, Append(anc, v.at), NoBox)
            IN  IF o.array THEN Under(t)
                ELSE IF item.k = "symbol" THEN t
                ELSE Under(Spelled(t, "s", e.key))
        inside == FoldLeft(Item, Code(T, IF o.array THEN "[" ELSE "{"), o.items)
        emitted == IF o.array THEN {}
                   ELSE {e.key : e \in {x \in ToSet(o.items) : Prepare(h, x.val).k # "symbol"}}
        whole == IF named = NoBox \/ inside.fail # "" THEN inside
                 ELSE EmitNamed(h, inside, named, emitted)
    IN  Code(whole, IF o.array THEN "]" ELSE "}")

(***************************************************************************)
(* The JSON pass.  P is the replacer's state between calls: the containers *)
(* counted before it follows them, then the open containers it follows     *)
(* (holder 0 is the root's wrapper), the one it has just admitted, and the *)
(* leaves it has marked.  deepest is how far the engine's own recursion    *)
(* went, stop why the pass ended early.                                    *)
(***************************************************************************)
Mark(c, at, s) == [k |-> "mark", code |-> c, at |-> at, s |-> s]
MarkOf == [undefined |-> "u", nan |-> "n", inf |-> "i"] @@ ("-inf" :> "j") @@ ("-0" :> "z")

(* Mutant: the containers passed before following began are not allowed for. *)
PassAtFullDepth(fromStart) ==
    [tracking |-> fromStart, containers |-> 0, stack |-> <<>>, opened |-> 0,
     limit |-> NATIVE_STRINGIFY_DEPTH, marked |-> FALSE, leaves |-> <<>>, deepest |-> 0, stop |-> ""]

Pass(fromStart) ==
    [tracking |-> fromStart, containers |-> 0, stack |-> <<>>, opened |-> 0,
     limit |-> IF fromStart THEN NATIVE_STRINGIFY_DEPTH
               ELSE NATIVE_STRINGIFY_DEPTH - UNTRACKED_CONTAINERS,
     marked |-> FALSE, leaves |-> <<>>, deepest |-> 0, stop |-> ""]

Stopped(P, why) == [P EXCEPT !.stop = why]

(* Mutant: the holders left behind stay on the stack.                        *)
FollowKeepsAll(P, holder) ==
    IF ~P.tracking \/ holder \in ToSet(P.stack) THEN P
    ELSE [P EXCEPT !.stack = Append(@, holder)]

Follow(P, holder) ==
    LET at == SelectLastInSeq(P.stack, LAMBDA x : x = holder)
    IN  IF ~P.tracking \/ (P.stack # <<>> /\ Last(P.stack) = holder) THEN P
        ELSE IF holder = P.opened /\ P.opened # 0 THEN [P EXCEPT !.stack = Append(@, holder)]
        ELSE IF at = 0 THEN [P EXCEPT !.stack = <<holder>>]
        ELSE [P EXCEPT !.stack = SubSeq(@, 1, at)]

(* A container met in the pass: counted while few, then compared with the    *)
(* open ones, refused when it nests past the limit, admitted otherwise.      *)
MeetContainer(P, holder, v) ==
    LET Counted == [P EXCEPT !.containers = IF P.tracking THEN @ ELSE @ + 1]
        Followed(c) == IF P.tracking \/ c.containers <= UNTRACKED_CONTAINERS THEN c
                       ELSE [c EXCEPT !.tracking = TRUE, !.stack = <<holder>>]
        Admit(Q) ==
            IF ~Q.tracking THEN [p |-> Q, v |-> v]
            ELSE IF v.at \in ToSet(Q.stack)
            THEN [p |-> [Q EXCEPT !.marked = TRUE], v |-> Mark("c", Up(Q.stack, v.at), <<>>)]
            ELSE IF Len(Q.stack) >= Q.limit THEN [p |-> Stopped(Q, "deep"), v |-> v]
            ELSE [p |-> [Q EXCEPT !.opened = v.at], v |-> v]
    IN  Admit(Followed(Counted))

Replacer(h, P, holder, v, functionsCross) ==
    LET boxed == v.k = "ref" /\ h[v.at].box.k \in {"number", "bigint", "nan", "inf", "-inf", "-0"} /\ ~h[v.at].derived
        Replace(Q, M, x) ==
            CASE x.k \in DOMAIN MarkOf -> [p |-> M, v |-> Mark(MarkOf[x.k], 0, <<>>)]
              [] x.k = "bigint" -> [p |-> M, v |-> Mark("b", 0, x.s)]
              [] x.k = "function" /\ functionsCross ->
                    [p |-> [M EXCEPT !.leaves = Append(@, x.at)], v |-> Mark("f", Len(Q.leaves), <<>>)]
              [] x.k = "ref" -> MeetContainer(Q, holder, x)
              [] OTHER -> [p |-> Q, v |-> x]
        Under(Q) == Replace(Q, [Q EXCEPT !.marked = TRUE], IF boxed THEN h[v.at].box ELSE v)
    IN  Under(Follow(P, holder))

(* The engine's own JSON.stringify around the replacer: it runs toJSON,      *)
(* unwraps wrapper objects, spells numbers JSON lacks as null, leaves out    *)
(* functions and symbols, and stops at a value it is already inside.         *)
Omitted == Plain("omitted")

RECURSIVE Stringify(_, _, _, _, _, _)

Stringify(h, P, holder, raw, native, functionsCross) ==
    IF P.stop # "" THEN [p |-> P, json |-> Omitted]
    ELSE IF raw.k = "thrower" \/ (raw.k = "ref" /\ h[raw.at].toJSON = "throws")
    THEN [p |-> Stopped(P, "threw"), json |-> Omitted]
    ELSE
    LET v == IF raw.k = "ref" /\ h[raw.at].toJSON = "gives" THEN h[raw.at].gives ELSE raw
        Unwrapped(met) == [met EXCEPT !.v = IF @.k = "mark" THEN @ ELSE Unwrap(h, @)]
        Deeper(p, depth) == [p EXCEPT !.deepest = IF @ > depth THEN @ ELSE depth]
        Container(p, x, o, nat) ==
            LET With(acc, key, one, j) ==
                    [p |-> one.p, items |-> IF j = Omitted THEN acc.items ELSE Append(acc.items, Entry(key, j))]
                Hole(acc, key, one) ==
                    With(acc, key, one, IF o.array /\ one.json = Omitted THEN Plain("null") ELSE one.json)
                Item(acc, e) == Hole(acc, e.key, Stringify(h, acc.p, x.at, e.val, nat, functionsCross))
                Whole(all) == [p |-> all.p, json |-> Tree(Shape(o), all.items)]
            IN  Whole(FoldLeft(Item, [p |-> Deeper(p, Len(nat)), items |-> <<>>], o.items))
        Spelt(p, x) ==
            IF p.stop # "" THEN [p |-> p, json |-> Omitted]
            ELSE IF x.k = "bigint" \/ (x.k = "ref" /\ x.at \in ToSet(native))
            THEN [p |-> Stopped(p, IF x.k = "ref" THEN "circular" ELSE "threw"), json |-> Omitted]
            ELSE IF x.k = "ref" THEN Container(p, x, h[x.at], Append(native, x.at))
            ELSE [p |-> p, json |->
                CASE x.k \in {"nan", "inf", "-inf"} -> Plain("null")
                  [] x.k = "-0" -> Num(0)
                  [] x.k \in {"function", "symbol"} -> Omitted
                  [] OTHER -> x]
        Met(m) == Spelt(m.p, m.v)
    IN  Met(Unwrapped(Replacer(h, P, holder, v, functionsCross)))

FastPass(h, v, functionsCross, fromStart) ==
    Stringify(h, Pass(fromStart), 0, v, <<>>, functionsCross)

(* encode: the JSON pass, again from the start when a cycle it was not       *)
(* following stopped it, else the tape.  safe says no script has put an      *)
(* index accessor on the prototypes the engine's own arrays use.             *)
JsonPass(h, v, functionsCross) ==
    LET Again(first) == IF first.p.stop = "circular" THEN FastPass(h, v, functionsCross, TRUE) ELSE first
    IN  Again(FastPass(h, v, functionsCross, FALSE))

TapeOf(h, v, named) ==
    LET prepared == Prepare(h, v)
        root == IF prepared.k = "symbol" THEN Plain("undefined") ELSE prepared
    IN  Walk(h, Blank, root, <<>>, IF named THEN v ELSE NoBox)

Encode(h, v, copyNamed, functionsCross, safe) ==
    LET Use(named, pass) ==
            IF ~named /\ safe /\ pass.p.stop = "" /\ pass.json # Omitted
            THEN [by |-> "json", json |-> pass.json, leaves |-> pass.p.leaves]
            ELSE [by |-> "tape", tape |-> TapeOf(h, v, named)]
    IN  Use(copyNamed /\ NeedsNamed(h, v), JsonPass(h, v, functionsCross))

(***************************************************************************)
(* The host's readers.  A function is handed to the binding call's scope   *)
(* with the path it was found at (proxies), or carries no data.  What the  *)
(* host holds is a tree whose cycles name the ancestor by its depth.       *)
(***************************************************************************)
Back(depth) == Value("back", depth, <<>>)
Proxy(f, path) == [k |-> "proxy", at |-> f, path |-> path]
FunctionRead(f, path, proxies) == IF proxies THEN Proxy(f, path) ELSE Plain("null")

(* What the host's C string decoding returns: it ends at NUL, and each lone  *)
(* surrogate is three bytes UTF-8 refuses, one replacement character each.   *)
GetString(s) ==
    LET nul == SelectInSeq(s, LAMBDA u : u = Nul)
        cut == IF nul = 0 THEN s ELSE SubSeq(s, 1, nul - 1)
        Decode1(acc, u) == acc \o (IF u = Lone THEN <<Replacement, Replacement, Replacement>> ELSE <<u>>)
    IN  FoldLeft(Decode1, <<>>, cut)

(* readString, readText: a text whose decoded length disagrees crosses again *)
(* as code units; one that lost as much as it gained is taken as decoded.    *)
ReadText(s) == IF Len(GetString(s)) = Len(s) THEN GetString(s) ELSE s

RECURSIVE MarkRead(_, _, _, _, _)

(* MarkReader.read: markers back into values, in place.                      *)
MarkRead(j, leaves, depth, path, proxies) ==
    IF j.k \in {"object", "array"}
    THEN Tree(j.k, [i \in DOMAIN j.items |->
             Entry(j.items[i].key,
                   MarkRead(j.items[i].val, leaves, depth + 1,
                            Append(path, IF j.k = "array" THEN <<i - 1>> ELSE j.items[i].key), proxies))])
    ELSE IF j.k # "mark" THEN j
    ELSE CASE j.code = "b" -> Value("bigint", 0, j.s)
           [] j.code = "c" -> Back(depth - j.at)
           [] j.code = "f" -> FunctionRead(leaves[j.at + 1], path, proxies)
           [] OTHER -> Plain(CHOOSE k \in DOMAIN MarkOf : MarkOf[k] = j.code)

(* TapeReader: r is where it stands in the codes, numbers, text and leaves.  *)
Reader(T) == [at |-> 1, numberAt |-> 1, textAt |-> 1, leafAt |-> 1, T |-> T, out |-> NoBox]
NextCode(r) == r.T.codes[r.at]
Spelling(r) ==
    LET n == r.T.numbers[r.numberAt].at
    IN  [r EXCEPT !.numberAt = @ + 1, !.textAt = @ + n,
                  !.out = Text(SubSeq(r.T.text, r.textAt, r.textAt + n - 1))]
Refusal(why) == [k |-> "refused", why |-> why]
(* BigInt throws on what is not digits.                                      *)
BigIntOf(s) == IF Replacement \in ToSet(s) THEN Refusal("digits") ELSE Value("bigint", 0, s)
LeafOf == [u |-> "undefined", t |-> "true", f |-> "false", n |-> "null"]

RECURSIVE TapeRead(_, _, _, _), ReadItems(_, _, _, _, _, _)

ReadItems(r, array, items, depth, path, proxies) ==
    IF NextCode(r) \in {"]", "}"}
    THEN [r EXCEPT !.at = @ + 1, !.out = Tree(IF array THEN "array" ELSE "object", items)]
    ELSE LET keyed == IF array THEN r ELSE Spelling([r EXCEPT !.at = @ + 1])
             key == IF array THEN <<>> ELSE keyed.out.s
             step == IF array THEN <<Len(items)>> ELSE key
         IN  IF ~array /\ NextCode(keyed) = "F" /\ ~proxies
             THEN ReadItems([keyed EXCEPT !.at = @ + 1, !.leafAt = @ + 1], array, items, depth, path, proxies)
             ELSE LET one == TapeRead(keyed, depth, Append(path, step), proxies)
                  IN  ReadItems(one, array, Append(items, Entry(key, one.out)), depth, path, proxies)

TapeRead(r0, depth, path, proxies) ==
    LET c == NextCode(r0)
        r == [r0 EXCEPT !.at = @ + 1]
        n == r.T.numbers[r.numberAt]
    IN  CASE c = "d" -> [r EXCEPT !.numberAt = @ + 1, !.out = n]
          [] c = "s" -> Spelling(r)
          [] c = "b" -> LET q == Spelling(r) IN [q EXCEPT !.out = BigIntOf(q.out.s)]
          [] c = "c" -> [r EXCEPT !.numberAt = @ + 1, !.out = Back(depth - n.at)]
          [] c = "F" -> [r EXCEPT !.leafAt = @ + 1, !.out = FunctionRead(r.T.leaves[r.leafAt], path, proxies)]
          [] c \in {"[", "{"} -> ReadItems(r, c = "[", <<>>, depth + 1, path, proxies)
          [] OTHER -> [r EXCEPT !.out = Plain(LeafOf[c])]

(* A refusal anywhere in a tree is a refusal of the whole.                   *)
RECURSIVE Refused(_)
Refused(t) ==
    \/ t.k = "refused"
    \/ t.k \in {"object", "array"} /\ \E e \in ToSet(t.items) : Refused(e.val)

ReadTape(T, proxies) ==
    LET Whole(out) == IF Refused(out) THEN Refusal("digits") ELSE out
    IN  IF T.fail # "" THEN Refusal(T.fail)
        ELSE Whole(TapeRead(Reader([T EXCEPT !.text = ReadText(@)]), 0, <<>>, proxies).out)

(* readFromQuickJS: a primitive directly, anything with structure through    *)
(* encode and the reader for what it returned.                               *)
ReadFromQuickJS(h, v, copyNamed, proxies, safe) ==
    LET Crossed(c) == IF c.by = "json" THEN MarkRead(c.json, c.leaves, 0, <<>>, proxies)
                      ELSE ReadTape(c.tape, proxies)
    IN  CASE v.k = "function" -> FunctionRead(v.at, <<>>, proxies)
          [] v.k = "text" -> Text(ReadText(v.s))
          [] v.k = "symbol" -> Value("symbol", 0, GetString(v.s))
          [] v.k \notin {"function", "text", "symbol", "ref"} -> v
          [] OTHER -> Crossed(Encode(h, v, copyNamed, proxies, safe))

(***************************************************************************)
(* Coming in.  A host value may also be a retained callback or the proxy   *)
(* of a running call, which cross as the script's own function (at is that *)
(* function, 0 when the callback is released, expired or the host's own).  *)
(***************************************************************************)
CStringSafe(s) == ToSet(s) \cap {Nul, Lone} = {}

RECURSIVE IsJsonExact(_, _, _)

(* Mutant: an array's holes are read as its elements.                        *)
ExactWithHoles(h, v, anc) ==
    \/ v.k \in {"text", "true", "false", "null", "number", "hole"}
    \/ /\ v.k = "ref"
       /\ Len(anc) <= MAX_JSON_DEPTH
       /\ v.at \notin ToSet(anc)
       /\ ~h[v.at].class
       /\ \A e \in ToSet(h[v.at].items) : IsJsonExact(h, e.val, Append(anc, v.at))

IsJsonExact(h, v, anc) ==
    \/ v.k \in {"text", "true", "false", "null", "number"}
    \/ /\ v.k = "ref"
       /\ Len(anc) <= MAX_JSON_DEPTH
       /\ v.at \notin ToSet(anc)
       /\ ~h[v.at].class
       /\ \A e \in ToSet(h[v.at].items) :
              /\ h[v.at].array \/ e.key # PROTO
              /\ IsJsonExact(h, e.val, Append(anc, v.at))

InText(T, s) ==
    IF CStringSafe(s) THEN Spelled(T, "s", s)
    ELSE [Number(Code(T, "w"), Num(Len(s))) EXCEPT !.numbers = @ \o [i \in DOMAIN s |-> Num(s[i])]]

InSymbol(T, s) == IF s = <<>> \/ ~CStringSafe(s) THEN Code(T, "Y") ELSE Spelled(T, "y", s)

IsThenable(h, v) ==
    v.k = "ref" /\ ~h[v.at].array
    /\ \E e \in ToSet(h[v.at].items) : e.key = <<6>> /\ e.val.k = "proxy"

RECURSIVE Spell(_, _, _, _, _)

Spell(h, T, v, anc, top) ==
    IF T.fail # "" THEN T
    ELSE IF v.k = "retained" /\ v.at = 0 THEN Failed(T, "released")
    ELSE IF v.k \in {"retained", "proxy"} /\ v.at # 0 THEN [Code(T, "F") EXCEPT !.leaves = Append(@, v.at)]
    ELSE IF v.k # "ref" THEN
        CASE v.k = "text" -> InText(T, v.s)
          [] v.k = "symbol" -> IF top THEN InSymbol(T, v.s) ELSE Code(T, "u")
          [] v.k \in {"proxy", "hole"} -> Code(T, "u")
          [] OTHER -> SpellLeaf(T, v)
    ELSE IF IsThenable(h, v) THEN Failed(T, "promise")
    ELSE IF v.at \in ToSet(anc) THEN Number(Code(T, "c"), Num(Up(anc, v.at)))
    ELSE IF Len(anc) >= MAX_CROSSING_DEPTH THEN Failed(T, "deep")
    ELSE
    LET o == h[v.at]
        Item(t, e) == Spell(h, IF o.array THEN t ELSE InText(t, e.key), e.val, Append(anc, v.at), FALSE)
    IN  Code(FoldLeft(Item, Code(T, IF o.array THEN "[" ELSE "{"), o.items), IF o.array THEN "]" ELSE "}")

(* decode: one code at a time, onto the innermost open frame.  The sandbox   *)
(* heap grows as containers open; keys waits for a key's value.              *)
DecodeStart == [heap |-> <<>>, frames |-> <<>>, keys |-> <<>>, numberAt |-> 1, textAt |-> 1,
                leafAt |-> 1, result |-> NoBox]

Placed(d, v) ==
    LET o == Last(d.frames)
        key == Last(d.keys)
    IN  IF d.frames = <<>> THEN [d EXCEPT !.result = v]
        ELSE IF d.heap[o].array THEN [d EXCEPT !.heap[o].items = Append(@, Entry(<<>>, v))]
        ELSE IF key = <<>> THEN [d EXCEPT !.keys[Len(d.keys)] = <<v.s>>]
        ELSE [d EXCEPT !.keys[Len(d.keys)] = <<>>, !.heap[o].items = Append(@, Entry(key[1], v))]

DecodeCode(T, d, c) ==
    LET n == T.numbers[d.numberAt]
        Spelt(k) == Placed([d EXCEPT !.numberAt = @ + 1, !.textAt = @ + n.at],
                           Value(k, 0, SubSeq(T.text, d.textAt, d.textAt + n.at - 1)))
    IN  CASE c \in {"[", "{"} ->
                [d EXCEPT !.heap = Append(@, Object(c = "[", <<>>)),
                          !.frames = Append(@, Len(d.heap) + 1), !.keys = Append(@, <<>>)]
          [] c \in {"]", "}"} ->
                Placed([d EXCEPT !.frames = Front(@), !.keys = Front(@)], Ref(Last(d.frames)))
          [] c = "d" -> Placed([d EXCEPT !.numberAt = @ + 1], n)
          [] c = "s" -> Spelt("text")
          [] c = "b" -> Spelt("bigint")
          [] c = "y" -> Spelt("symbol")
          [] c = "Y" -> Placed(d, Plain("symbol"))
          [] c = "w" -> Placed([d EXCEPT !.numberAt = @ + 1 + n.at],
                               Text([i \in 1 .. n.at |-> T.numbers[d.numberAt + i].at]))
          [] c = "c" -> Placed([d EXCEPT !.numberAt = @ + 1], Ref(d.frames[Len(d.frames) + 1 - n.at]))
          [] c = "F" -> Placed([d EXCEPT !.leafAt = @ + 1], Value("function", T.leaves[d.leafAt], <<>>))
          [] OTHER -> Placed(d, Plain(LeafOf[c]))

Build(T) ==
    IF T.fail # "" THEN [DecodeStart EXCEPT !.result = Refusal(T.fail)]
    ELSE FoldLeft(LAMBDA d, c : DecodeCode(T, d, c), DecodeStart, T.codes)

(* JSON.stringify on the host and the sandbox's captured JSON.parse.         *)
RECURSIVE HostJson(_, _), Parsed(_, _)

HostJson(h, v) ==
    CASE v.k \in {"undefined", "symbol", "function", "proxy", "hole"} -> Omitted
      [] v.k \in {"nan", "inf", "-inf"} -> Plain("null")
      [] v.k = "-0" -> Num(0)
      [] v.k = "ref" ->
            LET o == h[v.at]
                spelt == [i \in DOMAIN o.items |-> Entry(o.items[i].key, HostJson(h, o.items[i].val))]
            IN  Tree(Shape(o),
                     IF o.array
                     THEN [i \in DOMAIN spelt |-> IF spelt[i].val = Omitted THEN Entry(<<>>, Plain("null")) ELSE spelt[i]]
                     ELSE SelectSeq(spelt, LAMBDA e : e.val # Omitted))
      [] OTHER -> v

Parsed(heap, j) ==
    IF j.k \notin {"object", "array"} THEN [heap |-> heap, result |-> j]
    ELSE LET Item(acc, e) ==
                 LET one == Parsed(acc.heap, e.val)
                 IN  [heap |-> one.heap, items |-> Append(acc.items, Entry(e.key, one.result))]
             all == FoldLeft(Item, [heap |-> heap, items |-> <<>>], j.items)
         IN  [heap |-> Append(all.heap, Object(j.k = "array", all.items)),
              result |-> Ref(Len(all.heap) + 1)]

ParseIntoSandbox(h, v) == Parsed(<<>>, HostJson(h, v))

MarshalToQuickJS(h, v) ==
    LET Direct(x) == [heap |-> <<>>, result |-> x]
    IN  CASE v.k \in {"undefined", "null", "true", "false", "number"} \/ IsSpecial(v) -> Direct(v)
          [] v.k = "text" /\ CStringSafe(v.s) -> Direct(v)
          [] v.k = "retained" -> Direct(IF v.at = 0 THEN Refusal("released") ELSE Value("function", v.at, <<>>))
          [] v.k = "proxy" -> Direct(IF v.at = 0 THEN Plain("undefined") ELSE Value("function", v.at, <<>>))
          [] IsThenable(h, v) -> Direct(Refusal("promise"))
          [] v.k = "ref" /\ ~IsThenable(h, v) /\ IsJsonExact(h, v, <<>>) -> ParseIntoSandbox(h, v)
          [] v.k = "text" /\ ~CStringSafe(v.s) -> ParseIntoSandbox(h, v)
          [] OTHER -> Build(Spell(h, Blank, v, <<>>, TRUE))

(* marshalArgsToQuickJS: args is the heap's array of arguments.              *)
MarshalArgsToQuickJS(h, args) ==
    IF IsJsonExact(h, args, <<>>) THEN ParseIntoSandbox(h, args)
    ELSE LET Arg(t, e) == Spell(h, t, e.val, <<args.at>>, TRUE)
         IN  Build(Code(FoldLeft(Arg, Code(Blank, "["), h[args.at].items), "]"))

(* readConsoleArgument: what a console line receives for an argument.  A     *)
(* function crosses as its text; what cannot be read is named, not thrown,   *)
(* except a budget stop, which the console call must end with.               *)
Unreadable == Plain("unreadable")

SettleStop(interrupted) == IF interrupted THEN Refusal("interrupted") ELSE Unreadable

ReadConsoleArgument(h, v, safe, interrupted) ==
    LET Read(r) == IF r.k # "refused" THEN r
                   ELSE IF r = Refusal("threw") THEN SettleStop(interrupted)
                   ELSE Unreadable
    IN  IF v.k = "function" THEN Plain("functiontext")
        ELSE Read(ReadFromQuickJS(h, v, TRUE, FALSE, safe))

-----------------------------------------------------------------------------
(* What the boundary promises, said without an encoding: a value's tree.     *)
RECURSIVE Promised(_, _, _, _, _)

Promised(h, raw, anc, path, proxies) ==
    LET v == Prepare(h, raw)
        o == h[v.at]
        Child(i) == Promised(h, o.items[i].val, Append(anc, v.at),
                             Append(path, IF o.array THEN <<i - 1>> ELSE o.items[i].key), proxies)
        Dropped(i) == LET item == Prepare(h, o.items[i].val)
                      IN  item.k = "symbol" \/ (item.k = "function" /\ ~proxies)
        kept == SelectSeq([i \in DOMAIN o.items |-> i], LAMBDA i : ~Dropped(i))
    IN  IF v.k = "function" THEN FunctionRead(v.at, path, proxies)
        ELSE IF v.k = "symbol" THEN Plain("null")
        ELSE IF v.k = "thrower" THEN Refusal("threw")
        ELSE IF v.k # "ref" THEN v
        ELSE IF v.at \in ToSet(anc) THEN Back(SelectLastInSeq(anc, LAMBDA a : a = v.at) - 1)
        ELSE IF Len(anc) >= MAX_CROSSING_DEPTH THEN Refusal("deep")
        ELSE IF o.array THEN Tree("array", [i \in DOMAIN o.items |-> Entry(<<>>, Child(i))])
        ELSE Tree("object", [j \in DOMAIN kept |-> Entry(o.items[kept[j]].key, Child(kept[j]))])

(* The tree moved down one level, below the object that carries it.          *)
RECURSIVE Lowered(_, _)
Lowered(t, key) ==
    IF t.k \in {"object", "array"}
    THEN Tree(t.k, [i \in DOMAIN t.items |-> Entry(t.items[i].key, Lowered(t.items[i].val, key))])
    ELSE IF t.k = "back" THEN Back(t.at + 1) ELSE t

(* With copyNamed, a top-level object that lacks name, message or stack      *)
(* gains those the script value has and that can be read.                    *)
PromisedRead(h, v, copyNamed, proxies) ==
    LET own == Promised(h, v, <<>>, <<>>, proxies)
        Gains(name) ==
            LET found == Found(h, v, name)
            IN  /\ ~\E e \in ToSet(own.items) : e.key = name
                /\ found.k \notin {"undefined", "thrower"}
                /\ Prepare(h, found).k \notin {"symbol"} \cup (IF proxies THEN {} ELSE {"function"})
                /\ ~Refused(Promised(h, found, <<>>, <<name>>, proxies))
        gained == SelectSeq(NAMED, Gains)
    IN  IF v.k = "symbol" THEN v
        ELSE IF own.k # "object" \/ Refused(own) \/ ~copyNamed \/ v.k # "ref" THEN own
        ELSE Tree("object", own.items \o
                  [i \in DOMAIN gained |->
                      Entry(gained[i], Lowered(Promised(h, Found(h, v, gained[i]), <<>>, <<gained[i]>>, proxies), gained[i]))])

SameOrRefused(read, promised) == IF Refused(promised) THEN Refused(read) ELSE read = promised

(***************************************************************************)
(* The texts that decoding changes unnoticed: what a NUL cut off is as     *)
(* long as what the lone surrogates before it gained, so that the length   *)
(* that readString and readText compare agrees.  On the tape it is the     *)
(* texts of the whole value, put together, that are decoded at once.  A    *)
(* symbol's description is never compared.                                 *)
(***************************************************************************)
Garbled(s) == Len(GetString(s)) = Len(s) /\ GetString(s) # s
Garbles(h, v, copyNamed, proxies, safe) ==
    LET OnTape(c) == c.by = "tape" /\ c.tape.fail = "" /\ Garbled(c.tape.text)
    IN  CASE v.k = "text" -> Garbled(v.s)
          [] v.k = "symbol" -> GetString(v.s) # v.s
          [] v.k = "ref" -> OnTape(Encode(h, v, copyNamed, proxies, safe))
          [] OTHER -> FALSE

(* Every script value reaches the host as promised, by whichever encoder     *)
(* carried it: the tape (a script has touched the prototypes) or the JSON    *)
(* pass, with or without the names of an error, with or without callbacks.   *)
(* The exception is a text that is garbled, though "JavaScript values [stay] *)
(* intact at every depth" (crossing.ts:958); the run asks such texts.        *)
ReadsAsPromised(h, v) ==
    \A copyNamed, proxies, safe \in BOOLEAN :
        \/ Garbles(h, v, copyNamed, proxies, safe)
        \/ SameOrRefused(ReadFromQuickJS(h, v, copyNamed, proxies, safe), PromisedRead(h, v, copyNamed, proxies))

(* A console call fails only for a budget stop, whatever it is given.        *)
ConsoleNeverThrows(h, v) ==
    \A safe, interrupted \in BOOLEAN :
        LET OnlyStopped(read) == read.k = "refused" => interrupted /\ read = Refusal("interrupted")
        IN  OnlyStopped(ReadConsoleArgument(h, v, safe, interrupted))

(* The engine's own recursion, which nothing stops, stays within the depth   *)
(* it is trusted with, on the first pass and on the one that follows cycles. *)
NativeDepthHolds(h, v) ==
    \A functionsCross, fromStart \in BOOLEAN :
        FastPass(h, v, functionsCross, fromStart).p.deepest <= NATIVE_STRINGIFY_DEPTH

(* What a host value is once inside.                                         *)
RECURSIVE Arriving(_, _, _, _)
Arriving(h, v, anc, top) ==
    LET o == h[v.at]
    IN  IF v.k = "retained" /\ v.at = 0 THEN Refusal("released")
        ELSE IF v.k \in {"retained", "proxy"} /\ v.at # 0 THEN Value("function", v.at, <<>>)
        ELSE IF v.k \in {"proxy", "hole"} \/ (v.k = "symbol" /\ ~top) THEN Plain("undefined")
        ELSE IF v.k = "symbol" /\ ~CStringSafe(v.s) THEN Plain("symbol")
        ELSE IF v.k # "ref" THEN v
        ELSE IF IsThenable(h, v) THEN Refusal("promise")
        ELSE IF v.at \in ToSet(anc) THEN Back(SelectLastInSeq(anc, LAMBDA a : a = v.at) - 1)
        ELSE IF Len(anc) >= MAX_CROSSING_DEPTH THEN Refusal("deep")
        ELSE Tree(Shape(o), [i \in DOMAIN o.items |->
                 Entry(o.items[i].key, Arriving(h, o.items[i].val, Append(anc, v.at), FALSE))])

RECURSIVE Unfolded(_, _, _)
Unfolded(h, v, anc) ==
    IF v.k # "ref" THEN v
    ELSE IF v.at \in ToSet(anc) THEN Back(SelectLastInSeq(anc, LAMBDA a : a = v.at) - 1)
    ELSE Tree(Shape(h[v.at]), [i \in DOMAIN h[v.at].items |->
             Entry(h[v.at].items[i].key, Unfolded(h, h[v.at].items[i].val, Append(anc, v.at)))])

HoldsFunctions(h) == \E i \in DOMAIN h : \E e \in ToSet(h[i].items) : e.val.k \in {"retained", "proxy"}

(* A host value arrives whole by JSON and by tape alike, and a value without *)
(* callbacks comes back from the sandbox as the value that went in, unless   *)
(* the way back garbles a text in it.                                        *)
ArrivesAsPromised(h, v) ==
    LET Kept(inside, promised) ==
            /\ SameOrRefused(Unfolded(inside.heap, inside.result, <<>>), promised)
            /\ ~Refused(promised) /\ ~HoldsFunctions(h) /\ v.k \notin {"retained", "proxy"} =>
                   \/ Garbles(inside.heap, inside.result, FALSE, FALSE, TRUE)
                   \/ ReadFromQuickJS(inside.heap, inside.result, FALSE, FALSE, TRUE) = promised
    IN  Kept(MarshalToQuickJS(h, v), Arriving(h, v, <<>>, TRUE))

(* An argument list arrives with each argument as it would alone.            *)
ArgumentsAsPromised(h, args) ==
    LET inside == MarshalArgsToQuickJS(h, args)
        alone == [i \in DOMAIN h[args.at].items |-> Arriving(h, h[args.at].items[i].val, <<args.at>>, TRUE)]
    IN  SameOrRefused(Unfolded(inside.heap, inside.result, <<>>),
                      Tree("array", [i \in DOMAIN alone |-> Entry(<<>>, alone[i])]))
=============================================================================
