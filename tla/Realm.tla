------------------------------- MODULE Realm -------------------------------
(***************************************************************************)
(* Values crossing between the host and a vm context in the Node runtime   *)
(* (node/src/realm.ts).  Both share one heap, so whatever a script is      *)
(* given is made anew in the context's realm, and plain data a script      *)
(* gives back is made anew in the host's.                                  *)
(*                                                                         *)
(* A value is a datum, null, a symbol or the number of a node of the heap. *)
(* A node has its realm, its kind, its own enumerable properties in order, *)
(* and `to`: what a handle or a proxy stands for, or what calling a        *)
(* function gives back.                                                    *)
(***************************************************************************)
EXTENDS Integers, Sequences, SequencesExt, FiniteSets, TLC

CONSTANT MAX_CROSSING_DEPTH   \* how deep a value may nest

Datum == 0
Null == -1
Symbol == -2
Prop(key, value) == [key |-> key, value |-> value]
Node(realm, kind, props) == [realm |-> realm, kind |-> kind, props |-> props, to |-> Datum, throws |-> FALSE, frozen |-> FALSE]

(* What a crossing has done: the heap with the copies it made, those it has made for which nodes,
   the wrappers made so far, the value it came to, whether it was refused, the errors and promises
   it is inside of and whether it met one of them again, which it does for ever. *)
Start(heap) == [heap |-> heap, seen |-> <<>>, wrappers |-> <<>>, out |-> Datum, refused |-> FALSE, inside |-> {}, endless |-> FALSE]
Within(st, v) == [st EXCEPT !.inside = @ \cup {v}]
Endless(st) == [st EXCEPT !.endless = TRUE, !.out = Datum]
Gives(st, v) == [st EXCEPT !.out = v]
Alloc(st, node) == [st EXCEPT !.heap = Append(@, node), !.out = Len(st.heap) + 1]
Remember(st, v, copy) == [st EXCEPT !.seen = (v :> copy) @@ @]
RememberOut(st, v) == Remember(st, v, st.out)
Define(st, target, key, value) == [st EXCEPT !.heap[target].props = Append(@, Prop(key, value))]
DefineOut(st, target, key) == Define(st, target, key, st.out)
FrozenAs(st, frozen) == [st EXCEPT !.heap[st.out].frozen = frozen]

IsFunction(n) == n.kind \in {"function", "proxy"}
(* instanceof the context's Object: an object without a prototype is nobody's. *)
IsContextValue(n) == n.realm = "context" /\ n.kind # "bare"

(* The same host function always has the same wrapper. *)
WrapFunction(v, st) ==
    IF v \in DOMAIN st.wrappers THEN Gives(st, st.wrappers[v])
    ELSE LET made == Alloc(st, Node("context", "function", <<>>)) IN [made EXCEPT !.wrappers = (v :> made.out) @@ @]
(* A placeholder becomes a live property whose getter is wrapped. *)
AllocGetter(st) == Alloc(st, Node("context", "accessor", <<Prop("get", st.out)>>))
DefineAccessor(st, target, key, accessor) == DefineOut(AllocGetter(WrapFunction(st.heap[accessor].to, st)), target, key)

RECURSIVE ToContext(_, _, _)

(* Every property of `props`, converted, is defined on the copy just made. *)
Filled(made, props, depth) ==
    Gives(FoldLeft(LAMBDA acc, p :
                       IF p.value > 0 /\ acc.heap[p.value].kind = "accessor" THEN DefineAccessor(acc, made.out, p.key, p.value)
                       ELSE DefineOut(ToContext(p.value, acc, depth), made.out, p.key),
                   made, props),
          made.out)
(* What is converted on its own, with nothing remembered, not even itself, and remembered by nobody after. *)
Apart(v, made, props) ==
    IF v \in made.inside THEN Endless(made)
    ELSE [Filled(Within([made EXCEPT !.seen = <<>>], v), props, 0) EXCEPT !.seen = made.seen, !.inside = made.inside]

ToContextError(v, st) ==
    Apart(v, Alloc(st, Node("context", "error", <<>>)),
          SelectSeq(st.heap[v].props, LAMBDA p : p.key \notin {"name", "message", "stack"}))

(* A promise of the host's settles one of the context's. *)
ToContextPromise(v, st) == Apart(v, Alloc(st, Node("context", "promise", <<>>)), st.heap[v].props)

CopyHostValue(v, st, depth) ==
    LET n == st.heap[v]
        kind == IF n.kind \in {"array", "map", "set"} THEN n.kind ELSE "object"
    IN  CASE n.kind = "error" -> RememberOut(ToContextError(v, st), v)
          [] n.kind = "date" -> Alloc(st, Node("context", "date", <<>>))
          [] n.kind = "promise" -> ToContextPromise(v, st)
          [] OTHER -> FrozenAs(Filled(RememberOut(Alloc(st, Node("context", kind, <<>>)), v), n.props, depth + 1), n.frozen)

(* A mutated form: the properties before the first that changes are not carried over. *)
CarriesNothing(props, i) == <<>>
(* The properties a copy begins with. *)
Carried(props, i) == SubSeq(props, 1, i - 1)
(* A container is kept if nothing in it changes; at the first property that does, it is copied with
   those before it.  acc is the state and the copy, 0 while there is none. *)
Begun(made, v, key, value) == [st |-> Define(RememberOut(made, v), made.out, key, value), copy |-> made.out]
ReconcileProp(v, n, acc, i, c) ==
    CASE acc.copy # 0 -> [st |-> DefineOut(c, acc.copy, n.props[i].key), copy |-> acc.copy]
      [] acc.copy = 0 /\ c.out # n.props[i].value -> Begun(Alloc(c, Node("context", n.kind, Carried(n.props, i))), v, n.props[i].key, c.out)
      [] OTHER -> [st |-> c, copy |-> 0]
KeptOrCopied(done, v) == Gives(done.st, IF done.copy = 0 THEN v ELSE done.copy)
ReconcileContextValue(v, st, depth) ==
    LET n == st.heap[v]
    IN  IF n.kind \notin {"object", "array"} THEN Gives(st, v)
        ELSE KeptOrCopied(FoldLeft(LAMBDA acc, i : ReconcileProp(v, n, acc, i, ToContext(n.props[i].value, acc.st, depth + 1)),
                                   [st |-> Remember(st, v, v), copy |-> 0], [i \in DOMAIN n.props |-> i]), v)

(* Retained handles and callback proxies turn back into the script's own function. *)
ToContext(v, st, depth) ==
    LET n == st.heap[v]
    IN  CASE v <= 0 -> Gives(st, v)
          [] v > 0 /\ v \in DOMAIN st.seen -> Gives(st, st.seen[v])
          [] v > 0 /\ v \notin DOMAIN st.seen ->
               CASE n.kind \in {"handle", "proxy"} -> Gives(st, n.to)
                 [] n.kind = "function" -> IF IsContextValue(n) THEN Gives(st, v) ELSE WrapFunction(v, st)
                 [] OTHER -> IF depth >= MAX_CROSSING_DEPTH THEN [st EXCEPT !.out = Datum, !.refused = TRUE]
                             ELSE IF IsContextValue(n) THEN ReconcileContextValue(v, st, depth) ELSE CopyHostValue(v, st, depth)

-----------------------------------------------------------------------------
(* Out of the context: arrays, the context's plain objects and those without a prototype are copied,
   functions are not given out, and everything else is passed as it is. *)

ToJSONOf(heap, v) ==
    SelectSeq(heap[v].props, LAMBDA p : p.key = "toJSON" /\ p.value > 0 /\ IsFunction(heap[p.value]))
PlainData(n) == n.kind \in {"array", "bare"} \/ (n.kind = "object" /\ n.realm = "context")
Omitted(heap, value) == value = Symbol \/ (value > 0 /\ IsFunction(heap[value]))

RECURSIVE ToHost(_, _, _, _)
CopyInto(made, v, n, depth) ==
    Gives(FoldLeft(LAMBDA acc, p :
                       IF n.kind # "array" /\ Omitted(acc.heap, p.value) THEN acc
                       ELSE DefineOut(IF p.value = Symbol THEN Gives(acc, Null) ELSE ToHost(p.value, acc, depth + 1, TRUE), made.out, p.key),
                   RememberOut(made, v), n.props),
          made.out)
CopyToHost(v, st, depth) == CopyInto(Alloc(st, Node("host", st.heap[v].kind, <<>>)), v, st.heap[v], depth)
(* A promise of the context's settles one of the host's, with nothing remembered. *)
SettledWith(made, value) == [Gives(DefineOut(value, made.out, "value"), made.out) EXCEPT !.seen = made.seen, !.inside = made.inside]
ToHostPromise(v, made, value) ==
    IF v \in made.inside THEN Endless(made) ELSE SettledWith(made, ToHost(value, Within([made EXCEPT !.seen = <<>>], v), 0, TRUE))
ToHost(v, st, depth, applyToJSON) ==
    LET n == st.heap[v]
        toJSON == st.heap[ToJSONOf(st.heap, v)[1].value]
    IN  IF v <= 0 THEN Gives(st, v)
        ELSE IF IsFunction(n) THEN Gives(st, Null)
        ELSE IF v \in DOMAIN st.seen THEN Gives(st, st.seen[v])
        ELSE IF n.kind = "promise" /\ n.realm = "context" THEN ToHostPromise(v, Alloc(st, Node("host", "promise", <<>>)), n.props[1].value)
        ELSE IF ~ PlainData(n) THEN Gives(st, v)
        ELSE IF depth >= MAX_CROSSING_DEPTH THEN [st EXCEPT !.out = Datum, !.refused = TRUE]
        ELSE IF applyToJSON /\ ToJSONOf(st.heap, v) # <<>> /\ ~ toJSON.throws THEN ToHost(toJSON.to, st, depth, FALSE)
        ELSE CopyToHost(v, st, depth)

(* The arguments of a binding: every script function in them is swapped for a proxy, one for each
   place it stands in, and the containers around it are copied.  `above` are those being gone through. *)
RECURSIVE WrapArg(_, _, _)
SwapBegun(made, key, value) == [st |-> Define(made, made.out, key, value), copy |-> made.out]
SwapProp(n, acc, i, c) ==
    CASE acc.copy # 0 -> [st |-> DefineOut(c, acc.copy, n.props[i].key), copy |-> acc.copy]
      [] acc.copy = 0 /\ c.out # n.props[i].value ->
            SwapBegun(Alloc(c, Node("host", IF n.kind = "array" THEN "array" ELSE "object", SubSeq(n.props, 1, i - 1))), n.props[i].key, c.out)
      [] OTHER -> [st |-> c, copy |-> 0]
WrapArg(v, st, above) ==
    LET n == st.heap[v]
    IN  IF v <= 0 THEN Gives(st, v)
        ELSE IF n.kind = "function" THEN Alloc(st, [Node("host", "proxy", <<>>) EXCEPT !.to = v])
        ELSE IF v \in above \/ n.kind \notin {"object", "array", "bare", "instance"} THEN Gives(st, v)
        ELSE IF Cardinality(above) >= MAX_CROSSING_DEPTH THEN [st EXCEPT !.out = Datum, !.refused = TRUE]
        ELSE KeptOrCopied(FoldLeft(LAMBDA acc, i : SwapProp(n, acc, i, WrapArg(n.props[i].value, acc.st, above \cup {v})),
                                   [st |-> st, copy |-> 0], [i \in DOMAIN n.props |-> i]), v)

-----------------------------------------------------------------------------
(* What is reached from a value, and the pairs of a value and its copy that the same steps reach. *)

ValuesOf(n) == {n.props[i].value : i \in DOMAIN n.props}
RECURSIVE Reached(_, _, _)
Reached(heap, done, todo) ==
    IF todo = {} THEN done
    ELSE LET next == UNION {{w \in ValuesOf(heap[v]) : w > 0} : v \in todo} IN Reached(heap, done \cup todo, next \ (done \cup todo))
From(heap, v) == Reached(heap, {}, IF v > 0 THEN {v} ELSE {})

(* The pairs of a value and its copy that the same keys lead to, through containers; props are the
   properties of the originals as they are meant to arrive. *)
Containers == {"object", "array", "bare", "instance", "map", "set"}
ByKey(A, B) == {<<q[1].value, q[2].value>> : q \in {r \in A \X B : r[1].key = r[2].key}}
RECURSIVE PairsFrom(_, _, _, _)
PairsFrom(heap, done, todo, props) ==
    LET Children(p) ==
          IF p[1] <= 0 \/ p[2] <= 0 \/ p[1] = p[2] THEN {}
          ELSE IF heap[p[1]].kind \notin Containers THEN {} ELSE ByKey(ToSet(props[p[1]]), ToSet(heap[p[2]].props))
    IN  IF todo = {} THEN done
        ELSE PairsFrom(heap, done \cup todo, UNION {Children(p) : p \in todo} \ (done \cup todo), props)
KeysOf(props) == [i \in DOMAIN props |-> props[i].key]
LeadsBack(heap, a) == \E w \in ValuesOf(heap[a]) : a \in From(heap, w)
Emptied(heap, nodes) == [i \in DOMAIN heap |-> IF i \in nodes THEN [heap[i] EXCEPT !.props = <<>>] ELSE heap[i]]

(* A value that nests no deeper than allowed is not refused. *)
NotRefusedIn(st, heap, v) == Cardinality(From(heap, v)) <= MAX_CROSSING_DEPTH => ~ st.refused

(* The context's own objects handed over as they are although not all below is the context's: those that
   are not looked into, and a container met again while it still counts as kept, before its first
   property that is not the context's. *)
Unconverted(heap) ==
    {a \in DOMAIN heap :
        /\ IsContextValue(heap[a]) /\ \E n \in From(heap, a) : ~ IsContextValue(heap[n])
        /\ \/ heap[a].kind \notin {"object", "array"}
           \/ \E i \in DOMAIN heap[a].props :
                /\ a \in From(heap, heap[a].props[i].value)
                /\ \A j \in 1 .. (i - 1) : heap[a].props[j].value > 0 => IsContextValue(heap[heap[a].props[j].value])}
(* What a script is given is all of its own realm but for what only Unconverted objects hold, has the
   shape of what the host gave, and is one object where that was one and not Unconverted, however
   often and in whatever circle it is met.  Only an error or a promise in a circle is never done. *)
ContextKind(n) == IF n.kind \in {"bare", "instance"} /\ ~ IsContextValue(n) THEN "object" ELSE n.kind
ArrivesInContext(heap, v) ==
    \A st \in {ToContext(v, Start(heap), 0)} :
    \A kept \in {Unconverted(heap)} :
    \A pairs \in {PairsFrom(st.heap, {}, {<<v, st.out>>}, [a \in DOMAIN heap |-> heap[a].props])} :
    LET Arrived(a, b) ==
          IF a <= 0 THEN b = a
          ELSE IF heap[a].kind \in {"handle", "proxy"} THEN b = heap[a].to
          ELSE /\ b > 0 /\ st.heap[b].kind = ContextKind(heap[a])
               /\ heap[a].kind \in Containers => KeysOf(st.heap[b].props) = KeysOf(heap[a].props)
               /\ heap[a].realm = "host" => st.heap[b].frozen = heap[a].frozen
    IN  /\ NotRefusedIn(st, heap, v)
        /\ st.endless => \E a \in From(heap, v) : heap[a].realm = "host" /\ heap[a].kind \in {"error", "promise"} /\ LeadsBack(heap, a)
        /\ ~ st.refused /\ ~ st.endless =>
             /\ \A n \in From(Emptied(st.heap, kept), st.out) : st.heap[n].realm = "context"
             /\ \A p \in pairs : Arrived(p[1], p[2])
             /\ \A p, q \in pairs : p[1] = q[1] /\ p[1] > 0 /\ p[1] \notin kept /\ heap[p[1]].kind \in Containers \cup {"function", "error"} => p[2] = q[2]

(* What a host is given is plain data of its own, as the script's toJSON would have it, with null or
   nothing where a function was and the same object where it was the same.  Only a promise that leads
   back to itself, by a toJSON perhaps, is never done. *)
Viewed(heap, a) ==
    IF a <= 0 THEN a
    ELSE IF ~ PlainData(heap[a]) \/ ToJSONOf(heap, a) = <<>> THEN a
    ELSE LET f == heap[ToJSONOf(heap, a)[1].value] IN IF f.throws THEN a ELSE f.to
HostProps(heap, a) ==
    LET n == heap[Viewed(heap, a)]
    IN  IF n.kind = "array" THEN [i \in DOMAIN n.props |-> Prop(n.props[i].key, IF n.props[i].value = Symbol THEN Null ELSE n.props[i].value)]
        ELSE SelectSeq(n.props, LAMBDA p : ~ Omitted(heap, p.value))
ReadByHost(heap, v) ==
    \A st \in {ToHost(v, Start(heap), 0, TRUE)} :
    \A pairs \in {PairsFrom(st.heap, {}, {<<v, st.out>>}, [a \in DOMAIN heap |-> IF Viewed(heap, a) > 0 THEN HostProps(heap, a) ELSE <<>>])} :
    LET Read(a, b) ==
          LET s == Viewed(heap, a)
          IN  IF s <= 0 THEN b = s
              ELSE IF IsFunction(heap[s]) THEN b = Null
              ELSE IF PlainData(heap[s]) THEN
                   b > 0 /\ st.heap[b].realm = "host" /\ st.heap[b].kind = heap[s].kind /\ KeysOf(st.heap[b].props) = KeysOf(HostProps(heap, a))
              ELSE IF heap[s].kind = "promise" /\ heap[s].realm = "context" THEN b > 0 /\ st.heap[b].realm = "host" /\ st.heap[b].kind = "promise"
              ELSE b = s
        called == [i \in DOMAIN heap |-> IF IsFunction(heap[i]) THEN [heap[i] EXCEPT !.props = <<Prop("to", heap[i].to)>>] ELSE heap[i]]
    IN  /\ NotRefusedIn(st, heap, v)
        /\ st.endless => \E a \in From(called, v) : heap[a].kind = "promise" /\ LeadsBack(called, a)
        /\ ~ st.refused /\ ~ st.endless =>
             /\ \A p \in pairs : Read(p[1], p[2])
             /\ \A p, q \in pairs : p[1] = q[1] /\ p[1] > 0 /\ PlainData(heap[p[1]]) => p[2] = q[2]

(* A host never holds a script's function itself among its arguments, and finds a proxy of the right
   one at its place; what holds none is handed over as it is.  A container that holds a function and
   leads back to itself is handed over as it is where it is met again, its functions with it. *)
CallbacksSwapped(heap, v) ==
    \A st \in {WrapArg(v, Start(heap), {})} :
    \A pairs \in {PairsFrom(st.heap, {}, {<<v, st.out>>}, [a \in DOMAIN heap |-> heap[a].props])} :
    LET holds == {a \in From(heap, v) : \E n \in From(heap, a) : heap[n].kind = "function"}
        turning == {a \in holds : LeadsBack(heap, a)}
        Swapped(a, b) ==
          IF a <= 0 \/ a \notin holds THEN b = a
          ELSE b > 0 /\ IF heap[a].kind = "function" THEN st.heap[b].kind = "proxy" /\ st.heap[b].to = a
                        ELSE KeysOf(st.heap[b].props) = KeysOf(heap[a].props) /\ (a \notin turning => b # a)
    IN  /\ NotRefusedIn(st, heap, v)
        /\ ~ st.refused =>
             /\ \A n \in From(Emptied(st.heap, turning), st.out) : st.heap[n].kind # "function"
             /\ \A p \in pairs : Swapped(p[1], p[2])
=============================================================================
