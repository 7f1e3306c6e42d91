----------------------------- MODULE MCCrossing -----------------------------
(* Values put to the boundary, one a step: every pair of leaves in an array  *)
(* or an object beside an object of each kind, and every chain with one more *)
(* edge, so that values nest past each depth limit, share and turn in cycles *)
(* at each of them.                                                          *)
EXTENDS Crossing

G == INSTANCE Globals WITH Granted <- {"read"}
N == INSTANCE Realm
VARIABLE asked

Keys == <<<<2>>, <<7, 7>>>>
Keyed(vs) == [i \in DOMAIN vs |-> Entry(Keys[i], vs[i])]
Items(array, vs) == IF array THEN [i \in DOMAIN vs |-> Entry(<<>>, vs[i])] ELSE Keyed(vs)
UpTo2(S, R) == {<<>>} \cup {<<a>> : a \in S} \cup {<<a, b>> : a \in S, b \in R}

Digits == Value("bigint", 0, <<8, 8>>)
Fn(n) == Value("function", n, <<>>)
(* One text that is garbled alone, one that is together with two units more. *)
Texts == {Text(<<7>>), Text(<<7, Nul, 8>>), Text(<<Lone>>), Text(<<Lone, Nul, 7>>), Text(<<Lone, Lone, Nul, 8>>)}
ScriptLeaves == {Plain(k) : k \in {"undefined", "null", "true", "nan", "inf", "-0", "symbol", "thrower"}}
                \cup {Num(1), Digits, Fn(1), Value("symbol", 0, <<7, Nul>>)} \cup Texts
FewLeaves == {Plain("undefined"), Plain("symbol"), Fn(2), Text(<<8, Nul>>), Digits}

(* The second object: plain, a wrapper, one with toJSON, one like an error.  *)
Beside == {Object(a, Items(a, vs)) : a \in BOOLEAN, vs \in UpTo2({Ref(1), Plain("nan"), Fn(3)}, {Ref(2)})}
Boxes == {[Object(FALSE, <<>>) EXCEPT !.box = b] : b \in {Num(1), Plain("nan"), Text(<<7>>), Plain("true"), Digits}}
Jsons == {[Object(FALSE, Keyed(<<Num(1)>>)) EXCEPT !.toJSON = "throws"]}
         \cup {[Object(FALSE, Keyed(<<Num(1)>>)) EXCEPT !.toJSON = "gives", !.gives = g] : g \in {Plain("undefined"), Plain("-0"), Fn(4), Digits, Ref(1), Ref(2)}}
Named(v, w) == <<Entry(<<3>>, v), Entry(<<4>>, w)>>
Errors == {[Object(FALSE, <<>>) EXCEPT !.hidden = Named(v, w)] :
              v \in {Text(<<7, 7>>), Plain("thrower"), Ref(3), Plain("nan")}, w \in {Plain("undefined"), Fn(5), Plain("symbol"), Text(<<Lone>>)}}
Third == Object(TRUE, Items(TRUE, <<Digits, Ref(3)>>))
Roots == {Object(a, Items(a, vs)) : a \in BOOLEAN, vs \in UpTo2(ScriptLeaves \cup {Ref(1), Ref(2)}, FewLeaves \cup {Ref(1), Ref(2)})}
OutQuestions == {[about |-> "out", heap |-> <<r, b, Third>>, value |-> Ref(1)] : r \in Roots, b \in Beside \cup Boxes \cup Jsons}
                \cup {[about |-> "out", heap |-> <<e, b, Third>>, value |-> Ref(1)] : e \in Errors \cup {[x EXCEPT !.toJSON = "gives", !.gives = g] : x \in Errors, g \in {Ref(2), Plain("null")}}, b \in {Object(FALSE, Keyed(<<Plain("nan")>>))}}
                \cup {[about |-> "out", heap |-> <<Third, Third, Third>>, value |-> v] : v \in ScriptLeaves \ {Plain("thrower")}}

(* Chains: 1 -> 2 -> ... -> n, each with one leaf, and one more edge.        *)
Links == 1 .. (MAX_CROSSING_DEPTH + 1)
Chain(n, a, b, first, leaf) ==
    [i \in 1 .. n |->
        LET on == IF i < n THEN <<Ref(i + 1)>> ELSE <<leaf>>
        IN  Object(i % 2 = 0, Items(i % 2 = 0, IF i # a THEN on ELSE IF first THEN <<Ref(b)>> \o on ELSE on \o <<Ref(b)>>))]
WellFormed(q) == \A i \in DOMAIN q.heap : \A e \in ToSet(q.heap[i].items) : e.val.k = "ref" => e.val.at \in DOMAIN q.heap
DeepQuestions == {q \in {[about |-> "out", heap |-> Chain(n, a, b, first, leaf), value |-> Ref(1)] :
                            n \in Links, a \in {0} \cup Links, b \in Links, first \in BOOLEAN, leaf \in {Num(1), Plain("-0")}} : WellFormed(q)}

(* Host values: the same chains, and pairs of leaves only a host has.        *)
HostLeaves == {Plain(k) : k \in {"undefined", "null", "false", "-inf", "-0", "hole"}}
              \cup {Num(1), Digits, Value("symbol", 0, <<7>>), Value("symbol", 0, <<Nul>>), Plain("symbol")} \cup Texts
              \cup {Value(k, f, <<>>) : k \in {"retained", "proxy"}, f \in {0, 1}}
HostKeys == {<<7>>, PROTO, <<6>>, <<Nul, 7>>}
HostRoots == {Object(TRUE, Items(TRUE, vs)) : vs \in UpTo2(HostLeaves \cup {Ref(2)}, HostLeaves)}
             \cup {[Object(FALSE, <<Entry(k, v), Entry(<<8>>, w)>>) EXCEPT !.class = c] : k \in HostKeys, v \in HostLeaves \cup {Ref(2)}, w \in {Num(1), Ref(1), Plain("undefined")}, c \in BOOLEAN}
HostBeside == {Object(FALSE, <<Entry(PROTO, Num(1))>>), Object(FALSE, <<Entry(<<7>>, Text(<<Lone, 7>>))>>), Object(TRUE, <<Entry(<<>>, Ref(1))>>)}
InQuestions == {[about |-> "in", heap |-> <<r, b>>, value |-> Ref(1)] : r \in HostRoots, b \in HostBeside}
               \cup {[about |-> "in", heap |-> <<Third, Third, Third>>, value |-> v] : v \in HostLeaves}
               \cup {[q EXCEPT !.about = "in"] : q \in DeepQuestions}

(* Script values read as promised, garbled texts aside, and a console call   *)
(* survives them.                                                            *)
ReadsIntact == asked.about = "out" => ReadsAsPromised(asked.heap, asked.value) /\ ConsoleNeverThrows(asked.heap, asked.value)
(* The engine's unguarded recursion is never trusted too far.                *)
NativeDepthBounded == asked.about = "out" => NativeDepthHolds(asked.heap, asked.value)
(* Host values arrive as promised, alone and as arguments.                   *)
ArrivesIntact ==
    asked.about = "in" =>
        /\ ArrivesAsPromised(asked.heap, asked.value)
        /\ asked.value.k = "ref" /\ asked.heap[1].array => ArgumentsAsPromised(asked.heap, asked.value)

(* A manifest's bindings against a host's: a namespace of two members, each *)
(* declared and supplied in every way, and a global beside it.              *)
Leaf(kind, optional, async, cap, mode) == [kind |-> kind, optional |-> optional, async |-> async, cap |-> cap, mode |-> mode, members |-> <<>>]
Ns(optional, members) == [Leaf("namespace", optional, FALSE, "", "") EXCEPT !.members = members]
Leaves == {Leaf("function", o, a, c, "") : o \in BOOLEAN, a \in BOOLEAN, c \in {"", "write"}}
          \cup {Leaf("accessor", o, FALSE, c, m) : o \in BOOLEAN, c \in {"read", "write"}, m \in {"get", "get-set"}}
HostFn == G!HostValue("fn", <<>>)
AwareFn == [HostFn EXCEPT !.aware = TRUE]
Getters == {[G!HostValue("getter", <<>>) EXCEPT !.set = b] : b \in BOOLEAN}
HostObj(props) == G!HostValue("object", props)
HostLeafs == {G!Undefined, HostFn, AwareFn, G!Primitive, HostObj("get" :> HostFn), HostObj(("get" :> AwareFn) @@ ("set" :> HostFn))} \cup Getters
Plainly == Leaf("function", FALSE, FALSE, "", "")
Nested == Ns(TRUE, "deep" :> Plainly)
Members(a, b) == ("a" :> a) @@ ("b" :> b)
Supplied(a, b) == HostObj(IF a = G!Undefined THEN "b" :> b ELSE ("a" :> a) @@ ("b" :> b))
Install(bindings, hooks, host, tier, hostEvents) ==
    [about |-> "install", m |-> [bindings |-> bindings, hooks |-> hooks], host |-> host, tier |-> tier, hostEvents |-> hostEvents]
MemberQuestions ==
    {Install(("ns" :> Ns(o, Members(a, b))) @@ ("go" :> Plainly), <<>>, HostObj(IF h = "none" THEN "go" :> HostFn ELSE ("go" :> AwareFn) @@ ("ns" :> IF h = "wrong" THEN G!Primitive ELSE Supplied(x, y))), t, FALSE) :
        o \in BOOLEAN, a \in Leaves, b \in {Plainly, Nested}, h \in {"none", "wrong", "given"}, x \in HostLeafs,
        y \in {HostFn, AwareFn, HostObj("deep" :> HostFn), G!Primitive}, t \in {"sync", "async"}}
Held == {Plainly, Leaf("function", TRUE, FALSE, "", ""), Ns(FALSE, "a" :> Plainly)}
NameQuestions ==
    {q \in {Install((n :> b) @@ (k :> Plainly), hooks, HostObj(IF h = G!Undefined THEN k :> HostFn ELSE (n :> h) @@ (k :> HostFn)), t, e) :
        n \in {"events", "hooks", "console"}, k \in {"go", "events"}, b \in Held, h \in {G!Undefined, HostFn, HostObj("a" :> AwareFn)},
        hooks \in {<<>>, ("save" :> {"pre", "post"}) @@ ("tick" :> {}), "save" :> {"pre"}}, t \in {"sync", "async"}, e \in BOOLEAN} :
        G!AssertHostEventsManifest(q.m.bindings, q.hostEvents)}

(* What is there, what is reported there and what is reported missing agree, *)
(* flattened accessors aside.                                                *)
PresenceTold == asked.about = "install" => G!PresenceHolds(asked.m, asked.host, asked.tier, asked.hostEvents)
(* Installed globals cannot be changed, and no binding is hidden unreported. *)
GlobalsSealed == asked.about = "install" => G!GlobalsHold(asked.m, asked.host, asked.tier, asked.hostEvents)

(* Node's one heap: a root and an object beside it, of every kind, over a    *)
(* third, a script's function, a host's, and what stands for the script's.   *)
Prop2(k1, k2, vs) == [i \in DOMAIN vs |-> N!Prop(IF i = 1 THEN k1 ELSE k2, vs[i])]
(* What calling the script's function gives, the third, is reached through it. *)
ScriptFn == [N!Node("context", "function", <<>>) EXCEPT !.to = 3]
NodeHeap(root, beside, third) ==
    <<root, beside, third, ScriptFn, N!Node("host", "function", <<>>), [N!Node("host", "handle", <<>>) EXCEPT !.to = 4], N!Node("host", "proxy", <<>>),
      [N!Node("host", "accessor", <<>>) EXCEPT !.to = 5]>>
HostKinds == {"object", "array", "bare", "instance", "map", "error", "promise"}
ContextKinds == {"object", "array", "bare", "promise"}
Thirds == {N!Node("host", "date", <<>>), N!Node("host", "object", <<>>), [N!Node("host", "object", Prop2("a", "b", <<5>>)) EXCEPT !.frozen = TRUE], N!Node("context", "instance", Prop2("a", "b", <<4>>))}
NodesOf(realm, kinds, firsts, seconds) == {N!Node(realm, k, Prop2("a", "b", vs)) : k \in kinds, vs \in UpTo2(firsts, seconds)}
(* An accessor stands in a host's object or array, and a promise is settled *)
(* with one value.                                                           *)
Sound(heap) ==
    \A i \in DOMAIN heap :
        /\ 8 \in N!ValuesOf(heap[i]) => heap[i].realm = "host" /\ heap[i].kind \in {"object", "array"}
        /\ heap[i].kind = "promise" => Len(heap[i].props) = 1
IntoContext == {q \in {[about |-> "into", heap |-> NodeHeap(r, b, t), value |-> 1] :
                   r \in NodesOf("host", HostKinds, {2, 5, 8}, {1, 2, 6}) \cup NodesOf("context", ContextKinds \cup {"instance"}, {1, 2, 4}, {1, 2, 3, 7}),
                   b \in NodesOf("host", {"object", "map", "error"}, {1, 5}, {1, 3}) \cup NodesOf("context", {"array", "bare"}, {3, 4}, {3}), t \in Thirds} : Sound(q.heap)}
Deeper == {[about |-> "into", heap |-> [i \in 1 .. n |-> N!Node("host", IF i % 2 = 0 THEN "array" ELSE "map", <<N!Prop("a", IF i < n THEN i + 1 ELSE last)>>)], value |-> 1] : n \in Links, last \in {0, 1}}
(* A script's objects, some with a toJSON: function 4 gives the third.       *)
WithToJSON(nodes, at) == nodes \cup {[n EXCEPT !.props = @ \o <<N!Prop("toJSON", at)>>] : n \in {m \in nodes : m.kind = "object"}}
OutOfContext == {q \in {[about |-> "outof", heap |-> [NodeHeap(r, b, t) EXCEPT ![4].throws = x], value |-> 1] :
                   r \in WithToJSON(NodesOf("context", ContextKinds \cup {"instance"}, {2, 4, N!Symbol}, {1, 2, N!Null}), 4),
                   b \in WithToJSON(NodesOf("context", {"object", "bare"}, {1, 3}, {1}), 4) \cup NodesOf("host", {"object", "array"}, {3}, {3}),
                   t \in {N!Node("context", "object", Prop2("a", "b", <<1, 2>>)), N!Node("context", "array", Prop2("a", "b", <<4>>))}, x \in BOOLEAN} : Sound(q.heap)}
Arguments == {[about |-> "args", heap |-> NodeHeap(r, b, t), value |-> 1] :
                r \in NodesOf("context", {"object", "array", "bare", "instance"}, {2, 4}, {1, 2, 3, N!Symbol}), b \in NodesOf("context", {"object", "array"}, {3, 4}, {1, 2, 3, 4}),
                t \in {N!Node("context", k, Prop2("a", "b", vs)) : k \in {"object", "bare"}, vs \in {<<>>, <<4, 4>>}}}
(* Node's values cross whole, and each side keeps to its own realm, but for  *)
(* the containers Realm names: unconverted, circular, never done.            *)
RealmsApart ==
    /\ asked.about = "into" => N!ArrivesInContext(asked.heap, asked.value)
    /\ asked.about = "outof" => N!ReadByHost(asked.heap, asked.value)
    /\ asked.about = "args" => N!CallbacksSwapped(asked.heap, asked.value)

MCQuestions == [into |-> IntoContext \cup Deeper, outof |-> OutOfContext, args |-> Arguments, members |-> MemberQuestions, names |-> NameQuestions, out |-> OutQuestions, deep |-> DeepQuestions, in |-> InQuestions]
=============================================================================
