----------------------------- MODULE MCEventBus -----------------------------
(* TLC instances of EventBus: two runtimes, two mods of which one may hold
   events.off, one event of the manifest and one declared at run time. *)
EXTENDS EventBus, TLC

CONSTANTS w1, w2, m1, m2, e1, e2, p1

TwoWorkers == {w1, w2}
OneMod     == {m1}
TwoMods    == {m1, m2}
OneEvent   == {e1}
TwoEvents  == {e1, e2}
OnePrefix  == {p1}
Symmetry   == Permutations(Workers)

(* Three sorts of behaviour: subscriptions come and go, namespaces are claimed
   and events declared, and emits race for once-subscriptions. *)
MCPrograms ==
    {[ops |-> {"on", "cancel", "off", "cancelOwned"}, parties |-> Mods, subs |-> 2, emits |-> 0],
     [ops |-> {"claim", "declare", "declareEvent"}, parties |-> Owners, subs |-> 0, emits |-> 0],
     [ops |-> {"on", "once", "cancel", "interrupt"}, parties |-> {m1}, subs |-> 1, emits |-> 2]}
=============================================================================
