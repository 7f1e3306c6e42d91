---------------------------- MODULE EventRegistry ----------------------------
(***************************************************************************)
(* What a shared bus promises: its operations happen one at a time, as if  *)
(* every runtime worked on one registry directly.                          *)
(***************************************************************************)
EXTENDS BusState

VARIABLE registry

Operations ==
    [kind : {"on", "once", "off", "declare"}, about : Events, caller : Owners]
    \cup [kind : {"cancel"}, about : Tokens, caller : Owners]
    \cup [kind : {"claimOnce"}, about : Tokens, caller : {Host}]
    \cup [kind : {"cancelOwned"}, about : Owners, caller : Owners]
    \cup [kind : {"claim"}, about : Prefixes, caller : Mods]
    \cup [kind : {"declareEvent"}, about : Events, caller : {Host}]
    \cup [kind : {"seed"}, about : {None}, caller : {Host}]

Init == registry = blankState

Operate(w, o) ==
    /\ o.kind \in {"on", "once"} => registry.sequence # MaxSubs /\ Declared(registry, o.about)
    /\ ~Throws(registry, o)
    /\ registry' = Change(registry, w, o)

Next == \E w \in Workers, o \in Operations : Operate(w, o)

Spec == Init /\ [][Next]_registry
=============================================================================
