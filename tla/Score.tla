------------------------------- MODULE Score -------------------------------
(* The extensibility score (tools/validate/src/score.ts): which of the five surfaces a host opens
   and how much of them declares what a call costs, the coverage by a set of mods, and the
   difference between a score and a saved one. A fraction is [n, d]; the disclaimer and the wording
   of a violation are left out. *)
EXTENDS Lint, Extends

CapacitySurfaces == {"bindings", "slots", "capabilities", "events", "libraries"}
DeclaredIntentSignal == "declared-intent"

Fraction(n, d) == [n |-> n, d |-> d]
Less(a, b) == a.n * b.d < b.n * a.d
(* The mean of some signals, of which one at most is not a yes or a no; and Math.round of its
   hundredfold. *)
Composite(signals) ==
    LET yes == Cardinality({k \in DOMAIN signals \ {DeclaredIntentSignal} : signals[k].n = 1})
        part == IF DeclaredIntentSignal \in DOMAIN signals THEN signals[DeclaredIntentSignal] ELSE Fraction(0, 1)
    IN  IF DOMAIN signals = {} THEN Fraction(0, 1) ELSE Fraction(yes * part.d + part.n, part.d * Cardinality(DOMAIN signals))
Percent(f) == (200 * f.n + f.d) \div (2 * f.d)

SlotIds(host) == {At(s, "id").string : s \in {t \in Range(SlotsOf(host)) : NonEmpty(At(t, "id"))}}
CapabilityNames(host) == DOMAIN FieldsOf(At(host, "capabilities"))
SurfaceExposed(host, key) == DOMAIN FieldsOf(At(host, key)) # {} \/ ItemsOf(At(host, key)) # <<>>
CapacityOf(host) == {k \in CapacitySurfaces : SurfaceExposed(host, k)}

(* Nodes are counted once for each vocabulary that declares them, however many formats speak it. *)
FormatSurface(host) ==
    LET formats == FieldsOf(At(host, "formats"))
        vocabularies == FieldsOf(At(host, "vocabularies"))
        reachable == DOMAIN formats \cap UNION {Accepts(s) : s \in Range(SlotsOf(host))}
        spoken == UNION {StringsOf(At(formats[f], "vocabularies")) : f \in reachable} \cap DOMAIN vocabularies
        NodesIn(owner, v) == {<<owner, n>> : n \in DOMAIN FieldsOf(At(v, "nodes"))}
    IN  [declared |-> DOMAIN formats, reachable |-> reachable, vocabularies |-> spoken,
         nodes |-> Cardinality(UNION {NodesIn(<<"inline", f>>, formats[f]) : f \in reachable} \cup UNION {NodesIn(v, vocabularies[v]) : v \in spoken})]

CommandSurface(host, filled) ==
    LET Ids(slots) == {At(s, "id").string : s \in slots}
        slots == CommandSlotsOf(host)
    IN  [slots |-> Ids(slots), constrained |-> Ids({s \in slots : IsObject(At(s, "payload"))}), gated |-> Ids({s \in slots : GateOf(s) # {}}),
         singular |-> Ids({s \in slots : ~ Is(s, "multiple")}),
         unreachable |-> Ids({s \in slots : Is(s, "reserved") \/ At(s, "id").string \notin filled})]

IntentReport(surfaces) ==
        [declared |-> {<<s.kind, s.name>> : s \in {t \in surfaces : t.declared}}, undeclared |-> {<<s.kind, s.name>> : s \in {t \in surfaces : ~ t.declared}},
         byDuration |-> [d \in Range(DurationOrder) |-> Cardinality({s \in surfaces : s.resolved.duration = d})]]
IntentSurface(host) == IntentReport({s \in ExecutionSurfaces(host) : s.kind # "exports"})

ReservedSlotIds(host) == {At(s, "id").string : s \in {t \in Range(SlotsOf(host)) : Is(t, "reserved") /\ NonEmpty(At(t, "id"))}}
ReservedCapabilityNames(host) == {c \in CapabilityNames(host) : Is(FieldsOf(At(host, "capabilities"))[c], "reserved")}
ModSlotReferences(mods) == UNION {SlotFillReferences(m) : m \in mods}
ModCapabilityRequests(mods) == UNION {DeclaredCapabilities(m) : m \in mods}

(* How much of the host's own, unreserved surface is used; all of an empty one. *)
Utilization(own, used) == [score |-> IF own = {} THEN Fraction(1, 1) ELSE Fraction(Cardinality(own \cap used), Cardinality(own)),
                           total |-> Cardinality(own), used |-> own \cap used, unused |-> own \ used]

(* What the headline is the mean of: the five surfaces, and the intent where anything could state it. *)
ScoreSignals(host, intent) ==
    LET surfaces == Cardinality(intent.declared) + Cardinality(intent.undeclared)
    IN  [k \in CapacitySurfaces \cup (IF surfaces > 0 THEN {DeclaredIntentSignal} ELSE {}) |->
            IF k = DeclaredIntentSignal THEN Fraction(Cardinality(intent.declared), surfaces)
            ELSE Fraction(IF SurfaceExposed(host, k) THEN 1 ELSE 0, 1)]
ScoreManifests(host, errors, mods, inherited) ==
    LET gates == UNION {GateOf(s) : s \in Range(SlotsOf(host))}
        violations == {<<"host", e>> : e \in errors}
                      \cup {<<"gate", c>> : c \in {g \in gates : ~ DeclaredSatisfiesRef(CapabilityNames(host), g)}}
                      \cup UNION {{<<At(m, "name").string, e>> : e \in CrossValidate(m, host)} : m \in mods}
        signals == ScoreSignals(host, IntentSurface(host))
        ownCaps == (CapabilityNames(host) \ inherited.capabilities) \ ReservedCapabilityNames(host)
        referenced == ModCapabilityRequests(mods) \cup GateCapabilities(host)
    IN  [violations |-> violations, headline |-> Percent(Composite(signals)), capacity |-> CapacityOf(host), signals |-> signals,
         slots |-> Utilization((SlotIds(host) \ inherited.slots) \ ReservedSlotIds(host), ModSlotReferences(mods)),
         capabilities |-> Utilization(ownCaps, {c \in ownCaps : \E r \in referenced : Satisfies(c, r)}),
         formats |-> FormatSurface(host), commands |-> CommandSurface(host, ModSlotReferences(mods)), intent |-> IntentSurface(host)]
ScoreGate(result, min) == result.violations = {} /\ result.headline >= min

-----------------------------------------------------------------------------
(* A score against a saved one. *)

MetricDiff(before, after) ==
    [rises |-> Less(before.score, after.score), falls |-> Less(after.score, before.score), totals |-> <<before.total, after.total>>,
     gained |-> after.used \ before.used, lost |-> after.unused \ before.unused]
CapacityDiff(before, after) ==
    [gained |-> after \ before, lost |-> (CapacitySurfaces \ after) \ (CapacitySurfaces \ before)]
CommandDiff(before, after) ==
    [gained |-> after.slots \ before.slots, lost |-> before.slots \ after.slots,
     ungated |-> (after.slots \cap before.gated) \ after.gated, narrowed |-> (after.singular \cap before.slots) \ before.singular]

(* A result saved before signals were reported carries its capacity surfaces. *)
SignalsOf(result) ==
    IF DOMAIN result.signals # {} THEN result.signals
    ELSE [k \in CapacitySurfaces |-> Fraction(IF k \in result.capacity THEN 1 ELSE 0, 1)]

(* A mutated form: the headlines are compared as they were reported. *)
ReportedHeadlines(before, after) == <<Percent(Composite(SignalsOf(before))), Percent(Composite(SignalsOf(after)))>>
(* The two headlines on the signals both carry, so that a new signal moves neither. *)
SharedHeadlines(before, after) ==
    LET shared == DOMAIN SignalsOf(before) \cap DOMAIN SignalsOf(after)
        Pick(signals) == [k \in shared |-> signals[k]]
    IN  <<Percent(Composite(Pick(SignalsOf(before)))), Percent(Composite(Pick(SignalsOf(after))))>>
DiffScores(before, after) ==
    LET headlines == SharedHeadlines(before, after)
        delta == headlines[2] - headlines[1]
        introduced == after.violations \ before.violations
    IN  [direction |-> IF introduced # {} \/ delta < 0 THEN "regressed" ELSE IF delta > 0 THEN "improved" ELSE "unchanged",
         headlines |-> headlines, delta |-> delta, introduced |-> introduced, fixed |-> before.violations \ after.violations,
         capacity |-> CapacityDiff(before.capacity, after.capacity), slots |-> MetricDiff(before.slots, after.slots),
         capabilities |-> MetricDiff(before.capabilities, after.capabilities), commands |-> CommandDiff(before.commands, after.commands),
         unshared |-> SymDiff(DOMAIN SignalsOf(before), DOMAIN SignalsOf(after))]
DiffGate(diff, minDelta) == diff.introduced = {} /\ diff.delta >= minDelta

-----------------------------------------------------------------------------
(* A host that opens more and declares the intent of all it opens is never told it regressed,
   even against a score saved when there was less to measure; and a regression is undone by
   going back. *)
Old(result) == [result EXCEPT !.signals = [k \in {} |-> Fraction(0, 1)]]
DiffTellsTheTruth(before, after) ==
    LET opens == before.capacity \subseteq after.capacity /\ after.violations \subseteq before.violations
        tells == before.intent.undeclared = {} /\ after.intent.undeclared = {}
    IN  \A there \in {DiffScores(before, after)}, back \in {DiffScores(after, before)} :
        /\ there.delta = -back.delta
        /\ there.direction = "improved" /\ there.fixed = {} => back.direction = "regressed"
        /\ opens /\ tells => there.direction # "regressed"
        /\ opens => DiffScores(Old(before), after).direction # "regressed"
        /\ there.commands.ungated \cap there.commands.lost = {}
=============================================================================
