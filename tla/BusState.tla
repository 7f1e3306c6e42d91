------------------------------ MODULE BusState ------------------------------
(***************************************************************************)
(* The state the events bus keeps (runtimes/js/src/event-bus-kernel.ts,    *)
(* the same kernel in every runtime) and the changes its operations make   *)
(* to it.  A runtime alone applies a change to its own copy; runtimes that *)
(* share a bus apply it to a copy and swap that in.                        *)
(*                                                                         *)
(* A change is a function of the state: what it makes of it, whether it    *)
(* throws instead, and what it tells its caller.                           *)
(***************************************************************************)
EXTENDS Integers, Sequences, FiniteSets

CONSTANTS
    Workers,     \* the runtimes that share the bus
    Mods,        \* the mods a caller may be attributed to
    Host,        \* a caller that is no mod: unattributed script, or the host itself
    None,
    Events,      \* concrete event ids
    Manifest,    \* the events the host's manifest declares
    Prefixes,    \* the namespaces mods claim
    Privileged,  \* the mods granted events.off
    MaxSubs      \* bound: how many subscriptions are issued

Owners  == Mods \cup {Host}
Tokens  == 1..MaxSubs
Sub     == [event : Events, owner : Owners, once : BOOLEAN, worker : Workers]

ASSUME BusStateAssumption ==
    /\ Host \notin Mods
    /\ None \notin Mods \cup Workers \cup {Host, "manifest", "host"}
    /\ Manifest \subseteq Events
    /\ Privileged \subseteq Mods
    /\ MaxSubs \in Nat
    /\ None \notin Sub

Parties == {"manifest", "host"} \cup Owners

(* Who declares: the host by declareEvent, a script as its mod or as no mod. *)
Party(o) == IF o.kind = "declareEvent" THEN "host" ELSE o.caller

State ==
    [subs    : [Tokens -> Sub \cup {None}],     \* subscriptions, by token
     byEvent : [Events -> Seq(Tokens)],         \* each event's listeners, in order
     spent   : SUBSET Tokens,                   \* once-subscriptions that were claimed
     claims  : [Prefixes -> Mods \cup {None}],  \* who holds each namespace
     party   : [Events -> Parties \cup {None}], \* the catalogue: who declared what
     sequence : 0..MaxSubs,
     seeded  : BOOLEAN]

blankState ==
    [subs    |-> [t \in Tokens |-> None],
     byEvent |-> [e \in Events |-> <<>>],
     spent   |-> {},
     claims  |-> [p \in Prefixes |-> None],
     party   |-> [e \in Events |-> None],
     sequence |-> 0,
     seeded  |-> FALSE]

(* resolve finds a catalogue entry for the event. *)
Declared(s, e) == s.party[e] # None
Live(s)        == {t \in Tokens : s.subs[t] # None}
LiveOwned(s, o) == {t \in Live(s) : s.subs[t].owner = o}
Listeners(s, e) == {s.byEvent[e][i] : i \in 1..Len(s.byEvent[e])}

(* Mutant of Detach: the event's list keeps the token. *)
Detach_KeepsIndex(s, gone) ==
    [s EXCEPT !.subs = [t \in Tokens |-> IF t \in gone THEN None ELSE @[t]]]

(* The tokens of a list that are not gone, in their order. *)
Without(list, gone) ==
    LET kept[i \in 0..Len(list)] ==
          IF i = 0 THEN <<>>
          ELSE IF list[i] \in gone THEN kept[i - 1] ELSE Append(kept[i - 1], list[i])
    IN  kept[Len(list)]

(* detachIn, for every token of a set. *)
Detach(s, gone) ==
    [s EXCEPT !.subs = [t \in Tokens |-> IF t \in gone THEN None ELSE @[t]],
              !.byEvent = [e \in Events |-> Without(@[e], gone)]]

-----------------------------------------------------------------------------
(* The operations: [kind, what it is about, who calls].  "on" and "once" name
   an event, "cancel" and "claimOnce" a token, "off" an event, "cancelOwned"
   an owner, "claim" a namespace, "declare" and the host's "declareEvent" an
   event, "seed" nothing. *)

MayCancel(o, owner) == o.caller = owner \/ o.caller \in Privileged

(* Mutant of Detached: events.off drops everybody's subscriptions. *)
Detached_OffAll(s, o) ==
    CASE o.kind \in {"cancel", "claimOnce"} -> {o.about} \cap Live(s)
      [] o.kind = "off"         -> Listeners(s, o.about)
      [] o.kind = "cancelOwned" -> LiveOwned(s, o.about)
      [] OTHER -> {}

(* The tokens an operation takes out of the state. *)
Detached(s, o) ==
    CASE o.kind \in {"cancel", "claimOnce"} -> {o.about} \cap Live(s)
      [] o.kind = "off"         -> {t \in Listeners(s, o.about) : MayCancel(o, s.subs[t].owner)}
      [] o.kind = "cancelOwned" -> LiveOwned(s, o.about)
      [] OTHER -> {}

(* Mutant of Throws: a declared event may be declared by anybody. *)
Throws_AnyParty(s, o) ==
    /\ o.kind = "cancel"
    /\ o.about \in Live(s)
    /\ ~MayCancel(o, s.subs[o.about].owner)

(* cancelToken and declare refuse by throwing, so nothing is written. *)
Throws(s, o) ==
    \/ /\ o.kind = "cancel"
       /\ o.about \in Live(s)
       /\ ~MayCancel(o, s.subs[o.about].owner)
    \/ /\ o.kind \in {"declare", "declareEvent"}
       /\ Declared(s, o.about)
       /\ s.party[o.about] # Party(o)

(* subscribe *)
Subscribed(s, w, o) ==
    [s EXCEPT !.sequence = @ + 1,
              !.subs[s.sequence + 1] = [event |-> o.about, owner |-> o.caller,
                                        once |-> o.kind = "once", worker |-> w],
              !.byEvent[o.about] = Append(@, s.sequence + 1)]

(* Mutant of Change: serve records the token as spent whether or not it is
   still subscribed. *)
Change_SpentAlways(s, w, o) ==
    CASE o.kind \in {"on", "once"} -> Subscribed(s, w, o)
      [] o.kind = "claimOnce" ->
            [Detach(s, Detached(s, o)) EXCEPT !.spent = @ \cup {o.about}]
      [] o.kind = "seed" ->
            [s EXCEPT !.seeded = TRUE,
                      !.party = [e \in Events |-> IF e \in Manifest THEN "manifest" ELSE @[e]]]
      [] OTHER -> Detach(s, Detached(s, o))

(* What worker w's operation o makes of state s. *)
Change(s, w, o) ==
    CASE o.kind \in {"on", "once"} -> Subscribed(s, w, o)
      [] o.kind = "claimOnce" ->
            [Detach(s, Detached(s, o)) EXCEPT !.spent = @ \cup Detached(s, o)]
      [] o.kind = "claim" ->
            [s EXCEPT !.claims[o.about] = IF @ = None THEN o.caller ELSE @]
      [] o.kind \in {"declare", "declareEvent"} ->
            [s EXCEPT !.party[o.about] = Party(o)]
      [] o.kind = "seed" ->
            IF s.seeded THEN s
            ELSE [s EXCEPT !.seeded = TRUE,
                           !.party = [e \in Events |-> IF e \in Manifest THEN "manifest" ELSE @[e]]]
      [] OTHER -> Detach(s, Detached(s, o))
=============================================================================
