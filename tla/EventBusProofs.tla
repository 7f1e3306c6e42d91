--------------------------- MODULE EventBusProofs ---------------------------
(***************************************************************************)
(* Proofs about EventBus, for any runtimes, mods, events and bounds.       *)
(***************************************************************************)
EXTENDS EventBus, FiniteSetTheorems, NaturalsInduction, WellFoundedInduction, TLAPS

(* A change depends on three fields of its operation only. *)
LEMMA SameChange ==
    ASSUME NEW s, NEW w, NEW o, NEW q,
           o.kind = q.kind, o.about = q.about, o.caller = q.caller
    PROVE  /\ Registry!Change(s, w, q) = Change(s, w, o)
           /\ Registry!Throws(s, q) = Throws(s, o)
<1>1. Registry!Detached(s, q) = Detached(s, o)
  BY DEF Registry!Detached, Detached, Registry!Live, Live, Registry!Listeners, Listeners,
         Registry!LiveOwned, LiveOwned, Registry!MayCancel, MayCancel, Registry!Tokens, Tokens
<1>2. ASSUME NEW g PROVE Registry!Detach(s, g) = Detach(s, g)
  BY DEF Registry!Detach, Detach, Registry!Without, Without, Registry!Tokens, Tokens
<1>3. Registry!Change(s, w, q) = Change(s, w, o)
  BY <1>1, <1>2 DEF Registry!Change, Change, Registry!Subscribed, Subscribed, Registry!Party, Party
<1>4. Registry!Throws(s, q) = Throws(s, o)
  BY DEF Registry!Throws, Throws, Registry!MayCancel, MayCancel, Registry!Party, Party,
         Registry!Declared, Declared, Registry!Live, Live, Registry!Tokens, Tokens
<1> QED BY <1>3, <1>4

(* A bus state as a record, with its claims and its catalogue in their types. *)
Shape(s) ==
    /\ s = [subs |-> s.subs, byEvent |-> s.byEvent, spent |-> s.spent, claims |-> s.claims,
            party |-> s.party, sequence |-> s.sequence, seeded |-> s.seeded]
    /\ s.claims \in [Prefixes -> Mods \cup {None}]
    /\ s.party \in [Events -> Parties \cup {None}]
    /\ s.seeded \in BOOLEAN

(* An operation as the registry knows it. *)
Entry(kind, about, caller) == [kind |-> kind, about |-> about, caller |-> caller]
Plain(o) == Entry(o.kind, o.about, o.caller)
Abouts == Tokens \cup Events \cup Owners \cup Prefixes \cup {None}
Ops == {o \in Operation : Plain(o) \in Registry!Operations}

(* Detaching leaves the names alone. *)
LEMMA DetachNames ==
    ASSUME NEW s, NEW g, Shape(s)
    PROVE  /\ Shape(Detach(s, g))
           /\ Detach(s, g).claims = s.claims
           /\ Detach(s, g).party = s.party
           /\ Detach(s, g).seeded = s.seeded
<1> DEFINE a == [t \in Tokens |-> IF t \in g THEN None ELSE s.subs[t]]
           b == [e \in Events |-> Without(s.byEvent[e], g)]
<1>1. Detach(s, g) = [[s EXCEPT !.subs = a] EXCEPT !.byEvent = b]
  BY Zenon DEF Detach, Shape
<1> HIDE DEF a, b
<1> QED BY <1>1 DEF Shape

(* So do subscribing and everything that detaches. *)
LEMMA QuietChange ==
    ASSUME NEW s, NEW w, NEW o, Shape(s),
           o.kind \notin {"claim", "declare", "declareEvent", "seed"}
    PROVE  /\ Shape(Change(s, w, o))
           /\ Change(s, w, o).claims = s.claims
           /\ Change(s, w, o).party = s.party
           /\ Change(s, w, o).seeded = s.seeded
<1>1. CASE o.kind \in {"on", "once"}
  <2>1. Change(s, w, o) = Subscribed(s, w, o)
    BY <1>1 DEF Change
  <2> DEFINE n == s.sequence + 1
             a == [event |-> o.about, owner |-> o.caller, once |-> o.kind = "once", worker |-> w]
             x == [s.subs EXCEPT ![n] = a]
             b == [s.byEvent EXCEPT ![o.about] = Append(@, n)]
  <2>2. Subscribed(s, w, o) = [s EXCEPT !.sequence = n, !.subs = x, !.byEvent = b]
    BY DEF Subscribed, Shape
  <2> HIDE DEF n, x, b
  <2> QED BY <2>1, <2>2 DEF Shape
<1>2. CASE o.kind = "claimOnce"
  <2> DEFINE d == Detach(s, Detached(s, o))
  <2>1. Change(s, w, o) = [d EXCEPT !.spent = @ \cup Detached(s, o)]
    BY <1>2 DEF Change
  <2>2. Shape(d) /\ d.claims = s.claims /\ d.party = s.party /\ d.seeded = s.seeded
    BY DetachNames
  <2> HIDE DEF d
  <2> QED BY <2>1, <2>2 DEF Shape
<1>3. CASE o.kind \notin {"on", "once", "claimOnce"}
  <2>1. Change(s, w, o) = Detach(s, Detached(s, o))
    BY <1>3 DEF Change
  <2> QED BY <2>1, DetachNames
<1> QED BY <1>1, <1>2, <1>3

(* What the other operations make of them: a claim is taken once, an event
   declared stays declared, and by the same party unless the change throws or
   is the first seeding, which declares the manifest's events. *)
LEMMA ChangeNames ==
    ASSUME NEW s, NEW w, NEW o \in Ops, Shape(s)
    PROVE  /\ Shape(Change(s, w, o))
           /\ \A p \in Prefixes : s.claims[p] # None => Change(s, w, o).claims[p] = s.claims[p]
           /\ o.kind = "claim" => Change(s, w, o).claims[o.about] # None
           /\ \A e \in Events : Declared(s, e) => Declared(Change(s, w, o), e)
           /\ ~Throws(s, o) /\ (o.kind = "seed" => s.seeded) =>
                 \A e \in Events : Declared(s, e) => Change(s, w, o).party[e] = s.party[e]
           /\ o.kind \in {"declare", "declareEvent"} => Change(s, w, o).party[o.about] = Party(o)
           /\ o.kind # "seed" => Change(s, w, o).seeded = s.seeded
           /\ o.kind = "seed" =>
                 /\ Change(s, w, o).seeded
                 /\ ~s.seeded => \A e \in Manifest : Change(s, w, o).party[e] = "manifest"
<1>0. None \notin Parties
  BY BusStateAssumption DEF Parties, Owners
<1>k. /\ o.kind = "claim" => o.about \in Prefixes /\ o.caller \in Mods
      /\ o.kind \in {"declare", "declareEvent"} => o.about \in Events /\ Party(o) \in Parties
  BY DEF Ops, Plain, Entry, Registry!Operations, Party, Parties, Owners, Registry!Owners
<1>1. CASE o.kind \notin {"claim", "declare", "declareEvent", "seed"}
  BY <1>1, QuietChange DEF Declared
<1>3. CASE o.kind = "claim"
  <2>1. Change(s, w, o) = [s EXCEPT !.claims[o.about] = IF @ = None THEN o.caller ELSE @]
    BY <1>3 DEF Change
  <2>2. o.caller \in Mods /\ o.caller # None /\ o.about \in Prefixes
    BY <1>3, <1>k, BusStateAssumption
  <2> QED BY <1>3, <2>1, <2>2 DEF Shape, Declared
<1>4. CASE o.kind \in {"declare", "declareEvent"}
  <2>1. Change(s, w, o) = [s EXCEPT !.party[o.about] = Party(o)]
    BY <1>4 DEF Change
  <2>2. Party(o) \in Parties /\ Party(o) # None /\ o.about \in Events
    BY <1>4, <1>k, <1>0
  <2>3. ~Throws(s, o) /\ Declared(s, o.about) => s.party[o.about] = Party(o)
    BY <1>4 DEF Throws
  <2> QED BY <1>4, <2>1, <2>2, <2>3 DEF Shape, Declared
<1>5. CASE o.kind = "seed"
  <2>1. CASE s.seeded
    BY <1>5, <2>1 DEF Change
  <2>2. CASE ~s.seeded
    <3>1. Change(s, w, o) = [s EXCEPT !.seeded = TRUE,
             !.party = [e \in Events |-> IF e \in Manifest THEN "manifest" ELSE @[e]]]
      BY <1>5, <2>2 DEF Change
    <3>2. "manifest" \in Parties /\ "manifest" # None
      BY <1>0 DEF Parties
    <3> DEFINE f == [e \in Events |-> IF e \in Manifest THEN "manifest" ELSE s.party[e]]
    <3>3. /\ f \in [Events -> Parties \cup {None}]
          /\ \A e \in Events : s.party[e] # None => f[e] # None
          /\ \A e \in Manifest : f[e] = "manifest"
      BY <3>2, BusStateAssumption DEF Shape
    <3>4. Change(s, w, o) = [s EXCEPT !.seeded = TRUE, !.party = f]
      BY <3>1 DEF Shape
    <3> HIDE DEF f
    <3> QED BY <1>5, <2>2, <3>3, <3>4 DEF Shape, Declared
  <2> QED BY <2>1, <2>2
<1> QED BY <1>1, <1>3, <1>4, <1>5
-----------------------------------------------------------------------------
(* A copy that may still be written is the change of the present state. *)
Fresh(w) ==
    /\ copy[w] = Change(hub, w, op[w])
    /\ ~Throws(hub, op[w])
    /\ op[w].kind \in {"on", "once"} => hub.sequence # MaxSubs

(* A runtime in an operation; an event that was declared stays declared. *)
Busy(w) ==
    /\ op[w] \in Ops
    /\ op[w].kind \in {"on", "once"} => Declared(hub, op[w].about)
    /\ step[w] = "write" /\ current[w] => Fresh(w)

(* No runtime does anything before it has seeded the catalogue. *)
SeedFirst(w) ==
    /\ w \notin installed => step[w] = "idle" /\ handlers[w] = {}
    /\ w \in installed => hub.seeded \/ (step[w] \in {"read", "write"} /\ op[w].kind = "seed")

Local(w) ==
    /\ step[w] \in Steps /\ current[w] \in BOOLEAN
    /\ step[w] # "idle" => Busy(w)
    /\ SeedFirst(w)

Names ==
    /\ granted \in [Prefixes -> SUBSET Mods]
    /\ \A e \in Events : told[e] # None => hub.seeded
    /\ ClaimExclusive
    /\ DeclarationsKept

Functions ==
    /\ op = [w \in Workers |-> op[w]] /\ step = [w \in Workers |-> step[w]]
    /\ copy = [w \in Workers |-> copy[w]] /\ current = [w \in Workers |-> current[w]]
    /\ handlers = [w \in Workers |-> handlers[w]] /\ told = [e \in Events |-> told[e]]

IndInv ==
    /\ Functions
    /\ Shape(hub)
    /\ \A w \in Workers : Local(w)
    /\ Names

(* The invariant holds before any runtime is constructed. *)
LEMMA InitInv == Init => IndInv
<1> SUFFICES ASSUME Init PROVE IndInv
  OBVIOUS
<1> USE DEF Init
<1>1. Functions
  BY DEF Functions
<1>2. Shape(hub)
  BY DEF Shape, blankState
<1>3. \A w \in Workers : Local(w)
  BY DEF Local, SeedFirst, Steps
<1>4. Names
  BY DEF Names, ClaimExclusive, DeclarationsKept, blankState
<1> QED BY <1>1, <1>2, <1>3, <1>4 DEF IndInv

(* A step of one runtime that leaves the hub alone keeps the invariant if
   what it makes of that runtime is right. *)
LEMMA LocalStep ==
    ASSUME IndInv, NEW w \in Workers, Functions', Local(w)',
           UNCHANGED <<hub, granted, told>>,
           installed' \in {installed, installed \cup {w}},
           \A v \in Workers \ {w} :
              /\ op'[v] = op[v] /\ step'[v] = step[v] /\ copy'[v] = copy[v]
              /\ current'[v] = current[v] /\ handlers'[v] = handlers[v]
    PROVE  IndInv'
<1>1. Shape(hub)'
  BY DEF IndInv
<1>2. Names'
  <2>1. Names
    BY DEF IndInv
  <2> QED BY <2>1 DEF Names, ClaimExclusive, DeclarationsKept
<1>3. ASSUME NEW v \in Workers, v # w PROVE Local(v)'
  <2>1. Local(v)
    BY DEF IndInv
  <2>2. v \in installed' <=> v \in installed
    BY <1>3
  <2> QED BY <1>3, <2>1, <2>2 DEF Local, Busy, Fresh, SeedFirst
<1> QED BY <1>1, <1>2, <1>3 DEF IndInv
(* Entering an operation. *)
LEMMA BeginStep ==
    ASSUME IndInv, NEW w \in Workers, NEW o \in Ops, Begin(w, o),
           \/ installed' = installed \cup {w} /\ o.kind = "seed"
           \/ installed' = installed /\ w \in installed,
           o.kind \in {"on", "once"} => Declared(hub, o.about)
    PROVE  IndInv'
<1>0. Functions /\ Local(w)
  BY DEF IndInv
<1>1. Functions'
  BY <1>0 DEF Begin, Functions, history
<1>2. op'[w] = o /\ step'[w] = "read"
  BY <1>0 DEF Begin, Functions
<1>3. w \in installed => hub.seeded
  BY <1>0 DEF Local, SeedFirst, Begin
<1>4. Local(w)'
  BY <1>0, <1>2, <1>3 DEF Local, Busy, SeedFirst, Steps, Begin, history
<1> QED BY <1>1, <1>4, LocalStep DEF Begin, history
(* An operation the registry knows is well formed. *)
LEMMA OpTyped ==
    ASSUME NEW kind \in Kinds,
           NEW a \in Abouts,
           NEW c \in Owners,
           Entry(kind, a, c) \in Registry!Operations
    PROVE  Op(kind, a, c) \in Ops
BY DEF Ops, Plain, Op, Operation, Abouts

(* Entering an operation the registry knows. *)
LEMMA CalledOp ==
    ASSUME IndInv, NEW w \in Workers, NEW kind \in Kinds,
           NEW a \in Abouts,
           NEW c \in Owners,
           Entry(kind, a, c) \in Registry!Operations,
           Begin(w, Op(kind, a, c)),
           \/ installed' = installed \cup {w} /\ kind = "seed"
           \/ installed' = installed /\ w \in installed,
           kind \in {"on", "once"} => Declared(hub, a)
    PROVE  IndInv'
<1>1. Op(kind, a, c) \in Ops
  BY OpTyped
<1>2. Op(kind, a, c).kind = kind /\ Op(kind, a, c).about = a
  BY DEF Op
<1> QED BY <1>1, <1>2, BeginStep

(* The operations scripts and the host call. *)
LEMMA CallStep ==
    ASSUME IndInv, NEW w \in Workers,
           \/ Install(w) \/ Subscribe(w) \/ CancelToken(w) \/ Off(w) \/ CancelOwned(w)
           \/ Claim(w) \/ Declare(w)
    PROVE  IndInv'
<1>0. /\ Host \in Owners /\ Mods \subseteq Owners
      /\ Tokens \subseteq Abouts /\ Events \subseteq Abouts /\ Owners \subseteq Abouts
      /\ Prefixes \subseteq Abouts /\ None \in Abouts
  BY DEF Owners, Abouts
<1> USE DEF Kinds
<1>1. CASE Install(w)
  <2>1. Entry("seed", None, Host) \in Registry!Operations
    BY DEF Entry, Registry!Operations
  <2> QED BY <1>0, <1>1, <2>1, CalledOp DEF Install
<1>2. CASE Subscribe(w)
  <2>1. PICK e \in Events, c \in Owners, kind \in {"on", "once"} : Declared(hub, e) /\ Begin(w, Op(kind, e, c))
    BY <1>2 DEF Subscribe
  <2>2. Entry(kind, e, c) \in Registry!Operations
    BY DEF Entry, Registry!Operations, Owners, Registry!Owners
  <2>3. installed' = installed /\ w \in installed
    BY <1>2 DEF Subscribe
  <2> QED BY <1>0, <2>1, <2>2, <2>3, CalledOp
<1>3. CASE CancelToken(w)
  <2>1. PICK t \in Tokens, c \in Owners : Begin(w, Op("cancel", t, c))
    BY <1>3 DEF CancelToken
  <2>2. Entry("cancel", t, c) \in Registry!Operations
    BY DEF Entry, Registry!Operations, Owners, Registry!Owners, Tokens, Registry!Tokens
  <2>3. installed' = installed /\ w \in installed
    BY <1>3 DEF CancelToken
  <2> QED BY <1>0, <2>1, <2>2, <2>3, CalledOp
<1>4. CASE Off(w)
  <2>1. PICK e \in Events, c \in Owners : Begin(w, Op("off", e, c))
    BY <1>4 DEF Off
  <2>2. Entry("off", e, c) \in Registry!Operations
    BY DEF Entry, Registry!Operations, Owners, Registry!Owners
  <2>3. installed' = installed /\ w \in installed
    BY <1>4 DEF Off
  <2> QED BY <1>0, <2>1, <2>2, <2>3, CalledOp
<1>5. CASE CancelOwned(w)
  <2>1. PICK a \in Owners, c \in Owners : Begin(w, Op("cancelOwned", a, c))
    BY <1>5 DEF CancelOwned
  <2>2. Entry("cancelOwned", a, c) \in Registry!Operations
    BY DEF Entry, Registry!Operations, Owners, Registry!Owners
  <2>3. installed' = installed /\ w \in installed
    BY <1>5 DEF CancelOwned
  <2> QED BY <1>0, <2>1, <2>2, <2>3, CalledOp
<1>6. CASE Claim(w)
  <2>1. PICK p \in Prefixes, c \in Mods : Begin(w, Op("claim", p, c))
    BY <1>6 DEF Claim
  <2>2. Entry("claim", p, c) \in Registry!Operations
    BY DEF Entry, Registry!Operations
  <2>3. installed' = installed /\ w \in installed
    BY <1>6 DEF Claim
  <2> QED BY <1>0, <2>1, <2>2, <2>3, CalledOp
<1>7. CASE Declare(w)
  <2>1. PICK e \in Events : \/ \E c \in Owners : Begin(w, Op("declare", e, c))
                           \/ Begin(w, Op("declareEvent", e, Host))
    BY <1>7 DEF Declare
  <2>2. installed' = installed /\ w \in installed
    BY <1>7 DEF Declare
  <2>3. CASE \E c \in Owners : Begin(w, Op("declare", e, c))
    <3>1. PICK c \in Owners : Begin(w, Op("declare", e, c))
      BY <2>3
    <3>2. Entry("declare", e, c) \in Registry!Operations
      BY DEF Entry, Registry!Operations, Owners, Registry!Owners
    <3> QED BY <1>0, <2>2, <3>1, <3>2, CalledOp
  <2>4. CASE Begin(w, Op("declareEvent", e, Host))
    <3>1. Entry("declareEvent", e, Host) \in Registry!Operations
      BY DEF Entry, Registry!Operations
    <3> QED BY <1>0, <2>2, <2>4, <3>1, CalledOp
  <2> QED BY <2>1, <2>3, <2>4
<1> QED BY <1>1, <1>2, <1>3, <1>4, <1>5, <1>6, <1>7

(* A round of the loop reads the present state, so its copy is fresh. *)
LEMMA AttemptStep ==
    ASSUME IndInv, NEW w \in Workers, Attempt(w)
    PROVE  IndInv'
<1> DEFINE o == op[w]
<1>0. Functions /\ Local(w) /\ Busy(w) /\ o \in Ops
  BY DEF IndInv, Local, Attempt, Busy
<1>1. Functions'
  BY <1>0 DEF Attempt, Functions, history
<1>2. CASE Throws(hub, o) \/ Full(o)
  <2>1. step'[w] = "idle" /\ UNCHANGED <<hub, installed, handlers, current>>
    BY <1>0, <1>2 DEF Attempt, Functions
  <2>2. o.kind # "seed"
    BY <1>2 DEF Throws, Full
  <2>3. Local(w)'
    BY <1>0, <2>1, <2>2 DEF Local, SeedFirst, Steps
  <2> QED BY <1>0, <1>1, <1>2, <2>3, LocalStep DEF Attempt, Functions, history
<1>3. CASE ~(Throws(hub, o) \/ Full(o))
  <2> DEFINE c == (o.kind = "claimOnce" /\ Detached(hub, o) # {})
             q == [o EXCEPT !.claimed = c]
  <2>1. /\ copy'[w] = Change(hub, w, o) /\ step'[w] = "write" /\ current'[w] = TRUE
        /\ op'[w] = q
        /\ handlers'[w] \subseteq handlers[w]
        /\ UNCHANGED <<hub, installed>>
    BY <1>0, <1>3 DEF Attempt, Functions
  <2>2. q \in Ops /\ q.kind = o.kind /\ q.about = o.about /\ q.caller = o.caller
    BY <1>0 DEF Ops, Plain, Operation
  <2>3. Change(hub, w, q) = Change(hub, w, o) /\ Throws(hub, q) = Throws(hub, o)
    <3>1. Registry!Change(hub, w, q) = Change(hub, w, o) /\ Registry!Throws(hub, q) = Throws(hub, o)
      BY <2>2, SameChange, Zenon
    <3>2. Registry!Change(hub, w, q) = Change(hub, w, q) /\ Registry!Throws(hub, q) = Throws(hub, q)
      BY SameChange, Zenon
    <3> QED BY <3>1, <3>2, Zenon
  <2> HIDE DEF q
  <2>4. Busy(w)'
    <3>1. (op[w])' = q /\ (copy[w])' = Change(hub, w, q) /\ hub' = hub
      BY <2>1, <2>3
    <3>2. ~Throws(hub, q) /\ (q.kind \in {"on", "once"} => hub.sequence # MaxSubs)
      BY <1>3, <2>2, <2>3 DEF Full
    <3>3. q.kind \in {"on", "once"} => Declared(hub, q.about)
      BY <1>0, <2>2 DEF Busy
    <3> QED BY <2>2, <3>1, <3>2, <3>3 DEF Busy, Fresh
  <2>5. SeedFirst(w)'
    <3>1. w \in installed /\ (hub.seeded \/ q.kind = "seed")
      BY <1>0, <2>2 DEF Local, SeedFirst, Attempt
    <3> QED BY <2>1, <3>1 DEF SeedFirst
  <2>6. Local(w)'
    BY <2>1, <2>4, <2>5 DEF Local, Steps
  <2> QED BY <1>0, <1>1, <1>3, <2>6, LocalStep DEF Attempt, Functions, history
<1> QED BY <1>2, <1>3
(* A write that succeeds makes the hub's state what the operation makes of it. *)
LEMMA WriteCommits ==
    ASSUME IndInv, NEW w \in Workers, Write(w), current[w]
    PROVE  /\ op[w] \in Ops /\ Fresh(w) /\ hub' = Change(hub, w, op[w])
           /\ op[w].kind \in {"on", "once"} => Declared(hub, op[w].about)
<1>1. Local(w) /\ step[w] = "write"
  BY DEF IndInv, Write
<1> QED BY <1>1 DEF Local, Busy, Fresh, Write

(* The write of a fresh copy. *)
LEMMA WriteStep ==
    ASSUME IndInv, NEW w \in Workers, Write(w)
    PROVE  IndInv'
<1> DEFINE o == op[w]
<1>0. Functions /\ Local(w) /\ step[w] = "write" /\ Shape(hub) /\ Names
  BY DEF IndInv, Write
<1>1. Functions'
  BY <1>0 DEF Write, Functions, Tell
<1>2. CASE ~current[w]
  <2>1. step'[w] = "read" /\ UNCHANGED <<hub, installed, handlers, op, current, granted, told>>
    BY <1>0, <1>2 DEF Write, Functions
  <2>2. Local(w)'
    BY <1>0, <2>1 DEF Local, Busy, SeedFirst, Steps
  <2> QED BY <1>0, <1>1, <1>2, <2>1, <2>2, LocalStep DEF Write, Functions
<1>3. CASE current[w]
  <2>1. o \in Ops /\ Fresh(w) /\ hub' = Change(hub, w, o)
    BY <1>3, WriteCommits
  <2> DEFINE h == Change(hub, w, o)
  <2>2. /\ Shape(h)
        /\ \A p \in Prefixes : hub.claims[p] # None => h.claims[p] = hub.claims[p]
        /\ o.kind = "claim" => h.claims[o.about] # None
        /\ \A e \in Events : Declared(hub, e) => Declared(h, e)
        /\ ~Throws(hub, o) /\ (o.kind = "seed" => hub.seeded) =>
              \A e \in Events : Declared(hub, e) => h.party[e] = hub.party[e]
        /\ o.kind \in {"declare", "declareEvent"} => h.party[o.about] = Party(o)
        /\ o.kind # "seed" => h.seeded = hub.seeded
        /\ o.kind = "seed" => h.seeded /\ (~hub.seeded => \A e \in Manifest : h.party[e] = "manifest")
    BY <1>0, <2>1, ChangeNames
  <2> HIDE DEF h
  <2>3. /\ hub' = h /\ copy[w] = h /\ ~Throws(hub, o)
        /\ current' = [v \in Workers |-> FALSE] /\ step' = [step EXCEPT ![w] = "after"] /\ Tell(w)
        /\ UNCHANGED <<op, copy, installed, handlers>>
    BY <1>3, <2>1 DEF Write, Fresh, h
  <2>4. Shape(hub)'
    BY <2>2, <2>3
  <2>5. w \in installed /\ (hub.seeded \/ o.kind = "seed") /\ hub'.seeded
    BY <1>0, <2>2, <2>3 DEF Local, SeedFirst
  <2>6. ASSUME NEW v \in Workers PROVE Local(v)'
    <3>1. Local(v)
      BY DEF IndInv
    <3>2. current'[v] = FALSE /\ op'[v] = op[v] /\ step'[v] = (IF v = w THEN "after" ELSE step[v])
      BY <1>0, <2>3 DEF Functions
    <3>3. step'[v] # "idle" => Busy(v)'
      <4>1. step'[v] # "idle" => Busy(v)
        BY <1>0, <3>1, <3>2 DEF Local
      <4>2. op[v] \in Ops /\ op[v].kind \in {"on", "once"} => op[v].about \in Events
        BY DEF Ops, Plain, Entry, Registry!Operations
      <4> QED BY <2>2, <2>3, <3>2, <4>1, <4>2 DEF Busy
    <3>4. SeedFirst(v)'
      BY <2>3, <2>5, <3>1, <3>2 DEF Local, SeedFirst
    <3> QED BY <3>1, <3>2, <3>3, <3>4 DEF Local, Steps
  <2>7. granted' \in [Prefixes -> SUBSET Mods] /\ ClaimExclusive'
    <3>1. CASE o.kind = "claim" /\ h.claims[o.about] = o.caller
      <4>1. o.about \in Prefixes /\ o.caller \in Mods
        BY <2>1, <3>1 DEF Ops, Plain, Entry, Registry!Operations
      <4>2. granted' = [granted EXCEPT ![o.about] = @ \cup {o.caller}]
        BY <2>3, <3>1 DEF Tell
      <4>3. ASSUME NEW p \in Prefixes PROVE granted[p] \subseteq {h.claims[p]}
        BY <1>0, <2>2, BusStateAssumption DEF Names, ClaimExclusive
      <4> QED BY <1>0, <2>3, <3>1, <4>1, <4>2, <4>3 DEF Names, ClaimExclusive
    <3>2. CASE ~(o.kind = "claim" /\ h.claims[o.about] = o.caller)
      <4>2. granted' = granted
        BY <2>3, <3>2 DEF Tell
      <4> QED BY <1>0, <2>2, <2>3, <4>2, BusStateAssumption DEF Names, ClaimExclusive
    <3> QED BY <3>1, <3>2
  <2>8. DeclarationsKept'
    <3> SUFFICES ASSUME NEW e \in Events
                 PROVE  /\ told'[e] # None => h.party[e] = told'[e]
                        /\ h.seeded /\ e \in Manifest => h.party[e] = "manifest"
      BY <2>3 DEF DeclarationsKept
    <3>0. None # "manifest"
      BY BusStateAssumption
    <3>1. CASE hub.seeded
      <4>1. Declared(hub, e) => h.party[e] = hub.party[e]
        BY <2>2, <2>3, <3>1
      <4>2. told[e] # None => h.party[e] = told[e]
        BY <1>0, <4>1 DEF Names, DeclarationsKept, Declared
      <4>3. told'[e] # None => h.party[e] = told'[e]
        BY <1>0, <2>2, <2>3, <4>2 DEF Tell, Functions
      <4>4. e \in Manifest => h.party[e] = "manifest"
        BY <1>0, <3>0, <3>1, <4>1 DEF Names, DeclarationsKept, Declared
      <4> QED BY <4>3, <4>4
    <3>2. CASE ~hub.seeded
      <4>1. o.kind = "seed" /\ told' = told /\ told[e] = None
        BY <1>0, <2>3, <2>5, <3>2 DEF Tell, Names
      <4> QED BY <2>2, <3>2, <4>1
    <3> QED BY <3>1, <3>2
  <2> QED BY <1>1, <2>4, <2>5, <2>6, <2>7, <2>8 DEF IndInv, Names
<1> QED BY <1>0, <1>2, <1>3 DEF Local
(* What follows the write, and an interrupt, end the operation. *)
LEMMA EndStep ==
    ASSUME IndInv, NEW w \in Workers, Finish(w) \/ Interrupt(w)
    PROVE  IndInv'
<1>0. Functions /\ Local(w)
  BY DEF IndInv
<1>1. Functions'
  BY <1>0 DEF Finish, Interrupt, Functions
<1>2. step'[w] = "idle" /\ current' = current /\ installed' = installed /\ hub' = hub
  BY <1>0 DEF Finish, Interrupt, Functions
<1>3. w \in installed /\ hub.seeded
  BY <1>0 DEF Local, SeedFirst, Finish, Interrupt
<1>4. Local(w)'
  BY <1>0, <1>2, <1>3 DEF Local, SeedFirst, Steps
<1>5. UNCHANGED <<granted, told>>
  BY DEF Finish, Interrupt
<1>6. ASSUME NEW v \in Workers \ {w}
      PROVE  /\ op'[v] = op[v] /\ step'[v] = step[v] /\ copy'[v] = copy[v]
             /\ current'[v] = current[v] /\ handlers'[v] = handlers[v]
  BY <1>0, <1>2 DEF Finish, Interrupt, Functions
<1> QED BY <1>1, <1>2, <1>4, <1>5, <1>6, LocalStep

(* Serving may begin the claim of a once-subscription. *)
LEMMA ServeStep ==
    ASSUME IndInv, NEW w \in Workers, NEW k \in Sessions, Serve(w, k)
    PROVE  IndInv'
<1> DEFINE t == Listener(k)
           q == [Op("claimOnce", t, Host) EXCEPT !.sess = k]
<1>0. Functions /\ Local(w) /\ step[w] = "idle"
  BY DEF IndInv, Serve
<1>u. UNCHANGED <<hub, installed, copy, current, granted, told>>
  BY DEF Serve
<1>1. CASE UNCHANGED <<op, step>>
  <2>1. handlers' = handlers \/ handlers' = [handlers EXCEPT ![w] = @ \ {t}]
    BY DEF Serve
  <2>2. Functions'
    BY <1>0, <1>1, <1>u, <2>1 DEF Functions
  <2>3. Local(w)'
    BY <1>0, <1>1, <1>u, <2>1 DEF Local, SeedFirst, Functions, Steps
  <2> QED BY <1>0, <1>1, <1>u, <2>1, <2>2, <2>3, LocalStep DEF Functions
<1>2. CASE ~UNCHANGED <<op, step>>
  <2>1. /\ t \in handlers[w] \cap Live(hub) /\ handlers' = handlers
        /\ op' = [op EXCEPT ![w] = q] /\ step' = [step EXCEPT ![w] = "read"]
    BY <1>2 DEF Serve
  <2>2. t \in Tokens
    BY <2>1 DEF Live
  <2>3. q \in Ops /\ q.kind = "claimOnce"
    <3>1. Entry("claimOnce", t, Host) \in Registry!Operations
      BY <2>2 DEF Entry, Registry!Operations, Tokens, Registry!Tokens
    <3>2. Host \in Owners /\ t \in Abouts
      BY <2>2 DEF Owners, Abouts
    <3> QED BY <3>1, <3>2 DEF Ops, Plain, Op, Operation, Abouts, Kinds, Entry
  <2> HIDE DEF q, t
  <2>4. Functions'
    BY <1>0, <1>u, <2>1 DEF Functions
  <2>5. op'[w] = q /\ step'[w] = "read"
    BY <1>0, <2>1 DEF Functions
  <2>6. w \in installed /\ hub.seeded
    BY <1>0, <2>1 DEF Local, SeedFirst
  <2>7. Local(w)'
    BY <1>0, <1>u, <2>1, <2>3, <2>5, <2>6 DEF Local, SeedFirst, Busy, Steps
  <2> QED BY <1>0, <1>u, <2>1, <2>4, <2>7, LocalStep DEF Functions
<1> QED BY <1>1, <1>2

(* A step that touches none of this. *)
LEMMA QuietStep ==
    ASSUME IndInv, UNCHANGED <<hub, installed, loopVars, handlers, granted, told>>
    PROVE  IndInv'
BY DEF IndInv, Functions, Shape, Local, Busy, Fresh, SeedFirst, Names, ClaimExclusive,
       DeclarationsKept, loopVars

(* Every step keeps the invariant. *)
LEMMA NextInv == IndInv /\ [Next]_vars => IndInv'
<1> SUFFICES ASSUME IndInv, [Next]_vars PROVE IndInv'
  OBVIOUS
<1>1. ASSUME NEW w \in Workers,
             \/ Install(w) \/ Subscribe(w) \/ CancelToken(w) \/ Off(w) \/ CancelOwned(w)
             \/ Claim(w) \/ Declare(w)
      PROVE  IndInv'
  BY <1>1, CallStep
<1>2. ASSUME NEW w \in Workers, Attempt(w) PROVE IndInv'
  BY <1>2, AttemptStep
<1>3. ASSUME NEW w \in Workers, Write(w) PROVE IndInv'
  BY <1>3, WriteStep
<1>4. ASSUME NEW w \in Workers, Finish(w) \/ Interrupt(w) PROVE IndInv'
  BY <1>4, EndStep
<1>5. ASSUME NEW w \in Workers, NEW k \in Sessions, Serve(w, k) PROVE IndInv'
  BY <1>5, ServeStep
<1>6. ASSUME NEW k \in Sessions, Emit(k) \/ Route(k) \/ EndHandler(k) PROVE IndInv'
  BY <1>6, QuietStep DEF Emit, Route, EndHandler, history
<1>7. CASE UNCHANGED vars
  BY <1>7, QuietStep DEF vars, history
<1> QED BY <1>1, <1>2, <1>3, <1>4, <1>5, <1>6, <1>7 DEF Next

-----------------------------------------------------------------------------
(* A namespace has one holder for good: nobody else is ever told it holds it,
   whichever runtimes the calls of events.claim race on. *)
THEOREM OneHolder == Spec => []ClaimExclusive
<1>1. IndInv => ClaimExclusive
  BY DEF IndInv, Names
<1> QED BY InitInv, NextInv, <1>1, PTL DEF Spec

(* A declaration that was confirmed stays its party's, and the manifest's
   events stay the manifest's, however late other runtimes are constructed. *)
THEOREM DeclarationsStay == Spec => []DeclarationsKept
<1>1. IndInv => DeclarationsKept
  BY DEF IndInv, Names
<1> QED BY InitInv, NextInv, <1>1, PTL DEF Spec

(* Names stay with whoever was told to hold them: the two above together. *)
THEOREM NamesStay == Spec => []NamesHold
<1>1. IndInv => NamesHold
  BY DEF IndInv, Names, NamesHold
<1> QED BY InitInv, NextInv, <1>1, PTL DEF Spec

(* The read-change-write loops of any number of runtimes implement a registry
   whose operations happen one at a time: no update is lost. *)
THEOREM ImplementsRegistry == Spec => RegistrySpec
<1>1. Init => Registry!Init
  BY DEF Init, Registry!Init, blankState, Registry!blankState, Tokens, Registry!Tokens
<1>2. IndInv /\ [Next]_vars => [Registry!Next]_hub
  <2> SUFFICES ASSUME IndInv, [Next]_vars, hub' # hub PROVE Registry!Next
    OBVIOUS
  <2>1. PICK w \in Workers : Write(w)
    <3>1. ASSUME NEW v \in Workers, Install(v) \/ Subscribe(v) \/ CancelToken(v) \/ Off(v)
                                    \/ CancelOwned(v) \/ Claim(v) \/ Declare(v)
          PROVE hub' = hub
      BY <3>1, Zenon DEF Install, Subscribe, CancelToken, Off, CancelOwned, Claim, Declare, Begin
    <3>2. ASSUME NEW v \in Workers, Attempt(v) \/ Finish(v) \/ Interrupt(v)
          PROVE hub' = hub
      BY <3>2, Zenon DEF Attempt, Finish, Interrupt
    <3>3. ASSUME NEW k \in Sessions,
                 Emit(k) \/ Route(k) \/ EndHandler(k) \/ \E v \in Workers : Serve(v, k)
          PROVE hub' = hub
      BY <3>3, Zenon DEF Emit, Route, EndHandler, Serve
    <3> QED BY <3>1, <3>2, <3>3, Zenon DEF Next, vars
  <2>2. current[w]
    BY <2>1 DEF Write
  <2> DEFINE o == op[w]
             q == Plain(op[w])
  <2>3. /\ o \in Ops /\ Fresh(w) /\ hub' = Change(hub, w, o)
        /\ o.kind \in {"on", "once"} => Declared(hub, o.about)
    BY <2>1, <2>2, WriteCommits
  <2>4. q \in Registry!Operations /\ q.kind = o.kind /\ q.about = o.about /\ q.caller = o.caller
    BY <2>3 DEF Ops, Plain, Entry
  <2>5. Registry!Change(hub, w, q) = Change(hub, w, o) /\ Registry!Throws(hub, q) = Throws(hub, o)
    BY <2>4, SameChange, Zenon
  <2>6. Registry!Declared(hub, q.about) <=> Declared(hub, o.about)
    BY <2>4 DEF Registry!Declared, Declared
  <2> HIDE DEF q
  <2>7. Registry!Operate(w, q)
    BY <2>3, <2>4, <2>5, <2>6 DEF Fresh, Registry!Operate
  <2> QED BY <2>4, <2>7 DEF Registry!Next
<1> QED BY InitInv, NextInv, <1>1, <1>2, PTL DEF Spec, RegistrySpec, Registry!Spec

-----------------------------------------------------------------------------
(* Subscriptions: the lists that index them, the handlers behind them and the
   once-subscriptions emits race for. *)

(* A list in the order its tokens were issued. *)
Ascends(s) == \A i, j \in 1..Len(s) : i < j => s[i] < s[j]

(* What is kept of the first n tokens of s. *)
KeptOf(q, s, n, g) ==
    /\ \A j \in 1..Len(q) : q[j] \notin g /\ \E i \in 1..n : q[j] = s[i]
    /\ \A i \in 1..n : s[i] \notin g => \E j \in 1..Len(q) : q[j] = s[i]
    /\ Ascends(s) => Ascends(q)

(* A set of numbers has a least one. *)
LEMMA LeastOf ==
    ASSUME NEW S \in SUBSET Nat, S # {}
    PROVE  \E n \in S : \A k \in S : n <= k
<1>1. PICK n \in S : \A k \in S : ~(<<k, n>> \in OpToRel(<, Nat))
  BY WFMin, NatLessThanWellFounded
<1>2. ASSUME NEW k \in S PROVE n <= k
  <2>1. k \in Nat /\ n \in Nat /\ ~(k < n)
    BY <1>1 DEF OpToRel
  <2> QED BY <2>1
<1> QED BY <1>2

(* One token more. *)
LEMMA OneMoreKept ==
    ASSUME NEW S \in SUBSET Nat, NEW s \in Seq(S), NEW g, NEW n \in 1..Len(s), NEW q \in Seq(S),
           KeptOf(q, s, n - 1, g),
           NEW r, r = (IF s[n] \in g THEN q ELSE Append(q, s[n]))
    PROVE  r \in Seq(S) /\ KeptOf(r, s, n, g)
<1>0. s[n] \in S /\ n \in Nat /\ n - 1 \in Nat /\ (\A i \in 1..n : i \in 1..(n-1) \/ i = n) /\ \A i \in 1..(n-1) : i \in 1..n
  OBVIOUS
<1>1. CASE s[n] \in g
  BY <1>0, <1>1 DEF KeptOf
<1>2. CASE s[n] \notin g
  <2>1. r = Append(q, s[n]) /\ r \in Seq(S) /\ Len(r) = Len(q) + 1 /\ r[Len(q) + 1] = s[n]
        /\ \A j \in 1..Len(q) : r[j] = q[j] 
    BY <1>0, <1>2
  <2>2. \A j \in 1..Len(r) : j \in 1..Len(q) \/ j = Len(q) + 1
    BY <2>1
  <2>3. \A j \in 1..Len(r) : r[j] \notin g /\ \E i \in 1..n : r[j] = s[i]
    BY <1>0, <1>2, <2>1, <2>2 DEF KeptOf
  <2>4. \A i \in 1..n : s[i] \notin g => \E j \in 1..Len(r) : r[j] = s[i]
    <3> SUFFICES ASSUME NEW i \in 1..n, s[i] \notin g PROVE \E j \in 1..Len(r) : r[j] = s[i]
      OBVIOUS
    <3>1. CASE i = n
      BY <2>1, <3>1
    <3>2. CASE i \in 1..(n-1)
      <4>1. PICK j \in 1..Len(q) : q[j] = s[i]
        BY <3>2 DEF KeptOf
      <4> QED BY <2>1, <4>1
    <3> QED BY <1>0, <3>1, <3>2
  <2>5. ASSUME Ascends(s) PROVE Ascends(r)
    <3> SUFFICES ASSUME NEW i \in 1..Len(r), NEW j \in 1..Len(r), i < j PROVE r[i] < r[j]
      BY DEF Ascends
    <3>1. i \in 1..Len(q)
      BY <2>1
    <3>2. CASE j \in 1..Len(q)
      BY <2>1, <2>5, <3>1, <3>2 DEF KeptOf, Ascends
    <3>3. CASE j = Len(q) + 1
      <4>1. PICK k \in 1..(n-1) : q[i] = s[k]
        BY <3>1 DEF KeptOf
      <4>2. s[k] < s[n]
        BY <2>5, <1>0 DEF Ascends
      <4> QED BY <2>1, <3>1, <3>3, <4>1, <4>2
    <3> QED BY <2>2, <3>2, <3>3
  <2> QED BY <2>1, <2>3, <2>4, <2>5 DEF KeptOf
<1> QED BY <1>1, <1>2

(* Without keeps exactly the tokens that are not gone, in their order. *)
LEMMA WithoutKeeps ==
    ASSUME NEW S \in SUBSET Nat, NEW s \in Seq(S), NEW g
    PROVE  Without(s, g) \in Seq(S) /\ KeptOf(Without(s, g), s, Len(s), g)
<1> DEFINE L == Len(s)
           Grown(q, i) == IF s[i] \in g THEN q ELSE Append(q, s[i])
           Def(F, i) == IF i = 0 THEN <<>> ELSE Grown(F[i - 1], i)
           Upto(F, n) == F[0] = <<>> /\ \A i \in 1..n : F[i] = Grown(F[i - 1], i)
           H == CHOOSE F : F = [i \in 0..L |-> Def(F, i)]
<1>0. L \in Nat
  OBVIOUS
<1>1. Without(s, g) = H[L]
  BY DEF Without
<1>2. \A n \in 0..L : \E F : F = [i \in 0..n |-> F[i]] /\ Upto(F, n)
  <2> DEFINE Bad == {n \in 0..L : ~\E F : F = [i \in 0..n |-> F[i]] /\ Upto(F, n)}
  <2> SUFFICES ASSUME Bad # {} PROVE FALSE
    OBVIOUS
  <2>0. Bad \in SUBSET Nat
    OBVIOUS
  <2>1. PICK n \in Bad : \A k \in Bad : n <= k
    <3> HIDE DEF Bad
    <3> QED BY <2>0, LeastOf
  <2>2. n # 0
    <3> DEFINE Z == [i \in 0..0 |-> <<>>]
    <3>1. Z = [i \in 0..0 |-> Z[i]] /\ Upto(Z, 0)
      OBVIOUS
    <3> QED BY <3>1
  <2>3. n - 1 \in 0..L /\ n - 1 \notin Bad /\ n \in 1..L
    BY <1>0, <2>1, <2>2
  <2>4. PICK F : F = [i \in 0..(n-1) |-> F[i]] /\ Upto(F, n - 1)
    BY <2>3
  <2> DEFINE E == [i \in 0..n |-> IF i = n THEN Grown(F[n - 1], n) ELSE F[i]]
  <2>5. E = [i \in 0..n |-> E[i]] /\ E[n] = Grown(F[n - 1], n) /\ \A i \in 0..(n-1) : E[i] = F[i]
    BY <2>3
  <2> HIDE DEF E, Grown
  <2>6. Upto(E, n)
    <3>0. 0 \in 0..(n - 1)
      BY <1>0, <2>3
    <3>1. E[0] = <<>>
      BY <2>4, <2>5, <3>0, Zenon
    <3>2. ASSUME NEW i \in 1..n PROVE E[i] = Grown(E[i - 1], i)
      <4>1. i - 1 \in 0..(n-1) /\ (i # n => i \in 1..(n-1) /\ i \in 0..(n-1))
        BY <2>3
      <4> QED BY <2>3, <2>4, <2>5, <4>1
    <3> QED BY <3>1, <3>2
  <2> QED BY <2>5, <2>6
<1>3. PICK F : F = [i \in 0..L |-> F[i]] /\ Upto(F, L)
  BY <1>0, <1>2, SMTT(30)
<1>4. F = [i \in 0..L |-> Def(F, i)]
  <2>0. F[0] = <<>> /\ \A i \in 1..L : F[i] = Grown(F[i - 1], i)
    BY <1>3
  <2>1. ASSUME NEW i \in 0..L PROVE F[i] = Def(F, i)
    <3> HIDE DEF Grown
    <3> QED BY <2>0
  <2> HIDE DEF Def
  <2> QED BY <1>3, <2>1
<1>5. H = [i \in 0..L |-> Def(H, i)]
  <2> HIDE DEF Def
  <2> QED BY <1>4
<1>6. H[0] = <<>> /\ \A i \in 1..L : H[i] = Grown(H[i - 1], i)
  <2> DEFINE K == H
  <2>1. K = [i \in 0..L |-> Def(K, i)]
    BY <1>5
  <2>a. \A i \in 0..L : K[i] = Def(K, i)
    <3> HIDE DEF K, Def
    <3> QED BY <2>1
  <2> HIDE DEF K
  <2>2. K[0] = <<>> /\ \A i \in 1..L : K[i] = Grown(K[i - 1], i)
    <3>1. K[0] = <<>>
      BY <1>0, <2>a
    <3>2. ASSUME NEW i \in 1..L PROVE K[i] = Grown(K[i - 1], i)
      BY <1>0, <2>a
    <3> QED BY <3>1, <3>2
  <2> QED BY <2>2 DEF K
<1> HIDE DEF H
<1>7. \A n \in 0..L : H[n] \in Seq(S) /\ KeptOf(H[n], s, n, g)
  <2> DEFINE Bad == {n \in 0..L : ~(H[n] \in Seq(S) /\ KeptOf(H[n], s, n, g))}
  <2> SUFFICES ASSUME Bad # {} PROVE FALSE
    OBVIOUS
  <2>0. Bad \in SUBSET Nat
    OBVIOUS
  <2>1. PICK n \in Bad : \A k \in Bad : n <= k
    <3> HIDE DEF Bad
    <3> QED BY <2>0, LeastOf
  <2>2. n # 0
    <3>1. <<>> \in Seq(S) /\ KeptOf(<<>>, s, 0, g)
      BY DEF KeptOf, Ascends
    <3> QED BY <1>6, <3>1
  <2>3. n - 1 \in 0..L /\ n - 1 \notin Bad /\ n \in 1..L
    BY <1>0, <2>1, <2>2
  <2>4. H[n - 1] \in Seq(S) /\ KeptOf(H[n - 1], s, n - 1, g) /\ H[n] = Grown(H[n - 1], n)
    BY <1>6, <2>3
  <2>5. H[n] \in Seq(S) /\ KeptOf(H[n], s, n, g)
    BY <2>3, <2>4, OneMoreKept
  <2> QED BY <2>5
<1> QED BY <1>0, <1>1, <1>7

(* The two views of the subscriptions agree. *)
Indexed(s) ==
    \A e \in Events :
        /\ Listeners(s, e) = {t \in Live(s) : s.subs[t].event = e}
        /\ Ascends(s.byEvent[e])

(* A token is issued once, in order, and keeps its subscription's record; what
   is spent is a once-subscription that is no longer live. *)
Recorded(s, iss) ==
    /\ \A t \in Tokens : iss[t] # None <=> t <= s.sequence
    /\ \A t \in Live(s) : iss[t] = s.subs[t]
    /\ \A t \in s.spent : t \notin Live(s) /\ iss[t] # None /\ iss[t].once

(* The operation under way will take t's subscription out, or has just put it in. *)
InHand(w, t) ==
    \/ step[w] \in {"read", "write"} /\ t \in Detached(hub, op[w]) /\ ~Throws(hub, op[w])
    \/ step[w] = "after" /\ op[w].kind \in {"on", "once"} /\ t = copy[w].sequence

(* A live subscription's runtime holds its handler, or has it in hand. *)
Heeded(w) ==
    w \notin interrupted =>
        \A t \in Live(hub) : hub.subs[t].worker = w => t \in handlers[w] \/ InHand(w, t)

(* A runtime's handlers are those of its own subscriptions. *)
OwnHandlers(w) ==
    handlers[w] \in SUBSET {t \in Tokens : issued[t] # None /\ issued[t].worker = w}

(* A claim is made where the subscription lives, for the emit that reached it. *)
Claiming(w) == step[w] # "idle" /\ op[w].kind = "claimOnce"
ClaimMade(w) ==
    /\ step[w] # "idle" /\ op[w].kind # "claimOnce" => op[w].sess = 0
    /\ Claiming(w) => LET t == op[w].about k == op[w].sess IN
          /\ issued[t] # None /\ issued[t].once /\ issued[t].worker = w
          /\ k \in Sessions /\ session[k].stage = "serve" /\ session[k].at = w /\ Listener(k) = t
          /\ step[w] = "write" /\ current[w] => (op[w].claimed <=> t \in Live(hub))
          /\ step[w] = "after" =>
                t \notin Live(hub) /\ (op[w].claimed => t \in hub.spent /\ runs[t] = 0)

(* After its write an operation still knows every live subscription of its runtime. *)
Aware(w) ==
    /\ step[w] = "write" => copy[w] \in State
    /\ step[w] = "after" =>
          /\ \A t \in Live(hub) : hub.subs[t].worker = w => t \in Live(copy[w])
          /\ op[w].kind \in {"on", "once"} =>
                LET t == copy[w].sequence IN
                t \in Tokens /\ issued[t] # None /\ issued[t].worker = w

(* An emit walks an ascending list, and is at one of its places or past the last. *)
Walk == [event : Events \cup {None}, listeners : Seq(Tokens), index : Nat, stage : Stages,
         at : Workers \cup {None}]
Walks(k) ==
    /\ Ascends(session[k].listeners)
    /\ session[k].index \in 1..(Len(session[k].listeners) + 1)
    /\ session[k].stage \in {"serve", "running"} => session[k].index <= Len(session[k].listeners)
    /\ session[k].stage = "unused" => session[k].index = 1

(* The emits that have entered t's handler; each does so at most once. *)
Heard(t) ==
    {k \in Sessions : \E i \in 1..Len(session[k].listeners) :
        /\ session[k].listeners[i] = t
        /\ i < session[k].index \/ (i = session[k].index /\ session[k].stage = "running")}

Counted(t) ==
    /\ runs[t] <= Cardinality(Heard(t))
    /\ issued[t] = None => runs[t] = 0
    /\ issued[t] # None /\ issued[t].once =>
          /\ runs[t] <= 1
          /\ t \notin hub.spent => runs[t] = 0
          /\ t \in hub.spent =>
                \/ runs[t] = 1
                \/ \E w \in Workers : Claiming(w) /\ step[w] = "after" /\ op[w].about = t /\ op[w].claimed
                \/ issued[t].worker \in interrupted

Tended(w) ==
    (step[w] = "idle" => op[w] = None) /\ Heeded(w) /\ OwnHandlers(w) /\ ClaimMade(w) /\ Aware(w)

Base ==
    /\ hub \in State /\ Indexed(hub) /\ Recorded(hub, issued)
    /\ scripts \in Programs /\ installed \in SUBSET Workers /\ interrupted \in SUBSET Workers
    /\ issued \in [Tokens -> Sub \cup {None}]
    /\ session \in [Sessions -> Walk] /\ runs \in [Tokens -> Nat]

SubInv ==
    /\ Base
    /\ \A w \in Workers : Tended(w)
    /\ \A k \in Sessions : Walks(k)
    /\ \A t \in Tokens : Counted(t)

-----------------------------------------------------------------------------
(* What operations make of the subscriptions. *)

Taken(s, h, o) ==
    /\ h.sequence = s.sequence
    /\ \A t \in Tokens : h.subs[t] = IF t \in Detached(s, o) THEN None ELSE s.subs[t]
    /\ h.spent = IF o.kind = "claimOnce" THEN s.spent \cup Detached(s, o) ELSE s.spent

Added(s, h, w, o) ==
    /\ h.sequence = s.sequence + 1 /\ h.sequence \in Tokens
    /\ h.subs[h.sequence] = [event |-> o.about, owner |-> o.caller, once |-> o.kind = "once",
                             worker |-> w]
    /\ h.subs[h.sequence] \in Sub
    /\ \A t \in Tokens : t # h.sequence => h.subs[t] = s.subs[t]
    /\ h.spent = s.spent

(* Detaching keeps a bus state one. *)
LEMMA DetachSubs ==
    ASSUME NEW s \in State, NEW g
    PROVE  /\ Detach(s, g) \in State
           /\ Detach(s, g).sequence = s.sequence /\ Detach(s, g).spent = s.spent
           /\ \A t \in Tokens : Detach(s, g).subs[t] = IF t \in g THEN None ELSE s.subs[t]
           /\ \A e \in Events : Detach(s, g).byEvent[e] = Without(s.byEvent[e], g)
<1> DEFINE a == [t \in Tokens |-> IF t \in g THEN None ELSE s.subs[t]]
           b == [e \in Events |-> Without(s.byEvent[e], g)]
<1>1. Detach(s, g) = [[s EXCEPT !.subs = a] EXCEPT !.byEvent = b]
  BY Zenon DEF Detach, State
<1>2. a \in [Tokens -> Sub \cup {None}] /\ \A t \in Tokens : a[t] = IF t \in g THEN None ELSE s.subs[t]
  BY DEF State
<1>3. ASSUME NEW e \in Events PROVE Without(s.byEvent[e], g) \in Seq(Tokens)
  <2>1. Tokens \in SUBSET Nat /\ s.byEvent[e] \in Seq(Tokens)
    BY BusStateAssumption DEF State, Tokens
  <2> QED BY <2>1, WithoutKeeps
<1>4. b \in [Events -> Seq(Tokens)] /\ \A e \in Events : b[e] = Without(s.byEvent[e], g)
  BY <1>3
<1> HIDE DEF a, b
<1> QED BY <1>1, <1>2, <1>4 DEF State

(* Detaching keeps the two views in agreement. *)
LEMMA DetachIndexed ==
    ASSUME NEW s \in State, NEW g, Indexed(s)
    PROVE  Indexed(Detach(s, g))
<1> DEFINE d == Detach(s, g)
<1>1. /\ \A t \in Tokens : d.subs[t] = IF t \in g THEN None ELSE s.subs[t]
      /\ \A e \in Events : d.byEvent[e] = Without(s.byEvent[e], g)
  BY DetachSubs
<1> HIDE DEF d
<1> SUFFICES ASSUME NEW e \in Events
             PROVE  /\ Listeners(d, e) = {t \in Live(d) : d.subs[t].event = e}
                    /\ Ascends(d.byEvent[e])
  BY DEF Indexed, d
<1> DEFINE q == s.byEvent[e]
           r == d.byEvent[e]
<1>2. q \in Seq(Tokens) /\ Tokens \in SUBSET Nat
  BY BusStateAssumption DEF State, Tokens
<1>3. r \in Seq(Tokens) /\ KeptOf(r, q, Len(q), g)
  BY <1>1, <1>2, WithoutKeeps
<1>4. Listeners(s, e) = {t \in Live(s) : s.subs[t].event = e} /\ Ascends(q)
  BY DEF Indexed
<1>5. ASSUME NEW t \in Listeners(d, e) PROVE t \in Live(d) /\ d.subs[t].event = e
  <2>1. PICK j \in 1..Len(r) : t = r[j]
    BY DEF Listeners
  <2>2. t \notin g /\ \E i \in 1..Len(q) : t = q[i]
    BY <1>3, <2>1 DEF KeptOf
  <2>3. t \in Live(s) /\ s.subs[t].event = e
    BY <1>4, <2>2 DEF Listeners
  <2> QED BY <1>1, <2>2, <2>3 DEF Live
<1>6. ASSUME NEW t \in Live(d), d.subs[t].event = e PROVE t \in Listeners(d, e)
  <2>1. t \in Tokens /\ t \notin g /\ t \in Live(s) /\ s.subs[t].event = e
    BY <1>1, <1>6 DEF Live
  <2>2. PICK i \in 1..Len(q) : t = q[i]
    BY <1>4, <2>1 DEF Listeners
  <2>3. PICK j \in 1..Len(r) : r[j] = t
    BY <1>3, <2>1, <2>2 DEF KeptOf
  <2> QED BY <2>3 DEF Listeners
<1>7. Ascends(r)
  BY <1>3, <1>4 DEF KeptOf
<1> QED BY <1>5, <1>6, <1>7

(* Subscribing takes the next token. *)
LEMMA SubscribedSubs ==
    ASSUME NEW s \in State, NEW w \in Workers, NEW o \in Ops, o.kind \in {"on", "once"},
           s.sequence # MaxSubs
    PROVE  LET h == Subscribed(s, w, o) IN
           /\ h \in State /\ Added(s, h, w, o)
           /\ \A e \in Events : h.byEvent[e] = IF e = o.about THEN Append(s.byEvent[e], h.sequence)
                                                ELSE s.byEvent[e]
<1> DEFINE n == s.sequence + 1
           a == [event |-> o.about, owner |-> o.caller, once |-> o.kind = "once", worker |-> w]
           x == [s.subs EXCEPT ![n] = a]
           b == [s.byEvent EXCEPT ![o.about] = Append(@, n)]
           h == Subscribed(s, w, o)
<1>1. h = [s EXCEPT !.sequence = n, !.subs = x, !.byEvent = b]
  BY DEF Subscribed, State
<1>2. o.about \in Events /\ o.caller \in Owners
  BY DEF Ops, Operation, Plain, Entry, Registry!Operations
<1>3. n \in Tokens /\ n \in 0..MaxSubs
  BY BusStateAssumption DEF State, Tokens
<1>4. a \in Sub
  BY <1>2 DEF Sub
<1>5. x \in [Tokens -> Sub \cup {None}] /\ x[n] = a /\ \A t \in Tokens : t # n => x[t] = s.subs[t]
  BY <1>3, <1>4 DEF State
<1>6. b \in [Events -> Seq(Tokens)]
      /\ \A e \in Events : b[e] = IF e = o.about THEN Append(s.byEvent[e], n) ELSE s.byEvent[e]
  BY <1>2, <1>3 DEF State
<1>7. a = [event |-> o.about, owner |-> o.caller, once |-> o.kind = "once", worker |-> w]
  OBVIOUS
<1> HIDE DEF n, a, x, b
<1>8. h \in State /\ h.sequence = n /\ h.subs = x /\ h.byEvent = b /\ h.spent = s.spent
  BY <1>1, <1>3, <1>5, <1>6 DEF State
<1> HIDE DEF h
<1>9. Added(s, h, w, o)
  BY <1>3, <1>4, <1>5, <1>7, <1>8 DEF Added, n
<1> QED BY <1>6, <1>8, <1>9 DEF h

(* So does subscribing, the next token being the largest. *)
LEMMA SubscribedIndexed ==
    ASSUME NEW s \in State, NEW w \in Workers, NEW o \in Ops, o.kind \in {"on", "once"},
           s.sequence # MaxSubs, Indexed(s), \A t \in Live(s) : t <= s.sequence
    PROVE  Indexed(Subscribed(s, w, o))
<1> DEFINE h == Subscribed(s, w, o)
           n == h.sequence
<1>1. /\ h \in State /\ Added(s, h, w, o)
      /\ \A e \in Events : h.byEvent[e] = IF e = o.about THEN Append(s.byEvent[e], h.sequence)
                                           ELSE s.byEvent[e]
  BY SubscribedSubs
<1> HIDE DEF h
<1>2. None \notin Sub /\ Tokens \subseteq Nat /\ s.sequence \in Nat
  BY BusStateAssumption DEF Tokens, State
<1>3. n \in Tokens /\ n \notin Live(s) /\ Live(h) = Live(s) \cup {n} /\ h.subs[n].event = o.about
      /\ \A t \in Live(s) : h.subs[t] = s.subs[t] /\ t < n
  <2>1. n \in Tokens /\ n = s.sequence + 1 /\ h.subs[n] # None /\ h.subs[n].event = o.about
    BY <1>1, <1>2 DEF Added
  <2>2. \A t \in Tokens : t # n => h.subs[t] = s.subs[t]
    BY <1>1 DEF Added
  <2>3. \A t \in Live(s) : t \in Nat /\ t < n
    BY <1>2, <2>1 DEF Live
  <2> HIDE DEF n
  <2>4. n \notin Live(s)
    BY <2>3
  <2>5. Live(h) = Live(s) \cup {n}
    BY <2>1, <2>2, <2>4 DEF Live
  <2> QED BY <2>1, <2>2, <2>3, <2>4, <2>5 DEF Live
<1> SUFFICES ASSUME NEW e \in Events
             PROVE  /\ Listeners(h, e) = {t \in Live(h) : h.subs[t].event = e}
                    /\ Ascends(h.byEvent[e])
  BY DEF Indexed, h
<1> DEFINE q == s.byEvent[e]
           r == h.byEvent[e]
<1>4. q \in Seq(Tokens) /\ Listeners(s, e) = {t \in Live(s) : s.subs[t].event = e} /\ Ascends(q)
  BY DEF Indexed, State
<1>5. CASE e # o.about
  <2>1. Listeners(h, e) = Listeners(s, e) /\ Ascends(r)
    BY <1>1, <1>4, <1>5 DEF Listeners
  <2> QED BY <1>3, <1>4, <1>5, <2>1
<1>6. CASE e = o.about
  <2>1. r = Append(q, n)
    BY <1>1, <1>6
  <2>2. Len(r) = Len(q) + 1 /\ r[Len(q) + 1] = n /\ \A i \in 1..Len(q) : r[i] = q[i]
    BY <1>3, <1>4, <2>1
  <2>3. \A i \in 1..Len(r) : i \in 1..Len(q) \/ i = Len(q) + 1
    BY <1>4, <2>2
  <2>4. Listeners(h, e) = Listeners(s, e) \cup {n}
    <3>1. ASSUME NEW t \in Listeners(h, e) PROVE t \in Listeners(s, e) \cup {n}
      BY <2>2, <2>3 DEF Listeners
    <3>2. ASSUME NEW t \in Listeners(s, e) PROVE t \in Listeners(h, e)
      <4>1. PICK i \in 1..Len(q) : t = q[i]
        BY DEF Listeners
      <4>2. i \in 1..Len(r) /\ t = r[i]
        BY <1>4, <2>2, <4>1
      <4> QED BY <4>2 DEF Listeners
    <3>3. n \in Listeners(h, e)
      <4>1. Len(q) + 1 \in 1..Len(r)
        BY <1>4, <2>2
      <4> QED BY <2>2, <4>1 DEF Listeners
    <3> QED BY <3>1, <3>2, <3>3
  <2>5. \A i \in 1..Len(q) : q[i] \in Live(s) /\ q[i] < n
    BY <1>3, <1>4 DEF Listeners
  <2>6. Ascends(r)
    <3> SUFFICES ASSUME NEW i \in 1..Len(r), NEW j \in 1..Len(r), i < j PROVE r[i] < r[j]
      BY DEF Ascends
    <3>1. i \in 1..Len(q)
      BY <1>4, <2>2
    <3>2. CASE j \in 1..Len(q)
      BY <1>4, <2>2, <3>1, <3>2 DEF Ascends
    <3>3. CASE j = Len(q) + 1
      BY <2>2, <2>5, <3>1, <3>3
    <3> QED BY <2>3, <3>2, <3>3
  <2> QED BY <1>3, <1>4, <1>6, <2>4, <2>6
<1> QED BY <1>5, <1>6

(* The effect of any operation: it takes tokens out or adds one. *)
LEMMA ChangeSubs ==
    ASSUME NEW s \in State, NEW w \in Workers, NEW o \in Ops,
           o.kind \in {"on", "once"} => s.sequence # MaxSubs
    PROVE  LET h == Change(s, w, o) IN
           /\ h \in State
           /\ IF o.kind \in {"on", "once"} THEN Added(s, h, w, o) ELSE Taken(s, h, o)
           /\ Indexed(s) /\ (\A t \in Live(s) : t <= s.sequence) => Indexed(h)
<1> DEFINE h == Change(s, w, o)
           d == Detach(s, Detached(s, o))
<1>d. /\ d \in State /\ d.sequence = s.sequence /\ d.spent = s.spent
      /\ \A t \in Tokens : d.subs[t] = IF t \in Detached(s, o) THEN None ELSE s.subs[t]
  BY DetachSubs
<1>i. Indexed(s) => Indexed(d)
  BY DetachIndexed
<1>1. CASE o.kind \in {"on", "once"}
  <2>1. h = Subscribed(s, w, o)
    BY <1>1 DEF Change
  <2> QED BY <1>1, <2>1, SubscribedSubs, SubscribedIndexed
<1>2. CASE o.kind = "claimOnce"
  <2>1. h = [d EXCEPT !.spent = @ \cup Detached(s, o)]
    BY <1>2 DEF Change
  <2>2. Detached(s, o) \subseteq Tokens
    BY <1>2 DEF Detached, Live
  <2> HIDE DEF d
  <2>3. h \in State /\ h.sequence = d.sequence /\ h.subs = d.subs /\ h.byEvent = d.byEvent
        /\ h.spent = d.spent \cup Detached(s, o)
    BY <1>d, <2>1, <2>2 DEF State
  <2> HIDE DEF h
  <2>4. Taken(s, h, o)
    BY <1>2, <1>d, <2>3 DEF Taken
  <2>5. Indexed(d) => Indexed(h)
    BY <2>3 DEF Indexed, Listeners, Live
  <2> QED BY <1>2, <1>i, <2>3, <2>4, <2>5 DEF h
<1>3. CASE o.kind \in {"claim", "declare", "declareEvent", "seed"}
  <2>1. Detached(s, o) = {}
    BY <1>3 DEF Detached
  <2>s. Shape(s)
    BY DEF State, Shape
  <2>2. Shape(h)
    BY <2>s, ChangeNames
  <2>3. h.subs = s.subs /\ h.byEvent = s.byEvent /\ h.spent = s.spent /\ h.sequence = s.sequence
    BY <1>3 DEF Change, State
  <2> HIDE DEF h, d
  <2>4. h \in State
    BY <2>2, <2>3 DEF Shape, State
  <2>5. Taken(s, h, o)
    BY <1>3, <2>1, <2>3 DEF Taken
  <2>6. Indexed(s) => Indexed(h)
    BY <2>3 DEF Indexed, Listeners, Live
  <2> QED BY <1>3, <2>4, <2>5, <2>6 DEF h
<1>4. CASE o.kind \notin {"on", "once", "claimOnce", "claim", "declare", "declareEvent", "seed"}
  <2>1. h = d
    BY <1>4 DEF Change
  <2> HIDE DEF h, d
  <2>2. Taken(s, h, o)
    BY <1>4, <1>d, <2>1 DEF Taken
  <2> QED BY <1>4, <1>d, <1>i, <2>1, <2>2 DEF h
<1> QED BY <1>1, <1>2, <1>3, <1>4

(* An operation about to take out a live token will still do so after another's write. *)
LEMMA StillDetached ==
    ASSUME NEW s \in State, NEW h \in State, Indexed(s), Indexed(h), NEW o \in Ops,
           NEW t \in Live(s) \cap Live(h), h.subs[t] = s.subs[t],
           t \in Detached(s, o), ~Throws(s, o)
    PROVE  t \in Detached(h, o) /\ ~Throws(h, o)
<1>1. CASE o.kind \in {"cancel", "claimOnce"}
  BY <1>1 DEF Detached, Throws
<1>2. CASE o.kind = "off"
  <2>1. t \in Listeners(s, o.about) /\ MayCancel(o, s.subs[t].owner)
    BY <1>2 DEF Detached
  <2>2. o.about \in Events
    BY <1>2 DEF Ops, Plain, Entry, Registry!Operations
  <2>3. s.subs[t].event = o.about /\ t \in Listeners(h, o.about)
    BY <2>1, <2>2 DEF Indexed
  <2> QED BY <1>2, <2>1, <2>3 DEF Detached, Throws
<1>3. CASE o.kind = "cancelOwned"
  BY <1>3 DEF Detached, Throws, LiveOwned
<1>4. CASE o.kind \notin {"cancel", "claimOnce", "off", "cancelOwned"}
  BY <1>4 DEF Detached
<1> QED BY <1>1, <1>2, <1>3, <1>4

-----------------------------------------------------------------------------
(* The steps. *)

(* Every part holds before any runtime is constructed. *)
LEMMA InitSub == Init => SubInv
<1> SUFFICES ASSUME Init PROVE SubInv
  OBVIOUS
<1> USE DEF Init
<1>0. /\ hub.subs = [t \in Tokens |-> None] /\ hub.byEvent = [e \in Events |-> <<>>] /\ hub.spent = {}
      /\ hub.sequence = 0
  BY DEF blankState
<1>1. Live(hub) = {} /\ \A e \in Events : Listeners(hub, e) = {}
  BY <1>0 DEF Live, Listeners
<1>2. hub \in State
  BY BusStateAssumption DEF blankState, State
<1>3. Indexed(hub)
  BY <1>0, <1>1 DEF Indexed, Ascends
<1>4. Recorded(hub, issued)
  BY <1>0, <1>1 DEF Recorded, Tokens
<1>5. Base
  <2>1. session \in [Sessions -> Walk] /\ runs \in [Tokens -> Nat] /\ issued \in [Tokens -> Sub \cup {None}]
    BY DEF Walk, Stages
  <2> QED BY <1>2, <1>3, <1>4, <2>1 DEF Base
<1>6. \A w \in Workers : Tended(w)
  BY <1>1 DEF Tended, Heeded, OwnHandlers, ClaimMade, Claiming, Aware
<1>7. \A k \in Sessions : Walks(k)
  BY DEF Walks, Walk, Stages, Ascends
<1>8. ASSUME NEW t \in Tokens PROVE Counted(t)
  <2>1. Heard(t) = {}
    BY DEF Heard
  <2> QED BY <2>1, FS_EmptySet DEF Counted
<1> QED BY <1>5, <1>6, <1>7, <1>8 DEF SubInv

(* A runtime that takes no part in a step that leaves the hub alone. *)
LEMMA OtherRuntime ==
    ASSUME NEW v \in Workers, Tended(v), hub' = hub, issued' = issued,
           op'[v] = op[v], step'[v] = step[v], copy'[v] = copy[v], current'[v] = current[v],
           handlers'[v] = handlers[v], v \notin interrupted' => v \notin interrupted,
           Claiming(v) => /\ session'[op[v].sess] = session[op[v].sess]
                          /\ runs'[op[v].about] = runs[op[v].about]
    PROVE  Tended(v)'
<1>1. Heeded(v)'
  BY DEF Tended, Heeded, InHand
<1>2. OwnHandlers(v)'
  BY DEF Tended, OwnHandlers
<1>3. Claiming(v)' <=> Claiming(v)
  BY DEF Claiming
<1>4. ClaimMade(v)'
  BY <1>3 DEF Tended, ClaimMade, Listener
<1>5. Aware(v)'
  BY DEF Tended, Aware
<1> QED BY <1>1, <1>2, <1>4, <1>5 DEF Tended

(* An emit that goes on, or has not begun, loses none of what it has run. *)
Advances(old, new) ==
    \/ old.index = 1 /\ old.stage # "running"
    \/ /\ new.listeners = old.listeners /\ new.index >= old.index
       /\ old.stage = "running" => new.stage = "running" \/ new.index > old.index

Onward ==
    /\ session \in [Sessions -> Walk] /\ session' \in [Sessions -> Walk]
    /\ \A k \in Sessions : Walks(k) /\ Walks(k)' /\ Advances(session[k], session'[k])

(* No token is heard by more emits than there are. *)
LEMMA HeardFinite ==
    ASSUME NEW t
    PROVE  IsFiniteSet(Heard(t)) /\ Cardinality(Heard(t)) \in 0..MaxEmits
<1>1. IsFiniteSet(Sessions) /\ Cardinality(Sessions) = MaxEmits
  BY EventBusAssumption, FS_Interval DEF Sessions
<1>2. Heard(t) \subseteq Sessions
  BY DEF Heard
<1> QED BY <1>1, <1>2, FS_Subset, FS_CardinalityType, EventBusAssumption

(* What an emit has run stays run. *)
LEMMA HeardGrows ==
    ASSUME NEW t, Onward
    PROVE  /\ Heard(t) \subseteq Heard(t)' /\ IsFiniteSet(Heard(t)')
           /\ Cardinality(Heard(t)) <= Cardinality(Heard(t)')
<1>1. ASSUME NEW k \in Heard(t) PROVE k \in Heard(t)'
  <2>1. k \in Sessions
    BY DEF Heard
  <2>2. PICK i \in 1..Len(session[k].listeners) :
          /\ session[k].listeners[i] = t
          /\ i < session[k].index \/ (i = session[k].index /\ session[k].stage = "running")
    BY DEF Heard
  <2>3. session[k].index \in Nat /\ session'[k].index \in Nat
    BY <2>1 DEF Onward, Walk
  <2>4. Advances(session[k], session'[k])
    BY <2>1 DEF Onward
  <2>5. /\ session'[k].listeners = session[k].listeners /\ session'[k].index >= session[k].index
        /\ session[k].stage = "running" =>
              session'[k].stage = "running" \/ session'[k].index > session[k].index
    BY <2>2, <2>3, <2>4 DEF Advances
  <2>6. i < session'[k].index \/ (i = session'[k].index /\ session'[k].stage = "running")
    BY <2>2, <2>3, <2>5
  <2> QED BY <2>1, <2>2, <2>5, <2>6 DEF Heard
<1>2. IsFiniteSet(Heard(t)')
  <2>1. IsFiniteSet(Sessions)
    BY EventBusAssumption, FS_Interval DEF Sessions
  <2>2. Heard(t)' \subseteq Sessions
    BY DEF Heard
  <2> QED BY <2>1, <2>2, FS_Subset
<1> QED BY <1>1, <1>2, FS_Subset

(* v has claimed t and is about to run its handler. *)
Claimant(v, t) == Claiming(v) /\ step[v] = "after" /\ op[v].about = t /\ op[v].claimed

(* A token whose handler is not entered in a step keeps its account. *)
LEMMA CountsKept ==
    ASSUME NEW t \in Tokens, Counted(t), runs \in [Tokens -> Nat], runs'[t] = runs[t],
           issued'[t] = issued[t], t \in hub'.spent <=> t \in hub.spent,
           interrupted \subseteq interrupted', Onward,
           \A v \in Workers : Claimant(v, t) =>
              Claimant(v, t)' \/ (issued[t] # None => issued[t].worker \in interrupted')
    PROVE  Counted(t)'
<1>1. Cardinality(Heard(t)) <= Cardinality(Heard(t)') /\ IsFiniteSet(Heard(t)')
  BY HeardGrows
<1>2. Cardinality(Heard(t)) \in Nat /\ Cardinality(Heard(t)') \in Nat
  BY <1>1, HeardFinite, FS_CardinalityType
<1>3. runs'[t] <= Cardinality(Heard(t)')
  BY <1>1, <1>2 DEF Counted
<1>4. ASSUME issued'[t] # None, t \in hub'.spent, issued'[t].once
      PROVE  \/ runs'[t] = 1
             \/ \E v \in Workers : Claimant(v, t)'
             \/ issued'[t].worker \in interrupted'
  BY <1>4 DEF Counted, Claimant
<1> QED BY <1>3, <1>4 DEF Counted, Claimant

(* How a step moves the emits: not at all, one past a listener, one to another stage. *)
LEMMA SameSession ==
    ASSUME SubInv, session' = session
    PROVE  Onward
<1>1. session \in [Sessions -> Walk] /\ \A k \in Sessions : Walks(k)
  BY DEF SubInv, Base
<1>2. ASSUME NEW k \in Sessions PROVE Walks(k)' /\ Advances(session[k], session'[k])
  BY <1>1 DEF Walks, Advances, Walk
<1> QED BY <1>1, <1>2 DEF Onward

(* One emit becomes another walk. *)
LEMMA OneMoved ==
    ASSUME SubInv, NEW k \in Sessions, NEW new \in Walk, session' = [session EXCEPT ![k] = new],
           Ascends(new.listeners), new.index \in 1..(Len(new.listeners) + 1),
           new.stage \in {"serve", "running"} => new.index <= Len(new.listeners),
           new.stage # "unused", Advances(session[k], new)
    PROVE  /\ Onward /\ session'[k] = new /\ \A j \in Sessions \ {k} : session'[j] = session[j]
<1>1. session \in [Sessions -> Walk] /\ \A j \in Sessions : Walks(j)
  BY DEF SubInv, Base
<1>2. /\ session' \in [Sessions -> Walk] /\ session'[k] = new
      /\ \A j \in Sessions \ {k} : session'[j] = session[j]
  BY <1>1
<1>3. ASSUME NEW j \in Sessions PROVE Walks(j)' /\ Advances(session[j], session'[j])
  <2>1. CASE j = k
    BY <1>2, <2>1 DEF Walks
  <2>2. CASE j # k
    BY <1>1, <1>2, <2>2 DEF Walks, Advances, Walk
  <2> QED BY <2>1, <2>2
<1> QED BY <1>1, <1>2, <1>3 DEF Onward

(* It goes past its listener. *)
LEMMA SkipMoves ==
    ASSUME SubInv, NEW k \in Sessions, session[k].index <= Len(session[k].listeners),
           session' = [session EXCEPT ![k].stage = "route", ![k].index = @ + 1]
    PROVE  /\ Onward /\ \A j \in Sessions \ {k} : session'[j] = session[j]
           /\ session'[k] = [session[k] EXCEPT !.stage = "route", !.index = @ + 1]
<1> DEFINE new == [session[k] EXCEPT !.stage = "route", !.index = @ + 1]
<1>1. session \in [Sessions -> Walk] /\ session[k] \in Walk /\ Walks(k)
  BY DEF SubInv, Base
<1>2. new \in Walk /\ new.stage = "route" /\ new.index = session[k].index + 1 /\ new.listeners = session[k].listeners
  BY <1>1, SMTT(30) DEF Walk, Stages
<1>3. session' = [session EXCEPT ![k] = new]
  BY <1>1
<1> HIDE DEF new
<1>4. Ascends(new.listeners) /\ new.index \in 1..(Len(new.listeners) + 1)
  BY <1>1, <1>2 DEF Walks, Walk
<1>5. Advances(session[k], new)
  BY <1>1, <1>2 DEF Advances, Walk
<1>6. new.stage # "unused" /\ new.stage \notin {"serve", "running"}
  BY <1>2
<1> QED BY <1>2, <1>3, <1>4, <1>5, <1>6, OneMoved DEF new

(* It goes on to another stage at the same listener. *)
LEMMA StageMoves ==
    ASSUME SubInv, NEW k \in Sessions, NEW x \in Stages, x # "unused", NEW at \in Workers \cup {None},
           x \in {"serve", "running"} => session[k].index <= Len(session[k].listeners),
           session[k].stage # "running",
           session' = [session EXCEPT ![k] = [session[k] EXCEPT !.stage = x, !.at = at]]
    PROVE  /\ Onward /\ \A j \in Sessions \ {k} : session'[j] = session[j]
           /\ session'[k].stage = x /\ session'[k].at = at /\ session'[k].index = session[k].index
           /\ session'[k].listeners = session[k].listeners
<1> DEFINE new == [session[k] EXCEPT !.stage = x, !.at = at]
<1>1. session \in [Sessions -> Walk] /\ session[k] \in Walk /\ Walks(k)
  BY DEF SubInv, Base
<1>2. new \in Walk /\ new.stage = x /\ new.at = at /\ new.index = session[k].index
      /\ new.listeners = session[k].listeners
  BY <1>1 DEF Walk
<1>3. session' = [session EXCEPT ![k] = new]
  OBVIOUS
<1> HIDE DEF new
<1>4. /\ Ascends(new.listeners) /\ new.index \in 1..(Len(new.listeners) + 1)
      /\ new.stage \in {"serve", "running"} => new.index <= Len(new.listeners)
      /\ new.stage # "unused"
  BY <1>1, <1>2 DEF Walks
<1>5. Advances(session[k], new)
  BY <1>1, <1>2 DEF Advances, Walk
<1> QED BY <1>2, <1>3, <1>4, <1>5, OneMoved

(* A step that changes one runtime and leaves hub, handlers' histories and
   emits alone keeps the invariant if what it makes of that runtime is right. *)
LEMMA AloneStep ==
    ASSUME SubInv, NEW w \in Workers, Tended(w)',
           UNCHANGED <<scripts, hub, session, issued, runs, interrupted>>,
           installed' \subseteq Workers,
           \A v \in Workers \ {w} :
              /\ op'[v] = op[v] /\ step'[v] = step[v] /\ copy'[v] = copy[v]
              /\ current'[v] = current[v] /\ handlers'[v] = handlers[v],
           \A t \in Tokens : ~Claimant(w, t)
    PROVE  SubInv'
<1>1. Base'
  BY DEF SubInv, Base, Indexed, Recorded, Listeners, Live
<1>2. ASSUME NEW v \in Workers, v # w PROVE Tended(v)'
  <2>1. Tended(v)
    BY DEF SubInv
  <2> QED BY <1>2, <2>1, OtherRuntime
<1>3. Onward
  BY SameSession
<1>5. ASSUME NEW t \in Tokens PROVE Counted(t)'
  <2>1. Counted(t) /\ runs \in [Tokens -> Nat]
    BY DEF SubInv, Base
  <2>2. ASSUME NEW v \in Workers, Claimant(v, t) PROVE Claimant(v, t)'
    BY <2>2 DEF Claimant, Claiming
  <2>3. interrupted \subseteq interrupted'
    OBVIOUS
  <2> QED BY <1>3, <2>1, <2>2, <2>3, CountsKept
<1> QED BY <1>1, <1>2, <1>3, <1>5 DEF SubInv, Onward

(* Entering an operation. *)
LEMMA BeginSub ==
    ASSUME IndInv, SubInv, NEW w \in Workers, NEW o, Begin(w, o), session' = session,
           o.kind # "claimOnce", o.sess = 0, installed' \subseteq Workers
    PROVE  SubInv'
<1>0. Functions /\ Tended(w) /\ step[w] = "idle"
  BY DEF IndInv, SubInv, Begin
<1>1. op'[w] = o /\ step'[w] = "read" /\ UNCHANGED <<scripts, hub, copy, current, handlers, history>>
  BY <1>0 DEF Begin, Functions
<1>2. UNCHANGED <<issued, runs, interrupted>>
  BY <1>1 DEF history
<1>3. Tended(w)'
  <2>1. Heeded(w)'
    BY <1>0, <1>1, <1>2 DEF Tended, Heeded, InHand
  <2>2. OwnHandlers(w)'
    BY <1>0, <1>1, <1>2 DEF Tended, OwnHandlers
  <2>3. ClaimMade(w)' /\ Aware(w)'
    BY <1>1 DEF ClaimMade, Claiming, Aware
  <2> QED BY <1>1, <2>1, <2>2, <2>3 DEF Tended
<1>4. \A t \in Tokens : ~Claimant(w, t)
  BY <1>0 DEF Claimant, Claiming
<1>5. \A v \in Workers \ {w} :
              /\ op'[v] = op[v] /\ step'[v] = step[v] /\ copy'[v] = copy[v]
              /\ current'[v] = current[v] /\ handlers'[v] = handlers[v]
  BY <1>0, <1>1 DEF Begin, Functions
<1> QED BY <1>1, <1>2, <1>3, <1>4, <1>5, AloneStep

(* The operations scripts and the host call. *)
LEMMA CallSub ==
    ASSUME IndInv, SubInv, NEW w \in Workers,
           \/ Install(w) \/ Subscribe(w) \/ CancelToken(w) \/ Off(w) \/ CancelOwned(w)
           \/ Claim(w) \/ Declare(w)
    PROVE  SubInv'
<1>1. session' = session /\ installed' \subseteq Workers
  BY DEF SubInv, Base, Install, Subscribe, CancelToken, Off, CancelOwned, Claim, Declare
<1>2. ASSUME NEW kind, NEW a, NEW c, kind # "claimOnce", Begin(w, Op(kind, a, c)) PROVE SubInv'
  <2>1. Op(kind, a, c).kind = kind /\ Op(kind, a, c).sess = 0
    BY DEF Op
  <2> QED BY <1>1, <1>2, <2>1, BeginSub
<1>3. \E kind, a, c : kind # "claimOnce" /\ Begin(w, Op(kind, a, c))
  <2>1. CASE Install(w)
    <3>1. "seed" # "claimOnce" /\ Begin(w, Op("seed", None, Host))
      BY <2>1 DEF Install
    <3> QED BY <3>1
  <2>2. CASE Subscribe(w)
    <3>1. PICK e \in Events, c \in Owners, kind \in {"on", "once"} : Begin(w, Op(kind, e, c))
      BY <2>2, Zenon DEF Subscribe
    <3>2. kind # "claimOnce"
      OBVIOUS
    <3> QED BY <3>1, <3>2
  <2>3. CASE CancelToken(w)
    <3>1. "cancel" # "claimOnce"
      OBVIOUS
    <3> QED BY <2>3, <3>1, Zenon DEF CancelToken
  <2>4. CASE Off(w)
    <3>1. "off" # "claimOnce"
      OBVIOUS
    <3> QED BY <2>4, <3>1, Zenon DEF Off
  <2>5. CASE CancelOwned(w)
    <3>1. "cancelOwned" # "claimOnce"
      OBVIOUS
    <3> QED BY <2>5, <3>1, Zenon DEF CancelOwned
  <2>6. CASE Claim(w)
    <3>1. "claim" # "claimOnce"
      OBVIOUS
    <3> QED BY <2>6, <3>1, Zenon DEF Claim
  <2>7. CASE Declare(w)
    <3>1. "declare" # "claimOnce" /\ "declareEvent" # "claimOnce"
      OBVIOUS
    <3> QED BY <2>7, <3>1, Zenon DEF Declare
  <2> QED BY <2>1, <2>2, <2>3, <2>4, <2>5, <2>6, <2>7
<1> QED BY <1>2, <1>3

(* What an operation detaches depends on three of its fields. *)
LEMMA SameDetached ==
    ASSUME NEW s, NEW o, NEW q, q.kind = o.kind, q.about = o.about, q.caller = o.caller
    PROVE  Detached(s, q) = Detached(s, o) /\ (Throws(s, q) <=> Throws(s, o))
<1>1. Detached(s, q) = Detached(s, o)
  BY DEF Detached, MayCancel, Live, LiveOwned, Listeners
<1>2. Throws(s, q) <=> Throws(s, o)
  BY DEF Throws, MayCancel, Party
<1> QED BY <1>1, <1>2

(* A round of the loop deletes handlers only of what its operation takes out. *)
LEMMA AttemptSub ==
    ASSUME IndInv, SubInv, NEW w \in Workers, Attempt(w)
    PROVE  SubInv'
<1> DEFINE o == op[w]
<1>0. Functions /\ Tended(w) /\ step[w] = "read" /\ o \in Ops /\ Base
  BY DEF IndInv, SubInv, Attempt, Local, Busy
<1>1. UNCHANGED <<scripts, hub, session, issued, runs, interrupted, installed>>
  BY DEF Attempt, history
<1>2. \A t \in Tokens : ~Claimant(w, t)
  BY <1>0 DEF Claimant
<1>3. \A v \in Workers \ {w} :
              /\ op'[v] = op[v] /\ step'[v] = step[v] /\ copy'[v] = copy[v]
              /\ current'[v] = current[v] /\ handlers'[v] = handlers[v]
  BY <1>0 DEF Attempt, Functions
<1>4. installed' \subseteq Workers
  BY <1>0, <1>1 DEF Base
<1>5. CASE Throws(hub, o) \/ Full(o)
  <2>1. op'[w] = None /\ step'[w] = "idle" /\ handlers' = handlers
    BY <1>0, <1>5 DEF Attempt, Functions
  <2>2. \A t \in Live(hub) : ~InHand(w, t)
    <3>1. Full(o) => Detached(hub, o) = {}
      BY DEF Full, Detached
    <3> QED BY <1>0, <1>5, <3>1 DEF InHand
  <2>3. Heeded(w)'
    BY <1>0, <1>1, <2>1, <2>2 DEF Tended, Heeded
  <2>4. OwnHandlers(w)'
    BY <1>0, <1>1, <2>1 DEF Tended, OwnHandlers
  <2>5. ClaimMade(w)' /\ Aware(w)'
    BY <2>1 DEF ClaimMade, Claiming, Aware
  <2>6. Tended(w)'
    BY <2>1, <2>3, <2>4, <2>5 DEF Tended
  <2> QED BY <1>1, <1>2, <1>3, <1>4, <2>6, AloneStep
<1>6. CASE ~(Throws(hub, o) \/ Full(o))
  <2> DEFINE c == (o.kind = "claimOnce" /\ Detached(hub, o) # {})
             q == [o EXCEPT !.claimed = c]
             g == {t \in Detached(hub, o) : hub.subs[t].worker = w}
  <2>1. /\ copy'[w] = Change(hub, w, o) /\ step'[w] = "write" /\ current'[w] = TRUE
        /\ op'[w] = q /\ handlers'[w] = handlers[w] \ g
    BY <1>0, <1>6 DEF Attempt, Functions
  <2>2. q.kind = o.kind /\ q.about = o.about /\ q.caller = o.caller /\ q.sess = o.sess
    BY <1>0 DEF Ops, Operation
  <2>2a. q.claimed <=> c
    BY <1>0, Zenon DEF Ops, Operation
  <2> HIDE DEF q
  <2>3. Detached(hub, q) = Detached(hub, o) /\ ~Throws(hub, q)
    BY <1>6, <2>2, SameDetached
  <2>4. Change(hub, w, o) \in State
    <3>1. o.kind \in {"on", "once"} => hub.sequence # MaxSubs
      BY <1>6 DEF Full
    <3>2. hub \in State
      BY <1>0 DEF Base
    <3> QED BY <1>0, <3>1, <3>2, ChangeSubs
  <2>5. Heeded(w)'
    <3> SUFFICES ASSUME w \notin interrupted, NEW t \in Live(hub), hub.subs[t].worker = w
                 PROVE  t \in handlers'[w] \/ t \in Detached(hub, q)
      BY <1>1, <2>1, <2>3 DEF Heeded, InHand
    <3>1. t \in handlers[w] \/ t \in Detached(hub, o)
      BY <1>0 DEF Tended, Heeded, InHand
    <3> QED BY <2>1, <2>3, <3>1
  <2>6. OwnHandlers(w)'
    BY <1>0, <1>1, <2>1 DEF Tended, OwnHandlers
  <2>7. ClaimMade(w)'
    <3>1. ~Claiming(w) => q.sess = 0 /\ q.kind # "claimOnce"
      BY <1>0, <2>2 DEF Tended, ClaimMade, Claiming
    <3>2. Claiming(w) => (c <=> o.about \in Live(hub))
      BY <1>0 DEF Claiming, Detached
    <3>3. Claiming(w)' <=> Claiming(w)
      BY <1>0, <2>1, <2>2 DEF Claiming
    <3>4. Claiming(w) =>
          /\ issued[o.about] # None /\ issued[o.about].once /\ issued[o.about].worker = w
          /\ o.sess \in Sessions /\ session[o.sess].stage = "serve" /\ session[o.sess].at = w
          /\ Listener(o.sess) = o.about
      BY <1>0 DEF Tended, ClaimMade
    <3> QED BY <1>1, <2>1, <2>2, <2>2a, <3>1, <3>2, <3>3, <3>4 DEF ClaimMade, Listener, Claiming
  <2>8. Aware(w)'
    BY <2>1, <2>4 DEF Aware
  <2>9. Tended(w)'
    BY <2>1, <2>5, <2>6, <2>7, <2>8 DEF Tended
  <2> QED BY <1>1, <1>2, <1>3, <1>4, <2>9, AloneStep
<1> QED BY <1>5, <1>6

(* A refused write starts the round again. *)
LEMMA RefusedSub ==
    ASSUME IndInv, SubInv, NEW w \in Workers, Write(w), ~current[w]
    PROVE  SubInv'
<1>0. Functions /\ Tended(w) /\ step[w] = "write" /\ Base
  BY DEF IndInv, SubInv, Write
<1>1. UNCHANGED <<scripts, hub, session, issued, runs, interrupted, installed, op, handlers, current>>
  BY DEF Write
<1>2. step'[w] = "read" /\ \A v \in Workers \ {w} : step'[v] = step[v] /\ copy'[v] = copy[v]
  BY <1>0 DEF Write, Functions
<1>3. \A t \in Tokens : ~Claimant(w, t)
  BY <1>0 DEF Claimant
<1>4. Heeded(w)'
  BY <1>0, <1>1, <1>2 DEF Tended, Heeded, InHand
<1>5. OwnHandlers(w)'
  BY <1>0, <1>1 DEF Tended, OwnHandlers
<1>6. ClaimMade(w)'
  BY <1>0, <1>1, <1>2 DEF Tended, ClaimMade, Claiming, Listener
<1>7. Aware(w)'
  BY <1>2 DEF Aware
<1>8. Tended(w)'
  BY <1>2, <1>4, <1>5, <1>6, <1>7 DEF Tended
<1>9. installed' \subseteq Workers
  BY <1>0, <1>1 DEF Base
<1> QED BY <1>1, <1>2, <1>3, <1>8, <1>9, AloneStep

(* A successful write: the hub becomes the copy. *)
LEMMA CommitFacts ==
    ASSUME IndInv, SubInv, NEW w \in Workers, Write(w), current[w]
    PROVE  LET o == op[w] h == hub' IN
           /\ h = copy[w] /\ h \in State /\ Indexed(h)
           /\ IF o.kind \in {"on", "once"} THEN Added(hub, h, w, o) ELSE Taken(hub, h, o)
           /\ issued' = IF o.kind \in {"on", "once"} THEN [issued EXCEPT ![h.sequence] = h.subs[h.sequence]]
                        ELSE issued
           /\ step' = [step EXCEPT ![w] = "after"] /\ current' = [v \in Workers |-> FALSE]
           /\ UNCHANGED <<scripts, installed, op, copy, handlers, session, runs, interrupted>>
<1> DEFINE o == op[w]
<1>1. o \in Ops /\ Fresh(w) /\ hub' = Change(hub, w, o)
  BY WriteCommits
<1>2. hub \in State /\ Indexed(hub) /\ Recorded(hub, issued)
  BY DEF SubInv, Base
<1>3. \A t \in Live(hub) : t <= hub.sequence
  <2> SUFFICES ASSUME NEW t \in Live(hub) PROVE t <= hub.sequence
    OBVIOUS
  <2>1. t \in Tokens /\ issued[t] = hub.subs[t] /\ hub.subs[t] # None
    BY <1>2 DEF Recorded, Live
  <2> QED BY <1>2, <2>1 DEF Recorded
<1>4. o.kind \in {"on", "once"} => hub.sequence # MaxSubs
  BY <1>1 DEF Fresh
<1>5. /\ hub' \in State /\ Indexed(hub')
      /\ IF o.kind \in {"on", "once"} THEN Added(hub, hub', w, o) ELSE Taken(hub, hub', o)
  BY <1>1, <1>2, <1>3, <1>4, ChangeSubs
<1>6. hub' = copy[w] /\ Tell(w) /\ step' = [step EXCEPT ![w] = "after"]
      /\ current' = [v \in Workers |-> FALSE]
      /\ UNCHANGED <<scripts, installed, op, copy, handlers, session, runs, interrupted>>
  BY DEF Write
<1> QED BY <1>5, <1>6 DEF Tell

(* What is live afterwards was live before, with the same record, unless it is
   the token just issued; what was issued stays so. *)
LEMMA CommitTokens ==
    ASSUME IndInv, SubInv, NEW w \in Workers, Write(w), current[w]
    PROVE  LET o == op[w] h == hub'
               new == IF o.kind \in {"on", "once"} THEN {h.sequence} ELSE {} IN
           /\ new \subseteq Tokens
           /\ \A t \in Live(h) \ new : t \in Live(hub) /\ h.subs[t] = hub.subs[t] /\ t \notin Detached(hub, o)
           /\ \A t \in new : t \in Live(h) /\ h.subs[t].worker = w /\ issued'[t] = h.subs[t]
                             /\ issued[t] = None /\ t \notin h.spent
           /\ \A t \in Tokens \ new : issued'[t] = issued[t]
           /\ hub.spent \subseteq h.spent
           /\ \A t \in h.spent \ hub.spent : Claiming(w) /\ t = o.about /\ t \in Live(hub) /\ t \notin Live(h)
           /\ issued' \in [Tokens -> Sub \cup {None}] /\ Recorded(h, issued')
<1> DEFINE o == op[w]
           h == hub'
           new == IF o.kind \in {"on", "once"} THEN {h.sequence} ELSE {}
<1>0. /\ hub \in State /\ Recorded(hub, issued) /\ issued \in [Tokens -> Sub \cup {None}] /\ Tended(w)
      /\ step[w] = "write" /\ None \notin Sub /\ Tokens \subseteq Nat /\ hub.sequence \in Nat
  BY BusStateAssumption DEF SubInv, Base, Write, Tokens, State
<1>1. /\ h \in State
      /\ IF o.kind \in {"on", "once"} THEN Added(hub, h, w, o) ELSE Taken(hub, h, o)
      /\ issued' = IF o.kind \in {"on", "once"} THEN [issued EXCEPT ![h.sequence] = h.subs[h.sequence]]
                   ELSE issued
  BY CommitFacts
<1> HIDE DEF h
<1>2. CASE o.kind \in {"on", "once"}
  <2> DEFINE n == h.sequence
  <2>1. /\ n = hub.sequence + 1 /\ n \in Tokens /\ h.subs[n] \in Sub /\ h.subs[n].worker = w
        /\ (\A t \in Tokens : t # n => h.subs[t] = hub.subs[t]) /\ h.spent = hub.spent
        /\ issued' = [issued EXCEPT ![n] = h.subs[n]] /\ new = {n}
    BY <1>1, <1>2 DEF Added
  <2> HIDE DEF n, new
  <2>2. issued[n] = None
    BY <1>0, <2>1 DEF Recorded
  <2>3. n \notin Live(hub) /\ n \notin hub.spent
    BY <1>0, <2>1, <2>2 DEF Recorded, Live
  <2>4. Live(h) = Live(hub) \cup {n}
    BY <1>0, <2>1, <2>3 DEF Live
  <2>5. issued'[n] = h.subs[n] /\ \A t \in Tokens : t # n => issued'[t] = issued[t]
    BY <1>0, <2>1
  <2>6. Detached(hub, o) = {}
    BY <1>2 DEF Detached
  <2>7. issued' \in [Tokens -> Sub \cup {None}]
    BY <1>0, <2>1
  <2>8. Recorded(h, issued')
    <3>1. ASSUME NEW t \in Tokens PROVE issued'[t] # None <=> t <= n
      <4>1. CASE t = n
        BY <1>0, <2>1, <2>5, <4>1
      <4>2. CASE t # n
        BY <1>0, <2>1, <2>5, <4>2 DEF Recorded
      <4> QED BY <4>1, <4>2
    <3>2. ASSUME NEW t \in Live(h) PROVE issued'[t] = h.subs[t]
      BY <1>0, <2>1, <2>3, <2>4, <2>5 DEF Recorded, Live
    <3>3. ASSUME NEW t \in h.spent PROVE t \notin Live(h) /\ issued'[t] # None /\ issued'[t].once
      <4>1. t \in Tokens /\ t # n /\ t \in hub.spent
        BY <1>0, <2>1, <2>3 DEF State
      <4> QED BY <1>0, <2>4, <2>5, <4>1 DEF Recorded
    <3> QED BY <3>1, <3>2, <3>3 DEF Recorded, n
  <2>9. \A t \in Live(hub) : h.subs[t] = hub.subs[t]
    BY <2>1, <2>3 DEF Live
  <2> QED BY <2>1, <2>2, <2>3, <2>4, <2>5, <2>6, <2>7, <2>8, <2>9 DEF h, n, new
<1>3. CASE o.kind \notin {"on", "once"}
  <2>1. Taken(hub, h, o) /\ issued' = issued /\ new = {}
    BY <1>1, <1>3
  <2> HIDE DEF new
  <2>2. Live(h) \subseteq Live(hub) /\ \A t \in Live(h) : h.subs[t] = hub.subs[t] /\ t \notin Detached(hub, o)
    BY <2>1 DEF Taken, Live
  <2>3. \A t \in h.spent \ hub.spent : Claiming(w) /\ t = o.about /\ t \in Live(hub) /\ t \notin Live(h)
    BY <1>0, <2>1, <2>2 DEF Taken, Detached, Claiming
  <2>4. hub.spent \subseteq h.spent /\ h.sequence = hub.sequence
    BY <2>1 DEF Taken
  <2>5. Claiming(w) => issued[o.about] # None /\ issued[o.about].once
    BY <1>0 DEF Tended, ClaimMade
  <2>6. Recorded(h, issued)
    BY <1>0, <2>2, <2>3, <2>4, <2>5 DEF Recorded
  <2> QED BY <1>0, <1>3, <2>1, <2>2, <2>3, <2>4, <2>6 DEF h, new
<1> QED BY <1>2, <1>3

(* The write of a fresh copy, whatever the operation and whoever else is in one. *)
LEMMA CommitSub ==
    ASSUME IndInv, SubInv, NEW w \in Workers, Write(w), current[w]
    PROVE  SubInv'
<1> DEFINE o == op[w]
           h == hub'
           new == IF o.kind \in {"on", "once"} THEN {h.sequence} ELSE {}
<1>0. Functions /\ Base /\ Tended(w) /\ step[w] = "write"
  BY DEF IndInv, SubInv, Write
<1>1. /\ h = copy[w] /\ h \in State /\ Indexed(h)
      /\ step' = [step EXCEPT ![w] = "after"] /\ current' = [v \in Workers |-> FALSE]
      /\ UNCHANGED <<scripts, installed, op, copy, handlers, session, runs, interrupted>>
  BY CommitFacts
<1>2. /\ new \subseteq Tokens
      /\ \A t \in Live(h) \ new : t \in Live(hub) /\ h.subs[t] = hub.subs[t] /\ t \notin Detached(hub, o)
      /\ \A t \in new : t \in Live(h) /\ h.subs[t].worker = w /\ issued'[t] = h.subs[t]
                        /\ issued[t] = None /\ t \notin h.spent
      /\ \A t \in Tokens \ new : issued'[t] = issued[t]
      /\ hub.spent \subseteq h.spent
      /\ \A t \in h.spent \ hub.spent : Claiming(w) /\ t = o.about /\ t \in Live(hub) /\ t \notin Live(h)
      /\ issued' \in [Tokens -> Sub \cup {None}] /\ Recorded(h, issued')
  BY CommitTokens
<1>3. o.kind \in {"on", "once"} => new = {h.sequence}
  OBVIOUS
<1>4. o.kind \notin {"on", "once"} => new = {}
  OBVIOUS
<1> HIDE DEF new
<1>5. step'[w] = "after" /\ \A v \in Workers \ {w} : step'[v] = step[v]
  BY <1>0, <1>1 DEF Functions
<1>6. \A t \in Tokens : issued[t] # None => issued'[t] = issued[t]
  BY <1>2
<1>7. Base'
  BY <1>0, <1>1, <1>2 DEF Base
<1>8. Tended(w)'
  <2>1. Heeded(w)'
    <3> SUFFICES ASSUME w \notin interrupted, NEW t \in Live(h), h.subs[t].worker = w
                 PROVE  t \in handlers[w] \/ (o.kind \in {"on", "once"} /\ t = h.sequence)
      BY <1>1, <1>5 DEF Heeded, InHand
    <3>1. CASE t \in new
      BY <1>3, <1>4, <3>1
    <3>2. CASE t \notin new
      <4>1. t \in Live(hub) /\ hub.subs[t].worker = w /\ t \notin Detached(hub, o)
        BY <1>2, <3>2
      <4>2. t \in handlers[w] \/ InHand(w, t)
        BY <1>0, <4>1 DEF Tended, Heeded
      <4> QED BY <1>0, <4>1, <4>2 DEF InHand
    <3> QED BY <3>1, <3>2
  <2>2. OwnHandlers(w)'
    BY <1>0, <1>1, <1>6 DEF Tended, OwnHandlers
  <2>3. ClaimMade(w)'
    <3>1. Claiming(w)' <=> Claiming(w)
      BY <1>0, <1>1, <1>5 DEF Claiming
    <3>2. ~Claiming(w) => o.sess = 0
      BY <1>0 DEF Tended, ClaimMade, Claiming
    <3>3. CASE Claiming(w)
      <4> DEFINE t == o.about
      <4>1. /\ issued[t] # None /\ issued[t].once /\ issued[t].worker = w
            /\ o.sess \in Sessions /\ session[o.sess].stage = "serve" /\ session[o.sess].at = w
            /\ Listener(o.sess) = t /\ (o.claimed <=> t \in Live(hub))
        BY <1>0, <3>3 DEF Tended, ClaimMade
      <4>2. o.kind = "claimOnce" /\ new = {} /\ t \in Tokens
        BY <1>0, <1>4, <3>3 DEF Claiming, IndInv, Local, Busy, Ops, Plain, Entry, Registry!Operations, Registry!Tokens, Tokens
      <4>3. t \notin Live(h)
        <5>1. t \in Live(hub) => t \in Detached(hub, o)
          BY <4>2 DEF Detached
        <5> QED BY <1>2, <4>2, <5>1
      <4>4. o.claimed => t \in h.spent
        <5>1. Taken(hub, h, o)
          BY <4>2, CommitFacts
        <5> QED BY <4>1, <4>2, <5>1 DEF Taken, Detached
      <4>5. o.claimed => runs[t] = 0
        <5>1. Counted(t) /\ Recorded(hub, issued)
          BY <4>2 DEF SubInv, Base
        <5> QED BY <4>1, <5>1 DEF Counted, Recorded
      <4>6. issued'[t] = issued[t]
        BY <1>6, <4>1, <4>2
      <4> QED BY <1>1, <1>5, <3>1, <3>3, <4>1, <4>2, <4>3, <4>4, <4>5, <4>6 DEF ClaimMade, Listener
    <3> QED BY <1>1, <3>1, <3>2, <3>3 DEF ClaimMade
  <2>4. Aware(w)'
    <3>1. o.kind \in {"on", "once"} => h.sequence \in Tokens /\ issued'[h.sequence] # None
                                       /\ issued'[h.sequence].worker = w
      BY <1>2, <1>3 DEF Live
    <3> QED BY <1>1, <1>5, <3>1 DEF Aware
  <2> QED BY <1>5, <2>1, <2>2, <2>3, <2>4 DEF Tended
<1>9. ASSUME NEW v \in Workers, v # w PROVE Tended(v)'
  <2>0. Tended(v) /\ Local(v)
    BY DEF SubInv, IndInv
  <2>1. current'[v] = FALSE /\ step'[v] = step[v] /\ op'[v] = op[v] /\ copy'[v] = copy[v]
        /\ handlers'[v] = handlers[v] /\ session' = session /\ runs' = runs
    BY <1>1, <1>5, <1>9
  <2>2. \A t \in Live(h) : h.subs[t].worker = v => t \in Live(hub) /\ h.subs[t] = hub.subs[t]
    BY <1>2, <1>9
  <2>3. Heeded(v)'
    <3> SUFFICES ASSUME v \notin interrupted, NEW t \in Live(h), h.subs[t].worker = v
                 PROVE  (t \in handlers[v] \/ InHand(v, t))'
      BY <1>1 DEF Heeded
    <3>1. t \in Live(hub) /\ h.subs[t] = hub.subs[t]
      BY <2>2
    <3>2. t \in handlers[v] \/ InHand(v, t)
      BY <2>0, <3>1 DEF Tended, Heeded
    <3>3. CASE t \in handlers[v]
      BY <2>1, <3>3
    <3>4. CASE step[v] \in {"read", "write"} /\ t \in Detached(hub, op[v]) /\ ~Throws(hub, op[v])
      <4>1. op[v] \in Ops
        BY <2>0, <3>4 DEF Local, Busy
      <4>2. hub \in State /\ Indexed(hub)
        BY <1>0 DEF Base
      <4>3. t \in Detached(h, op[v]) /\ ~Throws(h, op[v])
        BY <1>1, <3>1, <3>4, <4>1, <4>2, StillDetached
      <4> QED BY <2>1, <3>4, <4>3 DEF InHand
    <3>5. CASE step[v] = "after" /\ op[v].kind \in {"on", "once"} /\ t = copy[v].sequence
      BY <2>1, <3>5 DEF InHand
    <3> QED BY <3>2, <3>3, <3>4, <3>5 DEF InHand
  <2>4. OwnHandlers(v)'
    BY <1>6, <2>0, <2>1 DEF Tended, OwnHandlers
  <2>5. ClaimMade(v)'
    <3>1. Claiming(v)' <=> Claiming(v)
      BY <2>1 DEF Claiming
    <3>2. CASE Claiming(v)
      <4> DEFINE t == op[v].about
      <4>1. /\ issued[t] # None /\ issued[t].once /\ issued[t].worker = v
            /\ op[v].sess \in Sessions /\ session[op[v].sess].stage = "serve"
            /\ session[op[v].sess].at = v /\ Listener(op[v].sess) = t
            /\ step[v] = "after" =>
                  t \notin Live(hub) /\ (op[v].claimed => t \in hub.spent /\ runs[t] = 0)
        BY <2>0, <3>2 DEF Tended, ClaimMade
      <4>2. t \in Tokens
        BY <2>0, <3>2 DEF Claiming, Local, Busy, Ops, Plain, Entry, Registry!Operations, Registry!Tokens, Tokens
      <4>3. issued'[t] = issued[t] /\ t \notin new
        BY <1>2, <1>6, <4>1, <4>2
      <4>4. t \notin Live(hub) => t \notin Live(h)
        BY <1>2, <4>3
      <4>5. step[v] = "after" /\ op[v].claimed => t \in h.spent /\ runs[t] = 0
        BY <1>2, <4>1
      <4>6. Listener(op[v].sess)' = t
        BY <2>1, <4>1 DEF Listener
      <4>7. Claiming(v) /\ op[v].kind = "claimOnce"
        BY <3>2 DEF Claiming
      <4> QED BY <2>1, <3>1, <4>1, <4>3, <4>4, <4>5, <4>6, <4>7 DEF ClaimMade
    <3>3. CASE ~Claiming(v)
      BY <2>0, <2>1, <3>1, <3>3 DEF Tended, ClaimMade
    <3> QED BY <3>2, <3>3
  <2>6. Aware(v)'
    BY <1>6, <2>0, <2>1, <2>2 DEF Tended, Aware
  <2> QED BY <2>0, <2>1, <2>3, <2>4, <2>5, <2>6 DEF Tended
<1>10. Onward
  BY <1>1, SameSession
<1>12. ASSUME NEW t \in Tokens PROVE Counted(t)'
  <2>1. Counted(t) /\ runs \in [Tokens -> Nat]
    BY DEF SubInv, Base
  <2>2. Heard(t) \subseteq Heard(t)' /\ Cardinality(Heard(t)') >= Cardinality(Heard(t)) /\ IsFiniteSet(Heard(t)')
    BY <1>10, HeardGrows
  <2>3. runs'[t] <= Cardinality(Heard(t)')
    BY <1>1, <2>1, <2>2, HeardFinite, FS_CardinalityType DEF Counted
  <2>4. ASSUME NEW v \in Workers, Claimant(v, t) PROVE Claimant(v, t)'
    BY <1>0, <1>1, <1>5, <2>4 DEF Claimant, Claiming
  <2>5. CASE t \in new
    <3>1. issued[t] = None /\ t \notin h.spent /\ runs[t] = 0
      BY <1>2, <2>1, <2>5 DEF Counted
    <3> QED BY <1>1, <2>3, <3>1 DEF Counted
  <2>6. CASE t \notin new /\ (t \in h.spent <=> t \in hub.spent)
    <3>1. issued'[t] = issued[t] /\ runs'[t] = runs[t] /\ interrupted \subseteq interrupted'
      BY <1>1, <1>2, <2>6
    <3> QED BY <1>10, <2>1, <2>4, <2>6, <3>1, CountsKept
  <2>7. CASE t \notin new /\ t \in h.spent /\ t \notin hub.spent
    <3>1. Claiming(w) /\ t = o.about /\ t \in Live(hub)
      BY <1>2, <2>7
    <3>2. o.claimed /\ issued[t] # None /\ issued[t].once
      BY <1>0, <3>1 DEF Tended, ClaimMade
    <3>3. Claimant(w, t)'
      BY <1>1, <1>5, <3>1, <3>2 DEF Claimant, Claiming
    <3>4. runs[t] = 0 /\ issued'[t] = issued[t]
      BY <1>2, <2>1, <2>7, <3>2 DEF Counted
    <3> QED BY <1>1, <2>3, <2>7, <3>2, <3>3, <3>4 DEF Counted, Claimant
  <2> QED BY <1>2, <2>5, <2>6, <2>7
<1> QED BY <1>7, <1>8, <1>9, <1>10, <1>12 DEF SubInv, Onward

(* What follows the write: handlers are forgotten, stored or entered. *)
LEMMA FinishSub ==
    ASSUME IndInv, SubInv, NEW w \in Workers, Finish(w)
    PROVE  SubInv'
<1> DEFINE o == op[w]
<1> SUFFICES ASSUME NEW t, t = op[w].about, NEW k, k = op[w].sess PROVE SubInv'
  OBVIOUS
<1>0. Functions /\ Base /\ Tended(w) /\ step[w] = "after"
  BY DEF IndInv, SubInv, Finish
<1>1. UNCHANGED <<scripts, hub, installed, current, issued, interrupted>>
  BY DEF Finish
<1>2. op'[w] = None /\ step'[w] = "idle" /\ \A v \in Workers \ {w} :
              /\ op'[v] = op[v] /\ step'[v] = step[v] /\ copy'[v] = copy[v] /\ handlers'[v] = handlers[v]
  BY <1>0 DEF Finish, Functions
<1>3. handlers'[w] = CASE o.kind \in {"on", "once"} -> (handlers[w] \cap Live(copy[w])) \cup {copy[w].sequence}
                       [] o.kind = "claimOnce" -> handlers[w] \ {t}
                       [] OTHER -> handlers[w]
  BY <1>0 DEF Finish, Functions
<1>4. Tended(w)'
  <2>1. Heeded(w)'
    <3> SUFFICES ASSUME w \notin interrupted, NEW u \in Live(hub), hub.subs[u].worker = w
                 PROVE  u \in handlers'[w]
      BY <1>1 DEF Heeded
    <3>1. u \in Live(copy[w])
      BY <1>0 DEF Tended, Aware
    <3>2. u \in handlers[w] \/ (o.kind \in {"on", "once"} /\ u = copy[w].sequence)
      BY <1>0 DEF Tended, Heeded, InHand
    <3>3. o.kind = "claimOnce" => u # t
      BY <1>0 DEF Tended, ClaimMade, Claiming
    <3> QED BY <1>3, <3>1, <3>2, <3>3
  <2>2. OwnHandlers(w)'
    <3>1. o.kind \in {"on", "once"} => LET u == copy[w].sequence IN
             u \in Tokens /\ issued[u] # None /\ issued[u].worker = w
      BY <1>0 DEF Tended, Aware
    <3>2. ASSUME NEW u \in handlers'[w] PROVE u \in Tokens /\ issued[u] # None /\ issued[u].worker = w
      <4>1. u \in handlers[w] \/ (o.kind \in {"on", "once"} /\ u = copy[w].sequence)
        BY <1>3
      <4> QED BY <1>0, <3>1, <4>1 DEF Tended, OwnHandlers
    <3> QED BY <1>1, <3>2 DEF OwnHandlers
  <2>3. ClaimMade(w)' /\ Aware(w)'
    BY <1>2 DEF ClaimMade, Claiming, Aware
  <2> QED BY <1>2, <2>1, <2>2, <2>3 DEF Tended
<1>5. CASE o.kind # "claimOnce"
  <2>1. session' = session /\ runs' = runs
    BY <1>5 DEF Finish
  <2>2. \A u \in Tokens : ~Claimant(w, u)
    BY <1>5 DEF Claimant, Claiming
  <2>3. installed' \subseteq Workers
    BY <1>0, <1>1 DEF Base
  <2> QED BY <1>1, <1>2, <1>4, <2>1, <2>2, <2>3, AloneStep
<1>6. CASE o.kind = "claimOnce"
  <2>1. /\ issued[t] # None /\ issued[t].once /\ issued[t].worker = w
        /\ k \in Sessions /\ session[k].stage = "serve" /\ session[k].at = w /\ Listener(k) = t
        /\ (o.claimed => t \in hub.spent /\ runs[t] = 0)
    BY <1>0, <1>6 DEF Tended, ClaimMade, Claiming
  <2>2. t \in Tokens /\ Claiming(w)
    BY <1>0, <1>6 DEF Claiming, IndInv, Local, Busy, Ops, Plain, Entry, Registry!Operations, Registry!Tokens, Tokens
  <2>3. IF o.claimed THEN Enter(k, t) ELSE Skip(k)
    BY <1>6 DEF Finish
  <2>4. runs \in [Tokens -> Nat] /\ session[k] \in Walk /\ Walks(k)
    BY <1>0, <2>1 DEF Base, SubInv
  <2>5. session[k].index \in 1..Len(session[k].listeners)
    BY <2>1, <2>4 DEF Walks, Walk
  <2>6. /\ Onward /\ \A j \in Sessions \ {k} : session'[j] = session[j]
        /\ session'[k].listeners = session[k].listeners
        /\ o.claimed => session'[k].stage = "running" /\ session'[k].index = session[k].index
    <3>1. CASE o.claimed
      <4>1. session' = [session EXCEPT ![k].stage = "running"]
        BY <2>3, <3>1 DEF Enter
      <4>2. session' = [session EXCEPT ![k] = [session[k] EXCEPT !.stage = "running", !.at = w]]
        BY <1>0, <2>1, <2>4, <4>1 DEF Walk, Base
      <4>3. "running" \in Stages /\ session[k].index <= Len(session[k].listeners)
        BY <2>4, <2>5 DEF Stages, Walk
      <4> QED BY <2>1, <3>1, <4>2, <4>3, StageMoves
    <3>2. CASE ~o.claimed
      <4>1. session' = [session EXCEPT ![k].stage = "route", ![k].index = @ + 1]
        BY <2>3, <3>2 DEF Skip
      <4>2. session[k].index <= Len(session[k].listeners)
        BY <2>4, <2>5 DEF Walk
      <4>3. /\ Onward /\ \A j \in Sessions \ {k} : session'[j] = session[j]
            /\ session'[k] = [session[k] EXCEPT !.stage = "route", !.index = @ + 1]
        BY <2>1, <4>1, <4>2, SkipMoves
      <4> QED BY <2>4, <3>2, <4>3 DEF Walk
    <3> QED BY <3>1, <3>2
  <2>8. runs' \in [Tokens -> Nat] /\ (\A u \in Tokens : u # t => runs'[u] = runs[u])
        /\ runs'[t] = IF o.claimed THEN runs[t] + 1 ELSE runs[t]
    <3> QED BY <2>2, <2>3, <2>4 DEF Enter, Skip
  <2>9. Base'
    BY <1>0, <1>1, <2>6, <2>8 DEF Base, Onward, Indexed, Recorded, Listeners, Live
  <2>10. ASSUME NEW v \in Workers, v # w PROVE Tended(v)'
    <3>1. Tended(v) /\ Local(v)
      BY DEF SubInv, IndInv
    <3>2. Claiming(v) => op[v].sess \in Sessions /\ op[v].sess # k /\ op[v].about # t /\ op[v].about \in Tokens
      BY <2>1, <2>10, <3>1 DEF Tended, ClaimMade, Claiming, Local, Busy, Ops, Plain, Entry, Registry!Operations, Registry!Tokens, Tokens
    <3>3. Claiming(v) => session'[op[v].sess] = session[op[v].sess] /\ runs'[op[v].about] = runs[op[v].about]
      BY <2>6, <2>8, <3>2
    <3> QED BY <1>1, <1>2, <2>10, <3>1, <3>3, OtherRuntime
  <2>11. ASSUME NEW u \in Tokens, u # t PROVE Counted(u)'
    <3>1. Counted(u) /\ runs'[u] = runs[u] /\ interrupted \subseteq interrupted'
      BY <1>1, <2>8, <2>11 DEF SubInv
    <3>2. ASSUME NEW v \in Workers, Claimant(v, u) PROVE Claimant(v, u)'
      BY <1>2, <2>11, <3>2 DEF Claimant, Claiming
    <3> QED BY <1>1, <2>4, <2>6, <3>1, <3>2, CountsKept
  <2>12. Counted(t)'
    <3>0. Counted(t)
      BY <2>2 DEF SubInv
    <3>1. CASE o.claimed
      <4>1. runs'[t] = 1 /\ t \in hub.spent /\ issued' = issued /\ hub' = hub
        BY <1>1, <2>1, <2>8, <3>1
      <4>2. k \in Heard(t)'
        <5>1. session[k].index \in 1..Len(session'[k].listeners)
          BY <2>5, <2>6
        <5>2. session'[k].listeners[session[k].index] = t
          BY <2>1, <2>6 DEF Listener
        <5> QED BY <2>1, <2>6, <3>1, <5>1, <5>2 DEF Heard
      <4>3. IsFiniteSet(Heard(t)')
        BY <2>6, HeardGrows
      <4>4. Cardinality(Heard(t)') >= 1
        <5>1. Cardinality(Heard(t)') # 0 /\ Cardinality(Heard(t)') \in Nat
          BY <4>2, <4>3, FS_EmptySet, FS_CardinalityType
        <5> QED BY <5>1
      <4> QED BY <2>1, <4>1, <4>4 DEF Counted
    <3>2. CASE ~o.claimed
      <4>1. runs'[t] = runs[t] /\ interrupted \subseteq interrupted'
        BY <1>1, <2>8, <3>2
      <4>2. ASSUME NEW v \in Workers, Claimant(v, t) PROVE Claimant(v, t)'
        <5>1. v # w
          BY <3>2, <4>2 DEF Claimant
        <5> QED BY <1>2, <4>2, <5>1 DEF Claimant, Claiming
      <4> QED BY <1>1, <2>2, <2>4, <2>6, <3>0, <4>1, <4>2, CountsKept
    <3> QED BY <3>1, <3>2
  <2> QED BY <1>4, <2>6, <2>9, <2>10, <2>11, <2>12 DEF SubInv, Onward
<1> QED BY <1>5, <1>6

(* An interrupt ends the operation, and the emit a claim was made for. *)
LEMMA InterruptSub ==
    ASSUME IndInv, SubInv, NEW w \in Workers, Interrupt(w)
    PROVE  SubInv'
<1> SUFFICES ASSUME NEW k, k = op[w].sess PROVE SubInv'
  OBVIOUS
<1>0. Functions /\ Base /\ Tended(w) /\ step[w] # "idle"
  BY DEF IndInv, SubInv, Interrupt
<1>1. /\ UNCHANGED <<scripts, hub, installed, current, handlers, issued, runs>>
      /\ interrupted' = interrupted \cup {w}
  BY DEF Interrupt
<1>2. op'[w] = None /\ step'[w] = "idle" /\ \A v \in Workers \ {w} :
              op'[v] = op[v] /\ step'[v] = step[v] /\ copy'[v] = copy[v]
  BY <1>0 DEF Interrupt, Functions
<1>3. /\ Onward /\ \A j \in Sessions : j # k => session'[j] = session[j]
  <2>0. session' = [j \in Sessions |-> IF k = j THEN [session[j] EXCEPT !.stage = "done"] ELSE session[j]]
    BY DEF Interrupt
  <2>1. session \in [Sessions -> Walk]
    BY <1>0 DEF Base
  <2>2. CASE Claiming(w)
    <3>1. k \in Sessions /\ session[k].stage = "serve"
      BY <1>0, <2>2 DEF Tended, ClaimMade
    <3>2. session[k] \in Walk /\ session[k].at \in Workers \cup {None} /\ "done" \in Stages
      BY <2>1, <3>1 DEF Walk, Stages
    <3>3. session' = [session EXCEPT ![k] = [session[k] EXCEPT !.stage = "done", !.at = session[k].at]]
      BY <2>0, <2>1, <3>1, <3>2 DEF Walk
    <3> QED BY <3>1, <3>2, <3>3, StageMoves
  <2>3. CASE ~Claiming(w)
    <3>1. k = 0 /\ 0 \notin Sessions
      BY <1>0, <2>3 DEF Tended, ClaimMade, Claiming, Sessions
    <3>2. session' = session
      BY <2>0, <2>1, <3>1
    <3> QED BY <3>2, SameSession
  <2> QED BY <2>2, <2>3
<1>4. Tended(w)'
  <2>1. Heeded(w)' /\ ClaimMade(w)' /\ Aware(w)'
    BY <1>1, <1>2 DEF Heeded, ClaimMade, Claiming, Aware
  <2>2. OwnHandlers(w)'
    BY <1>0, <1>1 DEF Tended, OwnHandlers
  <2> QED BY <1>2, <2>1, <2>2 DEF Tended
<1>5. ASSUME NEW v \in Workers, v # w PROVE Tended(v)'
  <2>1. Tended(v)
    BY DEF SubInv
  <2>2. Claiming(v) => op[v].sess \in Sessions /\ op[v].sess # k
    <3>1. Claiming(v) => op[v].sess \in Sessions /\ session[op[v].sess].at = v
      BY <2>1 DEF Tended, ClaimMade
    <3>2. k = 0 \/ session[k].at = w
      BY <1>0 DEF Tended, ClaimMade, Claiming
    <3>3. 0 \notin Sessions
      BY DEF Sessions
    <3> QED BY <1>5, <3>1, <3>2, <3>3
  <2> QED BY <1>1, <1>2, <1>3, <1>5, <2>1, <2>2, OtherRuntime
<1>6. Base'
  BY <1>0, <1>1, <1>3 DEF Base, Onward, Indexed, Recorded, Listeners, Live
<1>7. ASSUME NEW t \in Tokens PROVE Counted(t)'
  <2>1. Counted(t) /\ runs \in [Tokens -> Nat] /\ interrupted \subseteq interrupted'
    BY <1>1 DEF SubInv, Base
  <2>2. ASSUME NEW v \in Workers, Claimant(v, t)
        PROVE  Claimant(v, t)' \/ (issued[t] # None => issued[t].worker \in interrupted')
    <3>1. CASE v = w
      BY <1>0, <1>1, <2>2, <3>1 DEF Claimant, Tended, ClaimMade
    <3>2. CASE v # w
      BY <1>2, <2>2, <3>2 DEF Claimant, Claiming
    <3> QED BY <3>1, <3>2
  <2> QED BY <1>1, <1>3, <2>1, <2>2, CountsKept
<1> QED BY <1>3, <1>4, <1>5, <1>6, <1>7 DEF SubInv, Onward

(* One emit moves; no runtime but w, where it is served, depends on where it is. *)
LEMMA MoveStep ==
    ASSUME SubInv, NEW k \in Sessions, Onward, \A j \in Sessions \ {k} : session'[j] = session[j],
           UNCHANGED <<scripts, hub, installed, loopVars, issued, interrupted>>,
           runs' \in [Tokens -> Nat], \A t \in Tokens : Counted(t)',
           \A v \in Workers :
              \/ Tended(v)'
              \/ /\ handlers'[v] = handlers[v]
                 /\ Claiming(v) => op[v].sess # k /\ runs'[op[v].about] = runs[op[v].about]
    PROVE  SubInv'
<1>1. Base'
  BY DEF SubInv, Base, Onward, Indexed, Recorded, Listeners, Live
<1>2. ASSUME NEW v \in Workers PROVE Tended(v)'
  <2>1. Tended(v)
    BY DEF SubInv
  <2>2. Claiming(v) => op[v].sess \in Sessions
    BY <2>1 DEF Tended, ClaimMade
  <2>3. CASE /\ handlers'[v] = handlers[v]
             /\ Claiming(v) => op[v].sess # k /\ runs'[op[v].about] = runs[op[v].about]
    <3>1. Claiming(v) => session'[op[v].sess] = session[op[v].sess]
      BY <2>2, <2>3
    <3>2. op' = op /\ step' = step /\ copy' = copy /\ current' = current
      BY DEF loopVars
    <3> QED BY <2>1, <2>3, <3>1, <3>2, OtherRuntime
  <2> QED BY <2>3
<1> QED BY <1>1, <1>2 DEF SubInv, Onward

(* The account of a token that is not entered, when no operation moves. *)
LEMMA StillCounted ==
    ASSUME SubInv, Onward, UNCHANGED <<hub, loopVars, issued, interrupted>>,
           NEW t \in Tokens, runs'[t] = runs[t]
    PROVE  Counted(t)'
<1>1. Counted(t) /\ runs \in [Tokens -> Nat] /\ interrupted \subseteq interrupted'
  BY DEF SubInv, Base
<1>2. ASSUME NEW v \in Workers, Claimant(v, t) PROVE Claimant(v, t)'
  BY <1>2 DEF Claimant, Claiming, loopVars
<1> QED BY <1>1, <1>2, CountsKept

(* Emits begin, go on to their next listener and end. *)
LEMMA EmitSub ==
    ASSUME IndInv, SubInv, NEW k \in Sessions, Emit(k) \/ Route(k) \/ EndHandler(k)
    PROVE  SubInv'
<1>0. Base /\ session \in [Sessions -> Walk] /\ session[k] \in Walk /\ Walks(k) /\ runs \in [Tokens -> Nat]
  BY DEF SubInv, Base
<1>1. UNCHANGED <<scripts, hub, installed, loopVars, handlers, issued, interrupted, runs>>
  BY DEF Emit, Route, EndHandler, history, Skip
<1>2. session[k].stage # "serve"
  BY DEF Emit, Route, EndHandler
<1>3. Onward /\ \A j \in Sessions \ {k} : session'[j] = session[j]
  <2>1. CASE Emit(k)
    <3>1. session[k].stage = "unused"
      BY <2>1 DEF Emit
    <3>2. PICK e \in Events : session' = [session EXCEPT ![k].event = e, ![k].listeners = hub.byEvent[e],
                                                        ![k].stage = "route"]
      BY <2>1 DEF Emit
    <3> DEFINE new == [session[k] EXCEPT !.event = e, !.listeners = hub.byEvent[e], !.stage = "route"]
    <3>3. session' = [session EXCEPT ![k] = new]
      BY <1>0, <3>2
    <3>4. hub.byEvent[e] \in Seq(Tokens) /\ Ascends(hub.byEvent[e])
      BY <1>0 DEF Base, State, Indexed
    <3>5. new \in Walk /\ new.listeners = hub.byEvent[e] /\ new.stage = "route" /\ new.index = session[k].index
      BY <1>0, <3>4 DEF Walk, Stages
    <3> HIDE DEF new
    <3>6. session[k].index = 1 /\ Advances(session[k], new)
      BY <1>0, <3>1 DEF Walks, Advances
    <3>7. Ascends(new.listeners) /\ new.index \in 1..(Len(new.listeners) + 1)
          /\ new.stage # "unused" /\ new.stage \notin {"serve", "running"}
      BY <3>4, <3>5, <3>6
    <3> QED BY <3>3, <3>5, <3>6, <3>7, OneMoved
  <2>2. CASE Route(k)
    <3>0. session[k].stage = "route" /\ session[k].index \in Nat /\ Len(session[k].listeners) \in Nat
      BY <1>0, <2>2 DEF Route, Walk
    <3>1. CASE session[k].index > Len(session[k].listeners)
      <4>1. session' = [session EXCEPT ![k].stage = "done"]
        BY <2>2, <3>1 DEF Route
      <4>2. session' = [session EXCEPT ![k] = [session[k] EXCEPT !.stage = "done", !.at = session[k].at]]
        BY <1>0, <4>1 DEF Walk
      <4>3. "done" \in Stages /\ session[k].at \in Workers \cup {None}
        BY <1>0 DEF Stages, Walk
      <4> QED BY <3>0, <4>2, <4>3, StageMoves
    <3>2. CASE session[k].index <= Len(session[k].listeners)
      <4> DEFINE sub == hub.subs[session[k].listeners[session[k].index]]
      <4>1. CASE sub = None
        <5>1. session' = [session EXCEPT ![k].stage = "route", ![k].index = @ + 1]
          BY <2>2, <3>0, <3>2, <4>1 DEF Route, Skip
        <5> QED BY <3>2, <5>1, SkipMoves
      <4>2. CASE sub # None
        <5>1. session' = [session EXCEPT ![k].stage = "serve", ![k].at = sub.worker]
          BY <2>2, <3>0, <3>2, <4>2 DEF Route
        <5>2. session[k].index \in 1..Len(session[k].listeners) /\ session[k].listeners \in Seq(Tokens)
          BY <1>0, <3>0, <3>2 DEF Walks, Walk
        <5>3. sub \in Sub
          <6>1. session[k].listeners[session[k].index] \in Tokens
            BY <5>2
          <6> QED BY <1>0, <4>2, <6>1 DEF Base, State
        <5>4. sub.worker \in Workers
          BY <5>3 DEF Sub
        <5> HIDE DEF sub
        <5>5. session' = [session EXCEPT ![k] = [session[k] EXCEPT !.stage = "serve", !.at = sub.worker]]
          BY <1>0, <5>1 DEF Walk
        <5>6. "serve" \in Stages
          BY DEF Stages
        <5> QED BY <3>0, <3>2, <5>4, <5>5, <5>6, StageMoves
      <4> QED BY <4>1, <4>2
    <3> QED BY <3>0, <3>1, <3>2
  <2>3. CASE EndHandler(k)
    <3>1. session[k].stage = "running" /\ session' = [session EXCEPT ![k].stage = "route", ![k].index = @ + 1]
      BY <2>3 DEF EndHandler, Skip
    <3>2. session[k].index <= Len(session[k].listeners)
      BY <1>0, <3>1 DEF Walks
    <3> QED BY <3>1, <3>2, SkipMoves
  <2> QED BY <2>1, <2>2, <2>3
<1>4. \A t \in Tokens : Counted(t)'
  BY <1>1, <1>3, StillCounted
<1>5. ASSUME NEW v \in Workers PROVE /\ handlers'[v] = handlers[v]
                                     /\ Claiming(v) => op[v].sess # k /\ runs'[op[v].about] = runs[op[v].about]
  <2>1. Tended(v)
    BY DEF SubInv
  <2> QED BY <1>1, <1>2, <2>1 DEF Tended, ClaimMade
<1> QED BY <1>0, <1>1, <1>3, <1>4, <1>5, MoveStep

(* A token's emit has not run it before it is served. *)
LEMMA NotHeardYet ==
    ASSUME SubInv, NEW k \in Sessions, session[k].stage = "serve", NEW t, t = Listener(k)
    PROVE  t \in Tokens /\ k \notin Heard(t) /\ session[k].index \in 1..Len(session[k].listeners)
<1>1. session[k] \in Walk /\ Walks(k)
  BY DEF SubInv, Base
<1>2. session[k].index \in 1..Len(session[k].listeners) /\ session[k].listeners \in Seq(Tokens)
  BY <1>1 DEF Walks, Walk
<1>3. t \in Tokens /\ Tokens \subseteq Nat /\ t = session[k].listeners[session[k].index]
  BY <1>2, BusStateAssumption DEF Listener, Tokens
<1>4. ASSUME NEW i \in 1..Len(session[k].listeners), session[k].listeners[i] = t, i < session[k].index
      PROVE  FALSE
  <2>1. session[k].listeners[i] < session[k].listeners[session[k].index]
    BY <1>1, <1>2, <1>4 DEF Walks, Ascends
  <2> QED BY <1>3, <1>4, <2>1
<1>5. k \notin Heard(t)
  BY <1>4 DEF Heard
<1> QED BY <1>2, <1>3, <1>5

(* Serving a listener. *)
LEMMA ServeSub ==
    ASSUME IndInv, SubInv, NEW w \in Workers, NEW k \in Sessions, Serve(w, k)
    PROVE  SubInv'
<1> SUFFICES ASSUME NEW t, t = Listener(k) PROVE SubInv'
  OBVIOUS
<1>0. /\ Functions /\ Base /\ Tended(w) /\ step[w] = "idle" /\ session[k].stage = "serve"
      /\ session[k].at = w /\ runs \in [Tokens -> Nat] /\ session \in [Sessions -> Walk] /\ session[k] \in Walk
      /\ Recorded(hub, issued) /\ handlers = [v \in Workers |-> handlers[v]]
  BY DEF IndInv, SubInv, Serve, Base, Functions
<1>1. UNCHANGED <<scripts, hub, installed, copy, current, issued, interrupted>>
  BY DEF Serve
<1>2. t \in Tokens /\ k \notin Heard(t) /\ session[k].index \in 1..Len(session[k].listeners)
  BY <1>0, NotHeardYet
<1>2a. session[k].index <= Len(session[k].listeners)
  BY <1>0, <1>2 DEF Walk
<1>3. \A u \in Live(hub) : w \notin interrupted /\ hub.subs[u].worker = w => u \in handlers[w]
  BY <1>0 DEF Tended, Heeded, InHand
<1>4. ASSUME NEW v \in Workers, v # w PROVE Claiming(v) => op[v].sess # k
  <2>1. Tended(v)
    BY DEF SubInv
  <2> QED BY <1>0, <1>4, <2>1 DEF Tended, ClaimMade
<1>5. ASSUME UNCHANGED <<op, step>>, Skip(k),
             handlers' = handlers \/ (t \notin handlers[w] \cap Live(hub) /\ handlers' = [handlers EXCEPT ![w] = @ \ {t}])
      PROVE  SubInv'
  <2>1. Onward /\ \A j \in Sessions \ {k} : session'[j] = session[j]
    <3>1. session' = [session EXCEPT ![k].stage = "route", ![k].index = @ + 1]
      BY <1>5 DEF Skip
    <3> QED BY <1>2a, <3>1, SkipMoves
  <2>2. runs' = runs
    BY <1>5 DEF Skip
  <2>3. UNCHANGED <<hub, loopVars, issued, interrupted>>
    BY <1>1, <1>5 DEF loopVars
  <2>4. \A u \in Tokens : Counted(u)'
    BY <2>1, <2>2, <2>3, StillCounted
  <2>5. Tended(w)'
    <3>1. handlers'[w] \subseteq handlers[w] /\ \A u \in Live(hub) : u \in handlers[w] => u \in handlers'[w]
      BY <1>0, <1>5
    <3>2. Heeded(w)'
      BY <1>1, <1>3, <3>1 DEF Heeded
    <3>3. OwnHandlers(w)'
      BY <1>0, <1>1, <3>1 DEF Tended, OwnHandlers
    <3>4. ClaimMade(w)' /\ Aware(w)' /\ (step[w] = "idle" => op[w] = None)'
      BY <1>0, <1>5 DEF ClaimMade, Claiming, Aware, Tended
    <3> QED BY <3>2, <3>3, <3>4 DEF Tended
  <2>6. ASSUME NEW v \in Workers, v # w
        PROVE  /\ handlers'[v] = handlers[v]
               /\ Claiming(v) => op[v].sess # k /\ runs'[op[v].about] = runs[op[v].about]
    BY <1>0, <1>4, <1>5, <2>2, <2>6
  <2> QED BY <1>0, <1>1, <2>1, <2>2, <2>3, <2>4, <2>5, <2>6, MoveStep
<1>6. ASSUME t \in handlers[w] \cap Live(hub), handlers' = handlers, ~hub.subs[t].once, Enter(k, t),
             UNCHANGED <<op, step>>
      PROVE  SubInv'
  <2>0. issued[t] = hub.subs[t] /\ hub.subs[t] # None /\ issued[t].worker = w
    BY <1>0, <1>6 DEF Recorded, Live, Tended, OwnHandlers
  <2>1. /\ Onward /\ \A j \in Sessions \ {k} : session'[j] = session[j]
        /\ session'[k].stage = "running" /\ session'[k].index = session[k].index
        /\ session'[k].listeners = session[k].listeners
    <3>1. session' = [session EXCEPT ![k].stage = "running"]
      BY <1>6 DEF Enter
    <3>2. session' = [session EXCEPT ![k] = [session[k] EXCEPT !.stage = "running", !.at = w]]
      BY <1>0, <3>1 DEF Walk
    <3>3. "running" \in Stages
      BY DEF Stages
    <3> QED BY <1>0, <1>2a, <3>2, <3>3, StageMoves
  <2>2. runs' = [runs EXCEPT ![t] = @ + 1]
    BY <1>6 DEF Enter
  <2>3. runs' \in [Tokens -> Nat] /\ runs'[t] = runs[t] + 1 /\ \A u \in Tokens : u # t => runs'[u] = runs[u]
    BY <1>0, <1>2, <2>2
  <2>4. UNCHANGED <<hub, loopVars, issued, interrupted>>
    BY <1>1, <1>6 DEF loopVars
  <2>5. Counted(t)'
    <3>1. Heard(t) \subseteq Heard(t)' /\ IsFiniteSet(Heard(t)')
      BY <2>1, HeardGrows
    <3>2. k \in Heard(t)'
      BY <1>2, <2>1 DEF Heard, Listener
    <3>3. IsFiniteSet(Heard(t)) /\ Cardinality(Heard(t)) \in Nat
      BY HeardFinite, FS_CardinalityType
    <3>4. Cardinality(Heard(t) \cup {k}) = Cardinality(Heard(t)) + 1 /\ IsFiniteSet(Heard(t) \cup {k})
      BY <1>2, <3>3, FS_AddElement
    <3>5. Cardinality(Heard(t) \cup {k}) <= Cardinality(Heard(t)')
      <4>1. Heard(t) \cup {k} \subseteq Heard(t)'
        BY <3>1, <3>2
      <4> QED BY <3>1, <4>1, FS_Subset
    <3>6. Counted(t) /\ runs[t] \in Nat /\ Cardinality(Heard(t)') \in Nat
      BY <1>0, <1>2, <3>1, FS_CardinalityType DEF SubInv
    <3>7. runs'[t] <= Cardinality(Heard(t)')
      BY <2>3, <3>3, <3>4, <3>5, <3>6 DEF Counted
    <3>8. issued'[t] # None /\ ~issued'[t].once
      BY <1>1, <1>6, <2>0
    <3> QED BY <3>7, <3>8 DEF Counted
  <2>6. \A u \in Tokens : Counted(u)'
    <3>1. ASSUME NEW u \in Tokens, u # t PROVE Counted(u)'
      BY <2>1, <2>3, <2>4, <3>1, StillCounted
    <3> QED BY <2>5, <3>1
  <2>7. ASSUME NEW v \in Workers
        PROVE  /\ handlers'[v] = handlers[v]
               /\ Claiming(v) => op[v].sess # k /\ runs'[op[v].about] = runs[op[v].about]
    <3>0. Tended(v) /\ Local(v)
      BY DEF SubInv, IndInv
    <3>1. CASE v = w
      BY <1>0, <1>6, <3>1 DEF Claiming
    <3>2. CASE v # w
      <4>1. Claiming(v) => op[v].about \in Tokens /\ issued[op[v].about].worker = v
        BY <3>0 DEF Tended, ClaimMade, Claiming, Local, Busy, Ops, Plain, Entry, Registry!Operations, Registry!Tokens, Tokens
      <4>2. Claiming(v) => op[v].about # t
        BY <2>0, <3>2, <4>1
      <4> QED BY <1>4, <1>6, <2>3, <3>2, <4>1, <4>2
    <3> QED BY <3>1, <3>2
  <2> QED BY <1>1, <2>1, <2>3, <2>4, <2>6, <2>7, MoveStep
<1>7. ASSUME t \in handlers[w] \cap Live(hub), handlers' = handlers, hub.subs[t].once,
             op' = [op EXCEPT ![w] = [Op("claimOnce", t, Host) EXCEPT !.sess = k]],
             step' = [step EXCEPT ![w] = "read"], UNCHANGED <<session, runs>>
      PROVE  SubInv'
  <2>0. issued[t] = hub.subs[t] /\ hub.subs[t] # None /\ issued[t].worker = w
    BY <1>0, <1>7 DEF Recorded, Live, Tended, OwnHandlers
  <2> DEFINE q == [Op("claimOnce", t, Host) EXCEPT !.sess = k]
  <2>1. q.kind = "claimOnce" /\ q.about = t /\ q.sess = k
    BY DEF Op
  <2>2. op'[w] = q /\ step'[w] = "read" /\ \A v \in Workers \ {w} : op'[v] = op[v] /\ step'[v] = step[v]
    BY <1>0, <1>7 DEF Functions
  <2> HIDE DEF q
  <2>3. Tended(w)'
    <3>1. Heeded(w)'
      BY <1>1, <1>3, <1>7 DEF Heeded
    <3>2. OwnHandlers(w)'
      BY <1>0, <1>1, <1>7 DEF Tended, OwnHandlers
    <3>3. ClaimMade(w)'
      <4>1. (op[w])' = q /\ q.kind = "claimOnce" /\ q.about = t /\ q.sess = k /\ step'[w] = "read"
        BY <2>1, <2>2
      <4>2. issued'[t] # None /\ issued'[t].once /\ issued'[t].worker = w
        BY <1>1, <1>7, <2>0
      <4>3. session'[k].stage = "serve" /\ session'[k].at = w /\ Listener(k)' = t
        BY <1>0, <1>7 DEF Listener
      <4> QED BY <4>1, <4>2, <4>3 DEF ClaimMade
    <3>4. Aware(w)'
      BY <2>2 DEF Aware
    <3> QED BY <2>2, <3>1, <3>2, <3>3, <3>4 DEF Tended
  <2>4. \A u \in Tokens : ~Claimant(w, u)
    BY <1>0 DEF Claimant
  <2>5. installed' \subseteq Workers
    BY <1>0, <1>1 DEF Base
  <2> QED BY <1>1, <1>7, <2>2, <2>3, <2>4, <2>5, AloneStep
<1> QED BY <1>5, <1>6, <1>7 DEF Serve

(* Every step keeps it. *)
LEMMA NextSub == IndInv /\ SubInv /\ [Next]_vars => SubInv'
<1> SUFFICES ASSUME IndInv, SubInv, [Next]_vars PROVE SubInv'
  OBVIOUS
<1>1. ASSUME NEW w \in Workers,
             \/ Install(w) \/ Subscribe(w) \/ CancelToken(w) \/ Off(w) \/ CancelOwned(w)
             \/ Claim(w) \/ Declare(w)
      PROVE  SubInv'
  BY <1>1, CallSub
<1>2. ASSUME NEW w \in Workers, Attempt(w) PROVE SubInv'
  BY <1>2, AttemptSub
<1>3. ASSUME NEW w \in Workers, Write(w) PROVE SubInv'
  BY <1>3, CommitSub, RefusedSub
<1>4. ASSUME NEW w \in Workers, Finish(w) PROVE SubInv'
  BY <1>4, FinishSub
<1>5. ASSUME NEW w \in Workers, Interrupt(w) PROVE SubInv'
  BY <1>5, InterruptSub
<1>6. ASSUME NEW w \in Workers, NEW k \in Sessions, Serve(w, k) PROVE SubInv'
  BY <1>6, ServeSub
<1>7. ASSUME NEW k \in Sessions, Emit(k) \/ Route(k) \/ EndHandler(k) PROVE SubInv'
  BY <1>7, EmitSub
<1>8. CASE UNCHANGED vars
  <2>1. UNCHANGED <<scripts, hub, installed, op, step, copy, current, handlers, session, issued, runs, interrupted>>
    BY <1>8 DEF vars, loopVars, history
  <2>2. Onward
    BY <2>1, SameSession
  <2>3. Base'
    BY <2>1 DEF SubInv, Base, Indexed, Recorded, Listeners, Live
  <2>4. ASSUME NEW v \in Workers PROVE Tended(v)'
    <3>1. Tended(v)
      BY DEF SubInv
    <3> QED BY <2>1, <3>1, OtherRuntime
  <2>5. ASSUME NEW t \in Tokens PROVE Counted(t)'
    BY <2>1, <2>2, StillCounted DEF loopVars
  <2> QED BY <2>2, <2>3, <2>4, <2>5 DEF SubInv, Onward
<1> QED BY <1>1, <1>2, <1>3, <1>4, <1>5, <1>6, <1>7, <1>8 DEF Next

-----------------------------------------------------------------------------
(* A list that ascends is no longer than the tokens there are. *)
LEMMA AtMostMaxSubs ==
    ASSUME NEW q \in Seq(Tokens), Ascends(q)
    PROVE  Len(q) <= MaxSubs
<1>1. IsFiniteSet(Tokens) /\ Cardinality(Tokens) = MaxSubs
  BY BusStateAssumption, FS_Interval DEF Tokens
<1>2. Len(q) \in Nat /\ IsFiniteSet(1..Len(q)) /\ Cardinality(1..Len(q)) = Len(q)
  <2>1. Len(q) \in Nat /\ Len(q) \in Int /\ 1 \in Int
    OBVIOUS
  <2>2. IsFiniteSet(1..Len(q)) /\ Cardinality(1..Len(q)) = IF 1 > Len(q) THEN 0 ELSE Len(q) - 1 + 1
    BY <2>1, FS_Interval
  <2> QED BY <2>1, <2>2
<1>3. q \in [1..Len(q) -> Tokens] /\ Tokens \subseteq Nat
  BY BusStateAssumption DEF Tokens
<1>4. ASSUME NEW i \in 1..Len(q), NEW j \in 1..Len(q), q[i] = q[j] PROVE i = j
  <2>1. q[i] \in Nat /\ q[j] \in Nat
    BY <1>3
  <2>2. (i < j => q[i] < q[j]) /\ (j < i => q[j] < q[i])
    BY DEF Ascends
  <2>3. ~(i < j) /\ ~(j < i)
    BY <1>4, <2>1, <2>2
  <2> QED BY <2>3
<1>5. q \in Injection(1..Len(q), Tokens)
  BY <1>3, <1>4 DEF Injection, IsInjective
<1> QED BY <1>1, <1>2, <1>5, FS_Injection

(* Every subscription can be found and heard, on any number of runtimes: the
   lists off and subscribers() go by name the live subscriptions and nothing
   else, each once and oldest first, and a live subscription's runtime holds
   its handler whenever it is between operations, although detachIn deletes
   handlers before the write is known to succeed. *)
THEOREM SubscriptionsKept == Spec => []SubscriptionsHold
<1>1. IndInv /\ SubInv => SubscriptionsHold
  <2> SUFFICES ASSUME IndInv, SubInv PROVE SubscriptionsHold
    OBVIOUS
  <2>0. Base /\ Functions /\ Names /\ None \notin Operation
    BY EventBusAssumption DEF IndInv, SubInv
  <2>1. TypeOK
    <3>1. ASSUME NEW w \in Workers
          PROVE  /\ step[w] \in Steps /\ current[w] \in BOOLEAN /\ handlers[w] \in SUBSET Tokens
                 /\ op[w] \in Operation \cup {None} /\ (op[w] = None <=> step[w] = "idle")
                 /\ step[w] = "write" => copy[w] \in State
      <4>1. Local(w) /\ Tended(w)
        BY DEF IndInv, SubInv
      <4>2. step[w] # "idle" => op[w] \in Operation
        BY <4>1 DEF Local, Busy, Ops
      <4>3. current[w] \in BOOLEAN
        BY <4>1, Zenon DEF Local
      <4>4. step[w] \in Steps /\ handlers[w] \in SUBSET Tokens /\ (step[w] = "write" => copy[w] \in State)
        BY <4>1 DEF Local, Tended, OwnHandlers, Aware
      <4>5. op[w] = None <=> step[w] = "idle"
        BY <2>0, <4>1, <4>2 DEF Tended
      <4> QED BY <4>2, <4>3, <4>4, <4>5
    <3>2. /\ op \in [Workers -> Operation \cup {None}] /\ step \in [Workers -> Steps]
          /\ current \in [Workers -> BOOLEAN] /\ handlers \in [Workers -> SUBSET Tokens]
      <4>1. /\ op = [w \in Workers |-> op[w]] /\ step = [w \in Workers |-> step[w]]
            /\ current = [w \in Workers |-> current[w]] /\ handlers = [w \in Workers |-> handlers[w]]
        BY <2>0 DEF Functions
      <4>2. op \in [Workers -> Operation \cup {None}]
        BY <3>1, <4>1
      <4>3. step \in [Workers -> Steps]
        BY <3>1, <4>1
      <4>4. current \in [Workers -> BOOLEAN]
        BY <3>1, <4>1, Zenon
      <4>5. handlers \in [Workers -> SUBSET Tokens]
        BY <3>1, <4>1
      <4> QED BY <4>2, <4>3, <4>4, <4>5
    <3>3. ASSUME NEW k \in Sessions
          PROVE  session[k].stage \in Stages /\ session[k].index \in 1..(MaxSubs + 1)
      <4>1. session[k] \in Walk /\ Walks(k)
        BY <2>0 DEF Base, SubInv
      <4>2. Len(session[k].listeners) <= MaxSubs /\ Len(session[k].listeners) \in Nat
        BY <4>1, AtMostMaxSubs DEF Walk, Walks
      <4> QED BY <4>1, <4>2, BusStateAssumption DEF Walk, Walks
    <3>4. runs \in [Tokens -> 0..MaxEmits]
      <4>1. ASSUME NEW t \in Tokens PROVE runs[t] \in 0..MaxEmits
        <5>1. runs[t] \in Nat /\ runs[t] <= Cardinality(Heard(t))
          BY <2>0 DEF Base, SubInv, Counted
        <5> QED BY <5>1, HeardFinite, EventBusAssumption
      <4> QED BY <2>0, <4>1 DEF Base
    <3> QED BY <2>0, <3>1, <3>2, <3>3, <3>4 DEF TypeOK, Base, Names
  <2>2. IndexExact
    BY <2>0 DEF Base, Indexed, IndexExact, Ascends
  <2>3. NoDeafSubscription
    <3> SUFFICES ASSUME NEW t \in Live(hub), NEW w, w = hub.subs[t].worker, op[w] = None, w \notin interrupted
                 PROVE  t \in handlers[w]
      BY DEF NoDeafSubscription
    <3>1. hub.subs[t] \in Sub /\ w \in Workers
      BY <2>0 DEF Base, State, Live, Sub
    <3>2. Tended(w) /\ step[w] = "idle"
      BY <2>1, <3>1 DEF SubInv, TypeOK
    <3> QED BY <3>2 DEF Tended, Heeded, InHand
  <2> QED BY <2>1, <2>2, <2>3 DEF SubscriptionsHold
<1> QED BY InitInv, NextInv, InitSub, NextSub, <1>1, PTL DEF Spec

(* A once-handler runs at most once, only for a claim, however many emits on
   however many runtimes race for it; and what cancel() calls spent has run, is
   about to, or was separated from its call by an interrupt. *)
THEOREM OnceKept == Spec => []OnceHolds
<1>1. IndInv /\ SubInv => OnceHolds
  <2> SUFFICES ASSUME IndInv, SubInv PROVE OnceHolds
    OBVIOUS
  <2>0. Base /\ None \notin Operation
    BY EventBusAssumption DEF SubInv
  <2>1. OnceAtMostOnce
    <3> SUFFICES ASSUME NEW t \in Tokens, issued[t] # None, issued[t].once
                 PROVE  runs[t] <= 1 /\ (runs[t] = 1 => t \in hub.spent)
      BY DEF OnceAtMostOnce
    <3>1. Counted(t)
      BY DEF SubInv
    <3> QED BY <3>1 DEF Counted
  <2>2. SpentMeansRan
    <3> SUFFICES ASSUME NEW t \in hub.spent
                 PROVE  \/ runs[t] = 1
                        \/ \E w \in Workers : op[w] # None /\ op[w].kind = "claimOnce" /\ op[w].about = t
                        \/ issued[t].worker \in interrupted
      BY DEF SpentMeansRan
    <3>1. t \in Tokens /\ issued[t] # None /\ issued[t].once
      BY <2>0 DEF Base, State, Recorded
    <3>2. Counted(t)
      BY <3>1 DEF SubInv
    <3>3. ASSUME NEW w \in Workers, Claiming(w) PROVE op[w] # None /\ op[w].kind = "claimOnce"
      <4>1. op[w] \in Operation
        BY <3>3 DEF Claiming, IndInv, Local, Busy, Ops
      <4> QED BY <2>0, <3>3, <4>1 DEF Claiming
    <3> QED BY <3>1, <3>2, <3>3 DEF Counted
  <2> QED BY <2>1, <2>2 DEF OnceHolds
<1> QED BY InitInv, NextInv, InitSub, NextSub, <1>1, PTL DEF Spec
=============================================================================
