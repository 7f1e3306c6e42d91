---------------------------- MODULE SandboxProofs ----------------------------
(***************************************************************************)
(* The sandbox's bookkeeping, for any mods, calls, budgets and nesting:    *)
(* however activations nest and however each one ends, the lanes of caller *)
(* frames, the interrupt frames and the counters are back where they were  *)
(* when nothing runs.                                                      *)
(*                                                                         *)
(* The invariant says of every activation on the stack what its end will   *)
(* find: the lane it restores is the one its neighbour below runs in, that *)
(* lane holds at least what it held at its start, and the frames and the   *)
(* counters are those of the activations that are still there.             *)
(*                                                                         *)
(* Who a script is credited to rests on a second invariant, Credit: what   *)
(* every script on the stack will find on top of the caller stack when it  *)
(* runs again, which frame each suspended call's lane keeps for it, and    *)
(* for whom each awaited binding will resume.                              *)
(***************************************************************************)
EXTENDS Sandbox, FiniteSetTheorems, SequenceTheorems, NaturalsInduction, WellFoundedInduction, TLAPS

-----------------------------------------------------------------------------
(* The shape of a stack. *)

IsScript(a) == a.k = "script"
(* The entries that run in a lane other than the one they were started from. *)
Switching == {"invokeAsync", "module", "drain"}
(* Entries whose effect on the lane is known: a frame of their own, or none. *)
Exact == {"invoke", "strict", "fire", "emit", "callback", "late", "between"}
(* Entries that raise no counter. *)
Uncounted == {"emit", "drain", "fire"}
Pushed(a) == IF a.via \in {"invoke", "strict", "fire", "emit"} \/ a.ran THEN 1 ELSE 0

(* Script and host alternate: a binding is called by a script, a handler is called by the script
   that emits, and everything else is called by a host, a callback by a binding. *)
Alternates(stk) ==
    \A i \in 1..Len(stk) :
        /\ ~ IsScript(stk[i]) => i > 1 /\ IsScript(stk[i - 1])
        /\ IsScript(stk[i]) /\ stk[i].via = "emit" => i > 1 /\ IsScript(stk[i - 1])
        /\ IsScript(stk[i]) /\ stk[i].via # "emit" /\ i > 1 => ~ IsScript(stk[i - 1])
        /\ IsScript(stk[i]) /\ stk[i].via = "callback" => i > 1
        /\ IsScript(stk[i]) /\ stk[i].via \in Uncounted => stk[i].sync = 0 /\ stk[i].cb = 0

(* Two scripts with at most a host between them, and the script that runs or called the binding
   that does. *)
Follows(stk, i, j) ==
    /\ i \in 1..Len(stk) /\ j \in 1..Len(stk) /\ IsScript(stk[i]) /\ IsScript(stk[j])
    /\ j = i + 1 \/ (j = i + 2 /\ ~ IsScript(stk[i + 1]))
Topmost(stk, i) ==
    /\ i \in 1..Len(stk) /\ IsScript(stk[i])
    /\ i = Len(stk) \/ (i = Len(stk) - 1 /\ ~ IsScript(stk[Len(stk)]))

-----------------------------------------------------------------------------
(* The lanes. *)

(* Each script gives back the lane the one below it runs in, the last one the root. *)
Returns(stk, act) ==
    /\ IF stk = <<>> THEN act = Root ELSE stk[1].prev = Root
    /\ \A i, j \in 1..Len(stk) : Follows(stk, i, j) /\ stk[i].via \notin Switching => stk[j].prev = stk[i].prev
    /\ \A i \in 1..Len(stk) : Topmost(stk, i) /\ stk[i].via \notin Switching => act = stk[i].prev

(* A lane holds at least what it held when each script was started from it, and the script's frame. *)
Holds(stk, lns) ==
    /\ \A i \in 1..Len(stk) : IsScript(stk[i]) => Len(lns[stk[i].prev]) >= stk[i].base + Pushed(stk[i])
    /\ \A i, j \in 1..Len(stk) :
          i < j /\ IsScript(stk[i]) /\ IsScript(stk[j]) /\ stk[i].prev = stk[j].prev => stk[j].base >= stk[i].base + Pushed(stk[i])

(* The first n frames of lane l are as their entries left them: the lowest stray lies above. *)
Intact(mk, l, n) == mk[l] = 0 \/ n < mk[l]

(* Where no stray frame lies it holds no more, and nothing once nothing runs. *)
Fits(stk, lns, mk) ==
    /\ IF stk = <<>> THEN Intact(mk, Root, Len(lns[Root])) => lns[Root] = <<>>
       ELSE Intact(mk, Root, stk[1].base) => stk[1].base = 0
    /\ \A i, j \in 1..Len(stk) :
          Follows(stk, i, j) /\ stk[i].via \in Exact /\ Intact(mk, stk[j].prev, stk[j].base)
          => stk[j].base = stk[i].base + Pushed(stk[i])
    /\ \A i \in 1..Len(stk) :
          Topmost(stk, i) /\ stk[i].via \in Exact /\ Intact(mk, stk[i].prev, Len(lns[stk[i].prev]))
          => Len(lns[stk[i].prev]) = stk[i].base + Pushed(stk[i])

-----------------------------------------------------------------------------
(* The counters, the interrupt frames and the calls. *)

SyncAt(stk) == {i \in 1..Len(stk) : IsScript(stk[i]) /\ stk[i].sync = 1}
CbAt(stk) == {i \in 1..Len(stk) : IsScript(stk[i]) /\ stk[i].cb = 1}
Counted(stk, sync, cb) == sync = Cardinality(SyncAt(stk)) /\ cb = Cardinality(CbAt(stk))

(* Every interrupt frame is one an entry will pop, or one of a call that waits. *)
Framed(stk, frs, waiting) ==
    \A f \in frs : \/ f.lvl = 0 /\ f.call \in waiting
                   \/ f.lvl \in 1..Len(stk) /\ IsScript(stk[f.lvl]) /\ stk[f.lvl].via # "emit"

(* The calls that were started: what runs names no other, and no other call's lane. *)
Busy == {c \in Calls : st[c] # "idle"}
Waits == {c \in Calls : Waiting(c)}
Named(stk, act, busy) ==
    /\ act \in busy \cup {Root}
    /\ \A i \in 1..Len(stk) :
          /\ stk[i].call \in busy \cup {None}
          /\ IsScript(stk[i]) => stk[i].prev \in busy \cup {Root} /\ stk[i].reg \subseteq busy
          /\ IsScript(stk[i]) /\ stk[i].via \in {"executeAsync", "invokeAsync", "module"} => stk[i].call \in busy

-----------------------------------------------------------------------------
(* The inductive invariant: what runs, and what waits. *)

Frame == [lvl : 0..MaxDepth, call : Calls \cup {None}, deadline : Nat]
Sound(stk, frs, lns, act, m, n, mk, busy, waiting) ==
    /\ stk \in Seq(Activation) /\ Len(stk) <= MaxDepth
    /\ frs \subseteq Frame /\ lns \in [Lanes -> Seq(Owner)] /\ act \in Lanes
    /\ Alternates(stk) /\ Returns(stk, act) /\ Holds(stk, lns)
    /\ mk \in [Lanes -> Nat] /\ Fits(stk, lns, mk)
    /\ Counted(stk, m, n) /\ Framed(stk, frs, waiting) /\ Named(stk, act, busy)

QueuedJob == [call : Calls \cup {None}, own : Owner]
Queue(q, busy) == q \in Seq(QueuedJob) /\ \A i \in 1..Len(q) : q[i].call \in busy \cup {None}
Work == [id : Nat, call : Calls \cup {None}, lane : Lanes, own : Owner, fatal : BOOLEAN]
Pends(ps, busy) == IsFiniteSet(ps) /\ ps \subseteq Work /\ \A p \in ps : p.call \in busy \cup {None} /\ p.lane \in busy \cup {Root}
Rest ==
    /\ now \in 0..MaxTime /\ ops \in 0..MaxOps
    /\ Queue(jobs, Busy) /\ Pends(pend, Busy)
    /\ st \in [Calls -> Status] /\ todo \cup stalls \cup failing \cup answered \subseteq Busy
    /\ held \subseteq [fn : Owner, owner : Owner]
    /\ {cancelled, faulted, disposed} \subseteq BOOLEAN /\ seen \subseteq {"left", "lent", "misheld"}

IInv == Sound(stack, frames, lanes, active, syncDepth, cbDepth, stray, Busy, Waits) /\ Rest

-----------------------------------------------------------------------------
(* Stacks, as sequences. *)

(* An activation is a script's or a host's, and which it is says what fields it has. *)
LEMMA Kinds ==
    ASSUME NEW a \in Activation
    PROVE  /\ IsScript(a) => a \in ScriptActivation /\ a.via \in Entries /\ a.prev \in Lanes /\ a.base \in Nat /\ a.ran \in BOOLEAN
                             /\ a.sync \in {0, 1} /\ a.cb \in {0, 1} /\ a.call \in Calls \cup {None} /\ a.own \in Owner
                             /\ a.reg \in SUBSET Calls /\ a.rest \in Seq(Mods) /\ a.pid \in Nat
           /\ ~ IsScript(a) => a \in HostActivation /\ a.call \in Calls \cup {None} /\ a.own \in Owner
                               /\ a.async \in BOOLEAN /\ a.fatal \in BOOLEAN
BY DEF Activation, ScriptActivation, HostActivation, IsScript

LEMMA PushedType == \A a : Pushed(a) \in Nat
BY DEF Pushed

(* The activations below a level. *)
LEMMA Beneath ==
    ASSUME NEW stk \in Seq(Activation), NEW b \in 1..Len(stk)
    PROVE  /\ SubSeq(stk, 1, b - 1) \in Seq(Activation) /\ Len(SubSeq(stk, 1, b - 1)) = b - 1
           /\ \A i \in 1..(b - 1) : SubSeq(stk, 1, b - 1)[i] = stk[i]
           /\ SubSeq(stk, 1, b - 1) = <<>> <=> b = 1
OBVIOUS

LEMMA OneMore ==
    ASSUME NEW stk \in Seq(Activation), NEW a \in Activation
    PROVE  /\ Append(stk, a) \in Seq(Activation) /\ Len(Append(stk, a)) = Len(stk) + 1 /\ Append(stk, a) # <<>>
           /\ \A i \in 1..Len(stk) : Append(stk, a)[i] = stk[i]
           /\ Append(stk, a)[Len(stk) + 1] = a
OBVIOUS

(* Two stacks the bookkeeping does not tell apart. *)
Alike(s, t) ==
    /\ Len(s) = Len(t)
    /\ \A i \in 1..Len(s) :
          /\ s[i].k = t[i].k
          /\ IsScript(s[i]) => /\ s[i].via = t[i].via /\ s[i].prev = t[i].prev /\ s[i].base = t[i].base
                               /\ s[i].ran = t[i].ran /\ s[i].sync = t[i].sync /\ s[i].cb = t[i].cb
LEMMA AlikeKeeps ==
    ASSUME NEW s \in Seq(Activation), NEW t \in Seq(Activation), Alike(s, t), Alternates(s)
    PROVE  /\ Alternates(t)
           /\ \A act : Returns(s, act) => Returns(t, act)
           /\ \A lns : Holds(s, lns) => Holds(t, lns)
           /\ \A lns, mk : Fits(s, lns, mk) => Fits(t, lns, mk)
           /\ \A m, n : Counted(s, m, n) => Counted(t, m, n)
           /\ \A frs, waiting : Framed(s, frs, waiting) => Framed(t, frs, waiting)
<1>0. s = <<>> <=> t = <<>>
  BY DEF Alike
<1>1. /\ Len(s) = Len(t)
      /\ \A i \in 1..Len(s) : IsScript(s[i]) <=> IsScript(t[i])
      /\ \A i \in 1..Len(s) : IsScript(s[i]) => /\ s[i].via = t[i].via /\ s[i].prev = t[i].prev /\ s[i].base = t[i].base
                                                /\ s[i].ran = t[i].ran /\ s[i].sync = t[i].sync /\ s[i].cb = t[i].cb
                                                /\ Pushed(s[i]) = Pushed(t[i])
  BY DEF Alike, IsScript, Pushed
<1>2. s # <<>> => IsScript(s[1])
  BY DEF Alternates
<1>3. Alternates(t)
  BY <1>1, SMTT(30) DEF Alternates
<1>4. \A i, j : Follows(s, i, j) <=> Follows(t, i, j)
  BY <1>1 DEF Follows
<1>5. \A i : Topmost(s, i) <=> Topmost(t, i)
  BY <1>1 DEF Topmost
<1>6. ASSUME NEW act, Returns(s, act) PROVE Returns(t, act)
  BY <1>0, <1>1, <1>2, <1>4, <1>5, <1>6, SMTT(30) DEF Returns, Follows, Topmost
<1>7. ASSUME NEW lns, Holds(s, lns) PROVE Holds(t, lns)
  BY <1>1, <1>7 DEF Holds
<1>8. ASSUME NEW lns, NEW mk, Fits(s, lns, mk) PROVE Fits(t, lns, mk)
  <2>1. IF t = <<>> THEN Intact(mk, Root, Len(lns[Root])) => lns[Root] = <<>> ELSE Intact(mk, Root, t[1].base) => t[1].base = 0
    <3>1. s # <<>> => 1 \in 1..Len(s)
      OBVIOUS
    <3> QED
      BY <1>0, <1>1, <1>2, <1>8, <3>1 DEF Fits
  <2>2. \A i, j \in 1..Len(t) : Follows(t, i, j) /\ t[i].via \in Exact /\ Intact(mk, t[j].prev, t[j].base)
                               => t[j].base = t[i].base + Pushed(t[i])
    <3> SUFFICES ASSUME NEW i \in 1..Len(t), NEW j \in 1..Len(t), Follows(t, i, j), t[i].via \in Exact, Intact(mk, t[j].prev, t[j].base)
                 PROVE  t[j].base = t[i].base + Pushed(t[i])
      OBVIOUS
    <3>1. Follows(s, i, j) /\ i \in 1..Len(s) /\ j \in 1..Len(s) /\ IsScript(s[i]) /\ IsScript(s[j])
      BY <1>1, <1>4 DEF Follows
    <3> QED
      BY <1>1, <1>8, <3>1 DEF Fits
  <2>3. \A i \in 1..Len(t) : Topmost(t, i) /\ t[i].via \in Exact /\ Intact(mk, t[i].prev, Len(lns[t[i].prev]))
                            => Len(lns[t[i].prev]) = t[i].base + Pushed(t[i])
    <3> SUFFICES ASSUME NEW i \in 1..Len(t), Topmost(t, i), t[i].via \in Exact, Intact(mk, t[i].prev, Len(lns[t[i].prev]))
                 PROVE  Len(lns[t[i].prev]) = t[i].base + Pushed(t[i])
      OBVIOUS
    <3>1. Topmost(s, i) /\ i \in 1..Len(s) /\ IsScript(s[i])
      BY <1>1, <1>5 DEF Topmost
    <3> QED
      BY <1>1, <1>8, <3>1 DEF Fits
  <2> QED
    BY <2>1, <2>2, <2>3 DEF Fits
<1>9. SyncAt(s) = SyncAt(t) /\ CbAt(s) = CbAt(t)
  BY <1>1 DEF SyncAt, CbAt
<1>10. ASSUME NEW frs, NEW waiting, Framed(s, frs, waiting) PROVE Framed(t, frs, waiting)
  BY <1>1, <1>10 DEF Framed
<1> QED
  BY <1>3, <1>6, <1>7, <1>8, <1>9, <1>10 DEF Counted

(* What a mark left by the end of an entry over base frames says of the frames below and of what is left. *)
Leaves(mk, mk2, l, len, base) ==
    /\ Intact(mk2, l, len) => len = base /\ Intact(mk, l, base)
    /\ \A n \in Nat : n <= base => (Intact(mk2, l, n) <=> Intact(mk, l, n))
    /\ \A x \in Lanes \ {l} : mk2[x] = mk[x]
LEMMA MarkLeft ==
    ASSUME NEW mk \in [Lanes -> Nat], NEW l \in Lanes, NEW lns \in [Lanes -> Seq(Owner)], NEW base \in Nat, Len(lns[l]) >= base
    PROVE  Marked(mk, lns, l, base) \in [Lanes -> Nat] /\ Leaves(mk, Marked(mk, lns, l, base), l, Len(lns[l]), base)
<1> DEFINE mk2 == Marked(mk, lns, l, base)
<1>0. Len(lns[l]) \in Nat /\ mk[l] \in Nat
  OBVIOUS
<1>1. /\ mk2[l] = IF Len(lns[l]) > base THEN IF mk[l] \in 1..base THEN mk[l] ELSE base + 1 ELSE IF mk[l] > base THEN 0 ELSE mk[l]
      /\ \A x \in Lanes \ {l} : mk2[x] = mk[x]
  BY DEF Marked
<1>2. mk2 \in [Lanes -> Nat]
  BY <1>0 DEF Marked
<1> HIDE DEF mk2
<1>3. Intact(mk2, l, Len(lns[l])) => Len(lns[l]) = base /\ Intact(mk, l, base)
  BY <1>0, <1>1 DEF Intact
<1>4. \A n \in Nat : n <= base => (Intact(mk2, l, n) <=> Intact(mk, l, n))
  BY <1>0, <1>1 DEF Intact
<1> QED
  BY <1>1, <1>2, <1>3, <1>4 DEF mk2, Leaves

-----------------------------------------------------------------------------
(* A script ends: what is below it stays sound, if the lane it came from is given back. *)

LEMMA Ended ==
    ASSUME NEW stk \in Seq(Activation), NEW lns \in [Lanes -> Seq(Owner)], NEW act \in Lanes,
           Alternates(stk), Returns(stk, act), Holds(stk, lns),
           NEW b \in 1..Len(stk), IsScript(stk[b]),
           NEW lns2 \in [Lanes -> Seq(Owner)], \A x \in Lanes \ {stk[b].prev} : lns2[x] = lns[x],
           Len(lns2[stk[b].prev]) >= stk[b].base, NEW mk \in [Lanes -> Nat]
    PROVE  LET below == SubSeq(stk, 1, b - 1) IN
           /\ Alternates(below) /\ Returns(below, stk[b].prev) /\ Holds(below, lns2)
           /\ Fits(stk, lns, mk) => Fits(below, lns2, Marked(mk, lns2, stk[b].prev, stk[b].base))
<1> DEFINE below == SubSeq(stk, 1, b - 1)
<1>1. /\ below \in Seq(Activation) /\ Len(below) = b - 1 /\ (below = <<>> <=> b = 1)
      /\ \A i \in 1..(b - 1) : below[i] = stk[i]
  BY Beneath
<1>2. \A i \in 1..Len(stk) : IsScript(stk[i]) => stk[i].prev \in Lanes /\ stk[i].base \in Nat
  BY Kinds
<1>3. \A i \in 1..Len(stk) : Pushed(stk[i]) \in Nat
  BY PushedType
<1> HIDE DEF below
<1>b. \A i \in 1..Len(below) : i \in 1..Len(stk) /\ i < b /\ below[i] = stk[i]
  BY <1>1
<1>4. Alternates(below)
  <2> SUFFICES ASSUME NEW i \in 1..Len(below)
               PROVE  /\ ~ IsScript(below[i]) => i > 1 /\ IsScript(below[i - 1])
                      /\ IsScript(below[i]) /\ below[i].via = "emit" => i > 1 /\ IsScript(below[i - 1])
                      /\ IsScript(below[i]) /\ below[i].via # "emit" /\ i > 1 => ~ IsScript(below[i - 1])
                      /\ IsScript(below[i]) /\ below[i].via = "callback" => i > 1
                      /\ IsScript(below[i]) /\ below[i].via \in Uncounted => below[i].sync = 0 /\ below[i].cb = 0
    BY DEF Alternates
  <2>1. below[i] = stk[i] /\ i \in 1..Len(stk) /\ (i > 1 => below[i - 1] = stk[i - 1])
    BY <1>1
  <2> QED
    BY <2>1 DEF Alternates
<1>5. \A i, j : Follows(below, i, j) => Follows(stk, i, j)
  BY <1>1 DEF Follows
<1>6. \A i : Topmost(below, i) => Follows(stk, i, b)
  <2> SUFFICES ASSUME NEW i, Topmost(below, i) PROVE Follows(stk, i, b)
    OBVIOUS
  <2>1. i \in 1..Len(below) /\ IsScript(below[i]) /\ (i = Len(below) \/ (i = Len(below) - 1 /\ ~ IsScript(below[Len(below)])))
    BY DEF Topmost
  <2>2. i \in 1..Len(stk) /\ below[i] = stk[i] /\ (i = Len(below) - 1 => below[Len(below)] = stk[i + 1])
    BY <1>1, <1>b, <2>1
  <2> QED
    BY <1>1, <2>1, <2>2 DEF Follows
<1>7. Returns(below, stk[b].prev)
  <2>1. IF below = <<>> THEN stk[b].prev = Root ELSE below[1].prev = Root
    BY <1>1 DEF Returns
  <2>2. \A i, j \in 1..Len(below) : Follows(below, i, j) /\ below[i].via \notin Switching => below[j].prev = below[i].prev
    <3> SUFFICES ASSUME NEW i \in 1..Len(below), NEW j \in 1..Len(below), Follows(below, i, j), below[i].via \notin Switching
                 PROVE  below[j].prev = below[i].prev
      OBVIOUS
    <3>1. Follows(stk, i, j) /\ i \in 1..Len(stk) /\ j \in 1..Len(stk) /\ below[i] = stk[i] /\ below[j] = stk[j]
      BY <1>b, <1>5
    <3> QED
      BY <3>1 DEF Returns
  <2>3. \A i \in 1..Len(below) : Topmost(below, i) /\ below[i].via \notin Switching => stk[b].prev = below[i].prev
    BY <1>b, <1>6 DEF Returns
  <2> QED
    BY <2>1, <2>2, <2>3 DEF Returns
<1>8. Holds(below, lns2)
  <2>1. ASSUME NEW i \in 1..Len(below), IsScript(below[i])
        PROVE  Len(lns2[below[i].prev]) >= below[i].base + Pushed(below[i])
    <3>1. below[i] = stk[i] /\ i \in 1..Len(stk) /\ i < b /\ IsScript(stk[i])
      BY <1>1, <2>1
    <3>2. Len(lns[stk[i].prev]) >= stk[i].base + Pushed(stk[i])
      BY <3>1 DEF Holds
    <3>3. stk[i].prev = stk[b].prev => stk[b].base >= stk[i].base + Pushed(stk[i])
      BY <3>1 DEF Holds
    <3>4. Len(lns2[stk[b].prev]) \in Nat /\ stk[b].base \in Nat /\ stk[i].base \in Nat /\ Pushed(stk[i]) \in Nat /\ stk[i].prev \in Lanes
      <4>1. stk[b].prev \in Lanes /\ stk[b].base \in Nat /\ stk[i].base \in Nat /\ stk[i].prev \in Lanes
        BY <1>2, <3>1
      <4>2. lns2[stk[b].prev] \in Seq(Owner)
        BY <4>1
      <4>3. Pushed(stk[i]) \in Nat
        BY PushedType
      <4> QED
        BY <4>1, <4>2, <4>3
    <3>5. CASE stk[i].prev = stk[b].prev
      BY <3>1, <3>3, <3>4, <3>5, SMTT(30)
    <3>6. CASE stk[i].prev # stk[b].prev
      BY <3>1, <3>2, <3>4, <3>6
    <3> QED
      BY <3>5, <3>6
  <2>2. \A i, j \in 1..Len(below) : i < j /\ IsScript(below[i]) /\ IsScript(below[j]) /\ below[i].prev = below[j].prev
                                    => below[j].base >= below[i].base + Pushed(below[i])
    BY <1>b DEF Holds
  <2> QED
    BY <2>1, <2>2 DEF Holds
<1>9. ASSUME Fits(stk, lns, mk)
      PROVE  Fits(below, lns2, Marked(mk, lns2, stk[b].prev, stk[b].base))
  <2> DEFINE mk2 == Marked(mk, lns2, stk[b].prev, stk[b].base)
  <2>a. /\ stk[b].prev \in Lanes /\ stk[b].base \in Nat
        /\ Intact(mk2, stk[b].prev, Len(lns2[stk[b].prev])) => Len(lns2[stk[b].prev]) = stk[b].base /\ Intact(mk, stk[b].prev, stk[b].base)
        /\ \A n \in Nat : n <= stk[b].base => (Intact(mk2, stk[b].prev, n) <=> Intact(mk, stk[b].prev, n))
        /\ \A x \in Lanes \ {stk[b].prev} : mk2[x] = mk[x]
    <3>1. stk[b].prev \in Lanes /\ stk[b].base \in Nat
      BY <1>2
    <3>2. Leaves(mk, mk2, stk[b].prev, Len(lns2[stk[b].prev]), stk[b].base)
      BY <3>1, MarkLeft
    <3> HIDE DEF mk2
    <3> QED
      BY <3>1, <3>2 DEF Leaves
  <2> HIDE DEF mk2
  <2>b. ASSUME NEW j \in 1..Len(below), IsScript(below[j]), Intact(mk2, below[j].prev, below[j].base)
        PROVE  Intact(mk, below[j].prev, below[j].base)
    <3>1. below[j] = stk[j] /\ j \in 1..Len(stk) /\ j < b
      BY <1>b
    <3>2. stk[j].prev \in Lanes /\ stk[j].base \in Nat /\ Pushed(stk[j]) \in Nat
      BY <1>2, <1>3, <2>b, <3>1
    <3>3. CASE stk[j].prev = stk[b].prev
      <4>1. stk[b].base >= stk[j].base + Pushed(stk[j])
        BY <2>b, <3>1, <3>3 DEF Holds
      <4>2. stk[j].base <= stk[b].base
        <5>1. stk[b].base \in Nat
          BY <2>a
        <5> QED
          BY <3>2, <4>1, <5>1, SMTT(20)
      <4> QED
        BY <2>a, <2>b, <3>1, <3>2, <3>3, <4>2
    <3>4. CASE stk[j].prev # stk[b].prev
      BY <2>a, <2>b, <3>1, <3>2, <3>4 DEF Intact
    <3> QED
      BY <3>3, <3>4
  <2>1. IF below = <<>> THEN Intact(mk2, Root, Len(lns2[Root])) => lns2[Root] = <<>>
        ELSE Intact(mk2, Root, below[1].base) => below[1].base = 0
    <3>1. CASE below = <<>>
      <4>1. b = 1 /\ stk[b].prev = Root /\ (Intact(mk, Root, stk[b].base) => stk[b].base = 0)
        BY <1>1, <1>9, <3>1 DEF Fits, Returns
      <4>2. ASSUME Intact(mk2, Root, Len(lns2[Root])) PROVE lns2[Root] = <<>>
        <5>1. lns2[Root] \in Seq(Owner) /\ Len(lns2[Root]) = 0
          BY <2>a, <4>1, <4>2 DEF Lanes
        <5> QED
          BY <5>1
      <4> QED
        BY <3>1, <4>2
    <3>2. CASE below # <<>>
      <4>1. 1 \in 1..Len(below) /\ stk # <<>> /\ stk[1].prev = Root /\ IsScript(below[1])
        BY <1>1, <1>4, <3>2 DEF Returns, Alternates
      <4>2. below[1].prev = Root /\ below[1].base = stk[1].base
        BY <1>b, <4>1
      <4>3. Intact(mk2, Root, below[1].base) => Intact(mk, Root, below[1].base)
        BY <2>b, <4>1, <4>2
      <4> QED
        BY <1>9, <3>2, <4>1, <4>2, <4>3 DEF Fits
    <3> QED
      BY <3>1, <3>2
  <2>2. ASSUME NEW i \in 1..Len(below), NEW j \in 1..Len(below), Follows(below, i, j), below[i].via \in Exact,
               Intact(mk2, below[j].prev, below[j].base)
        PROVE  below[j].base = below[i].base + Pushed(below[i])
    <3>1. IsScript(below[j]) /\ Follows(stk, i, j) /\ i \in 1..Len(stk) /\ j \in 1..Len(stk) /\ below[i] = stk[i] /\ below[j] = stk[j]
      BY <1>b, <1>5, <2>2 DEF Follows
    <3>2. Intact(mk, below[j].prev, below[j].base)
      BY <2>2, <2>b, <3>1
    <3> QED
      BY <1>9, <2>2, <3>1, <3>2 DEF Fits
  <2>3. ASSUME NEW i \in 1..Len(below), Topmost(below, i), below[i].via \in Exact, Intact(mk2, below[i].prev, Len(lns2[below[i].prev]))
        PROVE  Len(lns2[below[i].prev]) = below[i].base + Pushed(below[i])
    <3>1. Follows(stk, i, b) /\ below[i] = stk[i] /\ i \in 1..Len(stk) /\ stk[i].via \notin Switching
      <4>1. Follows(stk, i, b)
        BY <1>6, <2>3
      <4>2. below[i] = stk[i] /\ i \in 1..Len(stk)
        BY <1>b
      <4>3. stk[i].via \notin Switching
        BY <2>3, <4>2 DEF Exact, Switching
      <4> QED
        BY <4>1, <4>2, <4>3
    <3>2. stk[b].prev = stk[i].prev
      BY <3>1 DEF Returns
    <3>3. Len(lns2[stk[b].prev]) = stk[b].base /\ Intact(mk, stk[b].prev, stk[b].base)
      BY <2>3, <2>a, <3>1, <3>2
    <3>4. stk[b].base = stk[i].base + Pushed(stk[i])
      BY <1>9, <2>3, <3>1, <3>3 DEF Fits
    <3> QED
      BY <3>1, <3>2, <3>3, <3>4
  <2> QED
    BY <2>1, <2>2, <2>3 DEF Fits, mk2
<1> QED
  BY <1>4, <1>7, <1>8, <1>9 DEF below

-----------------------------------------------------------------------------
(* A script starts: on what was below, from the lane in force. *)

LEMMA Started ==
    ASSUME NEW stk \in Seq(Activation), NEW lns \in [Lanes -> Seq(Owner)], NEW act \in Lanes,
           Alternates(stk), Returns(stk, act), Holds(stk, lns),
           NEW a \in ScriptActivation, a.prev = act, a.base = Len(lns[act]),
           a.via = "emit" => stk # <<>> /\ IsScript(stk[Len(stk)]),
           a.via \in Uncounted => a.sync = 0 /\ a.cb = 0,
           a.via # "emit" /\ stk # <<>> => ~ IsScript(stk[Len(stk)]),
           a.via = "callback" => stk # <<>>,
           NEW lns2 \in [Lanes -> Seq(Owner)], Len(lns2[act]) >= Len(lns[act]) + Pushed(a),
           \A i \in 1..Len(stk) : IsScript(stk[i]) => Len(lns2[stk[i].prev]) >= Len(lns[stk[i].prev]),
           NEW act2 \in Lanes, a.via \notin Switching => act2 = act, NEW mk \in [Lanes -> Nat]
    PROVE  LET new == Append(stk, a) IN
           /\ Alternates(new) /\ Returns(new, act2) /\ Holds(new, lns2)
           /\ Fits(stk, lns, mk) /\ (a.via \in Exact => Len(lns2[act]) = Len(lns[act]) + Pushed(a)) => Fits(new, lns2, mk)
<1> DEFINE new == Append(stk, a)
           n == Len(stk) + 1
<1>0. a \in Activation /\ IsScript(a) /\ n \in Nat /\ Len(stk) \in Nat
  BY DEF Activation, ScriptActivation, IsScript
<1>1. /\ new \in Seq(Activation) /\ Len(new) = n /\ new # <<>> /\ new[n] = a
      /\ \A i \in 1..Len(stk) : new[i] = stk[i]
  BY <1>0, OneMore
<1>2. \A i \in 1..Len(stk) : IsScript(stk[i]) => stk[i].prev \in Lanes /\ stk[i].base \in Nat
  BY Kinds
<1>3. \A i \in 1..Len(new) : i = n \/ (i \in 1..Len(stk) /\ i < n /\ new[i] = stk[i])
  BY <1>1
<1>4. stk = <<>> <=> Len(stk) = 0
  OBVIOUS
<1> HIDE DEF new
<1>5. Alternates(new)
  <2> SUFFICES ASSUME NEW i \in 1..Len(new)
               PROVE  /\ ~ IsScript(new[i]) => i > 1 /\ IsScript(new[i - 1])
                      /\ IsScript(new[i]) /\ new[i].via = "emit" => i > 1 /\ IsScript(new[i - 1])
                      /\ IsScript(new[i]) /\ new[i].via # "emit" /\ i > 1 => ~ IsScript(new[i - 1])
                      /\ IsScript(new[i]) /\ new[i].via = "callback" => i > 1
                      /\ IsScript(new[i]) /\ new[i].via \in Uncounted => new[i].sync = 0 /\ new[i].cb = 0
    BY DEF Alternates
  <2>1. i > 1 => i - 1 \in 1..Len(stk) /\ new[i - 1] = stk[i - 1]
    <3>1. i \in 1..(Len(stk) + 1)
      BY <1>1
    <3>2. i > 1 => i - 1 \in 1..Len(stk)
      BY <1>0, <3>1
    <3> QED
      BY <1>1, <3>2
  <2>2. CASE i = n
    <3>1. new[i] = a /\ (i > 1 <=> stk # <<>>) /\ i - 1 = Len(stk)
      BY <1>0, <1>1, <1>4, <2>2
    <3> QED
      BY <1>0, <2>1, <3>1
  <2>3. CASE i # n
    <3>1. i \in 1..Len(stk) /\ new[i] = stk[i]
      BY <1>3, <2>3
    <3> QED
      BY <2>1, <3>1 DEF Alternates
  <2> QED
    BY <2>2, <2>3
<1>6. \A i, j \in 1..Len(new) : Follows(new, i, j) => Follows(stk, i, j) \/ (j = n /\ Topmost(stk, i))
  <2> SUFFICES ASSUME NEW i \in 1..Len(new), NEW j \in 1..Len(new), Follows(new, i, j)
               PROVE  Follows(stk, i, j) \/ (j = n /\ Topmost(stk, i))
    OBVIOUS
  <2>1. i \in 1..Len(stk) /\ new[i] = stk[i] /\ i < j
    BY <1>0, <1>1 DEF Follows
  <2>2. CASE j = n
    <3>1. i + 1 \in 1..Len(stk) => new[i + 1] = stk[i + 1]
      BY <1>1
    <3>2. i = Len(stk) \/ (i + 1 = Len(stk) /\ ~ IsScript(stk[i + 1]))
      BY <1>0, <1>1, <2>1, <2>2, <3>1 DEF Follows
    <3>3. IsScript(stk[i])
      BY <2>1 DEF Follows
    <3> QED
      BY <1>0, <2>1, <2>2, <3>2, <3>3 DEF Topmost
  <2>3. CASE j # n
    <3>1. j \in 1..Len(stk) /\ new[j] = stk[j]
      BY <1>3, <2>3
    <3>2. i + 1 \in 1..Len(stk) /\ new[i + 1] = stk[i + 1]
      BY <1>1, <2>1, <3>1
    <3> QED
      BY <2>1, <3>1, <3>2 DEF Follows
  <2> QED
    BY <2>2, <2>3
<1>7. \A i \in 1..Len(new) : Topmost(new, i) => i = n
  BY <1>0, <1>1 DEF Topmost
<1>8. Returns(new, act2)
  <2>1. new[1].prev = Root
    <3>1. CASE stk = <<>>
      BY <1>0, <1>1, <1>4, <3>1 DEF Returns
    <3>2. CASE stk # <<>>
      <4>1. 1 \in 1..Len(stk)
        BY <1>0, <1>4, <3>2
      <4> QED
        BY <1>1, <3>2, <4>1 DEF Returns
    <3> QED
      BY <3>1, <3>2
  <2>2. ASSUME NEW i \in 1..Len(new), NEW j \in 1..Len(new), Follows(new, i, j), new[i].via \notin Switching
        PROVE  new[j].prev = new[i].prev
    <3>1. i \in 1..Len(stk) /\ new[i] = stk[i]
      <4>1. i < j
        BY <2>2 DEF Follows
      <4> QED
        BY <1>0, <1>1, <4>1
    <3>2. CASE Follows(stk, i, j)
      <4>1. j \in 1..Len(stk) /\ new[j] = stk[j]
        BY <1>1, <3>2 DEF Follows
      <4> QED
        BY <2>2, <3>1, <3>2, <4>1 DEF Returns
    <3>3. CASE j = n /\ Topmost(stk, i)
      BY <1>1, <2>2, <3>1, <3>3 DEF Returns
    <3> QED
      BY <1>6, <2>2, <3>2, <3>3
  <2>3. \A i \in 1..Len(new) : Topmost(new, i) /\ new[i].via \notin Switching => act2 = new[i].prev
    BY <1>1, <1>7
  <2> QED
    BY <1>1, <2>1, <2>2, <2>3 DEF Returns
<1>9. Holds(new, lns2)
  <2>1. ASSUME NEW i \in 1..Len(stk), IsScript(stk[i])
        PROVE  Len(lns2[stk[i].prev]) >= stk[i].base + Pushed(stk[i]) /\ Len(lns[stk[i].prev]) >= stk[i].base + Pushed(stk[i])
    <3>1. Len(lns2[stk[i].prev]) >= Len(lns[stk[i].prev]) /\ Len(lns[stk[i].prev]) >= stk[i].base + Pushed(stk[i])
      BY <2>1 DEF Holds
    <3>2. stk[i].base \in Nat /\ Pushed(stk[i]) \in Nat /\ Len(lns2[stk[i].prev]) \in Nat /\ Len(lns[stk[i].prev]) \in Nat
      BY <1>2, <2>1, PushedType, SMTT(30)
    <3> QED
      BY <3>1, <3>2, SMTT(20)
  <2>2. \A i \in 1..Len(new) : IsScript(new[i]) => Len(lns2[new[i].prev]) >= new[i].base + Pushed(new[i])
    BY <1>1, <1>3, <2>1
  <2>3. ASSUME NEW i \in 1..Len(new), NEW j \in 1..Len(new), i < j, IsScript(new[i]), IsScript(new[j]), new[i].prev = new[j].prev
        PROVE  new[j].base >= new[i].base + Pushed(new[i])
    <3>1. i \in 1..Len(stk) /\ new[i] = stk[i]
      BY <1>0, <1>1, <2>3
    <3>2. CASE j = n
      BY <1>1, <2>1, <2>3, <3>1, <3>2
    <3>3. CASE j # n
      <4>1. j \in 1..Len(stk) /\ new[j] = stk[j]
        BY <1>3, <3>3
      <4> QED
        BY <2>3, <3>1, <4>1 DEF Holds
    <3> QED
      BY <3>2, <3>3
  <2> QED
    BY <2>2, <2>3 DEF Holds
<1>10. ASSUME Fits(stk, lns, mk), a.via \in Exact => Len(lns2[act]) = Len(lns[act]) + Pushed(a)
       PROVE  Fits(new, lns2, mk)
  <2>1. Intact(mk, Root, new[1].base) => new[1].base = 0
    <3>1. CASE stk = <<>>
      <4>1. act = Root /\ (Intact(mk, Root, Len(lns[Root])) => lns[Root] = <<>>)
        BY <1>10, <3>1 DEF Returns, Fits
      <4> QED
        BY <1>0, <1>1, <1>4, <3>1, <4>1
    <3>2. CASE stk # <<>>
      <4>1. new[1] = stk[1]
        BY <1>0, <1>1, <1>4, <3>2
      <4> QED
        BY <1>10, <3>2, <4>1 DEF Fits
    <3> QED
      BY <3>1, <3>2
  <2>2. ASSUME NEW i \in 1..Len(new), NEW j \in 1..Len(new), Follows(new, i, j), new[i].via \in Exact, Intact(mk, new[j].prev, new[j].base)
        PROVE  new[j].base = new[i].base + Pushed(new[i])
    <3>1. i \in 1..Len(stk) /\ new[i] = stk[i] /\ stk[i].via \notin Switching
      <4>1. i < j
        BY <2>2 DEF Follows
      <4>2. i \in 1..Len(stk) /\ new[i] = stk[i]
        BY <1>0, <1>1, <4>1
      <4> QED
        BY <2>2, <4>2 DEF Exact, Switching
    <3>2. CASE Follows(stk, i, j)
      <4>1. j \in 1..Len(stk) /\ new[j] = stk[j]
        BY <1>1, <3>2 DEF Follows
      <4> QED
        BY <1>10, <2>2, <3>1, <3>2, <4>1 DEF Fits
    <3>3. CASE j = n /\ Topmost(stk, i)
      <4>0. act = stk[i].prev /\ Intact(mk, stk[i].prev, Len(lns[stk[i].prev]))
        BY <1>1, <2>2, <3>1, <3>3 DEF Returns
      <4>1. act = stk[i].prev /\ Len(lns[stk[i].prev]) = stk[i].base + Pushed(stk[i])
        BY <1>10, <2>2, <3>1, <3>3, <4>0 DEF Fits
      <4> QED
        BY <1>1, <3>1, <3>3, <4>1
    <3> QED
      BY <1>6, <2>2, <3>2, <3>3
  <2>3. \A i \in 1..Len(new) : Topmost(new, i) /\ new[i].via \in Exact /\ Intact(mk, new[i].prev, Len(lns2[new[i].prev]))
                                => Len(lns2[new[i].prev]) = new[i].base + Pushed(new[i])
    BY <1>1, <1>7, <1>10
  <2> QED
    BY <1>1, <2>1, <2>2, <2>3 DEF Fits
<1> QED
  BY <1>5, <1>8, <1>9, <1>10 DEF new

-----------------------------------------------------------------------------
(* A binding is called or returns: its activation holds no lane. *)

LEMMA HostEnters ==
    ASSUME NEW stk \in Seq(Activation), NEW h \in HostActivation, stk # <<>>, IsScript(stk[Len(stk)]), Alternates(stk)
    PROVE  LET new == Append(stk, h) IN
           /\ Alternates(new)
           /\ \A act : Returns(stk, act) => Returns(new, act)
           /\ \A lns : Holds(stk, lns) => Holds(new, lns)
           /\ \A lns, mk : Fits(stk, lns, mk) => Fits(new, lns, mk)
           /\ \A m, n : Counted(stk, m, n) => Counted(new, m, n)
           /\ \A frs, waiting : Framed(stk, frs, waiting) => Framed(new, frs, waiting)
<1> DEFINE new == Append(stk, h)
           n == Len(stk) + 1
<1>0. h \in Activation /\ ~ IsScript(h) /\ Len(stk) \in Nat /\ Len(stk) > 0
  BY DEF Activation, HostActivation, IsScript
<1>1. /\ new \in Seq(Activation) /\ Len(new) = n /\ new # <<>> /\ new[n] = h
      /\ \A i \in 1..Len(stk) : new[i] = stk[i]
  BY <1>0, OneMore
<1>2. /\ \A i \in 1..Len(new) : i = n \/ (i \in 1..Len(stk) /\ new[i] = stk[i])
      /\ \A i \in 1..Len(new) : IsScript(new[i]) => i \in 1..Len(stk) /\ new[i] = stk[i]
      /\ \A i \in 1..Len(stk) : i \in 1..Len(new) /\ new[i] = stk[i]
      /\ 1 \in 1..Len(stk)
  BY <1>0, <1>1
<1> HIDE DEF new
<1>3. Alternates(new)
  <2> SUFFICES ASSUME NEW i \in 1..Len(new)
               PROVE  /\ ~ IsScript(new[i]) => i > 1 /\ IsScript(new[i - 1])
                      /\ IsScript(new[i]) /\ new[i].via = "emit" => i > 1 /\ IsScript(new[i - 1])
                      /\ IsScript(new[i]) /\ new[i].via # "emit" /\ i > 1 => ~ IsScript(new[i - 1])
                      /\ IsScript(new[i]) /\ new[i].via = "callback" => i > 1
                      /\ IsScript(new[i]) /\ new[i].via \in Uncounted => new[i].sync = 0 /\ new[i].cb = 0
    BY DEF Alternates
  <2>0. i \in 1..(Len(stk) + 1)
    BY <1>1
  <2>1. i > 1 => i - 1 \in 1..Len(stk)
    BY <1>0, <2>0
  <2>2. CASE i = n
    <3>1. i > 1 /\ i - 1 = Len(stk) /\ new[i] = h
      BY <1>0, <1>1, <2>2
    <3> QED
      BY <1>0, <1>2, <2>1, <3>1
  <2>3. CASE i # n
    <3>1. i \in 1..Len(stk) /\ new[i] = stk[i]
      BY <1>2, <2>3
    <3> QED
      BY <1>2, <2>1, <3>1 DEF Alternates
  <2> QED
    BY <2>2, <2>3
<1>4. \A i, j : Follows(new, i, j) <=> Follows(stk, i, j)
  <2> SUFFICES ASSUME NEW i, NEW j PROVE Follows(new, i, j) <=> Follows(stk, i, j)
    OBVIOUS
  <2>1. ASSUME Follows(new, i, j) PROVE Follows(stk, i, j)
    <3>1. i \in 1..Len(stk) /\ j \in 1..Len(stk) /\ new[i] = stk[i] /\ new[j] = stk[j] /\ (j = i + 1 \/ j = i + 2)
      BY <1>2, <2>1 DEF Follows
    <3>2. new[i + 1] = stk[i + 1]
      BY <1>1, <3>1
    <3> QED
      BY <2>1, <3>1, <3>2 DEF Follows
  <2>2. ASSUME Follows(stk, i, j) PROVE Follows(new, i, j)
    <3>1. i \in 1..Len(new) /\ j \in 1..Len(new) /\ new[i] = stk[i] /\ new[j] = stk[j] /\ (j = i + 1 \/ j = i + 2)
          /\ i \in 1..Len(stk) /\ j \in 1..Len(stk)
      BY <1>2, <2>2 DEF Follows
    <3>2. new[i + 1] = stk[i + 1]
      BY <1>1, <3>1
    <3> QED
      BY <2>2, <3>1, <3>2 DEF Follows
  <2> QED
    BY <2>1, <2>2
<1>5. \A i : Topmost(new, i) <=> Topmost(stk, i)
  <2>1. \A i : Topmost(new, i) => i = Len(stk)
    BY <1>0, <1>1 DEF Topmost
  <2>2. \A i : Topmost(stk, i) => i = Len(stk)
    BY DEF Topmost
  <2>3. Topmost(stk, Len(stk))
    BY <1>0 DEF Topmost
  <2>4. Topmost(new, Len(stk))
    BY <1>0, <1>1 DEF Topmost
  <2> QED
    BY <2>1, <2>2, <2>3, <2>4
<1>6. ASSUME NEW act, Returns(stk, act) PROVE Returns(new, act)
  <2>1. new[1].prev = Root
    BY <1>2, <1>6 DEF Returns
  <2>2. \A i, j \in 1..Len(new) : Follows(new, i, j) /\ new[i].via \notin Switching => new[j].prev = new[i].prev
    BY <1>2, <1>4, <1>6 DEF Returns, Follows
  <2>3. \A i \in 1..Len(new) : Topmost(new, i) /\ new[i].via \notin Switching => act = new[i].prev
    BY <1>2, <1>5, <1>6 DEF Returns, Topmost
  <2> QED
    BY <1>1, <2>1, <2>2, <2>3 DEF Returns
<1>7. ASSUME NEW lns, Holds(stk, lns) PROVE Holds(new, lns)
  <2>1. \A i \in 1..Len(new) : IsScript(new[i]) => Len(lns[new[i].prev]) >= new[i].base + Pushed(new[i])
    BY <1>2, <1>7 DEF Holds
  <2>2. \A i, j \in 1..Len(new) : i < j /\ IsScript(new[i]) /\ IsScript(new[j]) /\ new[i].prev = new[j].prev
                                  => new[j].base >= new[i].base + Pushed(new[i])
    BY <1>2, <1>7 DEF Holds
  <2> QED
    BY <2>1, <2>2 DEF Holds
<1>8. ASSUME NEW lns, NEW mk, Fits(stk, lns, mk) PROVE Fits(new, lns, mk)
  <2>1. Intact(mk, Root, new[1].base) => new[1].base = 0
    BY <1>2, <1>8 DEF Fits
  <2>2. \A i, j \in 1..Len(new) : Follows(new, i, j) /\ new[i].via \in Exact /\ Intact(mk, new[j].prev, new[j].base)
                                   => new[j].base = new[i].base + Pushed(new[i])
    BY <1>2, <1>4, <1>8 DEF Fits, Follows
  <2>3. \A i \in 1..Len(new) : Topmost(new, i) /\ new[i].via \in Exact /\ Intact(mk, new[i].prev, Len(lns[new[i].prev]))
                                => Len(lns[new[i].prev]) = new[i].base + Pushed(new[i])
    BY <1>2, <1>5, <1>8 DEF Fits, Topmost
  <2> QED
    BY <1>1, <2>1, <2>2, <2>3 DEF Fits
<1>9. SyncAt(new) = SyncAt(stk) /\ CbAt(new) = CbAt(stk)
  <2>1. SyncAt(new) = SyncAt(stk)
    BY <1>2 DEF SyncAt
  <2>2. CbAt(new) = CbAt(stk)
    BY <1>2 DEF CbAt
  <2> QED
    BY <2>1, <2>2
<1>10. ASSUME NEW frs, NEW waiting, Framed(stk, frs, waiting) PROVE Framed(new, frs, waiting)
  BY <1>2, <1>10 DEF Framed
<1> QED
  BY <1>3, <1>6, <1>7, <1>8, <1>9, <1>10 DEF new, Counted

LEMMA HostLeaves ==
    ASSUME NEW stk \in Seq(Activation), stk # <<>>, ~ IsScript(stk[Len(stk)]), Alternates(stk)
    PROVE  LET below == SubSeq(stk, 1, Len(stk) - 1) IN
           /\ Alternates(below)
           /\ \A act : Returns(stk, act) => Returns(below, act)
           /\ \A lns : Holds(stk, lns) => Holds(below, lns)
           /\ \A lns, mk : Fits(stk, lns, mk) => Fits(below, lns, mk)
           /\ \A m, n : Counted(stk, m, n) => Counted(below, m, n)
           /\ \A frs, waiting : Framed(stk, frs, waiting) => Framed(below, frs, waiting)
<1> DEFINE below == SubSeq(stk, 1, Len(stk) - 1)
<1>0. Len(stk) \in Nat /\ Len(stk) > 1
  BY DEF Alternates
<1>1. /\ below \in Seq(Activation) /\ Len(below) = Len(stk) - 1 /\ below # <<>>
      /\ \A i \in 1..Len(below) : i \in 1..Len(stk) /\ below[i] = stk[i]
  <2>1. Len(stk) \in 1..Len(stk)
    BY <1>0
  <2>2. /\ below \in Seq(Activation) /\ Len(below) = Len(stk) - 1 /\ (below = <<>> <=> Len(stk) = 1)
        /\ \A i \in 1..(Len(stk) - 1) : below[i] = stk[i]
    BY <2>1, Beneath
  <2> HIDE DEF below
  <2> QED
    BY <1>0, <2>2
<1>2. /\ \A i \in 1..Len(stk) : IsScript(stk[i]) => i \in 1..Len(below) /\ below[i] = stk[i]
      /\ 1 \in 1..Len(below)
  BY <1>0, <1>1
<1> HIDE DEF below
<1>3. Alternates(below)
  <2> SUFFICES ASSUME NEW i \in 1..Len(below)
               PROVE  /\ ~ IsScript(below[i]) => i > 1 /\ IsScript(below[i - 1])
                      /\ IsScript(below[i]) /\ below[i].via = "emit" => i > 1 /\ IsScript(below[i - 1])
                      /\ IsScript(below[i]) /\ below[i].via # "emit" /\ i > 1 => ~ IsScript(below[i - 1])
                      /\ IsScript(below[i]) /\ below[i].via = "callback" => i > 1
                      /\ IsScript(below[i]) /\ below[i].via \in Uncounted => below[i].sync = 0 /\ below[i].cb = 0
    BY DEF Alternates
  <2>1. below[i] = stk[i] /\ i \in 1..Len(stk) /\ (i > 1 => below[i - 1] = stk[i - 1])
    BY <1>1
  <2> QED
    BY <2>1 DEF Alternates
<1>4. \A i, j : Follows(below, i, j) => Follows(stk, i, j)
  <2> SUFFICES ASSUME NEW i, NEW j, Follows(below, i, j) PROVE Follows(stk, i, j)
    OBVIOUS
  <2>1. i \in 1..Len(below) /\ j \in 1..Len(below) /\ (j = i + 1 \/ j = i + 2)
    BY DEF Follows
  <2>2. below[i] = stk[i] /\ below[j] = stk[j] /\ below[i + 1] = stk[i + 1] /\ i \in 1..Len(stk) /\ j \in 1..Len(stk)
    BY <1>1, <2>1
  <2> QED
    BY <2>1, <2>2 DEF Follows
<1>5. \A i : Topmost(below, i) => Topmost(stk, i)
  <2>0. IsScript(stk[Len(stk) - 1])
    BY <1>0 DEF Alternates
  <2>1. IsScript(below[Len(below)])
    BY <1>0, <1>1, <2>0
  <2>2. \A i : Topmost(below, i) => i = Len(stk) - 1
    BY <1>1, <2>1 DEF Topmost
  <2>3. Topmost(stk, Len(stk) - 1)
    BY <1>0, <2>0 DEF Topmost
  <2> QED
    BY <2>2, <2>3
<1>6. ASSUME NEW act, Returns(stk, act) PROVE Returns(below, act)
  <2>1. below[1].prev = Root
    BY <1>1, <1>2, <1>6 DEF Returns
  <2>2. \A i, j \in 1..Len(below) : Follows(below, i, j) /\ below[i].via \notin Switching => below[j].prev = below[i].prev
    BY <1>1, <1>4, <1>6 DEF Returns
  <2>3. \A i \in 1..Len(below) : Topmost(below, i) /\ below[i].via \notin Switching => act = below[i].prev
    BY <1>1, <1>5, <1>6 DEF Returns
  <2> QED
    BY <1>1, <2>1, <2>2, <2>3 DEF Returns
<1>7. ASSUME NEW lns, Holds(stk, lns) PROVE Holds(below, lns)
  <2>1. \A i \in 1..Len(below) : IsScript(below[i]) => Len(lns[below[i].prev]) >= below[i].base + Pushed(below[i])
    BY <1>1, <1>7 DEF Holds
  <2>2. \A i, j \in 1..Len(below) : i < j /\ IsScript(below[i]) /\ IsScript(below[j]) /\ below[i].prev = below[j].prev
                                    => below[j].base >= below[i].base + Pushed(below[i])
    BY <1>1, <1>7 DEF Holds
  <2> QED
    BY <2>1, <2>2 DEF Holds
<1>8. ASSUME NEW lns, NEW mk, Fits(stk, lns, mk) PROVE Fits(below, lns, mk)
  <2>1. Intact(mk, Root, below[1].base) => below[1].base = 0
    BY <1>1, <1>2, <1>8 DEF Fits
  <2>2. \A i, j \in 1..Len(below) : Follows(below, i, j) /\ below[i].via \in Exact /\ Intact(mk, below[j].prev, below[j].base)
                                     => below[j].base = below[i].base + Pushed(below[i])
    BY <1>1, <1>4, <1>8 DEF Fits
  <2>3. \A i \in 1..Len(below) : Topmost(below, i) /\ below[i].via \in Exact /\ Intact(mk, below[i].prev, Len(lns[below[i].prev]))
                                  => Len(lns[below[i].prev]) = below[i].base + Pushed(below[i])
    BY <1>1, <1>5, <1>8 DEF Fits
  <2> QED
    BY <1>1, <2>1, <2>2, <2>3 DEF Fits
<1>9. SyncAt(below) = SyncAt(stk) /\ CbAt(below) = CbAt(stk)
  <2>1. SyncAt(below) = SyncAt(stk)
    BY <1>1, <1>2 DEF SyncAt
  <2>2. CbAt(below) = CbAt(stk)
    BY <1>1, <1>2 DEF CbAt
  <2> QED
    BY <2>1, <2>2
<1>10. ASSUME NEW frs, NEW waiting, Framed(stk, frs, waiting) PROVE Framed(below, frs, waiting)
  BY <1>2, <1>10 DEF Framed
<1> QED
  BY <1>3, <1>6, <1>7, <1>8, <1>9, <1>10 DEF below, Counted

-----------------------------------------------------------------------------
(* The counters and the interrupt frames, as scripts start and end. *)

(* What is above a level holds no count and no frame: handlers, and a binding. *)
Bare(stk, b) == \A i \in (b + 1)..Len(stk) : ~ IsScript(stk[i]) \/ stk[i].via = "emit"

LEMMA FiniteLevels ==
    ASSUME NEW stk \in Seq(Activation)
    PROVE  IsFiniteSet(SyncAt(stk)) /\ IsFiniteSet(CbAt(stk))
<1>1. IsFiniteSet(1..Len(stk))
  BY FS_Interval
<1>2. SyncAt(stk) \subseteq 1..Len(stk) /\ CbAt(stk) \subseteq 1..Len(stk)
  BY DEF SyncAt, CbAt
<1> QED
  BY <1>1, <1>2, FS_Subset

LEMMA CountUp ==
    ASSUME NEW stk \in Seq(Activation), NEW a \in ScriptActivation, NEW m, NEW n, Counted(stk, m, n)
    PROVE  Counted(Append(stk, a), m + a.sync, n + a.cb) /\ m \in Nat /\ n \in Nat
<1> DEFINE top == Len(stk) + 1
<1>0. a \in Activation /\ IsScript(a) /\ a.sync \in {0, 1} /\ a.cb \in {0, 1} /\ top \in Nat
  BY Kinds DEF Activation, ScriptActivation, IsScript
<1>1. /\ Append(stk, a) \in Seq(Activation) /\ Len(Append(stk, a)) = top /\ Append(stk, a)[top] = a
      /\ \A i \in 1..Len(stk) : Append(stk, a)[i] = stk[i]
  BY <1>0, OneMore
<1>2. SyncAt(Append(stk, a)) = IF a.sync = 1 THEN SyncAt(stk) \cup {top} ELSE SyncAt(stk)
  BY <1>0, <1>1 DEF SyncAt
<1>3. CbAt(Append(stk, a)) = IF a.cb = 1 THEN CbAt(stk) \cup {top} ELSE CbAt(stk)
  BY <1>0, <1>1 DEF CbAt
<1>4. top \notin SyncAt(stk) /\ top \notin CbAt(stk)
  BY DEF SyncAt, CbAt
<1>5. /\ Cardinality(SyncAt(stk)) \in Nat /\ Cardinality(SyncAt(stk) \cup {top}) = Cardinality(SyncAt(stk)) + 1
      /\ Cardinality(CbAt(stk)) \in Nat /\ Cardinality(CbAt(stk) \cup {top}) = Cardinality(CbAt(stk)) + 1
  BY <1>4, FiniteLevels, FS_CardinalityType, FS_AddElement
<1> QED
  BY <1>0, <1>2, <1>3, <1>5 DEF Counted

LEMMA CountDown ==
    ASSUME NEW stk \in Seq(Activation), Alternates(stk), NEW b \in 1..Len(stk), IsScript(stk[b]), Bare(stk, b),
           NEW m, NEW n, Counted(stk, m, n)
    PROVE  Counted(SubSeq(stk, 1, b - 1), m - stk[b].sync, n - stk[b].cb)
<1> DEFINE below == SubSeq(stk, 1, b - 1)
<1>0. stk[b].sync \in {0, 1} /\ stk[b].cb \in {0, 1}
  BY Kinds
<1>1. Len(below) = b - 1 /\ \A i \in 1..(b - 1) : below[i] = stk[i]
  BY Beneath
<1> HIDE DEF below
<1>2. \A i \in 1..Len(stk) : i > b => i \notin SyncAt(stk) /\ i \notin CbAt(stk)
  <2> SUFFICES ASSUME NEW i \in 1..Len(stk), i > b, IsScript(stk[i]) PROVE stk[i].sync = 0 /\ stk[i].cb = 0
    BY DEF SyncAt, CbAt
  <2>1. stk[i].via \in Uncounted
    BY DEF Bare, Uncounted
  <2> QED
    BY <2>1 DEF Alternates
<1>3. SyncAt(below) = SyncAt(stk) \ {b} /\ CbAt(below) = CbAt(stk) \ {b}
  <2>1. \A i : i \in SyncAt(below) <=> i \in SyncAt(stk) \ {b}
    BY <1>1, <1>2 DEF SyncAt
  <2>2. \A i : i \in CbAt(below) <=> i \in CbAt(stk) \ {b}
    BY <1>1, <1>2 DEF CbAt
  <2> QED
    BY <2>1, <2>2
<1>4. (b \in SyncAt(stk) <=> stk[b].sync = 1) /\ (b \in CbAt(stk) <=> stk[b].cb = 1)
  BY DEF SyncAt, CbAt
<1>5. ASSUME NEW S, IsFiniteSet(S), NEW k \in {0, 1}, b \in S <=> k = 1
      PROVE  Cardinality(S \ {b}) = Cardinality(S) - k
  <2>1. CASE b \in S
    BY <1>5, <2>1, FS_RemoveElement
  <2>2. CASE b \notin S
    <3>1. S \ {b} = S /\ k = 0
      BY <1>5, <2>2
    <3>2. Cardinality(S) \in Nat
      BY <1>5, FS_CardinalityType
    <3>3. Cardinality(S \ {b}) = Cardinality(S)
      BY <3>1, Zenon
    <3> QED
      BY <3>1, <3>2, <3>3
  <2> QED
    BY <2>1, <2>2
<1>6. Cardinality(SyncAt(below)) = m - stk[b].sync
  BY <1>0, <1>3, <1>4, <1>5, FiniteLevels DEF Counted
<1>7. Cardinality(CbAt(below)) = n - stk[b].cb
  BY <1>0, <1>3, <1>4, <1>5, FiniteLevels DEF Counted
<1> QED
  BY <1>6, <1>7 DEF Counted, below

LEMMA FramesPop ==
    ASSUME NEW stk \in Seq(Activation), NEW b \in 1..Len(stk), Bare(stk, b), NEW frs, NEW waiting, Framed(stk, frs, waiting)
    PROVE  Framed(SubSeq(stk, 1, b - 1), {f \in frs : f.lvl # b}, waiting)
<1>1. Len(SubSeq(stk, 1, b - 1)) = b - 1 /\ \A i \in 1..(b - 1) : SubSeq(stk, 1, b - 1)[i] = stk[i]
  BY Beneath
<1> SUFFICES ASSUME NEW f \in frs, f.lvl # b, ~ (f.lvl = 0 /\ f.call \in waiting)
             PROVE  f.lvl \in 1..(b - 1) /\ IsScript(stk[f.lvl]) /\ stk[f.lvl].via # "emit"
  BY <1>1 DEF Framed
<1>2. f.lvl \in 1..Len(stk) /\ IsScript(stk[f.lvl]) /\ stk[f.lvl].via # "emit"
  BY DEF Framed
<1> QED
  BY <1>2 DEF Bare

LEMMA FramesPush ==
    ASSUME NEW stk \in Seq(Activation), NEW a \in Activation, NEW frs, NEW waiting, Framed(stk, frs, waiting), NEW more,
           \A f \in more : (f.lvl = 0 /\ f.call \in waiting) \/ (f.lvl = Len(stk) + 1 /\ IsScript(a) /\ a.via # "emit")
    PROVE  Framed(Append(stk, a), frs \cup more, waiting)
<1>1. /\ Len(Append(stk, a)) = Len(stk) + 1 /\ Append(stk, a)[Len(stk) + 1] = a /\ Len(stk) \in Nat
      /\ \A i \in 1..Len(stk) : Append(stk, a)[i] = stk[i]
  BY OneMore
<1>2. \A f \in frs : (f.lvl = 0 /\ f.call \in waiting) \/ (f.lvl \in 1..(Len(stk) + 1) /\ IsScript(Append(stk, a)[f.lvl]) /\ Append(stk, a)[f.lvl].via # "emit")
  BY <1>1 DEF Framed
<1>3. \A f \in more : (f.lvl = 0 /\ f.call \in waiting) \/ (f.lvl \in 1..(Len(stk) + 1) /\ IsScript(Append(stk, a)[f.lvl]) /\ Append(stk, a)[f.lvl].via # "emit")
  BY <1>1
<1> QED
  BY <1>1, <1>2, <1>3 DEF Framed

-----------------------------------------------------------------------------
(* The same for the whole of what runs. *)

(* More calls may be known and waiting. *)
LEMMA SoundMore ==
    ASSUME NEW stk, NEW frs, NEW lns, NEW act, NEW m, NEW n, NEW mk, NEW busy, NEW waiting,
           Sound(stk, frs, lns, act, m, n, mk, busy, waiting),
           NEW busy2, busy \subseteq busy2, NEW waiting2, waiting \subseteq waiting2
    PROVE  Sound(stk, frs, lns, act, m, n, mk, busy2, waiting2)
<1>1. Framed(stk, frs, waiting2)
  BY DEF Framed, Sound
<1>2. Named(stk, act, busy2)
  BY DEF Named, Sound
<1> QED
  BY <1>1, <1>2 DEF Sound

LEMMA SoundEnd ==
    ASSUME NEW stk, NEW frs, NEW lns, NEW act, NEW m, NEW n, NEW mk, NEW busy, NEW waiting,
           Sound(stk, frs, lns, act, m, n, mk, busy, waiting),
           NEW b \in 1..Len(stk), IsScript(stk[b]), Bare(stk, b),
           NEW lns2 \in [Lanes -> Seq(Owner)], \A x \in Lanes \ {stk[b].prev} : lns2[x] = lns[x],
           Len(lns2[stk[b].prev]) >= stk[b].base,
           NEW mk2, mk2 = Marked(mk, lns2, stk[b].prev, stk[b].base),
           NEW frs2, frs2 = {f \in frs : f.lvl # b}
    PROVE  Sound(SubSeq(stk, 1, b - 1), frs2, lns2, stk[b].prev, m - stk[b].sync, n - stk[b].cb, mk2, busy, waiting)
<1> DEFINE below == SubSeq(stk, 1, b - 1)
<1>0. /\ stk \in Seq(Activation) /\ Len(stk) <= MaxDepth /\ frs \subseteq Frame /\ lns \in [Lanes -> Seq(Owner)] /\ act \in Lanes
      /\ Alternates(stk) /\ Returns(stk, act) /\ Holds(stk, lns) /\ Counted(stk, m, n) /\ Framed(stk, frs, waiting) /\ Named(stk, act, busy)
      /\ mk \in [Lanes -> Nat] /\ Fits(stk, lns, mk)
  BY DEF Sound
<1>1. below \in Seq(Activation) /\ Len(below) = b - 1 /\ \A i \in 1..(b - 1) : below[i] = stk[i]
  BY <1>0, Beneath
<1>2. stk[b].prev \in Lanes /\ stk[b].base \in Nat
  BY <1>0, Kinds
<1>a. mk2 \in [Lanes -> Nat]
  BY <1>0, <1>2, MarkLeft
<1>3. /\ Alternates(below) /\ Returns(below, stk[b].prev) /\ Holds(below, lns2)
      /\ Fits(below, lns2, mk2)
  BY <1>0, Ended
<1>4. Counted(below, m - stk[b].sync, n - stk[b].cb) /\ Framed(below, {f \in frs : f.lvl # b}, waiting)
  BY <1>0, CountDown, FramesPop
<1> HIDE DEF below
<1>5. Named(below, stk[b].prev, busy)
  <2>1. \A i \in 1..Len(below) : i \in 1..Len(stk) /\ below[i] = stk[i]
    BY <1>1
  <2> QED
    BY <1>0, <2>1 DEF Named
<1>6. Len(below) <= MaxDepth
  BY <1>0, <1>1, SandboxAssumption
<1> QED
  BY <1>0, <1>1, <1>2, <1>a, <1>3, <1>4, <1>5, <1>6 DEF Sound, below

LEMMA SoundStart ==
    ASSUME NEW stk, NEW frs, NEW lns, NEW act, NEW m, NEW n, NEW mk, NEW busy, NEW waiting,
           Sound(stk, frs, lns, act, m, n, mk, busy, waiting), Len(stk) < MaxDepth,
           NEW a \in ScriptActivation, a.prev = act, a.base = Len(lns[act]),
           a.via = "emit" => stk # <<>> /\ IsScript(stk[Len(stk)]),
           a.via \in Uncounted => a.sync = 0 /\ a.cb = 0,
           a.via # "emit" /\ stk # <<>> => ~ IsScript(stk[Len(stk)]),
           a.via = "callback" => stk # <<>>,
           NEW lns2 \in [Lanes -> Seq(Owner)], Len(lns2[act]) >= Len(lns[act]) + Pushed(a),
           \A x \in busy \cup {Root} : Len(lns2[x]) >= Len(lns[x]),
           a.via \in Exact => Len(lns2[act]) = Len(lns[act]) + Pushed(a),
           NEW act2 \in Lanes, a.via \notin Switching => act2 = act,
           NEW busy2, busy \subseteq busy2, act2 \in busy2 \cup {Root},
           a.call \in busy2 \cup {None}, a.reg \subseteq busy2, a.via \in {"executeAsync", "invokeAsync", "module"} => a.call \in busy2,
           NEW more, more \subseteq Frame, NEW waiting2, waiting \subseteq waiting2,
           \A f \in more : (f.lvl = 0 /\ f.call \in waiting2) \/ (f.lvl = Len(stk) + 1 /\ a.via # "emit")
    PROVE  Sound(Append(stk, a), frs \cup more, lns2, act2, m + a.sync, n + a.cb, mk, busy2, waiting2)
<1> DEFINE new == Append(stk, a)
<1>0. /\ stk \in Seq(Activation) /\ frs \subseteq Frame /\ lns \in [Lanes -> Seq(Owner)] /\ act \in Lanes
      /\ Alternates(stk) /\ Returns(stk, act) /\ Holds(stk, lns) /\ Counted(stk, m, n) /\ Framed(stk, frs, waiting) /\ Named(stk, act, busy)
      /\ mk \in [Lanes -> Nat] /\ Fits(stk, lns, mk)
  BY DEF Sound
<1>1. a \in Activation /\ IsScript(a) /\ Len(stk) \in Nat /\ MaxDepth \in Nat
  BY <1>0, SandboxAssumption DEF Activation, ScriptActivation, IsScript
<1>2. /\ new \in Seq(Activation) /\ Len(new) = Len(stk) + 1 /\ new[Len(stk) + 1] = a
      /\ \A i \in 1..Len(stk) : new[i] = stk[i]
  BY <1>0, <1>1, OneMore
<1>3. \A i \in 1..Len(stk) : IsScript(stk[i]) => Len(lns2[stk[i].prev]) >= Len(lns[stk[i].prev])
  BY <1>0 DEF Named
<1>4. /\ Alternates(new) /\ Returns(new, act2) /\ Holds(new, lns2)
      /\ Fits(new, lns2, mk)
  BY <1>0, <1>3, Started
<1>5. Counted(new, m + a.sync, n + a.cb)
  BY <1>0, CountUp
<1>6. Framed(stk, frs, waiting2)
  BY <1>0 DEF Framed
<1>7. Framed(new, frs \cup more, waiting2)
  BY <1>0, <1>1, <1>6, FramesPush
<1> HIDE DEF new
<1>8. Named(new, act2, busy2)
  <2>1. \A i \in 1..Len(new) : (i \in 1..Len(stk) /\ new[i] = stk[i]) \/ new[i] = a
    BY <1>1, <1>2
  <2>2. a.prev \in busy2 \cup {Root}
    BY <1>0 DEF Named
  <2>3. ASSUME NEW i \in 1..Len(new)
        PROVE  /\ new[i].call \in busy2 \cup {None}
               /\ IsScript(new[i]) => new[i].prev \in busy2 \cup {Root} /\ new[i].reg \subseteq busy2
               /\ IsScript(new[i]) /\ new[i].via \in {"executeAsync", "invokeAsync", "module"} => new[i].call \in busy2
    <3>1. CASE i \in 1..Len(stk) /\ new[i] = stk[i]
      BY <1>0, <3>1 DEF Named
    <3>2. CASE new[i] = a
      BY <2>2, <3>2
    <3> QED
      BY <2>1, <3>1, <3>2
  <2> QED
    BY <2>3 DEF Named
<1>9. Len(new) <= MaxDepth
  BY <1>1, <1>2
<1> QED
  BY <1>0, <1>2, <1>4, <1>5, <1>7, <1>8, <1>9 DEF Sound, new

LEMMA SoundHostIn ==
    ASSUME NEW stk, NEW frs, NEW lns, NEW act, NEW m, NEW n, NEW mk, NEW busy, NEW waiting,
           Sound(stk, frs, lns, act, m, n, mk, busy, waiting), Len(stk) < MaxDepth,
           NEW h \in HostActivation, h.call \in busy \cup {None}, stk # <<>>, IsScript(stk[Len(stk)])
    PROVE  Sound(Append(stk, h), frs, lns, act, m, n, mk, busy, waiting)
<1> DEFINE new == Append(stk, h)
<1>0. /\ stk \in Seq(Activation) /\ Alternates(stk) /\ Named(stk, act, busy)
  BY DEF Sound
<1>1. h \in Activation /\ ~ IsScript(h) /\ Len(stk) \in Nat /\ MaxDepth \in Nat
  BY <1>0, SandboxAssumption DEF Activation, HostActivation, IsScript
<1>2. /\ new \in Seq(Activation) /\ Len(new) = Len(stk) + 1 /\ new[Len(stk) + 1] = h
      /\ \A i \in 1..Len(stk) : new[i] = stk[i]
  BY <1>0, <1>1, OneMore
<1>3. /\ Alternates(new)
      /\ Returns(stk, act) => Returns(new, act)
      /\ Holds(stk, lns) => Holds(new, lns)
      /\ Fits(stk, lns, mk) => Fits(new, lns, mk)
      /\ Counted(stk, m, n) => Counted(new, m, n)
      /\ Framed(stk, frs, waiting) => Framed(new, frs, waiting)
  BY <1>0, HostEnters
<1> HIDE DEF new
<1>4. Named(new, act, busy)
  <2>1. \A i \in 1..Len(new) : (i \in 1..Len(stk) /\ new[i] = stk[i]) \/ new[i] = h
    BY <1>1, <1>2
  <2> QED
    BY <1>0, <1>1, <2>1 DEF Named
<1>5. Len(new) <= MaxDepth
  BY <1>1, <1>2
<1> QED
  BY <1>2, <1>3, <1>4, <1>5 DEF Sound, new

LEMMA SoundHostOut ==
    ASSUME NEW stk, NEW frs, NEW lns, NEW act, NEW m, NEW n, NEW mk, NEW busy, NEW waiting,
           Sound(stk, frs, lns, act, m, n, mk, busy, waiting), stk # <<>>, ~ IsScript(stk[Len(stk)])
    PROVE  Sound(SubSeq(stk, 1, Len(stk) - 1), frs, lns, act, m, n, mk, busy, waiting)
<1> DEFINE below == SubSeq(stk, 1, Len(stk) - 1)
<1>0. /\ stk \in Seq(Activation) /\ Alternates(stk) /\ Named(stk, act, busy) /\ Len(stk) <= MaxDepth
  BY DEF Sound
<1>1. Len(stk) \in 1..Len(stk) /\ MaxDepth \in Nat
  BY <1>0, SandboxAssumption
<1>2. below \in Seq(Activation) /\ Len(below) = Len(stk) - 1 /\ \A i \in 1..(Len(stk) - 1) : below[i] = stk[i]
  BY <1>0, <1>1, Beneath
<1>3. /\ Alternates(below)
      /\ Returns(stk, act) => Returns(below, act)
      /\ Holds(stk, lns) => Holds(below, lns)
      /\ Fits(stk, lns, mk) => Fits(below, lns, mk)
      /\ Counted(stk, m, n) => Counted(below, m, n)
      /\ Framed(stk, frs, waiting) => Framed(below, frs, waiting)
  BY <1>0, HostLeaves
<1> HIDE DEF below
<1>4. Named(below, act, busy)
  <2>1. \A i \in 1..Len(below) : i \in 1..Len(stk) /\ below[i] = stk[i]
    BY <1>1, <1>2
  <2> QED
    BY <1>0, <2>1 DEF Named
<1>5. Len(below) <= MaxDepth
  BY <1>0, <1>1, <1>2
<1> QED
  BY <1>2, <1>3, <1>4, <1>5 DEF Sound, below

(* An activation whose code and call change, but not what its end restores. *)
LEMMA SoundAlike ==
    ASSUME NEW stk, NEW frs, NEW lns, NEW act, NEW m, NEW n, NEW mk, NEW busy, NEW waiting,
           Sound(stk, frs, lns, act, m, n, mk, busy, waiting),
           NEW stk2 \in Seq(Activation), Alike(stk, stk2), Named(stk2, act, busy)
    PROVE  Sound(stk2, frs, lns, act, m, n, mk, busy, waiting)
<1>0. stk \in Seq(Activation) /\ Alternates(stk) /\ Len(stk) <= MaxDepth
  BY DEF Sound
<1>1. /\ Alternates(stk2)
      /\ Returns(stk, act) => Returns(stk2, act)
      /\ Holds(stk, lns) => Holds(stk2, lns)
      /\ Fits(stk, lns, mk) => Fits(stk2, lns, mk)
      /\ Counted(stk, m, n) => Counted(stk2, m, n)
      /\ Framed(stk, frs, waiting) => Framed(stk2, frs, waiting)
  BY <1>0, AlikeKeeps
<1>2. Len(stk2) <= MaxDepth
  BY <1>0 DEF Alike
<1> QED
  BY <1>1, <1>2 DEF Sound

-----------------------------------------------------------------------------
(* The invariant as a whole. *)

LEMMA InitInv == Init => IInv
<1> SUFFICES ASSUME Init PROVE IInv
  OBVIOUS
<1>1. Busy = {} /\ Waits = {}
  BY DEF Init, Busy, Waits, Waiting
<1>2. /\ stack \in Seq(Activation) /\ Len(stack) = 0 /\ lanes \in [Lanes -> Seq(Owner)] /\ active \in Lanes /\ lanes[Root] = <<>>
      /\ stack = <<>> /\ active = Root /\ frames = {} /\ stray \in [Lanes -> Nat] /\ syncDepth = 0 /\ cbDepth = 0
  BY DEF Init, Lanes
<1>3. Alternates(stack) /\ Returns(stack, active) /\ Holds(stack, lanes) /\ Fits(stack, lanes, stray)
  BY <1>2 DEF Alternates, Returns, Holds, Fits
<1>4. SyncAt(stack) = {} /\ CbAt(stack) = {}
  BY <1>2 DEF SyncAt, CbAt
<1>5. Counted(stack, syncDepth, cbDepth)
  BY <1>2, <1>4, FS_EmptySet DEF Counted
<1>6. Framed(stack, frames, Waits) /\ Named(stack, active, Busy)
  BY <1>2 DEF Framed, Named
<1>7. Sound(stack, frames, lanes, active, syncDepth, cbDepth, stray, Busy, Waits)
  BY <1>2, <1>3, <1>5, <1>6, SandboxAssumption DEF Sound
<1>8. Queue(jobs, Busy) /\ Pends(pend, Busy)
  BY FS_EmptySet DEF Init, Queue, Pends
<1>9. Rest
  <2>1. {cancelled, faulted, disposed} \subseteq BOOLEAN
    BY Zenon DEF Init
  <2>2. st \in [Calls -> Status] /\ todo \cup stalls \cup failing \cup answered \subseteq Busy
    BY DEF Init, Status
  <2>3. now \in 0..MaxTime /\ ops \in 0..MaxOps /\ held \subseteq [fn : Owner, owner : Owner] /\ seen \subseteq {"left", "lent", "misheld"}
    BY SandboxAssumption DEF Init
  <2> QED
    BY <1>8, <2>1, <2>2, <2>3 DEF Rest
<1> QED
  BY <1>7, <1>9 DEF IInv

LEMMA Claims == IInv => BookkeepingHolds
<1> SUFFICES ASSUME IInv PROVE BookkeepingHolds
  OBVIOUS
<1>1. /\ stack \in Seq(Activation) /\ frames \subseteq Frame /\ lanes \in [Lanes -> Seq(Owner)] /\ active \in Lanes
      /\ Counted(stack, syncDepth, cbDepth) /\ Framed(stack, frames, Waits) /\ Returns(stack, active)
      /\ stray \in [Lanes -> Nat] /\ Fits(stack, lanes, stray)
  BY DEF IInv, Sound
<1>2. syncDepth \in Nat /\ cbDepth \in Nat
  BY <1>1, FiniteLevels, FS_CardinalityType DEF Counted
<1>3. TypeOK
  BY <1>1, <1>2 DEF TypeOK, IInv, Rest, Busy, Queue, Pends, Work, QueuedJob, Frame
<1>4. ASSUME stack = <<>>
      PROVE  /\ active = Root /\ syncDepth = 0 /\ cbDepth = 0
             /\ \A f \in frames : f.lvl = 0 /\ Waiting(f.call)
             /\ stray[Root] # 0 \/ lanes[Root] = <<>>
  <2>1. Len(stack) = 0
    BY <1>4
  <2>2. SyncAt(stack) = {} /\ CbAt(stack) = {}
    BY <2>1 DEF SyncAt, CbAt
  <2>3. syncDepth = 0 /\ cbDepth = 0
    BY <1>1, <2>2, FS_EmptySet DEF Counted
  <2>4. \A f \in frames : f.lvl = 0 /\ Waiting(f.call)
    BY <1>1, <2>1 DEF Framed, Waits
  <2> QED
    BY <1>1, <1>4, <2>3, <2>4 DEF Returns, Fits, Intact
<1> QED
  BY <1>3, <1>4 DEF BookkeepingHolds, AtRest

(* What a step shows of what runs may be shown with the calls known before it. *)
LEMMA Assemble ==
    ASSUME NEW busy, NEW waiting, busy \subseteq Busy', waiting \subseteq Waits',
           Sound(stack', frames', lanes', active', syncDepth', cbDepth', stray', busy, waiting), Rest'
    PROVE  IInv'
<1>1. Sound(stack', frames', lanes', active', syncDepth', cbDepth', stray', Busy', Waits')
  BY SoundMore
<1> QED
  BY <1>1 DEF IInv

(* A call's state changes, never back to idle. *)
LEMMA SettledMore ==
    ASSUME Rest, NEW c \in Calls \cup {None}, NEW how \in Status \ {"idle"}, Settled(c, how), answered' = answered
    PROVE  Busy \subseteq Busy' /\ Waits \subseteq Waits' /\ st' \in [Calls -> Status] /\ (c # None => c \in Busy')
BY DEF Settled, Busy, Waits, Waiting, Rest

LEMMA MoreNamed ==
    ASSUME NEW busy, NEW busy2, busy \subseteq busy2, NEW q, NEW ps
    PROVE  (Queue(q, busy) => Queue(q, busy2)) /\ (Pends(ps, busy) => Pends(ps, busy2))
BY DEF Queue, Pends

(* What the steps that start something leave alone. *)
LEMMA RestStarts ==
    ASSUME IInv, ops < MaxOps, ops' = ops + 1, seen' \subseteq seen \cup {"left", "lent"},
           UNCHANGED <<now, jobs, pend, todo, stalls, failing, answered, held, cancelled, faulted, disposed>>,
           st' = st \/ \E c \in Calls : st[c] = "idle" /\ st' = [st EXCEPT ![c] = "running"]
    PROVE  Rest' /\ Busy \subseteq Busy' /\ Waits \subseteq Waits'
<1>0. Rest
  BY DEF IInv
<1>1. Busy \subseteq Busy' /\ Waits \subseteq Waits' /\ st' \in [Calls -> Status]
  BY <1>0 DEF Rest, Busy, Waits, Waiting, Status
<1>2. Queue(jobs, Busy') /\ Pends(pend, Busy')
  BY <1>0, <1>1, MoreNamed DEF Rest
<1>3. Queue(jobs, Busy)' /\ Pends(pend, Busy)'
  BY <1>2
<1>4. ops' \in 0..MaxOps
  BY <1>0, SandboxAssumption DEF Rest
<1> QED
  BY <1>0, <1>1, <1>3, <1>4 DEF Rest

(* The activation an entry pushes. *)
LEMMA ScriptTyped ==
    ASSUME active \in Lanes
    PROVE  \A via \in Entries, call \in Calls \cup {None}, own \in Owner, base \in Nat :
              Script(via, call, own, base) \in ScriptActivation
BY DEF Script, ScriptActivation
LEMMA ScriptFields ==
    \A via, call, own, base :
        LET a == Script(via, call, own, base) IN
        /\ a.via = via /\ a.call = call /\ a.own = own /\ a.base = base /\ a.prev = active
        /\ a.sync = 0 /\ a.cb = 0 /\ a.reg = {} /\ ~ a.ran
BY DEF Script

(* What is known of the state when the host starts something. *)
LEMMA AtHost ==
    ASSUME IInv, InHost
    PROVE  stack # <<>> => ~ IsScript(stack[Len(stack)])
BY DEF InHost, Top, IsScript

LEMMA Basics ==
    ASSUME IInv
    PROVE  /\ stack \in Seq(Activation) /\ lanes \in [Lanes -> Seq(Owner)] /\ active \in Lanes /\ Depth \in Nat /\ Current \in Owner
           /\ Level \in Nat /\ now \in Nat /\ active \in Busy \cup {Root} /\ Busy \subseteq Calls /\ now + Timeout \in Nat
           /\ frames \subseteq Frame /\ Depth = Len(lanes[active])
<1>1. stack \in Seq(Activation) /\ lanes \in [Lanes -> Seq(Owner)] /\ active \in Lanes /\ active \in Busy \cup {Root} /\ frames \subseteq Frame
  BY DEF IInv, Sound, Named
<1>2. now \in Nat /\ Timeout \in Nat
  BY SandboxAssumption DEF IInv, Rest
<1>3. Current \in Owner
  <2>1. lanes[active] \in Seq(Owner)
    BY <1>1
  <2> QED
    BY <2>1 DEF Current, Owner, Last
<1> QED
  BY <1>1, <1>2, <1>3 DEF Depth, Level, Busy

(* The lanes with one more frame on the lane in force. *)
LEMMA FramePushed ==
    ASSUME NEW lns \in [Lanes -> Seq(Owner)], NEW x \in Lanes, NEW o \in Owner
    PROVE  LET lns2 == [lns EXCEPT ![x] = Append(@, o)] IN
           /\ lns2 \in [Lanes -> Seq(Owner)] /\ Len(lns2[x]) = Len(lns[x]) + 1
           /\ \A y \in Lanes : Len(lns2[y]) >= Len(lns[y])
OBVIOUS

LEMMA LevelFrameTyped ==
    ASSUME IInv, NEW lvl \in 1..MaxDepth
    PROVE  LevelFrame(lvl) \in Frame /\ LevelFrame(lvl).lvl = lvl
BY Basics DEF LevelFrame, Frame

-----------------------------------------------------------------------------
(* The entry points. *)

(* A step that starts script a, with the interrupt frames more: what it owes the bookkeeping. *)
Placed(a) ==
    /\ a \in ScriptActivation /\ a.prev = active /\ a.base = Depth /\ a.reg = {} /\ Level < MaxDepth
    /\ IF a.via = "emit" THEN stack # <<>> /\ IsScript(stack[Len(stack)]) ELSE stack # <<>> => ~ IsScript(stack[Len(stack)])
    /\ a.via = "callback" => stack # <<>>
    /\ a.via \in Uncounted => a.sync = 0 /\ a.cb = 0
    /\ a.call \in Busy' \cup {None}
    /\ a.via \in {"executeAsync", "invokeAsync", "module"} => a.call \in Busy'
InLane(a) ==
    /\ lanes' \in [Lanes -> Seq(Owner)] /\ Len(lanes'[active]) >= Len(lanes[active]) + Pushed(a)
    /\ \A x \in Busy \cup {Root} : Len(lanes'[x]) >= Len(lanes[x])
    /\ a.via \in Exact => Len(lanes'[active]) = Len(lanes[active]) + Pushed(a)
    /\ active' \in Busy' \cup {Root}
    /\ a.via \notin Switching => active' = active
OnBudget(a, more) ==
    \A f \in more : f \in Frame /\ ((f.lvl = 0 /\ f.call \in Waits') \/ (f.lvl = Level + 1 /\ a.via # "emit"))
Begins(a, more) ==
    /\ stack' = Append(stack, a) /\ frames' = frames \cup more
    /\ syncDepth' = syncDepth + a.sync /\ cbDepth' = cbDepth + a.cb
    /\ stray' = stray
    /\ Busy \subseteq Busy' /\ Waits \subseteq Waits' /\ Rest'
    /\ Placed(a) /\ InLane(a) /\ OnBudget(a, more)

LEMMA BeginsSound ==
    ASSUME IInv, NEW a, NEW more, Begins(a, more)
    PROVE  IInv'
<1>1. Sound(stack, frames, lanes, active, syncDepth, cbDepth, stray, Busy, Waits)
  BY DEF IInv
<1>2. Sound(stack, frames, lanes, active, syncDepth, cbDepth, stray', Busy, Waits)
  BY <1>1, SoundMore DEF Begins
<1>3. /\ Len(stack) < MaxDepth /\ a \in ScriptActivation /\ a.prev = active /\ a.base = Len(lanes[active])
      /\ a.via = "emit" => stack # <<>> /\ IsScript(stack[Len(stack)])
      /\ a.via \in Uncounted => a.sync = 0 /\ a.cb = 0
      /\ a.via # "emit" /\ stack # <<>> => ~ IsScript(stack[Len(stack)])
      /\ a.via = "callback" => stack # <<>>
      /\ a.call \in Busy' \cup {None} /\ a.reg \subseteq Busy'
      /\ a.via \in {"executeAsync", "invokeAsync", "module"} => a.call \in Busy'
  BY DEF Begins, Placed, Depth, Level
<1>4. /\ lanes' \in [Lanes -> Seq(Owner)] /\ Len(lanes'[active]) >= Len(lanes[active]) + Pushed(a)
      /\ \A x \in Busy \cup {Root} : Len(lanes'[x]) >= Len(lanes[x])
      /\ a.via \in Exact => Len(lanes'[active]) = Len(lanes[active]) + Pushed(a)
      /\ active' \in Lanes /\ (a.via \notin Switching => active' = active)
      /\ Busy \subseteq Busy' /\ active' \in Busy' \cup {Root}
  BY DEF Begins, InLane, Lanes, Busy
<1>5. /\ more \subseteq Frame /\ Waits \subseteq Waits'
      /\ \A f \in more : (f.lvl = 0 /\ f.call \in Waits') \/ (f.lvl = Len(stack) + 1 /\ a.via # "emit")
  BY DEF Begins, OnBudget, Level
<1>6. Sound(Append(stack, a), frames \cup more, lanes', active', syncDepth + a.sync, cbDepth + a.cb, stray', Busy', Waits')
  BY <1>2, <1>3, <1>4, <1>5, SoundStart, ZenonT(60)
<1> QED
  BY <1>6 DEF Begins, IInv

LEMMA ExecuteStep ==
    ASSUME IInv, NEW o \in Owner, Execute(o)
    PROVE  IInv'
<1> DEFINE r == Script("execute", None, o, Depth)
           a == [r EXCEPT !.sync = 1]
<1>1. /\ stack' = Append(stack, a) /\ frames' = frames \cup {LevelFrame(Level + 1)} /\ active' = active /\ seen' = seen /\ stray' = stray
      /\ syncDepth' = syncDepth + 1 /\ cbDepth' = cbDepth /\ st' = st /\ InHost /\ Level < MaxDepth
  BY DEF Execute, Surface, Push, Same, callVars
<1>2. r \in ScriptActivation /\ r.via = "execute" /\ r.call = None /\ r.base = Depth /\ r.prev = active
      /\ r.sync = 0 /\ r.cb = 0 /\ r.reg = {} /\ ~ r.ran
  <2>1. "execute" \in Entries /\ None \in Calls \cup {None} /\ active \in Lanes /\ Depth \in Nat
    BY Basics DEF Entries
  <2> QED
    BY <2>1, ScriptTyped, ScriptFields
<1> HIDE DEF r
<1>3. a \in ScriptActivation /\ a.via = "execute" /\ a.call = None /\ a.base = Depth /\ a.prev = active
      /\ a.sync = 1 /\ a.cb = 0 /\ a.reg = {} /\ a.ran = r.ran
  BY <1>2 DEF ScriptActivation
<1> HIDE DEF a
<1>4. Rest' /\ Busy \subseteq Busy' /\ Waits \subseteq Waits'
  BY RestStarts DEF Execute, Surface, Same, callVars
<1>5. Pushed(a) = 0 /\ a.via \notin Exact /\ a.via \notin Switching /\ a.via \notin Uncounted
  BY <1>2, <1>3 DEF Pushed, Exact, Switching, Uncounted
<1>6. Placed(a)
  BY <1>1, <1>3, <1>5, AtHost DEF Placed
<1>7. InLane(a)
  <2>1. lanes' \in [Lanes -> Seq(Owner)] /\ \A x \in Lanes : Len(lanes'[x]) >= Len(lanes[x]) /\ Len(lanes[x]) \in Nat
    BY Basics, FramePushed DEF Execute
  <2> QED
    BY <1>1, <1>4, <1>5, <2>1, Basics DEF InLane, Lanes
<1>8. OnBudget(a, {LevelFrame(Level + 1)})
  BY <1>1, <1>3, Basics, LevelFrameTyped, SandboxAssumption DEF OnBudget
<1>9. syncDepth' = syncDepth + a.sync /\ cbDepth' = cbDepth + a.cb
  BY <1>1, <1>3, Claims DEF BookkeepingHolds, TypeOK
<1>10. Begins(a, {LevelFrame(Level + 1)})
  BY <1>1, <1>4, <1>6, <1>7, <1>8, <1>9 DEF Begins
<1> QED
  BY <1>10, BeginsSound

LEMMA InvokeExportStep ==
    ASSUME IInv, NEW o \in Mods, NEW via \in {"invoke", "strict"}, InvokeExport(o, via)
    PROVE  IInv'
<1> DEFINE s == IF via = "strict" THEN 1 ELSE 0
           r == Script(via, None, o, Depth)
           a == [r EXCEPT !.sync = s]
<1>1. /\ stack' = Append(stack, a) /\ frames' = frames \cup {LevelFrame(Level + 1)} /\ active' = active /\ seen' = seen /\ stray' = stray
      /\ syncDepth' = syncDepth + s /\ cbDepth' = cbDepth /\ st' = st /\ InHost /\ Level < MaxDepth
      /\ lanes' = [lanes EXCEPT ![active] = Append(@, o)]
  BY DEF InvokeExport, Surface, Push, Same, callVars
<1>2. r \in ScriptActivation /\ r.via = via /\ r.call = None /\ r.base = Depth /\ r.prev = active
      /\ r.sync = 0 /\ r.cb = 0 /\ r.reg = {} /\ ~ r.ran
  <2>1. o \in Owner /\ via \in Entries /\ None \in Calls \cup {None} /\ active \in Lanes /\ Depth \in Nat
    BY Basics DEF Entries, Owner
  <2> QED
    BY <2>1, ScriptTyped, ScriptFields
<1>s. s \in {0, 1}
  OBVIOUS
<1> HIDE DEF r, s
<1>3. a \in ScriptActivation /\ a.via = via /\ a.call = None /\ a.base = Depth /\ a.prev = active
      /\ a.sync = s /\ a.cb = 0 /\ a.reg = {} /\ a.ran = r.ran
  BY <1>s, <1>2 DEF ScriptActivation
<1> HIDE DEF a
<1>4. Rest' /\ Busy \subseteq Busy' /\ Waits \subseteq Waits'
  BY RestStarts DEF InvokeExport, Surface, Same, callVars
<1>5. Pushed(a) = 1 /\ a.via \notin Switching /\ a.via \notin Uncounted
  BY <1>2, <1>3 DEF Pushed, Switching, Uncounted
<1>6. Placed(a)
  BY <1>1, <1>3, <1>5, AtHost DEF Placed
<1>7. InLane(a)
  <2>1. /\ lanes' \in [Lanes -> Seq(Owner)] /\ \A x \in Lanes : Len(lanes'[x]) >= Len(lanes[x]) /\ Len(lanes[x]) \in Nat
        /\ Len(lanes'[active]) = Len(lanes[active]) + 1
    BY <1>1, Basics, FramePushed DEF Owner
  <2> QED
    BY <1>1, <1>4, <1>5, <2>1, Basics DEF InLane, Lanes
<1>8. OnBudget(a, {LevelFrame(Level + 1)})
  BY <1>1, <1>3, Basics, LevelFrameTyped, SandboxAssumption DEF OnBudget
<1>9. syncDepth' = syncDepth + a.sync /\ cbDepth' = cbDepth + a.cb
  BY <1>1, <1>3, Claims DEF BookkeepingHolds, TypeOK
<1>10. Begins(a, {LevelFrame(Level + 1)})
  BY <1>1, <1>4, <1>6, <1>7, <1>8, <1>9 DEF Begins
<1> QED
  BY <1>10, BeginsSound

LEMMA FireHookStep ==
    ASSUME IInv, NEW hs, hs # <<>>, hs \in Seq(Mods), NEW budgeted \in BOOLEAN, FireHook(hs, budgeted)
    PROVE  IInv'
<1> DEFINE h == Head(hs)
           t == Tail(hs)
           r == Script("fire", None, h, Depth)
           a == [r EXCEPT !.rest = t]
           more == IF budgeted THEN {LevelFrame(Level + 1)} ELSE {}
<1>1. /\ stack' = Append(stack, a) /\ frames' = frames \cup more /\ active' = active /\ seen' = seen /\ stray' = stray
      /\ syncDepth' = syncDepth /\ cbDepth' = cbDepth /\ st' = st /\ InHost /\ Level < MaxDepth
      /\ lanes' = [lanes EXCEPT ![active] = Append(@, h)]
  BY DEF FireHook, Surface, Push, Same, callVars
<1>h. h \in Owner /\ t \in Seq(Mods)
  BY DEF Owner
<1> HIDE DEF h, t
<1>2. r \in ScriptActivation /\ r.via = "fire" /\ r.call = None /\ r.base = Depth /\ r.prev = active
      /\ r.sync = 0 /\ r.cb = 0 /\ r.reg = {} /\ ~ r.ran
  <2>1. "fire" \in Entries /\ None \in Calls \cup {None} /\ active \in Lanes /\ Depth \in Nat
    BY Basics DEF Entries
  <2> QED
    BY <1>h, <2>1, ScriptTyped, ScriptFields
<1> HIDE DEF r
<1>3. a \in ScriptActivation /\ a.via = "fire" /\ a.call = None /\ a.base = Depth /\ a.prev = active
      /\ a.sync = 0 /\ a.cb = 0 /\ a.reg = {} /\ a.ran = r.ran
  BY <1>h, <1>2 DEF ScriptActivation
<1> HIDE DEF a
<1>4. Rest' /\ Busy \subseteq Busy' /\ Waits \subseteq Waits'
  BY RestStarts DEF FireHook, Surface, Same, callVars
<1>5. Pushed(a) = 1 /\ a.via \notin Switching
  BY <1>2, <1>3 DEF Pushed, Switching
<1>6. Placed(a)
  BY <1>1, <1>3, <1>5, AtHost DEF Placed
<1>7. InLane(a)
  <2>1. /\ lanes' \in [Lanes -> Seq(Owner)] /\ \A x \in Lanes : Len(lanes'[x]) >= Len(lanes[x]) /\ Len(lanes[x]) \in Nat
        /\ Len(lanes'[active]) = Len(lanes[active]) + 1
    BY <1>1, <1>h, Basics, FramePushed
  <2> QED
    BY <1>1, <1>4, <1>5, <2>1, Basics DEF InLane, Lanes
<1>8. OnBudget(a, more)
  BY <1>1, <1>3, Basics, LevelFrameTyped, SandboxAssumption DEF OnBudget
<1> HIDE DEF more
<1>9. syncDepth' = syncDepth + a.sync /\ cbDepth' = cbDepth + a.cb
  BY <1>1, <1>3, Claims DEF BookkeepingHolds, TypeOK
<1>10. Begins(a, more)
  BY <1>1, <1>4, <1>6, <1>7, <1>8, <1>9 DEF Begins
<1> QED
  BY <1>10, BeginsSound

LEMMA ExecuteAsyncStep ==
    ASSUME IInv, NEW c \in Calls, ExecuteAsync(c)
    PROVE  IInv'
<1> DEFINE a == Script("executeAsync", c, None, Depth)
<1>1. /\ stack' = Append(stack, a) /\ frames' = frames \cup {LevelFrame(Level + 1)} /\ active' = active
      /\ lanes' = [lanes EXCEPT ![active] = Append(@, None)]
      /\ syncDepth' = syncDepth /\ cbDepth' = cbDepth /\ InHost /\ Level < MaxDepth
      /\ stray' = stray /\ seen' = seen \cup (IF jobs # <<>> THEN {"left"} ELSE {}) \cup (IF active # Root THEN {"lent"} ELSE {})
      /\ st[c] = "idle" /\ st' = [st EXCEPT ![c] = "running"]
  BY DEF ExecuteAsync, Fresh, Surface, Push, Same
<1>2. a \in ScriptActivation /\ a.via = "executeAsync" /\ a.call = c /\ a.base = Depth /\ a.prev = active
      /\ a.sync = 0 /\ a.cb = 0 /\ a.reg = {} /\ ~ a.ran
  <2>1. "executeAsync" \in Entries /\ active \in Lanes /\ Depth \in Nat /\ None \in Owner /\ c \in Calls \cup {None}
    BY Basics DEF Entries, Owner
  <2> QED
    BY <2>1, ScriptTyped, ScriptFields
<1> HIDE DEF a
<1>4. Rest' /\ Busy \subseteq Busy' /\ Waits \subseteq Waits'
  BY <1>1, RestStarts DEF ExecuteAsync, Fresh, Surface, Same
<1>c. c \in Busy'
  BY <1>1 DEF IInv, Rest, Busy
<1>5. Pushed(a) = 0 /\ a.via \notin Switching /\ a.via \notin Exact /\ a.via \notin Uncounted
  BY <1>2 DEF Pushed, Switching, Exact, Uncounted
<1>6. Placed(a)
  BY <1>1, <1>2, <1>c, <1>5, AtHost DEF Placed
<1>7. InLane(a)
  <2>1. None \in Owner
    BY DEF Owner
  <2>2. lanes' \in [Lanes -> Seq(Owner)] /\ \A x \in Lanes : Len(lanes'[x]) >= Len(lanes[x]) /\ Len(lanes[x]) \in Nat
    BY <1>1, <2>1, Basics, FramePushed
  <2> QED
    BY <1>1, <1>4, <1>5, <2>2, Basics DEF InLane, Lanes
<1>8. OnBudget(a, {LevelFrame(Level + 1)})
  BY <1>1, <1>2, Basics, LevelFrameTyped, SandboxAssumption DEF OnBudget
<1>9. syncDepth' = syncDepth + a.sync /\ cbDepth' = cbDepth + a.cb
  BY <1>1, <1>2, Claims DEF BookkeepingHolds, TypeOK
<1>10. Begins(a, {LevelFrame(Level + 1)})
  BY <1>1, <1>4, <1>6, <1>7, <1>8, <1>9 DEF Begins
<1> QED
  BY <1>10, BeginsSound

LEMMA StartInLaneStep ==
    ASSUME IInv, NEW c \in Calls, NEW o \in Mods, NEW via \in {"invokeAsync", "module"}, StartInLane(c, o, via)
    PROVE  IInv'
<1> DEFINE a == Script(via, c, o, Depth)
<1>1. /\ stack' = Append(stack, a) /\ frames' = frames \cup {CallFrame(c)} /\ active' = c /\ lanes' = [lanes EXCEPT ![c] = <<o>>]
      /\ syncDepth' = syncDepth /\ cbDepth' = cbDepth /\ InHost /\ Level < MaxDepth
      /\ stray' = stray /\ seen' = IF jobs # <<>> THEN seen \cup {"left"} ELSE seen
      /\ st[c] = "idle" /\ st' = [st EXCEPT ![c] = "running"] /\ answered' = answered
  BY DEF StartInLane, Fresh, Surface, Push, Same, Left
<1>2. a \in ScriptActivation /\ a.via = via /\ a.call = c /\ a.base = Depth /\ a.prev = active
      /\ a.sync = 0 /\ a.cb = 0 /\ a.reg = {} /\ ~ a.ran
  <2>1. via \in Entries /\ active \in Lanes /\ Depth \in Nat /\ o \in Owner /\ c \in Calls \cup {None}
    BY Basics DEF Entries, Owner
  <2> QED
    BY <2>1, ScriptTyped, ScriptFields
<1> HIDE DEF a
<1>4. Rest' /\ Busy \subseteq Busy' /\ Waits \subseteq Waits'
  BY <1>1, RestStarts DEF StartInLane, Fresh, Surface, Same
<1>c. c \in Busy' /\ c \in Waits' /\ c \notin Busy
  BY <1>1 DEF IInv, Rest, Busy, Waits, Waiting
<1>5. Pushed(a) = 0 /\ a.via \in Switching /\ a.via \notin Exact /\ a.via \notin Uncounted
  BY <1>2 DEF Pushed, Switching, Exact, Uncounted
<1>6. Placed(a)
  BY <1>1, <1>2, <1>c, <1>5, AtHost DEF Placed
<1>7. InLane(a)
  <2>0. <<o>> \in Seq(Owner)
    BY DEF Owner
  <2>1. lanes' \in [Lanes -> Seq(Owner)]
    BY <1>1, <2>0, Basics
  <2>2. \A x \in Busy \cup {Root} : lanes'[x] = lanes[x] /\ Len(lanes[x]) \in Nat
    BY <1>1, <1>c, Basics, SandboxAssumption DEF Lanes
  <2>3. Len(lanes'[active]) >= Len(lanes[active]) + Pushed(a)
    BY <1>5, <2>2, Basics
  <2>4. \A x \in Busy \cup {Root} : Len(lanes'[x]) >= Len(lanes[x])
    BY <2>2
  <2> QED
    BY <1>1, <1>5, <1>c, <2>1, <2>3, <2>4 DEF InLane
<1>8. OnBudget(a, {CallFrame(c)})
  <2>1. CallFrame(c) \in Frame /\ CallFrame(c).lvl = 0 /\ CallFrame(c).call = c
    BY Basics, SandboxAssumption DEF CallFrame, Frame
  <2> QED
    BY <1>c, <2>1 DEF OnBudget
<1>9. syncDepth' = syncDepth + a.sync /\ cbDepth' = cbDepth + a.cb
  BY <1>1, <1>2, Claims DEF BookkeepingHolds, TypeOK
<1>10. Begins(a, {CallFrame(c)})
  BY <1>1, <1>4, <1>6, <1>7, <1>8, <1>9 DEF Begins
<1> QED
  BY <1>10, BeginsSound

-----------------------------------------------------------------------------
(* What a running script starts, and the callbacks a host calls. *)

LEMMA EmitStep ==
    ASSUME IInv, NEW o \in Mods, Emit(o)
    PROVE  IInv'
<1> DEFINE a == Script("emit", None, o, Depth)
<1>1. /\ stack' = Append(stack, a) /\ frames' = frames \cup {} /\ active' = active /\ seen' = seen /\ stray' = stray
      /\ syncDepth' = syncDepth /\ cbDepth' = cbDepth /\ InScript /\ Level < MaxDepth
      /\ lanes' = [lanes EXCEPT ![active] = Append(@, o)]
  BY DEF Emit, Push, Same
<1>2. a \in ScriptActivation /\ a.via = "emit" /\ a.call = None /\ a.base = Depth /\ a.prev = active
      /\ a.sync = 0 /\ a.cb = 0 /\ a.reg = {}
  <2>1. "emit" \in Entries /\ active \in Lanes /\ Depth \in Nat /\ o \in Owner /\ None \in Calls \cup {None}
    BY Basics DEF Entries, Owner
  <2> QED
    BY <2>1, ScriptTyped, ScriptFields
<1> HIDE DEF a
<1>4. Rest' /\ Busy \subseteq Busy' /\ Waits \subseteq Waits'
  BY RestStarts DEF Emit, Same, callVars
<1>5. Pushed(a) = 1 /\ a.via \notin Switching
  BY <1>2 DEF Pushed, Switching
<1>6. Placed(a)
  BY <1>1, <1>2 DEF Placed, InScript, Top, IsScript
<1>7. InLane(a)
  <2>1. /\ lanes' \in [Lanes -> Seq(Owner)] /\ \A x \in Lanes : Len(lanes'[x]) >= Len(lanes[x]) /\ Len(lanes[x]) \in Nat
        /\ Len(lanes'[active]) = Len(lanes[active]) + 1
    BY <1>1, Basics, FramePushed DEF Owner
  <2> QED
    BY <1>1, <1>4, <1>5, <2>1, Basics DEF InLane, Lanes
<1>9. syncDepth' = syncDepth + a.sync /\ cbDepth' = cbDepth + a.cb
  BY <1>1, <1>2, Claims DEF BookkeepingHolds, TypeOK
<1>10. Begins(a, {})
  BY <1>1, <1>4, <1>6, <1>7, <1>9 DEF Begins, OnBudget
<1> QED
  BY <1>10, BeginsSound

LEMMA CallCallbackStep ==
    ASSUME IInv, CallCallback
    PROVE  IInv'
<1> DEFINE own == Top.own
           r == Script("callback", None, own, Depth)
           a == [r EXCEPT !.cb = 1]
<1>1. /\ stack' = Append(stack, a) /\ frames' = frames \cup {} /\ active' = active /\ seen' = seen /\ stray' = stray /\ lanes' = lanes
      /\ syncDepth' = syncDepth /\ cbDepth' = cbDepth + 1 /\ Level < MaxDepth
      /\ stack # <<>> /\ ~ IsScript(stack[Len(stack)])
  BY DEF CallCallback, Push, Same, Top, IsScript
<1>o. own \in Owner
  <2>1. Len(stack) \in 1..Len(stack)
    BY <1>1, Basics
  <2> QED
    BY <1>1, <2>1, Basics, Kinds DEF Top
<1> HIDE DEF own
<1>2. r \in ScriptActivation /\ r.via = "callback" /\ r.call = None /\ r.base = Depth /\ r.prev = active
      /\ r.sync = 0 /\ r.reg = {} /\ ~ r.ran
  <2>1. "callback" \in Entries /\ active \in Lanes /\ Depth \in Nat /\ None \in Calls \cup {None}
    BY Basics DEF Entries
  <2> QED
    BY <1>o, <2>1, ScriptTyped, ScriptFields
<1> HIDE DEF r
<1>3. a \in ScriptActivation /\ a.via = "callback" /\ a.call = None /\ a.base = Depth /\ a.prev = active
      /\ a.sync = 0 /\ a.cb = 1 /\ a.reg = {} /\ a.ran = r.ran
  BY <1>2 DEF ScriptActivation
<1> HIDE DEF a
<1>4. Rest' /\ Busy \subseteq Busy' /\ Waits \subseteq Waits'
  BY RestStarts DEF CallCallback, Same, callVars
<1>5. Pushed(a) = 0 /\ a.via \notin Switching /\ a.via \notin Uncounted
  BY <1>2, <1>3 DEF Pushed, Switching, Uncounted
<1>6. Placed(a)
  BY <1>1, <1>3, <1>5 DEF Placed
<1>7. InLane(a)
  BY <1>1, <1>4, <1>5, Basics DEF InLane, Lanes
<1>9. syncDepth' = syncDepth + a.sync /\ cbDepth' = cbDepth + a.cb
  BY <1>1, <1>3, Claims DEF BookkeepingHolds, TypeOK
<1>10. Begins(a, {})
  BY <1>1, <1>4, <1>6, <1>7, <1>9 DEF Begins, OnBudget
<1> QED
  BY <1>10, BeginsSound

LEMMA CallLateStep ==
    ASSUME IInv, NEW p \in pend, CallLate(p)
    PROVE  IInv'
<1> DEFINE own == p.own
           id == p.id
           r == Script("late", None, own, Depth)
           a == [r EXCEPT !.cb = 1, !.pid = id]
<1>1. /\ stack' = Append(stack, a) /\ frames' = frames \cup {} /\ active' = active /\ seen' = seen /\ stray' = stray /\ lanes' = lanes
      /\ syncDepth' = syncDepth /\ cbDepth' = cbDepth + 1 /\ Level < MaxDepth /\ stack = <<>>
  BY DEF CallLate, Push, Same
<1>o. own \in Owner /\ id \in Nat
  BY DEF IInv, Rest, Pends, Work
<1> HIDE DEF own, id
<1>2. r \in ScriptActivation /\ r.via = "late" /\ r.call = None /\ r.base = Depth /\ r.prev = active
      /\ r.sync = 0 /\ r.reg = {} /\ ~ r.ran
  <2>1. "late" \in Entries /\ active \in Lanes /\ Depth \in Nat /\ None \in Calls \cup {None}
    BY Basics DEF Entries
  <2> QED
    BY <1>o, <2>1, ScriptTyped, ScriptFields
<1> HIDE DEF r
<1>3. a \in ScriptActivation /\ a.via = "late" /\ a.call = None /\ a.base = Depth /\ a.prev = active
      /\ a.sync = 0 /\ a.cb = 1 /\ a.reg = {} /\ a.ran = r.ran
  BY <1>o, <1>2 DEF ScriptActivation
<1> HIDE DEF a
<1>4. Rest' /\ Busy \subseteq Busy' /\ Waits \subseteq Waits'
  BY RestStarts DEF CallLate, Same, callVars
<1>5. Pushed(a) = 0 /\ a.via \notin Switching /\ a.via \notin Uncounted
  BY <1>2, <1>3 DEF Pushed, Switching, Uncounted
<1>6. Placed(a)
  BY <1>1, <1>3, <1>5 DEF Placed
<1>7. InLane(a)
  BY <1>1, <1>4, <1>5, Basics DEF InLane, Lanes
<1>9. syncDepth' = syncDepth + a.sync /\ cbDepth' = cbDepth + a.cb
  BY <1>1, <1>3, Claims DEF BookkeepingHolds, TypeOK
<1>10. Begins(a, {})
  BY <1>1, <1>4, <1>6, <1>7, <1>9 DEF Begins, OnBudget
<1> QED
  BY <1>10, BeginsSound

LEMMA CallRetainedStep ==
    ASSUME IInv, NEW h \in held, CallRetained(h)
    PROVE  IInv'
<1> DEFINE via == IF stack = <<>> THEN "between" ELSE "callback"
           fn == h.fn
           o == h.owner
           r == Script(via, None, fn, Depth)
           a == [r EXCEPT !.cb = 1, !.ran = TRUE]
           more == IF stack = <<>> THEN {LevelFrame(Level + 1)} ELSE {}
<1>1. /\ stack' = Append(stack, a) /\ frames' = frames \cup more /\ active' = active /\ seen' = seen /\ stray' = stray
      /\ lanes' = [lanes EXCEPT ![active] = Append(@, o)]
      /\ syncDepth' = syncDepth /\ cbDepth' = cbDepth + 1 /\ Level < MaxDepth /\ InHost
  BY DEF CallRetained, Push, Same
<1>o. fn \in Owner /\ o \in Owner /\ via \in {"between", "callback"} /\ (via = "callback" => stack # <<>>)
  BY DEF IInv, Rest
<1> HIDE DEF fn, o, via
<1>2. r \in ScriptActivation /\ r.via = via /\ r.call = None /\ r.base = Depth /\ r.prev = active
      /\ r.sync = 0 /\ r.reg = {}
  <2>1. via \in Entries /\ active \in Lanes /\ Depth \in Nat /\ None \in Calls \cup {None}
    BY <1>o, Basics DEF Entries
  <2> QED
    BY <1>o, <2>1, ScriptTyped, ScriptFields
<1> HIDE DEF r
<1>3. a \in ScriptActivation /\ a.via = via /\ a.call = None /\ a.base = Depth /\ a.prev = active
      /\ a.sync = 0 /\ a.cb = 1 /\ a.reg = {} /\ a.ran
  BY <1>2 DEF ScriptActivation
<1> HIDE DEF a
<1>4. Rest' /\ Busy \subseteq Busy' /\ Waits \subseteq Waits'
  BY RestStarts DEF CallRetained, Same, callVars
<1>5. Pushed(a) = 1 /\ a.via \notin Switching /\ a.via \notin Uncounted
  BY <1>o, <1>2, <1>3 DEF Pushed, Switching, Uncounted
<1>6. Placed(a)
  BY <1>o, <1>1, <1>3, <1>5, AtHost DEF Placed
<1>7. InLane(a)
  <2>1. /\ lanes' \in [Lanes -> Seq(Owner)] /\ \A x \in Lanes : Len(lanes'[x]) >= Len(lanes[x]) /\ Len(lanes[x]) \in Nat
        /\ Len(lanes'[active]) = Len(lanes[active]) + 1
    BY <1>o, <1>1, Basics, FramePushed
  <2> QED
    BY <1>1, <1>4, <1>5, <2>1, Basics DEF InLane, Lanes
<1>8. OnBudget(a, more)
  BY <1>o, <1>1, <1>3, Basics, LevelFrameTyped, SandboxAssumption DEF OnBudget
<1> HIDE DEF more
<1>9. syncDepth' = syncDepth + a.sync /\ cbDepth' = cbDepth + a.cb
  BY <1>1, <1>3, Claims DEF BookkeepingHolds, TypeOK
<1>10. Begins(a, more)
  BY <1>1, <1>4, <1>6, <1>7, <1>8, <1>9 DEF Begins
<1> QED
  BY <1>10, BeginsSound

LEMMA CallBindingStep ==
    ASSUME IInv, NEW async \in BOOLEAN, CallBinding(async)
    PROVE  IInv'
<1> DEFINE h == [k |-> "host", call |-> Top.call, own |-> Top.own, async |-> async, fatal |-> FALSE]
<1>1. /\ stack' = Append(stack, h) /\ UNCHANGED <<frames, lanes, active, syncDepth, cbDepth, stray, seen>>
      /\ stack # <<>> /\ IsScript(stack[Len(stack)]) /\ Len(stack) < MaxDepth
  BY DEF CallBinding, InScript, Level, Push, Same, Top, IsScript
<1>2. Len(stack) \in 1..Len(stack) /\ Sound(stack, frames, lanes, active, syncDepth, cbDepth, stray, Busy, Waits)
  BY <1>1, Basics DEF IInv
<1>3. Top.call \in Busy \cup {None} /\ Top.call \in Calls \cup {None} /\ Top.own \in Owner
  <2>1. Named(stack, active, Busy) /\ stack[Len(stack)] \in Activation
    BY <1>2, Basics DEF Sound
  <2> QED
    BY <1>1, <1>2, <2>1, Kinds DEF Top, Named
<1>4. h \in HostActivation
  BY <1>3 DEF HostActivation
<1>5. h.call = Top.call
  OBVIOUS
<1> HIDE DEF h
<1>6. Sound(Append(stack, h), frames, lanes, active, syncDepth, cbDepth, stray, Busy, Waits)
  BY <1>1, <1>2, <1>3, <1>4, <1>5, SoundHostIn
<1>7. Rest' /\ Busy \subseteq Busy' /\ Waits \subseteq Waits'
  BY RestStarts DEF CallBinding, Same, callVars
<1> QED
  BY <1>1, <1>6, <1>7, Assemble

-----------------------------------------------------------------------------
(* Steps that run and end nothing. *)

LEMMA TickStep ==
    ASSUME IInv, Tick
    PROVE  IInv'
<1>1. UNCHANGED <<ops, stack, frames, lanes, active, syncDepth, cbDepth, jobs, pend, st, todo, stalls, failing, answered,
                  held, cancelled, faulted, disposed, stray, seen>> /\ now' \in 0..MaxTime
  BY SandboxAssumption DEF Tick, Same, callVars, IInv, Rest
<1>2. Busy' = Busy /\ Waits' = Waits
  BY <1>1 DEF Busy, Waits, Waiting
<1> QED
  BY <1>1, <1>2 DEF IInv, Rest

LEMMA CancelStep ==
    ASSUME IInv, Cancel
    PROVE  IInv'
<1>1. UNCHANGED <<now, ops, stack, frames, lanes, active, syncDepth, cbDepth, jobs, pend, st, todo, stalls, failing, answered,
                  held, faulted, disposed, stray, seen>>
  BY DEF Cancel, Same, callVars
<1>2. Busy' = Busy /\ Waits' = Waits
  BY <1>1 DEF Busy, Waits, Waiting
<1>3. {cancelled', faulted', disposed'} \subseteq BOOLEAN
  BY <1>1, Zenon DEF Cancel, IInv, Rest
<1> QED
  BY <1>1, <1>2, <1>3 DEF IInv, Rest

LEMMA QueueJobStep ==
    ASSUME IInv, QueueJob
    PROVE  IInv'
<1>1. /\ UNCHANGED <<now, stack, frames, lanes, active, syncDepth, cbDepth, pend, st, todo, stalls, failing, answered,
                     held, cancelled, faulted, disposed, stray>> /\ seen' = seen \cup {"left"}
      /\ ops' \in 0..MaxOps /\ jobs' = Append(jobs, Job(None, Top.own))
  BY SandboxAssumption DEF QueueJob, Same, Left, callVars, IInv, Rest
<1>2. Busy' = Busy /\ Waits' = Waits
  BY <1>1 DEF Busy, Waits, Waiting
<1>3. Top.own \in Owner
  <2>1. stack # <<>>
    BY DEF QueueJob, InScript
  <2>2. Len(stack) \in 1..Len(stack)
    BY <2>1, Basics
  <2> QED
    BY <2>2, Basics, Kinds DEF Top
<1>4. Queue(Append(jobs, Job(None, Top.own)), Busy)
  <2>1. Job(None, Top.own) \in QueuedJob /\ Job(None, Top.own).call = None
    BY <1>3 DEF Job, QueuedJob
  <2>2. Queue(jobs, Busy)
    BY DEF IInv, Rest
  <2> QED
    BY <2>1, <2>2 DEF Queue
<1>5. Sound(stack, frames, lanes, active, syncDepth, cbDepth, stray', Busy, Waits)
  BY <1>1 DEF IInv
<1> QED
  BY <1>1, <1>2, <1>4, <1>5 DEF IInv, Rest

LEMMA RetainStep ==
    ASSUME IInv, Retain
    PROVE  IInv'
<1>1. /\ UNCHANGED <<now, stack, frames, lanes, active, syncDepth, cbDepth, jobs, pend, st, todo, stalls, failing, answered,
                     cancelled, faulted, disposed, stray>>
      /\ ops' \in 0..MaxOps /\ seen' \subseteq seen \cup {"misheld"}
  BY SandboxAssumption DEF Retain, Same, callVars, IInv, Rest
<1>2. Busy' = Busy /\ Waits' = Waits
  BY <1>1 DEF Busy, Waits, Waiting
<1>3. held' \subseteq [fn : Owner, owner : Owner]
  <2>1. PICK fn \in IF stack # <<>> /\ Top.k = "host" THEN {Top.own}
                    ELSE IF stack = <<>> THEN {p.own : p \in pend} ELSE {} :
           held' = held \cup {[fn |-> fn, owner |-> Current]}
    BY DEF Retain
  <2>2. fn \in Owner
    <3>1. CASE stack # <<>> /\ Top.k = "host"
      <4>1. Len(stack) \in 1..Len(stack)
        BY <3>1, Basics
      <4> QED
        BY <2>1, <3>1, <4>1, Basics, Kinds DEF Top
    <3>2. CASE stack = <<>>
      BY <2>1, <3>2 DEF IInv, Rest, Pends, Work
    <3> QED
      BY <2>1, <3>1, <3>2
  <2> QED
    BY <2>1, <2>2, Basics DEF IInv, Rest
<1> QED
  BY <1>1, <1>2, <1>3 DEF IInv, Rest

LEMMA ReleaseOwnerStep ==
    ASSUME IInv, NEW o, ReleaseOwner(o)
    PROVE  IInv'
<1>1. UNCHANGED <<now, ops, stack, frames, lanes, active, syncDepth, cbDepth, jobs, pend, st, todo, stalls, failing, answered,
                  cancelled, faulted, disposed, stray, seen>> /\ held' \subseteq held
  BY DEF ReleaseOwner, Same, callVars
<1>2. Busy' = Busy /\ Waits' = Waits
  BY <1>1 DEF Busy, Waits, Waiting
<1> QED
  BY <1>1, <1>2 DEF IInv, Rest

LEMMA DisposeStep ==
    ASSUME IInv, Dispose
    PROVE  IInv'
<1>1. UNCHANGED <<now, ops, stack, frames, lanes, active, syncDepth, cbDepth, jobs, st, todo, stalls, failing, answered,
                  cancelled, faulted, stray, seen>> /\ held' \subseteq held /\ pend' = {}
  BY DEF Dispose, Same, callVars
<1>2. Busy' = Busy /\ Waits' = Waits
  BY <1>1 DEF Busy, Waits, Waiting
<1>3. {cancelled', faulted', disposed'} \subseteq BOOLEAN
  BY <1>1, Zenon DEF Dispose, IInv, Rest
<1>4. Pends({}, Busy)
  BY FS_EmptySet DEF Pends
<1> QED
  BY <1>1, <1>2, <1>3, <1>4 DEF IInv, Rest

(* A call is answered: its frame and its lane go, and nothing running was in either. *)
LEMMA AnswerStep ==
    ASSUME IInv, NEW c \in Calls, Answer(c)
    PROVE  IInv'
<1>1. /\ UNCHANGED <<now, ops, stack, active, syncDepth, cbDepth, jobs, pend, st, todo, held, cancelled, faulted, disposed, seen>>
      /\ stack = <<>> /\ answered' = answered \cup {c} /\ stalls' = stalls \ {c} /\ failing' = failing \ {c}
      /\ lanes' = [lanes EXCEPT ![c] = <<>>] /\ frames' = {f \in frames : f.call # c}
      /\ stray' = [stray EXCEPT ![c] = 0] /\ c \in Busy
  BY DEF Answer, FramesOnAnswer, Same, IInv, Rest, Busy
<1>2. Busy' = Busy /\ Waits' = Waits \ {c}
  BY <1>1 DEF Busy, Waits, Waiting
<1>3. /\ lanes' \in [Lanes -> Seq(Owner)] /\ lanes'[Root] = lanes[Root]
      /\ stray' \in [Lanes -> Nat] /\ stray'[Root] = stray[Root]
  BY <1>1, Basics, SandboxAssumption DEF Lanes, IInv, Sound
<1>4. /\ Returns(stack, active) /\ Counted(stack, syncDepth, cbDepth) /\ Framed(stack, frames, Waits) /\ Named(stack, active, Busy)
      /\ stack \in Seq(Activation) /\ Len(stack) <= MaxDepth /\ active \in Lanes /\ frames \subseteq Frame /\ Alternates(stack)
      /\ Fits(stack, lanes, stray)
  BY DEF IInv, Sound
<1>5. Len(stack) = 0
  BY <1>1
<1>6. Holds(stack, lanes') /\ Fits(stack, lanes', stray')
  BY <1>1, <1>3, <1>4, <1>5 DEF Holds, Fits, Intact
<1>7. Framed(stack, frames', Waits')
  BY <1>1, <1>2, <1>4, <1>5 DEF Framed
<1>8. Sound(stack, frames', lanes', active, syncDepth, cbDepth, stray', Busy, Waits')
  BY <1>1, <1>3, <1>4, <1>6, <1>7 DEF Sound
<1>9. Rest'
  BY <1>1, <1>2 DEF IInv, Rest
<1> QED
  BY <1>1, <1>2, <1>8, <1>9 DEF IInv

-----------------------------------------------------------------------------
(* Draining the promise jobs. *)

LEMMA DrainSound ==
    ASSUME IInv, NEW stk, NEW frs, NEW lns, NEW prev, NEW m, NEW n, NEW mk, NEW busy, NEW waiting,
           Sound(stk, frs, lns, prev, m, n, mk, busy, waiting), busy \subseteq Calls,
           stk # <<>> => ~ IsScript(stk[Len(stk)]), Len(stk) < MaxDepth,
           NEW q, Queue(q, busy), NEW lane \in busy \cup {Root}, NEW reg, reg \subseteq busy,
           NEW over \in Seq(Owner), Drain(stk, frs, lns, q, lane, prev, reg, over)
    PROVE  /\ Sound(stack', frames', lanes', active', m, n, mk, busy, waiting)
           /\ Queue(jobs', busy) /\ stalls' \subseteq stalls \cup reg
<1>1. CASE q = <<>> \/ faulted
  BY <1>1 DEF Drain
<1>2. CASE ~ (q = <<>> \/ faulted)
  <2> DEFINE call == Head(q).call
             own == Head(q).own
             base == Len(lns[prev])
             lns2 == [lns EXCEPT ![prev] = @ \o over]
             r == Script("drain", call, own, base)
             a == [r EXCEPT !.prev = prev, !.reg = reg]
  <2>1. /\ stack' = Append(stk, a) /\ frames' = frs \cup {LevelFrame(Len(stk) + 1)}
        /\ lanes' = lns2 /\ active' = lane /\ jobs' = Tail(q) /\ stalls' = stalls
    BY <1>2 DEF Drain, DrainScript
  <2>2. /\ stk \in Seq(Activation) /\ lns \in [Lanes -> Seq(Owner)] /\ prev \in Lanes /\ Counted(stk, m, n) /\ Named(stk, prev, busy)
    BY DEF Sound
  <2>3. q \in Seq(QueuedJob) /\ q # <<>> /\ \A i \in 1..Len(q) : q[i].call \in busy \cup {None}
    BY <1>2 DEF Queue
  <2>4. Queue(Tail(q), busy)
    <3>1. Tail(q) \in Seq(QueuedJob) /\ \A i \in 1..Len(Tail(q)) : i + 1 \in 1..Len(q) /\ Tail(q)[i] = q[i + 1]
      BY <2>3
    <3> QED
      BY <2>3, <3>1 DEF Queue
  <2>5. call \in busy \cup {None} /\ call \in Calls \cup {None} /\ own \in Owner
    <3>1. Head(q) = q[1] /\ 1 \in 1..Len(q) /\ q[1] \in QueuedJob
      BY <2>3
    <3> QED
      BY <2>3, <3>1 DEF QueuedJob
  <2>6. base \in Nat /\ base = Len(lns[prev])
    BY <2>2
  <2>6a. /\ lns2 \in [Lanes -> Seq(Owner)]
         /\ \A x \in Lanes : Len(lns2[x]) >= Len(lns[x]) /\ Len(lns[x]) \in Nat
    <3>1. lns[prev] \o over \in Seq(Owner) /\ Len(lns[prev] \o over) = Len(lns[prev]) + Len(over) /\ Len(over) \in Nat
      BY <2>2
    <3>2. lns2[prev] = lns[prev] \o over /\ \A x \in Lanes \ {prev} : lns2[x] = lns[x]
      BY <2>2
    <3>3. \A x \in Lanes : lns[x] \in Seq(Owner)
      BY <2>2
    <3>4. \A x \in Lanes : Len(lns[x]) \in Nat
      BY <3>3
    <3>5. lns2 \in [Lanes -> Seq(Owner)]
      BY <2>2, <3>1
    <3> HIDE DEF lns2
    <3> QED
      BY <3>1, <3>2, <3>4, <3>5
  <2> HIDE DEF call, own, base, lns2
  <2>7. r \in ScriptActivation /\ r.via = "drain" /\ r.call = call /\ r.base = base /\ r.sync = 0 /\ r.cb = 0 /\ ~ r.ran
    <3>1. "drain" \in Entries /\ active \in Lanes
      BY Basics DEF Entries
    <3>2. r \in ScriptActivation
      BY <2>5, <2>6, <3>1, ScriptTyped
    <3> QED
      BY <3>2, ScriptFields
  <2> HIDE DEF r
  <2>8. a \in ScriptActivation /\ a.via = "drain" /\ a.call = call /\ a.base = base /\ a.prev = prev /\ a.reg = reg
        /\ a.sync = 0 /\ a.cb = 0 /\ a.ran = r.ran
    BY <2>2, <2>7 DEF ScriptActivation
  <2> HIDE DEF a
  <2>9. Pushed(a) = 0 /\ a.via \in Switching /\ a.via \notin Exact
    BY <2>7, <2>8 DEF Pushed, Switching, Exact
  <2>10. m \in Nat /\ n \in Nat
    BY <2>2, FiniteLevels, FS_CardinalityType DEF Counted
  <2>11. LevelFrame(Len(stk) + 1) \in Frame /\ LevelFrame(Len(stk) + 1).lvl = Len(stk) + 1
    <3>1. Len(stk) + 1 \in 1..MaxDepth
      BY <2>2, SandboxAssumption
    <3> QED
      BY <3>1, LevelFrameTyped
  <2>12. lane \in Lanes
    BY DEF Lanes
  <2>13. /\ a.base = Len(lns[prev]) /\ Len(lns2[prev]) >= Len(lns[prev]) + Pushed(a)
         /\ \A x \in busy \cup {Root} : Len(lns2[x]) >= Len(lns[x])
    <3>1. \A x \in busy \cup {Root} : x \in Lanes
      BY DEF Lanes
    <3> QED
      BY <2>2, <2>6, <2>6a, <2>8, <2>9, <3>1
  <2>14. Sound(Append(stk, a), frs \cup {LevelFrame(Len(stk) + 1)}, lns2, lane, m + a.sync, n + a.cb, mk, busy, waiting)
    <3>1. /\ a.via # "emit" /\ a.via # "callback" /\ a.call \in busy \cup {None} /\ a.reg \subseteq busy
          /\ a.via \notin {"executeAsync", "invokeAsync", "module"}
      BY <2>5, <2>8
    <3>2. \A f \in {LevelFrame(Len(stk) + 1)} : f \in Frame /\ f.lvl = Len(stk) + 1
      BY <2>11
    <3> QED
      BY <2>2, <2>6a, <2>8, <2>9, <2>12, <2>13, <3>1, <3>2, SoundStart, ZenonT(60)
  <2> QED
    BY <2>1, <2>4, <2>8, <2>10, <2>14
<1> QED
  BY <1>1, <1>2

LEMMA SettleStep ==
    ASSUME IInv, NEW p \in pend, Settle(p)
    PROVE  IInv'
<1> DEFINE q == IF p.call = None THEN jobs ELSE Append(jobs, Job(p.call, p.own))
<1>0. Rest /\ Sound(stack, frames, lanes, active, syncDepth, cbDepth, stray, Busy, Waits) /\ Busy \subseteq Calls
  BY DEF IInv, Busy
<1>1. /\ stack = <<>> /\ pend' = pend \ {p} /\ Settled(p.call, "queued") /\ seen' = (IF jobs # <<>> \/ faulted THEN seen \cup {"left"} ELSE seen)
      /\ Drain(<<>>, frames, lanes, q, p.lane, active, {}, <<>>) /\ <<>> \in Seq(Owner)
      /\ UNCHANGED <<now, ops, syncDepth, cbDepth, todo, failing, answered, held, cancelled, faulted, disposed, stray>>
  BY DEF Settle, Left, Same
<1>2. p.call \in Busy \cup {None} /\ p.call \in Calls \cup {None} /\ p.lane \in Busy \cup {Root} /\ p.own \in Owner
  BY <1>0 DEF Rest, Pends, Work
<1>3. Queue(q, Busy)
  <2>1. CASE p.call = None
    BY <1>0, <2>1 DEF Rest
  <2>2. CASE p.call # None
    <3>1. Job(p.call, p.own) \in QueuedJob /\ Job(p.call, p.own).call \in Busy \cup {None}
      BY <1>2 DEF Job, QueuedJob
    <3>2. Queue(jobs, Busy)
      BY <1>0 DEF Rest
    <3> QED
      BY <2>2, <3>1, <3>2 DEF Queue
  <2> QED
    BY <2>1, <2>2
<1> HIDE DEF q
<1>4. Busy \subseteq Busy' /\ Waits \subseteq Waits' /\ st' \in [Calls -> Status]
  BY <1>0, <1>1, <1>2, SettledMore DEF Status
<1>5. Sound(<<>>, frames, lanes, active, syncDepth, cbDepth, stray', Busy, Waits)
  BY <1>0, <1>1, SoundMore
<1>6. Len(<<>>) < MaxDepth
  BY SandboxAssumption
<1>7. /\ Sound(stack', frames', lanes', active', syncDepth, cbDepth, stray', Busy, Waits)
      /\ Queue(jobs', Busy) /\ stalls' \subseteq stalls \cup {}
  BY <1>0, <1>1, <1>2, <1>3, <1>5, <1>6, DrainSound
<1>8. Queue(jobs', Busy') /\ Pends(pend', Busy')
  <2>1. Pends(pend', Busy)
    BY <1>0, <1>1, FS_Subset DEF Rest, Pends
  <2> QED
    BY <1>4, <1>7, <2>1, MoreNamed
<1>9. Rest'
  <2>1. Queue(jobs, Busy)' /\ Pends(pend, Busy)'
    BY <1>8
  <2> QED
    BY <1>0, <1>1, <1>4, <1>7, <2>1 DEF Rest
<1> QED
  BY <1>1, <1>4, <1>7, <1>9, Assemble

LEMMA ModuleDrainStep ==
    ASSUME IInv, NEW c \in Calls, ModuleDrain(c)
    PROVE  IInv'
<1>0. Rest /\ Sound(stack, frames, lanes, active, syncDepth, cbDepth, stray, Busy, Waits) /\ Busy \subseteq Calls
  BY DEF IInv, Busy
<1>1. /\ stack = <<>> /\ c \in todo /\ todo' = todo \ {c}
      /\ Drain(<<>>, frames, lanes, jobs, c, active, {}, <<>>) /\ <<>> \in Seq(Owner)
      /\ UNCHANGED <<now, ops, syncDepth, cbDepth, pend, st, failing, answered, held, cancelled, faulted, disposed, stray, seen>>
  BY DEF ModuleDrain, Same
<1>2. c \in Busy /\ Queue(jobs, Busy)
  BY <1>0, <1>1 DEF Rest
<1>3. Busy' = Busy /\ Waits' = Waits
  BY <1>1 DEF Busy, Waits, Waiting
<1>4. Sound(<<>>, frames, lanes, active, syncDepth, cbDepth, stray, Busy, Waits) /\ Len(<<>>) < MaxDepth
  BY <1>0, <1>1, SandboxAssumption
<1>5. /\ Sound(stack', frames', lanes', active', syncDepth, cbDepth, stray, Busy, Waits)
      /\ Queue(jobs', Busy) /\ stalls' \subseteq stalls \cup {}
  BY <1>0, <1>1, <1>2, <1>4, DrainSound
<1>6. Rest'
  BY <1>0, <1>1, <1>3, <1>5 DEF Rest
<1> QED
  BY <1>1, <1>3, <1>5, <1>6 DEF IInv

-----------------------------------------------------------------------------
(* The end of a script. *)

LEMMA OneFewer ==
    ASSUME NEW s \in Seq(Owner), NEW k \in 1..Len(s)
    PROVE  RemoveAt(s, k) \in Seq(Owner) /\ Len(RemoveAt(s, k)) = Len(s) - 1
<1> DEFINE front == SubSeq(s, 1, k - 1)
           back == SubSeq(s, k + 1, Len(s))
<1>1. front \in Seq(Owner) /\ Len(front) = k - 1
  OBVIOUS
<1>2. back \in Seq(Owner) /\ Len(back) = Len(s) - k
  OBVIOUS
<1>3. RemoveAt(s, k) = front \o back
  BY Zenon DEF RemoveAt
<1> HIDE DEF front, back
<1> QED
  BY <1>1, <1>2, <1>3

(* The caller stack its end leaves: what it was started with, and under a callback what else lies on it. *)
LEMMA LaneBack ==
    ASSUME NEW stk \in Seq(Activation), lanes \in [Lanes -> Seq(Owner)], Holds(stk, lanes), NEW b \in 1..Len(stk), IsScript(stk[b])
    PROVE  LET a == stk[b] lns2 == LanesAfter(a) IN
           /\ lns2 \in [Lanes -> Seq(Owner)] /\ \A x \in Lanes \ {a.prev} : lns2[x] = lanes[x]
           /\ Len(lns2[a.prev]) >= a.base
           /\ a.via \notin {"callback", "late"} => Len(lns2[a.prev]) = a.base
           /\ Len(lanes[a.prev]) = a.base + Pushed(a) => Len(lns2[a.prev]) = a.base
<1> DEFINE a == stk[b]
           lane == lanes[a.prev]
           lns2 == LanesAfter(a)
<1>1. a \in Activation /\ a.prev \in Lanes /\ a.base \in Nat /\ a.ran \in BOOLEAN /\ Pushed(a) \in Nat
  BY Kinds, PushedType
<1>2. lane \in Seq(Owner) /\ Len(lane) \in Nat /\ Len(lane) >= a.base + Pushed(a)
  BY <1>1 DEF Holds
<1>4. a.ran => Pushed(a) = 1
  BY DEF Pushed
<1>5. ~ a.ran /\ a.via \in {"callback", "late"} => Pushed(a) = 0
  BY DEF Pushed
<1>6. CASE a.via \notin {"callback", "late"}
  <2> DEFINE new == IF Len(lane) > a.base THEN SubSeq(lane, 1, a.base) ELSE lane
  <2>1. lns2 = [lanes EXCEPT ![a.prev] = new]
    BY <1>6 DEF LanesAfter, Unwound
  <2>2. new \in Seq(Owner) /\ Len(new) = a.base
    BY <1>1, <1>2
  <2> HIDE DEF new, lns2, lane, a
  <2> QED
    BY <1>1, <1>6, <2>1, <2>2 DEF a, lns2
<1>7. CASE a.via \in {"callback", "late"} /\ a.ran
  <2> DEFINE new == RemoveAt(lane, a.base + 1)
  <2>1. lns2 = [lanes EXCEPT ![a.prev] = new]
    BY <1>7 DEF LanesAfter
  <2>2. new \in Seq(Owner) /\ Len(new) = Len(lane) - 1
    <3>1. a.base + 1 \in 1..Len(lane)
      BY <1>1, <1>2, <1>4, <1>7
    <3> HIDE DEF lane
    <3> QED
      BY <1>2, <3>1, OneFewer
  <2>3. lns2 \in [Lanes -> Seq(Owner)] /\ lns2[a.prev] = new /\ \A x \in Lanes \ {a.prev} : lns2[x] = lanes[x]
    <3> HIDE DEF new, lns2, a
    <3> QED
      BY <1>1, <2>1, <2>2
  <2>4. Len(lane) = a.base + 1 <=> Len(new) = a.base
    BY <1>1, <1>2, <2>2
  <2>5. Len(new) >= a.base /\ Pushed(a) = 1
    BY <1>1, <1>2, <1>4, <1>7, <2>2
  <2> HIDE DEF new, lns2
  <2> QED
    BY <1>7, <2>3, <2>4, <2>5 DEF lns2
<1>8. CASE a.via \in {"callback", "late"} /\ ~ a.ran
  <2>1. lns2 = lanes
    BY <1>8 DEF LanesAfter
  <2> HIDE DEF lns2
  <2> QED
    BY <1>1, <1>2, <1>5, <1>8, <2>1 DEF lns2
<1> QED
  BY <1>6, <1>7, <1>8

(* Of the lanes, the bookkeeping of a running stack sees only how long they are, and of a mark at or above the
   activation on top only whether that activation's frame is the last. *)
LEMMA SoundMarks ==
    ASSUME NEW stk, NEW frs, NEW lns, NEW act, NEW m, NEW n, NEW mk, NEW busy, NEW waiting,
           Sound(stk, frs, lns, act, m, n, mk, busy, waiting),
           NEW lvl \in 1..Len(stk), lvl = Len(stk), IsScript(stk[lvl]),
           NEW lns2 \in [Lanes -> Seq(Owner)], \A x \in Lanes : Len(lns2[x]) = Len(lns[x]),
           NEW mk2 \in [Lanes -> Nat], \A x \in Lanes \ {stk[lvl].prev} : mk2[x] = mk[x],
           \A k \in Nat : k <= stk[lvl].base => (Intact(mk2, stk[lvl].prev, k) <=> Intact(mk, stk[lvl].prev, k)),
           Intact(mk2, stk[lvl].prev, Len(lns[stk[lvl].prev])) => Len(lns[stk[lvl].prev]) = stk[lvl].base + Pushed(stk[lvl])
    PROVE  Sound(stk, frs, lns2, act, m, n, mk2, busy, waiting)
<1>1. stk \in Seq(Activation) /\ Holds(stk, lns) /\ Fits(stk, lns, mk) /\ Alternates(stk) /\ Returns(stk, act) /\ stk # <<>>
  BY DEF Sound
<1>2. \A i \in 1..Len(stk) : IsScript(stk[i]) => stk[i].prev \in Lanes /\ stk[i].base \in Nat /\ Pushed(stk[i]) \in Nat
  BY <1>1, Kinds, PushedType
<1>3. Holds(stk, lns2)
  BY <1>1, <1>2 DEF Holds
<1>4. ASSUME NEW j \in 1..Len(stk), IsScript(stk[j]), Intact(mk2, stk[j].prev, stk[j].base)
      PROVE  Intact(mk, stk[j].prev, stk[j].base)
  <2>0. stk[j].prev \in Lanes /\ stk[j].base \in Nat /\ Pushed(stk[j]) \in Nat /\ stk[lvl].base \in Nat
    BY <1>2, <1>4
  <2>1. CASE stk[j].prev = stk[lvl].prev
    <3>1. stk[j].base <= stk[lvl].base
      <4>1. CASE j = lvl
        BY <2>0, <4>1
      <4>2. CASE j # lvl
        <5>1. j < lvl
          BY <4>2
        <5>2. stk[lvl].base >= stk[j].base + Pushed(stk[j])
          BY <1>1, <1>4, <2>1, <5>1 DEF Holds
        <5> QED
          BY <2>0, <5>2
      <4> QED
        BY <4>1, <4>2
    <3> QED
      BY <1>4, <2>0, <2>1, <3>1
  <2>2. CASE stk[j].prev # stk[lvl].prev
    BY <1>4, <2>0, <2>2 DEF Intact
  <2> QED
    BY <2>1, <2>2
<1>5. Fits(stk, lns2, mk2)
  <2>1. Intact(mk2, Root, stk[1].base) => stk[1].base = 0
    <3>1. 1 \in 1..Len(stk) /\ IsScript(stk[1]) /\ stk[1].prev = Root
      BY <1>1 DEF Returns, Alternates
    <3> QED
      BY <1>1, <1>4, <3>1 DEF Fits
  <2>2. ASSUME NEW i \in 1..Len(stk), NEW j \in 1..Len(stk), Follows(stk, i, j), stk[i].via \in Exact, Intact(mk2, stk[j].prev, stk[j].base)
        PROVE  stk[j].base = stk[i].base + Pushed(stk[i])
    <3>1. Intact(mk, stk[j].prev, stk[j].base)
      BY <1>4, <2>2 DEF Follows
    <3> QED
      BY <1>1, <2>2, <3>1 DEF Fits
  <2>3. \A i \in 1..Len(stk) : Topmost(stk, i) => i = lvl
    BY DEF Topmost
  <2>4. \A i \in 1..Len(stk) : Topmost(stk, i) /\ stk[i].via \in Exact /\ Intact(mk2, stk[i].prev, Len(lns2[stk[i].prev]))
                              => Len(lns2[stk[i].prev]) = stk[i].base + Pushed(stk[i])
    BY <1>2, <2>3
  <2> QED
    BY <1>1, <2>1, <2>2, <2>4 DEF Fits
<1> QED
  BY <1>3, <1>5 DEF Sound

(* An activation ends and nothing more runs in its place. *)
LEMMA SoundLeaves ==
    ASSUME NEW stk, NEW act, NEW m, NEW n, NEW mk, NEW busy, NEW waiting,
           Sound(stk, frames, lanes, act, m, n, mk, busy, waiting),
           NEW b \in 1..Len(stk), IsScript(stk[b]), Bare(stk, b)
    PROVE  Sound(SubSeq(stk, 1, b - 1), FramesAfter(b), LanesAfter(stk[b]), stk[b].prev, m - stk[b].sync, n - stk[b].cb,
                 Marked(mk, LanesAfter(stk[b]), stk[b].prev, stk[b].base), busy, waiting)
<1>1. stk \in Seq(Activation) /\ lanes \in [Lanes -> Seq(Owner)] /\ Holds(stk, lanes)
  BY DEF Sound
<1>2. /\ LanesAfter(stk[b]) \in [Lanes -> Seq(Owner)] /\ \A x \in Lanes \ {stk[b].prev} : LanesAfter(stk[b])[x] = lanes[x]
      /\ Len(LanesAfter(stk[b])[stk[b].prev]) >= stk[b].base
  BY <1>1, LaneBack
<1> DEFINE lns2 == LanesAfter(stk[b])
           mk2 == Marked(mk, lns2, stk[b].prev, stk[b].base)
<1>3. /\ lns2 \in [Lanes -> Seq(Owner)] /\ \A x \in Lanes \ {stk[b].prev} : lns2[x] = lanes[x]
      /\ Len(lns2[stk[b].prev]) >= stk[b].base
  BY <1>1, <1>2
<1> HIDE DEF lns2
<1>4. FramesAfter(b) = {f \in frames : f.lvl # b} /\ mk2 = Marked(mk, lns2, stk[b].prev, stk[b].base)
  BY DEF FramesAfter
<1> HIDE DEF mk2
<1>5. Sound(SubSeq(stk, 1, b - 1), FramesAfter(b), lns2, stk[b].prev, m - stk[b].sync, n - stk[b].cb, mk2, busy, waiting)
  BY <1>3, <1>4, SoundEnd
<1> QED
  BY <1>5 DEF lns2, mk2

(* The same for one that has no interrupt frame of its own. *)
LEMMA SoundPops ==
    ASSUME NEW stk, NEW frs, NEW lns, NEW act, NEW m, NEW n, NEW mk, NEW busy, NEW waiting,
           Sound(stk, frs, lns, act, m, n, mk, busy, waiting),
           NEW b \in 1..Len(stk), IsScript(stk[b]), Bare(stk, b), \A f \in frs : f.lvl # b,
           NEW lns2 \in [Lanes -> Seq(Owner)], \A x \in Lanes \ {stk[b].prev} : lns2[x] = lns[x],
           Len(lns2[stk[b].prev]) >= stk[b].base,
           NEW mk2, mk2 = Marked(mk, lns2, stk[b].prev, stk[b].base)
    PROVE  Sound(SubSeq(stk, 1, b - 1), frs, lns2, stk[b].prev, m - stk[b].sync, n - stk[b].cb, mk2, busy, waiting)
<1>2. frs = {f \in frs : f.lvl # b}
  OBVIOUS
<1> QED
  BY <1>2, SoundEnd

(* leaveCaller: one frame fewer on the lane in force. *)
LEMMA LanePopped ==
    ASSUME lanes \in [Lanes -> Seq(Owner)], active \in Lanes, Len(lanes[active]) >= 1
    PROVE  /\ Popped \in [Lanes -> Seq(Owner)] /\ Len(Popped[active]) = Len(lanes[active]) - 1
           /\ \A x \in Lanes \ {active} : Popped[x] = lanes[x]
           /\ Popped[active] = Front(lanes[active])
           /\ \A k \in 1..(Len(lanes[active]) - 1) : Popped[active][k] = lanes[active][k]
<1> DEFINE new == Front(lanes[active])
<1>0. lanes[active] \in Seq(Owner)
  OBVIOUS
<1>1. new \in Seq(Owner) /\ Len(new) = Len(lanes[active]) - 1 /\ \A k \in 1..(Len(lanes[active]) - 1) : new[k] = lanes[active][k]
  <2>1. ASSUME NEW s \in Seq(Owner), Len(s) >= 1
        PROVE  Front(s) \in Seq(Owner) /\ Len(Front(s)) = Len(s) - 1 /\ \A k \in 1..(Len(s) - 1) : Front(s)[k] = s[k]
    <3> DEFINE n == Len(s) - 1
    <3>1. n \in Nat /\ n <= Len(s) /\ Front(s) = SubSeq(s, 1, n) /\ 1..n \subseteq 1..Len(s)
      BY <2>1 DEF Front
    <3> HIDE DEF n
    <3>2. SubSeq(s, 1, n) \in Seq(Owner) /\ Len(SubSeq(s, 1, n)) = n /\ \A k \in 1..n : SubSeq(s, 1, n)[k] = s[k]
      BY <2>1, <3>1
    <3> QED
      BY <3>1, <3>2 DEF n
  <2> QED
    BY <1>0, <2>1
<1>2. Popped = [lanes EXCEPT ![active] = new]
  BY DEF Popped
<1> HIDE DEF new
<1>3. /\ Popped \in [Lanes -> Seq(Owner)] /\ Popped[active] = new
      /\ \A x \in Lanes \ {active} : Popped[x] = lanes[x]
  BY <1>1, <1>2
<1> QED
  BY <1>1, <1>3 DEF new

(* The last activation of a stack is changed, but not what its end restores. *)
LEMMA TopAlike ==
    ASSUME NEW stk \in Seq(Activation), NEW lvl \in 1..Len(stk), lvl = Len(stk), NEW a2 \in Activation, IsScript(stk[lvl]), IsScript(a2),
           a2.via = stk[lvl].via, a2.prev = stk[lvl].prev, a2.base = stk[lvl].base, a2.ran = stk[lvl].ran,
           a2.sync = stk[lvl].sync, a2.cb = stk[lvl].cb,
           NEW act, NEW busy, Named(stk, act, busy), a2.call \in busy \cup {None}, a2.reg = stk[lvl].reg,
           a2.via \notin {"executeAsync", "invokeAsync", "module"}
    PROVE  LET stk2 == Append(SubSeq(stk, 1, lvl - 1), a2) IN stk2 \in Seq(Activation) /\ Alike(stk, stk2) /\ Named(stk2, act, busy)
<1> DEFINE below == SubSeq(stk, 1, lvl - 1)
           stk2 == Append(below, a2)
<1>1. below \in Seq(Activation) /\ Len(below) = lvl - 1 /\ \A i \in 1..(lvl - 1) : below[i] = stk[i]
  BY Beneath
<1> HIDE DEF below
<1>2. stk2 \in Seq(Activation) /\ Len(stk2) = Len(below) + 1 /\ (\A i \in 1..Len(below) : stk2[i] = below[i]) /\ stk2[Len(below) + 1] = a2
  BY <1>1, OneMore
<1>3. Len(stk2) = lvl /\ stk2[lvl] = a2 /\ \A i \in 1..lvl : i # lvl => stk2[i] = stk[i]
  BY <1>1, <1>2
<1> HIDE DEF stk2
<1>4. Alike(stk, stk2)
  <2>1. stk[lvl].k = a2.k
    BY DEF IsScript
  <2> QED
    BY <1>3, <2>1 DEF Alike
<1>5. Named(stk2, act, busy)
  <2>1. ASSUME NEW i \in 1..Len(stk2)
        PROVE  /\ stk2[i].call \in busy \cup {None}
               /\ IsScript(stk2[i]) => stk2[i].prev \in busy \cup {Root} /\ stk2[i].reg \subseteq busy
               /\ IsScript(stk2[i]) /\ stk2[i].via \in {"executeAsync", "invokeAsync", "module"} => stk2[i].call \in busy
    <3>1. CASE i = lvl
      <4>1. stk2[i] = a2 /\ stk[lvl].prev \in busy \cup {Root} /\ stk[lvl].reg \subseteq busy
        BY <1>3, <3>1 DEF Named
      <4> QED
        BY <4>1
    <3>2. CASE i # lvl
      <4>1. stk2[i] = stk[i] /\ i \in 1..Len(stk)
        BY <1>3, <3>2
      <4> QED
        BY <4>1 DEF Named
    <3> QED
      BY <3>1, <3>2
  <2> QED
    BY <2>1 DEF Named
<1> QED
  BY <1>2, <1>4, <1>5 DEF stk2, below

(* An end marks nothing in a lane without strays: it finds just what it cuts off. *)
LEMMA NothingMarked ==
    ASSUME NEW mk \in [Lanes -> Nat], NEW l \in Lanes, NEW lns \in [Lanes -> Seq(Owner)], NEW base \in Nat,
           mk[l] = 0 => Len(lns[l]) = base
    PROVE  Cleared(mk, lns, l, base) = Marked(mk, lns, l, base)
<1>1. CASE mk[l] = 0
  <2>1. Len(lns[l]) \in Nat /\ ~ (Len(lns[l]) > base) /\ ~ (0 > base)
    BY <1>1
  <2>2. Marked(mk, lns, l, base) = [mk EXCEPT ![l] = 0]
    BY <1>1, <2>1 DEF Marked
  <2>3. [mk EXCEPT ![l] = 0] = mk
    BY <1>1
  <2> QED
    BY <1>1, <2>2, <2>3 DEF Cleared
<1>2. CASE mk[l] # 0
  BY <1>2 DEF Cleared
<1> QED
  BY <1>1, <1>2
LEMMA EndClears ==
    ASSUME NEW stk, NEW frs, NEW act, NEW m, NEW n, NEW mk, NEW busy, NEW waiting,
           Sound(stk, frs, lanes, act, m, n, mk, busy, waiting), NEW b \in 1..Len(stk), b = Len(stk), IsScript(stk[b])
    PROVE  Cleared(mk, LanesAfter(stk[b]), stk[b].prev, stk[b].base) = Marked(mk, LanesAfter(stk[b]), stk[b].prev, stk[b].base)
<1> DEFINE a == stk[b]
           lns2 == LanesAfter(a)
<1>1. /\ stk \in Seq(Activation) /\ lanes \in [Lanes -> Seq(Owner)] /\ Holds(stk, lanes) /\ mk \in [Lanes -> Nat]
      /\ Fits(stk, lanes, mk) /\ Topmost(stk, b)
  BY DEF Sound, Topmost
<1>2. a.prev \in Lanes /\ a.base \in Nat
  BY <1>1, Kinds
<1>3. /\ lns2 \in [Lanes -> Seq(Owner)]
      /\ a.via \notin {"callback", "late"} => Len(lns2[a.prev]) = a.base
      /\ Len(lanes[a.prev]) = a.base + Pushed(a) => Len(lns2[a.prev]) = a.base
  BY <1>1, LaneBack
<1>4. mk[a.prev] = 0 /\ a.via \in {"callback", "late"} => Len(lanes[a.prev]) = a.base + Pushed(a)
  BY <1>1 DEF Fits, Exact, Intact
<1> HIDE DEF a, lns2
<1>5. Cleared(mk, lns2, a.prev, a.base) = Marked(mk, lns2, a.prev, a.base)
  BY <1>1, <1>2, <1>3, <1>4, NothingMarked
<1> QED
  BY <1>5 DEF a, lns2
LEMMA PopClears ==
    ASSUME NEW stk, NEW frs, NEW m, NEW n, NEW mk, NEW busy, NEW waiting,
           Sound(stk, frs, lanes, active, m, n, mk, busy, waiting),
           NEW b \in 1..Len(stk), b = Len(stk), IsScript(stk[b]), stk[b].via \in {"fire", "emit"}
    PROVE  Cleared(mk, Popped, active, stk[b].base) = Marked(mk, Popped, active, stk[b].base)
<1> DEFINE a == stk[b]
<1>1. /\ stk \in Seq(Activation) /\ lanes \in [Lanes -> Seq(Owner)] /\ Holds(stk, lanes) /\ mk \in [Lanes -> Nat]
      /\ Fits(stk, lanes, mk) /\ Returns(stk, active) /\ Topmost(stk, b)
  BY DEF Sound, Topmost
<1>2. a.prev \in Lanes /\ a.base \in Nat
  BY <1>1, Kinds
<1>3. active = a.prev /\ Pushed(a) = 1
  BY <1>1 DEF Returns, Switching, Pushed
<1>4. Len(lanes[active]) \in Nat /\ Len(lanes[active]) >= a.base + 1
  BY <1>1, <1>2, <1>3 DEF Holds
<1>5. mk[active] = 0 => Len(lanes[active]) = a.base + 1
  BY <1>1, <1>3 DEF Fits, Exact, Intact
<1> HIDE DEF a
<1>6. Popped \in [Lanes -> Seq(Owner)] /\ Len(Popped[active]) = Len(lanes[active]) - 1
  BY <1>1, <1>2, <1>3, <1>4, LanePopped
<1>7. mk[active] = 0 => Len(Popped[active]) = a.base
  BY <1>2, <1>4, <1>5, <1>6
<1>8. Cleared(mk, Popped, active, a.base) = Marked(mk, Popped, active, a.base)
  BY <1>1, <1>2, <1>3, <1>6, <1>7, NothingMarked
<1> QED
  BY <1>8 DEF a

LEMMA FinishSound ==
    ASSUME IInv, NEW stk, Sound(stk, frames, lanes, active, syncDepth, cbDepth, stray, Busy, Waits),
           NEW lvl \in 1..Len(stk), lvl = Len(stk), NEW a, a = stk[lvl], IsScript(a),
           SubSeq(stack, 1, lvl - 1) = SubSeq(stk, 1, lvl - 1),
           NEW how, NEW q, Queue(q, Busy), Finish(a, lvl, how, q)
    PROVE  /\ Sound(stack', frames', lanes', active', syncDepth', cbDepth', stray', Busy, Waits)
           /\ Queue(jobs', Busy) /\ stalls' \subseteq Busy /\ todo' \subseteq Busy
<1> DEFINE below == SubSeq(stk, 1, lvl - 1)
<1>1. /\ stk \in Seq(Activation) /\ Len(stk) <= MaxDepth /\ lanes \in [Lanes -> Seq(Owner)] /\ active \in Lanes /\ frames \subseteq Frame
      /\ Alternates(stk) /\ Returns(stk, active) /\ Holds(stk, lanes) /\ Framed(stk, frames, Waits) /\ Named(stk, active, Busy)
      /\ stray \in [Lanes -> Nat] /\ Fits(stk, lanes, stray) /\ stk # <<>>
  BY DEF Sound
<1>2. /\ a \in Activation /\ a \in ScriptActivation /\ a.via \in Entries /\ a.prev \in Lanes /\ a.base \in Nat
      /\ a.reg \subseteq Busy /\ a.prev \in Busy \cup {Root} /\ a.rest \in Seq(Mods)
      /\ a.via \in {"executeAsync", "invokeAsync", "module"} => a.call \in Busy
  BY <1>1, Kinds DEF Named
<1>3. Topmost(stk, lvl) /\ Bare(stk, lvl)
  BY <1>1 DEF Topmost, Bare
<1>4. Sound(below, FramesAfter(lvl), LanesAfter(a), a.prev, syncDepth - a.sync, cbDepth - a.cb,
            Marked(stray, LanesAfter(a), a.prev, a.base), Busy, Waits)
  BY <1>3, SoundLeaves
<1>5. below \in Seq(Activation) /\ Len(below) = lvl - 1 /\ \A i \in 1..(lvl - 1) : below[i] = stk[i]
  BY <1>1, Beneath
<1>6. syncDepth' = syncDepth - a.sync /\ cbDepth' = cbDepth - a.cb /\ SubSeq(stack, 1, lvl - 1) = below
  BY DEF Finish, Counters
<1>7. stalls \subseteq Busy /\ todo \subseteq Busy /\ Busy \subseteq Calls /\ syncDepth \in Nat /\ cbDepth \in Nat
  BY Claims DEF IInv, Rest, Busy, BookkeepingHolds, TypeOK
<1>8. a.via \in Uncounted => syncDepth' = syncDepth /\ cbDepth' = cbDepth
  BY <1>1, <1>6, <1>7 DEF Alternates
<1>9. a.via \notin Switching => active = a.prev
  BY <1>3, <1>1 DEF Returns
<1>10. Len(lanes[a.prev]) \in Nat /\ Len(lanes[a.prev]) >= a.base + Pushed(a) /\ Pushed(a) \in Nat
  BY <1>1, <1>2, PushedType DEF Holds
<1> HIDE DEF below
<1>11. CASE /\ a.via \in {"executeAsync", "invokeAsync"}
            /\ Drain(below, FramesAfter(lvl), LanesAfter(a), q,
                     IF a.via = "invokeAsync" THEN a.call ELSE a.prev, a.prev, {a.call},
                     IF a.via = "invokeAsync" THEN <<>> ELSE <<None>>)
            /\ todo' = todo /\ stray' = Marked(stray, LanesAfter(a), a.prev, a.base)
  <2> DEFINE lane == IF a.via = "invokeAsync" THEN a.call ELSE a.prev
             reg == {a.call}
             over == IF a.via = "invokeAsync" THEN <<>> ELSE <<None>>
             lns == LanesAfter(a)
             frs == FramesAfter(lvl)
  <2>1. lane \in Busy \cup {Root} /\ reg \subseteq Busy /\ over \in Seq(Owner)
    <3>1. <<>> \in Seq(Owner) /\ <<None>> \in Seq(Owner)
      BY DEF Owner
    <3>2. over \in Seq(Owner)
      BY <3>1
    <3>3. lane \in Busy \cup {Root} /\ reg \subseteq Busy
      BY <1>2, <1>11
    <3> QED
      BY <3>2, <3>3
  <2>2. (below # <<>> => ~ IsScript(below[Len(below)])) /\ Len(below) < MaxDepth
    <3>1. below # <<>> => lvl > 1 /\ lvl - 1 \in 1..(lvl - 1)
      BY <1>5
    <3>2. a.via # "emit" /\ lvl > 1 => ~ IsScript(stk[lvl - 1])
      BY <1>1 DEF Alternates
    <3>3. below # <<>> => ~ IsScript(below[Len(below)])
      BY <1>5, <1>11, <3>1, <3>2
    <3> QED
      BY <1>1, <1>5, <3>3, SandboxAssumption
  <2>3. Drain(below, frs, lns, q, lane, a.prev, reg, over)
    BY <1>11
  <2>4. Sound(below, frs, lns, a.prev, syncDepth', cbDepth', stray', Busy, Waits)
    BY <1>4, <1>6, <1>11
  <2> HIDE DEF lane, reg, lns, frs, over
  <2>5. /\ Sound(stack', frames', lanes', active', syncDepth', cbDepth', stray', Busy, Waits)
        /\ Queue(jobs', Busy) /\ stalls' \subseteq stalls \cup reg
    BY <1>7, <2>1, <2>2, <2>3, <2>4, DrainSound
  <2> QED
    BY <1>7, <1>11, <2>1, <2>5
<1>12. CASE /\ a.via = "drain" /\ q # <<>>
            /\ stack' = Append(below, [a EXCEPT !.call = Head(q).call, !.own = Head(q).own])
            /\ jobs' = Tail(q)
            /\ UNCHANGED <<frames, lanes, active, todo, stalls, stray>>
  <2> DEFINE call == Head(q).call
             own == Head(q).own
             a2 == [a EXCEPT !.call = call, !.own = own]
  <2>1. q \in Seq(QueuedJob) /\ q # <<>> /\ \A i \in 1..Len(q) : q[i].call \in Busy \cup {None}
    BY <1>12 DEF Queue
  <2>2. Queue(Tail(q), Busy)
    <3>1. Tail(q) \in Seq(QueuedJob) /\ \A i \in 1..Len(Tail(q)) : i + 1 \in 1..Len(q) /\ Tail(q)[i] = q[i + 1]
      BY <2>1
    <3> QED
      BY <2>1, <3>1 DEF Queue
  <2>3. call \in Busy \cup {None} /\ call \in Calls \cup {None} /\ own \in Owner
    <3>1. Head(q) = q[1] /\ 1 \in 1..Len(q) /\ q[1] \in QueuedJob
      BY <2>1
    <3> QED
      BY <2>1, <3>1 DEF QueuedJob
  <2>4. stack' = Append(below, a2)
    BY <1>12
  <2> HIDE DEF call, own
  <2>5. a2 \in ScriptActivation /\ a2.via = a.via /\ a2.prev = a.prev /\ a2.base = a.base /\ a2.sync = a.sync /\ a2.cb = a.cb
        /\ a2.call = call /\ a2.reg = a.reg
    BY <1>2, <2>3 DEF ScriptActivation
  <2>6. a2.ran = a.ran
    BY <1>2 DEF ScriptActivation
  <2> HIDE DEF a2
  <2>7. a2 \in Activation /\ IsScript(a2)
    BY <2>5 DEF Activation, ScriptActivation, IsScript
  <2>8. stack' \in Seq(Activation) /\ Alike(stk, stack') /\ Named(stack', active, Busy)
    BY <1>1, <1>12, <2>3, <2>4, <2>5, <2>6, <2>7, TopAlike, ZenonT(60) DEF below
  <2>9. Sound(stack', frames, lanes, active, syncDepth, cbDepth, stray, Busy, Waits)
    BY <2>8, SoundAlike
  <2> QED
    BY <1>7, <1>8, <1>12, <2>2, <2>9 DEF Uncounted
<1>13. CASE /\ a.via = "fire" /\ a.rest # <<>>
            /\ stack' = Append(below, [a EXCEPT !.own = Head(a.rest), !.rest = Tail(@)])
            /\ lanes' = [lanes EXCEPT ![active] = Append(Front(@), Head(a.rest))]
            /\ stray' = Marked(stray, Popped, active, a.base)
            /\ jobs' = q
            /\ UNCHANGED <<frames, active, todo, stalls>>
  <2> DEFINE own == Head(a.rest)
             rest == Tail(a.rest)
             a2 == [a EXCEPT !.own = own, !.rest = rest]
  <2>1. own \in Owner /\ rest \in Seq(Mods)
    BY <1>2, <1>13 DEF Owner
  <2>2. stack' = Append(below, a2) /\ lanes' = [lanes EXCEPT ![active] = Append(Front(@), own)]
    BY <1>13
  <2> HIDE DEF own, rest
  <2>3. a2 \in ScriptActivation /\ a2.via = a.via /\ a2.prev = a.prev /\ a2.base = a.base /\ a2.sync = a.sync /\ a2.cb = a.cb
        /\ a2.call = a.call /\ a2.reg = a.reg
    BY <1>2, <2>1 DEF ScriptActivation
  <2>4. a2.ran = a.ran
    BY <1>2 DEF ScriptActivation
  <2> HIDE DEF a2
  <2>5. a2 \in Activation /\ IsScript(a2) /\ a2.call \in Busy \cup {None}
    BY <1>1, <2>3 DEF Activation, ScriptActivation, IsScript, Named
  <2>6. stack' \in Seq(Activation) /\ Alike(stk, stack') /\ Named(stack', active, Busy)
    <3>1. a2.via \notin {"executeAsync", "invokeAsync", "module"} /\ stack' = Append(SubSeq(stk, 1, lvl - 1), a2)
      BY <1>13, <2>2, <2>3 DEF below
    <3> QED
      BY <1>1, <2>3, <2>4, <2>5, <3>1, TopAlike
  <2>7. lanes' \in [Lanes -> Seq(Owner)] /\ \A x \in Lanes : Len(lanes'[x]) = Len(lanes[x])
    <3>1. Len(lanes[active]) >= 1 /\ lanes[active] \in Seq(Owner) /\ Len(lanes[active]) \in Nat
      <4>1. active = a.prev /\ Pushed(a) = 1
        BY <1>9, <1>13 DEF Switching, Pushed
      <4>2. lanes[active] \in Seq(Owner)
        BY <1>1, <1>2, <4>1
      <4>3. Len(lanes[active]) \in Nat
        BY <4>2
      <4> QED
        BY <1>2, <1>10, <4>1, <4>2, <4>3, SMTT(20)
    <3> DEFINE new == Append(Front(lanes[active]), own)
    <3>2. new \in Seq(Owner) /\ Len(new) = Len(lanes[active])
      <4>1. Front(lanes[active]) \in Seq(Owner) /\ Len(Front(lanes[active])) = Len(lanes[active]) - 1
        BY <3>1 DEF Front
      <4> QED
        BY <2>1, <3>1, <4>1
    <3> HIDE DEF new
    <3>3. lanes' = [lanes EXCEPT ![active] = new]
      BY <2>2 DEF new
    <3> QED
      BY <1>1, <3>2, <3>3
  <2>8. Sound(stk, frames, lanes', active, syncDepth, cbDepth, stray', Busy, Waits)
    <3>1. active = a.prev /\ Pushed(a) = 1
      BY <1>9, <1>13 DEF Switching, Pushed
    <3>2. Popped \in [Lanes -> Seq(Owner)] /\ Len(Popped[a.prev]) = Len(lanes[a.prev]) - 1
      BY <1>1, <1>2, <1>10, <3>1, LanePopped
    <3>3. Len(Popped[a.prev]) >= a.base
      BY <1>2, <1>10, <3>1, <3>2
    <3>4. stray' \in [Lanes -> Nat] /\ Leaves(stray, stray', a.prev, Len(Popped[a.prev]), a.base)
      BY <1>1, <1>2, <1>13, <3>1, <3>2, <3>3, MarkLeft
    <3>5. Intact(stray', a.prev, Len(lanes[a.prev])) => Len(lanes[a.prev]) = a.base + 1
      <4>1. stray[a.prev] \in Nat
        BY <1>1, <1>2
      <4>2. stray'[a.prev] = IF Len(Popped[a.prev]) > a.base THEN IF stray[a.prev] \in 1..(a.base) THEN stray[a.prev] ELSE a.base + 1
                             ELSE IF stray[a.prev] > a.base THEN 0 ELSE stray[a.prev]
        BY <1>1, <1>2, <1>13, <3>1 DEF Marked
      <4>3. CASE Len(Popped[a.prev]) > a.base
        BY <1>2, <1>10, <3>2, <4>1, <4>2, <4>3 DEF Intact
      <4>4. CASE ~ (Len(Popped[a.prev]) > a.base)
        BY <1>2, <1>10, <3>2, <3>3, <4>4
      <4> QED
        BY <4>3, <4>4
    <3> QED
      BY <2>7, <3>1, <3>4, <3>5, SoundMarks, SMTT(20) DEF Leaves
  <2>9. Sound(stack', frames, lanes', active, syncDepth, cbDepth, stray', Busy, Waits)
    BY <2>6, <2>8, SoundAlike
  <2> QED
    BY <1>7, <1>8, <1>13, <2>9 DEF Uncounted
<1>14. CASE /\ a.via = "emit"
            /\ stack' = below /\ jobs' = q
            /\ lanes' = Popped /\ stray' = Marked(stray, Popped, active, a.base)
            /\ UNCHANGED <<frames, active, todo, stalls>>
  <2>1. active = a.prev /\ Pushed(a) = 1
    BY <1>9, <1>14 DEF Switching, Pushed
  <2>2. /\ lanes' \in [Lanes -> Seq(Owner)] /\ \A x \in Lanes \ {a.prev} : lanes'[x] = lanes[x]
        /\ Len(lanes'[a.prev]) = Len(lanes[a.prev]) - 1
    BY <1>1, <1>2, <1>10, <1>14, <2>1, LanePopped
  <2>4. \A f \in frames : f.lvl # lvl
    BY <1>1, <1>14, SandboxAssumption DEF Framed
  <2>5. Len(lanes'[a.prev]) >= a.base
    <3>1. Len(lanes'[a.prev]) = Len(lanes[a.prev]) - 1
      BY <2>2
    <3>2. Len(lanes[a.prev]) \in Nat /\ Len(lanes[a.prev]) >= a.base + 1 /\ a.base \in Nat
      BY <1>2, <1>10, <2>1
    <3> QED
      BY <3>1, <3>2
  <2>6. Sound(below, frames, lanes', a.prev, syncDepth - a.sync, cbDepth - a.cb, stray', Busy, Waits)
    <3>1. /\ lanes' \in [Lanes -> Seq(Owner)] /\ \A x \in Lanes \ {stk[lvl].prev} : lanes'[x] = lanes[x]
          /\ Len(lanes'[stk[lvl].prev]) >= stk[lvl].base
          /\ stray' = Marked(stray, lanes', stk[lvl].prev, stk[lvl].base)
      BY <1>14, <2>1, <2>2, <2>5
    <3>2. IsScript(stk[lvl]) /\ Bare(stk, lvl)
      BY <1>3
    <3>3. Sound(SubSeq(stk, 1, lvl - 1), frames, lanes', stk[lvl].prev, syncDepth - stk[lvl].sync, cbDepth - stk[lvl].cb, stray', Busy, Waits)
      BY <2>4, <3>1, <3>2, SoundPops, ZenonT(60)
    <3> QED
      BY <3>3 DEF below
  <2> QED
    BY <1>6, <1>7, <1>14, <2>1, <2>6
<1>15. CASE /\ stack' = below /\ active' = a.prev /\ jobs' = q
            /\ frames' = FramesAfter(lvl) /\ lanes' = LanesAfter(a) /\ stray' = Marked(stray, LanesAfter(a), a.prev, a.base)
            /\ todo' = IF a.via = "module" THEN todo \cup {a.call} ELSE todo
            /\ stalls' = stalls \cup a.reg
  BY <1>2, <1>4, <1>6, <1>7, <1>15
<1>16. Cleared(stray, LanesAfter(a), a.prev, a.base) = Marked(stray, LanesAfter(a), a.prev, a.base)
  BY EndClears
<1>17. a.via \in {"fire", "emit"} => Cleared(stray, Popped, active, a.base) = Marked(stray, Popped, active, a.base)
  BY PopClears
<1> QED
  BY <1>6, <1>11, <1>12, <1>13, <1>14, <1>15, <1>16, <1>17 DEF Finish

(* A set of levels has a least one. *)
LEMMA LeastLevel ==
    ASSUME NEW D, D \subseteq Nat, D # {}
    PROVE  \E d \in D : \A y \in D : d <= y
<1>1. PICK d \in D : \A y \in D : ~(<<y, d>> \in OpToRel(<, Nat))
  BY WFMin, NatLessThanWellFounded
<1>2. \A y \in D : ~(y < d)
  BY <1>1 DEF OpToRel
<1> QED
  BY <1>2

(* One id in 1..(Cardinality(pend) + 1) is free, so the least free one is defined. *)
LEMMA FreshIdTyped ==
    ASSUME IsFiniteSet(pend), \A p \in pend : p.id \in Nat
    PROVE  FreshId \in Nat
<1> DEFINE K == Cardinality(pend)
           f == [p \in pend |-> p.id]
<1>1. K \in Nat
  BY FS_CardinalityType
<1>2. f \in Surjection(pend, UsedIds)
  BY DEF Surjection, UsedIds
<1>3. IsFiniteSet(UsedIds) /\ Cardinality(UsedIds) <= K
  BY <1>2, FS_Surjection
<1>4. Cardinality(1..(K + 1)) = K + 1
  BY <1>1, FS_Interval
<1> HIDE DEF K
<1>5. ~ (1..(K + 1) \subseteq UsedIds)
  <2> SUFFICES ASSUME 1..(K + 1) \subseteq UsedIds PROVE FALSE
    OBVIOUS
  <2>1. Cardinality(1..(K + 1)) <= Cardinality(UsedIds)
    BY <1>3, FS_Subset
  <2>2. Cardinality(UsedIds) \in Nat
    BY <1>3, FS_CardinalityType
  <2> QED
    BY <1>1, <1>3, <1>4, <2>1, <2>2
<1> DEFINE free == {n \in 1..(K + 1) : n \notin UsedIds}
<1>6. free # {} /\ free \subseteq Nat
  BY <1>1, <1>5
<1>7. PICK n \in free : \A y \in free : n <= y
  BY <1>6, LeastLevel
<1>8. n \in 1..(K + 1) /\ n \notin UsedIds /\ 1..(n - 1) \subseteq UsedIds
  BY <1>1, <1>7
<1>9. FreshId \in 1..(K + 1)
  BY <1>8 DEF FreshId, K
<1> QED
  BY <1>1, <1>9

LEMMA FinishStep ==
    ASSUME IInv, NEW stk, Sound(stk, frames, lanes, active, syncDepth, cbDepth, stray, Busy, Waits),
           NEW lvl \in 1..Len(stk), lvl = Len(stk), IsScript(stk[lvl]),
           SubSeq(stack, 1, lvl - 1) = SubSeq(stk, 1, lvl - 1),
           NEW how \in Status \ {"idle"}, NEW q, Queue(q, Busy), Finish(stk[lvl], lvl, how, q),
           seen' \in {seen, seen \cup {"left"}}, ops' \in 0..MaxOps, Pends(pend', Busy),
           UNCHANGED <<now, failing, answered, held, cancelled, faulted, disposed>>
    PROVE  IInv'
<1>0. Rest /\ stk \in Seq(Activation)
  BY DEF IInv, Sound
<1>2. /\ Sound(stack', frames', lanes', active', syncDepth', cbDepth', stray', Busy, Waits)
      /\ Queue(jobs', Busy) /\ stalls' \subseteq Busy /\ todo' \subseteq Busy
  BY FinishSound
<1>3. Busy \subseteq Busy' /\ Waits \subseteq Waits' /\ st' \in [Calls -> Status]
  <2>1. stk[lvl].call \in Calls \cup {None} /\ Settled(stk[lvl].call, how)
    BY <1>0, Kinds DEF Finish
  <2> QED
    BY <1>0, <2>1, SettledMore
<1>4. Queue(jobs', Busy') /\ Pends(pend', Busy')
  BY <1>2, <1>3, MoreNamed
<1>5. Rest'
  <2>1. Queue(jobs, Busy)' /\ Pends(pend, Busy)'
    BY <1>4
  <2> QED
    BY <1>0, <1>2, <1>3, <2>1 DEF Rest
<1> QED
  BY <1>2, <1>3, <1>5, Assemble

LEMMA ReturnStep ==
    ASSUME IInv, Return
    PROVE  IInv'
<1>1. stack # <<>> /\ IsScript(stack[Len(stack)]) /\ Top = stack[Len(stack)] /\ Level = Len(stack)
  BY DEF Return, InScript, IsScript, Top, Level
<1>2. Len(stack) \in 1..Len(stack)
  BY <1>1, Basics
<1>3. /\ Finish(stack[Len(stack)], Len(stack), "resolved", jobs)
      /\ seen' \in {seen, seen \cup {"left"}} /\ UNCHANGED <<now, ops, pend, failing, answered, held, cancelled, faulted, disposed>>
  BY <1>1 DEF Return, Left, Same
<1>4. "resolved" \in Status \ {"idle"} /\ Queue(jobs, Busy) /\ ops' \in 0..MaxOps /\ Pends(pend', Busy)
  BY <1>3 DEF Status, IInv, Rest
<1> QED
  BY <1>1, <1>2, <1>3, <1>4, FinishStep DEF IInv

LEMMA AwaitTickStep ==
    ASSUME IInv, AwaitTick
    PROVE  IInv'
<1> DEFINE q == Append(jobs, Job(Top.call, Top.own))
<1>1. stack # <<>> /\ IsScript(stack[Len(stack)]) /\ Top = stack[Len(stack)] /\ Level = Len(stack)
  BY DEF AwaitTick, InScript, IsScript, Top, Level
<1>2. Len(stack) \in 1..Len(stack)
  BY <1>1, Basics
<1>3. /\ Finish(stack[Len(stack)], Len(stack), "queued", q) /\ ops < MaxOps /\ ops' = ops + 1
      /\ seen' \in {seen, seen \cup {"left"}} /\ UNCHANGED <<now, pend, failing, answered, held, cancelled, faulted, disposed>>
  BY <1>1 DEF AwaitTick, Left, Same
<1>4. "queued" \in Status \ {"idle"} /\ ops' \in 0..MaxOps /\ Pends(pend', Busy)
  BY <1>3, SandboxAssumption DEF Status, IInv, Rest
<1>5. Queue(q, Busy)
  <2>1. Named(stack, active, Busy) /\ stack[Len(stack)] \in Activation /\ Queue(jobs, Busy)
    BY <1>2, Basics DEF IInv, Sound, Rest
  <2>2. Top.call \in Busy \cup {None} /\ Top.call \in Calls \cup {None} /\ Top.own \in Owner
    BY <1>1, <1>2, <2>1, Kinds DEF Named
  <2>3. Job(Top.call, Top.own) \in QueuedJob /\ Job(Top.call, Top.own).call \in Busy \cup {None}
    BY <2>2 DEF Job, QueuedJob
  <2> QED
    BY <2>1, <2>3 DEF Queue
<1> HIDE DEF q
<1> QED
  BY <1>1, <1>2, <1>3, <1>4, <1>5, FinishStep DEF IInv

LEMMA Shorter ==
    ASSUME NEW stk \in Seq(Activation), NEW k \in 1..Len(stk)
    PROVE  SubSeq(SubSeq(stk, 1, k), 1, k - 1) = SubSeq(stk, 1, k - 1)
OBVIOUS

LEMMA BindingAwaitsStep ==
    ASSUME IInv, NEW awaited \in BOOLEAN, BindingAwaits(awaited)
    PROVE  IInv'
<1> DEFINE stk == SubSeq(stack, 1, Len(stack) - 1)
           work == [id |-> FreshId, call |-> IF awaited THEN Top.call ELSE None, lane |-> active, own |-> Top.own, fatal |-> Top.fatal]
<1>0. /\ Rest /\ stack \in Seq(Activation) /\ Alternates(stack) /\ Named(stack, active, Busy) /\ active \in Lanes /\ Busy \subseteq Calls
      /\ Sound(stack, frames, lanes, active, syncDepth, cbDepth, stray, Busy, Waits)
  BY DEF IInv, Sound, Busy
<1>1. /\ stack # <<>> /\ ~ IsScript(stack[Len(stack)]) /\ Top = stack[Len(stack)] /\ Level = Len(stack)
      /\ pend' = pend \cup {work} /\ UNCHANGED <<now, ops, failing, answered, held, cancelled, faulted, disposed>>
  BY DEF BindingAwaits, Top, Level, Same, IsScript
<1>2. Len(stack) \in 1..Len(stack)
  BY <1>0, <1>1
<1>3. Top.call \in Busy \cup {None} /\ Top.call \in Calls \cup {None} /\ Top.own \in Owner /\ Top.fatal \in BOOLEAN
  BY <1>0, <1>1, <1>2, Kinds DEF Named
<1>4. Pends(pend', Busy)
  <2>1. IsFiniteSet(pend) /\ pend \subseteq Work /\ \A p \in pend : p.call \in Busy \cup {None} /\ p.lane \in Busy \cup {Root}
    BY <1>0 DEF Rest, Pends
  <2>2. FreshId \in Nat
    BY <2>1, FreshIdTyped DEF Work
  <2>3. work \in Work /\ work.call \in Busy \cup {None} /\ work.lane = active
    BY <1>0, <1>3, <2>2 DEF Work
  <2>4. IsFiniteSet(pend \cup {work})
    BY <2>1, FS_AddElement
  <2>5. active \in Busy \cup {Root}
    BY <1>0 DEF Named
  <2> HIDE DEF work
  <2> QED
    BY <1>1, <2>1, <2>3, <2>4, <2>5 DEF Pends
<1>5. Sound(stk, frames, lanes, active, syncDepth, cbDepth, stray, Busy, Waits)
  BY <1>0, <1>1, SoundHostOut
<1>6. CASE ~ awaited
  <2>1. /\ stack' = stk /\ UNCHANGED <<frames, lanes, active, syncDepth, cbDepth, jobs, st, todo, stalls, stray, seen>>
    BY <1>6 DEF BindingAwaits, Same, Front
  <2>2. Busy' = Busy /\ Waits' = Waits
    BY <1>1, <2>1 DEF Busy, Waits, Waiting
  <2>3. Rest'
    BY <1>0, <1>1, <1>4, <2>1, <2>2 DEF Rest
  <2> QED
    BY <1>5, <2>1, <2>2, <2>3 DEF IInv
<1>7. CASE awaited
  <2> DEFINE lvl == Len(stack) - 1
  <2>1. /\ Finish(stack[lvl], lvl, "parked", jobs) /\ seen' \in {seen, seen \cup {"left"}}
    BY <1>1, <1>7 DEF BindingAwaits, Left
  <2>2. IsScript(stack[lvl]) /\ lvl \in 1..Len(stack)
    BY <1>0, <1>1, <1>2 DEF Alternates
  <2>3. Len(stk) = lvl /\ stk[lvl] = stack[lvl] /\ stk \in Seq(Activation)
    <3>1. Len(stk) = lvl /\ stk \in Seq(Activation) /\ \A i \in 1..lvl : stk[i] = stack[i]
      BY <1>0, <1>2, Beneath
    <3> QED
      BY <1>2, <2>2, <3>1
  <2>4. SubSeq(stack, 1, lvl - 1) = SubSeq(stk, 1, lvl - 1)
    BY <1>0, <2>2, Shorter
  <2>5. "parked" \in Status \ {"idle"} /\ Queue(jobs, Busy) /\ ops' \in 0..MaxOps
    BY <1>0, <1>1 DEF Status, Rest
  <2>6. lvl \in 1..Len(stk)
    BY <2>2, <2>3
  <2> HIDE DEF stk, lvl, work
  <2> QED
    BY <1>1, <1>4, <1>5, <2>1, <2>2, <2>3, <2>4, <2>5, <2>6, FinishStep
<1> QED
  BY <1>6, <1>7

-----------------------------------------------------------------------------
(* A stop. *)

(* Below a running script there is one the host entered, and only handlers above it. *)
LEMMA BoundaryFound ==
    ASSUME stack \in Seq(Activation), Alternates(stack), NEW lvl \in 1..Len(stack), IsScript(stack[lvl])
    PROVE  /\ Boundary(lvl) \in 1..lvl /\ IsScript(stack[Boundary(lvl)]) /\ stack[Boundary(lvl)].via # "emit"
           /\ \A i \in (Boundary(lvl) + 1)..lvl : IsScript(stack[i]) /\ stack[i].via = "emit"
<1> DEFINE Emits(b) == \A i \in (b + 1)..lvl : IsScript(stack[i]) /\ stack[i].via = "emit"
           D == {b \in 1..lvl : Emits(b)}
<1>1. lvl \in D /\ D \subseteq Nat
  OBVIOUS
<1>2. PICK b \in D : \A y \in D : b <= y
  BY <1>1, LeastLevel
<1>3. b \in 1..lvl /\ b \in 1..Len(stack) /\ Emits(b)
  BY <1>2
<1>4. IsScript(stack[b])
  <2>1. CASE b = lvl
    BY <2>1
  <2>2. CASE b # lvl
    <3>1. b + 1 \in 1..Len(stack) /\ b + 1 \in (b + 1)..lvl
      BY <1>3, <2>2
    <3>2. IsScript(stack[b + 1]) /\ stack[b + 1].via = "emit"
      BY <1>3, <3>1
    <3>3. IsScript(stack[(b + 1) - 1])
      BY <3>1, <3>2 DEF Alternates
    <3>4. (b + 1) - 1 = b
      BY <1>3
    <3> QED
      BY <3>3, <3>4
  <2> QED
    BY <2>1, <2>2
<1>5. stack[b].via # "emit"
  <2> SUFFICES ASSUME stack[b].via = "emit" PROVE FALSE
    OBVIOUS
  <2>1. b > 1
    BY <1>3, <1>4 DEF Alternates
  <2>2. \A i \in ((b - 1) + 1)..lvl : i = b \/ i \in (b + 1)..lvl
    BY <1>3
  <2>3. Emits(b - 1)
    BY <1>3, <1>4, <2>2
  <2>4. b - 1 \in D
    BY <1>3, <2>1, <2>3
  <2> QED
    BY <1>2, <1>3, <2>4
<1>6. /\ stack[b].k = "script" /\ stack[b].via # "emit"
      /\ \A i \in (b + 1)..lvl : stack[i].k = "script" /\ stack[i].via = "emit"
  BY <1>3, <1>4, <1>5 DEF IsScript
<1>7. /\ Boundary(lvl) \in 1..lvl /\ stack[Boundary(lvl)].k = "script" /\ stack[Boundary(lvl)].via # "emit"
      /\ \A i \in (Boundary(lvl) + 1)..lvl : stack[i].k = "script" /\ stack[i].via = "emit"
  BY <1>3, <1>6 DEF Boundary
<1> QED
  BY <1>7 DEF IsScript

(* Handlers that emitted one inside the other share a lane with what runs. *)
LEMMA EmitsShare ==
    ASSUME NEW stk \in Seq(Activation), NEW act, Returns(stk, act), NEW b \in 1..Len(stk),
           \A i \in (b + 1)..Len(stk) : IsScript(stk[i]) /\ stk[i].via = "emit"
    PROVE  \A j \in (b + 1)..Len(stk) : stk[j].prev = act
<1> DEFINE top == Len(stk)
           D == {n \in Nat : n < top - b /\ stk[top - n].prev # act}
<1>1. top \in Nat /\ b \in Nat /\ b <= top
  OBVIOUS
<1>2. D = {}
  <2> SUFFICES ASSUME D # {} PROVE FALSE
    OBVIOUS
  <2>1. PICK n \in D : \A y \in D : n <= y
    BY LeastLevel
  <2>2. n \in Nat /\ n < top - b /\ stk[top - n].prev # act
    BY <2>1
  <2>3. top - n \in (b + 1)..top /\ top - n \in 1..top
    BY <1>1, <2>2
  <2>4. IsScript(stk[top - n]) /\ stk[top - n].via \notin Switching
    BY <2>3 DEF Switching
  <2>5. CASE n = 0
    <3>1. top - n = top
      BY <1>1, <2>5
    <3>2. Topmost(stk, top)
      BY <2>3, <2>4, <3>1 DEF Topmost
    <3> QED
      BY <2>2, <2>3, <2>4, <3>1, <3>2 DEF Returns
  <2>6. CASE n # 0
    <3> DEFINE i == top - n
    <3>1. n - 1 \in Nat /\ n - 1 < top - b /\ top - (n - 1) = i + 1 /\ i + 1 \in (b + 1)..top /\ i + 1 \in 1..top
      <4>1. \A t, k, c \in Nat : k # 0 /\ k < t - c => /\ k - 1 \in Nat /\ k - 1 < t - c /\ t - (k - 1) = (t - k) + 1
                                                     /\ (t - k) + 1 \in (c + 1)..t /\ (t - k) + 1 \in 1..t
        OBVIOUS
      <4> HIDE DEF top
      <4> QED
        BY ONLY <1>1, <2>2, <2>6, <4>1
    <3>2. stk[i + 1].prev = act
      <4>1. n - 1 \notin D
        BY <2>1, <2>2
      <4> HIDE DEF i
      <4> QED
        BY <3>1, <4>1
    <3>3. Follows(stk, i, i + 1)
      BY <2>3, <2>4, <3>1 DEF Follows
    <3> QED
      BY <2>2, <2>3, <2>4, <3>1, <3>2, <3>3 DEF Returns
  <2> QED
    BY <2>5, <2>6
<1>3. ASSUME NEW j \in (b + 1)..top PROVE stk[j].prev = act
  <2>1. top - j \in Nat /\ top - j < top - b /\ top - (top - j) = j
    BY <1>1
  <2> HIDE DEF top
  <2> QED
    BY <1>2, <2>1
<1> QED
  BY <1>3

(* The handlers a stop cuts off leave their caller frames where they are. *)
LEMMA HandlersGo ==
    ASSUME NEW stk, NEW frs, NEW lns, NEW act, NEW m, NEW n, NEW mk, NEW busy, NEW waiting,
           Sound(stk, frs, lns, act, m, n, mk, busy, waiting), NEW b \in 1..Len(stk),
           \A i \in (b + 1)..Len(stk) : IsScript(stk[i]) /\ stk[i].via = "emit"
    PROVE  Sound(SubSeq(stk, 1, b), frs, lns, act, m, n,
                 IF b < Len(stk) THEN Marked(mk, lns, act, stk[b + 1].base) ELSE mk, busy, waiting)
<1>1. /\ stk \in Seq(Activation) /\ lns \in [Lanes -> Seq(Owner)] /\ Alternates(stk) /\ Returns(stk, act) /\ Holds(stk, lns)
      /\ Framed(stk, frs, waiting) /\ Counted(stk, m, n)
  BY DEF Sound
<1>2. CASE b < Len(stk)
  <2> DEFINE d == b + 1
  <2>1. d \in 1..Len(stk) /\ IsScript(stk[d]) /\ stk[d].via = "emit" /\ d \in (b + 1)..Len(stk) /\ d - 1 = b
    BY <1>1, <1>2
  <2>2. stk[d].prev = act
    BY <1>1, <2>1, EmitsShare
  <2>3. Bare(stk, d)
    BY DEF Bare
  <2>4. \A f \in frs : f.lvl # d
    BY <1>1, <2>1, SandboxAssumption DEF Framed
  <2>5. stk[d].base \in Nat /\ Pushed(stk[d]) \in Nat /\ Len(lns[act]) \in Nat /\ Len(lns[act]) >= stk[d].base + Pushed(stk[d])
    <3>1. stk[d].base \in Nat /\ act \in Lanes
      BY <1>1, <2>1, Kinds DEF Sound
    <3>2. Len(lns[act]) >= stk[d].base + Pushed(stk[d])
      BY <1>1, <2>1, <2>2 DEF Holds
    <3> QED
      BY <1>1, <3>1, <3>2, PushedType
  <2>6. stk[d].sync = 0 /\ stk[d].cb = 0
    BY <1>1, <2>1 DEF Alternates, Uncounted
  <2>7. m \in Nat /\ n \in Nat
    BY <1>1, FiniteLevels, FS_CardinalityType DEF Counted
  <2> DEFINE mk2 == Marked(mk, lns, stk[d].prev, stk[d].base)
  <2>8. /\ lns \in [Lanes -> Seq(Owner)] /\ \A x \in Lanes \ {stk[d].prev} : lns[x] = lns[x]
        /\ Len(lns[stk[d].prev]) >= stk[d].base /\ mk2 = Marked(mk, lns, stk[d].prev, stk[d].base)
    BY <1>1, <2>2, <2>5
  <2> HIDE DEF mk2
  <2>9. Sound(SubSeq(stk, 1, d - 1), frs, lns, stk[d].prev, m - stk[d].sync, n - stk[d].cb, mk2, busy, waiting)
    BY <2>1, <2>3, <2>4, <2>8, SoundPops, ZenonT(60)
  <2> QED
    BY <1>2, <2>1, <2>2, <2>6, <2>7, <2>9 DEF mk2
<1>3. CASE ~ (b < Len(stk))
  <2>1. b = Len(stk)
    BY <1>3
  <2>2. SubSeq(stk, 1, b) = stk
    BY <1>1, <2>1
  <2> QED
    BY <1>3, <2>2
<1> QED
  BY <1>2, <1>3

(* The binding that called a stopped callback holds the stop. *)
LEMMA StopHeld ==
    ASSUME NEW stk, NEW frs, NEW lns, NEW act, NEW m, NEW n, NEW mk, NEW busy, NEW waiting,
           Sound(stk, frs, lns, act, m, n, mk, busy, waiting), stk # <<>>, ~ IsScript(stk[Len(stk)])
    PROVE  Sound([stk EXCEPT ![Len(stk)].fatal = TRUE], frs, lns, act, m, n, mk, busy, waiting)
<1> DEFINE top == Len(stk)
           h == [stk[top] EXCEPT !.fatal = TRUE]
           stk2 == [stk EXCEPT ![top] = h]
<1>1. stk \in Seq(Activation) /\ Named(stk, act, busy) /\ top \in 1..Len(stk) /\ ~ IsScript(stk[top])
  BY DEF Sound
<1>2. stk[top] \in HostActivation
  BY <1>1, Kinds
<1>3. h \in HostActivation /\ h.call = stk[top].call /\ h.k = "host" /\ stk[top].k = "host"
  BY <1>2 DEF HostActivation
<1>4. [stk EXCEPT ![Len(stk)].fatal = TRUE] = stk2
  BY Zenon
<1> HIDE DEF h
<1>5. h \in Activation /\ ~ IsScript(h)
  BY <1>3 DEF Activation, IsScript
<1>6. stk2 \in Seq(Activation) /\ Len(stk2) = Len(stk) /\ stk2[top] = h /\ \A i \in 1..Len(stk) : i # top => stk2[i] = stk[i]
  BY <1>1, <1>5
<1> HIDE DEF stk2, top
<1>7. Alike(stk, stk2)
  BY <1>1, <1>3, <1>6 DEF Alike
<1>8. Named(stk2, act, busy)
  <2>1. ASSUME NEW i \in 1..Len(stk2)
        PROVE  /\ stk2[i].call \in busy \cup {None}
               /\ IsScript(stk2[i]) => stk2[i].prev \in busy \cup {Root} /\ stk2[i].reg \subseteq busy
               /\ IsScript(stk2[i]) /\ stk2[i].via \in {"executeAsync", "invokeAsync", "module"} => stk2[i].call \in busy
    <3>1. CASE i = top
      <4>1. stk2[i] = h /\ stk[top].call \in busy \cup {None}
        BY <1>1, <1>6, <3>1 DEF Named
      <4> QED
        BY <1>3, <1>5, <4>1
    <3>2. CASE i # top
      <4>1. stk2[i] = stk[i] /\ i \in 1..Len(stk)
        BY <1>6, <3>2
      <4> QED
        BY <1>1, <4>1 DEF Named
    <3> QED
      BY <3>1, <3>2
  <2> QED
    BY <1>1, <2>1 DEF Named
<1>9. Sound(stk2, frs, lns, act, m, n, mk, busy, waiting)
  BY <1>6, <1>7, <1>8, SoundAlike
<1> QED
  BY <1>4, <1>9

(* Or the settled work that did, once its binding has returned. *)
LEMMA MarkedPends ==
    ASSUME NEW ps, NEW busy, Pends(ps, busy), NEW id
    PROVE  Pends({IF p.id = id THEN [p EXCEPT !.fatal = TRUE] ELSE p : p \in ps}, busy)
<1> DEFINE Mark(p) == IF p.id = id THEN [p EXCEPT !.fatal = TRUE] ELSE p
           T == {Mark(p) : p \in ps}
           f == [p \in ps |-> Mark(p)]
<1>1. IsFiniteSet(ps) /\ ps \subseteq Work /\ \A p \in ps : p.call \in busy \cup {None} /\ p.lane \in busy \cup {Root}
  BY DEF Pends
<1>2. f \in Surjection(ps, T)
  BY DEF Surjection
<1>3. IsFiniteSet(T)
  BY <1>1, <1>2, FS_Surjection
<1>4. \A p \in ps : Mark(p) \in Work /\ Mark(p).call = p.call /\ Mark(p).lane = p.lane
  <2> SUFFICES ASSUME NEW p \in ps PROVE Mark(p) \in Work /\ Mark(p).call = p.call /\ Mark(p).lane = p.lane
    OBVIOUS
  <2>1. p \in Work
    BY <1>1
  <2>2. [p EXCEPT !.fatal = TRUE] \in Work /\ [p EXCEPT !.fatal = TRUE].call = p.call /\ [p EXCEPT !.fatal = TRUE].lane = p.lane
    BY <2>1 DEF Work
  <2> QED
    BY <2>1, <2>2
<1>5. Pends(T, busy)
  <2> HIDE DEF Mark
  <2> QED
    BY <1>1, <1>3, <1>4 DEF Pends
<1> QED
  BY <1>5

LEMMA StopStep ==
    ASSUME IInv, NEW stk, Sound(stk, frames, lanes, active, syncDepth, cbDepth, stray, Busy, Waits),
           NEW lvl \in 1..Len(stk), lvl = Len(stk), lvl <= Len(stack), IsScript(stack[lvl]),
           \A i \in 1..lvl : stk[i] = stack[i] /\ SubSeq(stack, 1, i - 1) = SubSeq(stk, 1, i - 1),
           NEW fault \in BOOLEAN, StopAt(Boundary(lvl), lvl, fault), faulted' \in BOOLEAN,
           UNCHANGED <<now, ops, todo, answered, held, cancelled, disposed>>
    PROVE  IInv'
<1> DEFINE b == Boundary(lvl)
           a == stk[b]
           below == SubSeq(stk, 1, b - 1)
           cut == SubSeq(stk, 1, b)
           mk == IF b < lvl THEN Marked(stray, lanes, active, stk[b + 1].base) ELSE stray
<1>0. /\ Rest /\ stack \in Seq(Activation) /\ Alternates(stack) /\ lvl \in 1..Len(stack)
      /\ stk \in Seq(Activation) /\ Alternates(stk) /\ Named(stk, active, Busy) /\ Busy \subseteq Calls
  BY DEF IInv, Sound, Busy
<1>1. /\ b \in 1..lvl /\ IsScript(stack[b]) /\ stack[b].via # "emit"
      /\ \A i \in (b + 1)..lvl : IsScript(stack[i]) /\ stack[i].via = "emit"
  BY <1>0, BoundaryFound
<1>s. StopAt(b, lvl, fault)
  OBVIOUS
<1> HIDE DEF b
<1>2. b \in 1..Len(stk) /\ a = stack[b] /\ IsScript(a) /\ a.via # "emit" /\ SubSeq(stack, 1, b - 1) = below
  BY <1>1
<1>3. cut \in Seq(Activation) /\ Len(cut) = b /\ cut[b] = a /\ SubSeq(cut, 1, b - 1) = below /\ Bare(cut, b)
  <2>1. cut \in Seq(Activation) /\ Len(cut) = b /\ cut[b] = a /\ SubSeq(cut, 1, b - 1) = below
    BY <1>0, <1>2, Shorter
  <2> HIDE DEF cut
  <2> QED
    BY <2>1 DEF Bare
<1>4. Sound(cut, frames, lanes, active, syncDepth, cbDepth, mk, Busy, Waits)
  BY <1>1, <1>2, HandlersGo
<1>4a. b < lvl => stk[b + 1] = stack[b + 1]
  BY <1>1
<1>5. /\ syncDepth' = syncDepth - a.sync /\ cbDepth' = cbDepth - a.cb
      /\ frames' = FramesAfter(b) /\ lanes' = LanesAfter(a) /\ active' = a.prev
      /\ stack' = IF a.via = "callback" /\ ~ fault THEN [below EXCEPT ![b - 1].fatal = TRUE] ELSE below
      /\ pend' = IF a.via = "late" /\ ~ fault
                 THEN {IF p.id = a.pid THEN [p EXCEPT !.fatal = TRUE] ELSE p : p \in pend} ELSE pend
      /\ Settled(a.call, IF a.via = "drain" THEN "dead" ELSE "resolved")
      /\ failing' = failing \cup FailedBy(a)
      /\ stalls' = (IF a.via = "drain" THEN stalls \cup a.reg ELSE stalls)
      /\ jobs' = jobs /\ seen' \in {seen, seen \cup {"left"}}
  BY <1>s, <1>2, ZenonT(90) DEF StopAt, Counters, Left
<1>6. stray' = Marked(mk, LanesAfter(a), a.prev, a.base)
  <2>1. stray' = Cleared(mk, LanesAfter(a), a.prev, a.base)
    BY <1>s, <1>2, <1>4a, ZenonT(60) DEF StopAt
  <2> HIDE DEF mk, cut
  <2>2. b \in 1..Len(cut) /\ b = Len(cut) /\ IsScript(cut[b])
    BY <1>2, <1>3
  <2>3. Cleared(mk, LanesAfter(cut[b]), cut[b].prev, cut[b].base) = Marked(mk, LanesAfter(cut[b]), cut[b].prev, cut[b].base)
    BY <1>4, <2>2, EndClears
  <2> QED
    BY <1>3, <2>1, <2>3
<1>7. Sound(below, frames', lanes', active', syncDepth', cbDepth', stray', Busy, Waits)
  <2> HIDE DEF mk, cut
  <2>1. b \in 1..Len(cut) /\ IsScript(cut[b])
    BY <1>2, <1>3
  <2>2. Sound(SubSeq(cut, 1, b - 1), FramesAfter(b), LanesAfter(cut[b]), cut[b].prev, syncDepth - cut[b].sync, cbDepth - cut[b].cb,
              Marked(mk, LanesAfter(cut[b]), cut[b].prev, cut[b].base), Busy, Waits)
    BY <1>3, <1>4, <2>1, SoundLeaves
  <2> QED
    BY <1>3, <1>5, <1>6, <2>2
<1>8. below \in Seq(Activation) /\ Len(below) = b - 1 /\ \A i \in 1..(b - 1) : below[i] = stk[i]
  BY <1>0, <1>2, Beneath
<1>9. Sound(stack', frames', lanes', active', syncDepth', cbDepth', stray', Busy, Waits)
  <2>1. CASE a.via = "callback" /\ ~ fault
    <3>1. b > 1 /\ ~ IsScript(stk[b - 1])
      BY <1>0, <1>2, <2>1 DEF Alternates
    <3>2. b - 1 = Len(below) /\ below # <<>> /\ ~ IsScript(below[Len(below)])
      BY <1>1, <1>8, <3>1
    <3>3. stack' = [below EXCEPT ![Len(below)].fatal = TRUE]
      BY <1>5, <2>1, <3>2
    <3> HIDE DEF below
    <3>4. Sound([below EXCEPT ![Len(below)].fatal = TRUE], frames', lanes', active', syncDepth', cbDepth', stray', Busy, Waits)
      BY <1>7, <3>2, StopHeld
    <3> QED
      BY <3>3, <3>4
  <2>2. CASE ~ (a.via = "callback" /\ ~ fault)
    BY <1>5, <1>7, <2>2
  <2> QED
    BY <2>1, <2>2
<1>10. a.call \in Calls \cup {None} /\ a.reg \subseteq Busy
  BY <1>0, <1>2, Kinds DEF Named
<1>11. Busy \subseteq Busy' /\ Waits \subseteq Waits' /\ st' \in [Calls -> Status]
  <2>1. (IF a.via = "drain" THEN "dead" ELSE "resolved") \in Status \ {"idle"}
    BY DEF Status
  <2> QED
    BY <1>0, <1>5, <1>10, <2>1, SettledMore
<1>12. Queue(jobs', Busy') /\ Pends(pend', Busy')
  <2>1. Queue(jobs', Busy) /\ Pends(pend, Busy)
    BY <1>0, <1>5 DEF Rest
  <2>2. Pends(pend', Busy)
    <3> DEFINE id == a.pid
    <3>1. CASE a.via = "late" /\ ~ fault
      <4>1. pend' = {IF p.id = id THEN [p EXCEPT !.fatal = TRUE] ELSE p : p \in pend}
        BY <1>5, <3>1
      <4> HIDE DEF id
      <4>2. Pends({IF p.id = id THEN [p EXCEPT !.fatal = TRUE] ELSE p : p \in pend}, Busy)
        BY <2>1, MarkedPends
      <4> QED
        BY <4>1, <4>2, Zenon
    <3>2. CASE ~ (a.via = "late" /\ ~ fault)
      BY <1>5, <2>1, <3>2
    <3> QED
      BY <3>1, <3>2
  <2> QED
    BY <1>11, <2>1, <2>2, MoreNamed
<1>13. stalls' \subseteq Busy' /\ failing' \subseteq Busy' /\ todo' \subseteq Busy' /\ answered' \subseteq Busy'
  BY <1>0, <1>5, <1>10, <1>11 DEF Rest, FailedBy
<1>14. seen' \subseteq {"left", "lent", "misheld"}
  BY <1>0, <1>5 DEF Rest
<1>15. {cancelled', faulted', disposed'} \subseteq BOOLEAN
  <2>1. cancelled \in BOOLEAN /\ disposed \in BOOLEAN
    BY <1>0, Zenon DEF Rest
  <2> QED
    BY <2>1, Zenon
<1>16. Rest'
  <2>1. Queue(jobs, Busy)' /\ Pends(pend, Busy)'
    BY <1>12
  <2>2. now' \in 0..MaxTime /\ ops' \in 0..MaxOps /\ held' \subseteq [fn : Owner, owner : Owner]
    BY <1>0 DEF Rest
  <2> QED
    BY <1>11, <1>13, <1>14, <1>15, <2>1, <2>2 DEF Rest
<1> QED
  BY <1>9, <1>11, <1>16, Assemble

LEMMA StopsHere ==
    ASSUME IInv, InScript, NEW fault \in BOOLEAN, StopAt(Boundary(Level), Level, fault), faulted' \in BOOLEAN,
           UNCHANGED <<now, ops, todo, answered, held, cancelled, disposed>>
    PROVE  IInv'
<1>1. stack # <<>> /\ IsScript(stack[Len(stack)]) /\ Level = Len(stack)
  BY DEF InScript, IsScript, Top, Level
<1>2. Len(stack) \in 1..Len(stack) /\ Len(stack) <= Len(stack)
  BY <1>1, Basics
<1>3. Sound(stack, frames, lanes, active, syncDepth, cbDepth, stray, Busy, Waits)
  BY DEF IInv
<1>4. StopAt(Boundary(Len(stack)), Len(stack), fault)
  BY <1>1
<1>5. \A i \in 1..Len(stack) : stack[i] = stack[i] /\ SubSeq(stack, 1, i - 1) = SubSeq(stack, 1, i - 1)
  OBVIOUS
<1> QED
  BY <1>1, <1>2, <1>3, <1>4, <1>5, StopStep

LEMMA BindingReturnStep ==
    ASSUME IInv, BindingReturn
    PROVE  IInv'
<1> DEFINE stk == SubSeq(stack, 1, Len(stack) - 1)
           lvl == Len(stack) - 1
<1>0. /\ Rest /\ stack \in Seq(Activation) /\ Alternates(stack)
      /\ Sound(stack, frames, lanes, active, syncDepth, cbDepth, stray, Busy, Waits)
  BY DEF IInv, Sound
<1>1. stack # <<>> /\ ~ IsScript(stack[Len(stack)]) /\ Top = stack[Len(stack)] /\ Level = Len(stack)
  BY DEF BindingReturn, Top, Level, IsScript
<1>2. Len(stack) \in 1..Len(stack)
  BY <1>0, <1>1
<1>3. Sound(stk, frames, lanes, active, syncDepth, cbDepth, stray, Busy, Waits)
  BY <1>0, <1>1, SoundHostOut
<1>4. CASE ~ Top.fatal
  <2>1. stack' = stk /\ UNCHANGED <<now, ops, frames, lanes, active, syncDepth, cbDepth, jobs, pend, st, todo, stalls, failing, answered,
                                    held, cancelled, faulted, disposed, stray, seen>>
    BY <1>4 DEF BindingReturn, Front, Same, callVars
  <2>2. Busy' = Busy /\ Waits' = Waits
    BY <2>1 DEF Busy, Waits, Waiting
  <2>3. Rest'
    BY <1>0, <2>1, <2>2 DEF Rest
  <2> QED
    BY <1>3, <2>1, <2>2, <2>3 DEF IInv
<1>5. CASE Top.fatal
  <2>1. StopAt(Boundary(lvl), lvl, FALSE) /\ UNCHANGED <<now, ops, todo, answered, held, cancelled, faulted, disposed>>
    BY <1>1, <1>5 DEF BindingReturn, Same
  <2>2. lvl \in 1..Len(stack) /\ lvl <= Len(stack) /\ IsScript(stack[lvl])
    BY <1>0, <1>1, <1>2 DEF Alternates
  <2>3. Len(stk) = lvl /\ stk \in Seq(Activation) /\ \A i \in 1..lvl : stk[i] = stack[i]
    BY <1>0, <1>2, Beneath
  <2>4. \A i \in 1..lvl : SubSeq(stack, 1, i - 1) = SubSeq(stk, 1, i - 1)
    BY <1>0, <2>2
  <2>5. faulted' \in BOOLEAN
    BY <1>0, <2>1, Zenon DEF Rest
  <2>6. lvl \in 1..Len(stk) /\ lvl = Len(stk) /\ FALSE \in BOOLEAN
    BY <2>2, <2>3
  <2>7. UNCHANGED <<now, ops, todo, answered, held, cancelled, disposed>>
    BY <2>1
  <2> HIDE DEF stk, lvl
  <2> QED
    BY <1>3, <2>1, <2>2, <2>3, <2>4, <2>5, <2>6, <2>7, StopStep
<1> QED
  BY <1>4, <1>5

-----------------------------------------------------------------------------
(* Every step keeps the invariant. *)

LEMMA NextInv == IInv /\ [Next]_vars => IInv'
<1> SUFFICES ASSUME IInv, [Next]_vars PROVE IInv'
  OBVIOUS
<1>1. CASE Start
  <2>1. CASE \E m \in Owner : Execute(m)
    BY <2>1, ExecuteStep
  <2>2. CASE \E m \in Mods, via \in {"invoke", "strict"} : InvokeExport(m, via)
    BY <2>2, InvokeExportStep
  <2>3. CASE \E m, n \in Mods, b \in BOOLEAN : FireHook(IF m = n THEN <<m>> ELSE <<m, n>>, b)
    <3>1. PICK m \in Mods, n \in Mods, b \in BOOLEAN : FireHook(IF m = n THEN <<m>> ELSE <<m, n>>, b)
      BY <2>3
    <3> DEFINE hs == IF m = n THEN <<m>> ELSE <<m, n>>
    <3>2. hs \in Seq(Mods) /\ hs # <<>>
      OBVIOUS
    <3>3. FireHook(hs, b)
      BY <3>1
    <3> HIDE DEF hs
    <3> QED
      BY <3>2, <3>3, FireHookStep
  <2>4. CASE \E c \in Calls : ExecuteAsync(c)
    BY <2>4, ExecuteAsyncStep
  <2>5. CASE \E c \in Calls, m \in Mods, via \in {"invokeAsync", "module"} : StartInLane(c, m, via)
    BY <2>5, StartInLaneStep
  <2> QED
    BY <1>1, <2>1, <2>2, <2>3, <2>4, <2>5 DEF Start
<1>2. CASE Run
  <2>1. CASE Stop
    <3>1. faulted' \in BOOLEAN
      BY <2>1, Zenon DEF Stop, Same, IInv, Rest
    <3>2. /\ InScript /\ StopAt(Boundary(Level), Level, FALSE) /\ FALSE \in BOOLEAN
          /\ UNCHANGED <<now, ops, todo, answered, held, cancelled, disposed>>
      BY <2>1 DEF Stop, Same
    <3> QED
      BY <3>1, <3>2, StopsHere
  <2>2. CASE Fault
    <3>1. faulted' \in BOOLEAN
      BY <2>2 DEF Fault
    <3>2. /\ InScript /\ StopAt(Boundary(Level), Level, TRUE) /\ TRUE \in BOOLEAN
          /\ UNCHANGED <<now, ops, todo, answered, held, cancelled, disposed>>
      BY <2>2 DEF Fault, Same
    <3> QED
      BY <3>1, <3>2, StopsHere
  <2> QED
    BY <1>2, <2>1, <2>2, ReturnStep, AwaitTickStep, QueueJobStep, EmitStep, CallBindingStep DEF Run
<1>3. CASE Host
  BY <1>3, BindingReturnStep, CallCallbackStep, RetainStep, BindingAwaitsStep, CallLateStep, CallRetainedStep, ReleaseOwnerStep DEF Host
<1>4. CASE Loop
  BY <1>4, SettleStep, ModuleDrainStep, AnswerStep, TickStep, CancelStep, DisposeStep DEF Loop
<1>5. CASE UNCHANGED vars
  <2>1. Busy' = Busy /\ Waits' = Waits
    BY <1>5 DEF vars, callVars, Busy, Waits, Waiting
  <2> QED
    BY <1>5, <2>1 DEF vars, callVars, IInv, Rest
<1> QED
  BY <1>1, <1>2, <1>3, <1>4, <1>5 DEF Next

(* Throughout, the stack is made of the activations the code can have, and the lanes, the interrupt frames and the
   counters are those its activations account for. *)
THEOREM Invariance == Spec => []IInv
BY InitInv, NextInv, PTL DEF Spec

(* Bookkeeping: once nothing runs, nothing is left behind; caller-context.ts's stacks, the interrupt frames and the
   two depths are back to what they were, for any nesting and any mixture of returns, stops and faults. *)
THEOREM Bookkeeping == Spec => []BookkeepingHolds
BY Invariance, Claims, PTL

-----------------------------------------------------------------------------
(* A stop a scope holds is not swallowed. *)

(* Nothing but its return ends a binding call that is not asynchronous, and the return of one that holds a stop ends the
   script under it too. *)
Held == stack # <<>> /\ Top.k = "host" /\ ~ Top.async /\ Top.fatal
LEMMA StopTaken ==
    ASSUME IInv, Held, BindingReturn
    PROVE  Len(stack') <= Level - 2
<1> DEFINE lvl == Len(stack) - 1
           b == Boundary(lvl)
           a == stack[b]
           below == SubSeq(stack, 1, b - 1)
<1>0. stack \in Seq(Activation) /\ Alternates(stack) /\ Level = Len(stack)
  BY DEF IInv, Sound, Level
<1>1. stack # <<>> /\ ~ IsScript(stack[Len(stack)]) /\ Len(stack) \in 1..Len(stack)
  BY <1>0 DEF Held, Top, Level, IsScript
<1>2. lvl \in 1..Len(stack) /\ IsScript(stack[lvl])
  BY <1>0, <1>1 DEF Alternates
<1>3. b \in 1..lvl
  BY <1>0, <1>2, BoundaryFound
<1>4. stack' = (IF a.via = "callback" /\ ~ FALSE THEN [below EXCEPT ![b - 1].fatal = TRUE] ELSE below)
  BY <1>0 DEF BindingReturn, Held, StopAt
<1>5. below \in Seq(Activation) /\ Len(below) = b - 1
  BY <1>0, <1>2, <1>3, Beneath
<1> HIDE DEF b, below
<1>6. Len([below EXCEPT ![b - 1].fatal = TRUE]) = Len(below)
  BY <1>5
<1> QED
  BY <1>0, <1>1, <1>3, <1>4, <1>5, <1>6

LEMMA StopKept ==
    IInv /\ [Next]_vars => [(stack # <<>> /\ Top.k = "host" /\ ~Top.async /\ Top.fatal /\ Len(stack') < Level)
                            => Len(stack') <= Level - 2]_vars
<1> SUFFICES ASSUME IInv, Next, Held
             PROVE  BindingReturn \/ Len(stack') >= Level
  <2>1. Level \in Nat
    BY DEF IInv, Sound, Level
  <2>2. BindingReturn /\ IInv /\ Held => Len(stack') <= Level - 2
    BY StopTaken
  <2>3. ASSUME IInv, Next, Held, Len(stack') >= Level, Len(stack') < Level PROVE FALSE
    <3>1. stack' \in Seq(Activation)
      BY <2>3, NextInv DEF IInv, Sound
    <3> QED
      BY <2>1, <2>3, <3>1
  <2> QED
    BY <2>2, <2>3 DEF Held
<1>0. stack \in Seq(Activation) /\ Level = Len(stack) /\ stack # <<>> /\ ~ InScript /\ Top.async # TRUE
  BY DEF IInv, Sound, Level, Held, InScript
<1>1. ASSUME NEW a, stack' = Append(stack, a) PROVE Len(stack') >= Level
  BY <1>0, <1>1
<1>2. ASSUME stack' = stack PROVE Len(stack') >= Level
  BY <1>0, <1>2
<1>3. CASE Start
  <2>1. \E a : stack' = Append(stack, a)
    BY <1>3 DEF Start, Execute, InvokeExport, FireHook, ExecuteAsync, StartInLane, Push
  <2> QED
    BY <1>1, <2>1
<1>4. CASE Run
  BY <1>0, <1>4 DEF Run, Return, AwaitTick, Stop, Fault, QueueJob, Emit, CallBinding
<1>5. CASE Host
  <2>1. CASE CallCallback \/ (\E r \in held : CallRetained(r))
    <3>1. \E a : stack' = Append(stack, a)
      BY <2>1 DEF CallCallback, CallRetained, Push
    <3> QED
      BY <1>1, <3>1
  <2>2. CASE Retain \/ (\E m \in Owner : ReleaseOwner(m))
    BY <1>2, <2>2 DEF Retain, ReleaseOwner, Same
  <2>3. ~ (\E awaited \in BOOLEAN : BindingAwaits(awaited)) /\ ~ (\E p \in pend : CallLate(p))
    BY <1>0 DEF BindingAwaits, CallLate
  <2> QED
    BY <1>5, <2>1, <2>2, <2>3 DEF Host
<1>6. CASE Loop
  <2>1. CASE Tick \/ Cancel
    BY <1>2, <2>1 DEF Tick, Cancel, Same
  <2> QED
    BY <1>0, <1>6, <2>1 DEF Loop, Settle, ModuleDrain, Answer, Dispose
<1> QED
  BY <1>3, <1>4, <1>5, <1>6 DEF Next

(* callbacks.ts's takeOutcome, for any nesting: a budget stop inside a callback ends the binding call that made it and the
   script that called the binding, whatever the host does in between. *)
THEOREM StopsReachTheScript == Spec => StopNotSwallowed
<1>1. IInv /\ [Next]_vars => [(stack # <<>> /\ Top.k = "host" /\ ~Top.async /\ Top.fatal /\ Len(stack') < Level)
                             => Len(stack') <= Level - 2]_vars
  BY StopKept
<1>2. QED
  BY Invariance, <1>1, PTL DEF Spec, StopNotSwallowed

-----------------------------------------------------------------------------
(* The end of a runtime is final. *)

(* What a disposal leaves: nothing that runs, nothing that will settle and, unless the engine had faulted, no callback. *)
Gone == disposed => stack = <<>> /\ pend = {} /\ (faulted \/ held = {})
Over == stack = <<>> /\ (faulted \/ disposed)

LEMMA OverStays ==
    ASSUME Gone, Next, Over
    PROVE  stack' = <<>>
<1>0. stack = <<>> /\ ~ InScript /\ (faulted \/ (disposed /\ pend = {} /\ (faulted \/ held = {})))
  BY DEF Over, Gone, InScript
<1>1. ~ Start
  BY <1>0 DEF Start, Execute, InvokeExport, FireHook, ExecuteAsync, StartInLane, Surface
<1>2. ~ Run
  BY <1>0 DEF Run, Return, AwaitTick, Stop, Fault, QueueJob, Emit, CallBinding
<1>3. CASE Host
  <2>1. ~ BindingReturn /\ ~ CallCallback /\ ~ (\E awaited \in BOOLEAN : BindingAwaits(awaited))
    BY <1>0 DEF BindingReturn, CallCallback, BindingAwaits
  <2>2. ~ (\E p \in pend : CallLate(p)) /\ ~ (\E r \in held : CallRetained(r))
    BY <1>0 DEF CallLate, CallRetained
  <2>3. CASE Retain \/ (\E m \in Owner : ReleaseOwner(m))
    BY <1>0, <2>3 DEF Retain, ReleaseOwner, Same
  <2> QED
    BY <1>3, <2>1, <2>2, <2>3 DEF Host
<1>4. CASE Loop
  <2>1. ASSUME NEW p \in pend, Settle(p) PROVE stack' = <<>>
    BY <1>0, <2>1 DEF Settle, Drain
  <2>2. ASSUME NEW c \in Calls, ModuleDrain(c) PROVE stack' = <<>>
    BY <1>0, <2>2 DEF ModuleDrain, Drain
  <2>3. CASE Tick \/ Cancel \/ Dispose \/ (\E c \in Calls : Answer(c))
    BY <1>0, <2>3 DEF Tick, Cancel, Dispose, Answer, Same
  <2> QED
    BY <1>4, <2>1, <2>2, <2>3 DEF Loop
<1> QED
  BY <1>1, <1>2, <1>3, <1>4 DEF Next

LEMMA GoneStays == Gone /\ [Next]_vars => Gone'
<1> SUFFICES ASSUME Gone, [Next]_vars, disposed' PROVE (stack = <<>> /\ pend = {} /\ (faulted \/ held = {}))'
  BY DEF Gone
<1>1. CASE UNCHANGED vars
  BY <1>1 DEF vars, callVars, Gone
<1>2. CASE Next /\ ~ disposed
  <2>1. Dispose
    <3>1. ~ Start
      BY <1>2 DEF Start, Execute, InvokeExport, FireHook, ExecuteAsync, StartInLane, Same
    <3>2. ~ Run
      BY <1>2 DEF Run, Return, AwaitTick, Stop, Fault, QueueJob, Emit, CallBinding, Same
    <3>3. ~ Host
      BY <1>2 DEF Host, BindingReturn, CallCallback, Retain, BindingAwaits, CallLate, CallRetained, ReleaseOwner, Same
    <3>4. Loop => Dispose
      BY <1>2 DEF Loop, Settle, ModuleDrain, Answer, Tick, Cancel, Same
    <3> QED
      BY <1>2, <3>1, <3>2, <3>3, <3>4 DEF Next
  <2> QED
    BY <2>1 DEF Dispose, Same
<1>3. CASE Next /\ disposed
  <2>0. stack = <<>> /\ pend = {} /\ (faulted \/ held = {}) /\ ~ InScript
    BY <1>3 DEF Gone, InScript
  <2>1. stack' = <<>>
    BY <1>3, <2>0, OverStays DEF Over
  <2>2. ~ Start /\ ~ Run
    BY <1>3, <2>0 DEF Start, Execute, InvokeExport, FireHook, ExecuteAsync, StartInLane, Surface,
                      Run, Return, AwaitTick, Stop, Fault, QueueJob, Emit, CallBinding
  <2>3. Host => \E m \in Owner : ReleaseOwner(m)
    BY <1>3, <2>0 DEF Host, BindingReturn, CallCallback, Retain, BindingAwaits, CallLate, CallRetained
  <2>4. ASSUME NEW m \in Owner, ReleaseOwner(m) PROVE pend' = {} /\ (faulted' \/ held' = {})
    BY <2>0, <2>4 DEF ReleaseOwner, Same
  <2>5. Loop => Tick \/ Cancel \/ \E c \in Calls : Answer(c)
    BY <1>3, <2>0 DEF Loop, Settle, ModuleDrain, Dispose
  <2>6. Tick \/ Cancel \/ (\E c \in Calls : Answer(c)) => pend' = {} /\ (faulted' \/ held' = {})
    <3>1. Tick \/ Cancel \/ (\E c \in Calls : Answer(c)) => pend' = pend /\ faulted' = faulted /\ held' = held
      BY DEF Tick, Cancel, Answer, Same
    <3> QED
      BY <2>0, <3>1
  <2> QED
    BY <1>3, <2>1, <2>2, <2>3, <2>4, <2>5, <2>6 DEF Next
<1> QED
  BY <1>1, <1>2, <1>3

(* After an engine fault or a disposal no script starts again, whatever was pending, queued or retained: stack-guard.ts's
   refusal of a faulted runtime and dispose() between them leave no way in. *)
THEOREM TheEndIsFinal == Spec => EndIsFinal
<1>1. Init => Gone
  BY DEF Init, Gone
<1>2. Gone /\ [Next]_vars => [(stack = <<>> /\ (faulted \/ disposed)) => stack' = <<>>]_vars
  BY OverStays DEF Over
<1>3. QED
  BY <1>1, <1>2, GoneStays, PTL DEF Spec, EndIsFinal

-----------------------------------------------------------------------------
(* Script is credited to its mod. *)

(* CallerContext.current, had lane l n frames. *)
CallerAt(lns, l, n) == IF n = 0 THEN None ELSE lns[l][n]

(* What script a finds when it runs, or runs again, in lane l with n frames on it: its own mod on top, or nobody, where no
   stray frame lies; and in a lane of a call still waiting, stray or not, the frame of the mod that call runs as, which an
   entry that brought the lane in force belongs to. *)
View(a, lns, ans, l, n, mk) ==
    /\ Intact(mk, l, n) => CallerAt(lns, l, n) \in {a.own, None}
    /\ l \notin ans \cup {Root} => n >= 1
    /\ a.via \in Switching /\ l \notin ans \cup {Root} => lns[l][1] = a.own
    /\ a.via \in {"invokeAsync", "module"} => l = a.call
Credited(stk, lns, act, ans, mk) ==
    /\ \A i \in 1..Len(stk) : Topmost(stk, i) => View(stk[i], lns, ans, act, Len(lns[act]), mk)
    /\ \A i, j \in 1..Len(stk) : Follows(stk, i, j) => View(stk[i], lns, ans, stk[j].prev, stk[j].base, mk)

(* Beneath everything that was started from it, a call's lane holds the call's own frame, or nothing once it is answered,
   unless a stray lies there. *)
Cap(d, ans) == IF d \in ans THEN 0 ELSE 1
From(stk, d) == {j \in 1..Len(stk) : IsScript(stk[j]) /\ stk[j].prev = d}
Low(stk, lns, ans, mk) ==
    \A d \in Calls :
        /\ From(stk, d) = {} /\ Intact(mk, d, Len(lns[d])) => Len(lns[d]) <= Cap(d, ans)
        /\ \A j \in From(stk, d) : (\A i \in From(stk, d) : j <= i) /\ Intact(mk, d, stk[j].base) => stk[j].base <= Cap(d, ans)

(* Which entries run a call's code, and for whom a binding is called. *)
Bears(a) ==
    /\ a.call # None => a.via \in Switching \cup {"executeAsync"}
    /\ a.via = "executeAsync" => a.prev = Root /\ a.own = None
    /\ a.via \in {"invokeAsync", "module"} => a.prev # a.call
Borne(stk) ==
    \A i \in 1..Len(stk) :
        IF IsScript(stk[i]) THEN Bears(stk[i]) ELSE stk[i].own = stk[i - 1].own /\ stk[i].call = stk[i - 1].call

Clean(stk, lns, act, ans, mk) == Credited(stk, lns, act, ans, mk) /\ Low(stk, lns, ans, mk) /\ Borne(stk)

(* A lane grew; and every waiting call's lane kept its call's frame. *)
Grew(lns, lns2, x) == Len(lns2[x]) >= Len(lns[x]) /\ \A k \in 1..Len(lns[x]) : lns2[x][k] = lns[x][k]
Kept(lns, lns2, ans) ==
    \A l \in Lanes \ (ans \cup {Root}) : Len(lns[l]) >= 1 => Len(lns2[l]) >= 1 /\ lns2[l][1] = lns[l][1]

(* What a settled binding's drain will find: the lane its call was in still belongs to the mod that awaits. *)
Owed(ps, lns, ans) ==
    \A p \in ps : p.call # None => p.lane \in ans \cup {Root} \/ (Len(lns[p.lane]) >= 1 /\ lns[p.lane][1] = p.own)

Credit ==
    seen = {} => /\ jobs = <<>> /\ Clean(stack, lanes, active, answered, stray) /\ Owed(pend, lanes, answered)
                 /\ \A r \in held : r.owner \in {r.fn, None}

-----------------------------------------------------------------------------
(* What runs stays credited as scripts start and end. *)

LEMMA ViewKept ==
    ASSUME NEW a, NEW lns, NEW ans, NEW l, NEW n \in Nat, NEW mk, View(a, lns, ans, l, n, mk), NEW lns2, \A k \in 1..n : lns2[l][k] = lns[l][k],
           NEW mk2, Intact(mk2, l, n) => Intact(mk, l, n)
    PROVE  View(a, lns2, ans, l, n, mk2)
<1>1. CallerAt(lns2, l, n) = CallerAt(lns, l, n)
  BY DEF CallerAt
<1>2. n >= 1 => lns2[l][1] = lns[l][1]
  OBVIOUS
<1> QED
  BY <1>1, <1>2 DEF View

(* Who follows whom once a script is on top. *)
LEMMA OnTop ==
    ASSUME NEW stk \in Seq(Activation), NEW a \in Activation, IsScript(a)
    PROVE  LET new == Append(stk, a) IN
           /\ \A i, j : Follows(new, i, j) => Follows(stk, i, j) \/ (j = Len(stk) + 1 /\ Topmost(stk, i))
           /\ \A i : Topmost(new, i) => i = Len(stk) + 1
<1> DEFINE new == Append(stk, a)
           n == Len(stk) + 1
<1>1. /\ new \in Seq(Activation) /\ Len(new) = n /\ new[n] = a /\ n \in Nat /\ Len(stk) \in Nat
      /\ \A i \in 1..Len(stk) : new[i] = stk[i]
  BY OneMore
<1> HIDE DEF new
<1>2. ASSUME NEW i, NEW j, Follows(new, i, j) PROVE Follows(stk, i, j) \/ (j = n /\ Topmost(stk, i))
  <2>1. i \in 1..Len(stk) /\ new[i] = stk[i] /\ i < j /\ j \in 1..n
    BY <1>1, <1>2 DEF Follows
  <2>2. CASE j = n
    <3>1. i + 1 \in 1..Len(stk) => new[i + 1] = stk[i + 1]
      BY <1>1
    <3>2. i = Len(stk) \/ (i + 1 = Len(stk) /\ ~ IsScript(stk[i + 1]))
      BY <1>1, <1>2, <2>1, <2>2, <3>1 DEF Follows
    <3>3. IsScript(stk[i])
      BY <1>2, <2>1 DEF Follows
    <3> QED
      BY <1>1, <2>1, <2>2, <3>2, <3>3 DEF Topmost
  <2>3. CASE j # n
    <3>1. j \in 1..Len(stk) /\ new[j] = stk[j]
      BY <1>1, <2>1, <2>3
    <3>2. i + 1 \in 1..Len(stk) /\ new[i + 1] = stk[i + 1]
      BY <1>1, <2>1, <3>1
    <3> QED
      BY <1>2, <2>1, <3>1, <3>2 DEF Follows
  <2> QED
    BY <2>2, <2>3
<1>3. \A i : Topmost(new, i) => i = n
  BY <1>1 DEF Topmost
<1> QED
  BY <1>2, <1>3 DEF new

(* And once it and all above it are gone. *)
LEMMA OffTop ==
    ASSUME NEW stk \in Seq(Activation), NEW b \in 1..Len(stk), IsScript(stk[b])
    PROVE  LET below == SubSeq(stk, 1, b - 1) IN
           /\ \A i, j : Follows(below, i, j) => Follows(stk, i, j) /\ i < b /\ j < b
           /\ \A i : Topmost(below, i) => Follows(stk, i, b)
<1> DEFINE below == SubSeq(stk, 1, b - 1)
<1>1. /\ below \in Seq(Activation) /\ Len(below) = b - 1
      /\ \A i \in 1..(b - 1) : below[i] = stk[i]
  BY Beneath
<1> HIDE DEF below
<1>2. \A i, j : Follows(below, i, j) => Follows(stk, i, j) /\ i < b /\ j < b
  BY <1>1 DEF Follows
<1>3. \A i : Topmost(below, i) => Follows(stk, i, b)
  <2> SUFFICES ASSUME NEW i, Topmost(below, i) PROVE Follows(stk, i, b)
    OBVIOUS
  <2>1. i \in 1..Len(below) /\ IsScript(below[i]) /\ (i = Len(below) \/ (i = Len(below) - 1 /\ ~ IsScript(below[Len(below)])))
    BY DEF Topmost
  <2>2. i \in 1..Len(stk) /\ below[i] = stk[i] /\ (i = Len(below) - 1 => below[Len(below)] = stk[i + 1])
    BY <1>1, <2>1
  <2> QED
    BY <1>1, <2>1, <2>2 DEF Follows
<1> QED
  BY <1>2, <1>3 DEF below

(* In a lane of a waiting call, whatever was started found the call's frame. *)
LEMMA FrameBelow ==
    ASSUME NEW stk \in Seq(Activation), NEW lns, NEW act, NEW ans, NEW mk, Alternates(stk), Returns(stk, act), Credited(stk, lns, act, ans, mk),
           NEW b \in 1..Len(stk), IsScript(stk[b]), stk[b].prev \notin ans \cup {Root}
    PROVE  stk[b].base >= 1
<1>1. b > 1
  BY DEF Returns
<1>2. PICK i \in 1..Len(stk) : Follows(stk, i, b)
  <2>1. CASE IsScript(stk[b - 1])
    BY <1>1, <2>1 DEF Follows
  <2>2. CASE ~ IsScript(stk[b - 1])
    <3>1. b - 1 > 1 /\ IsScript(stk[(b - 1) - 1])
      BY <1>1, <2>2 DEF Alternates
    <3>2. b - 2 \in 1..Len(stk) /\ (b - 1) - 1 = b - 2 /\ (b - 2) + 1 = b - 1 /\ b = (b - 2) + 2
      BY <3>1
    <3>3. Follows(stk, b - 2, b)
      BY <2>2, <3>1, <3>2 DEF Follows
    <3> QED
      BY <3>2, <3>3
  <2> QED
    BY <2>1, <2>2
<1> QED
  BY <1>2 DEF Credited, View

(* What the marks say of the frames that scripts below an ending one were started over. *)
LEMMA IntactBelow ==
    ASSUME NEW stk \in Seq(Activation), NEW lns, Holds(stk, lns), NEW b \in 1..Len(stk), IsScript(stk[b]),
           NEW mk, NEW mk2, NEW len, Leaves(mk, mk2, stk[b].prev, len, stk[b].base),
           NEW j \in 1..Len(stk), j <= b, IsScript(stk[j]), Intact(mk2, stk[j].prev, stk[j].base)
    PROVE  Intact(mk, stk[j].prev, stk[j].base)
<1>1. stk[j].prev \in Lanes /\ stk[j].base \in Nat /\ Pushed(stk[j]) \in Nat /\ stk[b].base \in Nat
  BY Kinds, PushedType
<1>2. CASE stk[j].prev = stk[b].prev
  <2>1. stk[j].base <= stk[b].base
    <3>1. CASE j = b
      BY <1>1, <3>1
    <3>2. CASE j # b
      <4>1. stk[b].base >= stk[j].base + Pushed(stk[j])
        BY <1>2, <3>2 DEF Holds
      <4> QED
        BY <1>1, <4>1
    <3> QED
      BY <3>1, <3>2
  <2> QED
    BY <1>1, <1>2, <2>1 DEF Leaves
<1>3. CASE stk[j].prev # stk[b].prev
  BY <1>1, <1>3 DEF Leaves, Intact
<1> QED
  BY <1>2, <1>3

LEMMA CleanEnd ==
    ASSUME NEW stk \in Seq(Activation), NEW lns \in [Lanes -> Seq(Owner)], NEW act, NEW ans, NEW mk,
           Alternates(stk), Returns(stk, act), Holds(stk, lns), Clean(stk, lns, act, ans, mk),
           NEW b \in 1..Len(stk), IsScript(stk[b]), \A j \in (b + 1)..Len(stk) : IsScript(stk[j]) => stk[j].prev = stk[b].prev,
           NEW lns2 \in [Lanes -> Seq(Owner)], \A x \in Lanes \ {stk[b].prev} : lns2[x] = lns[x],
           Len(lns2[stk[b].prev]) >= stk[b].base, \A k \in 1..stk[b].base : lns2[stk[b].prev][k] = lns[stk[b].prev][k],
           NEW mk2, Leaves(mk, mk2, stk[b].prev, Len(lns2[stk[b].prev]), stk[b].base)
    PROVE  Clean(SubSeq(stk, 1, b - 1), lns2, stk[b].prev, ans, mk2) /\ Kept(lns, lns2, ans)
<1> DEFINE below == SubSeq(stk, 1, b - 1)
           prev == stk[b].prev
           base == stk[b].base
<1>1. /\ below \in Seq(Activation) /\ Len(below) = b - 1
      /\ \A i \in 1..(b - 1) : below[i] = stk[i]
  BY Beneath
<1>2. /\ \A i, j : Follows(below, i, j) => Follows(stk, i, j) /\ i < b /\ j < b
      /\ \A i : Topmost(below, i) => Follows(stk, i, b)
  BY OffTop
<1>3. \A i \in 1..Len(stk) : IsScript(stk[i]) => stk[i].prev \in Lanes /\ stk[i].base \in Nat
  BY Kinds
<1>4. prev \in Lanes /\ base \in Nat
  BY <1>3
<1>5. \A j \in 1..Len(stk) : j < b /\ IsScript(stk[j]) /\ stk[j].prev = prev => stk[j].base <= base
  <2> SUFFICES ASSUME NEW j \in 1..Len(stk), j < b, IsScript(stk[j]), stk[j].prev = prev PROVE stk[j].base <= base
    OBVIOUS
  <2>1. base >= stk[j].base + Pushed(stk[j]) /\ Pushed(stk[j]) \in Nat /\ stk[j].base \in Nat
    BY <1>3, PushedType DEF Holds
  <2> QED
    BY <1>4, <2>1
<1> HIDE DEF below
<1>b. \A i \in 1..Len(below) : i \in 1..Len(stk) /\ i < b /\ below[i] = stk[i]
  BY <1>1
<1>6. Credited(below, lns2, prev, ans, mk2)
  <2>1. ASSUME NEW i \in 1..Len(below), Topmost(below, i) PROVE View(below[i], lns2, ans, prev, Len(lns2[prev]), mk2)
    <3> DEFINE len == Len(lns2[prev])
    <3>1. View(stk[i], lns, ans, prev, base, mk)
      BY <1>2, <1>b, <2>1 DEF Clean, Credited
    <3>2. len \in Nat /\ len >= base /\ \A k \in 1..base : lns2[prev][k] = lns[prev][k]
      BY <1>4
    <3>3. Intact(mk2, prev, len) => len = base /\ Intact(mk, prev, base)
      BY DEF Leaves
    <3>b. base \in Nat
      BY <1>4
    <3> HIDE DEF len, prev, base
    <3>4. Intact(mk2, prev, len) => CallerAt(lns2, prev, len) \in {stk[i].own, None}
      BY <3>b, <3>1, <3>2, <3>3 DEF View, CallerAt
    <3>5. base >= 1 => len >= 1 /\ lns2[prev][1] = lns[prev][1]
      BY <3>b, <3>2
    <3>6. View(stk[i], lns2, ans, prev, len, mk2)
      BY <3>1, <3>4, <3>5 DEF View
    <3> QED
      BY <1>b, <3>6 DEF len, prev, base
  <2>2. ASSUME NEW i \in 1..Len(below), NEW j \in 1..Len(below), Follows(below, i, j)
        PROVE  View(below[i], lns2, ans, below[j].prev, below[j].base, mk2)
    <3>0. below[i] = stk[i] /\ below[j] = stk[j] /\ i \in 1..Len(stk) /\ j \in 1..Len(stk) /\ j < b /\ Follows(stk, i, j)
      BY <1>2, <1>b, <2>2
    <3>1. View(stk[i], lns, ans, stk[j].prev, stk[j].base, mk)
      BY <3>0 DEF Clean, Credited
    <3>2. IsScript(stk[j]) /\ stk[j].prev \in Lanes /\ stk[j].base \in Nat
      BY <1>3, <3>0 DEF Follows
    <3>2a. Intact(mk2, stk[j].prev, stk[j].base) => Intact(mk, stk[j].prev, stk[j].base)
      <4>1. j <= b
        BY <3>0
      <4> DEFINE len == Len(lns2[prev])
      <4>2. Leaves(mk, mk2, stk[b].prev, len, stk[b].base)
        OBVIOUS
      <4> HIDE DEF len
      <4> QED
        BY <3>0, <3>2, <4>1, <4>2, IntactBelow
    <3>3. \A k \in 1..stk[j].base : lns2[stk[j].prev][k] = lns[stk[j].prev][k]
      <4>1. CASE stk[j].prev = prev
        <5>1. stk[j].base <= base
          BY <1>5, <3>0, <3>2, <4>1
        <5>2. \A k \in 1..stk[j].base : k \in 1..base
          BY <1>4, <3>2, <5>1
        <5> QED
          BY <4>1, <5>2
      <4>2. CASE stk[j].prev # prev
        BY <3>2, <4>2
      <4> QED
        BY <4>1, <4>2
    <3>4. View(stk[i], lns2, ans, stk[j].prev, stk[j].base, mk2)
      <4> DEFINE l == stk[j].prev
                 n == stk[j].base
                 c == stk[i]
      <4>1. View(c, lns, ans, l, n, mk) /\ n \in Nat /\ (\A k \in 1..n : lns2[l][k] = lns[l][k]) /\ (Intact(mk2, l, n) => Intact(mk, l, n))
        BY <3>1, <3>2, <3>2a, <3>3
      <4> HIDE DEF l, n, c
      <4>2. View(c, lns2, ans, l, n, mk2)
        BY ONLY <4>1, ViewKept
      <4> QED
        BY <4>2 DEF l, n, c
    <3> QED
      BY <3>0, <3>4
  <2> QED
    BY <2>1, <2>2 DEF Credited
<1>7. Low(below, lns2, ans, mk2)
  <2> SUFFICES ASSUME NEW d \in Calls
               PROVE  /\ From(below, d) = {} /\ Intact(mk2, d, Len(lns2[d])) => Len(lns2[d]) <= Cap(d, ans)
                      /\ \A j \in From(below, d) : (\A i \in From(below, d) : j <= i) /\ Intact(mk2, d, below[j].base) => below[j].base <= Cap(d, ans)
    BY DEF Low
  <2>0. /\ From(stk, d) = {} /\ Intact(mk, d, Len(lns[d])) => Len(lns[d]) <= Cap(d, ans)
        /\ \A j \in From(stk, d) : (\A i \in From(stk, d) : j <= i) /\ Intact(mk, d, stk[j].base) => stk[j].base <= Cap(d, ans)
    BY DEF Clean, Low
  <2>1. \A i \in From(below, d) : i \in From(stk, d) /\ i < b /\ below[i] = stk[i]
    BY <1>b DEF From
  <2>2. \A i \in From(stk, d) : i < b => i \in From(below, d)
    BY <1>1 DEF From
  <2>3. \A i \in From(stk, d) : i \in Nat /\ (i > b => d = prev)
    BY DEF From
  <2>4. ASSUME From(below, d) = {}, Intact(mk2, d, Len(lns2[d])) PROVE Len(lns2[d]) <= Cap(d, ans)
    <3>1. CASE d = prev
      <4>1. b \in From(stk, d)
        BY <3>1 DEF From
      <4>2. \A i \in From(stk, d) : b <= i
        BY <2>2, <2>3, <2>4
      <4>3. Len(lns2[d]) = base /\ Intact(mk, d, base)
        BY <2>4, <3>1 DEF Leaves
      <4> QED
        BY <2>0, <3>1, <4>1, <4>2, <4>3
    <3>2. CASE d # prev
      <4>1. From(stk, d) = {}
        <5> SUFFICES ASSUME NEW i \in From(stk, d) PROVE FALSE
          OBVIOUS
        <5>1. i \in 1..Len(stk) /\ IsScript(stk[i]) /\ stk[i].prev = d
          BY DEF From
        <5>2. i # b /\ ~ (i > b) /\ ~ (i < b)
          BY <2>2, <2>3, <2>4, <3>2, <5>1
        <5> QED
          BY <5>1, <5>2
      <4>2. lns2[d] = lns[d] /\ mk2[d] = mk[d]
        BY <3>2 DEF Lanes, Leaves
      <4> QED
        BY <2>0, <2>4, <4>1, <4>2 DEF Intact
    <3> QED
      BY <3>1, <3>2
  <2>5. ASSUME NEW j \in From(below, d), \A i \in From(below, d) : j <= i, Intact(mk2, d, below[j].base) PROVE below[j].base <= Cap(d, ans)
    <3>1. j \in From(stk, d) /\ j < b /\ below[j] = stk[j]
      BY <2>1, <2>5
    <3>2. \A i \in From(stk, d) : j <= i
      BY <2>2, <2>3, <2>5, <3>1
    <3>3. j \in 1..Len(stk) /\ IsScript(stk[j]) /\ stk[j].prev = d /\ j <= b
      BY <3>1 DEF From
    <3>4. Intact(mk, d, stk[j].base)
      <4> DEFINE len == Len(lns2[prev])
      <4>2. Leaves(mk, mk2, stk[b].prev, len, stk[b].base)
        OBVIOUS
      <4> HIDE DEF len
      <4> QED
        BY <2>5, <3>1, <3>3, <4>2, IntactBelow
    <3> QED
      BY <2>0, <3>1, <3>2, <3>4
  <2> QED
    BY <2>4, <2>5
<1>8. Borne(below)
  <2> SUFFICES ASSUME NEW i \in 1..Len(below)
               PROVE  IF IsScript(below[i]) THEN Bears(below[i])
                      ELSE below[i].own = below[i - 1].own /\ below[i].call = below[i - 1].call
    BY DEF Borne
  <2>1. i \in 1..Len(stk) /\ below[i] = stk[i]
    BY <1>b
  <2>2. ~ IsScript(stk[i]) => i - 1 \in 1..Len(below) /\ below[i - 1] = stk[i - 1]
    BY <1>1, <2>1 DEF Alternates
  <2> QED
    BY <2>1, <2>2 DEF Clean, Borne
<1>9. Kept(lns, lns2, ans)
  <2> SUFFICES ASSUME NEW l \in Lanes \ (ans \cup {Root}), Len(lns[l]) >= 1 PROVE Len(lns2[l]) >= 1 /\ lns2[l][1] = lns[l][1]
    BY DEF Kept
  <2>1. CASE l = prev
    <3>1. base >= 1
      BY <2>1, FrameBelow DEF Clean
    <3>2. 1 \in 1..base /\ Len(lns2[prev]) \in Nat
      BY <1>4, <3>1
    <3> QED
      BY <1>4, <2>1, <3>1, <3>2
  <2>2. CASE l # prev
    BY <2>2
  <2> QED
    BY <2>1, <2>2
<1> QED
  BY <1>6, <1>7, <1>8, <1>9 DEF Clean, below

LEMMA CleanStart ==
    ASSUME NEW stk \in Seq(Activation), NEW lns \in [Lanes -> Seq(Owner)], NEW act \in Lanes, NEW ans, NEW mk,
           Alternates(stk), Holds(stk, lns), Clean(stk, lns, act, ans, mk),
           NEW a \in ScriptActivation, a.prev = act, a.base = Len(lns[act]), Bears(a),
           NEW lns2, Grew(lns, lns2, act), \A i \in 1..Len(stk) : IsScript(stk[i]) => Grew(lns, lns2, stk[i].prev),
           \A d \in Calls \ {act} : lns2[d] = lns[d] \/ (Len(lns2[d]) <= 1 /\ d \notin ans),
           NEW act2, View(a, lns2, ans, act2, Len(lns2[act2]), mk)
    PROVE  Clean(Append(stk, a), lns2, act2, ans, mk)
<1> DEFINE new == Append(stk, a)
           n == Len(stk) + 1
<1>0. a \in Activation /\ IsScript(a) /\ Len(stk) \in Nat /\ n \in Nat
  BY DEF Activation, ScriptActivation, IsScript
<1>1. /\ new \in Seq(Activation) /\ Len(new) = n /\ new[n] = a
      /\ \A i \in 1..Len(stk) : new[i] = stk[i]
  BY <1>0, OneMore
<1>2. /\ \A i, j : Follows(new, i, j) => Follows(stk, i, j) \/ (j = n /\ Topmost(stk, i))
      /\ \A i : Topmost(new, i) => i = n
  BY <1>0, OnTop
<1>3. \A i \in 1..Len(stk) : IsScript(stk[i]) => stk[i].prev \in Lanes /\ stk[i].base \in Nat
  BY Kinds
<1> HIDE DEF new
<1>4. \A i \in 1..n : i = n \/ i \in 1..Len(stk)
  BY <1>0
<1>5. Credited(new, lns2, act2, ans, mk)
  <2>1. \A i \in 1..Len(new) : Topmost(new, i) => View(new[i], lns2, ans, act2, Len(lns2[act2]), mk)
    BY <1>1, <1>2
  <2>2. ASSUME NEW i \in 1..Len(new), NEW j \in 1..Len(new), Follows(new, i, j)
        PROVE  View(new[i], lns2, ans, new[j].prev, new[j].base, mk)
    <3>1. CASE Follows(stk, i, j)
      <4>1. i \in 1..Len(stk) /\ j \in 1..Len(stk) /\ IsScript(stk[j]) /\ new[i] = stk[i] /\ new[j] = stk[j]
        BY <1>1, <3>1 DEF Follows
      <4>2. View(stk[i], lns, ans, stk[j].prev, stk[j].base, mk)
        BY <3>1, <4>1 DEF Clean, Credited
      <4>3. stk[j].base \in Nat /\ stk[j].prev \in Lanes /\ Pushed(stk[j]) \in Nat /\ Len(lns[stk[j].prev]) >= stk[j].base + Pushed(stk[j])
        BY <1>3, <4>1, PushedType DEF Holds
      <4>4. lns[stk[j].prev] \in Seq(Owner)
        BY <4>3
      <4>5. \A k \in 1..stk[j].base : k \in 1..Len(lns[stk[j].prev])
        BY <4>3, <4>4
      <4>6. \A k \in 1..stk[j].base : lns2[stk[j].prev][k] = lns[stk[j].prev][k]
        BY <4>1, <4>5 DEF Grew
      <4>7. View(stk[i], lns2, ans, stk[j].prev, stk[j].base, mk)
        BY <4>2, <4>3, <4>6, ViewKept
      <4> QED
        BY <4>1, <4>7
    <3>2. CASE j = n /\ Topmost(stk, i)
      <4>1. i \in 1..Len(stk) /\ new[i] = stk[i] /\ new[j] = a
        BY <1>1, <3>2 DEF Topmost
      <4>2. View(stk[i], lns, ans, act, Len(lns[act]), mk)
        BY <3>2, <4>1 DEF Clean, Credited
      <4>3. lns[act] \in Seq(Owner)
        OBVIOUS
      <4>4. Len(lns[act]) \in Nat
        BY <4>3
      <4>5. View(stk[i], lns2, ans, act, Len(lns[act]), mk)
        BY <4>2, <4>4, ViewKept DEF Grew
      <4> QED
        BY <4>1, <4>5
    <3> QED
      BY <1>2, <2>2, <3>1, <3>2
  <2> QED
    BY <2>1, <2>2 DEF Credited
<1>6. Low(new, lns2, ans, mk)
  <2> SUFFICES ASSUME NEW d \in Calls
               PROVE  /\ From(new, d) = {} /\ Intact(mk, d, Len(lns2[d])) => Len(lns2[d]) <= Cap(d, ans)
                      /\ \A j \in From(new, d) : (\A i \in From(new, d) : j <= i) /\ Intact(mk, d, new[j].base) => new[j].base <= Cap(d, ans)
    BY DEF Low
  <2>0. /\ From(stk, d) = {} /\ Intact(mk, d, Len(lns[d])) => Len(lns[d]) <= Cap(d, ans)
        /\ \A j \in From(stk, d) : (\A i \in From(stk, d) : j <= i) /\ Intact(mk, d, stk[j].base) => stk[j].base <= Cap(d, ans)
    BY DEF Clean, Low
  <2>1. \A i \in From(stk, d) : i \in From(new, d) /\ i < n /\ i \in Nat /\ new[i] = stk[i]
    BY <1>1 DEF From
  <2>2. \A i \in From(new, d) : i \in From(stk, d) \/ (i = n /\ d = act)
    BY <1>1, <1>4 DEF From
  <2>3. d = act => n \in From(new, d)
    BY <1>0, <1>1 DEF From
  <2>4. ASSUME From(new, d) = {}, Intact(mk, d, Len(lns2[d])) PROVE Len(lns2[d]) <= Cap(d, ans)
    <3>1. d # act /\ From(stk, d) = {}
      BY <2>1, <2>3, <2>4
    <3>2. CASE lns2[d] = lns[d]
      BY <2>0, <2>4, <3>1, <3>2
    <3>3. CASE Len(lns2[d]) <= 1 /\ d \notin ans
      BY <3>3 DEF Cap
    <3> QED
      BY <3>1, <3>2, <3>3
  <2>5. ASSUME NEW j \in From(new, d), \A i \in From(new, d) : j <= i, Intact(mk, d, new[j].base) PROVE new[j].base <= Cap(d, ans)
    <3>1. CASE j \in From(stk, d)
      BY <2>0, <2>1, <2>5, <3>1
    <3>2. CASE j = n /\ d = act
      <4>1. From(stk, d) = {}
        <5> SUFFICES ASSUME NEW i \in From(stk, d) PROVE FALSE
          OBVIOUS
        <5>1. i \in From(new, d) /\ i < n /\ i \in Nat
          BY <2>1
        <5>2. n <= i
          BY <2>5, <3>2, <5>1
        <5> QED
          BY <1>0, <5>1, <5>2
      <4> QED
        BY <1>1, <2>0, <2>5, <3>2, <4>1
    <3> QED
      BY <2>2, <3>1, <3>2
  <2> QED
    BY <2>4, <2>5
<1>7. Borne(new)
  <2> SUFFICES ASSUME NEW i \in 1..Len(new)
               PROVE  IF IsScript(new[i]) THEN Bears(new[i]) ELSE new[i].own = new[i - 1].own /\ new[i].call = new[i - 1].call
    BY DEF Borne
  <2>1. CASE i = n
    BY <1>0, <1>1, <2>1
  <2>2. CASE i \in 1..Len(stk)
    <3>1. ~ IsScript(stk[i]) => i - 1 \in 1..Len(stk)
      BY <2>2 DEF Alternates
    <3> QED
      BY <1>1, <2>2, <3>1 DEF Clean, Borne
  <2> QED
    BY <1>1, <1>4, <2>1, <2>2
<1> QED
  BY <1>5, <1>6, <1>7 DEF Clean, new

(* Who follows whom does not change as a binding is called or returns. *)
LEMMA HostOnTop ==
    ASSUME NEW stk \in Seq(Activation), NEW h \in HostActivation, stk # <<>>, IsScript(stk[Len(stk)])
    PROVE  LET new == Append(stk, h) IN
           /\ \A i, j : Follows(new, i, j) <=> Follows(stk, i, j)
           /\ \A i : Topmost(new, i) <=> Topmost(stk, i)
<1> DEFINE new == Append(stk, h)
           n == Len(stk) + 1
<1>0. h \in Activation /\ ~ IsScript(h) /\ Len(stk) \in Nat /\ Len(stk) > 0
  BY DEF Activation, HostActivation, IsScript
<1>1. /\ new \in Seq(Activation) /\ Len(new) = n /\ new[n] = h
      /\ \A i \in 1..Len(stk) : new[i] = stk[i]
  BY <1>0, OneMore
<1> HIDE DEF new
<1>2. \A i \in 1..Len(new) : IsScript(new[i]) => i \in 1..Len(stk)
  BY <1>0, <1>1
<1>3. \A i, j : Follows(new, i, j) => Follows(stk, i, j)
  <2> SUFFICES ASSUME NEW i, NEW j, Follows(new, i, j) PROVE Follows(stk, i, j)
    OBVIOUS
  <2>1. i \in 1..Len(stk) /\ j \in 1..Len(stk) /\ (j = i + 1 \/ j = i + 2)
    BY <1>2 DEF Follows
  <2>2. new[i] = stk[i] /\ new[j] = stk[j] /\ new[i + 1] = stk[i + 1]
    BY <1>1, <2>1
  <2> QED
    BY <2>1, <2>2 DEF Follows
<1>4. \A i, j : Follows(stk, i, j) => Follows(new, i, j)
  <2> SUFFICES ASSUME NEW i, NEW j, Follows(stk, i, j) PROVE Follows(new, i, j)
    OBVIOUS
  <2>1. i \in 1..Len(stk) /\ j \in 1..Len(stk) /\ (j = i + 1 \/ j = i + 2)
    BY DEF Follows
  <2>2. new[i] = stk[i] /\ new[j] = stk[j] /\ new[i + 1] = stk[i + 1] /\ i \in 1..Len(new) /\ j \in 1..Len(new)
    BY <1>1, <2>1
  <2> QED
    BY <2>1, <2>2 DEF Follows
<1>5. \A i : Topmost(new, i) => Topmost(stk, i)
  BY <1>0, <1>1, <1>2 DEF Topmost
<1>6. \A i : Topmost(stk, i) => Topmost(new, i)
  BY <1>0, <1>1 DEF Topmost
<1> QED
  BY <1>3, <1>4, <1>5, <1>6 DEF new

LEMMA CleanHostIn ==
    ASSUME NEW stk \in Seq(Activation), NEW lns, NEW act, NEW ans, NEW mk, Alternates(stk), Clean(stk, lns, act, ans, mk),
           NEW h \in HostActivation, stk # <<>>, IsScript(stk[Len(stk)]), h.own = stk[Len(stk)].own, h.call = stk[Len(stk)].call
    PROVE  Clean(Append(stk, h), lns, act, ans, mk)
<1> DEFINE new == Append(stk, h)
           n == Len(stk) + 1
<1>0. h \in Activation /\ ~ IsScript(h) /\ Len(stk) \in Nat /\ Len(stk) > 0 /\ Len(stk) \in 1..Len(stk)
  BY DEF Activation, HostActivation, IsScript
<1>1. /\ new \in Seq(Activation) /\ Len(new) = n /\ new[n] = h
      /\ \A i \in 1..Len(stk) : new[i] = stk[i]
  BY <1>0, OneMore
<1>2. (\A i, j : Follows(new, i, j) <=> Follows(stk, i, j)) /\ (\A i : Topmost(new, i) <=> Topmost(stk, i))
  BY HostOnTop
<1> HIDE DEF new
<1>3. Credited(new, lns, act, ans, mk)
  <2>1. \A i \in 1..Len(new) : Topmost(new, i) => View(new[i], lns, ans, act, Len(lns[act]), mk)
    <3>1. \A i : Topmost(stk, i) => i \in 1..Len(stk) /\ new[i] = stk[i]
      BY <1>1 DEF Topmost
    <3> QED
      BY <1>2, <3>1 DEF Clean, Credited
  <2>2. \A i, j \in 1..Len(new) : Follows(new, i, j) => View(new[i], lns, ans, new[j].prev, new[j].base, mk)
    <3>1. \A i, j : Follows(stk, i, j) => i \in 1..Len(stk) /\ new[i] = stk[i] /\ j \in 1..Len(stk) /\ new[j] = stk[j]
      BY <1>1 DEF Follows
    <3> QED
      BY <1>2, <3>1 DEF Clean, Credited
  <2> QED
    BY <2>1, <2>2 DEF Credited
<1>4. \A d : From(new, d) = From(stk, d) /\ \A j \in From(stk, d) : new[j] = stk[j]
  BY <1>0, <1>1 DEF From
<1>5. Low(new, lns, ans, mk)
  BY <1>4 DEF Clean, Low
<1>6. Borne(new)
  <2> SUFFICES ASSUME NEW i \in 1..Len(new)
               PROVE  IF IsScript(new[i]) THEN Bears(new[i]) ELSE new[i].own = new[i - 1].own /\ new[i].call = new[i - 1].call
    BY DEF Borne
  <2>1. CASE i = n
    <3>1. i - 1 = Len(stk) /\ new[i - 1] = stk[Len(stk)] /\ new[i] = h
      BY <1>0, <1>1, <2>1
    <3> QED
      BY <1>0, <3>1
  <2>2. CASE i # n
    <3>0. i \in 1..Len(stk)
      BY <1>0, <1>1, <2>2
    <3>1. ~ IsScript(stk[i]) => i - 1 \in 1..Len(stk)
      BY <3>0 DEF Alternates
    <3> QED
      BY <1>1, <3>0, <3>1 DEF Clean, Borne
  <2> QED
    BY <2>1, <2>2
<1> QED
  BY <1>3, <1>5, <1>6 DEF Clean, new

LEMMA CleanHostOut ==
    ASSUME NEW stk \in Seq(Activation), NEW lns, NEW act, NEW ans, NEW mk, Alternates(stk), Clean(stk, lns, act, ans, mk),
           stk # <<>>, ~ IsScript(stk[Len(stk)])
    PROVE  Clean(SubSeq(stk, 1, Len(stk) - 1), lns, act, ans, mk)
<1> DEFINE below == SubSeq(stk, 1, Len(stk) - 1)
           h == stk[Len(stk)]
<1>0. Len(stk) \in Nat /\ Len(stk) > 1 /\ Len(stk) \in 1..Len(stk) /\ IsScript(stk[Len(stk) - 1])
  BY DEF Alternates
<1>1. /\ below \in Seq(Activation) /\ Len(below) = Len(stk) - 1 /\ below # <<>>
      /\ \A i \in 1..(Len(stk) - 1) : below[i] = stk[i]
  <2>1. /\ below \in Seq(Activation) /\ Len(below) = Len(stk) - 1 /\ (below = <<>> <=> Len(stk) = 1)
        /\ \A i \in 1..(Len(stk) - 1) : below[i] = stk[i]
    BY <1>0, Beneath
  <2> HIDE DEF below
  <2> QED
    BY <1>0, <2>1
<1>2. h \in HostActivation /\ stk = Append(below, h)
  BY <1>0, Kinds
<1> HIDE DEF below, h
<1>b. \A i \in 1..Len(below) : i \in 1..Len(stk) /\ below[i] = stk[i]
  BY <1>0, <1>1
<1>s. \A i \in 1..Len(stk) : IsScript(stk[i]) => i \in 1..Len(below)
  BY <1>0, <1>1
<1>3. IsScript(below[Len(below)])
  BY <1>0, <1>1
<1>4. (\A i, j : Follows(stk, i, j) <=> Follows(below, i, j)) /\ (\A i : Topmost(stk, i) <=> Topmost(below, i))
  BY <1>1, <1>2, <1>3, HostOnTop
<1>5. Credited(below, lns, act, ans, mk)
  BY <1>b, <1>4 DEF Clean, Credited
<1>6. \A d : From(below, d) = From(stk, d) /\ \A j \in From(stk, d) : below[j] = stk[j]
  BY <1>b, <1>s DEF From
<1>7. Low(below, lns, ans, mk)
  BY <1>6 DEF Clean, Low
<1>8. Borne(below)
  <2> SUFFICES ASSUME NEW i \in 1..Len(below)
               PROVE  IF IsScript(below[i]) THEN Bears(below[i])
                      ELSE below[i].own = below[i - 1].own /\ below[i].call = below[i - 1].call
    BY DEF Borne
  <2>1. i \in 1..Len(stk) /\ below[i] = stk[i]
    BY <1>b
  <2>2. ~ IsScript(stk[i]) => i - 1 \in 1..Len(below) /\ below[i - 1] = stk[i - 1]
    BY <1>0, <1>1, <2>1 DEF Alternates
  <2> QED
    BY <2>1, <2>2 DEF Clean, Borne
<1> QED
  BY <1>5, <1>7, <1>8 DEF Clean, below

(* The stop a binding holds does not change whose it is. *)
LEMMA CleanMarked ==
    ASSUME NEW stk \in Seq(Activation), NEW lns, NEW act, NEW ans, NEW mk, Alternates(stk), Clean(stk, lns, act, ans, mk),
           stk # <<>>, ~ IsScript(stk[Len(stk)])
    PROVE  Clean([stk EXCEPT ![Len(stk)].fatal = TRUE], lns, act, ans, mk)
<1> DEFINE top == Len(stk)
           h == [stk[top] EXCEPT !.fatal = TRUE]
           stk2 == [stk EXCEPT ![top] = h]
<1>1. top \in 1..Len(stk) /\ stk[top] \in HostActivation
  BY Kinds
<1>2. h.call = stk[top].call /\ h.own = stk[top].own /\ h.k = "host" /\ h \in Activation
  BY <1>1 DEF HostActivation, Activation
<1>3. [stk EXCEPT ![Len(stk)].fatal = TRUE] = stk2
  BY Zenon
<1> HIDE DEF h
<1>4. Len(stk2) = Len(stk) /\ stk2[top] = h /\ \A i \in 1..Len(stk) : i # top => stk2[i] = stk[i]
  BY <1>1, <1>2
<1>5. ~ IsScript(h)
  BY <1>2 DEF IsScript
<1> HIDE DEF stk2, top
<1>6. \A i \in 1..Len(stk) : /\ IsScript(stk2[i]) <=> IsScript(stk[i])
                             /\ IsScript(stk[i]) => stk2[i] = stk[i]
                             /\ stk2[i].own = stk[i].own /\ stk2[i].call = stk[i].call
  BY <1>2, <1>4, <1>5 DEF top
<1>7. \A i, j : Follows(stk2, i, j) <=> Follows(stk, i, j)
  BY <1>4, <1>6 DEF Follows
<1>8. \A i : Topmost(stk2, i) <=> Topmost(stk, i)
  BY <1>4, <1>6 DEF Topmost
<1>9. Credited(stk2, lns, act, ans, mk)
  <2>1. \A i \in 1..Len(stk2) : Topmost(stk2, i) => View(stk2[i], lns, ans, act, Len(lns[act]), mk)
    BY <1>4, <1>6, <1>8 DEF Clean, Credited, Topmost
  <2>2. \A i, j \in 1..Len(stk2) : Follows(stk2, i, j) => View(stk2[i], lns, ans, stk2[j].prev, stk2[j].base, mk)
    <3>1. \A i, j : Follows(stk, i, j) => /\ i \in 1..Len(stk) /\ j \in 1..Len(stk) /\ stk2[i] = stk[i] /\ stk2[j] = stk[j]
                                          /\ View(stk[i], lns, ans, stk[j].prev, stk[j].base, mk)
      BY <1>6 DEF Clean, Credited, Follows
    <3> QED
      BY <1>7, <3>1
  <2> QED
    BY <2>1, <2>2 DEF Credited
<1>10. \A d : From(stk2, d) = From(stk, d) /\ \A j \in From(stk, d) : stk2[j] = stk[j]
  BY <1>4, <1>6 DEF From
<1>11. Low(stk2, lns, ans, mk)
  BY <1>10 DEF Clean, Low
<1>12. Borne(stk2)
  <2> SUFFICES ASSUME NEW i \in 1..Len(stk)
               PROVE  IF IsScript(stk2[i]) THEN Bears(stk2[i]) ELSE stk2[i].own = stk2[i - 1].own /\ stk2[i].call = stk2[i - 1].call
    BY <1>4 DEF Borne
  <2>1. ~ IsScript(stk[i]) => i - 1 \in 1..Len(stk)
    BY DEF Alternates
  <2> QED
    BY <1>6, <2>1 DEF Clean, Borne
<1> QED
  BY <1>3, <1>9, <1>11, <1>12 DEF Clean

(* With nothing running, only the lanes of calls matter. *)
LEMMA CleanEmpty ==
    ASSUME NEW lns, NEW act, NEW ans, NEW mk
    PROVE  Clean(<<>>, lns, act, ans, mk) <=> \A d \in Calls : Intact(mk, d, Len(lns[d])) => Len(lns[d]) <= Cap(d, ans)
<1>1. Len(<<>>) = 0 /\ 1..0 = {}
  OBVIOUS
<1>2. Credited(<<>>, lns, act, ans, mk) /\ Borne(<<>>) /\ \A d : From(<<>>, d) = {}
  BY <1>1 DEF Credited, Borne, From
<1> QED
  BY <1>2 DEF Clean, Low

LEMMA OwedKept ==
    ASSUME NEW ps, ps \subseteq Work, NEW lns, NEW lns2, NEW ans, Owed(ps, lns, ans), Kept(lns, lns2, ans)
    PROVE  Owed(ps, lns2, ans)
BY DEF Owed, Kept, Work

-----------------------------------------------------------------------------
(* The steps that start a script. *)

LEMMA CurrentAt == IInv => Current = CallerAt(lanes, active, Len(lanes[active])) /\ Len(lanes[active]) \in Nat
<1> SUFFICES ASSUME IInv PROVE Current = CallerAt(lanes, active, Len(lanes[active])) /\ Len(lanes[active]) \in Nat
  OBVIOUS
<1>1. lanes[active] \in Seq(Owner)
  BY Basics
<1> QED
  BY <1>1 DEF Current, CallerAt, Last

LEMMA AtRestClean ==
    ASSUME IInv, stack = <<>>, Intact(stray, Root, Len(lanes[Root]))
    PROVE  active = Root /\ lanes[Root] = <<>> /\ Len(lanes[Root]) = 0
<1>1. active = Root /\ lanes[Root] = <<>>
  BY DEF IInv, Sound, Returns, Fits
<1> QED
  BY <1>1

LEMMA CreditBegins ==
    ASSUME IInv, Credit, seen' = {} => seen = {},
           NEW a \in ScriptActivation, a.prev = active, a.base = Depth, Bears(a),
           stack' = Append(stack, a), UNCHANGED <<jobs, pend, answered, held, stray>>,
           \A x \in Busy \cup {Root} : Grew(lanes, lanes', x),
           \A d \in Calls \ {active} : lanes'[d] = lanes[d] \/ (Len(lanes'[d]) <= 1 /\ d \notin answered),
           View(a, lanes', answered, active', Len(lanes'[active']), stray)
    PROVE  Credit'
<1> SUFFICES ASSUME seen' = {} PROVE Credit'
  BY DEF Credit
<1>1. /\ jobs = <<>> /\ Clean(stack, lanes, active, answered, stray) /\ Owed(pend, lanes, answered)
      /\ \A r \in held : r.owner \in {r.fn, None}
  BY DEF Credit
<1>2. /\ stack \in Seq(Activation) /\ lanes \in [Lanes -> Seq(Owner)] /\ active \in Lanes /\ Alternates(stack) /\ Holds(stack, lanes)
      /\ active \in Busy \cup {Root}
      /\ \A i \in 1..Len(stack) : IsScript(stack[i]) => stack[i].prev \in Busy \cup {Root}
  BY DEF IInv, Sound, Named
<1>3. a.base = Len(lanes[active]) /\ Grew(lanes, lanes', active)
      /\ \A i \in 1..Len(stack) : IsScript(stack[i]) => Grew(lanes, lanes', stack[i].prev)
  BY <1>2 DEF Depth
<1> DEFINE lns2 == lanes'
           act2 == active'
<1>3a. /\ Grew(lanes, lns2, active) /\ \A i \in 1..Len(stack) : IsScript(stack[i]) => Grew(lanes, lns2, stack[i].prev)
       /\ \A d \in Calls \ {active} : lns2[d] = lanes[d] \/ (Len(lns2[d]) <= 1 /\ d \notin answered)
       /\ View(a, lns2, answered, act2, Len(lns2[act2]), stray)
  BY <1>3
<1> HIDE DEF lns2, act2
<1>4. Clean(Append(stack, a), lns2, act2, answered, stray)
  BY <1>1, <1>2, <1>3, <1>3a, CleanStart
<1>5. Owed(pend, lanes', answered)
  <2> SUFFICES ASSUME NEW p \in pend, p.call # None, p.lane \notin answered \cup {Root}
               PROVE  Len(lanes'[p.lane]) >= 1 /\ lanes'[p.lane][1] = p.own
    BY DEF Owed
  <2>1. Len(lanes[p.lane]) >= 1 /\ lanes[p.lane][1] = p.own
    BY <1>1 DEF Owed
  <2>2. p.lane \in Busy \cup {Root} /\ p.lane \in Lanes
    BY DEF IInv, Rest, Pends, Work
  <2>3. lanes[p.lane] \in Seq(Owner)
    BY <1>2, <2>2
  <2>4. Len(lanes[p.lane]) \in Nat /\ 1 \in 1..Len(lanes[p.lane])
    BY <2>1, <2>3
  <2>5. Len(lanes'[p.lane]) >= Len(lanes[p.lane]) /\ lanes'[p.lane][1] = lanes[p.lane][1]
    BY <2>2, <2>4 DEF Grew
  <2>6. Len(lanes'[p.lane]) >= 1
    BY <2>1, <2>4, <2>5
  <2> QED
    BY <2>1, <2>5, <2>6
<1>6. Clean(stack', lanes', active', answered', stray')
  BY <1>4 DEF lns2, act2
<1> QED
  BY <1>1, <1>5, <1>6 DEF Credit

(* One more frame on a lane. *)
LEMMA PushView ==
    ASSUME NEW lns \in [Lanes -> Seq(Owner)], NEW x \in Lanes, NEW o \in Owner, NEW ans, NEW mk,
           NEW a, o = a.own \/ o = None, a.via \notin Switching,
           NEW lns2, lns2[x] = Append(lns[x], o), \A y \in Lanes \ {x} : lns2[y] = lns[y]
    PROVE  /\ View(a, lns2, ans, x, Len(lns2[x]), mk) /\ \A y \in Lanes : Grew(lns, lns2, y)
<1>1. lns[x] \in Seq(Owner) /\ lns2[x] = Append(lns[x], o) /\ \A y \in Lanes \ {x} : lns2[y] = lns[y]
  OBVIOUS
<1>2. Len(lns[x]) \in Nat /\ Len(lns2[x]) = Len(lns[x]) + 1 /\ lns2[x][Len(lns[x]) + 1] = o
      /\ \A k \in 1..Len(lns[x]) : lns2[x][k] = lns[x][k]
  BY <1>1
<1>3. CallerAt(lns2, x, Len(lns2[x])) = o /\ Len(lns2[x]) >= 1
  BY <1>2 DEF CallerAt
<1>4. View(a, lns2, ans, x, Len(lns2[x]), mk)
  BY <1>3 DEF View, Switching
<1>5. Grew(lns, lns2, x)
  BY <1>2 DEF Grew
<1>6. ASSUME NEW y \in Lanes \ {x} PROVE Grew(lns, lns2, y)
  <2>1. lns2[y] = lns[y] /\ lns[y] \in Seq(Owner)
    BY <1>1
  <2> QED
    BY <2>1 DEF Grew
<1> QED
  BY <1>4, <1>5, <1>6

LEMMA CreditPushes ==
    ASSUME IInv, Credit, seen' = {} => seen = {},
           NEW a \in ScriptActivation, a.prev = active, a.base = Depth, Bears(a), a.via \notin Switching,
           NEW o \in Owner, o \in {a.own, None}, lanes' = [lanes EXCEPT ![active] = Append(@, o)], active' = active,
           stack' = Append(stack, a), UNCHANGED <<jobs, pend, answered, held, stray>>
    PROVE  Credit'
<1>1. lanes \in [Lanes -> Seq(Owner)] /\ active \in Lanes
  BY Basics
<1> DEFINE lns2 == lanes'
<1>2. lns2[active] = Append(lanes[active], o) /\ \A y \in Lanes \ {active} : lns2[y] = lanes[y]
  BY <1>1
<1> HIDE DEF lns2
<1>3. View(a, lns2, answered, active, Len(lns2[active]), stray) /\ \A y \in Lanes : Grew(lanes, lns2, y)
  <2>1. lanes \in [Lanes -> Seq(Owner)] /\ active \in Lanes /\ o \in Owner /\ (o = a.own \/ o = None) /\ a.via \notin Switching
    BY <1>1
  <2> QED
    BY ONLY <1>2, <2>1, PushView
<1>4. /\ View(a, lanes', answered, active', Len(lanes'[active']), stray) /\ \A x \in Busy \cup {Root} : Grew(lanes, lanes', x)
      /\ \A d \in Calls \ {active} : lanes'[d] = lanes[d]
  BY <1>2, <1>3 DEF lns2, Lanes, Busy
<1> QED
  BY <1>4, CreditBegins

LEMMA ExecuteCredit ==
    ASSUME IInv, Credit, NEW o \in Owner, Execute(o)
    PROVE  Credit'
<1> DEFINE r == Script("execute", None, o, Depth)
           a == [r EXCEPT !.sync = 1]
<1>1. /\ stack' = Append(stack, a) /\ active' = active /\ seen' = seen
      /\ lanes' = [lanes EXCEPT ![active] = Append(@, o)] /\ UNCHANGED <<jobs, pend, answered, held, stray>>
  BY DEF Execute, Push, Same, callVars
<1>2. r \in ScriptActivation /\ r.via = "execute" /\ r.call = None /\ r.own = o /\ r.base = Depth /\ r.prev = active
  <2>1. "execute" \in Entries /\ None \in Calls \cup {None} /\ active \in Lanes /\ Depth \in Nat
    BY Basics DEF Entries
  <2> QED
    BY <2>1, ScriptTyped, ScriptFields
<1> HIDE DEF r
<1>3. a \in ScriptActivation /\ a.via = "execute" /\ a.call = None /\ a.own = o /\ a.base = Depth /\ a.prev = active
  BY <1>2 DEF ScriptActivation
<1> HIDE DEF a
<1>4. Bears(a) /\ a.via \notin Switching
  BY <1>3 DEF Bears, Switching
<1> QED
  BY <1>1, <1>3, <1>4, CreditPushes

LEMMA InvokeExportCredit ==
    ASSUME IInv, Credit, NEW o \in Mods, NEW via \in {"invoke", "strict"}, InvokeExport(o, via)
    PROVE  Credit'
<1> DEFINE s == IF via = "strict" THEN 1 ELSE 0
           r == Script(via, None, o, Depth)
           a == [r EXCEPT !.sync = s]
<1>1. /\ stack' = Append(stack, a) /\ active' = active /\ seen' = seen
      /\ lanes' = [lanes EXCEPT ![active] = Append(@, o)] /\ UNCHANGED <<jobs, pend, answered, held, stray>>
  BY DEF InvokeExport, Push, Same, callVars
<1>o. o \in Owner /\ s \in {0, 1}
  BY DEF Owner
<1> HIDE DEF s
<1>2. r \in ScriptActivation /\ r.via = via /\ r.call = None /\ r.own = o /\ r.base = Depth /\ r.prev = active
  <2>1. via \in Entries /\ None \in Calls \cup {None} /\ active \in Lanes /\ Depth \in Nat
    BY Basics DEF Entries
  <2> QED
    BY <1>o, <2>1, ScriptTyped, ScriptFields
<1> HIDE DEF r
<1>3. a \in ScriptActivation /\ a.via = via /\ a.call = None /\ a.own = o /\ a.base = Depth /\ a.prev = active
  BY <1>o, <1>2 DEF ScriptActivation
<1> HIDE DEF a
<1>4. Bears(a) /\ a.via \notin Switching
  BY <1>3 DEF Bears, Switching
<1> QED
  BY <1>o, <1>1, <1>3, <1>4, CreditPushes

LEMMA FireHookCredit ==
    ASSUME IInv, Credit, NEW hs \in Seq(Mods), hs # <<>>, NEW budgeted \in BOOLEAN, FireHook(hs, budgeted)
    PROVE  Credit'
<1> DEFINE o == Head(hs)
           rest == Tail(hs)
           r == Script("fire", None, o, Depth)
           a == [r EXCEPT !.rest = rest]
<1>1. /\ stack' = Append(stack, a) /\ active' = active /\ seen' = seen
      /\ lanes' = [lanes EXCEPT ![active] = Append(@, o)] /\ UNCHANGED <<jobs, pend, answered, held, stray>>
  BY DEF FireHook, Push, Same, callVars
<1>o. o \in Owner /\ rest \in Seq(Mods)
  BY DEF Owner
<1> HIDE DEF o, rest
<1>2. r \in ScriptActivation /\ r.via = "fire" /\ r.call = None /\ r.own = o /\ r.base = Depth /\ r.prev = active
  <2>1. "fire" \in Entries /\ None \in Calls \cup {None} /\ active \in Lanes /\ Depth \in Nat
    BY Basics DEF Entries
  <2>2. r \in ScriptActivation
    BY <1>o, <2>1, ScriptTyped
  <2> QED
    BY <2>2, ScriptFields
<1> HIDE DEF r
<1>3. a \in ScriptActivation /\ a.via = "fire" /\ a.call = None /\ a.own = o /\ a.base = Depth /\ a.prev = active
  BY <1>o, <1>2 DEF ScriptActivation
<1> HIDE DEF a
<1>4. Bears(a) /\ a.via \notin Switching
  BY <1>3 DEF Bears, Switching
<1> QED
  BY <1>o, <1>1, <1>3, <1>4, CreditPushes

(* "lent" is only unseen when the call resumes in the root lane. *)
LEMMA ExecuteAsyncCredit ==
    ASSUME IInv, Credit, NEW c \in Calls, ExecuteAsync(c)
    PROVE  Credit'
<1> DEFINE a == Script("executeAsync", c, None, Depth)
<1>0. CASE active # Root
  BY <1>0 DEF ExecuteAsync, Credit
<1>1. CASE active = Root
  <2>1. /\ stack' = Append(stack, a) /\ active' = active /\ (seen' = {} => seen = {})
        /\ lanes' = [lanes EXCEPT ![active] = Append(@, None)] /\ UNCHANGED <<jobs, pend, answered, held, stray>>
    BY DEF ExecuteAsync, Push, Same
  <2>2. a \in ScriptActivation /\ a.via = "executeAsync" /\ a.call = c /\ a.own = None /\ a.base = Depth /\ a.prev = active
    <3>1. "executeAsync" \in Entries /\ None \in Owner /\ c \in Calls \cup {None} /\ active \in Lanes /\ Depth \in Nat
      BY Basics DEF Entries, Owner
    <3> QED
      BY <3>1, ScriptTyped, ScriptFields
  <2> HIDE DEF a
  <2>3. Bears(a) /\ a.via \notin Switching /\ None \in Owner
    BY <1>1, <2>2 DEF Bears, Switching, Owner
  <2> QED
    BY <2>1, <2>2, <2>3, CreditPushes
<1> QED
  BY <1>0, <1>1

LEMMA StartInLaneCredit ==
    ASSUME IInv, Credit, NEW c \in Calls, NEW o \in Mods, NEW via \in {"invokeAsync", "module"}, StartInLane(c, o, via)
    PROVE  Credit'
<1> DEFINE a == Script(via, c, o, Depth)
<1>1. /\ stack' = Append(stack, a) /\ active' = c /\ lanes' = [lanes EXCEPT ![c] = <<o>>] /\ (seen' = {} => seen = {})
      /\ st[c] = "idle" /\ UNCHANGED <<jobs, pend, answered, held, stray>>
  BY DEF StartInLane, Push, Same, Left, Fresh
<1>2. a \in ScriptActivation /\ a.via = via /\ a.call = c /\ a.own = o /\ a.base = Depth /\ a.prev = active
  <2>1. via \in Entries /\ active \in Lanes /\ Depth \in Nat /\ o \in Owner /\ c \in Calls \cup {None}
    BY Basics DEF Entries, Owner
  <2> QED
    BY <2>1, ScriptTyped, ScriptFields
<1> HIDE DEF a
<1>3. c \notin Busy \cup {Root} /\ c \notin answered /\ active # c /\ c \in Lanes
  BY <1>1, Basics, SandboxAssumption DEF IInv, Rest, Busy, Lanes
<1>4. Bears(a)
  BY <1>2, <1>3 DEF Bears, Switching
<1>5. lanes \in [Lanes -> Seq(Owner)] /\ lanes'[c] = <<o>> /\ \A x \in Lanes \ {c} : lanes'[x] = lanes[x]
  BY <1>1, <1>3, Basics
<1>6. View(a, lanes', answered, active', Len(lanes'[active']), stray)
  <2>1. Len(lanes'[c]) = 1 /\ lanes'[c][1] = o
    BY <1>5
  <2> QED
    BY <1>1, <1>2, <2>1 DEF View, CallerAt
<1>7. \A x \in Busy \cup {Root} : Grew(lanes, lanes', x)
  <2> SUFFICES ASSUME NEW x \in Busy \cup {Root} PROVE Grew(lanes, lanes', x)
    OBVIOUS
  <2>1. lanes'[x] = lanes[x] /\ x \in Lanes
    BY <1>3, <1>5 DEF Lanes, Busy
  <2>2. lanes[x] \in Seq(Owner)
    BY <1>5, <2>1
  <2> QED
    BY <2>1, <2>2 DEF Grew
<1>8. \A d \in Calls \ {active} : lanes'[d] = lanes[d] \/ (Len(lanes'[d]) <= 1 /\ d \notin answered)
  <2>1. Len(lanes'[c]) <= 1
    BY <1>5
  <2> QED
    BY <1>3, <1>5, <2>1 DEF Lanes
<1> QED
  BY <1>1, <1>2, <1>4, <1>6, <1>7, <1>8, CreditBegins

LEMMA EmitCredit ==
    ASSUME IInv, Credit, NEW o \in Mods, Emit(o)
    PROVE  Credit'
<1> DEFINE a == Script("emit", None, o, Depth)
<1>1. /\ stack' = Append(stack, a) /\ active' = active /\ seen' = seen
      /\ lanes' = [lanes EXCEPT ![active] = Append(@, o)] /\ UNCHANGED <<jobs, pend, answered, held, stray>>
  BY DEF Emit, Push, Same, callVars
<1>o. o \in Owner
  BY DEF Owner
<1>2. a \in ScriptActivation /\ a.via = "emit" /\ a.call = None /\ a.own = o /\ a.base = Depth /\ a.prev = active
  <2>1. "emit" \in Entries /\ None \in Calls \cup {None} /\ active \in Lanes /\ Depth \in Nat
    BY Basics DEF Entries
  <2> QED
    BY <1>o, <2>1, ScriptTyped, ScriptFields
<1> HIDE DEF a
<1>3. Bears(a) /\ a.via \notin Switching
  BY <1>2 DEF Bears, Switching
<1> QED
  BY <1>o, <1>1, <1>2, <1>3, CreditPushes

LEMMA CallRetainedCredit ==
    ASSUME IInv, Credit, NEW h \in held, CallRetained(h)
    PROVE  Credit'
<1> DEFINE via == IF stack = <<>> THEN "between" ELSE "callback"
           fn == h.fn
           o == h.owner
           r == Script(via, None, fn, Depth)
           a == [r EXCEPT !.cb = 1, !.ran = TRUE]
<1>1. /\ stack' = Append(stack, a) /\ active' = active /\ seen' = seen
      /\ lanes' = [lanes EXCEPT ![active] = Append(@, o)] /\ UNCHANGED <<jobs, pend, answered, held, stray>>
  BY DEF CallRetained, Push, Same, callVars
<1>o. fn \in Owner /\ o \in Owner /\ via \in {"between", "callback"} /\ (seen = {} => o \in {fn, None})
  BY DEF IInv, Rest, Credit
<1> HIDE DEF fn, o, via
<1>2. r \in ScriptActivation /\ r.via = via /\ r.call = None /\ r.own = fn /\ r.base = Depth /\ r.prev = active
  <2>1. via \in Entries /\ None \in Calls \cup {None} /\ active \in Lanes /\ Depth \in Nat
    BY <1>o, Basics DEF Entries
  <2> QED
    BY <1>o, <2>1, ScriptTyped, ScriptFields
<1> HIDE DEF r
<1>3. a \in ScriptActivation /\ a.via = via /\ a.call = None /\ a.own = fn /\ a.base = Depth /\ a.prev = active
  BY <1>2 DEF ScriptActivation
<1> HIDE DEF a
<1>4. Bears(a) /\ a.via \notin Switching
  BY <1>o, <1>3 DEF Bears, Switching
<1>5. CASE seen = {}
  BY <1>o, <1>1, <1>3, <1>4, <1>5, CreditPushes
<1>6. CASE seen # {}
  BY <1>1, <1>6 DEF Credit
<1> QED
  BY <1>5, <1>6

(* A binding runs for the script that called it. *)
LEMMA HostView ==
    ASSUME IInv, Clean(stack, lanes, active, answered, stray), stack # <<>>, ~ IsScript(stack[Len(stack)])
    PROVE  /\ Intact(stray, active, Len(lanes[active])) => CallerAt(lanes, active, Len(lanes[active])) \in {Top.own, None}
           /\ active \notin answered \cup {Root} => Len(lanes[active]) >= 1
<1>1. stack \in Seq(Activation) /\ Alternates(stack)
  BY DEF IInv, Sound
<1>2. Len(stack) \in 1..Len(stack) /\ Len(stack) - 1 \in 1..Len(stack) /\ IsScript(stack[Len(stack) - 1])
  BY <1>1 DEF Alternates
<1>3. Topmost(stack, Len(stack) - 1)
  BY <1>2 DEF Topmost
<1>4. View(stack[Len(stack) - 1], lanes, answered, active, Len(lanes[active]), stray)
  BY <1>2, <1>3 DEF Clean, Credited
<1>5. Top.own = stack[Len(stack) - 1].own
  BY <1>2 DEF Clean, Borne, Top
<1> QED
  BY <1>4, <1>5 DEF View

LEMMA LanesSame ==
    ASSUME lanes \in [Lanes -> Seq(Owner)], lanes' = lanes
    PROVE  /\ \A x \in Busy \cup {Root} : Grew(lanes, lanes', x)
           /\ \A d \in Calls \ {active} : lanes'[d] = lanes[d]
<1> SUFFICES ASSUME NEW x \in Busy \cup {Root} PROVE Grew(lanes, lanes', x)
  OBVIOUS
<1>1. lanes[x] \in Seq(Owner)
  BY DEF Lanes, Busy
<1> QED
  BY <1>1 DEF Grew

LEMMA CallCallbackCredit ==
    ASSUME IInv, Credit, CallCallback
    PROVE  Credit'
<1> DEFINE own == Top.own
           r == Script("callback", None, own, Depth)
           a == [r EXCEPT !.cb = 1]
<1>1. /\ stack' = Append(stack, a) /\ active' = active /\ seen' = seen /\ lanes' = lanes /\ UNCHANGED <<jobs, pend, answered, held, stray>>
      /\ stack # <<>> /\ ~ IsScript(stack[Len(stack)])
  BY DEF CallCallback, Push, Same, callVars, Top, IsScript
<1>v. seen = {} => /\ Intact(stray, active, Len(lanes[active])) => CallerAt(lanes, active, Len(lanes[active])) \in {own, None}
                   /\ active \notin answered \cup {Root} => Len(lanes[active]) >= 1
  BY <1>1, HostView DEF Credit
<1>o. own \in Owner
  <2>1. Len(stack) \in 1..Len(stack)
    BY <1>1, Basics
  <2> QED
    BY <1>1, <2>1, Basics, Kinds DEF Top
<1> HIDE DEF own
<1>2. r \in ScriptActivation /\ r.via = "callback" /\ r.call = None /\ r.own = own /\ r.base = Depth /\ r.prev = active
  <2>1. "callback" \in Entries /\ active \in Lanes /\ Depth \in Nat /\ None \in Calls \cup {None}
    BY Basics DEF Entries
  <2> QED
    BY <1>o, <2>1, ScriptTyped, ScriptFields
<1> HIDE DEF r
<1>3. a \in ScriptActivation /\ a.via = "callback" /\ a.call = None /\ a.own = own /\ a.base = Depth /\ a.prev = active
  BY <1>2 DEF ScriptActivation
<1> HIDE DEF a
<1>4. Bears(a)
  BY <1>3 DEF Bears, Switching
<1>5. CASE seen = {}
  <2>1. View(a, lanes', answered, active', Len(lanes'[active']), stray)
    BY <1>v, <1>1, <1>3, <1>5 DEF View, Switching
  <2>2. (\A x \in Busy \cup {Root} : Grew(lanes, lanes', x)) /\ \A d \in Calls \ {active} : lanes'[d] = lanes[d]
    BY <1>1, Basics, LanesSame
  <2> QED
    BY <1>1, <1>3, <1>4, <2>1, <2>2, CreditBegins
<1>6. CASE seen # {}
  BY <1>1, <1>6 DEF Credit
<1> QED
  BY <1>5, <1>6

LEMMA CallLateCredit ==
    ASSUME IInv, Credit, NEW p \in pend, CallLate(p)
    PROVE  Credit'
<1> DEFINE own == p.own
           id == p.id
           r == Script("late", None, own, Depth)
           a == [r EXCEPT !.cb = 1, !.pid = id]
<1>1. /\ stack' = Append(stack, a) /\ active' = active /\ seen' = seen /\ lanes' = lanes /\ stack = <<>>
      /\ UNCHANGED <<jobs, pend, answered, held, stray>>
  BY DEF CallLate, Push, Same, callVars
<1>o. own \in Owner /\ id \in Nat
  BY DEF IInv, Rest, Pends, Work
<1> HIDE DEF own, id
<1>2. r \in ScriptActivation /\ r.via = "late" /\ r.call = None /\ r.own = own /\ r.base = Depth /\ r.prev = active
  <2>1. "late" \in Entries /\ active \in Lanes /\ Depth \in Nat /\ None \in Calls \cup {None}
    BY Basics DEF Entries
  <2> QED
    BY <1>o, <2>1, ScriptTyped, ScriptFields
<1> HIDE DEF r
<1>3. a \in ScriptActivation /\ a.via = "late" /\ a.call = None /\ a.own = own /\ a.base = Depth /\ a.prev = active
  BY <1>o, <1>2 DEF ScriptActivation
<1> HIDE DEF a
<1>4. Bears(a)
  BY <1>3 DEF Bears, Switching
<1>5. CASE seen = {}
  <2>1. active = Root /\ (Intact(stray, Root, Len(lanes[Root])) => Len(lanes[Root]) = 0)
    BY <1>1, AtRestClean DEF IInv, Sound, Returns
  <2>2. View(a, lanes', answered, active', Len(lanes'[active']), stray)
    BY <1>1, <1>3, <2>1 DEF View, Switching, CallerAt
  <2>3. (\A x \in Busy \cup {Root} : Grew(lanes, lanes', x)) /\ \A d \in Calls \ {active} : lanes'[d] = lanes[d]
    BY <1>1, Basics, LanesSame
  <2> QED
    BY <1>1, <1>3, <1>4, <2>2, <2>3, CreditBegins
<1>6. CASE seen # {}
  BY <1>1, <1>6 DEF Credit
<1> QED
  BY <1>5, <1>6

LEMMA CallBindingCredit ==
    ASSUME IInv, Credit, NEW async \in BOOLEAN, CallBinding(async)
    PROVE  Credit'
<1> DEFINE h == [k |-> "host", call |-> Top.call, own |-> Top.own, async |-> async, fatal |-> FALSE]
<1>1. /\ stack' = Append(stack, h) /\ UNCHANGED <<lanes, active, seen, jobs, pend, answered, held, stray>>
      /\ stack # <<>> /\ IsScript(stack[Len(stack)])
  BY DEF CallBinding, InScript, Push, Same, callVars, Top, IsScript
<1>2. Len(stack) \in 1..Len(stack) /\ stack \in Seq(Activation) /\ Alternates(stack)
  BY <1>1, Basics DEF IInv, Sound
<1>3. Top.call \in Calls \cup {None} /\ Top.own \in Owner
  BY <1>1, <1>2, Kinds DEF Top
<1>4. h \in HostActivation /\ h.call = stack[Len(stack)].call /\ h.own = stack[Len(stack)].own
  BY <1>3 DEF HostActivation, Top
<1> HIDE DEF h
<1>5. seen = {} => Clean(Append(stack, h), lanes, active, answered, stray)
  BY <1>1, <1>2, <1>4, CleanHostIn DEF Credit
<1> QED
  BY <1>1, <1>5 DEF Credit

-----------------------------------------------------------------------------
(* The steps that run and end nothing. *)

LEMMA QuietCredit ==
    ASSUME Credit, UNCHANGED <<stack, lanes, active, answered, jobs, seen, stray>>, pend' \subseteq pend, held' \subseteq held
    PROVE  Credit'
BY DEF Credit, Owed

LEMMA RetainCredit ==
    ASSUME IInv, Credit, Retain
    PROVE  Credit'
<1>1. UNCHANGED <<stack, lanes, active, answered, jobs, pend, stray>> /\ (seen' = {} => seen = {} /\ stray[active] = 0)
  BY DEF Retain, Same, callVars
<1>2. PICK fn \in IF stack # <<>> /\ Top.k = "host" THEN {Top.own}
                  ELSE IF stack = <<>> THEN {p.own : p \in pend} ELSE {} :
         held' = held \cup {[fn |-> fn, owner |-> Current]}
  BY DEF Retain
<1>3. seen' = {} => Current \in {fn, None}
  <2> SUFFICES ASSUME seen' = {} PROVE Current \in {fn, None}
    OBVIOUS
  <2>0. seen = {} /\ Intact(stray, active, Len(lanes[active]))
    BY <1>1 DEF Intact
  <2>1. CASE stack # <<>> /\ Top.k = "host"
    <3>1. ~ IsScript(stack[Len(stack)]) /\ fn = Top.own
      BY <1>2, <2>1 DEF Top, IsScript
    <3>2. CallerAt(lanes, active, Len(lanes[active])) \in {Top.own, None}
      BY <2>0, <2>1, <3>1, HostView DEF Credit
    <3> QED
      BY <3>1, <3>2, CurrentAt
  <2>2. CASE stack = <<>>
    <3>1. active = Root
      BY <2>2 DEF IInv, Sound, Returns
    <3> QED
      BY <2>0, <2>2, <3>1, AtRestClean DEF Current
  <2> QED
    BY <1>2, <2>1, <2>2
<1> QED
  BY <1>1, <1>2, <1>3 DEF Credit

LEMMA AnswerCredit ==
    ASSUME IInv, Credit, NEW c \in Calls, Answer(c)
    PROVE  Credit'
<1>1. /\ stack = <<>> /\ stack' = <<>> /\ answered' = answered \cup {c} /\ lanes' = [lanes EXCEPT ![c] = <<>>]
      /\ stray' = [stray EXCEPT ![c] = 0] /\ UNCHANGED <<active, jobs, seen, pend, held>>
  BY DEF Answer, Same
<1>2. lanes'[c] = <<>> /\ \A x \in Lanes \ {c} : lanes'[x] = lanes[x] /\ stray'[x] = stray[x]
  BY <1>1, Basics DEF Lanes, IInv, TypeOK
<1>3. ASSUME seen = {} PROVE Clean(stack', lanes', active', answered', stray')
  <2>1. \A d \in Calls : Intact(stray, d, Len(lanes[d])) => Len(lanes[d]) <= Cap(d, answered)
    BY <1>1, <1>3, CleanEmpty DEF Credit
  <2>2. \A d \in Calls : Intact(stray', d, Len(lanes'[d])) => Len(lanes'[d]) <= Cap(d, answered')
    <3> SUFFICES ASSUME NEW d \in Calls, Intact(stray', d, Len(lanes'[d])) PROVE Len(lanes'[d]) <= Cap(d, answered')
      OBVIOUS
    <3>1. CASE d = c
      BY <1>1, <1>2, <3>1 DEF Cap
    <3>2. CASE d # c
      <4>1. lanes'[d] = lanes[d] /\ stray'[d] = stray[d]
        BY <1>2, <3>2 DEF Lanes
      <4> QED
        BY <1>1, <2>1, <3>2, <4>1 DEF Cap, Intact
    <3> QED
      BY <3>1, <3>2
  <2>3. Clean(<<>>, lanes', active', answered', stray')
    BY <2>2, CleanEmpty
  <2> QED
    BY <1>1, <2>3
<1>4. ASSUME seen = {} PROVE Owed(pend, lanes', answered')
  <2>1. Owed(pend, lanes, answered) /\ \A p \in pend : p.lane \in Lanes
    BY <1>4 DEF Credit, IInv, Rest, Pends, Work
  <2> QED
    BY <1>1, <1>2, <2>1 DEF Owed
<1> QED
  BY <1>1, <1>3, <1>4 DEF Credit

LEMMA QueueJobCredit ==
    ASSUME QueueJob
    PROVE  Credit'
BY DEF QueueJob, Left, Credit

-----------------------------------------------------------------------------
(* Draining the promise jobs. *)

(* A job of own is at home in lane l. *)
Ready(own, lns, ans, l, mk) ==
    /\ Intact(mk, l, Len(lns[l])) => CallerAt(lns, l, Len(lns[l])) \in {own, None}
    /\ l \notin ans \cup {Root} => Len(lns[l]) >= 1 /\ lns[l][1] = own

LEMMA KeptTwice ==
    ASSUME NEW l1, NEW l2, NEW l3, NEW ans, Kept(l1, l2, ans), Kept(l2, l3, ans)
    PROVE  Kept(l1, l3, ans)
BY DEF Kept

LEMMA CleanDrain ==
    ASSUME IInv, NEW stk \in Seq(Activation), NEW frs, NEW lns \in [Lanes -> Seq(Owner)], NEW prev \in Lanes, NEW ans, NEW mk,
           Alternates(stk), Holds(stk, lns), Clean(stk, lns, prev, ans, mk),
           NEW q, NEW lane, NEW reg \in SUBSET Calls, NEW over \in Seq(Owner), Drain(stk, frs, lns, q, lane, prev, reg, over),
           NEW call \in Calls \cup {None}, NEW own \in Owner, q = <<>> \/ (q = <<Job(call, own)>> /\ ~ faulted),
           Ready(own, [lns EXCEPT ![prev] = @ \o over], ans, lane, mk)
    PROVE  jobs' = <<>> /\ Clean(stack', lanes', active', ans, mk) /\ Kept(lns, lanes', ans)
<1>1. CASE q = <<>>
  BY <1>1 DEF Drain, Kept
<1>2. CASE q # <<>>
  <2> DEFINE base == Len(lns[prev])
             lns2 == [lns EXCEPT ![prev] = @ \o over]
             r == Script("drain", call, own, base)
             a == [r EXCEPT !.prev = prev, !.reg = reg]
  <2>0. q = <<Job(call, own)>> /\ ~ faulted
    BY <1>2
  <2>1. Head(q).call = call /\ Head(q).own = own /\ Tail(q) = <<>>
    BY <2>0 DEF Job
  <2>2. stack' = Append(stk, a) /\ lanes' = lns2 /\ active' = lane /\ jobs' = <<>>
    BY <1>2, <2>0, <2>1 DEF Drain, DrainScript
  <2>3. lns[prev] \in Seq(Owner) /\ base \in Nat
    OBVIOUS
  <2>4. lns2[prev] = lns[prev] \o over /\ \A x \in Lanes \ {prev} : lns2[x] = lns[x]
    OBVIOUS
  <2>r. Ready(own, lns2, ans, lane, mk)
    OBVIOUS
  <2> HIDE DEF lns2
  <2>5. Len(lns2[prev]) >= Len(lns[prev]) /\ \A k \in 1..Len(lns[prev]) : lns2[prev][k] = lns[prev][k]
    BY <2>3, <2>4
  <2>6. \A x \in Lanes : Grew(lns, lns2, x)
    <3> SUFFICES ASSUME NEW x \in Lanes PROVE Grew(lns, lns2, x)
      OBVIOUS
    <3>1. CASE x = prev
      BY <2>5, <3>1 DEF Grew
    <3>2. CASE x # prev
      <4>1. lns2[x] = lns[x] /\ lns[x] \in Seq(Owner)
        BY <2>4, <3>2
      <4> QED
        BY <4>1 DEF Grew
    <3> QED
      BY <3>1, <3>2
  <2>7. r \in ScriptActivation /\ r.via = "drain" /\ r.call = call /\ r.own = own /\ r.base = base
    <3>1. "drain" \in Entries /\ active \in Lanes
      BY Basics DEF Entries
    <3>2. r \in ScriptActivation
      BY <2>3, <3>1, ScriptTyped
    <3> QED
      BY <3>2, ScriptFields
  <2> HIDE DEF r
  <2>8. a \in ScriptActivation /\ a.via = "drain" /\ a.call = call /\ a.own = own /\ a.base = base /\ a.prev = prev
    BY <2>7 DEF ScriptActivation
  <2> HIDE DEF a
  <2>9. Bears(a) /\ View(a, lns2, ans, lane, Len(lns2[lane]), mk)
    BY <2>r, <2>8 DEF Bears, View, Ready, Switching
  <2>10. /\ a.base = Len(lns[prev]) /\ \A i \in 1..Len(stk) : IsScript(stk[i]) => Grew(lns, lns2, stk[i].prev)
    BY <2>6, <2>8, Kinds
  <2>11. \A d \in Calls \ {prev} : lns2[d] = lns[d]
    BY <2>4 DEF Lanes
  <2>12. Clean(Append(stk, a), lns2, lane, ans, mk)
    BY <2>6, <2>8, <2>9, <2>10, <2>11, CleanStart
  <2>13. Kept(lns, lns2, ans)
    <3> SUFFICES ASSUME NEW l \in Lanes \ (ans \cup {Root}), Len(lns[l]) >= 1 PROVE Len(lns2[l]) >= 1 /\ lns2[l][1] = lns[l][1]
      BY DEF Kept
    <3>1. lns[l] \in Seq(Owner)
      OBVIOUS
    <3>2. Len(lns[l]) \in Nat /\ 1 \in 1..Len(lns[l])
      BY <3>1
    <3> QED
      BY <2>6, <3>2 DEF Grew
  <2> QED
    BY <2>2, <2>12, <2>13
<1> QED
  BY <1>1, <1>2

LEMMA SettleCredit ==
    ASSUME IInv, Credit, NEW p \in pend, Settle(p)
    PROVE  Credit'
<1> SUFFICES ASSUME seen' = {} PROVE Credit'
  BY DEF Credit
<1> DEFINE q == IF p.call = None THEN jobs ELSE Append(jobs, Job(p.call, p.own))
<1>1. /\ stack = <<>> /\ pend' = pend \ {p} /\ seen = {} /\ ~ faulted
      /\ Drain(<<>>, frames, lanes, q, p.lane, active, {}, <<>>)
      /\ UNCHANGED <<answered, held, stray>>
  BY DEF Settle, Left, Same
<1>2. p.call \in Calls \cup {None} /\ p.own \in Owner /\ p.lane \in Lanes
  BY DEF IInv, Rest, Pends, Work
<1>3. /\ jobs = <<>> /\ Clean(<<>>, lanes, active, answered, stray) /\ Owed(pend, lanes, answered)
      /\ \A r \in held : r.owner \in {r.fn, None}
  BY <1>1 DEF Credit
<1>4. active = Root /\ (Intact(stray, Root, Len(lanes[Root])) => Len(lanes[Root]) = 0)
  BY <1>1, AtRestClean DEF IInv, Sound, Returns
<1>5. q = <<>> \/ (q = <<Job(p.call, p.own)>> /\ ~ faulted)
  BY <1>1, <1>3
<1>6. lanes \in [Lanes -> Seq(Owner)] /\ active \in Lanes
  BY Basics
<1>7. Alternates(<<>>) /\ Holds(<<>>, lanes) /\ <<>> \in Seq(Activation) /\ <<>> \in Seq(Owner) /\ {} \in SUBSET Calls
  BY DEF Alternates, Holds
<1>8. [lanes EXCEPT ![active] = @ \o <<>>] = lanes
  <2>1. lanes[active] \in Seq(Owner)
    BY <1>6
  <2>2. lanes[active] \o <<>> = lanes[active]
    BY <2>1, ConcatEmptySeq
  <2> QED
    BY <1>6, <2>2
<1>9. CASE p.call # None
  <2>1. Ready(p.own, lanes, answered, p.lane, stray)
    <3>1. CASE p.lane = Root
      BY <1>4, <3>1 DEF Ready, CallerAt
    <3>2. CASE p.lane # Root
      <4>1. /\ p.lane \in Calls /\ lanes[p.lane] \in Seq(Owner)
            /\ Intact(stray, p.lane, Len(lanes[p.lane])) => Len(lanes[p.lane]) <= Cap(p.lane, answered)
        BY <1>2, <1>3, <1>6, <3>2, CleanEmpty DEF Lanes
      <4>2. Len(lanes[p.lane]) \in Nat
        BY <4>1
      <4>3. CASE p.lane \in answered
        BY <4>1, <4>2, <4>3 DEF Ready, CallerAt, Cap
      <4>4. CASE p.lane \notin answered
        <5>1. Len(lanes[p.lane]) >= 1 /\ lanes[p.lane][1] = p.own
          BY <1>3, <1>9, <3>2, <4>4 DEF Owed
        <5>2. Intact(stray, p.lane, Len(lanes[p.lane])) => Len(lanes[p.lane]) = 1
          <6>1. Cap(p.lane, answered) = 1
            BY <4>4 DEF Cap
          <6>2. \A n \in Nat : n >= 1 /\ n <= 1 => n = 1
            OBVIOUS
          <6> QED
            BY <4>1, <4>2, <5>1, <6>1, <6>2
        <5> QED
          BY <5>1, <5>2 DEF Ready, CallerAt
      <4> QED
        BY <4>3, <4>4
    <3> QED
      BY <3>1, <3>2
  <2>2. Ready(p.own, [lanes EXCEPT ![active] = @ \o <<>>], answered, p.lane, stray)
    BY <1>8, <2>1
  <2> HIDE DEF q
  <2>3. jobs' = <<>> /\ Clean(stack', lanes', active', answered, stray) /\ Kept(lanes, lanes', answered)
    BY <1>1, <1>2, <1>3, <1>5, <1>6, <1>7, <2>2, CleanDrain
  <2>4. Owed(pend, lanes', answered)
    BY <1>3, <2>3, OwedKept DEF IInv, Rest, Pends
  <2> QED
    BY <1>1, <1>3, <2>3, <2>4 DEF Credit, Owed
<1>10. CASE p.call = None
  <2>1. q = <<>>
    BY <1>3, <1>10
  <2>2. stack' = <<>> /\ lanes' = lanes /\ active' = active /\ jobs' = <<>>
    BY <1>1, <2>1 DEF Drain
  <2> QED
    BY <1>1, <1>3, <2>2 DEF Credit, Owed
<1> QED
  BY <1>9, <1>10

LEMMA ModuleDrainCredit ==
    ASSUME Credit, NEW c \in Calls, ModuleDrain(c)
    PROVE  Credit'
<1> SUFFICES ASSUME seen' = {} PROVE Credit'
  BY DEF Credit
<1>1. seen = {} /\ stack = <<>> /\ Drain(<<>>, frames, lanes, jobs, c, active, {}, <<>>) /\ UNCHANGED <<pend, answered, held, seen, stray>>
  BY DEF ModuleDrain, Same
<1>2. jobs = <<>>
  BY <1>1 DEF Credit
<1>3. stack' = stack /\ lanes' = lanes /\ active' = active /\ jobs' = jobs
  BY <1>1, <1>2 DEF Drain
<1> QED
  BY <1>1, <1>3, QuietCredit

-----------------------------------------------------------------------------
(* The end of a script. *)

(* Whatever restores it, the caller stack under a script is what it was. *)
LEMMA LaneUnder ==
    ASSUME NEW stk \in Seq(Activation), lanes \in [Lanes -> Seq(Owner)], Holds(stk, lanes), NEW b \in 1..Len(stk), IsScript(stk[b])
    PROVE  LET a == stk[b] IN \A k \in 1..a.base : LanesAfter(a)[a.prev][k] = lanes[a.prev][k]
<1> DEFINE a == stk[b]
           lane == lanes[a.prev]
           lns2 == LanesAfter(a)
<1>1. a \in Activation /\ a.prev \in Lanes /\ a.base \in Nat /\ a.ran \in BOOLEAN /\ Pushed(a) \in Nat
  BY Kinds, PushedType
<1>2. lane \in Seq(Owner) /\ Len(lane) \in Nat /\ Len(lane) >= a.base + Pushed(a)
  BY <1>1 DEF Holds
<1>3. a.ran => Pushed(a) = 1
  BY DEF Pushed
<1>4. CASE a.via \notin {"callback", "late"}
  <2> DEFINE new == IF Len(lane) > a.base THEN SubSeq(lane, 1, a.base) ELSE lane
  <2>1. lns2 = [lanes EXCEPT ![a.prev] = new]
    BY <1>4 DEF LanesAfter, Unwound
  <2>2. \A k \in 1..a.base : new[k] = lane[k]
    BY <1>1, <1>2
  <2> HIDE DEF new, lane, lns2
  <2>3. lns2[a.prev] = new
    BY <1>1, <2>1
  <2> QED
    BY <2>2, <2>3 DEF lane, lns2
<1>5. CASE a.via \in {"callback", "late"} /\ a.ran
  <2> DEFINE new == RemoveAt(lane, a.base + 1)
             front == SubSeq(lane, 1, (a.base + 1) - 1)
             back == SubSeq(lane, (a.base + 1) + 1, Len(lane))
  <2>1. lns2 = [lanes EXCEPT ![a.prev] = new]
    BY <1>5 DEF LanesAfter
  <2>2. new = front \o back
    BY Zenon DEF RemoveAt
  <2>3. front \in Seq(Owner) /\ Len(front) = a.base /\ \A k \in 1..a.base : front[k] = lane[k]
    BY <1>1, <1>2, <1>3, <1>5
  <2>4. back \in Seq(Owner)
    BY <1>1, <1>2
  <2> HIDE DEF front, back, new, lane
  <2>5. \A k \in 1..a.base : new[k] = lane[k]
    BY <1>1, <2>2, <2>3, <2>4, SMTT(20)
  <2> HIDE DEF lns2
  <2>6. lns2[a.prev] = new
    BY <1>1, <2>1
  <2> QED
    BY <2>5, <2>6 DEF lane, lns2
<1>6. CASE a.via \in {"callback", "late"} /\ ~ a.ran
  BY <1>6 DEF LanesAfter
<1> QED
  BY <1>4, <1>5, <1>6

(* The activation a at b ends, with nothing but its own handlers above it. *)
LEMMA CleanLeaves ==
    ASSUME NEW stk, NEW frs, NEW act, NEW m, NEW n, NEW mk, NEW busy, NEW waiting, NEW ans,
           Sound(stk, frs, lanes, act, m, n, mk, busy, waiting), Clean(stk, lanes, act, ans, mk),
           NEW b \in 1..Len(stk), IsScript(stk[b]), b = Len(stk)
    PROVE  /\ Clean(SubSeq(stk, 1, b - 1), LanesAfter(stk[b]), stk[b].prev, ans, Marked(mk, LanesAfter(stk[b]), stk[b].prev, stk[b].base))
           /\ Kept(lanes, LanesAfter(stk[b]), ans)
<1>1. /\ stk \in Seq(Activation) /\ lanes \in [Lanes -> Seq(Owner)] /\ Alternates(stk) /\ Returns(stk, act) /\ Holds(stk, lanes)
      /\ mk \in [Lanes -> Nat]
  BY DEF Sound
<1> DEFINE lns2 == LanesAfter(stk[b])
           mk2 == Marked(mk, lns2, stk[b].prev, stk[b].base)
<1>2. /\ lns2 \in [Lanes -> Seq(Owner)] /\ \A x \in Lanes \ {stk[b].prev} : lns2[x] = lanes[x]
      /\ Len(lns2[stk[b].prev]) >= stk[b].base
  BY <1>1, LaneBack
<1>3. \A k \in 1..stk[b].base : lns2[stk[b].prev][k] = lanes[stk[b].prev][k]
  BY <1>1, LaneUnder
<1> HIDE DEF lns2
<1>4. Leaves(mk, mk2, stk[b].prev, Len(lns2[stk[b].prev]), stk[b].base)
  <2>1. stk[b].prev \in Lanes /\ stk[b].base \in Nat
    BY <1>1, Kinds
  <2> QED
    BY <1>1, <1>2, <2>1, MarkLeft
<1> HIDE DEF mk2
<1>5. \A j \in (b + 1)..Len(stk) : IsScript(stk[j]) => stk[j].prev = stk[b].prev
  BY <1>1
<1>6. Clean(SubSeq(stk, 1, b - 1), lns2, stk[b].prev, ans, mk2) /\ Kept(lanes, lns2, ans)
  BY <1>1, <1>2, <1>3, <1>4, <1>5, CleanEnd
<1> QED
  BY <1>6 DEF lns2, mk2

(* The script on top goes on as another, over the same frames. *)
LEMMA CleanRestart ==
    ASSUME NEW stk \in Seq(Activation), NEW lns \in [Lanes -> Seq(Owner)], NEW act, NEW ans, NEW mk,
           Alternates(stk), Holds(stk, lns), Clean(stk, lns, act, ans, mk),
           NEW n \in 1..Len(stk), n = Len(stk), IsScript(stk[n]),
           NEW a2 \in ScriptActivation, a2.prev = stk[n].prev, a2.base = stk[n].base, Bears(a2),
           NEW lns2, \A x \in Lanes \ {stk[n].prev} : lns2[x] = lns[x], \A k \in 1..stk[n].base : lns2[stk[n].prev][k] = lns[stk[n].prev][k],
           NEW mk2, \A x \in Lanes \ {stk[n].prev} : mk2[x] = mk[x],
           \A k \in Nat : k <= stk[n].base => (Intact(mk2, stk[n].prev, k) <=> Intact(mk, stk[n].prev, k)),
           NEW act2, View(a2, lns2, ans, act2, Len(lns2[act2]), mk2)
    PROVE  Clean(Append(SubSeq(stk, 1, n - 1), a2), lns2, act2, ans, mk2)
<1> DEFINE below == SubSeq(stk, 1, n - 1)
           new == Append(below, a2)
           prev == stk[n].prev
           base == stk[n].base
<1>0. a2 \in Activation /\ IsScript(a2) /\ n \in Nat /\ prev \in Lanes /\ base \in Nat
  BY Kinds DEF Activation, ScriptActivation, IsScript
<1>1. below \in Seq(Activation) /\ Len(below) = n - 1 /\ \A i \in 1..(n - 1) : below[i] = stk[i]
  BY Beneath
<1> HIDE DEF below
<1>2. Len(new) = n /\ new[n] = a2 /\ \A i \in 1..n : i # n => new[i] = stk[i]
  BY <1>0, <1>1
<1> HIDE DEF new
<1>3. \A i \in 1..n : (IsScript(new[i]) <=> IsScript(stk[i])) /\ (IsScript(stk[i]) => new[i].prev = stk[i].prev /\ new[i].base = stk[i].base)
  BY <1>0, <1>2
<1>4. \A i, j : Follows(new, i, j) => Follows(stk, i, j) /\ i \in 1..n /\ j \in 1..n /\ i # n /\ IsScript(stk[j])
  BY <1>2, <1>3 DEF Follows
<1>5. \A i : Topmost(new, i) => i = n
  BY <1>0, <1>2 DEF Topmost
<1>6. ASSUME NEW j \in 1..n, IsScript(stk[j])
      PROVE  /\ stk[j].prev \in Lanes /\ stk[j].base \in Nat
             /\ \A k \in 1..stk[j].base : lns2[stk[j].prev][k] = lns[stk[j].prev][k]
             /\ Intact(mk2, stk[j].prev, stk[j].base) => Intact(mk, stk[j].prev, stk[j].base)
  <2>1. stk[j].prev \in Lanes /\ stk[j].base \in Nat /\ Pushed(stk[j]) \in Nat
    BY <1>6, Kinds, PushedType
  <2>2. CASE stk[j].prev # prev
    BY <2>1, <2>2 DEF Intact
  <2>3. CASE stk[j].prev = prev
    <3>1. stk[j].base <= base
      <4>1. CASE j = n
        BY <1>0, <4>1
      <4>2. CASE j # n
        <5>1. base >= stk[j].base + Pushed(stk[j])
          BY <1>6, <2>3, <4>2 DEF Holds
        <5> QED
          BY <1>0, <2>1, <5>1
      <4> QED
        BY <4>1, <4>2
    <3>2. \A k \in 1..stk[j].base : k \in 1..base
      BY <1>0, <2>1, <3>1
    <3> QED
      BY <2>1, <2>3, <3>1, <3>2
  <2> QED
    BY <2>2, <2>3
<1>7. Credited(new, lns2, act2, ans, mk2)
  <2>1. \A i \in 1..Len(new) : Topmost(new, i) => View(new[i], lns2, ans, act2, Len(lns2[act2]), mk2)
    BY <1>2, <1>5
  <2>2. ASSUME NEW i \in 1..Len(new), NEW j \in 1..Len(new), Follows(new, i, j)
        PROVE  View(new[i], lns2, ans, new[j].prev, new[j].base, mk2)
    <3>1. /\ Follows(stk, i, j) /\ new[i] = stk[i] /\ new[j].prev = stk[j].prev /\ new[j].base = stk[j].base /\ j \in 1..n /\ IsScript(stk[j])
          /\ i \in 1..Len(stk) /\ j \in 1..Len(stk)
      BY <1>2, <1>3, <1>4, <2>2
    <3>2. View(stk[i], lns, ans, stk[j].prev, stk[j].base, mk)
      BY <3>1 DEF Clean, Credited
    <3> DEFINE l == stk[j].prev
               m == stk[j].base
               c == stk[i]
    <3>3. View(c, lns, ans, l, m, mk) /\ m \in Nat /\ (\A k \in 1..m : lns2[l][k] = lns[l][k]) /\ (Intact(mk2, l, m) => Intact(mk, l, m))
      BY <1>6, <3>1, <3>2
    <3> HIDE DEF l, m, c
    <3>4. View(c, lns2, ans, l, m, mk2)
      BY ONLY <3>3, ViewKept
    <3> QED
      BY <3>1, <3>4 DEF l, m, c
  <2> QED
    BY <2>1, <2>2 DEF Credited
<1>8. Low(new, lns2, ans, mk2)
  <2> SUFFICES ASSUME NEW d \in Calls
               PROVE  /\ From(new, d) = {} /\ Intact(mk2, d, Len(lns2[d])) => Len(lns2[d]) <= Cap(d, ans)
                      /\ \A j \in From(new, d) : (\A i \in From(new, d) : j <= i) /\ Intact(mk2, d, new[j].base) => new[j].base <= Cap(d, ans)
    BY DEF Low
  <2>0. /\ From(stk, d) = {} /\ Intact(mk, d, Len(lns[d])) => Len(lns[d]) <= Cap(d, ans)
        /\ \A j \in From(stk, d) : (\A i \in From(stk, d) : j <= i) /\ Intact(mk, d, stk[j].base) => stk[j].base <= Cap(d, ans)
    BY DEF Clean, Low
  <2>1. From(new, d) = From(stk, d) /\ \A j \in From(stk, d) : j \in 1..n /\ IsScript(stk[j]) /\ stk[j].prev = d /\ new[j].base = stk[j].base
    BY <1>2, <1>3 DEF From
  <2>2. From(stk, d) = {} => lns2[d] = lns[d] /\ mk2[d] = mk[d]
    BY <1>0 DEF From, Lanes
  <2>3. \A j \in From(stk, d) : Intact(mk2, d, new[j].base) => Intact(mk, d, stk[j].base)
    BY <1>6, <2>1
  <2> QED
    BY <2>0, <2>1, <2>2, <2>3 DEF Intact
<1>9. Borne(new)
  <2> SUFFICES ASSUME NEW i \in 1..n
               PROVE  IF IsScript(new[i]) THEN Bears(new[i]) ELSE new[i].own = new[i - 1].own /\ new[i].call = new[i - 1].call
    BY <1>2 DEF Borne
  <2>1. CASE i = n
    BY <1>0, <1>2, <2>1
  <2>2. CASE i # n
    <3>1. new[i] = stk[i] /\ i \in 1..Len(stk)
      BY <1>2, <2>2
    <3>2. ~ IsScript(stk[i]) => i - 1 \in 1..n /\ i - 1 # n /\ new[i - 1] = stk[i - 1]
      BY <1>0, <1>2, <2>2, <3>1 DEF Alternates
    <3> QED
      BY <3>1, <3>2 DEF Clean, Borne
  <2> QED
    BY <2>1, <2>2
<1> QED
  BY <1>7, <1>8, <1>9 DEF Clean, new, below

(* The job a script's end may leave to the drain that follows it: its own call's continuation. *)
Own(a, q) ==
    q = <<>> \/ (q = <<Job(a.call, a.own)>> /\ a.call # None /\ a.via # "module" /\ (faulted => a.via = "drain"))

LEMMA FinishClean ==
    ASSUME IInv, NEW stk, Sound(stk, frames, lanes, active, syncDepth, cbDepth, stray, Busy, Waits),
           Clean(stk, lanes, active, answered, stray),
           NEW lvl \in 1..Len(stk), lvl = Len(stk), NEW a, a = stk[lvl], IsScript(a),
           SubSeq(stack, 1, lvl - 1) = SubSeq(stk, 1, lvl - 1),
           NEW how, NEW q, Own(a, q), Finish(a, lvl, how, q)
    PROVE  jobs' = <<>> /\ Clean(stack', lanes', active', answered, stray') /\ Kept(lanes, lanes', answered)
<1> DEFINE below == SubSeq(stk, 1, lvl - 1)
           mk == Marked(stray, LanesAfter(a), a.prev, a.base)
<1>1. /\ stk \in Seq(Activation) /\ lanes \in [Lanes -> Seq(Owner)] /\ active \in Lanes /\ stray \in [Lanes -> Nat]
      /\ Alternates(stk) /\ Returns(stk, active) /\ Holds(stk, lanes)
  BY DEF Sound
<1>2. /\ a \in Activation /\ a \in ScriptActivation /\ a.via \in Entries /\ a.prev \in Lanes /\ a.base \in Nat
      /\ a.rest \in Seq(Mods) /\ a.call \in Calls \cup {None} /\ a.own \in Owner
  BY <1>1, Kinds
<1>3. Topmost(stk, lvl) /\ Bare(stk, lvl) /\ \A j \in (lvl + 1)..Len(stk) : IsScript(stk[j]) => stk[j].prev = stk[lvl].prev
  BY <1>1 DEF Topmost, Bare
<1>4. Clean(below, LanesAfter(a), a.prev, answered, mk) /\ Kept(lanes, LanesAfter(a), answered)
  BY <1>1, <1>3, CleanLeaves
<1>5. Sound(below, FramesAfter(lvl), LanesAfter(a), a.prev, syncDepth - a.sync, cbDepth - a.cb, mk, Busy, Waits)
  <2>1. IsScript(stk[lvl]) /\ Bare(stk, lvl)
    BY <1>3
  <2>2. Sound(SubSeq(stk, 1, lvl - 1), FramesAfter(lvl), LanesAfter(stk[lvl]), stk[lvl].prev,
              syncDepth - stk[lvl].sync, cbDepth - stk[lvl].cb, Marked(stray, LanesAfter(stk[lvl]), stk[lvl].prev, stk[lvl].base), Busy, Waits)
    BY ONLY Sound(stk, frames, lanes, active, syncDepth, cbDepth, stray, Busy, Waits), lvl \in 1..Len(stk), <2>1, SoundLeaves
  <2> QED
    BY <2>2
<1>6. /\ below \in Seq(Activation) /\ Alternates(below) /\ Holds(below, LanesAfter(a)) /\ LanesAfter(a) \in [Lanes -> Seq(Owner)]
      /\ SubSeq(stack, 1, lvl - 1) = below
  BY <1>5 DEF Sound
<1>7. /\ View(a, lanes, answered, active, Len(lanes[active]), stray) /\ Bears(a)
      /\ a.via \notin Switching => active = a.prev
  BY <1>1, <1>3 DEF Clean, Credited, Borne, Returns
<1>8. Len(lanes[a.prev]) \in Nat /\ Len(lanes[a.prev]) >= a.base + Pushed(a)
  BY <1>1, <1>2, <1>3 DEF Holds
<1> HIDE DEF below, mk
<1>11. CASE /\ a.via \in {"executeAsync", "invokeAsync"}
            /\ Drain(below, FramesAfter(lvl), LanesAfter(a), q,
                     IF a.via = "invokeAsync" THEN a.call ELSE a.prev, a.prev, {a.call},
                     IF a.via = "invokeAsync" THEN <<>> ELSE <<None>>)
            /\ stray' = mk
  <2> DEFINE lane == IF a.via = "invokeAsync" THEN a.call ELSE a.prev
             over == IF a.via = "invokeAsync" THEN <<>> ELSE <<None>>
             lns == LanesAfter(a)
             frs == FramesAfter(lvl)
             lns2 == [lns EXCEPT ![a.prev] = @ \o over]
  <2>1. q = <<>> \/ (q = <<Job(a.call, a.own)>> /\ ~ faulted)
    BY <1>11 DEF Own
  <2>2. over \in Seq(Owner)
    <3>1. <<>> \in Seq(Owner) /\ <<None>> \in Seq(Owner)
      BY DEF Owner
    <3> QED
      BY <3>1
  <2>3. lns \in [Lanes -> Seq(Owner)] /\ lns2[a.prev] = lns[a.prev] \o over /\ \A x \in Lanes \ {a.prev} : lns2[x] = lns[x]
    BY <1>2, <1>6
  <2>4. \A x \in Lanes \ {a.prev} : lns[x] = lanes[x]
    BY <1>1, LaneBack
  <2>5. Drain(below, frs, lns, q, lane, a.prev, {a.call}, over)
    BY <1>11
  <2>6. {a.call} \in SUBSET Calls
    <3>1. a.call \in Busy /\ Busy \subseteq Calls
      BY <1>11, Basics DEF Sound, Named
    <3> QED
      BY <3>1
  <2> HIDE DEF lns, frs, lns2
  <2>7. Ready(a.own, lns2, answered, lane, mk)
    <3>1. CASE a.via = "invokeAsync"
      <4>1. lane = a.call /\ active = a.call /\ a.prev # a.call
        BY <1>7, <3>1 DEF View, Bears
      <4>2. lns2[a.call] = lanes[a.call]
        BY <1>1, <2>3, <2>4, <4>1
      <4>3. mk[a.call] = stray[a.call]
        BY <1>1, <1>2, <4>1 DEF mk, Marked
      <4> QED
        BY <1>7, <3>1, <4>1, <4>2, <4>3 DEF View, Ready, CallerAt, Switching, Intact
    <3>2. CASE a.via = "executeAsync"
      <4>1. lane = Root /\ a.prev = Root
        BY <1>7, <3>2 DEF Bears
      <4>2. lns[Root] \in Seq(Owner) /\ lns2[Root] = lns[Root] \o <<None>> /\ None \in Owner
        BY <2>3, <3>2, <4>1 DEF Lanes, Owner
      <4>3. Len(lns2[Root]) = Len(lns[Root]) + 1 /\ Len(lns[Root]) \in Nat /\ lns2[Root][Len(lns[Root]) + 1] = None
        BY <4>2
      <4> QED
        BY <4>1, <4>3 DEF Ready, CallerAt
    <3> QED
      BY <1>11, <3>1, <3>2
  <2> HIDE DEF lane, over
  <2>8. Ready(a.own, [lns EXCEPT ![a.prev] = @ \o over], answered, lane, mk)
    BY <2>7 DEF lns2
  <2>9. Clean(below, lns, a.prev, answered, mk) /\ Kept(lanes, lns, answered) /\ Holds(below, lns)
    BY <1>4, <1>6 DEF lns
  <2>10. jobs' = <<>> /\ Clean(stack', lanes', active', answered, mk) /\ Kept(lns, lanes', answered)
    <3> DEFINE prev == a.prev
               call == a.call
               own == a.own
               reg == {call}
    <3>1. prev \in Lanes /\ call \in Calls \cup {None} /\ own \in Owner /\ reg \in SUBSET Calls
          /\ below \in Seq(Activation) /\ lns \in [Lanes -> Seq(Owner)] /\ Alternates(below)
      BY <1>2, <1>6, <2>3, <2>6
    <3>2. /\ q = <<>> \/ (q = <<Job(call, own)>> /\ ~ faulted)
          /\ Drain(below, frs, lns, q, lane, prev, reg, over) /\ Ready(own, [lns EXCEPT ![prev] = @ \o over], answered, lane, mk)
          /\ Clean(below, lns, prev, answered, mk)
      BY <2>1, <2>5, <2>8, <2>9
    <3> HIDE DEF prev, call, own, reg
    <3> QED
      BY <2>2, <2>9, <3>1, <3>2, CleanDrain
  <2> QED
    BY <1>11, <2>9, <2>10, KeptTwice
<1>12. CASE /\ a.via = "drain" /\ q # <<>>
            /\ stack' = Append(below, [a EXCEPT !.call = Head(q).call, !.own = Head(q).own])
            /\ jobs' = Tail(q)
            /\ UNCHANGED <<lanes, active, stray>>
  <2>1. q = <<Job(a.call, a.own)>>
    BY <1>12 DEF Own
  <2>2. Head(q).call = a.call /\ Head(q).own = a.own /\ Tail(q) = <<>>
    BY <2>1 DEF Job
  <2>3. [a EXCEPT !.call = a.call, !.own = a.own] = a
    BY <1>2 DEF ScriptActivation
  <2>4. Append(below, a) = stk
    BY <1>1 DEF below
  <2>5. stack' = stk
    BY <1>12, <2>2, <2>3, <2>4
  <2> QED
    BY <1>12, <2>2, <2>5 DEF Kept
<1>n. a.via \in {"fire", "emit"} => q = <<>>
  BY <1>7 DEF Own, Bears, Switching
<1>p. ASSUME a.via \in {"fire", "emit"}
      PROVE  /\ active = a.prev /\ Popped \in [Lanes -> Seq(Owner)] /\ \A x \in Lanes \ {a.prev} : Popped[x] = lanes[x]
             /\ Popped[a.prev] = Front(lanes[a.prev]) /\ Len(Popped[a.prev]) >= a.base
             /\ \A k \in 1..a.base : Popped[a.prev][k] = lanes[a.prev][k]
             /\ Leaves(stray, Marked(stray, Popped, a.prev, a.base), a.prev, Len(Popped[a.prev]), a.base)
  <2>1. active = a.prev /\ Len(lanes[a.prev]) >= a.base + 1
    BY <1>p, <1>7, <1>8 DEF Switching, Pushed
  <2>2. Len(lanes[active]) >= 1
    BY <1>2, <1>8, <2>1
  <2>3. /\ Popped \in [Lanes -> Seq(Owner)] /\ Len(Popped[active]) = Len(lanes[active]) - 1
        /\ \A x \in Lanes \ {active} : Popped[x] = lanes[x]
        /\ Popped[active] = Front(lanes[active])
        /\ \A k \in 1..(Len(lanes[active]) - 1) : Popped[active][k] = lanes[active][k]
    BY <1>1, <2>2, LanePopped
  <2>4. Len(Popped[a.prev]) >= a.base /\ \A k \in 1..a.base : k \in 1..(Len(lanes[active]) - 1)
    BY <1>2, <1>8, <2>1, <2>3
  <2>5. Leaves(stray, Marked(stray, Popped, a.prev, a.base), a.prev, Len(Popped[a.prev]), a.base)
    BY <1>1, <1>2, <2>3, <2>4, MarkLeft
  <2> QED
    BY <2>1, <2>3, <2>4, <2>5
<1>13. CASE /\ a.via = "fire" /\ a.rest # <<>>
            /\ stack' = Append(below, [a EXCEPT !.own = Head(a.rest), !.rest = Tail(@)])
            /\ lanes' = [lanes EXCEPT ![active] = Append(Front(@), Head(a.rest))]
            /\ stray' = Marked(stray, Popped, active, a.base)
            /\ jobs' = q
            /\ UNCHANGED active
  <2> DEFINE own == Head(a.rest)
             rest == Tail(a.rest)
             a2 == [a EXCEPT !.own = own, !.rest = rest]
  <2>1. own \in Owner /\ rest \in Seq(Mods)
    BY <1>2, <1>13 DEF Owner
  <2>2. stack' = Append(below, a2) /\ lanes' = [lanes EXCEPT ![active] = Append(Front(@), own)] /\ active = a.prev
    BY <1>7, <1>13 DEF Switching
  <2> HIDE DEF own, rest
  <2>3. a2 \in ScriptActivation /\ a2.via = "fire" /\ a2.prev = a.prev /\ a2.base = a.base /\ a2.own = own /\ a2.call = a.call
    BY <1>2, <1>13, <2>1 DEF ScriptActivation
  <2> HIDE DEF a2
  <2>4. Bears(a2) /\ a2.via \notin Switching
    BY <1>7, <1>13, <2>3 DEF Bears, Switching
  <2> DEFINE lns == Popped
             lns2 == lanes'
             prev == a.prev
             base == a.base
             mk2 == stray'
             mk3 == Marked(stray, lns2, prev, base)
  <2>5. /\ lns \in [Lanes -> Seq(Owner)] /\ \A x \in Lanes \ {prev} : lns[x] = lanes[x]
        /\ lns[prev] = Front(lanes[prev]) /\ Len(lns[prev]) >= base /\ \A k \in 1..base : lns[prev][k] = lanes[prev][k]
        /\ Leaves(stray, mk2, prev, Len(lns[prev]), base) /\ prev \in Lanes /\ base \in Nat
    BY <1>2, <1>p, <1>13, <2>2
  <2>6. lns2[prev] = Append(lns[prev], own) /\ \A x \in Lanes \ {prev} : lns2[x] = lanes[x]
    BY <1>1, <1>2, <2>2, <2>5
  <2>7. lns2 \in [Lanes -> Seq(Owner)]
    <3>1. Append(lns[prev], own) \in Seq(Owner)
      BY <2>1, <2>5
    <3>2. lns2 = [lanes EXCEPT ![prev] = Append(lns[prev], own)]
      BY <2>2, <2>5
    <3> HIDE DEF lns2, lns, prev
    <3> QED
      BY <1>1, <2>5, <3>1, <3>2
  <2> HIDE DEF lns, lns2, prev, base, mk2
  <2>8. Len(lns2[prev]) >= base /\ \A k \in 1..base : lns2[prev][k] = lanes[prev][k]
    <3>1. lns[prev] \in Seq(Owner) /\ Len(lns[prev]) \in Nat
      BY <2>5
    <3>2. Len(lns2[prev]) = Len(lns[prev]) + 1 /\ \A k \in 1..Len(lns[prev]) : lns2[prev][k] = lns[prev][k]
      BY <2>1, <2>6, <3>1
    <3>3. \A k \in 1..base : k \in 1..Len(lns[prev])
      BY <2>5, <3>1
    <3> QED
      BY <2>5, <3>1, <3>2, <3>3
  <2>9. View(a2, lns2, answered, prev, Len(lns2[prev]), mk2)
    <3>1. \A y \in Lanes \ {prev} : lns2[y] = lns[y]
      BY <2>5, <2>6
    <3> QED
      BY <2>1, <2>3, <2>4, <2>5, <2>6, <3>1, PushView
  <2>10. Clean(Append(below, a2), lns2, prev, answered, mk2)
    <3>1. stk[lvl].prev = prev /\ stk[lvl].base = base /\ a2.prev = prev /\ a2.base = base /\ IsScript(stk[lvl])
      BY <2>3 DEF prev, base
    <3>2. /\ \A x \in Lanes \ {prev} : mk2[x] = stray[x]
          /\ \A k \in Nat : k <= base => (Intact(mk2, prev, k) <=> Intact(stray, prev, k))
      BY <2>5 DEF Leaves
    <3>3. /\ a2.prev = stk[lvl].prev /\ a2.base = stk[lvl].base
          /\ \A x \in Lanes \ {stk[lvl].prev} : lns2[x] = lanes[x]
          /\ \A k \in 1..stk[lvl].base : lns2[stk[lvl].prev][k] = lanes[stk[lvl].prev][k]
          /\ \A x \in Lanes \ {stk[lvl].prev} : mk2[x] = stray[x]
          /\ \A k \in Nat : k <= stk[lvl].base => (Intact(mk2, stk[lvl].prev, k) <=> Intact(stray, stk[lvl].prev, k))
      BY <2>6, <2>8, <3>1, <3>2
    <3>4. Clean(Append(SubSeq(stk, 1, lvl - 1), a2), lns2, prev, answered, mk2)
      BY <1>1, <2>3, <2>4, <2>9, <3>1, <3>3, CleanRestart
    <3> QED
      BY <3>4 DEF below
  <2>11. Leaves(stray, mk3, prev, Len(lns2[prev]), base)
    BY <1>1, <2>5, <2>7, <2>8, MarkLeft
  <2> HIDE DEF mk3
  <2>12. Kept(lanes, lns2, answered)
    <3>1. stk[lvl].prev = prev /\ stk[lvl].base = base /\ IsScript(stk[lvl])
      BY DEF prev, base
    <3> QED
      BY <1>1, <1>3, <2>6, <2>7, <2>8, <2>11, <3>1, CleanEnd
  <2> QED
    BY <1>n, <1>13, <2>2, <2>10, <2>12 DEF lns2, prev, mk2
<1>14. CASE /\ a.via = "emit"
            /\ stack' = below /\ jobs' = q
            /\ lanes' = Popped /\ stray' = Marked(stray, Popped, active, a.base)
            /\ UNCHANGED active
  <2> DEFINE lns2 == Popped
             mk2 == Marked(stray, Popped, a.prev, a.base)
  <2>1. /\ lns2 \in [Lanes -> Seq(Owner)] /\ \A x \in Lanes \ {stk[lvl].prev} : lns2[x] = lanes[x]
        /\ Len(lns2[stk[lvl].prev]) >= stk[lvl].base /\ \A k \in 1..stk[lvl].base : lns2[stk[lvl].prev][k] = lanes[stk[lvl].prev][k]
        /\ Leaves(stray, mk2, stk[lvl].prev, Len(lns2[stk[lvl].prev]), stk[lvl].base)
    BY <1>p, <1>14
  <2>2. active = a.prev /\ lanes' = lns2 /\ stray' = mk2
    BY <1>p, <1>14
  <2> HIDE DEF lns2, mk2
  <2>3. Clean(SubSeq(stk, 1, lvl - 1), lns2, stk[lvl].prev, answered, mk2) /\ Kept(lanes, lns2, answered)
    BY <1>1, <1>3, <2>1, CleanEnd
  <2> QED
    BY <1>n, <1>14, <2>2, <2>3 DEF below
<1>15. CASE /\ \/ a.via \notin {"executeAsync", "invokeAsync", "drain", "fire", "emit"}
               \/ a.via = "drain" /\ q = <<>>
               \/ a.via = "fire" /\ a.rest = <<>>
            /\ stack' = below /\ active' = a.prev /\ jobs' = q /\ lanes' = LanesAfter(a) /\ stray' = mk
  <2>1. q = <<>>
    BY <1>n, <1>7, <1>15 DEF Own, Bears, Switching
  <2> QED
    BY <1>4, <1>15, <2>1
<1>16. Cleared(stray, LanesAfter(a), a.prev, a.base) = mk
  BY EndClears DEF mk
<1>17. a.via \in {"fire", "emit"} => Cleared(stray, Popped, active, a.base) = Marked(stray, Popped, active, a.base)
  BY PopClears
<1> QED
  BY <1>6, <1>11, <1>12, <1>13, <1>14, <1>15, <1>16, <1>17 DEF Finish

LEMMA CreditFinish ==
    ASSUME IInv, Credit, seen = {}, NEW stk, Sound(stk, frames, lanes, active, syncDepth, cbDepth, stray, Busy, Waits),
           Clean(stk, lanes, active, answered, stray), NEW lvl \in 1..Len(stk), lvl = Len(stk), IsScript(stk[lvl]),
           SubSeq(stack, 1, lvl - 1) = SubSeq(stk, 1, lvl - 1),
           NEW how, NEW q, Own(stk[lvl], q), Finish(stk[lvl], lvl, how, q), UNCHANGED <<answered, held>>,
           pend' \subseteq Work, Owed(pend', lanes, answered)
    PROVE  Credit'
<1>1. jobs' = <<>> /\ Clean(stack', lanes', active', answered, stray') /\ Kept(lanes, lanes', answered)
  BY FinishClean
<1>2. Owed(pend', lanes', answered)
  <2> DEFINE ps == pend'
             lns2 == lanes'
  <2>1. ps \subseteq Work /\ Owed(ps, lanes, answered) /\ Kept(lanes, lns2, answered)
    BY <1>1
  <2> HIDE DEF ps, lns2
  <2>2. Owed(ps, lns2, answered)
    BY <2>1, OwedKept
  <2> QED
    BY <2>2 DEF ps, lns2
<1>3. \A r \in held : r.owner \in {r.fn, None}
  BY DEF Credit
<1> QED
  BY <1>1, <1>2, <1>3 DEF Credit

LEMMA ReturnCredit ==
    ASSUME IInv, Credit, Return
    PROVE  Credit'
<1> SUFFICES ASSUME seen' = {} PROVE Credit'
  BY DEF Credit
<1>1. stack # <<>> /\ IsScript(stack[Len(stack)]) /\ Top = stack[Len(stack)] /\ Level = Len(stack)
  BY DEF Return, InScript, IsScript, Top, Level
<1>2. Len(stack) \in 1..Len(stack)
  BY <1>1, Basics
<1>3. Finish(stack[Len(stack)], Len(stack), "resolved", jobs) /\ UNCHANGED <<pend, answered, held>> /\ seen = {}
  BY <1>1 DEF Return, Left, Same
<1>4. /\ Sound(stack, frames, lanes, active, syncDepth, cbDepth, stray, Busy, Waits) /\ pend' \subseteq Work
      /\ Clean(stack, lanes, active, answered, stray) /\ Owed(pend', lanes, answered) /\ Own(stack[Len(stack)], jobs)
  BY <1>3 DEF IInv, Rest, Pends, Credit, Own
<1> QED
  BY <1>1, <1>2, <1>3, <1>4, CreditFinish

LEMMA AwaitTickCredit ==
    ASSUME IInv, Credit, AwaitTick
    PROVE  Credit'
<1> SUFFICES ASSUME seen' = {} PROVE Credit'
  BY DEF Credit
<1> DEFINE q == Append(jobs, Job(Top.call, Top.own))
<1>1. stack # <<>> /\ IsScript(stack[Len(stack)]) /\ Top = stack[Len(stack)] /\ Level = Len(stack) /\ Top.call # None
  BY DEF AwaitTick, InScript, IsScript, Top, Level
<1>2. Len(stack) \in 1..Len(stack)
  BY <1>1, Basics
<1>3. /\ Finish(stack[Len(stack)], Len(stack), "queued", q) /\ UNCHANGED <<pend, answered, held>> /\ seen = {}
      /\ Top.via # "module" /\ (faulted => Top.via = "drain")
  BY <1>1 DEF AwaitTick, Left, Same
<1>4. /\ Sound(stack, frames, lanes, active, syncDepth, cbDepth, stray, Busy, Waits) /\ pend' \subseteq Work
      /\ Clean(stack, lanes, active, answered, stray) /\ Owed(pend', lanes, answered) /\ jobs = <<>>
  BY <1>3 DEF IInv, Rest, Pends, Credit
<1>5. Own(stack[Len(stack)], q)
  <2>1. q = <<Job(Top.call, Top.own)>>
    BY <1>4
  <2> HIDE DEF q
  <2> QED
    BY <1>1, <1>3, <2>1 DEF Own
<1> HIDE DEF q
<1> QED
  BY <1>1, <1>2, <1>3, <1>4, <1>5, CreditFinish

(* A binding that awaits keeps the lane in force, which is still its script's when its work settles. *)
LEMMA BindingAwaitsCredit ==
    ASSUME IInv, Credit, NEW awaited \in BOOLEAN, BindingAwaits(awaited)
    PROVE  Credit'
<1> SUFFICES ASSUME seen' = {} PROVE Credit'
  BY DEF Credit
<1> DEFINE stk == SubSeq(stack, 1, Len(stack) - 1)
           lvl == Len(stack) - 1
           id == FreshId
           call == IF awaited THEN Top.call ELSE None
           own == Top.own
           fatal == Top.fatal
           work == [id |-> id, call |-> call, lane |-> active, own |-> own, fatal |-> fatal]
<1>0. /\ stack \in Seq(Activation) /\ Alternates(stack) /\ active \in Lanes /\ IsFiniteSet(pend) /\ pend \subseteq Work
      /\ Sound(stack, frames, lanes, active, syncDepth, cbDepth, stray, Busy, Waits)
  BY DEF IInv, Sound, Rest, Pends
<1>1. /\ stack # <<>> /\ ~ IsScript(stack[Len(stack)]) /\ Top = stack[Len(stack)] /\ Level = Len(stack)
      /\ pend' = pend \cup {work} /\ UNCHANGED <<answered, held>> /\ seen = {}
  BY DEF BindingAwaits, Top, Level, Same, IsScript, Left
<1>2. Len(stack) \in 1..Len(stack) /\ lvl \in 1..Len(stack) /\ IsScript(stack[lvl])
  BY <1>0, <1>1 DEF Alternates
<1>3. /\ jobs = <<>> /\ Clean(stack, lanes, active, answered, stray) /\ Owed(pend, lanes, answered)
      /\ \A r \in held : r.owner \in {r.fn, None}
  BY <1>1 DEF Credit
<1>4. Sound(stk, frames, lanes, active, syncDepth, cbDepth, stray, Busy, Waits) /\ Clean(stk, lanes, active, answered, stray)
  BY <1>0, <1>1, <1>3, SoundHostOut, CleanHostOut
<1>5. /\ Topmost(stack, lvl) /\ View(stack[lvl], lanes, answered, active, Len(lanes[active]), stray) /\ Bears(stack[lvl])
      /\ own = stack[lvl].own /\ Top.call = stack[lvl].call
  <2>1. Topmost(stack, lvl)
    BY <1>1, <1>2 DEF Topmost
  <2>2. View(stack[lvl], lanes, answered, active, Len(lanes[active]), stray) /\ Bears(stack[lvl])
    BY <1>2, <1>3, <2>1 DEF Clean, Credited, Borne
  <2>3. own = stack[lvl].own /\ Top.call = stack[lvl].call
    BY <1>1, <1>2, <1>3 DEF Clean, Borne
  <2> QED
    BY <2>1, <2>2, <2>3
<1>6. work \in Work /\ work.call = call /\ work.lane = active /\ work.own = own
  <2>1. id \in Nat
    BY <1>0, FreshIdTyped DEF Work
  <2>2. call \in Calls \cup {None} /\ own \in Owner /\ fatal \in BOOLEAN
    BY <1>0, <1>1, <1>2, Kinds
  <2> HIDE DEF id, call, own, fatal
  <2> QED
    BY <1>0, <2>1, <2>2 DEF Work
<1> HIDE DEF work
<1>7. call # None => active \in answered \cup {Root} \/ (Len(lanes[active]) >= 1 /\ lanes[active][1] = own)
  <2> SUFFICES ASSUME call # None, active \notin answered \cup {Root} PROVE Len(lanes[active]) >= 1 /\ lanes[active][1] = own
    OBVIOUS
  <2>1. stack[lvl].via \in Switching \cup {"executeAsync"}
    BY <1>5 DEF Bears
  <2>2. stack[lvl].via \in Switching
    <3> SUFFICES ASSUME stack[lvl].via = "executeAsync" PROVE FALSE
      BY <2>1
    <3>1. stack[lvl].prev = Root /\ stack[lvl].via \notin Switching
      BY <1>5 DEF Bears, Switching
    <3>2. active = stack[lvl].prev
      BY <1>0, <1>2, <1>5, <3>1 DEF Sound, Returns
    <3> QED
      BY <3>1, <3>2
  <2> QED
    BY <1>5, <2>2 DEF View
<1> HIDE DEF call, own, id, fatal
<1>8. pend' \subseteq Work /\ Owed(pend', lanes, answered)
  <2>1. \A p \in pend' : p \in pend \/ p = work
    BY <1>1
  <2> QED
    BY <1>0, <1>3, <1>6, <1>7, <2>1 DEF Owed
<1>9. CASE ~ awaited
  <2>1. stack' = stk /\ UNCHANGED <<lanes, active, jobs, stray>>
    BY <1>9 DEF BindingAwaits, Same, Front
  <2> QED
    BY <1>1, <1>3, <1>4, <1>8, <2>1 DEF Credit
<1>10. CASE awaited
  <2>1. Finish(stack[lvl], lvl, "parked", jobs)
    BY <1>1, <1>10 DEF BindingAwaits
  <2>2. Len(stk) = lvl /\ stk[lvl] = stack[lvl]
    <3>1. Len(stk) = lvl /\ \A i \in 1..lvl : stk[i] = stack[i]
      BY <1>0, <1>2, Beneath
    <3> QED
      BY <1>2, <3>1
  <2>3. SubSeq(stack, 1, lvl - 1) = SubSeq(stk, 1, lvl - 1)
    BY <1>0, <1>2, Shorter
  <2>4. lvl \in 1..Len(stk)
    BY <1>2, <2>2
  <2>5. Own(stk[lvl], jobs)
    BY <1>3 DEF Own
  <2> HIDE DEF stk, lvl
  <2> QED
    BY <1>1, <1>2, <1>4, <1>8, <2>1, <2>2, <2>3, <2>4, <2>5, CreditFinish
<1> QED
  BY <1>9, <1>10

-----------------------------------------------------------------------------
(* A stop. *)

LEMMA OwedAlike ==
    ASSUME NEW ps, NEW lns, NEW ans, Owed(ps, lns, ans), NEW qs,
           \A r \in qs : \E p \in ps : r.call = p.call /\ r.lane = p.lane /\ r.own = p.own
    PROVE  Owed(qs, lns, ans)
BY DEF Owed

LEMMA StopCredit ==
    ASSUME IInv, Credit, NEW stk, Sound(stk, frames, lanes, active, syncDepth, cbDepth, stray, Busy, Waits),
           seen = {} => Clean(stk, lanes, active, answered, stray),
           NEW lvl \in 1..Len(stk), lvl = Len(stk), lvl <= Len(stack), IsScript(stack[lvl]),
           \A i \in 1..lvl : stk[i] = stack[i] /\ SubSeq(stack, 1, i - 1) = SubSeq(stk, 1, i - 1),
           NEW fault \in BOOLEAN, StopAt(Boundary(lvl), lvl, fault), UNCHANGED <<answered, held>>
    PROVE  Credit'
<1> SUFFICES ASSUME seen' = {} PROVE Credit'
  BY DEF Credit
<1> DEFINE b == Boundary(lvl)
           a == stk[b]
           below == SubSeq(stk, 1, b - 1)
           cut == SubSeq(stk, 1, b)
           mk == IF b < lvl THEN Marked(stray, lanes, active, stk[b + 1].base) ELSE stray
           mk2 == Marked(mk, LanesAfter(a), a.prev, a.base)
<1>0. /\ stack \in Seq(Activation) /\ Alternates(stack) /\ lvl \in 1..Len(stack) /\ pend \subseteq Work
      /\ stk \in Seq(Activation) /\ Alternates(stk) /\ Returns(stk, active) /\ Holds(stk, lanes)
      /\ lanes \in [Lanes -> Seq(Owner)] /\ stray \in [Lanes -> Nat]
  BY DEF IInv, Sound, Rest, Pends
<1>1. /\ b \in 1..lvl /\ IsScript(stack[b]) /\ stack[b].via # "emit"
      /\ \A i \in (b + 1)..lvl : IsScript(stack[i]) /\ stack[i].via = "emit"
  BY <1>0, BoundaryFound
<1>s. StopAt(b, lvl, fault)
  OBVIOUS
<1> HIDE DEF b
<1>2. b \in 1..Len(stk) /\ a = stack[b] /\ IsScript(a) /\ SubSeq(stack, 1, b - 1) = below
      /\ \A i \in (b + 1)..Len(stk) : IsScript(stk[i]) /\ stk[i].via = "emit"
  BY <1>1
<1>2a. b < lvl => stk[b + 1] = stack[b + 1]
  BY <1>1
<1>3. /\ lanes' = LanesAfter(a) /\ active' = a.prev
      /\ stack' = IF a.via = "callback" /\ ~ fault THEN [below EXCEPT ![b - 1].fatal = TRUE] ELSE below
      /\ pend' = IF a.via = "late" /\ ~ fault
                 THEN {IF p.id = a.pid THEN [p EXCEPT !.fatal = TRUE] ELSE p : p \in pend} ELSE pend
      /\ jobs' = jobs /\ seen' = IF jobs # <<>> THEN seen \cup {"left"} ELSE seen
  BY <1>s, <1>2, ZenonT(90) DEF StopAt, Left
<1>3a. stray' = Cleared(mk, LanesAfter(a), a.prev, a.base)
  BY <1>s, <1>2, <1>2a, ZenonT(60) DEF StopAt
<1>4. seen = {}
  BY <1>3
<1>5. /\ jobs = <<>> /\ Clean(stk, lanes, active, answered, stray) /\ Owed(pend, lanes, answered)
      /\ \A r \in held : r.owner \in {r.fn, None}
  BY <1>4 DEF Credit
<1>6. cut \in Seq(Activation) /\ Len(cut) = b /\ cut[b] = a /\ SubSeq(cut, 1, b - 1) = below
  BY <1>0, <1>2, Shorter
<1>6a. Sound(cut, frames, lanes, active, syncDepth, cbDepth, mk, Busy, Waits)
  BY <1>1, <1>2, HandlersGo
<1>6c. stray' = mk2
  <2> HIDE DEF mk, cut
  <2>1. b \in 1..Len(cut) /\ b = Len(cut) /\ IsScript(cut[b])
    BY <1>1, <1>2, <1>6
  <2>2. Cleared(mk, LanesAfter(cut[b]), cut[b].prev, cut[b].base) = Marked(mk, LanesAfter(cut[b]), cut[b].prev, cut[b].base)
    BY <1>6a, <2>1, EndClears
  <2> QED
    BY <1>3a, <1>6, <2>2
<1>6b. Clean(cut, lanes, active, answered, mk)
  <2>1. CASE b = lvl
    <3>1. cut = stk
      BY <1>0, <2>1
    <3>2. ~ (b < lvl)
      BY <2>1
    <3>3. mk = stray
      BY <3>2
    <3> QED
      BY <1>5, <3>1, <3>3
  <2>2. CASE b # lvl
    <3> DEFINE d == b + 1
               mk1 == Marked(stray, lanes, active, stk[d].base)
    <3>1. d \in 1..Len(stk) /\ d \in (b + 1)..Len(stk) /\ d - 1 = b /\ b < lvl
      BY <1>1, <1>2, <2>2
    <3>2. IsScript(stk[d]) /\ \A j \in (b + 1)..Len(stk) : stk[j].prev = active
      BY <1>0, <1>2, <3>1, EmitsShare
    <3>3. stk[d].prev = active /\ active \in Lanes /\ stk[d].base \in Nat /\ Pushed(stk[d]) \in Nat /\ Len(lanes[active]) \in Nat
      BY <1>0, <3>1, <3>2, Kinds, PushedType
    <3>4. Len(lanes[active]) >= stk[d].base
      <4>1. Len(lanes[active]) >= stk[d].base + Pushed(stk[d])
        BY <1>0, <3>1, <3>2, <3>3 DEF Holds
      <4> QED
        BY <3>3, <4>1
    <3>5. Leaves(stray, mk1, active, Len(lanes[active]), stk[d].base)
      BY <1>0, <3>3, <3>4, MarkLeft
    <3>6. mk = mk1
      BY <3>1
    <3> HIDE DEF mk1, mk, d
    <3>7. \A j \in (d + 1)..Len(stk) : IsScript(stk[j]) => stk[j].prev = stk[d].prev
      BY <1>2, <3>2, <3>3 DEF d
    <3>8. Clean(SubSeq(stk, 1, d - 1), lanes, stk[d].prev, answered, mk1)
      <4> DEFINE lns2 == lanes
      <4>1. /\ lns2 \in [Lanes -> Seq(Owner)] /\ \A x \in Lanes \ {stk[d].prev} : lns2[x] = lanes[x]
            /\ Len(lns2[stk[d].prev]) >= stk[d].base /\ \A k \in 1..stk[d].base : lns2[stk[d].prev][k] = lanes[stk[d].prev][k]
            /\ Leaves(stray, mk1, stk[d].prev, Len(lns2[stk[d].prev]), stk[d].base)
        BY <1>0, <3>3, <3>4, <3>5
      <4> HIDE DEF lns2
      <4>2. Clean(SubSeq(stk, 1, d - 1), lns2, stk[d].prev, answered, mk1)
        BY <1>0, <1>5, <3>1, <3>2, <3>7, <4>1, CleanEnd
      <4> QED
        BY <4>2 DEF lns2
    <3> QED
      BY <3>1, <3>3, <3>6, <3>8
  <2> QED
    BY <2>1, <2>2
<1>7. Clean(below, LanesAfter(a), a.prev, answered, mk2) /\ Kept(lanes, LanesAfter(a), answered)
  <2>1. b \in 1..Len(cut) /\ IsScript(cut[b]) /\ b = Len(cut)
    BY <1>1, <1>2, <1>6
  <2> HIDE DEF mk, cut
  <2>2. /\ Clean(SubSeq(cut, 1, b - 1), LanesAfter(cut[b]), cut[b].prev, answered, Marked(mk, LanesAfter(cut[b]), cut[b].prev, cut[b].base))
        /\ Kept(lanes, LanesAfter(cut[b]), answered)
    BY <1>6a, <1>6b, <2>1, CleanLeaves
  <2> QED
    BY <1>6, <2>2
<1> HIDE DEF mk2
<1>8. below \in Seq(Activation) /\ Len(below) = b - 1 /\ \A i \in 1..(b - 1) : below[i] = stk[i]
  BY <1>0, <1>2, Beneath
<1>9. Clean(stack', lanes', active', answered, mk2)
  <2>1. CASE a.via = "callback" /\ ~ fault
    <3>1. b > 1 /\ ~ IsScript(stk[b - 1])
      BY <1>0, <1>2, <2>1 DEF Alternates
    <3>2. b - 1 = Len(below) /\ below # <<>> /\ ~ IsScript(below[Len(below)])
      BY <1>1, <1>8, <3>1
    <3>3. stack' = [below EXCEPT ![Len(below)].fatal = TRUE]
      BY <1>3, <2>1, <3>2
    <3>4. Alternates(below)
      BY <1>2, <1>8, <1>0 DEF Alternates
    <3> HIDE DEF below
    <3>5. Clean([below EXCEPT ![Len(below)].fatal = TRUE], LanesAfter(a), a.prev, answered, mk2)
      BY <1>7, <1>8, <3>2, <3>4, CleanMarked
    <3> QED
      BY <1>3, <3>3, <3>5
  <2>2. CASE ~ (a.via = "callback" /\ ~ fault)
    BY <1>3, <1>7, <2>2
  <2> QED
    BY <2>1, <2>2
<1>10. Owed(pend', lanes', answered)
  <2>1. Owed(pend, lanes', answered)
    <3> DEFINE lns2 == LanesAfter(a)
    <3> HIDE DEF lns2
    <3>1. Kept(lanes, lns2, answered) /\ lanes' = lns2
      BY <1>3, <1>7 DEF lns2
    <3>2. Owed(pend, lns2, answered)
      BY <1>0, <1>5, <3>1, OwedKept
    <3> QED
      BY <3>1, <3>2
  <2>2. CASE a.via = "late" /\ ~ fault
    <3> DEFINE id == a.pid
               lns2 == lanes'
               qs == pend'
               Mark(p) == IF p.id = id THEN [p EXCEPT !.fatal = TRUE] ELSE p
    <3>1. qs = {Mark(p) : p \in pend}
      BY <1>3, <2>2
    <3>2. \A p \in pend : Mark(p).call = p.call /\ Mark(p).lane = p.lane /\ Mark(p).own = p.own
      BY <1>0 DEF Work
    <3> HIDE DEF qs, Mark
    <3>3. \A r \in qs : \E p \in pend : r.call = p.call /\ r.lane = p.lane /\ r.own = p.own
      BY <3>1, <3>2
    <3>4. Owed(pend, lns2, answered)
      BY <2>1
    <3> HIDE DEF lns2
    <3>5. Owed(qs, lns2, answered)
      BY <3>3, <3>4, OwedAlike
    <3> QED
      BY <3>5 DEF lns2, qs
  <2>3. CASE ~ (a.via = "late" /\ ~ fault)
    BY <1>3, <2>1, <2>3
  <2> QED
    BY <2>2, <2>3
<1> QED
  BY <1>3, <1>6c, <1>5, <1>9, <1>10 DEF Credit

LEMMA StopsHereCredit ==
    ASSUME IInv, Credit, InScript, NEW fault \in BOOLEAN, StopAt(Boundary(Level), Level, fault), UNCHANGED <<answered, held>>
    PROVE  Credit'
<1>1. stack # <<>> /\ IsScript(stack[Len(stack)]) /\ Level = Len(stack)
  BY DEF InScript, IsScript, Top, Level
<1>2. Len(stack) \in 1..Len(stack) /\ Len(stack) <= Len(stack)
  BY <1>1, Basics
<1>3. /\ Sound(stack, frames, lanes, active, syncDepth, cbDepth, stray, Busy, Waits)
      /\ seen = {} => Clean(stack, lanes, active, answered, stray)
  BY DEF IInv, Credit
<1>4. StopAt(Boundary(Len(stack)), Len(stack), fault)
  BY <1>1
<1>5. \A i \in 1..Len(stack) : stack[i] = stack[i] /\ SubSeq(stack, 1, i - 1) = SubSeq(stack, 1, i - 1)
  OBVIOUS
<1> QED
  BY <1>1, <1>2, <1>3, <1>4, <1>5, StopCredit

LEMMA BindingReturnCredit ==
    ASSUME IInv, Credit, BindingReturn
    PROVE  Credit'
<1> DEFINE stk == SubSeq(stack, 1, Len(stack) - 1)
           lvl == Len(stack) - 1
<1>0. /\ stack \in Seq(Activation) /\ Alternates(stack)
      /\ Sound(stack, frames, lanes, active, syncDepth, cbDepth, stray, Busy, Waits)
  BY DEF IInv, Sound
<1>1. stack # <<>> /\ ~ IsScript(stack[Len(stack)]) /\ Top = stack[Len(stack)] /\ Level = Len(stack)
  BY DEF BindingReturn, Top, Level, IsScript
<1>2. Len(stack) \in 1..Len(stack)
  BY <1>0, <1>1
<1>3. /\ Sound(stk, frames, lanes, active, syncDepth, cbDepth, stray, Busy, Waits)
      /\ seen = {} => Clean(stk, lanes, active, answered, stray)
  BY <1>0, <1>1, SoundHostOut, CleanHostOut DEF Credit
<1>4. CASE ~ Top.fatal
  <2>1. stack' = stk /\ UNCHANGED <<lanes, active, jobs, pend, answered, held, seen, stray>>
    BY <1>4 DEF BindingReturn, Front, Same, callVars
  <2> QED
    BY <1>3, <2>1 DEF Credit
<1>5. CASE Top.fatal
  <2>1. StopAt(Boundary(lvl), lvl, FALSE) /\ UNCHANGED <<answered, held>>
    BY <1>1, <1>5 DEF BindingReturn, Same
  <2>2. lvl \in 1..Len(stack) /\ lvl <= Len(stack) /\ IsScript(stack[lvl])
    BY <1>0, <1>1, <1>2 DEF Alternates
  <2>3. Len(stk) = lvl /\ stk \in Seq(Activation) /\ \A i \in 1..lvl : stk[i] = stack[i]
    BY <1>0, <1>2, Beneath
  <2>4. \A i \in 1..lvl : SubSeq(stack, 1, i - 1) = SubSeq(stk, 1, i - 1)
    BY <1>0, <2>2
  <2>5. lvl \in 1..Len(stk) /\ lvl = Len(stk) /\ FALSE \in BOOLEAN
    BY <2>2, <2>3
  <2> HIDE DEF stk, lvl
  <2> QED
    BY <1>3, <2>1, <2>2, <2>3, <2>4, <2>5, StopCredit
<1> QED
  BY <1>4, <1>5

-----------------------------------------------------------------------------

LEMMA InitCredit == Init => Credit
<1> SUFFICES ASSUME Init PROVE Credit
  OBVIOUS
<1>1. stack = <<>> /\ jobs = <<>> /\ pend = {} /\ held = {} /\ lanes = [l \in Lanes |-> <<>>]
  BY DEF Init
<1>2. \A d \in Calls : Len(lanes[d]) <= Cap(d, answered)
  BY <1>1 DEF Cap, Lanes
<1>3. Clean(<<>>, lanes, active, answered, stray)
  BY <1>2, CleanEmpty
<1> QED
  BY <1>1, <1>3 DEF Credit, Owed

LEMMA NextCredit == IInv /\ Credit /\ [Next]_vars => Credit'
<1> SUFFICES ASSUME IInv, Credit, [Next]_vars PROVE Credit'
  OBVIOUS
<1>1. CASE Start
  <2>1. CASE \E m, n \in Mods, b \in BOOLEAN : FireHook(IF m = n THEN <<m>> ELSE <<m, n>>, b)
    <3>1. PICK m \in Mods, n \in Mods, b \in BOOLEAN : FireHook(IF m = n THEN <<m>> ELSE <<m, n>>, b)
      BY <2>1
    <3> DEFINE hs == IF m = n THEN <<m>> ELSE <<m, n>>
    <3>2. hs \in Seq(Mods) /\ hs # <<>>
      OBVIOUS
    <3>3. FireHook(hs, b)
      BY <3>1
    <3> HIDE DEF hs
    <3> QED
      BY <3>2, <3>3, FireHookCredit
  <2> QED
    BY <1>1, <2>1, ExecuteCredit, InvokeExportCredit, ExecuteAsyncCredit, StartInLaneCredit DEF Start
<1>2. CASE Run
  <2>1. CASE Stop
    <3>1. InScript /\ StopAt(Boundary(Level), Level, FALSE) /\ FALSE \in BOOLEAN /\ UNCHANGED <<answered, held>>
      BY <2>1 DEF Stop, Same
    <3> QED
      BY <3>1, StopsHereCredit
  <2>2. CASE Fault
    <3>1. InScript /\ StopAt(Boundary(Level), Level, TRUE) /\ TRUE \in BOOLEAN /\ UNCHANGED <<answered, held>>
      BY <2>2 DEF Fault, Same
    <3> QED
      BY <3>1, StopsHereCredit
  <2> QED
    BY <1>2, <2>1, <2>2, ReturnCredit, AwaitTickCredit, QueueJobCredit, EmitCredit, CallBindingCredit DEF Run
<1>3. CASE Host
  <2>1. ASSUME NEW m \in Owner, ReleaseOwner(m) PROVE Credit'
    BY <2>1, QuietCredit DEF ReleaseOwner, Same, callVars
  <2> QED
    BY <1>3, <2>1, BindingReturnCredit, CallCallbackCredit, RetainCredit, BindingAwaitsCredit, CallLateCredit, CallRetainedCredit DEF Host
<1>4. CASE Loop
  <2>1. CASE Tick \/ Cancel
    <3>1. UNCHANGED <<stack, lanes, active, answered, jobs, seen, stray>> /\ pend' \subseteq pend /\ held' \subseteq held
      BY <2>1 DEF Tick, Cancel, Same, callVars
    <3> QED
      BY <3>1, QuietCredit
  <2>2. CASE Dispose
    <3>1. UNCHANGED <<stack, lanes, active, answered, jobs, seen, stray>> /\ pend' \subseteq pend /\ held' \subseteq held
      BY <2>2 DEF Dispose, Same, callVars
    <3> QED
      BY <3>1, QuietCredit
  <2> QED
    BY <1>4, <2>1, <2>2, SettleCredit, ModuleDrainCredit, AnswerCredit DEF Loop
<1>5. CASE UNCHANGED vars
  <2>1. UNCHANGED <<stack, lanes, active, answered, jobs, seen, stray>> /\ pend' \subseteq pend /\ held' \subseteq held
    BY <1>5 DEF vars, callVars
  <2> QED
    BY <2>1, QuietCredit
<1> QED
  BY <1>1, <1>2, <1>3, <1>4, <1>5 DEF Next

LEMMA CreditClaims == IInv /\ Credit => CreditedToItsMod
<1> SUFFICES ASSUME IInv, Credit, InScript, seen = {}, stray[active] = 0 PROVE Current \in {Top.own, None}
  BY DEF CreditedToItsMod
<1>1. stack # <<>> /\ IsScript(stack[Len(stack)]) /\ Top = stack[Len(stack)]
  BY DEF InScript, IsScript, Top
<1>2. Len(stack) \in 1..Len(stack)
  BY <1>1, Basics
<1>3. Topmost(stack, Len(stack))
  BY <1>1, <1>2 DEF Topmost
<1>4. View(stack[Len(stack)], lanes, answered, active, Len(lanes[active]), stray)
  BY <1>2, <1>3 DEF Credit, Clean, Credited
<1> QED
  BY <1>1, <1>4, CurrentAt DEF View, Intact

(* Whatever suspends, nests, stops or faults, a script runs with its own mod on top of the caller stack or with nobody:
   caller-context.ts's lanes, switched by sandbox.ts's drainWithin and the asynchronous entry points, never credit it to
   another, but for what the code does credit elsewhere. A promise job left to another call's drain ("left") and a call
   resumed in a lane that was lent to it ("lent") run as whoever that lane names; a stop inside an emitted handler may leave
   the handler's frame on a lane, and scripts in that lane are excepted only while the frame lies there (stray); and a
   callback retained over such a frame keeps the wrong owner ("misheld"). Runs in which handlers were stopped are covered:
   other lanes throughout, and the lane itself again once the entry under the frame has unwound it. *)
THEOREM CreditKept == Spec => []CreditedToItsMod
<1>1. IInv /\ Credit /\ [Next]_vars => Credit'
  BY NextCredit
<1> QED
  BY <1>1, Invariance, InitCredit, CreditClaims, PTL DEF Spec
=============================================================================
