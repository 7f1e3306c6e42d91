----------------------------- MODULE PoolProofs -----------------------------
(***************************************************************************)
(* Proofs about the pool's books, for any pool, any policy and any number  *)
(* of dispatching threads.                                                 *)
(*                                                                         *)
(* depth and the queue agree when no thread is between two updates because *)
(* at every moment depth is the queue's length plus the calls that are     *)
(* owed: counted but not yet pushed, or taken out but not yet given back.  *)
(***************************************************************************)
EXTENDS Pool, FiniteSetTheorems, TLAPS

Once(q) == \A i, j \in 1..Len(q) : q[i] = q[j] => i = j

(* How far a dispatch is once the handle has its command, and once the pool has
   its entry. *)
Entered   == {"watch", "callback", "done"}
Delivered == Entered \cup {"count", "push"}

(* A dispatch knows its worker, and so does a warden that is not idle. *)
Routed ==
    /\ \A c \in Calls : at[c] # "new" => where[c] \in Workers
    /\ \A a \in Wardens : doing[a].at # "idle" => doing[a].worker \in Workers

(* A call is in its own worker's channel at most once, before that worker has
   taken it; what is in flight is what the thread is busy with. *)
Channel ==
    /\ \A w \in Workers : Once(chan[w])
    /\ \A w \in Workers, c \in Calls : Has(chan[w], c) =>
          where[c] = w /\ at[c] \in Delivered /\ serving[w] # c /\ result[c] = "none"
    /\ \A w \in Workers : serving[w] # None => where[serving[w]] = w /\ at[serving[w]] \in Delivered
    /\ \A w \in Workers : flight[w] # None => flight[w] = serving[w] /\ result[flight[w]] = "none"

(* The completion callback runs once, after the entry was pushed, and on the
   runtime thread unless the dispatching thread found the call complete. *)
Called ==
    /\ watched \subseteq {c \in Calls : at[c] \in {"callback", "done"}}
    /\ \A c \in Calls : result[c] # "none" => at[c] \in Delivered
    /\ \A c \in Calls : cb[c] # "no" => c \in watched /\ result[c] # "none"
    /\ \A c \in Calls : cb[c] \in {"swap", "drop", "complete"} /\ at[c] # "callback" => serving[where[c]] = c

(* Actor a holds c, taken out of its worker's queue. *)
Grip == {"claim", "cancel", "fail"}
Holds(a, c) == Step(a) \in Grip /\ picked[a] = c

(* Actor a is about to claim c, which nobody has answered. *)
Claiming(a, c) == Step(a) = "claim" /\ picked[a] = c /\ c \notin settled

Claimed(c) == \E a \in Actors : Claiming(a, c)

(* An entry is in its own worker's queue at most once.  A settled one is there
   only until its callback drops it; an unsettled one is there or in the hands
   of an actor about to claim it. *)
Entries ==
    /\ \A w \in Workers : Once(queue[w])
    /\ \A w \in Workers, c \in Calls : Has(queue[w], c) =>
          where[c] = w /\ at[c] \in Entered /\ (c \in settled => cb[c] = "drop")
    /\ \A c \in Calls : c \in watched \/ at[c] = "watch" =>
          c \in settled \/ Has(queue[where[c]], c) \/ Claimed(c)
    /\ settled \subseteq {c \in Calls : at[c] \in Entered}
    /\ \A c \in Calls : cb[c] \in {"drop", "complete", "end"} => c \in settled

(* What an actor holds came out of the queue it answers. *)
Custody ==
    /\ \A a \in Actors, c \in Calls : Holds(a, c) =>
          /\ where[c] = Ward(a) /\ at[c] \in Entered /\ ~Has(queue[Ward(a)], c)
          /\ Step(a) \in {"cancel", "fail"} => c \in settled
          /\ Step(a) = "fail" => c \in token
    /\ \A a \in Actors : Step(a) \in Grip => picked[a] \in Calls

(* The calls that depth counts and the queue does not hold. *)
Owed(w) ==
    {c \in Calls : /\ where[c] = w /\ ~Has(queue[w], c)
                   /\ at[c] = "push" \/ cb[c] = "drop" \/ Claimed(c)}

Balance == \A w \in Workers : depth[w] = Len(queue[w]) + Cardinality(Owed(w))

(* A call answered for its worker has its token cancelled first. *)
Warned ==
    /\ \A c \in Calls : at[c] \notin Entered => answer[c] = "none"
    /\ \A w \in Workers, c \in Calls : Has(chan[w], c) /\ answer[c] \in {"shed", "wedged"} => c \in token

IInv == TypeOK /\ Routed /\ Channel /\ Called /\ Entries /\ Custody /\ Balance /\ Warned

-----------------------------------------------------------------------------
(* Queues in which nothing is twice. *)

LEMMA AppendOnce ==
    ASSUME NEW S, NEW q \in Seq(S), NEW x \in S, Once(q), ~Has(q, x)
    PROVE  /\ Append(q, x) \in Seq(S) /\ Once(Append(q, x))
           /\ Len(Append(q, x)) = Len(q) + 1
           /\ \A y : Has(Append(q, x), y) <=> Has(q, y) \/ y = x
<1> DEFINE r == Append(q, x)
<1>1. /\ r \in Seq(S) /\ Len(q) \in Nat /\ Len(r) = Len(q) + 1 /\ r[Len(q) + 1] = x
      /\ \A i \in 1..Len(q) : r[i] = q[i]
  OBVIOUS
<1> HIDE DEF r
<1>2. Once(r)
  <2> SUFFICES ASSUME NEW i \in 1..Len(r), NEW j \in 1..Len(r), r[i] = r[j] PROVE i = j
    BY DEF Once
  <2> QED
    BY <1>1 DEF Once, Has
<1>3. ASSUME NEW y PROVE Has(r, y) <=> Has(q, y) \/ y = x
  <2>1. ASSUME Has(q, y) \/ y = x PROVE Has(r, y)
    <3>1. Len(q) + 1 \in 1..Len(r) /\ 1..Len(q) \subseteq 1..Len(r)
      BY <1>1
    <3> QED
      BY <1>1, <2>1, <3>1 DEF Has
  <2>2. ASSUME Has(r, y) PROVE Has(q, y) \/ y = x
    <3>1. PICK i \in 1..Len(r) : r[i] = y
      BY <2>2 DEF Has
    <3>2. i \in 1..Len(q) \/ i = Len(q) + 1
      BY <1>1
    <3> QED
      BY <1>1, <3>1, <3>2 DEF Has
  <2> QED
    BY <2>1, <2>2
<1> QED
  BY <1>1, <1>2, <1>3 DEF r

LEMMA RemovedOnce ==
    ASSUME NEW S, NEW q \in Seq(S), NEW k \in 1..Len(q), Once(q)
    PROVE  /\ RemovedAt(q, k) \in Seq(S) /\ Once(RemovedAt(q, k))
           /\ Len(RemovedAt(q, k)) = Len(q) - 1
           /\ \A y : Has(RemovedAt(q, k), y) <=> Has(q, y) /\ y # q[k]
<1> DEFINE r == RemovedAt(q, k)
           u == SubSeq(q, 1, k - 1)
           v == SubSeq(q, k + 1, Len(q))
<1>0. Len(q) \in Nat
  OBVIOUS
<1>1. /\ u \in Seq(S) /\ Len(u) = k - 1 /\ \A i \in 1..Len(u) : u[i] = q[i]
      /\ v \in Seq(S) /\ Len(v) = Len(q) - k /\ \A i \in 1..Len(v) : v[i] = q[i + k]
  BY <1>0
<1> HIDE DEF u, v
<1>2. /\ u \o v \in Seq(S) /\ Len(u \o v) = Len(u) + Len(v)
      /\ \A i \in 1..(Len(u) + Len(v)) : (u \o v)[i] = IF i <= Len(u) THEN u[i] ELSE v[i - Len(u)]
  <2>1. ASSUME NEW a \in Seq(S), NEW b \in Seq(S)
        PROVE  /\ a \o b \in Seq(S) /\ Len(a \o b) = Len(a) + Len(b)
               /\ \A i \in 1..(Len(a) + Len(b)) : (a \o b)[i] = IF i <= Len(a) THEN a[i] ELSE b[i - Len(a)]
    OBVIOUS
  <2> QED
    BY <1>1, <2>1
<1>3. r \in Seq(S) /\ Len(r) = Len(q) - 1
      /\ \A i \in 1..Len(r) : r[i] = IF i < k THEN q[i] ELSE q[i + 1]
  <2>1. r = u \o v
    BY DEF u, v, RemovedAt
  <2> HIDE DEF r
  <2>2. r \in Seq(S) /\ Len(r) = Len(q) - 1
    <3>1. Len(u) + Len(v) = Len(q) - 1
      BY <1>0, <1>1
    <3> QED
      BY <1>2, <2>1, <3>1
  <2>3. ASSUME NEW i \in 1..Len(r) PROVE r[i] = IF i < k THEN q[i] ELSE q[i + 1]
    <3>1. CASE i < k
      BY <1>0, <1>1, <1>2, <2>1, <2>2, <3>1
    <3>2. CASE ~(i < k)
      <4>1. i - Len(u) \in 1..Len(v) /\ (i - Len(u)) + k = i + 1
        BY <1>0, <1>1, <2>2, <3>2
      <4>2. i \in 1..(Len(u) + Len(v)) /\ ~(i <= Len(u))
        BY <1>0, <1>1, <2>2, <3>2
      <4>3. r[i] = v[i - Len(u)]
        BY <1>2, <2>1, <4>2
      <4>4. v[i - Len(u)] = q[(i - Len(u)) + k]
        BY <1>1, <4>1
      <4> QED
        BY <3>2, <4>1, <4>3, <4>4
    <3> QED
      BY <3>1, <3>2
  <2> QED
    BY <2>2, <2>3
<1> HIDE DEF r
<1>4. Once(r)
  <2> SUFFICES ASSUME NEW i \in 1..Len(r), NEW j \in 1..Len(r), r[i] = r[j] PROVE i = j
    BY DEF Once
  <2> QED
    BY <1>0, <1>3 DEF Once
<1>5. ASSUME NEW y PROVE Has(r, y) <=> Has(q, y) /\ y # q[k]
  <2>1. ASSUME Has(q, y), y # q[k] PROVE Has(r, y)
    <3>1. PICK i \in 1..Len(q) : q[i] = y
      BY <2>1 DEF Has
    <3>2. CASE i < k
      <4>1. i \in 1..Len(r) /\ r[i] = y
        BY <1>0, <1>3, <3>1, <3>2
      <4> QED
        BY <4>1 DEF Has
    <3>3. CASE ~(i < k)
      <4>1. i - 1 \in 1..Len(r) /\ r[i - 1] = y
        BY <1>0, <1>3, <2>1, <3>1, <3>3
      <4> QED
        BY <4>1 DEF Has
    <3> QED
      BY <3>2, <3>3
  <2>2. ASSUME Has(r, y) PROVE Has(q, y) /\ y # q[k]
    <3>1. PICK i \in 1..Len(r) : r[i] = y
      BY <2>2 DEF Has
    <3>2. PICK j \in 1..Len(q) : j # k /\ q[j] = y
      BY <1>0, <1>3, <3>1
    <3> QED
      BY <3>2 DEF Has, Once
  <2> QED
    BY <2>1, <2>2
<1> QED
  BY <1>3, <1>4, <1>5 DEF r

LEMMA WithoutOnce ==
    ASSUME NEW S, NEW q \in Seq(S), NEW c, Once(q)
    PROVE  /\ Without(q, c) \in Seq(S) /\ Once(Without(q, c))
           /\ Len(Without(q, c)) = IF Has(q, c) THEN Len(q) - 1 ELSE Len(q)
           /\ \A y : Has(Without(q, c), y) <=> Has(q, y) /\ y # c
<1>1. CASE Has(q, c)
  <2> DEFINE k == CHOOSE i \in 1..Len(q) : q[i] = c
  <2>1. k \in 1..Len(q) /\ q[k] = c
    BY <1>1 DEF Has
  <2>2. Without(q, c) = RemovedAt(q, k)
    BY <1>1 DEF Without
  <2> HIDE DEF k
  <2> QED
    BY <1>1, <2>1, <2>2, RemovedOnce, SMTT(30)
<1>2. CASE ~Has(q, c)
  BY <1>2 DEF Without
<1> QED
  BY <1>1, <1>2

LEMMA TailOnce ==
    ASSUME NEW S, NEW q \in Seq(S), q # <<>>, Once(q)
    PROVE  /\ Head(q) \in S /\ Has(q, Head(q))
           /\ Tail(q) \in Seq(S) /\ Once(Tail(q))
           /\ \A y : Has(Tail(q), y) <=> Has(q, y) /\ y # Head(q)
<1>0. Len(q) \in Nat \ {0}
  OBVIOUS
<1> DEFINE r == Tail(q)
<1>1. /\ r \in Seq(S) /\ Len(r) = Len(q) - 1 /\ \A i \in 1..Len(r) : r[i] = q[i + 1]
      /\ Head(q) = q[1] /\ q[1] \in S /\ 1 \in 1..Len(q)
  BY <1>0
<1> HIDE DEF r
<1>2. Once(r)
  <2> SUFFICES ASSUME NEW i \in 1..Len(r), NEW j \in 1..Len(r), r[i] = r[j] PROVE i = j
    BY DEF Once
  <2> QED
    BY <1>0, <1>1 DEF Once
<1>3. ASSUME NEW y PROVE Has(r, y) <=> Has(q, y) /\ y # q[1]
  <2>1. ASSUME Has(q, y), y # q[1] PROVE Has(r, y)
    <3>1. PICK i \in 1..Len(q) : q[i] = y
      BY <2>1 DEF Has
    <3>2. i - 1 \in 1..Len(r) /\ r[i - 1] = y
      BY <1>0, <1>1, <2>1, <3>1
    <3> QED
      BY <3>2 DEF Has
  <2>2. ASSUME Has(r, y) PROVE Has(q, y) /\ y # q[1]
    <3>1. PICK i \in 1..Len(r) : r[i] = y
      BY <2>2 DEF Has
    <3>2. i + 1 \in 1..Len(q) /\ i + 1 # 1 /\ q[i + 1] = y
      BY <1>0, <1>1, <3>1
    <3> QED
      BY <1>1, <3>2 DEF Has, Once
  <2> QED
    BY <2>1, <2>2
<1>4. Has(q, q[1])
  BY <1>1 DEF Has
<1> QED
  BY <1>1, <1>2, <1>3, <1>4 DEF r

(* A queue in which nothing is twice is as long as the set of what it holds. *)
LEMMA CountOnce ==
    ASSUME NEW S, IsFiniteSet(S), NEW q \in Seq(S), Once(q),
           NEW O \in SUBSET S, \A x \in O : ~Has(q, x)
    PROVE  Len(q) \in Nat /\ Cardinality(O) \in Nat /\ Len(q) + Cardinality(O) <= Cardinality(S)
<1> DEFINE R == {x \in S : Has(q, x)}
<1>0. Len(q) \in Nat /\ \A i \in 1..Len(q) : q[i] \in S
  OBVIOUS
<1>1. Cardinality(R) = Len(q)
  <2> DEFINE f == [i \in 1..Len(q) |-> q[i]]
  <2>1. f \in [1..Len(q) -> R]
    BY <1>0 DEF Has
  <2>2. \A a, b \in 1..Len(q) : f[a] = f[b] => a = b
    BY DEF Once
  <2>3. \A x \in R : \E i \in 1..Len(q) : f[i] = x
    BY DEF Has
  <2> HIDE DEF f, R
  <2>4. f \in Bijection(1..Len(q), R)
    BY <2>1, <2>2, <2>3 DEF Bijection, Injection, Surjection, IsInjective
  <2> QED
    BY <1>0, <2>4, FS_CountingElements DEF ExistsBijection
<1>2. IsFiniteSet(R) /\ IsFiniteSet(O) /\ IsFiniteSet(R \cup O) /\ Cardinality(R \cup O) <= Cardinality(S)
  <2>1. R \in SUBSET S /\ O \in SUBSET S /\ (R \cup O) \in SUBSET S
    OBVIOUS
  <2> QED
    BY <2>1, FS_Subset
<1>3. R \cap O = {}
  OBVIOUS
<1> HIDE DEF R
<1>4. Cardinality(R \cup O) = Cardinality(R) + Cardinality(O) - Cardinality(R \cap O)
  BY <1>2, FS_Union
<1>5. Cardinality(R \cap O) = 0 /\ Cardinality(O) \in Nat /\ Cardinality(S) \in Nat
  BY <1>2, <1>3, FS_EmptySet, FS_CardinalityType
<1> QED
  BY <1>0, <1>1, <1>2, <1>4, <1>5

-----------------------------------------------------------------------------
(* What actors hold, step by step. *)

(* b keeps what it holds: it stays where it is, or holds nothing. *)
Keeps(b) ==
    \/ Step(b)' = Step(b) /\ Ward(b)' = Ward(b)
    \/ Step(b) \notin Grip /\ Step(b)' \notin Grip

Steady == picked' = picked /\ \A b \in Actors : Keeps(b)

(* A dispatch that moves between two steps at which it holds nothing. *)
LEMMA DispatchSteady ==
    ASSUME TypeOK, NEW c \in Calls, NEW s, at' = [at EXCEPT ![c] = s], at[c] \notin Grip, s \notin Grip,
           \A d \in Calls : d # c => where'[d] = where[d], doing' = doing, picked' = picked
    PROVE  Steady
<1> SUFFICES ASSUME NEW b \in Actors PROVE Keeps(b)
  BY DEF Steady
<1>1. CASE b \in Calls
  <2>1. at \in [Calls -> {"new", "check", "snapshot", "pick", "claim", "cancel", "fail", "send",
                         "count", "push", "watch", "callback", "done"}]
    BY DEF TypeOK
  <2> QED
    BY <1>1, <2>1 DEF Keeps, Step, Ward
<1>2. CASE b \notin Calls
  BY <1>2 DEF Keeps, Step, Ward
<1> QED
  BY <1>1, <1>2

LEMMA StillSteady ==
    ASSUME at' = at, where' = where, doing' = doing, picked' = picked
    PROVE  Steady
  BY DEF Steady, Keeps, Step, Ward

LEMMA SteadyHolds ==
    ASSUME Steady
    PROVE  \A b \in Actors, c \in Calls : Holds(b, c)' <=> Holds(b, c)
  BY DEF Steady, Keeps, Holds

LEMMA SteadyClaims ==
    ASSUME Steady, NEW c \in Calls, c \in settled' <=> c \in settled
    PROVE  Claimed(c)' <=> Claimed(c)
<1>1. ASSUME NEW b \in Actors PROVE Claiming(b, c)' <=> Claiming(b, c)
  BY DEF Steady, Keeps, Claiming, Grip
<1> QED
  BY <1>1 DEF Claimed

LEMMA SteadyCustody ==
    ASSUME Custody, Steady,
           \A c \in Calls : at[c] \in Entered => at'[c] \in Entered /\ where'[c] = where[c],
           \A w, c : Has(queue[w], c)' /\ c \in Calls /\ at[c] \in Entered => Has(queue[w], c),
           settled \subseteq settled', token \subseteq token'
    PROVE  Custody'
<1>1. ASSUME NEW a \in Actors, NEW c \in Calls, Holds(a, c)'
      PROVE  /\ where'[c] = Ward(a)' /\ at'[c] \in Entered /\ ~Has(queue[Ward(a)], c)'
             /\ Step(a)' \in {"cancel", "fail"} => c \in settled'
             /\ Step(a)' = "fail" => c \in token'
  <2>1. Holds(a, c) /\ Step(a)' = Step(a) /\ Ward(a)' = Ward(a)
    BY <1>1, SteadyHolds DEF Steady, Keeps, Holds
  <2>2. /\ where[c] = Ward(a) /\ at[c] \in Entered /\ ~Has(queue[Ward(a)], c)
        /\ Step(a) \in {"cancel", "fail"} => c \in settled
        /\ Step(a) = "fail" => c \in token
    BY <2>1 DEF Custody
  <2>3. ASSUME NEW w, ~Has(queue[w], c), w = Ward(a)' PROVE ~Has(queue[Ward(a)], c)'
    <3>1. ~Has(queue[w], c)'
      BY <2>2, <2>3
    <3> QED
      BY <2>3, <3>1
  <2> QED
    BY <2>1, <2>2, <2>3
<1>2. ASSUME NEW a \in Actors, Step(a)' \in Grip PROVE picked'[a] \in Calls
  BY <1>2 DEF Steady, Keeps, Custody
<1> QED
  BY <1>1, <1>2 DEF Custody

(* A step that leaves the books, and what is owed, alone. *)
LEMMA SameBalance ==
    ASSUME Balance, depth' = depth, queue' = queue, \A w \in Workers : Owed(w)' = Owed(w)
    PROVE  Balance'
  BY DEF Balance

(* depth never exceeds the number of calls. *)
LEMMA NewDepth ==
    ASSUME Balance', queue' \in [Workers -> Seq(Calls)], \A w \in Workers : Once(queue[w])', NEW w \in Workers
    PROVE  depth'[w] \in 0..Cardinality(Calls)
<1> DEFINE q == queue'[w]
           O == Owed(w)'
<1>1. q \in Seq(Calls) /\ Once(q) /\ O \in SUBSET Calls /\ \A x \in O : ~Has(q, x)
  BY DEF Owed
<1>2. depth'[w] = Len(q) + Cardinality(O)
  BY DEF Balance
<1> HIDE DEF q, O
<1>3. Len(q) \in Nat /\ Cardinality(O) \in Nat /\ Len(q) + Cardinality(O) <= Cardinality(Calls)
  BY <1>1, CountOnce, PoolAssumption
<1>4. Cardinality(Calls) \in Nat
  BY PoolAssumption, FS_CardinalityType
<1> QED
  BY <1>2, <1>3, <1>4

(* A warden that moves between two steps at which it holds nothing. *)
LEMMA WardenSteady ==
    ASSUME at' = at, where' = where, picked' = picked,
           \A b \in Wardens : \/ doing'[b] = doing[b]
                              \/ doing[b].at \notin Grip /\ doing'[b].at \notin Grip
    PROVE  Steady
  BY DEF Steady, Keeps, Step, Ward, Actors

(* An actor's move from one of the steps of answer_queued, seen from both sides. *)
LEMMA GotoMoves ==
    ASSUME TypeOK, Routed, NEW a \in Actors, NEW s, Goto(a, s), where' = where,
           Step(a) \in {"snapshot", "pick", "claim", "cancel", "fail"},
           s \in {"pick", "claim", "cancel", "fail"} \/ (a \in Calls /\ s = "send") \/ (a \notin Calls /\ s = "idle")
    PROVE  /\ Step(a)' = s /\ (s # "idle" => Ward(a)' = Ward(a)) /\ Ward(a) \in Workers
           /\ \A b \in Actors : b # a => Step(b)' = Step(b) /\ Ward(b)' = Ward(b)
           /\ \A d \in Calls : \/ at'[d] = at[d]
                               \/ at[d] \notin Delivered \cup {"new"} /\ at'[d] \notin Delivered \cup {"new"}
           /\ at' \in [Calls -> {"new", "check", "snapshot", "pick", "claim", "cancel", "fail", "send",
                                 "count", "push", "watch", "callback", "done"}]
           /\ doing' \in [Wardens -> [at : {"idle", "Healthy", "Unhealthy",
                                            "snapshot", "pick", "claim", "cancel", "fail"},
                                      worker : Workers \cup {None}]]
           /\ Routed'
<1>1. CASE a \in Calls
  <2>1. at' = [at EXCEPT ![a] = s] /\ doing' = doing /\ Step(a) = at[a] /\ Ward(a) = where[a]
    BY <1>1 DEF Goto, Step, Ward
  <2>2. /\ at' \in [Calls -> {"new", "check", "snapshot", "pick", "claim", "cancel", "fail", "send",
                              "count", "push", "watch", "callback", "done"}]
        /\ at'[a] = s /\ \A d \in Calls : d # a => at'[d] = at[d]
    BY <1>1, <2>1 DEF TypeOK
  <2>3. Step(a)' = s /\ Ward(a)' = Ward(a) /\ Ward(a) \in Workers
    BY <1>1, <2>1, <2>2 DEF Step, Ward, Routed
  <2>4. \A b \in Actors : b # a => Step(b)' = Step(b) /\ Ward(b)' = Ward(b)
    BY <2>1, <2>2 DEF Step, Ward
  <2>5. \A d \in Calls : \/ at'[d] = at[d]
                         \/ at[d] \notin Delivered \cup {"new"} /\ at'[d] \notin Delivered \cup {"new"}
    BY <1>1, <2>1, <2>2 DEF Delivered, Entered
  <2>6. Routed'
    BY <1>1, <2>1, <2>2, <2>3 DEF Routed
  <2> QED
    BY <2>1, <2>2, <2>3, <2>4, <2>5, <2>6 DEF TypeOK
<1>2. CASE a \notin Calls
  <2>1. a \in Wardens
    BY <1>2 DEF Actors
  <2>2. /\ doing' = [doing EXCEPT ![a] = IF s = "idle" THEN Idle ELSE [@ EXCEPT !.at = s]]
        /\ at' = at /\ Step(a) = doing[a].at /\ Ward(a) = doing[a].worker
    BY <1>2 DEF Goto, Step, Ward
  <2>3. doing \in [Wardens -> [at : {"idle", "Healthy", "Unhealthy", "snapshot", "pick", "claim", "cancel", "fail"},
                               worker : Workers \cup {None}]]
    BY DEF TypeOK
  <2>4. /\ doing'[a].at = s /\ (s # "idle" => doing'[a].worker = doing[a].worker)
        /\ \A b \in Wardens : b # a => doing'[b] = doing[b]
    BY <2>1, <2>2, <2>3 DEF Idle
  <2>5. doing' \in [Wardens -> [at : {"idle", "Healthy", "Unhealthy", "snapshot", "pick", "claim", "cancel", "fail"},
                                worker : Workers \cup {None}]]
    <3>1. CASE s = "idle"
      BY <2>1, <2>2, <2>3, <3>1 DEF Idle
    <3>2. CASE s # "idle"
      <4>1. [doing[a] EXCEPT !.at = s] \in [at : {"idle", "Healthy", "Unhealthy", "snapshot", "pick", "claim", "cancel", "fail"},
                                            worker : Workers \cup {None}]
        BY <1>2, <2>1, <2>3, <3>2
      <4> QED
        BY <2>1, <2>2, <2>3, <3>2, <4>1
    <3> QED
      BY <3>1, <3>2
  <2>6. Ward(a) \in Workers
    BY <2>1, <2>2 DEF Routed
  <2>7. \A b \in Actors : b # a => Step(b)' = Step(b) /\ Ward(b)' = Ward(b)
    BY <2>2, <2>4 DEF Step, Ward, Actors
  <2>8. Step(a)' = s /\ (s # "idle" => Ward(a)' = Ward(a))
    BY <1>2, <2>4 DEF Step, Ward
  <2>9. Routed'
    BY <2>1, <2>2, <2>4, <2>6 DEF Routed
  <2> QED
    BY <2>2, <2>5, <2>6, <2>7, <2>8, <2>9 DEF TypeOK
<1> QED
  BY <1>1, <1>2

-----------------------------------------------------------------------------
(* Every step preserves the invariant. *)

(* A routed call knows its worker. *)
LEMMA RouteInv ==
    ASSUME IInv, NEW c \in Calls, Route(c)
    PROVE  IInv'
<1> USE DEF IInv
<1>1. /\ at[c] = "new"
      /\ \E w \in Workers : where' = [where EXCEPT ![c] = w]
      /\ at' = [at EXCEPT ![c] = "check"]
      /\ config' = config /\ long' = long /\ watched' = watched /\ chan' = chan /\ serving' = serving /\ flight' = flight
      /\ binding' = binding /\ result' = result /\ cb' = cb /\ queue' = queue /\ depth' = depth /\ settled' = settled
      /\ token' = token /\ answer' = answer /\ state' = state /\ doing' = doing /\ snap' = snap /\ picked' = picked
  BY PoolAssumption DEF Route, Targets, Resolve, LeastLoaded, setup, dispatchVars, threadVars, bookVars, answerVars, healthVars, actorVars
<1>4. /\ \A d \in Calls : at'[d] = IF d = c THEN "check" ELSE at[d]
      /\ \A d \in Calls : d # c => where'[d] = where[d]
      /\ where'[c] \in Workers
      /\ where' \in [Calls -> Workers \cup {None}]
  BY <1>1 DEF TypeOK, Routed
<1>2. Steady
  BY <1>1, DispatchSteady DEF Grip, TypeOK
<1>3. \A d \in Calls : Claimed(d)' <=> Claimed(d)
  BY <1>1, <1>2, SteadyClaims
<1>10. TypeOK'
  BY <1>1, <1>4 DEF TypeOK, Answers
<1>11. Routed'
  BY <1>1, <1>4 DEF Routed
<1>12. Channel'
  BY <1>1, <1>4 DEF Channel, Entered, Delivered
<1>13. Called'
  BY <1>1, <1>4 DEF Called, Entered, Delivered, Channel
<1>14. Entries'
  BY <1>1, <1>3, <1>4 DEF Entries, Called, Entered
<1>15. Custody'
  BY <1>1, <1>2, <1>4, SteadyCustody DEF Entered
<1>16. Balance'
  <2>1. ~Claimed(c) /\ cb[c] # "drop" /\ at'[c] # "push" /\ at[c] # "push"
    BY <1>1, <1>4 DEF Claimed, Claiming, Custody, Holds, Grip, Entered, Called
  <2>2. ASSUME NEW w \in Workers PROVE Owed(w)' = Owed(w)
    BY <1>1, <1>3, <1>4, <2>1 DEF Owed
  <2> QED
    BY <1>1, <2>2, SameBalance
<1>17. Warned'
  BY <1>1, <1>4 DEF Warned, Entered, Delivered, Channel
<1> QED
  BY <1>10, <1>11, <1>12, <1>13, <1>14, <1>15, <1>16, <1>17

(* A call turned away at the door is in no book. *)
LEMMA RefuseInv ==
    ASSUME IInv, NEW c \in Calls, Refuse(c)
    PROVE  IInv'
<1> USE DEF IInv
<1>1. /\ at[c] = "check"
      /\ at' = [at EXCEPT ![c] = "done"]
      /\ answer' = [answer EXCEPT ![c] = "wedged"]
      /\ config' = config /\ long' = long /\ where' = where /\ watched' = watched /\ chan' = chan /\ serving' = serving
      /\ flight' = flight /\ binding' = binding /\ result' = result /\ cb' = cb /\ queue' = queue /\ depth' = depth
      /\ settled' = settled /\ token' = token /\ state' = state /\ doing' = doing /\ snap' = snap /\ picked' = picked
  BY DEF Refuse, setup, dispatchVars, threadVars, bookVars, answerVars, healthVars, actorVars
<1>4. /\ \A d \in Calls : at'[d] = IF d = c THEN "done" ELSE at[d]
      /\ \A d \in Calls : answer'[d] = IF d = c THEN "wedged" ELSE answer[d]
  BY <1>1 DEF TypeOK, Routed
<1>2. Steady
  BY <1>1, DispatchSteady DEF Grip
<1>3. \A d \in Calls : Claimed(d)' <=> Claimed(d)
  BY <1>1, <1>2, SteadyClaims
<1>10. TypeOK'
  BY <1>1, <1>4 DEF TypeOK, Answers
<1>11. Routed'
  BY <1>1, <1>4 DEF Routed
<1>12. Channel'
  BY <1>1, <1>4 DEF Channel, Entered, Delivered
<1>13. Called'
  BY <1>1, <1>4 DEF Called, Entered, Delivered, Channel
<1>14. Entries'
  BY <1>1, <1>3, <1>4 DEF Entries, Called, Entered
<1>15. Custody'
  BY <1>1, <1>2, <1>4, SteadyCustody DEF Entered
<1>16. Balance'
  <2>1. ASSUME NEW w \in Workers PROVE Owed(w)' = Owed(w)
    BY <1>1, <1>3, <1>4 DEF Owed
  <2> QED
    BY <1>1, <2>1, SameBalance
<1>17. Warned'
  BY <1>1, <1>4 DEF Warned, Entered, Delivered, Channel
<1> QED
  BY <1>10, <1>11, <1>12, <1>13, <1>14, <1>15, <1>16, <1>17

(* A call turned away at the door is in no book. *)
LEMMA RejectInv ==
    ASSUME IInv, NEW c \in Calls, Reject(c)
    PROVE  IInv'
<1> USE DEF IInv
<1>1. /\ at[c] = "check"
      /\ at' = [at EXCEPT ![c] = "done"]
      /\ answer' = [answer EXCEPT ![c] = "saturated"]
      /\ config' = config /\ long' = long /\ where' = where /\ watched' = watched /\ chan' = chan /\ serving' = serving
      /\ flight' = flight /\ binding' = binding /\ result' = result /\ cb' = cb /\ queue' = queue /\ depth' = depth
      /\ settled' = settled /\ token' = token /\ state' = state /\ doing' = doing /\ snap' = snap /\ picked' = picked
  BY DEF Reject, setup, dispatchVars, threadVars, bookVars, answerVars, healthVars, actorVars
<1>4. /\ \A d \in Calls : at'[d] = IF d = c THEN "done" ELSE at[d]
      /\ \A d \in Calls : answer'[d] = IF d = c THEN "saturated" ELSE answer[d]
  BY <1>1 DEF TypeOK, Routed
<1>2. Steady
  BY <1>1, DispatchSteady DEF Grip
<1>3. \A d \in Calls : Claimed(d)' <=> Claimed(d)
  BY <1>1, <1>2, SteadyClaims
<1>10. TypeOK'
  BY <1>1, <1>4 DEF TypeOK, Answers
<1>11. Routed'
  BY <1>1, <1>4 DEF Routed
<1>12. Channel'
  BY <1>1, <1>4 DEF Channel, Entered, Delivered
<1>13. Called'
  BY <1>1, <1>4 DEF Called, Entered, Delivered, Channel
<1>14. Entries'
  BY <1>1, <1>3, <1>4 DEF Entries, Called, Entered
<1>15. Custody'
  BY <1>1, <1>2, <1>4, SteadyCustody DEF Entered
<1>16. Balance'
  <2>1. ASSUME NEW w \in Workers PROVE Owed(w)' = Owed(w)
    BY <1>1, <1>3, <1>4 DEF Owed
  <2> QED
    BY <1>1, <2>1, SameBalance
<1>17. Warned'
  BY <1>1, <1>4 DEF Warned, Entered, Delivered, Channel
<1> QED
  BY <1>10, <1>11, <1>12, <1>13, <1>14, <1>15, <1>16, <1>17

(* A call admitted is in no book yet. *)
LEMMA AdmitInv ==
    ASSUME IInv, NEW c \in Calls, Admit(c)
    PROVE  IInv'
<1> USE DEF IInv
<1>1. /\ at[c] = "check"
      /\ \E s \in {"snapshot", "send"} : at' = [at EXCEPT ![c] = s]
      /\ config' = config /\ long' = long /\ where' = where /\ watched' = watched /\ chan' = chan /\ serving' = serving
      /\ flight' = flight /\ binding' = binding /\ result' = result /\ cb' = cb /\ queue' = queue /\ depth' = depth
      /\ settled' = settled /\ token' = token /\ answer' = answer /\ state' = state /\ doing' = doing /\ snap' = snap
      /\ picked' = picked
  BY DEF Admit, setup, dispatchVars, threadVars, bookVars, answerVars, healthVars, actorVars
<1>4. /\ \A d \in Calls : d # c => at'[d] = at[d]
      /\ at'[c] \in {"snapshot", "send"}
  BY <1>1 DEF TypeOK, Routed
<1>2. Steady
  BY <1>1, DispatchSteady DEF Grip
<1>3. \A d \in Calls : Claimed(d)' <=> Claimed(d)
  BY <1>1, <1>2, SteadyClaims
<1>10. TypeOK'
  BY <1>1, <1>4 DEF TypeOK, Answers
<1>11. Routed'
  BY <1>1, <1>4 DEF Routed
<1>12. Channel'
  BY <1>1, <1>4 DEF Channel, Entered, Delivered
<1>13. Called'
  BY <1>1, <1>4 DEF Called, Entered, Delivered, Channel
<1>14. Entries'
  BY <1>1, <1>3, <1>4 DEF Entries, Called, Entered
<1>15. Custody'
  BY <1>1, <1>2, <1>4, SteadyCustody DEF Entered
<1>16. Balance'
  <2>1. ASSUME NEW w \in Workers PROVE Owed(w)' = Owed(w)
    BY <1>1, <1>3, <1>4 DEF Owed
  <2> QED
    BY <1>1, <2>1, SameBalance
<1>17. Warned'
  BY <1>1, <1>4 DEF Warned, Entered, Delivered, Channel
<1> QED
  BY <1>10, <1>11, <1>12, <1>13, <1>14, <1>15, <1>16, <1>17

(* The handle has the command before the pool has an entry. *)
LEMMA SendInv ==
    ASSUME IInv, NEW c \in Calls, Send(c)
    PROVE  IInv'
<1> USE DEF IInv
<1>1. /\ at[c] = "send"
      /\ at' = [at EXCEPT ![c] = "count"]
      /\ chan' = [chan EXCEPT ![where[c]] = Append(@, c)]
      /\ config' = config /\ long' = long /\ where' = where /\ watched' = watched /\ serving' = serving /\ flight' = flight
      /\ binding' = binding /\ result' = result /\ cb' = cb /\ queue' = queue /\ depth' = depth /\ settled' = settled
      /\ token' = token /\ answer' = answer /\ state' = state /\ doing' = doing /\ snap' = snap /\ picked' = picked
  BY DEF Send, setup, dispatchVars, threadVars, bookVars, answerVars, healthVars, actorVars
<1>4. \A d \in Calls : at'[d] = IF d = c THEN "count" ELSE at[d]
  BY <1>1 DEF TypeOK, Routed
<1>2. Steady
  BY <1>1, DispatchSteady DEF Grip
<1>3. \A d \in Calls : Claimed(d)' <=> Claimed(d)
  BY <1>1, <1>2, SteadyClaims
<1>5. PICK v \in Workers : v = where[c]
  BY <1>1 DEF Routed
<1>6. \A u \in Workers : chan'[u] = IF u = v THEN Append(chan[u], c) ELSE chan[u]
  BY <1>1, <1>5 DEF TypeOK
<1>7. chan[v] \in Seq(Calls) /\ Once(chan[v]) /\ ~Has(chan[v], c)
  BY <1>1, ZenonT(60) DEF TypeOK, Channel, Entered, Delivered
<1>8. /\ chan'[v] \in Seq(Calls) /\ Once(chan[v])'
      /\ \A y : Has(chan[v], y)' <=> Has(chan[v], y) \/ y = c
  <2>1. /\ Append(chan[v], c) \in Seq(Calls) /\ Once(Append(chan[v], c))
        /\ \A y : Has(Append(chan[v], c), y) <=> Has(chan[v], y) \/ y = c
    BY <1>7, AppendOnce
  <2> QED
    BY <1>6, <2>1
<1>9. \A u \in Workers : u # v => chan'[u] = chan[u]
  BY <1>6
<1>10. TypeOK'
  <2>1. chan' \in [Workers -> Seq(Calls)]
    BY <1>1, <1>8, <1>9 DEF TypeOK
  <2> QED
    BY <1>1, <2>1 DEF TypeOK
<1>11. Routed'
  BY <1>1, <1>4 DEF Routed
<1>12. Channel'
  <2>1. /\ \A u \in Workers : Once(chan[u])'
        /\ \A u \in Workers, d \in Calls : Has(chan[u], d)' => Has(chan[u], d) \/ (u = v /\ d = c)
    BY <1>8, <1>9 DEF Channel
  <2>2. \A u \in Workers : serving[u] # c
    BY <1>1, PoolAssumption DEF Channel, Entered, Delivered
  <2>3. result[c] = "none"
    BY <1>1 DEF Called, Entered, Delivered
  <2> QED
    BY <1>1, <1>4, <1>5, <2>1, <2>2, <2>3 DEF Channel, Entered, Delivered, TypeOK
<1>13. Called'
  BY <1>1, <1>4 DEF Called, Entered, Delivered, Channel
<1>14. Entries'
  BY <1>1, <1>3, <1>4 DEF Entries, Called, Entered
<1>15. Custody'
  BY <1>1, <1>2, <1>4, SteadyCustody DEF Entered
<1>16. Balance'
  <2>1. ASSUME NEW w \in Workers PROVE Owed(w)' = Owed(w)
    BY <1>1, <1>3, <1>4 DEF Owed
  <2> QED
    BY <1>1, <2>1, SameBalance
<1>17. Warned'
  <2>1. \A u \in Workers, d \in Calls : Has(chan[u], d)' => Has(chan[u], d) \/ (u = v /\ d = c)
    BY <1>8, <1>9
  <2> QED
    BY <1>1, <1>4, <2>1 DEF Warned, Entered
<1> QED
  BY <1>10, <1>11, <1>12, <1>13, <1>14, <1>15, <1>16, <1>17

(* A call counted is owed until it is pushed. *)
LEMMA CountInv ==
    ASSUME IInv, NEW c \in Calls, Count(c)
    PROVE  IInv'
<1> USE DEF IInv
<1>1. /\ at[c] = "count"
      /\ at' = [at EXCEPT ![c] = "push"]
      /\ depth' = [depth EXCEPT ![where[c]] = @ + 1]
      /\ config' = config /\ long' = long /\ where' = where /\ watched' = watched /\ chan' = chan /\ serving' = serving
      /\ flight' = flight /\ binding' = binding /\ result' = result /\ cb' = cb /\ queue' = queue /\ settled' = settled
      /\ token' = token /\ answer' = answer /\ state' = state /\ doing' = doing /\ snap' = snap /\ picked' = picked
  BY DEF Count, setup, dispatchVars, threadVars, bookVars, answerVars, healthVars, actorVars
<1>4. \A d \in Calls : at'[d] = IF d = c THEN "push" ELSE at[d]
  BY <1>1 DEF TypeOK, Routed
<1>2. Steady
  BY <1>1, DispatchSteady DEF Grip
<1>3. \A d \in Calls : Claimed(d)' <=> Claimed(d)
  BY <1>1, <1>2, SteadyClaims
<1>5. PICK v \in Workers : v = where[c]
  BY <1>1 DEF Routed
<1>6. IsFiniteSet(Owed(v)) /\ Cardinality(Owed(v)) \in Nat
  <2>1. Owed(v) \in SUBSET Calls
    BY DEF Owed
  <2> QED
    BY <2>1, PoolAssumption, FS_Subset, FS_CardinalityType
<1>7. \A u \in Workers : depth'[u] = IF u = v THEN depth[u] + 1 ELSE depth[u]
  BY <1>1, <1>5 DEF TypeOK
<1>8. Owed(v)' = Owed(v) \cup {c} /\ c \notin Owed(v) /\ \A u \in Workers : u # v => Owed(u)' = Owed(u)
  <2>1. ~Claimed(c) /\ cb[c] # "drop" /\ \A u \in Workers : ~Has(queue[u], c)
    BY <1>1 DEF Claimed, Claiming, Custody, Holds, Grip, Entered, Called, Entries
  <2> QED
    BY <1>1, <1>3, <1>4, <1>5, <2>1 DEF Owed
<1>9. Balance'
  <2>1. Cardinality(Owed(v)') = Cardinality(Owed(v)) + 1
    BY <1>6, <1>8, FS_AddElement
  <2>2. \A u \in Workers : Len(queue[u]) \in Nat
    BY DEF TypeOK
  <2>3. ASSUME NEW u \in Workers PROVE depth'[u] = Len(queue'[u]) + Cardinality(Owed(u)')
    <3>1. depth[u] = Len(queue[u]) + Cardinality(Owed(u))
      BY DEF Balance
    <3>2. CASE u = v
      BY <1>1, <1>6, <1>7, <2>1, <2>2, <3>1, <3>2
    <3>3. CASE u # v
      BY <1>1, <1>7, <1>8, <3>1, <3>3
    <3> QED
      BY <3>2, <3>3
  <2> QED
    BY <2>3 DEF Balance
<1>10. TypeOK'
  <2>1. \A u \in Workers : depth'[u] \in 0..Cardinality(Calls)
    BY <1>1, <1>9, NewDepth DEF TypeOK, Entries
  <2>2. depth' \in [Workers -> 0..Cardinality(Calls)]
    BY <1>1, <2>1 DEF TypeOK
  <2> QED
    BY <1>1, <2>2 DEF TypeOK
<1>11. Routed'
  BY <1>1, <1>4 DEF Routed
<1>12. Channel'
  BY <1>1, <1>4 DEF Channel, Entered, Delivered
<1>13. Called'
  BY <1>1, <1>4 DEF Called, Entered, Delivered, Channel
<1>14. Entries'
  BY <1>1, <1>3, <1>4 DEF Entries, Called, Entered
<1>15. Custody'
  BY <1>1, <1>2, <1>4, SteadyCustody DEF Entered
<1>16. Balance'
  BY <1>9
<1>17. Warned'
  BY <1>1, <1>4 DEF Warned, Entered, Delivered, Channel
<1> QED
  BY <1>10, <1>11, <1>12, <1>13, <1>14, <1>15, <1>16, <1>17

(* A call pushed is no longer owed. *)
LEMMA PushInv ==
    ASSUME IInv, NEW c \in Calls, Push(c)
    PROVE  IInv'
<1> USE DEF IInv
<1>1. /\ at[c] = "push"
      /\ at' = [at EXCEPT ![c] = "watch"]
      /\ queue' = [queue EXCEPT ![where[c]] = Append(@, c)]
      /\ config' = config /\ long' = long /\ where' = where /\ watched' = watched /\ chan' = chan /\ serving' = serving
      /\ flight' = flight /\ binding' = binding /\ result' = result /\ cb' = cb /\ depth' = depth /\ settled' = settled
      /\ token' = token /\ answer' = answer /\ state' = state /\ doing' = doing /\ snap' = snap /\ picked' = picked
  BY DEF Push, setup, dispatchVars, threadVars, bookVars, answerVars, healthVars, actorVars
<1>4. \A d \in Calls : at'[d] = IF d = c THEN "watch" ELSE at[d]
  BY <1>1 DEF TypeOK, Routed
<1>2. Steady
  BY <1>1, DispatchSteady DEF Grip
<1>3. \A d \in Calls : Claimed(d)' <=> Claimed(d)
  BY <1>1, <1>2, SteadyClaims
<1>5. PICK v \in Workers : v = where[c]
  BY <1>1 DEF Routed
<1>6. \A u \in Workers : queue'[u] = IF u = v THEN Append(queue[u], c) ELSE queue[u]
  BY <1>1, <1>5 DEF TypeOK
<1>7. queue[v] \in Seq(Calls) /\ Once(queue[v]) /\ ~Has(queue[v], c)
  BY <1>1 DEF TypeOK, Entries, Entered
<1>8. /\ queue'[v] \in Seq(Calls) /\ Once(queue[v])' /\ Len(queue'[v]) = Len(queue[v]) + 1
      /\ \A y : Has(queue[v], y)' <=> Has(queue[v], y) \/ y = c
  <2>1. /\ Append(queue[v], c) \in Seq(Calls) /\ Once(Append(queue[v], c))
        /\ Len(Append(queue[v], c)) = Len(queue[v]) + 1
        /\ \A y : Has(Append(queue[v], c), y) <=> Has(queue[v], y) \/ y = c
    BY <1>7, AppendOnce
  <2> QED
    BY <1>6, <2>1
<1>9. \A u \in Workers : u # v => queue'[u] = queue[u]
  BY <1>6
<1>10. TypeOK'
  <2>1. queue' \in [Workers -> Seq(Calls)]
    BY <1>1, <1>8, <1>9 DEF TypeOK
  <2> QED
    BY <1>1, <2>1 DEF TypeOK
<1>11. Routed'
  BY <1>1, <1>4 DEF Routed
<1>12. Channel'
  BY <1>1, <1>4 DEF Channel, Entered, Delivered
<1>13. Called'
  BY <1>1, <1>4 DEF Called, Entered, Delivered, Channel
<1>14. Entries'
  <2>1. /\ \A u \in Workers : Once(queue[u])'
        /\ \A u \in Workers, d \in Calls : Has(queue[u], d)' <=> Has(queue[u], d) \/ (u = v /\ d = c)
    BY <1>8, <1>9 DEF Entries
  <2>2. c \notin settled /\ c \notin watched
    BY <1>1 DEF Entries, Called, Entered
  <2>3. \A u \in Workers, d \in Calls : Has(queue[u], d)' =>
           where'[d] = u /\ at'[d] \in Entered /\ (d \in settled' => cb'[d] = "drop")
    BY <1>1, <1>4, <1>5, <2>1, <2>2 DEF Entries, Entered
  <2>4. ASSUME NEW d \in Calls, d \in watched' \/ at'[d] = "watch"
        PROVE  d \in settled' \/ Has(queue[where[d]], d)' \/ Claimed(d)'
    <3>1. PICK u \in Workers : u = where[d] /\ u = where'[d]
      BY <1>1, <1>4, <2>4 DEF Called, Routed
    <3>2. d = c \/ d \in settled \/ Has(queue[u], d) \/ Claimed(d)
      BY <1>1, <1>4, <2>4, <3>1 DEF Entries
    <3>3. d \in settled' \/ Has(queue[u], d)' \/ Claimed(d)'
      BY <1>1, <1>3, <1>5, <2>1, <3>1, <3>2
    <3> QED
      BY <3>1, <3>3
  <2> QED
    BY <1>1, <1>4, <2>1, <2>3, <2>4 DEF Entries, Entered
<1>15. Custody'
  <2>1. \A d \in Calls : at[d] \in Entered => at'[d] \in Entered /\ where'[d] = where[d]
    BY <1>1, <1>4 DEF Entered
  <2>2. ASSUME NEW u, NEW d, Has(queue[u], d)', d \in Calls, at[d] \in Entered PROVE Has(queue[u], d)
    <3>1. CASE u \in Workers
      BY <1>1, <1>8, <1>9, <2>2, <3>1 DEF Entered
    <3>2. CASE u \notin Workers
      BY <1>1, <2>2, <3>2 DEF TypeOK
    <3> QED
      BY <3>1, <3>2
  <2> QED
    BY <1>1, <1>2, <2>1, <2>2, SteadyCustody
<1>16. Balance'
  <2>1. IsFiniteSet(Owed(v)) /\ Cardinality(Owed(v)) \in Nat
    <3>1. Owed(v) \in SUBSET Calls
      BY DEF Owed
    <3> QED
      BY <3>1, PoolAssumption, FS_Subset, FS_CardinalityType
  <2>2. Owed(v)' = Owed(v) \ {c} /\ c \in Owed(v) /\ \A u \in Workers : u # v => Owed(u)' = Owed(u)
    <3>1. ~Claimed(c) /\ cb[c] # "drop" /\ \A u \in Workers : ~Has(queue[u], c)
      BY <1>1 DEF Claimed, Claiming, Custody, Holds, Grip, Entered, Called, Entries
    <3> QED
      BY <1>1, <1>3, <1>4, <1>5, <1>8, <1>9, <3>1 DEF Owed
  <2>3. Cardinality(Owed(v)') = Cardinality(Owed(v)) - 1
    BY <2>1, <2>2, FS_RemoveElement
  <2>4. \A u \in Workers : Len(queue[u]) \in Nat
    BY DEF TypeOK
  <2>5. ASSUME NEW u \in Workers PROVE depth'[u] = Len(queue'[u]) + Cardinality(Owed(u)')
    <3>1. depth[u] = Len(queue[u]) + Cardinality(Owed(u))
      BY DEF Balance
    <3>2. CASE u = v
      BY <1>1, <1>8, <2>1, <2>3, <2>4, <3>1, <3>2
    <3>3. CASE u # v
      BY <1>1, <1>9, <2>2, <3>1, <3>3
    <3> QED
      BY <3>2, <3>3
  <2> QED
    BY <2>5 DEF Balance
<1>17. Warned'
  BY <1>1, <1>4 DEF Warned, Entered, Delivered, Channel
<1> QED
  BY <1>10, <1>11, <1>12, <1>13, <1>14, <1>15, <1>16, <1>17

(* The callback is registered, or runs at once. *)
LEMMA WatchInv ==
    ASSUME IInv, NEW c \in Calls, Watch(c)
    PROVE  IInv'
<1> USE DEF IInv
<1>1. /\ at[c] = "watch"
      /\ \/ result[c] # "none" /\ cb' = [cb EXCEPT ![c] = "swap"] /\ at' = [at EXCEPT ![c] = "callback"]
         \/ result[c] = "none" /\ cb' = cb /\ at' = [at EXCEPT ![c] = "done"]
      /\ watched' = watched \cup {c}
      /\ c \in watched'
      /\ config' = config /\ long' = long /\ where' = where /\ chan' = chan /\ serving' = serving /\ flight' = flight
      /\ binding' = binding /\ result' = result /\ queue' = queue /\ depth' = depth /\ settled' = settled /\ token' = token
      /\ answer' = answer /\ state' = state /\ doing' = doing /\ snap' = snap /\ picked' = picked
  BY DEF Watch, setup, dispatchVars, threadVars, bookVars, answerVars, healthVars, actorVars
<1>4. /\ \A d \in Calls : d # c => at'[d] = at[d] /\ cb'[d] = cb[d]
      /\ \/ at'[c] = "callback" /\ cb'[c] = "swap" /\ result[c] # "none"
         \/ at'[c] = "done" /\ cb'[c] = cb[c] /\ result[c] = "none"
  BY <1>1 DEF TypeOK, Routed
<1>2. Steady
  BY <1>1, DispatchSteady DEF Grip
<1>3. \A d \in Calls : Claimed(d)' <=> Claimed(d)
  BY <1>1, <1>2, SteadyClaims
<1>5. cb[c] = "no"
  <2>1. c \notin watched /\ cb[c] \in {"no", "swap", "drop", "complete", "end"}
    BY <1>1 DEF Called, TypeOK
  <2> QED
    BY <2>1 DEF Called
<1>10. TypeOK'
  <2>1. CASE result[c] = "none"
    BY <1>1, <2>1 DEF TypeOK
  <2>2. CASE result[c] # "none"
    BY <1>1, <2>2 DEF TypeOK
  <2> QED
    BY <2>1, <2>2
<1>11. Routed'
  BY <1>1, <1>4 DEF Routed
<1>12. Channel'
  <2>1. \A d \in Calls : at[d] \in Delivered => at'[d] \in Delivered
    BY <1>1, <1>4 DEF Entered, Delivered
  <2>2. \A w \in Workers : serving[w] # None => serving[w] \in Calls
    BY DEF TypeOK
  <2> QED
    BY <1>1, <2>1, <2>2 DEF Channel
<1>13. Called'
  BY <1>1, <1>4 DEF Called, Entered, Delivered, Channel
<1>14. Entries'
  BY <1>1, <1>3, <1>4 DEF Entries, Called, Entered
<1>15. Custody'
  BY <1>1, <1>2, <1>4, SteadyCustody DEF Entered
<1>16. Balance'
  <2>1. ASSUME NEW w \in Workers PROVE Owed(w)' = Owed(w)
    BY <1>1, <1>3, <1>4, <1>5 DEF Owed
  <2> QED
    BY <1>1, <2>1, SameBalance
<1>17. Warned'
  BY <1>1, <1>4 DEF Warned, Entered, Delivered, Channel
<1> QED
  BY <1>10, <1>11, <1>12, <1>13, <1>14, <1>15, <1>16, <1>17

(* A command shed at the head of the channel completes without starting. *)
LEMMA TakeCancelledInv ==
    ASSUME IInv, NEW w \in Workers, TakeCancelled(w)
    PROVE  IInv'
<1> USE DEF IInv
<1>0. PICK h \in Calls : /\ h = Head(chan[w]) /\ Has(chan[w], h)
                         /\ Tail(chan[w]) \in Seq(Calls) /\ Once(Tail(chan[w]))
                         /\ \A y : Has(Tail(chan[w]), y) <=> Has(chan[w], y) /\ y # h
  <2>1. chan[w] \in Seq(Calls) /\ chan[w] # <<>> /\ Once(chan[w])
    BY DEF TypeOK, Channel, TakeCancelled
  <2>2. /\ Head(chan[w]) \in Calls /\ Has(chan[w], Head(chan[w]))
        /\ Tail(chan[w]) \in Seq(Calls) /\ Once(Tail(chan[w]))
        /\ \A y : Has(Tail(chan[w]), y) <=> Has(chan[w], y) /\ y # Head(chan[w])
    BY <2>1, TailOnce
  <2> QED
    BY <2>2
<1>1. /\ serving[w] = None
      /\ chan' = [chan EXCEPT ![w] = Tail(@)]
      /\ result' = [result EXCEPT ![h] = "cancelled"]
      /\ cb' = IF h \in watched THEN [cb EXCEPT ![h] = "swap"] ELSE cb
      /\ serving' = [serving EXCEPT ![w] = IF h \in watched THEN h ELSE None]
      /\ config' = config /\ long' = long /\ at' = at /\ where' = where /\ watched' = watched /\ flight' = flight
      /\ binding' = binding /\ queue' = queue /\ depth' = depth /\ settled' = settled /\ token' = token /\ answer' = answer
      /\ state' = state /\ doing' = doing /\ snap' = snap /\ picked' = picked
  BY <1>0 DEF TakeCancelled, Complete, setup, dispatchVars, threadVars, bookVars, answerVars, healthVars, actorVars
<1>2. Steady
  BY <1>1, StillSteady
<1>3. \A d \in Calls : Claimed(d)' <=> Claimed(d)
  BY <1>1, <1>2, SteadyClaims
<1>5. /\ chan'[w] = Tail(chan[w]) /\ \A u \in Workers : u # w => chan'[u] = chan[u]
      /\ chan' \in [Workers -> Seq(Calls)]
  BY <1>0, <1>1 DEF TypeOK
<1>6. /\ \A u \in Workers : Once(chan[u])'
      /\ \A u \in Workers, d \in Calls : Has(chan[u], d)' <=> Has(chan[u], d) /\ d # h
  <2>1. \A y : Has(chan[w], y)' <=> Has(chan[w], y) /\ y # h
    BY <1>0, <1>5
  <2>2. \A u \in Workers : u # w => ~Has(chan[u], h)
    BY <1>0 DEF Channel
  <2>3. ASSUME NEW u \in Workers, NEW d \in Calls PROVE Has(chan[u], d)' <=> Has(chan[u], d) /\ d # h
    <3>1. CASE u = w
      BY <2>1, <3>1
    <3>2. CASE u # w
      BY <1>5, <2>2, <3>2
    <3> QED
      BY <3>1, <3>2
  <2>4. ASSUME NEW u \in Workers PROVE Once(chan[u])'
    <3>1. CASE u = w
      BY <1>0, <1>5, <3>1
    <3>2. CASE u # w
      BY <1>5, <3>2 DEF Channel
    <3> QED
      BY <3>1, <3>2
  <2> QED
    BY <2>3, <2>4
<1>7. where[h] = w /\ at[h] \in Delivered /\ result[h] = "none" /\ cb[h] = "no" /\ serving[w] = None /\ flight[w] = None
  <2>1. cb[h] \in {"no", "swap", "drop", "complete", "end"}
    BY DEF TypeOK
  <2> QED
    BY <1>0, <1>1, <2>1 DEF Channel, Called
<1>8. /\ result'[h] # "none" /\ cb'[h] \in {"no", "swap"} /\ (cb'[h] = "swap" => h \in watched)
      /\ (h \in watched => cb'[h] = "swap" /\ serving'[w] = h) /\ serving'[w] \in {h, None}
      /\ \A d \in Calls : d # h => result'[d] = result[d] /\ cb'[d] = cb[d]
      /\ \A u \in Workers : u # w => serving'[u] = serving[u]
  BY <1>1, <1>7 DEF TypeOK
<1>10. TypeOK'
  <2>1. /\ result' \in [Calls -> {"none", "ok", "cancelled"}]
        /\ cb' \in [Calls -> {"no", "swap", "drop", "complete", "end"}]
        /\ serving' \in [Workers -> Calls \cup {None}]
    BY <1>1 DEF TypeOK
  <2> QED
    BY <1>1, <1>5, <2>1 DEF TypeOK
<1>11. Routed'
  BY <1>1 DEF Routed
<1>12. Channel'
  <2>1. None \notin Calls
    BY PoolAssumption
  <2>2. ASSUME NEW u \in Workers, NEW d \in Calls, Has(chan[u], d)'
        PROVE  where'[d] = u /\ at'[d] \in Delivered /\ serving'[u] # d /\ result'[d] = "none"
    <3>1. Has(chan[u], d) /\ d # h
      BY <1>6, <2>2
    <3>2. where[d] = u /\ at[d] \in Delivered /\ serving[u] # d /\ result[d] = "none"
      BY <3>1 DEF Channel
    <3> QED
      BY <1>1, <1>8, <2>1, <3>1, <3>2
  <2>3. ASSUME NEW u \in Workers, serving'[u] # None
        PROVE  where'[serving'[u]] = u /\ at'[serving'[u]] \in Delivered
    BY <1>1, <1>7, <1>8, <2>3 DEF Channel
  <2>4. ASSUME NEW u \in Workers, flight'[u] # None
        PROVE  flight'[u] = serving'[u] /\ result'[flight'[u]] = "none"
    <3>1. u # w /\ flight'[u] = flight[u] /\ flight[u] \in Calls /\ flight[u] = serving[u] /\ result[flight[u]] = "none"
      BY <1>1, <1>7, <2>4 DEF Channel, TypeOK
    <3>2. flight[u] # h
      BY <1>7, <3>1, <2>1 DEF Channel
    <3> QED
      BY <1>8, <3>1, <3>2
  <2> QED
    BY <1>6, <2>2, <2>3, <2>4 DEF Channel
<1>13. Called'
  <2>1. None \notin Calls
    BY PoolAssumption
  <2>2. \A d \in Calls : result'[d] # "none" => at'[d] \in Delivered
    BY <1>1, <1>7, <1>8 DEF Called
  <2>3. \A d \in Calls : cb'[d] # "no" => d \in watched' /\ result'[d] # "none"
    BY <1>1, <1>7, <1>8 DEF Called
  <2>4. ASSUME NEW d \in Calls, cb'[d] \in {"swap", "drop", "complete"}, at'[d] # "callback"
        PROVE  serving'[where'[d]] = d
    <3>1. CASE d = h
      BY <1>1, <1>7, <1>8, <2>4, <3>1
    <3>2. CASE d # h
      <4>1. cb[d] = cb'[d] /\ at[d] # "callback"
        BY <1>1, <1>8, <2>4, <3>2
      <4>2. serving[where[d]] = d /\ d \in watched
        BY <2>4, <4>1 DEF Called
      <4>3. where[d] \in Workers
        BY <4>2 DEF Called, Routed
      <4>4. where[d] # w
        BY <1>7, <2>1, <4>2, <3>2
      <4> QED
        BY <1>1, <1>8, <4>2, <4>3, <4>4
    <3> QED
      BY <3>1, <3>2
  <2> QED
    BY <1>1, <2>2, <2>3, <2>4 DEF Called
<1>14. Entries'
  BY <1>1, <1>3, <1>7, <1>8 DEF Entries
<1>15. Custody'
  BY <1>1, <1>2, SteadyCustody
<1>16. Balance'
  <2>1. ASSUME NEW u \in Workers PROVE Owed(u)' = Owed(u)
    BY <1>1, <1>3, <1>7, <1>8 DEF Owed
  <2> QED
    BY <1>1, <2>1, SameBalance
<1>17. Warned'
  BY <1>1, <1>6 DEF Warned
<1> QED
  BY <1>10, <1>11, <1>12, <1>13, <1>14, <1>15, <1>16, <1>17

(* The thread takes the oldest command, past the token check. *)
LEMMA TakeInv ==
    ASSUME IInv, NEW w \in Workers, Take(w)
    PROVE  IInv'
<1> USE DEF IInv
<1>0. PICK h \in Calls : /\ h = Head(chan[w]) /\ Has(chan[w], h)
                         /\ Tail(chan[w]) \in Seq(Calls) /\ Once(Tail(chan[w]))
                         /\ \A y : Has(Tail(chan[w]), y) <=> Has(chan[w], y) /\ y # h
  <2>1. chan[w] \in Seq(Calls) /\ chan[w] # <<>> /\ Once(chan[w])
    BY DEF TypeOK, Channel, Take
  <2>2. /\ Head(chan[w]) \in Calls /\ Has(chan[w], Head(chan[w]))
        /\ Tail(chan[w]) \in Seq(Calls) /\ Once(Tail(chan[w]))
        /\ \A y : Has(Tail(chan[w]), y) <=> Has(chan[w], y) /\ y # Head(chan[w])
    BY <2>1, TailOnce
  <2> QED
    BY <2>2
<1>1. /\ serving[w] = None
      /\ chan' = [chan EXCEPT ![w] = Tail(@)]
      /\ serving' = [serving EXCEPT ![w] = h]
      /\ config' = config /\ long' = long /\ at' = at /\ where' = where /\ watched' = watched /\ flight' = flight
      /\ binding' = binding /\ result' = result /\ cb' = cb /\ queue' = queue /\ depth' = depth /\ settled' = settled
      /\ token' = token /\ answer' = answer /\ state' = state /\ doing' = doing /\ snap' = snap /\ picked' = picked
  BY <1>0 DEF Take, setup, dispatchVars, threadVars, bookVars, answerVars, healthVars, actorVars
<1>2. Steady
  BY <1>1, StillSteady
<1>3. \A d \in Calls : Claimed(d)' <=> Claimed(d)
  BY <1>1, <1>2, SteadyClaims
<1>5. /\ chan'[w] = Tail(chan[w]) /\ \A u \in Workers : u # w => chan'[u] = chan[u]
      /\ chan' \in [Workers -> Seq(Calls)]
  BY <1>0, <1>1 DEF TypeOK
<1>6. /\ \A u \in Workers : Once(chan[u])'
      /\ \A u \in Workers, d \in Calls : Has(chan[u], d)' <=> Has(chan[u], d) /\ d # h
  <2>1. \A y : Has(chan[w], y)' <=> Has(chan[w], y) /\ y # h
    BY <1>0, <1>5
  <2>2. \A u \in Workers : u # w => ~Has(chan[u], h)
    BY <1>0 DEF Channel
  <2>3. ASSUME NEW u \in Workers, NEW d \in Calls PROVE Has(chan[u], d)' <=> Has(chan[u], d) /\ d # h
    <3>1. CASE u = w
      BY <2>1, <3>1
    <3>2. CASE u # w
      BY <1>5, <2>2, <3>2
    <3> QED
      BY <3>1, <3>2
  <2>4. ASSUME NEW u \in Workers PROVE Once(chan[u])'
    <3>1. CASE u = w
      BY <1>0, <1>5, <3>1
    <3>2. CASE u # w
      BY <1>5, <3>2 DEF Channel
    <3> QED
      BY <3>1, <3>2
  <2> QED
    BY <2>3, <2>4
<1>7. where[h] = w /\ at[h] \in Delivered /\ result[h] = "none" /\ cb[h] = "no" /\ serving[w] = None /\ flight[w] = None
  <2>1. cb[h] \in {"no", "swap", "drop", "complete", "end"}
    BY DEF TypeOK
  <2> QED
    BY <1>0, <1>1, <2>1 DEF Channel, Called
<1>8. serving'[w] = h /\ \A u \in Workers : u # w => serving'[u] = serving[u]
  BY <1>1 DEF TypeOK
<1>10. TypeOK'
  <2>1. serving' \in [Workers -> Calls \cup {None}]
    BY <1>1 DEF TypeOK
  <2> QED
    BY <1>1, <1>5, <2>1 DEF TypeOK
<1>11. Routed'
  BY <1>1 DEF Routed
<1>12. Channel'
  BY <1>1, <1>6, <1>7, <1>8 DEF Channel
<1>13. Called'
  <2>1. None \notin Calls
    BY PoolAssumption
  <2>2. ASSUME NEW d \in Calls, cb'[d] \in {"swap", "drop", "complete"}, at'[d] # "callback"
        PROVE  serving'[where'[d]] = d
    <3>1. serving[where[d]] = d /\ d \in watched
      BY <1>1, <2>2 DEF Called
    <3>2. where[d] \in Workers
      BY <3>1 DEF Called, Routed
    <3>3. where[d] # w
      BY <1>7, <2>1, <3>1
    <3> QED
      BY <1>1, <1>8, <3>1, <3>2, <3>3
  <2> QED
    BY <1>1, <2>2 DEF Called
<1>14. Entries'
  BY <1>1, <1>3 DEF Entries
<1>15. Custody'
  BY <1>1, <1>2, SteadyCustody
<1>16. Balance'
  <2>1. ASSUME NEW x \in Workers PROVE Owed(x)' = Owed(x)
    BY <1>1, <1>3 DEF Owed
  <2> QED
    BY <1>1, <2>1, SameBalance
<1>17. Warned'
  BY <1>1, <1>6 DEF Warned
<1> QED
  BY <1>10, <1>11, <1>12, <1>13, <1>14, <1>15, <1>16, <1>17

(* The call is in flight. *)
LEMMA StartInv ==
    ASSUME IInv, NEW w \in Workers, Start(w)
    PROVE  IInv'
<1> USE DEF IInv
<1>1. /\ serving[w] # None
      /\ result[serving[w]] = "none"
      /\ flight' = [flight EXCEPT ![w] = serving[w]]
      /\ config' = config /\ long' = long /\ at' = at /\ where' = where /\ watched' = watched /\ chan' = chan
      /\ serving' = serving /\ binding' = binding /\ result' = result /\ cb' = cb /\ queue' = queue /\ depth' = depth
      /\ settled' = settled /\ token' = token /\ answer' = answer /\ state' = state /\ doing' = doing /\ snap' = snap
      /\ picked' = picked
  BY DEF Start, setup, dispatchVars, threadVars, bookVars, answerVars, healthVars, actorVars
<1>4. \A d \in Workers : flight'[d] = IF d = w THEN serving[w] ELSE flight[d]
  BY <1>1 DEF TypeOK, Routed
<1>2. Steady
  BY <1>1, StillSteady
<1>3. \A d \in Calls : Claimed(d)' <=> Claimed(d)
  BY <1>1, <1>2, SteadyClaims
<1>10. TypeOK'
  BY <1>1, <1>4 DEF TypeOK, Answers
<1>11. Routed'
  BY <1>1, <1>4 DEF Routed
<1>12. Channel'
  BY <1>1, <1>4 DEF Channel
<1>13. Called'
  BY <1>1, <1>4 DEF Called, Entered, Delivered, Channel
<1>14. Entries'
  BY <1>1, <1>3, <1>4 DEF Entries, Called, Entered
<1>15. Custody'
  BY <1>1, <1>2, SteadyCustody
<1>16. Balance'
  <2>1. ASSUME NEW x \in Workers PROVE Owed(x)' = Owed(x)
    BY <1>1, <1>3, <1>4 DEF Owed
  <2> QED
    BY <1>1, <2>1, SameBalance
<1>17. Warned'
  BY <1>1, <1>4 DEF Warned, Entered, Delivered, Channel
<1> QED
  BY <1>10, <1>11, <1>12, <1>13, <1>14, <1>15, <1>16, <1>17

(* The script enters a host binding. *)
LEMMA EnterBindingInv ==
    ASSUME IInv, NEW w \in Workers, EnterBinding(w)
    PROVE  IInv'
<1> USE DEF IInv
<1>1. /\ binding' = [binding EXCEPT ![flight[w]] = "inside"]
      /\ config' = config /\ long' = long /\ at' = at /\ where' = where /\ watched' = watched /\ chan' = chan
      /\ serving' = serving /\ flight' = flight /\ result' = result /\ cb' = cb /\ queue' = queue /\ depth' = depth
      /\ settled' = settled /\ token' = token /\ answer' = answer /\ state' = state /\ doing' = doing /\ snap' = snap
      /\ picked' = picked
  BY DEF EnterBinding, setup, dispatchVars, threadVars, bookVars, answerVars, healthVars, actorVars
<1>2. Steady
  BY <1>1, StillSteady
<1>3. \A d \in Calls : Claimed(d)' <=> Claimed(d)
  BY <1>1, <1>2, SteadyClaims
<1>10. TypeOK'
  BY <1>1 DEF TypeOK, Answers
<1>11. Routed'
  BY <1>1 DEF Routed
<1>12. Channel'
  BY <1>1 DEF Channel, Entered, Delivered
<1>13. Called'
  BY <1>1 DEF Called, Entered, Delivered, Channel
<1>14. Entries'
  BY <1>1, <1>3 DEF Entries, Called, Entered
<1>15. Custody'
  BY <1>1, <1>2, SteadyCustody
<1>16. Balance'
  <2>1. ASSUME NEW x \in Workers PROVE Owed(x)' = Owed(x)
    BY <1>1, <1>3 DEF Owed
  <2> QED
    BY <1>1, <2>1, SameBalance
<1>17. Warned'
  BY <1>1 DEF Warned, Entered, Delivered, Channel
<1> QED
  BY <1>10, <1>11, <1>12, <1>13, <1>14, <1>15, <1>16, <1>17

(* The binding returns. *)
LEMMA LeaveBindingInv ==
    ASSUME IInv, NEW w \in Workers, LeaveBinding(w)
    PROVE  IInv'
<1> USE DEF IInv
<1>1. /\ binding' = [binding EXCEPT ![serving[w]] = "after"]
      /\ config' = config /\ long' = long /\ at' = at /\ where' = where /\ watched' = watched /\ chan' = chan
      /\ serving' = serving /\ flight' = flight /\ result' = result /\ cb' = cb /\ queue' = queue /\ depth' = depth
      /\ settled' = settled /\ token' = token /\ answer' = answer /\ state' = state /\ doing' = doing /\ snap' = snap
      /\ picked' = picked
  BY DEF LeaveBinding, setup, dispatchVars, threadVars, bookVars, answerVars, healthVars, actorVars
<1>2. Steady
  BY <1>1, StillSteady
<1>3. \A d \in Calls : Claimed(d)' <=> Claimed(d)
  BY <1>1, <1>2, SteadyClaims
<1>10. TypeOK'
  BY <1>1 DEF TypeOK, Answers
<1>11. Routed'
  BY <1>1 DEF Routed
<1>12. Channel'
  BY <1>1 DEF Channel, Entered, Delivered
<1>13. Called'
  BY <1>1 DEF Called, Entered, Delivered, Channel
<1>14. Entries'
  BY <1>1, <1>3 DEF Entries, Called, Entered
<1>15. Custody'
  BY <1>1, <1>2, SteadyCustody
<1>16. Balance'
  <2>1. ASSUME NEW x \in Workers PROVE Owed(x)' = Owed(x)
    BY <1>1, <1>3 DEF Owed
  <2> QED
    BY <1>1, <2>1, SameBalance
<1>17. Warned'
  BY <1>1 DEF Warned, Entered, Delivered, Channel
<1> QED
  BY <1>10, <1>11, <1>12, <1>13, <1>14, <1>15, <1>16, <1>17

(* The script ends; the entry leaves in_flight before the result is delivered. *)
LEMMA FinishInv ==
    ASSUME IInv, NEW w \in Workers, Finish(w)
    PROVE  IInv'
<1> USE DEF IInv
<1>0. PICK h \in Calls : h = flight[w] /\ flight[w] # None
  BY DEF Finish, TypeOK
<1>1. /\ flight' = [flight EXCEPT ![w] = None]
      /\ \E r \in {"ok", "cancelled"} : result' = [result EXCEPT ![h] = r]
      /\ cb' = IF h \in watched THEN [cb EXCEPT ![h] = "swap"] ELSE cb
      /\ serving' = [serving EXCEPT ![w] = IF h \in watched THEN h ELSE None]
      /\ config' = config /\ long' = long /\ at' = at /\ where' = where /\ watched' = watched /\ chan' = chan
      /\ binding' = binding /\ queue' = queue /\ depth' = depth /\ settled' = settled /\ token' = token /\ answer' = answer
      /\ state' = state /\ doing' = doing /\ snap' = snap /\ picked' = picked
  BY <1>0 DEF Finish, Complete, setup, dispatchVars, threadVars, bookVars, answerVars, healthVars, actorVars
<1>2. Steady
  BY <1>1, StillSteady
<1>3. \A d \in Calls : Claimed(d)' <=> Claimed(d)
  BY <1>1, <1>2, SteadyClaims
<1>7. where[h] = w /\ at[h] \in Delivered /\ result[h] = "none" /\ cb[h] = "no" /\ serving[w] = h
  <2>1. cb[h] \in {"no", "swap", "drop", "complete", "end"}
    BY DEF TypeOK
  <2> QED
    BY <1>0, <1>1, <2>1 DEF Channel, Called
<1>8. /\ result'[h] # "none" /\ cb'[h] \in {"no", "swap"} /\ (cb'[h] = "swap" => h \in watched)
      /\ (h \in watched => cb'[h] = "swap" /\ serving'[w] = h) /\ serving'[w] \in {h, None}
      /\ \A d \in Calls : d # h => result'[d] = result[d] /\ cb'[d] = cb[d]
      /\ \A u \in Workers : u # w => serving'[u] = serving[u]
  BY <1>1, <1>7 DEF TypeOK
<1>10. TypeOK'
  <2>1. /\ result' \in [Calls -> {"none", "ok", "cancelled"}]
        /\ cb' \in [Calls -> {"no", "swap", "drop", "complete", "end"}]
        /\ serving' \in [Workers -> Calls \cup {None}]
    BY <1>1 DEF TypeOK
  <2>2. flight' \in [Workers -> Calls \cup {None}]
    BY <1>1 DEF TypeOK
  <2> QED
    BY <1>1, <2>1, <2>2 DEF TypeOK
<1>11. Routed'
  BY <1>1 DEF Routed
<1>12. Channel'
  <2>1. None \notin Calls
    BY PoolAssumption
  <2>2. ASSUME NEW u \in Workers, NEW d \in Calls, Has(chan[u], d)'
        PROVE  where'[d] = u /\ at'[d] \in Delivered /\ serving'[u] # d /\ result'[d] = "none"
    <3>1. Has(chan[u], d)
      BY <1>1, <2>2
    <3>2. where[d] = u /\ at[d] \in Delivered /\ serving[u] # d /\ result[d] = "none"
      BY <3>1 DEF Channel
    <3>3. d # h
      BY <1>7, <3>2
    <3> QED
      BY <1>1, <1>8, <2>1, <3>2, <3>3
  <2>3. ASSUME NEW u \in Workers, serving'[u] # None
        PROVE  where'[serving'[u]] = u /\ at'[serving'[u]] \in Delivered
    BY <1>1, <1>7, <1>8, <2>3 DEF Channel
  <2>4. ASSUME NEW u \in Workers, flight'[u] # None
        PROVE  flight'[u] = serving'[u] /\ result'[flight'[u]] = "none"
    <3>1. u # w /\ flight'[u] = flight[u] /\ flight[u] \in Calls /\ flight[u] = serving[u] /\ result[flight[u]] = "none"
      BY <1>1, <2>4 DEF Channel, TypeOK
    <3>2. flight[u] # h
      BY <1>7, <3>1, <2>1 DEF Channel
    <3> QED
      BY <1>8, <3>1, <3>2
  <2> QED
    BY <1>1, <2>2, <2>3, <2>4 DEF Channel
<1>13. Called'
  <2>1. None \notin Calls
    BY PoolAssumption
  <2>2. \A d \in Calls : result'[d] # "none" => at'[d] \in Delivered
    BY <1>1, <1>7, <1>8 DEF Called
  <2>3. \A d \in Calls : cb'[d] # "no" => d \in watched' /\ result'[d] # "none"
    BY <1>1, <1>7, <1>8 DEF Called
  <2>4. ASSUME NEW d \in Calls, cb'[d] \in {"swap", "drop", "complete"}, at'[d] # "callback"
        PROVE  serving'[where'[d]] = d
    <3>1. CASE d = h
      BY <1>1, <1>7, <1>8, <2>4, <3>1
    <3>2. CASE d # h
      <4>1. cb[d] = cb'[d] /\ at[d] # "callback"
        BY <1>1, <1>8, <2>4, <3>2
      <4>2. serving[where[d]] = d /\ d \in watched
        BY <2>4, <4>1 DEF Called
      <4>3. where[d] \in Workers
        BY <4>2 DEF Called, Routed
      <4>4. where[d] # w
        BY <1>7, <2>1, <4>2, <3>2
      <4> QED
        BY <1>1, <1>8, <4>2, <4>3, <4>4
    <3> QED
      BY <3>1, <3>2
  <2> QED
    BY <1>1, <2>2, <2>3, <2>4 DEF Called
<1>14. Entries'
  BY <1>1, <1>3, <1>7, <1>8 DEF Entries
<1>15. Custody'
  BY <1>1, <1>2, SteadyCustody
<1>16. Balance'
  <2>1. ASSUME NEW u \in Workers PROVE Owed(u)' = Owed(u)
    BY <1>1, <1>3, <1>7, <1>8 DEF Owed
  <2> QED
    BY <1>1, <2>1, SameBalance
<1>17. Warned'
  BY <1>1 DEF Warned
<1> QED
  BY <1>10, <1>11, <1>12, <1>13, <1>14, <1>15, <1>16, <1>17

(* The callback sets the flag; it gives the place back only if it was the first to. *)
LEMMA CallbackSwapInv ==
    ASSUME IInv, NEW c \in Calls, CallbackSwap(c)
    PROVE  IInv'
<1> USE DEF IInv
<1>1. /\ cb[c] = "swap"
      /\ settled' = settled \cup {c}
      /\ cb' = [cb EXCEPT ![c] = IF c \in settled THEN "complete" ELSE "drop"]
      /\ config' = config /\ long' = long /\ at' = at /\ where' = where /\ watched' = watched /\ chan' = chan
      /\ serving' = serving /\ flight' = flight /\ binding' = binding /\ result' = result /\ queue' = queue /\ depth' = depth
      /\ token' = token /\ answer' = answer /\ state' = state /\ doing' = doing /\ snap' = snap /\ picked' = picked
  BY DEF CallbackSwap, setup, dispatchVars, threadVars, bookVars, answerVars, healthVars, actorVars
<1>4. \A d \in Calls : cb'[d] = IF d = c THEN IF c \in settled THEN "complete" ELSE "drop" ELSE cb[d]
  BY <1>1 DEF TypeOK, Routed
<1>2. Steady
  BY <1>1, StillSteady
<1>3. \A d \in Calls : Claimed(d)' <=> Claimed(d) /\ d # c
  <2>1. \A d \in Calls : d # c => (Claimed(d)' <=> Claimed(d))
    BY <1>1, <1>2, SteadyClaims
  <2>2. ~Claimed(c)'
    BY <1>1 DEF Claimed, Claiming
  <2> QED
    BY <2>1, <2>2
<1>5. c \in watched /\ result[c] # "none" /\ at[c] \in {"callback", "done"} /\ at[c] \in Entered
  BY <1>1 DEF Called, Entered
<1>6. PICK v \in Workers : v = where[c]
  BY <1>5 DEF Routed
<1>10. TypeOK'
  BY <1>1, <1>4 DEF TypeOK, Answers
<1>11. Routed'
  BY <1>1, <1>4 DEF Routed
<1>12. Channel'
  BY <1>1, <1>4 DEF Channel, Entered, Delivered
<1>13. Called'
  BY <1>1, <1>4, <1>5 DEF Called
<1>14. Entries'
  BY <1>1, <1>3, <1>4, <1>5 DEF Entries
<1>15. Custody'
  BY <1>1, <1>2, SteadyCustody
<1>16. Balance'
  <2>1. c \in settled \/ Has(queue[v], c) \/ Claimed(c)
    BY <1>5, <1>6 DEF Entries
  <2>2. c \in settled => ~Claimed(c)
    BY DEF Claimed, Claiming
  <2>3. c \in Owed(v)' <=> c \in Owed(v)
    BY <1>1, <1>3, <1>4, <1>5, <1>6, <2>1, <2>2 DEF Owed
  <2>4. ASSUME NEW u \in Workers PROVE Owed(u)' = Owed(u)
    BY <1>1, <1>3, <1>4, <1>6, <2>3 DEF Owed
  <2> QED
    BY <1>1, <2>4, SameBalance
<1>17. Warned'
  BY <1>1, <1>4 DEF Warned, Entered, Delivered, Channel
<1> QED
  BY <1>10, <1>11, <1>12, <1>13, <1>14, <1>15, <1>16, <1>17

(* The callback gives the call's place back and drops its entry. *)
LEMMA CallbackDropInv ==
    ASSUME IInv, NEW c \in Calls, CallbackDrop(c)
    PROVE  IInv'
<1> USE DEF IInv
<1>1. /\ cb[c] = "drop"
      /\ depth' = [depth EXCEPT ![where[c]] = @ - 1]
      /\ queue' = [queue EXCEPT ![where[c]] = Without(@, c)]
      /\ cb' = [cb EXCEPT ![c] = "complete"]
      /\ config' = config /\ long' = long /\ at' = at /\ where' = where /\ watched' = watched /\ chan' = chan
      /\ serving' = serving /\ flight' = flight /\ binding' = binding /\ result' = result /\ settled' = settled /\ token' = token
      /\ answer' = answer /\ state' = state /\ doing' = doing /\ snap' = snap /\ picked' = picked
  BY DEF CallbackDrop, setup, dispatchVars, threadVars, bookVars, answerVars, healthVars, actorVars
<1>4. \A d \in Calls : cb'[d] = IF d = c THEN "complete" ELSE cb[d]
  BY <1>1 DEF TypeOK, Routed
<1>2. Steady
  BY <1>1, StillSteady
<1>3. \A d \in Calls : Claimed(d)' <=> Claimed(d)
  BY <1>1, <1>2, SteadyClaims
<1>5. c \in watched /\ result[c] # "none" /\ at[c] \in {"callback", "done"} /\ at[c] \in Entered
  BY <1>1 DEF Called, Entered
<1>6. PICK v \in Workers : v = where[c]
  BY <1>5 DEF Routed
<1>7. /\ queue'[v] \in Seq(Calls) /\ Once(queue[v])'
      /\ Len(queue'[v]) = IF Has(queue[v], c) THEN Len(queue[v]) - 1 ELSE Len(queue[v])
      /\ \A y : Has(queue[v], y)' <=> Has(queue[v], y) /\ y # c
      /\ \A u \in Workers : u # v => queue'[u] = queue[u]
  <2>1. queue[v] \in Seq(Calls) /\ Once(queue[v]) /\ queue'[v] = Without(queue[v], c)
        /\ \A u \in Workers : u # v => queue'[u] = queue[u]
    BY <1>1, <1>6 DEF TypeOK, Entries
  <2>2. /\ Without(queue[v], c) \in Seq(Calls) /\ Once(Without(queue[v], c))
        /\ Len(Without(queue[v], c)) = IF Has(queue[v], c) THEN Len(queue[v]) - 1 ELSE Len(queue[v])
        /\ \A y : Has(Without(queue[v], c), y) <=> Has(queue[v], y) /\ y # c
    BY <2>1, WithoutOnce
  <2> QED
    BY <2>1, <2>2
<1>8. \A u \in Workers, d \in Calls : Has(queue[u], d)' <=> Has(queue[u], d) /\ d # c
  <2>1. \A u \in Workers : u # v => ~Has(queue[u], c)
    BY <1>6 DEF Entries
  <2>2. ASSUME NEW u \in Workers, NEW d \in Calls PROVE Has(queue[u], d)' <=> Has(queue[u], d) /\ d # c
    <3>1. CASE u = v
      BY <1>7, <3>1
    <3>2. CASE u # v
      BY <1>7, <2>1, <3>2
    <3> QED
      BY <3>1, <3>2
  <2> QED
    BY <2>2
<1>9. \A u \in Workers : depth'[u] = IF u = v THEN depth[u] - 1 ELSE depth[u]
  BY <1>1, <1>6 DEF TypeOK
<1>20. IsFiniteSet(Owed(v)) /\ Cardinality(Owed(v)) \in Nat
  <2>1. Owed(v) \in SUBSET Calls
    BY DEF Owed
  <2> QED
    BY <2>1, PoolAssumption, FS_Subset, FS_CardinalityType
<1>21. Balance'
  <2>1. c \in settled /\ ~Claimed(c)
    BY <1>1 DEF Entries, Claimed, Claiming
  <2>2. Owed(v)' = Owed(v) \ {c} /\ \A u \in Workers : u # v => Owed(u)' = Owed(u)
    BY <1>1, <1>3, <1>4, <1>5, <1>6, <1>8, <2>1 DEF Owed, Entered
  <2>3. c \in Owed(v) <=> ~Has(queue[v], c)
    BY <1>1, <1>6 DEF Owed
  <2>4. Cardinality(Owed(v)') = IF Has(queue[v], c) THEN Cardinality(Owed(v)) ELSE Cardinality(Owed(v)) - 1
    BY <1>20, <2>2, <2>3, FS_RemoveElement
  <2>5. ASSUME NEW u \in Workers PROVE depth'[u] = Len(queue'[u]) + Cardinality(Owed(u)')
    <3>1. depth[u] = Len(queue[u]) + Cardinality(Owed(u)) /\ Len(queue[u]) \in Nat
      BY DEF Balance, TypeOK
    <3>2. CASE u = v
      BY <1>7, <1>9, <1>20, <2>4, <3>1, <3>2
    <3>3. CASE u # v
      BY <1>7, <1>9, <2>2, <3>1, <3>3
    <3> QED
      BY <3>2, <3>3
  <2> QED
    BY <2>5 DEF Balance
<1>10. TypeOK'
  <2>1. queue' \in [Workers -> Seq(Calls)]
    <3>1. \A u \in Workers : queue'[u] \in Seq(Calls)
      BY <1>1, <1>7 DEF TypeOK
    <3> QED
      BY <1>1, <3>1 DEF TypeOK
  <2>2. \A u \in Workers : depth'[u] \in 0..Cardinality(Calls)
    <3>1. \A u \in Workers : Once(queue[u])'
      BY <1>7 DEF Entries
    <3> QED
      BY <1>21, <2>1, <3>1, NewDepth
  <2>3. depth' \in [Workers -> 0..Cardinality(Calls)]
    BY <1>1, <2>2 DEF TypeOK
  <2> QED
    BY <1>1, <2>1, <2>3 DEF TypeOK
<1>11. Routed'
  BY <1>1, <1>4 DEF Routed
<1>12. Channel'
  BY <1>1, <1>4 DEF Channel, Entered, Delivered
<1>13. Called'
  BY <1>1, <1>4, <1>5 DEF Called
<1>14. Entries'
  <2>1. c \in settled
    BY <1>1 DEF Entries
  <2>2. \A u \in Workers : Once(queue[u])'
    BY <1>7 DEF Entries
  <2>3. ASSUME NEW d \in Calls, d \in watched' \/ at'[d] = "watch"
        PROVE  d \in settled' \/ Has(queue[where[d]], d)' \/ Claimed(d)'
    <3>1. PICK u \in Workers : u = where[d] /\ u = where'[d]
      BY <1>1, <2>3 DEF Called, Routed
    <3>2. d = c \/ d \in settled \/ Has(queue[u], d) \/ Claimed(d)
      BY <1>1, <2>3, <3>1 DEF Entries
    <3>3. d \in settled' \/ Has(queue[u], d)' \/ Claimed(d)'
      BY <1>1, <1>3, <1>8, <2>1, <3>1, <3>2
    <3> QED
      BY <3>1, <3>3
  <2> QED
    BY <1>1, <1>4, <1>8, <2>1, <2>2, <2>3 DEF Entries
<1>15. Custody'
  <2>1. ASSUME NEW u, NEW d, Has(queue[u], d)', d \in Calls PROVE Has(queue[u], d)
    <3>1. CASE u \in Workers
      BY <1>8, <2>1, <3>1
    <3>2. CASE u \notin Workers
      BY <1>1, <1>6, <2>1, <3>2 DEF TypeOK
    <3> QED
      BY <3>1, <3>2
  <2> QED
    BY <1>1, <1>2, <2>1, SteadyCustody
<1>16. Balance'
  BY <1>21
<1>17. Warned'
  BY <1>1, <1>4 DEF Warned, Entered, Delivered, Channel
<1> QED
  BY <1>10, <1>11, <1>12, <1>13, <1>14, <1>15, <1>16, <1>17

(* The caller has the call's result unless it was answered; the thread moves on. *)
LEMMA CallbackCompleteInv ==
    ASSUME IInv, NEW c \in Calls, CallbackComplete(c)
    PROVE  IInv'
<1> USE DEF IInv
<1>1. /\ cb[c] = "complete"
      /\ cb' = [cb EXCEPT ![c] = "end"]
      /\ answer' = IF answer[c] = "none" THEN [answer EXCEPT ![c] = result[c]] ELSE answer
      /\ \/ at[c] = "callback" /\ at' = [at EXCEPT ![c] = "done"] /\ serving' = serving
         \/ at[c] # "callback" /\ at' = at /\ serving' = [serving EXCEPT ![where[c]] = None]
      /\ cb'[c] = "end"
      /\ config' = config /\ long' = long /\ where' = where /\ watched' = watched /\ chan' = chan /\ flight' = flight
      /\ binding' = binding /\ result' = result /\ queue' = queue /\ depth' = depth /\ settled' = settled /\ token' = token
      /\ state' = state /\ doing' = doing /\ snap' = snap /\ picked' = picked
  BY DEF CallbackComplete, TypeOK, setup, dispatchVars, threadVars, bookVars, answerVars, healthVars, actorVars
<1>4. /\ \A d \in Calls : cb'[d] = IF d = c THEN "end" ELSE cb[d]
      /\ \A d \in Calls : answer'[d] = answer[d] \/ (d = c /\ answer'[d] = result[d])
  BY <1>1 DEF TypeOK, Routed
<1>2. Steady
  <2>1. CASE at[c] = "callback"
    BY <1>1, <2>1, DispatchSteady DEF Grip
  <2>2. CASE at[c] # "callback"
    BY <1>1, <2>2, StillSteady
  <2> QED
    BY <2>1, <2>2
<1>3. \A d \in Calls : Claimed(d)' <=> Claimed(d)
  BY <1>1, <1>2, SteadyClaims
<1>5. c \in watched /\ result[c] # "none" /\ at[c] \in {"callback", "done"} /\ at[c] \in Entered
  BY <1>1 DEF Called, Entered
<1>6. PICK v \in Workers : v = where[c]
  BY <1>5 DEF Routed
<1>7. at'[c] = "done" /\ \A d \in Calls : d # c => at'[d] = at[d]
  BY <1>1, <1>5 DEF TypeOK
<1>8. \A u \in Workers : serving'[u] = serving[u] \/ (u = v /\ serving[u] = c /\ serving'[u] = None)
  BY <1>1, <1>6 DEF TypeOK, Called
<1>9. \A d \in Calls : (at[d] \in Entered <=> at'[d] \in Entered) /\ (at[d] \in Delivered <=> at'[d] \in Delivered)
  BY <1>5, <1>7 DEF Entered, Delivered
<1>10. TypeOK'
  <2>1. /\ cb' \in [Calls -> {"no", "swap", "drop", "complete", "end"}]
        /\ answer' \in [Calls -> Answers]
    <3>1. result[c] \in {"none", "ok", "cancelled"} /\ {"none", "ok", "cancelled"} \subseteq Answers
      BY DEF TypeOK, Answers
    <3> QED
      BY <1>1, <3>1 DEF TypeOK
  <2>2. CASE at[c] = "callback"
    BY <1>1, <2>1, <2>2 DEF TypeOK
  <2>3. CASE at[c] # "callback"
    BY <1>1, <2>1, <2>3 DEF TypeOK
  <2> QED
    BY <2>2, <2>3
<1>11. Routed'
  BY <1>1, <1>5, <1>7 DEF Routed
<1>12. Channel'
  <2>1. None \notin Calls /\ \A u \in Workers : serving[u] \in Calls \cup {None} /\ flight[u] \in Calls \cup {None}
    BY PoolAssumption DEF TypeOK
  <2>2. \A u \in Workers : flight[u] # None => serving'[u] = serving[u]
    BY <1>5, <1>8, <2>1 DEF Channel
  <2> QED
    BY <1>1, <1>8, <1>9, <2>1, <2>2 DEF Channel
<1>13. Called'
  <2>1. watched' \subseteq {d \in Calls : at'[d] \in {"callback", "done"}}
    BY <1>1, <1>7 DEF Called
  <2>2. ASSUME NEW d \in Calls, cb'[d] \in {"swap", "drop", "complete"}, at'[d] # "callback"
        PROVE  serving'[where'[d]] = d
    <3>1. d # c /\ cb[d] \in {"swap", "drop", "complete"} /\ at[d] # "callback"
      BY <1>1, <1>4, <1>7, <2>2
    <3>2. serving[where[d]] = d /\ where[d] \in Workers
      BY <3>1 DEF Called, Routed
    <3> QED
      BY <1>1, <1>8, <3>1, <3>2
  <2> QED
    BY <1>1, <1>4, <1>5, <1>9, <2>1, <2>2 DEF Called
<1>14. Entries'
  <2>1. \A d \in Calls : at'[d] = "watch" => at[d] = "watch"
    BY <1>7
  <2>2. c \in settled
    BY <1>1 DEF Entries
  <2>3. ~Has(queue[v], c) /\ \A u \in Workers : ~Has(queue[u], c)
    BY <1>1, <2>2 DEF Entries
  <2> QED
    BY <1>1, <1>3, <1>4, <1>9, <2>1, <2>2, <2>3 DEF Entries
<1>15. Custody'
  BY <1>1, <1>2, <1>9, SteadyCustody
<1>16. Balance'
  <2>1. ASSUME NEW w \in Workers PROVE Owed(w)' = Owed(w)
    BY <1>1, <1>3, <1>4, <1>5, <1>7 DEF Owed
  <2> QED
    BY <1>1, <2>1, SameBalance
<1>17. Warned'
  <2>1. result[c] \notin {"shed", "wedged"}
    BY DEF TypeOK
  <2> QED
    BY <1>1, <1>4, <1>9, <1>5, <2>1 DEF Warned
<1> QED
  BY <1>10, <1>11, <1>12, <1>13, <1>14, <1>15, <1>16, <1>17

(* The supervisor reads a worker's health. *)
LEMMA SampleInv ==
    ASSUME IInv, NEW w \in Workers, Sample(w)
    PROVE  IInv'
<1> USE DEF IInv
<1>1. /\ doing["supervisor"] = Idle
      /\ \E x \in {"Healthy", "Unhealthy"} : doing' = [doing EXCEPT !["supervisor"] = [at |-> x, worker |-> w]]
      /\ config' = config /\ long' = long /\ at' = at /\ where' = where /\ watched' = watched /\ chan' = chan
      /\ serving' = serving /\ flight' = flight /\ binding' = binding /\ result' = result /\ cb' = cb /\ queue' = queue
      /\ depth' = depth /\ settled' = settled /\ token' = token /\ answer' = answer /\ state' = state /\ snap' = snap
      /\ picked' = picked
  BY DEF Sample, Verdicts, setup, dispatchVars, threadVars, bookVars, answerVars, healthVars, actorVars
<1>4. \A b \in Wardens : \/ doing'[b] = doing[b]
                         \/ doing[b].at = "idle" /\ doing'[b].at \in {"Healthy", "Unhealthy"} /\ doing'[b].worker = w
  <2>1. /\ doing \in [Wardens -> [at : {"idle", "Healthy", "Unhealthy", "snapshot", "pick", "claim", "cancel", "fail"},
                               worker : Workers \cup {None}]]
        /\ "supervisor" \in Wardens
    BY DEF TypeOK, Wardens
  <2>2. \A b \in Wardens : b # "supervisor" => doing'[b] = doing[b]
    BY <1>1, <2>1
  <2>3. /\ doing["supervisor"].at = "idle" /\ doing'["supervisor"].at \in {"Healthy", "Unhealthy"}
        /\ doing'["supervisor"].worker = w
    BY <1>1, <2>1 DEF Idle
  <2>4. ASSUME NEW b \in Wardens
        PROVE  \/ doing'[b] = doing[b]
               \/ doing[b].at = "idle" /\ doing'[b].at \in {"Healthy", "Unhealthy"} /\ doing'[b].worker = w
    <3>1. CASE b = "supervisor"
      BY <2>3, <3>1
    <3>2. CASE b # "supervisor"
      BY <2>2, <3>2
    <3> QED
      BY <3>1, <3>2
  <2> QED
    BY <2>4
<1>2. Steady
  <2>1. \A b \in Wardens : doing'[b] = doing[b] \/ (doing[b].at \notin Grip /\ doing'[b].at \notin Grip)
    BY <1>4 DEF Grip
  <2> QED
    BY <1>1, <2>1, WardenSteady
<1>3. \A d \in Calls : Claimed(d)' <=> Claimed(d)
  BY <1>1, <1>2, SteadyClaims
<1>10. TypeOK'
  <2>1. doing' \in [Wardens -> [at : {"idle", "Healthy", "Unhealthy", "snapshot", "pick", "claim", "cancel", "fail"},
                                worker : Workers \cup {None}]]
    BY <1>1 DEF TypeOK, Wardens, Idle
  <2> QED
    BY <1>1, <2>1 DEF TypeOK
<1>11. Routed'
  BY <1>1, <1>4 DEF Routed
<1>12. Channel'
  BY <1>1, <1>4 DEF Channel, Entered, Delivered
<1>13. Called'
  BY <1>1, <1>4 DEF Called, Entered, Delivered, Channel
<1>14. Entries'
  BY <1>1, <1>3, <1>4 DEF Entries, Called, Entered
<1>15. Custody'
  BY <1>1, <1>2, SteadyCustody
<1>16. Balance'
  <2>1. ASSUME NEW x \in Workers PROVE Owed(x)' = Owed(x)
    BY <1>1, <1>3, <1>4 DEF Owed
  <2> QED
    BY <1>1, <2>1, SameBalance
<1>17. Warned'
  BY <1>1, <1>4 DEF Warned, Entered, Delivered, Channel
<1> QED
  BY <1>10, <1>11, <1>12, <1>13, <1>14, <1>15, <1>16, <1>17

(* The supervisor writes its verdict. *)
LEMMA MarkInv ==
    ASSUME IInv, NEW w \in Workers, Mark(w)
    PROVE  IInv'
<1> USE DEF IInv
<1>1. /\ doing["supervisor"].worker = w
      /\ doing["supervisor"].at \in {"Healthy", "Unhealthy"}
      /\ state' = state \/ state' = [state EXCEPT ![w] = doing["supervisor"].at]
      /\ \/ doing' = [doing EXCEPT !["supervisor"] = [@ EXCEPT !.at = "snapshot"]]
         \/ doing' = [doing EXCEPT !["supervisor"] = Idle]
      /\ config' = config /\ long' = long /\ at' = at /\ where' = where /\ watched' = watched /\ chan' = chan
      /\ serving' = serving /\ flight' = flight /\ binding' = binding /\ result' = result /\ cb' = cb /\ queue' = queue
      /\ depth' = depth /\ settled' = settled /\ token' = token /\ answer' = answer /\ snap' = snap /\ picked' = picked
  BY DEF Mark, setup, dispatchVars, threadVars, bookVars, answerVars, healthVars, actorVars
<1>4. \A b \in Wardens : \/ doing'[b] = doing[b]
                         \/ doing[b].at \in {"Healthy", "Unhealthy"} /\ doing'[b].at = "idle"
                         \/ /\ doing[b].at \in {"Healthy", "Unhealthy"} /\ doing'[b].at = "snapshot"
                            /\ doing'[b].worker = doing[b].worker
  <2>1. /\ doing \in [Wardens -> [at : {"idle", "Healthy", "Unhealthy", "snapshot", "pick", "claim", "cancel", "fail"},
                               worker : Workers \cup {None}]]
        /\ "supervisor" \in Wardens
    BY DEF TypeOK, Wardens
  <2>2. \A b \in Wardens : b # "supervisor" => doing'[b] = doing[b]
    BY <1>1, <2>1
  <2>3. /\ doing["supervisor"].at \in {"Healthy", "Unhealthy"}
        /\ \/ doing'["supervisor"].at = "idle"
           \/ /\ doing'["supervisor"].at = "snapshot"
              /\ doing'["supervisor"].worker = doing["supervisor"].worker
    BY <1>1, <2>1 DEF Idle
  <2>4. ASSUME NEW b \in Wardens
        PROVE  \/ doing'[b] = doing[b]
               \/ doing[b].at \in {"Healthy", "Unhealthy"} /\ doing'[b].at = "idle"
               \/ /\ doing[b].at \in {"Healthy", "Unhealthy"} /\ doing'[b].at = "snapshot"
                  /\ doing'[b].worker = doing[b].worker
    <3>1. CASE b = "supervisor"
      BY <2>3, <3>1
    <3>2. CASE b # "supervisor"
      BY <2>2, <3>2
    <3> QED
      BY <3>1, <3>2
  <2> QED
    BY <2>4
<1>2. Steady
  <2>1. \A b \in Wardens : doing'[b] = doing[b] \/ (doing[b].at \notin Grip /\ doing'[b].at \notin Grip)
    BY <1>4 DEF Grip
  <2> QED
    BY <1>1, <2>1, WardenSteady
<1>3. \A d \in Calls : Claimed(d)' <=> Claimed(d)
  BY <1>1, <1>2, SteadyClaims
<1>10. TypeOK'
  <2>1. doing' \in [Wardens -> [at : {"idle", "Healthy", "Unhealthy", "snapshot", "pick", "claim", "cancel", "fail"},
                                worker : Workers \cup {None}]]
    <3>1. CASE doing' = [doing EXCEPT !["supervisor"] = Idle]
      BY <3>1 DEF TypeOK, Wardens, Idle
    <3>2. CASE doing' = [doing EXCEPT !["supervisor"] = [@ EXCEPT !.at = "snapshot"]]
      <4>1. "supervisor" \in Wardens
        BY DEF Wardens
      <4>2. [doing["supervisor"] EXCEPT !.at = "snapshot"]
               \in [at : {"idle", "Healthy", "Unhealthy", "snapshot", "pick", "claim", "cancel", "fail"},
                    worker : Workers \cup {None}]
        <5>1. ASSUME NEW r \in [at : {"idle", "Healthy", "Unhealthy", "snapshot", "pick", "claim", "cancel", "fail"},
                                worker : Workers \cup {None}]
              PROVE  [r EXCEPT !.at = "snapshot"]
                        \in [at : {"idle", "Healthy", "Unhealthy", "snapshot", "pick", "claim", "cancel", "fail"},
                             worker : Workers \cup {None}]
          OBVIOUS
        <5>2. doing["supervisor"] \in [at : {"idle", "Healthy", "Unhealthy", "snapshot", "pick", "claim", "cancel", "fail"},
                                       worker : Workers \cup {None}]
          BY <4>1 DEF TypeOK
        <5> QED
          BY <5>1, <5>2
      <4> QED
        BY <3>2, <4>1, <4>2 DEF TypeOK
    <3> QED
      BY <1>1, <3>1, <3>2
  <2>2. state' \in [Workers -> States]
    BY <1>1 DEF TypeOK, States
  <2> QED
    BY <1>1, <2>1, <2>2 DEF TypeOK
<1>11. Routed'
  BY <1>1, <1>4 DEF Routed
<1>12. Channel'
  BY <1>1, <1>4 DEF Channel, Entered, Delivered
<1>13. Called'
  BY <1>1, <1>4 DEF Called, Entered, Delivered, Channel
<1>14. Entries'
  BY <1>1, <1>3, <1>4 DEF Entries, Called, Entered
<1>15. Custody'
  BY <1>1, <1>2, SteadyCustody
<1>16. Balance'
  <2>1. ASSUME NEW x \in Workers PROVE Owed(x)' = Owed(x)
    BY <1>1, <1>3, <1>4 DEF Owed
  <2> QED
    BY <1>1, <2>1, SameBalance
<1>17. Warned'
  BY <1>1, <1>4 DEF Warned, Entered, Delivered, Channel
<1> QED
  BY <1>10, <1>11, <1>12, <1>13, <1>14, <1>15, <1>16, <1>17

(* The host retires a worker. *)
LEMMA RetireInv ==
    ASSUME IInv, NEW w \in Workers, Retire(w)
    PROVE  IInv'
<1> USE DEF IInv
<1>1. /\ doing["host"] = Idle
      /\ state' = [state EXCEPT ![w] = "Retired"]
      /\ doing' = [doing EXCEPT !["host"] = [at |-> "snapshot", worker |-> w]]
      /\ config' = config /\ long' = long /\ at' = at /\ where' = where /\ watched' = watched /\ chan' = chan
      /\ serving' = serving /\ flight' = flight /\ binding' = binding /\ result' = result /\ cb' = cb /\ queue' = queue
      /\ depth' = depth /\ settled' = settled /\ token' = token /\ answer' = answer /\ snap' = snap /\ picked' = picked
  BY DEF Retire, setup, dispatchVars, threadVars, bookVars, answerVars, healthVars, actorVars
<1>4. \A b \in Wardens : \/ doing'[b] = doing[b]
                         \/ doing[b].at = "idle" /\ doing'[b].at = "snapshot" /\ doing'[b].worker = w
  <2>1. /\ doing \in [Wardens -> [at : {"idle", "Healthy", "Unhealthy", "snapshot", "pick", "claim", "cancel", "fail"},
                               worker : Workers \cup {None}]]
        /\ "host" \in Wardens
    BY DEF TypeOK, Wardens
  <2>2. \A b \in Wardens : b # "host" => doing'[b] = doing[b]
    BY <1>1, <2>1
  <2>3. /\ doing["host"].at = "idle" /\ doing'["host"].at = "snapshot"
        /\ doing'["host"].worker = w
    BY <1>1, <2>1 DEF Idle
  <2>4. ASSUME NEW b \in Wardens
        PROVE  \/ doing'[b] = doing[b]
               \/ doing[b].at = "idle" /\ doing'[b].at = "snapshot" /\ doing'[b].worker = w
    <3>1. CASE b = "host"
      BY <2>3, <3>1
    <3>2. CASE b # "host"
      BY <2>2, <3>2
    <3> QED
      BY <3>1, <3>2
  <2> QED
    BY <2>4
<1>2. Steady
  <2>1. \A b \in Wardens : doing'[b] = doing[b] \/ (doing[b].at \notin Grip /\ doing'[b].at \notin Grip)
    BY <1>4 DEF Grip
  <2> QED
    BY <1>1, <2>1, WardenSteady
<1>3. \A d \in Calls : Claimed(d)' <=> Claimed(d)
  BY <1>1, <1>2, SteadyClaims
<1>10. TypeOK'
  <2>1. doing' \in [Wardens -> [at : {"idle", "Healthy", "Unhealthy", "snapshot", "pick", "claim", "cancel", "fail"},
                                worker : Workers \cup {None}]]
    BY <1>1 DEF TypeOK, Wardens, Idle
  <2>2. state' \in [Workers -> States]
    BY <1>1 DEF TypeOK, States
  <2> QED
    BY <1>1, <2>1, <2>2 DEF TypeOK
<1>11. Routed'
  BY <1>1, <1>4 DEF Routed
<1>12. Channel'
  BY <1>1, <1>4 DEF Channel, Entered, Delivered
<1>13. Called'
  BY <1>1, <1>4 DEF Called, Entered, Delivered, Channel
<1>14. Entries'
  BY <1>1, <1>3, <1>4 DEF Entries, Called, Entered
<1>15. Custody'
  BY <1>1, <1>2, SteadyCustody
<1>16. Balance'
  <2>1. ASSUME NEW x \in Workers PROVE Owed(x)' = Owed(x)
    BY <1>1, <1>3, <1>4 DEF Owed
  <2> QED
    BY <1>1, <2>1, SameBalance
<1>17. Warned'
  BY <1>1, <1>4 DEF Warned, Entered, Delivered, Channel
<1> QED
  BY <1>10, <1>11, <1>12, <1>13, <1>14, <1>15, <1>16, <1>17

(* An answering thread notes what is in flight. *)
LEMMA SnapshotInv ==
    ASSUME IInv, NEW a \in Actors, Snapshot(a)
    PROVE  IInv'
<1> USE DEF IInv
<1>1. /\ Step(a) = "snapshot"
      /\ Goto(a, "pick")
      /\ snap' = [snap EXCEPT ![a] = flight[Ward(a)]]
      /\ config' = config /\ long' = long /\ where' = where /\ watched' = watched /\ chan' = chan /\ serving' = serving
      /\ flight' = flight /\ binding' = binding /\ result' = result /\ cb' = cb /\ queue' = queue /\ depth' = depth
      /\ settled' = settled /\ token' = token /\ answer' = answer /\ state' = state /\ picked' = picked
  BY DEF Snapshot, setup, dispatchVars, threadVars, bookVars, answerVars, healthVars, actorVars
<1>2. /\ Step(a)' = "pick" /\ ("pick" # "idle" => Ward(a)' = Ward(a)) /\ Ward(a) \in Workers
      /\ \A b \in Actors : b # a => Step(b)' = Step(b) /\ Ward(b)' = Ward(b)
      /\ \A d \in Calls : \/ at'[d] = at[d]
                          \/ at[d] \notin Delivered \cup {"new"} /\ at'[d] \notin Delivered \cup {"new"}
      /\ at' \in [Calls -> {"new", "check", "snapshot", "pick", "claim", "cancel", "fail", "send",
                            "count", "push", "watch", "callback", "done"}]
      /\ doing' \in [Wardens -> [at : {"idle", "Healthy", "Unhealthy",
                                       "snapshot", "pick", "claim", "cancel", "fail"},
                                 worker : Workers \cup {None}]]
      /\ Routed'
  BY <1>1, GotoMoves
<1>3. /\ \A d \in Calls : at'[d] \in Delivered <=> at[d] \in Delivered
      /\ \A d \in Calls : at'[d] \in Entered <=> at[d] \in Entered
      /\ \A d \in Calls : at'[d] \in Delivered => at'[d] = at[d]
  BY <1>2 DEF Delivered, Entered
<1>4. \A d \in Calls : Claimed(d)' <=> Claimed(d)
  BY <1>1, <1>2 DEF Claimed, Claiming
<1>5. Steady
  BY <1>1, <1>2 DEF Steady, Keeps, Grip
<1>10. TypeOK'
  <2>1. flight[Ward(a)] \in Calls \cup {None}
    BY <1>2 DEF TypeOK
  <2> QED
    BY <1>1, <1>2, <2>1 DEF TypeOK
<1>11. Routed'
  BY <1>2
<1>12. Channel'
  <2>1. \A u \in Workers : serving[u] # None => serving[u] \in Calls
    BY DEF TypeOK
  <2> QED
    BY <1>1, <1>3, <2>1 DEF Channel
<1>13. Called'
  <2>1. watched' \subseteq {d \in Calls : at'[d] \in {"callback", "done"}}
    BY <1>1, <1>3 DEF Called, Delivered, Entered
  <2>2. \A d \in Calls : at'[d] = "callback" <=> at[d] = "callback"
    BY <1>2 DEF Delivered, Entered
  <2> QED
    BY <1>1, <1>3, <2>1, <2>2 DEF Called
<1>14. Entries'
  <2>1. \A d \in Calls : at'[d] = "watch" <=> at[d] = "watch"
    BY <1>2 DEF Delivered, Entered
  <2> QED
    BY <1>1, <1>3, <1>4, <2>1 DEF Entries
<1>15. Custody'
  BY <1>1, <1>2, <1>3, <1>5, SteadyCustody
<1>16. Balance'
  <2>1. \A d \in Calls : at'[d] = "push" <=> at[d] = "push"
    BY <1>2 DEF Delivered, Entered
  <2>2. ASSUME NEW u \in Workers PROVE Owed(u)' = Owed(u)
    BY <1>1, <1>4, <2>1 DEF Owed
  <2> QED
    BY <1>1, <2>2, SameBalance
<1>17. Warned'
  BY <1>1, <1>3 DEF Warned
<1> QED
  BY <1>10, <1>11, <1>12, <1>13, <1>14, <1>15, <1>16, <1>17

(* An answering thread finds nothing more to answer. *)
LEMMA PickNoneInv ==
    ASSUME IInv, NEW a \in Actors, PickNone(a)
    PROVE  IInv'
<1> USE DEF IInv
<1>1. /\ Step(a) = "pick"
      /\ Goto(a, (IF a \in Calls THEN "send" ELSE "idle"))
      /\ snap' = [snap EXCEPT ![a] = None]
      /\ config' = config /\ long' = long /\ where' = where /\ watched' = watched /\ chan' = chan /\ serving' = serving
      /\ flight' = flight /\ binding' = binding /\ result' = result /\ cb' = cb /\ queue' = queue /\ depth' = depth
      /\ settled' = settled /\ token' = token /\ answer' = answer /\ state' = state /\ picked' = picked
  BY DEF PickNone, setup, dispatchVars, threadVars, bookVars, answerVars, healthVars, actorVars
<1>2. /\ Step(a)' = (IF a \in Calls THEN "send" ELSE "idle") /\ ((IF a \in Calls THEN "send" ELSE "idle") # "idle" => Ward(a)' = Ward(a)) /\ Ward(a) \in Workers
      /\ \A b \in Actors : b # a => Step(b)' = Step(b) /\ Ward(b)' = Ward(b)
      /\ \A d \in Calls : \/ at'[d] = at[d]
                          \/ at[d] \notin Delivered \cup {"new"} /\ at'[d] \notin Delivered \cup {"new"}
      /\ at' \in [Calls -> {"new", "check", "snapshot", "pick", "claim", "cancel", "fail", "send",
                            "count", "push", "watch", "callback", "done"}]
      /\ doing' \in [Wardens -> [at : {"idle", "Healthy", "Unhealthy",
                                       "snapshot", "pick", "claim", "cancel", "fail"},
                                 worker : Workers \cup {None}]]
      /\ Routed'
  BY <1>1, GotoMoves
<1>3. /\ \A d \in Calls : at'[d] \in Delivered <=> at[d] \in Delivered
      /\ \A d \in Calls : at'[d] \in Entered <=> at[d] \in Entered
      /\ \A d \in Calls : at'[d] \in Delivered => at'[d] = at[d]
  BY <1>2 DEF Delivered, Entered
<1>4. \A d \in Calls : Claimed(d)' <=> Claimed(d)
  BY <1>1, <1>2 DEF Claimed, Claiming
<1>5. Steady
  BY <1>1, <1>2 DEF Steady, Keeps, Grip
<1>10. TypeOK'
  BY <1>1, <1>2 DEF TypeOK
<1>11. Routed'
  BY <1>2
<1>12. Channel'
  <2>1. \A u \in Workers : serving[u] # None => serving[u] \in Calls
    BY DEF TypeOK
  <2> QED
    BY <1>1, <1>3, <2>1 DEF Channel
<1>13. Called'
  <2>1. watched' \subseteq {d \in Calls : at'[d] \in {"callback", "done"}}
    BY <1>1, <1>3 DEF Called, Delivered, Entered
  <2>2. \A d \in Calls : at'[d] = "callback" <=> at[d] = "callback"
    BY <1>2 DEF Delivered, Entered
  <2> QED
    BY <1>1, <1>3, <2>1, <2>2 DEF Called
<1>14. Entries'
  <2>1. \A d \in Calls : at'[d] = "watch" <=> at[d] = "watch"
    BY <1>2 DEF Delivered, Entered
  <2> QED
    BY <1>1, <1>3, <1>4, <2>1 DEF Entries
<1>15. Custody'
  BY <1>1, <1>2, <1>3, <1>5, SteadyCustody
<1>16. Balance'
  <2>1. \A d \in Calls : at'[d] = "push" <=> at[d] = "push"
    BY <1>2 DEF Delivered, Entered
  <2>2. ASSUME NEW u \in Workers PROVE Owed(u)' = Owed(u)
    BY <1>1, <1>4, <2>1 DEF Owed
  <2> QED
    BY <1>1, <2>2, SameBalance
<1>17. Warned'
  BY <1>1, <1>3 DEF Warned
<1> QED
  BY <1>10, <1>11, <1>12, <1>13, <1>14, <1>15, <1>16, <1>17

(* The token is cancelled before the caller hears. *)
LEMMA CancelQueuedInv ==
    ASSUME IInv, NEW a \in Actors, CancelQueued(a)
    PROVE  IInv'
<1> USE DEF IInv
<1>1. /\ Step(a) = "cancel"
      /\ Goto(a, "fail")
      /\ token' = token \cup {picked[a]}
      /\ config' = config /\ long' = long /\ where' = where /\ watched' = watched /\ chan' = chan /\ serving' = serving
      /\ flight' = flight /\ binding' = binding /\ result' = result /\ cb' = cb /\ queue' = queue /\ depth' = depth
      /\ settled' = settled /\ answer' = answer /\ state' = state /\ snap' = snap /\ picked' = picked
  BY DEF CancelQueued, setup, dispatchVars, threadVars, bookVars, answerVars, healthVars, actorVars
<1>2. /\ Step(a)' = "fail" /\ ("fail" # "idle" => Ward(a)' = Ward(a)) /\ Ward(a) \in Workers
      /\ \A b \in Actors : b # a => Step(b)' = Step(b) /\ Ward(b)' = Ward(b)
      /\ \A d \in Calls : \/ at'[d] = at[d]
                          \/ at[d] \notin Delivered \cup {"new"} /\ at'[d] \notin Delivered \cup {"new"}
      /\ at' \in [Calls -> {"new", "check", "snapshot", "pick", "claim", "cancel", "fail", "send",
                            "count", "push", "watch", "callback", "done"}]
      /\ doing' \in [Wardens -> [at : {"idle", "Healthy", "Unhealthy",
                                       "snapshot", "pick", "claim", "cancel", "fail"},
                                 worker : Workers \cup {None}]]
      /\ Routed'
  BY <1>1, GotoMoves
<1>3. /\ \A d \in Calls : at'[d] \in Delivered <=> at[d] \in Delivered
      /\ \A d \in Calls : at'[d] \in Entered <=> at[d] \in Entered
      /\ \A d \in Calls : at'[d] \in Delivered => at'[d] = at[d]
  BY <1>2 DEF Delivered, Entered
<1>4. \A d \in Calls : Claimed(d)' <=> Claimed(d)
  BY <1>1, <1>2 DEF Claimed, Claiming
<1>10. TypeOK'
  <2>1. picked[a] \in Calls
    BY <1>1 DEF Custody, Grip
  <2> QED
    BY <1>1, <1>2, <2>1 DEF TypeOK
<1>11. Routed'
  BY <1>2
<1>12. Channel'
  <2>1. \A u \in Workers : serving[u] # None => serving[u] \in Calls
    BY DEF TypeOK
  <2> QED
    BY <1>1, <1>3, <2>1 DEF Channel
<1>13. Called'
  <2>1. watched' \subseteq {d \in Calls : at'[d] \in {"callback", "done"}}
    BY <1>1, <1>3 DEF Called, Delivered, Entered
  <2>2. \A d \in Calls : at'[d] = "callback" <=> at[d] = "callback"
    BY <1>2 DEF Delivered, Entered
  <2> QED
    BY <1>1, <1>3, <2>1, <2>2 DEF Called
<1>14. Entries'
  <2>1. \A d \in Calls : at'[d] = "watch" <=> at[d] = "watch"
    BY <1>2 DEF Delivered, Entered
  <2> QED
    BY <1>1, <1>3, <1>4, <2>1 DEF Entries
<1>15. Custody'
  <2>1. ASSUME NEW b \in Actors, NEW d \in Calls, Holds(b, d)'
        PROVE  /\ where'[d] = Ward(b)' /\ at'[d] \in Entered /\ ~Has(queue[Ward(b)], d)'
               /\ Step(b)' \in {"cancel", "fail"} => d \in settled'
               /\ Step(b)' = "fail" => d \in token'
    <3>1. Holds(b, d) /\ Ward(b)' = Ward(b)
      BY <1>1, <1>2, <2>1 DEF Holds, Grip
    <3>2. /\ where[d] = Ward(b) /\ at[d] \in Entered /\ ~Has(queue[Ward(b)], d)
          /\ Step(b) \in {"cancel", "fail"} => d \in settled
          /\ Step(b) = "fail" => d \in token
      BY <3>1 DEF Custody
    <3>3. ~Has(queue[Ward(b)], d)'
      BY <1>1, <3>1, <3>2
    <3>4. CASE b = a
      BY <1>1, <1>2, <1>3, <2>1, <3>1, <3>2, <3>3, <3>4 DEF Holds
    <3>5. CASE b # a
      BY <1>1, <1>2, <1>3, <2>1, <3>1, <3>2, <3>3, <3>5
    <3> QED
      BY <3>4, <3>5
  <2> QED
    BY <1>1, <1>2, <2>1 DEF Custody, Grip
<1>16. Balance'
  <2>1. \A d \in Calls : at'[d] = "push" <=> at[d] = "push"
    BY <1>2 DEF Delivered, Entered
  <2>2. ASSUME NEW u \in Workers PROVE Owed(u)' = Owed(u)
    BY <1>1, <1>4, <2>1 DEF Owed
  <2> QED
    BY <1>1, <2>2, SameBalance
<1>17. Warned'
  BY <1>1, <1>3 DEF Warned
<1> QED
  BY <1>10, <1>11, <1>12, <1>13, <1>14, <1>15, <1>16, <1>17

(* The caller hears, unless it was answered. *)
LEMMA FailInv ==
    ASSUME IInv, NEW a \in Actors, Fail(a)
    PROVE  IInv'
<1> USE DEF IInv
<1>0. PICK c \in Calls : c = picked[a]
  BY DEF Fail, Custody, Grip
<1>1. /\ Step(a) = "fail"
      /\ Goto(a, AfterOne(a))
      /\ answer' = IF answer[c] # "none" THEN answer ELSE [answer EXCEPT ![c] = IF a \in Calls THEN "shed" ELSE "wedged"]
      /\ picked' = [picked EXCEPT ![a] = None]
      /\ snap' = snap \/ snap' = [snap EXCEPT ![a] = None]
      /\ config' = config /\ long' = long /\ where' = where /\ watched' = watched /\ chan' = chan /\ serving' = serving
      /\ flight' = flight /\ binding' = binding /\ result' = result /\ cb' = cb /\ queue' = queue /\ depth' = depth
      /\ settled' = settled /\ token' = token /\ state' = state
  BY <1>0 DEF Fail, setup, dispatchVars, threadVars, bookVars, answerVars, healthVars, actorVars
<1>2. /\ Step(a)' = AfterOne(a) /\ (AfterOne(a) # "idle" => Ward(a)' = Ward(a)) /\ Ward(a) \in Workers
      /\ \A b \in Actors : b # a => Step(b)' = Step(b) /\ Ward(b)' = Ward(b)
      /\ \A d \in Calls : \/ at'[d] = at[d]
                          \/ at[d] \notin Delivered \cup {"new"} /\ at'[d] \notin Delivered \cup {"new"}
      /\ at' \in [Calls -> {"new", "check", "snapshot", "pick", "claim", "cancel", "fail", "send",
                            "count", "push", "watch", "callback", "done"}]
      /\ doing' \in [Wardens -> [at : {"idle", "Healthy", "Unhealthy",
                                       "snapshot", "pick", "claim", "cancel", "fail"},
                                 worker : Workers \cup {None}]]
      /\ Routed'
  BY <1>1, GotoMoves DEF AfterOne
<1>3. /\ \A d \in Calls : at'[d] \in Delivered <=> at[d] \in Delivered
      /\ \A d \in Calls : at'[d] \in Entered <=> at[d] \in Entered
      /\ \A d \in Calls : at'[d] \in Delivered => at'[d] = at[d]
  BY <1>2 DEF Delivered, Entered
<1>4. \A d \in Calls : Claimed(d)' <=> Claimed(d)
  <2>1. ASSUME NEW d \in Calls, NEW b \in Actors PROVE Claiming(b, d)' <=> Claiming(b, d)
    BY <1>1, <1>2 DEF Claiming, TypeOK, AfterOne
  <2> QED
    BY <2>1 DEF Claimed
<1>10. TypeOK'
  <2>1. snap' \in [Actors -> Calls \cup {None}] /\ picked' \in [Actors -> Calls \cup {None}]
    BY <1>1 DEF TypeOK
  <2>2. answer' \in [Calls -> Answers]
    BY <1>1 DEF TypeOK, Answers
  <2> QED
    BY <1>1, <1>2, <2>1, <2>2 DEF TypeOK
<1>11. Routed'
  BY <1>2
<1>12. Channel'
  <2>1. \A u \in Workers : serving[u] # None => serving[u] \in Calls
    BY DEF TypeOK
  <2> QED
    BY <1>1, <1>3, <2>1 DEF Channel
<1>13. Called'
  <2>1. watched' \subseteq {d \in Calls : at'[d] \in {"callback", "done"}}
    BY <1>1, <1>3 DEF Called, Delivered, Entered
  <2>2. \A d \in Calls : at'[d] = "callback" <=> at[d] = "callback"
    BY <1>2 DEF Delivered, Entered
  <2> QED
    BY <1>1, <1>3, <2>1, <2>2 DEF Called
<1>14. Entries'
  <2>1. \A d \in Calls : at'[d] = "watch" <=> at[d] = "watch"
    BY <1>2 DEF Delivered, Entered
  <2> QED
    BY <1>1, <1>3, <1>4, <2>1 DEF Entries
<1>15. Custody'
  <2>1. ASSUME NEW b \in Actors, NEW d \in Calls, Holds(b, d)'
        PROVE  /\ where'[d] = Ward(b)' /\ at'[d] \in Entered /\ ~Has(queue[Ward(b)], d)'
               /\ Step(b)' \in {"cancel", "fail"} => d \in settled'
               /\ Step(b)' = "fail" => d \in token'
    <3>1. b # a
      BY <1>1, <1>2, <2>1 DEF Holds, Grip, AfterOne
    <3>2. Holds(b, d) /\ Ward(b)' = Ward(b) /\ Step(b)' = Step(b)
      BY <1>1, <1>2, <2>1, <3>1 DEF Holds, TypeOK
    <3>3. /\ where[d] = Ward(b) /\ at[d] \in Entered /\ ~Has(queue[Ward(b)], d)
          /\ Step(b) \in {"cancel", "fail"} => d \in settled
          /\ Step(b) = "fail" => d \in token
      BY <3>2 DEF Custody
    <3>4. ~Has(queue[Ward(b)], d)'
      BY <1>1, <3>2, <3>3
    <3> QED
      BY <1>1, <1>3, <3>2, <3>3, <3>4
  <2>2. ASSUME NEW b \in Actors, Step(b)' \in Grip PROVE picked'[b] \in Calls
    <3>1. b # a
      BY <1>1, <1>2, <2>2 DEF Grip, AfterOne
    <3> QED
      BY <1>1, <1>2, <2>2, <3>1 DEF Custody, TypeOK
  <2> QED
    BY <2>1, <2>2 DEF Custody
<1>16. Balance'
  <2>1. \A d \in Calls : at'[d] = "push" <=> at[d] = "push"
    BY <1>2 DEF Delivered, Entered
  <2>2. ASSUME NEW u \in Workers PROVE Owed(u)' = Owed(u)
    BY <1>1, <1>4, <2>1 DEF Owed
  <2> QED
    BY <1>1, <2>2, SameBalance
<1>17. Warned'
  <2>1. c \in token /\ at[c] \in Entered
    BY <1>0, <1>1 DEF Custody, Holds, Grip
  <2>2. \A d \in Calls : answer'[d] = answer[d] \/ d = c
    BY <1>1 DEF TypeOK
  <2> QED
    BY <1>1, <1>3, <2>1, <2>2 DEF Warned
<1> QED
  BY <1>10, <1>11, <1>12, <1>13, <1>14, <1>15, <1>16, <1>17

(* The call was answered already: the answering thread looks for another. *)
LEMMA ClaimLateInv ==
    ASSUME IInv, NEW a \in Actors, Claim(a), picked[a] \in settled
    PROVE  IInv'
<1> USE DEF IInv
<1>0. PICK c \in Calls : c = picked[a]
  BY DEF Claim, Custody, Grip
<1>1. /\ Step(a) = "claim"
      /\ Goto(a, "pick")
      /\ settled' = settled
      /\ picked' = [picked EXCEPT ![a] = None]
      /\ config' = config /\ long' = long /\ where' = where /\ watched' = watched /\ chan' = chan /\ serving' = serving
      /\ flight' = flight /\ binding' = binding /\ result' = result /\ cb' = cb /\ queue' = queue /\ depth' = depth
      /\ token' = token /\ answer' = answer /\ state' = state /\ snap' = snap
  BY <1>0 DEF Claim, setup, dispatchVars, threadVars, bookVars, answerVars, healthVars, actorVars
<1>2. /\ Step(a)' = "pick" /\ ("pick" # "idle" => Ward(a)' = Ward(a)) /\ Ward(a) \in Workers
      /\ \A b \in Actors : b # a => Step(b)' = Step(b) /\ Ward(b)' = Ward(b)
      /\ \A d \in Calls : \/ at'[d] = at[d]
                          \/ at[d] \notin Delivered \cup {"new"} /\ at'[d] \notin Delivered \cup {"new"}
      /\ at' \in [Calls -> {"new", "check", "snapshot", "pick", "claim", "cancel", "fail", "send",
                            "count", "push", "watch", "callback", "done"}]
      /\ doing' \in [Wardens -> [at : {"idle", "Healthy", "Unhealthy",
                                       "snapshot", "pick", "claim", "cancel", "fail"},
                                 worker : Workers \cup {None}]]
      /\ Routed'
  BY <1>1, GotoMoves
<1>3. /\ \A d \in Calls : at'[d] \in Delivered <=> at[d] \in Delivered
      /\ \A d \in Calls : at'[d] \in Entered <=> at[d] \in Entered
      /\ \A d \in Calls : at'[d] \in Delivered => at'[d] = at[d]
  BY <1>2 DEF Delivered, Entered
<1>4. \A d \in Calls : Claimed(d)' <=> Claimed(d)
  <2>1. ASSUME NEW d \in Calls, NEW b \in Actors PROVE Claiming(b, d)' <=> Claiming(b, d)
    BY <1>0, <1>1, <1>2 DEF Claiming, TypeOK
  <2> QED
    BY <2>1 DEF Claimed
<1>10. TypeOK'
  BY <1>1, <1>2 DEF TypeOK
<1>11. Routed'
  BY <1>2
<1>12. Channel'
  <2>1. \A u \in Workers : serving[u] # None => serving[u] \in Calls
    BY DEF TypeOK
  <2> QED
    BY <1>1, <1>3, <2>1 DEF Channel
<1>13. Called'
  <2>1. watched' \subseteq {d \in Calls : at'[d] \in {"callback", "done"}}
    BY <1>1, <1>3 DEF Called, Delivered, Entered
  <2>2. \A d \in Calls : at'[d] = "callback" <=> at[d] = "callback"
    BY <1>2 DEF Delivered, Entered
  <2> QED
    BY <1>1, <1>3, <2>1, <2>2 DEF Called
<1>14. Entries'
  <2>1. \A d \in Calls : at'[d] = "watch" <=> at[d] = "watch"
    BY <1>2 DEF Delivered, Entered
  <2> QED
    BY <1>1, <1>3, <1>4, <2>1 DEF Entries
<1>15. Custody'
  <2>1. ASSUME NEW b \in Actors, NEW d \in Calls, Holds(b, d)'
        PROVE  /\ where'[d] = Ward(b)' /\ at'[d] \in Entered /\ ~Has(queue[Ward(b)], d)'
               /\ Step(b)' \in {"cancel", "fail"} => d \in settled'
               /\ Step(b)' = "fail" => d \in token'
    <3>1. b # a
      BY <1>1, <1>2, <2>1 DEF Holds, Grip, AfterOne
    <3>2. Holds(b, d) /\ Ward(b)' = Ward(b) /\ Step(b)' = Step(b)
      BY <1>1, <1>2, <2>1, <3>1 DEF Holds, TypeOK
    <3>3. /\ where[d] = Ward(b) /\ at[d] \in Entered /\ ~Has(queue[Ward(b)], d)
          /\ Step(b) \in {"cancel", "fail"} => d \in settled
          /\ Step(b) = "fail" => d \in token
      BY <3>2 DEF Custody
    <3>4. ~Has(queue[Ward(b)], d)'
      BY <1>1, <3>2, <3>3
    <3> QED
      BY <1>1, <1>3, <3>2, <3>3, <3>4
  <2>2. ASSUME NEW b \in Actors, Step(b)' \in Grip PROVE picked'[b] \in Calls
    <3>1. b # a
      BY <1>1, <1>2, <2>2 DEF Grip, AfterOne
    <3> QED
      BY <1>1, <1>2, <2>2, <3>1 DEF Custody, TypeOK
  <2> QED
    BY <2>1, <2>2 DEF Custody
<1>16. Balance'
  <2>1. \A d \in Calls : at'[d] = "push" <=> at[d] = "push"
    BY <1>2 DEF Delivered, Entered
  <2>2. ASSUME NEW u \in Workers PROVE Owed(u)' = Owed(u)
    BY <1>1, <1>4, <2>1 DEF Owed
  <2> QED
    BY <1>1, <2>2, SameBalance
<1>17. Warned'
  BY <1>1, <1>3 DEF Warned
<1> QED
  BY <1>10, <1>11, <1>12, <1>13, <1>14, <1>15, <1>16, <1>17

(* Whoever sets the flag first gives the call's place back. *)
LEMMA ClaimFirstInv ==
    ASSUME IInv, NEW a \in Actors, Claim(a), picked[a] \notin settled
    PROVE  IInv'
<1> USE DEF IInv
<1>0. PICK c \in Calls : c = picked[a]
  BY DEF Claim, Custody, Grip
<1>1. /\ Step(a) = "claim"
      /\ c \notin settled
      /\ Goto(a, "cancel")
      /\ settled' = settled \cup {c}
      /\ depth' = [depth EXCEPT ![Ward(a)] = @ - 1]
      /\ config' = config /\ long' = long /\ where' = where /\ watched' = watched /\ chan' = chan /\ serving' = serving
      /\ flight' = flight /\ binding' = binding /\ result' = result /\ cb' = cb /\ queue' = queue /\ token' = token
      /\ answer' = answer /\ state' = state /\ snap' = snap /\ picked' = picked
  BY <1>0 DEF Claim, setup, dispatchVars, threadVars, bookVars, answerVars, healthVars, actorVars
<1>2. /\ Step(a)' = "cancel" /\ ("cancel" # "idle" => Ward(a)' = Ward(a)) /\ Ward(a) \in Workers
      /\ \A b \in Actors : b # a => Step(b)' = Step(b) /\ Ward(b)' = Ward(b)
      /\ \A d \in Calls : \/ at'[d] = at[d]
                          \/ at[d] \notin Delivered \cup {"new"} /\ at'[d] \notin Delivered \cup {"new"}
      /\ at' \in [Calls -> {"new", "check", "snapshot", "pick", "claim", "cancel", "fail", "send",
                            "count", "push", "watch", "callback", "done"}]
      /\ doing' \in [Wardens -> [at : {"idle", "Healthy", "Unhealthy",
                                       "snapshot", "pick", "claim", "cancel", "fail"},
                                 worker : Workers \cup {None}]]
      /\ Routed'
  BY <1>1, GotoMoves
<1>3. /\ \A d \in Calls : at'[d] \in Delivered <=> at[d] \in Delivered
      /\ \A d \in Calls : at'[d] \in Entered <=> at[d] \in Entered
      /\ \A d \in Calls : at'[d] \in Delivered => at'[d] = at[d]
  BY <1>2 DEF Delivered, Entered
<1>4. \A d \in Calls : Claimed(d)' <=> Claimed(d) /\ d # c
  <2>1. ASSUME NEW d \in Calls, d # c, NEW b \in Actors PROVE Claiming(b, d)' <=> Claiming(b, d)
    BY <1>0, <1>1, <1>2, <2>1 DEF Claiming
  <2>2. \A b \in Actors : ~Claiming(b, c)'
    BY <1>1 DEF Claiming
  <2> QED
    BY <2>1, <2>2 DEF Claimed
<1>5. PICK v \in Workers : v = Ward(a)
  BY <1>2
<1>6. where[c] = v /\ at[c] \in Entered /\ ~Has(queue[v], c) /\ Claimed(c) /\ cb[c] # "drop"
  <2>1. Holds(a, c)
    BY <1>0, <1>1 DEF Holds, Grip
  <2>2. Claiming(a, c)
    BY <1>0, <1>1 DEF Claiming
  <2> QED
    BY <1>1, <1>5, <2>1, <2>2 DEF Custody, Claimed, Entries
<1>7. \A u \in Workers : depth'[u] = IF u = v THEN depth[u] - 1 ELSE depth[u]
  BY <1>1, <1>5 DEF TypeOK
<1>8. IsFiniteSet(Owed(v)) /\ Cardinality(Owed(v)) \in Nat
  <2>1. Owed(v) \in SUBSET Calls
    BY DEF Owed
  <2> QED
    BY <2>1, PoolAssumption, FS_Subset, FS_CardinalityType
<1>9. Balance'
  <2>1. \A d \in Calls : at'[d] = "push" <=> at[d] = "push"
    BY <1>2 DEF Delivered, Entered
  <2>2. at[c] # "push"
    BY <1>6 DEF Entered
  <2>3. Owed(v)' = Owed(v) \ {c} /\ c \in Owed(v) /\ \A u \in Workers : u # v => Owed(u)' = Owed(u)
    BY <1>1, <1>4, <1>6, <2>1, <2>2 DEF Owed
  <2>4. Cardinality(Owed(v)') = Cardinality(Owed(v)) - 1
    BY <1>8, <2>3, FS_RemoveElement
  <2>5. ASSUME NEW u \in Workers PROVE depth'[u] = Len(queue'[u]) + Cardinality(Owed(u)')
    <3>1. depth[u] = Len(queue[u]) + Cardinality(Owed(u)) /\ Len(queue[u]) \in Nat
      BY DEF Balance, TypeOK
    <3>2. CASE u = v
      BY <1>1, <1>7, <1>8, <2>4, <3>1, <3>2
    <3>3. CASE u # v
      BY <1>1, <1>7, <2>3, <3>1, <3>3
    <3> QED
      BY <3>2, <3>3
  <2> QED
    BY <2>5 DEF Balance
<1>10. TypeOK'
  <2>1. \A u \in Workers : depth'[u] \in 0..Cardinality(Calls)
    BY <1>1, <1>9, NewDepth DEF TypeOK, Entries
  <2>2. depth' \in [Workers -> 0..Cardinality(Calls)]
    BY <1>1, <2>1 DEF TypeOK
  <2> QED
    BY <1>1, <1>2, <2>2 DEF TypeOK
<1>11. Routed'
  BY <1>2
<1>12. Channel'
  <2>1. \A u \in Workers : serving[u] # None => serving[u] \in Calls
    BY DEF TypeOK
  <2> QED
    BY <1>1, <1>3, <2>1 DEF Channel
<1>13. Called'
  <2>1. watched' \subseteq {d \in Calls : at'[d] \in {"callback", "done"}}
    BY <1>1, <1>3 DEF Called, Delivered, Entered
  <2>2. \A d \in Calls : at'[d] = "callback" <=> at[d] = "callback"
    BY <1>2 DEF Delivered, Entered
  <2> QED
    BY <1>1, <1>3, <2>1, <2>2 DEF Called
<1>14. Entries'
  <2>1. \A d \in Calls : at'[d] = "watch" <=> at[d] = "watch"
    BY <1>2 DEF Delivered, Entered
  <2>2. \A u \in Workers : ~Has(queue[u], c)
    BY <1>6 DEF Entries
  <2> QED
    BY <1>1, <1>3, <1>4, <1>6, <2>1, <2>2 DEF Entries
<1>15. Custody'
  <2>1. ASSUME NEW b \in Actors, NEW d \in Calls, Holds(b, d)'
        PROVE  /\ where'[d] = Ward(b)' /\ at'[d] \in Entered /\ ~Has(queue[Ward(b)], d)'
               /\ Step(b)' \in {"cancel", "fail"} => d \in settled'
               /\ Step(b)' = "fail" => d \in token'
    <3>1. Holds(b, d) /\ Ward(b)' = Ward(b)
      BY <1>1, <1>2, <2>1 DEF Holds, Grip
    <3>2. /\ where[d] = Ward(b) /\ at[d] \in Entered /\ ~Has(queue[Ward(b)], d)
          /\ Step(b) \in {"cancel", "fail"} => d \in settled
          /\ Step(b) = "fail" => d \in token
      BY <3>1 DEF Custody
    <3>3. ~Has(queue[Ward(b)], d)'
      BY <1>1, <3>1, <3>2
    <3>4. CASE b = a
      BY <1>0, <1>1, <1>2, <1>3, <2>1, <3>1, <3>2, <3>3, <3>4 DEF Holds
    <3>5. CASE b # a
      BY <1>1, <1>2, <1>3, <2>1, <3>1, <3>2, <3>3, <3>5
    <3> QED
      BY <3>4, <3>5
  <2> QED
    BY <1>1, <1>2, <2>1 DEF Custody, Grip
<1>16. Balance'
  BY <1>9
<1>17. Warned'
  BY <1>1, <1>3 DEF Warned
<1> QED
  BY <1>10, <1>11, <1>12, <1>13, <1>14, <1>15, <1>16, <1>17

(* The oldest entry that may be answered is taken out, and owed until it is claimed. *)
LEMMA PickInv ==
    ASSUME IInv, NEW a \in Actors, Pick(a)
    PROVE  IInv'
<1> USE DEF IInv
<1>0. PICK v, i, x :
          /\ v \in Workers /\ v = Ward(a) /\ i \in DOMAIN queue[v] /\ x = queue[v][i] /\ x \notin settled
          /\ queue' = [queue EXCEPT ![v] = RemovedAt(@, i)]
          /\ picked' = [picked EXCEPT ![a] = x]
  <2>1. Ward(a) \in Workers
    BY DEF Pick, Step, Ward, Routed, Actors
  <2> QED
    BY <2>1 DEF Pick, Eligible
<1>1. /\ Step(a) = "pick"
      /\ Goto(a, "claim")
      /\ queue' = [queue EXCEPT ![v] = RemovedAt(@, i)]
      /\ picked' = [picked EXCEPT ![a] = x]
      /\ config' = config /\ long' = long /\ where' = where /\ watched' = watched /\ chan' = chan /\ serving' = serving
      /\ flight' = flight /\ binding' = binding /\ result' = result /\ cb' = cb /\ depth' = depth /\ settled' = settled
      /\ token' = token /\ answer' = answer /\ state' = state /\ snap' = snap
  BY <1>0 DEF Pick, setup, dispatchVars, threadVars, bookVars, answerVars, healthVars, actorVars
<1>2. /\ Step(a)' = "claim" /\ ("claim" # "idle" => Ward(a)' = Ward(a)) /\ Ward(a) \in Workers
      /\ \A b \in Actors : b # a => Step(b)' = Step(b) /\ Ward(b)' = Ward(b)
      /\ \A d \in Calls : \/ at'[d] = at[d]
                          \/ at[d] \notin Delivered \cup {"new"} /\ at'[d] \notin Delivered \cup {"new"}
      /\ at' \in [Calls -> {"new", "check", "snapshot", "pick", "claim", "cancel", "fail", "send",
                            "count", "push", "watch", "callback", "done"}]
      /\ doing' \in [Wardens -> [at : {"idle", "Healthy", "Unhealthy",
                                       "snapshot", "pick", "claim", "cancel", "fail"},
                                 worker : Workers \cup {None}]]
      /\ Routed'
  BY <1>1, GotoMoves
<1>3. /\ \A d \in Calls : at'[d] \in Delivered <=> at[d] \in Delivered
      /\ \A d \in Calls : at'[d] \in Entered <=> at[d] \in Entered
      /\ \A d \in Calls : at'[d] \in Delivered => at'[d] = at[d]
  BY <1>2 DEF Delivered, Entered
<1>5. /\ x \in Calls /\ x \notin settled /\ Has(queue[v], x)
      /\ queue'[v] \in Seq(Calls) /\ Once(queue[v])' /\ Len(queue'[v]) = Len(queue[v]) - 1
      /\ \A y : Has(queue[v], y)' <=> Has(queue[v], y) /\ y # x
      /\ \A u \in Workers : u # v => queue'[u] = queue[u]
  <2>1. queue[v] \in Seq(Calls) /\ Once(queue[v]) /\ queue'[v] = RemovedAt(queue[v], i)
        /\ \A u \in Workers : u # v => queue'[u] = queue[u]
    BY <1>0, <1>1 DEF TypeOK, Entries
  <2>2. i \in 1..Len(queue[v]) /\ x = queue[v][i] /\ x \in Calls
    BY <1>0, <2>1
  <2>3. /\ RemovedAt(queue[v], i) \in Seq(Calls) /\ Once(RemovedAt(queue[v], i))
        /\ Len(RemovedAt(queue[v], i)) = Len(queue[v]) - 1
        /\ \A y : Has(RemovedAt(queue[v], i), y) <=> Has(queue[v], y) /\ y # queue[v][i]
    BY <2>1, <2>2, RemovedOnce
  <2>4. Has(queue[v], x)
    BY <2>2 DEF Has
  <2> QED
    BY <1>0, <2>1, <2>2, <2>3, <2>4
<1>6. /\ where[x] = v /\ at[x] \in Entered
      /\ \A u \in Workers, d \in Calls : Has(queue[u], d)' <=> Has(queue[u], d) /\ d # x
  <2>1. where[x] = v /\ at[x] \in Entered
    BY <1>0, <1>5 DEF Entries
  <2>2. \A u \in Workers : u # v => ~Has(queue[u], x)
    BY <1>5, <2>1 DEF Entries
  <2>3. ASSUME NEW u \in Workers, NEW d \in Calls PROVE Has(queue[u], d)' <=> Has(queue[u], d) /\ d # x
    <3>1. CASE u = v
      BY <1>5, <3>1
    <3>2. CASE u # v
      BY <1>5, <2>2, <3>2
    <3> QED
      BY <3>1, <3>2
  <2> QED
    BY <2>1, <2>3
<1>4. \A d \in Calls : Claimed(d)' <=> Claimed(d) \/ d = x
  <2>1. picked'[a] = x /\ \A b \in Actors : b # a => picked'[b] = picked[b]
    BY <1>1 DEF TypeOK
  <2>2. ASSUME NEW d \in Calls, NEW b \in Actors, b # a PROVE Claiming(b, d)' <=> Claiming(b, d)
    BY <1>1, <1>2, <2>1, <2>2 DEF Claiming
  <2>3. \A d \in Calls : ~Claiming(a, d) /\ (Claiming(a, d)' <=> d = x)
    BY <1>1, <1>2, <1>5, <2>1 DEF Claiming
  <2> QED
    BY <2>2, <2>3 DEF Claimed
<1>7. IsFiniteSet(Owed(v)) /\ Cardinality(Owed(v)) \in Nat
  <2>1. Owed(v) \in SUBSET Calls
    BY DEF Owed
  <2> QED
    BY <2>1, PoolAssumption, FS_Subset, FS_CardinalityType
<1>10. TypeOK'
  <2>1. queue' \in [Workers -> Seq(Calls)]
    <3>1. \A u \in Workers : queue'[u] \in Seq(Calls)
      BY <1>1, <1>5 DEF TypeOK
    <3> QED
      BY <1>1, <3>1 DEF TypeOK
  <2>2. picked' \in [Actors -> Calls \cup {None}]
    BY <1>1, <1>5 DEF TypeOK
  <2> QED
    BY <1>1, <1>2, <2>1, <2>2 DEF TypeOK
<1>11. Routed'
  BY <1>2
<1>12. Channel'
  <2>1. \A u \in Workers : serving[u] # None => serving[u] \in Calls
    BY DEF TypeOK
  <2> QED
    BY <1>1, <1>3, <2>1 DEF Channel
<1>13. Called'
  <2>1. watched' \subseteq {d \in Calls : at'[d] \in {"callback", "done"}}
    BY <1>1, <1>3 DEF Called, Delivered, Entered
  <2>2. \A d \in Calls : at'[d] = "callback" <=> at[d] = "callback"
    BY <1>2 DEF Delivered, Entered
  <2> QED
    BY <1>1, <1>3, <2>1, <2>2 DEF Called
<1>14. Entries'
  <2>1. \A d \in Calls : at'[d] = "watch" <=> at[d] = "watch"
    BY <1>2 DEF Delivered, Entered
  <2>2. \A u \in Workers : Once(queue[u])'
    BY <1>5 DEF Entries
  <2>3. ASSUME NEW d \in Calls, d \in watched' \/ at'[d] = "watch"
        PROVE  d \in settled' \/ Has(queue[where[d]], d)' \/ Claimed(d)'
    <3>1. PICK u \in Workers : u = where[d] /\ u = where'[d]
      BY <1>1, <2>1, <2>3 DEF Called, Routed
    <3>2. d = x \/ d \in settled \/ Has(queue[u], d) \/ Claimed(d)
      BY <1>1, <2>1, <2>3, <3>1 DEF Entries
    <3>3. d \in settled' \/ Has(queue[u], d)' \/ Claimed(d)'
      BY <1>1, <1>4, <1>6, <3>1, <3>2
    <3> QED
      BY <3>1, <3>3
  <2> QED
    BY <1>1, <1>3, <1>6, <2>1, <2>2, <2>3 DEF Entries
<1>15. Custody'
  <2>0. picked'[a] = x /\ \A b \in Actors : b # a => picked'[b] = picked[b]
    BY <1>1 DEF TypeOK
  <2>1. ASSUME NEW b \in Actors, NEW d \in Calls, Holds(b, d)'
        PROVE  /\ where'[d] = Ward(b)' /\ at'[d] \in Entered /\ ~Has(queue[Ward(b)], d)'
               /\ Step(b)' \in {"cancel", "fail"} => d \in settled'
               /\ Step(b)' = "fail" => d \in token'
    <3>1. CASE b = a
      <4>1. d = x /\ Ward(b)' = v /\ Step(b)' = "claim"
        BY <1>0, <1>2, <2>0, <2>1, <3>1 DEF Holds
      <4>2. ~Has(queue[v], x)'
        BY <1>5
      <4>3. ~Has(queue[Ward(b)], d)'
        BY <4>1, <4>2
      <4> QED
        BY <1>1, <1>3, <1>6, <4>1, <4>3
    <3>2. CASE b # a
      <4>1. Holds(b, d) /\ Ward(b)' = Ward(b) /\ Step(b)' = Step(b)
        BY <1>1, <1>2, <2>0, <2>1, <3>2 DEF Holds
      <4>2. /\ where[d] = Ward(b) /\ at[d] \in Entered /\ ~Has(queue[Ward(b)], d)
            /\ Step(b) \in {"cancel", "fail"} => d \in settled
            /\ Step(b) = "fail" => d \in token
        BY <4>1 DEF Custody
      <4>3. PICK u \in Workers : u = Ward(b) /\ u = Ward(b)'
        BY <4>1, <4>2 DEF Routed, Entered
      <4>4. ~Has(queue[u], d)'
        BY <1>6, <4>2, <4>3
      <4>5. ~Has(queue[Ward(b)], d)'
        BY <4>3, <4>4
      <4> QED
        BY <1>1, <1>3, <4>1, <4>2, <4>5
    <3> QED
      BY <3>1, <3>2
  <2>2. ASSUME NEW b \in Actors, Step(b)' \in Grip PROVE picked'[b] \in Calls
    <3>1. CASE b = a
      BY <1>5, <2>0, <3>1
    <3>2. CASE b # a
      BY <1>2, <2>0, <2>2, <3>2 DEF Custody
    <3> QED
      BY <3>1, <3>2
  <2> QED
    BY <2>1, <2>2 DEF Custody
<1>16. Balance'
  <2>1. \A d \in Calls : at'[d] = "push" <=> at[d] = "push"
    BY <1>2 DEF Delivered, Entered
  <2>2. Owed(v)' = Owed(v) \cup {x} /\ x \notin Owed(v) /\ \A u \in Workers : u # v => Owed(u)' = Owed(u)
    BY <1>1, <1>4, <1>5, <1>6, <2>1 DEF Owed
  <2>3. Cardinality(Owed(v)') = Cardinality(Owed(v)) + 1
    BY <1>7, <2>2, FS_AddElement
  <2>4. ASSUME NEW u \in Workers PROVE depth'[u] = Len(queue'[u]) + Cardinality(Owed(u)')
    <3>1. depth[u] = Len(queue[u]) + Cardinality(Owed(u)) /\ Len(queue[u]) \in Nat
      BY DEF Balance, TypeOK
    <3>2. CASE u = v
      BY <1>1, <1>5, <1>7, <2>3, <3>1, <3>2
    <3>3. CASE u # v
      BY <1>1, <1>5, <2>2, <3>1, <3>3
    <3> QED
      BY <3>2, <3>3
  <2> QED
    BY <2>4 DEF Balance
<1>17. Warned'
  BY <1>1, <1>3 DEF Warned
<1> QED
  BY <1>10, <1>11, <1>12, <1>13, <1>14, <1>15, <1>16, <1>17

(* The invariant holds at the start. *)
LEMMA InitInv == Init => IInv
<1> SUFFICES ASSUME Init PROVE IInv
  OBVIOUS
<1>1. /\ \A w \in Workers : chan[w] = <<>> /\ queue[w] = <<>> /\ depth[w] = 0 /\ serving[w] = None /\ flight[w] = None
      /\ \A c \in Calls : at[c] = "new" /\ cb[c] = "no" /\ result[c] = "none" /\ answer[c] = "none"
      /\ \A a \in Wardens : doing[a].at = "idle"
      /\ watched = {} /\ settled = {}
  BY DEF Init, Idle
<1>2. \A a \in Actors : Step(a) \notin Grip
  BY <1>1 DEF Step, Grip, Actors
<1>3. Cardinality(Calls) \in Nat
  BY PoolAssumption, FS_CardinalityType
<1>4. \A c : ~Has(<<>>, c)
  BY DEF Has
<1>5. Once(<<>>) /\ <<>> \in Seq(Calls) /\ Len(<<>>) = 0
  BY DEF Once
<1>6. TypeOK
  <2>1. /\ config \in Configs /\ long \subseteq Calls /\ watched \subseteq Calls
        /\ settled \subseteq Calls /\ token \subseteq Calls
        /\ at \in [Calls -> {"new", "check", "snapshot", "pick", "claim", "cancel", "fail", "send",
                             "count", "push", "watch", "callback", "done"}]
        /\ where \in [Calls -> Workers \cup {None}]
        /\ binding \in [Calls -> {"before", "inside", "after"}]
        /\ result \in [Calls -> {"none", "ok", "cancelled"}]
        /\ cb \in [Calls -> {"no", "swap", "drop", "complete", "end"}]
        /\ answer \in [Calls -> Answers]
    BY DEF Init, Answers
  <2>2. /\ chan \in [Workers -> Seq(Calls)] /\ queue \in [Workers -> Seq(Calls)]
        /\ serving \in [Workers -> Calls \cup {None}] /\ flight \in [Workers -> Calls \cup {None}]
        /\ depth \in [Workers -> 0..Cardinality(Calls)] /\ state \in [Workers -> States]
    BY <1>3 DEF Init, States
  <2>3. /\ doing \in [Wardens -> [at : {"idle", "Healthy", "Unhealthy", "snapshot", "pick", "claim", "cancel", "fail"},
                                  worker : Workers \cup {None}]]
        /\ snap \in [Actors -> Calls \cup {None}] /\ picked \in [Actors -> Calls \cup {None}]
    BY DEF Init, Idle
  <2> QED
    BY <2>1, <2>2, <2>3 DEF TypeOK
<1>7. Routed /\ Channel /\ Called
  BY <1>1, <1>4, <1>5 DEF Routed, Channel, Called
<1>8. Entries /\ Custody
  BY <1>1, <1>2, <1>4, <1>5 DEF Entries, Custody, Holds
<1>9. Balance
  <2>1. \A w \in Workers : Owed(w) = {}
    BY <1>1, <1>2 DEF Owed, Claimed, Claiming, Grip
  <2>2. Cardinality({}) = 0
    BY FS_EmptySet
  <2>3. \A w \in Workers : Len(queue[w]) = 0 /\ Cardinality(Owed(w)) = 0 /\ depth[w] = 0
    BY <1>1, <1>5, <2>1, <2>2
  <2> QED
    BY <2>3 DEF Balance
<1>10. Warned
  BY <1>1, <1>4 DEF Warned
<1> QED
  BY <1>6, <1>7, <1>8, <1>9, <1>10 DEF IInv

(* A stuttering step changes nothing the invariant reads. *)
LEMMA StutterInv == IInv /\ UNCHANGED vars => IInv'
<1> SUFFICES ASSUME IInv, UNCHANGED vars PROVE IInv'
  OBVIOUS
<1>1. /\ UNCHANGED <<config, long, at, where, watched, chan, serving, flight, binding, result, cb>>
      /\ UNCHANGED <<queue, depth, settled, token, answer, state, doing, snap, picked>>
  BY DEF vars, setup, dispatchVars, threadVars, bookVars, answerVars, healthVars, actorVars
<1>2. \A a \in Actors : Step(a)' = Step(a) /\ Ward(a)' = Ward(a)
  BY <1>1 DEF Step, Ward
<1>3. /\ \A a \in Actors : \A c : Holds(a, c)' <=> Holds(a, c)
      /\ \A c : Claimed(c)' <=> Claimed(c)
  BY <1>1, <1>2 DEF Holds, Claimed, Claiming
<1>4. \A w \in Workers : Owed(w)' = Owed(w)
  BY <1>1, <1>3 DEF Owed
<1>5. TypeOK' /\ Routed' /\ Channel' /\ Called' /\ Warned'
  BY <1>1 DEF IInv, TypeOK, Routed, Channel, Called, Warned
<1>6. Entries'
  BY <1>1, <1>3 DEF IInv, Entries
<1>7. Custody'
  BY <1>1, <1>2, <1>3 DEF IInv, Custody
<1>8. Balance'
  BY <1>1, <1>4, SameBalance DEF IInv
<1> QED
  BY <1>5, <1>6, <1>7, <1>8 DEF IInv

LEMMA InvStep == IInv /\ [Next]_vars => IInv'
<1> SUFFICES ASSUME IInv, [Next]_vars PROVE IInv'
  OBVIOUS
<1>1. ASSUME NEW c \in Calls, Dispatch(c) PROVE IInv'
  BY <1>1, RouteInv, RefuseInv, RejectInv, AdmitInv, SendInv, CountInv, PushInv, WatchInv DEF Dispatch
<1>2. ASSUME NEW c \in Calls, Callback(c) PROVE IInv'
  BY <1>2, CallbackSwapInv, CallbackDropInv, CallbackCompleteInv DEF Callback
<1>3. ASSUME NEW w \in Workers, Serve(w) PROVE IInv'
  BY <1>3, TakeCancelledInv, TakeInv, StartInv, EnterBindingInv, FinishInv DEF Serve
<1>4. ASSUME NEW w \in Workers, Supervise(w) PROVE IInv'
  BY <1>4, SampleInv, MarkInv DEF Supervise
<1>5. ASSUME NEW a \in Actors, AnswerQueued(a) PROVE IInv'
  BY <1>5, SnapshotInv, PickInv, PickNoneInv, ClaimLateInv, ClaimFirstInv, CancelQueuedInv, FailInv
     DEF AnswerQueued
<1>6. CASE Next
  BY <1>1, <1>2, <1>3, <1>4, <1>5, <1>6, LeaveBindingInv, RetireInv DEF Next
<1>7. CASE UNCHANGED vars
  BY <1>7, StutterInv
<1> QED
  BY <1>6, <1>7

-----------------------------------------------------------------------------

(* The inductive invariant, for any pool, any policy and any number of calls. *)
THEOREM Invariance == Spec => []IInv
  BY InitInv, InvStep, PTL DEF Spec

(* The pool's two books agree whenever no thread is between its two updates of
   them, and depth, an unsigned counter that four kinds of thread decrement, is
   never taken below zero or counted past the calls there are. *)
THEOREM Books == Spec => []BooksHold
<1>1. IInv => BooksHold
  <2> SUFFICES ASSUME IInv, NEW w \in Workers, ~Busy(w) PROVE depth[w] = Len(queue[w])
    BY DEF BooksHold, BooksBalance, IInv
  <2>1. Owed(w) = {}
    <3> SUFFICES ASSUME NEW c \in Owed(w) PROVE FALSE
      OBVIOUS
    <3>1. c \in Calls /\ where[c] = w /\ at[c] # "push" /\ cb[c] # "drop"
      BY DEF Owed, Busy
    <3>2. PICK a \in Actors : Claiming(a, c)
      BY <3>1 DEF Owed, Claimed
    <3>3. Step(a) = "claim" /\ Ward(a) = w
      BY <3>1, <3>2 DEF Claiming, IInv, Custody, Holds, Grip
    <3> QED
      BY <3>3 DEF Busy
  <2>2. Cardinality({}) = 0
    BY FS_EmptySet
  <2>3. Cardinality(Owed(w)) = 0
    BY <2>1, <2>2
  <2>4. depth[w] = Len(queue[w]) + Cardinality(Owed(w)) /\ Len(queue[w]) \in Nat
    BY DEF IInv, Balance, TypeOK
  <2> QED
    BY <2>3, <2>4
<1> QED
  BY <1>1, Invariance, PTL

(* A call the pool answered while it was still in its worker's channel never
   starts: its token was cancelled before its caller heard, and the worker's
   thread looks at the token of whatever it takes. *)
THEOREM NoLateStart == Spec => AnsweredNeverStarts
<1> DEFINE Kept == \A w \in Workers : \A i \in DOMAIN chan[w] :
                      answer[chan[w][i]] \in {"shed", "wedged"} =>
                         serving'[w] # chan[w][i] \/ result'[chan[w][i]] # "none"
<1>1. IInv /\ [Next]_vars => [Kept]_vars
  <2> SUFFICES ASSUME IInv, Next, NEW w \in Workers, NEW i \in DOMAIN chan[w],
                      answer[chan[w][i]] \in {"shed", "wedged"}
               PROVE  serving'[w] # chan[w][i] \/ result'[chan[w][i]] # "none"
    OBVIOUS
  <2>1. PICK c \in Calls : c = chan[w][i] /\ Has(chan[w], c)
    BY DEF IInv, TypeOK, Has
  <2>2. c \in token /\ serving[w] # c /\ c # None /\ where[c] = w
    BY <2>1, PoolAssumption DEF IInv, Warned, Channel
  <2>3. ASSUME serving'[w] = c PROVE result'[c] # "none"
    <3> SUFFICES ASSUME serving' # serving PROVE result'[c] # "none"
      BY <2>2, <2>3
    <3>1. CASE \E u \in Workers : Take(u)
      <4>1. PICK u \in Workers : serving' = [serving EXCEPT ![u] = Head(chan[u])] /\ Head(chan[u]) \notin token
        BY <3>1 DEF Take
      <4> QED
        BY <2>2, <2>3, <4>1 DEF IInv, TypeOK
    <3>2. CASE \E u \in Workers : TakeCancelled(u)
      <4>1. PICK u \in Workers : /\ serving' = [serving EXCEPT ![u] = IF Head(chan[u]) \in watched THEN Head(chan[u]) ELSE None]
                                 /\ result' = [result EXCEPT ![Head(chan[u])] = "cancelled"]
        BY <3>2 DEF TakeCancelled, Complete
      <4> QED
        BY <2>2, <2>3, <4>1 DEF IInv, TypeOK
    <3>3. CASE \E u \in Workers : Finish(u)
      <4>1. PICK u \in Workers : /\ flight[u] # None
                                 /\ serving' = [serving EXCEPT ![u] = IF flight[u] \in watched THEN flight[u] ELSE None]
        BY <3>3 DEF Finish, Complete
      <4> QED
        BY <2>2, <2>3, <4>1 DEF IInv, TypeOK, Channel
    <3>4. CASE \E d \in Calls : CallbackComplete(d)
      <4>1. PICK d \in Calls : serving' = serving \/ serving' = [serving EXCEPT ![where[d]] = None]
        BY <3>4 DEF CallbackComplete
      <4> QED
        BY <2>2, <2>3, <4>1 DEF IInv, TypeOK
    <3> QED
      BY <3>1, <3>2, <3>3, <3>4
         DEF Next, Dispatch, Callback, Serve, Supervise, AnswerQueued, Route, Refuse, Reject, Admit, Send, Count,
             Push, Watch, CallbackSwap, CallbackDrop, Start, EnterBinding, LeaveBinding, Snapshot, Pick, PickNone,
             Claim, CancelQueued, Fail, Sample, Mark, Retire, threadVars
  <2> QED
    BY <2>1, <2>3
<1> QED
  BY <1>1, Invariance, PTL DEF Spec, AnsweredNeverStarts
=============================================================================
