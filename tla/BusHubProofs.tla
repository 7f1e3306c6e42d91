---------------------------- MODULE BusHubProofs ----------------------------
(***************************************************************************)
(* Proofs about the shared bus for any finite set of workers and any       *)
(* number of deliveries: what retire() has to find is where it looks, no   *)
(* wake-up is lost, and no cycle of workers waits for itself.              *)
(***************************************************************************)
EXTENDS BusHub, SequenceTheorems, FiniteSetTheorems, NaturalsInduction, WellFoundedInduction, TLAPS

-----------------------------------------------------------------------------
(* The inductive invariant. *)

QueuedAt(w, t) == \E i \in 1..Len(inbox[w]) : inbox[w][i] = t
ServedAt(w, t) == \E i \in 1..Len(stack[w]) : stack[w][i].serving = t
WaitedAt(w, t) == \E i \in 1..Len(stack[w]) : stack[w][i].waiting = t

(* Only tickets that were issued are in use. *)
Issued ==
    \A t \in Tickets : t > nextTicket =>
        /\ awaiting[t] = NoWorker /\ replies[t] = "none" /\ parked[t] = NoWorker /\ t \notin lost
        /\ \A w \in Workers : ~QueuedAt(w, t) /\ ~ServedAt(w, t) /\ ~WaitedAt(w, t)

(* No request is queued twice. *)
Queues ==
    \A w, v \in Workers : \A i \in 1..Len(inbox[w]), j \in 1..Len(inbox[v]) :
        inbox[w][i] = inbox[v][j] => w = v /\ i = j

(* No request is served twice; every activation of a stack but the first serves
   one; and waits grow towards the top. *)
Stacks ==
    /\ \A w, v \in Workers : \A i \in 1..Len(stack[w]), j \in 1..Len(stack[v]) :
          stack[w][i].serving # NoTicket /\ stack[w][i].serving = stack[v][j].serving
            => w = v /\ i = j
    /\ \A w \in Workers : \A i \in 1..Len(stack[w]) : i > 1 => stack[w][i].serving # NoTicket
    /\ WaitsGrow

(* A request that is owed is somewhere its worker, or retire(), finds it. *)
Owed ==
    \A w \in Workers, t \in Tickets : awaiting[t] = w =>
        /\ w \notin retired
        /\ replies[t] = "none"
        /\ QueuedAt(w, t) \/ ServedAt(w, t) \/ t \in lost

(* A queued request is served nowhere and owed by the worker it is queued for; a
   served one is owed by the worker that serves it, or was answered meanwhile. *)
Apart ==
    \A w \in Workers, t \in Tickets :
        /\ QueuedAt(w, t) => awaiting[t] = w /\ t \notin lost /\ \A v \in Workers : ~ServedAt(v, t)
        /\ ServedAt(w, t) => awaiting[t] \in {w, NoWorker}

(* An answer has one taker. *)
OneWaiter ==
    /\ \A w, v \in Workers, t \in Tickets : WaitedAt(w, t) /\ WaitedAt(v, t) => w = v
    /\ \A w \in Workers, t \in Tickets : parked[t] # NoWorker => ~WaitedAt(w, t)

(* What anybody waits for is answered or owed. *)
Answerable ==
    \A t \in Tickets : parked[t] # NoWorker \/ (\E w \in Workers : WaitedAt(w, t))
                          => replies[t] # "none" \/ awaiting[t] # NoWorker

(* Every queued request has a ServeBus command of its own, sent or about to be,
   except that a loop that has just taken one has yet to serve for it. *)
Ringers(w) == {u \in Workers : ringing[u] = w}
Grace(w)   == IF phase[w] = "preServe" /\ ~Busy(w) THEN 1 ELSE 0
Rung ==
    \A w \in Workers : phase[w] # "stopped" =>
        Len(inbox[w]) <= bells[w] + Cardinality(Ringers(w)) + Grace(w)

(* Script runs only in a loop that is in the middle of a command, or polls its
   flights out. *)
Rooted == \A w \in Workers : Busy(w) => phase[w] \notin {"idle", "stopped"}

Requests == Issued /\ Queues /\ Stacks /\ Owed /\ Apart /\ OneWaiter /\ Answerable

IInv == TypeOK /\ Requests /\ NoLostWakeup /\ Rung /\ Rooted

-----------------------------------------------------------------------------
(* Types. *)

(* The innermost activation of a busy worker is an element of its stack. *)
LEMMA TopType ==
    ASSUME TypeOK, NEW w \in Workers, Busy(w)
    PROVE  /\ Len(stack[w]) \in Nat \ {0}
           /\ Top(w) \in Activation
           /\ Pop(w) \in Seq(Activation)
           /\ \A t \in Tickets \cup {NoTicket} : Waiting(w, t) \in Seq(Activation)
<1>1. stack[w] \in Seq(Activation) /\ stack[w] # <<>>
  BY DEF TypeOK, Busy
<1>2. Len(stack[w]) \in Nat \ {0}
  BY <1>1
<1>3. Top(w) \in Activation
  BY <1>1, <1>2 DEF Top
<1>4. Pop(w) \in Seq(Activation)
  BY <1>1, <1>2 DEF Pop
<1>5. ASSUME NEW t \in Tickets \cup {NoTicket}
      PROVE  Waiting(w, t) \in Seq(Activation)
  <2>1. stack[w][Len(stack[w])] \in Activation
    BY <1>1, <1>2
  <2>2. [stack[w][Len(stack[w])] EXCEPT !.waiting = t] \in Activation
    BY <2>1 DEF Activation
  <2>3. QED
    BY <1>1, <1>2, <2>2 DEF Waiting
<1>6. QED
  BY <1>2, <1>3, <1>4, <1>5

(* A call's effect on the hub is well typed and issues a fresh ticket. *)
LEMMA CallType ==
    ASSUME TypeOK, NEW w \in Workers, NEW v \in Workers, Call(w, v)
    PROVE  /\ nextTicket + 1 \in Tickets
           /\ nextTicket' \in 0..MaxTickets
           /\ inbox' \in [Workers -> Seq(Tickets)]
           /\ replies' \in [Tickets -> Outcomes]
           /\ awaiting' \in [Tickets -> Workers \cup {NoWorker}]
           /\ ringing' \in [Workers -> Workers \cup {NoWorker}]
<1>1. /\ nextTicket + 1 \in Tickets
      /\ nextTicket' = nextTicket + 1
      /\ nextTicket' \in 0..MaxTickets
  BY BusAssumption DEF TypeOK, Call, Tickets
<1>2. CASE v \in retired \/ v \notin registered
  BY <1>1, <1>2 DEF TypeOK, Call, Outcomes
<1>3. CASE ~(v \in retired \/ v \notin registered)
  <2>1. Append(inbox[v], nextTicket + 1) \in Seq(Tickets)
    BY <1>1 DEF TypeOK
  <2>2. QED
    BY <1>1, <1>3, <2>1, ZenonT(60) DEF TypeOK, Call
<1>4. QED
  BY <1>2, <1>3

(* A reply's effect on the hub is well typed. *)
LEMMA ReplyType ==
    ASSUME TypeOK, NEW t \in Tickets, NEW o \in {"ran", "skipped"}, Reply(t, o)
    PROVE  /\ replies' \in [Tickets -> Outcomes]
           /\ awaiting' \in [Tickets -> Workers \cup {NoWorker}]
           /\ replyWakers' \subseteq Tickets
           /\ woken' \subseteq Tickets
<1>1. CASE awaiting[t] # NoWorker
  BY <1>1 DEF TypeOK, Reply, Outcomes
<1>2. CASE awaiting[t] = NoWorker
  BY <1>2 DEF TypeOK, Reply
<1>3. QED
  BY <1>1, <1>2

(* Handing the thread back to its loop keeps phases and stacks well typed. *)
LEMMA ResumeType ==
    ASSUME TypeOK, NEW w \in Workers, Resume(w)
    PROVE  /\ phase' \in [Workers -> Phases]
           /\ stack' \in [Workers -> Seq(Activation)]
<1>1. After(phase[w]) \in Phases
  BY DEF TypeOK, After, Phases
<1>2. [serving |-> NoTicket, waiting |-> NoTicket] \in Activation
  BY DEF Activation
<1>3. <<[serving |-> NoTicket, waiting |-> NoTicket]>> \in Seq(Activation) /\ <<>> \in Seq(Activation)
  BY <1>2
<1>4. QED
  BY <1>1, <1>3 DEF TypeOK, Resume

(* Pushing a served request keeps a stack well typed. *)
LEMMA PushType ==
    ASSUME TypeOK, NEW w \in Workers, NEW t \in Tickets \cup {NoTicket}
    PROVE  Push(w, t) \in Seq(Activation)
<1>1. [serving |-> t, waiting |-> NoTicket] \in Activation
  BY DEF Activation
<1>2. stack[w] \in Seq(Activation)
  BY DEF TypeOK
<1>3. QED
  BY <1>1, <1>2 DEF Push

(* Every step of the hub, the kernel's loops and the command loops keeps the
   state well typed. *)
LEMMA TypeStep == TypeOK /\ [Next]_vars => TypeOK'
<1> SUFFICES ASSUME TypeOK, [Next]_vars PROVE TypeOK'
  OBVIOUS
<1> USE DEF hubVars, threadVars
<1>1. ASSUME NEW w \in Workers, Register(w) PROVE TypeOK'
  BY <1>1 DEF TypeOK, Register
<1>2. ASSUME NEW w \in Workers, Retire(w) PROVE TypeOK'
  <2>1. <<>> \in Seq(Tickets)
    OBVIOUS
  <2>2. inbox' \in [Workers -> Seq(Tickets)]
    BY <1>2, <2>1 DEF TypeOK, Retire
  <2>3. replies' \in [Tickets -> Outcomes]
    BY <1>2 DEF TypeOK, Retire, Outcomes
  <2>4. awaiting' \in [Tickets -> Workers \cup {NoWorker}]
    BY <1>2 DEF TypeOK, Retire
  <2>5. QED
    BY <1>2, <2>2, <2>3, <2>4 DEF TypeOK, Retire
<1>3. ASSUME NEW w \in Workers, Ring(w) PROVE TypeOK'
  <2>1. bells' \in [Workers -> Nat]
    BY <1>3 DEF TypeOK, Ring
  <2>2. QED
    BY <1>3, <2>1 DEF TypeOK, Ring
<1>4. ASSUME NEW w \in Workers, PollDone(w) PROVE TypeOK'
  <2>1. Busy(w)
    BY <1>4 DEF PollDone, Blocked
  <2>2. stack' \in [Workers -> Seq(Activation)]
    BY <1>4, <2>1, TopType DEF TypeOK, PollDone
  <2>3. replies' \in [Tickets -> Outcomes]
    BY <1>4 DEF TypeOK, PollDone, Outcomes
  <2>4. QED
    BY <1>4, <2>2, <2>3 DEF TypeOK, PollDone
<1>5. ASSUME NEW w \in Workers, PollServe(w) PROVE TypeOK'
  <2>1. Head(inbox[w]) \in Tickets /\ Tail(inbox[w]) \in Seq(Tickets)
    BY <1>5 DEF TypeOK, PollServe
  <2>2. Push(w, Head(inbox[w])) \in Seq(Activation)
    BY <2>1, PushType
  <2>3. QED
    BY <1>5, <2>1, <2>2 DEF TypeOK, PollServe
<1>6. ASSUME NEW w \in Workers, Finish(w) PROVE TypeOK'
  <2>1. Busy(w) /\ Top(w).serving \in Tickets \cup {NoTicket} /\ Pop(w) \in Seq(Activation)
    BY <1>6, TopType DEF Finish, Running, Activation
  <2>2. /\ replies' \in [Tickets -> Outcomes]
        /\ awaiting' \in [Tickets -> Workers \cup {NoWorker}]
        /\ replyWakers' \subseteq Tickets
        /\ woken' \subseteq Tickets
    <3>1. CASE Top(w).serving # NoTicket
      <4>1. PICK o \in {"ran", "skipped"} : Reply(Top(w).serving, o)
        BY <1>6, <3>1 DEF Finish
      <4>2. QED
        BY <2>1, <3>1, <4>1, ReplyType
    <3>2. CASE Top(w).serving = NoTicket
      BY <1>6, <3>2 DEF Finish, TypeOK
    <3>3. QED
      BY <3>1, <3>2
  <2>3. phase' \in [Workers -> Phases] /\ stack' \in [Workers -> Seq(Activation)]
    <3>1. CASE Top(w).serving = NoTicket
      BY <1>6, <3>1, ResumeType DEF Finish
    <3>2. CASE Top(w).serving # NoTicket
      BY <1>6, <2>1, <3>2 DEF Finish, TypeOK
    <3>3. QED
      BY <3>1, <3>2
  <2>4. QED
    BY <1>6, <2>2, <2>3 DEF TypeOK, Finish
<1>7. ASSUME NEW w \in Workers, Interrupt(w) PROVE TypeOK'
  <2>1. phase' \in [Workers -> Phases] /\ stack' \in [Workers -> Seq(Activation)]
    BY <1>7, ResumeType DEF Interrupt
  <2>2. Serving(w) \subseteq Tickets
    <3>1. stack[w] \in Seq(Activation)
      BY DEF TypeOK
    <3>2. \A i \in 1..Len(stack[w]) : stack[w][i] \in Activation
      BY <3>1
    <3>3. \A i \in 1..Len(stack[w]) : stack[w][i].serving \in Tickets \cup {NoTicket}
      BY <3>2 DEF Activation
    <3>4. QED
      BY <3>3 DEF Serving
  <2>3. lost' \subseteq Tickets
    BY <1>7, <2>2 DEF TypeOK, Interrupt
  <2>4. QED
    BY <1>7, <2>1, <2>3 DEF TypeOK, Interrupt
<1>8. ASSUME NEW w \in Workers, TakeServeBus(w) PROVE TypeOK'
  BY <1>8 DEF TypeOK, TakeServeBus, Phases
<1>9. ASSUME NEW w \in Workers, TakeCommand(w) PROVE TypeOK'
  BY <1>9 DEF TypeOK, TakeCommand, Phases
<1>10. ASSUME NEW w \in Workers, ServeInbox(w) PROVE TypeOK'
  <2>1. CASE inbox[w] # <<>>
    <3>1. Head(inbox[w]) \in Tickets /\ Tail(inbox[w]) \in Seq(Tickets)
      BY <2>1 DEF TypeOK
    <3>2. Push(w, Head(inbox[w])) \in Seq(Activation)
      BY <3>1, PushType
    <3>3. QED
      BY <1>10, <2>1, <3>1, <3>2 DEF TypeOK, ServeInbox
  <2>2. CASE inbox[w] = <<>>
    <3>1. phase' \in [Workers -> Phases] /\ stack' \in [Workers -> Seq(Activation)]
      BY <1>10, <2>2, ResumeType DEF ServeInbox
    <3>2. QED
      BY <1>10, <2>2, <3>1 DEF TypeOK, ServeInbox
  <2>3. QED
    BY <2>1, <2>2
<1>11. ASSUME NEW w \in Workers, Stop(w) PROVE TypeOK'
  <2>1. CASE \E t \in Tickets : parked[t] = w /\ t \notin loose
    BY <1>11, <2>1 DEF TypeOK, Stop, Phases
  <2>2. CASE ~\E t \in Tickets : parked[t] = w /\ t \notin loose
    <3>1. /\ phase' = [phase EXCEPT ![w] = "stopped"]
          /\ bells' = [bells EXCEPT ![w] = 0]
          /\ parked' = [t \in Tickets |-> IF t \in {x \in Tickets : parked[x] = w} THEN NoWorker ELSE parked[t]]
          /\ woken' \subseteq woken /\ loose' \subseteq loose
      BY <1>11, <2>2 DEF Stop
    <3>2. phase' \in [Workers -> Phases]
      BY <3>1 DEF TypeOK, Phases
    <3>3. bells' \in [Workers -> Nat]
      BY <3>1 DEF TypeOK
    <3>4. parked' \in [Tickets -> Workers \cup {NoWorker}] /\ woken' \subseteq Tickets /\ loose' \subseteq Tickets
      BY <3>1 DEF TypeOK
    <3>5. QED
      BY <1>11, <3>2, <3>3, <3>4 DEF TypeOK, Stop
  <2>3. QED
    BY <2>1, <2>2
<1>12. ASSUME NEW w \in Workers, NEW v \in Workers, Emit(w, v) PROVE TypeOK'
  <2>1. Busy(w) /\ Call(w, v)
    BY <1>12 DEF Emit, Running
  <2>2. stack' \in [Workers -> Seq(Activation)]
    BY <1>12, <2>1, CallType, TopType DEF TypeOK, Emit
  <2>3. QED
    BY <1>12, <2>1, <2>2, CallType DEF TypeOK, Emit
<1>13. ASSUME NEW w \in Workers, NEW v \in Workers, Ask(w, v) PROVE TypeOK'
  <2>1. Call(w, v)
    BY <1>13 DEF Ask
  <2>2. QED
    BY <1>13, <2>1, CallType DEF TypeOK, Ask
<1>14. ASSUME NEW t \in Tickets, PollAnswer(t) PROVE TypeOK'
  <2>1. parked[t] \in Workers
    BY <1>14 DEF TypeOK, PollAnswer
  <2>2. Push(parked[t], NoTicket) \in Seq(Activation)
    BY <2>1, PushType
  <2>3. stack' \in [Workers -> Seq(Activation)] /\ phase' \in [Workers -> Phases]
    BY <1>14, <2>1, <2>2 DEF TypeOK, PollAnswer, Phases
  <2>4. QED
    BY <1>14, <2>3 DEF TypeOK, PollAnswer, Outcomes
<1>15. ASSUME NEW t \in Tickets, PollPending(t) PROVE TypeOK'
  BY <1>15 DEF TypeOK, PollPending
<1>16. ASSUME NEW t \in Tickets, Abandon(t) PROVE TypeOK'
  BY <1>16 DEF TypeOK, Abandon, Outcomes
<1>17. ASSUME NEW t \in Tickets, Watch(t) PROVE TypeOK'
  BY <1>17 DEF TypeOK, Watch
<1>18. CASE UNCHANGED vars
  BY <1>18 DEF TypeOK, vars
<1>19. QED
  BY <1>1, <1>2, <1>3, <1>4, <1>5, <1>6, <1>7, <1>8, <1>9, <1>10, <1>11, <1>12,
     <1>13, <1>14, <1>15, <1>16, <1>17, <1>18 DEF Next

(* The shared bus stays well typed: tickets, inboxes, answers, stacks and
   wake-up sets keep their shapes for every pool size and ticket bound. *)
THEOREM TypeCorrect == Spec => []TypeOK
<1>1. Init => TypeOK
  <2> SUFFICES ASSUME Init PROVE TypeOK
    OBVIOUS
  <2>1. <<>> \in Seq(Tickets) /\ <<>> \in Seq(Activation)
    OBVIOUS
  <2>2. QED
    BY <2>1, BusAssumption DEF Init, TypeOK, Outcomes, Phases, Tickets
<1>2. QED
  BY <1>1, TypeStep, PTL DEF Spec

-----------------------------------------------------------------------------
(* What the operations on stacks and inboxes do to the three predicates. *)

(* The elements of a stack are activations. *)
LEMMA StackElements ==
    ASSUME TypeOK, NEW w \in Workers
    PROVE  /\ Len(stack[w]) \in Nat
           /\ \A i \in 1..Len(stack[w]) : /\ stack[w][i].serving \in Tickets \cup {NoTicket}
                                          /\ stack[w][i].waiting \in Tickets \cup {NoTicket}
<1>1. stack[w] \in Seq(Activation)
  BY DEF TypeOK
<1>2. \A i \in 1..Len(stack[w]) : stack[w][i] \in Activation
  BY <1>1
<1> QED
  BY <1>1, <1>2 DEF Activation

LEMMA TicketNat == Tickets \subseteq Nat \ {0} /\ NoTicket = 0
  BY BusAssumption DEF Tickets, NoTicket

(* A request, or a flight's own script, goes on top of a stack. *)
LEMMA PushStack ==
    ASSUME TypeOK, Stacks, NEW w \in Workers, NEW h \in Tickets \cup {NoTicket},
           stack' = [stack EXCEPT ![w] = Push(w, h)],
           Busy(w) => Top(w).waiting # NoTicket /\ h # NoTicket,
           h # NoTicket => \A v \in Workers : ~ServedAt(v, h)
    PROVE  /\ Stacks' /\ Busy(w)'
           /\ \A u \in Workers, t \in Tickets : ServedAt(u, t)' <=> ServedAt(u, t) \/ (u = w /\ t = h)
           /\ \A u \in Workers, t \in Tickets : WaitedAt(u, t)' <=> WaitedAt(u, t)
           /\ \A u \in Workers : u # w => stack'[u] = stack[u]
<1> DEFINE n == Len(stack[w])
           e == [serving |-> h, waiting |-> NoTicket]
<1>1. /\ n \in Nat /\ \A u \in Workers : u # w => stack'[u] = stack[u]
      /\ Len(stack'[w]) = n + 1 /\ stack'[w][n + 1] = e
      /\ \A i \in 1..n : stack'[w][i] = stack[w][i]
  <2>1. stack[w] \in Seq(Activation)
    BY DEF TypeOK
  <2>2. stack'[w] = Append(stack[w], e) /\ \A u \in Workers : u # w => stack'[u] = stack[u]
    BY DEF TypeOK, Push
  <2> QED
    BY <2>1, <2>2
<1>2. e.serving = h /\ e.waiting = NoTicket
  OBVIOUS
<1> HIDE DEF e
<1>3. n > 0 => stack[w][n].waiting # NoTicket /\ h # NoTicket
  BY <1>1 DEF Busy, Top
<1>4. ASSUME NEW i \in 1..(n + 1) PROVE i \in 1..n \/ i = n + 1
  BY <1>1
<1>5. \A u \in Workers, t \in Tickets : ServedAt(u, t)' <=> ServedAt(u, t) \/ (u = w /\ t = h)
  <2>1. ASSUME NEW t \in Tickets PROVE ServedAt(w, t)' <=> ServedAt(w, t) \/ t = h
    <3>1. ASSUME ServedAt(w, t)' PROVE ServedAt(w, t) \/ t = h
      BY <1>1, <1>2, <1>4, <3>1 DEF ServedAt
    <3>2. ASSUME ServedAt(w, t) \/ t = h PROVE ServedAt(w, t)'
      <4>1. n + 1 \in 1..Len(stack'[w]) /\ 1..n \subseteq 1..Len(stack'[w])
        BY <1>1
      <4> QED
        BY <1>1, <1>2, <3>2, <4>1 DEF ServedAt
    <3> QED
      BY <3>1, <3>2
  <2>2. ASSUME NEW u \in Workers, u # w, NEW t \in Tickets PROVE ServedAt(u, t)' <=> ServedAt(u, t)
    BY <1>1, <2>2 DEF ServedAt
  <2> QED
    BY <2>1, <2>2
<1>6. \A u \in Workers, t \in Tickets : WaitedAt(u, t)' <=> WaitedAt(u, t)
  <2>1. ASSUME NEW t \in Tickets PROVE WaitedAt(w, t)' <=> WaitedAt(w, t)
    <3>1. ASSUME WaitedAt(w, t)' PROVE WaitedAt(w, t)
      BY <1>1, <1>2, <1>4, <3>1, TicketNat DEF WaitedAt
    <3>2. ASSUME WaitedAt(w, t) PROVE WaitedAt(w, t)'
      <4>1. 1..n \subseteq 1..Len(stack'[w])
        BY <1>1
      <4> QED
        BY <1>1, <3>2, <4>1 DEF WaitedAt
    <3> QED
      BY <3>1, <3>2
  <2>2. ASSUME NEW u \in Workers, u # w, NEW t \in Tickets PROVE WaitedAt(u, t)' <=> WaitedAt(u, t)
    BY <1>1, <2>2 DEF WaitedAt
  <2> QED
    BY <2>1, <2>2
<1>7. ASSUME NEW u \in Workers, NEW v \in Workers, NEW i \in 1..Len(stack'[u]), NEW j \in 1..Len(stack'[v]),
             stack'[u][i].serving # NoTicket, stack'[u][i].serving = stack'[v][j].serving
      PROVE  u = v /\ i = j
  <2>1. (u = w /\ i = n + 1) \/ (i \in 1..Len(stack[u]) /\ stack'[u][i] = stack[u][i])
    BY <1>1, <1>4
  <2>2. (v = w /\ j = n + 1) \/ (j \in 1..Len(stack[v]) /\ stack'[v][j] = stack[v][j])
    BY <1>1, <1>4
  <2>3. ASSUME NEW x \in Workers, NEW k \in 1..Len(stack[x]) PROVE h # NoTicket => stack[x][k].serving # h
    BY DEF ServedAt
  <2>4. \A x \in Workers, y \in Workers : \A k \in 1..Len(stack[x]), l \in 1..Len(stack[y]) :
          stack[x][k].serving # NoTicket /\ stack[x][k].serving = stack[y][l].serving => x = y /\ k = l
    BY DEF Stacks
  <2>5. CASE u = w /\ i = n + 1 /\ v = w /\ j = n + 1
    BY <2>5
  <2>6. CASE u = w /\ i = n + 1 /\ j \in 1..Len(stack[v]) /\ stack'[v][j] = stack[v][j]
    BY <1>1, <1>2, <1>7, <2>3, <2>6
  <2>7. CASE i \in 1..Len(stack[u]) /\ stack'[u][i] = stack[u][i] /\ v = w /\ j = n + 1
    BY <1>1, <1>2, <1>7, <2>3, <2>7
  <2>8. CASE i \in 1..Len(stack[u]) /\ stack'[u][i] = stack[u][i] /\ j \in 1..Len(stack[v]) /\ stack'[v][j] = stack[v][j]
    BY <1>7, <2>4, <2>8
  <2> QED
    BY <2>1, <2>2, <2>5, <2>6, <2>7, <2>8
<1>8. ASSUME NEW u \in Workers, NEW i \in 1..Len(stack'[u]), i > 1 PROVE stack'[u][i].serving # NoTicket
  <2>1. (u = w /\ i = n + 1) \/ (i \in 1..Len(stack[u]) /\ stack'[u][i] = stack[u][i])
    BY <1>1, <1>4
  <2> QED
    BY <1>1, <1>2, <1>3, <1>8, <2>1 DEF Stacks
<1>9. WaitsGrow'
  <2> SUFFICES ASSUME NEW u \in Workers, NEW i \in 1..Len(stack'[u])
               PROVE  /\ i < Len(stack'[u]) => stack'[u][i].waiting # NoTicket
                      /\ stack'[u][i].waiting # NoTicket => stack'[u][i].serving < stack'[u][i].waiting
                      /\ \A j \in 1..Len(stack'[u]) :
                            i < j /\ stack'[u][j].waiting # NoTicket => stack'[u][i].waiting < stack'[u][j].waiting
    BY DEF WaitsGrow
  <2>1. CASE u # w
    BY <1>1, <2>1 DEF Stacks, WaitsGrow
  <2>2. CASE u = w
    <3>1. /\ \A k \in 1..n : k < n => stack[w][k].waiting # NoTicket
          /\ \A k \in 1..n : stack[w][k].waiting # NoTicket => stack[w][k].serving < stack[w][k].waiting
          /\ \A k, j \in 1..n : k < j /\ stack[w][j].waiting # NoTicket => stack[w][k].waiting < stack[w][j].waiting
      BY DEF Stacks, WaitsGrow
    <3>2. i < n + 1 => stack'[w][i].waiting # NoTicket
      BY <1>1, <1>3, <2>2, <3>1
    <3>3. stack'[w][i].waiting # NoTicket => stack'[w][i].serving < stack'[w][i].waiting
      BY <1>1, <1>2, <1>4, <2>2, <3>1
    <3>4. ASSUME NEW j \in 1..(n + 1), i < j, stack'[w][j].waiting # NoTicket
          PROVE  stack'[w][i].waiting < stack'[w][j].waiting
      <4>1. j \in 1..n /\ i \in 1..n
        BY <1>1, <1>2, <1>4, <2>2, <3>4
      <4> QED
        BY <1>1, <3>1, <3>4, <4>1
    <3> QED
      BY <1>1, <2>2, <3>2, <3>3, <3>4
  <2> QED
    BY <2>1, <2>2
<1>10. Busy(w)'
  BY <1>1 DEF Busy
<1> QED
  BY <1>1, <1>5, <1>6, <1>7, <1>8, <1>9, <1>10 DEF Stacks

(* The innermost script of a stack ends. *)
LEMMA PopStack ==
    ASSUME TypeOK, Stacks, NEW w \in Workers, NEW h \in Tickets, Running(w), h = Top(w).serving,
           stack' = [stack EXCEPT ![w] = Pop(w)]
    PROVE  /\ Stacks' /\ \A u \in Workers : u # w => stack'[u] = stack[u]
           /\ \A u \in Workers, t \in Tickets : ServedAt(u, t)' <=> ServedAt(u, t) /\ t # h
           /\ \A u \in Workers, t \in Tickets : WaitedAt(u, t)' <=> WaitedAt(u, t)
           /\ ServedAt(w, h)
<1> DEFINE n == Len(stack[w])
<1>1. /\ n \in Nat \ {0} /\ \A u \in Workers : u # w => stack'[u] = stack[u]
      /\ Len(stack'[w]) = n - 1
      /\ \A i \in 1..(n - 1) : stack'[w][i] = stack[w][i]
      /\ stack[w][n].serving = h /\ stack[w][n].waiting = NoTicket
  <2>1. stack[w] \in Seq(Activation) /\ stack[w] # <<>>
    BY DEF TypeOK, Running, Busy
  <2>2. stack'[w] = SubSeq(stack[w], 1, n - 1) /\ \A u \in Workers : u # w => stack'[u] = stack[u]
    BY DEF TypeOK, Pop
  <2>3. n \in Nat \ {0}
    BY <2>1
  <2>4. Len(stack'[w]) = n - 1 /\ \A i \in 1..(n - 1) : stack'[w][i] = stack[w][i]
    BY <2>1, <2>2, <2>3
  <2> QED
    BY <2>2, <2>3, <2>4 DEF Running, Top
<1>2. n \in 1..n /\ 1..(n - 1) \subseteq 1..n /\ \A i \in 1..n : i \in 1..(n - 1) \/ i = n
  BY <1>1
<1>3. \A x, y \in Workers : \A k \in 1..Len(stack[x]), l \in 1..Len(stack[y]) :
          stack[x][k].serving # NoTicket /\ stack[x][k].serving = stack[y][l].serving => x = y /\ k = l
  BY DEF Stacks
<1>4. ASSUME NEW u \in Workers, NEW i \in 1..Len(stack'[u])
      PROVE  i \in 1..Len(stack[u]) /\ stack'[u][i] = stack[u][i]
  BY <1>1, <1>2
<1>5. ServedAt(w, h)
  BY <1>1, <1>2 DEF ServedAt
<1>6. ASSUME NEW u \in Workers, NEW t \in Tickets PROVE ServedAt(u, t)' <=> ServedAt(u, t) /\ t # h
  <2>1. ASSUME ServedAt(u, t)' PROVE ServedAt(u, t) /\ t # h
    <3>1. PICK i \in 1..Len(stack'[u]) : stack'[u][i].serving = t
      BY <2>1 DEF ServedAt
    <3>2. i \in 1..Len(stack[u]) /\ stack[u][i].serving = t
      BY <1>4, <3>1
    <3>3. ~(u = w /\ i = n)
      BY <1>1
    <3>4. t # NoTicket /\ h # NoTicket
      BY TicketNat
    <3>5. t # h
      BY <1>1, <1>2, <1>3, <3>2, <3>3, <3>4
    <3> QED
      BY <3>2, <3>5 DEF ServedAt
  <2>2. ASSUME ServedAt(u, t), t # h PROVE ServedAt(u, t)'
    <3>1. PICK i \in 1..Len(stack[u]) : stack[u][i].serving = t
      BY <2>2 DEF ServedAt
    <3>2. i \in 1..Len(stack'[u]) /\ stack'[u][i] = stack[u][i]
      BY <1>1, <1>2, <2>2, <3>1
    <3> QED
      BY <3>1, <3>2 DEF ServedAt
  <2> QED
    BY <2>1, <2>2
<1>7. ASSUME NEW u \in Workers, NEW t \in Tickets PROVE WaitedAt(u, t)' <=> WaitedAt(u, t)
  <2>1. ASSUME WaitedAt(u, t)' PROVE WaitedAt(u, t)
    BY <1>4, <2>1 DEF WaitedAt
  <2>2. ASSUME WaitedAt(u, t) PROVE WaitedAt(u, t)'
    <3>1. PICK i \in 1..Len(stack[u]) : stack[u][i].waiting = t
      BY <2>2 DEF WaitedAt
    <3>2. i \in 1..Len(stack'[u]) /\ stack'[u][i] = stack[u][i]
      BY <1>1, <1>2, <3>1, TicketNat
    <3> QED
      BY <3>1, <3>2 DEF WaitedAt
  <2> QED
    BY <2>1, <2>2
<1>8. Stacks'
  <2>1. WaitsGrow'
    <3> SUFFICES ASSUME NEW u \in Workers, NEW i \in 1..Len(stack'[u])
                 PROVE  /\ i < Len(stack'[u]) => stack'[u][i].waiting # NoTicket
                        /\ stack'[u][i].waiting # NoTicket => stack'[u][i].serving < stack'[u][i].waiting
                        /\ \A j \in 1..Len(stack'[u]) :
                              i < j /\ stack'[u][j].waiting # NoTicket => stack'[u][i].waiting < stack'[u][j].waiting
      BY DEF WaitsGrow
    <3>1. i < Len(stack'[u]) => i < Len(stack[u])
      BY <1>1
    <3> QED
      BY <1>4, <3>1 DEF Stacks, WaitsGrow
  <2> QED
    BY <1>3, <1>4, <2>1 DEF Stacks
<1> QED
  BY <1>1, <1>5, <1>6, <1>7, <1>8

(* The innermost script starts, or stops, waiting for t. *)
LEMMA WaitStack ==
    ASSUME TypeOK, Stacks, NEW w \in Workers, Busy(w), NEW t \in Tickets \cup {NoTicket},
           stack' = [stack EXCEPT ![w] = Waiting(w, t)],
           t # NoTicket => /\ Top(w).waiting = NoTicket /\ Top(w).serving < t
                           /\ \A x \in Tickets : WaitedAt(w, x) => x < t
    PROVE  /\ Stacks' /\ Busy(w)' /\ \A u \in Workers : u # w => stack'[u] = stack[u]
           /\ \A u \in Workers, x \in Tickets : ServedAt(u, x)' <=> ServedAt(u, x)
           /\ \A u \in Workers, x \in Tickets : u # w => (WaitedAt(u, x)' <=> WaitedAt(u, x))
           /\ \A x \in Tickets : WaitedAt(w, x)' <=> (WaitedAt(w, x) /\ x # Top(w).waiting) \/ x = t
           /\ \A x \in Tickets : x = Top(w).waiting => WaitedAt(w, x)
<1> DEFINE n == Len(stack[w])
           o == Top(w).waiting
<1>1. /\ n \in Nat \ {0} /\ \A u \in Workers : u # w => stack'[u] = stack[u]
      /\ Len(stack'[w]) = n /\ \A i \in 1..n : i # n => stack'[w][i] = stack[w][i]
      /\ \A i \in 1..n : stack'[w][i].serving = stack[w][i].serving
      /\ stack'[w][n].waiting = t /\ stack[w][n].waiting = o
  <2>1. stack[w] \in Seq(Activation) /\ stack[w] # <<>>
    BY DEF TypeOK, Busy
  <2>2. n \in Nat \ {0}
    BY <2>1
  <2>3. \A u \in Workers : u # w => stack'[u] = stack[u]
    BY DEF TypeOK
  <2>4. stack'[w] = [stack[w] EXCEPT ![n].waiting = t]
    BY DEF TypeOK, Waiting
  <2>5. stack[w][n] \in Activation
    BY <2>1, <2>2
  <2>6. stack'[w] = [stack[w] EXCEPT ![n] = [stack[w][n] EXCEPT !.waiting = t]]
    BY <2>4
  <2>7. /\ [stack[w][n] EXCEPT !.waiting = t].serving = stack[w][n].serving
        /\ [stack[w][n] EXCEPT !.waiting = t].waiting = t
    BY <2>5 DEF Activation
  <2>8. /\ Len(stack'[w]) = n /\ \A i \in 1..n : i # n => stack'[w][i] = stack[w][i]
        /\ stack'[w][n] = [stack[w][n] EXCEPT !.waiting = t]
    BY <2>1, <2>2, <2>6
  <2>9. \A i \in 1..n : stack'[w][i].serving = stack[w][i].serving
    BY <2>7, <2>8
  <2> QED
    BY <2>2, <2>3, <2>7, <2>8, <2>9 DEF Top
<1>2. n \in 1..n
  BY <1>1
<1>3. /\ \A k \in 1..n : k < n => stack[w][k].waiting # NoTicket
      /\ \A k \in 1..n : stack[w][k].waiting # NoTicket => stack[w][k].serving < stack[w][k].waiting
      /\ \A k, j \in 1..n : k < j /\ stack[w][j].waiting # NoTicket => stack[w][k].waiting < stack[w][j].waiting
  BY DEF Stacks, WaitsGrow
<1>4. /\ \A i \in 1..n : /\ stack[w][i].serving \in Tickets \cup {NoTicket}
                         /\ stack[w][i].waiting \in Tickets \cup {NoTicket}
      /\ Tickets \cup {NoTicket} \subseteq Nat /\ NoTicket = 0 /\ NoTicket \notin Tickets
  BY StackElements, TicketNat
<1>5. \A i \in 1..n : i # n => stack[w][i].waiting # o \/ o = NoTicket
  BY <1>1, <1>2, <1>3, <1>4
<1>6. ASSUME NEW u \in Workers, NEW x \in Tickets PROVE ServedAt(u, x)' <=> ServedAt(u, x)
  <2>1. CASE u = w
    BY <1>1, <2>1 DEF ServedAt
  <2>2. CASE u # w
    BY <1>1, <2>2 DEF ServedAt
  <2> QED
    BY <2>1, <2>2
<1>7. ASSUME NEW u \in Workers, NEW x \in Tickets, u # w PROVE WaitedAt(u, x)' <=> WaitedAt(u, x)
  BY <1>1, <1>7 DEF WaitedAt
<1>8. ASSUME NEW x \in Tickets PROVE WaitedAt(w, x)' <=> (WaitedAt(w, x) /\ x # o) \/ x = t
  <2>1. ASSUME WaitedAt(w, x)' PROVE (WaitedAt(w, x) /\ x # o) \/ x = t
    <3>1. PICK i \in 1..n : stack'[w][i].waiting = x
      BY <1>1, <2>1 DEF WaitedAt
    <3>2. CASE i = n
      BY <1>1, <3>1, <3>2
    <3>3. CASE i # n
      <4>1. stack[w][i].waiting = x /\ x # o
        BY <1>1, <1>4, <1>5, <3>1, <3>3
      <4> QED
        BY <4>1 DEF WaitedAt
    <3> QED
      BY <3>2, <3>3
  <2>2. ASSUME x = t PROVE WaitedAt(w, x)'
    BY <1>1, <1>2, <2>2 DEF WaitedAt
  <2>3. ASSUME WaitedAt(w, x), x # o PROVE WaitedAt(w, x)'
    <3>1. PICK i \in 1..n : stack[w][i].waiting = x
      BY <2>3 DEF WaitedAt
    <3>2. i # n /\ stack'[w][i] = stack[w][i]
      BY <1>1, <2>3, <3>1
    <3> QED
      BY <1>1, <3>1, <3>2 DEF WaitedAt
  <2> QED
    BY <2>1, <2>2, <2>3
<1>9. ASSUME NEW x \in Tickets, x = o PROVE WaitedAt(w, x)
  BY <1>1, <1>2, <1>9 DEF WaitedAt
<1>10. Stacks'
  <2>1. ASSUME NEW u \in Workers
        PROVE  Len(stack'[u]) = Len(stack[u]) /\ \A i \in 1..Len(stack[u]) : stack'[u][i].serving = stack[u][i].serving
    BY <1>1
  <2>2. WaitsGrow'
    <3> SUFFICES ASSUME NEW u \in Workers, NEW i \in 1..Len(stack'[u])
                 PROVE  /\ i < Len(stack'[u]) => stack'[u][i].waiting # NoTicket
                        /\ stack'[u][i].waiting # NoTicket => stack'[u][i].serving < stack'[u][i].waiting
                        /\ \A j \in 1..Len(stack'[u]) :
                              i < j /\ stack'[u][j].waiting # NoTicket => stack'[u][i].waiting < stack'[u][j].waiting
      BY DEF WaitsGrow
    <3>1. CASE u # w
      BY <1>1, <3>1 DEF Stacks, WaitsGrow
    <3>2. CASE u = w
      <4>1. i \in 1..n
        BY <1>1, <3>2
      <4>2. i < n => stack'[w][i].waiting # NoTicket
        BY <1>1, <1>3, <4>1
      <4>3. stack'[w][i].waiting # NoTicket => stack'[w][i].serving < stack'[w][i].waiting
        <5>1. CASE i = n
          BY <1>1, <5>1 DEF Top
        <5>2. CASE i # n
          BY <1>1, <1>3, <4>1, <5>2
        <5> QED
          BY <5>1, <5>2
      <4>4. ASSUME NEW j \in 1..n, i < j, stack'[w][j].waiting # NoTicket
            PROVE  stack'[w][i].waiting < stack'[w][j].waiting
        <5>1. i # n /\ stack'[w][i] = stack[w][i] /\ stack[w][i].waiting \in Tickets
          BY <1>1, <1>3, <1>4, <4>1, <4>4
        <5>2. CASE j = n
          <6>1. WaitedAt(w, stack[w][i].waiting)
            BY <4>1 DEF WaitedAt
          <6> QED
            BY <1>1, <4>4, <5>1, <5>2, <6>1
        <5>3. CASE j # n
          BY <1>1, <1>3, <4>1, <4>4, <5>1, <5>3
        <5> QED
          BY <5>2, <5>3
      <4> QED
        BY <1>1, <3>2, <4>2, <4>3, <4>4
    <3> QED
      BY <3>1, <3>2
  <2>3. \A u, v \in Workers : \A i \in 1..Len(stack'[u]), j \in 1..Len(stack'[v]) :
           stack'[u][i].serving # NoTicket /\ stack'[u][i].serving = stack'[v][j].serving => u = v /\ i = j
    BY <2>1 DEF Stacks
  <2>4. \A u \in Workers : \A i \in 1..Len(stack'[u]) : i > 1 => stack'[u][i].serving # NoTicket
    BY <2>1 DEF Stacks
  <2> QED
    BY <2>2, <2>3, <2>4 DEF Stacks
<1>11. Busy(w)'
  BY <1>1 DEF Busy
<1> QED
  BY <1>1, <1>6, <1>7, <1>8, <1>9, <1>10, <1>11

(* The thread goes back to its loop: every activation is gone. *)
LEMMA ClearStack ==
    ASSUME TypeOK, Stacks, NEW w \in Workers, Resume(w)
    PROVE  /\ Stacks' /\ \A u \in Workers : u # w => stack'[u] = stack[u]
           /\ \A u \in Workers, x \in Tickets : ServedAt(u, x)' <=> ServedAt(u, x) /\ u # w
           /\ \A u \in Workers, x \in Tickets : WaitedAt(u, x)' <=> WaitedAt(u, x) /\ u # w
<1>1. /\ \A u \in Workers : u # w => stack'[u] = stack[u]
      /\ \/ Len(stack'[w]) = 0
         \/ Len(stack'[w]) = 1 /\ stack'[w][1] = [serving |-> NoTicket, waiting |-> NoTicket]
  BY DEF TypeOK, Resume
<1>2. ASSUME NEW i \in 1..Len(stack'[w])
      PROVE  i = 1 /\ Len(stack'[w]) = 1 /\ stack'[w][i].serving = NoTicket /\ stack'[w][i].waiting = NoTicket
  <2>1. CASE Len(stack'[w]) = 0
    BY <2>1
  <2>2. CASE Len(stack'[w]) = 1 /\ stack'[w][1] = [serving |-> NoTicket, waiting |-> NoTicket]
    <3>1. i = 1
      BY <2>2
    <3>2. stack'[w][i] = [serving |-> NoTicket, waiting |-> NoTicket]
      BY <2>2, <3>1
    <3> QED
      BY <2>2, <3>1, <3>2
  <2> QED
    BY <1>1, <2>1, <2>2
<1>3. \A u \in Workers, x \in Tickets : ServedAt(u, x)' <=> ServedAt(u, x) /\ u # w
  <2>1. \A x \in Tickets : ~ServedAt(w, x)'
    BY <1>2, TicketNat DEF ServedAt
  <2>2. \A u \in Workers, x \in Tickets : u # w => (ServedAt(u, x)' <=> ServedAt(u, x))
    BY <1>1 DEF ServedAt
  <2> QED
    BY <2>1, <2>2
<1>4. \A u \in Workers, x \in Tickets : WaitedAt(u, x)' <=> WaitedAt(u, x) /\ u # w
  <2>1. \A x \in Tickets : ~WaitedAt(w, x)'
    BY <1>2, TicketNat DEF WaitedAt
  <2>2. \A u \in Workers, x \in Tickets : u # w => (WaitedAt(u, x)' <=> WaitedAt(u, x))
    BY <1>1 DEF WaitedAt
  <2> QED
    BY <2>1, <2>2
<1>5. \A u, v \in Workers : \A i \in 1..Len(stack'[u]), j \in 1..Len(stack'[v]) :
         stack'[u][i].serving # NoTicket /\ stack'[u][i].serving = stack'[v][j].serving => u = v /\ i = j
  <2> SUFFICES ASSUME NEW u \in Workers, NEW v \in Workers, NEW i \in 1..Len(stack'[u]), NEW j \in 1..Len(stack'[v]),
                      stack'[u][i].serving # NoTicket, stack'[u][i].serving = stack'[v][j].serving
               PROVE  u = v /\ i = j
    OBVIOUS
  <2>1. u # w /\ v # w
    BY <1>2
  <2> QED
    BY <1>1, <2>1 DEF Stacks
<1>6. \A u \in Workers : \A i \in 1..Len(stack'[u]) : i > 1 => stack'[u][i].serving # NoTicket
  BY <1>1, <1>2 DEF Stacks
<1>7. WaitsGrow'
  <2> SUFFICES ASSUME NEW u \in Workers, NEW i \in 1..Len(stack'[u])
               PROVE  /\ i < Len(stack'[u]) => stack'[u][i].waiting # NoTicket
                      /\ stack'[u][i].waiting # NoTicket => stack'[u][i].serving < stack'[u][i].waiting
                      /\ \A j \in 1..Len(stack'[u]) :
                            i < j /\ stack'[u][j].waiting # NoTicket => stack'[u][i].waiting < stack'[u][j].waiting
    BY DEF WaitsGrow
  <2>1. CASE u = w
    BY <1>2, <2>1
  <2>2. CASE u # w
    BY <1>1, <2>2 DEF Stacks, WaitsGrow
  <2> QED
    BY <2>1, <2>2
<1> QED
  BY <1>1, <1>3, <1>4, <1>5, <1>6, <1>7 DEF Stacks

LEMMA SameStack ==
    ASSUME stack' = stack, Stacks
    PROVE  /\ Stacks'
           /\ \A u \in Workers, x \in Tickets : ServedAt(u, x)' <=> ServedAt(u, x)
           /\ \A u \in Workers, x \in Tickets : WaitedAt(u, x)' <=> WaitedAt(u, x)
  BY DEF Stacks, WaitsGrow, ServedAt, WaitedAt

(* A request is queued behind the others. *)
LEMMA AppendInbox ==
    ASSUME TypeOK, Queues, NEW v \in Workers, NEW t \in Tickets, inbox' = [inbox EXCEPT ![v] = Append(@, t)],
           \A u \in Workers : ~QueuedAt(u, t)
    PROVE  /\ Queues' /\ \A u \in Workers, x \in Tickets : QueuedAt(u, x)' <=> QueuedAt(u, x) \/ (u = v /\ x = t)
           /\ Len(inbox'[v]) = Len(inbox[v]) + 1 /\ Len(inbox[v]) \in Nat
           /\ \A u \in Workers : u # v => inbox'[u] = inbox[u]
<1> DEFINE n == Len(inbox[v])
<1>1. /\ n \in Nat /\ \A u \in Workers : u # v => inbox'[u] = inbox[u]
      /\ Len(inbox'[v]) = n + 1 /\ inbox'[v][n + 1] = t
      /\ \A i \in 1..n : inbox'[v][i] = inbox[v][i]
  <2>1. inbox[v] \in Seq(Tickets) /\ inbox'[v] = Append(inbox[v], t) /\ \A u \in Workers : u # v => inbox'[u] = inbox[u]
    BY DEF TypeOK
  <2> QED
    BY <2>1
<1>2. /\ \A i \in 1..(n + 1) : i \in 1..n \/ i = n + 1
      /\ n + 1 \in 1..(n + 1) /\ 1..n \subseteq 1..(n + 1)
  BY <1>1
<1>3. ASSUME NEW u \in Workers, NEW x \in Tickets PROVE QueuedAt(u, x)' <=> QueuedAt(u, x) \/ (u = v /\ x = t)
  <2>1. ASSUME u = v, QueuedAt(v, x)' PROVE QueuedAt(v, x) \/ x = t
    BY <1>1, <1>2, <2>1 DEF QueuedAt
  <2>2. ASSUME u = v, QueuedAt(v, x) \/ x = t PROVE QueuedAt(v, x)'
    BY <1>1, <1>2, <2>2 DEF QueuedAt
  <2>3. ASSUME u # v PROVE QueuedAt(u, x)' <=> QueuedAt(u, x)
    BY <1>1, <2>3 DEF QueuedAt
  <2>4. CASE u = v
    <3>1. QueuedAt(v, x)' <=> QueuedAt(v, x) \/ x = t
      BY <2>1, <2>2, <2>4
    <3>2. QueuedAt(u, x)' <=> QueuedAt(v, x)'
      BY <2>4 DEF QueuedAt
    <3> QED
      BY <2>4, <3>1, <3>2
  <2> QED
    BY <2>3, <2>4
<1>4. Queues'
  <2> SUFFICES ASSUME NEW u \in Workers, NEW w \in Workers, NEW i \in 1..Len(inbox'[u]), NEW j \in 1..Len(inbox'[w]),
                      inbox'[u][i] = inbox'[w][j]
               PROVE  u = w /\ i = j
    BY DEF Queues
  <2>1. (u = v /\ i = n + 1) \/ (i \in 1..Len(inbox[u]) /\ inbox'[u][i] = inbox[u][i])
    BY <1>1, <1>2
  <2>2. (w = v /\ j = n + 1) \/ (j \in 1..Len(inbox[w]) /\ inbox'[w][j] = inbox[w][j])
    BY <1>1, <1>2
  <2>3. \A x \in Workers : \A k \in 1..Len(inbox[x]) : inbox[x][k] # t
    BY DEF QueuedAt
  <2>5. CASE u = v /\ i = n + 1 /\ w = v /\ j = n + 1
    BY <2>5
  <2>6. CASE u = v /\ i = n + 1 /\ j \in 1..Len(inbox[w]) /\ inbox'[w][j] = inbox[w][j]
    BY <1>1, <2>3, <2>6
  <2>7. CASE i \in 1..Len(inbox[u]) /\ inbox'[u][i] = inbox[u][i] /\ w = v /\ j = n + 1
    BY <1>1, <2>3, <2>7
  <2>8. CASE i \in 1..Len(inbox[u]) /\ inbox'[u][i] = inbox[u][i] /\ j \in 1..Len(inbox[w]) /\ inbox'[w][j] = inbox[w][j]
    BY <2>8 DEF Queues
  <2> QED
    BY <2>1, <2>2, <2>5, <2>6, <2>7, <2>8
<1> QED
  BY <1>1, <1>3, <1>4

(* The oldest request is taken to be served. *)
LEMMA TakeInbox ==
    ASSUME TypeOK, Queues, NEW w \in Workers, inbox[w] # <<>>, inbox' = [inbox EXCEPT ![w] = Tail(@)]
    PROVE  \E h \in Tickets :
             /\ h = Head(inbox[w]) /\ QueuedAt(w, h) /\ Queues'
             /\ \A u \in Workers, x \in Tickets : QueuedAt(u, x)' <=> QueuedAt(u, x) /\ x # h
             /\ Len(inbox'[w]) = Len(inbox[w]) - 1 /\ Len(inbox[w]) \in Nat \ {0}
             /\ \A u \in Workers : u # w => inbox'[u] = inbox[u]
<1> DEFINE n == Len(inbox[w])
           h == Head(inbox[w])
<1>1. /\ n \in Nat \ {0} /\ \A u \in Workers : u # w => inbox'[u] = inbox[u]
      /\ Len(inbox'[w]) = n - 1 /\ \A i \in 1..(n - 1) : inbox'[w][i] = inbox[w][i + 1]
      /\ h = inbox[w][1] /\ h \in Tickets
  <2>1. inbox[w] \in Seq(Tickets) /\ inbox'[w] = Tail(inbox[w]) /\ \A u \in Workers : u # w => inbox'[u] = inbox[u]
    BY DEF TypeOK
  <2>2. n \in Nat \ {0}
    BY <2>1
  <2>3. Len(inbox'[w]) = n - 1 /\ \A i \in 1..Len(inbox'[w]) : inbox'[w][i] = inbox[w][i + 1]
    <3>1. ASSUME NEW s \in Seq(Tickets), s # <<>>
          PROVE  Len(Tail(s)) = Len(s) - 1 /\ \A i \in 1..Len(Tail(s)) : Tail(s)[i] = s[i + 1]
      BY <3>1, HeadTailProperties
    <3> QED
      BY <2>1, <3>1, ZenonT(60)
  <2>4. \A i \in 1..(n - 1) : inbox'[w][i] = inbox[w][i + 1]
    BY <2>3
  <2>5. h = inbox[w][1] /\ h \in Tickets
    BY <2>1, <2>2
  <2> QED
    BY <2>1, <2>2, <2>3, <2>4, <2>5
<1> HIDE DEF h
<1>2. 1 \in 1..n /\ \A i \in 1..(n - 1) : i + 1 \in 1..n /\ i + 1 # 1
  BY <1>1
<1>3. \A x, y \in Workers : \A k \in 1..Len(inbox[x]), l \in 1..Len(inbox[y]) : inbox[x][k] = inbox[y][l] => x = y /\ k = l
  BY DEF Queues
<1>4. ASSUME NEW u \in Workers, NEW x \in Tickets PROVE QueuedAt(u, x)' <=> QueuedAt(u, x) /\ x # h
  <2>1. CASE u # w
    <3>1. ~QueuedAt(u, h)
      BY <1>1, <1>2, <1>3, <2>1 DEF QueuedAt
    <3> QED
      BY <1>1, <2>1, <3>1 DEF QueuedAt
  <2>2. CASE u = w
    <3>1. ASSUME QueuedAt(w, x)' PROVE QueuedAt(w, x) /\ x # h
      <4>1. PICK i \in 1..(n - 1) : inbox'[w][i] = x
        BY <1>1, <3>1 DEF QueuedAt
      <4>2. i + 1 \in 1..n /\ i + 1 # 1 /\ inbox[w][i + 1] = x
        BY <1>1, <1>2, <4>1
      <4>3. x # h
        BY <1>1, <1>2, <1>3, <4>2
      <4> QED
        BY <4>2, <4>3 DEF QueuedAt
    <3>2. ASSUME QueuedAt(w, x), x # h PROVE QueuedAt(w, x)'
      <4>1. PICK i \in 1..n : inbox[w][i] = x
        BY <3>2 DEF QueuedAt
      <4>2. i - 1 \in 1..(n - 1) /\ (i - 1) + 1 = i
        BY <1>1, <3>2, <4>1
      <4>3. inbox'[w][i - 1] = x
        BY <1>1, <4>1, <4>2
      <4> QED
        BY <1>1, <4>2, <4>3 DEF QueuedAt
    <3> QED
      BY <2>2, <3>1, <3>2
  <2> QED
    BY <2>1, <2>2
<1>5. QueuedAt(w, h)
  BY <1>1, <1>2 DEF QueuedAt
<1>6. Queues'
  <2> SUFFICES ASSUME NEW u \in Workers, NEW v \in Workers, NEW i \in 1..Len(inbox'[u]), NEW j \in 1..Len(inbox'[v]),
                      inbox'[u][i] = inbox'[v][j]
               PROVE  u = v /\ i = j
    BY DEF Queues
  <2>1. PICK k \in 1..Len(inbox[u]) : inbox'[u][i] = inbox[u][k] /\ k = IF u = w THEN i + 1 ELSE i
    <3>1. CASE u = w
      BY <1>1, <1>2, <3>1
    <3>2. CASE u # w
      BY <1>1, <3>2
    <3> QED
      BY <3>1, <3>2
  <2>2. PICK l \in 1..Len(inbox[v]) : inbox'[v][j] = inbox[v][l] /\ l = IF v = w THEN j + 1 ELSE j
    <3>1. CASE v = w
      BY <1>1, <1>2, <3>1
    <3>2. CASE v # w
      BY <1>1, <3>2
    <3> QED
      BY <3>1, <3>2
  <2>3. u = v /\ k = l
    BY <1>3, <2>1, <2>2
  <2> QED
    BY <2>1, <2>2, <2>3
<1> QED
  BY <1>1, <1>4, <1>5, <1>6 DEF h

(* A retired worker's queue is emptied. *)
LEMMA EmptyInbox ==
    ASSUME TypeOK, Queues, NEW w \in Workers, inbox' = [inbox EXCEPT ![w] = <<>>]
    PROVE  /\ Queues' /\ Len(inbox'[w]) = 0 /\ \A u \in Workers : u # w => inbox'[u] = inbox[u]
           /\ \A u \in Workers, x \in Tickets : QueuedAt(u, x)' <=> QueuedAt(u, x) /\ u # w
<1>1. Len(inbox'[w]) = 0 /\ \A u \in Workers : u # w => inbox'[u] = inbox[u]
  BY DEF TypeOK
<1>2. \A u \in Workers, x \in Tickets : QueuedAt(u, x)' <=> QueuedAt(u, x) /\ u # w
  BY <1>1 DEF QueuedAt
<1>3. \A u \in Workers : \A i \in 1..Len(inbox'[u]) : u # w
  BY <1>1
<1>4. Queues'
  BY <1>1, <1>3 DEF Queues
<1> QED
  BY <1>1, <1>2, <1>4

LEMMA SameInbox ==
    ASSUME inbox' = inbox, Queues
    PROVE  Queues' /\ \A u \in Workers, x \in Tickets : QueuedAt(u, x)' <=> QueuedAt(u, x)
  BY DEF Queues, QueuedAt

-----------------------------------------------------------------------------
(* Bells. *)

LEMMA RingersFinite ==
    ASSUME NEW w \in Workers
    PROVE  IsFiniteSet(Ringers(w)) /\ Cardinality(Ringers(w)) \in Nat
<1>1. Ringers(w) \in SUBSET Workers
  BY DEF Ringers
<1> QED
  BY <1>1, BusAssumption, FS_Subset, FS_CardinalityType

(* A step that rings nobody keeps the bells in order when each worker's queue
   shrinks at least as much as its bells and its grace together. *)
LEMMA RungKept ==
    ASSUME TypeOK, TypeOK', Rung, ringing' = ringing,
           \A u \in Workers : phase'[u] # "stopped" =>
              \/ Len(inbox'[u]) = 0
              \/ /\ phase[u] # "stopped"
                 /\ Len(inbox'[u]) + bells[u] + Grace(u) <= Len(inbox[u]) + bells'[u] + Grace(u)'
    PROVE  Rung'
<1> SUFFICES ASSUME NEW u \in Workers, phase'[u] # "stopped"
             PROVE  Len(inbox'[u]) <= bells'[u] + Cardinality(Ringers(u)') + Grace(u)'
  BY DEF Rung
<1>1. Ringers(u)' = Ringers(u)
  BY DEF Ringers
<1>2. Cardinality(Ringers(u)) \in Nat
  BY RingersFinite
<1>3. /\ bells[u] \in Nat /\ bells'[u] \in Nat /\ inbox[u] \in Seq(Tickets) /\ inbox'[u] \in Seq(Tickets)
  BY DEF TypeOK
<1>4. Len(inbox[u]) \in Nat /\ Len(inbox'[u]) \in Nat
  BY <1>3
<1>5. Grace(u) \in {0, 1} /\ Grace(u)' \in {0, 1}
  BY DEF Grace
<1>6. CASE Len(inbox'[u]) = 0
  BY <1>1, <1>2, <1>3, <1>5, <1>6
<1>7. CASE /\ phase[u] # "stopped"
           /\ Len(inbox'[u]) + bells[u] + Grace(u) <= Len(inbox[u]) + bells'[u] + Grace(u)'
  <2>1. Len(inbox[u]) <= bells[u] + Cardinality(Ringers(u)) + Grace(u)
    BY <1>7 DEF Rung
  <2>2. ASSUME NEW a \in Nat, NEW b \in Nat, NEW c \in Nat, NEW d \in Nat, NEW e \in Nat,
               NEW g \in {0, 1}, NEW k \in {0, 1}, a + b + g <= c + d + k, c <= b + e + g
        PROVE  a <= d + e + k
    BY <2>2
  <2>3. Len(inbox'[u]) <= bells'[u] + Cardinality(Ringers(u)) + Grace(u)'
    BY <1>2, <1>3, <1>4, <1>5, <1>7, <2>1, <2>2
  <2> QED
    BY <1>1, <2>3
<1> QED
  BY <1>6, <1>7

(* A step that leaves queues, bells and phases alone and empties no stack but
   one it ends. *)
LEMMA RungSame ==
    ASSUME TypeOK, TypeOK', Rung, ringing' = ringing, bells' = bells, phase' = phase, inbox' = inbox,
           \A u \in Workers : Busy(u)' => Busy(u)
    PROVE  Rung'
<1>1. ASSUME NEW u \in Workers, phase'[u] # "stopped"
      PROVE  Len(inbox'[u]) + bells[u] + Grace(u) <= Len(inbox[u]) + bells'[u] + Grace(u)'
  <2>1. bells[u] \in Nat /\ inbox[u] \in Seq(Tickets)
    BY DEF TypeOK
  <2>2. Len(inbox[u]) \in Nat
    BY <2>1
  <2> QED
    BY <2>1, <2>2 DEF Grace
<1> QED
  BY <1>1, RungKept

-----------------------------------------------------------------------------
(* Steps that move no request. *)

LEMMA RequestsSame ==
    ASSUME Requests, nextTicket' = nextTicket, inbox' = inbox, replies' = replies, awaiting' = awaiting,
           retired' = retired, parked' = parked, stack' = stack, lost' = lost
    PROVE  Requests'
<1>1. /\ Stacks'
      /\ \A u \in Workers, x \in Tickets : ServedAt(u, x)' <=> ServedAt(u, x)
      /\ \A u \in Workers, x \in Tickets : WaitedAt(u, x)' <=> WaitedAt(u, x)
  BY SameStack DEF Requests
<1>2. Queues' /\ \A u \in Workers, x \in Tickets : QueuedAt(u, x)' <=> QueuedAt(u, x)
  BY SameInbox DEF Requests
<1>3. Issued'
  BY <1>1, <1>2 DEF Requests, Issued
<1>4. Owed'
  BY <1>1, <1>2 DEF Requests, Owed
<1>5. Apart'
  BY <1>1, <1>2 DEF Requests, Apart
<1>6. OneWaiter'
  BY <1>1, <1>2 DEF Requests, OneWaiter
<1>7. Answerable'
  BY <1>1, <1>2 DEF Requests, Answerable
<1> QED
  BY <1>1, <1>2, <1>3, <1>4, <1>5, <1>6, <1>7 DEF Requests

(* The loop's own steps, and those of the wake-ups. *)
LEMMA RegisterInv ==
    ASSUME IInv, TypeOK', NEW w \in Workers, Register(w)
    PROVE  IInv'
<1> USE DEF IInv
<1>1. /\ nextTicket' = nextTicket /\ inbox' = inbox /\ replies' = replies /\ awaiting' = awaiting
      /\ retired' = retired /\ parked' = parked /\ stack' = stack /\ lost' = lost
      /\ replyWakers' = replyWakers /\ woken' = woken /\ phase' = phase /\ bells' = bells /\ ringing' = ringing
  BY DEF Register, threadVars
<1>2. Requests'
  BY <1>1, RequestsSame
<1>3. NoLostWakeup'
  BY <1>1 DEF NoLostWakeup
<1>4. Rung' /\ Rooted'
  BY <1>1, RungSame DEF Busy, Rooted
<1> QED
  BY <1>2, <1>3, <1>4

LEMMA RingInv ==
    ASSUME IInv, TypeOK', NEW w \in Workers, Ring(w)
    PROVE  IInv'
<1> USE DEF IInv
<1>1. /\ nextTicket' = nextTicket /\ inbox' = inbox /\ replies' = replies /\ awaiting' = awaiting
      /\ retired' = retired /\ parked' = parked /\ stack' = stack /\ lost' = lost
      /\ replyWakers' = replyWakers /\ woken' = woken /\ phase' = phase
  BY DEF Ring, hubVars
<1>2. Requests'
  BY <1>1, RequestsSame
<1>3. NoLostWakeup'
  BY <1>1 DEF NoLostWakeup
<1>4. Rooted'
  BY <1>1 DEF Busy, Rooted
<1>5. Rung'
  <2> SUFFICES ASSUME NEW u \in Workers, phase[u] # "stopped"
               PROVE  Len(inbox[u]) <= bells'[u] + Cardinality(Ringers(u)') + Grace(u)
    BY <1>1 DEF Rung, Grace, Busy
  <2> DEFINE v == ringing[w]
  <2>1. /\ v \in Workers /\ v # NoWorker /\ bells[u] \in Nat /\ inbox[u] \in Seq(Tickets)
        /\ \A x \in Workers : ringing'[x] = IF x = w THEN NoWorker ELSE ringing[x]
    BY DEF TypeOK, Ring
  <2>2. bells'[u] = IF u = v THEN bells[u] + 1 ELSE bells[u]
    BY <2>1 DEF TypeOK, Ring
  <2>3. Len(inbox[u]) \in Nat /\ Grace(u) \in {0, 1}
    BY <2>1 DEF Grace
  <2>4. Len(inbox[u]) <= bells[u] + Cardinality(Ringers(u)) + Grace(u)
    BY DEF Rung
  <2>5. IsFiniteSet(Ringers(u)) /\ Cardinality(Ringers(u)) \in Nat
    BY RingersFinite
  <2>6. CASE u = v
    <3>1. Ringers(u)' = Ringers(u) \ {w} /\ w \in Ringers(u)
      BY <2>1, <2>6, BusAssumption DEF Ringers
    <3>2. Cardinality(Ringers(u)') = Cardinality(Ringers(u)) - 1
      BY <2>5, <3>1, FS_RemoveElement
    <3> QED
      BY <2>1, <2>2, <2>3, <2>4, <2>5, <2>6, <3>2
  <2>7. CASE u # v
    <3>1. Ringers(u)' = Ringers(u)
      BY <2>1, <2>7, BusAssumption DEF Ringers
    <3> QED
      BY <2>2, <2>4, <2>7, <3>1
  <2> QED
    BY <2>6, <2>7
<1> QED
  BY <1>2, <1>3, <1>4, <1>5

LEMMA TakeServeBusInv ==
    ASSUME IInv, TypeOK', NEW w \in Workers, TakeServeBus(w)
    PROVE  IInv'
<1> USE DEF IInv
<1>1. /\ nextTicket' = nextTicket /\ inbox' = inbox /\ replies' = replies /\ awaiting' = awaiting
      /\ retired' = retired /\ parked' = parked /\ stack' = stack /\ lost' = lost
      /\ replyWakers' = replyWakers /\ woken' = woken /\ ringing' = ringing /\ ~Busy(w)
  BY DEF TakeServeBus, Unoccupied, hubVars
<1>2. Requests'
  BY <1>1, RequestsSame
<1>3. NoLostWakeup'
  BY <1>1 DEF NoLostWakeup
<1>4. /\ phase[w] = "idle" /\ bells[w] \in Nat \ {0}
      /\ \A u \in Workers : phase'[u] = IF u = w THEN "preServe" ELSE phase[u]
      /\ \A u \in Workers : bells'[u] = IF u = w THEN bells[u] - 1 ELSE bells[u]
  BY DEF TakeServeBus, TypeOK
<1>5. Rooted'
  BY <1>1, <1>4 DEF Busy, Rooted
<1>6. Rung'
  <2>1. ASSUME NEW u \in Workers, phase'[u] # "stopped"
        PROVE  /\ phase[u] # "stopped"
               /\ Len(inbox'[u]) + bells[u] + Grace(u) <= Len(inbox[u]) + bells'[u] + Grace(u)'
    <3>1. bells[u] \in Nat /\ inbox[u] \in Seq(Tickets)
      BY DEF TypeOK
    <3>2. Len(inbox[u]) \in Nat
      BY <3>1
    <3>3. CASE u = w
      <4>1. Grace(u) = 0 /\ Grace(u)' = 1
        BY <1>1, <1>4, <3>3 DEF Grace, Busy
      <4> QED
        BY <1>1, <1>4, <3>1, <3>2, <3>3, <4>1
    <3>4. CASE u # w
      <4>1. Grace(u)' = Grace(u) /\ Grace(u) \in {0, 1}
        BY <1>1, <1>4, <3>4 DEF Grace, Busy
      <4> QED
        BY <1>1, <1>4, <2>1, <3>1, <3>2, <3>4, <4>1
    <3> QED
      BY <3>3, <3>4
  <2> QED
    BY <1>1, <2>1, RungKept
<1> QED
  BY <1>2, <1>3, <1>5, <1>6

LEMMA TakeCommandInv ==
    ASSUME IInv, TypeOK', NEW w \in Workers, TakeCommand(w)
    PROVE  IInv'
<1> USE DEF IInv
<1>1. /\ nextTicket' = nextTicket /\ inbox' = inbox /\ replies' = replies /\ awaiting' = awaiting
      /\ retired' = retired /\ parked' = parked /\ stack' = stack /\ lost' = lost /\ bells' = bells
      /\ replyWakers' = replyWakers /\ woken' = woken /\ ringing' = ringing /\ ~Busy(w)
  BY DEF TakeCommand, Unoccupied, hubVars
<1>2. Requests'
  BY <1>1, RequestsSame
<1>3. NoLostWakeup'
  BY <1>1 DEF NoLostWakeup
<1>4. phase[w] = "idle" /\ \A u \in Workers : phase'[u] = IF u = w THEN "preRun" ELSE phase[u]
  BY DEF TakeCommand, TypeOK
<1>5. Rooted'
  BY <1>1, <1>4 DEF Busy, Rooted
<1>6. Rung'
  <2>1. ASSUME NEW u \in Workers, phase'[u] # "stopped"
        PROVE  /\ phase[u] # "stopped"
               /\ Len(inbox'[u]) + bells[u] + Grace(u) <= Len(inbox[u]) + bells'[u] + Grace(u)'
    <3>1. bells[u] \in Nat /\ inbox[u] \in Seq(Tickets)
      BY DEF TypeOK
    <3>2. Len(inbox[u]) \in Nat
      BY <3>1
    <3>3. Grace(u)' = Grace(u) /\ Grace(u) \in {0, 1}
      BY <1>1, <1>4 DEF Grace, Busy
    <3> QED
      BY <1>1, <1>4, <2>1, <3>1, <3>2, <3>3
  <2> QED
    BY <1>1, <2>1, RungKept
<1> QED
  BY <1>2, <1>3, <1>5, <1>6

LEMMA StopInv ==
    ASSUME IInv, TypeOK', NEW w \in Workers, Stop(w)
    PROVE  IInv'
<1> USE DEF IInv
<1>1. /\ nextTicket' = nextTicket /\ inbox' = inbox /\ replies' = replies /\ awaiting' = awaiting
      /\ retired' = retired /\ stack' = stack /\ lost' = lost
      /\ replyWakers' = replyWakers /\ ringing' = ringing /\ ~Busy(w)
  BY DEF Stop, Unoccupied, hubVars
<1>0. \A x \in Tickets : parked'[x] # NoWorker => parked'[x] = parked[x] /\ (x \in woken => x \in woken')
  BY DEF Stop, TypeOK
<1>2. Requests'
  <2>1. /\ Stacks'
        /\ \A u \in Workers, x \in Tickets : ServedAt(u, x)' <=> ServedAt(u, x)
        /\ \A u \in Workers, x \in Tickets : WaitedAt(u, x)' <=> WaitedAt(u, x)
    BY <1>1, SameStack DEF Requests
  <2>2. Queues' /\ \A u \in Workers, x \in Tickets : QueuedAt(u, x)' <=> QueuedAt(u, x)
    BY <1>1, SameInbox DEF Requests
  <2>3. Issued'
    BY <1>0, <1>1, <2>1, <2>2 DEF Requests, Issued
  <2>4. Owed' /\ Apart'
    BY <1>1, <2>1, <2>2 DEF Requests, Owed, Apart
  <2>5. OneWaiter' /\ Answerable'
    BY <1>0, <1>1, <2>1 DEF Requests, OneWaiter, Answerable
  <2> QED
    BY <2>1, <2>2, <2>3, <2>4, <2>5 DEF Requests
<1>3. NoLostWakeup'
  BY <1>0, <1>1 DEF NoLostWakeup
<1>4. /\ phase[w] \in {"idle", "stopping"} /\ phase'[w] \in {"stopping", "stopped"}
      /\ \A u \in Workers : u # w => phase'[u] = phase[u] /\ bells'[u] = bells[u]
      /\ phase'[w] # "stopped" => bells'[w] = bells[w]
  BY DEF Stop, TypeOK
<1>5. Rooted'
  BY <1>1, <1>4 DEF Busy, Rooted
<1>6. Rung'
  <2>1. ASSUME NEW u \in Workers, phase'[u] # "stopped"
        PROVE  /\ phase[u] # "stopped"
               /\ Len(inbox'[u]) + bells[u] + Grace(u) <= Len(inbox[u]) + bells'[u] + Grace(u)'
    <3>1. bells[u] \in Nat /\ inbox[u] \in Seq(Tickets)
      BY DEF TypeOK
    <3>2. Len(inbox[u]) \in Nat
      BY <3>1
    <3>3. Grace(u)' = Grace(u) /\ Grace(u) \in {0, 1}
      BY <1>1, <1>4 DEF Grace, Busy
    <3>4. bells'[u] = bells[u] /\ phase[u] # "stopped"
      BY <1>4, <2>1
    <3> QED
      BY <1>1, <3>1, <3>2, <3>3, <3>4
  <2> QED
    BY <1>1, <2>1, RungKept
<1> QED
  BY <1>2, <1>3, <1>5, <1>6

LEMMA PollPendingInv ==
    ASSUME IInv, TypeOK', NEW t \in Tickets, PollPending(t)
    PROVE  IInv'
<1> USE DEF IInv
<1>1. /\ nextTicket' = nextTicket /\ inbox' = inbox /\ replies' = replies /\ awaiting' = awaiting
      /\ retired' = retired /\ parked' = parked /\ stack' = stack /\ lost' = lost
      /\ phase' = phase /\ bells' = bells /\ ringing' = ringing
      /\ replies[t] = "none" /\ replyWakers' = replyWakers \cup {t} /\ woken' = woken \ {t}
  BY DEF PollPending
<1>2. Requests'
  BY <1>1, RequestsSame
<1>3. NoLostWakeup'
  BY <1>1 DEF NoLostWakeup
<1>4. Rung' /\ Rooted'
  BY <1>1, RungSame DEF Busy, Rooted
<1> QED
  BY <1>2, <1>3, <1>4

LEMMA WatchInv ==
    ASSUME IInv, TypeOK', NEW t \in Tickets, Watch(t)
    PROVE  IInv'
<1> USE DEF IInv
<1>1. /\ nextTicket' = nextTicket /\ inbox' = inbox /\ replies' = replies /\ awaiting' = awaiting
      /\ retired' = retired /\ parked' = parked /\ stack' = stack /\ lost' = lost
      /\ phase' = phase /\ bells' = bells /\ ringing' = ringing
      /\ replyWakers' = replyWakers /\ woken' = woken \cup {t}
  BY DEF Watch, hubVars
<1>2. Requests'
  BY <1>1, RequestsSame
<1>3. NoLostWakeup'
  BY <1>1 DEF NoLostWakeup
<1>4. Rung' /\ Rooted'
  BY <1>1, RungSame DEF Busy, Rooted
<1> QED
  BY <1>2, <1>3, <1>4

-----------------------------------------------------------------------------
(* Steps that move a request or an answer. *)

(* retire() answers what is queued for w and what w is serving. *)
LEMMA RetireInv ==
    ASSUME IInv, TypeOK', NEW w \in Workers, Retire(w)
    PROVE  IInv'
<1> USE DEF IInv, Requests
<1>1. /\ nextTicket' = nextTicket /\ parked' = parked /\ stack' = stack /\ lost' = lost
      /\ phase' = phase /\ bells' = bells /\ ringing' = ringing
      /\ retired' = retired \cup {w} /\ replyWakers' = {} /\ woken' = woken \cup replyWakers
  BY DEF Retire
<1>2. \A x \in Tickets : QueuedAt(w, x) => awaiting[x] = w
  BY DEF Apart
<1>3. /\ \A x \in Tickets : awaiting'[x] = IF awaiting[x] = w THEN NoWorker ELSE awaiting[x]
      /\ \A x \in Tickets : replies'[x] = IF awaiting[x] = w THEN "skipped" ELSE replies[x]
  BY <1>2 DEF Retire, QueuedAt
<1>4. /\ Stacks'
      /\ \A u \in Workers, x \in Tickets : ServedAt(u, x)' <=> ServedAt(u, x)
      /\ \A u \in Workers, x \in Tickets : WaitedAt(u, x)' <=> WaitedAt(u, x)
  BY <1>1, SameStack
<1>5. /\ Queues' /\ Len(inbox'[w]) = 0 /\ \A u \in Workers : u # w => inbox'[u] = inbox[u]
      /\ \A u \in Workers, x \in Tickets : QueuedAt(u, x)' <=> QueuedAt(u, x) /\ u # w
  BY EmptyInbox DEF Retire
<1>6. /\ w \in Workers /\ NoWorker \notin Workers
      /\ \A x \in Tickets : awaiting[x] \in Workers \cup {NoWorker}
  BY BusAssumption DEF TypeOK
<1>7. Issued'
  BY <1>1, <1>3, <1>4, <1>5, <1>6 DEF Issued
<1>8. Owed'
  BY <1>1, <1>3, <1>4, <1>5, <1>6 DEF Owed
<1>9. Apart'
  BY <1>1, <1>3, <1>4, <1>5, <1>6 DEF Apart
<1>10. OneWaiter'
  BY <1>1, <1>4 DEF OneWaiter
<1>11. Answerable'
  BY <1>1, <1>3, <1>4, <1>6 DEF Answerable
<1>12. NoLostWakeup'
  BY <1>1 DEF NoLostWakeup
<1>13. Rooted'
  BY <1>1 DEF Rooted, Busy
<1>14. Rung'
  <2>1. ASSUME NEW u \in Workers, phase'[u] # "stopped", u # w
        PROVE  /\ phase[u] # "stopped"
               /\ Len(inbox'[u]) + bells[u] + Grace(u) <= Len(inbox[u]) + bells'[u] + Grace(u)'
    <3>1. bells[u] \in Nat /\ inbox[u] \in Seq(Tickets)
      BY DEF TypeOK
    <3>2. Len(inbox[u]) \in Nat
      BY <3>1
    <3>3. Grace(u)' = Grace(u) /\ Grace(u) \in {0, 1}
      BY <1>1 DEF Grace, Busy
    <3> QED
      BY <1>1, <1>5, <2>1, <3>1, <3>2, <3>3
  <2> QED
    BY <1>1, <1>5, <2>1, RungKept
<1> QED
  BY <1>4, <1>5, <1>7, <1>8, <1>9, <1>10, <1>11, <1>12, <1>13, <1>14

(* The delivery that blocks w takes its answer. *)
LEMMA PollDoneInv ==
    ASSUME IInv, TypeOK', NEW w \in Workers, PollDone(w)
    PROVE  IInv'
<1> USE DEF IInv, Requests
<1>1. /\ nextTicket' = nextTicket /\ inbox' = inbox /\ awaiting' = awaiting /\ retired' = retired
      /\ replyWakers' = replyWakers /\ bells' = bells /\ ringing' = ringing /\ phase' = phase
      /\ parked' = parked /\ woken' = woken /\ lost' = lost /\ Busy(w)
  BY DEF PollDone, Blocked
<1>2. PICK t \in Tickets : t = Top(w).waiting
  BY <1>1, TopType DEF PollDone, Blocked, Activation
<1>3. \A x \in Tickets : replies'[x] = IF x = t THEN "none" ELSE replies[x]
  BY <1>2 DEF PollDone, TypeOK
<1>4. replies[t] # "none"
  BY <1>2 DEF PollDone
<1>5. /\ Stacks' /\ Busy(w)' /\ \A u \in Workers : u # w => stack'[u] = stack[u]
      /\ \A u \in Workers, x \in Tickets : ServedAt(u, x)' <=> ServedAt(u, x)
      /\ \A u \in Workers, x \in Tickets : u # w => (WaitedAt(u, x)' <=> WaitedAt(u, x))
      /\ \A x \in Tickets : WaitedAt(w, x)' <=> (WaitedAt(w, x) /\ x # Top(w).waiting) \/ x = NoTicket
      /\ \A x \in Tickets : x = Top(w).waiting => WaitedAt(w, x)
  BY <1>1, WaitStack DEF PollDone
<1>6. /\ WaitedAt(w, t) /\ \A x \in Tickets : WaitedAt(w, x)' <=> WaitedAt(w, x) /\ x # t
      /\ \A u \in Workers, x \in Tickets : u # w => (WaitedAt(u, x)' <=> WaitedAt(u, x))
  BY <1>2, <1>5, TicketNat
<1>7. Queues' /\ \A u \in Workers, x \in Tickets : QueuedAt(u, x)' <=> QueuedAt(u, x)
  BY <1>1, SameInbox
<1>8. \A u \in Workers, x \in Tickets : WaitedAt(u, x)' => WaitedAt(u, x)
  BY <1>6
<1>9. parked[t] = NoWorker /\ \A u \in Workers : ~WaitedAt(u, t)'
  BY <1>6, <1>8 DEF OneWaiter
<1>10. Issued'
  BY <1>1, <1>3, <1>5, <1>7, <1>8 DEF Issued
<1>11. Owed'
  BY <1>1, <1>3, <1>5, <1>7 DEF Owed
<1>12. Apart'
  BY <1>1, <1>5, <1>7 DEF Apart
<1>13. OneWaiter'
  BY <1>1, <1>8 DEF OneWaiter
<1>14. Answerable'
  BY <1>1, <1>3, <1>8, <1>9 DEF Answerable
<1>15. NoLostWakeup'
  BY <1>1, <1>3 DEF NoLostWakeup
<1>16. \A u \in Workers : Busy(u)' => Busy(u)
  BY <1>1, <1>5 DEF Busy
<1>17. Rung' /\ Rooted'
  BY <1>1, <1>16, RungSame DEF Rooted
<1> QED
  BY <1>5, <1>7, <1>10, <1>11, <1>12, <1>13, <1>14, <1>15, <1>17

(* A request moves from w's inbox to the top of w's stack. *)
LEMMA Served ==
    ASSUME IInv, TypeOK', NEW w \in Workers, inbox[w] # <<>>,
           Busy(w) => Top(w).waiting # NoTicket,
           stack' = [stack EXCEPT ![w] = Push(w, Head(inbox[w]))],
           inbox' = [inbox EXCEPT ![w] = Tail(@)],
           phase' = phase, phase[w] \notin {"idle", "stopped"},
           nextTicket' = nextTicket, awaiting' = awaiting, replies' = replies, retired' = retired,
           replyWakers' = replyWakers, bells' = bells, ringing' = ringing, parked' = parked,
           woken' = woken, lost' = lost
    PROVE  IInv'
<1> USE DEF IInv, Requests
<1>1. PICK h \in Tickets :
         /\ h = Head(inbox[w]) /\ QueuedAt(w, h) /\ Queues'
         /\ \A u \in Workers, x \in Tickets : QueuedAt(u, x)' <=> QueuedAt(u, x) /\ x # h
         /\ Len(inbox'[w]) = Len(inbox[w]) - 1 /\ Len(inbox[w]) \in Nat \ {0}
         /\ \A u \in Workers : u # w => inbox'[u] = inbox[u]
  BY TakeInbox
<1>2. awaiting[h] = w /\ h \notin lost /\ \A v \in Workers : ~ServedAt(v, h)
  BY <1>1 DEF Apart
<1>3. h # NoTicket /\ h \in Tickets \cup {NoTicket} /\ stack' = [stack EXCEPT ![w] = Push(w, h)]
  BY <1>1, TicketNat
<1>4. /\ Stacks' /\ Busy(w)'
      /\ \A u \in Workers, t \in Tickets : ServedAt(u, t)' <=> ServedAt(u, t) \/ (u = w /\ t = h)
      /\ \A u \in Workers, t \in Tickets : WaitedAt(u, t)' <=> WaitedAt(u, t)
      /\ \A u \in Workers : u # w => stack'[u] = stack[u]
  BY <1>2, <1>3, PushStack
<1>5. Issued'
  BY <1>1, <1>4 DEF Issued
<1>6. Owed'
  BY <1>1, <1>2, <1>4 DEF Owed
<1>7. Apart'
  BY <1>1, <1>2, <1>4 DEF Apart
<1>8. OneWaiter' /\ Answerable'
  BY <1>4 DEF OneWaiter, Answerable
<1>9. NoLostWakeup'
  BY DEF NoLostWakeup
<1>10. Rooted'
  BY <1>4 DEF Rooted, Busy
<1>11. Rung'
  <2>1. ASSUME NEW u \in Workers, phase'[u] # "stopped"
        PROVE  /\ phase[u] # "stopped"
               /\ Len(inbox'[u]) + bells[u] + Grace(u) <= Len(inbox[u]) + bells'[u] + Grace(u)'
    <3>1. bells[u] \in Nat /\ inbox[u] \in Seq(Tickets)
      BY DEF TypeOK
    <3>2. Len(inbox[u]) \in Nat
      BY <3>1
    <3>3. Grace(u) \in {0, 1} /\ Grace(u)' \in {0, 1}
      BY DEF Grace
    <3>4. CASE u = w
      BY <1>1, <2>1, <3>1, <3>2, <3>3, <3>4
    <3>5. CASE u # w
      <4>1. Grace(u)' = Grace(u)
        BY <1>4, <3>5 DEF Grace, Busy
      <4> QED
        BY <1>1, <2>1, <3>1, <3>2, <3>3, <3>5, <4>1
    <3> QED
      BY <3>4, <3>5
  <2> QED
    BY <2>1, RungKept
<1> QED
  BY <1>1, <1>4, <1>5, <1>6, <1>7, <1>8, <1>9, <1>10, <1>11

(* A blocked worker serves on top of its wait. *)
LEMMA PollServeInv ==
    ASSUME IInv, TypeOK', NEW w \in Workers, PollServe(w)
    PROVE  IInv'
<1>1. Busy(w) /\ Top(w).waiting # NoTicket /\ inbox[w] # <<>>
  BY DEF PollServe, Blocked
<1>2. phase[w] \notin {"idle", "stopped"}
  BY <1>1 DEF IInv, Rooted
<1> QED
  BY <1>1, <1>2, Served DEF PollServe

(* The thread goes back to its loop, and may leave requests it served unanswered
   as long as they are counted lost. *)
LEMMA Resumed ==
    ASSUME IInv, TypeOK', NEW w \in Workers, Resume(w),
           Busy(w) \/ inbox[w] = <<>>, phase[w] # "stopped",
           lost \subseteq lost',
           \A x \in Tickets : x \in lost' \ lost => ServedAt(w, x),
           \A x \in Tickets : ServedAt(w, x) /\ awaiting[x] = w => x \in lost',
           nextTicket' = nextTicket, inbox' = inbox, awaiting' = awaiting, replies' = replies, retired' = retired,
           replyWakers' = replyWakers, bells' = bells, ringing' = ringing, parked' = parked,
           woken' = woken
    PROVE  IInv'
<1> USE DEF IInv, Requests
<1>1. /\ Stacks' /\ \A u \in Workers : u # w => stack'[u] = stack[u]
      /\ \A u \in Workers, x \in Tickets : ServedAt(u, x)' <=> ServedAt(u, x) /\ u # w
      /\ \A u \in Workers, x \in Tickets : WaitedAt(u, x)' <=> WaitedAt(u, x) /\ u # w
  BY ClearStack
<1>2. Queues' /\ \A u \in Workers, x \in Tickets : QueuedAt(u, x)' <=> QueuedAt(u, x)
  BY SameInbox
<1>3. Issued'
  BY <1>1, <1>2 DEF Issued
<1>4. Owed'
  BY <1>1, <1>2 DEF Owed
<1>5. Apart'
  BY <1>1, <1>2 DEF Apart
<1>6. OneWaiter' /\ Answerable'
  BY <1>1 DEF OneWaiter, Answerable
<1>7. NoLostWakeup'
  BY DEF NoLostWakeup
<1>8. /\ \A u \in Workers : u # w => phase'[u] = phase[u]
      /\ phase'[w] \in {"serve", "run", "stopping", "idle"}
      /\ phase'[w] = "idle" => ~Busy(w)'
  BY DEF Resume, After, TypeOK, Busy
<1>9. Rooted'
  BY <1>1, <1>8 DEF Rooted, Busy
<1>10. Rung'
  <2>1. ASSUME NEW u \in Workers, phase'[u] # "stopped"
        PROVE  \/ Len(inbox'[u]) = 0
               \/ /\ phase[u] # "stopped"
                  /\ Len(inbox'[u]) + bells[u] + Grace(u) <= Len(inbox[u]) + bells'[u] + Grace(u)'
    <3>1. bells[u] \in Nat /\ inbox[u] \in Seq(Tickets)
      BY DEF TypeOK
    <3>2. Len(inbox[u]) \in Nat
      BY <3>1
    <3>3. CASE u = w /\ Busy(w)
      <4>1. Grace(u) = 0 /\ Grace(u)' \in {0, 1}
        BY <3>3 DEF Grace
      <4> QED
        BY <3>1, <3>2, <3>3, <4>1
    <3>4. CASE u = w /\ inbox[w] = <<>>
      BY <3>4
    <3>5. CASE u # w
      <4>1. Grace(u)' = Grace(u) /\ Grace(u) \in {0, 1}
        BY <1>1, <1>8, <3>5 DEF Grace, Busy
      <4> QED
        BY <1>8, <2>1, <3>1, <3>2, <3>5, <4>1
    <3> QED
      BY <3>3, <3>4, <3>5
  <2> QED
    BY <2>1, RungKept
<1> QED
  BY <1>1, <1>2, <1>3, <1>4, <1>5, <1>6, <1>7, <1>9, <1>10

(* serveInbox takes a request, or returns. *)
LEMMA ServeInboxInv ==
    ASSUME IInv, TypeOK', NEW w \in Workers, ServeInbox(w)
    PROVE  IInv'
<1>1. ~Busy(w) /\ phase[w] \in {"preServe", "serve", "preRun"}
  BY DEF ServeInbox, Unoccupied
<1>2. CASE inbox[w] # <<>>
  BY <1>1, <1>2, Served DEF ServeInbox
<1>3. CASE inbox[w] = <<>>
  <2>1. \A x \in Tickets : ~ServedAt(w, x)
    BY <1>1 DEF Busy, ServedAt, IInv, TypeOK
  <2> QED
    BY <1>1, <1>3, <2>1, Resumed DEF ServeInbox
<1> QED
  BY <1>2, <1>3

LEMMA ServingAt ==
    ASSUME TypeOK, NEW w \in Workers, NEW t \in Tickets
    PROVE  t \in Serving(w) <=> ServedAt(w, t)
  BY TicketNat DEF Serving, ServedAt

(* The interrupt handler unwinds the thread. *)
LEMMA InterruptInv ==
    ASSUME IInv, TypeOK', NEW w \in Workers, Interrupt(w)
    PROVE  IInv'
<1>1. /\ Busy(w) /\ Resume(w) /\ phase[w] # "stopped"
      /\ nextTicket' = nextTicket /\ inbox' = inbox /\ awaiting' = awaiting /\ replies' = replies
      /\ retired' = retired /\ replyWakers' = replyWakers /\ bells' = bells /\ ringing' = ringing
      /\ parked' = parked /\ woken' = woken
  BY DEF Interrupt, Running, Blocked, hubVars, IInv, Rooted
<1>2. \A x \in Tickets : x \in Serving(w) <=> ServedAt(w, x)
  BY ServingAt DEF IInv
<1>3. lost' = lost \cup {t \in Serving(w) : awaiting[t] = w}
  BY DEF Interrupt
<1>4. /\ lost \subseteq lost'
      /\ \A x \in Tickets : x \in lost' \ lost => ServedAt(w, x)
      /\ \A x \in Tickets : ServedAt(w, x) /\ awaiting[x] = w => x \in lost'
  BY <1>2, <1>3
<1> QED
  BY <1>1, <1>4, Resumed

(* The innermost script ends: a host command's own, or one that served. *)
LEMMA FinishInv ==
    ASSUME IInv, TypeOK', NEW w \in Workers, Finish(w)
    PROVE  IInv'
<1>1. /\ Busy(w) /\ Running(w) /\ Top(w) \in Activation /\ phase[w] # "stopped"
      /\ nextTicket' = nextTicket /\ inbox' = inbox /\ retired' = retired
      /\ bells' = bells /\ ringing' = ringing /\ parked' = parked /\ lost' = lost
  BY TopType DEF Finish, Running, IInv, Rooted
<1>2. Top(w).serving \in Tickets \cup {NoTicket}
  BY <1>1 DEF Activation
<1>3. CASE Top(w).serving = NoTicket
  <2>1. /\ Resume(w) /\ awaiting' = awaiting /\ replies' = replies /\ replyWakers' = replyWakers /\ woken' = woken
    BY <1>3 DEF Finish
  <2>2. \A x \in Tickets : ~ServedAt(w, x)
    <3>1. /\ Len(stack[w]) \in Nat \ {0} /\ stack[w][Len(stack[w])].serving = NoTicket
          /\ \A i \in 1..Len(stack[w]) : i > 1 => stack[w][i].serving # NoTicket
      BY <1>1, <1>3, TopType DEF Top, IInv, Requests, Stacks
    <3>2. Len(stack[w]) = 1
      <4>1. Len(stack[w]) \in 1..Len(stack[w])
        BY <3>1
      <4>2. ~(Len(stack[w]) > 1)
        BY <3>1, <4>1
      <4>3. Len(stack[w]) \in Nat \ {0}
        BY <3>1
      <4>4. \A n \in Nat \ {0} : n > 1 \/ n = 1
        OBVIOUS
      <4> QED
        BY <4>2, <4>3, <4>4
    <3> QED
      BY <3>1, <3>2, TicketNat DEF ServedAt
  <2> QED
    BY <1>1, <2>1, <2>2, Resumed
<1>4. CASE Top(w).serving # NoTicket
  <2> USE DEF IInv, Requests
  <2>1. PICK h \in Tickets : h = Top(w).serving
    BY <1>2, <1>4
  <2>2. /\ stack' = [stack EXCEPT ![w] = Pop(w)] /\ phase' = phase
        /\ \E outcome \in {"ran", "skipped"} : Reply(h, outcome)
    BY <1>4, <2>1 DEF Finish
  <2>3. /\ Stacks' /\ \A u \in Workers : u # w => stack'[u] = stack[u]
        /\ \A u \in Workers, t \in Tickets : ServedAt(u, t)' <=> ServedAt(u, t) /\ t # h
        /\ \A u \in Workers, t \in Tickets : WaitedAt(u, t)' <=> WaitedAt(u, t)
        /\ ServedAt(w, h)
    BY <1>1, <2>1, <2>2, PopStack
  <2>4. Queues' /\ \A u \in Workers, x \in Tickets : QueuedAt(u, x)' <=> QueuedAt(u, x)
    BY <1>1, SameInbox
  <2>5. /\ \A x \in Tickets : x # h => awaiting'[x] = awaiting[x] /\ replies'[x] = replies[x]
        /\ \A x \in Tickets : x # h => (x \in replyWakers' <=> x \in replyWakers) /\ (x \in woken' <=> x \in woken)
        /\ \/ /\ awaiting'[h] = NoWorker /\ replies'[h] # "none"
              /\ h \in woken' <=> h \in woken \/ h \in replyWakers
           \/ /\ awaiting[h] = NoWorker /\ awaiting' = awaiting /\ replies' = replies
              /\ replyWakers' = replyWakers /\ woken' = woken
    BY <2>2 DEF Reply, TypeOK
  <2>6. /\ awaiting'[h] = NoWorker /\ NoWorker \notin Workers
        /\ awaiting'[h] = NoWorker => h <= nextTicket
    <3>1. h <= nextTicket
      BY <2>3 DEF Issued, TypeOK, Tickets
    <3> QED
      BY <2>5, <3>1, BusAssumption
  <2>7. Issued'
    <3> SUFFICES ASSUME NEW t \in Tickets, t > nextTicket
                 PROVE  /\ awaiting'[t] = NoWorker /\ replies'[t] = "none" /\ parked[t] = NoWorker /\ t \notin lost
                        /\ \A u \in Workers : ~QueuedAt(u, t)' /\ ~ServedAt(u, t)' /\ ~WaitedAt(u, t)'
      BY <1>1 DEF Issued
    <3>1. t # h
      BY <2>6 DEF TypeOK, Tickets
    <3> QED
      BY <2>3, <2>4, <2>5, <3>1 DEF Issued
  <2>8. Owed'
    BY <1>1, <2>3, <2>4, <2>5, <2>6 DEF Owed
  <2>9. Apart'
    BY <1>1, <2>3, <2>4, <2>5, <2>6 DEF Apart
  <2>10. OneWaiter'
    BY <1>1, <2>3 DEF OneWaiter
  <2>11. Answerable'
    BY <1>1, <2>3, <2>5 DEF Answerable
  <2>12. NoLostWakeup'
    BY <1>1, <2>5 DEF NoLostWakeup
  <2>13. \A u \in Workers : Busy(u)' => Busy(u)
    BY <1>1, <2>3 DEF Busy
  <2>14. Rung' /\ Rooted'
    BY <1>1, <2>2, <2>13, RungSame DEF Rooted
  <2> QED
    BY <2>3, <2>4, <2>7, <2>8, <2>9, <2>10, <2>11, <2>12, <2>14
<1> QED
  BY <1>3, <1>4

(* A parked delivery takes its answer, and its flight goes on as script. *)
LEMMA PollAnswerInv ==
    ASSUME IInv, TypeOK', NEW t \in Tickets, PollAnswer(t)
    PROVE  IInv'
<1> USE DEF IInv, Requests
<1>1. PICK w \in Workers : w = parked[t]
  BY DEF PollAnswer, TypeOK
<1>2. /\ nextTicket' = nextTicket /\ inbox' = inbox /\ awaiting' = awaiting /\ retired' = retired
      /\ bells' = bells /\ ringing' = ringing /\ lost' = lost /\ ~Busy(w)
      /\ w # NoWorker /\ phase[w] \in {"idle", "stopping"}
      /\ stack' = [stack EXCEPT ![w] = Push(w, NoTicket)]
      /\ replyWakers' = replyWakers \ {t} /\ woken' = woken \ {t} /\ replies[t] # "none"
  BY <1>1 DEF PollAnswer, Unoccupied
<1>3. /\ \A x \in Tickets : replies'[x] = IF x = t THEN "none" ELSE replies[x]
      /\ \A x \in Tickets : parked'[x] = IF x = t THEN NoWorker ELSE parked[x]
      /\ \A u \in Workers : u # w => phase'[u] = phase[u]
      /\ phase'[w] \in {"run", "stopping"}
  BY <1>1 DEF PollAnswer, TypeOK
<1>4. /\ Stacks' /\ Busy(w)'
      /\ \A u \in Workers, x \in Tickets : ServedAt(u, x)' <=> ServedAt(u, x) \/ (u = w /\ x = NoTicket)
      /\ \A u \in Workers, x \in Tickets : WaitedAt(u, x)' <=> WaitedAt(u, x)
      /\ \A u \in Workers : u # w => stack'[u] = stack[u]
  BY <1>2, PushStack
<1>5. \A u \in Workers, x \in Tickets : ServedAt(u, x)' <=> ServedAt(u, x)
  BY <1>4, TicketNat
<1>6. Queues' /\ \A u \in Workers, x \in Tickets : QueuedAt(u, x)' <=> QueuedAt(u, x)
  BY <1>2, SameInbox
<1>7. \A u \in Workers : ~WaitedAt(u, t)
  BY <1>1, <1>2 DEF OneWaiter
<1>8. Issued'
  BY <1>2, <1>3, <1>4, <1>5, <1>6 DEF Issued
<1>9. Owed'
  BY <1>2, <1>3, <1>5, <1>6 DEF Owed
<1>10. Apart'
  BY <1>2, <1>5, <1>6 DEF Apart
<1>11. OneWaiter'
  BY <1>3, <1>4 DEF OneWaiter
<1>12. Answerable'
  BY <1>2, <1>3, <1>4, <1>7 DEF Answerable
<1>13. NoLostWakeup'
  BY <1>2, <1>3 DEF NoLostWakeup
<1>14. Rooted'
  BY <1>3, <1>4 DEF Rooted, Busy
<1>15. Rung'
  <2>1. ASSUME NEW u \in Workers, phase'[u] # "stopped"
        PROVE  /\ phase[u] # "stopped"
               /\ Len(inbox'[u]) + bells[u] + Grace(u) <= Len(inbox[u]) + bells'[u] + Grace(u)'
    <3>1. bells[u] \in Nat /\ inbox[u] \in Seq(Tickets)
      BY DEF TypeOK
    <3>2. Len(inbox[u]) \in Nat
      BY <3>1
    <3>3. Grace(u)' = Grace(u) /\ Grace(u) \in {0, 1}
      BY <1>2, <1>3, <1>4 DEF Grace, Busy
    <3> QED
      BY <1>2, <1>3, <2>1, <3>1, <3>2, <3>3
  <2> QED
    BY <1>2, <2>1, RungKept
<1> QED
  BY <1>4, <1>6, <1>8, <1>9, <1>10, <1>11, <1>12, <1>13, <1>14, <1>15

(* A parked delivery gives up. *)
LEMMA AbandonInv ==
    ASSUME IInv, TypeOK', NEW t \in Tickets, Abandon(t)
    PROVE  IInv'
<1> USE DEF IInv, Requests
<1>1. /\ nextTicket' = nextTicket /\ inbox' = inbox /\ awaiting' = awaiting /\ retired' = retired
      /\ bells' = bells /\ ringing' = ringing /\ lost' = lost
      /\ phase' = phase /\ stack' = stack
      /\ replyWakers' = replyWakers \ {t} /\ woken' = woken \ {t}
  BY DEF Abandon
<1>2. \A x \in Tickets : /\ parked'[x] = IF x = t THEN NoWorker ELSE parked[x]
                         /\ replies'[x] = IF x = t THEN "none" ELSE replies[x]
  BY DEF Abandon, TypeOK
<1>10. parked[t] # NoWorker /\ \A u \in Workers : ~WaitedAt(u, t)
  BY BusAssumption DEF Abandon, TypeOK, OneWaiter
<1>3. /\ Stacks'
      /\ \A u \in Workers, x \in Tickets : ServedAt(u, x)' <=> ServedAt(u, x)
      /\ \A u \in Workers, x \in Tickets : WaitedAt(u, x)' <=> WaitedAt(u, x)
  BY <1>1, SameStack
<1>4. Queues' /\ \A u \in Workers, x \in Tickets : QueuedAt(u, x)' <=> QueuedAt(u, x)
  BY <1>1, SameInbox
<1>5. Issued'
  BY <1>1, <1>2, <1>3, <1>4 DEF Issued
<1>6. Owed' /\ Apart'
  BY <1>1, <1>2, <1>3, <1>4 DEF Owed, Apart
<1>7. OneWaiter' /\ Answerable'
  BY <1>1, <1>2, <1>3, <1>10 DEF OneWaiter, Answerable
<1>8. NoLostWakeup'
  BY <1>1, <1>2 DEF NoLostWakeup
<1>9. Rung' /\ Rooted'
  BY <1>1, RungSame DEF Busy, Rooted
<1> QED
  BY <1>3, <1>4, <1>5, <1>6, <1>7, <1>8, <1>9

-----------------------------------------------------------------------------
(* A new delivery. *)

(* The next ticket has never been used. *)
LEMMA Fresh ==
    ASSUME IInv, NEW w \in Workers, NEW v \in Workers, Call(w, v)
    PROVE  /\ nextTicket + 1 \in Tickets /\ nextTicket' = nextTicket + 1 /\ nextTicket \in Nat
           /\ awaiting[nextTicket + 1] = NoWorker /\ replies[nextTicket + 1] = "none"
           /\ parked[nextTicket + 1] = NoWorker /\ nextTicket + 1 \notin lost
           /\ \A u \in Workers : /\ ~QueuedAt(u, nextTicket + 1) /\ ~ServedAt(u, nextTicket + 1)
                                 /\ ~WaitedAt(u, nextTicket + 1)
<1>1. nextTicket + 1 \in Tickets /\ nextTicket' = nextTicket + 1 /\ nextTicket \in Nat
  <2>1. nextTicket + 1 \in Tickets
    BY CallType DEF IInv
  <2>2. nextTicket' = nextTicket + 1
    BY DEF Call
  <2>3. nextTicket \in Nat
    BY DEF IInv, TypeOK
  <2> QED
    BY <2>1, <2>2, <2>3
<1>2. nextTicket + 1 > nextTicket
  BY <1>1
<1> QED
  BY <1>1, <1>2 DEF IInv, Requests, Issued

(* Whoever waits for the answer of a call, the invariant is kept. *)
LEMMA Calls ==
    ASSUME IInv, TypeOK', NEW w \in Workers, NEW v \in Workers, Call(w, v), ringing[w] = NoWorker,
           NEW t \in Tickets, t = nextTicket + 1,
           retired' = retired, replyWakers' = replyWakers, bells' = bells, phase' = phase, lost' = lost,
           Stacks', \A u \in Workers : Busy(u)' <=> Busy(u),
           \A u \in Workers, x \in Tickets : ServedAt(u, x)' <=> ServedAt(u, x),
           \A u \in Workers, x \in Tickets : WaitedAt(u, x)' <=> WaitedAt(u, x) \/ (u = w /\ x = t /\ parked'[t] = NoWorker),
           \A x \in Tickets : x # t => parked'[x] = parked[x],
           woken \subseteq woken', parked'[t] # NoWorker => t \in woken'
    PROVE  IInv'
<1> USE DEF IInv, Requests
<1>1. /\ nextTicket' = t /\ t > nextTicket /\ nextTicket \in Nat
      /\ awaiting[t] = NoWorker /\ replies[t] = "none" /\ parked[t] = NoWorker /\ t \notin lost
      /\ \A u \in Workers : ~QueuedAt(u, t) /\ ~ServedAt(u, t) /\ ~WaitedAt(u, t)
  BY Fresh
<1>2. \A x \in Tickets : x # t => awaiting'[x] = awaiting[x] /\ replies'[x] = replies[x]
  BY DEF Call, TypeOK
<1>3. /\ Queues'
      /\ \/ /\ awaiting'[t] = NoWorker /\ replies'[t] # "none" /\ inbox' = inbox /\ ringing' = ringing
            /\ \A u \in Workers, x \in Tickets : QueuedAt(u, x)' <=> QueuedAt(u, x)
         \/ /\ awaiting'[t] = v /\ replies'[t] = "none" /\ v \notin retired
            /\ ringing' = [ringing EXCEPT ![w] = v]
            /\ Len(inbox'[v]) = Len(inbox[v]) + 1 /\ \A u \in Workers : u # v => inbox'[u] = inbox[u]
            /\ \A u \in Workers, x \in Tickets : QueuedAt(u, x)' <=> QueuedAt(u, x) \/ (u = v /\ x = t)
  <2>1. CASE v \in retired \/ v \notin registered
    <3>1. /\ awaiting' = awaiting /\ replies' = [replies EXCEPT ![t] = "skipped"] /\ inbox' = inbox /\ ringing' = ringing
      BY <2>1 DEF Call
    <3>2. replies'[t] # "none"
      BY <3>1 DEF TypeOK
    <3> QED
      BY <1>1, <3>1, <3>2, SameInbox
  <2>2. CASE ~(v \in retired \/ v \notin registered)
    <3>1. /\ awaiting' = [awaiting EXCEPT ![t] = v] /\ replies' = replies /\ ringing' = [ringing EXCEPT ![w] = v]
          /\ inbox' = [inbox EXCEPT ![v] = Append(@, t)]
      BY <2>2 DEF Call
    <3>2. awaiting'[t] = v
      BY <3>1 DEF TypeOK
    <3>3. /\ Queues' /\ \A u \in Workers, x \in Tickets : QueuedAt(u, x)' <=> QueuedAt(u, x) \/ (u = v /\ x = t)
          /\ Len(inbox'[v]) = Len(inbox[v]) + 1 /\ \A u \in Workers : u # v => inbox'[u] = inbox[u]
      BY <1>1, <3>1, AppendInbox, ZenonT(60)
    <3> QED
      BY <1>1, <2>2, <3>1, <3>2, <3>3
  <2> QED
    BY <2>1, <2>2
<1>4. v # NoWorker /\ NoWorker \notin Workers
  BY BusAssumption
<1>5. Issued'
  <2> SUFFICES ASSUME NEW x \in Tickets, x > t
               PROVE  /\ awaiting'[x] = NoWorker /\ replies'[x] = "none" /\ parked'[x] = NoWorker /\ x \notin lost
                      /\ \A u \in Workers : ~QueuedAt(u, x)' /\ ~ServedAt(u, x)' /\ ~WaitedAt(u, x)'
    BY <1>1 DEF Issued
  <2>1. x # t /\ x > nextTicket
    BY <1>1, TicketNat
  <2> QED
    BY <1>2, <1>3, <2>1 DEF Issued
<1>6. Owed'
  BY <1>2, <1>3, <1>4 DEF Owed
<1>7. Apart'
  BY <1>1, <1>2, <1>3 DEF Apart
<1>8. OneWaiter'
  BY <1>1 DEF OneWaiter
<1>9. Answerable'
  BY <1>1, <1>2, <1>3, <1>4 DEF Answerable
<1>10. NoLostWakeup'
  BY <1>2 DEF NoLostWakeup
<1>11. Rooted'
  BY DEF Rooted
<1>12. Rung'
  <2>1. CASE inbox' = inbox /\ ringing' = ringing
    BY <2>1, RungSame
  <2>2. CASE /\ ringing' = [ringing EXCEPT ![w] = v]
             /\ Len(inbox'[v]) = Len(inbox[v]) + 1 /\ \A u \in Workers : u # v => inbox'[u] = inbox[u]
    <3> SUFFICES ASSUME NEW u \in Workers, phase[u] # "stopped"
                 PROVE  Len(inbox'[u]) <= bells[u] + Cardinality(Ringers(u)') + Grace(u)
      BY DEF Rung, Grace
    <3>1. \A x \in Workers : ringing'[x] = IF x = w THEN v ELSE ringing[x]
      BY <2>2 DEF TypeOK
    <3>2. bells[u] \in Nat /\ inbox[u] \in Seq(Tickets)
      BY DEF TypeOK
    <3>3. Len(inbox[u]) \in Nat /\ Grace(u) \in {0, 1}
      BY <3>2 DEF Grace
    <3>4. Len(inbox[u]) <= bells[u] + Cardinality(Ringers(u)) + Grace(u)
      BY DEF Rung
    <3>5. IsFiniteSet(Ringers(u)) /\ Cardinality(Ringers(u)) \in Nat
      BY RingersFinite
    <3>6. CASE u = v
      <4>1. Ringers(u)' = Ringers(u) \cup {w} /\ w \notin Ringers(u)
        BY <1>4, <3>1, <3>6 DEF Ringers
      <4>2. Cardinality(Ringers(u)') = Cardinality(Ringers(u)) + 1
        BY <3>5, <4>1, FS_AddElement
      <4> QED
        BY <2>2, <3>2, <3>3, <3>4, <3>5, <3>6, <4>2
    <3>7. CASE u # v
      <4>1. Ringers(u)' = Ringers(u)
        BY <1>4, <3>1, <3>7 DEF Ringers
      <4> QED
        BY <2>2, <3>4, <3>7, <4>1
    <3> QED
      BY <3>6, <3>7
  <2> QED
    BY <1>3, <2>1, <2>2
<1> QED
  BY <1>3, <1>5, <1>6, <1>7, <1>8, <1>9, <1>10, <1>11, <1>12

(* A delivery that blocks. *)
LEMMA EmitInv ==
    ASSUME IInv, TypeOK', NEW w \in Workers, NEW v \in Workers, Emit(w, v)
    PROVE  IInv'
<1>1. /\ Busy(w) /\ Running(w) /\ Call(w, v) /\ stack' = [stack EXCEPT ![w] = Waiting(w, nextTicket + 1)]
      /\ ringing[w] = NoWorker /\ Top(w).waiting = NoTicket
      /\ retired' = retired /\ replyWakers' = replyWakers /\ bells' = bells /\ phase' = phase /\ lost' = lost
      /\ parked' = parked /\ woken' = woken
  BY DEF Emit, Running
<1>2. PICK t \in Tickets : t = nextTicket + 1 /\ parked[t] = NoWorker
  BY <1>1, Fresh
<1>3. nextTicket \in Nat
  BY DEF IInv, TypeOK
<1>4. Top(w).serving < t
  <2>1. Len(stack[w]) \in Nat \ {0} /\ Top(w) \in Activation
    BY <1>1, TopType DEF IInv
  <2>2. Top(w).serving \in Tickets \cup {NoTicket}
    BY <2>1 DEF Activation
  <2>3. CASE Top(w).serving \in Tickets
    <3>1. Len(stack[w]) \in 1..Len(stack[w])
      BY <2>1
    <3>2. ServedAt(w, Top(w).serving)
      BY <3>1 DEF ServedAt, Top
    <3>3. ~(Top(w).serving > nextTicket)
      BY <2>3, <3>2 DEF IInv, Requests, Issued
    <3>4. ASSUME NEW a \in Nat, NEW b \in Nat, ~(a > b) PROVE a < b + 1
      BY <3>4
    <3>5. Top(w).serving \in Nat
      BY <2>3, TicketNat
    <3> QED
      BY <1>2, <1>3, <3>3, <3>4, <3>5
  <2>4. CASE Top(w).serving = NoTicket
    BY <1>2, <1>3, <2>4, TicketNat
  <2> QED
    BY <2>2, <2>3, <2>4
<1>5. ASSUME NEW x \in Tickets, WaitedAt(w, x) PROVE x < t
  <2>1. ~(x > nextTicket)
    BY <1>5 DEF IInv, Requests, Issued
  <2> QED
    BY <1>2, <1>3, <2>1, TicketNat
<1>6. t \in Tickets \cup {NoTicket} /\ stack' = [stack EXCEPT ![w] = Waiting(w, t)]
  BY <1>1, <1>2
<1>7. /\ Stacks' /\ Busy(w)' /\ \A u \in Workers : u # w => stack'[u] = stack[u]
      /\ \A u \in Workers, x \in Tickets : ServedAt(u, x)' <=> ServedAt(u, x)
      /\ \A u \in Workers, x \in Tickets : u # w => (WaitedAt(u, x)' <=> WaitedAt(u, x))
      /\ \A x \in Tickets : WaitedAt(w, x)' <=> (WaitedAt(w, x) /\ x # Top(w).waiting) \/ x = t
  BY <1>1, <1>4, <1>5, <1>6, WaitStack DEF IInv, Requests
<1>8. \A u \in Workers, x \in Tickets : WaitedAt(u, x)' <=> WaitedAt(u, x) \/ (u = w /\ x = t /\ parked'[t] = NoWorker)
  BY <1>1, <1>2, <1>7, TicketNat
<1>9. \A u \in Workers : Busy(u)' <=> Busy(u)
  BY <1>1, <1>7 DEF Busy
<1> QED
  BY <1>1, <1>2, <1>7, <1>8, <1>9, Calls

(* A delivery that parks. *)
LEMMA AskInv ==
    ASSUME IInv, TypeOK', NEW w \in Workers, NEW v \in Workers, Ask(w, v)
    PROVE  IInv'
<1>1. /\ Call(w, v) /\ stack' = stack /\ ringing[w] = NoWorker
      /\ retired' = retired /\ replyWakers' = replyWakers /\ bells' = bells /\ phase' = phase /\ lost' = lost
  BY DEF Ask, Running
<1>2. PICK t \in Tickets : t = nextTicket + 1
  BY <1>1, Fresh
<1>3. /\ \A x \in Tickets : parked'[x] = IF x = t THEN w ELSE parked[x]
      /\ woken' = woken \cup {t} /\ w # NoWorker
  BY <1>2, BusAssumption DEF Ask, IInv, TypeOK
<1>4. /\ Stacks'
      /\ \A u \in Workers, x \in Tickets : ServedAt(u, x)' <=> ServedAt(u, x)
      /\ \A u \in Workers, x \in Tickets : WaitedAt(u, x)' <=> WaitedAt(u, x)
  BY <1>1, SameStack DEF IInv, Requests
<1>5. \A u \in Workers : Busy(u)' <=> Busy(u)
  BY <1>1 DEF Busy
<1>6. \A u \in Workers, x \in Tickets : WaitedAt(u, x)' <=> WaitedAt(u, x) \/ (u = w /\ x = t /\ parked'[t] = NoWorker)
  BY <1>3, <1>4
<1>7. \A x \in Tickets : x # t => parked'[x] = parked[x]
  BY <1>3
<1>8. woken \subseteq woken' /\ (parked'[t] # NoWorker => t \in woken')
  BY <1>3
<1> QED
  BY <1>1, <1>2, <1>4, <1>5, <1>6, <1>7, <1>8, Calls

-----------------------------------------------------------------------------
(* The invariant. *)

LEMMA InitInv == Init => IInv
<1> SUFFICES ASSUME Init PROVE IInv
  OBVIOUS
<1>1. TypeOK
  BY BusAssumption DEF Init, TypeOK, Outcomes, Phases
<1>2. \A w \in Workers : inbox[w] = <<>> /\ stack[w] = <<>> /\ bells[w] = 0 /\ ringing[w] = NoWorker /\ phase[w] = "idle"
  BY DEF Init
<1>3. \A w \in Workers, t \in Tickets : ~QueuedAt(w, t) /\ ~ServedAt(w, t) /\ ~WaitedAt(w, t)
  BY <1>2 DEF QueuedAt, ServedAt, WaitedAt
<1>4. \A t \in Tickets : awaiting[t] = NoWorker /\ replies[t] = "none" /\ parked[t] = NoWorker /\ t \notin lost
  BY DEF Init
<1>5. Queues /\ Stacks
  BY <1>2 DEF Queues, Stacks, WaitsGrow
<1>6. Issued /\ Owed /\ Apart /\ OneWaiter /\ Answerable
  BY <1>3, <1>4, BusAssumption DEF Issued, Owed, Apart, OneWaiter, Answerable
<1>7. NoLostWakeup /\ Rooted
  BY <1>2, <1>4 DEF NoLostWakeup, Rooted, Busy
<1>8. Rung
  <2> SUFFICES ASSUME NEW w \in Workers
               PROVE  Len(inbox[w]) <= bells[w] + Cardinality(Ringers(w)) + Grace(w)
    BY DEF Rung
  <2>1. Cardinality(Ringers(w)) \in Nat
    BY RingersFinite
  <2> QED
    BY <1>2, <2>1 DEF Grace
<1> QED
  BY <1>1, <1>5, <1>6, <1>7, <1>8 DEF IInv, Requests

LEMMA InvStep == IInv /\ [Next]_vars => IInv'
<1> SUFFICES ASSUME IInv, [Next]_vars PROVE IInv'
  OBVIOUS
<1>1. TypeOK'
  BY TypeStep DEF IInv
<1>2. CASE UNCHANGED vars
  <2>1. /\ nextTicket' = nextTicket /\ inbox' = inbox /\ replies' = replies /\ awaiting' = awaiting
        /\ retired' = retired /\ parked' = parked /\ stack' = stack /\ lost' = lost
        /\ replyWakers' = replyWakers /\ woken' = woken /\ phase' = phase /\ bells' = bells /\ ringing' = ringing
    BY <1>2 DEF vars, hubVars, threadVars
  <2>2. Requests'
    BY <2>1, RequestsSame DEF IInv
  <2>3. NoLostWakeup' /\ Rooted'
    BY <2>1 DEF IInv, NoLostWakeup, Rooted, Busy
  <2>4. Rung'
    BY <1>1, <2>1, RungSame DEF IInv, Busy
  <2> QED
    BY <1>1, <2>2, <2>3, <2>4 DEF IInv
<1>3. ASSUME NEW w \in Workers, Register(w) \/ Retire(w) PROVE IInv'
  BY <1>1, <1>3, RegisterInv, RetireInv
<1>4. ASSUME NEW w \in Workers, Ring(w) \/ PollDone(w) \/ PollServe(w) \/ Finish(w) \/ Interrupt(w) PROVE IInv'
  BY <1>1, <1>4, RingInv, PollDoneInv, PollServeInv, FinishInv, InterruptInv
<1>5. ASSUME NEW w \in Workers, TakeServeBus(w) \/ TakeCommand(w) \/ ServeInbox(w) \/ Stop(w) PROVE IInv'
  BY <1>1, <1>5, TakeServeBusInv, TakeCommandInv, ServeInboxInv, StopInv
<1>6. ASSUME NEW w \in Workers, NEW v \in Workers, Emit(w, v) \/ Ask(w, v) PROVE IInv'
  BY <1>1, <1>6, EmitInv, AskInv
<1>7. ASSUME NEW t \in Tickets, PollAnswer(t) \/ PollPending(t) \/ Abandon(t) \/ Watch(t) PROVE IInv'
  BY <1>1, <1>7, PollAnswerInv, PollPendingInv, AbandonInv, WatchInv
<1> QED
  BY <1>2, <1>3, <1>4, <1>5, <1>6, <1>7 DEF Next

(* The inductive invariant holds in every reachable state, for any number of
   workers and tickets. *)
THEOREM Invariance == Spec => []IInv
<1>1. QED
  BY InitInv, InvStep, PTL DEF Spec

-----------------------------------------------------------------------------
(* Requests. *)

LEMMA InboxTickets ==
    ASSUME TypeOK, NEW w \in Workers
    PROVE  /\ Len(inbox[w]) \in Nat /\ \A i \in 1..Len(inbox[w]) : inbox[w][i] \in Tickets /\ QueuedAt(w, inbox[w][i])
           /\ inbox[w] # <<>> => 1 \in 1..Len(inbox[w])
<1>1. inbox[w] \in Seq(Tickets)
  BY DEF TypeOK
<1>2. Len(inbox[w]) \in Nat /\ \A i \in 1..Len(inbox[w]) : inbox[w][i] \in Tickets
  BY <1>1
<1>3. inbox[w] # <<>> => 1 \in 1..Len(inbox[w])
  BY <1>1
<1> QED
  BY <1>2, <1>3 DEF QueuedAt

LEMMA InvRequests == IInv => RequestsHold
<1> SUFFICES ASSUME IInv PROVE RequestsHold
  OBVIOUS
<1> USE DEF IInv, Requests
<1>1. OwedOnce
  <2> SUFFICES ASSUME NEW t \in Tickets, awaiting[t] # NoWorker
               PROVE  /\ awaiting[t] \notin retired /\ replies[t] = "none"
                      /\ \/ \E i \in 1..Len(inbox[awaiting[t]]) : inbox[awaiting[t]][i] = t
                         \/ t \in Serving(awaiting[t])
                         \/ t \in lost
    BY DEF OwedOnce
  <2>1. PICK w \in Workers : awaiting[t] = w
    BY DEF TypeOK
  <2>2. t \in Serving(w) <=> ServedAt(w, t)
    BY ServingAt
  <2>3. w \notin retired /\ replies[t] = "none" /\ (QueuedAt(w, t) \/ ServedAt(w, t) \/ t \in lost)
    BY <2>1 DEF Owed
  <2> QED
    BY <2>1, <2>2, <2>3 DEF QueuedAt
<1>2. ServedOnce
  <2> SUFFICES ASSUME NEW w \in Workers, NEW v \in Workers
               PROVE  /\ \A i \in 1..Len(inbox[w]), j \in 1..Len(inbox[v]) :
                            inbox[w][i] = inbox[v][j] => w = v /\ i = j
                      /\ \A i \in 1..Len(stack[w]), j \in 1..Len(stack[v]) :
                            stack[w][i].serving # NoTicket /\ stack[w][i].serving = stack[v][j].serving
                              => w = v /\ i = j
                      /\ \A i \in 1..Len(inbox[w]) :
                            inbox[w][i] \notin Serving(v) \cup lost /\ awaiting[inbox[w][i]] = w
    BY DEF ServedOnce
  <2>1. ASSUME NEW i \in 1..Len(inbox[w])
        PROVE  inbox[w][i] \notin Serving(v) \cup lost /\ awaiting[inbox[w][i]] = w
    <3>1. PICK t \in Tickets : t = inbox[w][i] /\ QueuedAt(w, t)
      BY InboxTickets
    <3>2. awaiting[t] = w /\ t \notin lost /\ ~ServedAt(v, t)
      BY <3>1 DEF Apart
    <3>3. t \notin Serving(v)
      BY <3>2, ServingAt
    <3> QED
      BY <3>1, <3>2, <3>3
  <2> QED
    BY <2>1 DEF Queues, Stacks
<1>3. NoOrphanedWait
  <2>1. ASSUME NEW t \in Tickets, NEW w \in Workers, t \in WaitedBy(w) PROVE WaitedAt(w, t)
    BY <2>1 DEF WaitedBy, WaitedAt
  <2> QED
    BY <2>1 DEF NoOrphanedWait, WaitedOn, Answerable
<1>4. RetiredOwesNothing
  <2> SUFFICES ASSUME NEW w \in retired PROVE inbox[w] = <<>> /\ \A t \in Tickets : awaiting[t] # w
    BY DEF RetiredOwesNothing
  <2>1. w \in Workers
    BY DEF TypeOK
  <2>2. \A t \in Tickets : awaiting[t] # w
    BY <2>1 DEF Owed
  <2>3. ASSUME inbox[w] # <<>> PROVE FALSE
    <3>1. inbox[w][1] \in Tickets /\ QueuedAt(w, inbox[w][1])
      BY <2>1, <2>3, InboxTickets
    <3> QED
      BY <2>1, <2>2, <3>1 DEF Apart
  <2> QED
    BY <2>2, <2>3
<1>5. QueuedIsRung
  <2> SUFFICES ASSUME NEW w \in Workers, inbox[w] # <<>>, phase[w] = "idle", ~\E u \in Workers : ringing[u] = w
               PROVE  bells[w] > 0
    BY DEF QueuedIsRung
  <2>1. Len(inbox[w]) \in Nat \ {0}
    BY InboxTickets
  <2>2. Ringers(w) = {}
    BY DEF Ringers
  <2>3. Cardinality(Ringers(w)) = 0
    BY <2>2, FS_EmptySet
  <2>4. Len(inbox[w]) <= bells[w] + Cardinality(Ringers(w)) + Grace(w) /\ Grace(w) = 0
    BY DEF Rung, Grace
  <2>5. bells[w] \in Nat
    BY DEF TypeOK
  <2> QED
    BY <2>1, <2>3, <2>4, <2>5
<1> QED
  BY <1>1, <1>2, <1>3, <1>4, <1>5 DEF RequestsHold

(* Every request sent over the shared bus is owed by exactly one worker that is
   not retired, waits in one place and is served at most once; every delivery
   that blocks or parks is answered or owed; and neither the parked caller's
   wake-up nor the target's ServeBus command is lost. *)
THEOREM RequestsKept == Spec => []RequestsHold
<1>1. QED
  BY Invariance, InvRequests, PTL

-----------------------------------------------------------------------------
(* Waits. *)

(* A nonempty set of tickets has a youngest. *)
LEMMA Youngest ==
    ASSUME NEW T, T \subseteq Tickets, T # {}
    PROVE  \E t \in T : \A x \in T : x <= t
<1> DEFINE D == {n \in Nat : MaxTickets - n \in T}
<1>1. MaxTickets \in Nat /\ \A t \in T : t \in Nat /\ t <= MaxTickets
  BY BusAssumption DEF Tickets
<1>2. \A t \in T : MaxTickets - t \in D
  <2> SUFFICES ASSUME NEW t \in T PROVE MaxTickets - t \in D
    OBVIOUS
  <2>1. MaxTickets - t \in Nat /\ MaxTickets - (MaxTickets - t) = t
    BY <1>1
  <2> QED
    BY <2>1
<1>3. D \subseteq Nat /\ D # {}
  BY <1>2
<1>4. PICK d \in D : \A y \in D : ~(<<y, d>> \in OpToRel(<, Nat))
  BY <1>3, WFMin, NatLessThanWellFounded
<1>5. \A y \in D : ~(y < d)
  BY <1>3, <1>4 DEF OpToRel
<1>6. MaxTickets - d \in T /\ d \in Nat
  OBVIOUS
<1>7. ASSUME NEW x \in T PROVE x <= MaxTickets - d
  <2>1. ~(MaxTickets - x < d) /\ x \in Nat
    BY <1>1, <1>2, <1>5
  <2> QED
    BY <1>1, <1>6, <2>1
<1> QED
  BY <1>6, <1>7

(* A worker that serves the ticket T and is blocked waits for a younger one. *)
LEMMA WaitsYounger ==
    ASSUME IInv, NEW v \in Workers, NEW t \in Tickets, ServedAt(v, t), Blocked(v)
    PROVE  t < Top(v).waiting
<1> DEFINE n == Len(stack[v])
<1>1. PICK i \in 1..n : stack[v][i].serving = t
  BY DEF ServedAt
<1>2. /\ n \in Nat /\ \A k \in 1..n : stack[v][k].waiting \in Tickets \cup {NoTicket}
  BY StackElements DEF IInv
<1>3. n \in 1..n
  BY <1>1, <1>2
<1>4. stack[v][n].waiting # NoTicket /\ Top(v).waiting = stack[v][n].waiting
  BY DEF Blocked, Top
<1>5. /\ i < n => stack[v][i].waiting # NoTicket
      /\ stack[v][i].waiting # NoTicket => stack[v][i].serving < stack[v][i].waiting
      /\ i < n => stack[v][i].waiting < stack[v][n].waiting
  BY <1>1, <1>3, <1>4 DEF IInv, Requests, Stacks, WaitsGrow
<1>6. CASE i = n
  BY <1>1, <1>4, <1>5, <1>6
<1>7. CASE i < n
  <2>1. t < stack[v][i].waiting /\ stack[v][i].waiting < stack[v][n].waiting
    BY <1>1, <1>5, <1>7
  <2>2. t \in Nat /\ stack[v][i].waiting \in Nat /\ stack[v][n].waiting \in Nat
    <3>1. Tickets \cup {NoTicket} \subseteq Nat
      BY TicketNat
    <3>2. stack[v][i].waiting \in Tickets \cup {NoTicket} /\ stack[v][n].waiting \in Tickets \cup {NoTicket}
      BY <1>1, <1>2, <1>3
    <3> QED
      BY <3>1, <3>2
  <2> QED
    BY <1>4, <2>1, <2>2
<1> QED
  BY <1>1, <1>2, <1>6, <1>7

LEMMA InvWaits == IInv => WaitsHold
<1> SUFFICES ASSUME IInv PROVE WaitsHold
  OBVIOUS
<1>1. WaitsGrow
  BY DEF IInv, Requests, Stacks
<1>2. NoCircularWait
  <2> SUFFICES ASSUME NEW b \in Workers, Blocked(b), ~\E w \in Workers : CanStep(w)
               PROVE  \E w \in Workers : Blocked(w) /\
                         \/ Top(w).waiting \in lost
                         \/ phase[awaiting[Top(w).waiting]] = "stopped"
    BY DEF NoCircularWait
  <2> DEFINE T == {t \in Tickets : \E w \in Workers : Blocked(w) /\ Top(w).waiting = t}
  <2>1. ASSUME NEW w \in Workers, Blocked(w) PROVE Top(w).waiting \in T
    <3>1. Top(w) \in Activation
      BY <2>1, TopType DEF IInv, Blocked
    <3>2. Top(w).waiting \in Tickets
      BY <2>1, <3>1 DEF Activation, Blocked
    <3> QED
      BY <2>1, <3>2
  <2>2. T \subseteq Tickets /\ T # {}
    BY <2>1
  <2>3. PICK t \in T : \A x \in T : x <= t
    BY <2>2, Youngest
  <2>4. PICK m \in Workers : Blocked(m) /\ Top(m).waiting = t
    OBVIOUS
  <2>5. t \in Tickets
    OBVIOUS
  <2> HIDE DEF T
  <2>6. replies[t] = "none"
    BY <2>4 DEF CanStep
  <2>7. WaitedAt(m, t)
    <3>1. Len(stack[m]) \in Nat \ {0}
      BY <2>4, TopType DEF IInv, Blocked
    <3>2. Len(stack[m]) \in 1..Len(stack[m])
      BY <3>1
    <3> QED
      BY <2>4, <3>2 DEF WaitedAt, Top
  <2>8. awaiting[t] # NoWorker
    BY <2>5, <2>6, <2>7 DEF IInv, Requests, Answerable
  <2>9. PICK v \in Workers : awaiting[t] = v
    BY <2>5, <2>8 DEF IInv, TypeOK
  <2>10. QueuedAt(v, t) \/ ServedAt(v, t) \/ t \in lost
    BY <2>5, <2>9 DEF IInv, Requests, Owed
  <2>11. ~CanStep(v)
    OBVIOUS
  <2>12. CASE QueuedAt(v, t)
    <3>1. inbox[v] # <<>>
      BY <2>12 DEF QueuedAt
    <3>2. phase[v] = "stopped"
      BY <2>11, <3>1 DEF CanStep, Running, Blocked, Unoccupied
    <3> QED
      BY <2>4, <2>9, <3>2
  <2>13. CASE ServedAt(v, t)
    <3>1. Busy(v)
      BY <2>13 DEF ServedAt, Busy
    <3>2. Blocked(v)
      BY <2>11, <3>1 DEF CanStep, Running, Blocked
    <3>3. t < Top(v).waiting
      BY <2>5, <2>13, <3>2, WaitsYounger
    <3>4. Top(v).waiting \in T /\ Top(v).waiting <= t
      BY <2>1, <2>3, <3>2
    <3>5. t \in Nat /\ Top(v).waiting \in Nat
      BY <2>2, <2>5, <3>4, TicketNat
    <3> QED
      BY <3>3, <3>4, <3>5
  <2>14. CASE t \in lost
    BY <2>4, <2>14
  <2> QED
    BY <2>10, <2>12, <2>13, <2>14
<1> QED
  BY <1>1, <1>2 DEF WaitsHold

(* "Two workers emitting into each other cannot deadlock" (bus_hub.rs), for any
   number of workers: waits grow along every chain, so the youngest one that
   anybody is blocked on is owed by a worker that can step. *)
THEOREM NoDeadlock == Spec => []WaitsHold
<1>1. QED
  BY Invariance, InvWaits, PTL

-----------------------------------------------------------------------------
(* Answers. *)

(* One step neither replaces an answer nor changes it. *)
LEMMA AnswerStep ==
    ASSUME IInv, Next, NEW t \in Tickets, replies[t] # "none"
    PROVE  replies'[t] \in {replies[t], "none"}
<1>1. awaiting[t] = NoWorker
  BY DEF IInv, Requests, Owed, TypeOK
<1>2. ASSUME NEW w \in Workers, Retire(w) PROVE replies'[t] = replies[t]
  <2>1. ~QueuedAt(w, t)
    BY <1>1, BusAssumption DEF IInv, Requests, Apart
  <2> QED
    BY <1>1, <1>2, <2>1, BusAssumption DEF Retire, QueuedAt
<1>3. ASSUME NEW w \in Workers, NEW v \in Workers, Call(w, v) PROVE replies'[t] = replies[t]
  <2>1. t # nextTicket + 1
    BY <1>3, Fresh
  <2> QED
    BY <1>3, <2>1 DEF Call, IInv, TypeOK
<1>4. ASSUME NEW w \in Workers, Finish(w) PROVE replies'[t] = replies[t]
  <2>1. Top(w) \in Activation
    BY <1>4, TopType DEF Finish, Running, IInv
  <2>2. Top(w).serving \in Tickets \cup {NoTicket}
    BY <2>1 DEF Activation
  <2>3. CASE Top(w).serving = NoTicket
    BY <1>4, <2>3 DEF Finish
  <2>4. CASE Top(w).serving # NoTicket
    <3>1. PICK o \in {"ran", "skipped"} : Reply(Top(w).serving, o)
      BY <1>4, <2>4 DEF Finish
    <3> QED
      BY <1>1, <3>1 DEF Reply, IInv, TypeOK
  <2> QED
    BY <2>3, <2>4
<1>5. ASSUME NEW w \in Workers, PollDone(w) PROVE replies'[t] \in {replies[t], "none"}
  BY <1>5 DEF PollDone, IInv, TypeOK
<1>6. ASSUME NEW x \in Tickets, PollAnswer(x) PROVE replies'[t] \in {replies[t], "none"}
  BY <1>6 DEF PollAnswer, IInv, TypeOK
<1>7. ASSUME NEW w \in Workers,
             \/ Register(w) \/ Ring(w) \/ PollServe(w) \/ Interrupt(w)
             \/ TakeServeBus(w) \/ TakeCommand(w) \/ ServeInbox(w) \/ Stop(w)
      PROVE  replies' = replies
  BY <1>7 DEF Register, Ring, PollServe, Interrupt, TakeServeBus, TakeCommand, ServeInbox, Stop, hubVars
<1>8. ASSUME NEW x \in Tickets, PollPending(x) \/ Watch(x) PROVE replies' = replies
  BY <1>8 DEF PollPending, Watch, hubVars
<1>10. ASSUME NEW x \in Tickets, Abandon(x) PROVE replies'[t] \in {replies[t], "none"}
  BY <1>10 DEF Abandon, IInv, TypeOK
<1>9. ASSUME NEW w \in Workers, NEW v \in Workers, Emit(w, v) \/ Ask(w, v) PROVE replies'[t] = replies[t]
  BY <1>3, <1>9 DEF Emit, Ask
<1> QED
  BY <1>2, <1>4, <1>5, <1>6, <1>7, <1>8, <1>9, <1>10 DEF Next

(* An answer the hub holds changes only by being taken: a late reply does not
   replace the one retire() gave, nor retire() a reply that came first. *)
THEOREM FinalAnswers == Spec => AnswersAreFinal
<1>1. IInv /\ [Next]_vars => [\A t \in Tickets : replies[t] # "none" => replies'[t] \in {replies[t], "none"}]_vars
  BY AnswerStep
<1>2. QED
  BY Invariance, <1>1, PTL DEF Spec, AnswersAreFinal
=============================================================================
