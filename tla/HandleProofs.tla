---------------------------- MODULE HandleProofs ----------------------------
(***************************************************************************)
(* Proofs about the runtime handle and its command loops, for any set of   *)
(* calls, in both modes and whether or not construction fails.             *)
(*                                                                         *)
(* The inductive invariant says where a command can be: each is in the     *)
(* channel at most once and untouched, or held by the loop, or parked, or  *)
(* answered; and a stop never overtakes a call that was sent before it.    *)
(***************************************************************************)
EXTENDS Handle, TLAPS

(* The phases in which the loop holds a call, and those in which the call
   held has begun. *)
Begun   == {"run", "hook", "publish"}
Holding == Begun \cup {"serve"}

(* The loop is between finding its channel empty and going round again. *)
InPass ==
    \/ phase \in {"poll", "park", "asleep"}
    \/ phase \in {"hook", "publish"} /\ current \in flights

(* The channel holds x ahead of y. *)
Precedes(x, y) == \E i, j \in 1..Len(queue) : i < j /\ queue[i] = x /\ queue[j] = y

NoRepeat == \A i, j \in 1..Len(queue) : queue[i] = queue[j] => i = j

(* A command is in the channel at most once, and nothing was done with it yet. *)
Queued ==
    /\ NoRepeat
    /\ \A c \in Calls : InQueue(c) =>
          c \in sent /\ c \notin started /\ answer[c] = "none" /\ c # current
    /\ \A s \in Stops : InQueue(s) => report[s] = "sent" /\ s # stopCmd

(* What the loop holds or has parked was sent and is unanswered; only what is
   held in "serve" has not begun. *)
Held ==
    /\ current # NoCall <=> phase \in Holding
    /\ current # NoCall => current \in sent /\ answer[current] = "none"
    /\ phase = "serve" => current \notin started
    /\ phase \in Begun => current \in started
    /\ phase = "run" => current \notin flights
    /\ phase \in {"hook", "publish"} => outcome \in {"ok", "cancelled"}
    /\ phase \in {"hook", "publish"} /\ outcome = "cancelled" => current \in token
    /\ flights \subseteq started
    /\ started \subseteq sent
    /\ \A c \in flights : answer[c] = "none"
    /\ toPoll \subseteq flights \ {current}

(* A call cancelled while it was queued keeps its tripped token and is never
   taken. *)
Shed == \A c \in early : c \in token /\ c # current /\ c \notin started

(* The end of the loop: the stop it carries out was asked for, nothing is
   parked once it finishes, and the channel closes with the thread. *)
Ending ==
    /\ phase \in {"init", "failed", "finish", "close", "ended"} \/ ~yields => flights = {}
    /\ phase = "failed" => initError
    /\ phase = "finish" => stopCmd # NoCall
    /\ stopCmd # NoCall => report[stopCmd] # "none"
    /\ phase \in {"close", "ended"} /\ ~initError => stopCmd # NoCall /\ report[stopCmd] = "report"
    /\ \A s \in Stops : report[s] = "report" => phase \in {"close", "ended"}
    /\ ~open <=> phase = "ended"
    /\ ~open => queue = <<>>
    /\ killing # "no" => killed
    /\ report["kill"] # "none" => killed

(* Every call sent is somewhere, and a call sent ahead of a stop is answered,
   with the loop, or ahead of the stop in the channel. *)
Accounted ==
    /\ \A c \in sent : answer[c] # "none" \/ InQueue(c) \/ c = current \/ c \in flights
    /\ \A c \in Calls : answer[c] # "none" => c \in sent
    /\ \A s \in Stops : before[s] \subseteq sent
    /\ \A s \in Stops : InQueue(s) => \A c \in before[s] :
          answer[c] # "none" \/ c = current \/ c \in flights \/ Precedes(c, s)
    /\ stopCmd # NoCall => \A c \in before[stopCmd] : answer[c] # "none" \/ c \in flights
    /\ \A s \in Stops : report[s] = "report" /\ ~initError =>
          \A c \in before[s] : answer[c] # "none"

(* Why a call was cancelled or lost. *)
Excused ==
    \A c \in Calls :
       /\ answer[c] = "cancelled" => c \in token \/ killed
       /\ answer[c] = "gone" /\ ~initError =>
             stopCmd # NoCall /\ report[stopCmd] = "report" /\ c \notin before[stopCmd]

(* During a pass, a future that settled is still to be polled or the thread
   has its park token, and a send that it has not seen is about to unpark it. *)
Awake ==
    /\ phase \in {"park", "asleep"} => toPoll = {}
    /\ InPass /\ ~unparked =>
          /\ flights \cap ready \subseteq toPoll \cup {current}
          /\ stopCmd = NoCall => \A c \in Calls : InQueue(c) => waking # {}

IInv == TypeOK /\ Queued /\ Held /\ InFlightTruth /\ Shed /\ Ending /\ Accounted /\ Excused /\ Awake


(* A step that leaves the channel alone leaves what it holds, and the order. *)
LEMMA SameQueue ==
    ASSUME queue' = queue
    PROVE  /\ \A x : InQueue(x)' <=> InQueue(x)
           /\ \A x, y : Precedes(x, y)' <=> Precedes(x, y)
           /\ NoRepeat' <=> NoRepeat
  BY DEF InQueue, Precedes, NoRepeat

(* A step that takes h, the oldest command, keeps the order of the others. *)
Took(h) ==
    /\ h = Head(queue)
    /\ h \in Calls \cup Stops
    /\ queue' \in Seq(Calls \cup Stops)
    /\ InQueue(h) /\ ~InQueue(h)'
    /\ \A x : x # h => (InQueue(x)' <=> InQueue(x))
    /\ \A x, y : x # h /\ Precedes(x, y) => Precedes(x, y)'
    /\ \A x : ~Precedes(x, h)
    /\ NoRepeat'

(* A step that sends x puts it behind everything the channel holds. *)
Put(x) ==
    /\ queue' \in Seq(Calls \cup Stops)
    /\ InQueue(x)'
    /\ \A y : y # x => (InQueue(y)' <=> InQueue(y))
    /\ \A y, z : Precedes(y, z) => Precedes(y, z)'
    /\ \A y : InQueue(y) => Precedes(y, x)'
    /\ NoRepeat'

(* Receiving takes the oldest command. *)
LEMMA TakeHead ==
    ASSUME TypeOK, NoRepeat, queue # <<>>, queue' = Tail(queue)
    PROVE  \E h : Took(h)
<1> SUFFICES ASSUME NEW h, h = Head(queue) PROVE Took(h)
  OBVIOUS
<1>1. queue \in Seq(Calls \cup Stops) /\ Len(queue) \in Nat \ {0}
  BY DEF TypeOK
<1>2. /\ queue' \in Seq(Calls \cup Stops)
      /\ Len(queue') = Len(queue) - 1
      /\ \A i \in 1..Len(queue') : queue'[i] = queue[i + 1]
      /\ h = queue[1] /\ queue[1] \in Calls \cup Stops
  BY <1>1
<1>3. InQueue(h) /\ ~InQueue(h)'
  BY <1>1, <1>2 DEF InQueue, NoRepeat
<1>4. ASSUME NEW x, x # h PROVE InQueue(x)' <=> InQueue(x)
  <2>1. ASSUME InQueue(x) PROVE InQueue(x)'
    <3>1. PICK i \in 1..Len(queue) : queue[i] = x
      BY <2>1 DEF InQueue
    <3>2. i - 1 \in 1..Len(queue') /\ queue'[i - 1] = x
      BY <1>1, <1>2, <1>4, <3>1
    <3> QED
      BY <3>2 DEF InQueue
  <2>2. ASSUME InQueue(x)' PROVE InQueue(x)
    <3>1. PICK i \in 1..Len(queue') : queue'[i] = x
      BY <2>2 DEF InQueue
    <3>2. i + 1 \in 1..Len(queue) /\ queue[i + 1] = x
      BY <1>1, <1>2, <3>1
    <3> QED
      BY <3>2 DEF InQueue
  <2> QED
    BY <2>1, <2>2
<1>5. ASSUME NEW x, NEW y, x # h, Precedes(x, y) PROVE Precedes(x, y)'
  <2>1. PICK i, j \in 1..Len(queue) : i < j /\ queue[i] = x /\ queue[j] = y
    BY <1>5 DEF Precedes
  <2>2. /\ i - 1 \in 1..Len(queue') /\ j - 1 \in 1..Len(queue') /\ i - 1 < j - 1
        /\ queue'[i - 1] = x /\ queue'[j - 1] = y
    BY <1>1, <1>2, <1>5, <2>1
  <2> QED
    BY <2>2 DEF Precedes
<1>6. ASSUME NEW x PROVE ~Precedes(x, h)
  BY <1>1, <1>2 DEF Precedes, NoRepeat
<1>7. NoRepeat'
  <2> SUFFICES ASSUME NEW i \in 1..Len(queue'), NEW j \in 1..Len(queue'), queue'[i] = queue'[j]
               PROVE  i = j
    BY DEF NoRepeat
  <2>1. i + 1 \in 1..Len(queue) /\ j + 1 \in 1..Len(queue) /\ queue[i + 1] = queue[j + 1]
    BY <1>1, <1>2
  <2> QED
    BY <2>1 DEF NoRepeat
<1> QED
  BY <1>2, <1>3, <1>4, <1>5, <1>6, <1>7 DEF Took

(* A send puts its command last. *)
LEMMA PutLast ==
    ASSUME TypeOK, NoRepeat, NEW x \in Calls \cup Stops, ~InQueue(x), queue' = Append(queue, x)
    PROVE  Put(x)
<1>1. queue \in Seq(Calls \cup Stops) /\ Len(queue) \in Nat
  BY DEF TypeOK
<1>2. /\ queue' \in Seq(Calls \cup Stops)
      /\ Len(queue') = Len(queue) + 1
      /\ \A i \in 1..Len(queue) : queue'[i] = queue[i]
      /\ queue'[Len(queue')] = x
  BY <1>1
<1>3. Len(queue') \in 1..Len(queue') /\ \A i \in 1..Len(queue') : i = Len(queue') \/ i \in 1..Len(queue)
  BY <1>1, <1>2
<1>4. InQueue(x)'
  BY <1>2, <1>3 DEF InQueue
<1>5. ASSUME NEW y, y # x PROVE InQueue(y)' <=> InQueue(y)
  <2>1. ASSUME InQueue(y) PROVE InQueue(y)'
    <3>1. PICK i \in 1..Len(queue) : queue[i] = y
      BY <2>1 DEF InQueue
    <3>2. i \in 1..Len(queue') /\ queue'[i] = y
      BY <1>1, <1>2, <3>1
    <3> QED
      BY <3>2 DEF InQueue
  <2>2. ASSUME InQueue(y)' PROVE InQueue(y)
    BY <1>2, <1>3, <1>5, <2>2 DEF InQueue
  <2> QED
    BY <2>1, <2>2
<1>6. ASSUME NEW y, NEW z, Precedes(y, z) PROVE Precedes(y, z)'
  <2>1. PICK i, j \in 1..Len(queue) : i < j /\ queue[i] = y /\ queue[j] = z
    BY <1>6 DEF Precedes
  <2>2. /\ i \in 1..Len(queue') /\ j \in 1..Len(queue')
        /\ queue'[i] = y /\ queue'[j] = z
    BY <1>1, <1>2, <2>1
  <2> QED
    BY <2>1, <2>2 DEF Precedes
<1>7. ASSUME NEW y, InQueue(y) PROVE Precedes(y, x)'
  <2>1. PICK i \in 1..Len(queue) : queue[i] = y
    BY <1>7 DEF InQueue
  <2>2. i \in 1..Len(queue') /\ i < Len(queue') /\ queue'[i] = y
    BY <1>1, <1>2, <2>1
  <2> QED
    BY <1>2, <1>3, <2>2 DEF Precedes
<1>8. NoRepeat'
  <2> SUFFICES ASSUME NEW i \in 1..Len(queue'), NEW j \in 1..Len(queue'), queue'[i] = queue'[j]
               PROVE  i = j
    BY DEF NoRepeat
  <2>1. \A k \in 1..Len(queue) : queue[k] # x
    BY DEF InQueue
  <2>2. CASE i \in 1..Len(queue) /\ j \in 1..Len(queue)
    BY <1>2, <2>2 DEF NoRepeat
  <2>3. CASE i = Len(queue') \/ j = Len(queue')
    BY <1>2, <1>3, <2>1, <2>3
  <2> QED
    BY <1>3, <2>2, <2>3
<1> QED
  BY <1>2, <1>4, <1>5, <1>6, <1>7, <1>8 DEF Put

(* In the phases that hold a call there is one. *)
LEMMA HeldCall ==
    ASSUME TypeOK, Held, phase \in Holding
    PROVE  current \in Calls
  BY DEF TypeOK, Held

(* Every step keeps the state well typed. *)
LEMMA TypeStep == IInv /\ [Next]_vars => TypeOK'
<1> SUFFICES ASSUME IInv, [Next]_vars PROVE TypeOK'
  OBVIOUS
<1> USE DEF IInv, channel, shared, loop, host, history, replies
<1>1. ASSUME NEW c \in Calls, Send(c) PROVE TypeOK'
  BY <1>1, HandleAssumption DEF Send, TypeOK, Phases, Answers, Reports, Stops
<1>2. ASSUME NEW c \in Calls, CancelCall(c) PROVE TypeOK'
  BY <1>2, HandleAssumption DEF CancelCall, TypeOK, Phases, Answers, Reports, Stops
<1>3. ASSUME NEW x \in Calls \cup Stops, WakeWorker(x) PROVE TypeOK'
  BY <1>3, HandleAssumption DEF WakeWorker, TypeOK, Phases, Answers, Reports, Stops
<1>4. ASSUME NEW c \in Calls, Settle(c) PROVE TypeOK'
  BY <1>4, HandleAssumption DEF Settle, TypeOK, Phases, Answers, Reports, Stops
<1>5. CASE Shutdown
  <2>1. "shutdown" \in Stops
    BY DEF Stops
  <2>2. stopping' \in BOOLEAN /\ alive' \in BOOLEAN
    BY <1>5, <2>1 DEF Shutdown, SendStop, TypeOK
  <2>3. queue' \in Seq(Calls \cup Stops)
    BY <1>5, <2>1 DEF Shutdown, SendStop, TypeOK
  <2>4. report' \in [Stops -> Reports] /\ before' \in [Stops -> SUBSET Calls]
    BY <1>5, <2>1 DEF Shutdown, SendStop, TypeOK, Reports
  <2> QED
    BY <1>5, <2>1, <2>2, <2>3, <2>4 DEF Shutdown, TypeOK
<1>6. CASE KillFlag
  BY <1>6, HandleAssumption DEF KillFlag, TypeOK, Phases, Answers, Reports, Stops
<1>7. CASE KillTokens
  BY <1>7, HandleAssumption DEF KillTokens, TypeOK, Phases, Answers, Reports, Stops
<1>8. CASE KillStop
  BY <1>8, HandleAssumption DEF KillStop, SendStop, TypeOK, Phases, Answers, Reports, Stops
<1>9. CASE DropHandle
  <2>1. "drop" \in Stops
    BY DEF Stops
  <2>2. stopping' \in BOOLEAN /\ alive' \in BOOLEAN
    BY <1>9, <2>1 DEF DropHandle, SendStop, TypeOK
  <2>3. queue' \in Seq(Calls \cup Stops)
    BY <1>9, <2>1 DEF DropHandle, SendStop, TypeOK
  <2>4. report' \in [Stops -> Reports] /\ before' \in [Stops -> SUBSET Calls]
    BY <1>9, <2>1 DEF DropHandle, SendStop, TypeOK, Reports
  <2> QED
    BY <1>9, <2>1, <2>2, <2>3, <2>4 DEF DropHandle, TypeOK
<1>10. CASE Construct
  BY <1>10, HandleAssumption DEF Construct, TypeOK, Phases, Answers, Reports, Stops
<1>11. CASE ConstructFails
  BY <1>11, HandleAssumption DEF ConstructFails, TypeOK, Phases, Answers, Reports, Stops
<1>12. CASE DrainFailed
  BY <1>12, HandleAssumption DEF DrainFailed, TypeOK, Phases, Answers, Reports, Stops
<1>13. CASE RecvStop
  <2>1. queue # <<>> /\ queue' = Tail(queue)
    BY <1>13 DEF RecvStop, Receiving
  <2>2. Head(queue) \in Calls \cup Stops /\ queue' \in Seq(Calls \cup Stops)
    BY <2>1, TakeHead DEF Queued, Took
  <2> QED
    BY <1>13, <2>2, HandleAssumption DEF RecvStop, Receiving, TypeOK, Phases, Answers, Reports, Stops
<1>14. CASE RecvShed
  <2>1. queue # <<>> /\ queue' = Tail(queue)
    BY <1>14 DEF RecvShed, Receiving
  <2>2. Head(queue) \in Calls \cup Stops /\ queue' \in Seq(Calls \cup Stops)
    BY <2>1, TakeHead DEF Queued, Took
  <2> QED
    BY <1>14, <2>2, HandleAssumption DEF RecvShed, Receiving, TypeOK, Phases, Answers, Reports, Stops
<1>15. CASE RecvCall
  <2>1. queue # <<>> /\ queue' = Tail(queue)
    BY <1>15 DEF RecvCall, Receiving
  <2>2. Head(queue) \in Calls \cup Stops /\ queue' \in Seq(Calls \cup Stops)
    BY <2>1, TakeHead DEF Queued, Took
  <2> QED
    BY <1>15, <2>2, HandleAssumption DEF RecvCall, Receiving, TypeOK, Phases, Answers, Reports, Stops
<1>16. CASE Start
  <2>1. current \in Calls
    BY <1>16, HeldCall DEF Start, Holding, Begun
  <2> QED
    BY <1>16, <2>1, HandleAssumption DEF Start, TypeOK, Phases, Answers, Reports, Stops
<1>17. CASE ScriptEnds
  BY <1>17, HandleAssumption DEF ScriptEnds, TypeOK, Phases, Answers, Reports, Stops
<1>18. CASE ScriptParks
  <2>1. current \in Calls
    BY <1>18, HeldCall DEF ScriptParks, Holding, Begun
  <2>2. phase' \in Phases /\ current' \in Calls \cup {NoCall} /\ flights' \subseteq Calls
    BY <1>18, <2>1 DEF ScriptParks, TypeOK, Phases
  <2>3. UNCHANGED <<yields, channel, shared, outcome, toPoll, stopCmd, ready, unparked, host, history,
                    replies>>
    BY <1>18 DEF ScriptParks
  <2> QED
    BY <2>2, <2>3 DEF TypeOK
<1>19. CASE Hook
  BY <1>19, HandleAssumption DEF Hook, TypeOK, Phases, Answers, Reports, Stops
<1>20. CASE Publish
  BY <1>20, HandleAssumption, ZenonT(60) DEF Publish, TypeOK, Phases, Answers, Reports, Stops
<1>21. CASE BeginPass
  BY <1>21, HandleAssumption DEF BeginPass, TypeOK, Phases, Answers, Reports, Stops
<1>22. ASSUME NEW c \in Calls, PollFlight(c) PROVE TypeOK'
  BY <1>22, HandleAssumption DEF PollFlight, TypeOK, Phases, Answers, Reports, Stops
<1>23. CASE EndPass
  BY <1>23, HandleAssumption DEF EndPass, TypeOK, Phases, Answers, Reports, Stops
<1>24. CASE Park
  BY <1>24, HandleAssumption DEF Park, TypeOK, Phases, Answers, Reports, Stops
<1>25. CASE Unpark
  <2>1. unparked' \in BOOLEAN
    BY <1>25 DEF Unpark
  <2> QED
    BY <1>25, <2>1 DEF Unpark, TypeOK, Phases
<1>26. CASE DropQueued
  BY <1>26, HandleAssumption DEF DropQueued, TypeOK, Phases, Answers, Reports, Stops
<1>27. CASE Report
  <2>1. stopCmd \in Stops
    BY <1>27 DEF Report, Ending, TypeOK
  <2> QED
    BY <1>27, <2>1 DEF Report, TypeOK, Phases, Reports
<1>28. CASE Close
  <2>1. open' \in BOOLEAN
    BY <1>28 DEF Close
  <2>3. queue' \in Seq(Calls \cup Stops)
    BY <1>28 DEF Close
  <2>2. answer' \in [Calls -> Answers] /\ report' \in [Stops -> Reports]
    BY <1>28 DEF Close, TypeOK, Answers, Reports
  <2> QED
    BY <1>28, <2>1, <2>2, <2>3 DEF Close, TypeOK, Phases
<1>29. CASE UNCHANGED vars
  BY <1>29, HandleAssumption DEF vars, TypeOK, Phases, Answers, Reports, Stops
<1>30. QED
  BY <1>1, <1>2, <1>3, <1>4, <1>5, <1>6, <1>7, <1>8, <1>9, <1>10, <1>11, <1>12, <1>13, <1>14,
     <1>15, <1>16, <1>17, <1>18, <1>19, <1>20, <1>21, <1>22, <1>23, <1>24, <1>25, <1>26, <1>27, <1>28, <1>29 DEF Next, LoopStep, HostStep

(* The stop commands are no calls. *)
LEMMA StopNames ==
    /\ "shutdown" \in Stops /\ "kill" \in Stops /\ "drop" \in Stops
    /\ \A s \in Stops : s \notin Calls /\ s # NoCall
  BY StopsAssumption DEF Stops

(* A stop that is sent joins the channel behind every call sent so far, or
   finds the thread gone. *)
LEMMA StopSent ==
    ASSUME IInv, NEW s \in Stops, SendStop(s)
    PROVE  /\ report[s] = "none" /\ ~InQueue(s) /\ stopCmd # s
           /\ open => Put(s) /\ report' = [report EXCEPT ![s] = "sent"]
           /\ ~open => queue' = queue /\ report' = [report EXCEPT ![s] = "report"]
           /\ before' = [before EXCEPT ![s] = sent]
<1> USE DEF IInv
<1>1. report[s] = "none"
  BY DEF SendStop
<1>2. ~InQueue(s)
  BY <1>1 DEF Queued
<1>3. stopCmd # s
  BY <1>1, StopNames DEF Ending
<1>4. open => queue' = Append(queue, s)
  BY DEF SendStop
<1>5. open => Put(s)
  BY <1>2, <1>4, PutLast DEF Queued
<1> QED
  BY <1>1, <1>2, <1>3, <1>5 DEF SendStop

(* Sending a stop, whichever verb sends it, disturbs no call. *)
LEMMA StopKeeps ==
    ASSUME IInv, NEW s \in Stops, SendStop(s),
           UNCHANGED <<yields, open, token, killed, initError, loop, sent, started, answer>>,
           killing' # "no" \/ s = "kill" => killed
    PROVE  Queued' /\ Ending' /\ Accounted' /\ Excused'
<1> USE DEF IInv, loop
<1>1. Queued'
  <2>1. CASE open
    BY <2>1, StopSent, StopNames DEF Queued, Put, TypeOK
  <2>2. CASE ~open
    BY <2>2, StopSent, SameQueue DEF Queued, Ending, InQueue
  <2> QED
    BY <2>1, <2>2
<1>2. Ending'
  <2>1. report \in [Stops -> Reports] /\ stopCmd \in Stops \cup {NoCall} /\ "kill" \in Stops
    BY StopNames DEF TypeOK
  <2>2. CASE open
    BY <2>1, <2>2, StopSent DEF Ending
  <2>3. CASE ~open
    BY <2>1, <2>3, StopSent DEF Ending
  <2> QED
    BY <2>2, <2>3
<1>3. Accounted'
  <2>1. CASE open
    BY <2>1, StopSent, StopNames, SMTT(30) DEF Accounted, Put, TypeOK
  <2>2. CASE ~open
    <3>1. queue = <<>> /\ phase = "ended" /\ flights = {} /\ current = NoCall
      BY <2>2 DEF Ending, Held, Holding, Begun
    <3>2. \A c \in sent : answer[c] # "none"
      BY <3>1, HandleAssumption DEF Accounted, InQueue, TypeOK
    <3> QED
      BY <2>2, <3>2, StopSent, SameQueue DEF Accounted, TypeOK
  <2> QED
    BY <2>1, <2>2
<1>4. Excused'
  BY StopSent DEF Excused, TypeOK
<1> QED
  BY <1>1, <1>2, <1>3, <1>4

(* Commands stay in the channel once, and untouched. *)
LEMMA QueuedStep == IInv /\ [Next]_vars => Queued'
<1> SUFFICES ASSUME IInv, [Next]_vars PROVE Queued'
  OBVIOUS
<1> USE DEF IInv, channel, shared, loop, host, history, replies
<1>1. ASSUME NEW c \in Calls, Send(c) PROVE Queued'
  <2>1. CASE open
    <3>1. ~InQueue(c) /\ queue' = Append(queue, c)
      BY <1>1, <2>1 DEF Send, Queued
    <3>2. Put(c)
      BY <3>1, PutLast DEF Queued
    <3> QED
      BY <1>1, <2>1, <3>2, HandleAssumption, StopNames DEF Send, Put, Queued, Accounted, Held, TypeOK
  <2>2. CASE ~open
    BY <1>1, <2>2, SameQueue, HandleAssumption, StopNames DEF Send, Queued, Accounted, Held, TypeOK
  <2> QED
    BY <2>1, <2>2
<1>2. ASSUME NEW c \in Calls, CancelCall(c) PROVE Queued'
  BY <1>2, SameQueue DEF CancelCall, Queued
<1>3. ASSUME NEW x \in Calls \cup Stops, WakeWorker(x) PROVE Queued'
  BY <1>3, SameQueue DEF WakeWorker, Queued
<1>4. ASSUME NEW c \in Calls, Settle(c) PROVE Queued'
  BY <1>4, SameQueue DEF Settle, Queued
<1>5. CASE Shutdown
  BY <1>5, StopKeeps, StopNames DEF Shutdown, Ending
<1>6. CASE KillFlag
  BY <1>6, SameQueue DEF KillFlag, Queued
<1>7. CASE KillTokens
  BY <1>7, SameQueue DEF KillTokens, Queued
<1>8. CASE KillStop
  BY <1>8, StopKeeps, StopNames DEF KillStop, Ending
<1>9. CASE DropHandle
  <2>1. CASE stopping
    BY <1>9, <2>1, SameQueue DEF DropHandle, Queued
  <2>2. CASE ~stopping
    BY <1>9, <2>2, StopKeeps, StopNames DEF DropHandle, Ending
  <2> QED
    BY <2>1, <2>2
<1>10. CASE Construct
  BY <1>10, SameQueue DEF Construct, Queued
<1>11. CASE ConstructFails
  BY <1>11, SameQueue DEF ConstructFails, Queued
<1>12. CASE DrainFailed
  <2>1. PICK h : Took(h)
    BY <1>12, TakeHead DEF DrainFailed, Queued
  <2> QED
    BY <1>12, <2>1, HandleAssumption, StopNames DEF DrainFailed, Took, Queued, TypeOK, Held, Receiving
<1>13. CASE RecvStop
  <2>1. PICK h : Took(h)
    BY <1>13, TakeHead DEF RecvStop, Receiving, Queued
  <2> QED
    BY <1>13, <2>1, HandleAssumption, StopNames DEF RecvStop, Took, Queued, TypeOK, Held, Receiving
<1>14. CASE RecvShed
  <2>1. PICK h : Took(h)
    BY <1>14, TakeHead DEF RecvShed, Receiving, Queued
  <2> QED
    BY <1>14, <2>1, HandleAssumption, StopNames DEF RecvShed, Took, Queued, TypeOK, Held, Receiving
<1>15. CASE RecvCall
  <2>1. PICK h : Took(h)
    BY <1>15, TakeHead DEF RecvCall, Receiving, Queued
  <2> QED
    BY <1>15, <2>1, HandleAssumption, StopNames DEF RecvCall, Took, Queued, TypeOK, Held, Receiving
<1>16. CASE Start
  BY <1>16, SameQueue DEF Start, Queued
<1>17. CASE ScriptEnds
  BY <1>17, SameQueue DEF ScriptEnds, Queued
<1>18. CASE ScriptParks
  BY <1>18, SameQueue, HandleAssumption DEF ScriptParks, Queued, Held, TypeOK
<1>19. CASE Hook
  BY <1>19, SameQueue DEF Hook, Queued
<1>20. CASE Publish
  BY <1>20, SameQueue, HandleAssumption DEF Publish, Queued, Held, TypeOK
<1>21. CASE BeginPass
  BY <1>21, SameQueue DEF BeginPass, Queued
<1>22. ASSUME NEW c \in Calls, PollFlight(c) PROVE Queued'
  BY <1>22, SameQueue, HandleAssumption DEF PollFlight, Queued, Held, TypeOK
<1>23. CASE EndPass
  BY <1>23, SameQueue DEF EndPass, Queued
<1>24. CASE Park
  BY <1>24, SameQueue DEF Park, Queued
<1>25. CASE Unpark
  BY <1>25, SameQueue DEF Unpark, Queued
<1>26. CASE DropQueued
  <2>1. PICK h : Took(h)
    BY <1>26, TakeHead DEF DropQueued, Queued
  <2> QED
    BY <1>26, <2>1, HandleAssumption, StopNames DEF DropQueued, Took, Queued, TypeOK, Held, Receiving
<1>27. CASE Report
  BY <1>27, SameQueue DEF Report, Queued
<1>28. CASE Close
  BY <1>28 DEF Close, Queued, NoRepeat, InQueue
<1>29. CASE UNCHANGED vars
  BY <1>29, SameQueue DEF vars, Queued
<1>30. QED
  BY <1>1, <1>2, <1>3, <1>4, <1>5, <1>6, <1>7, <1>8, <1>9, <1>10, <1>11, <1>12, <1>13, <1>14,
     <1>15, <1>16, <1>17, <1>18, <1>19, <1>20, <1>21, <1>22, <1>23, <1>24, <1>25, <1>26, <1>27, <1>28, <1>29 DEF Next, LoopStep, HostStep

(* What the loop holds and has parked stays as Held says. *)
LEMMA HeldStep == IInv /\ [Next]_vars => Held'
<1> SUFFICES ASSUME IInv, [Next]_vars PROVE Held'
  OBVIOUS
<1> USE DEF IInv, channel, shared, loop, host, history, replies
<1>1. ASSUME NEW c \in Calls, Send(c) PROVE Held'
  <2>1. \A d \in sent : answer'[d] = answer[d]
    BY <1>1 DEF Send, TypeOK
  <2> QED
    BY <1>1, <2>1 DEF Send, Held, Holding, Begun, TypeOK
<1>2. ASSUME NEW c \in Calls, CancelCall(c) PROVE Held'
  BY <1>2 DEF CancelCall, Held, Holding, Begun
<1>3. ASSUME NEW x \in Calls \cup Stops, WakeWorker(x) PROVE Held'
  BY <1>3 DEF WakeWorker, Held, Holding, Begun
<1>4. ASSUME NEW c \in Calls, Settle(c) PROVE Held'
  BY <1>4 DEF Settle, Held, Holding, Begun
<1>5. CASE Shutdown
  BY <1>5 DEF Shutdown, SendStop, Held, Holding, Begun
<1>6. CASE KillFlag
  BY <1>6 DEF KillFlag, Held, Holding, Begun
<1>7. CASE KillTokens
  BY <1>7 DEF KillTokens, Held, Holding, Begun
<1>8. CASE KillStop
  BY <1>8 DEF KillStop, SendStop, Held, Holding, Begun
<1>9. CASE DropHandle
  BY <1>9 DEF DropHandle, SendStop, Held, Holding, Begun
<1>10. CASE Construct
  BY <1>10 DEF Construct, Held, Holding, Begun
<1>11. CASE ConstructFails
  BY <1>11 DEF ConstructFails, Held, Holding, Begun
<1>12. CASE DrainFailed
  <2>1. PICK h : Took(h)
    BY <1>12, TakeHead DEF DrainFailed, Queued
  <2> QED
    BY <1>12, <2>1, HandleAssumption, StopNames DEF DrainFailed, Took, Queued, TypeOK, Held, Receiving, Holding, Begun
<1>13. CASE RecvStop
  <2>1. PICK h : Took(h)
    BY <1>13, TakeHead DEF RecvStop, Receiving, Queued
  <2> QED
    BY <1>13, <2>1, HandleAssumption, StopNames DEF RecvStop, Took, Queued, TypeOK, Held, Receiving, Holding, Begun
<1>14. CASE RecvShed
  <2>1. PICK h : Took(h)
    BY <1>14, TakeHead DEF RecvShed, Receiving, Queued
  <2> QED
    BY <1>14, <2>1, HandleAssumption, StopNames DEF RecvShed, Took, Queued, TypeOK, Held, Receiving, Holding, Begun
<1>15. CASE RecvCall
  <2>1. PICK h : Took(h)
    BY <1>15, TakeHead DEF RecvCall, Receiving, Queued
  <2> QED
    BY <1>15, <2>1, HandleAssumption, StopNames DEF RecvCall, Took, Queued, TypeOK, Held, Receiving, Holding, Begun
<1>16. CASE Start
  BY <1>16 DEF Start, Held, Holding, Begun
<1>17. CASE ScriptEnds
  BY <1>17 DEF ScriptEnds, Held, Holding, Begun
<1>18. CASE ScriptParks
  BY <1>18, HandleAssumption DEF ScriptParks, Held, Holding, Begun, TypeOK
<1>19. CASE Hook
  BY <1>19 DEF Hook, Held, Holding, Begun
<1>20. CASE Publish
  BY <1>20, HandleAssumption DEF Publish, Held, Holding, Begun, TypeOK
<1>21. CASE BeginPass
  BY <1>21, HandleAssumption DEF BeginPass, Held, Holding, Begun, TypeOK
<1>22. ASSUME NEW c \in Calls, PollFlight(c) PROVE Held'
  BY <1>22 DEF PollFlight, Held, Holding, Begun
<1>23. CASE EndPass
  BY <1>23 DEF EndPass, Held, Holding, Begun
<1>24. CASE Park
  BY <1>24 DEF Park, Held, Holding, Begun
<1>25. CASE Unpark
  BY <1>25, HandleAssumption DEF Unpark, Held, Holding, Begun, TypeOK
<1>26. CASE DropQueued
  <2>1. PICK h : Took(h)
    BY <1>26, TakeHead DEF DropQueued, Queued
  <2> QED
    BY <1>26, <2>1, HandleAssumption, StopNames DEF DropQueued, Took, Queued, TypeOK, Held, Receiving, Holding, Begun
<1>27. CASE Report
  BY <1>27 DEF Report, Held, Holding, Begun
<1>28. CASE Close
  BY <1>28, HandleAssumption DEF Close, Held, Holding, Begun, TypeOK, Queued, Ending
<1>29. CASE UNCHANGED vars
  BY <1>29 DEF vars, Held, Holding, Begun
<1>30. QED
  BY <1>1, <1>2, <1>3, <1>4, <1>5, <1>6, <1>7, <1>8, <1>9, <1>10, <1>11, <1>12, <1>13, <1>14,
     <1>15, <1>16, <1>17, <1>18, <1>19, <1>20, <1>21, <1>22, <1>23, <1>24, <1>25, <1>26, <1>27, <1>28, <1>29 DEF Next, LoopStep, HostStep

(* A call cancelled in the channel stays out of the loop's hands. *)
LEMMA ShedStep == IInv /\ [Next]_vars => Shed'
<1> SUFFICES ASSUME IInv, [Next]_vars PROVE Shed'
  OBVIOUS
<1> USE DEF IInv, channel, shared, loop, host, history, replies
<1>1. ASSUME NEW c \in Calls, Send(c) PROVE Shed'
  BY <1>1 DEF Send, Shed
<1>2. ASSUME NEW c \in Calls, CancelCall(c) PROVE Shed'
  BY <1>2 DEF CancelCall, Shed, Queued
<1>3. ASSUME NEW x \in Calls \cup Stops, WakeWorker(x) PROVE Shed'
  BY <1>3 DEF WakeWorker, Shed
<1>4. ASSUME NEW c \in Calls, Settle(c) PROVE Shed'
  BY <1>4 DEF Settle, Shed
<1>5. CASE Shutdown
  BY <1>5 DEF Shutdown, SendStop, Shed
<1>6. CASE KillFlag
  BY <1>6 DEF KillFlag, Shed
<1>7. CASE KillTokens
  BY <1>7 DEF KillTokens, Shed
<1>8. CASE KillStop
  BY <1>8 DEF KillStop, SendStop, Shed
<1>9. CASE DropHandle
  BY <1>9 DEF DropHandle, SendStop, Shed
<1>10. CASE Construct
  BY <1>10 DEF Construct, Shed
<1>11. CASE ConstructFails
  BY <1>11 DEF ConstructFails, Shed
<1>12. CASE DrainFailed
  BY <1>12 DEF DrainFailed, Shed
<1>13. CASE RecvStop
  BY <1>13 DEF RecvStop, Shed
<1>14. CASE RecvShed
  BY <1>14 DEF RecvShed, Shed
<1>15. CASE RecvCall
  BY <1>15 DEF RecvCall, Shed
<1>16. CASE Start
  BY <1>16 DEF Start, Shed
<1>17. CASE ScriptEnds
  BY <1>17 DEF ScriptEnds, Shed
<1>18. CASE ScriptParks
  BY <1>18, HandleAssumption DEF ScriptParks, Shed, TypeOK
<1>19. CASE Hook
  BY <1>19 DEF Hook, Shed
<1>20. CASE Publish
  BY <1>20, HandleAssumption DEF Publish, Shed, TypeOK
<1>21. CASE BeginPass
  BY <1>21 DEF BeginPass, Shed
<1>22. ASSUME NEW c \in Calls, PollFlight(c) PROVE Shed'
  BY <1>22 DEF PollFlight, Shed, Held
<1>23. CASE EndPass
  BY <1>23 DEF EndPass, Shed
<1>24. CASE Park
  BY <1>24 DEF Park, Shed
<1>25. CASE Unpark
  BY <1>25 DEF Unpark, Shed
<1>26. CASE DropQueued
  BY <1>26 DEF DropQueued, Shed
<1>27. CASE Report
  BY <1>27 DEF Report, Shed
<1>28. CASE Close
  BY <1>28 DEF Close, Shed
<1>29. CASE UNCHANGED vars
  BY <1>29 DEF vars, Shed
<1>30. QED
  BY <1>1, <1>2, <1>3, <1>4, <1>5, <1>6, <1>7, <1>8, <1>9, <1>10, <1>11, <1>12, <1>13, <1>14,
     <1>15, <1>16, <1>17, <1>18, <1>19, <1>20, <1>21, <1>22, <1>23, <1>24, <1>25, <1>26, <1>27, <1>28, <1>29 DEF Next, LoopStep, HostStep

(* in_flight stays what the loop runs and has parked. *)
LEMMA InFlightStep == IInv /\ [Next]_vars => InFlightTruth'
<1> SUFFICES ASSUME IInv, [Next]_vars PROVE InFlightTruth'
  OBVIOUS
<1> USE DEF IInv, channel, shared, loop, host, history, replies
<1>1. ASSUME NEW c \in Calls, Send(c) PROVE InFlightTruth'
  BY <1>1 DEF Send, InFlightTruth, Held, TypeOK
<1>2. ASSUME NEW c \in Calls, CancelCall(c) PROVE InFlightTruth'
  BY <1>2 DEF CancelCall, InFlightTruth
<1>3. ASSUME NEW x \in Calls \cup Stops, WakeWorker(x) PROVE InFlightTruth'
  BY <1>3 DEF WakeWorker, InFlightTruth
<1>4. ASSUME NEW c \in Calls, Settle(c) PROVE InFlightTruth'
  BY <1>4 DEF Settle, InFlightTruth
<1>5. CASE Shutdown
  BY <1>5 DEF Shutdown, SendStop, InFlightTruth
<1>6. CASE KillFlag
  BY <1>6 DEF KillFlag, InFlightTruth
<1>7. CASE KillTokens
  BY <1>7 DEF KillTokens, InFlightTruth
<1>8. CASE KillStop
  BY <1>8 DEF KillStop, SendStop, InFlightTruth
<1>9. CASE DropHandle
  BY <1>9 DEF DropHandle, SendStop, InFlightTruth
<1>10. CASE Construct
  BY <1>10 DEF Construct, InFlightTruth
<1>11. CASE ConstructFails
  BY <1>11 DEF ConstructFails, InFlightTruth
<1>12. CASE DrainFailed
  <2>1. PICK h : Took(h)
    BY <1>12, TakeHead DEF DrainFailed, Queued
  <2> QED
    BY <1>12, <2>1, HandleAssumption, StopNames DEF DrainFailed, InFlightTruth, Took, Queued, TypeOK, Held, Receiving
<1>13. CASE RecvStop
  <2>1. PICK h : Took(h)
    BY <1>13, TakeHead DEF RecvStop, Receiving, Queued
  <2> QED
    BY <1>13, <2>1, HandleAssumption, StopNames DEF RecvStop, InFlightTruth, Took, Queued, TypeOK, Held, Receiving
<1>14. CASE RecvShed
  <2>1. PICK h : Took(h)
    BY <1>14, TakeHead DEF RecvShed, Receiving, Queued
  <2> QED
    BY <1>14, <2>1, HandleAssumption, StopNames DEF RecvShed, InFlightTruth, Took, Queued, TypeOK, Held, Receiving
<1>15. CASE RecvCall
  <2>1. PICK h : Took(h)
    BY <1>15, TakeHead DEF RecvCall, Receiving, Queued
  <2> QED
    BY <1>15, <2>1, HandleAssumption, StopNames DEF RecvCall, InFlightTruth, Took, Queued, TypeOK, Held, Receiving
<1>16. CASE Start
  BY <1>16, HeldCall DEF Start, InFlightTruth, Held, Holding, Begun, TypeOK
<1>17. CASE ScriptEnds
  BY <1>17 DEF ScriptEnds, InFlightTruth
<1>18. CASE ScriptParks
  BY <1>18 DEF ScriptParks, InFlightTruth
<1>19. CASE Hook
  BY <1>19 DEF Hook, InFlightTruth
<1>20. CASE Publish
  BY <1>20 DEF Publish, InFlightTruth
<1>21. CASE BeginPass
  BY <1>21 DEF BeginPass, InFlightTruth
<1>22. ASSUME NEW c \in Calls, PollFlight(c) PROVE InFlightTruth'
  BY <1>22 DEF PollFlight, InFlightTruth, Held, Holding, Begun, TypeOK
<1>23. CASE EndPass
  BY <1>23 DEF EndPass, InFlightTruth
<1>24. CASE Park
  BY <1>24 DEF Park, InFlightTruth
<1>25. CASE Unpark
  BY <1>25 DEF Unpark, InFlightTruth
<1>26. CASE DropQueued
  <2>1. PICK h : Took(h)
    BY <1>26, TakeHead DEF DropQueued, Queued
  <2> QED
    BY <1>26, <2>1, HandleAssumption, StopNames DEF DropQueued, InFlightTruth, Took, Queued, TypeOK, Held, Receiving
<1>27. CASE Report
  BY <1>27 DEF Report, InFlightTruth
<1>28. CASE Close
  BY <1>28 DEF Close, InFlightTruth, Queued, TypeOK
<1>29. CASE UNCHANGED vars
  BY <1>29 DEF vars, InFlightTruth
<1>30. QED
  BY <1>1, <1>2, <1>3, <1>4, <1>5, <1>6, <1>7, <1>8, <1>9, <1>10, <1>11, <1>12, <1>13, <1>14,
     <1>15, <1>16, <1>17, <1>18, <1>19, <1>20, <1>21, <1>22, <1>23, <1>24, <1>25, <1>26, <1>27, <1>28, <1>29 DEF Next, LoopStep, HostStep

(* The end of the loop stays orderly. *)
LEMMA EndingStep == IInv /\ [Next]_vars => Ending'
<1> SUFFICES ASSUME IInv, [Next]_vars PROVE Ending'
  OBVIOUS
<1> USE DEF IInv, channel, shared, loop, host, history, replies
<1>1. ASSUME NEW c \in Calls, Send(c) PROVE Ending'
  BY <1>1 DEF Send, Ending
<1>2. ASSUME NEW c \in Calls, CancelCall(c) PROVE Ending'
  BY <1>2 DEF CancelCall, Ending
<1>3. ASSUME NEW x \in Calls \cup Stops, WakeWorker(x) PROVE Ending'
  BY <1>3 DEF WakeWorker, Ending
<1>4. ASSUME NEW c \in Calls, Settle(c) PROVE Ending'
  BY <1>4 DEF Settle, Ending
<1>5. CASE Shutdown
  BY <1>5, StopKeeps, StopNames DEF Shutdown, Ending
<1>6. CASE KillFlag
  BY <1>6 DEF KillFlag, Ending
<1>7. CASE KillTokens
  BY <1>7 DEF KillTokens, Ending
<1>8. CASE KillStop
  BY <1>8, StopKeeps, StopNames DEF KillStop, Ending
<1>9. CASE DropHandle
  <2>1. CASE stopping
    BY <1>9, <2>1, SameQueue DEF DropHandle, Ending
  <2>2. CASE ~stopping
    BY <1>9, <2>2, StopKeeps, StopNames DEF DropHandle, Ending
  <2> QED
    BY <2>1, <2>2
<1>10. CASE Construct
  BY <1>10 DEF Construct, Ending
<1>11. CASE ConstructFails
  BY <1>11 DEF ConstructFails, Ending
<1>12. CASE DrainFailed
  <2>1. PICK h : Took(h)
    BY <1>12, TakeHead DEF DrainFailed, Queued
  <2> QED
    BY <1>12, <2>1, HandleAssumption, StopNames DEF DrainFailed, Took, Queued, TypeOK, Receiving, Ending
<1>13. CASE RecvStop
  <2>1. PICK h : Took(h)
    BY <1>13, TakeHead DEF RecvStop, Receiving, Queued
  <2> QED
    BY <1>13, <2>1, HandleAssumption, StopNames DEF RecvStop, Took, Queued, TypeOK, Receiving, Ending
<1>14. CASE RecvShed
  BY <1>14 DEF RecvShed, Ending
<1>15. CASE RecvCall
  BY <1>15, SameQueue DEF RecvCall, Ending, Receiving
<1>16. CASE Start
  BY <1>16 DEF Start, Ending
<1>17. CASE ScriptEnds
  BY <1>17 DEF ScriptEnds, Ending
<1>18. CASE ScriptParks
  BY <1>18 DEF ScriptParks, Ending
<1>19. CASE Hook
  BY <1>19 DEF Hook, Ending
<1>20. CASE Publish
  BY <1>20 DEF Publish, Ending
<1>21. CASE BeginPass
  BY <1>21 DEF BeginPass, Ending
<1>22. ASSUME NEW c \in Calls, PollFlight(c) PROVE Ending'
  BY <1>22 DEF PollFlight, Ending
<1>23. CASE EndPass
  BY <1>23 DEF EndPass, Ending
<1>24. CASE Park
  BY <1>24 DEF Park, Ending
<1>25. CASE Unpark
  BY <1>25 DEF Unpark, Ending
<1>26. CASE DropQueued
  <2>1. PICK h : Took(h)
    BY <1>26, TakeHead DEF DropQueued, Queued
  <2> QED
    BY <1>26, <2>1, HandleAssumption, StopNames DEF DropQueued, Took, Queued, TypeOK, Receiving, Ending
<1>27. CASE Report
  BY <1>27 DEF Report, Ending, TypeOK
<1>28. CASE Close
  BY <1>28, StopNames DEF Close, Ending, TypeOK, Queued
<1>29. CASE UNCHANGED vars
  BY <1>29 DEF vars, Ending
<1>30. QED
  BY <1>1, <1>2, <1>3, <1>4, <1>5, <1>6, <1>7, <1>8, <1>9, <1>10, <1>11, <1>12, <1>13, <1>14,
     <1>15, <1>16, <1>17, <1>18, <1>19, <1>20, <1>21, <1>22, <1>23, <1>24, <1>25, <1>26, <1>27, <1>28, <1>29 DEF Next, LoopStep, HostStep

(* No call is lost sight of and no stop overtakes one. *)
LEMMA AccountedStep == IInv /\ [Next]_vars => Accounted'
<1> SUFFICES ASSUME IInv, [Next]_vars PROVE Accounted'
  OBVIOUS
<1> USE DEF IInv, channel, shared, loop, host, history, replies
<1>1. ASSUME NEW c \in Calls, Send(c) PROVE Accounted'
  <2>1. CASE open
    <3>1. ~InQueue(c) /\ queue' = Append(queue, c)
      BY <1>1, <2>1 DEF Send, Queued
    <3>2. Put(c)
      BY <3>1, PutLast DEF Queued
    <3> QED
      BY <1>1, <2>1, <3>2, HandleAssumption, StopNames DEF Send, Put, Accounted, TypeOK
  <2>2. CASE ~open
    BY <1>1, <2>2, SameQueue, HandleAssumption, StopNames DEF Send, Accounted, TypeOK
  <2> QED
    BY <2>1, <2>2
<1>2. ASSUME NEW c \in Calls, CancelCall(c) PROVE Accounted'
  BY <1>2, SameQueue DEF CancelCall, Accounted
<1>3. ASSUME NEW x \in Calls \cup Stops, WakeWorker(x) PROVE Accounted'
  BY <1>3, SameQueue DEF WakeWorker, Accounted
<1>4. ASSUME NEW c \in Calls, Settle(c) PROVE Accounted'
  BY <1>4, SameQueue DEF Settle, Accounted
<1>5. CASE Shutdown
  BY <1>5, StopKeeps, StopNames DEF Shutdown, Ending
<1>6. CASE KillFlag
  BY <1>6, SameQueue DEF KillFlag, Accounted
<1>7. CASE KillTokens
  BY <1>7, SameQueue DEF KillTokens, Accounted
<1>8. CASE KillStop
  BY <1>8, StopKeeps, StopNames DEF KillStop, Ending
<1>9. CASE DropHandle
  <2>1. CASE stopping
    BY <1>9, <2>1, SameQueue DEF DropHandle, Accounted
  <2>2. CASE ~stopping
    BY <1>9, <2>2, StopKeeps, StopNames DEF DropHandle, Ending
  <2> QED
    BY <2>1, <2>2
<1>10. CASE Construct
  BY <1>10, SameQueue DEF Construct, Accounted
<1>11. CASE ConstructFails
  BY <1>11, SameQueue DEF ConstructFails, Accounted
<1>12. CASE DrainFailed
  <2>1. PICK h : Took(h)
    BY <1>12, TakeHead DEF DrainFailed, Queued
  <2> QED
    BY <1>12, <2>1, HandleAssumption, StopNames DEF DrainFailed, Took, Queued, TypeOK, Accounted, Ending
<1>13. CASE RecvStop
  <2>1. PICK h : Took(h)
    BY <1>13, TakeHead DEF RecvStop, Receiving, Queued
  <2>2. h = stopCmd' /\ h \in Stops /\ current = NoCall
    BY <1>13, <2>1 DEF RecvStop, Receiving, Took, Held, Holding, Begun
  <2>3. \A c \in before[h] : answer[c] # "none" \/ c \in flights
    BY <2>1, <2>2, HandleAssumption DEF Took, Accounted, TypeOK
  <2> QED
    BY <1>13, <2>1, <2>2, <2>3, StopNames DEF RecvStop, Took, TypeOK, Accounted
<1>14. CASE RecvShed
  <2>1. PICK h : Took(h)
    BY <1>14, TakeHead DEF RecvShed, Receiving, Queued
  <2> QED
    BY <1>14, <2>1, HandleAssumption, StopNames DEF RecvShed, Took, Queued, TypeOK, Held, Receiving, Accounted
<1>15. CASE RecvCall
  <2>1. PICK h : Took(h)
    BY <1>15, TakeHead DEF RecvCall, Receiving, Queued
  <2>2. h = current' /\ h \in Calls /\ current = NoCall
    BY <1>15, <2>1 DEF RecvCall, Receiving, Took, Held, Holding, Begun
  <2> QED
    BY <1>15, <2>1, <2>2, HandleAssumption, StopNames DEF RecvCall, Took, TypeOK, Accounted
<1>16. CASE Start
  BY <1>16, SameQueue DEF Start, Accounted
<1>17. CASE ScriptEnds
  BY <1>17, SameQueue DEF ScriptEnds, Accounted
<1>18. CASE ScriptParks
  BY <1>18, SameQueue DEF ScriptParks, Accounted
<1>19. CASE Hook
  BY <1>19, SameQueue DEF Hook, Accounted
<1>20. CASE Publish
  BY <1>20, SameQueue, HandleAssumption DEF Publish, Accounted, Held, Holding, Begun, TypeOK
<1>21. CASE BeginPass
  BY <1>21, SameQueue DEF BeginPass, Accounted
<1>22. ASSUME NEW c \in Calls, PollFlight(c) PROVE Accounted'
  BY <1>22, SameQueue, HandleAssumption DEF PollFlight, Accounted, Held, Holding, Begun, TypeOK
<1>23. CASE EndPass
  BY <1>23, SameQueue DEF EndPass, Accounted
<1>24. CASE Park
  BY <1>24, SameQueue DEF Park, Accounted
<1>25. CASE Unpark
  BY <1>25, SameQueue DEF Unpark, Accounted
<1>26. CASE DropQueued
  <2>1. PICK h : Took(h)
    BY <1>26, TakeHead DEF DropQueued, Queued
  <2>2. CASE h \in Calls
    <3>1. /\ answer' = [answer EXCEPT ![h] = "cancelled"] /\ answer'[h] # "none"
          /\ UNCHANGED <<current, flights, sent, before, report, stopCmd, initError>>
      BY <1>26, <2>1, <2>2 DEF DropQueued, Took, TypeOK
    <3>2. \A d \in Calls : answer[d] # "none" => answer'[d] # "none"
      BY <2>2, <3>1 DEF TypeOK
    <3>3. \A d \in sent : answer'[d] # "none" \/ InQueue(d)' \/ d = current' \/ d \in flights'
      BY <2>1, <3>1, <3>2 DEF Took, Accounted, TypeOK
    <3>4. \A s \in Stops : InQueue(s)' => \A d \in before[s] :
             answer'[d] # "none" \/ d = current' \/ d \in flights' \/ Precedes(d, s)'
      BY <2>1, <2>2, <3>1, <3>2, StopNames DEF Took, Accounted, TypeOK
    <3>5. h \in sent
      BY <2>1, <2>2 DEF Took, Queued
    <3>6. \A d \in Calls : answer'[d] # "none" => d \in sent
      BY <2>2, <3>1, <3>5 DEF Accounted, TypeOK
    <3> QED
      BY <3>1, <3>2, <3>3, <3>4, <3>6 DEF Accounted, TypeOK
  <2>3. CASE h \in Stops
    BY <1>26, <2>1, <2>3, StopNames, SMTT(30) DEF DropQueued, Took, TypeOK, Accounted
  <2> QED
    BY <2>1, <2>2, <2>3 DEF Took
<1>27. CASE Report
  BY <1>27, SameQueue DEF Report, Accounted, Ending, TypeOK
<1>28. CASE Close
  BY <1>28, HandleAssumption DEF Close, Accounted, Held, Holding, Begun, Queued, Ending, TypeOK, InQueue
<1>29. CASE UNCHANGED vars
  BY <1>29, SameQueue DEF vars, Accounted
<1>30. QED
  BY <1>1, <1>2, <1>3, <1>4, <1>5, <1>6, <1>7, <1>8, <1>9, <1>10, <1>11, <1>12, <1>13, <1>14,
     <1>15, <1>16, <1>17, <1>18, <1>19, <1>20, <1>21, <1>22, <1>23, <1>24, <1>25, <1>26, <1>27, <1>28, <1>29 DEF Next, LoopStep, HostStep

(* Cancelled and lost calls keep their excuse. *)
LEMMA ExcusedStep == IInv /\ [Next]_vars => Excused'
<1> SUFFICES ASSUME IInv, [Next]_vars PROVE Excused'
  OBVIOUS
<1> USE DEF IInv, channel, shared, loop, host, history, replies
<1>1. ASSUME NEW c \in Calls, Send(c) PROVE Excused'
  BY <1>1, HandleAssumption DEF Send, Excused, Ending, TypeOK, Accounted
<1>2. ASSUME NEW c \in Calls, CancelCall(c) PROVE Excused'
  BY <1>2 DEF CancelCall, Excused
<1>3. ASSUME NEW x \in Calls \cup Stops, WakeWorker(x) PROVE Excused'
  BY <1>3 DEF WakeWorker, Excused
<1>4. ASSUME NEW c \in Calls, Settle(c) PROVE Excused'
  BY <1>4 DEF Settle, Excused
<1>5. CASE Shutdown
  BY <1>5, StopKeeps, StopNames DEF Shutdown, Ending
<1>6. CASE KillFlag
  BY <1>6 DEF KillFlag, Excused
<1>7. CASE KillTokens
  BY <1>7 DEF KillTokens, Excused
<1>8. CASE KillStop
  BY <1>8, StopKeeps, StopNames DEF KillStop, Ending
<1>9. CASE DropHandle
  <2>1. CASE stopping
    BY <1>9, <2>1, SameQueue DEF DropHandle, Excused
  <2>2. CASE ~stopping
    BY <1>9, <2>2, StopKeeps, StopNames DEF DropHandle, Ending
  <2> QED
    BY <2>1, <2>2
<1>10. CASE Construct
  BY <1>10 DEF Construct, Excused
<1>11. CASE ConstructFails
  BY <1>11 DEF ConstructFails, Excused
<1>12. CASE DrainFailed
  BY <1>12 DEF DrainFailed, Excused, Ending, TypeOK
<1>13. CASE RecvStop
  BY <1>13 DEF RecvStop, Excused, Receiving, Ending, TypeOK
<1>14. CASE RecvShed
  BY <1>14 DEF RecvShed, Excused
<1>15. CASE RecvCall
  BY <1>15 DEF RecvCall, Excused
<1>16. CASE Start
  BY <1>16 DEF Start, Excused
<1>17. CASE ScriptEnds
  BY <1>17 DEF ScriptEnds, Excused
<1>18. CASE ScriptParks
  BY <1>18 DEF ScriptParks, Excused
<1>19. CASE Hook
  BY <1>19 DEF Hook, Excused
<1>20. CASE Publish
  BY <1>20, HandleAssumption DEF Publish, Excused, Held, Holding, Begun, TypeOK
<1>21. CASE BeginPass
  BY <1>21 DEF BeginPass, Excused
<1>22. ASSUME NEW c \in Calls, PollFlight(c) PROVE Excused'
  BY <1>22 DEF PollFlight, Excused
<1>23. CASE EndPass
  BY <1>23 DEF EndPass, Excused
<1>24. CASE Park
  BY <1>24 DEF Park, Excused
<1>25. CASE Unpark
  BY <1>25 DEF Unpark, Excused
<1>26. CASE DropQueued
  BY <1>26, StopNames DEF DropQueued, Excused, DropsQueue, Ending, TypeOK
<1>27. CASE Report
  BY <1>27, StopNames DEF Report, Excused, Ending, TypeOK
<1>28. CASE Close
  BY <1>28, StopNames DEF Close, Excused, Queued, Accounted, Ending, TypeOK
<1>29. CASE UNCHANGED vars
  BY <1>29 DEF vars, Excused
<1>30. QED
  BY <1>1, <1>2, <1>3, <1>4, <1>5, <1>6, <1>7, <1>8, <1>9, <1>10, <1>11, <1>12, <1>13, <1>14,
     <1>15, <1>16, <1>17, <1>18, <1>19, <1>20, <1>21, <1>22, <1>23, <1>24, <1>25, <1>26, <1>27, <1>28, <1>29 DEF Next, LoopStep, HostStep

(* No wake-up is slept through. *)
LEMMA AwakeStep == IInv /\ [Next]_vars => Awake'
<1> SUFFICES ASSUME IInv, [Next]_vars PROVE Awake'
  OBVIOUS
<1> USE DEF IInv, channel, shared, loop, host, history, replies
<1>1. ASSUME NEW c \in Calls, Send(c) PROVE Awake'
  <2>1. CASE open
    <3>1. ~InQueue(c) /\ queue' = Append(queue, c)
      BY <1>1, <2>1 DEF Send, Queued
    <3>2. Put(c)
      BY <3>1, PutLast DEF Queued
    <3> QED
      BY <1>1, <2>1, <3>2, HandleAssumption, StopNames DEF Send, Put, Awake, InPass
  <2>2. CASE ~open
    BY <1>1, <2>2, SameQueue, HandleAssumption, StopNames DEF Send, Awake, InPass
  <2> QED
    BY <2>1, <2>2
<1>2. ASSUME NEW c \in Calls, CancelCall(c) PROVE Awake'
  BY <1>2, SameQueue DEF CancelCall, Awake, InPass
<1>3. ASSUME NEW x \in Calls \cup Stops, WakeWorker(x) PROVE Awake'
  BY <1>3, SameQueue DEF WakeWorker, Awake, InPass
<1>4. ASSUME NEW c \in Calls, Settle(c) PROVE Awake'
  BY <1>4, SameQueue DEF Settle, Awake, InPass
<1>5. CASE Shutdown
  BY <1>5, SameQueue DEF Shutdown, SendStop, Awake, InPass
<1>6. CASE KillFlag
  BY <1>6, SameQueue DEF KillFlag, Awake, InPass
<1>7. CASE KillTokens
  BY <1>7, SameQueue DEF KillTokens, Awake, InPass
<1>8. CASE KillStop
  BY <1>8, SameQueue DEF KillStop, SendStop, Awake, InPass
<1>9. CASE DropHandle
  <2>1. CASE stopping
    BY <1>9, <2>1, SameQueue DEF DropHandle, Awake, InPass
  <2>2. CASE ~stopping
    <3>1. \A c \in Calls : InQueue(c)' <=> InQueue(c)
      BY <1>9, <2>2, StopSent, StopNames, SameQueue DEF DropHandle, Put
    <3> QED
      BY <1>9, <2>2, <3>1 DEF DropHandle, Awake, InPass
  <2> QED
    BY <2>1, <2>2
<1>10. CASE Construct
  BY <1>10, SameQueue DEF Construct, Awake, InPass
<1>11. CASE ConstructFails
  BY <1>11, SameQueue DEF ConstructFails, Awake, InPass
<1>12. CASE DrainFailed
  BY <1>12 DEF DrainFailed, Awake, InPass
<1>13. CASE RecvStop
  BY <1>13, StopNames DEF RecvStop, Awake, InPass, Receiving, TypeOK
<1>14. CASE RecvShed
  BY <1>14 DEF RecvShed, Awake, InPass, Receiving
<1>15. CASE RecvCall
  BY <1>15 DEF RecvCall, Awake, InPass, Receiving
<1>16. CASE Start
  BY <1>16, SameQueue DEF Start, Awake, InPass
<1>17. CASE ScriptEnds
  BY <1>17 DEF ScriptEnds, Awake, InPass, Held
<1>18. CASE ScriptParks
  BY <1>18, SameQueue DEF ScriptParks, Awake, InPass
<1>19. CASE Hook
  BY <1>19, SameQueue DEF Hook, Awake, InPass
<1>20. CASE Publish
  BY <1>20, SameQueue DEF Publish, Awake, InPass
<1>21. CASE BeginPass
  BY <1>21 DEF BeginPass, Awake, InPass, InQueue
<1>22. ASSUME NEW c \in Calls, PollFlight(c) PROVE Awake'
  <2>1. CASE c \in ready \cup token
    <3>1. current \notin flights
      BY <1>22, HandleAssumption DEF PollFlight, Held, Holding, Begun, TypeOK
    <3>2. current' = c /\ phase' = "hook" /\ toPoll' = toPoll \ {c} /\ InPass
      BY <1>22, <2>1 DEF PollFlight, InPass
    <3>3. ~unparked => flights \cap ready \subseteq toPoll' \cup {current'}
      BY <3>1, <3>2 DEF Awake
    <3> QED
      BY <1>22, <3>2, <3>3, SameQueue DEF PollFlight, Awake
  <2>2. CASE c \notin ready \cup token
    BY <1>22, <2>2, SameQueue DEF PollFlight, Awake, InPass
  <2> QED
    BY <2>1, <2>2
<1>23. CASE EndPass
  BY <1>23, SameQueue DEF EndPass, Awake, InPass
<1>24. CASE Park
  BY <1>24, SameQueue DEF Park, Awake, InPass
<1>25. CASE Unpark
  BY <1>25, SameQueue DEF Unpark, Awake, InPass
<1>26. CASE DropQueued
  BY <1>26 DEF DropQueued, Awake, InPass
<1>27. CASE Report
  BY <1>27, SameQueue DEF Report, Awake, InPass
<1>28. CASE Close
  BY <1>28, SameQueue DEF Close, Awake, InPass
<1>29. CASE UNCHANGED vars
  BY <1>29, SameQueue DEF vars, Awake, InPass
<1>30. QED
  BY <1>1, <1>2, <1>3, <1>4, <1>5, <1>6, <1>7, <1>8, <1>9, <1>10, <1>11, <1>12, <1>13, <1>14,
     <1>15, <1>16, <1>17, <1>18, <1>19, <1>20, <1>21, <1>22, <1>23, <1>24, <1>25, <1>26, <1>27, <1>28, <1>29 DEF Next, LoopStep, HostStep

(* Every step of the host's threads and of the loop preserves the invariant. *)
LEMMA InvStep == IInv /\ [Next]_vars => IInv'
  BY TypeStep, QueuedStep, HeldStep, InFlightStep, ShedStep, EndingStep, AccountedStep, ExcusedStep,
     AwakeStep DEF IInv

(* It holds before the thread has built its runtime. *)
LEMMA InitInv == Init => IInv
<1> SUFFICES ASSUME Init PROVE IInv
  OBVIOUS
<1>1. TypeOK
  <2>1. /\ open \in BOOLEAN /\ killed \in BOOLEAN /\ stopping \in BOOLEAN /\ initError \in BOOLEAN
        /\ unparked \in BOOLEAN /\ alive \in BOOLEAN
    BY Zenon DEF Init
  <2>2. queue \in Seq(Calls \cup Stops)
    BY DEF Init
  <2> QED
    BY <2>1, <2>2 DEF Init, TypeOK, Phases, Answers, Reports
<1>2. Queued
  BY DEF Init, Queued, NoRepeat, InQueue
<1>3. Held /\ InFlightTruth /\ Shed
  BY HandleAssumption DEF Init, Held, Holding, Begun, InFlightTruth, Shed
<1>4. Ending
  BY StopNames DEF Init, Ending
<1>5. Accounted /\ Excused
  BY StopNames DEF Init, Accounted, Excused, InQueue
<1>6. Awake
  BY DEF Init, Awake, InPass
<1> QED
  BY <1>1, <1>2, <1>3, <1>4, <1>5, <1>6 DEF IInv

(* The inductive invariant, for every set of calls and either mode. *)
THEOREM Invariance == Spec => []IInv
  BY InitInv, InvStep, PTL DEF Spec

(* A call whose token was tripped while it was still in the channel never has
   its script started: shed_if_cancelled runs before the call is taken, and
   nothing else takes a command out of the channel to run it. *)
THEOREM EarlyCancel == Spec => []EarlyCancelNeverRuns
<1>1. IInv => EarlyCancelNeverRuns
  BY DEF IInv, Shed, EarlyCancelNeverRuns
<1> QED
  BY <1>1, Invariance, PTL

(* in_flight() is true at every moment, no wake-up is slept through by a
   yielding loop, and the report of a shutdown, a kill or a drop means that
   every call sent ahead of it was answered, and answered honestly. *)
THEOREM LoopTruth == Spec => []LoopHolds
<1>1. IInv => NoSleepThrough
  BY HandleAssumption DEF IInv, Awake, InPass, Held, Holding, Begun, TypeOK, NoSleepThrough
<1>2. IInv => ReportMeansDrained
  <2> SUFFICES ASSUME IInv, NEW s \in Stops, report[s] = "report", ~initError
               PROVE  /\ flights = {}
                      /\ \A c \in before[s] :
                            /\ answer[c] # "none"
                            /\ answer[c] = "cancelled" => c \in token \/ killed
                            /\ answer[c] = "gone" =>
                                  \E r \in Stops \ {s} : c \notin before[r] /\ report[r] = "report"
    BY DEF ReportMeansDrained
  <2> USE DEF IInv
  <2>1. flights = {}
    BY DEF Ending
  <2>2. ASSUME NEW c \in before[s]
        PROVE  /\ answer[c] # "none"
               /\ answer[c] = "cancelled" => c \in token \/ killed
               /\ answer[c] = "gone" =>
                     \E r \in Stops \ {s} : c \notin before[r] /\ report[r] = "report"
    <3>1. c \in Calls
      BY DEF TypeOK
    <3>2. answer[c] # "none" /\ (answer[c] = "cancelled" => c \in token \/ killed)
      BY <3>1 DEF Accounted, Excused
    <3>3. answer[c] = "gone" => stopCmd \in Stops \ {s} /\ c \notin before[stopCmd]
                                /\ report[stopCmd] = "report"
      BY <3>1 DEF Excused, TypeOK
    <3> QED
      BY <3>2, <3>3
  <2> QED
    BY <2>1, <2>2
<1>3. IInv => LoopHolds
  BY <1>1, <1>2 DEF IInv, LoopHolds
<1> QED
  BY <1>3, Invariance, PTL

=============================================================================
