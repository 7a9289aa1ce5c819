-------------------------- MODULE SendQueueProofs --------------------------
(***************************************************************************)
(* No message of AntiBanClient is lost, doubled or answered falsely, and a *)
(* Pause lets few messages slip, for any number of callers, restarts and   *)
(* loops and any capacity of the queue.                                    *)
(***************************************************************************)
EXTENDS SendQueue, FiniteSetTheorems, SequenceTheorems, TLAPS

Busy == {"check", "later", "recheck", "delay", "send"}

LoopState == [at : LoopStates, queue : Gens, stop : Gens, job : Caller \cup {NoCaller}]

(* A loop is launched once, by the Start of its number.                     *)
LaunchOrder ==
  /\ starting => queueField \in Loops
  /\ \A l \in Loops : l > queueField \/ (starting /\ l = queueField) => loop[l].at = "none"

(* A loop has a message in hand exactly while processSend runs.             *)
JobWhileBusy == \A l \in Loops : loop[l].job # NoCaller <=> loop[l].at \in Busy

StateInv == TypeOK /\ LaunchOrder /\ JobWhileBusy

-----------------------------------------------------------------------------
(* The types, action by action.                                             *)

(* The numbers of the loops and of the channels.                            *)
LEMMA LoopSets ==
  /\ Loops \subseteq Nat \ {0} /\ Loops \subseteq Gens /\ 0 \in Gens
  /\ \A g \in Gens : g # 0 => g \in Loops
  /\ \A g \in Gens : g < MaxStarts => g + 1 \in Loops
  BY SendAssumption DEF Loops, Gens

(* The initial state has its types.                                         *)
LEMMA InitState == Init => StateInv
<1> SUFFICES ASSUME Init PROVE StateInv
  OBVIOUS
<1>1. TypeOK
  <2>1. <<>> \in Seq(Caller) /\ Len(<<>>) <= QueueCap /\ <<>> \in Seq(Results)
    BY SendAssumption
  <2> QED
    BY <2>1, LoopSets, SendAssumption DEF Init, TypeOK, LoopAt, LoopStates
<1>2. LaunchOrder /\ JobWhileBusy
  BY DEF Init, LaunchOrder, JobWhileBusy, LoopAt, Busy
<1> QED
  BY <1>1, <1>2 DEF StateInv

(* Start and Stop.                                                          *)
LEMMA StartStopState ==
  ASSUME StateInv, StartMakesQueue \/ StartLaunchesLoop \/ Stop
  PROVE  StateInv'
<1>1. CASE StartMakesQueue
  BY <1>1, LoopSets DEF StateInv, TypeOK, LaunchOrder, JobWhileBusy, StartMakesQueue, callerVars
<1>2. CASE StartLaunchesLoop
  <2>1. queueField \in Loops /\ loop[queueField].at = "none"
    BY <1>2 DEF StartLaunchesLoop, StateInv, LaunchOrder
  <2>2. loop' \in [Loops -> LoopState]
    BY <1>2, <2>1 DEF StartLaunchesLoop, StateInv, TypeOK, LoopState, LoopStates
  <2>3. TypeOK'
    BY <1>2, <2>2 DEF StartLaunchesLoop, StateInv, TypeOK, callerVars, LoopState
  <2>4. LaunchOrder' /\ JobWhileBusy'
    BY <1>2, <2>1, LoopSets DEF StartLaunchesLoop, StateInv, TypeOK, LaunchOrder, JobWhileBusy, Busy
  <2> QED
    BY <2>3, <2>4 DEF StateInv
<1>3. CASE Stop
  BY <1>3, LoopSets DEF StateInv, TypeOK, LaunchOrder, JobWhileBusy, Stop, callerVars
<1> QED
  BY <1>1, <1>2, <1>3

(* SendMessage.                                                             *)
LEMMA CallerState ==
  ASSUME StateInv, NEW c \in Caller, SendMessage(c)
  PROVE  StateInv'
<1>1. CASE CallSendMessage(c)
  BY <1>1 DEF CallSendMessage, StateInv, TypeOK, LaunchOrder, JobWhileBusy, clientVars
<1>2. CASE Enqueue(c)
  <2>1. target[c] \in Loops
    BY <1>2, LoopSets DEF Enqueue, StateInv, TypeOK
  <2>2. queue' \in [Loops -> Seq(Caller)] /\ \A g \in Loops : Len(queue'[g]) <= QueueCap
    BY <1>2, <2>1, SendAssumption DEF Enqueue, StateInv, TypeOK
  <2> QED
    BY <1>2, <2>2 DEF Enqueue, StateInv, TypeOK, LaunchOrder, JobWhileBusy, clientVars
<1>3. CASE Receive(c)
  <2>1. Head(resp[c]) \in Results /\ Tail(resp[c]) \in Seq(Results)
    BY <1>3 DEF Receive, StateInv, TypeOK
  <2> QED
    BY <1>3, <2>1 DEF Receive, StateInv, TypeOK, LaunchOrder, JobWhileBusy, clientVars
<1>4. CASE GiveUp(c)
  BY <1>4 DEF GiveUp, StateInv, TypeOK, LaunchOrder, JobWhileBusy, clientVars
<1>5. CASE CancelCtx(c)
  BY <1>5 DEF CancelCtx, StateInv, TypeOK, LaunchOrder, JobWhileBusy, clientVars
<1> QED
  BY <1>1, <1>2, <1>3, <1>4, <1>5 DEF SendMessage

(* A loop that changes only itself, and keeps its message as long as it is  *)
(* busy.                                                                    *)
LEMMA LoopMoves ==
  ASSUME StateInv, NEW l \in Loops, NEW e \in LoopState, loop' = [loop EXCEPT ![l] = e],
         loop[l].at # "none", e.job # NoCaller <=> e.at \in Busy,
         UNCHANGED <<clientVars, call, target, ctxDone, paused>>,
         queue' \in [Loops -> Seq(Caller)], \A g \in Loops : Len(queue'[g]) <= QueueCap,
         resp' \in [Caller -> Seq(Results)], answers' \in [Caller -> Seq(Results)],
         sends' \in [Caller -> Nat], slips' \in Nat
  PROVE  StateInv'
<1>1. loop \in [Loops -> LoopState]
  BY DEF StateInv, TypeOK, LoopState
<1>2. loop' \in [Loops -> LoopState] /\ loop'[l] = e /\ \A k \in Loops \ {l} : loop'[k] = loop[k]
  BY <1>1
<1>3. TypeOK'
  BY <1>2 DEF StateInv, TypeOK, clientVars, LoopState
<1>4. LaunchOrder'
  BY <1>1, <1>2 DEF StateInv, LaunchOrder, clientVars
<1>5. JobWhileBusy'
  BY <1>1, <1>2 DEF StateInv, JobWhileBusy
<1> QED
  BY <1>3, <1>4, <1>5 DEF StateInv

(* The types of what LoopMoves leaves to the step.                          *)
LEMMA OldTypes ==
  ASSUME StateInv
  PROVE  /\ loop \in [Loops -> LoopState]
         /\ queue \in [Loops -> Seq(Caller)] /\ \A g \in Loops : Len(queue[g]) <= QueueCap
         /\ resp \in [Caller -> Seq(Results)] /\ answers \in [Caller -> Seq(Results)]
         /\ sends \in [Caller -> Nat] /\ slips \in Nat
  BY DEF StateInv, TypeOK, LoopState

(* A busy loop has a message in hand.                                       *)
LEMMA BusyHasJob ==
  ASSUME StateInv, NEW l \in Loops, loop[l].at \in Busy
  PROVE  loop[l].job \in Caller
  BY OldTypes DEF StateInv, JobWhileBusy, LoopState

(* The loop answers.                                                        *)
LEMMA AnswerState ==
  ASSUME StateInv, NEW l \in Loops, NEW r \in Results, Answer(l, r), loop[l].at \in Busy,
         UNCHANGED <<clientVars, call, target, ctxDone, paused, queue>>,
         sends' \in [Caller -> Nat], slips' \in Nat
  PROVE  StateInv'
<1> DEFINE e == LoopAt("top", 0, 0, NoCaller)
<1>1. e \in LoopState /\ (e.job # NoCaller <=> e.at \in Busy)
  BY LoopSets DEF LoopState, LoopAt, LoopStates, Busy
<1>2. loop' = [loop EXCEPT ![l] = e]
  BY DEF Answer
<1>3. resp' \in [Caller -> Seq(Results)] /\ answers' \in [Caller -> Seq(Results)]
  BY OldTypes, BusyHasJob DEF Answer
<1>4. loop[l].at # "none"
  BY DEF Busy
<1> HIDE DEF e
<1> QED
  BY <1>1, <1>2, <1>3, <1>4, OldTypes, LoopMoves

(* The loop goes on with its message.                                       *)
LEMMA GoesOnState ==
  ASSUME StateInv, NEW l \in Loops, NEW p \in Busy, loop' = [loop EXCEPT ![l].at = p],
         loop[l].at \in Busy,
         UNCHANGED <<clientVars, call, target, ctxDone, paused, queue, resp, answers, sends, slips>>
  PROVE  StateInv'
<1> DEFINE e == [loop[l] EXCEPT !.at = p]
<1>1. e \in LoopState /\ e.at = p /\ e.job = loop[l].job
  BY OldTypes DEF LoopState, LoopStates, Busy
<1>2. loop' = [loop EXCEPT ![l] = e]
  BY OldTypes
<1>3. e.job # NoCaller <=> e.at \in Busy
  BY <1>1 DEF StateInv, JobWhileBusy
<1>4. loop[l].at # "none"
  BY DEF Busy
<1> HIDE DEF e
<1> QED
  BY <1>1, <1>2, <1>3, <1>4, OldTypes, LoopMoves

(* sendLoop up to processSend.                                              *)
LEMMA SelectState ==
  ASSUME StateInv, NEW l \in Loops,
         ReadQueueField(l) \/ ReadStopField(l) \/ TakeMessage(l) \/ ExitLoop(l)
  PROVE  StateInv'
<1>1. CASE ReadQueueField(l)
  <2> DEFINE e == LoopAt("half", queueField, 0, NoCaller)
  <2>1. e \in LoopState /\ (e.job # NoCaller <=> e.at \in Busy)
    BY LoopSets DEF LoopState, LoopAt, LoopStates, Busy, StateInv, TypeOK
  <2>2. loop' = [loop EXCEPT ![l] = e] /\ loop[l].at # "none"
    BY <1>1 DEF ReadQueueField
  <2> HIDE DEF e
  <2> QED
    BY <1>1, <2>1, <2>2, OldTypes, LoopMoves DEF ReadQueueField, callerVars
<1>2. CASE ReadStopField(l)
  <2> DEFINE e == [loop[l] EXCEPT !.at = "select", !.stop = stopField]
  <2>1. e \in LoopState /\ e.at = "select" /\ e.job = loop[l].job
    BY OldTypes DEF LoopState, LoopStates, StateInv, TypeOK
  <2>2. loop' = [loop EXCEPT ![l] = e] /\ loop[l].at = "half"
    BY <1>2, OldTypes DEF ReadStopField
  <2>3. e.job # NoCaller <=> e.at \in Busy
    BY <2>1, <2>2 DEF StateInv, JobWhileBusy, Busy
  <2> HIDE DEF e
  <2> QED
    BY <1>2, <2>1, <2>2, <2>3, OldTypes, LoopMoves DEF ReadStopField, callerVars
<1>3. CASE TakeMessage(l)
  <2> DEFINE g == loop[l].queue
             e == [loop[l] EXCEPT !.at = "check", !.job = Head(queue[g])]
  <2>1. g \in Loops /\ queue[g] # <<>> /\ queue[g] \in Seq(Caller)
    BY <1>3, OldTypes, LoopSets DEF TakeMessage, LoopState
  <2>2. Head(queue[g]) \in Caller /\ Tail(queue[g]) \in Seq(Caller) /\ Len(Tail(queue[g])) <= QueueCap
    BY <2>1, OldTypes, SendAssumption, HeadTailProperties, LenProperties
  <2>3. e \in LoopState /\ e.at = "check" /\ e.job = Head(queue[g])
    BY <2>2, OldTypes DEF LoopState, LoopStates
  <2>4. e.job # NoCaller <=> e.at \in Busy
    BY <2>2, <2>3, SendAssumption DEF Busy
  <2>5. loop' = [loop EXCEPT ![l] = e] /\ loop[l].at # "none"
    BY <1>3, OldTypes DEF TakeMessage
  <2>6. queue' \in [Loops -> Seq(Caller)] /\ \A h \in Loops : Len(queue'[h]) <= QueueCap
    BY <1>3, <2>1, <2>2, OldTypes DEF TakeMessage
  <2> HIDE DEF e
  <2> QED
    BY <1>3, <2>3, <2>4, <2>5, <2>6, OldTypes, LoopMoves DEF TakeMessage, callerVars
<1>4. CASE ExitLoop(l)
  <2> DEFINE e == LoopAt("exited", 0, 0, NoCaller)
  <2>1. e \in LoopState /\ (e.job # NoCaller <=> e.at \in Busy)
    BY LoopSets DEF LoopState, LoopAt, LoopStates, Busy
  <2>2. loop' = [loop EXCEPT ![l] = e] /\ loop[l].at # "none"
    BY <1>4 DEF ExitLoop
  <2> HIDE DEF e
  <2> QED
    BY <1>4, <2>1, <2>2, OldTypes, LoopMoves DEF ExitLoop, callerVars
<1> QED
  BY <1>1, <1>2, <1>3, <1>4

(* processSend, from the places it reads and writes: either the loop moves  *)
(* on with its message, or it answers.                                      *)
LEMMA ProcessSplit ==
  ASSUME NEW l \in Loops, ProcessSend(l)
  PROVE  /\ loop[l].at \in Busy
         /\ UNCHANGED <<clientVars, queue, callerVars, paused>>
         /\ \/ /\ \E p \in Busy :
                    /\ loop' = [loop EXCEPT ![l].at = p]
                    /\ p \in {"send", "delay"} => ~paused \/ loop[l].at = "delay"
               /\ UNCHANGED <<resp, answers, sends, slips>>
            \/ /\ \E r \in {"refused", "failed"} : Answer(l, r)
               /\ UNCHANGED <<sends, slips>>
            \/ /\ loop[l].at = "send"
               /\ \E r \in {"ok", "failed"} : Answer(l, r)
               /\ sends' = [sends EXCEPT ![loop[l].job] = @ + 1]
               /\ slips' = IF paused THEN slips + 1 ELSE slips
<1>1. CASE Check(l)
  BY <1>1 DEF Check, Verdict, Busy
<1>2. CASE Wake(l)
  BY <1>2 DEF Wake, Busy
<1>3. CASE Recheck(l)
  BY <1>3 DEF Recheck, Verdict, Busy
<1>4. CASE DelayOver(l)
  BY <1>4 DEF DelayOver, Busy
<1>5. CASE CancelledInDelay(l)
  BY <1>5 DEF CancelledInDelay, Busy
<1>6. CASE SendDone(l, "ok") \/ SendDone(l, "failed")
  BY <1>6 DEF SendDone, Busy
<1>7. CASE SendFails(l)
  BY <1>7 DEF SendFails, Busy
<1> QED
  BY <1>1, <1>2, <1>3, <1>4, <1>5, <1>6, <1>7 DEF ProcessSend

(* processSend keeps the types.                                             *)
LEMMA ProcessState ==
  ASSUME StateInv, NEW l \in Loops, ProcessSend(l)
  PROVE  StateInv'
<1>1. /\ loop[l].at \in Busy
      /\ UNCHANGED <<clientVars, queue, call, target, ctxDone, paused>>
  BY ProcessSplit DEF callerVars
<1>2. CASE /\ \E p \in Busy : loop' = [loop EXCEPT ![l].at = p]
           /\ UNCHANGED <<resp, answers, sends, slips>>
  BY <1>1, <1>2, GoesOnState
<1>3. CASE (\E r \in {"refused", "failed"} : Answer(l, r)) /\ UNCHANGED <<sends, slips>>
  BY <1>1, <1>3, OldTypes, AnswerState DEF Results
<1>4. CASE /\ \E r \in {"ok", "failed"} : Answer(l, r)
           /\ sends' = [sends EXCEPT ![loop[l].job] = @ + 1]
           /\ slips' = IF paused THEN slips + 1 ELSE slips
  <2>1. sends' \in [Caller -> Nat]
    BY <1>1, <1>4, OldTypes, BusyHasJob
  <2>2. slips' = slips \/ slips' = slips + 1
    BY <1>4
  <2>3. slips' \in Nat
    BY <2>2, OldTypes
  <2> QED
    BY <1>1, <1>4, <2>1, <2>3, AnswerState DEF Results
<1> QED
  BY <1>2, <1>3, <1>4, ProcessSplit

(* Pause, Resume and the end of a Start's context.                          *)
LEMMA FlagState ==
  ASSUME StateInv, Pause \/ Resume \/ \E l \in Loops : CancelStartCtx(l)
  PROVE  StateInv'
<1>1. CASE Pause \/ Resume
  <2>1. /\ UNCHANGED <<clientVars, queue, loop, callerVars, resp, answers, sends>>
        /\ paused' \in BOOLEAN
    BY <1>1 DEF Pause, Resume
  <2>2. slips' \in Nat
    BY <1>1, OldTypes DEF Pause, Resume
  <2> QED
    BY <2>1, <2>2 DEF StateInv, TypeOK, LaunchOrder, JobWhileBusy, clientVars, callerVars
<1>2. CASE \E l \in Loops : CancelStartCtx(l)
  BY <1>2 DEF CancelStartCtx, StateInv, TypeOK, LaunchOrder, JobWhileBusy, clientVars, callerVars
<1> QED
  BY <1>1, <1>2

(* Every step keeps the types, the launch order and the messages in hand.   *)
LEMMA StepState == StateInv /\ [Next]_vars => StateInv'
<1> SUFFICES ASSUME StateInv, [Next]_vars PROVE StateInv'
  OBVIOUS
<1>1. CASE UNCHANGED vars
  BY <1>1 DEF StateInv, TypeOK, LaunchOrder, JobWhileBusy, vars, clientVars, callerVars
<1>2. CASE \E l \in Loops : SendLoop(l)
  BY <1>2, SelectState, ProcessState DEF SendLoop
<1> QED
  BY <1>1, <1>2, StartStopState, CallerState, FlagState DEF Next

-----------------------------------------------------------------------------
(* Where a message is.  Conservation counts its places, which the provers   *)
(* do not follow through a step; that they are one at most is said here of  *)
(* each pair of places.                                                     *)

QueueOnce ==
  \A g, h \in Loops : \A i \in 1 .. Len(queue[g]), j \in 1 .. Len(queue[h]) :
    queue[g][i] = queue[h][j] => g = h /\ i = j

HandOnce == \A k, l \in Loops : loop[k].job = loop[l].job /\ loop[k].job # NoCaller => k = l

Apart == \A g, l \in Loops : \A i \in 1 .. Len(queue[g]) : queue[g][i] # loop[l].job

(* A message in a queue or in hand was submitted and is not yet answered.   *)
Undecided(c) == answers[c] = <<>> /\ call[c] \in {"wait", "gone"}

OpenInQueue == \A g \in Loops : \A i \in 1 .. Len(queue[g]) : Undecided(queue[g][i])

OpenInHand == \A l \in Loops : loop[l].job # NoCaller => Undecided(loop[l].job)

Placed(c) ==
  \/ answers[c] # <<>>
  \/ \E g \in Loops : \E i \in 1 .. Len(queue[g]) : queue[g][i] = c
  \/ \E l \in Loops : loop[l].job = c

NotLost == \A c \in Caller : call[c] = "wait" => Placed(c)

PlaceInv ==
  QueueOnce /\ HandOnce /\ Apart /\ OpenInQueue /\ OpenInHand /\ NotLost

(* What the caller is told, what was written for it and what was sent.      *)
ReplyOK(c) ==
  /\ call[c] \in {"idle", "enqueue"} => answers[c] = <<>>
  /\ call[c] \in Results => answers[c] = <<call[c]>> /\ resp[c] = <<>>
  /\ call[c] \notin Results => resp[c] = answers[c]
  /\ \/ answers[c] = <<>> /\ sends[c] = 0
     \/ answers[c] = <<"ok">> /\ sends[c] = 1
     \/ answers[c] = <<"refused">> /\ sends[c] = 0
     \/ answers[c] = <<"failed">> /\ sends[c] \in {0, 1}

ReplyInv == \A c \in Caller : ReplyOK(c)

(* A channel of capacity one.                                               *)
LEMMA OneElement ==
  ASSUME NEW r
  PROVE  Append(<<>>, r) = <<r>> /\ Head(<<r>>) = r /\ Tail(<<r>>) = <<>> /\ <<r>> # <<>>
         /\ Len(<<r>>) = 1 /\ <<r>>[1] = r
  OBVIOUS

(* Nothing has been submitted yet.                                          *)
LEMMA InitPlaces == Init => PlaceInv /\ ReplyInv
<1> SUFFICES ASSUME Init PROVE PlaceInv /\ ReplyInv
  OBVIOUS
<1>1. \A g \in Loops : 1 .. Len(queue[g]) = {}
  BY DEF Init
<1>2. \A l \in Loops : loop[l].job = NoCaller
  BY DEF Init, LoopAt
<1>3. PlaceInv
  BY <1>1, <1>2 DEF Init, PlaceInv, QueueOnce, HandOnce, Apart, OpenInQueue, OpenInHand, NotLost
<1>4. ReplyInv
  BY DEF Init, ReplyInv, ReplyOK, Results
<1> QED
  BY <1>3, <1>4

(* Steps that move no message.                                              *)
LEMMA QuietStep ==
  ASSUME PlaceInv, ReplyInv, UNCHANGED <<queue, call, answers, resp, sends>>,
         \A l \in Loops : loop'[l].job = loop[l].job
  PROVE  PlaceInv' /\ ReplyInv'
<1>1. QueueOnce' /\ OpenInQueue'
  BY DEF PlaceInv, QueueOnce, OpenInQueue, Undecided
<1>2. HandOnce' /\ OpenInHand'
  BY DEF PlaceInv, HandOnce, OpenInHand, Undecided
<1>3. Apart' /\ NotLost'
  BY DEF PlaceInv, Apart, NotLost, Placed
<1>4. ReplyInv'
  BY DEF ReplyInv, ReplyOK
<1> QED
  BY <1>1, <1>2, <1>3, <1>4 DEF PlaceInv

(* Enqueue: the caller's message was nowhere before.                        *)
LEMMA EnqueuePlaces ==
  ASSUME StateInv, PlaceInv, ReplyInv, NEW c \in Caller, Enqueue(c)
  PROVE  PlaceInv' /\ ReplyInv'
<1> DEFINE t == target[c]
           n == Len(queue[t]) + 1
<1>1. t \in Loops /\ queue[t] \in Seq(Caller) /\ n \in Nat
  <2>1. t \in Loops
    BY LoopSets DEF Enqueue, StateInv, TypeOK
  <2> QED
    BY <2>1, OldTypes, LenProperties
<1>2. /\ queue'[t] = Append(queue[t], c)
      /\ \A g \in Loops \ {t} : queue'[g] = queue[g]
      /\ UNCHANGED <<loop, answers, resp, sends>>
  BY <1>1, OldTypes DEF Enqueue
<1>3. Len(queue'[t]) = n /\ queue'[t][n] = c /\ \A i \in 1 .. n - 1 : queue'[t][i] = queue[t][i]
  BY <1>1, <1>2, AppendProperties
<1>4. call[c] = "enqueue" /\ call' = [call EXCEPT ![c] = "wait"] /\ answers[c] = <<>>
  BY DEF Enqueue, ReplyInv, ReplyOK
<1>5. /\ \A g \in Loops : \A i \in 1 .. Len(queue[g]) : queue[g][i] # c
      /\ \A l \in Loops : loop[l].job # c
  BY <1>4, SendAssumption DEF PlaceInv, OpenInQueue, OpenInHand, Undecided
<1>6. \A g \in Loops : \A i \in 1 .. Len(queue'[g]) :
        IF g = t /\ i = n THEN queue'[g][i] = c
        ELSE i \in 1 .. Len(queue[g]) /\ queue'[g][i] = queue[g][i]
  BY <1>1, <1>2, <1>3
<1>7. \A g \in Loops : \A i \in 1 .. Len(queue[g]) : i \in 1 .. Len(queue'[g]) /\ queue'[g][i] = queue[g][i]
  BY <1>1, <1>2, <1>3
<1>8. call'[c] = "wait" /\ \A d \in Caller \ {c} : call'[d] = call[d]
  BY <1>4 DEF StateInv, TypeOK
<1>9. n \in 1 .. Len(queue'[t])
  BY <1>1, <1>3
<1> HIDE DEF n, t
<1>10. QueueOnce'
  BY <1>5, <1>6 DEF PlaceInv, QueueOnce
<1>11. HandOnce' /\ Apart'
  BY <1>2, <1>5, <1>6 DEF PlaceInv, HandOnce, Apart
<1>12. \A d \in Caller : Undecided(d) => Undecided(d)'
  BY <1>2, <1>8 DEF Undecided
<1>13. Undecided(c)'
  BY <1>2, <1>4, <1>8 DEF Undecided
<1>14. OpenInQueue'
  <2>1. \A g \in Loops : \A i \in 1 .. Len(queue[g]) : queue[g][i] \in Caller
    BY OldTypes, ElementOfSeq
  <2> QED
    BY <1>6, <1>12, <1>13, <2>1 DEF PlaceInv, OpenInQueue
<1>15. OpenInHand'
  <2>1. \A l \in Loops : loop[l].job \in Caller \cup {NoCaller}
    BY OldTypes DEF LoopState
  <2> QED
    BY <1>2, <1>12, <2>1 DEF PlaceInv, OpenInHand
<1>16. NotLost'
  BY <1>1, <1>2, <1>3, <1>7, <1>8, <1>9 DEF PlaceInv, NotLost, Placed
<1>17. ReplyInv'
  BY <1>2, <1>4, <1>8 DEF ReplyInv, ReplyOK, Results
<1> QED
  BY <1>10, <1>11, <1>14, <1>15, <1>16, <1>17 DEF PlaceInv

(* The rest of SendMessage.                                                 *)
LEMMA CallerPlaces ==
  ASSUME StateInv, PlaceInv, ReplyInv, NEW c \in Caller, SendMessage(c)
  PROVE  PlaceInv' /\ ReplyInv'
<1> USE OneElement
<1>1. CASE Enqueue(c)
  BY <1>1, EnqueuePlaces
<1>2. CASE CancelCtx(c)
  BY <1>2, QuietStep DEF CancelCtx
<1>3. CASE CallSendMessage(c) \/ Receive(c) \/ GiveUp(c)
  <2>1. UNCHANGED <<queue, loop, answers, sends>>
    BY <1>3 DEF CallSendMessage, Receive, GiveUp
  <2>2. /\ \A d \in Caller \ {c} : call'[d] = call[d] /\ resp'[d] = resp[d]
        /\ \/ call[c] = "idle" /\ call'[c] = "enqueue" /\ resp' = resp
           \/ /\ call[c] = "wait" /\ call'[c] = Head(resp[c]) /\ resp'[c] = Tail(resp[c])
              /\ resp[c] # <<>>
           \/ call[c] \in {"enqueue", "wait"} /\ call'[c] = "gone" /\ resp' = resp
    <3>1. call \in [Caller -> {"idle", "enqueue", "wait", "gone"} \cup Results]
      BY DEF StateInv, TypeOK
    <3> HIDE OneElement
    <3>2. CASE CallSendMessage(c)
      BY <3>1, <3>2, OldTypes DEF CallSendMessage
    <3>3. CASE Receive(c)
      BY <3>1, <3>3, OldTypes DEF Receive
    <3>4. CASE GiveUp(c)
      BY <3>1, <3>4, OldTypes DEF GiveUp
    <3> QED
      BY <1>3, <3>2, <3>3, <3>4
  <2>3. \A d \in Caller : Undecided(d) => Undecided(d)'
    <3>1. ASSUME Undecided(c) PROVE Undecided(c)'
      BY <2>1, <2>2, <3>1 DEF Undecided, ReplyInv, ReplyOK, Results
    <3> QED
      BY <2>1, <2>2, <3>1 DEF Undecided
  <2>4. QueueOnce' /\ HandOnce' /\ Apart'
    BY <2>1 DEF PlaceInv, QueueOnce, HandOnce, Apart
  <2>5. OpenInQueue' /\ OpenInHand'
    <3>1. \A g \in Loops : \A i \in 1 .. Len(queue[g]) : queue[g][i] \in Caller
      BY OldTypes, ElementOfSeq
    <3>2. \A l \in Loops : loop[l].job \in Caller \cup {NoCaller}
      BY OldTypes DEF LoopState
    <3> QED
      BY <2>1, <2>3, <3>1, <3>2 DEF PlaceInv, OpenInQueue, OpenInHand
  <2>6. NotLost'
    <3>1. call'[c] # "wait"
      BY <2>2 DEF ReplyInv, ReplyOK, Results
    <3> QED
      BY <2>1, <2>2, <3>1 DEF PlaceInv, NotLost, Placed
  <2>7. ReplyInv'
    <3>1. ASSUME call[c] = "wait", call'[c] = Head(resp[c]), resp'[c] = Tail(resp[c]), resp[c] # <<>>
          PROVE  answers[c] = <<call'[c]>> /\ resp'[c] = <<>> /\ call'[c] \in Results
      <4>1. resp[c] = answers[c] /\ \E x \in Results : answers[c] = <<x>>
        BY <3>1 DEF ReplyInv, ReplyOK, Results
      <4> QED
        BY <3>1, <4>1
    <3> HIDE OneElement
    <3>2. \A d \in Caller : d # c => ReplyOK(d)'
      BY <2>1, <2>2 DEF ReplyInv, ReplyOK
    <3>3. ReplyOK(c)'
      BY <2>1, <2>2, <3>1 DEF ReplyInv, ReplyOK, Results
    <3> QED
      BY <3>2, <3>3 DEF ReplyInv
  <2> QED
    BY <2>4, <2>5, <2>6, <2>7 DEF PlaceInv
<1> QED
  BY <1>1, <1>2, <1>3 DEF SendMessage

(* A loop takes the message at the front: it leaves the queue, and the      *)
(* messages behind it move up.                                              *)
LEMMA TakePlaces ==
  ASSUME StateInv, PlaceInv, ReplyInv, NEW l \in Loops, TakeMessage(l)
  PROVE  PlaceInv' /\ ReplyInv'
<1> DEFINE t == loop[l].queue
           c == Head(queue[t])
<1>1. t \in Loops /\ queue[t] \in Seq(Caller) /\ queue[t] # <<>>
  BY OldTypes, LoopSets DEF TakeMessage, LoopState
<1>2. /\ queue'[t] = Tail(queue[t])
      /\ \A g \in Loops \ {t} : queue'[g] = queue[g]
      /\ UNCHANGED <<call, answers, resp, sends>>
  BY <1>1, OldTypes DEF TakeMessage, callerVars
<1>3. loop'[l].job = c /\ \A k \in Loops \ {l} : loop'[k].job = loop[k].job
  BY OldTypes DEF TakeMessage, LoopState
<1>4. loop[l].job = NoCaller
  BY DEF TakeMessage, StateInv, JobWhileBusy, Busy
<1>5. /\ Len(queue[t]) \in Nat /\ c = queue[t][1] /\ 1 \in 1 .. Len(queue[t])
      /\ Len(queue'[t]) = Len(queue[t]) - 1
      /\ \A i \in 1 .. Len(queue'[t]) : queue'[t][i] = queue[t][i + 1]
  BY <1>1, <1>2, HeadTailProperties, LenProperties, EmptySeq
<1>6. c \in Caller /\ c # NoCaller
  BY <1>1, HeadTailProperties, SendAssumption
<1> HIDE DEF c, t
<1>7. \A g \in Loops : \A i \in 1 .. Len(queue'[g]) :
        IF g = t THEN i + 1 \in 1 .. Len(queue[g]) /\ i + 1 # 1 /\ queue'[g][i] = queue[g][i + 1]
        ELSE i \in 1 .. Len(queue[g]) /\ queue'[g][i] = queue[g][i]
  <2> SUFFICES ASSUME NEW g \in Loops, NEW i \in 1 .. Len(queue'[g])
               PROVE  IF g = t THEN /\ i + 1 \in 1 .. Len(queue[g]) /\ i + 1 # 1
                                    /\ queue'[g][i] = queue[g][i + 1]
                      ELSE i \in 1 .. Len(queue[g]) /\ queue'[g][i] = queue[g][i]
    OBVIOUS
  <2>1. CASE g = t
    BY <1>5, <2>1
  <2>2. CASE g # t
    BY <1>2, <2>2
  <2> QED
    BY <2>1, <2>2
<1>8. \A g \in Loops : \A i \in 1 .. Len(queue'[g]) : queue'[g][i] # c
  BY <1>1, <1>5, <1>7 DEF PlaceInv, QueueOnce
<1>9. QueueOnce'
  <2> SUFFICES ASSUME NEW g \in Loops, NEW h \in Loops,
                      NEW i \in 1 .. Len(queue'[g]), NEW j \in 1 .. Len(queue'[h]),
                      queue'[g][i] = queue'[h][j]
               PROVE  g = h /\ i = j
    BY DEF QueueOnce
  <2>1. CASE g = t /\ h = t
    BY <1>5, <1>7, <2>1 DEF PlaceInv, QueueOnce
  <2>2. CASE g = t /\ h # t
    BY <1>7, <2>2 DEF PlaceInv, QueueOnce
  <2>3. CASE g # t /\ h = t
    BY <1>7, <2>3 DEF PlaceInv, QueueOnce
  <2>4. CASE g # t /\ h # t
    BY <1>7, <2>4 DEF PlaceInv, QueueOnce
  <2> QED
    BY <2>1, <2>2, <2>3, <2>4
<1>10. \A k \in Loops : loop[k].job # c
  BY <1>1, <1>5 DEF PlaceInv, Apart
<1>11. HandOnce'
  BY <1>3, <1>10 DEF PlaceInv, HandOnce
<1>12. Apart'
  BY <1>3, <1>7, <1>8 DEF PlaceInv, Apart
<1>13. OpenInQueue'
  BY <1>2, <1>7 DEF PlaceInv, OpenInQueue, Undecided
<1>14. OpenInHand'
  BY <1>1, <1>2, <1>3, <1>5 DEF PlaceInv, OpenInHand, OpenInQueue, Undecided
<1>15. NotLost'
  <2> SUFFICES ASSUME NEW d \in Caller, call[d] = "wait", answers[d] = <<>>
               PROVE  \/ \E g \in Loops : \E i \in 1 .. Len(queue'[g]) : queue'[g][i] = d
                      \/ \E k \in Loops : loop'[k].job = d
    BY <1>2 DEF NotLost, Placed
  <2>1. CASE \E k \in Loops : loop[k].job = d
    BY <1>3, <1>4, <2>1, SendAssumption
  <2>2. CASE \E g \in Loops : \E i \in 1 .. Len(queue[g]) : queue[g][i] = d
    <3>0. PICK g \in Loops : \E i \in 1 .. Len(queue[g]) : queue[g][i] = d
      BY <2>2
    <3>1. PICK i \in 1 .. Len(queue[g]) : queue[g][i] = d
      BY <3>0
    <3>2. CASE g # t
      BY <1>2, <3>1, <3>2
    <3>3. CASE g = t /\ i = 1
      BY <1>3, <1>5, <3>1, <3>3
    <3>4. CASE g = t /\ i # 1
      <4>1. i - 1 \in 1 .. Len(queue'[t]) /\ queue'[t][i - 1] = d
        BY <1>5, <3>1, <3>4
      <4> QED
        BY <1>1, <4>1
    <3> QED
      BY <3>2, <3>3, <3>4
  <2> QED
    BY <2>1, <2>2 DEF PlaceInv, NotLost, Placed
<1>16. ReplyInv'
  BY <1>2 DEF ReplyInv, ReplyOK
<1> QED
  BY <1>9, <1>11, <1>12, <1>13, <1>14, <1>15, <1>16 DEF PlaceInv

(* A loop answers the message in its hand, once.                            *)
LEMMA AnswerPlaces ==
  ASSUME StateInv, PlaceInv, ReplyInv, NEW l \in Loops, NEW r \in Results, Answer(l, r),
         loop[l].at \in Busy, UNCHANGED <<queue, call>>,
         \/ r # "ok" /\ UNCHANGED sends
         \/ r # "refused" /\ sends' = [sends EXCEPT ![loop[l].job] = @ + 1]
  PROVE  PlaceInv' /\ ReplyInv'
<1>0. PICK c \in Caller : c = loop[l].job
  BY BusyHasJob
<1>1. c \in Caller /\ c # NoCaller
  BY SendAssumption
<1>2. loop'[l].job = NoCaller /\ \A k \in Loops \ {l} : loop'[k].job = loop[k].job
  BY OldTypes DEF Answer, LoopAt, LoopState
<1>3. Undecided(c) /\ resp[c] = <<>> /\ sends[c] = 0
  <2>1. Undecided(c)
    BY <1>0, <1>1 DEF PlaceInv, OpenInHand
  <2>2. ReplyOK(c)
    BY <1>1 DEF ReplyInv
  <2>3. answers[c] = <<>> /\ <<>> # <<"ok">> /\ <<>> # <<"refused">> /\ <<>> # <<"failed">>
    BY <2>1 DEF Undecided
  <2>4. call[c] \notin Results
    BY <2>1 DEF Undecided, Results
  <2> QED
    BY <2>1, <2>2, <2>3, <2>4 DEF ReplyOK
<1>4. /\ answers'[c] = <<r>> /\ resp'[c] = <<r>>
      /\ \A d \in Caller \ {c} : answers'[d] = answers[d] /\ resp'[d] = resp[d]
  <2>1. answers[c] = <<>> /\ resp[c] = <<>>
    BY <1>3 DEF Undecided
  <2>2. answers' = [answers EXCEPT ![c] = <<r>>] /\ resp' = [resp EXCEPT ![c] = <<r>>]
    BY <1>0, <2>1, OneElement DEF Answer
  <2> QED
    BY <1>1, <2>2, OldTypes
<1>5. /\ sends'[c] \in {0, 1} /\ (r = "ok" => sends'[c] = 1) /\ (r = "refused" => sends'[c] = 0)
      /\ \A d \in Caller \ {c} : sends'[d] = sends[d]
  <2>1. CASE r # "ok" /\ UNCHANGED sends
    BY <1>3, <2>1
  <2>2. CASE r # "refused" /\ sends' = [sends EXCEPT ![c] = @ + 1]
    BY <1>1, <1>3, <2>2, OldTypes
  <2> QED
    BY <1>0, <2>1, <2>2
<1>6. \A g \in Loops : \A i \in 1 .. Len(queue[g]) : queue[g][i] \in Caller \ {c}
  BY <1>0, OldTypes, ElementOfSeq DEF PlaceInv, Apart
<1>7. \A k \in Loops \ {l} : loop[k].job \in (Caller \cup {NoCaller}) \ {c}
  BY <1>0, <1>1, OldTypes DEF PlaceInv, HandOnce, LoopState
<1>8. <<r>> # <<>>
  OBVIOUS
<1>9. QueueOnce' /\ HandOnce'
  BY <1>2 DEF PlaceInv, QueueOnce, HandOnce
<1>10. Apart'
  BY <1>2, <1>6, SendAssumption DEF PlaceInv, Apart
<1>11. OpenInQueue'
  BY <1>4, <1>6 DEF PlaceInv, OpenInQueue, Undecided
<1>12. OpenInHand'
  BY <1>2, <1>4, <1>7 DEF PlaceInv, OpenInHand, Undecided
<1>13. NotLost'
  <2> SUFFICES ASSUME NEW d \in Caller, call[d] = "wait" PROVE Placed(d)'
    BY DEF NotLost
  <2>1. CASE d = c
    BY <1>4, <1>8, <2>1 DEF Placed
  <2>2. CASE d # c
    <3>1. Placed(d)
      BY DEF PlaceInv, NotLost
    <3>2. \A k \in Loops : loop[k].job = d => k # l
      BY <1>0, <2>2
    <3> QED
      BY <1>2, <1>4, <2>2, <3>1, <3>2 DEF Placed
  <2> QED
    BY <2>1, <2>2
<1>14. ReplyInv'
  <2>1. \A d \in Caller \ {c} : ReplyOK(d)'
    BY <1>4, <1>5 DEF ReplyInv, ReplyOK
  <2>2. call'[c] \in {"wait", "gone"}
    BY <1>3 DEF Undecided
  <2>3. ReplyOK(c)'
    BY <1>4, <1>5, <2>2 DEF ReplyOK, Results
  <2> QED
    BY <2>1, <2>3 DEF ReplyInv
<1> QED
  BY <1>9, <1>10, <1>11, <1>12, <1>13, <1>14 DEF PlaceInv

(* processSend.                                                             *)
LEMMA ProcessPlaces ==
  ASSUME StateInv, PlaceInv, ReplyInv, NEW l \in Loops, ProcessSend(l)
  PROVE  PlaceInv' /\ ReplyInv'
<1>1. loop[l].at \in Busy /\ UNCHANGED <<queue, call>>
  BY ProcessSplit DEF callerVars
<1>2. CASE /\ \E p \in Busy : loop' = [loop EXCEPT ![l].at = p]
           /\ UNCHANGED <<resp, answers, sends, slips>>
  <2>1. \A k \in Loops : loop'[k].job = loop[k].job
    BY <1>2, OldTypes DEF LoopState
  <2> QED
    BY <1>1, <1>2, <2>1, QuietStep
<1>3. CASE (\E r \in {"refused", "failed"} : Answer(l, r)) /\ UNCHANGED <<sends, slips>>
  BY <1>1, <1>3, AnswerPlaces DEF Results
<1>4. CASE /\ \E r \in {"ok", "failed"} : Answer(l, r)
           /\ sends' = [sends EXCEPT ![loop[l].job] = @ + 1]
  BY <1>1, <1>4, AnswerPlaces DEF Results
<1> QED
  BY <1>2, <1>3, <1>4, ProcessSplit

(* Every step keeps each message in its one place, with its one answer.     *)
LEMMA StepPlaces ==
  StateInv /\ PlaceInv /\ ReplyInv /\ [Next]_vars => PlaceInv' /\ ReplyInv'
<1> SUFFICES ASSUME StateInv, PlaceInv, ReplyInv, [Next]_vars PROVE PlaceInv' /\ ReplyInv'
  OBVIOUS
<1>1. CASE UNCHANGED vars
  BY <1>1, QuietStep DEF vars, callerVars
<1>2. CASE \/ StartMakesQueue \/ StartLaunchesLoop \/ Stop \/ Pause \/ Resume
           \/ \E l \in Loops : CancelStartCtx(l)
  <2>1. UNCHANGED <<queue, call, answers, resp, sends>>
    BY <1>2 DEF StartMakesQueue, StartLaunchesLoop, Stop, Pause, Resume, CancelStartCtx, callerVars
  <2>2. \A k \in Loops : loop'[k].job = loop[k].job
    <3>1. CASE StartLaunchesLoop
      BY <3>1, OldTypes DEF StartLaunchesLoop, LoopState
    <3>2. CASE UNCHANGED loop
      BY <3>2
    <3> QED
      BY <1>2, <3>1, <3>2 DEF StartMakesQueue, Stop, Pause, Resume, CancelStartCtx
  <2> QED
    BY <2>1, <2>2, QuietStep
<1>3. ASSUME NEW c \in Caller, SendMessage(c) PROVE PlaceInv' /\ ReplyInv'
  BY <1>3, CallerPlaces
<1>4. ASSUME NEW l \in Loops, ReadQueueField(l) \/ ReadStopField(l) \/ ExitLoop(l)
      PROVE  PlaceInv' /\ ReplyInv'
  <2>1. UNCHANGED <<queue, call, answers, resp, sends>>
    BY <1>4 DEF ReadQueueField, ReadStopField, ExitLoop, callerVars
  <2>2. loop[l].job = NoCaller
    BY <1>4 DEF ReadQueueField, ReadStopField, ExitLoop, StateInv, JobWhileBusy, Busy
  <2>3. \A k \in Loops : loop'[k].job = loop[k].job
    BY <1>4, <2>2, OldTypes DEF ReadQueueField, ReadStopField, ExitLoop, LoopAt, LoopState
  <2> QED
    BY <2>1, <2>3, QuietStep
<1>5. ASSUME NEW l \in Loops, TakeMessage(l) PROVE PlaceInv' /\ ReplyInv'
  BY <1>5, TakePlaces
<1>6. ASSUME NEW l \in Loops, ProcessSend(l) PROVE PlaceInv' /\ ReplyInv'
  BY <1>6, ProcessPlaces
<1> QED
  BY <1>1, <1>2, <1>3, <1>4, <1>5, <1>6 DEF Next, SendLoop

-----------------------------------------------------------------------------
(* The messages past their last check, and the loops launched so far.       *)
Past == {l \in Loops : loop[l].at \in {"delay", "send"}}

Launched == {l \in Loops : loop[l].at # "none"}

(* While messaging is paused no message passes a check, so that each one    *)
(* that slips leaves Past for good.                                         *)
SlipInv == paused => slips + Cardinality(Past) <= Cardinality(Launched)

SendInv == StateInv /\ PlaceInv /\ ReplyInv /\ SlipInv

(* Past and Launched are finite.                                            *)
LEMMA PastCount ==
  ASSUME NEW S \in SUBSET Loops
  PROVE  IsFiniteSet(S) /\ Cardinality(S) \in Nat
<1>1. IsFiniteSet(Loops)
  BY SendAssumption, FS_Interval DEF Loops
<1> QED
  BY <1>1, FS_Subset, FS_CardinalityType

(* A step on which no message passes a check.                               *)
LEMMA NoneSlips ==
  ASSUME StateInv, StateInv', SlipInv, paused' => paused, slips' = slips,
         Past' \subseteq Past, Launched \subseteq Launched'
  PROVE  SlipInv'
<1>1. Past \subseteq Loops /\ Past' \subseteq Loops /\ Launched \subseteq Loops /\ Launched' \subseteq Loops
  BY DEF Past, Launched
<1>2. /\ Cardinality(Past') <= Cardinality(Past) /\ Cardinality(Launched) <= Cardinality(Launched')
      /\ Cardinality(Past) \in Nat /\ Cardinality(Past') \in Nat
      /\ Cardinality(Launched) \in Nat /\ Cardinality(Launched') \in Nat
  BY <1>1, PastCount, FS_Subset
<1>3. slips \in Nat
  BY OldTypes
<1> SUFFICES ASSUME paused' PROVE slips + Cardinality(Past') <= Cardinality(Launched')
  BY DEF SlipInv
<1>4. slips + Cardinality(Past) <= Cardinality(Launched)
  BY DEF SlipInv
<1> QED
  BY <1>2, <1>3, <1>4

(* A message goes out although messaging is paused.                         *)
LEMMA OneSlips ==
  ASSUME StateInv, SlipInv, paused' = paused, slips' = IF paused THEN slips + 1 ELSE slips,
         NEW l \in Past, Past' = Past \ {l}, Launched' = Launched
  PROVE  SlipInv'
<1>1. Past \subseteq Loops /\ Launched \subseteq Loops
  BY DEF Past, Launched
<1>2. /\ Cardinality(Past') = Cardinality(Past) - 1
      /\ Cardinality(Past) \in Nat /\ Cardinality(Launched) \in Nat
  BY <1>1, PastCount, FS_RemoveElement
<1>3. slips \in Nat
  BY OldTypes
<1> SUFFICES ASSUME paused PROVE slips' + Cardinality(Past') <= Cardinality(Launched')
  BY DEF SlipInv
<1>4. slips + Cardinality(Past) <= Cardinality(Launched) /\ slips' = slips + 1
  BY DEF SlipInv
<1> QED
  BY <1>2, <1>3, <1>4

(* Every step keeps the bound.                                              *)
LEMMA StepSlips == StateInv /\ StateInv' /\ SlipInv /\ [Next]_vars => SlipInv'
<1> SUFFICES ASSUME StateInv, StateInv', SlipInv, [Next]_vars PROVE SlipInv'
  OBVIOUS
<1>1. CASE UNCHANGED <<loop, paused, slips>>
  BY <1>1 DEF SlipInv, Past, Launched
<1>2. CASE Pause
  <2>1. slips' = 0 /\ Past' \subseteq Launched' /\ Launched' \subseteq Loops
    BY <1>2 DEF Pause, Past, Launched
  <2>2. Cardinality(Past') <= Cardinality(Launched') /\ Cardinality(Past') \in Nat
    BY <2>1, PastCount, FS_Subset
  <2> QED
    BY <2>1, <2>2 DEF SlipInv
<1>3. CASE Resume
  BY <1>3 DEF Resume, SlipInv
<1>4. CASE StartLaunchesLoop
  <2>1. Past' \subseteq Past /\ Launched \subseteq Launched'
    BY <1>4, OldTypes DEF StartLaunchesLoop, Past, Launched, LoopState
  <2> QED
    BY <1>4, <2>1, NoneSlips DEF StartLaunchesLoop
<1>5. ASSUME NEW l \in Loops, ReadQueueField(l) \/ ReadStopField(l) \/ TakeMessage(l) \/ ExitLoop(l)
      PROVE  SlipInv'
  <2>1. /\ UNCHANGED <<paused, slips>> /\ \A k \in Loops \ {l} : loop'[k] = loop[k]
        /\ loop[l].at # "none" /\ loop'[l].at \in {"half", "select", "check", "exited"}
    BY <1>5, OldTypes
    DEF ReadQueueField, ReadStopField, TakeMessage, ExitLoop, LoopAt, LoopState
  <2>2. Past' \subseteq Past /\ Launched \subseteq Launched'
    BY <2>1 DEF Past, Launched
  <2> QED
    BY <2>1, <2>2, NoneSlips
<1>6. ASSUME NEW l \in Loops, ProcessSend(l) PROVE SlipInv'
  <2>1. loop[l].at \in Busy /\ paused' = paused
    BY <1>6, ProcessSplit
  <2>2. ASSUME NEW p \in Busy, loop' = [loop EXCEPT ![l].at = p],
               p \in {"send", "delay"} => ~paused \/ loop[l].at = "delay", slips' = slips
        PROVE  SlipInv'
    <3>1. loop'[l].at = p /\ \A k \in Loops \ {l} : loop'[k] = loop[k]
      BY <2>2, OldTypes DEF LoopState
    <3>2. CASE paused
      <4>1. Past' \subseteq Past /\ Launched \subseteq Launched'
        BY <2>1, <2>2, <3>1, <3>2 DEF Past, Launched, Busy
      <4> QED
        BY <2>1, <2>2, <4>1, NoneSlips
    <3>3. CASE ~paused
      BY <2>1, <3>3 DEF SlipInv
    <3> QED
      BY <3>2, <3>3
  <2>3. ASSUME NEW r, Answer(l, r)
        PROVE  Past' = Past \ {l} /\ Launched' = Launched
    <3>1. loop'[l].at = "top" /\ \A k \in Loops \ {l} : loop'[k] = loop[k]
      BY <2>3, OldTypes DEF Answer, LoopAt, LoopState
    <3> QED
      BY <2>1, <3>1 DEF Past, Launched, Busy
  <2>4. CASE (\E r \in {"refused", "failed"} : Answer(l, r)) /\ slips' = slips
    <3>1. Past' \subseteq Past /\ Launched \subseteq Launched'
      BY <2>3, <2>4
    <3> QED
      BY <2>1, <2>4, <3>1, NoneSlips
  <2>5. CASE /\ loop[l].at = "send"
             /\ \E r \in {"ok", "failed"} : Answer(l, r)
             /\ slips' = IF paused THEN slips + 1 ELSE slips
    <3>1. l \in Past /\ Past' = Past \ {l} /\ Launched' = Launched
      BY <2>3, <2>5 DEF Past
    <3> QED
      BY <2>1, <2>5, <3>1, OneSlips
  <2> QED
    BY <1>6, <2>2, <2>4, <2>5, ProcessSplit
<1> QED
  BY <1>1, <1>2, <1>3, <1>4, <1>5, <1>6
  DEF Next, SendLoop, SendMessage, StartMakesQueue, Stop, CancelStartCtx, CallSendMessage,
      Enqueue, Receive, GiveUp, CancelCtx, vars

(* The inductive invariant holds in every reachable state.                  *)
THEOREM SendInvariant == Spec => []SendInv
<1>1. Init => SendInv
  <2> SUFFICES ASSUME Init PROVE SendInv
    OBVIOUS
  <2>1. SlipInv
    BY DEF Init, SlipInv
  <2> QED
    BY <2>1, InitState, InitPlaces DEF SendInv
<1>2. SendInv /\ [Next]_vars => SendInv'
  BY StepState, StepPlaces, StepSlips DEF SendInv
<1> QED
  BY <1>1, <1>2, PTL DEF Spec

-----------------------------------------------------------------------------
(* The counts of Conservation, from the pairwise statements.                *)
LEMMA AtMostOne ==
  ASSUME NEW S, \A x, y \in S : x = y
  PROVE  Cardinality(S) = IF S = {} THEN 0 ELSE 1
<1>1. CASE S = {}
  BY <1>1, FS_EmptySet
<1>2. CASE S # {}
  <2>1. PICK x \in S : TRUE
    BY <1>2
  <2>2. S = {x}
    BY <2>1
  <2> QED
    BY <1>2, <2>2, FS_Singleton
<1> QED
  BY <1>1, <1>2

(* The places of a message.                                                 *)
LEMMA Places ==
  ASSUME StateInv, PlaceInv, NEW c \in Caller
  PROVE  /\ Queued(c) # {} <=> \E g \in Loops : \E i \in 1 .. Len(queue[g]) : queue[g][i] = c
         /\ InHand(c) # {} <=> \E l \in Loops : loop[l].job = c
         /\ \A p, q \in Queued(c) : p = q
         /\ \A k, l \in InHand(c) : k = l
         /\ Queued(c) = {} \/ InHand(c) = {}
<1>1. \A g \in Loops : Len(queue[g]) \in Nat /\ Len(queue[g]) <= QueueCap
  BY OldTypes, LenProperties
<1>2. ASSUME NEW p \in Queued(c)
      PROVE  p = <<p[1], p[2]>> /\ p[1] \in Loops /\ p[2] \in 1 .. Len(queue[p[1]]) /\ queue[p[1]][p[2]] = c
  BY <1>1, <1>2, SendAssumption DEF Queued
<1>3. ASSUME NEW g \in Loops, NEW i \in 1 .. Len(queue[g]), queue[g][i] = c
      PROVE  <<g, i>> \in Queued(c)
  <2>1. i \in 1 .. QueueCap /\ i <= Len(queue[g])
    BY <1>1, SendAssumption
  <2> QED
    BY <1>3, <2>1 DEF Queued
<1>4. \A p, q \in Queued(c) : p = q
  <2> SUFFICES ASSUME NEW p \in Queued(c), NEW q \in Queued(c) PROVE p = q
    OBVIOUS
  <2>1. p[1] = q[1] /\ p[2] = q[2]
    BY <1>2 DEF PlaceInv, QueueOnce
  <2>2. p = <<p[1], p[2]>> /\ q = <<q[1], q[2]>>
    BY <1>2
  <2> QED
    BY <2>1, <2>2
<1>5. c # NoCaller
  BY SendAssumption
<1>6. \A k, l \in InHand(c) : k = l
  BY <1>5 DEF InHand, PlaceInv, HandOnce
<1>7. Queued(c) = {} \/ InHand(c) = {}
  BY <1>2 DEF InHand, PlaceInv, Apart
<1>8. Queued(c) # {} <=> \E g \in Loops : \E i \in 1 .. Len(queue[g]) : queue[g][i] = c
  BY <1>2, <1>3
<1> QED
  BY <1>4, <1>6, <1>7, <1>8 DEF InHand

(* No message of SendMessage is lost, taken twice or answered twice, for    *)
(* any number of callers, loops and restarts.                               *)
THEOREM MessagesConserved == Spec => []Conservation
<1>1. SendInv => Conservation
  <2> SUFFICES ASSUME SendInv, NEW c \in Caller
               PROVE  LET places == Cardinality(Queued(c)) + Cardinality(InHand(c)) + Len(answers[c])
                      IN  /\ call[c] \in {"idle", "enqueue"} => places = 0
                          /\ call[c] \in {"wait"} \cup Results => places = 1
                          /\ call[c] = "gone" => places <= 1
    BY DEF Conservation
  <2>1. /\ Cardinality(Queued(c)) = IF Queued(c) = {} THEN 0 ELSE 1
        /\ Cardinality(InHand(c)) = IF InHand(c) = {} THEN 0 ELSE 1
    BY Places, AtMostOne DEF SendInv
  <2>2. Len(answers[c]) = IF answers[c] = <<>> THEN 0 ELSE 1
    BY OneElement DEF SendInv, ReplyInv, ReplyOK
  <2>3. Queued(c) # {} => Undecided(c)
    BY Places DEF SendInv, PlaceInv, OpenInQueue
  <2>4. InHand(c) # {} => Undecided(c)
    BY Places, SendAssumption DEF SendInv, PlaceInv, OpenInHand
  <2>5. Queued(c) = {} \/ InHand(c) = {}
    BY Places DEF SendInv
  <2>6. call[c] \in {"idle", "enqueue"} => answers[c] = <<>> /\ Queued(c) = {} /\ InHand(c) = {}
    BY <2>3, <2>4 DEF SendInv, ReplyInv, ReplyOK, Undecided
  <2>7. call[c] \in Results => answers[c] # <<>> /\ Queued(c) = {} /\ InHand(c) = {}
    BY <2>3, <2>4, OneElement DEF SendInv, ReplyInv, ReplyOK, Undecided, Results
  <2>8. call[c] = "wait" => answers[c] # <<>> \/ Queued(c) # {} \/ InHand(c) # {}
    BY Places DEF SendInv, PlaceInv, NotLost, Placed
  <2>9. answers[c] # <<>> => Queued(c) = {} /\ InHand(c) = {}
    BY <2>3, <2>4 DEF Undecided
  <2> QED
    BY <2>1, <2>2, <2>5, <2>6, <2>7, <2>8, <2>9
<1> QED
  BY <1>1, SendInvariant, PTL

(* What SendMessage returns is what happened to the message.                *)
THEOREM RepliesHonest == Spec => []HonestReply
<1>1. SendInv => HonestReply
  <2> SUFFICES ASSUME SendInv, NEW c \in Caller
               PROVE  /\ sends[c] <= 1
                      /\ call[c] = "ok" => sends[c] = 1
                      /\ call[c] = "refused" => sends[c] = 0
    BY DEF HonestReply
  <2>1. ReplyOK(c)
    BY DEF SendInv, ReplyInv
  <2>2. sends[c] \in {0, 1}
    BY <2>1 DEF ReplyOK
  <2>3. <<>> # <<"ok">> /\ <<>> # <<"refused">>
    OBVIOUS
  <2>4. call[c] = "ok" => answers[c] = <<"ok">>
    BY <2>1 DEF ReplyOK, Results
  <2>5. call[c] = "refused" => answers[c] = <<"refused">>
    BY <2>1 DEF ReplyOK, Results
  <2>6. <<"ok">>[1] = "ok" /\ <<"refused">>[1] = "refused" /\ <<"failed">>[1] = "failed"
    OBVIOUS
  <2>7. <<"ok">> # <<"refused">> /\ <<"ok">> # <<"failed">> /\ <<"refused">> # <<"failed">>
    BY <2>6
  <2> QED
    BY <2>1, <2>2, <2>3, <2>4, <2>5, <2>7 DEF ReplyOK
<1> QED
  BY <1>1, SendInvariant, PTL

(* A Pause lets at most one message per loop slip.                          *)
THEOREM SlipsBounded == Spec => []BoundedSlip
<1>1. SendInv => BoundedSlip
  <2> SUFFICES ASSUME SendInv, paused PROVE slips <= Cardinality(Launched)
    BY DEF BoundedSlip, Launched
  <2>1. Past \subseteq Loops /\ Launched \subseteq Loops
    BY DEF Past, Launched
  <2>2. Cardinality(Past) \in Nat /\ Cardinality(Launched) \in Nat /\ slips \in Nat
    BY <2>1, PastCount, OldTypes DEF SendInv
  <2> QED
    BY <2>2 DEF SendInv, SlipInv
<1> QED
  BY <1>1, SendInvariant, PTL

-----------------------------------------------------------------------------
(* The refinement.  A message is pending while it has a place in a queue or *)
(* in a hand.                                                               *)
Pending(c) ==
  \/ \E g \in Loops : \E i \in 1 .. Len(queue[g]) : queue[g][i] = c
  \/ \E l \in Loops : loop[l].job = c

Outcome(c) ==
  IF answers[c] # <<>> THEN answers[c][1] ELSE IF Pending(c) THEN "pending" ELSE "none"

FateMap == [c \in Caller |-> Fate(c)]
ReplyMap == [c \in Caller |-> ReplyOf(c)]

FateKnown == \A c \in Caller : Fate(c) = Outcome(c)

(* The fate of a message, without the sets of its places.                   *)
LEMMA FateIs == SendInv => FateKnown
  BY Places DEF SendInv, FateKnown, Fate, Outcome, Pending

(* A step of the service on one message.                                    *)
LEMMA FateMoves ==
  ASSUME SendInv, SendInv', NEW c \in Caller, \A d \in Caller \ {c} : Outcome(d)' = Outcome(d)
  PROVE  FateMap' = [FateMap EXCEPT ![c] = Outcome(c)']
<1>1. FateKnown /\ FateKnown'
  BY FateIs, PTL
<1> QED
  BY <1>1 DEF FateKnown, FateMap

(* A step that leaves every place and every answer alone.                   *)
LEMMA FatesStay ==
  ASSUME SendInv, SendInv', UNCHANGED <<queue, answers>>, \A l \in Loops : loop'[l].job = loop[l].job
  PROVE  FateMap' = FateMap
<1>1. FateKnown /\ FateKnown'
  BY FateIs, PTL
<1>2. \A d \in Caller : Outcome(d)' = Outcome(d)
  BY DEF Outcome, Pending
<1> QED
  BY <1>1, <1>2 DEF FateKnown, FateMap

(* The caller's steps.                                                      *)
LEMMA CallerMaps ==
  ASSUME SendInv, SendInv', NEW c \in Caller, SendMessage(c)
  PROVE  \/ UNCHANGED <<FateMap, ReplyMap>>
         \/ Service!Submit(c) \/ Service!Reply(c) \/ Service!Abandon(c)
<1>1. CASE CallSendMessage(c) \/ CancelCtx(c)
  <2>1. FateMap' = FateMap
    BY <1>1, FatesStay DEF CallSendMessage, CancelCtx
  <2>2. ReplyMap' = ReplyMap
    BY <1>1 DEF CallSendMessage, CancelCtx, ReplyMap, ReplyOf, SendInv, StateInv, TypeOK
  <2> QED
    BY <2>1, <2>2
<1>2. CASE Enqueue(c)
  <2>1. /\ target[c] \in Loops /\ queue \in [Loops -> Seq(Caller)]
        /\ queue' = [queue EXCEPT ![target[c]] = Append(@, c)]
        /\ UNCHANGED <<loop, answers>>
    BY <1>2, LoopSets DEF Enqueue, SendInv, StateInv, TypeOK
  <2>2. \A d \in Caller : Pending(d)' <=> Pending(d) \/ d = c
    BY <2>1 DEF Pending
  <2>3. answers[c] = <<>> /\ ~Pending(c)
    BY <1>2, SendAssumption
    DEF Enqueue, SendInv, ReplyInv, ReplyOK, Pending, PlaceInv, OpenInQueue, OpenInHand, Undecided
  <2>4. Outcome(c) = "none" /\ Outcome(c)' = "pending" /\ \A d \in Caller \ {c} : Outcome(d)' = Outcome(d)
    BY <2>1, <2>2, <2>3 DEF Outcome
  <2>5. FateMap[c] = "none" /\ FateMap' = [FateMap EXCEPT ![c] = "pending"]
    BY <2>4, FateMoves, FateIs DEF FateKnown, FateMap
  <2>6. ReplyMap[c] = "none" /\ ReplyMap' = ReplyMap
    BY <1>2 DEF Enqueue, ReplyMap, ReplyOf, SendInv, StateInv, TypeOK
  <2> QED
    BY <2>5, <2>6 DEF Service!Submit, FateMap, ReplyMap
<1>3. CASE Receive(c)
  <2>1. FateMap' = FateMap
    BY <1>3, FatesStay DEF Receive
  <2>2. resp[c] = answers[c] /\ answers[c] # <<>> /\ answers[c] \in Seq(Results) /\ call[c] = "wait"
    BY <1>3 DEF Receive, SendInv, ReplyInv, ReplyOK, StateInv, TypeOK, Results
  <2>3. FateMap[c] = answers[c][1] /\ answers[c][1] \in Results /\ Head(resp[c]) = answers[c][1]
    BY <2>2 DEF FateMap, Fate
  <2>4. ReplyMap[c] = "none" /\ ReplyMap' = [ReplyMap EXCEPT ![c] = FateMap[c]]
    BY <1>3, <2>2, <2>3 DEF Receive, ReplyMap, ReplyOf, SendInv, StateInv, TypeOK, Results
  <2> QED
    BY <2>1, <2>3, <2>4 DEF Service!Reply, Service!Fates, Results, FateMap, ReplyMap
<1>4. CASE GiveUp(c)
  <2>1. FateMap' = FateMap
    BY <1>4, FatesStay DEF GiveUp
  <2>2. ReplyMap[c] = "none" /\ ReplyMap' = [ReplyMap EXCEPT ![c] = "gone"]
    BY <1>4 DEF GiveUp, ReplyMap, ReplyOf, SendInv, StateInv, TypeOK
  <2> QED
    BY <2>1, <2>2 DEF Service!Abandon, FateMap, ReplyMap
<1> QED
  BY <1>1, <1>2, <1>3, <1>4 DEF SendMessage

(* A message that is taken stays pending, and so do those behind it.        *)
LEMMA TakeKeepsPending ==
  ASSUME StateInv, NEW l \in Loops, TakeMessage(l)
  PROVE  \A d \in Caller : Pending(d)' <=> Pending(d)
<1>1. PICK t \in Loops : t = loop[l].queue /\ queue[t] # <<>>
  BY OldTypes, LoopSets DEF TakeMessage, LoopState
<1>2. queue'[t] = Tail(queue[t]) /\ queue[t] \in Seq(Caller) /\ \A g \in Loops \ {t} : queue'[g] = queue[g]
  BY <1>1, OldTypes DEF TakeMessage
<1>3. loop'[l].job = queue[t][1] /\ \A k \in Loops \ {l} : loop'[k].job = loop[k].job
  BY <1>1, <1>2, OldTypes, HeadTailProperties DEF TakeMessage, LoopState
<1>4. loop[l].job = NoCaller
  BY DEF TakeMessage, StateInv, JobWhileBusy, Busy
<1>5. /\ Len(queue[t]) \in Nat \ {0} /\ Len(queue'[t]) = Len(queue[t]) - 1
      /\ \A i \in 1 .. Len(queue'[t]) : queue'[t][i] = queue[t][i + 1]
  BY <1>1, <1>2, HeadTailProperties, LenProperties, EmptySeq
<1>6. ASSUME NEW d \in Caller, NEW i \in 1 .. Len(queue[t]), queue[t][i] = d PROVE Pending(d)'
  <2>1. CASE i = 1
    BY <1>3, <1>6, <2>1 DEF Pending
  <2>2. CASE i # 1
    <3>1. i - 1 \in 1 .. Len(queue'[t]) /\ (i - 1) + 1 = i
      BY <1>5, <2>2
    <3>2. queue'[t][i - 1] = d
      BY <1>5, <1>6, <3>1
    <3> QED
      BY <3>1, <3>2 DEF Pending
  <2> QED
    BY <2>1, <2>2
<1>7. ASSUME NEW d \in Caller, NEW i \in 1 .. Len(queue'[t]), queue'[t][i] = d PROVE Pending(d)
  <2>1. i + 1 \in 1 .. Len(queue[t]) /\ queue[t][i + 1] = d
    BY <1>5, <1>7
  <2> QED
    BY <2>1 DEF Pending
<1>8. ASSUME NEW d \in Caller, Pending(d) PROVE Pending(d)'
  <2>1. CASE \E g \in Loops : \E i \in 1 .. Len(queue[g]) : queue[g][i] = d
    <3>1. CASE \E i \in 1 .. Len(queue[t]) : queue[t][i] = d
      BY <1>6, <3>1
    <3>2. CASE \E g \in Loops \ {t} : \E i \in 1 .. Len(queue[g]) : queue[g][i] = d
      BY <1>2, <3>2 DEF Pending
    <3> QED
      BY <2>1, <3>1, <3>2
  <2>2. CASE \E k \in Loops : loop[k].job = d
    BY <1>3, <1>4, <2>2, SendAssumption DEF Pending
  <2> QED
    BY <1>8, <2>1, <2>2 DEF Pending
<1>9. ASSUME NEW d \in Caller, Pending(d)' PROVE Pending(d)
  <2>1. CASE \E g \in Loops : \E i \in 1 .. Len(queue'[g]) : queue'[g][i] = d
    <3>1. CASE \E i \in 1 .. Len(queue'[t]) : queue'[t][i] = d
      BY <1>7, <3>1
    <3>2. CASE \E g \in Loops \ {t} : \E i \in 1 .. Len(queue'[g]) : queue'[g][i] = d
      BY <1>2, <3>2 DEF Pending
    <3> QED
      BY <2>1, <3>1, <3>2
  <2>2. CASE \E k \in Loops : loop'[k].job = d
    <3>1. CASE loop'[l].job = d
      <4>1. 1 \in 1 .. Len(queue[t]) /\ queue[t][1] = d
        BY <1>3, <1>5, <3>1
      <4> QED
        BY <4>1 DEF Pending
    <3>2. CASE \E k \in Loops \ {l} : loop'[k].job = d
      BY <1>3, <3>2 DEF Pending
    <3> QED
      BY <2>2, <3>1, <3>2
  <2> QED
    BY <1>9, <2>1, <2>2 DEF Pending
<1> QED
  BY <1>8, <1>9

(* The loop's steps: taking a message moves its place, answering decides it. *)
LEMMA LoopMaps ==
  ASSUME SendInv, SendInv', NEW l \in Loops, SendLoop(l)
  PROVE  UNCHANGED <<FateMap, ReplyMap>> \/ \E c \in Caller : Service!Decide(c)
<1>0. UNCHANGED call /\ StateInv /\ PlaceInv
  BY ProcessSplit
  DEF SendLoop, ReadQueueField, ReadStopField, TakeMessage, ExitLoop, callerVars, SendInv
<1>1. ReplyMap' = ReplyMap
  BY <1>0 DEF ReplyMap, ReplyOf
<1>2. CASE ReadQueueField(l) \/ ReadStopField(l) \/ ExitLoop(l)
  <2>1. loop[l].job = NoCaller
    BY <1>0, <1>2 DEF ReadQueueField, ReadStopField, ExitLoop, StateInv, JobWhileBusy, Busy
  <2>2. \A k \in Loops : loop'[k].job = loop[k].job
    BY <1>0, <1>2, <2>1, OldTypes DEF ReadQueueField, ReadStopField, ExitLoop, LoopAt, LoopState
  <2>3. FateMap' = FateMap
    BY <1>2, <2>2, FatesStay DEF ReadQueueField, ReadStopField, ExitLoop
  <2> QED
    BY <1>1, <2>3
<1>3. CASE TakeMessage(l)
  <2>1. \A d \in Caller : Pending(d)' <=> Pending(d)
    BY <1>0, <1>3, TakeKeepsPending
  <2>2. \A d \in Caller : Outcome(d)' = Outcome(d)
    BY <1>3, <2>1 DEF TakeMessage, Outcome
  <2>3. FateKnown /\ FateKnown'
    BY FateIs, PTL
  <2> QED
    BY <1>1, <2>2, <2>3 DEF FateKnown, FateMap
<1>4. CASE ProcessSend(l)
  <2>1. loop[l].at \in Busy /\ UNCHANGED queue
    BY <1>4, ProcessSplit
  <2>2. CASE UNCHANGED answers /\ \E p \in Busy : loop' = [loop EXCEPT ![l].at = p]
    <3>1. \A k \in Loops : loop'[k].job = loop[k].job
      BY <1>0, <2>2, OldTypes DEF LoopState
    <3> QED
      BY <1>1, <2>1, <2>2, <3>1, FatesStay
  <2>3. ASSUME NEW r \in Results, Answer(l, r) PROVE \E c \in Caller : Service!Decide(c)
    <3>1. PICK c \in Caller : c = loop[l].job
      BY <1>0, <2>1, BusyHasJob
    <3>2. /\ answers \in [Caller -> Seq(Results)] /\ loop \in [Loops -> LoopState]
          /\ answers' = [answers EXCEPT ![c] = Append(@, r)] /\ answers[c] = <<>>
      BY <1>0, <2>3, <3>1, OldTypes, SendAssumption DEF Answer, PlaceInv, OpenInHand, Undecided
    <3>3. Outcome(c) = "pending" /\ Outcome(c)' = r
      BY <3>1, <3>2 DEF Outcome, Pending
    <3>4. loop'[l].job = NoCaller /\ \A k \in Loops \ {l} : loop'[k] = loop[k]
      BY <2>3, <3>2 DEF Answer, LoopAt
    <3>5. \A d \in Caller \ {c} : Pending(d)' <=> Pending(d)
      BY <2>1, <3>1, <3>4, SendAssumption DEF Pending
    <3>6. \A d \in Caller \ {c} : Outcome(d)' = Outcome(d)
      BY <3>2, <3>5 DEF Outcome
    <3>7. FateMap[c] = "pending" /\ FateMap' = [FateMap EXCEPT ![c] = r]
      BY <3>3, <3>6, FateMoves, FateIs DEF FateKnown, FateMap
    <3> QED
      BY <1>1, <3>7 DEF Service!Decide, Service!Fates, Results, FateMap, ReplyMap
  <2> QED
    BY <1>4, <2>2, <2>3, ProcessSplit DEF Results
<1> QED
  BY <1>2, <1>3, <1>4 DEF SendLoop

(* AntiBanClient implements the service: each SendMessage is submitted      *)
(* once, decided once and told its own fate.                                *)
THEOREM SendRefines == Spec => ImplementsSendService
<1>1. SendInv /\ Init => Service!Init
  <2> SUFFICES ASSUME SendInv, Init PROVE Service!Init
    OBVIOUS
  <2>1. \A c \in Caller : Outcome(c) = "none"
    BY SendAssumption DEF Init, Outcome, Pending, LoopAt
  <2> QED
    BY <2>1, FateIs DEF Init, FateKnown, Service!Init, ReplyOf
<1>2. SendInv /\ SendInv' /\ [Next]_vars => [Service!Next]_<<FateMap, ReplyMap>>
  <2> SUFFICES ASSUME SendInv, SendInv', [Next]_vars PROVE [Service!Next]_<<FateMap, ReplyMap>>
    OBVIOUS
  <2>1. CASE \/ UNCHANGED vars \/ StartMakesQueue \/ StartLaunchesLoop \/ Stop \/ Pause \/ Resume
             \/ \E l \in Loops : CancelStartCtx(l)
    <3>1. UNCHANGED <<queue, call, answers>>
      BY <2>1
      DEF StartMakesQueue, StartLaunchesLoop, Stop, Pause, Resume, CancelStartCtx, callerVars, vars
    <3>2. \A k \in Loops : loop'[k].job = loop[k].job
      <4>1. CASE StartLaunchesLoop
        BY <4>1, OldTypes DEF StartLaunchesLoop, LoopState, SendInv
      <4>2. CASE UNCHANGED loop
        BY <4>2
      <4> QED
        BY <2>1, <4>1, <4>2 DEF StartMakesQueue, Stop, Pause, Resume, CancelStartCtx, vars
    <3>3. FateMap' = FateMap /\ ReplyMap' = ReplyMap
      BY <3>1, <3>2, FatesStay DEF ReplyMap, ReplyOf
    <3> QED
      BY <3>3
  <2>2. ASSUME NEW c \in Caller, SendMessage(c) PROVE [Service!Next]_<<FateMap, ReplyMap>>
    BY <2>2, CallerMaps DEF Service!Next
  <2>3. ASSUME NEW l \in Loops, SendLoop(l) PROVE [Service!Next]_<<FateMap, ReplyMap>>
    BY <2>3, LoopMaps DEF Service!Next
  <2> QED
    BY <2>1, <2>2, <2>3 DEF Next
<1> QED
  BY <1>1, <1>2, SendInvariant, PTL DEF Spec, ImplementsSendService, Service!Spec, FateMap, ReplyMap
=============================================================================
