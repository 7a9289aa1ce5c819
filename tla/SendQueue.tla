----------------------------- MODULE SendQueue -----------------------------
(***************************************************************************)
(* AntiBanClient of wrapper.go: any number of goroutines call SendMessage, *)
(* which puts a pendingMessage on a bounded channel and waits for one      *)
(* result; a send loop takes the messages off, asks BeforeSend, sleeps,    *)
(* sends through whatsmeow and answers.  Start creates the channels and a  *)
(* loop, Stop closes stopCh.                                               *)
(*                                                                         *)
(* The loop reads the fields abc.sendQueue and abc.stopCh anew in every    *)
(* round, without abc.mu.  A loop that is busy during Stop and a second    *)
(* Start therefore comes back to the NEW channels, beside the new loop.    *)
(* Channels are numbered by the Start that made them; 0 is the nil channel *)
(* before the first Start.                                                 *)
(*                                                                         *)
(* Each caller sends one message and stands for it.  What BeforeSend says  *)
(* apart from the pause flag, and whether whatsmeow's send succeeds, are   *)
(* arbitrary here.                                                         *)
(***************************************************************************)
EXTENDS Integers, Sequences, FiniteSets

CONSTANTS
  Caller,     \* goroutines that call SendMessage, once each
  NoCaller,   \* a loop without a message
  QueueCap,   \* capacity of sendQueue (1000 in the code)
  MaxStarts   \* bound: calls of Start that start a loop

ASSUME SendAssumption ==
  /\ NoCaller \notin Caller
  /\ QueueCap \in Nat \ {0}
  /\ MaxStarts \in Nat \ {0}

VARIABLES
  started,     \* abc.started
  starting,    \* a Start is between its two channel assignments
  queueField,  \* which Start made abc.sendQueue
  stopField,   \* which Start made abc.stopCh
  queue,       \* the contents of each sendQueue
  stopClosed,  \* which stopCh are closed
  startCtx,    \* per Start: has the context it was given been cancelled
  smStopped,   \* StateManager.stopCh is closed (it is made only once)
  crashed,     \* a panic has ended the program
  loop,        \* per send loop: pc, the channels read, the message in hand
  call,        \* per caller: where its SendMessage is
  target,      \* per caller: the sendQueue it read
  ctxDone,     \* per caller: its context has been cancelled
  resp,        \* per caller: respCh (capacity 1)
  paused,      \* AntiBan.isPaused
  answers,     \* history: the results written to respCh so far
  sends,       \* history: sends whatsmeow carried out
  slips        \* history: sends since messaging was last paused

clientVars == <<started, starting, queueField, stopField, stopClosed, startCtx,
                smStopped, crashed>>
callerVars == <<call, target, ctxDone>>
vars == <<clientVars, queue, loop, callerVars, resp, paused, answers, sends, slips>>

Loops == 1 .. MaxStarts
Gens == 0 .. MaxStarts

LoopAt(at, q, s, job) == [at |-> at, queue |-> q, stop |-> s, job |-> job]

-----------------------------------------------------------------------------
(* Start and Stop hold abc.mu; the loops and the callers do not.            *)

(* Start assigns sendQueue, then stopCh.  An unlocked reader may see the    *)
(* first without the second.                                                *)
StartMakesQueue ==
  /\ ~started
  /\ ~starting
  /\ queueField < MaxStarts
  /\ starting' = TRUE
  /\ queueField' = queueField + 1
  /\ UNCHANGED <<started, stopField, stopClosed, startCtx, smStopped, crashed>>
  /\ UNCHANGED <<queue, loop, callerVars, resp, paused, answers, sends, slips>>

StartLaunchesLoop ==
  /\ starting
  /\ starting' = FALSE
  /\ stopField' = queueField
  /\ started' = TRUE
  /\ loop' = [loop EXCEPT ![queueField].at = "top"]
  /\ UNCHANGED <<queueField, stopClosed, startCtx, smStopped, crashed>>
  /\ UNCHANGED <<queue, callerVars, resp, paused, answers, sends, slips>>

(* Variant: Stop only clears the flag and leaves stopCh open.               *)
StopWithoutClose ==
  /\ started
  /\ started' = FALSE
  /\ smStopped' = TRUE
  /\ crashed' = smStopped
  /\ UNCHANGED <<starting, queueField, stopField, stopClosed, startCtx>>
  /\ UNCHANGED <<queue, loop, callerVars, resp, paused, answers, sends, slips>>

(* Stop closes stopCh, then calls StateManager.Stop, which closes a channel *)
(* that only NewStateManager makes: the second time that is a panic.        *)
Stop ==
  /\ started
  /\ stopClosed' = [stopClosed EXCEPT ![stopField] = TRUE]
  /\ started' = FALSE
  /\ smStopped' = TRUE
  /\ crashed' = smStopped
  /\ UNCHANGED <<starting, queueField, stopField, startCtx>>
  /\ UNCHANGED <<queue, loop, callerVars, resp, paused, answers, sends, slips>>

(* The context given to a Start is cancelled by its owner.                  *)
CancelStartCtx(l) ==
  /\ loop[l].at \notin {"none", "exited"}
  /\ ~startCtx[l]
  /\ startCtx' = [startCtx EXCEPT ![l] = TRUE]
  /\ UNCHANGED <<started, starting, queueField, stopField, stopClosed, smStopped, crashed>>
  /\ UNCHANGED <<queue, loop, callerVars, resp, paused, answers, sends, slips>>

-----------------------------------------------------------------------------
(* SendMessage.                                                             *)

CallSendMessage(c) ==
  /\ call[c] = "idle"
  /\ call' = [call EXCEPT ![c] = "enqueue"]
  /\ target' = [target EXCEPT ![c] = queueField]
  /\ UNCHANGED <<clientVars, queue, loop, ctxDone, resp, paused, answers, sends, slips>>

(* The first select: a nil channel is never ready.                          *)
Enqueue(c) ==
  /\ call[c] = "enqueue"
  /\ target[c] # 0
  /\ Len(queue[target[c]]) < QueueCap
  /\ queue' = [queue EXCEPT ![target[c]] = Append(@, c)]
  /\ call' = [call EXCEPT ![c] = "wait"]
  /\ UNCHANGED <<clientVars, loop, target, ctxDone, resp, paused, answers, sends, slips>>

(* The second select: the result, or the end of the context.                *)
Receive(c) ==
  /\ call[c] = "wait"
  /\ resp[c] # <<>>
  /\ call' = [call EXCEPT ![c] = Head(resp[c])]
  /\ resp' = [resp EXCEPT ![c] = Tail(@)]
  /\ UNCHANGED <<clientVars, queue, loop, target, ctxDone, paused, answers, sends, slips>>

(* Variant: only the first select looks at the context.                     *)
GiveUpEarlyOnly(c) ==
  /\ call[c] = "enqueue"
  /\ ctxDone[c]
  /\ call' = [call EXCEPT ![c] = "gone"]
  /\ UNCHANGED <<clientVars, queue, loop, target, ctxDone, resp, paused, answers, sends, slips>>

GiveUp(c) ==
  /\ call[c] \in {"enqueue", "wait"}
  /\ ctxDone[c]
  /\ call' = [call EXCEPT ![c] = "gone"]
  /\ UNCHANGED <<clientVars, queue, loop, target, ctxDone, resp, paused, answers, sends, slips>>

(* Only while the call lasts does anyone look at its context.               *)
CancelCtx(c) ==
  /\ call[c] \in {"enqueue", "wait"}
  /\ ~ctxDone[c]
  /\ ctxDone' = [ctxDone EXCEPT ![c] = TRUE]
  /\ UNCHANGED <<clientVars, queue, loop, call, target, resp, paused, answers, sends, slips>>

-----------------------------------------------------------------------------
(* sendLoop.                                                                *)

(* Entering the select evaluates abc.sendQueue, then abc.stopCh.            *)
ReadQueueField(l) ==
  /\ loop[l].at = "top"
  /\ loop' = [loop EXCEPT ![l] = LoopAt("half", queueField, 0, NoCaller)]
  /\ UNCHANGED <<clientVars, queue, callerVars, resp, paused, answers, sends, slips>>

ReadStopField(l) ==
  /\ loop[l].at = "half"
  /\ loop' = [loop EXCEPT ![l].at = "select", ![l].stop = stopField]
  /\ UNCHANGED <<clientVars, queue, callerVars, resp, paused, answers, sends, slips>>

TakeMessage(l) ==
  /\ loop[l].at = "select"
  /\ loop[l].queue # 0
  /\ queue[loop[l].queue] # <<>>
  /\ loop' = [loop EXCEPT ![l].at = "check", ![l].job = Head(queue[loop[l].queue])]
  /\ queue' = [queue EXCEPT ![loop[l].queue] = Tail(@)]
  /\ UNCHANGED <<clientVars, callerVars, resp, paused, answers, sends, slips>>

ExitLoop(l) ==
  /\ loop[l].at = "select"
  /\ \/ loop[l].stop # 0 /\ stopClosed[loop[l].stop]
     \/ startCtx[l]
  /\ loop' = [loop EXCEPT ![l] = LoopAt("exited", 0, 0, NoCaller)]
  /\ UNCHANGED <<clientVars, queue, callerVars, resp, paused, answers, sends, slips>>

-----------------------------------------------------------------------------
(* processSend.                                                             *)

(* Variant: the pause is only looked at by the retry.                       *)
VerdictIgnoresPause == {"send", "delay", "later", "block"}

(* BeforeSend: allowed at once, allowed after a delay, blocked for a while  *)
(* or blocked outright; a paused AntiBan blocks outright.                   *)
Verdict == IF paused THEN {"block"} ELSE {"send", "delay", "later", "block"}

(* Variants with a plausible bug, against which the properties are tried.   *)

(* The loop forgets to answer a message it refuses.                         *)
AnswerLost(l, result) ==
  /\ loop' = [loop EXCEPT ![l] = LoopAt("top", 0, 0, NoCaller)]
  /\ answers' = IF result = "refused" THEN answers
                ELSE [answers EXCEPT ![loop[l].job] = Append(@, result)]
  /\ resp' = IF result = "refused" THEN resp
             ELSE [resp EXCEPT ![loop[l].job] = Append(@, result)]

(* After a failed send the loop tries the same message again.               *)
AnswerRetries(l, result) ==
  /\ resp[loop[l].job] = <<>>
  /\ resp' = [resp EXCEPT ![loop[l].job] = Append(@, result)]
  /\ answers' = [answers EXCEPT ![loop[l].job] = Append(@, result)]
  /\ loop' = [loop EXCEPT ![l] = IF result = "failed"
                                  THEN [@ EXCEPT !.at = "check"]
                                  ELSE LoopAt("top", 0, 0, NoCaller)]

(* pm.respCh <- result, and back to the select.                             *)
Answer(l, result) ==
  /\ resp[loop[l].job] = <<>>
  /\ resp' = [resp EXCEPT ![loop[l].job] = Append(@, result)]
  /\ answers' = [answers EXCEPT ![loop[l].job] = Append(@, result)]
  /\ loop' = [loop EXCEPT ![l] = LoopAt("top", 0, 0, NoCaller)]

Check(l) ==
  /\ loop[l].at = "check"
  /\ \/ /\ "block" \in Verdict
        /\ Answer(l, "refused")
     \/ /\ \E v \in Verdict \ {"block"} : loop' = [loop EXCEPT ![l].at = v]
        /\ UNCHANGED <<resp, answers>>
  /\ UNCHANGED <<clientVars, queue, callerVars, paused, sends, slips>>

(* time.Sleep(delay) of a blocked message: nothing interrupts it.           *)
Wake(l) ==
  /\ loop[l].at = "later"
  /\ loop' = [loop EXCEPT ![l].at = "recheck"]
  /\ UNCHANGED <<clientVars, queue, callerVars, resp, paused, answers, sends, slips>>

(* The second BeforeSend is the last: blocked again, for whatever reason.   *)
Recheck(l) ==
  /\ loop[l].at = "recheck"
  /\ \/ /\ Verdict \cap {"block", "later"} # {}
        /\ Answer(l, "refused")
     \/ /\ \E v \in Verdict \cap {"send", "delay"} : loop' = [loop EXCEPT ![l].at = v]
        /\ UNCHANGED <<resp, answers>>
  /\ UNCHANGED <<clientVars, queue, callerVars, paused, sends, slips>>

DelayOver(l) ==
  /\ loop[l].at = "delay"
  /\ loop' = [loop EXCEPT ![l].at = "send"]
  /\ UNCHANGED <<clientVars, queue, callerVars, resp, paused, answers, sends, slips>>

CancelledInDelay(l) ==
  /\ loop[l].at = "delay"
  /\ ctxDone[loop[l].job]
  /\ Answer(l, "refused")
  /\ UNCHANGED <<clientVars, queue, callerVars, paused, sends, slips>>

(* WAClient.SendMessage carried the message.  An answer "ok" goes with it   *)
(* (AfterSend), unless the acknowledgement is lost or late: then whatsmeow  *)
(* reports an error for a message that did go out (AfterSendFailed).        *)
SendDone(l, result) ==
  /\ loop[l].at = "send"
  /\ Answer(l, result)
  /\ sends' = [sends EXCEPT ![loop[l].job] = @ + 1]
  /\ slips' = IF paused THEN slips + 1 ELSE slips
  /\ UNCHANGED <<clientVars, queue, callerVars, paused>>

SendFails(l) ==
  /\ loop[l].at = "send"
  /\ Answer(l, "failed")
  /\ UNCHANGED <<clientVars, queue, callerVars, paused, sends, slips>>

-----------------------------------------------------------------------------
Pause ==
  /\ ~paused
  /\ paused' = TRUE
  /\ slips' = 0
  /\ UNCHANGED <<clientVars, queue, loop, callerVars, resp, answers, sends>>

Resume ==
  /\ paused
  /\ paused' = FALSE
  /\ UNCHANGED <<clientVars, queue, loop, callerVars, resp, answers, sends, slips>>

Init ==
  /\ started = FALSE /\ starting = FALSE
  /\ queueField = 0 /\ stopField = 0
  /\ queue = [g \in Loops |-> <<>>]
  /\ stopClosed = [g \in Loops |-> FALSE]
  /\ startCtx = [g \in Loops |-> FALSE]
  /\ smStopped = FALSE /\ crashed = FALSE
  /\ loop = [l \in Loops |-> LoopAt("none", 0, 0, NoCaller)]
  /\ call = [c \in Caller |-> "idle"]
  /\ target = [c \in Caller |-> 0]
  /\ ctxDone = [c \in Caller |-> FALSE]
  /\ resp = [c \in Caller |-> <<>>]
  /\ paused = FALSE
  /\ answers = [c \in Caller |-> <<>>]
  /\ sends = [c \in Caller |-> 0]
  /\ slips = 0

SendMessage(c) ==
  CallSendMessage(c) \/ Enqueue(c) \/ Receive(c) \/ GiveUp(c) \/ CancelCtx(c)

ProcessSend(l) ==
  \/ Check(l) \/ Wake(l) \/ Recheck(l) \/ DelayOver(l) \/ CancelledInDelay(l)
  \/ SendDone(l, "ok") \/ SendDone(l, "failed") \/ SendFails(l)

SendLoop(l) ==
  ReadQueueField(l) \/ ReadStopField(l) \/ TakeMessage(l) \/ ExitLoop(l) \/ ProcessSend(l)

Next ==
  \/ /\ ~crashed
     /\ \/ StartMakesQueue \/ StartLaunchesLoop \/ Stop \/ Pause \/ Resume
        \/ \E c \in Caller : SendMessage(c)
        \/ \E l \in Loops : SendLoop(l) \/ CancelStartCtx(l)
  \/ crashed /\ UNCHANGED vars

Spec == Init /\ [][Next]_vars

-----------------------------------------------------------------------------
(* A goroutine that can run does run, and a sleep ends.  Of the calls from  *)
(* outside only a Start that has begun is sure to go on.                    *)
Fairness ==
  /\ WF_vars(~crashed /\ StartLaunchesLoop)
  /\ \A l \in Loops : WF_vars(~crashed /\ SendLoop(l))
  /\ \A c \in Caller : WF_vars(~crashed /\ (Enqueue(c) \/ Receive(c) \/ GiveUp(c)))

FairSpec == Spec /\ Fairness

-----------------------------------------------------------------------------
Results == {"ok", "refused", "failed"}
LoopStates ==
  {"none", "top", "half", "select", "check", "later", "recheck", "delay", "send", "exited"}

(* Every variable has its type, and no sendQueue outgrows its capacity.     *)
TypeOK ==
  /\ started \in BOOLEAN /\ starting \in BOOLEAN
  /\ queueField \in Gens /\ stopField \in Gens
  /\ queue \in [Loops -> Seq(Caller)]
  /\ \A g \in Loops : Len(queue[g]) <= QueueCap
  /\ stopClosed \in [Loops -> BOOLEAN] /\ startCtx \in [Loops -> BOOLEAN]
  /\ smStopped \in BOOLEAN /\ crashed \in BOOLEAN
  /\ loop \in [Loops -> [at : LoopStates, queue : Gens, stop : Gens,
                        job : Caller \cup {NoCaller}]]
  /\ call \in [Caller -> {"idle", "enqueue", "wait", "gone"} \cup Results]
  /\ target \in [Caller -> Gens]
  /\ ctxDone \in [Caller -> BOOLEAN]
  /\ resp \in [Caller -> Seq(Results)] /\ answers \in [Caller -> Seq(Results)]
  /\ paused \in BOOLEAN
  /\ sends \in [Caller -> Nat] /\ slips \in Nat

Queued(c) ==
  {p \in Loops \X (1 .. QueueCap) : p[2] <= Len(queue[p[1]]) /\ queue[p[1]][p[2]] = c}
InHand(c) == {l \in Loops : loop[l].job = c}

(* However many loops and restarts there are, a message that SendMessage    *)
(* enqueued is in one queue, in the hands of one loop or answered, and once *)
(* in all: no message is lost, taken twice or answered twice.               *)
Conservation ==
  \A c \in Caller :
    LET places == Cardinality(Queued(c)) + Cardinality(InHand(c)) + Len(answers[c])
    IN  /\ call[c] \in {"idle", "enqueue"} => places = 0
        /\ call[c] \in {"wait"} \cup Results => places = 1
        /\ call[c] = "gone" => places <= 1

(* SendMessage tells the truth: success means that whatsmeow carried the    *)
(* message exactly once, and a refusal by the anti-ban pipeline that it     *)
(* never did.                                                               *)
HonestReply ==
  \A c \in Caller :
    /\ sends[c] <= 1
    /\ call[c] = "ok" => sends[c] = 1
    /\ call[c] = "refused" => sends[c] = 0

(* Pause does not reach a message whose BeforeSend is already past, but     *)
(* each loop has at most one such message: after a Pause no more messages   *)
(* go out than loops were launched.                                         *)
BoundedSlip == paused => slips <= Cardinality({l \in Loops : loop[l].at # "none"})

(* wrapper.go:97, "Stop shuts down the send queue, saves state, and stops   *)
(* auto-save": a call of Stop returns, it does not panic.                   *)
StopReturns == ~crashed

(* A caller whose context ends is let go, wherever its SendMessage is.      *)
CancelFrees ==
  \A c \in Caller :
    (ctxDone[c] /\ call[c] \in {"enqueue", "wait"})
      ~> (call[c] \notin {"enqueue", "wait"} \/ crashed)

(* A message on the current queue is answered unless the client is stopped  *)
(* or the context of its Start is cancelled: after a restart too, whichever *)
(* of the old and the new loop takes it.                                    *)
Answered ==
  \A c \in Caller :
    (call[c] = "wait" /\ started /\ target[c] = queueField)
      ~> (call[c] # "wait" \/ ~started \/ startCtx[queueField])

(* A client that is stopped for good ends its loop, whatever the loop is    *)
(* doing: waiting, asleep with a blocked message, delaying or sending.      *)
(* This is about the first Stop; a second one ends the process instead.     *)
StopEndsLoops ==
  <>[](~started) =>
    <>(crashed \/ [](\A l \in Loops : loop[l].at \in {"none", "exited"}))

-----------------------------------------------------------------------------
(* The mapping to SendService.                                              *)
Fate(c) ==
  IF answers[c] # <<>> THEN answers[c][1]
  ELSE IF Queued(c) # {} \/ InHand(c) # {} THEN "pending"
  ELSE "none"

ReplyOf(c) == IF call[c] \in {"idle", "enqueue", "wait"} THEN "none" ELSE call[c]

Service == INSTANCE SendService WITH
  fate <- [c \in Caller |-> Fate(c)],
  reply <- [c \in Caller |-> ReplyOf(c)]

(* Each SendMessage is submitted once, decided once and told its own fate,  *)
(* also when two loops share a queue after a restart.                       *)
ImplementsSendService == Service!Spec
=============================================================================
