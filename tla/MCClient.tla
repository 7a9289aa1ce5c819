------------------------------ MODULE MCClient ------------------------------
(* What the goroutines of AntiBanClient must bring about, for TLC: those of *)
(* the send queue and those of the state file, which share no state, side   *)
(* by side.  One of the two is chosen at the start and runs alone.          *)
EXTENDS SendQueue, Persistence

VARIABLE part

parts == <<part, vars, persistVars>>

Queue(A) == part = "queue" /\ A /\ UNCHANGED <<part, persistVars>>
StateFile(A) == part = "file" /\ A /\ UNCHANGED <<part, vars>>

ClientInit == part \in {"queue", "file"} /\ Init /\ PersistInit
ClientNext == Queue(Next) \/ StateFile(PersistNext)

(* A goroutine that can run does run, a sleep ends and the ticker of the    *)
(* auto-save ticks.  Nobody has to call Stop, no select has to prefer one   *)
(* of its cases, no write has to succeed, and a process that ended need not *)
(* come back.                                                               *)
ClientSpec ==
  /\ ClientInit /\ [][ClientNext]_parts
  /\ WF_parts(Queue(~crashed /\ StartLaunchesLoop))
  /\ \A l \in Loops : WF_parts(Queue(~crashed /\ SendLoop(l)))
  /\ \A c \in Caller : WF_parts(Queue(~crashed /\ (Enqueue(c) \/ Receive(c) \/ GiveUp(c))))
  /\ WF_parts(StateFile(Tick)) /\ WF_parts(StateFile(AutoSave)) /\ WF_parts(StateFile(Flush))
  /\ WF_parts(StateFile(StopFlush))
  /\ \A s \in Saver : WF_parts(StateFile(SaveState(s)))
=============================================================================
