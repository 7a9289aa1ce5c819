----------------------------- MODULE ProxyTicker ----------------------------
(***************************************************************************)
(* StartRotateEvery and Stop of proxy_rotator.go and the goroutines that   *)
(* rotate.  A goroutine evaluates pr.ticker.C anew in every round, without *)
(* the mutex; with pr.ticker = nil that is a panic, which ends the         *)
(* process, as does the second close of stopCh.                            *)
(*                                                                         *)
(* A ticker is its number.  Stopping one leaves a tick already in its      *)
(* channel where it is.  What Rotate does is in ProxyRotator.              *)
(***************************************************************************)
EXTENDS Integers, FiniteSets

CONSTANT MaxTickers \* bound: calls of StartRotateEvery

ASSUME TickerAssumption == MaxTickers \in Nat

Rotor == 1 .. MaxTickers

VARIABLES
  ticker,   \* pr.ticker, 0 = nil
  made,     \* tickers made, one per goroutine
  ticked,   \* tickers with a tick in their channel
  closed,   \* stopCh is closed
  rotor,    \* per goroutine: where it is and the ticker it waits on
  panicked, \* a panic has ended the process
  hasty,    \* history: Stop was called twice, or while a goroutine was not parked
  late      \* history: rotations since Stop, up to a bound; -1 while it runs

tickerVars == <<ticker, made, ticked, closed, rotor, panicked, hasty, late>>

At(g, where) == rotor[g].at = where
Move(g, where) == rotor' = [rotor EXCEPT ![g].at = where]

(* A goroutine that is asleep in select with nothing to take from a ticker. *)
Parked(g) == At(g, "select") /\ rotor[g].on \notin ticked

StartRotateEvery ==
  /\ made < MaxTickers
  /\ made' = made + 1
  /\ ticker' = made'
  /\ Move(made', "evaluate")
  /\ late' = -1
  /\ UNCHANGED <<ticked, closed, panicked, hasty>>

Hasty == closed \/ \E g \in Rotor : ~(At(g, "none") \/ At(g, "done") \/ Parked(g))

Stop ==
  /\ ticker' = 0
  /\ panicked' = closed
  /\ closed' = TRUE
  /\ hasty' = (hasty \/ Hasty)
  /\ late' = IF late < 0 THEN 0 ELSE late
  /\ UNCHANGED <<made, ticked, rotor>>

Ticks ==
  /\ ticker # 0
  /\ ticked' = ticked \cup {ticker}
  /\ UNCHANGED <<ticker, made, closed, rotor, panicked, hasty, late>>

(* select evaluates its channels.                                           *)
Evaluate(g) ==
  /\ At(g, "evaluate")
  /\ IF ticker = 0
     THEN panicked' = TRUE /\ UNCHANGED rotor
     ELSE rotor' = [rotor EXCEPT ![g] = [at |-> "select", on |-> ticker]] /\ UNCHANGED panicked
  /\ UNCHANGED <<ticker, made, ticked, closed, hasty, late>>

TakeTick(g) ==
  /\ At(g, "select") /\ rotor[g].on \in ticked
  /\ ticked' = ticked \ {rotor[g].on}
  /\ Move(g, "rotate")
  /\ UNCHANGED <<ticker, made, closed, panicked, hasty, late>>

(* Variant: the return is forgotten.                                        *)
TakeStopGoesOn(g) ==
  /\ At(g, "select") /\ closed
  /\ Move(g, "evaluate")
  /\ UNCHANGED <<ticker, made, ticked, closed, panicked, hasty, late>>

(* Variant: stopCh is looked at only when the ticker fires.                 *)
TakeStopOnTick(g) ==
  /\ At(g, "select") /\ closed /\ rotor[g].on \in ticked
  /\ Move(g, "done")
  /\ UNCHANGED <<ticker, made, ticked, closed, panicked, hasty, late>>

TakeStop(g) ==
  /\ At(g, "select") /\ closed
  /\ Move(g, "done")
  /\ UNCHANGED <<ticker, made, ticked, closed, panicked, hasty, late>>

Rotates(g) ==
  /\ At(g, "rotate")
  /\ Move(g, "evaluate")
  /\ late' = IF late >= 0 /\ late <= MaxTickers THEN late + 1 ELSE late
  /\ UNCHANGED <<ticker, made, ticked, closed, panicked, hasty>>

TickerInit ==
  /\ ticker = 0 /\ made = 0 /\ ticked = {}
  /\ closed = FALSE /\ panicked = FALSE /\ hasty = FALSE /\ late = -1
  /\ rotor = [g \in Rotor |-> [at |-> "none", on |-> 0]]

RotorStep(g) == Evaluate(g) \/ TakeTick(g) \/ TakeStop(g) \/ Rotates(g)

TickerNext ==
  /\ ~panicked
  /\ \/ StartRotateEvery \/ Stop \/ Ticks
     \/ \E g \in Rotor : RotorStep(g)

TickerSpec == TickerInit /\ [][TickerNext]_tickerVars

-----------------------------------------------------------------------------
(* When Stop is safe: the process survives if Stop is called once and every *)
(* goroutine is parked in select then.  (Otherwise the nil ticker or the    *)
(* closed channel may end it.)                                              *)
PanicNeedsHaste == panicked => hasty

(* Stop silences the rotation: a goroutine changes the proxy at most once   *)
(* after it, with the tick that it had already taken or found.              *)
QuietAfterStop == late <= made

(* After Stop the rotation falls silent; the process survives a Stop that   *)
(* is not hasty, and may end in a panic after one that is.                  *)
StopIsSafe == PanicNeedsHaste /\ QuietAfterStop

(* No goroutine outlives Stop: all of them return, unless a panic comes     *)
(* first.                                                                   *)
RotorsEnd == closed ~> (panicked \/ \A g \in Rotor : At(g, "none") \/ At(g, "done"))
=============================================================================
