---------------------------- MODULE TimelockLift ----------------------------
(***************************************************************************)
(* The goroutines autoLift of timelock_guard.go.  Each error 463 starts    *)
(* one; it loads the generation when it gets to run, sleeps, compares the  *)
(* generation without the mutex and announces the end of the lock under    *)
(* the mutex if the lock is over.                                          *)
(*                                                                         *)
(* Generations are only compared with the current one, so a goroutine      *)
(* keeps whether the one it loaded still is.  Its wake-up comes after the  *)
(* instant blockedUntil when it slept for the duration of the newest       *)
(* error, which makes now.After(blockedUntil) true once locked = 0.        *)
(***************************************************************************)
EXTENDS TimelockGuard

CONSTANTS
  Lifter,   \* goroutines that may run at a time
  MaxErrors \* bound: errors 463

ASSUME LifterAssumption == MaxErrors \in Nat

VARIABLES
  lifter,   \* per goroutine: where it is
  errors,   \* errors 463 so far
  awaited,  \* history: the last error has been neither announced as over nor lifted
  spurious, \* history: an end was announced that nobody awaited
  overtaken \* history: the generation changed under a goroutine that had yet to
            \* load it, or had compared it and not yet taken the mutex

liftVars == <<timelockVars, lifter, errors, awaited, spurious, overtaken>>

NoLifter == [at |-> "none", left |-> 0, same |-> FALSE]

(* generation.Add(1), as the goroutines notice it.                          *)
NewGeneration == [g \in Lifter |-> [lifter[g] EXCEPT !.same = FALSE]]

Overtakes == overtaken' = (overtaken \/ \E g \in Lifter : lifter[g].at \in {"started", "checked"})

(* Variant: the goroutine is started before the generation is counted up,   *)
(* and has loaded it already.                                               *)
ErrorLate(g) ==
  /\ errors < MaxErrors /\ lifter[g].at = "none"
  /\ errors' = errors + 1
  /\ Record463Error
  /\ lifter' = [NewGeneration EXCEPT
                  ![g] = [NoLifter EXCEPT !.at = "asleep", !.left = BlockDuration]]
  /\ awaited' = TRUE
  /\ Overtakes
  /\ UNCHANGED spurious

(* Record463Error, called for a stream error.                               *)
Error(g) ==
  /\ errors < MaxErrors /\ lifter[g].at = "none"
  /\ errors' = errors + 1
  /\ Record463Error
  /\ lifter' = [NewGeneration EXCEPT ![g] = [NoLifter EXCEPT !.at = "started"]]
  /\ awaited' = TRUE
  /\ Overtakes
  /\ UNCHANGED spurious

(* Lift and Reset.                                                          *)
Unlock ==
  /\ Lift \/ TimelockReset
  /\ lifter' = NewGeneration
  /\ awaited' = FALSE
  /\ Overtakes
  /\ UNCHANGED <<errors, spurious>>

Loads(g) ==
  /\ lifter[g].at = "started"
  /\ lifter' = [lifter EXCEPT ![g].at = "asleep", ![g].left = BlockDuration, ![g].same = TRUE]
  /\ UNCHANGED <<timelockVars, errors, awaited, spurious, overtaken>>

(* Variant: the generation is not compared.                                 *)
WakesBlindly(g) ==
  /\ lifter[g].at = "asleep" /\ lifter[g].left = 0
  /\ lifter' = [lifter EXCEPT ![g].at = "checked"]
  /\ UNCHANGED <<timelockVars, errors, awaited, spurious, overtaken>>

Wakens(g) ==
  /\ lifter[g].at = "asleep" /\ lifter[g].left = 0
  /\ lifter' = IF lifter[g].same THEN [lifter EXCEPT ![g].at = "checked"]
               ELSE [lifter EXCEPT ![g] = NoLifter]
  /\ UNCHANGED <<timelockVars, errors, awaited, spurious, overtaken>>

(* The part under the mutex; the callback is started in a goroutine.        *)
Announces(g) ==
  /\ lifter[g].at = "checked"
  /\ IF locked = 0
     THEN /\ awaited' = FALSE
          /\ spurious' = (spurious \/ ~awaited)
     ELSE UNCHANGED <<awaited, spurious>>
  /\ lifter' = [lifter EXCEPT ![g] = NoLifter]
  /\ UNCHANGED <<timelockVars, errors, overtaken>>

LiftTick ==
  /\ TimelockTick
  /\ lifter' = [g \in Lifter |-> [lifter[g] EXCEPT !.left = IF @ > 0 THEN @ - 1 ELSE 0]]
  /\ UNCHANGED <<errors, awaited, spurious, overtaken>>

LiftInit ==
  /\ TimelockInit
  /\ lifter = [g \in Lifter |-> NoLifter]
  /\ errors = 0 /\ awaited = FALSE /\ spurious = FALSE /\ overtaken = FALSE

LifterStep(g) == Loads(g) \/ Wakens(g) \/ Announces(g)

LiftNext ==
  \/ \E g \in Lifter : Error(g) \/ LifterStep(g)
  \/ Unlock \/ LiftTick

LiftSpec == LiftInit /\ [][LiftNext]_liftVars

-----------------------------------------------------------------------------
(* The end of a lock is announced once, and not after a Lift, unless the    *)
(* generation changed under a goroutine before it loaded it or between its  *)
(* comparison and the mutex: those two gaps are the only ones.              *)
NoSpuriousLift == spurious => overtaken

(* Renewed errors never swallow the announcement: once errors cease, the    *)
(* end of the last lock is announced (or the lock was lifted by hand).      *)
LiftAnnounced == awaited ~> ~awaited
=============================================================================
