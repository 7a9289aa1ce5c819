---------------------------- MODULE EventsProofs ----------------------------
(***************************************************************************)
(* What whatsmeow's events do.  Hysteresis of the health monitor, for      *)
(* every AutoPauseRiskLevel, and agreement of AntiBan.isPaused with it for *)
(* the levels 40..80, for any number of event handlers.  The websocket is  *)
(* brought back while the program wants it, stays away after a Disconnect, *)
(* and no retried message waits for an answer that nobody can give, for    *)
(* any number of sockets, autoReconnect goroutines and requests.           *)
(***************************************************************************)
EXTENDS PauseControl, Reconnection, Requests, TLAPS

-----------------------------------------------------------------------------
(* The score after an event is an integer of at most 100.                   *)
LEMMA ScoreAfterEvent ==
  ASSUME score \in Int, idle \in 0 .. MaxIdle, NEW w \in Int
  PROVE  /\ Clamp(decay(score, idle) + w) \in Int
         /\ Clamp(decay(score, idle) + w) <= 100
<1>1. idle \in Int
  BY HealthAssumption
<1>2. 5 * idle \in Int /\ 2 * idle \in Int
  BY <1>1
<1>3. decay(score, idle) \in Int
  BY <1>1, <1>2 DEF decay
<1> QED BY <1>3 DEF Clamp

(* Every weight is an integer.                                              *)
LEMMA WeightType == \A kind \in EventKind : Weight[kind] \in Int
BY DEF EventKind, Weight

(* What checkPause leaves behind for the score it was given.                *)
LEMMA CheckPauseDecides ==
  ASSUME NEW s \in Int, pauseTriggered \in BOOLEAN, checkPause(s)
  PROVE  /\ pauseTriggered' \in BOOLEAN
         /\ pauseTriggered' => 2 * s >= AutoPauseRiskLevel
         /\ ~pauseTriggered' => s < AutoPauseRiskLevel
<1>1. Triggers(s) => 2 * s >= AutoPauseRiskLevel
  BY HealthAssumption DEF Triggers
<1>2. Lifts(s) => s < AutoPauseRiskLevel
  BY HealthAssumption DEF Lifts
<1>3. ~Triggers(s) => s < AutoPauseRiskLevel
  BY HealthAssumption DEF Triggers
<1>4. ~Lifts(s) => 2 * s >= AutoPauseRiskLevel
  BY HealthAssumption DEF Lifts
<1>5. CASE Triggers(s) /\ pauseTriggered' = TRUE
  BY <1>1, <1>5, Zenon
<1>6. CASE Lifts(s) /\ pauseTriggered' = FALSE
  BY <1>2, <1>6, Zenon
<1>7. CASE /\ IF pauseTriggered THEN ~Lifts(s) ELSE ~Triggers(s)
           /\ pauseTriggered' = pauseTriggered
  BY <1>3, <1>4, <1>7, Zenon
<1> QED BY <1>5, <1>6, <1>7, Zenon DEF checkPause

(* The risk level of a score is one of the four.                            *)
LEMMA RiskLevelType == \A s \in Int : getRiskLevel(s) \in RiskLevel
BY DEF getRiskLevel, RiskLevel

(* checkPause starts at most one callback.                                  *)
LEMMA CheckPauseType ==
  ASSUME NEW s \in Int, HealthTypeOK, checkPause(s)
  PROVE  /\ hmPaused' \in BOOLEAN
         /\ callbacks' \in [RiskLevel -> Nat]
<1>1. getRiskLevel(s) \in RiskLevel
  BY RiskLevelType
<1>2. callbacks \in [RiskLevel -> Nat] /\ hmPaused \in BOOLEAN
  BY Zenon DEF HealthTypeOK
<1>3. CASE /\ hmPaused' \in BOOLEAN
           /\ StartCallback(getRiskLevel(s))
  BY <1>1, <1>2, <1>3 DEF StartCallback
<1>4. CASE UNCHANGED <<hmPaused, callbacks>>
  BY <1>2, <1>4
<1> QED BY <1>3, <1>4, Zenon DEF checkPause

-----------------------------------------------------------------------------
HealthInv == HealthTypeOK /\ Hysteresis

(* A Record method preserves the monitor's invariant.                       *)
LEMMA RecordPreserves ==
  ASSUME HealthInv, NEW kind \in EventKind, Record(kind)
  PROVE  HealthInv'
<1> DEFINE s == Clamp(decay(score, idle) + Weight[kind])
<1>1. score' = s /\ idle' = 0 /\ checkPause(s)
  BY DEF Record, scoreEvent
<1>2. s \in Int /\ s <= 100
  BY ScoreAfterEvent, WeightType DEF HealthInv, HealthTypeOK
<1> HIDE DEF s
<1>3. /\ pauseTriggered' \in BOOLEAN
      /\ pauseTriggered' => 2 * s >= AutoPauseRiskLevel
      /\ ~pauseTriggered' => s < AutoPauseRiskLevel
  BY <1>1, <1>2, CheckPauseDecides DEF HealthInv, HealthTypeOK
<1>4. hmPaused' \in BOOLEAN /\ callbacks' \in [RiskLevel -> Nat]
  BY <1>1, <1>2, CheckPauseType DEF HealthInv
<1>5. idle' \in 0 .. MaxIdle
  BY <1>1, HealthAssumption
<1>6. Hysteresis'
  BY <1>1, <1>3 DEF Hysteresis
<1> QED BY <1>1, <1>2, <1>3, <1>4, <1>5, <1>6 DEF HealthInv, HealthTypeOK

(* The invariant holds of a new monitor.                                    *)
LEMMA HealthInitInv == HealthInit => HealthInv
<1> SUFFICES ASSUME HealthInit PROVE HealthInv
  OBVIOUS
<1>1. /\ score \in Int /\ score <= 100 /\ score < AutoPauseRiskLevel
      /\ idle \in 0 .. MaxIdle
      /\ callbacks \in [RiskLevel -> Nat]
  BY HealthAssumption DEF HealthInit
<1>2. pauseTriggered = FALSE /\ hmPaused = FALSE
  BY DEF HealthInit
<1> QED BY <1>1, <1>2, Zenon DEF HealthInv, HealthTypeOK, Hysteresis

(* Time and finished callbacks do not disturb it.                           *)
LEMMA QuietStepsPreserve ==
  ASSUME HealthInv, Minute \/ \E level \in RiskLevel : CallbackDone(level)
  PROVE  HealthInv'
<1>1. CASE Minute
  BY <1>1, HealthAssumption DEF Minute, HealthInv, HealthTypeOK, Hysteresis
<1>2. ASSUME NEW level \in RiskLevel, CallbackDone(level)
      PROVE  HealthInv'
  BY <1>2 DEF CallbackDone, HealthInv, HealthTypeOK, Hysteresis
<1> QED BY <1>1, <1>2

(* Nor do the calls of the embedding program.                               *)
LEMMA OverridesPreserve ==
  ASSUME HealthInv, Reset \/ \E paused \in BOOLEAN : SetPaused(paused)
  PROVE  HealthInv'
<1>1. ASSUME NEW paused \in BOOLEAN, SetPaused(paused)
      PROVE  HealthInv'
  BY <1>1 DEF SetPaused, HealthInv, HealthTypeOK, Hysteresis
<1>2. CASE Reset
  <2>1. /\ score' \in Int /\ score' <= 100 /\ score' < AutoPauseRiskLevel
        /\ idle' \in 0 .. MaxIdle
    BY <1>2, HealthAssumption DEF Reset
  <2>2. pauseTriggered' = FALSE /\ hmPaused' = FALSE /\ callbacks' = callbacks
    BY <1>2 DEF Reset
  <2>3. callbacks' \in [RiskLevel -> Nat]
    BY <2>2 DEF HealthInv, HealthTypeOK
  <2> QED BY <2>1, <2>2, <2>3, Zenon DEF HealthInv, HealthTypeOK, Hysteresis
<1> QED BY <1>1, <1>2

-----------------------------------------------------------------------------
(* What the callback will write, seen from the moment it starts: with a     *)
(* level in 40..80 the risk level agrees with the decision of checkPause.   *)
LEMMA RiskLevelAgrees ==
  ASSUME AutoPauseRiskLevel \in 40 .. 80, NEW s \in Int
  PROVE  /\ Triggers(s) => PausesOn(getRiskLevel(s))
         /\ Lifts(s) => ~PausesOn(getRiskLevel(s))
<1>1. s >= 40 => getRiskLevel(s) \in {"critical", "high"}
  BY DEF getRiskLevel
<1>2. s < 40 => getRiskLevel(s) \in {"medium", "low"}
  BY DEF getRiskLevel
<1>3. Triggers(s) => s >= 40
  BY DEF Triggers
<1>4. Lifts(s) => s < 40
  BY DEF Lifts
<1> QED BY <1>1, <1>2, <1>3, <1>4 DEF PausesOn

(* The strengthening: while lone holds, either no callback is in flight and *)
(* the flag agrees, or exactly one is and it will write what agrees.        *)
Only(level) == [l \in RiskLevel |-> IF l = level THEN 1 ELSE 0]

Agreement ==
  lone => \/ InFlight = 0 /\ isPaused = pauseTriggered
          \/ \E level \in RiskLevel : /\ callbacks = Only(level)
                                      /\ PausesOn(level) <=> pauseTriggered

PauseInv == TypeOK /\ Hysteresis /\ Agreement

(* No callback in flight means none of any level.                           *)
LEMMA NoneInFlight ==
  ASSUME callbacks \in [RiskLevel -> Nat], InFlight = 0
  PROVE  \A level \in RiskLevel : callbacks[level] = 0
BY DEF InFlight, RiskLevel

(* A callback that starts while none is in flight is the only one.          *)
LEMMA StartsAlone ==
  ASSUME callbacks \in [RiskLevel -> Nat], InFlight = 0,
         NEW level \in RiskLevel, StartCallback(level)
  PROVE  callbacks' = Only(level)
<1>1. \A l \in RiskLevel : callbacks[l] = 0
  BY NoneInFlight
<1>2. callbacks' = [l \in RiskLevel |-> IF l = level THEN callbacks[l] + 1
                                       ELSE callbacks[l]]
  BY DEF StartCallback
<1>3. \A l \in RiskLevel : (IF l = level THEN callbacks[l] + 1 ELSE callbacks[l])
                           = (IF l = level THEN 1 ELSE 0)
  BY <1>1
<1> QED BY <1>2, <1>3 DEF Only

(* When the only callback in flight ends, none is left.                     *)
LEMMA EndsAlone ==
  ASSUME NEW only \in RiskLevel, callbacks = Only(only),
         NEW level \in RiskLevel, CallbackDone(level)
  PROVE  level = only /\ InFlight' = 0
<1>1. level = only
  BY DEF CallbackDone, Only
<1>2. callbacks' = [l \in RiskLevel |-> 0]
  BY <1>1 DEF CallbackDone, Only
<1>3. InFlight' = 0
  BY <1>2 DEF InFlight, RiskLevel
<1> QED BY <1>1, <1>3

(* A health event keeps the agreement: it starts no callback, or the only   *)
(* one in flight, or gives up lone.                                         *)
LEMMA RecordAgrees ==
  ASSUME AutoPauseRiskLevel \in 40 .. 80, TypeOK, Agreement,
         NEW kind \in EventKind, Record(kind), NoteCallbacks,
         UNCHANGED isPaused
  PROVE  Agreement'
<1> DEFINE s == Clamp(decay(score, idle) + Weight[kind])
<1>1. checkPause(s)
  BY DEF Record, scoreEvent
<1>2. s \in Int
  BY ScoreAfterEvent, WeightType DEF TypeOK, HealthTypeOK
<1> HIDE DEF s
<1>3. callbacks \in [RiskLevel -> Nat] /\ getRiskLevel(s) \in RiskLevel
  BY <1>2, RiskLevelType DEF TypeOK, HealthTypeOK
<1>4. CASE UNCHANGED <<pauseTriggered, hmPaused, callbacks>>
  <2>1. callbacks' = callbacks /\ pauseTriggered' = pauseTriggered /\ lone' = lone
    BY <1>4 DEF NoteCallbacks
  <2>2. InFlight' = InFlight
    BY <2>1 DEF InFlight
  <2> QED BY <2>1, <2>2 DEF Agreement
<1>5. CASE StartCallback(getRiskLevel(s)) /\ InFlight = 0
  <2>1. callbacks' = Only(getRiskLevel(s))
    BY <1>3, <1>5, StartsAlone
  <2>2. PausesOn(getRiskLevel(s)) <=> pauseTriggered'
    <3>1. \/ Triggers(s) /\ pauseTriggered' = TRUE
          \/ Lifts(s) /\ pauseTriggered' = FALSE
          \/ callbacks' = callbacks
      BY <1>1, Zenon DEF checkPause
    <3>2. callbacks' # callbacks
      BY <1>3, <1>5, <2>1, NoneInFlight DEF Only
    <3> QED BY <1>2, <3>1, <3>2, RiskLevelAgrees, Zenon
  <2> QED BY <1>3, <2>1, <2>2, Zenon DEF Agreement
<1>6. CASE StartCallback(getRiskLevel(s)) /\ InFlight # 0
  <2>1. callbacks' # callbacks
    BY <1>3, <1>6 DEF StartCallback
  <2>2. ~lone'
    BY <1>6, <2>1 DEF NoteCallbacks
  <2> QED BY <2>2 DEF Agreement
<1> QED BY <1>1, <1>4, <1>5, <1>6, Zenon DEF checkPause

(* The callback that runs alone writes what agrees.                         *)
LEMMA CallbackAgrees ==
  ASSUME TypeOK, Agreement, NEW level \in RiskLevel, RunCallback(level)
  PROVE  Agreement'
<1>1. callbacks \in [RiskLevel -> Nat] /\ pauseTriggered \in BOOLEAN
  BY Zenon DEF TypeOK, HealthTypeOK
<1>2. /\ CallbackDone(level)
      /\ isPaused' = PausesOn(level)
      /\ lone' = lone
      /\ pauseTriggered' = pauseTriggered
  BY DEF RunCallback, CallbackDone
<1>3. InFlight # 0
  <2>1. callbacks[level] # 0
    BY <1>1, <1>2 DEF CallbackDone
  <2> QED BY <1>1, <2>1, NoneInFlight
<1>4. CASE lone
  <2>1. PICK only \in RiskLevel : /\ callbacks = Only(only)
                                  /\ PausesOn(only) <=> pauseTriggered
    BY <1>3, <1>4, Zenon DEF Agreement
  <2>2. level = only /\ InFlight' = 0
    BY <1>2, <2>1, EndsAlone
  <2>3. isPaused' = pauseTriggered'
    BY <1>1, <1>2, <2>1, <2>2, Zenon DEF PausesOn
  <2> QED BY <2>2, <2>3, Zenon DEF Agreement
<1>5. CASE ~lone
  BY <1>2, <1>5, Zenon DEF Agreement
<1> QED BY <1>4, <1>5

(* The calls of a handler are calls.                                        *)
LEMMA HandlerBodyType == HandlerBody \subseteq Seq(Call)
<1>1. \A kind \in EventKind : RecordCall(kind) \in Call
  BY DEF Call, RecordCall
<1>2. {"disconnect", "reconnect", "forbidden", "loggedOut", "timelock"}
        \subseteq EventKind
  BY DEF EventKind, Weight
<1>3. PauseCall \in Call /\ AfterFuncCall \in Call
  BY DEF Call
<1>4. ASSUME NEW ban \in BanType
      PROVE  OnStreamError(ban) \in Seq(Call)
  BY <1>1, <1>2, <1>4 DEF OnStreamError, BanType
<1>5. Disconnected \in Seq(Call) /\ Connected \in Seq(Call)
  BY <1>1, <1>2 DEF Disconnected, Connected
<1>6. TemporaryBan \in Seq(Call)
  BY <1>3, <1>4 DEF TemporaryBan, BanType
<1>7. ASSUME NEW ban \in BanType
      PROVE  StreamError(ban) \in Seq(Call) /\ LoggedOut(ban) \in Seq(Call)
  <2>1. RecordCall("loggedOut") \in Call
    BY <1>1, <1>2
  <2> QED BY <1>4, <2>1 DEF StreamError, LoggedOut
<1> QED BY <1>5, <1>6, <1>7 DEF HandlerBody, BanType

(* A handler that has made its first call has the others left to make.      *)
LEMMA TailType ==
  ASSUME todo \in [Handler -> Seq(Call)], NEW h \in Handler, todo[h] # <<>>,
         todo' = [todo EXCEPT ![h] = Tail(@)]
  PROVE  /\ todo' \in [Handler -> Seq(Call)]
         /\ Head(todo[h]).op = "record" => Head(todo[h]).kind \in EventKind
<1>1. todo[h] \in Seq(Call)
  OBVIOUS
<1>2. Head(todo[h]) \in Call /\ Tail(todo[h]) \in Seq(Call)
  BY <1>1
<1> QED BY <1>1, <1>2 DEF Call, PauseCall, AfterFuncCall

-----------------------------------------------------------------------------
(* Hysteresis needs the monitor's types and that handlers make calls of     *)
(* known kinds, nothing about the pause flag.                               *)
MonitorInv == HealthInv /\ todo \in [Handler -> Seq(Call)]

(* Every step of the composition preserves the monitor's invariant.         *)
LEMMA StepMonitor == MonitorInv /\ [Next]_vars => MonitorInv'
<1> SUFFICES ASSUME MonitorInv, [Next]_vars PROVE MonitorInv'
  OBVIOUS
<1> USE DEF MonitorInv
<1>1. ASSUME NEW h \in Handler, Dispatch(h)
      PROVE  MonitorInv'
  BY <1>1, HandlerBodyType DEF Dispatch, healthVars, HealthInv, HealthTypeOK, Hysteresis
<1>2. ASSUME NEW h \in Handler, RecordStep(h)
      PROVE  MonitorInv'
  <2>1. todo' \in [Handler -> Seq(Call)] /\ Head(todo[h]).kind \in EventKind
    BY <1>2, TailType DEF RecordStep
  <2> QED BY <1>2, <2>1, RecordPreserves DEF RecordStep
<1>3. ASSUME NEW h \in Handler, PauseStep(h) \/ AfterFuncStep(h)
      PROVE  MonitorInv'
  <2>1. todo' \in [Handler -> Seq(Call)]
    BY <1>3, TailType DEF PauseStep, AfterFuncStep
  <2>2. UNCHANGED healthVars
    BY <1>3 DEF PauseStep, AfterFuncStep
  <2> QED BY <2>1, <2>2 DEF healthVars, HealthInv, HealthTypeOK, Hysteresis
<1>4. CASE AfterSendFailed
  <2>1. "failed" \in EventKind
    BY DEF EventKind, Weight
  <2> QED BY <1>4, <2>1, RecordPreserves DEF AfterSendFailed
<1>5. CASE Pause \/ Resume \/ BanExpires
  <2>1. UNCHANGED healthVars /\ todo' = todo
    BY <1>5 DEF Pause, Resume, BanExpires
  <2> QED BY <2>1 DEF healthVars, HealthInv, HealthTypeOK, Hysteresis
<1>6. ASSUME NEW level \in RiskLevel, RunCallback(level)
      PROVE  MonitorInv'
  BY <1>6, QuietStepsPreserve DEF RunCallback
<1>7. CASE ResetHealth \/ OverrideHealth
  BY <1>7, OverridesPreserve DEF ResetHealth, OverrideHealth
<1>8. CASE MinutePasses
  BY <1>8, QuietStepsPreserve DEF MinutePasses
<1>9. CASE UNCHANGED vars
  BY <1>9 DEF vars, healthVars, HealthInv, HealthTypeOK, Hysteresis
<1> QED BY <1>1, <1>2, <1>3, <1>4, <1>5, <1>6, <1>7, <1>8, <1>9 DEF Next

(* The monitor's pause is triggered at AutoPauseRiskLevel and lifted under  *)
(* half of it, and at no other score, for every level, any number of event  *)
(* handlers and whatever Reset and SetPaused do in between.                 *)
THEOREM HealthHysteresis == Spec => []Hysteresis
<1>1. Init => MonitorInv
  BY HealthInitInv DEF Init, MonitorInv
<1>2. MonitorInv => Hysteresis
  BY DEF MonitorInv, HealthInv
<1> QED BY <1>1, <1>2, StepMonitor, PTL DEF Spec

-----------------------------------------------------------------------------
(* The steps that leave the monitor and the flags alone.                    *)
LEMMA FlagsUnchanged ==
  ASSUME PauseInv, UNCHANGED <<score, pauseTriggered, hmPaused, callbacks>>,
         UNCHANGED <<isPaused, lone, held>>, idle' \in 0 .. MaxIdle,
         todo' \in [Handler -> Seq(Call)], banTimers' \in Nat
  PROVE  PauseInv'
<1>1. TypeOK'
  BY DEF PauseInv, TypeOK, HealthTypeOK
<1>2. Hysteresis'
  BY DEF PauseInv, Hysteresis
<1>3. InFlight' = InFlight
  BY DEF InFlight
<1>4. Agreement'
  BY <1>3 DEF PauseInv, Agreement
<1> QED BY <1>1, <1>2, <1>4 DEF PauseInv

(* The steps that write the flag without the monitor: they give up lone.    *)
LEMMA FlagOverridden ==
  ASSUME PauseInv, UNCHANGED healthVars, isPaused' \in BOOLEAN,
         lone' = FALSE, held' \in BOOLEAN,
         todo' \in [Handler -> Seq(Call)], banTimers' \in Nat
  PROVE  PauseInv'
<1>1. TypeOK'
  BY DEF PauseInv, TypeOK, HealthTypeOK, healthVars
<1>2. Hysteresis'
  BY DEF PauseInv, Hysteresis, healthVars
<1>3. Agreement'
  BY Zenon DEF Agreement
<1> QED BY <1>1, <1>2, <1>3 DEF PauseInv

(* A step that records a health event.                                      *)
LEMMA RecordKeepsInv ==
  ASSUME AutoPauseRiskLevel \in 40 .. 80, PauseInv, NEW kind \in EventKind,
         Record(kind), NoteCallbacks, UNCHANGED <<isPaused, banTimers, held>>,
         todo' \in [Handler -> Seq(Call)]
  PROVE  PauseInv'
<1>1. HealthInv'
  BY RecordPreserves DEF PauseInv, TypeOK, HealthInv
<1>2. lone' \in BOOLEAN
  BY DEF NoteCallbacks, PauseInv, TypeOK
<1>3. TypeOK'
  BY <1>1, <1>2 DEF PauseInv, TypeOK, HealthInv
<1>4. Agreement'
  BY RecordAgrees DEF PauseInv
<1> QED BY <1>1, <1>3, <1>4 DEF PauseInv, HealthInv

(* Every step of the composition preserves the invariant.                   *)
LEMMA StepPreserves ==
  ASSUME AutoPauseRiskLevel \in 40 .. 80, PauseInv, [Next]_vars
  PROVE  PauseInv'
<1> USE DEF PauseInv
<1>0. /\ todo \in [Handler -> Seq(Call)] /\ banTimers \in Nat
      /\ idle \in 0 .. MaxIdle
  BY DEF TypeOK, HealthTypeOK
<1>1. ASSUME NEW h \in Handler, Dispatch(h)
      PROVE  PauseInv'
  <2>1. todo' \in [Handler -> Seq(Call)]
    BY <1>0, <1>1, HandlerBodyType DEF Dispatch
  <2> QED BY <1>0, <1>1, <2>1, FlagsUnchanged DEF Dispatch, healthVars
<1>2. ASSUME NEW h \in Handler, RecordStep(h)
      PROVE  PauseInv'
  <2>1. todo' \in [Handler -> Seq(Call)] /\ Head(todo[h]).kind \in EventKind
    BY <1>0, <1>2, TailType DEF RecordStep
  <2> QED BY <1>2, <2>1, RecordKeepsInv DEF RecordStep
<1>3. ASSUME NEW h \in Handler, PauseStep(h)
      PROVE  PauseInv'
  <2>1. todo' \in [Handler -> Seq(Call)]
    BY <1>0, <1>3, TailType DEF PauseStep
  <2> QED BY <1>0, <1>3, <2>1, FlagOverridden DEF PauseStep
<1>4. ASSUME NEW h \in Handler, AfterFuncStep(h)
      PROVE  PauseInv'
  <2>1. todo' \in [Handler -> Seq(Call)]
    BY <1>0, <1>4, TailType DEF AfterFuncStep
  <2>2. banTimers' \in Nat
    BY <1>0, <1>4 DEF AfterFuncStep
  <2> QED BY <1>0, <1>4, <2>1, <2>2, FlagsUnchanged DEF AfterFuncStep, healthVars
<1>5. CASE AfterSendFailed
  <2>1. "failed" \in EventKind
    BY DEF EventKind, Weight
  <2> QED BY <1>0, <1>5, <2>1, RecordKeepsInv DEF AfterSendFailed
<1>6. CASE Pause \/ Resume
  BY <1>0, <1>6, FlagOverridden DEF Pause, Resume
<1>7. CASE BanExpires
  <2>1. banTimers' \in Nat
    BY <1>0, <1>7 DEF BanExpires
  <2> QED BY <1>0, <1>7, <2>1, FlagOverridden DEF BanExpires
<1>8. ASSUME NEW level \in RiskLevel, RunCallback(level)
      PROVE  PauseInv'
  <2>1. CallbackDone(level)
    BY <1>8 DEF RunCallback
  <2>2. HealthInv'
    BY <2>1, QuietStepsPreserve DEF TypeOK, HealthInv
  <2>3. isPaused' \in BOOLEAN
    BY <1>8 DEF RunCallback, PausesOn
  <2>4. TypeOK'
    BY <1>8, <2>2, <2>3 DEF TypeOK, HealthInv, RunCallback
  <2>5. Agreement'
    BY <1>8, CallbackAgrees
  <2> QED BY <2>2, <2>4, <2>5 DEF HealthInv
<1>9. CASE MinutePasses
  <2>1. idle' \in 0 .. MaxIdle
    BY <1>0, <1>9, HealthAssumption DEF MinutePasses, Minute
  <2> QED BY <1>0, <1>9, <2>1, FlagsUnchanged DEF MinutePasses, Minute
<1>10. CASE ResetHealth
  <2>1. HealthInv'
    BY <1>10, OverridesPreserve DEF ResetHealth, TypeOK, HealthInv
  <2>2. UNCHANGED <<isPaused, todo, banTimers, held>> /\ lone' = FALSE
    BY <1>10 DEF ResetHealth
  <2>3. TypeOK'
    BY <2>1, <2>2 DEF TypeOK, HealthInv
  <2>4. Agreement'
    BY <2>2, Zenon DEF Agreement
  <2> QED BY <2>1, <2>3, <2>4 DEF HealthInv
<1>11. CASE OverrideHealth
  <2>1. HealthInv'
    BY <1>11, OverridesPreserve DEF OverrideHealth, TypeOK, HealthInv
  <2>2. /\ UNCHANGED <<isPaused, todo, banTimers, lone, held>>
        /\ UNCHANGED <<pauseTriggered, callbacks>>
    BY <1>11 DEF OverrideHealth, SetPaused
  <2>3. TypeOK'
    BY <2>1, <2>2 DEF TypeOK, HealthInv
  <2>4. InFlight' = InFlight
    BY <2>2 DEF InFlight
  <2>5. Agreement'
    BY <2>2, <2>4 DEF Agreement
  <2> QED BY <2>1, <2>3, <2>5 DEF HealthInv
<1>12. CASE UNCHANGED vars
  BY <1>0, <1>12, FlagsUnchanged DEF vars, healthVars
<1> QED BY <1>1, <1>2, <1>3, <1>4, <1>5, <1>6, <1>7, <1>8, <1>9, <1>10, <1>11, <1>12
  DEF Next

(* While no Pause is in force, messaging is paused exactly while the        *)
(* monitor's pause is triggered, as soon as callbacks that started one at a *)
(* time have run and nobody called Resume or Reset since, for every         *)
(* AutoPauseRiskLevel between the thresholds of High (40) and Critical (80).*)
THEOREM FlagAgrees ==
  ASSUME AutoPauseRiskLevel \in 40 .. 80
  PROVE  Spec => []FlagFollowsHealth
<1>1. Init => PauseInv
  <2> SUFFICES ASSUME Init PROVE PauseInv
    OBVIOUS
  <2>1. HealthInv
    BY HealthInitInv DEF Init
  <2>2. TypeOK
    <3>1. todo \in [Handler -> Seq(Call)] /\ banTimers \in Nat
      BY DEF Init
    <3>2. isPaused \in BOOLEAN /\ lone \in BOOLEAN /\ held \in BOOLEAN
      BY Zenon DEF Init
    <3> QED BY <2>1, <3>1, <3>2 DEF TypeOK, HealthInv
  <2>3. InFlight = 0
    BY DEF Init, HealthInit, InFlight, RiskLevel
  <2>4. Agreement
    BY <2>3, Zenon DEF Init, HealthInit, Agreement
  <2> QED BY <2>1, <2>2, <2>4 DEF PauseInv, HealthInv
<1>2. PauseInv /\ [Next]_vars => PauseInv'
  BY StepPreserves
<1>3. PauseInv => FlagFollowsHealth
  <2> SUFFICES ASSUME PauseInv, InFlight = 0, lone
               PROVE  isPaused = pauseTriggered
    BY Zenon DEF FlagFollowsHealth
  <2>1. ASSUME NEW level \in RiskLevel, callbacks = Only(level)
        PROVE  FALSE
    BY <2>1 DEF InFlight, Only, RiskLevel
  <2> QED BY <2>1, Zenon DEF PauseInv, Agreement
<1> QED BY <1>1, <1>2, <1>3, PTL DEF Spec

-----------------------------------------------------------------------------
ConnTypes ==
  /\ sock \in Socket \cup {NoSocket} /\ open \subseteq Socket
  /\ closing \subseteq [sock : Socket, remote : BOOLEAN]
  /\ keep \in [Socket -> {"none", "idle", "ping", "force", "forced"}]
  /\ dialer \in {"none", "user", "auto", "relogin"}
  /\ expected \in BOOLEAN /\ force \in BOOLEAN
  /\ sleeping \in Nat /\ ready \in Nat
  /\ relogin \in {"none", "disconnect", "connect"}

(* At most the current socket is open, a dial begins without one, and a     *)
(* callback that is still to run belongs to a closed one.                   *)
OneSocket ==
  /\ open \subseteq {sock}
  /\ dialer # "none" => sock = NoSocket
  /\ \A c \in closing : c.sock \notin open

ConnInv == ConnTypes /\ OneSocket

-----------------------------------------------------------------------------
(* The steps of the connection.                                             *)
DialStep == DialFails \/ \E s \in Socket : DialSucceeds(s) \/ DiesUnnoticed(s)

AskStep == Connect \/ Disconnect \/ ResetConnection \/ StreamReplaced
           \/ handleConnectFailure \/ Stream515

ConnStep ==
  \/ ClientStep \/ DialStep \/ AskStep \/ (\E s \in Socket : KeepFails(s)) \/ UNCHANGED connVars

(* A new dial has no socket, and the flags are down.                        *)
LEMMA DialClears ==
  ASSUME ConnInv, NEW who, Dial(who)
  PROVE  /\ sock \notin open /\ open = {} /\ sock' = NoSocket /\ open' = {}
         /\ expected' = FALSE /\ force' = FALSE /\ dialer' = who
  BY DEF Dial, unlockedDisconnect, resetExpectedDisconnect, ConnInv, OneSocket

(* So has a disconnect.                                                     *)
LEMMA DisconnectClears ==
  ASSUME ConnInv, unlockedDisconnect
  PROVE  sock' = NoSocket /\ open' = {}
  BY DEF unlockedDisconnect, ConnInv, OneSocket

(* The end of a dial.                                                       *)
LEMMA DialConn ==
  ASSUME ConnInv, DialStep
  PROVE  ConnInv'
<1>1. CASE DialFails
  BY <1>1 DEF DialFails, ConnInv, ConnTypes, OneSocket, flags
<1>2. ASSUME NEW s \in Socket, DialSucceeds(s) PROVE ConnInv'
  BY <1>2, ConnectionAssumption DEF DialSucceeds, Unused, ConnInv, ConnTypes, OneSocket, flags, autos
<1>3. ASSUME NEW s \in Socket, DiesUnnoticed(s) PROVE ConnInv'
  BY <1>3, ConnectionAssumption DEF DiesUnnoticed, Unused, ConnInv, ConnTypes, OneSocket, flags, autos
<1> QED
  BY <1>1, <1>2, <1>3 DEF DialStep

(* The calls and the stream errors.                                         *)
LEMMA AskConn ==
  ASSUME ConnInv, AskStep
  PROVE  ConnInv'
<1>1. CASE Connect
  BY <1>1, DialClears DEF Connect, ConnInv, ConnTypes, OneSocket, autos
<1>2. CASE Disconnect
  BY <1>2, DisconnectClears DEF Disconnect, expectDisconnect, ConnInv, ConnTypes, OneSocket, autos
<1>3. CASE ResetConnection
  <2>1. closing' \subseteq [sock : Socket, remote : BOOLEAN] /\ \A c \in closing' : c.sock \notin open'
    <3>1. CASE sock \in open
      <4>1. Closure(sock, FALSE) \in [sock : Socket, remote : BOOLEAN] /\ Closure(sock, FALSE).sock = sock
        BY <3>1 DEF Closure, ConnInv, ConnTypes
      <4>2. closing' = closing \cup {Closure(sock, FALSE)} /\ open' = open \ {sock}
        BY <1>3, <3>1 DEF ResetConnection
      <4> QED
        BY <4>1, <4>2 DEF ConnInv, ConnTypes, OneSocket
    <3>2. CASE sock \notin open
      BY <1>3, <3>2 DEF ResetConnection, ConnInv, ConnTypes, OneSocket
    <3> QED
      BY <3>1, <3>2
  <2>2. force' \in BOOLEAN
    BY <1>3 DEF ResetConnection
  <2>3. /\ UNCHANGED <<sock, keep, dialer, expected, sleeping, ready, relogin>>
        /\ open' \subseteq open
    BY <1>3 DEF ResetConnection, autos
  <2> QED
    BY <2>1, <2>2, <2>3 DEF ConnInv, ConnTypes, OneSocket
<1>4. CASE StreamReplaced \/ handleConnectFailure
  BY <1>4 DEF StreamReplaced, handleConnectFailure, expectDisconnect, ConnInv, ConnTypes, OneSocket, autos
<1>5. CASE Stream515
  BY <1>5 DEF Stream515, ConnInv, ConnTypes, OneSocket, autos, flags
<1> QED
  BY <1>1, <1>2, <1>3, <1>4, <1>5 DEF AskStep

(* The goroutines of the client.                                            *)
LEMMA ClientConn ==
  ASSUME ConnInv, ClientStep
  PROVE  ConnInv'
<1>1. CASE AutoCancelled \/ AutoWakes \/ AutoAlreadyConnected
  BY <1>1 DEF AutoCancelled, AutoWakes, AutoAlreadyConnected, ConnInv, ConnTypes, OneSocket, flags
<1>2. CASE AutoConnects
  <2>1. ready' \in Nat /\ sleeping' \in Nat
    BY <1>2 DEF AutoConnects, ConnInv, ConnTypes
  <2> QED
    BY <1>2, <2>1, DialClears DEF AutoConnects, ConnInv, ConnTypes, OneSocket
<1>3. CASE ReloginDisconnects
  BY <1>3, DisconnectClears
  DEF ReloginDisconnects, expectDisconnect, ConnInv, ConnTypes, OneSocket, autos
<1>4. CASE ReloginConnects
  <2>1. CASE sock \in open
    BY <1>4, <2>1 DEF ReloginConnects, ConnInv, ConnTypes, OneSocket, autos, flags
  <2>2. CASE sock \notin open
    BY <1>4, <2>2, DialClears DEF ReloginConnects, ConnInv, ConnTypes, OneSocket, autos
  <2> QED
    BY <2>1, <2>2
<1>5. ASSUME NEW c \in closing, onDisconnect(c) PROVE ConnInv'
  <2>1. sock' \in {sock, NoSocket} /\ (sock' # sock => sock = c.sock)
    BY <1>5 DEF onDisconnect
  <2>2. sleeping' \in Nat /\ ready' = ready
    BY <1>5 DEF onDisconnect, Spawn, autos, ConnInv, ConnTypes
  <2>3. force' \in BOOLEAN
    BY <1>5 DEF onDisconnect, ConnInv, ConnTypes
  <2>4. closing' = closing \ {c} /\ UNCHANGED <<open, keep, dialer, expected, relogin>>
    BY <1>5 DEF onDisconnect
  <2> QED
    BY <2>1, <2>2, <2>3, <2>4 DEF ConnInv, ConnTypes, OneSocket
<1>6. ASSUME NEW s \in Socket, Drop(s) PROVE ConnInv'
  <2>1. Closure(s, TRUE) \in [sock : Socket, remote : BOOLEAN] /\ Closure(s, TRUE).sock = s
    BY DEF Closure
  <2> QED
    BY <1>6, <2>1 DEF Drop, ConnInv, ConnTypes, OneSocket, flags, autos
<1>7. ASSUME NEW s \in Socket, KeepPings(s) \/ KeepGoesOn(s) \/ KeepEnds(s) PROVE ConnInv'
  BY <1>7 DEF KeepPings, KeepGoesOn, KeepEnds, KeepAt, ConnInv, ConnTypes, OneSocket, flags, autos
<1>8. ASSUME NEW s \in Socket, KeepDisconnects(s) PROVE ConnInv'
  BY <1>8, DisconnectClears
  DEF KeepDisconnects, KeepAt, expectDisconnect, ConnInv, ConnTypes, OneSocket, autos
<1>9. ASSUME NEW s \in Socket, KeepReconnects(s) PROVE ConnInv'
  <2>1. sleeping' \in Nat /\ ready' \in Nat
    BY <1>9 DEF KeepReconnects, Spawn, ConnInv, ConnTypes
  <2> QED
    BY <1>9, <2>1 DEF KeepReconnects, KeepAt, resetExpectedDisconnect, ConnInv, ConnTypes, OneSocket
<1> QED
  BY <1>1, <1>2, <1>3, <1>4, <1>5, <1>6, <1>7, <1>8, <1>9 DEF ClientStep, autoReconnect, keepAliveLoop

(* Every step of the connection keeps its one socket.                       *)
LEMMA ConnKeeps ==
  ASSUME ConnInv, ConnStep
  PROVE  ConnInv'
<1>1. ASSUME NEW s \in Socket, KeepFails(s) PROVE ConnInv'
  BY <1>1 DEF KeepFails, KeepAt, ConnInv, ConnTypes, OneSocket, flags, autos
<1>2. CASE UNCHANGED connVars
  BY <1>2 DEF connVars, ConnInv, ConnTypes, OneSocket, flags, autos
<1> QED
  BY <1>1, <1>2, DialConn, AskConn, ClientConn DEF ConnStep

(* It begins with none.                                                     *)
LEMMA ConnStarts == ConnInit => ConnInv
<1>1. ConnInit => expected \in BOOLEAN /\ force \in BOOLEAN
  BY DEF ConnInit
<1>2. ConnInit => /\ sock = NoSocket /\ open = {} /\ closing = {} /\ dialer = "none" /\ relogin = "none"
                  /\ sleeping = 0 /\ ready = 0 /\ keep = [s \in Socket |-> "none"]
  BY DEF ConnInit
<1> QED
  BY <1>1, <1>2 DEF ConnInv, ConnTypes, OneSocket

-----------------------------------------------------------------------------
(* Who is bringing the connection back.                                     *)
Forcing == \E s \in Socket : keep[s] \in {"force", "forced"}

Underway == sleeping > 0 \/ ready > 0 \/ dialer # "none" \/ relogin # "none" \/ Forcing

ReconWord == Reconnecting <=> Underway

(* AutoCount is positive exactly if one of its parts is.                    *)
LEMMA ReconnectingMeans == ConnInv => ReconWord
  BY DEF ConnInv, ConnTypes, ReconWord, Reconnecting, Underway, Forcing, AutoCount

(* While the program wants to be online, a disconnect is expected only in   *)
(* the middle of a relogin or of a forced reconnect, and a socket that was  *)
(* reset will be brought back by its callback or by an autoReconnect that   *)
(* is not cancelled.                                                        *)
ExpectedMidway ==
  (online /\ expected) =>
    /\ sock = NoSocket /\ dialer = "none"
    /\ relogin = "connect" \/ \E s \in Socket : keep[s] = "forced"

ResetsFollowed ==
  \A c \in closing :
    (online /\ c.sock = sock /\ ~c.remote) => force \/ sleeping > 0 \/ ready > 0

NotLost ==
  (online /\ ~abandoned /\ sock \notin open) => Underway \/ \E c \in closing : c.sock = sock

(* After a calm disconnect, it is expected and nobody is reconnecting.      *)
CalmStays == off = "calm" => expected /\ ~Underway

WishTypes == online \in BOOLEAN /\ abandoned \in BOOLEAN /\ off \in {"no", "calm", "racing"}

ReconInv == ConnInv /\ WishTypes /\ ExpectedMidway /\ ResetsFollowed /\ NotLost /\ CalmStays

Wishes == ExpectedMidway /\ ResetsFollowed /\ NotLost /\ CalmStays

(* The end of a dial.                                                       *)
LEMMA WishesDialEnds ==
  ASSUME ReconInv, DialEnds
  PROVE  WishTypes' /\ Wishes'
<1> USE ConnectionAssumption DEF ReconInv, ConnInv, ConnTypes
<1>1. WishTypes' /\ UNCHANGED off
  BY DEF DialEnds, WishTypes
<1>2. dialer # "none" /\ ~(online /\ expected) /\ off # "calm"
  BY DEF DialEnds, DialSucceeds, DiesUnnoticed, DialFails, ExpectedMidway, CalmStays, Underway
<1>3. CalmStays'
  BY <1>1, <1>2 DEF CalmStays
<1>4. UNCHANGED expected
  BY DEF DialEnds, DialSucceeds, DiesUnnoticed, DialFails, flags
<1>5. ExpectedMidway'
  BY <1>2, <1>4 DEF DialEnds, ExpectedMidway
<1>6. ASSUME NEW s \in Socket, DialSucceeds(s) PROVE ResetsFollowed' /\ NotLost'
  BY <1>6 DEF DialSucceeds, Unused, ResetsFollowed, NotLost
<1>7. ASSUME NEW s \in Socket, DiesUnnoticed(s), abandoned' PROVE ResetsFollowed' /\ NotLost'
  BY <1>7 DEF DiesUnnoticed, Unused, ResetsFollowed, NotLost
<1>8. ASSUME DialFails, abandoned' = (abandoned \/ dialer = "relogin"), online' = (online /\ dialer # "user")
      PROVE  ResetsFollowed' /\ NotLost'
  <2>1. ResetsFollowed'
    BY <1>8, <1>2 DEF DialFails, ResetsFollowed, flags, OneSocket
  <2>2. SUFFICES ASSUME online', ~abandoned' PROVE sleeping' > 0
    BY <2>1 DEF NotLost, Underway
  <2>3. online /\ dialer = "auto" /\ ~expected
    BY <1>8, <2>2, <1>2, <1>1 DEF WishTypes
  <2> QED
    BY <1>8, <2>3 DEF DialFails
<1> QED
  BY <1>1, <1>3, <1>5, <1>6, <1>7, <1>8 DEF DialEnds, Wishes

(* Connect, and what ends or overrules the wish.                            *)
LEMMA WishesAsked ==
  ASSUME ReconInv,
         \/ Connect /\ off' = "no" /\ UNCHANGED <<online, abandoned>>
         \/ (Disconnect \/ StreamReplaced \/ handleConnectFailure) /\ AskedOff
         \/ (Stream515 \/ \E s \in Socket : KeepFails(s)) /\ Overruled
  PROVE  WishTypes' /\ Wishes'
<1> USE ConnectionAssumption DEF ReconInv, ConnInv, ConnTypes
<1>1. CASE Connect /\ off' = "no" /\ UNCHANGED <<online, abandoned>>
  <2>1. sock' = NoSocket /\ expected' = FALSE /\ dialer' = "user" /\ UNCHANGED closing
    BY <1>1, DialClears DEF Connect
  <2>2. WishTypes' /\ CalmStays'
    BY <1>1 DEF WishTypes, CalmStays
  <2>3. ExpectedMidway' /\ ResetsFollowed' /\ NotLost'
    BY <2>1 DEF ExpectedMidway, ResetsFollowed, NotLost, Underway
  <2> QED
    BY <2>2, <2>3 DEF Wishes
<1>2. CASE (Disconnect \/ StreamReplaced \/ handleConnectFailure) /\ AskedOff
  <2>1. online' = FALSE /\ abandoned' = abandoned /\ off' \in {"racing", "calm"}
    BY <1>2 DEF AskedOff
  <2>2. WishTypes' /\ ExpectedMidway' /\ ResetsFollowed' /\ NotLost'
    BY <2>1 DEF WishTypes, ExpectedMidway, ResetsFollowed, NotLost
  <2>3. off' = "calm" => ~Underway
    BY <1>2, ReconnectingMeans DEF AskedOff, ReconWord
  <2>4. expected' = TRUE /\ UNCHANGED <<sleeping, ready, dialer, relogin, keep>>
    BY <1>2 DEF Disconnect, StreamReplaced, handleConnectFailure, expectDisconnect, autos
  <2>5. CalmStays'
    BY <2>3, <2>4 DEF CalmStays, Underway, Forcing
  <2> QED
    BY <2>2, <2>5 DEF Wishes
<1>3. CASE Stream515 /\ Overruled
  <2>1. off' # "calm" /\ UNCHANGED <<online, abandoned>>
    BY <1>3 DEF Overruled
  <2>2. WishTypes' /\ CalmStays'
    BY <1>3, <2>1 DEF WishTypes, CalmStays, Overruled
  <2>3. relogin = "none" /\ relogin' = "disconnect"
        /\ UNCHANGED <<sock, open, closing, keep, dialer, expected, force, sleeping, ready>>
    BY <1>3 DEF Stream515, flags, autos
  <2>4. ExpectedMidway' /\ ResetsFollowed' /\ NotLost'
    BY <2>1, <2>3 DEF ExpectedMidway, ResetsFollowed, NotLost, Underway
  <2> QED
    BY <2>2, <2>4 DEF Wishes
<1>4. ASSUME NEW s \in Socket, KeepFails(s), Overruled PROVE WishTypes' /\ Wishes'
  <2>1. off' # "calm" /\ UNCHANGED <<online, abandoned>>
    BY <1>4 DEF Overruled
  <2>2. WishTypes' /\ CalmStays'
    BY <1>4, <2>1 DEF WishTypes, CalmStays, Overruled
  <2>3. keep[s] = "ping" /\ keep' = [keep EXCEPT ![s] = "force"]
        /\ UNCHANGED <<sock, open, closing, relogin, dialer, expected, force, sleeping, ready>>
    BY <1>4 DEF KeepFails, KeepAt, flags, autos
  <2>4. Forcing'
    BY <2>3 DEF Forcing
  <2>5. ExpectedMidway' /\ ResetsFollowed' /\ NotLost'
    BY <2>1, <2>3, <2>4 DEF ExpectedMidway, ResetsFollowed, NotLost, Underway
  <2> QED
    BY <2>2, <2>5 DEF Wishes
<1> QED
  BY <1>1, <1>2, <1>3, <1>4

(* The autoReconnect goroutines and the relogin.                            *)
LEMMA WishesAuto ==
  ASSUME ReconInv, autoReconnect \/ ReloginDisconnects \/ ReloginConnects, UNCHANGED wishes
  PROVE  Wishes'
<1> USE ConnectionAssumption DEF ReconInv, ConnInv, ConnTypes
<1>0. UNCHANGED <<online, abandoned, off>>
  BY DEF wishes
<1>1. CASE AutoCancelled \/ AutoWakes \/ AutoAlreadyConnected
  <2>1. UNCHANGED <<sock, open, closing, keep, dialer, expected, force, relogin>>
    BY <1>1 DEF AutoCancelled, AutoWakes, AutoAlreadyConnected, flags
  <2>2. Underway /\ off # "calm"
    BY <1>1 DEF AutoCancelled, AutoWakes, AutoAlreadyConnected, Underway, CalmStays
  <2>3. ExpectedMidway' /\ CalmStays'
    BY <1>0, <2>1, <2>2 DEF ExpectedMidway, CalmStays
  <2>4. (sleeping > 0 \/ ready > 0) => sleeping' > 0 \/ ready' > 0 \/ expected \/ sock \in open
    BY <1>1 DEF AutoCancelled, AutoWakes, AutoAlreadyConnected
  <2>5. ResetsFollowed'
    BY <1>0, <2>1, <2>4 DEF ResetsFollowed, ExpectedMidway, OneSocket
  <2>6. NotLost'
    BY <1>0, <2>1, <2>4 DEF NotLost, ExpectedMidway, Underway, Forcing
  <2> QED
    BY <2>3, <2>5, <2>6 DEF Wishes
<1>2. CASE AutoConnects \/ (ReloginConnects /\ sock \notin open)
  <2>1. PICK who \in {"auto", "relogin"} : Dial(who)
    BY <1>2 DEF AutoConnects, ReloginConnects
  <2>2. sock' = NoSocket /\ expected' = FALSE /\ dialer' # "none" /\ UNCHANGED closing
    BY <1>2, <2>1, DialClears DEF AutoConnects, ReloginConnects
  <2>3. off # "calm"
    BY <1>2 DEF AutoConnects, ReloginConnects, CalmStays, Underway
  <2> QED
    BY <1>0, <2>2, <2>3 DEF Wishes, ExpectedMidway, ResetsFollowed, NotLost, CalmStays, Underway
<1>3. CASE ReloginConnects /\ sock \in open
  <2>1. UNCHANGED <<sock, open, closing, keep, dialer, expected, force, sleeping, ready>>
    BY <1>3 DEF ReloginConnects, flags, autos
  <2>2. off # "calm" /\ ~(online /\ expected)
    BY <1>3 DEF ReloginConnects, CalmStays, Underway, ExpectedMidway
  <2> QED
    BY <1>0, <1>3, <2>1, <2>2 DEF Wishes, ExpectedMidway, ResetsFollowed, NotLost, CalmStays
<1>4. CASE ReloginDisconnects
  <2>1. sock' = NoSocket /\ dialer' = "none" /\ relogin' = "connect" /\ UNCHANGED closing
    BY <1>4, DisconnectClears DEF ReloginDisconnects, Unlocked
  <2>2. off # "calm"
    BY <1>4 DEF ReloginDisconnects, CalmStays, Underway
  <2> QED
    BY <1>0, <2>1, <2>2 DEF Wishes, ExpectedMidway, ResetsFollowed, NotLost, CalmStays, Underway
<1> QED
  BY <1>1, <1>2, <1>3, <1>4 DEF autoReconnect

(* The callback of a socket.                                                *)
LEMMA WishesCallback ==
  ASSUME ReconInv, NEW c \in closing, onDisconnect(c), UNCHANGED wishes
  PROVE  Wishes'
<1> USE ConnectionAssumption DEF ReconInv, ConnInv, ConnTypes
<1>0. UNCHANGED <<online, abandoned, off>>
  BY DEF wishes
<1>1. closing' = closing \ {c} /\ UNCHANGED <<open, keep, dialer, expected, relogin>> /\ dialer = "none"
  BY DEF onDisconnect, Unlocked
<1>2. CASE sock # c.sock
  <2>1. UNCHANGED <<sock, force, sleeping, ready>>
    BY <1>2 DEF onDisconnect, autos
  <2> QED
    BY <1>0, <1>1, <1>2, <2>1
    DEF Wishes, ExpectedMidway, ResetsFollowed, NotLost, CalmStays, Underway, Forcing
<1>3. CASE sock = c.sock
  <2>1. sock' = NoSocket /\ ready' = ready
        /\ sleeping' = IF WillReconnect(c) THEN sleeping + 1 ELSE sleeping
    BY <1>3 DEF onDisconnect, Spawn, autos
  <2>2. ExpectedMidway' /\ ResetsFollowed'
    BY <1>0, <1>1, <2>1 DEF ExpectedMidway, ResetsFollowed
  <2>3. CalmStays'
    BY <1>0, <1>1, <2>1 DEF CalmStays, WillReconnect, Underway, Forcing
  <2>4. online => sleeping' > 0 \/ ready' > 0
    <3>1. online => ~expected
      BY <1>3 DEF ExpectedMidway
    <3>2. (online /\ ~c.remote) => force \/ sleeping > 0 \/ ready > 0
      BY <1>3 DEF ResetsFollowed
    <3>3. online => WillReconnect(c) \/ sleeping > 0 \/ ready > 0
      BY <3>1, <3>2 DEF WillReconnect
    <3> QED
      BY <3>3, <2>1
  <2>5. NotLost'
    BY <1>0, <2>4 DEF NotLost, Underway
  <2> QED
    BY <2>2, <2>3, <2>5 DEF Wishes
<1> QED
  BY <1>2, <1>3

(* A drop, a reset and the keepalive loop.                                  *)
LEMMA WishesSocket ==
  ASSUME ReconInv, UNCHANGED wishes,
         ResetConnection \/ \E s \in Socket : Drop(s) \/ keepAliveLoop(s)
  PROVE  Wishes'
<1> USE ConnectionAssumption DEF ReconInv, ConnInv, ConnTypes
<1>0. UNCHANGED <<online, abandoned, off>>
  BY DEF wishes
<1>1. CASE ResetConnection
  <2>1. UNCHANGED <<sock, keep, dialer, expected, sleeping, ready, relogin>>
    BY <1>1 DEF ResetConnection, autos
  <2>2. force'
    BY <1>1 DEF ResetConnection
  <2>3. closing \subseteq closing' /\ (sock \in open => \E c \in closing' : c.sock = sock)
    <3>1. Closure(sock, FALSE).sock = sock
      BY DEF Closure
    <3> HIDE DEF ReconInv, ConnInv, ConnTypes
    <3> QED
      BY <1>1, <3>1 DEF ResetConnection
  <2>4. NotLost'
    BY <1>0, <2>1, <2>3 DEF NotLost, Underway, Forcing
  <2> QED
    BY <1>0, <2>1, <2>2, <2>4 DEF Wishes, ExpectedMidway, ResetsFollowed, CalmStays, Underway, Forcing
<1>2. ASSUME NEW s \in Socket, Drop(s) PROVE Wishes'
  <2>1. /\ s = sock /\ closing' = closing \cup {Closure(s, TRUE)}
        /\ UNCHANGED <<sock, keep, dialer, expected, force, sleeping, ready, relogin>>
    BY <1>2 DEF Drop, autos, flags, OneSocket
  <2>2. Closure(s, TRUE).sock = s /\ Closure(s, TRUE).remote
    BY DEF Closure
  <2>3. NotLost'
    BY <1>0, <2>1, <2>2 DEF NotLost
  <2>4. ResetsFollowed'
    BY <1>0, <2>1, <2>2 DEF ResetsFollowed
  <2> QED
    BY <1>0, <2>1, <2>3, <2>4 DEF Wishes, ExpectedMidway, CalmStays, Underway, Forcing
<1>3. ASSUME NEW s \in Socket, KeepPings(s) \/ KeepGoesOn(s) \/ KeepEnds(s) PROVE Wishes'
  <2>1. /\ keep[s] \in {"idle", "ping"}
        /\ \E to \in {"none", "idle", "ping"} : keep' = [keep EXCEPT ![s] = to]
        /\ UNCHANGED <<sock, open, closing, dialer, expected, force, sleeping, ready, relogin>>
    BY <1>3 DEF KeepPings, KeepGoesOn, KeepEnds, KeepAt, autos, flags
  <2>2. \A t \in Socket, w \in {"force", "forced"} : keep[t] = w <=> keep'[t] = w
    BY <2>1
  <2>3. Forcing' <=> Forcing
    BY <2>2 DEF Forcing
  <2> QED
    BY <1>0, <2>1, <2>2, <2>3
    DEF Wishes, ExpectedMidway, ResetsFollowed, NotLost, CalmStays, Underway
<1>4. ASSUME NEW s \in Socket, KeepDisconnects(s) PROVE Wishes'
  <2>1. /\ keep[s] = "force" /\ keep'[s] = "forced" /\ sock' = NoSocket
        /\ dialer' = "none" /\ UNCHANGED closing
    BY <1>4, DisconnectClears DEF KeepDisconnects, KeepAt, Unlocked
  <2>2. off # "calm" /\ Forcing'
    BY <2>1 DEF CalmStays, Underway, Forcing
  <2> QED
    BY <1>0, <2>1, <2>2 DEF Wishes, ExpectedMidway, ResetsFollowed, NotLost, CalmStays, Underway
<1>5. ASSUME NEW s \in Socket, KeepReconnects(s) PROVE Wishes'
  <2>1. keep[s] = "forced" /\ sleeping' > 0
    BY <1>5 DEF KeepReconnects, KeepAt, Spawn
  <2>2. ~expected'
    BY <1>5 DEF KeepReconnects, resetExpectedDisconnect
  <2>3. off # "calm"
    BY <2>1 DEF CalmStays, Underway, Forcing
  <2> QED
    BY <1>0, <2>1, <2>2, <2>3 DEF Wishes, ExpectedMidway, ResetsFollowed, NotLost, CalmStays, Underway
<1> QED
  BY <1>1, <1>2, <1>3, <1>4, <1>5 DEF keepAliveLoop

-----------------------------------------------------------------------------
(* The invariant behind both promises about reconnecting.                   *)
THEOREM ReconInvariant == ReconSpec => []ReconInv
<1>1. ReconInit => ReconInv
  <2>1. ReconInit => ConnInv
    BY ConnStarts DEF ReconInit
  <2>2. ReconInit => WishTypes /\ ~online /\ off = "no" /\ closing = {}
    BY DEF ReconInit, ConnInit, WishTypes
  <2> QED
    BY <2>1, <2>2 DEF ReconInv, ExpectedMidway, ResetsFollowed, NotLost, CalmStays
<1>2. ReconInv /\ [ReconNext]_<<connVars, wishes>> => ReconInv'
  <2> SUFFICES ASSUME ReconInv, [ReconNext]_<<connVars, wishes>> PROVE ReconInv'
    OBVIOUS
  <2>1. ConnStep
    BY DEF ConnStep, DialStep, AskStep, ReconNext, DialEnds
  <2>2. SUFFICES WishTypes' /\ Wishes'
    BY <2>1, ConnKeeps DEF ReconInv, Wishes
  <2>3. CASE DialEnds
    BY <2>3, WishesDialEnds
  <2>4. CASE \/ Connect /\ off' = "no" /\ UNCHANGED <<online, abandoned>>
             \/ (Disconnect \/ StreamReplaced \/ handleConnectFailure) /\ AskedOff
             \/ (Stream515 \/ \E s \in Socket : KeepFails(s)) /\ Overruled
    BY <2>4, WishesAsked
  <2>5. CASE (ClientStep \/ ResetConnection) /\ UNCHANGED wishes
    <3>1. WishTypes'
      BY <2>5 DEF wishes, WishTypes, ReconInv
    <3>2. Wishes'
      BY <2>5, WishesAuto, WishesCallback, WishesSocket DEF ClientStep
    <3> QED
      BY <3>1, <3>2
  <2>6. CASE UNCHANGED <<connVars, wishes>>
    <3>1. UNCHANGED <<sock, open, closing, keep, dialer, expected, force, sleeping, ready, relogin>>
      BY <2>6 DEF connVars, flags, autos
    <3>2. UNCHANGED <<online, abandoned, off>>
      BY <2>6 DEF wishes
    <3>3. WishTypes' /\ ExpectedMidway' /\ ResetsFollowed'
      BY <3>1, <3>2 DEF ReconInv, WishTypes, ExpectedMidway, ResetsFollowed
    <3>4. (Underway' <=> Underway) /\ NotLost' /\ CalmStays'
      BY <3>1, <3>2 DEF ReconInv, NotLost, CalmStays, Underway, Forcing
    <3> QED
      BY <3>3, <3>4 DEF Wishes
  <2> QED
    BY <2>3, <2>4, <2>5, <2>6 DEF ReconNext
<1> QED
  BY <1>1, <1>2, PTL DEF ReconSpec

(* NeverStranded: while the program wants to be online and its socket is    *)
(* closed, a callback, an autoReconnect, a relogin, a forced keepalive or a *)
(* dial is on the way to bring it back.                                     *)
THEOREM ConnectionComesBack == ReconSpec => []NeverStranded
<1>1. ReconInv => NeverStranded
  BY ReconnectingMeans DEF ReconInv, NotLost, NeverStranded, ReconWord
<1> QED
  BY <1>1, ReconInvariant, PTL

(* DisconnectSticks: after a calm Disconnect no step installs a socket      *)
(* until somebody asks for one.                                             *)
THEOREM DisconnectHolds == ReconSpec => DisconnectSticks
<1>1. ASSUME ReconInv, [ReconNext]_<<connVars, wishes>>
      PROVE  [(off = "calm" /\ off' = "calm") => sock' \in {sock, NoSocket}]_<<connVars, wishes>>
  <2> SUFFICES ASSUME ReconNext, off = "calm", off' = "calm" PROVE sock' \in {sock, NoSocket}
    BY <1>1
  <2>1. dialer = "none"
    BY <1>1 DEF ReconInv, CalmStays, Underway
  <2> QED
    BY <2>1 DEF ReconNext, DialEnds, DialSucceeds, DiesUnnoticed, DialFails, Connect, Dial, Disconnect,
       StreamReplaced, handleConnectFailure, Stream515, KeepFails, ClientStep, ResetConnection, autoReconnect, AutoCancelled,
       AutoWakes, AutoAlreadyConnected, AutoConnects, ReloginDisconnects, ReloginConnects, onDisconnect,
       Drop, keepAliveLoop, KeepPings, KeepGoesOn, KeepEnds, KeepDisconnects, KeepReconnects,
       unlockedDisconnect
<1> QED
  BY <1>1, ReconInvariant, PTL DEF ReconSpec, DisconnectSticks

-----------------------------------------------------------------------------
(* cli.socket is open, or a callback of its own is still to come.           *)
Followed == sock \in open \/ \E c \in closing : c.sock = sock

(* The answer to a request is there or in the hands of receiveResponse.     *)
Told(r) == inbox[r] # "none" \/ r \in acking

Places ==
  {"idle", "registered", "write", "wait", "backoff", "again", "reread", "rewrite", "rewait", "done"}

ReqTypes ==
  /\ at \in [Request -> Places] /\ inbox \in [Request -> {"none", "end", "auth", "ack"}]
  /\ via \in [Request -> Socket \cup {NoSocket}]
  /\ waiters \subseteq Request /\ acking \subseteq Request /\ shut \subseteq Request

(* Only a request that is over has a closed channel; one that has still to  *)
(* write its retry, on a socket that is open, has its waiter; and one that  *)
(* has written it is not forgotten.                                         *)
Kept(r) ==
  /\ r \in shut => at[r] = "done"
  /\ (at[r] = "rewrite" /\ via[r] \in open) => Told(r) \/ r \in waiters
  /\ at[r] = "rewait" => Told(r) \/ (r \in waiters /\ sock = via[r] /\ Followed)

NetInv == ConnInv /\ ReqTypes /\ \A r \in Request : Kept(r)

(* A socket that somebody follows goes on being followed until it is taken  *)
(* away.                                                                    *)
LEMMA FollowedKeeps ==
  ASSUME ConnInv, ConnStep, Followed
  PROVE  sock' = NoSocket \/ (sock' = sock /\ Followed')
<1> USE ConnectionAssumption DEF ConnInv, ConnTypes
<1>1. sock # NoSocket /\ dialer = "none"
  BY DEF Followed, OneSocket
<1>2. CASE DialStep
  BY <1>1, <1>2 DEF DialStep, DialFails, DialSucceeds, DiesUnnoticed
<1>3. CASE Connect \/ Disconnect \/ ReloginDisconnects \/ \E s \in Socket : KeepDisconnects(s)
  BY <1>3, DisconnectClears DEF Connect, Disconnect, ReloginDisconnects, KeepDisconnects, Dial
<1>4. CASE StreamReplaced \/ handleConnectFailure \/ Stream515 \/ AutoCancelled \/ AutoWakes \/ AutoAlreadyConnected \/ UNCHANGED connVars
  BY <1>4 DEF StreamReplaced, handleConnectFailure, Stream515, AutoCancelled, AutoWakes, AutoAlreadyConnected, connVars, Followed
<1>5. ASSUME NEW s \in Socket,
             KeepFails(s) \/ KeepPings(s) \/ KeepGoesOn(s) \/ KeepEnds(s) \/ KeepReconnects(s)
      PROVE  sock' = sock /\ Followed'
  BY <1>5 DEF KeepFails, KeepPings, KeepGoesOn, KeepEnds, KeepReconnects, Followed
<1>6. CASE AutoConnects \/ ReloginConnects
  <2>1. CASE sock \in open
    BY <1>6, <2>1 DEF AutoConnects, ReloginConnects, Dial, Followed
  <2>2. CASE sock \notin open
    BY <1>6, <2>2, DisconnectClears DEF AutoConnects, ReloginConnects, Dial
  <2> QED
    BY <2>1, <2>2
<1>7. ASSUME NEW c \in closing, onDisconnect(c) PROVE sock' = NoSocket \/ (sock' = sock /\ Followed')
  BY <1>7 DEF onDisconnect, Followed
<1>8. CASE ResetConnection \/ \E s \in Socket : Drop(s)
  <2>1. UNCHANGED sock /\ closing \subseteq closing'
    BY <1>8 DEF ResetConnection, Drop
  <2>2. sock \in open => \E flag \in BOOLEAN : Closure(sock, flag) \in closing'
    BY <1>8 DEF ResetConnection, Drop, OneSocket
  <2>3. \A flag \in BOOLEAN : Closure(sock, flag).sock = sock
    BY DEF Closure
  <2> QED
    BY <2>1, <2>2, <2>3 DEF Followed
<1> QED
  BY <1>2, <1>3, <1>4, <1>5, <1>6, <1>7, <1>8
  DEF ConnStep, AskStep, ClientStep, autoReconnect, keepAliveLoop

(* A socket opens only at the end of a dial.                                *)
LEMMA OpensByDial ==
  ASSUME \/ ClientStep \/ AskStep \/ DialFails \/ UNCHANGED connVars
         \/ \E s \in Socket : KeepFails(s) \/ DiesUnnoticed(s)
  PROVE  open' \subseteq open
<1>1. CASE DialFails \/ UNCHANGED connVars \/ \E s \in Socket : KeepFails(s) \/ DiesUnnoticed(s)
  BY <1>1 DEF DialFails, DiesUnnoticed, KeepFails, connVars
<1>2. CASE AskStep
  BY <1>2 DEF AskStep, Connect, Disconnect, Dial, unlockedDisconnect, StreamReplaced, handleConnectFailure, Stream515, ResetConnection
<1>3. CASE ClientStep
  BY <1>3 DEF ClientStep, autoReconnect, AutoCancelled, AutoWakes, AutoAlreadyConnected, AutoConnects,
     ReloginDisconnects, ReloginConnects, onDisconnect, Drop, keepAliveLoop, KeepPings, KeepGoesOn,
     KeepEnds, KeepDisconnects, KeepReconnects, unlockedDisconnect, Dial
<1> QED
  BY <1>1, <1>2, <1>3

(* The end of the connection is told to every waiter.                       *)
LEMMA ClearedKeeps ==
  ASSUME NetInv, ConnStep, NEW node \in {"end", "auth"}, clearResponseWaiters(node),
         \A r \in Request : via[r] \in open' => via[r] \in open
  PROVE  ReqTypes' /\ \A r \in Request : Kept(r)'
<1>1. ReqTypes'
  <2>1. inbox' \in [Request -> {"none", "end", "auth", "ack"}]
    BY DEF NetInv, ReqTypes, clearResponseWaiters
  <2> QED
    BY <2>1 DEF NetInv, ReqTypes, clearResponseWaiters
<1>2. ASSUME NEW r \in Request PROVE Kept(r)'
  <2>1. /\ at'[r] = at[r] /\ via'[r] = via[r] /\ acking' = acking /\ shut' = shut
        /\ inbox'[r] = IF r \in waiters THEN node ELSE inbox[r]
    BY DEF clearResponseWaiters
  <2>2. Told(r) \/ r \in waiters => Told(r)'
    BY <2>1 DEF Told
  <2>3. Kept(r) /\ (via[r] \in open' => via[r] \in open)
    BY DEF NetInv
  <2> QED
    BY <2>1, <2>2, <2>3 DEF Kept
<1> QED
  BY <1>1, <1>2

(* A step of the connection that leaves the requests alone.                 *)
LEMMA UnclearedKeeps ==
  ASSUME NetInv, ConnStep, UNCHANGED reqVars, sock' # NoSocket \/ sock = NoSocket,
         \A r \in Request : via[r] \in open' => via[r] \in open
  PROVE  ReqTypes' /\ \A r \in Request : Kept(r)'
<1>1. UNCHANGED <<at, via, waiters, inbox, acking, shut>>
  BY DEF reqVars
<1>2. ReqTypes'
  BY <1>1 DEF NetInv, ReqTypes
<1>3. Followed => sock' = sock /\ Followed'
  BY FollowedKeeps, ConnectionAssumption DEF NetInv, ConnInv, ConnTypes, Followed
<1>4. ASSUME NEW r \in Request PROVE Kept(r)'
  <2>1. Told(r)' <=> Told(r)
    BY <1>1 DEF Told
  <2>2. Kept(r) /\ (via[r] \in open' => via[r] \in open)
    BY DEF NetInv
  <2> QED
    BY <1>1, <1>3, <2>1, <2>2 DEF Kept
<1> QED
  BY <1>2, <1>4

(* The steps of the connection, as the requests see them.                   *)
LEMMA NetConnection ==
  ASSUME NetInv, ConnectionStep \/ Resets \/ StreamErrors
  PROVE  ConnStep /\ ReqTypes' /\ \A r \in Request : Kept(r)'
<1>1. ConnStep
  BY DEF ConnectionStep, Resets, StreamErrors, ConnStep, DialStep, AskStep
<1>2. ASSUME NEW r \in Request, via[r] \in open' PROVE via[r] \in open
  <2>1. ASSUME NEW s \in Socket, via[r] # s, DialSucceeds(s) PROVE via[r] \in open
    BY <1>2, <2>1 DEF DialSucceeds
  <2> QED
    BY <1>2, <2>1, OpensByDial DEF ConnectionStep, Resets, StreamErrors, AskStep
<1>3. CASE ConnectionStep
  BY <1>1, <1>2, <1>3, ClearedKeeps, UnclearedKeeps DEF ConnectionStep, Cleared
<1>4. CASE Resets
  BY <1>1, <1>2, <1>4, ClearedKeeps, UnclearedKeeps DEF Resets
<1>5. CASE handleConnectFailure /\ UNCHANGED reqVars
  <2>1. sock' = sock
    BY <1>5 DEF handleConnectFailure
  <2> QED BY <1>1, <1>2, <1>5, <2>1, UnclearedKeeps
<1>6. CASE StreamErrors
  BY <1>1, <1>2, <1>5, <1>6, ClearedKeeps DEF StreamErrors
<1> QED
  BY <1>1, <1>3, <1>4, <1>6

(* What a request does leaves the others alone.                             *)
Alone(r) ==
  /\ UNCHANGED connVars
  /\ \A q \in Request \ {r} :
       /\ at'[q] = at[q] /\ via'[q] = via[q] /\ inbox'[q] = inbox[q]
       /\ q \in waiters' <=> q \in waiters
       /\ q \in acking' <=> q \in acking
       /\ q \in shut' <=> q \in shut

LEMMA AloneKeeps ==
  ASSUME NetInv, NEW r \in Request, Alone(r), NEW q \in Request, q # r
  PROVE  Kept(q)'
<1>1. UNCHANGED <<sock, open, closing>>
  BY DEF Alone, connVars
<1>2. (Followed' <=> Followed) /\ (Told(q)' <=> Told(q))
  BY <1>1 DEF Followed, Told, Alone
<1>3. Kept(q)
  BY DEF NetInv
<1> QED
  BY <1>1, <1>2, <1>3 DEF Kept, Alone

(* SendMessage, the answer to it and the end of its context.                *)
LEMMA NetRequest ==
  ASSUME NetInv, NEW r \in Request,
         SendMessageStep(r) \/ receiveResponse(r) \/ Delivers(r) \/ CancelRequest(r)
  PROVE  UNCHANGED connVars /\ ReqTypes' /\ \A q \in Request : Kept(q)'
<1> USE DEF ReqTypes, Places
<1>0. Kept(r) /\ ReqTypes /\ ConnInv
  BY DEF NetInv
<1>1. SUFFICES Alone(r) /\ ReqTypes' /\ Kept(r)'
  BY AloneKeeps DEF Alone
<1>2. CASE Registers(r)
  <2>1. Alone(r) /\ ReqTypes' /\ at'[r] = "registered" /\ UNCHANGED shut
    BY <1>0, <1>2 DEF Registers, Goes, waitResponse, Alone
  <2> QED
    BY <1>0, <1>2, <2>1 DEF Kept, Registers
<1>3. CASE ReadsSocket(r, "registered", "write") \/ ReadsSocket(r, "again", "reread")
  <2>1. Alone(r) /\ ReqTypes' /\ at'[r] \in {"write", "reread"} /\ UNCHANGED shut
    BY <1>0, <1>3 DEF ReadsSocket, Goes, Alone, ConnInv, ConnTypes
  <2> QED
    BY <1>0, <1>3, <2>1 DEF Kept, ReadsSocket
<1>4. CASE NotConnected(r) \/ WriteFails(r) \/ TimesOut(r)
  <2>1. cancelResponse(r)
    BY <1>4 DEF NotConnected, WriteFails, TimesOut
  <2>2. Alone(r) /\ ReqTypes' /\ at'[r] = "done"
    BY <1>0, <2>1 DEF cancelResponse, HangsUp, Alone
  <2> QED
    BY <2>2 DEF Kept
<1>5. CASE Writes(r, "write", "wait")
  <2>1. Alone(r) /\ ReqTypes' /\ at'[r] = "wait" /\ UNCHANGED shut
    BY <1>0, <1>5 DEF Writes, Goes, Alone
  <2> QED
    BY <1>0, <1>5, <2>1 DEF Kept, Writes
<1>6. CASE CtxEnds(r) \/ GivesUp(r)
  <2>1. Alone(r) /\ ReqTypes' /\ at'[r] = "done"
    BY <1>0, <1>6 DEF CtxEnds, GivesUp, HangsUp, Alone
  <2> QED
    BY <2>1 DEF Kept
<1>7. CASE Takes(r)
  <2>1. Alone(r) /\ ReqTypes' /\ at'[r] \in {"done", "backoff"} /\ UNCHANGED shut
    BY <1>0, <1>7 DEF Takes, Goes, HangsUp, Alone
  <2> QED
    BY <1>0, <1>7, <2>1 DEF Kept, Takes
<1>8. CASE Reconnected(r)
  <2>1. Alone(r) /\ ReqTypes' /\ at'[r] = "again" /\ UNCHANGED shut
    BY <1>0, <1>8 DEF Reconnected, Goes, Alone
  <2> QED
    BY <1>0, <1>8, <2>1 DEF Kept, Reconnected
<1>9. CASE Reregisters(r)
  <2>1. Alone(r) /\ ReqTypes' /\ at'[r] = "rewrite" /\ r \in waiters' /\ UNCHANGED shut
    BY <1>0, <1>9 DEF Reregisters, Goes, waitResponse, Alone
  <2> QED
    BY <1>0, <1>9, <2>1 DEF Kept, Reregisters
<1>10. CASE Writes(r, "rewrite", "rewait")
  <2>1. Alone(r) /\ ReqTypes' /\ at'[r] = "rewait" /\ UNCHANGED <<connVars, via, inbox, acking, waiters, shut>>
    BY <1>0, <1>10 DEF Writes, Goes, Alone
  <2>2. at[r] = "rewrite" /\ via[r] \in open /\ sock = via[r]
    BY <1>0, <1>10 DEF Writes, ConnInv, OneSocket
  <2>3. UNCHANGED <<sock, open, closing>>
    BY <2>1 DEF connVars
  <2> QED
    BY <1>0, <2>1, <2>2, <2>3 DEF Kept, Told, Followed
<1>11. CASE receiveResponse(r)
  <2>1. Alone(r) /\ ReqTypes' /\ r \in acking' /\ UNCHANGED <<at, shut>>
    BY <1>0, <1>11 DEF receiveResponse, Alone
  <2> QED
    BY <1>0, <2>1 DEF Kept, Told
<1>12. CASE Delivers(r)
  <2>1. Alone(r) /\ ReqTypes' /\ UNCHANGED <<at, shut, via>>
    BY <1>0, <1>12 DEF Delivers, Alone
  <2>2. r \notin shut => inbox'[r] = "ack"
    BY <1>0, <1>12 DEF Delivers
  <2> QED
    BY <1>0, <2>1, <2>2 DEF Kept, Told
<1>13. CASE CancelRequest(r)
  <2>1. Alone(r) /\ ReqTypes' /\ UNCHANGED <<connVars, at, via, inbox, acking, waiters, shut>>
    BY <1>0, <1>13 DEF CancelRequest, Alone
  <2>2. UNCHANGED <<sock, open, closing>>
    BY <2>1 DEF connVars
  <2> QED
    BY <1>0, <2>1, <2>2 DEF Kept, Told, Followed
<1> QED
  BY <1>2, <1>3, <1>4, <1>5, <1>6, <1>7, <1>8, <1>9, <1>10, <1>11, <1>12, <1>13 DEF SendMessageStep

(* RetryNotForgotten: however the connection ends between any two steps of  *)
(* SendMessage, a retried message has its answer, or a waiter that whoever  *)
(* takes the socket away will tell.                                         *)
THEOREM RetriesAnswered == NetSpec => []RetryNotForgotten
<1>1. NetInit => NetInv
  <2>1. NetInit => ConnInv
    BY ConnStarts DEF NetInit
  <2>2. NetInit => ReqTypes /\ shut = {} /\ \A r \in Request : at[r] = "idle"
    BY DEF NetInit, ReqTypes, Places
  <2> QED
    BY <2>1, <2>2 DEF NetInv, Kept
<1>2. NetInv /\ [NetNext]_netVars => NetInv'
  <2> SUFFICES ASSUME NetInv, [NetNext]_netVars PROVE NetInv'
    OBVIOUS
  <2>1. CASE ConnectionStep \/ Resets \/ StreamErrors
    BY <2>1, NetConnection, ConnKeeps DEF NetInv
  <2>2. ASSUME NEW r \in Request,
               SendMessageStep(r) \/ receiveResponse(r) \/ Delivers(r) \/ CancelRequest(r)
        PROVE  NetInv'
    <3>1. UNCHANGED connVars /\ ReqTypes' /\ \A q \in Request : Kept(q)'
      BY <2>2, NetRequest
    <3>2. ConnInv'
      BY <3>1, ConnKeeps DEF NetInv, ConnStep
    <3> QED
      BY <3>1, <3>2 DEF NetInv
  <2>3. CASE UNCHANGED netVars
    <3>1. UNCHANGED reqVars /\ UNCHANGED connVars
      BY <2>3 DEF netVars
    <3>2. ConnStep /\ ConnInv' /\ UNCHANGED <<sock, open>>
      BY <3>1, ConnKeeps DEF NetInv, ConnStep, connVars
    <3>3. ReqTypes' /\ \A q \in Request : Kept(q)'
      BY <3>1, <3>2, UnclearedKeeps
    <3> QED
      BY <3>2, <3>3 DEF NetInv
  <2> QED
    BY <2>1, <2>2, <2>3 DEF NetNext
<1>3. NetInv => RetryNotForgotten
  BY DEF NetInv, Kept, Told, Followed, RetryNotForgotten
<1> QED
  BY <1>1, <1>2, <1>3, PTL DEF NetSpec
=============================================================================
