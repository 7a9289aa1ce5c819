---------------------------- MODULE GuardsProofs ----------------------------
(***************************************************************************)
(* The guards that share no state, for all of their parameters: a          *)
(* recipient that keeps failing is refused (CircuitBreaker), the group     *)
(* operations keep their caps (GroupGuard), Stop of the proxy rotator is   *)
(* safe when nothing is under way (ProxyTicker), the delivery tracker      *)
(* counts the last hour (DeliveryTracker), spirals of retries are told     *)
(* from a few old ones (RetryTracker), and the loops of the proxy rotator  *)
(* choose as they should (ProxyRotator).                                   *)
(*                                                                         *)
(* GroupCap is not inductive: Check counts the stamps in its own list, and *)
(* the cap is about the history.  GroupInv ties the two together: inside   *)
(* the window they are the same finite set of stamps, all of them made     *)
(* before now with numbers below the next one, so that a new stamp is not  *)
(* yet among them.                                                         *)
(*                                                                         *)
(* SpiralDetection compares the length of a list that is deleted as a      *)
(* whole with the times of the retries.  RetryInv knows why each retry is  *)
(* in the list or no longer in it.                                         *)
(*                                                                         *)
(* RotatorChoice is about loops, as recursive functions.  LoopRuns shows   *)
(* that they exist; what they compute follows from Stepwise, induction on  *)
(* the set of the steps after which the claim holds.                       *)
(***************************************************************************)
EXTENDS CircuitBreaker, GroupGuard, ProxyTicker, DeliveryTracker, RetryTracker, ProxyRotator,
        WindowProofs, WellFoundedInduction

(* The circuit breaker.                                                     *)

(* What the entry of one recipient has to do with its history: the count is *)
(* behind the streak only after a stale gap, the clock of an open entry is  *)
(* that of the last failure, and half-open means that the cooldown is over. *)
EntryInv(e, n, q) ==
  /\ e.state # "closed" <=> e.failures >= Threshold
  /\ n <= e.failures \/ q > Stale
  /\ n >= Threshold => e.failures >= Threshold
  /\ e.known => e.lastFail = q
  /\ ~e.known => e.failures = 0
  /\ e.failures >= Threshold => e.lastOpen = q
  /\ e.state = "half" => e.lastOpen >= Cooldown

BreakerInv == TypeOK /\ \A j \in JID : EntryInv(breakers[j], streak[j], quiet[j])

Entry == [known : BOOLEAN, state : {"closed", "open", "half"},
          failures : 0 .. MaxFailures, lastFail : Age, lastOpen : Age]

(* The bounds of the ages.                                                  *)
LEMMA Ages == Oldest \in Nat /\ Oldest > Stale /\ Oldest > Cooldown /\ Age = 0 .. Oldest
  BY BreakerAssumption DEF Oldest, Age

(* A missing entry is an entry.                                             *)
LEMMA NoEntryType == NoEntry \in Entry
  BY Ages, BreakerAssumption DEF NoEntry, Entry

(* evictStale drops only entries whose streak is over.                      *)
LEMMA EvictKeeps ==
  ASSUME BreakerInv
  PROVE  /\ evictStale(breakers) \in [JID -> Entry]
         /\ \A j \in JID : EntryInv(evictStale(breakers)[j], streak[j], quiet[j])
         /\ \A j \in JID : breakers[j].state # "closed" => evictStale(breakers)[j] = breakers[j]
<1> DEFINE b == evictStale(breakers)
<1>1. breakers \in [JID -> Entry] BY DEF BreakerInv, TypeOK, Entry
<1>2. \A j \in JID : b[j] = IF breakers[j].known /\ breakers[j].state = "closed" /\ breakers[j].lastFail > Stale
                            THEN NoEntry ELSE breakers[j]
  BY DEF evictStale
<1>3. b \in [JID -> Entry] BY <1>1, <1>2, NoEntryType DEF evictStale
<1>4. ASSUME NEW j \in JID PROVE EntryInv(b[j], streak[j], quiet[j])
  <2>1. CASE breakers[j].known /\ breakers[j].state = "closed" /\ breakers[j].lastFail > Stale
    <3>1. b[j] = NoEntry BY <1>2, <2>1
    <3>2. streak[j] \in 0 .. Threshold /\ quiet[j] \in Age /\ breakers[j] \in Entry
      BY <1>1 DEF BreakerInv, TypeOK
    <3>3. quiet[j] > Stale /\ ~(breakers[j].failures >= Threshold) /\ ~(streak[j] >= Threshold)
      BY <2>1, <3>2 DEF BreakerInv, EntryInv
    <3>4. QED BY <3>1, <3>2, <3>3, BreakerAssumption DEF EntryInv, NoEntry
  <2>2. CASE ~(breakers[j].known /\ breakers[j].state = "closed" /\ breakers[j].lastFail > Stale)
    BY <1>2, <2>2 DEF BreakerInv
  <2>3. QED BY <2>1, <2>2
<1>5. QED BY <1>2, <1>3, <1>4

(* Asking for a recipient keeps the invariant of every entry.               *)
LEMMA AskedKeeps ==
  ASSUME BreakerInv, NEW j \in JID
  PROVE  /\ Asked(j) \in [JID -> Entry]
         /\ \A k \in JID : EntryInv(Asked(j)[k], streak[k], quiet[k])
<1>1. breakers \in [JID -> Entry] BY DEF BreakerInv, TypeOK, Entry
<1>2. CASE ~breakers[j].known
  BY <1>1, <1>2 DEF Asked, BreakerInv
<1>3. CASE breakers[j].known /\ ~(breakers[j].state = "open" /\ Admits(j))
  BY <1>3, EvictKeeps DEF Asked
<1>4. CASE breakers[j].known /\ breakers[j].state = "open" /\ Admits(j)
  <2> DEFINE b == evictStale(breakers)
  <2>1. Asked(j) = [b EXCEPT ![j].state = "half"] BY <1>4 DEF Asked
  <2>2. b \in [JID -> Entry] /\ b[j] = breakers[j] BY <1>4, EvictKeeps
  <2> HIDE DEF b
  <2>3. Asked(j) \in [JID -> Entry] BY <2>1, <2>2 DEF Entry
  <2>4. breakers[j].lastOpen >= Cooldown BY <1>4 DEF Admits
  <2>5. EntryInv(Asked(j)[j], streak[j], quiet[j])
    <3>1. Asked(j)[j] = [breakers[j] EXCEPT !.state = "half"] BY <2>1, <2>2
    <3>2. breakers[j] \in Entry BY <1>1
    <3>3. EntryInv(breakers[j], streak[j], quiet[j]) BY DEF BreakerInv
    <3>4. QED BY <3>1, <3>2, <3>3, <2>4, <1>4 DEF EntryInv, Entry
  <2>6. ASSUME NEW k \in JID, k # j PROVE EntryInv(Asked(j)[k], streak[k], quiet[k])
    <3>1. Asked(j)[k] = b[k] BY <2>1, <2>2, <2>6
    <3>2. EntryInv(b[k], streak[k], quiet[k]) BY EvictKeeps DEF b
    <3>3. QED BY <3>1, <3>2
  <2>7. QED BY <2>3, <2>5, <2>6
<1>5. QED BY <1>2, <1>3, <1>4

(* At the start no recipient has an entry or a streak.                      *)
LEMMA InitBreaker == Init => BreakerInv
<1> SUFFICES ASSUME Init PROVE BreakerInv
    OBVIOUS
<1>1. TypeOK BY Ages, NoEntryType, BreakerAssumption DEF Init, TypeOK, Entry
<1>2. \A j \in JID : EntryInv(breakers[j], streak[j], quiet[j])
  BY Ages, BreakerAssumption DEF Init, EntryInv, NoEntry
<1>3. QED BY <1>1, <1>2 DEF BreakerInv

(* Every step keeps the invariant.                                          *)
LEMMA StepBreaker == BreakerInv /\ [Next]_vars => BreakerInv'
<1> SUFFICES ASSUME BreakerInv, [Next]_vars PROVE BreakerInv'
    OBVIOUS
<1>0. /\ breakers \in [JID -> Entry] /\ streak \in [JID -> 0 .. Threshold] /\ quiet \in [JID -> Age]
      /\ sending \in [Loop -> JID \cup {NoJID}] /\ jitter \in [Loop -> JID \cup {NoJID}]
      /\ \A j \in JID : EntryInv(breakers[j], streak[j], quiet[j])
  BY DEF BreakerInv, TypeOK, Entry
<1> SUFFICES /\ breakers' \in [JID -> Entry] /\ streak' \in [JID -> 0 .. Threshold] /\ quiet' \in [JID -> Age]
             /\ sending' \in [Loop -> JID \cup {NoJID}] /\ jitter' \in [Loop -> JID \cup {NoJID}]
             /\ \A j \in JID : EntryInv(breakers'[j], streak'[j], quiet'[j])
  BY DEF BreakerInv, TypeOK, Entry, EntryInv
<1>1. ASSUME NEW l \in Loop, NEW j \in JID, CanSend(l, j) PROVE
             /\ breakers' \in [JID -> Entry] /\ streak' \in [JID -> 0 .. Threshold] /\ quiet' \in [JID -> Age]
             /\ sending' \in [Loop -> JID \cup {NoJID}] /\ jitter' \in [Loop -> JID \cup {NoJID}]
             /\ \A k \in JID : EntryInv(breakers'[k], streak'[k], quiet'[k])
  <2>1. breakers' = Asked(j) /\ streak' = streak /\ quiet' = quiet BY <1>1 DEF CanSend
  <2>2. sending' \in [Loop -> JID \cup {NoJID}] /\ jitter' \in [Loop -> JID \cup {NoJID}]
    BY <1>0, <1>1 DEF CanSend
  <2>3. QED BY <2>1, <2>2, <1>0, AskedKeeps
<1>2. ASSUME NEW l \in Loop, GetJitter(l) PROVE
             /\ breakers' \in [JID -> Entry] /\ streak' \in [JID -> 0 .. Threshold] /\ quiet' \in [JID -> Age]
             /\ sending' \in [Loop -> JID \cup {NoJID}] /\ jitter' \in [Loop -> JID \cup {NoJID}]
             /\ \A k \in JID : EntryInv(breakers'[k], streak'[k], quiet'[k])
  <2>1. jitter[l] \in JID BY <1>0, <1>2 DEF GetJitter
  <2>2. breakers' = Asked(jitter[l]) /\ streak' = streak /\ quiet' = quiet /\ sending' = sending
    BY <1>2 DEF GetJitter
  <2>3. jitter' \in [Loop -> JID \cup {NoJID}] BY <1>0, <1>2 DEF GetJitter
  <2>4. QED BY <2>1, <2>2, <2>3, <1>0, AskedKeeps
<1>3. ASSUME NEW l \in Loop, RecordSuccess(l) PROVE
             /\ breakers' \in [JID -> Entry] /\ streak' \in [JID -> 0 .. Threshold] /\ quiet' \in [JID -> Age]
             /\ sending' \in [Loop -> JID \cup {NoJID}] /\ jitter' \in [Loop -> JID \cup {NoJID}]
             /\ \A k \in JID : EntryInv(breakers'[k], streak'[k], quiet'[k])
  <2> DEFINE j == sending[l]
  <2>1. j \in JID BY <1>0, <1>3 DEF RecordSuccess
  <2>2. /\ breakers' = IF breakers[j].known
                       THEN [breakers EXCEPT ![j] = [@ EXCEPT !.state = "closed", !.failures = 0]]
                       ELSE breakers
        /\ streak' = [streak EXCEPT ![j] = 0] /\ quiet' = quiet
        /\ sending' = [sending EXCEPT ![l] = NoJID] /\ jitter' = jitter
    BY <1>0, <1>3, <2>1 DEF RecordSuccess
  <2> HIDE DEF j
  <2>3. 0 \in 0 .. Threshold /\ 0 \in 0 .. MaxFailures BY BreakerAssumption
  <2>4. breakers[j] \in Entry BY <1>0, <2>1
  <2>5. [breakers[j] EXCEPT !.state = "closed", !.failures = 0] \in Entry BY <2>3, <2>4 DEF Entry
  <2>6. breakers' \in [JID -> Entry] BY <1>0, <2>1, <2>2, <2>5
  <2>7. streak' \in [JID -> 0 .. Threshold] BY <1>0, <2>2, <2>3
  <2>8. sending' \in [Loop -> JID \cup {NoJID}] BY <1>0, <2>2
  <2>9. EntryInv(breakers'[j], streak'[j], quiet'[j])
    <3>1. streak'[j] = 0 /\ quiet'[j] = quiet[j] BY <1>0, <2>1, <2>2
    <3>2. EntryInv(breakers[j], streak[j], quiet[j]) BY <1>0, <2>1
    <3>3. CASE breakers[j].known
      <4>1. breakers'[j] = [breakers[j] EXCEPT !.state = "closed", !.failures = 0]
        BY <1>0, <2>1, <2>2, <3>3
      <4>2. QED BY <3>1, <3>2, <3>3, <4>1, <2>4, BreakerAssumption DEF EntryInv, Entry
    <3>4. CASE ~breakers[j].known
      <4>1. breakers'[j] = breakers[j] BY <2>2, <3>4
      <4>2. QED BY <3>1, <3>2, <3>4, <4>1, <2>4, BreakerAssumption DEF EntryInv, Entry
    <3>5. QED BY <3>3, <3>4
  <2>10. ASSUME NEW k \in JID, k # j PROVE EntryInv(breakers'[k], streak'[k], quiet'[k])
    <3>1. breakers'[k] = breakers[k] /\ streak'[k] = streak[k] /\ quiet'[k] = quiet[k]
      BY <1>0, <2>1, <2>2, <2>10
    <3>2. QED BY <1>0, <3>1
  <2>11. QED BY <1>0, <2>2, <2>6, <2>7, <2>8, <2>9, <2>10
<1>4. ASSUME NEW l \in Loop, RecordFailure(l) PROVE
             /\ breakers' \in [JID -> Entry] /\ streak' \in [JID -> 0 .. Threshold] /\ quiet' \in [JID -> Age]
             /\ sending' \in [Loop -> JID \cup {NoJID}] /\ jitter' \in [Loop -> JID \cup {NoJID}]
             /\ \A k \in JID : EntryInv(breakers'[k], streak'[k], quiet'[k])
  <2> DEFINE j == sending[l]
             n == IF quiet[j] > Stale THEN 1
                  ELSE IF streak[j] < Threshold THEN streak[j] + 1 ELSE streak[j]
  <2>1. j \in JID /\ breakers[j].failures < MaxFailures BY <1>0, <1>4 DEF RecordFailure
  <2>2. /\ breakers' = [breakers EXCEPT ![j] = FailedEntry(breakers[j])]
        /\ streak' = [streak EXCEPT ![j] = n]
        /\ quiet' = [quiet EXCEPT ![j] = 0]
        /\ sending' = [sending EXCEPT ![l] = NoJID] /\ jitter' = jitter
    BY <1>0, <1>4, <2>1 DEF RecordFailure
  <2>3. breakers[j] \in Entry /\ streak[j] \in 0 .. Threshold /\ quiet[j] \in Age
    BY <1>0, <2>1
  <2>4. n \in 0 .. Threshold /\ 0 \in Age BY <2>3, Ages, BreakerAssumption
  <2>5. EntryInv(breakers[j], streak[j], quiet[j]) BY <1>0, <2>1
  <2>6. FailedEntry(breakers[j]) \in Entry
    <3>1. breakers[j].failures + 1 \in 0 .. MaxFailures
      BY <2>1, <2>3, BreakerAssumption DEF Entry
    <3>2. CASE breakers[j].failures + 1 >= Threshold
      <4>1. FailedEntry(breakers[j]) =
              [breakers[j] EXCEPT !.known = TRUE, !.failures = breakers[j].failures + 1,
                                  !.lastFail = 0, !.state = "open", !.lastOpen = 0]
        BY <3>2 DEF FailedEntry
      <4>2. QED BY <4>1, <3>1, <2>3, <2>4 DEF Entry
    <3>3. CASE ~(breakers[j].failures + 1 >= Threshold)
      <4>1. FailedEntry(breakers[j]) =
              [breakers[j] EXCEPT !.known = TRUE, !.failures = breakers[j].failures + 1,
                                  !.lastFail = 0]
        BY <3>3 DEF FailedEntry
      <4>2. QED BY <4>1, <3>1, <2>3, <2>4 DEF Entry
    <3>4. QED BY <3>2, <3>3
  <2>7. EntryInv(FailedEntry(breakers[j]), n, 0)
    <3> DEFINE m == breakers[j].failures + 1
    <3>0. breakers[j].failures \in Nat /\ Threshold \in Nat \ {0} /\ Stale \in Nat /\ Age = 0 .. Oldest
      BY <2>3, Ages, BreakerAssumption DEF Entry
    <3>1. n <= m
      BY <3>0, <2>3, <2>5, Ages DEF EntryInv
    <3>2. n >= Threshold => m >= Threshold
      BY <3>0, <3>1, <2>3
    <3>3. CASE m >= Threshold
      <4>1. FailedEntry(breakers[j]) = [breakers[j] EXCEPT !.known = TRUE, !.failures = m, !.lastFail = 0,
                                                           !.state = "open", !.lastOpen = 0]
        BY <3>3 DEF FailedEntry
      <4> DEFINE e == FailedEntry(breakers[j])
      <4>2. e.known /\ e.failures = m /\ e.lastFail = 0 /\ e.state = "open" /\ e.lastOpen = 0
        BY <4>1, <2>3 DEF Entry
      <4> HIDE DEF e, m, n
      <4>3. QED BY <4>2, <3>1, <3>3 DEF EntryInv, e
    <3>4. CASE ~(m >= Threshold)
      <4>1. FailedEntry(breakers[j]) = [breakers[j] EXCEPT !.known = TRUE, !.failures = m, !.lastFail = 0]
        BY <3>4 DEF FailedEntry
      <4> DEFINE e == FailedEntry(breakers[j])
      <4>2. e.known /\ e.failures = m /\ e.lastFail = 0 /\ e.state = breakers[j].state
        BY <4>1, <2>3 DEF Entry
      <4>3. breakers[j].state = "closed"
        BY <3>0, <3>4, <2>5 DEF EntryInv
      <4> HIDE DEF e, m, n
      <4>4. QED BY <4>2, <4>3, <3>1, <3>2, <3>4 DEF EntryInv, e
    <3>5. QED BY <3>3, <3>4
  <2> HIDE DEF j, n
  <2>8. breakers' \in [JID -> Entry] /\ streak' \in [JID -> 0 .. Threshold] /\ quiet' \in [JID -> Age]
    BY <1>0, <2>1, <2>2, <2>4, <2>6
  <2>9. sending' \in [Loop -> JID \cup {NoJID}] BY <1>0, <2>2
  <2>10. ASSUME NEW k \in JID PROVE EntryInv(breakers'[k], streak'[k], quiet'[k])
    <3>1. CASE k = j
      <4>1. breakers'[k] = FailedEntry(breakers[j]) /\ streak'[k] = n /\ quiet'[k] = 0
        BY <1>0, <2>1, <2>2, <3>1
      <4>2. QED BY <4>1, <2>7
    <3>2. CASE k # j
      <4>1. breakers'[k] = breakers[k] /\ streak'[k] = streak[k] /\ quiet'[k] = quiet[k]
        BY <1>0, <2>1, <2>2, <3>2
      <4>2. QED BY <4>1, <1>0
    <3>3. QED BY <3>1, <3>2
  <2>11. QED BY <1>0, <2>2, <2>8, <2>9, <2>10
<1>5. ASSUME NEW l \in Loop, NotSent(l) PROVE
             /\ breakers' = breakers /\ streak' = streak /\ quiet' = quiet
             /\ sending' \in [Loop -> JID \cup {NoJID}] /\ jitter' = jitter
  BY <1>0, <1>5 DEF NotSent
<1>6. CASE TimePasses
  <2>1. \A a \in Age : Later(a) \in Age /\ Later(a) >= a BY Ages DEF Later
  <2>2. breakers' = [j \in JID |-> [breakers[j] EXCEPT !.lastFail = Later(breakers[j].lastFail),
                                                       !.lastOpen = Later(breakers[j].lastOpen)]]
    BY <1>6 DEF TimePasses
  <2>3. quiet' = [j \in JID |-> Later(quiet[j])] /\ streak' = streak /\ sending' = sending /\ jitter' = jitter
    BY <1>6 DEF TimePasses
  <2>4. ASSUME NEW j \in JID
        PROVE breakers'[j] \in Entry /\ quiet'[j] \in Age /\ EntryInv(breakers'[j], streak'[j], quiet'[j])
    <3>1. breakers[j] \in Entry /\ quiet[j] \in Age /\ streak[j] \in 0 .. Threshold BY <1>0
    <3>2. breakers'[j] = [breakers[j] EXCEPT !.lastFail = Later(breakers[j].lastFail),
                                             !.lastOpen = Later(breakers[j].lastOpen)]
      BY <2>2
    <3>3. quiet'[j] = Later(quiet[j]) /\ streak'[j] = streak[j] BY <2>3
    <3>4. breakers[j].lastFail \in Age /\ breakers[j].lastOpen \in Age BY <3>1 DEF Entry
    <3>5. /\ breakers'[j].known = breakers[j].known /\ breakers'[j].state = breakers[j].state
          /\ breakers'[j].failures = breakers[j].failures
          /\ breakers'[j].lastFail = Later(breakers[j].lastFail)
          /\ breakers'[j].lastOpen = Later(breakers[j].lastOpen)
      BY <3>1, <3>2 DEF Entry
    <3>6. EntryInv(breakers[j], streak[j], quiet[j]) BY <1>0
    <3>7. /\ Later(quiet[j]) \in Age /\ Later(quiet[j]) >= quiet[j]
          /\ Later(breakers[j].lastOpen) >= breakers[j].lastOpen
          /\ Later(breakers[j].lastFail) \in Age /\ Later(breakers[j].lastOpen) \in Age
      BY <2>1, <3>1, <3>4
    <3>8. breakers'[j] \in Entry BY <3>1, <3>2, <3>7 DEF Entry
    <3>9. quiet[j] > Stale => Later(quiet[j]) > Stale
      BY <3>1, <3>7, Ages, BreakerAssumption
    <3>10. breakers[j].lastOpen >= Cooldown => Later(breakers[j].lastOpen) >= Cooldown
      BY <3>4, <3>7, Ages, BreakerAssumption
    <3>11. EntryInv(breakers'[j], streak'[j], quiet'[j])
      BY <3>3, <3>5, <3>6, <3>9, <3>10 DEF EntryInv
    <3>12. QED BY <3>3, <3>7, <3>8, <3>11
  <2>5. breakers' \in [JID -> Entry]
    <3>1. DOMAIN breakers' = JID /\ breakers' = [j \in JID |-> breakers'[j]] BY <2>2
    <3>2. QED BY <3>1, <2>4
  <2>6. quiet' \in [JID -> Age]
    <3>1. quiet' = [j \in JID |-> quiet'[j]] BY <2>3
    <3>2. QED BY <3>1, <2>4
  <2>7. QED BY <1>0, <2>3, <2>4, <2>5, <2>6
<1>7. CASE UNCHANGED vars BY <1>0, <1>7 DEF vars
<1>8. QED
  BY <1>0, <1>1, <1>2, <1>3, <1>4, <1>5, <1>6, <1>7 DEF Next, LoopStep

(* The inductive invariant holds in every reachable state.                  *)
THEOREM BreakerInvariant == Spec => []BreakerInv
  BY InitBreaker, StepBreaker, PTL DEF Spec

(* Every variable keeps its type.                                           *)
THEOREM BreakerTypes == Spec => []TypeOK
<1>1. BreakerInv => TypeOK BY DEF BreakerInv
<1>2. QED BY BreakerInvariant, <1>1, PTL

(* One failed probe reopens the circuit, however the reports interleave.    *)
THEOREM ProbeReopens == Spec => []StateMatchesFailures
<1>1. BreakerInv => StateMatchesFailures BY DEF BreakerInv, EntryInv, StateMatchesFailures
<1>2. QED BY BreakerInvariant, <1>1, PTL

(* A recipient with a streak of Threshold failures is refused for a         *)
(* cooldown after the last of them.                                         *)
THEOREM FailingIsBlocked == Spec => []RepeatedFailuresBlock
<1>1. BreakerInv => RepeatedFailuresBlock
  <2> SUFFICES ASSUME BreakerInv, NEW j \in JID, streak[j] >= Threshold, quiet[j] < Cooldown
               PROVE  ~Admits(j)
      BY DEF RepeatedFailuresBlock
  <2>1. EntryInv(breakers[j], streak[j], quiet[j]) /\ breakers[j] \in Entry /\ quiet[j] \in Age
    BY DEF BreakerInv, TypeOK, Entry
  <2>2. breakers[j].state # "closed" /\ breakers[j].lastOpen = quiet[j] BY <2>1 DEF EntryInv
  <2>3. quiet[j] \in Nat BY <2>1, Ages
  <2>4. ~(breakers[j].lastOpen >= Cooldown) BY <2>2, <2>3, BreakerAssumption
  <2>5. breakers[j].state = "open" BY <2>1, <2>2, <2>4 DEF EntryInv, Entry
  <2>6. QED BY <2>4, <2>5 DEF Admits
<1>2. QED BY BreakerInvariant, <1>1, PTL

-----------------------------------------------------------------------------
(* The group operation guard.                                               *)

(* The stamps in the window that ends at n.                                 *)
After(S, n) == {s \in S : s.at > n - GroupWindow}

SameInWindow == \A o \in GroupOp : InWindow(groupOps[o]) = InWindow(allowed[o])

FewInWindow ==
  \A o \in GroupOp :
    /\ IsFiniteSet(groupOps[o])
    /\ Cardinality(InWindow(groupOps[o])) <= GroupLimit[o]

(* The inductive invariant.                                                 *)
GroupInv == GroupTypeOK /\ SameInWindow /\ FewInWindow

-----------------------------------------------------------------------------
(* A later window holds a subset of the stamps: pruning and the passing of  *)
(* time only take stamps out of a list.                                     *)
LEMMA FewerLater ==
  ASSUME NEW S, IsFiniteSet(S), NEW T \in SUBSET S, NEW n \in Nat, Cardinality(S) <= n
  PROVE  IsFiniteSet(T) /\ Cardinality(T) <= n
<1>1. IsFiniteSet(T) /\ Cardinality(T) <= Cardinality(S)
  BY FS_Subset
<1>2. Cardinality(S) \in Nat /\ Cardinality(T) \in Nat
  BY <1>1, FS_CardinalityType
<1> QED
  BY <1>1, <1>2

(* A list below its limit has room for one more stamp.                      *)
LEMMA OneMore ==
  ASSUME NEW S, IsFiniteSet(S), NEW x, NEW n \in Nat, ~(Cardinality(S) >= n)
  PROVE  IsFiniteSet(S \cup {x}) /\ Cardinality(S \cup {x}) <= n
<1>1. Cardinality(S) \in Nat
  BY FS_CardinalityType
<1>2. IsFiniteSet(S \cup {x})
      /\ (Cardinality(S \cup {x}) = Cardinality(S) \/ Cardinality(S \cup {x}) = Cardinality(S) + 1)
  BY FS_AddElement
<1> QED
  BY <1>1, <1>2

(* What is in the window later was in it before.                            *)
LEMMA WindowMoves ==
  ASSUME NEW S \in SUBSET Stamp, NEW n \in Nat, NEW m \in Nat, m >= n
  PROVE  After(After(S, n), m) = After(S, m) /\ After(S, m) \subseteq After(S, n)
<1>1. \A s \in S : s.at \in Nat
  BY DEF Stamp
<1>2. \A s \in S : s.at > m - GroupWindow => s.at > n - GroupWindow
  BY <1>1, GroupAssumption
<1> QED
  BY <1>2 DEF After

(* Two lists that agree on the window agree on every later one.             *)
LEMMA StillTheSame ==
  ASSUME NEW S \in SUBSET Stamp, NEW T \in SUBSET Stamp, NEW n \in Nat, NEW m \in Nat, m >= n,
         After(S, n) = After(T, n)
  PROVE  After(S, m) = After(T, m)
  BY WindowMoves

(* A list keeps to its limit as the window moves.                           *)
LEMMA StillFew ==
  ASSUME NEW S \in SUBSET Stamp, NEW n \in Nat, NEW m \in Nat, m >= n, IsFiniteSet(S),
         NEW limit \in Nat, Cardinality(After(S, n)) <= limit
  PROVE  Cardinality(After(S, m)) <= limit
<1>1. IsFiniteSet(After(S, n))
  BY FS_Subset DEF After
<1>2. After(S, m) \in SUBSET After(S, n)
  BY WindowMoves
<1> QED
  BY <1>1, <1>2, FewerLater

(* The stamp of an operation is a stamp.                                    *)
LEMMA NewStamp ==
  ASSUME GroupTypeOK, NEW lag \in {0, 1}
  PROVE  [at |-> groupNow + lag, no |-> allowedNo] \in Stamp
  BY DEF GroupTypeOK, Stamp

(* The invariant holds at the start.                                        *)
LEMMA GroupStarts == GroupInit => GroupInv
<1> SUFFICES ASSUME GroupInit PROVE GroupInv
  OBVIOUS
<1>1. GroupTypeOK
  BY DEF GroupInit, GroupTypeOK
<1>2. \A o \in GroupOp : groupOps[o] = {} /\ allowed[o] = {} /\ InWindow(groupOps[o]) = {}
  BY DEF GroupInit, InWindow
<1>3. SameInWindow
  BY <1>2 DEF SameInWindow, InWindow
<1>4. FewInWindow
  BY <1>2, FS_EmptySet, GroupAssumption DEF FewInWindow
<1> QED
  BY <1>1, <1>3, <1>4 DEF GroupInv

(* When the clock moves on and no list changes, nothing is lost.            *)
LEMMA ClockKeeps ==
  ASSUME GroupInv, NEW o \in GroupOp, NEW m \in Nat, m >= groupNow
  PROVE  /\ After(groupOps[o], m) = After(allowed[o], m)
         /\ Cardinality(After(groupOps[o], m)) <= GroupLimit[o]
<1>1. groupOps[o] \in SUBSET Stamp /\ allowed[o] \in SUBSET Stamp /\ groupNow \in Nat
  BY DEF GroupInv, GroupTypeOK
<1>2. After(groupOps[o], groupNow) = After(allowed[o], groupNow)
  BY DEF GroupInv, SameInWindow, InWindow, After
<1>3. /\ IsFiniteSet(groupOps[o])
      /\ Cardinality(After(groupOps[o], groupNow)) <= GroupLimit[o]
  BY DEF GroupInv, FewInWindow, InWindow, After
<1>4. GroupLimit[o] \in Nat
  BY GroupAssumption
<1>5. After(groupOps[o], m) = After(allowed[o], m)
  BY <1>1, <1>2, StillTheSame
<1>6. Cardinality(After(groupOps[o], m)) <= GroupLimit[o]
  BY <1>1, <1>3, <1>4, StillFew
<1> QED
  BY <1>5, <1>6

(* Check keeps the invariant, whether it allows the operation or refuses.   *)
LEMMA CheckKeeps ==
  ASSUME GroupInv, NEW o \in GroupOp, NEW lag \in {0, 1}, Check(o, lag)
  PROVE  GroupInv'
<1> DEFINE kept == InWindow(groupOps[o])
           stamp == [at |-> groupNow + lag, no |-> allowedNo]
           m == groupNow + lag
<1>1. /\ groupNow \in Nat /\ m \in Nat /\ m >= groupNow /\ allowedNo \in Nat
      /\ groupOps \in [GroupOp -> SUBSET Stamp] /\ allowed \in [GroupOp -> SUBSET Stamp]
  BY DEF GroupInv, GroupTypeOK
<1>2. stamp \in Stamp
  BY NewStamp DEF GroupInv
<1>3. kept = After(groupOps[o], groupNow) /\ kept \in SUBSET Stamp /\ kept \subseteq groupOps[o]
  BY <1>1 DEF InWindow, After
<1>4. IsFiniteSet(groupOps[o]) /\ IsFiniteSet(kept)
  BY <1>3, FS_Subset DEF GroupInv, FewInWindow
<1>5. After(kept, m) = After(groupOps[o], m)
  BY <1>1, <1>3, WindowMoves
<1>6. groupNow' = m
  BY DEF Check
<1>7. \A p \in GroupOp \ {o} : /\ groupOps'[p] = groupOps[p] /\ allowed'[p] = allowed[p]
                               /\ IsFiniteSet(groupOps[p])
  BY <1>1 DEF Check, GroupInv, FewInWindow
<1>8. GroupLimit[o] \in Nat
  BY GroupAssumption
<1>9. CASE Cardinality(kept) >= GroupLimit[o]
  <2>1. groupOps' = [groupOps EXCEPT ![o] = kept] /\ UNCHANGED <<allowed, allowedNo>>
    BY <1>9 DEF Check
  <2>2. GroupTypeOK'
    BY <1>1, <1>3, <1>6, <2>1 DEF GroupTypeOK
  <2>3. groupOps'[o] = kept /\ allowed'[o] = allowed[o]
    BY <1>1, <2>1
  <2>4. \A p \in GroupOp : After(groupOps'[p], m) = After(groupOps[p], m) /\ allowed'[p] = allowed[p]
    BY <1>5, <1>7, <2>3
  <2>5. SameInWindow'
    <3>1. \A p \in GroupOp : After(groupOps'[p], m) = After(allowed'[p], m)
      BY <1>1, <2>4, ClockKeeps
    <3> QED BY <1>6, <3>1 DEF SameInWindow, InWindow, After
  <2>6. FewInWindow'
    <3>1. \A p \in GroupOp : Cardinality(After(groupOps'[p], m)) <= GroupLimit[p]
      BY <1>1, <2>4, ClockKeeps
    <3>2. \A p \in GroupOp : IsFiniteSet(groupOps'[p])
      BY <1>4, <1>7, <2>3
    <3> QED BY <1>6, <3>1, <3>2 DEF FewInWindow, InWindow, After
  <2> QED BY <2>2, <2>5, <2>6 DEF GroupInv
<1>10. CASE ~(Cardinality(kept) >= GroupLimit[o])
  <2>1. /\ groupOps' = [groupOps EXCEPT ![o] = kept \cup {stamp}]
        /\ allowed' = [allowed EXCEPT ![o] = @ \cup {stamp}]
        /\ allowedNo' = allowedNo + 1
    BY <1>10 DEF Check
  <2>2. GroupTypeOK'
    BY <1>1, <1>2, <1>3, <1>6, <2>1 DEF GroupTypeOK
  <2>3. groupOps'[o] = kept \cup {stamp} /\ allowed'[o] = allowed[o] \cup {stamp}
    BY <1>1, <2>1
  <2>4. SameInWindow'
    <3>1. ASSUME NEW p \in GroupOp PROVE After(groupOps'[p], m) = After(allowed'[p], m)
      <4>1. CASE p = o
        <5>1. After(groupOps[o], m) = After(allowed[o], m)
          BY <1>1, ClockKeeps
        <5> QED BY <1>5, <2>3, <4>1, <5>1 DEF After
      <4>2. CASE p # o
        BY <1>1, <1>7, <4>2, ClockKeeps
      <4> QED BY <4>1, <4>2
    <3> QED BY <1>6, <3>1 DEF SameInWindow, InWindow, After
  <2>5. FewInWindow'
    <3>1. IsFiniteSet(kept \cup {stamp}) /\ Cardinality(kept \cup {stamp}) <= GroupLimit[o]
      BY <1>4, <1>8, <1>10, OneMore
    <3>2. Cardinality(After(groupOps'[o], m)) <= GroupLimit[o]
      <4>1. After(groupOps'[o], m) \in SUBSET (kept \cup {stamp})
        BY <2>3 DEF After
      <4> QED BY <1>8, <3>1, <4>1, FewerLater
    <3>3. \A p \in GroupOp \ {o} : Cardinality(After(groupOps'[p], m)) <= GroupLimit[p]
      BY <1>1, <1>7, ClockKeeps
    <3>4. \A p \in GroupOp : IsFiniteSet(groupOps'[p])
      BY <1>7, <2>3, <3>1
    <3> QED BY <1>6, <3>2, <3>3, <3>4 DEF FewInWindow, InWindow, After
  <2> QED BY <2>2, <2>4, <2>5 DEF GroupInv
<1> QED
  BY <1>9, <1>10

(* Reset and the clock keep it.                                             *)
LEMMA ResetKeeps == GroupInv /\ GroupReset => GroupInv'
<1> SUFFICES ASSUME GroupInv, GroupReset PROVE GroupInv'
  OBVIOUS
<1>1. GroupTypeOK'
  BY DEF GroupInv, GroupTypeOK, GroupReset
<1>2. \A o \in GroupOp : groupOps'[o] = {} /\ allowed'[o] = {}
  BY DEF GroupReset
<1>3. SameInWindow'
  BY <1>2 DEF SameInWindow, InWindow
<1>4. FewInWindow'
  <2>1. \A o \in GroupOp : InWindow(groupOps[o])' = {}
    BY <1>2 DEF InWindow
  <2> QED BY <1>2, <2>1, FS_EmptySet, GroupAssumption DEF FewInWindow
<1> QED
  BY <1>1, <1>3, <1>4 DEF GroupInv

(* A clock tick moves the window on and touches neither list.               *)
LEMMA TickKeeps == GroupInv /\ GroupTick => GroupInv'
<1> SUFFICES ASSUME GroupInv, GroupTick PROVE GroupInv'
  OBVIOUS
<1>1. groupNow \in Nat /\ groupNow' = groupNow + 1 /\ groupNow' \in Nat /\ groupNow' >= groupNow
      /\ UNCHANGED <<groupOps, allowed, allowedNo>>
  BY DEF GroupInv, GroupTypeOK, GroupTick
<1>2. GroupTypeOK'
  BY <1>1 DEF GroupInv, GroupTypeOK
<1>3. \A o \in GroupOp : /\ After(groupOps[o], groupNow') = After(allowed[o], groupNow')
                         /\ Cardinality(After(groupOps[o], groupNow')) <= GroupLimit[o]
  BY <1>1, ClockKeeps
<1>4. SameInWindow' /\ FewInWindow'
  BY <1>1, <1>3 DEF SameInWindow, FewInWindow, InWindow, After, GroupInv
<1> QED
  BY <1>2, <1>4 DEF GroupInv

(* The invariant holds in every reachable state.                            *)
THEOREM GroupInvHolds == GroupSpec => []GroupInv
<1>1. GroupInv /\ [GroupNext]_groupVars => GroupInv'
  <2> SUFFICES ASSUME GroupInv, [GroupNext]_groupVars PROVE GroupInv'
    OBVIOUS
  <2>1. CASE \E o \in GroupOp, lag \in {0, 1} : Check(o, lag)
    BY <2>1, CheckKeeps
  <2>2. CASE GroupReset
    BY <2>2, ResetKeeps
  <2>3. CASE GroupTick
    BY <2>3, TickKeeps
  <2>4. CASE UNCHANGED groupVars
    BY <2>4 DEF groupVars, GroupInv, GroupTypeOK, SameInWindow, FewInWindow, InWindow
  <2> QED
    BY <2>1, <2>2, <2>3, <2>4 DEF GroupNext
<1> QED
  BY <1>1, GroupStarts, PTL DEF GroupSpec

(* Check keeps the limit of every ten minutes for all limits, however the   *)
(* clock moves between its two readings.                                    *)
THEOREM CapKept == GroupSpec => []GroupCap
<1>1. GroupInv => GroupCap
  BY DEF GroupInv, SameInWindow, FewInWindow, GroupCap
<1> QED
  BY <1>1, GroupInvHolds, PTL

(* GetStats reports exactly what was allowed in the last ten minutes.       *)
THEOREM StatsExact == GroupSpec => []GroupStatsExact
<1>1. GroupInv => GroupStatsExact
  BY DEF GroupInv, SameInWindow, GroupStatsExact, GroupStats
<1> QED
  BY <1>1, GroupInvHolds, PTL

-----------------------------------------------------------------------------
(* The ticker of the proxy rotator.                                         *)

RotorState ==
  [at : {"none", "evaluate", "select", "rotate", "done"}, on : Int]

TickerTypes ==
  /\ made \in 0 .. MaxTickers /\ ticker \in Nat /\ late \in Int
  /\ rotor \in [Rotor -> RotorState]
  /\ \A g \in Rotor : g > made => rotor[g].at = "none"

(* With no ticker every goroutine is at rest, unless Stop was hasty.        *)
AtRest(g) == At(g, "none") \/ At(g, "done") \/ Parked(g)

CalmStop ==
  /\ ticker = 0 /\ ~hasty => \A g \in Rotor : AtRest(g)
  /\ panicked => hasty

(* The goroutines that may still rotate after Stop: whoever has rotated     *)
(* finds no ticker.                                                         *)
MayRotate == {g \in Rotor : rotor[g].at \in {"select", "rotate"}}

QuietSoon ==
  IF late >= 0 THEN ticker = 0 /\ late + Cardinality(MayRotate) <= made ELSE late = -1

TickerInv ==
  TickerTypes /\ hasty \in BOOLEAN /\ panicked \in BOOLEAN /\ closed \in BOOLEAN /\ CalmStop /\ QuietSoon

(* The goroutines that may rotate are no more than were started.            *)
LEMMA RotorCount ==
  ASSUME TickerTypes
  PROVE  /\ IsFiniteSet(MayRotate) /\ Cardinality(MayRotate) \in Nat
         /\ Cardinality(MayRotate) <= made
<1>1. made \in Nat /\ MayRotate \subseteq 1 .. made
  BY TickerAssumption DEF TickerTypes, MayRotate, Rotor
<1>2. IsFiniteSet(1 .. made) /\ Cardinality(1 .. made) = made
  BY <1>1, FS_Interval
<1> QED
  BY <1>1, <1>2, FS_Subset, FS_CardinalityType

(* One goroutine goes somewhere.                                            *)
LEMMA RotorMoves ==
  ASSUME TickerTypes, NEW g \in Rotor, NEW p \in {"evaluate", "select", "rotate", "done"},
         Move(g, p), ~At(g, "none")
  PROVE  /\ rotor' \in [Rotor -> RotorState]
         /\ rotor'[g].at = p /\ rotor'[g].on = rotor[g].on
         /\ \A h \in Rotor \ {g} : rotor'[h] = rotor[h]
         /\ \A h \in Rotor : h > made => rotor'[h].at = "none"
<1>1. /\ rotor' \in [Rotor -> RotorState] /\ rotor'[g].at = p /\ rotor'[g].on = rotor[g].on
      /\ \A h \in Rotor \ {g} : rotor'[h] = rotor[h]
  BY DEF TickerTypes, RotorState, Move
<1> QED
  BY <1>1 DEF TickerTypes, At

(* StartRotateEvery and Stop.                                               *)
LEMMA StartStopCalm ==
  ASSUME TickerInv, StartRotateEvery \/ Stop
  PROVE  TickerInv'
<1>0. TickerTypes /\ CalmStop /\ QuietSoon
  BY DEF TickerInv
<1>1. CASE StartRotateEvery
  <2>1. PICK n \in Rotor : n = made + 1 /\ n # 0
    BY <1>0, <1>1, TickerAssumption DEF TickerTypes, StartRotateEvery, Rotor
  <2>2. /\ made' = n /\ ticker' = n /\ rotor' = [rotor EXCEPT ![n].at = "evaluate"] /\ late' = -1
        /\ UNCHANGED <<closed, panicked, hasty>>
    BY <1>1, <2>1 DEF StartRotateEvery, Move
  <2>3. /\ rotor' \in [Rotor -> RotorState]
        /\ \A h \in Rotor \ {n} : rotor'[h] = rotor[h]
    BY <1>0, <2>2 DEF TickerTypes, RotorState
  <2>4. TickerTypes'
    BY <1>0, <2>1, <2>2, <2>3, TickerAssumption DEF TickerTypes, Rotor
  <2>5. CalmStop'
    BY <1>0, <2>1, <2>2 DEF CalmStop
  <2>6. QuietSoon'
    BY <2>2 DEF QuietSoon
  <2> QED
    BY <2>2, <2>4, <2>5, <2>6 DEF TickerInv
<1>2. CASE Stop
  <2>1. /\ ticker' = 0 /\ UNCHANGED <<made, ticked, rotor>>
        /\ late' = IF late < 0 THEN 0 ELSE late
    BY <1>2 DEF Stop
  <2>2. panicked' = closed /\ closed' = TRUE /\ hasty' = (hasty \/ Hasty)
    BY <1>2 DEF Stop
  <2>3. TickerTypes'
    BY <1>0, <2>1 DEF TickerTypes
  <2>4. CalmStop'
    <3>1. Hasty \/ \A g \in Rotor : AtRest(g)
      BY DEF Hasty, AtRest
    <3>2. \A g \in Rotor : AtRest(g) => AtRest(g)'
      BY <2>1 DEF AtRest, At, Parked
    <3>3. closed => Hasty
      BY DEF Hasty
    <3> QED
      BY <2>2, <3>1, <3>2, <3>3 DEF CalmStop
  <2>5. QuietSoon'
    <3>1. MayRotate' = MayRotate
      BY <2>1 DEF MayRotate
    <3> QED
      BY <1>0, <2>1, <3>1, RotorCount DEF QuietSoon, TickerTypes
  <2> QED
    BY <2>2, <2>3, <2>4, <2>5 DEF TickerInv
<1> QED
  BY <1>1, <1>2

(* A goroutine evaluates its channels, takes a tick or the stop, or rotates. *)
LEMMA RotorStepCalm ==
  ASSUME TickerInv, NEW g \in Rotor, RotorStep(g)
  PROVE  TickerInv'
<1>0. TickerTypes /\ CalmStop /\ QuietSoon
  BY DEF TickerInv
<1>1. CASE Evaluate(g) /\ ticker = 0
  <2>1. /\ panicked' = TRUE /\ UNCHANGED <<rotor, ticker, made, ticked, closed, hasty, late>>
        /\ rotor[g].at = "evaluate"
    BY <1>1 DEF Evaluate, At
  <2>2. hasty
    BY <1>0, <1>1, <2>1 DEF CalmStop, AtRest, At, Parked, TickerInv
  <2>3. TickerTypes' /\ QuietSoon'
    BY <1>0, <2>1 DEF TickerTypes, QuietSoon, MayRotate
  <2> QED
    BY <2>1, <2>2, <2>3 DEF TickerInv, CalmStop
<1>2. CASE Evaluate(g) /\ ticker # 0
  <2>1. /\ rotor' = [rotor EXCEPT ![g] = [at |-> "select", on |-> ticker]] /\ rotor[g].at = "evaluate"
        /\ UNCHANGED <<panicked, ticker, made, ticked, closed, hasty, late>>
    BY <1>2 DEF Evaluate, At
  <2>2. [at |-> "select", on |-> ticker] \in RotorState
    BY <1>0 DEF RotorState, TickerTypes
  <2>3. TickerTypes'
    BY <1>0, <2>1, <2>2 DEF TickerTypes
  <2>4. QuietSoon'
    BY <1>0, <1>2, <2>1 DEF QuietSoon
  <2> QED
    BY <1>0, <1>2, <2>1, <2>3, <2>4 DEF TickerInv, CalmStop
<1>3. CASE TakeTick(g)
  <2>1. /\ UNCHANGED <<panicked, ticker, made, closed, hasty, late>> /\ ticked' \subseteq ticked
        /\ rotor[g].at = "select" /\ ~Parked(g)
    BY <1>3 DEF TakeTick, At, Parked
  <2>2. /\ rotor' \in [Rotor -> RotorState] /\ rotor'[g].at = "rotate"
        /\ \A h \in Rotor \ {g} : rotor'[h] = rotor[h]
        /\ \A h \in Rotor : h > made => rotor'[h].at = "none"
    BY <1>0, <1>3, <2>1, RotorMoves DEF TakeTick, At
  <2>3. ticker # 0 \/ hasty
    BY <1>0, <2>1 DEF CalmStop, AtRest, At, TickerInv
  <2>4. CalmStop'
    BY <1>0, <2>1, <2>3 DEF CalmStop
  <2>5. MayRotate' = MayRotate
    BY <2>1, <2>2 DEF MayRotate
  <2>6. TickerTypes' /\ QuietSoon'
    BY <1>0, <2>1, <2>2, <2>5 DEF TickerTypes, QuietSoon
  <2> QED
    BY <2>1, <2>4, <2>6 DEF TickerInv
<1>4. CASE TakeStop(g)
  <2>1. /\ UNCHANGED <<panicked, ticker, made, ticked, closed, hasty, late>> /\ rotor[g].at = "select"
    BY <1>4 DEF TakeStop, At
  <2>2. /\ rotor' \in [Rotor -> RotorState] /\ rotor'[g].at = "done"
        /\ \A h \in Rotor \ {g} : rotor'[h] = rotor[h]
        /\ \A h \in Rotor : h > made => rotor'[h].at = "none"
    BY <1>0, <1>4, <2>1, RotorMoves DEF TakeStop, At
  <2>3. \A h \in Rotor : AtRest(h) => AtRest(h)'
    BY <2>1, <2>2 DEF AtRest, At, Parked
  <2>4. CalmStop'
    BY <1>0, <2>1, <2>3 DEF CalmStop
  <2>5. TickerTypes'
    BY <1>0, <2>1, <2>2 DEF TickerTypes
  <2>6. MayRotate' \subseteq MayRotate
    BY <2>2 DEF MayRotate
  <2>7. Cardinality(MayRotate') <= Cardinality(MayRotate) /\ Cardinality(MayRotate') \in Nat
    BY <1>0, <2>6, RotorCount, FS_Subset, FS_CardinalityType
  <2>8. QuietSoon'
    BY <1>0, <2>1, <2>7, RotorCount DEF QuietSoon, TickerTypes
  <2> QED
    BY <2>1, <2>4, <2>5, <2>8 DEF TickerInv
<1>5. CASE Rotates(g)
  <2>1. /\ UNCHANGED <<panicked, ticker, made, ticked, closed, hasty>> /\ rotor[g].at = "rotate"
        /\ late' = IF late >= 0 /\ late <= MaxTickers THEN late + 1 ELSE late
    BY <1>5 DEF Rotates, At
  <2>2. /\ rotor' \in [Rotor -> RotorState] /\ rotor'[g].at = "evaluate"
        /\ \A h \in Rotor \ {g} : rotor'[h] = rotor[h]
        /\ \A h \in Rotor : h > made => rotor'[h].at = "none"
    BY <1>0, <1>5, <2>1, RotorMoves DEF Rotates, At
  <2>3. ticker # 0 \/ hasty
    BY <1>0, <2>1 DEF CalmStop, AtRest, At, Parked, TickerInv
  <2>4. CalmStop'
    BY <1>0, <2>1, <2>3 DEF CalmStop
  <2>5. TickerTypes'
    BY <1>0, <2>1, <2>2 DEF TickerTypes
  <2>6. g \in MayRotate /\ MayRotate' = MayRotate \ {g}
    BY <2>1, <2>2 DEF MayRotate
  <2>7. Cardinality(MayRotate') = Cardinality(MayRotate) - 1
    BY <1>0, <2>6, RotorCount, FS_RemoveElement
  <2>8. QuietSoon'
    BY <1>0, <2>1, <2>7, RotorCount, TickerAssumption DEF QuietSoon, TickerTypes
  <2> QED
    BY <2>1, <2>4, <2>5, <2>8 DEF TickerInv
<1> QED
  BY <1>1, <1>2, <1>3, <1>4, <1>5 DEF RotorStep

(* A Stop that finds every goroutine parked ends the rotation and not the   *)
(* process, and whoever Stop surprises rotates at most once more, for any   *)
(* number of tickers.                                                       *)
THEOREM StopSafety == TickerSpec => []StopIsSafe
<1>1. TickerInit => TickerInv
  <2> SUFFICES ASSUME TickerInit PROVE TickerInv
    OBVIOUS
  <2>1. [at |-> "none", on |-> 0] \in RotorState
    BY DEF RotorState
  <2>2. TickerTypes
    BY <2>1, TickerAssumption DEF TickerInit, TickerTypes
  <2>3. CalmStop
    BY DEF TickerInit, CalmStop, AtRest, At
  <2>4. QuietSoon
    BY DEF TickerInit, QuietSoon
  <2> QED
    BY <2>2, <2>3, <2>4 DEF TickerInit, TickerInv
<1>2. TickerInv /\ [TickerNext]_tickerVars => TickerInv'
  <2> SUFFICES ASSUME TickerInv, [TickerNext]_tickerVars PROVE TickerInv'
    OBVIOUS
  <2>1. CASE Ticks
    <3>1. ticker # 0 /\ UNCHANGED <<ticker, made, closed, rotor, panicked, hasty, late>>
      BY <2>1 DEF Ticks
    <3> QED
      BY <3>1 DEF TickerInv, TickerTypes, CalmStop, QuietSoon, MayRotate
  <2>2. CASE UNCHANGED tickerVars
    BY <2>2 DEF tickerVars, TickerInv, TickerTypes, CalmStop, QuietSoon, MayRotate, AtRest, At, Parked
  <2> QED
    BY <2>1, <2>2, StartStopCalm, RotorStepCalm DEF TickerNext
<1>3. TickerInv => StopIsSafe
  <2> SUFFICES ASSUME TickerInv PROVE late <= made
    BY DEF TickerInv, CalmStop, StopIsSafe, PanicNeedsHaste, QuietAfterStop
  <2> QED
    BY RotorCount, TickerAssumption DEF TickerInv, TickerTypes, QuietSoon
<1> QED
  BY <1>1, <1>2, <1>3, PTL DEF TickerSpec

-----------------------------------------------------------------------------
(* A list of the delivery tracker and what it should know: the two agree    *)
(* within the hour, and the history holds nothing older.                    *)
Faithful(list, hist) ==
  /\ list \in Times(DeliveryHour) /\ hist \in Times(DeliveryHour)
  /\ Agree(list, hist, DeliveryHour)
  /\ Count(hist, DeliveryHour) = Len(hist)

LEMMA FaithfulNew == Faithful(<<>>, <<>>)
  BY AgreeEmpty, DeliveryAssumption DEF Faithful, Agree

(* prune shortens the list to what the history holds.                       *)
LEMMA FaithfulPruned ==
  ASSUME NEW list, NEW hist, Faithful(list, hist)
  PROVE  /\ Faithful(KeepAfter(list, DeliveryHour), hist)
         /\ Len(KeepAfter(list, DeliveryHour)) = Len(hist)
<1>1. DeliveryHour \in Nat /\ DeliveryHour <= DeliveryHour
  BY DeliveryAssumption
<1>2. Faithful(KeepAfter(list, DeliveryHour), hist)
  BY <1>1, AgreeKeep, KeepAfterFilters DEF Faithful
<1>3. Len(KeepAfter(list, DeliveryHour)) = Count(list, DeliveryHour)
  BY <1>1, KeepAfterFilters DEF Faithful
<1>4. Count(list, DeliveryHour) = Count(hist, DeliveryHour)
  BY <1>1 DEF Faithful, Agree
<1> QED
  BY <1>2, <1>3, <1>4 DEF Faithful

LEMMA FaithfulAppended ==
  ASSUME NEW list, NEW hist, Faithful(list, hist)
  PROVE  Faithful(Append(list, 0), Append(hist, 0))
<1>1. DeliveryHour \in Nat /\ DeliveryHour # 0
  BY DeliveryAssumption
<1>2. /\ Append(list, 0) \in Times(DeliveryHour) /\ Append(hist, 0) \in Times(DeliveryHour)
      /\ Count(Append(hist, 0), DeliveryHour) = Count(hist, DeliveryHour) + 1
  BY <1>1, CountAppend DEF Faithful
<1>3. Agree(Append(list, 0), Append(hist, 0), DeliveryHour)
  BY <1>1, AgreeAppend DEF Faithful
<1>4. Len(Append(hist, 0)) = Len(hist) + 1
  BY <1>1, TimesType DEF Faithful
<1> QED
  BY <1>2, <1>3, <1>4 DEF Faithful

LEMMA FaithfulGrown ==
  ASSUME NEW list, NEW hist, Faithful(list, hist)
  PROVE  Faithful(Grown(list), KeepAfter(Grown(hist), DeliveryHour))
<1>1. /\ DeliveryHour \in Nat /\ DeliveryHour > 0 /\ 0 < DeliveryHour /\ DeliveryHour <= DeliveryHour
      /\ DeliveryHour \in 0 .. DeliveryHour
  BY DeliveryAssumption
<1>2. PICK l, h : l = Older(list, DeliveryHour) /\ h = Older(hist, DeliveryHour)
  OBVIOUS
<1>3. l \in Times(DeliveryHour) /\ h \in Times(DeliveryHour)
  BY <1>1, <1>2, CountOlder DEF Faithful
<1>4. Agree(l, h, DeliveryHour)
  BY <1>1, <1>2, AgreeOlder DEF Faithful
<1>5. Agree(l, KeepAfter(h, DeliveryHour), DeliveryHour)
  BY <1>1, <1>3, <1>4, AgreeKeep
<1>6. /\ KeepAfter(h, DeliveryHour) \in Times(DeliveryHour)
      /\ Len(KeepAfter(h, DeliveryHour)) = Count(h, DeliveryHour)
      /\ Agree(KeepAfter(h, DeliveryHour), h, DeliveryHour)
  BY <1>1, <1>3, KeepAfterFilters
<1>7. Count(KeepAfter(h, DeliveryHour), DeliveryHour) = Count(h, DeliveryHour)
  BY <1>1, <1>6 DEF Agree
<1> QED
  BY <1>2, <1>3, <1>5, <1>6, <1>7 DEF Faithful, Grown

DeliveryInv ==
  /\ lastHour = [sent |-> lastHour.sent, delivered |-> lastHour.delivered]
  /\ Faithful(sent, lastHour.sent)
  /\ Faithful(delivered, lastHour.delivered)

(* DeliveryStatsExact: whenever GetStats is asked, it counts what was sent  *)
(* and received in the last hour, no more and no less, for every sequence   *)
(* of sends, receipts, resets and questions.                                *)
THEOREM StatsCountTheHour == DeliverySpec => []DeliveryStatsExact
<1>1. DeliveryInit => DeliveryInv
  BY FaithfulNew DEF DeliveryInit, DeliveryInv, Nothing
<1>2. DeliveryInv /\ [DeliveryNext]_deliveryVars => DeliveryInv'
  <2> SUFFICES ASSUME DeliveryInv, [DeliveryNext]_deliveryVars PROVE DeliveryInv'
    OBVIOUS
  <2> USE DEF DeliveryInv
  <2>1. CASE OnMessageSent
    <3>1. lastHour' = [sent |-> Append(lastHour.sent, 0), delivered |-> lastHour.delivered]
      BY <2>1 DEF OnMessageSent
    <3>2. sent' = KeepAfter(Append(sent, 0), DeliveryHour) /\ delivered' = KeepAfter(delivered, DeliveryHour)
      BY <2>1 DEF OnMessageSent, prune
    <3>3. Faithful(Append(sent, 0), Append(lastHour.sent, 0))
      BY FaithfulAppended
    <3> QED
      BY <3>1, <3>2, <3>3, FaithfulPruned
  <2>2. CASE OnDeliveryReceipt
    <3>1. lastHour' = [sent |-> lastHour.sent, delivered |-> Append(lastHour.delivered, 0)]
      BY <2>2 DEF OnDeliveryReceipt
    <3>2. sent' = KeepAfter(sent, DeliveryHour) /\ delivered' = KeepAfter(Append(delivered, 0), DeliveryHour)
      BY <2>2 DEF OnDeliveryReceipt, prune
    <3>3. Faithful(Append(delivered, 0), Append(lastHour.delivered, 0))
      BY FaithfulAppended
    <3> QED
      BY <3>1, <3>2, <3>3, FaithfulPruned
  <2>3. CASE DeliveryGetStats
    BY <2>3, FaithfulPruned DEF DeliveryGetStats, prune
  <2>4. CASE DeliveryReset
    BY <2>4, FaithfulNew DEF DeliveryReset, Nothing
  <2>5. CASE UNCHANGED deliveryVars
    BY <2>5 DEF deliveryVars
  <2>6. CASE DeliveryTick
    BY <2>6, FaithfulGrown DEF DeliveryTick
  <2> QED
    BY <2>1, <2>2, <2>3, <2>4, <2>5, <2>6 DEF DeliveryNext
<1>3. DeliveryInv => DeliveryStatsExact
  BY FaithfulPruned DEF DeliveryInv, DeliveryStatsExact
<1> QED
  BY <1>1, <1>2, <1>3, PTL DEF DeliverySpec

-----------------------------------------------------------------------------
(* The retry tracker.                                                       *)

(* Of the retries of one message, oldest first, the last k are in the list. *)
(* Each of these came after the last Clear and its goroutine still sleeps,  *)
(* and every goroutine belongs to a retry.  A retry that is no longer in    *)
(* the list was cleared, or is old, or was deleted by the goroutine of one  *)
(* that is old.                                                             *)
RetryOK(list, k, asleep, age) ==
  /\ k \in 0 .. Len(list)
  /\ asleep \in [RetryAge -> Nat]
  /\ list \in Times(RetryHorizon + 1)
  /\ \A i \in 1 .. Len(list) : list[i] \in RetryAge
  /\ \A i \in 1 .. Len(list) : i > Len(list) - k => list[i] <= age /\ asleep[list[i]] > 0
  /\ \A a \in RetryAge : asleep[a] > 0 =>
       a <= RetryWindow + RetryLag /\ \E i \in 1 .. Len(list) : list[i] = a
  /\ \A i \in 1 .. Len(list) : i <= Len(list) - k =>
       \/ age <= list[i] \/ list[i] >= RetryWindow
       \/ \E j \in 1 .. Len(list) :
            list[j] >= RetryWindow /\ list[j] <= list[i] + RetryWindow + RetryLag

RetryInv ==
  /\ DOMAIN retries = RetryMsg /\ DOMAIN timers = RetryMsg /\ DOMAIN recorded = RetryMsg
  /\ timers \in [RetryMsg -> [RetryAge -> Nat]]
  /\ cleared \in RetryAge
  /\ \A m \in RetryMsg : RetryOK(recorded[m], retries[m], timers[m], cleared)

LEMMA RetryTimes ==
  /\ RetryWindow \in Nat \ {0} /\ RetryLag \in Nat /\ RetryHorizon \in Nat
  /\ RetryHorizon = RetryWindow + RetryWindow + RetryLag
  /\ RetryAge = 0 .. RetryHorizon /\ 0 \in RetryAge
  BY RetryAssumption DEF RetryHorizon, RetryAge

LEMMA RecordKeeps ==
  ASSUME NEW list, NEW k, NEW asleep, NEW age \in RetryAge, RetryOK(list, k, asleep, age)
  PROVE  RetryOK(Append(list, 0), k + 1, [asleep EXCEPT ![0] = @ + 1], age)
<1>1. PICK H \in Nat, W \in Nat, V \in Nat :
        /\ H = RetryHorizon /\ W = RetryWindow /\ V = RetryWindow + RetryLag
        /\ RetryAge = 0 .. H
  BY RetryTimes
<1>2. PICK n \in Nat : n = Len(list) /\ k \in 0 .. n /\ list \in Times(H + 1)
  BY <1>1, TimesType DEF RetryOK
<1>3. PICK more : more = Append(list, 0)
  OBVIOUS
<1>4. more \in Times(H + 1)
  BY <1>1, <1>2, <1>3, CountAppend
<1>5. /\ Len(more) = n + 1 /\ more[n + 1] = 0
      /\ \A i \in 1 .. n : more[i] = list[i]
  BY <1>1, <1>2, <1>3, TimesType
<1>6. PICK after : after = [asleep EXCEPT ![0] = @ + 1]
  OBVIOUS
<1>7. /\ after \in [RetryAge -> Nat]
      /\ \A a \in RetryAge : after[a] > 0 <=> a = 0 \/ asleep[a] > 0
  BY <1>6, RetryTimes DEF RetryOK
<1>8. \A i \in 1 .. n + 1 : i \in 1 .. n \/ i = n + 1
  OBVIOUS
<1>9. \A i \in 1 .. n + 1 : more[i] \in RetryAge
  BY <1>2, <1>5, <1>8, RetryTimes DEF RetryOK
<1>10. \A i \in 1 .. n + 1 : i > (n + 1) - (k + 1) => more[i] <= age /\ after[more[i]] > 0
  <2> SUFFICES ASSUME NEW i \in 1 .. n + 1, i > n - k PROVE more[i] <= age /\ after[more[i]] > 0
    BY <1>2
  <2>1. CASE i = n + 1
    BY <1>1, <1>5, <1>7, <2>1
  <2>2. CASE i \in 1 .. n
    <3>1. list[i] \in RetryAge /\ list[i] <= age /\ asleep[list[i]] > 0
      BY <1>2, <2>2 DEF RetryOK
    <3> QED
      BY <1>5, <1>7, <2>2, <3>1
  <2> QED
    BY <1>8, <2>1, <2>2
<1>11. ASSUME NEW a \in RetryAge, after[a] > 0
       PROVE  a <= V /\ \E i \in 1 .. n + 1 : more[i] = a
  <2>1. CASE a = 0
    <3>1. n + 1 \in 1 .. n + 1
      OBVIOUS
    <3> QED
      BY <1>1, <1>5, <2>1, <3>1
  <2>2. CASE asleep[a] > 0
    <3>1. a <= V /\ \E i \in 1 .. n : list[i] = a
      BY <1>1, <1>2, <2>2 DEF RetryOK
    <3>2. PICK i \in 1 .. n : list[i] = a
      BY <3>1
    <3> QED
      BY <1>5, <3>1, <3>2
  <2> QED
    BY <1>7, <1>11, <2>1, <2>2
<1>12. ASSUME NEW i \in 1 .. n + 1, i <= (n + 1) - (k + 1)
       PROVE  \/ age <= more[i] \/ more[i] >= W
              \/ \E j \in 1 .. n + 1 : more[j] >= W /\ more[j] <= more[i] + V
  <2>1. i \in 1 .. n /\ i <= n - k
    BY <1>2, <1>12
  <2>2. \/ age <= list[i] \/ list[i] >= W
        \/ \E j \in 1 .. n : list[j] >= W /\ list[j] <= list[i] + RetryWindow + RetryLag
    BY <1>1, <1>2, <2>1 DEF RetryOK
  <2>3. list[i] \in Nat /\ list[i] + RetryWindow + RetryLag = list[i] + V
    BY <1>1, <1>2, <2>1, RetryTimes DEF RetryOK
  <2>4. more[i] = list[i] /\ \A j \in 1 .. n : j \in 1 .. n + 1 /\ more[j] = list[j]
    BY <1>5, <2>1
  <2> QED
    BY <2>2, <2>3, <2>4
<1>13. \A i \in 1 .. n + 1 : more[i] + V = more[i] + RetryWindow + RetryLag
  BY <1>1, <1>9, RetryTimes
<1>14. k + 1 \in 0 .. n + 1
  BY <1>2
<1>15. RetryOK(more, k + 1, after, age)
  BY <1>1, <1>4, <1>5, <1>7, <1>9, <1>10, <1>11, <1>12, <1>13, <1>14 DEF RetryOK
<1> QED
  BY <1>3, <1>6, <1>15

LEMMA ExpireKeeps ==
  ASSUME NEW list, NEW k, NEW asleep, NEW age \in RetryAge, RetryOK(list, k, asleep, age),
         NEW a \in RetryAge, a >= RetryWindow, asleep[a] > 0
  PROVE  RetryOK(list, 0, [asleep EXCEPT ![a] = @ - 1], age)
<1>1. PICK after : after = [asleep EXCEPT ![a] = @ - 1]
  OBVIOUS
<1>2. after \in [RetryAge -> Nat] /\ \A b \in RetryAge : after[b] > 0 => asleep[b] > 0
  BY <1>1 DEF RetryOK
<1>3. PICK n \in Nat : n = Len(list)
  BY RetryTimes, TimesType DEF RetryOK
<1>4. PICK j \in 1 .. n : list[j] = a /\ a <= RetryWindow + RetryLag
  BY <1>3 DEF RetryOK
<1>5. ASSUME NEW i \in 1 .. n
      PROVE  list[j] >= RetryWindow /\ list[j] <= list[i] + RetryWindow + RetryLag
  <2>1. list[i] \in Nat /\ a \in Nat
    BY <1>3, <1>4, RetryTimes DEF RetryOK
  <2> QED
    BY <1>4, <2>1, RetryTimes
<1>6. RetryOK(list, 0, after, age)
  <2>1. 0 \in 0 .. n /\ \A i \in 1 .. n : ~(i > n - 0)
    OBVIOUS
  <2> QED
    BY <1>2, <1>3, <1>4, <1>5, <2>1 DEF RetryOK
<1> QED
  BY <1>1, <1>6

LEMMA ClearKeeps ==
  ASSUME NEW list, NEW k, NEW asleep, NEW age, RetryOK(list, k, asleep, age)
  PROVE  RetryOK(list, 0, asleep, 0)
<1>1. PICK n \in Nat : n = Len(list)
  BY RetryTimes, TimesType DEF RetryOK
<1>2. 0 \in 0 .. n /\ \A i \in 1 .. n : ~(i > n - 0)
  OBVIOUS
<1>3. \A i \in 1 .. n : 0 <= list[i]
  BY <1>1, RetryTimes DEF RetryOK
<1> QED
  BY <1>1, <1>2, <1>3 DEF RetryOK

LEMMA OlderKeeps ==
  ASSUME NEW list, NEW k, NEW asleep, NEW age \in RetryAge, RetryOK(list, k, asleep, age),
         \A a \in RetryAge : a >= RetryWindow + RetryLag => asleep[a] = 0
  PROVE  RetryOK(KeepAfter(Older(list, RetryHorizon + 1), RetryHorizon + 1), k, Aged(asleep),
                 IF age < RetryHorizon THEN age + 1 ELSE age)
<1>1. PICK H \in Nat, W \in Nat, V \in Nat :
        /\ H = RetryHorizon /\ W = RetryWindow /\ V = RetryWindow + RetryLag
        /\ RetryAge = 0 .. H /\ H = W + V /\ W > 0 /\ V >= W
  BY RetryTimes
<1>2. PICK n \in Nat : n = Len(list) /\ k \in 0 .. n /\ list \in Times(H + 1)
  BY <1>1, TimesType DEF RetryOK
<1>3. \A i \in 1 .. n : list[i] \in 0 .. H
  BY <1>1, <1>2 DEF RetryOK
<1>4. DOMAIN list = 1 .. n
  BY <1>1, <1>2, TimesType
<1>5. PICK old : old = Older(list, H + 1)
  OBVIOUS
<1>6. old \in Times(H + 1)
  <2>1. 0 < H + 1 /\ H + 1 \in Nat
    OBVIOUS
  <2> QED
    BY <1>2, <1>5, <2>1, CountOlder
<1>7. DOMAIN old = 1 .. n /\ \A i \in 1 .. n : old[i] = list[i] + 1
  BY <1>3, <1>4, <1>5 DEF Older
<1>8. Len(old) = n
  BY <1>6, <1>7, TimesType
<1>9. PICK kept : kept = KeepAfter(old, H + 1)
  OBVIOUS
<1>10. PICK q \in Nat : q = Len(kept) /\ q <= n
  <2>1. H + 1 \in Nat /\ H + 1 \in Int
    OBVIOUS
  <2>2. Len(kept) = Count(old, H + 1)
    BY <1>6, <1>9, <2>1, KeepAfterFilters
  <2>3. Count(old, H + 1) \in 0 .. n
    BY <1>6, <1>8, <2>1, TimesType, CountType
  <2> QED
    BY <2>2, <2>3
<1>11. /\ kept \in Times(H + 1) /\ DOMAIN kept = 1 .. q
       /\ \A i \in 1 .. n : old[i] < H + 1 <=> i > n - q
       /\ \A i \in 1 .. q : kept[i] = old[n - q + i]
  <2>1. H + 1 \in Nat
    OBVIOUS
  <2>2. kept \in Times(H + 1) /\ DOMAIN kept = 1 .. q
    BY <1>6, <1>9, <1>10, <2>1, KeepAfterFilters, TimesType
  <2>3. /\ \A i \in DOMAIN old : old[i] < H + 1 <=> i > Len(old) - Len(kept)
        /\ \A i \in DOMAIN kept : kept[i] = old[Len(old) - Len(kept) + i]
    <3>1. PICK cap \in Nat : cap = H + 1
      BY <2>1
    <3>2. old \in Times(cap) /\ kept = KeepAfter(old, cap)
      BY <1>6, <1>9, <3>1
    <3>3. /\ \A i \in DOMAIN old : old[i] < cap <=> i > Len(old) - Len(KeepAfter(old, cap))
          /\ \A i \in DOMAIN KeepAfter(old, cap) :
               KeepAfter(old, cap)[i] = old[Len(old) - Len(KeepAfter(old, cap)) + i]
      BY <3>2, KeepAfterFilters
    <3> QED
      BY <3>1, <3>2, <3>3
  <2> QED
    BY <1>7, <1>8, <1>10, <2>2, <2>3
<1>12. \A i \in 1 .. q : n - q + i \in 1 .. n /\ n - q + i > n - q /\ kept[i] = list[n - q + i] + 1
  BY <1>7, <1>10, <1>11
<1>13. \A i \in 1 .. n : list[i] < H <=> i > n - q
  BY <1>3, <1>7, <1>11
<1>14. \A i \in 1 .. n : list[i] < H => \E j \in 1 .. q : i = n - q + j /\ kept[j] = list[i] + 1
  <2> SUFFICES ASSUME NEW i \in 1 .. n, list[i] < H
               PROVE  \E j \in 1 .. q : i = n - q + j /\ kept[j] = list[i] + 1
    OBVIOUS
  <2>1. i - (n - q) \in 1 .. q /\ i = n - q + (i - (n - q))
    BY <1>10, <1>13
  <2> QED
    BY <1>12, <2>1
<1>15. PICK since : since = IF age < H THEN age + 1 ELSE age
  OBVIOUS
<1>16. PICK after : after = Aged(asleep)
  OBVIOUS
<1>17. /\ after \in [0 .. H -> Nat] /\ after[0] = 0
       /\ \A a \in 0 .. H : a < H => after[a + 1] = asleep[a]
  <2>1. asleep \in [0 .. H -> Nat]
    BY <1>1 DEF RetryOK
  <2>2. after = [a \in 0 .. H |-> IF a = 0 THEN 0 ELSE asleep[a - 1]]
    BY <1>1, <1>16 DEF Aged
  <2> QED
    BY <2>1, <2>2
<1>18. \A a \in 0 .. H : asleep[a] > 0 => a < V /\ a < H
  BY <1>1
<1>19. \A i \in 1 .. n : i > n - k => list[i] <= age /\ asleep[list[i]] > 0 /\ list[i] < H
  BY <1>1, <1>2, <1>3, <1>18 DEF RetryOK
<1>20. k \in 0 .. q
  <2>1. CASE k = 0
    BY <2>1
  <2>2. CASE k # 0
    <3>1. PICK i \in 1 .. n : i = n - k + 1 /\ i > n - k
      <4>1. n - k + 1 \in 1 .. n /\ n - k + 1 > n - k
        BY <1>2, <2>2
      <4> QED
        BY <4>1
    <3>2. i > n - q
      BY <1>13, <1>19, <3>1
    <3> QED
      BY <1>2, <3>1, <3>2
  <2> QED
    BY <2>1, <2>2
<1>21. \A i \in 1 .. q : kept[i] \in 0 .. H
  BY <1>3, <1>12, <1>13
<1>22. ASSUME NEW i \in 1 .. q, i > q - k PROVE kept[i] <= since /\ after[kept[i]] > 0
  <2>1. PICK p \in 1 .. n : p = n - q + i /\ p > n - k
    <3>1. n - q + i \in 1 .. n /\ n - q + i > n - k
      BY <1>2, <1>12, <1>20, <1>22
    <3> QED
      BY <3>1
  <2>2. kept[i] = list[p] + 1 /\ list[p] <= age /\ asleep[list[p]] > 0 /\ list[p] < H
    BY <1>12, <1>19, <2>1
  <2>3. list[p] \in 0 .. H /\ age \in 0 .. H
    BY <1>1, <1>3
  <2> QED
    BY <1>15, <1>17, <2>2, <2>3
<1>23. ASSUME NEW a \in 0 .. H, after[a] > 0 PROVE a <= V /\ \E i \in 1 .. q : kept[i] = a
  <2>1. PICK b \in 0 .. H : a = b + 1 /\ b < H
    <3>1. a # 0
      BY <1>17, <1>23
    <3>2. a - 1 \in 0 .. H /\ a = (a - 1) + 1 /\ a - 1 < H
      BY <3>1
    <3> QED
      BY <3>2
  <2>2. asleep[b] > 0
    BY <1>17, <1>23, <2>1
  <2>3. b < V /\ \E i \in 1 .. n : list[i] = b
    BY <1>1, <1>2, <1>18, <2>2 DEF RetryOK
  <2>4. PICK i \in 1 .. n : list[i] = b
    BY <2>3
  <2>5. \E j \in 1 .. q : kept[j] = list[i] + 1
    BY <1>14, <2>1, <2>4
  <2> QED
    BY <2>1, <2>3, <2>4, <2>5
<1>24. ASSUME NEW i \in 1 .. q, i <= q - k
       PROVE  \/ since <= kept[i] \/ kept[i] >= W
              \/ \E j \in 1 .. q : kept[j] >= W /\ kept[j] <= kept[i] + V
  <2>1. PICK p \in 1 .. n : p = n - q + i /\ p <= n - k
    <3>1. n - q + i \in 1 .. n /\ n - q + i <= n - k
      BY <1>2, <1>12, <1>20, <1>24
    <3> QED
      BY <3>1
  <2>2. kept[i] = list[p] + 1 /\ list[p] \in 0 .. H /\ list[p] < H
    BY <1>3, <1>12, <1>13, <2>1
  <2>3. \/ age <= list[p] \/ list[p] >= W
        \/ \E j \in 1 .. n : list[j] >= W /\ list[j] <= list[p] + RetryWindow + RetryLag
    BY <1>1, <1>2, <2>1 DEF RetryOK
  <2>4. list[p] + RetryWindow + RetryLag = list[p] + V
    BY <1>1, <2>2, RetryTimes
  <2>5. CASE age <= list[p]
    BY <1>1, <1>15, <2>2, <2>5
  <2>6. CASE list[p] >= W
    BY <1>1, <2>2, <2>6
  <2>7. CASE \E j \in 1 .. n : list[j] >= W /\ list[j] <= list[p] + V
    <3>1. PICK j \in 1 .. n : list[j] >= W /\ list[j] <= list[p] + V /\ list[j] \in 0 .. H
      BY <1>3, <2>7
    <3>2. CASE list[j] < H
      <4>1. PICK u \in 1 .. q : kept[u] = list[j] + 1
        BY <1>14, <3>2
      <4>2. kept[u] >= W /\ kept[u] <= kept[i] + V
        BY <2>2, <3>1, <4>1
      <4> QED
        BY <4>2
    <3>3. CASE list[j] = H
      BY <1>1, <2>2, <3>1, <3>3
    <3> QED
      BY <3>1, <3>2, <3>3
  <2> QED
    BY <2>3, <2>4, <2>5, <2>6, <2>7
<1>25. \A i \in 1 .. q : kept[i] + V = kept[i] + RetryWindow + RetryLag
  BY <1>1, <1>21, RetryTimes
<1>26. RetryOK(kept, k, after, since)
  BY <1>1, <1>10, <1>11, <1>17, <1>20, <1>21, <1>22, <1>23, <1>24, <1>25 DEF RetryOK
<1> QED
  BY <1>1, <1>5, <1>9, <1>15, <1>16, <1>26

LEMMA RetryStep == RetryInv /\ [RetryNext]_retryVars => RetryInv'
<1> SUFFICES ASSUME RetryInv, [RetryNext]_retryVars PROVE RetryInv'
  OBVIOUS
<1>1. ASSUME NEW m \in RetryMsg, Retried(m) PROVE RetryInv'
  <2>1. /\ retries' = [retries EXCEPT ![m] = @ + 1]
        /\ timers' = [timers EXCEPT ![m][0] = @ + 1]
        /\ recorded' = [recorded EXCEPT ![m] = Append(@, 0)]
        /\ cleared' = cleared
    BY <1>1 DEF Retried, RecordRetry
  <2>2. /\ DOMAIN retries' = RetryMsg /\ DOMAIN timers' = RetryMsg /\ DOMAIN recorded' = RetryMsg
        /\ \A x \in RetryMsg \ {m} :
             retries'[x] = retries[x] /\ timers'[x] = timers[x] /\ recorded'[x] = recorded[x]
        /\ retries'[m] = retries[m] + 1
        /\ timers'[m] = [timers[m] EXCEPT ![0] = @ + 1]
        /\ recorded'[m] = Append(recorded[m], 0)
    BY <2>1 DEF RetryInv
  <2>3. RetryOK(recorded'[m], retries'[m], timers'[m], cleared)
    <3>1. RetryOK(recorded[m], retries[m], timers[m], cleared) /\ cleared \in RetryAge
      BY DEF RetryInv
    <3>2. RetryOK(Append(recorded[m], 0), retries[m] + 1, [timers[m] EXCEPT ![0] = @ + 1], cleared)
      BY <3>1, RecordKeeps
    <3> QED
      BY <2>2, <3>2
  <2>4. timers' \in [RetryMsg -> [RetryAge -> Nat]]
    BY <2>1, RetryTimes DEF RetryInv
  <2> QED
    BY <2>1, <2>2, <2>3, <2>4 DEF RetryInv
<1>2. ASSUME NEW m \in RetryMsg, Wakes(m) PROVE RetryInv'
  <2>1. PICK a \in RetryAge : Expire(m, a)
    BY <1>2 DEF Wakes
  <2>2. /\ a >= RetryWindow /\ timers[m][a] > 0
        /\ timers' = [timers EXCEPT ![m][a] = @ - 1]
        /\ retries' = [retries EXCEPT ![m] = 0]
        /\ recorded' = recorded /\ cleared' = cleared
    BY <2>1 DEF Expire
  <2>3. /\ DOMAIN retries' = RetryMsg /\ DOMAIN timers' = RetryMsg
        /\ \A x \in RetryMsg \ {m} : retries'[x] = retries[x] /\ timers'[x] = timers[x]
        /\ retries'[m] = 0
        /\ timers'[m] = [timers[m] EXCEPT ![a] = @ - 1]
    BY <2>2 DEF RetryInv
  <2>4. RetryOK(recorded[m], retries'[m], timers'[m], cleared)
    <3>1. RetryOK(recorded[m], retries[m], timers[m], cleared) /\ cleared \in RetryAge
      BY DEF RetryInv
    <3>2. RetryOK(recorded[m], 0, [timers[m] EXCEPT ![a] = @ - 1], cleared)
      BY <2>2, <3>1, ExpireKeeps
    <3> QED
      BY <2>3, <3>2
  <2>5. timers' \in [RetryMsg -> [RetryAge -> Nat]]
    BY <2>2 DEF RetryInv
  <2> QED
    BY <2>2, <2>3, <2>4, <2>5 DEF RetryInv
<1>3. CASE Clear
  <2>1. /\ retries' = [m \in RetryMsg |-> 0] /\ cleared' = 0
        /\ timers' = timers /\ recorded' = recorded
    BY <1>3 DEF Clear
  <2>2. \A m \in RetryMsg : RetryOK(recorded[m], 0, timers[m], 0)
    BY ClearKeeps DEF RetryInv
  <2> QED
    BY <2>1, <2>2, RetryTimes DEF RetryInv
<1>4. CASE RetryTick
  <2>1. /\ \A m \in RetryMsg : \A a \in RetryAge : a >= RetryWindow + RetryLag => timers[m][a] = 0
        /\ timers' = [m \in RetryMsg |-> Aged(timers[m])]
        /\ recorded' = [m \in RetryMsg |-> KeepAfter(Older(recorded[m], RetryHorizon + 1),
                                                     RetryHorizon + 1)]
        /\ cleared' = (IF cleared < RetryHorizon THEN cleared + 1 ELSE cleared)
        /\ retries' = retries
    BY <1>4 DEF RetryTick
  <2>2. \A m \in RetryMsg : RetryOK(recorded'[m], retries'[m], timers'[m], cleared')
    BY <2>1, OlderKeeps DEF RetryInv
  <2>3. timers' \in [RetryMsg -> [RetryAge -> Nat]]
    BY <2>1, <2>2 DEF RetryOK
  <2>4. cleared' \in RetryAge
    BY <2>1, RetryTimes DEF RetryInv
  <2> QED
    BY <2>1, <2>2, <2>3, <2>4 DEF RetryInv
<1>5. CASE UNCHANGED retryVars
  BY <1>5 DEF retryVars, RetryInv
<1> QED
  BY <1>1, <1>2, <1>3, <1>4, <1>5 DEF RetryNext

LEMMA RetryStarts == RetryInit => RetryInv
<1> SUFFICES ASSUME RetryInit PROVE RetryInv
  OBVIOUS
<1>1. PICK none : none = [a \in RetryAge |-> 0]
  OBVIOUS
<1>2. << >> \in Times(RetryHorizon + 1) /\ Len(<< >>) = 0
  BY RetryTimes, AgreeEmpty
<1>3. RetryOK(<< >>, 0, none, RetryHorizon)
  BY <1>1, <1>2 DEF RetryOK
<1> QED
  BY <1>1, <1>3, RetryTimes DEF RetryInit, RetryInv

LEMMA SpiralsDetected == RetryInv => SpiralDetection
<1> SUFFICES ASSUME RetryInv, NEW m \in RetryMsg
             PROVE  /\ IsSpiraling(m) =>
                         Cardinality({i \in Within(recorded[m], RetryWindow + RetryLag + 1) :
                                        recorded[m][i] <= cleared}) >= SpiralThreshold
                    /\ (/\ Len(recorded[m]) >= SpiralThreshold
                        /\ \A i \in DOMAIN recorded[m] : recorded[m][i] < RetryWindow
                        /\ cleared >= RetryWindow) => IsSpiraling(m)
  BY DEF SpiralDetection, NoFalseSpiral, FreshSpiralSeen
<1>1. PICK list, k, asleep : list = recorded[m] /\ k = retries[m] /\ asleep = timers[m]
  OBVIOUS
<1>2. RetryOK(list, k, asleep, cleared) /\ cleared \in Nat
  BY <1>1, RetryTimes DEF RetryInv
<1>3. PICK n \in Nat : n = Len(list) /\ DOMAIN list = 1 .. n /\ k \in 0 .. n
  BY <1>2, RetryTimes, TimesType DEF RetryOK
<1>4. \A i \in 1 .. n : list[i] \in Nat
  BY <1>2, <1>3, RetryTimes DEF RetryOK
<1>5. ASSUME IsSpiraling(m)
      PROVE  Cardinality({i \in Within(list, RetryWindow + RetryLag + 1) : list[i] <= cleared})
               >= SpiralThreshold
  <2>1. PICK S : S = {i \in Within(list, RetryWindow + RetryLag + 1) : list[i] <= cleared}
    OBVIOUS
  <2>2. n - k + 1 .. n \subseteq S
    <3> SUFFICES ASSUME NEW i \in n - k + 1 .. n PROVE i \in S
      OBVIOUS
    <3>1. i \in 1 .. n /\ i > n - k
      BY <1>3
    <3>2. list[i] \in RetryAge /\ list[i] <= cleared /\ asleep[list[i]] > 0
      BY <1>2, <1>3, <3>1 DEF RetryOK
    <3>3. list[i] <= RetryWindow + RetryLag
      BY <1>2, <3>2 DEF RetryOK
    <3>4. list[i] < RetryWindow + RetryLag + 1
      BY <1>4, <3>1, <3>3, RetryTimes
    <3> QED
      BY <1>3, <2>1, <3>1, <3>2, <3>4 DEF Within
  <2>3. S \subseteq 1 .. n
    BY <1>3, <2>1 DEF Within
  <2>4. IsFiniteSet(S)
    <3>1. IsFiniteSet(1 .. n)
      BY FS_Interval
    <3> QED
      BY <2>3, <3>1, FS_Subset
  <2>5. Cardinality(n - k + 1 .. n) = k
    <3>1. n - k + 1 \in Int /\ (n - k + 1 > n => k = 0) /\ n - (n - k + 1) + 1 = k
      BY <1>3
    <3> QED
      BY <3>1, FS_Interval
  <2>6. k <= Cardinality(S) /\ Cardinality(S) \in Nat
    BY <2>2, <2>4, <2>5, FS_Subset, FS_CardinalityType
  <2>7. k >= SpiralThreshold /\ k \in Nat /\ SpiralThreshold \in Nat
    BY <1>1, <1>3, <1>5, RetryAssumption DEF IsSpiraling
  <2> QED
    BY <2>1, <2>6, <2>7
<1>6. ASSUME n >= SpiralThreshold, \A i \in 1 .. n : list[i] < RetryWindow, cleared >= RetryWindow
      PROVE  IsSpiraling(m)
  <2>1. k = n
    <3> SUFFICES ASSUME k < n PROVE FALSE
      BY <1>3
    <3>1. 1 \in 1 .. n /\ 1 <= n - k
      BY <1>3
    <3>2. \/ cleared <= list[1] \/ list[1] >= RetryWindow
          \/ \E j \in 1 .. n : list[j] >= RetryWindow
      BY <1>2, <1>3, <3>1 DEF RetryOK
    <3> QED
      BY <1>2, <1>4, <1>6, <3>1, <3>2, RetryTimes
  <2> QED
    BY <1>1, <1>6, <2>1 DEF IsSpiraling
<1> QED
  BY <1>1, <1>3, <1>5, <1>6

(* However many messages, retries and clears there are and however late the *)
(* goroutines wake: IsSpiraling raises no false alarm, and it sees every    *)
(* burst of retries that comes out of a quiet window.                       *)
THEOREM SpiralsAreDetected == RetrySpec => []SpiralDetection
<1> QED
  BY RetryStarts, RetryStep, SpiralsDetected, PTL DEF RetrySpec

-----------------------------------------------------------------------------
(* Loops.                                                                   *)

(* Induction on the steps of a loop: the set of the steps up to which a     *)
(* claim holds is all of them when it holds at first and each step keeps    *)
(* it.                                                                      *)
LEMMA Stepwise ==
  ASSUME NEW n \in Nat, NEW T \in SUBSET (0 .. n), 0 \in T,
         \A i \in 0 .. n - 1 : i \in T => i + 1 \in T
  PROVE  T = 0 .. n
<1> SUFFICES ASSUME (0 .. n) \ T # {} PROVE FALSE
  OBVIOUS
<1>1. PICK R : R = OpToRel(<, Nat)
  OBVIOUS
<1>2. IsWellFoundedOn(R, Nat)
  BY <1>1, NatLessThanWellFounded
<1>3. PICK x \in (0 .. n) \ T : \A y \in (0 .. n) \ T : ~(<<y, x>> \in R)
  <2>1. (0 .. n) \ T \subseteq Nat
    OBVIOUS
  <2> QED
    BY <1>2, <2>1, WFMin
<1>4. \A y \in Nat : y < x => <<y, x>> \in R
  BY <1>1 DEF OpToRel
<1>5. PICK y \in 0 .. n - 1 : x = y + 1
  <2>1. x - 1 \in 0 .. n - 1 /\ x = (x - 1) + 1
    OBVIOUS
  <2> QED
    BY <2>1
<1>6. y \in T
  <2>1. y \in Nat /\ y < x /\ y \in 0 .. n
    BY <1>5
  <2> QED
    BY <1>3, <1>4, <2>1
<1> QED
  BY <1>5, <1>6

(* f is a run of n steps of a loop: what it holds after step i is what g    *)
(* makes of i and of what it held before.                                   *)
Runs(f, n, S, s0, g) ==
  f \in [0 .. n -> S] /\ f[0] = s0 /\ \A i \in 1 .. n : f[i] = g[<<i, f[i - 1]>>]

(* Every loop has a run.                                                    *)
LEMMA LoopRuns ==
  ASSUME NEW n \in Nat, NEW S, NEW s0 \in S, NEW g \in [(0 .. n) \X S -> S]
  PROVE  \E f : Runs(f, n, S, s0, g)
<1> DEFINE Run(f, k) == f[0] = s0 /\ \A i \in 1 .. k : f[i] = g[<<i, f[i - 1]>>]
           T == {k \in 0 .. n : \E f \in [0 .. k -> S] : Run(f, k)}
<1>1. 0 \in T
  <2>1. PICK f \in [0 .. 0 -> S] : f[0] = s0
    <3>1. [i \in 0 .. 0 |-> s0] \in [0 .. 0 -> S] /\ [i \in 0 .. 0 |-> s0][0] = s0
      OBVIOUS
    <3> QED
      BY <3>1
  <2>2. Run(f, 0)
    BY <2>1
  <2> HIDE DEF Run
  <2> QED
    BY <2>2
<1>2. ASSUME NEW k \in 0 .. n - 1, k \in T PROVE k + 1 \in T
  <2>1. PICK f \in [0 .. k -> S] : Run(f, k)
    BY <1>2
  <2>2. PICK s \in S : s = g[<<k + 1, f[k]>>]
    <3>1. f[k] \in S /\ k + 1 \in 0 .. n
      OBVIOUS
    <3>2. g[<<k + 1, f[k]>>] \in S
      BY <3>1
    <3> QED
      BY <3>2
  <2> DEFINE h == [i \in 0 .. k + 1 |-> IF i = k + 1 THEN s ELSE f[i]]
  <2>3. h \in [0 .. k + 1 -> S]
    OBVIOUS
  <2>4. h[k + 1] = s /\ \A i \in 0 .. k : h[i] = f[i]
    OBVIOUS
  <2> HIDE DEF h
  <2>5. \A i \in 1 .. k : h[i] = g[<<i, h[i - 1]>>]
    BY <2>1, <2>4
  <2>6. h[k + 1] = g[<<k + 1, h[(k + 1) - 1]>>]
    BY <2>2, <2>4
  <2>7. Run(h, k + 1)
    <3>1. \A i \in 1 .. k + 1 : i \in 1 .. k \/ i = k + 1
      OBVIOUS
    <3>2. h[0] = s0
      BY <2>1, <2>4
    <3> QED
      BY <2>5, <2>6, <3>1, <3>2
  <2> QED
    BY <2>3, <2>7
<1> HIDE DEF Run
<1>3. T = 0 .. n
  <2>1. T \in SUBSET (0 .. n)
    OBVIOUS
  <2> HIDE DEF T
  <2> QED
    BY <1>1, <1>2, <2>1, Stepwise
<1>4. n \in T
  BY <1>3
<1>5. PICK f \in [0 .. n -> S] : Run(f, n)
  BY <1>4
<1> QED
  BY <1>5 DEF Run, Runs

(* What every step of a loop keeps, the loop keeps.                         *)
LEMMA LoopStays ==
  ASSUME NEW n \in Nat, NEW S, NEW f, f = [i \in 0 .. n |-> f[i]], f[0] \in S,
         \A i \in 1 .. n : f[i - 1] \in S => f[i] \in S
  PROVE  f \in [0 .. n -> S]
<1> DEFINE T == {k \in 0 .. n : f[k] \in S}
<1>1. 0 \in T /\ T \in SUBSET (0 .. n)
  OBVIOUS
<1>2. \A k \in 0 .. n - 1 : k \in T => k + 1 \in T
  <2> SUFFICES ASSUME NEW k \in 0 .. n - 1, f[k] \in S PROVE k + 1 \in T
    OBVIOUS
  <2>1. k + 1 \in 1 .. n /\ k + 1 \in 0 .. n /\ (k + 1) - 1 = k
    OBVIOUS
  <2> QED
    BY <2>1
<1>3. T = 0 .. n
  <2> HIDE DEF T
  <2> QED
    BY <1>1, <1>2, Stepwise
<1> QED
  BY <1>3

-----------------------------------------------------------------------------
(* The proxy rotator.                                                       *)

RotatorType ==
  /\ strategy \in {"round_robin", "random", "lru", "weighted"}
  /\ current \in Endpoint
  /\ lastUsed \in [Endpoint -> Nat]
  /\ failureCount \in [Endpoint -> Nat]

LEMMA EndpointsAre ==
  /\ Endpoints \in Nat \ {0} /\ FailLimit \in Nat \ {0} /\ FailCap \in Nat /\ 0 \in Endpoint
  /\ Weight \in [Endpoint -> Int]
  /\ \A i \in 1 .. Endpoints : i - 1 \in Endpoint /\ i - 1 \in 0 .. Endpoints
  /\ \A e \in Endpoint : /\ e \in Nat /\ e < Endpoints
                         /\ e \in 0 .. Endpoints /\ e + 1 \in 1 .. Endpoints
BY RotatorAssumption DEF Endpoint

LEMMA WeightIs ==
  ASSUME RotatorType, NEW e \in Endpoint
  PROVE  weight(e) \in Nat \ {0}
<1>1. Weight[e] \in Int /\ failureCount[e] \in Nat
  BY EndpointsAre DEF RotatorType
<1> QED
  BY <1>1 DEF weight

(* The loop of findLRU.                                                     *)
Scans(f) ==
  /\ f \in [0 .. Endpoints -> Endpoint]
  /\ f[0] = 0
  /\ \A i \in 1 .. Endpoints :
       f[i] = IF lastUsed[i - 1] < lastUsed[f[i - 1]] /\ failureCount[i - 1] < FailLimit
              THEN i - 1 ELSE f[i - 1]

LEMMA ScanRuns ==
  ASSUME RotatorType
  PROVE  \E f : Scans(f) /\ findLRU = f[Endpoints]
<1>1. PICK g : g = [p \in (0 .. Endpoints) \X Endpoint |->
                      IF /\ p[1] \in 1 .. Endpoints
                         /\ lastUsed[p[1] - 1] < lastUsed[p[2]]
                         /\ failureCount[p[1] - 1] < FailLimit
                      THEN p[1] - 1 ELSE p[2]]
  OBVIOUS
<1>2. g \in [(0 .. Endpoints) \X Endpoint -> Endpoint]
  BY <1>1, EndpointsAre
<1>3. PICK f : Runs(f, Endpoints, Endpoint, 0, g)
  <2>1. Endpoints \in Nat /\ 0 \in Endpoint
    BY EndpointsAre
  <2> QED
    BY <1>2, <2>1, LoopRuns
<1>4. Scans(f)
  <2> SUFFICES ASSUME NEW i \in 1 .. Endpoints
               PROVE  f[i] = IF lastUsed[i - 1] < lastUsed[f[i - 1]] /\ failureCount[i - 1] < FailLimit
                             THEN i - 1 ELSE f[i - 1]
    BY <1>3 DEF Scans, Runs
  <2>1. f[i - 1] \in Endpoint /\ i \in 0 .. Endpoints
    BY <1>3, EndpointsAre DEF Runs
  <2> QED
    BY <1>1, <1>3, <2>1 DEF Runs
<1>5. f = [i \in 0 .. Endpoints |->
             IF i = 0 THEN 0
             ELSE IF lastUsed[i - 1] < lastUsed[f[i - 1]] /\ failureCount[i - 1] < FailLimit
                  THEN i - 1 ELSE f[i - 1]]
  <2>1. \A i \in 0 .. Endpoints : i = 0 \/ i \in 1 .. Endpoints
    BY EndpointsAre
  <2> QED
    BY <1>4, <2>1 DEF Scans
<1>6. PICK h : /\ h = [i \in 0 .. Endpoints |->
                         IF i = 0 THEN 0
                         ELSE IF lastUsed[i - 1] < lastUsed[h[i - 1]] /\ failureCount[i - 1] < FailLimit
                              THEN i - 1 ELSE h[i - 1]]
               /\ findLRU = h[Endpoints]
  BY <1>5 DEF findLRU
<1>7. /\ h[0] = 0
      /\ \A i \in 1 .. Endpoints :
           h[i] = IF lastUsed[i - 1] < lastUsed[h[i - 1]] /\ failureCount[i - 1] < FailLimit
                  THEN i - 1 ELSE h[i - 1]
  <2>1. 0 \in 0 .. Endpoints /\ \A i \in 1 .. Endpoints : i \in 0 .. Endpoints /\ i # 0
    BY EndpointsAre
  <2> QED
    BY <1>6, <2>1
<1>8. h \in [0 .. Endpoints -> Endpoint]
  <2>1. h = [i \in 0 .. Endpoints |-> h[i]] /\ h[0] \in Endpoint
    BY <1>6, <1>7, EndpointsAre
  <2>2. \A i \in 1 .. Endpoints : h[i - 1] \in Endpoint => h[i] \in Endpoint
    BY <1>7, EndpointsAre
  <2> QED
    BY <2>1, <2>2, LoopStays, EndpointsAre
<1>9. Scans(h)
  BY <1>7, <1>8 DEF Scans
<1> QED
  BY <1>6, <1>9

(* findLRU names an endpoint, and none that works has been idle for longer. *)
LEMMA FindsLRU ==
  ASSUME RotatorType
  PROVE  findLRU \in Endpoint /\ LeastRecentlyUsed
<1>1. PICK f : Scans(f) /\ findLRU = f[Endpoints]
  BY ScanRuns
<1> DEFINE Done(k) == \A e \in 0 .. k - 1 : failureCount[e] < FailLimit => lastUsed[f[k]] <= lastUsed[e]
           T == {k \in 0 .. Endpoints : Done(k)}
<1>2. 0 \in T /\ T \in SUBSET (0 .. Endpoints)
  BY EndpointsAre
<1>3. \A k \in 0 .. Endpoints - 1 : k \in T => k + 1 \in T
  <2> SUFFICES ASSUME NEW k \in 0 .. Endpoints - 1, Done(k) PROVE Done(k + 1) /\ k + 1 \in 0 .. Endpoints
    OBVIOUS
  <2>1. k + 1 \in 1 .. Endpoints /\ (k + 1) - 1 = k /\ k \in 0 .. Endpoints /\ k \in Endpoint
    BY EndpointsAre DEF Endpoint
  <2>2. PICK best \in Endpoint : best = f[k]
    BY <1>1, <2>1 DEF Scans
  <2>3. f[k + 1] = IF lastUsed[k] < lastUsed[best] /\ failureCount[k] < FailLimit THEN k ELSE best
    BY <1>1, <2>1, <2>2 DEF Scans
  <2>4. /\ lastUsed[k] \in Nat /\ lastUsed[best] \in Nat
        /\ \A e \in 0 .. k : lastUsed[e] \in Nat
    <3>1. \A e \in 0 .. k : e \in Endpoint
      BY EndpointsAre DEF Endpoint
    <3> QED
      BY <2>1, <2>2, <3>1 DEF RotatorType
  <2>5. \A e \in 0 .. k : e \in 0 .. k - 1 \/ e = k
    BY <2>1
  <2> QED
    BY <2>1, <2>2, <2>3, <2>4, <2>5
<1>4. T = 0 .. Endpoints
  <2> HIDE DEF T
  <2> QED
    BY <1>2, <1>3, Stepwise, EndpointsAre
<1>5. Endpoints \in T
  BY <1>4, EndpointsAre
<1>6. findLRU \in Endpoint
  BY <1>1, EndpointsAre DEF Scans
<1> QED
  BY <1>1, <1>5, <1>6 DEF LeastRecentlyUsed, Endpoint

(* A loop that adds.                                                        *)
Sums(f, n, w) ==
  f \in [0 .. n -> Nat] /\ f[0] = 0 /\ \A i \in 1 .. n : f[i] = f[i - 1] + w[i]

LEMMA SumUnfolds ==
  ASSUME NEW n \in Nat, NEW w \in [1 .. n -> Nat], NEW f,
         f = [i \in 0 .. n |-> IF i = 0 THEN 0 ELSE f[i - 1] + w[i]]
  PROVE  Sums(f, n, w)
<1>1. f[0] = 0 /\ \A i \in 1 .. n : f[i] = f[i - 1] + w[i]
  OBVIOUS
<1>2. f = [i \in 0 .. n |-> f[i]] /\ f[0] \in Nat
  BY <1>1
<1>3. \A i \in 1 .. n : f[i - 1] \in Nat => f[i] \in Nat
  BY <1>1
<1>4. f \in [0 .. n -> Nat]
  BY <1>2, <1>3, LoopStays
<1> QED
  BY <1>1, <1>4 DEF Sums

LEMMA SumRuns ==
  ASSUME NEW n \in Nat, NEW w \in [1 .. n -> Nat]
  PROVE  \E f : f = [i \in 0 .. n |-> IF i = 0 THEN 0 ELSE f[i - 1] + w[i]]
<1>1. PICK g : g = [p \in (0 .. n) \X Nat |-> IF p[1] \in 1 .. n THEN p[2] + w[p[1]] ELSE 0]
  OBVIOUS
<1>2. g \in [(0 .. n) \X Nat -> Nat]
  BY <1>1
<1>3. PICK f : Runs(f, n, Nat, 0, g)
  BY <1>2, LoopRuns
<1>4. \A i \in 1 .. n : f[i] = f[i - 1] + w[i]
  <2> SUFFICES ASSUME NEW i \in 1 .. n PROVE f[i] = f[i - 1] + w[i]
    OBVIOUS
  <2>1. f[i - 1] \in Nat /\ i \in 0 .. n
    BY <1>3 DEF Runs
  <2> QED
    BY <1>1, <1>3, <2>1 DEF Runs
<1>5. f = [i \in 0 .. n |-> IF i = 0 THEN 0 ELSE f[i - 1] + w[i]]
  <2>1. \A i \in 0 .. n : i = 0 \/ i \in 1 .. n
    OBVIOUS
  <2> QED
    BY <1>3, <1>4, <2>1 DEF Runs
<1> QED
  BY <1>5

(* The two loops of findWeighted.                                           *)
LEMMA SharesAdd ==
  ASSUME RotatorType
  PROVE  Sums(shares, Endpoints, [i \in 1 .. Endpoints |-> weight(i - 1)])
<1>1. PICK n \in Nat : n = Endpoints
  BY EndpointsAre
<1>2. PICK w : w = [i \in 1 .. n |-> weight(i - 1)]
  OBVIOUS
<1>3. w \in [1 .. n -> Nat]
  BY <1>1, <1>2, EndpointsAre, WeightIs
<1>4. \E f : f = [i \in 0 .. n |-> IF i = 0 THEN 0 ELSE f[i - 1] + w[i]]
  BY <1>3, SumRuns
<1>5. ASSUME NEW f
      PROVE  [i \in 0 .. n |-> IF i = 0 THEN 0 ELSE f[i - 1] + w[i]]
             = [i \in 0 .. n |-> IF i = 0 THEN 0 ELSE f[i - 1] + weight(i - 1)]
  <2>1. \A i \in 0 .. n : i # 0 => w[i] = weight(i - 1)
    BY <1>2
  <2> QED
    BY <2>1
<1>6. \E f : f = [i \in 0 .. n |-> IF i = 0 THEN 0 ELSE f[i - 1] + weight(i - 1)]
  BY <1>4, <1>5
<1>7. shares = [i \in 0 .. n |-> IF i = 0 THEN 0 ELSE shares[i - 1] + weight(i - 1)]
  BY <1>1, <1>6 DEF shares
<1>8. shares = [i \in 0 .. n |-> IF i = 0 THEN 0 ELSE shares[i - 1] + w[i]]
  BY <1>5, <1>7
<1> QED
  BY <1>1, <1>2, <1>3, <1>8, SumUnfolds

LEMMA TotalAdds ==
  ASSUME RotatorType
  PROVE  \E f : /\ Sums(f, Endpoints, [i \in 1 .. Endpoints |-> IF i - 1 \in Warm THEN weight(i - 1) ELSE 0])
                /\ totalWeight = f[Endpoints]
<1>1. PICK n \in Nat : n = Endpoints
  BY EndpointsAre
<1>2. PICK w : w = [i \in 1 .. n |-> IF i - 1 \in Warm THEN weight(i - 1) ELSE 0]
  OBVIOUS
<1>3. w \in [1 .. n -> Nat]
  BY <1>1, <1>2, EndpointsAre, WeightIs
<1>4. \E f : f = [i \in 0 .. n |-> IF i = 0 THEN 0 ELSE f[i - 1] + w[i]]
  BY <1>3, SumRuns
<1>5. ASSUME NEW f
      PROVE  [i \in 0 .. n |-> IF i = 0 THEN 0 ELSE f[i - 1] + w[i]]
             = [i \in 0 .. n |-> IF i = 0 THEN 0
                                 ELSE f[i - 1] + (IF i - 1 \in Warm THEN weight(i - 1) ELSE 0)]
  <2>1. \A i \in 0 .. n : i # 0 => w[i] = IF i - 1 \in Warm THEN weight(i - 1) ELSE 0
    BY <1>2
  <2> QED
    BY <2>1
<1>6. \E f : f = [i \in 0 .. n |-> IF i = 0 THEN 0
                                   ELSE f[i - 1] + (IF i - 1 \in Warm THEN weight(i - 1) ELSE 0)]
  BY <1>4, <1>5
<1>7. PICK f : /\ f = [i \in 0 .. n |-> IF i = 0 THEN 0
                                        ELSE f[i - 1] + (IF i - 1 \in Warm THEN weight(i - 1) ELSE 0)]
               /\ totalWeight = f[n]
  BY <1>1, <1>6 DEF totalWeight
<1>8. f = [i \in 0 .. n |-> IF i = 0 THEN 0 ELSE f[i - 1] + w[i]]
  BY <1>5, <1>7
<1> QED
  BY <1>1, <1>2, <1>3, <1>7, <1>8, SumUnfolds

(* The shares are laid end to end.                                          *)
LEMMA SharesGrow ==
  ASSUME RotatorType
  PROVE  /\ shares \in [0 .. Endpoints -> Nat] /\ shares[0] = 0
         /\ \A e \in Endpoint : shares[e + 1] = shares[e] + weight(e)
         /\ \A k \in 0 .. Endpoints : \A e \in 0 .. k - 1 : shares[e + 1] <= shares[k]
<1>1. PICK w : w = [i \in 1 .. Endpoints |-> weight(i - 1)]
  OBVIOUS
<1>2. Sums(shares, Endpoints, w)
  BY <1>1, SharesAdd
<1>3. PICK from : from = shares
  OBVIOUS
<1>4. from \in [0 .. Endpoints -> Nat] /\ from[0] = 0
  BY <1>2, <1>3 DEF Sums
<1>5. \A e \in Endpoint : from[e + 1] = from[e] + weight(e)
  <2> SUFFICES ASSUME NEW e \in Endpoint PROVE from[e + 1] = from[e] + weight(e)
    OBVIOUS
  <2>1. e + 1 \in 1 .. Endpoints /\ (e + 1) - 1 = e
    BY EndpointsAre
  <2>2. w[e + 1] = weight(e)
    BY <1>1, <2>1
  <2> QED
    BY <1>2, <1>3, <2>1, <2>2 DEF Sums
<1> DEFINE Above(k) == \A e \in 0 .. k - 1 : from[e + 1] <= from[k]
           T == {k \in 0 .. Endpoints : Above(k)}
<1>6. 0 \in T /\ T \in SUBSET (0 .. Endpoints)
  BY EndpointsAre
<1>7. \A k \in 0 .. Endpoints - 1 : k \in T => k + 1 \in T
  <2> SUFFICES ASSUME NEW k \in 0 .. Endpoints - 1, Above(k) PROVE Above(k + 1) /\ k + 1 \in 0 .. Endpoints
    OBVIOUS
  <2>1. k \in Endpoint /\ k + 1 \in 0 .. Endpoints /\ k \in 0 .. Endpoints
    BY EndpointsAre DEF Endpoint
  <2>2. from[k + 1] = from[k] + weight(k) /\ weight(k) \in Nat /\ from[k] \in Nat
    BY <1>4, <1>5, <2>1, WeightIs
  <2> SUFFICES ASSUME NEW e \in 0 .. k PROVE from[e + 1] <= from[k + 1]
    BY <2>1
  <2>3. CASE e = k
    BY <2>2, <2>3
  <2>4. CASE e # k
    <3>1. e \in 0 .. k - 1 /\ e + 1 \in 0 .. Endpoints
      BY <2>4, EndpointsAre
    <3>2. from[e + 1] <= from[k] /\ from[e + 1] \in Nat
      BY <1>4, <3>1
    <3> QED
      BY <2>2, <3>2
  <2> QED
    BY <2>3, <2>4
<1>8. T = 0 .. Endpoints
  <2> HIDE DEF T
  <2> QED
    BY <1>6, <1>7, Stepwise, EndpointsAre
<1> QED
  BY <1>3, <1>4, <1>5, <1>8

(* Every random number below the end falls into the share of one endpoint,  *)
(* and that one is taken.                                                   *)
LEMMA FallsIntoShare ==
  ASSUME RotatorType, NEW r \in Nat, r < shares[Endpoints]
  PROVE  \E e \in Endpoint : shares[e] <= r /\ r < shares[e + 1]
<1>1. PICK from : from = shares
  OBVIOUS
<1>2. from \in [0 .. Endpoints -> Nat] /\ from[0] = 0
  BY <1>1, SharesGrow
<1> DEFINE Found(k) == r < from[k] => \E e \in Endpoint : from[e] <= r /\ r < from[e + 1]
           T == {k \in 0 .. Endpoints : Found(k)}
<1>3. 0 \in T /\ T \in SUBSET (0 .. Endpoints)
  BY <1>2, EndpointsAre
<1>4. \A k \in 0 .. Endpoints - 1 : k \in T => k + 1 \in T
  <2> SUFFICES ASSUME NEW k \in 0 .. Endpoints - 1, Found(k) PROVE Found(k + 1) /\ k + 1 \in 0 .. Endpoints
    OBVIOUS
  <2>1. k \in Endpoint /\ k + 1 \in 0 .. Endpoints /\ k \in 0 .. Endpoints
    BY EndpointsAre DEF Endpoint
  <2>2. from[k] \in Nat
    BY <1>2, <2>1
  <2> QED
    BY <2>1, <2>2
<1>5. T = 0 .. Endpoints
  <2> HIDE DEF T
  <2> QED
    BY <1>3, <1>4, Stepwise, EndpointsAre
<1>6. Found(Endpoints)
  BY <1>5, EndpointsAre
<1> QED
  BY <1>1, <1>6

LEMMA TakesShare ==
  ASSUME RotatorType, NEW r \in Nat, r < shares[Endpoints], NEW e \in Endpoint
  PROVE  /\ weightedAt(r) \in Endpoint
         /\ weightedAt(r) = e <=> shares[e] <= r /\ r < shares[e + 1]
<1>1. PICK from : from = shares
  OBVIOUS
<1>2. /\ from \in [0 .. Endpoints -> Nat]
      /\ \A k \in 0 .. Endpoints : \A i \in 0 .. k - 1 : from[i + 1] <= from[k]
  BY <1>1, SharesGrow
<1>3. PICK d \in Endpoint : from[d] <= r /\ r < from[d + 1]
  BY <1>1, FallsIntoShare
<1>4. \A i \in Endpoint : from[i] \in Nat /\ from[i + 1] \in Nat /\ i \in Nat /\ i \in 0 .. Endpoints
  <2>1. \A i \in Endpoint : i + 1 \in 0 .. Endpoints
    BY EndpointsAre
  <2> QED
    BY <1>2, <2>1, EndpointsAre
<1>5. \A i \in Endpoint : i < d => from[i + 1] <= from[d]
  <2>1. \A i \in Endpoint : i < d => i \in 0 .. d - 1
    BY EndpointsAre
  <2> QED
    BY <1>2, <1>4, <2>1
<1>6. \A i \in Endpoint : i > d => from[d + 1] <= from[i]
  <2>1. \A i \in Endpoint : i > d => d \in 0 .. i - 1
    BY EndpointsAre
  <2> QED
    BY <1>2, <1>4, <2>1
<1>7. PICK hits : hits = {i \in Endpoint : r < from[i + 1]}
  OBVIOUS
<1>8. d \in hits /\ \A i \in hits : d <= i
  BY <1>3, <1>4, <1>5, <1>7
<1>9. Min(hits) = d
  <2>1. \A x \in hits : (\A y \in hits : x =< y) => x = d
    BY <1>4, <1>7, <1>8
  <2> QED
    BY <1>8, <2>1 DEF Min
<1>10. weightedAt(r) = d
  BY <1>1, <1>7, <1>8, <1>9 DEF weightedAt
<1>11. from[e] <= r /\ r < from[e + 1] => e = d
  BY <1>3, <1>4, <1>5, <1>6
<1> QED
  BY <1>1, <1>3, <1>10, <1>11

(* The numbers that take an endpoint are its share, as long as its weight.  *)
LEMMA FindsWeighted ==
  ASSUME RotatorType
  PROVE  findWeighted \subseteq Endpoint /\ WeightedShares
<1>1. PICK w : w = [i \in 1 .. Endpoints |-> weight(i - 1)]
  OBVIOUS
<1>2. PICK v : v = [i \in 1 .. Endpoints |-> IF i - 1 \in Warm THEN weight(i - 1) ELSE 0]
  OBVIOUS
<1>3. Sums(shares, Endpoints, w)
  BY <1>1, SharesAdd
<1>4. PICK f : Sums(f, Endpoints, v) /\ totalWeight = f[Endpoints]
  BY <1>2, TotalAdds
<1>5. \A i \in 1 .. Endpoints : /\ v[i] \in Nat /\ w[i] \in Nat /\ v[i] <= w[i]
                                /\ Warm = Endpoint => v[i] = w[i]
  BY <1>1, <1>2, EndpointsAre, WeightIs
<1> DEFINE Less(k) == f[k] <= shares[k] /\ (Warm = Endpoint => f[k] = shares[k])
           T == {k \in 0 .. Endpoints : Less(k)}
<1>6. 0 \in T /\ T \in SUBSET (0 .. Endpoints)
  BY <1>3, <1>4, EndpointsAre DEF Sums
<1>7. \A k \in 0 .. Endpoints - 1 : k \in T => k + 1 \in T
  <2> SUFFICES ASSUME NEW k \in 0 .. Endpoints - 1, Less(k) PROVE Less(k + 1) /\ k + 1 \in 0 .. Endpoints
    OBVIOUS
  <2>1. k + 1 \in 1 .. Endpoints /\ (k + 1) - 1 = k /\ k \in 0 .. Endpoints /\ k + 1 \in 0 .. Endpoints
    BY EndpointsAre
  <2>2. /\ f[k + 1] = f[k] + v[k + 1] /\ shares[k + 1] = shares[k] + w[k + 1]
        /\ f[k] \in Nat /\ shares[k] \in Nat
    BY <1>3, <1>4, <2>1 DEF Sums
  <2> QED
    BY <1>5, <2>1, <2>2
<1>8. T = 0 .. Endpoints
  <2> HIDE DEF T
  <2> QED
    BY <1>6, <1>7, Stepwise, EndpointsAre
<1>9. Less(Endpoints)
  BY <1>8, EndpointsAre
<1>10. totalWeight \in Nat /\ shares[Endpoints] \in Nat
  BY <1>3, <1>4, EndpointsAre DEF Sums
<1>11. findWeighted \subseteq Endpoint
  <2>1. \A r \in 0 .. totalWeight - 1 : r \in Nat /\ r < shares[Endpoints]
    BY <1>4, <1>9, <1>10
  <2>2. \A r \in 0 .. totalWeight - 1 : weightedAt(r) \in Endpoint
    BY <2>1, TakesShare, EndpointsAre
  <2> QED
    BY <2>2, EndpointsAre DEF findWeighted
<1>12. ASSUME Warm = Endpoint, NEW e \in Endpoint
       PROVE  Cardinality({r \in 0 .. totalWeight - 1 : weightedAt(r) = e}) = weight(e)
  <2>1. totalWeight = shares[Endpoints]
    BY <1>4, <1>9, <1>12
  <2>2. PICK a \in Nat, b \in Nat, n \in Nat : a = shares[e] /\ b = shares[e + 1] /\ n = totalWeight
    BY <1>10, SharesGrow, EndpointsAre
  <2>3. b = a + weight(e) /\ weight(e) \in Nat \ {0}
    BY <2>2, SharesGrow, WeightIs
  <2>4. b <= n
    <3>1. Endpoints \in 0 .. Endpoints /\ e \in 0 .. Endpoints - 1
      BY EndpointsAre DEF Endpoint
    <3> QED
      BY <2>1, <2>2, <3>1, SharesGrow
  <2>5. \A r \in 0 .. n - 1 : r \in Nat /\ r < shares[Endpoints]
    BY <2>1, <2>2
  <2>6. \A r \in 0 .. n - 1 : weightedAt(r) = e <=> a <= r /\ r < b
    BY <2>2, <2>5, TakesShare
  <2>7. {r \in 0 .. n - 1 : weightedAt(r) = e} = a .. b - 1
    BY <2>4, <2>6
  <2>8. Cardinality(a .. b - 1) = weight(e)
    <3>1. b - 1 \in Int /\ a <= b - 1 /\ (b - 1) - a + 1 = weight(e)
      BY <2>3
    <3> QED
      BY <3>1, FS_Interval
  <2> QED
    BY <2>2, <2>7, <2>8
<1> QED
  BY <1>11, <1>12 DEF WeightedShares

(* The latest rank exists.                                                  *)
LEMMA TopIs ==
  ASSUME RotatorType
  PROVE  Max({lastUsed[i] : i \in Endpoint}) \in Nat
<1> DEFINE Top(k) == \E m \in Endpoint : \A i \in Endpoint : i <= k => lastUsed[m] >= lastUsed[i]
           T == {k \in 0 .. Endpoints : Top(k)}
<1>0. \A i \in Endpoint : lastUsed[i] \in Nat /\ i \in Nat
  BY EndpointsAre DEF RotatorType
<1>1. 0 \in T /\ T \in SUBSET (0 .. Endpoints)
  <2>1. \A i \in Endpoint : i <= 0 => lastUsed[0] >= lastUsed[i]
    BY <1>0, EndpointsAre
  <2> QED
    BY <2>1, EndpointsAre
<1>2. \A k \in 0 .. Endpoints - 1 : k \in T => k + 1 \in T
  <2> SUFFICES ASSUME NEW k \in 0 .. Endpoints - 1, Top(k) PROVE Top(k + 1) /\ k + 1 \in 0 .. Endpoints
    OBVIOUS
  <2>1. k + 1 \in 0 .. Endpoints /\ \A i \in Endpoint : i <= k + 1 => i <= k \/ i = k + 1
    BY <1>0, EndpointsAre
  <2>2. PICK m \in Endpoint : \A i \in Endpoint : i <= k => lastUsed[m] >= lastUsed[i]
    OBVIOUS
  <2>3. CASE k + 1 \in Endpoint /\ lastUsed[k + 1] > lastUsed[m]
    <3>1. \A i \in Endpoint : i <= k + 1 => lastUsed[k + 1] >= lastUsed[i]
      BY <1>0, <2>1, <2>2, <2>3
    <3> QED
      BY <2>1, <2>3, <3>1
  <2>4. CASE ~(k + 1 \in Endpoint /\ lastUsed[k + 1] > lastUsed[m])
    <3>1. \A i \in Endpoint : i <= k + 1 => lastUsed[m] >= lastUsed[i]
      BY <1>0, <2>1, <2>2, <2>4
    <3> QED
      BY <2>1, <3>1
  <2> QED
    BY <2>3, <2>4
<1>3. T = 0 .. Endpoints
  <2> HIDE DEF T
  <2> QED
    BY <1>1, <1>2, Stepwise, EndpointsAre
<1>4. Top(Endpoints)
  <2>1. Endpoints \in T
    <3> HIDE DEF T
    <3> QED
      BY <1>3, EndpointsAre
  <2> HIDE DEF Top
  <2> QED
    BY <2>1
<1>5. PICK m \in Endpoint : \A i \in Endpoint : lastUsed[m] >= lastUsed[i]
  BY <1>4, EndpointsAre
<1>6. PICK S : S = {lastUsed[i] : i \in Endpoint}
  OBVIOUS
<1>7. lastUsed[m] \in S /\ S \subseteq Nat /\ \A y \in S : lastUsed[m] >= y
  BY <1>0, <1>5, <1>6
<1> QED
  BY <1>6, <1>7 DEF Max

LEMMA RotatorStep == RotatorType /\ [RotatorNext]_rotatorVars => RotatorType'
<1> SUFFICES ASSUME RotatorType, [RotatorNext]_rotatorVars PROVE RotatorType'
  OBVIOUS
<1>1. CASE Rotate
  <2>1. PICK e \in Targets : current' = e /\ lastUsed' = Used(e) /\ UNCHANGED <<strategy, failureCount>>
    BY <1>1 DEF Rotate
  <2>2. e \in Endpoint
    <3>1. CASE strategy = "round_robin"
      <4>1. (current + 1) % Endpoints \in 0 .. Endpoints - 1
        BY EndpointsAre DEF RotatorType
      <4> QED
        BY <2>1, <3>1, <4>1 DEF Targets, Endpoint
    <3>2. CASE strategy = "random"
      BY <2>1, <3>2 DEF Targets
    <3>3. CASE strategy = "lru"
      BY <2>1, <3>3, FindsLRU DEF Targets
    <3>4. CASE strategy = "weighted"
      BY <2>1, <3>4, FindsWeighted DEF Targets
    <3> QED
      BY <3>1, <3>2, <3>3, <3>4 DEF RotatorType
  <2>3. PICK top \in Nat : top = Max({lastUsed[i] : i \in Endpoint})
    BY TopIs
  <2>4. Used(e) \in [Endpoint -> Nat]
    <3>1. \A i \in Endpoint : lastUsed[i] \in Nat
      BY DEF RotatorType
    <3> QED
      BY <2>2, <2>3, <3>1 DEF Used
  <2> QED
    BY <2>1, <2>2, <2>4 DEF RotatorType
<1>2. CASE ResurrectAll
  BY <1>2 DEF ResurrectAll, RotatorType
<1>3. ASSUME NEW e \in Endpoint, MarkFailure(e) PROVE RotatorType'
  BY <1>3, EndpointsAre DEF MarkFailure, RotatorType
<1>4. ASSUME NEW e \in Endpoint, FiveMinutes(e) PROVE RotatorType'
  BY <1>4 DEF FiveMinutes, RotatorType
<1>5. CASE UNCHANGED rotatorVars
  BY <1>5 DEF rotatorVars, RotatorType
<1> QED
  BY <1>1, <1>2, <1>3, <1>4, <1>5 DEF RotatorNext

(* Whatever the endpoints, their weights and the history of uses, failures  *)
(* and revivals: findLRU passes over no working endpoint that has been idle *)
(* for longer, and findWeighted gives each endpoint its weight.             *)
THEOREM RotatorChooses == RotatorSpec => []RotatorChoice
<1>1. RotatorInit => RotatorType
  BY EndpointsAre DEF RotatorInit, RotatorType
<1>2. RotatorType => RotatorChoice
  BY FindsLRU, FindsWeighted DEF RotatorChoice
<1> QED
  BY <1>1, <1>2, RotatorStep, PTL DEF RotatorSpec
=============================================================================
