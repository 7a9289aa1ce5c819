----------------------------- MODULE MCStrangers ----------------------------
(* Admission with a count of the messages that went to each person today,   *)
(* as far as the promise about strangers tells them apart.                  *)
EXTENDS Admission

VARIABLE sentTo \* history: per person, messages sent since midnight

Allowed == MaxStrangerPerDay + Cardinality(Sender) - 1

CountedSend(s) ==
  /\ Sends(s)
  /\ sentTo' = [p \in Person |-> IF p = sender[s].chat /\ sentTo[p] <= Allowed
                                 THEN sentTo[p] + 1 ELSE sentTo[p]]

Uncounted ==
  /\ \/ \E s \in Sender : (\E c \in Chat : Enters(s, c)) \/ Checks(s) \/ Fails(s)
     \/ \E p \in Person : Incoming(p)
     \/ StreamError463 \/ TimelockCalls \/ ContactCalls \/ Destroy \/ AdmissionTick
  /\ UNCHANGED sentTo

StrangersInit == AdmissionInit /\ sentTo = [p \in Person |-> 0]

StrangersNext ==
  \/ \E s \in Sender : CountedSend(s)
  \/ Midnight /\ sentTo' = [p \in Person |-> 0]
  \/ Uncounted

StrangersSpec == StrangersInit /\ [][StrangersNext]_<<admissionVars, sentTo>>

(* README.md:31, the contact graph limits strangers ("batasi kontak         *)
(* stranger"), by cfg.MaxStrangerPerDay: somebody who never wrote and was   *)
(* offered no handshake, a stranger to GetContactState, gets no more        *)
(* messages in a day, but for those that the other loops have under way.    *)
StrangersLimited ==
  \A p \in Person : contacts[p].state \in {"none", "stranger"} => sentTo[p] <= Allowed
=============================================================================
