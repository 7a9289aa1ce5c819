---------------------------- MODULE SendService ----------------------------
(***************************************************************************)
(* What AntiBanClient.SendMessage promises each of its callers, with no    *)
(* queue, loop or channel in sight: a submitted message meets one fate,    *)
(* once and for all, and the reply, if the caller stays for it, is that    *)
(* fate.                                                                   *)
(***************************************************************************)
CONSTANT Caller

VARIABLES fate, reply

Fates == {"ok", "refused", "failed"}

Init ==
  /\ fate = [c \in Caller |-> "none"]
  /\ reply = [c \in Caller |-> "none"]

Submit(c) ==
  /\ fate[c] = "none"
  /\ reply[c] = "none"
  /\ fate' = [fate EXCEPT ![c] = "pending"]
  /\ UNCHANGED reply

Decide(c) ==
  /\ fate[c] = "pending"
  /\ \E f \in Fates : fate' = [fate EXCEPT ![c] = f]
  /\ UNCHANGED reply

Reply(c) ==
  /\ reply[c] = "none"
  /\ fate[c] \in Fates
  /\ reply' = [reply EXCEPT ![c] = fate[c]]
  /\ UNCHANGED fate

(* The caller's context ends first, before or after the submission.         *)
Abandon(c) ==
  /\ reply[c] = "none"
  /\ reply' = [reply EXCEPT ![c] = "gone"]
  /\ UNCHANGED fate

Next == \E c \in Caller : Submit(c) \/ Decide(c) \/ Reply(c) \/ Abandon(c)

Spec == Init /\ [][Next]_<<fate, reply>>
=============================================================================
