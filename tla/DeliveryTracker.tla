-------------------------- MODULE DeliveryTracker ---------------------------
(***************************************************************************)
(* DeliveryTracker of delivery_tracker.go, fed by AfterSend and by the     *)
(* Receipt events of wrapper.go.  A receipt may come at any time and more  *)
(* than once for a message: delivered and read receipts both count.        *)
(*                                                                         *)
(* The two lists hold ages in ticks.  No code calls checkAndAlert, so the  *)
(* alert is left out.                                                      *)
(***************************************************************************)
EXTENDS TimeWindow

CONSTANTS
  DeliveryHour, \* one hour, in ticks
  MaxSent,      \* bound: messages sent within an hour
  MaxReceipts   \* bound: receipts within an hour

ASSUME DeliveryAssumption ==
  DeliveryHour \in Nat \ {0} /\ MaxSent \in Nat /\ MaxReceipts \in Nat

VARIABLES
  sent,      \* dt.sent
  delivered, \* dt.delivered
  lastHour   \* history: what was sent and received in the last hour, since the last Reset

deliveryVars == <<sent, delivered, lastHour>>

Nothing == [sent |-> <<>>, delivered |-> <<>>]

(* Variant: the index is not set back between the two loops.                *)
pruneOneIndex(s, d) ==
  LET first == KeepAfter(s, DeliveryHour)
      both == Len(first) + Len(KeepAfter(d, DeliveryHour))
  IN  /\ sent' = first
      /\ delivered' = SubSeq(d, 1, IF both < Len(d) THEN both ELSE Len(d))

prune(s, d) ==
  /\ sent' = KeepAfter(s, DeliveryHour)
  /\ delivered' = KeepAfter(d, DeliveryHour)

OnMessageSent ==
  /\ prune(Append(sent, 0), delivered)
  /\ lastHour' = [lastHour EXCEPT !.sent = Append(@, 0)]

OnDeliveryReceipt ==
  /\ prune(sent, Append(delivered, 0))
  /\ lastHour' = [lastHour EXCEPT !.delivered = Append(@, 0)]

DeliveryGetStats ==
  /\ prune(sent, delivered)
  /\ UNCHANGED lastHour

DeliveryReset ==
  /\ sent' = <<>> /\ delivered' = <<>>
  /\ lastHour' = Nothing

Grown(list) == Older(list, DeliveryHour)

DeliveryTick ==
  /\ sent' = Grown(sent) /\ delivered' = Grown(delivered)
  /\ lastHour' = [sent      |-> KeepAfter(Grown(lastHour.sent), DeliveryHour),
                  delivered |-> KeepAfter(Grown(lastHour.delivered), DeliveryHour)]

DeliveryInit ==
  /\ sent = <<>> /\ delivered = <<>>
  /\ lastHour = Nothing

DeliveryNext ==
  \/ Len(lastHour.sent) < MaxSent /\ OnMessageSent
  \/ Len(lastHour.delivered) < MaxReceipts /\ OnDeliveryReceipt
  \/ DeliveryGetStats \/ DeliveryReset \/ DeliveryTick

DeliverySpec == DeliveryInit /\ [][DeliveryNext]_deliveryVars

-----------------------------------------------------------------------------
(* What GetStats shows is what happened in the last hour since the last     *)
(* Reset: the lists forget neither a message nor a receipt too early, and   *)
(* one list's pruning does not disturb the other.                           *)
DeliveryStatsExact ==
  /\ Len(KeepAfter(sent, DeliveryHour)) = Len(lastHour.sent)
  /\ Len(KeepAfter(delivered, DeliveryHour)) = Len(lastHour.delivered)
=============================================================================
