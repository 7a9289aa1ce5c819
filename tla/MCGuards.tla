------------------------------ MODULE MCGuards ------------------------------
(* The guards of the library that share no state, side by side for TLC: one *)
(* of them is chosen at the start and runs alone.                           *)
EXTENDS CircuitBreaker, GroupGuard, RetryTracker, DeliveryTracker, ProxyRotator, ProxyTicker,
        TLC

CONSTANTS add, create \* group operations

Limits == (add :> 2) @@ (create :> 1)
Weights == (0 :> 3) @@ (1 :> 1) @@ (2 :> 2)

VARIABLE part

parts == <<part, vars, groupVars, retryVars, deliveryVars, rotatorVars, tickerVars>>

GuardsInit ==
  /\ part \in {"breaker", "group", "retry", "delivery", "rotator", "ticker"}
  /\ Init /\ GroupInit /\ RetryInit /\ DeliveryInit /\ RotatorInit /\ TickerInit
  /\ part # "rotator" => strategy = "random"

Breaker(A) ==
  /\ part = "breaker" /\ A
  /\ UNCHANGED <<part, groupVars, retryVars, deliveryVars, rotatorVars, tickerVars>>
Group(A) ==
  /\ part = "group" /\ A
  /\ UNCHANGED <<part, vars, retryVars, deliveryVars, rotatorVars, tickerVars>>
Retry(A) ==
  /\ part = "retry" /\ A
  /\ UNCHANGED <<part, vars, groupVars, deliveryVars, rotatorVars, tickerVars>>
Delivery(A) ==
  /\ part = "delivery" /\ A
  /\ UNCHANGED <<part, vars, groupVars, retryVars, rotatorVars, tickerVars>>
Rotator(A) ==
  /\ part = "rotator" /\ A
  /\ UNCHANGED <<part, vars, groupVars, retryVars, deliveryVars, tickerVars>>
Ticker(A) ==
  /\ part = "ticker" /\ A
  /\ UNCHANGED <<part, vars, groupVars, retryVars, deliveryVars, rotatorVars>>

(* The bounds of GroupGuard, and a panic, end a behaviour.                  *)
Ended ==
  /\ groupNow >= MaxGroupTime \/ allowedNo >= MaxGroupOps \/ panicked
  /\ UNCHANGED parts

GuardsNext ==
  \/ Breaker(Next) \/ Group(GroupNext) \/ Retry(RetryNext) \/ Delivery(DeliveryNext)
  \/ Rotator(RotatorNext) \/ Ticker(TickerNext) \/ Ended

(* Time passes, a send under way comes to an end, a sleeping goroutine      *)
(* wakes, and a goroutine that can run does; select takes a ready stop      *)
(* channel with even odds.                                                  *)
GuardsSpec ==
  /\ GuardsInit /\ [][GuardsNext]_parts
  /\ WF_parts(Breaker(TimePasses))
  /\ \A l \in Loop :
       WF_parts(Breaker(GetJitter(l) \/ RecordSuccess(l) \/ RecordFailure(l) \/ NotSent(l)))
  /\ WF_parts(Retry(RetryTick))
  /\ \A m \in RetryMsg : WF_parts(Retry(Wakes(m)))
  /\ \A g \in Rotor :
       /\ WF_parts(Ticker(RotorStep(g)))
       /\ SF_parts(Ticker(TakeStop(g)))
=============================================================================
