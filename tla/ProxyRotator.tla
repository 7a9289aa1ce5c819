---------------------------- MODULE ProxyRotator ----------------------------
(***************************************************************************)
(* The choice of an endpoint in proxy_rotator.go: Rotate with its four     *)
(* strategies, MarkFailure and ResurrectAll.  The goroutines that call     *)
(* Rotate are the subject of ProxyTicker.                                  *)
(*                                                                         *)
(* Endpoints are numbered from 0.  LastUsed is kept as a rank (0: never    *)
(* used; higher: more recently).  A random number is any number.           *)
(* Failures are counted up to FailCap, where every weight is minimal.      *)
(***************************************************************************)
EXTENDS Integers, FiniteSets, FiniteSetsExt

CONSTANTS
  Endpoints, \* number of endpoints, at least one
  FailLimit, \* failures at which an endpoint is set aside (three)
  FailCap,   \* bound: failures that are counted
  Weight     \* Weight, per endpoint

Endpoint == 0 .. Endpoints - 1

ASSUME RotatorAssumption ==
  /\ Endpoints \in Nat \ {0} /\ FailLimit \in Nat \ {0}
  /\ FailCap \in Nat /\ FailCap >= FailLimit
  /\ Weight \in [Endpoint -> Int] /\ \A e \in Endpoint : Weight[e] <= 2 * FailCap + 1

VARIABLES
  strategy,     \* pr.strategy, given to NewProxyRotator
  current,      \* pr.current
  lastUsed,     \* per endpoint: rank of LastUsed
  failureCount, \* per endpoint: FailureCount, up to FailCap
  cooldown,     \* endpoints with a Cooldown
  recent        \* endpoints used within the last five minutes

rotatorVars == <<strategy, current, lastUsed, failureCount, cooldown, recent>>

(* Variant: an endpoint that was never used is passed over.                 *)
findLRUUsed ==
  LET scan[i \in 0 .. Endpoints] ==
        IF i = 0 THEN 0
        ELSE LET best == scan[i - 1]
             IN  IF /\ lastUsed[i - 1] > 0
                    /\ lastUsed[i - 1] < lastUsed[best]
                    /\ failureCount[i - 1] < FailLimit
                 THEN i - 1 ELSE best
  IN  scan[Endpoints]

(* The loop of findLRU: scan[i] is idx after the first i endpoints.         *)
findLRU ==
  LET scan[i \in 0 .. Endpoints] ==
        IF i = 0 THEN 0
        ELSE LET best == scan[i - 1]
             IN  IF /\ lastUsed[i - 1] < lastUsed[best]
                    /\ failureCount[i - 1] < FailLimit
                 THEN i - 1 ELSE best
  IN  scan[Endpoints]

weight(i) ==
  LET w == Weight[i] - 2 * failureCount[i] IN IF w > 1 THEN w ELSE 1

(* The endpoints that count towards totalWeight.                            *)
Warm == {i \in Endpoint : i \notin recent \/ i \notin cooldown}

totalWeight ==
  LET total[i \in 0 .. Endpoints] ==
        IF i = 0 THEN 0
        ELSE total[i - 1] + (IF i - 1 \in Warm THEN weight(i - 1) ELSE 0)
  IN  total[Endpoints]

(* Where the share of each endpoint begins when all are laid end to end.    *)
shares ==
  LET upTo[i \in 0 .. Endpoints] == IF i = 0 THEN 0 ELSE upTo[i - 1] + weight(i - 1)
  IN  upTo

(* The second loop of findWeighted for the random number r: all endpoints   *)
(* in order, the cooling ones too.                                          *)
weightedAt(r) ==
  LET from == shares
      hits == {i \in Endpoint : r < from[i + 1]}
  IN  IF hits = {} THEN 0 ELSE Min(hits)

findWeighted ==
  IF totalWeight = 0 THEN {0} ELSE {weightedAt(r) : r \in 0 .. totalWeight - 1}

Targets ==
  CASE strategy = "round_robin" -> {(current + 1) % Endpoints}
    [] strategy = "random"      -> Endpoint
    [] strategy = "lru"         -> {findLRU}
    [] strategy = "weighted"    -> findWeighted

(* The ranks after LastUsed of e became the latest.                         *)
Used(e) ==
  LET old == lastUsed[e]
      top == Max({lastUsed[i] : i \in Endpoint})
  IN  [i \in Endpoint |->
         IF i = e THEN IF old = 0 THEN top + 1 ELSE top
         ELSE IF old > 0 /\ lastUsed[i] > old THEN lastUsed[i] - 1 ELSE lastUsed[i]]

Rotate ==
  \E e \in Targets :
    /\ current' = e
    /\ lastUsed' = Used(e)
    /\ recent' = recent \cup {e}
    /\ UNCHANGED <<strategy, failureCount, cooldown>>

MarkFailure(e) ==
  LET n == failureCount[e] + 1
  IN  /\ failureCount' = [failureCount EXCEPT ![e] = IF n > FailCap THEN FailCap ELSE n]
      /\ cooldown' = IF n >= FailLimit THEN cooldown \cup {e} ELSE cooldown
      /\ UNCHANGED <<strategy, current, lastUsed, recent>>

(* Cooldown stays as it is.                                                 *)
ResurrectAll ==
  /\ failureCount' = [e \in Endpoint |-> 0]
  /\ UNCHANGED <<strategy, current, lastUsed, cooldown, recent>>

(* Five minutes have passed since the use of e and of all before it.        *)
FiveMinutes(e) ==
  /\ e \in recent
  /\ recent' = {i \in recent : lastUsed[i] > lastUsed[e]}
  /\ UNCHANGED <<strategy, current, lastUsed, failureCount, cooldown>>

RotatorInit ==
  /\ strategy \in {"round_robin", "random", "lru", "weighted"}
  /\ current = 0
  /\ lastUsed = [e \in Endpoint |-> 0]
  /\ failureCount = [e \in Endpoint |-> 0]
  /\ cooldown = {} /\ recent = {}

RotatorNext ==
  \/ Rotate \/ ResurrectAll
  \/ \E e \in Endpoint : MarkFailure(e) \/ FiveMinutes(e)

RotatorSpec == RotatorInit /\ [][RotatorNext]_rotatorVars

-----------------------------------------------------------------------------
(* Least recently used: the loop never takes an endpoint while a working    *)
(* one has been idle for longer, in whatever order they come.  (It may take *)
(* the first endpoint although that one has failed.)                        *)
LeastRecentlyUsed ==
  \A e \in Endpoint : failureCount[e] < FailLimit => lastUsed[findLRU] <= lastUsed[e]

(* Weighted: while no endpoint is cooling down, each is taken for as many   *)
(* of the random numbers as its weight says.                                *)
WeightedShares ==
  Warm = Endpoint =>
    \A e \in Endpoint :
      Cardinality({r \in 0 .. totalWeight - 1 : weightedAt(r) = e}) = weight(e)

(* Rotate chooses as its strategy says: what the loops of findLRU and       *)
(* findWeighted compute agrees with the two definitions above.              *)
RotatorChoice == LeastRecentlyUsed /\ WeightedShares
=============================================================================
