----------------------------- MODULE GroupGuard -----------------------------
(***************************************************************************)
(* GroupOperationGuard of group_guard.go: a sliding window per kind of     *)
(* group operation in which Check decides and records under one mutex.     *)
(*                                                                         *)
(* A time in gog.ops is a stamp: the instant, and a number that keeps two  *)
(* operations of the same instant apart.                                   *)
(***************************************************************************)
EXTENDS Integers, FiniteSets

CONSTANTS
  GroupOp,      \* the operations Check knows
  GroupLimit,   \* cfg.MaxGroup...Per10m, per operation
  GroupWindow,  \* ten minutes, in ticks
  MaxGroupTime, \* bound: instants
  MaxGroupOps   \* bound: operations allowed

ASSUME GroupAssumption ==
  /\ GroupLimit \in [GroupOp -> Nat]
  /\ GroupWindow \in Nat \ {0}
  /\ MaxGroupTime \in Nat /\ MaxGroupOps \in Nat

VARIABLES
  groupNow,  \* the clock
  groupOps,  \* gog.ops
  allowed,   \* history: every operation allowed since the last Reset
  allowedNo  \* number of the next stamp

groupVars == <<groupNow, groupOps, allowed, allowedNo>>

Stamp == [at : Nat, no : Nat]

(* The stamps after the cutoff.                                             *)
InWindow(stamps) == {s \in stamps : s.at > groupNow - GroupWindow}

(* Variant: one operation too many.                                         *)
CheckOneMore(o, lag) ==
  LET kept == InWindow(groupOps[o])
      stamp == [at |-> groupNow + lag, no |-> allowedNo]
  IN  /\ groupNow' = groupNow + lag
      /\ IF Cardinality(kept) > GroupLimit[o]
         THEN /\ groupOps' = [groupOps EXCEPT ![o] = kept]
              /\ UNCHANGED <<allowed, allowedNo>>
         ELSE /\ groupOps' = [groupOps EXCEPT ![o] = kept \cup {stamp}]
              /\ allowed' = [allowed EXCEPT ![o] = @ \cup {stamp}]
              /\ allowedNo' = allowedNo + 1

(* Check(op).  The clock is read for the cutoff and again for the stamp,    *)
(* lag ticks later.  An operation outside GroupOp is refused before        *)
(* anything is touched.                                                     *)
Check(o, lag) ==
  LET kept == InWindow(groupOps[o])
      stamp == [at |-> groupNow + lag, no |-> allowedNo]
  IN  /\ groupNow' = groupNow + lag
      /\ IF Cardinality(kept) >= GroupLimit[o]
         THEN /\ groupOps' = [groupOps EXCEPT ![o] = kept]
              /\ UNCHANGED <<allowed, allowedNo>>
         ELSE /\ groupOps' = [groupOps EXCEPT ![o] = kept \cup {stamp}]
              /\ allowed' = [allowed EXCEPT ![o] = @ \cup {stamp}]
              /\ allowedNo' = allowedNo + 1

GroupReset ==
  /\ groupOps' = [o \in GroupOp |-> {}]
  /\ allowed' = [o \in GroupOp |-> {}]
  /\ UNCHANGED <<groupNow, allowedNo>>

(* GetStats()[o].                                                           *)
GroupStats(o) == Cardinality(InWindow(groupOps[o]))

GroupTick ==
  /\ groupNow' = groupNow + 1
  /\ UNCHANGED <<groupOps, allowed, allowedNo>>

GroupInit ==
  /\ groupNow = 0
  /\ groupOps = [o \in GroupOp |-> {}]
  /\ allowed = [o \in GroupOp |-> {}]
  /\ allowedNo = 0

GroupNext ==
  /\ groupNow < MaxGroupTime /\ allowedNo < MaxGroupOps
  /\ \/ \E o \in GroupOp, lag \in {0, 1} : Check(o, lag)
     \/ GroupReset
     \/ GroupTick

GroupSpec == GroupInit /\ [][GroupNext]_groupVars

-----------------------------------------------------------------------------
(* Every variable has its type.                                             *)
GroupTypeOK ==
  /\ groupNow \in Nat /\ allowedNo \in Nat
  /\ groupOps \in [GroupOp -> SUBSET Stamp]
  /\ allowed \in [GroupOp -> SUBSET Stamp]

(* Per 10-minute window: since the last Reset, no ten minutes up to now     *)
(* hold more allowed operations of a kind than its limit, whatever the list *)
(* lost by pruning and however the clock moved inside Check.                *)
GroupCap ==
  \A o \in GroupOp : Cardinality(InWindow(allowed[o])) <= GroupLimit[o]

(* GetStats reports exactly the operations allowed in the last ten minutes, *)
(* although it neither prunes nor sees what Check pruned away.              *)
GroupStatsExact ==
  \A o \in GroupOp : GroupStats(o) = Cardinality(InWindow(allowed[o]))
=============================================================================
