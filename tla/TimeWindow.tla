----------------------------- MODULE TimeWindow -----------------------------
(***************************************************************************)
(* Lists of times that are counted over a window, as rate_limiter.go,      *)
(* ban_recovery.go and delivery_tracker.go keep them, and as the history   *)
(* of the retries is kept.  A time is its age in ticks of a clock.  Times  *)
(* are appended as they come, so the oldest are at the front.              *)
(***************************************************************************)
EXTENDS Integers, Sequences, FiniteSets

(* The positions of the times that are younger than window.                 *)
Within(list, window) == {i \in DOMAIN list : list[i] < window}

(* The loop that keeps the times after now - window.  They are the end of   *)
(* the list.                                                                *)
KeepAfter(list, window) ==
  SubSeq(list, Len(list) - Cardinality(Within(list, window)) + 1, Len(list))

(* A tick of the clock.  From the age of cap on, age makes no difference.   *)
Older(list, cap) == [i \in DOMAIN list |-> IF list[i] < cap THEN list[i] + 1 ELSE cap]
=============================================================================
