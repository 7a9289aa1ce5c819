---------------------------- MODULE WindowProofs ----------------------------
(***************************************************************************)
(* What KeepAfter, Append and Older do to the number of times within each  *)
(* window.  All that the trackers need follows from these counts.          *)
(***************************************************************************)
EXTENDS TimeWindow, FiniteSetTheorems, SequenceTheorems, TLAPS

Count(list, age) == Cardinality(Within(list, age))

(* Oldest first.                                                            *)
InOrder(list) == \A i, j \in DOMAIN list : i <= j => list[j] <= list[i]

Times(cap) == {list \in Seq(0 .. cap) : InOrder(list)}

(* Two lists agree on every window up to w.                                 *)
Agree(s, t, w) == \A age \in 0 .. w : Count(s, age) = Count(t, age)

(* A count is a number.                                                     *)
LEMMA CountType ==
  ASSUME NEW list, NEW S, list \in Seq(S), NEW age \in Int
  PROVE  /\ IsFiniteSet(Within(list, age))
         /\ Count(list, age) \in 0 .. Len(list)
<1>1. Len(list) \in Nat /\ DOMAIN list = 1 .. Len(list)
  OBVIOUS
<1>2. IsFiniteSet(1 .. Len(list)) /\ Cardinality(1 .. Len(list)) = Len(list)
  BY <1>1, FS_Interval
<1>3. Within(list, age) \subseteq 1 .. Len(list)
  BY <1>1 DEF Within
<1>4. IsFiniteSet(Within(list, age)) /\ Cardinality(Within(list, age)) <= Len(list)
  BY <1>2, <1>3, FS_Subset
<1> QED
  BY <1>1, <1>4, FS_CardinalityType DEF Count

(* The elements of Times.                                                   *)
LEMMA TimesAre ==
  ASSUME NEW cap \in Nat, NEW list
  PROVE  list \in Times(cap) <=>
           /\ list \in Seq(0 .. cap)
           /\ \A i, j \in 1 .. Len(list) : i <= j => list[j] <= list[i]
  BY DEF Times, InOrder

LEMMA TimesType ==
  ASSUME NEW cap \in Nat, NEW list \in Times(cap)
  PROVE  /\ list \in Seq(0 .. cap) /\ Len(list) \in Nat /\ DOMAIN list = 1 .. Len(list)
         /\ \A i \in 1 .. Len(list) : list[i] \in 0 .. cap
         /\ \A i, j \in 1 .. Len(list) : i <= j => list[j] <= list[i]
<1>1. list \in Seq(0 .. cap)
  BY TimesAre
<1> QED
  BY <1>1, TimesAre

(* A new time counts in every window.                                       *)
LEMMA CountAppend ==
  ASSUME NEW cap \in Nat, NEW list \in Times(cap), NEW age \in Nat
  PROVE  /\ Append(list, 0) \in Times(cap)
         /\ Count(Append(list, 0), age) = IF age = 0 THEN 0 ELSE Count(list, age) + 1
         /\ age = 0 => Count(list, age) = 0
<1>0. PICK n \in Nat : n = Len(list)
  BY TimesType
<1>1. /\ list \in Seq(0 .. cap) /\ Len(Append(list, 0)) = n + 1
      /\ \A i \in 1 .. n : Append(list, 0)[i] = list[i] /\ list[i] \in 0 .. cap
      /\ Append(list, 0)[n + 1] = 0 /\ DOMAIN list = 1 .. n /\ DOMAIN Append(list, 0) = 1 .. n + 1
      /\ Append(list, 0) \in Seq(0 .. cap)
  BY <1>0, TimesType
<1>2. Append(list, 0) \in Times(cap)
  <2> SUFFICES ASSUME NEW i \in 1 .. n + 1, NEW j \in 1 .. n + 1, i <= j
               PROVE  Append(list, 0)[j] <= Append(list, 0)[i]
    BY <1>1, TimesAre
  <2>1. CASE j = n + 1
    BY <2>1, <1>1
  <2>2. CASE j # n + 1
    BY <2>2, <1>0, <1>1, TimesType
  <2> QED
    BY <2>1, <2>2
<1>3. CASE age = 0
  <2>1. Within(Append(list, 0), age) = {} /\ Within(list, age) = {}
    BY <1>1, <1>3 DEF Within
  <2> QED
    BY <1>2, <1>3, <2>1, FS_EmptySet DEF Count
<1>4. CASE age # 0
  <2>1. Within(Append(list, 0), age) = Within(list, age) \cup {n + 1}
    BY <1>1, <1>4 DEF Within
  <2>2. n + 1 \notin Within(list, age)
    BY <1>1 DEF Within
  <2>3. IsFiniteSet(Within(list, age))
    BY <1>1, CountType
  <2>4. Cardinality(Within(list, age) \cup {n + 1}) = Cardinality(Within(list, age)) + 1
    BY <2>2, <2>3, FS_AddElement
  <2> QED
    BY <1>2, <1>4, <2>1, <2>4 DEF Count
<1> QED
  BY <1>3, <1>4

(* The young times are the end of the list.                                 *)
LEMMA YoungLast ==
  ASSUME NEW cap \in Nat, NEW list \in Times(cap), NEW age \in Int
  PROVE  Within(list, age) = Len(list) - Count(list, age) + 1 .. Len(list)
<1>1. PICK n \in Nat, k \in Nat : n = Len(list) /\ k = Count(list, age) /\ k <= n
  BY TimesType, CountType
<1> DEFINE S == Within(list, age)
<1>2. /\ IsFiniteSet(S) /\ Cardinality(S) = k
      /\ \A i : i \in S <=> i \in 1 .. n /\ list[i] < age
  BY <1>1, TimesType, CountType DEF Count, Within
<1> HIDE DEF S
<1>3. ASSUME NEW i \in S PROVE i \in n - k + 1 .. n
  <2>1. i .. n \subseteq S
    <3> SUFFICES ASSUME NEW j \in i .. n PROVE j \in S
      OBVIOUS
    <3>1. i \in 1 .. n /\ j \in 1 .. n /\ i <= j /\ list[i] < age
      BY <1>2
    <3>2. list[j] <= list[i] /\ list[j] \in Int /\ list[i] \in Int
      BY <3>1, <1>1, TimesType
    <3> QED
      BY <3>1, <3>2, <1>2
  <2>2. i \in 1 .. n
    BY <1>2
  <2>3. Cardinality(i .. n) <= k
    BY <2>1, <1>2, FS_Subset
  <2>4. Cardinality(i .. n) = n - i + 1
    BY <2>2, FS_Interval
  <2> QED
    BY <2>2, <2>3, <2>4
<1>4. IsFiniteSet(n - k + 1 .. n) /\ Cardinality(n - k + 1 .. n) = k
  <2>1. n - k + 1 \in Int /\ (n - k + 1 > n => k = 0) /\ n - (n - k + 1) + 1 = k
    BY <1>1
  <2> QED
    BY <2>1, FS_Interval
<1>5. S = n - k + 1 .. n
  BY <1>2, <1>3, <1>4, FS_Subset
<1> QED
  BY <1>1, <1>5 DEF S

(* KeepAfter keeps exactly the times within the window, in their order,     *)
(* whatever the list, as the loop of the code does, and changes no count of *)
(* a shorter window.                                                        *)
THEOREM KeepAfterFilters ==
  ASSUME NEW cap \in Nat, NEW list \in Times(cap), NEW w \in Nat
  PROVE  /\ KeepAfter(list, w) \in Times(cap)
         /\ Len(KeepAfter(list, w)) = Count(list, w)
         /\ \A i \in DOMAIN list :
              list[i] < w <=> i > Len(list) - Len(KeepAfter(list, w))
         /\ \A i \in DOMAIN KeepAfter(list, w) :
              KeepAfter(list, w)[i] = list[Len(list) - Len(KeepAfter(list, w)) + i]
         /\ Agree(KeepAfter(list, w), list, w)
<1>1. PICK n \in Nat, k \in Nat : n = Len(list) /\ k = Count(list, w) /\ k <= n
  BY TimesType, CountType
<1>2. PICK kept : kept = KeepAfter(list, w)
  OBVIOUS
<1>3. /\ list \in Seq(0 .. cap) /\ DOMAIN list = 1 .. n
      /\ \A i, j \in 1 .. n : i <= j => list[j] <= list[i]
      /\ \A i \in 1 .. n : list[i] \in 0 .. cap
  BY <1>1, TimesType
<1>4. kept = SubSeq(list, n - k + 1, n)
  BY <1>1, <1>2 DEF KeepAfter, Count
<1>5. /\ kept \in Seq(0 .. cap) /\ Len(kept) = k /\ DOMAIN kept = 1 .. k
      /\ \A i \in 1 .. k : kept[i] = list[n - k + i]
  <2>1. n - k + 1 \in 1 .. n + 1 /\ n \in 0 .. Len(list) /\ n - (n - k + 1) + 1 = k
    BY <1>1
  <2>2. kept \in Seq(0 .. cap)
    BY <1>1, <1>3, <1>4, <2>1
  <2>3. Len(kept) = k
    BY <1>1, <1>3, <1>4, <2>1
  <2>4. \A i \in 1 .. k : kept[i] = list[n - k + i]
    <3>1. PICK m \in Int : m = n - k + 1 /\ m >= 1
      BY <1>1
    <3>2. \A i \in m .. n : list[i] \in 0 .. cap
      BY <3>1, <1>3
    <3>3. \A i \in 1 .. n - m + 1 : SubSeq(list, m, n)[i] = list[m + i - 1]
      BY <1>3, <3>1
    <3>4. \A i \in 1 .. k : i \in 1 .. n - m + 1 /\ m + i - 1 = n - k + i
      BY <3>1
    <3> QED
      BY ONLY <3>1, <3>3, <3>4, <1>4
  <2> QED
    BY <2>2, <2>3, <2>4
<1>6. kept \in Times(cap)
  <2> SUFFICES ASSUME NEW i \in 1 .. k, NEW j \in 1 .. k, i <= j PROVE kept[j] <= kept[i]
    BY <1>5, TimesAre
  <2>1. n - k + i \in 1 .. n /\ n - k + j \in 1 .. n /\ n - k + i <= n - k + j
    BY <1>1
  <2> QED
    BY <2>1, <1>3, <1>5
<1>7. \A i \in 1 .. n : list[i] < w <=> i > n - k
  <2>1. Within(list, w) = n - k + 1 .. n
    BY <1>1, YoungLast
  <2>2. \A i \in 1 .. n : list[i] < w <=> i \in Within(list, w)
    BY <1>3 DEF Within
  <2> QED
    BY <2>1, <2>2
<1>8. ASSUME NEW age \in 0 .. w PROVE Count(kept, age) = Count(list, age)
  <2>1. PICK a \in Nat : a = Count(list, age) /\ a <= n
    BY <1>1, <1>3, CountType
  <2>2. Within(list, age) = n - a + 1 .. n
    BY <1>1, <2>1, YoungLast
  <2>3. a <= k
    <3>1. Within(list, age) \subseteq Within(list, w)
      BY <1>3 DEF Within
    <3>2. IsFiniteSet(Within(list, w))
      BY <1>3, CountType
    <3> QED
      BY <3>1, <3>2, <1>1, <2>1, FS_Subset DEF Count
  <2>4. \A i \in 1 .. n : list[i] < age <=> i > n - a
    <3>1. \A i \in 1 .. n : list[i] < age <=> i \in Within(list, age)
      BY <1>3 DEF Within
    <3> QED
      BY <2>1, <2>2, <3>1
  <2>5. \A i \in 1 .. k : kept[i] < age <=> i > k - a
    <3> SUFFICES ASSUME NEW i \in 1 .. k PROVE kept[i] < age <=> i > k - a
      OBVIOUS
    <3>1. n - k + i \in 1 .. n /\ kept[i] = list[n - k + i]
      BY <1>1, <1>5
    <3>2. list[n - k + i] < age <=> n - k + i > n - a
      BY <2>4, <3>1
    <3> QED
      BY <3>1, <3>2, <2>1
  <2>6. Within(kept, age) = k - a + 1 .. k
    BY <2>5, <2>1, <2>3, <1>5 DEF Within
  <2>7. Cardinality(k - a + 1 .. k) = a
    <3>1. k - a + 1 \in Int /\ (k - a + 1 > k => a = 0) /\ k - (k - a + 1) + 1 = a
      BY <2>1
    <3> QED
      BY <3>1, FS_Interval
  <2> QED
    BY <2>1, <2>6, <2>7 DEF Count
<1> QED
  BY <1>1, <1>2, <1>3, <1>5, <1>6, <1>7, <1>8 DEF Agree

(* A tick moves every count on by one.                                      *)
LEMMA CountOlder ==
  ASSUME NEW cap \in Nat, NEW list \in Times(cap), NEW age \in Nat, age < cap
  PROVE  /\ Older(list, cap) \in Times(cap)
         /\ Count(Older(list, cap), age + 1) = Count(list, age)
         /\ Count(Older(list, cap), 0) = 0
<1>n. PICK n \in Nat : n = Len(list)
  BY TimesType
<1>0. PICK old : old = Older(list, cap)
  OBVIOUS
<1>1. /\ DOMAIN list = 1 .. n
      /\ \A i \in 1 .. n : list[i] \in 0 .. cap
      /\ \A i, j \in 1 .. n : i <= j => list[j] <= list[i]
  BY <1>n, TimesType
<1>2. /\ old = [i \in 1 .. n |-> IF list[i] < cap THEN list[i] + 1 ELSE cap]
      /\ old \in [1 .. n -> 0 .. cap]
  BY <1>0, <1>1 DEF Older
<1>3. old \in Seq(0 .. cap) /\ DOMAIN old = 1 .. n /\ Len(old) = n
  BY <1>2
<1>4. old \in Times(cap)
  <2>1. \A i \in 1 .. n : old[i] = IF list[i] < cap THEN list[i] + 1 ELSE cap
    BY <1>2
  <2>2. \A i, j \in 1 .. n : i <= j => old[j] <= old[i]
    BY <1>1, <2>1
  <2> QED
    BY <1>3, <2>2, TimesAre
<1>5. Within(old, age + 1) = Within(list, age)
  BY <1>1, <1>2, <1>3 DEF Within
<1>6. Within(old, 0) = {}
  BY <1>2, <1>3 DEF Within
<1> QED
  BY <1>0, <1>4, <1>5, <1>6, FS_EmptySet DEF Count

-----------------------------------------------------------------------------
(* Agreement survives a new time in both lists, a tick of both, and a loop  *)
(* over the one or the other.                                               *)
LEMMA AgreeAppend ==
  ASSUME NEW cap \in Nat, NEW s \in Times(cap), NEW t \in Times(cap), NEW w \in Nat, Agree(s, t, w)
  PROVE  Agree(Append(s, 0), Append(t, 0), w)
  BY CountAppend DEF Agree

LEMMA AgreeOlder ==
  ASSUME NEW cap \in Nat, NEW s \in Times(cap), NEW t \in Times(cap),
         NEW w \in 0 .. cap, Agree(s, t, w), cap > 0
  PROVE  Agree(Older(s, cap), Older(t, cap), w)
<1> SUFFICES ASSUME NEW age \in 0 .. w PROVE Count(Older(s, cap), age) = Count(Older(t, cap), age)
  BY DEF Agree
<1>1. CASE age = 0
  BY <1>1, CountOlder
<1>2. CASE age # 0
  <2>1. PICK before \in 0 .. w - 1 : age = before + 1
    BY <1>2
  <2>2. Count(s, before) = Count(t, before) /\ before < cap /\ before \in Nat
    BY <2>1 DEF Agree
  <2> QED
    BY <2>1, <2>2, CountOlder
<1> QED
  BY <1>1, <1>2

LEMMA AgreeKeep ==
  ASSUME NEW cap \in Nat, NEW s \in Times(cap), NEW t \in Times(cap),
         NEW w \in Nat, NEW v \in Nat, w <= v, Agree(s, t, w)
  PROVE  Agree(KeepAfter(s, v), t, w) /\ Agree(s, KeepAfter(t, v), w)
<1>1. Agree(KeepAfter(s, v), s, v) /\ Agree(KeepAfter(t, v), t, v)
  BY KeepAfterFilters
<1> QED
  BY <1>1 DEF Agree

(* A new list counts nothing.                                               *)
LEMMA AgreeEmpty ==
  ASSUME NEW cap \in Nat
  PROVE  << >> \in Times(cap) /\ \A age : Count(<< >>, age) = 0
<1>1. << >> \in Times(cap)
  BY DEF Times, InOrder
<1>2. \A age : Within(<< >>, age) = {}
  BY DEF Within
<1> QED
  BY <1>1, <1>2, FS_EmptySet DEF Count

(* A longer window counts no less, and a tick brings nothing new into one.  *)
LEMMA CountGrows ==
  ASSUME NEW cap \in Nat, NEW list \in Times(cap), NEW v \in Int, NEW w \in Int, v <= w
  PROVE  Count(list, v) <= Count(list, w)
<1>1. Within(list, v) \subseteq Within(list, w)
  BY TimesType DEF Within
<1>2. IsFiniteSet(Within(list, w))
  BY TimesType, CountType
<1> QED
  BY <1>1, <1>2, FS_Subset DEF Count

LEMMA TickLeaves ==
  ASSUME NEW cap \in Nat, NEW list \in Times(cap), NEW w \in 1 .. cap
  PROVE  /\ KeepAfter(Older(list, cap), cap) \in Times(cap)
         /\ Count(KeepAfter(Older(list, cap), cap), w) <= Count(list, w)
<1>1. PICK v \in Nat : w = v + 1 /\ v < cap
  <2>1. w - 1 \in Nat /\ w = (w - 1) + 1 /\ w - 1 < cap
    OBVIOUS
  <2> QED
    BY <2>1
<1>2. Older(list, cap) \in Times(cap) /\ Count(Older(list, cap), w) = Count(list, v)
  BY <1>1, CountOlder
<1>3. KeepAfter(Older(list, cap), cap) \in Times(cap)
      /\ Agree(KeepAfter(Older(list, cap), cap), Older(list, cap), cap)
  BY <1>2, KeepAfterFilters
<1>4. Count(KeepAfter(Older(list, cap), cap), w) = Count(list, v)
  BY <1>2, <1>3 DEF Agree
<1>5. Count(list, v) <= Count(list, w)
  BY <1>1, CountGrows
<1> QED
  BY <1>3, <1>4, <1>5
=============================================================================
