---------------------------- MODULE ContactBook ----------------------------
(***************************************************************************)
(* What the LID cache promises, without the two maps: a list of (LID, PN)  *)
(* pairs, the most recently learned first, in which no LID and no PN       *)
(* occurs twice.  Learning a pair supersedes every pair that shares a LID  *)
(* or a PN with it, puts it at the front, and cuts the list at MaxSize.    *)
(* Lookups do not move a pair: the list is ordered by learning, not by use *)
(* (README.md:52 calls it an LRU cache).                                   *)
(***************************************************************************)
EXTENDS Integers, Sequences

CONSTANTS User, MaxSize

VARIABLE book

Init == book = <<>>

Superseded(pair, lid, pn) == pair[1] = lid \/ pair[2] = pn

(* The pairs that remain keep their order.                                  *)
Learn(lid, pn) ==
  LET left == {i \in DOMAIN book : ~Superseded(book[i], lid, pn)}
  IN  \E n \in 0 .. Len(book) : \E place \in [1 .. n -> left] :
        /\ \A i, j \in 1 .. n : i < j => place[i] < place[j]
        /\ \A i \in left : \E j \in 1 .. n : place[j] = i
        /\ LET longer == <<<<lid, pn>>>> \o [i \in 1 .. n |-> book[place[i]]]
               size == IF Len(longer) > MaxSize THEN MaxSize ELSE Len(longer)
           IN  book' = SubSeq(longer, 1, size)

Next == \E lid, pn \in User : lid # pn /\ Learn(lid, pn)

Spec == Init /\ [][Next]_book
=============================================================================
