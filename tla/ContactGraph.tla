---------------------------- MODULE ContactGraph ----------------------------
(***************************************************************************)
(* ContactGraphWarmer of contact_graph.go.  Of a contact's LastDay only    *)
(* whether it is today is kept; a group keeps the ticks of its lurk period *)
(* that are left.  The day of the year returning after a year is left out. *)
(***************************************************************************)
EXTENDS Integers

CONSTANTS
  Person, Group,     \* chat ids of contacts and of groups
  MaxStrangerPerDay, \* cfg.MaxStrangerPerDay
  GroupLurkPeriod    \* cfg.GroupLurkPeriod, in ticks

ASSUME ContactAssumption ==
  /\ Person \cap Group = {} \* IsGroup tells them apart
  /\ MaxStrangerPerDay \in Nat /\ GroupLurkPeriod \in Nat

VARIABLES
  contacts, \* cgw.contacts; "none" is the state of a contact without an entry
  lurking   \* per group: ticks until it may be written to

contactVars == <<contacts, lurking>>

NoContact == [state |-> "none", count |-> 0, today |-> FALSE]

(* Counts stop at the limit; beyond it they are not told apart.             *)
More(n) == IF n < MaxStrangerPerDay THEN n + 1 ELSE n

(* The entry after DailyCount was brought to today.                         *)
Today(e) == IF e.today THEN e ELSE [e EXCEPT !.count = 0, !.today = TRUE]

(* The entry after a message.                                               *)
Counted(e) == [Today(e) EXCEPT !.count = More(@)]

(* The answer of CanMessage.                                                *)
MayMessage(c) ==
  IF c \in Group THEN lurking[c] = 0
  ELSE LET e == Today(contacts[c])
       IN  ~(e.state = "stranger" /\ e.count >= MaxStrangerPerDay)

(* What CanMessage leaves behind.                                           *)
CanMessage(c) ==
  /\ contacts' = IF c \in Person /\ contacts[c].state # "none"
                 THEN [contacts EXCEPT ![c] = Today(@)] ELSE contacts
  /\ UNCHANGED lurking

MarkHandshakeSent(p) ==
  /\ contacts' = [contacts EXCEPT ![p].state =
                    IF @ \in {"none", "stranger"} THEN "handshakeSent" ELSE @]
  /\ UNCHANGED lurking

MarkHandshakeComplete(p) ==
  /\ contacts' = [contacts EXCEPT ![p].state =
                    IF @ # "known" THEN "handshakeComplete" ELSE @]
  /\ UNCHANGED lurking

(* OnIncomingMessage and RegisterKnownContact.                              *)
RegisterKnownContact(p) ==
  /\ contacts' = [contacts EXCEPT ![p].state = "known"]
  /\ UNCHANGED lurking

RegisterGroupJoin(g) ==
  /\ lurking' = [lurking EXCEPT ![g] = GroupLurkPeriod]
  /\ UNCHANGED contacts

(* Only a contact with an entry is counted.                                 *)
RecordMessage(c) ==
  /\ contacts' = IF c \in Person /\ contacts[c].state # "none"
                 THEN [contacts EXCEPT ![c] = Counted(@)]
                 ELSE contacts
  /\ UNCHANGED lurking

ContactMidnight ==
  /\ contacts' = [p \in Person |-> [contacts[p] EXCEPT !.today = FALSE]]
  /\ UNCHANGED lurking

ContactTick ==
  /\ lurking' = [g \in Group |-> IF lurking[g] > 0 THEN lurking[g] - 1 ELSE 0]
  /\ UNCHANGED contacts

ContactInit ==
  /\ contacts = [p \in Person |-> NoContact]
  /\ lurking = [g \in Group |-> 0]
=============================================================================
