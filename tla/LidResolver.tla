---------------------------- MODULE LidResolver ----------------------------
(***************************************************************************)
(* The LID <-> phone-number cache of lid_resolver.go together with the     *)
(* JidCanonicalizer of jid_canonicalizer.go, which feeds it and reads it.  *)
(*                                                                         *)
(* A WhatsApp contact has two addresses: a phone number (PN) and a "LID".  *)
(* The cache keeps two Go maps that must stay each other's inverse, and a  *)
(* list of the LIDs in order of learning (most recent at the front) that   *)
(* says which pair to drop when the cache is full.  Every exported method  *)
(* holds lr.mu, so each is one atomic step.                                *)
(*                                                                         *)
(* Both maps are keyed by the part of a JID before the "@", so a LID and a *)
(* PN are drawn from the same set User.                                    *)
(***************************************************************************)
EXTENDS Integers, Sequences, FiniteSets, Functions

CONSTANTS
  User,      \* the user parts of JIDs (the text before the "@")
  MaxSize    \* lr.maxSize; NewLidResolver turns a non-positive size into 1000

ASSUME MaxSizeAssumption == MaxSize \in Nat \ {0}

VARIABLES
  lidToPN,   \* map[string]string as a function on the LIDs it holds
  pnToLID,   \* map[string]string as a function on the PNs it holds
  order      \* the LIDs of lidToPN, most recently learned first

vars == <<lidToPN, pnToLID, order>>

PartialMap == UNION {[D -> User] : D \in SUBSET User}

-----------------------------------------------------------------------------
(* Go map operations.                                                       *)

Delete(m, k) == Restrict(m, DOMAIN m \ {k})

Put(m, k, v) == [x \in DOMAIN m \cup {k} |-> IF x = k THEN v ELSE m[x]]

(* removeFromOrder walks the list and unlinks the first element equal to    *)
(* lid, if there is one.                                                    *)
removeFromOrder(s, lid) ==
  IF \E i \in DOMAIN s : s[i] = lid
  THEN LET i == CHOOSE i \in DOMAIN s : /\ s[i] = lid
                                        /\ \A j \in 1 .. i - 1 : s[j] # lid
       IN  [j \in 1 .. Len(s) - 1 |-> IF j < i THEN s[j] ELSE s[j + 1]]
  ELSE s

-----------------------------------------------------------------------------
(* Learn in its three parts, on a snapshot c of the three fields.           *)

Cache(l, p, o) == [l2p |-> l, p2l |-> p, order |-> o]

(* Variants with a plausible bug, against which the properties are tried.   *)

(* The stale list node is left behind.                                      *)
DropOldPNKeepsNode(c, lid) ==
  IF lid \in DOMAIN c.l2p
  THEN Cache(c.l2p, Delete(c.p2l, c.l2p[lid]), c.order)
  ELSE c

(* The new PN's old LID keeps its half of the pair.                         *)
DropOldLIDKeepsMap(c, pn) ==
  IF pn \in DOMAIN c.p2l
  THEN Cache(c.l2p, c.p2l, removeFromOrder(c.order, c.p2l[pn]))
  ELSE c

(* The new LID goes to the end of the list that is evicted first.           *)
InsertBack(c, lid, pn) ==
  Cache(Put(c.l2p, lid, pn), Put(c.p2l, pn, lid), Append(c.order, lid))

(* The cache is cut one pair too late.                                      *)
EvictLate(c) ==
  IF Cardinality(DOMAIN c.l2p) > MaxSize + 1
  THEN Cache(Delete(c.l2p, c.order[Len(c.order)]),
             Delete(c.p2l, c.l2p[c.order[Len(c.order)]]),
             SubSeq(c.order, 1, Len(c.order) - 1))
  ELSE c

(* A known LID: its old PN is forgotten.  lidToPN keeps the stale entry,    *)
(* which the assignment below overwrites.                                   *)
DropOldPN(c, lid) ==
  IF lid \in DOMAIN c.l2p
  THEN Cache(c.l2p, Delete(c.p2l, c.l2p[lid]), removeFromOrder(c.order, lid))
  ELSE c

(* A known PN: its old LID is forgotten.  Its p2l entry is overwritten.     *)
DropOldLID(c, pn) ==
  IF pn \in DOMAIN c.p2l
  THEN Cache(Delete(c.l2p, c.p2l[pn]), c.p2l, removeFromOrder(c.order, c.p2l[pn]))
  ELSE c

Insert(c, lid, pn) ==
  Cache(Put(c.l2p, lid, pn), Put(c.p2l, pn, lid), <<lid>> \o c.order)

(* A full cache loses the LID at the back of the list.                      *)
Evict(c) ==
  IF Cardinality(DOMAIN c.l2p) > MaxSize /\ c.order # <<>>
  THEN LET back == c.order[Len(c.order)]
       IN  Cache(Delete(c.l2p, back),
                 IF back \in DOMAIN c.l2p THEN Delete(c.p2l, c.l2p[back]) ELSE c.p2l,
                 SubSeq(c.order, 1, Len(c.order) - 1))
  ELSE c

Learned(c, lid, pn) == Evict(Insert(DropOldLID(DropOldPN(c, lid), pn), lid, pn))

Learn(lid, pn) ==
  LET c == Learned(Cache(lidToPN, pnToLID, order), lid, pn)
  IN  /\ lidToPN' = c.l2p
      /\ pnToLID' = c.p2l
      /\ order' = c.order

-----------------------------------------------------------------------------
(* JidCanonicalizer.  A JID is a user part and a server.                    *)

Server == {"lid", "s.whatsapp.net", "g.us"}

JID == [user : User, server : Server]

(* OnIncomingEvent(fromJID, participant).  The first branch asks only that  *)
(* the sender is a LID, the second that the participant is one and the      *)
(* sender is not: a participant that is a LID is a legal "phone number" of  *)
(* the first, and a group a legal one of the second.  An empty participant  *)
(* (all AntiBan.OnIncomingMessage ever passes) learns nothing.              *)
OnIncomingEvent(from, participant) ==
  \/ /\ from.server = "lid"
     /\ from.user # participant.user
     /\ Learn(from.user, participant.user)
  \/ /\ participant.server = "lid"
     /\ from.server # "lid"
     /\ from.user # participant.user
     /\ Learn(participant.user, from.user)

-----------------------------------------------------------------------------
EmptyMap == [x \in {} |-> x]

Init ==
  /\ lidToPN = EmptyMap
  /\ pnToLID = EmptyMap
  /\ order = <<>>

Next == \E from \in JID, participant \in JID : OnIncomingEvent(from, participant)

Spec == Init /\ [][Next]_vars

-----------------------------------------------------------------------------
(* The maps take user parts to user parts, without a server, and the list   *)
(* holds user parts.                                                        *)
TypeOK ==
  /\ lidToPN \in PartialMap
  /\ pnToLID \in PartialMap
  /\ order \in Seq(User)

(* The two maps are each other's inverse: whatever Learn overwrites, moves  *)
(* or evicts, no PN is left pointing at a LID that no longer points back    *)
(* (ResolveCanonical would send the message to somebody else).              *)
MapsInverse ==
  /\ \A l \in DOMAIN lidToPN : /\ lidToPN[l] \in DOMAIN pnToLID
                               /\ pnToLID[lidToPN[l]] = l
  /\ \A p \in DOMAIN pnToLID : /\ pnToLID[p] \in DOMAIN lidToPN
                               /\ lidToPN[pnToLID[p]] = p

(* The eviction list holds exactly the cached LIDs, each once: an entry     *)
(* missing from it could never be evicted, one left behind would be evicted *)
(* in place of a live one.                                                  *)
OrderMatchesCache ==
  /\ Range(order) = DOMAIN lidToPN
  /\ \A i, j \in DOMAIN order : order[i] = order[j] => i = j

(* The cache never outgrows maxSize although Learn evicts at most one pair. *)
Bounded == Len(order) <= MaxSize /\ Cardinality(DOMAIN lidToPN) <= MaxSize

(* The pairs of the cache in the order of the eviction list.                *)
Pairs == [i \in DOMAIN order |-> <<order[i], lidToPN[order[i]]>>]

Book == INSTANCE ContactBook WITH book <- Pairs

(* The cache implements the list of pairs of ContactBook: Learn supersedes  *)
(* exactly the pairs that share a LID or a PN with the new one, and a full  *)
(* cache loses the least recently learned pair and no other.                *)
ImplementsContactBook == Book!Spec
=============================================================================
