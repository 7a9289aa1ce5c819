------------------------- MODULE LidResolverProofs -------------------------
(***************************************************************************)
(* TypeOK, MapsInverse, OrderMatchesCache and Bounded hold of LidResolver  *)
(* for every set of users and every cache size.                            *)
(*                                                                         *)
(* The conjunction of the four is inductive.  The argument follows Learn   *)
(* through its four parts: DropOldPN takes lid out of the pairing (its own *)
(* l2p entry is stale until Insert overwrites it), DropOldLID does the     *)
(* same for pn, Insert puts the new pair in, and Evict removes the pair at *)
(* the back of the list.  Each part has a lemma about the snapshot it      *)
(* returns.  The same four parts show that the cache implements            *)
(* ContactBook: the removals thin the list, Insert puts the pair in front  *)
(* of it and Evict cuts it.                                                *)
(***************************************************************************)
EXTENDS LidResolver, FiniteSetTheorems, SequenceTheorems, TLAPS

CacheType == [l2p : PartialMap, p2l : PartialMap, order : Seq(User)]

NoDups(s) == \A i, j \in DOMAIN s : s[i] = s[j] => i = j

(* The pairing of a snapshot, with the LID lid and the PN pn left aside.    *)
Paired(c, lids, pns) ==
  /\ \A l \in DOMAIN c.l2p \ lids : /\ c.l2p[l] \in DOMAIN c.p2l \ pns
                                    /\ c.p2l[c.l2p[l]] = l
  /\ \A p \in DOMAIN c.p2l \ pns : /\ c.p2l[p] \in DOMAIN c.l2p \ lids
                                   /\ c.l2p[c.p2l[p]] = p

Listed(c, lids) == NoDups(c.order) /\ Range(c.order) = DOMAIN c.l2p \ lids

-----------------------------------------------------------------------------
(* Membership in PartialMap in terms of domain and values.                  *)
LEMMA PartialMapCharacterised ==
  ASSUME NEW f
  PROVE  f \in PartialMap <=>
           /\ f = [x \in DOMAIN f |-> f[x]]
           /\ DOMAIN f \subseteq User
           /\ \A x \in DOMAIN f : f[x] \in User
BY DEF PartialMap

(* What delete does to a Go map.                                            *)
LEMMA MapDelete ==
  ASSUME NEW m \in PartialMap, NEW k
  PROVE  /\ Delete(m, k) \in PartialMap
         /\ DOMAIN Delete(m, k) = DOMAIN m \ {k}
         /\ \A x \in DOMAIN m \ {k} : Delete(m, k)[x] = m[x]
BY PartialMapCharacterised DEF Delete, Restrict

(* What an assignment does to a Go map.                                     *)
LEMMA MapPut ==
  ASSUME NEW m \in PartialMap, NEW u \in User, NEW v \in User
  PROVE  /\ Put(m, u, v) \in PartialMap
         /\ DOMAIN Put(m, u, v) = DOMAIN m \cup {u}
         /\ Put(m, u, v)[u] = v
         /\ \A x \in DOMAIN m \ {u} : Put(m, u, v)[x] = m[x]
BY PartialMapCharacterised DEF Put

(* Removing a LID from a list without duplicates removes it and only it.    *)
LEMMA RemoveFromOrder ==
  ASSUME NEW s \in Seq(User), NoDups(s), NEW e
  PROVE  /\ removeFromOrder(s, e) \in Seq(User)
         /\ NoDups(removeFromOrder(s, e))
         /\ Range(removeFromOrder(s, e)) = Range(s) \ {e}
         /\ Len(removeFromOrder(s, e)) <= Len(s)
         /\ e \in Range(s) => Len(removeFromOrder(s, e)) = Len(s) - 1
<1>1. CASE ~\E i \in DOMAIN s : s[i] = e
  BY <1>1 DEF removeFromOrder, Range
<1>2. CASE \E i \in DOMAIN s : s[i] = e
  <2> DEFINE First(i) == s[i] = e /\ \A j \in 1 .. i - 1 : s[j] # e
  <2>1. PICK k \in DOMAIN s : s[k] = e
    BY <1>2
  <2>2. First(k)
    BY <2>1, LenProperties DEF NoDups
  <2>3. \A i \in DOMAIN s : First(i) => i = k
    BY <2>1 DEF NoDups
  <2>4. (CHOOSE i \in DOMAIN s : First(i)) = k
    <3> HIDE DEF First
    <3> QED BY <2>1, <2>2, <2>3
  <2> DEFINE r == [j \in 1 .. Len(s) - 1 |-> IF j < k THEN s[j] ELSE s[j + 1]]
  <2>5. removeFromOrder(s, e) = r
    BY <1>2, <2>4 DEF removeFromOrder
  <2>6. /\ Len(s) \in Nat /\ DOMAIN s = 1 .. Len(s) /\ k \in 1 .. Len(s)
        /\ \A i \in 1 .. Len(s) : s[i] \in User
    BY <2>1, LenProperties, ElementOfSeq
  <2>7. r \in Seq(User) /\ Len(r) = Len(s) - 1 /\ DOMAIN r = 1 .. Len(s) - 1
    BY <2>6
  <2>8. NoDups(r)
    BY <2>6, <2>7 DEF NoDups
  <2>9. Range(r) \subseteq Range(s) \ {e}
    BY <2>1, <2>6, <2>7 DEF Range, NoDups
  <2>10. ASSUME NEW i \in 1 .. Len(s), s[i] # e
         PROVE  s[i] \in Range(r)
    <3>1. CASE i < k
      <4>1. i \in DOMAIN r /\ r[i] = s[i]
        BY <2>6, <2>7, <3>1
      <4> QED BY <4>1 DEF Range
    <3>2. CASE i > k
      <4>1. i - 1 \in DOMAIN r /\ r[i - 1] = s[i]
        BY <2>6, <2>7, <3>2
      <4> QED BY <4>1 DEF Range
    <3> QED BY <2>1, <2>6, <2>10, <3>1, <3>2
  <2>11. Range(s) \ {e} \subseteq Range(r)
    BY <2>6, <2>10 DEF Range
  <2> QED BY <2>5, <2>6, <2>7, <2>8, <2>9, <2>11
<1> QED BY <1>1, <1>2

-----------------------------------------------------------------------------
(* After DropOldPN, lid takes no part in the pairing or the list.           *)
LEMMA DropOldPNPairs ==
  ASSUME NEW c \in CacheType, NEW lid \in User, Paired(c, {}, {}), Listed(c, {})
  PROVE  LET d == DropOldPN(c, lid)
         IN  /\ d \in CacheType
             /\ Paired(d, {lid}, {})
             /\ Listed(d, {lid})
             /\ Len(d.order) <= Len(c.order)
<1> DEFINE d == DropOldPN(c, lid)
<1>0. c.l2p \in PartialMap /\ c.p2l \in PartialMap /\ c.order \in Seq(User)
  BY DEF CacheType
<1>1. CASE lid \notin DOMAIN c.l2p
  <2>1. d = c
    BY <1>1 DEF DropOldPN
  <2>2. Paired(c, {lid}, {}) /\ Listed(c, {lid})
    BY <1>1 DEF Paired, Listed
  <2>3. Len(c.order) <= Len(c.order)
    BY <1>0, LenProperties
  <2> QED BY <2>1, <2>2, <2>3
<1>2. CASE lid \in DOMAIN c.l2p
  <2>1. /\ d.l2p = c.l2p
        /\ d.p2l = Delete(c.p2l, c.l2p[lid])
        /\ d.order = removeFromOrder(c.order, lid)
        /\ d = [l2p |-> d.l2p, p2l |-> d.p2l, order |-> d.order]
    BY <1>2 DEF DropOldPN, Cache
  <2>2. /\ d.p2l \in PartialMap
        /\ DOMAIN d.p2l = DOMAIN c.p2l \ {c.l2p[lid]}
        /\ \A x \in DOMAIN d.p2l : d.p2l[x] = c.p2l[x]
    <3> DEFINE m == Delete(c.p2l, c.l2p[lid])
    <3>1. /\ m \in PartialMap
          /\ DOMAIN m = DOMAIN c.p2l \ {c.l2p[lid]}
          /\ \A x \in DOMAIN c.p2l \ {c.l2p[lid]} : m[x] = c.p2l[x]
      BY <1>0, MapDelete
    <3>2. d.p2l = m
      BY <2>1
    <3> HIDE DEF m, d
    <3> QED BY <3>1, <3>2
  <2>3. /\ d.order \in Seq(User)
        /\ NoDups(d.order)
        /\ Range(d.order) = Range(c.order) \ {lid}
        /\ Len(d.order) <= Len(c.order)
    BY <1>0, <2>1, RemoveFromOrder DEF Listed
  <2>4. d \in CacheType
    BY <1>0, <2>1, <2>2, <2>3 DEF CacheType
  <2>5. Paired(d, {lid}, {})
    <3> HIDE DEF d
    <3> QED BY <1>2, <2>1, <2>2 DEF Paired
  <2>6. Listed(d, {lid})
    BY <2>1, <2>3 DEF Listed
  <2> QED BY <2>3, <2>4, <2>5, <2>6
<1> QED BY <1>1, <1>2

(* After DropOldLID, neither lid nor pn takes part in the pairing.          *)
LEMMA DropOldLIDPairs ==
  ASSUME NEW c \in CacheType, NEW lid \in User, NEW pn \in User,
         Paired(c, {lid}, {}), Listed(c, {lid})
  PROVE  LET d == DropOldLID(c, pn)
         IN  /\ d \in CacheType
             /\ Paired(d, {lid}, {pn})
             /\ Listed(d, {lid})
             /\ Len(d.order) <= Len(c.order)
<1> DEFINE d == DropOldLID(c, pn)
<1>0. c.l2p \in PartialMap /\ c.p2l \in PartialMap /\ c.order \in Seq(User)
  BY DEF CacheType
<1>1. CASE pn \notin DOMAIN c.p2l
  <2>1. d = c
    BY <1>1 DEF DropOldLID
  <2>2. Paired(c, {lid}, {pn})
    BY <1>1 DEF Paired
  <2>3. Len(c.order) <= Len(c.order)
    BY <1>0, LenProperties
  <2> QED BY <2>1, <2>2, <2>3
<1>2. CASE pn \in DOMAIN c.p2l
  <2>1. /\ d.l2p = Delete(c.l2p, c.p2l[pn])
        /\ d.p2l = c.p2l
        /\ d.order = removeFromOrder(c.order, c.p2l[pn])
        /\ d = [l2p |-> d.l2p, p2l |-> d.p2l, order |-> d.order]
    BY <1>2 DEF DropOldLID, Cache
  <2>2. /\ d.l2p \in PartialMap
        /\ DOMAIN d.l2p = DOMAIN c.l2p \ {c.p2l[pn]}
        /\ \A x \in DOMAIN d.l2p : d.l2p[x] = c.l2p[x]
    <3> DEFINE m == Delete(c.l2p, c.p2l[pn])
    <3>1. /\ m \in PartialMap
          /\ DOMAIN m = DOMAIN c.l2p \ {c.p2l[pn]}
          /\ \A x \in DOMAIN c.l2p \ {c.p2l[pn]} : m[x] = c.l2p[x]
      BY <1>0, MapDelete
    <3>2. d.l2p = m
      BY <2>1
    <3> HIDE DEF m, d
    <3> QED BY <3>1, <3>2
  <2>3. /\ d.order \in Seq(User)
        /\ NoDups(d.order)
        /\ Range(d.order) = Range(c.order) \ {c.p2l[pn]}
        /\ Len(d.order) <= Len(c.order)
    BY <1>0, <2>1, RemoveFromOrder DEF Listed
  <2>4. d \in CacheType
    BY <1>0, <2>1, <2>2, <2>3 DEF CacheType
  <2>5. Paired(d, {lid}, {pn})
    <3> HIDE DEF d
    <3> QED BY <1>2, <2>1, <2>2 DEF Paired
  <2>6. Listed(d, {lid})
    <3> HIDE DEF d
    <3> QED BY <2>2, <2>3 DEF Listed
  <2> QED BY <2>3, <2>4, <2>5, <2>6
<1> QED BY <1>1, <1>2

(* Pushing a LID that is not listed keeps the list free of duplicates.      *)
LEMMA PushFront ==
  ASSUME NEW s \in Seq(User), NEW e \in User, NoDups(s), e \notin Range(s)
  PROVE  /\ <<e>> \o s \in Seq(User)
         /\ NoDups(<<e>> \o s)
         /\ Range(<<e>> \o s) = Range(s) \cup {e}
         /\ Len(<<e>> \o s) = Len(s) + 1
<1> DEFINE t == <<e>> \o s
<1>1. /\ t \in Seq(User)
      /\ Len(t) = Len(s) + 1
      /\ t[1] = e
      /\ \A i \in 2 .. Len(s) + 1 : t[i] = s[i - 1]
  OBVIOUS
<1> HIDE DEF t
<1>2. /\ Len(s) \in Nat
      /\ DOMAIN s = 1 .. Len(s)
      /\ DOMAIN t = 1 .. Len(s) + 1
  BY <1>1, LenProperties
<1>3. \A i \in 1 .. Len(s) : s[i] # e
  BY <1>2 DEF Range
<1>4. ASSUME NEW i \in DOMAIN t, NEW j \in DOMAIN t, t[i] = t[j]
      PROVE  i = j
  <2>1. i = 1 \/ (i \in 2 .. Len(s) + 1 /\ i - 1 \in 1 .. Len(s))
    BY <1>2
  <2>2. j = 1 \/ (j \in 2 .. Len(s) + 1 /\ j - 1 \in 1 .. Len(s))
    BY <1>2
  <2>3. CASE i = 1 /\ j # 1
    BY <1>1, <1>3, <1>4, <2>2, <2>3
  <2>4. CASE i # 1 /\ j = 1
    BY <1>1, <1>3, <1>4, <2>1, <2>4
  <2>5. CASE i # 1 /\ j # 1
    <3>1. s[i - 1] = s[j - 1]
      BY <1>1, <1>4, <2>1, <2>2, <2>5
    <3>2. i - 1 = j - 1
      BY <1>2, <2>1, <2>2, <2>5, <3>1 DEF NoDups
    <3> QED BY <2>1, <2>2, <2>5, <3>2
  <2> QED BY <2>3, <2>4, <2>5
<1>5. NoDups(t)
  BY <1>4 DEF NoDups
<1>6. ASSUME NEW i \in DOMAIN t
      PROVE  t[i] \in Range(s) \cup {e}
  <2>1. CASE i = 1
    BY <1>1, <2>1
  <2>2. CASE i # 1
    <3>1. i - 1 \in DOMAIN s /\ t[i] = s[i - 1]
      BY <1>1, <1>2, <2>2
    <3> QED BY <3>1 DEF Range
  <2> QED BY <2>1, <2>2
<1>7. ASSUME NEW i \in DOMAIN s
      PROVE  s[i] \in Range(t)
  <2>1. i + 1 \in DOMAIN t /\ t[i + 1] = s[i]
    BY <1>1, <1>2
  <2> QED BY <2>1 DEF Range
<1>8. e \in Range(t)
  BY <1>1, <1>2 DEF Range
<1>9. Range(t) = Range(s) \cup {e}
  BY <1>6, <1>7, <1>8 DEF Range
<1> QED BY <1>1, <1>5, <1>9 DEF t

(* Insert completes the pairing and lists lid again, at the front.          *)
LEMMA InsertPairs ==
  ASSUME NEW c \in CacheType, NEW lid \in User, NEW pn \in User,
         Paired(c, {lid}, {pn}), Listed(c, {lid})
  PROVE  LET d == Insert(c, lid, pn)
         IN  /\ d \in CacheType
             /\ Paired(d, {}, {})
             /\ Listed(d, {})
             /\ Len(d.order) = Len(c.order) + 1
<1> DEFINE d == Insert(c, lid, pn)
<1>0. c.l2p \in PartialMap /\ c.p2l \in PartialMap /\ c.order \in Seq(User)
  BY DEF CacheType
<1>1. /\ d.l2p = Put(c.l2p, lid, pn)
      /\ d.p2l = Put(c.p2l, pn, lid)
      /\ d.order = <<lid>> \o c.order
      /\ d = [l2p |-> d.l2p, p2l |-> d.p2l, order |-> d.order]
  BY DEF Insert, Cache
<1> HIDE DEF d
<1>2. /\ d.l2p \in PartialMap
      /\ DOMAIN d.l2p = DOMAIN c.l2p \cup {lid}
      /\ d.l2p[lid] = pn
      /\ \A x \in DOMAIN c.l2p \ {lid} : d.l2p[x] = c.l2p[x]
  <2> DEFINE m == Put(c.l2p, lid, pn)
  <2>1. /\ m \in PartialMap
        /\ DOMAIN m = DOMAIN c.l2p \cup {lid}
        /\ m[lid] = pn
        /\ \A x \in DOMAIN c.l2p \ {lid} : m[x] = c.l2p[x]
    BY <1>0, MapPut
  <2>2. d.l2p = m
    BY <1>1
  <2> HIDE DEF m
  <2> QED BY <2>1, <2>2
<1>3. /\ d.p2l \in PartialMap
      /\ DOMAIN d.p2l = DOMAIN c.p2l \cup {pn}
      /\ d.p2l[pn] = lid
      /\ \A x \in DOMAIN c.p2l \ {pn} : d.p2l[x] = c.p2l[x]
  <2> DEFINE m == Put(c.p2l, pn, lid)
  <2>1. /\ m \in PartialMap
        /\ DOMAIN m = DOMAIN c.p2l \cup {pn}
        /\ m[pn] = lid
        /\ \A x \in DOMAIN c.p2l \ {pn} : m[x] = c.p2l[x]
    BY <1>0, MapPut
  <2>2. d.p2l = m
    BY <1>1
  <2> HIDE DEF m
  <2> QED BY <2>1, <2>2
<1>4. Paired(d, {}, {})
  BY <1>2, <1>3 DEF Paired
<1>5. NoDups(c.order) /\ lid \notin Range(c.order)
  BY DEF Listed
<1>6. /\ d.order \in Seq(User)
      /\ NoDups(d.order)
      /\ Range(d.order) = Range(c.order) \cup {lid}
      /\ Len(d.order) = Len(c.order) + 1
  BY <1>0, <1>1, <1>5, PushFront
<1>7. Listed(d, {})
  BY <1>2, <1>6 DEF Listed
<1>8. d \in CacheType
  BY <1>1, <1>2, <1>3, <1>6 DEF CacheType
<1> QED BY <1>4, <1>6, <1>7, <1>8 DEF d

-----------------------------------------------------------------------------
(* A list without duplicates is as long as the set it lists.                *)
LEMMA ListedCardinality ==
  ASSUME NEW s \in Seq(User), NoDups(s)
  PROVE  Cardinality(Range(s)) = Len(s)
<1>1. Len(s) \in Nat /\ DOMAIN s = 1 .. Len(s) /\ s \in [1 .. Len(s) -> User]
  BY LenProperties
<1>2. s \in Bijection(1 .. Len(s), Range(s))
  BY <1>1 DEF Bijection, Injection, Surjection, IsInjective, Range, NoDups
<1> QED BY <1>1, <1>2, FS_CountingElements DEF ExistsBijection

(* Dropping the last element of a list without duplicates.                  *)
LEMMA PopBack ==
  ASSUME NEW s \in Seq(User), s # <<>>, NoDups(s)
  PROVE  LET t == SubSeq(s, 1, Len(s) - 1)
         IN  /\ t \in Seq(User)
             /\ NoDups(t)
             /\ Range(t) = Range(s) \ {s[Len(s)]}
             /\ Len(t) = Len(s) - 1
             /\ s[Len(s)] \in Range(s)
<1> DEFINE t == SubSeq(s, 1, Len(s) - 1)
<1>1. /\ Len(s) \in Nat \ {0}
      /\ DOMAIN s = 1 .. Len(s)
      /\ \A i \in 1 .. Len(s) : s[i] \in User
  BY LenProperties, EmptySeq, ElementOfSeq
<1>2. /\ t \in Seq(User)
      /\ Len(t) = Len(s) - 1
      /\ \A i \in 1 .. Len(s) - 1 : t[i] = s[i]
  BY <1>1
<1>3. DOMAIN t = 1 .. Len(s) - 1
  BY <1>1, <1>2, LenProperties
<1> HIDE DEF t
<1>4. NoDups(t)
  BY <1>1, <1>2, <1>3 DEF NoDups
<1>5. ASSUME NEW i \in DOMAIN t
      PROVE  t[i] \in Range(s) \ {s[Len(s)]}
  <2>1. i \in 1 .. Len(s) /\ i # Len(s) /\ t[i] = s[i]
    BY <1>1, <1>2, <1>3
  <2> QED BY <1>1, <2>1 DEF Range, NoDups
<1>6. ASSUME NEW i \in DOMAIN s, s[i] # s[Len(s)]
      PROVE  s[i] \in Range(t)
  <2>1. i \in DOMAIN t /\ t[i] = s[i]
    BY <1>1, <1>2, <1>3, <1>6
  <2> QED BY <2>1 DEF Range
<1>7. Range(t) = Range(s) \ {s[Len(s)]}
  BY <1>5, <1>6 DEF Range
<1>8. s[Len(s)] \in Range(s)
  BY <1>1 DEF Range
<1> QED BY <1>2, <1>4, <1>7, <1>8 DEF t

(* Evict brings a cache with one pair too many back to MaxSize.             *)
LEMMA EvictPairs ==
  ASSUME NEW c \in CacheType, Paired(c, {}, {}), Listed(c, {}),
         Len(c.order) <= MaxSize + 1
  PROVE  LET d == Evict(c)
         IN  /\ d \in CacheType
             /\ Paired(d, {}, {})
             /\ Listed(d, {})
             /\ Len(d.order) <= MaxSize
<1> DEFINE d == Evict(c)
<1>0. c.l2p \in PartialMap /\ c.p2l \in PartialMap /\ c.order \in Seq(User)
  BY DEF CacheType
<1>1. /\ NoDups(c.order)
      /\ Range(c.order) = DOMAIN c.l2p
      /\ Cardinality(DOMAIN c.l2p) = Len(c.order)
      /\ Len(c.order) \in Nat
      /\ MaxSize \in Nat
  BY <1>0, ListedCardinality, LenProperties, MaxSizeAssumption DEF Listed
<1>2. CASE Len(c.order) <= MaxSize
  <2>1. d = c
    BY <1>1, <1>2 DEF Evict
  <2> QED BY <1>2, <2>1
<1>3. CASE Len(c.order) > MaxSize
  <2> DEFINE back == c.order[Len(c.order)]
  <2>1. c.order # <<>>
    BY <1>0, <1>1, <1>3
  <2>2. back \in DOMAIN c.l2p
    BY <1>0, <1>1, <2>1, PopBack
  <2>3. /\ d.l2p = Delete(c.l2p, back)
        /\ d.p2l = Delete(c.p2l, c.l2p[back])
        /\ d.order = SubSeq(c.order, 1, Len(c.order) - 1)
        /\ d = [l2p |-> d.l2p, p2l |-> d.p2l, order |-> d.order]
    BY <1>1, <1>3, <2>1, <2>2 DEF Evict, Cache
  <2> HIDE DEF d, back
  <2>4. /\ d.l2p \in PartialMap
        /\ DOMAIN d.l2p = DOMAIN c.l2p \ {back}
        /\ \A x \in DOMAIN d.l2p : d.l2p[x] = c.l2p[x]
    <3> DEFINE m == Delete(c.l2p, back)
    <3>1. /\ m \in PartialMap
          /\ DOMAIN m = DOMAIN c.l2p \ {back}
          /\ \A x \in DOMAIN c.l2p \ {back} : m[x] = c.l2p[x]
      BY <1>0, MapDelete
    <3>2. d.l2p = m
      BY <2>3
    <3> HIDE DEF m
    <3> QED BY <3>1, <3>2
  <2>5. /\ d.p2l \in PartialMap
        /\ DOMAIN d.p2l = DOMAIN c.p2l \ {c.l2p[back]}
        /\ \A x \in DOMAIN d.p2l : d.p2l[x] = c.p2l[x]
    <3> DEFINE m == Delete(c.p2l, c.l2p[back])
    <3>1. /\ m \in PartialMap
          /\ DOMAIN m = DOMAIN c.p2l \ {c.l2p[back]}
          /\ \A x \in DOMAIN c.p2l \ {c.l2p[back]} : m[x] = c.p2l[x]
      BY <1>0, MapDelete
    <3>2. d.p2l = m
      BY <2>3
    <3> HIDE DEF m
    <3> QED BY <3>1, <3>2
  <2>6. Paired(d, {}, {})
    BY <2>2, <2>4, <2>5 DEF Paired
  <2>7. /\ d.order \in Seq(User)
        /\ NoDups(d.order)
        /\ Range(d.order) = Range(c.order) \ {back}
        /\ Len(d.order) = Len(c.order) - 1
    BY <1>0, <1>1, <2>1, <2>3, PopBack DEF back
  <2>8. Listed(d, {})
    BY <1>1, <2>4, <2>7 DEF Listed
  <2>9. Len(d.order) <= MaxSize
    BY <1>1, <2>7
  <2>10. d \in CacheType
    BY <2>3, <2>4, <2>5, <2>7 DEF CacheType
  <2> QED BY <2>6, <2>8, <2>9, <2>10 DEF d
<1> QED BY <1>1, <1>2, <1>3

-----------------------------------------------------------------------------
(* The inductive invariant: the four invariants together.  None of the last *)
(* three is inductive alone, because Learn finds the entries to remove in   *)
(* one structure by looking them up in another.                             *)
IInv == TypeOK /\ MapsInverse /\ OrderMatchesCache /\ Bounded

Snapshot == Cache(lidToPN, pnToLID, order)

SnapshotOK ==
  /\ Snapshot \in CacheType
  /\ Paired(Snapshot, {}, {})
  /\ Listed(Snapshot, {})
  /\ Len(Snapshot.order) <= MaxSize

(* The invariant in terms of the snapshot the lemmas speak of.              *)
LEMMA IInvOfSnapshot == IInv <=> SnapshotOK
<1>1. /\ Snapshot.l2p = lidToPN /\ Snapshot.p2l = pnToLID /\ Snapshot.order = order
      /\ Snapshot = [l2p |-> lidToPN, p2l |-> pnToLID, order |-> order]
  BY DEF Snapshot, Cache
<1>2. TypeOK <=> Snapshot \in CacheType
  BY <1>1 DEF TypeOK, CacheType
<1>3. MapsInverse <=> Paired(Snapshot, {}, {})
  BY <1>1 DEF MapsInverse, Paired
<1>4. OrderMatchesCache <=> Listed(Snapshot, {})
  BY <1>1 DEF OrderMatchesCache, Listed, NoDups
<1>5. ASSUME TypeOK, OrderMatchesCache
      PROVE  Bounded <=> Len(order) <= MaxSize
  <2>1. Cardinality(DOMAIN lidToPN) = Len(order)
    BY <1>5, ListedCardinality DEF TypeOK, OrderMatchesCache, NoDups
  <2> QED BY <2>1 DEF Bounded
<1> QED BY <1>1, <1>2, <1>3, <1>4, <1>5 DEF IInv, SnapshotOK

(* Learn preserves the invariant.                                           *)
LEMMA LearnPreserves ==
  ASSUME IInv, NEW lid \in User, NEW pn \in User, Learn(lid, pn)
  PROVE  IInv'
<1> DEFINE c0 == Snapshot
           c1 == DropOldPN(c0, lid)
           c2 == DropOldLID(c1, pn)
           c3 == Insert(c2, lid, pn)
           c4 == Evict(c3)
<1>0. MaxSize \in Nat
  BY MaxSizeAssumption
<1>1. /\ c0 \in CacheType /\ Paired(c0, {}, {}) /\ Listed(c0, {})
      /\ Len(c0.order) <= MaxSize
  BY IInvOfSnapshot DEF SnapshotOK
<1>2. /\ c1 \in CacheType /\ Paired(c1, {lid}, {}) /\ Listed(c1, {lid})
      /\ Len(c1.order) <= Len(c0.order)
  BY <1>1, DropOldPNPairs
<1>3. /\ c2 \in CacheType /\ Paired(c2, {lid}, {pn}) /\ Listed(c2, {lid})
      /\ Len(c2.order) <= Len(c1.order)
  BY <1>2, DropOldLIDPairs
<1>4. /\ c3 \in CacheType /\ Paired(c3, {}, {}) /\ Listed(c3, {})
      /\ Len(c3.order) = Len(c2.order) + 1
  BY <1>3, InsertPairs
<1>5. Len(c0.order) \in Nat /\ Len(c1.order) \in Nat /\ Len(c2.order) \in Nat
  BY <1>1, <1>2, <1>3, LenProperties DEF CacheType
<1>6. Len(c3.order) <= MaxSize + 1
  BY <1>0, <1>1, <1>2, <1>3, <1>4, <1>5
<1>7. /\ c4 \in CacheType /\ Paired(c4, {}, {}) /\ Listed(c4, {})
      /\ Len(c4.order) <= MaxSize
  BY <1>4, <1>6, EvictPairs
<1>8. lidToPN' = c4.l2p /\ pnToLID' = c4.p2l /\ order' = c4.order
  BY DEF Learn, Learned, Snapshot
<1> HIDE DEF c4
<1>9. Snapshot' = c4
  BY <1>7, <1>8 DEF Snapshot, Cache, CacheType
<1>10. SnapshotOK'
  BY <1>7, <1>9 DEF SnapshotOK, CacheType, PartialMap, Paired, Listed, NoDups, Range
<1> QED BY <1>10, IInvOfSnapshot, PTL

-----------------------------------------------------------------------------
(* The cache is empty at first and every event either learns one pair of    *)
(* users or leaves it alone.                                                *)
THEOREM InvariantHolds == Spec => []IInv
<1>1. Init => IInv
  <2> SUFFICES ASSUME Init PROVE IInv
    OBVIOUS
  <2>1. TypeOK
    <3>1. EmptyMap \in [{} -> User]
      BY DEF EmptyMap
    <3>2. {} \in SUBSET User
      OBVIOUS
    <3>3. EmptyMap \in PartialMap
      BY <3>1, <3>2 DEF PartialMap
    <3> QED BY <3>3 DEF Init, TypeOK
  <2>2. MapsInverse /\ OrderMatchesCache
    BY DEF Init, EmptyMap, MapsInverse, OrderMatchesCache, Range
  <2>3. DOMAIN lidToPN = {} /\ Len(order) = 0 /\ MaxSize \in Nat
    BY MaxSizeAssumption DEF Init, EmptyMap
  <2>4. Bounded
    BY <2>3, FS_EmptySet DEF Bounded
  <2> QED BY <2>1, <2>2, <2>4 DEF IInv
<1>2. IInv /\ [Next]_vars => IInv'
  <2> SUFFICES ASSUME IInv, [Next]_vars PROVE IInv'
    OBVIOUS
  <2>1. ASSUME NEW from \in JID, NEW participant \in JID,
               OnIncomingEvent(from, participant)
        PROVE  IInv'
    <3>1. from.user \in User /\ participant.user \in User
      BY DEF JID
    <3>2. CASE Learn(from.user, participant.user)
      BY <3>1, <3>2, LearnPreserves
    <3>3. CASE Learn(participant.user, from.user)
      BY <3>1, <3>3, LearnPreserves
    <3> QED BY <2>1, <3>2, <3>3 DEF OnIncomingEvent
  <2>2. CASE UNCHANGED vars
    BY <2>2 DEF vars, IInv, TypeOK, MapsInverse, OrderMatchesCache, Bounded
  <2> QED BY <2>1, <2>2 DEF Next
<1> QED BY <1>1, <1>2, PTL DEF Spec

(* Every field of the resolver keeps its type.                              *)
THEOREM TypeCorrect == Spec => []TypeOK
<1>1. IInv => TypeOK
  BY DEF IInv
<1> QED BY <1>1, InvariantHolds, PTL

(* lidToPN and pnToLID are each other's inverse after any sequence of       *)
(* events, whatever the cache size.                                         *)
THEOREM AlwaysInverse == Spec => []MapsInverse
<1>1. IInv => MapsInverse
  BY DEF IInv
<1> QED BY <1>1, InvariantHolds, PTL

(* The eviction list and the cache never drift apart.                       *)
THEOREM AlwaysListed == Spec => []OrderMatchesCache
<1>1. IInv => OrderMatchesCache
  BY DEF IInv
<1> QED BY <1>1, InvariantHolds, PTL

(* One eviction per Learn is enough to keep the cache within maxSize.       *)
THEOREM AlwaysBounded == Spec => []Bounded
<1>1. IInv => Bounded
  BY DEF IInv
<1> QED BY <1>1, InvariantHolds, PTL

-----------------------------------------------------------------------------
(* The refinement.  t is what is left of s, in the order of s.              *)
Thinned(t, s) ==
  \E f \in [1 .. Len(t) -> 1 .. Len(s)] :
    /\ \A i, j \in 1 .. Len(t) : i < j => f[i] < f[j]
    /\ \A i \in 1 .. Len(t) : t[i] = s[f[i]]

LEMMA ThinnedSame == ASSUME NEW s \in Seq(User) PROVE Thinned(s, s)
<1> DEFINE f == [i \in 1 .. Len(s) |-> i]
<1>1. /\ f \in [1 .. Len(s) -> 1 .. Len(s)]
      /\ \A i, j \in 1 .. Len(s) : i < j => f[i] < f[j]
      /\ \A i \in 1 .. Len(s) : s[i] = s[f[i]]
  OBVIOUS
<1> QED
  BY <1>1 DEF Thinned

LEMMA ThinnedTwice ==
  ASSUME NEW s \in Seq(User), NEW t \in Seq(User), NEW u \in Seq(User), Thinned(t, s), Thinned(u, t)
  PROVE  Thinned(u, s)
<1>1. PICK f \in [1 .. Len(t) -> 1 .. Len(s)] :
        /\ \A i, j \in 1 .. Len(t) : i < j => f[i] < f[j]
        /\ \A i \in 1 .. Len(t) : t[i] = s[f[i]]
  BY DEF Thinned
<1>2. PICK g \in [1 .. Len(u) -> 1 .. Len(t)] :
        /\ \A i, j \in 1 .. Len(u) : i < j => g[i] < g[j]
        /\ \A i \in 1 .. Len(u) : u[i] = t[g[i]]
  BY DEF Thinned
<1> DEFINE h == [i \in 1 .. Len(u) |-> f[g[i]]]
<1>3. /\ h \in [1 .. Len(u) -> 1 .. Len(s)]
      /\ \A i, j \in 1 .. Len(u) : i < j => h[i] < h[j]
      /\ \A i \in 1 .. Len(u) : u[i] = s[h[i]]
  BY <1>1, <1>2
<1> HIDE DEF h
<1> QED
  BY <1>3 DEF Thinned

(* Unlinking one element leaves the others in their order.                  *)
LEMMA RemoveThins ==
  ASSUME NEW s \in Seq(User), NoDups(s), NEW e
  PROVE  Thinned(removeFromOrder(s, e), s)
<1>1. CASE ~\E i \in DOMAIN s : s[i] = e
  BY <1>1, ThinnedSame DEF removeFromOrder
<1>2. CASE \E i \in DOMAIN s : s[i] = e
  <2>1. PICK k \in DOMAIN s :
          removeFromOrder(s, e) = [j \in 1 .. Len(s) - 1 |-> IF j < k THEN s[j] ELSE s[j + 1]]
    <3> DEFINE First(i) == s[i] = e /\ \A j \in 1 .. i - 1 : s[j] # e
    <3>1. PICK k \in DOMAIN s : s[k] = e
      BY <1>2
    <3>2. First(k)
      BY <3>1, LenProperties DEF NoDups
    <3>3. (CHOOSE i \in DOMAIN s : First(i)) \in DOMAIN s
      <4> HIDE DEF First
      <4> QED BY <3>1, <3>2
    <3> QED
      BY <1>2, <3>3 DEF removeFromOrder
  <2>2. Len(s) \in Nat /\ DOMAIN s = 1 .. Len(s) /\ k \in 1 .. Len(s)
    BY <2>1, LenProperties
  <2>3. PICK n : n = Len(s) - 1 /\ n \in Nat
    <3>1. Len(s) - 1 \in Nat
      BY <2>2
    <3> QED
      BY <3>1, Zenon
  <2>4. PICK r : r = removeFromOrder(s, e)
    OBVIOUS
  <2>5. /\ r = [j \in 1 .. n |-> IF j < k THEN s[j] ELSE s[j + 1]]
        /\ r \in Seq(User) /\ Len(r) = n
    BY <2>1, <2>2, <2>3, <2>4, ElementOfSeq
  <2> DEFINE f == [j \in 1 .. n |-> IF j < k THEN j ELSE j + 1]
  <2>6. /\ f \in [1 .. n -> 1 .. Len(s)]
        /\ \A i, j \in 1 .. n : i < j => f[i] < f[j]
    BY <2>2, <2>3
  <2>7. \A i \in 1 .. n : r[i] = s[f[i]]
    BY <2>5
  <2> HIDE DEF f
  <2> QED
    BY <2>4, <2>5, <2>6, <2>7 DEF Thinned
<1> QED BY <1>1, <1>2

(* What the two removals leave: the LIDs whose pair shares neither the LID  *)
(* nor the PN of the new one, in their order and with their PNs.            *)
LEMMA DropsSupersede ==
  ASSUME NEW c \in CacheType, NEW lid \in User, NEW pn \in User, Paired(c, {}, {}), Listed(c, {})
  PROVE  LET d == DropOldLID(DropOldPN(c, lid), pn)
         IN  /\ Thinned(d.order, c.order)
             /\ Range(d.order) = {x \in DOMAIN c.l2p : x # lid /\ c.l2p[x] # pn}
             /\ \A x \in Range(d.order) : x \in DOMAIN d.l2p /\ d.l2p[x] = c.l2p[x]
<1>0. c.l2p \in PartialMap /\ c.p2l \in PartialMap /\ c.order \in Seq(User)
  BY DEF CacheType
<1>1. PICK b : b = DropOldPN(c, lid)
  OBVIOUS
<1>2. PICK d : d = DropOldLID(b, pn)
  OBVIOUS
<1>3. b \in CacheType /\ Paired(b, {lid}, {}) /\ Listed(b, {lid})
  BY <1>1, DropOldPNPairs
<1>4. d \in CacheType /\ Paired(d, {lid}, {pn}) /\ Listed(d, {lid})
  BY <1>2, <1>3, DropOldLIDPairs
<1>5. /\ b.l2p = c.l2p
      /\ Thinned(b.order, c.order)
      /\ DOMAIN b.p2l = {p \in DOMAIN c.p2l : c.p2l[p] # lid}
      /\ \A p \in DOMAIN b.p2l : b.p2l[p] = c.p2l[p]
  <2>1. CASE lid \notin DOMAIN c.l2p
    BY <1>0, <1>1, <2>1, ThinnedSame DEF DropOldPN, Paired
  <2>2. CASE lid \in DOMAIN c.l2p
    <3>1. b.l2p = c.l2p /\ b.p2l = Delete(c.p2l, c.l2p[lid]) /\ b.order = removeFromOrder(c.order, lid)
      BY <1>1, <2>2 DEF DropOldPN, Cache
    <3>2. Thinned(b.order, c.order)
      BY <1>0, <3>1, RemoveThins DEF Listed
    <3>3. /\ DOMAIN b.p2l = DOMAIN c.p2l \ {c.l2p[lid]}
          /\ \A p \in DOMAIN b.p2l : b.p2l[p] = c.p2l[p]
      <4> DEFINE m == Delete(c.p2l, c.l2p[lid])
      <4>1. /\ DOMAIN m = DOMAIN c.p2l \ {c.l2p[lid]}
            /\ \A x \in DOMAIN c.p2l \ {c.l2p[lid]} : m[x] = c.p2l[x]
        BY <1>0, MapDelete
      <4>2. b.p2l = m
        BY <3>1
      <4> HIDE DEF m
      <4> QED BY <4>1, <4>2
    <3>4. \A p \in DOMAIN c.p2l : c.p2l[p] = lid <=> p = c.l2p[lid]
      BY <2>2 DEF Paired
    <3> QED
      BY <3>1, <3>2, <3>3, <3>4
  <2> QED BY <2>1, <2>2
<1>6. b.order \in Seq(User) /\ NoDups(b.order) /\ d.order \in Seq(User)
  BY <1>3, <1>4 DEF CacheType, Listed
<1>7. CASE pn \notin DOMAIN b.p2l
  <2>1. d = b
    BY <1>2, <1>7 DEF DropOldLID
  <2>2. \A x \in DOMAIN c.l2p : x # lid => c.l2p[x] # pn
    BY <1>5, <1>7 DEF Paired
  <2> QED
    BY <1>1, <1>2, <1>3, <1>5, <2>1, <2>2 DEF Listed
<1>8. CASE pn \in DOMAIN b.p2l
  <2>1. /\ d.l2p = Delete(b.l2p, b.p2l[pn])
        /\ d.order = removeFromOrder(b.order, b.p2l[pn])
    BY <1>2, <1>8 DEF DropOldLID, Cache
  <2>2. Thinned(d.order, c.order)
    BY <1>0, <1>5, <1>6, <2>1, RemoveThins, ThinnedTwice
  <2>3. /\ DOMAIN d.l2p = DOMAIN c.l2p \ {b.p2l[pn]}
        /\ \A x \in DOMAIN d.l2p : d.l2p[x] = c.l2p[x]
    <3> DEFINE m == Delete(c.l2p, b.p2l[pn])
    <3>1. /\ DOMAIN m = DOMAIN c.l2p \ {b.p2l[pn]}
          /\ \A x \in DOMAIN c.l2p \ {b.p2l[pn]} : m[x] = c.l2p[x]
      BY <1>0, MapDelete
    <3>2. d.l2p = m
      BY <1>5, <2>1
    <3> HIDE DEF m
    <3> QED BY <3>1, <3>2
  <2>4. \A x \in DOMAIN c.l2p : c.l2p[x] = pn <=> x = b.p2l[pn]
    BY <1>5, <1>8 DEF Paired
  <2>5. Range(d.order) = DOMAIN d.l2p \ {lid}
    BY <1>4 DEF Listed
  <2> QED
    BY <1>1, <1>2, <2>2, <2>3, <2>4, <2>5
<1> QED BY <1>7, <1>8

(* Evict cuts the list at MaxSize and leaves the other pairs alone.         *)
LEMMA EvictCuts ==
  ASSUME NEW c \in CacheType, Paired(c, {}, {}), Listed(c, {}), Len(c.order) <= MaxSize + 1
  PROVE  LET d == Evict(c)
             size == IF Len(c.order) > MaxSize THEN MaxSize ELSE Len(c.order)
         IN  /\ d.order = SubSeq(c.order, 1, size)
             /\ \A i \in 1 .. size : d.l2p[c.order[i]] = c.l2p[c.order[i]]
<1>0. c.l2p \in PartialMap /\ c.order \in Seq(User)
  BY DEF CacheType
<1>1. PICK n \in Nat : n = Len(c.order) /\ DOMAIN c.order = 1 .. n
  BY <1>0, LenProperties
<1>2. Cardinality(DOMAIN c.l2p) = n /\ Range(c.order) = DOMAIN c.l2p /\ MaxSize \in Nat \ {0}
  BY <1>0, <1>1, ListedCardinality, MaxSizeAssumption DEF Listed
<1>3. CASE n <= MaxSize
  <2>1. Evict(c) = c
    BY <1>1, <1>2, <1>3 DEF Evict
  <2>2. SubSeq(c.order, 1, n) = c.order
    BY <1>0, <1>1
  <2> QED BY <1>1, <1>2, <1>3, <2>1, <2>2
<1>4. CASE n > MaxSize
  <2>1. n = MaxSize + 1 /\ n >= 1 /\ c.order # <<>>
    BY <1>0, <1>1, <1>2, <1>4
  <2>2. PICK back : back = c.order[n]
    OBVIOUS
  <2>3. /\ Evict(c).order = SubSeq(c.order, 1, n - 1)
        /\ Evict(c).l2p = Delete(c.l2p, back)
    BY <1>1, <1>2, <1>4, <2>1, <2>2 DEF Evict, Cache
  <2>4. \A x \in DOMAIN c.l2p \ {back} : Delete(c.l2p, back)[x] = c.l2p[x]
    BY <1>0, MapDelete
  <2>5. \A i \in 1 .. n - 1 : c.order[i] \in DOMAIN c.l2p \ {back}
    BY <1>1, <1>2, <2>1, <2>2 DEF Listed, NoDups, Range
  <2> QED BY <1>1, <1>2, <1>4, <2>1, <2>3, <2>4, <2>5
<1> QED BY <1>1, <1>2, <1>3, <1>4

(* Learn is the abstract Learn: place is where the two removals leave each  *)
(* pair that stays.                                                         *)
LEMMA LearnMaps ==
  ASSUME IInv, NEW lid \in User, NEW pn \in User, Learn(lid, pn)
  PROVE  Book!Learn(lid, pn)
<1>1. PICK c0, c1, c2, c3, c4 :
        /\ c0 = Snapshot
        /\ c1 = DropOldPN(c0, lid)
        /\ c2 = DropOldLID(c1, pn)
        /\ c3 = Insert(c2, lid, pn)
        /\ c4 = Evict(c3)
  OBVIOUS
<1>2. /\ c0 \in CacheType /\ Paired(c0, {}, {}) /\ Listed(c0, {})
      /\ Len(c0.order) <= MaxSize
  BY <1>1, IInvOfSnapshot DEF SnapshotOK
<1>3. /\ c1 \in CacheType /\ Paired(c1, {lid}, {}) /\ Listed(c1, {lid})
      /\ Len(c1.order) <= Len(c0.order)
  BY <1>1, <1>2, DropOldPNPairs
<1>4. /\ c2 \in CacheType /\ Paired(c2, {lid}, {pn}) /\ Listed(c2, {lid})
      /\ Len(c2.order) <= Len(c1.order)
  BY <1>1, <1>3, DropOldLIDPairs
<1>5. /\ c3 \in CacheType /\ Paired(c3, {}, {}) /\ Listed(c3, {})
      /\ Len(c3.order) = Len(c2.order) + 1
  BY <1>1, <1>4, InsertPairs
<1>6. c0.l2p = lidToPN /\ c0.order = order
  BY <1>1 DEF Snapshot, Cache
<1>7. lidToPN' = c4.l2p /\ order' = c4.order
  BY <1>1 DEF Learn, Learned, Snapshot
<1>8. /\ Thinned(c2.order, order)
      /\ Range(c2.order) = {x \in DOMAIN lidToPN : x # lid /\ lidToPN[x] # pn}
      /\ \A x \in Range(c2.order) : x \in DOMAIN c2.l2p /\ c2.l2p[x] = lidToPN[x]
  BY <1>1, <1>2, <1>6, DropsSupersede
<1>9. /\ order \in Seq(User) /\ c2.order \in Seq(User) /\ c3.order \in Seq(User)
      /\ c2.l2p \in PartialMap
      /\ NoDups(order) /\ Range(order) = DOMAIN lidToPN
  BY <1>2, <1>4, <1>5, <1>6 DEF CacheType, Listed
<1>10. PICK n \in Nat, k \in Nat : /\ n = Len(order) /\ DOMAIN order = 1 .. n
                                   /\ k = Len(c2.order) /\ DOMAIN c2.order = 1 .. k
  BY <1>9, LenProperties
<1>11. PICK f \in [1 .. k -> 1 .. n] :
         /\ \A i, j \in 1 .. k : i < j => f[i] < f[j]
         /\ \A i \in 1 .. k : c2.order[i] = order[f[i]]
  BY <1>8, <1>10 DEF Thinned
<1>12. PICK left : left = {i \in 1 .. n : order[i] \in Range(c2.order)}
  OBVIOUS
<1>13. /\ f \in [1 .. k -> left]
       /\ \A i \in left : \E j \in 1 .. k : f[j] = i
  <2>1. f \in [1 .. k -> left]
    BY <1>10, <1>11, <1>12 DEF Range
  <2>2. ASSUME NEW e \in left PROVE \E j \in 1 .. k : f[j] = e
    <3>1. PICK j \in 1 .. k : c2.order[j] = order[e]
      BY <1>10, <1>12, <2>2 DEF Range
    <3>2. order[f[j]] = order[e] /\ f[j] \in 1 .. n /\ e \in 1 .. n
      BY <1>11, <1>12, <2>2, <3>1
    <3>3. f[j] = e
      BY <1>9, <1>10, <3>2 DEF NoDups
    <3> QED BY <3>3
  <2> QED
    BY <2>1, <2>2
<1>14. /\ DOMAIN Pairs = 1 .. n
       /\ \A i \in 1 .. n : Pairs[i] = <<order[i], lidToPN[order[i]]>>
  BY <1>10 DEF Pairs
<1>15. left = {i \in DOMAIN Pairs : ~Book!Superseded(Pairs[i], lid, pn)}
  <2>1. \A i \in 1 .. n : order[i] \in DOMAIN lidToPN
    BY <1>9, <1>10 DEF Range
  <2>2. \A i \in 1 .. n : Book!Superseded(Pairs[i], lid, pn) <=> (order[i] = lid \/ lidToPN[order[i]] = pn)
    BY <1>14 DEF Book!Superseded
  <2> QED
    BY <1>8, <1>12, <1>14, <2>1, <2>2
<1>16. PICK rest : rest = [i \in 1 .. k |-> Pairs[f[i]]]
  OBVIOUS
<1>17. PICK longer : longer = <<<<lid, pn>>>> \o rest
  OBVIOUS
<1>18. rest \in Seq({Pairs[i] : i \in 1 .. n}) /\ Len(rest) = k
  BY <1>11, <1>16
<1>19. /\ longer \in Seq({Pairs[i] : i \in 1 .. n} \cup {<<lid, pn>>})
       /\ Len(longer) = k + 1
       /\ longer[1] = <<lid, pn>>
       /\ \A i \in 1 .. k : longer[i + 1] = rest[i]
  BY <1>17, <1>18
<1>20. /\ c3.l2p = Put(c2.l2p, lid, pn)
       /\ c3.order = <<lid>> \o c2.order
  BY <1>1 DEF Insert, Cache
<1>21. /\ Len(c3.order) = k + 1
       /\ c3.order[1] = lid
       /\ \A i \in 1 .. k : c3.order[i + 1] = c2.order[i]
  BY <1>9, <1>10, <1>20
<1>22. /\ c3.l2p[lid] = pn
       /\ \A x \in DOMAIN c2.l2p \ {lid} : c3.l2p[x] = c2.l2p[x]
  <2> DEFINE m == Put(c2.l2p, lid, pn)
  <2>1. m[lid] = pn /\ \A x \in DOMAIN c2.l2p \ {lid} : m[x] = c2.l2p[x]
    BY <1>9, MapPut, Zenon
  <2>2. c3.l2p = m
    BY <1>20
  <2> HIDE DEF m
  <2> QED
    BY <2>1, <2>2
<1>23. \A i \in 1 .. k + 1 : longer[i] = <<c3.order[i], c3.l2p[c3.order[i]]>>
  <2>1. \A i \in 1 .. k : longer[i + 1] = <<c3.order[i + 1], c3.l2p[c3.order[i + 1]]>>
    <3> SUFFICES ASSUME NEW i \in 1 .. k
                 PROVE  longer[i + 1] = <<c3.order[i + 1], c3.l2p[c3.order[i + 1]]>>
      OBVIOUS
    <3>1. PICK x : x = c2.order[i]
      OBVIOUS
    <3>2. x \in Range(c2.order)
      BY <1>10, <3>1 DEF Range
    <3>3. c3.l2p[x] = lidToPN[x]
      BY <1>8, <1>22, <3>2
    <3>4. longer[i + 1] = <<x, lidToPN[x]>>
      <4>1. f[i] \in 1 .. n /\ order[f[i]] = x
        BY <1>11, <3>1
      <4>2. Pairs[f[i]] = <<x, lidToPN[x]>>
        BY <1>14, <4>1
      <4>3. longer[i + 1] = rest[i] /\ rest[i] = Pairs[f[i]]
        BY <1>16, <1>19
      <4> QED
        BY <4>2, <4>3
    <3> QED
      BY <1>21, <3>1, <3>3, <3>4
  <2>2. longer[1] = <<c3.order[1], c3.l2p[c3.order[1]]>>
    BY <1>19, <1>21, <1>22
  <2>3. \A i \in 1 .. k + 1 : i = 1 \/ \E j \in 1 .. k : i = j + 1
    <3> SUFFICES ASSUME NEW i \in 1 .. k + 1, i # 1 PROVE \E j \in 1 .. k : i = j + 1
      OBVIOUS
    <3>1. i - 1 \in 1 .. k /\ i = (i - 1) + 1
      OBVIOUS
    <3> QED BY <3>1
  <2> QED
    BY <2>1, <2>2, <2>3
<1>24. MaxSize \in Nat \ {0}
  BY MaxSizeAssumption
<1>25. PICK size \in Nat : size = (IF k + 1 > MaxSize THEN MaxSize ELSE k + 1)
  BY <1>24
<1>26. /\ order' = SubSeq(c3.order, 1, size)
       /\ \A i \in 1 .. size : lidToPN'[c3.order[i]] = c3.l2p[c3.order[i]]
  <2>1. Len(c3.order) <= MaxSize + 1
    BY <1>2, <1>3, <1>4, <1>6, <1>9, <1>10, <1>21, <1>24, LenProperties DEF CacheType
  <2> DEFINE cut == IF Len(c3.order) > MaxSize THEN MaxSize ELSE Len(c3.order)
  <2>2. /\ c4.order = SubSeq(c3.order, 1, cut)
        /\ \A i \in 1 .. cut : c4.l2p[c3.order[i]] = c3.l2p[c3.order[i]]
    BY <1>1, <1>5, <2>1, EvictCuts, Zenon
  <2>3. cut = size
    BY <1>21, <1>25
  <2> HIDE DEF cut
  <2> QED
    BY <1>7, <2>2, <2>3
<1>27. size <= k + 1
  BY <1>24, <1>25
<1>28. Pairs' = SubSeq(longer, 1, size)
  <2>1. DOMAIN order' = 1 .. size /\ \A i \in 1 .. size : order'[i] = c3.order[i]
    <3>1. DOMAIN c3.order = 1 .. k + 1
      BY <1>9, <1>21, LenProperties
    <3>2. SubSeq(c3.order, 1, size) = [i \in 1 .. size |-> c3.order[i]]
      BY <1>9, <1>21, <1>27
    <3> QED
      BY <1>26, <3>2
  <2>2. SubSeq(longer, 1, size) = [i \in 1 .. size |-> longer[i]]
    BY <1>19, <1>27
  <2>3. Pairs' = [i \in DOMAIN order' |-> <<order'[i], lidToPN'[order'[i]]>>]
    BY DEF Pairs
  <2> QED
    BY <1>23, <1>26, <1>27, <2>1, <2>2, <2>3
<1>29. k \in 0 .. Len(Pairs)
  <2>1. Pairs = [i \in 1 .. n |-> <<order[i], lidToPN[order[i]]>>]
    BY <1>10 DEF Pairs
  <2>2. Len(Pairs) = n
    BY <2>1
  <2>3. Len(c1.order) \in Nat
    BY <1>3, LenProperties DEF CacheType
  <2>4. k <= n
    BY <1>3, <1>4, <1>6, <1>10, <2>3
  <2> QED
    BY <2>2, <2>4
<1>30. /\ longer = <<<<lid, pn>>>> \o [i \in 1 .. k |-> Pairs[f[i]]]
       /\ size = (IF Len(longer) > MaxSize THEN MaxSize ELSE Len(longer))
  BY <1>16, <1>17, <1>19, <1>25
<1> QED
  BY <1>11, <1>13, <1>15, <1>28, <1>29, <1>30 DEF Book!Learn

(* The cache implements the list of pairs of ContactBook, for every set of  *)
(* users and every cache size: learning a pair removes exactly the pairs    *)
(* it contradicts and a full cache loses its oldest pair and no other.      *)
THEOREM BookRefines == Spec => ImplementsContactBook
<1>1. Init => Book!Init
  <2> SUFFICES ASSUME Init PROVE Book!Init
    OBVIOUS
  <2>1. order = <<>> /\ DOMAIN order = {}
    BY DEF Init
  <2> QED
    BY <2>1 DEF Book!Init, Pairs
<1>2. IInv /\ [Next]_vars => [Book!Next]_Pairs
  <2> SUFFICES ASSUME IInv, [Next]_vars PROVE [Book!Next]_Pairs
    OBVIOUS
  <2>1. ASSUME NEW from \in JID, NEW participant \in JID, OnIncomingEvent(from, participant)
        PROVE  Book!Next
    <3>1. from.user \in User /\ participant.user \in User
      BY DEF JID
    <3>2. \E lid, pn \in User : lid # pn /\ Learn(lid, pn)
      BY <2>1, <3>1 DEF OnIncomingEvent
    <3> QED
      BY <3>2, LearnMaps DEF Book!Next
  <2>2. CASE UNCHANGED vars
    BY <2>2 DEF vars, Pairs
  <2> QED
    BY <2>1, <2>2 DEF Next
<1> QED
  BY <1>1, <1>2, InvariantHolds, PTL DEF Spec, ImplementsContactBook, Book!Spec
=============================================================================
