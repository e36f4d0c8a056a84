--------------------------- MODULE CertCacheProofs ---------------------------
(***************************************************************************)
(* Proofs about CertCache, for any hosts and any capacity: type            *)
(* correctness, that the eviction always finds a name to evict, that it    *)
(* never takes the entry just stored and takes a younger one than need be  *)
(* only through an outdated listing, and that the limit holds until a      *)
(* certificate expires.                                                    *)
(***************************************************************************)
EXTENDS CertCache, TLAPS, FiniteSetTheorems, NaturalsInduction, WellFoundedInduction

\* A full cache is not empty.
LEMMA FullHasEntry == Cardinality(Cached) >= MaxSize => Cached # {}
<1>1. Cardinality({}) = 0
  BY FS_EmptySet
<1>2. MaxSize \in Nat /\ MaxSize > 0
  BY CacheAssumption
<1> QED
  BY <1>1, <1>2

\* What GetCertificate evicts is at the head of the list; what it keeps is
\* in the rest of it.
LEMMA KeptIsListed ==
  ASSUME TypeOK, Evictable
  PROVE  /\ Listed \in Seq(Hosts)
         /\ Kept \subseteq Hosts /\ Kept \subseteq Cached
         /\ Kept \subseteq {Listed[i] : i \in 1..Len(Listed)}
<1>1. Cached \subseteq Hosts /\ order \in Seq(Hosts) /\ DOMAIN order = 1..Len(order)
  BY DEF TypeOK, Cached
<1>2. \A h \in Cached : \E i \in 1..Len(order) : order[i] = h
  BY <1>1 DEF Evictable, ToSet
<1>3. CASE Cardinality(Cached) >= MaxSize
  <2>1. Kept = Cached \ {Head(order)} /\ Listed = Tail(order)
    BY <1>3 DEF Kept, Listed
  <2>2. order # <<>>
    BY <1>1, <1>2, <1>3, FullHasEntry
  <2>3. /\ Tail(order) \in Seq(Hosts) /\ Head(order) = order[1]
        /\ Len(Tail(order)) = Len(order) - 1
        /\ \A i \in 1..(Len(order) - 1) : Tail(order)[i] = order[i + 1]
    BY <1>1, <2>2
  <2>4. ASSUME NEW h \in Kept
        PROVE  \E i \in 1..Len(Tail(order)) : Tail(order)[i] = h
    <3>1. PICK i \in 1..Len(order) : order[i] = h
      BY <1>2, <2>1
    <3>2. i # 1 /\ i - 1 \in 1..(Len(order) - 1)
      BY <1>1, <2>1, <2>3, <3>1
    <3>3. Tail(order)[i - 1] = order[(i - 1) + 1] /\ (i - 1) + 1 = i
      BY <2>3, <3>2
    <3> QED
      BY <2>3, <3>1, <3>2, <3>3
  <2> QED
    BY <1>1, <2>1, <2>3, <2>4
<1>4. CASE ~(Cardinality(Cached) >= MaxSize)
  <2>1. Kept = Cached /\ Listed = order
    BY <1>4 DEF Kept, Listed
  <2> QED
    BY <1>1, <1>2, <2>1
<1> QED
  BY <1>3, <1>4

\* A new certificate leaves the cache well typed, listed and with its host.
LEMMA GenerateKeeps ==
  ASSUME TypeOK, Evictable, NEW h \in Hosts, Generate(h)
  PROVE  (TypeOK /\ Evictable /\ ServedIsCached)'
<1>1. /\ Listed \in Seq(Hosts)
      /\ Kept \subseteq Hosts /\ Kept \subseteq Cached
      /\ Kept \subseteq {Listed[i] : i \in 1..Len(Listed)}
  BY KeptIsListed
<1>2. /\ cache' = [g \in Kept \cup {h} |-> IF g = h THEN now + Lifetime ELSE cache[g]]
      /\ order' = Append(Listed, h)
      /\ served' = [host |-> h, expires |-> now + Lifetime, at |-> now]
      /\ now' = now
  BY DEF Generate, Serve
<1>3. now \in Nat /\ now + Lifetime \in Nat /\ now < now + Lifetime
  BY CacheAssumption DEF TypeOK
<1>4. /\ DOMAIN cache' = Kept \cup {h}
      /\ cache'[h] = now + Lifetime
      /\ \A g \in DOMAIN cache' : cache'[g] \in Nat
  BY <1>1, <1>2, <1>3 DEF TypeOK, Cached
<1>5. /\ order' \in Seq(Hosts) /\ DOMAIN order' = 1..(Len(Listed) + 1)
      /\ Len(Listed) \in Nat
      /\ order'[Len(Listed) + 1] = h
      /\ \A i \in 1..Len(Listed) : order'[i] = Listed[i]
  BY <1>1, <1>2
<1>6. TypeOK'
  BY <1>1, <1>2, <1>3, <1>4, <1>5 DEF TypeOK
<1>7. Evictable'
  <2>1. ASSUME NEW g \in Kept \cup {h}
        PROVE  \E i \in DOMAIN order' : order'[i] = g
    BY <1>1, <1>5
  <2> QED
    BY <1>4, <2>1 DEF Evictable, Cached, ToSet
<1>8. ServedIsCached'
  <2>1. /\ served'.host = h /\ served'.expires = now + Lifetime /\ served'.at = now
    BY <1>2
  <2> QED
    BY <1>3, <1>4, <2>1 DEF ServedIsCached, Cached
<1> QED
  BY <1>6, <1>7, <1>8

LEMMA StepKeeps ==
  ASSUME TypeOK, Evictable, ServedIsCached, [Next]_vars
  PROVE  (TypeOK /\ Evictable /\ ServedIsCached)'
<1>1. CASE Tick
  BY <1>1 DEF Tick, TypeOK, Evictable, ServedIsCached, Cached, Never
<1>2. ASSUME NEW h \in Hosts, Hit(h)
      PROVE  (TypeOK /\ Evictable /\ ServedIsCached)'
  <2>1. /\ h \in DOMAIN cache /\ now < cache[h] /\ cache[h] \in Nat
        /\ served' = [host |-> h, expires |-> cache[h], at |-> now]
        /\ UNCHANGED <<now, cache, order>>
    BY <1>2 DEF Hit, Fresh, Serve, Cached, TypeOK
  <2> QED
    BY <2>1 DEF TypeOK, Evictable, ServedIsCached, Cached
<1>3. ASSUME NEW h \in Hosts, Generate(h)
      PROVE  (TypeOK /\ Evictable /\ ServedIsCached)'
  BY <1>3, GenerateKeeps
<1>4. CASE UNCHANGED vars
  BY <1>4 DEF vars, TypeOK, Evictable, ServedIsCached, Cached, Never
<1> QED
  BY <1>1, <1>2, <1>3, <1>4 DEF Next, GetCertificate

\* The three hold together in every reachable state.
THEOREM CacheInvariant == Spec => [](TypeOK /\ Evictable /\ ServedIsCached)
<1>1. Init => TypeOK /\ Evictable /\ ServedIsCached
  BY DEF Init, TypeOK, Evictable, ServedIsCached, Cached, Never
<1>2. /\ TypeOK /\ Evictable /\ ServedIsCached /\ [Next]_vars
      => (TypeOK /\ Evictable /\ ServedIsCached)'
  BY StepKeeps
<1> QED
  BY <1>1, <1>2, PTL DEF Spec

\* The eviction of cert.go:64 never indexes an empty slice.
THEOREM EvictionFindsAName == Spec => []Evictable
  BY CacheInvariant, PTL

\* What a handshake got is valid, and what the cache holds (cert.go:53-75).
THEOREM ServesWhatItHolds == Spec => []ServedIsCached
  BY CacheInvariant, PTL

-----------------------------------------------------------------------------
(* The list follows the age of the entries.                                *)

\* A bounded set of numbers has a greatest one, and Max finds it.
LEMMA GreatestIsMax ==
  ASSUME NEW T \in SUBSET Nat, T # {}, NEW n \in Nat, \A x \in T : x <= n
  PROVE  Max(T) \in T /\ \A y \in T : y <= Max(T)
<1> DEFINE R == {ss \in Nat \X Nat : ss[1] < ss[2]}
           B == {n - x : x \in T}
<1>1. IsWellFoundedOn(R, Nat)
  BY NatLessThanWellFounded, Zenon DEF OpToRel
<1>2. B \in SUBSET Nat /\ B # {}
  OBVIOUS
<1> HIDE DEF R, B
<1>3. PICK b \in B : \A y \in B : ~(<<y, b>> \in R)
  BY <1>1, <1>2, WFMin
<1>4. PICK x \in T : b = n - x
  BY DEF B
<1>5. ASSUME NEW y \in T
      PROVE  y <= x
  <2>1. n - y \in B /\ n - y \in Nat /\ b \in Nat
    BY <1>2 DEF B
  <2>2. ~(n - y < b)
    BY <1>3, <2>1 DEF R
  <2> QED
    BY <1>4, <2>2
<1> QED
  BY <1>5 DEF Max

LastIndex(seq, h) == SelectLastInSeq(seq, LAMBDA x : x = h)

\* of two cached hosts, the one whose name was listed last expires last
OrderFollowsAge ==
  \A g, h \in Cached : LastIndex(order, g) <= LastIndex(order, h) => cache[g] <= cache[h]

\* i is the last place of g in seq
LastAt(seq, g, i) == i \in 1..Len(seq) /\ seq[i] = g /\ \A j \in 1..Len(seq) : seq[j] = g => j <= i

\* A name that is listed is found at its last place, and nowhere else.
LEMMA LastIndexIsLast ==
  ASSUME NEW seq \in Seq(Hosts), NEW g, \E i \in 1..Len(seq) : seq[i] = g
  PROVE  LastAt(seq, g, LastIndex(seq, g))
<1> DEFINE I == {i \in 1..Len(seq) : seq[i] = g}
<1>1. LastIndex(seq, g) = Max(I)
  BY DEF LastIndex, SelectLastInSeq
<1>2. Len(seq) \in Nat /\ I \in SUBSET Nat /\ I # {} /\ \A i \in I : i <= Len(seq)
  OBVIOUS
<1> HIDE DEF I
<1>3. Max(I) \in I /\ \A y \in I : y <= Max(I)
  BY <1>2, GreatestIsMax
<1> QED
  BY <1>1, <1>3 DEF I, LastAt

LEMMA OneLast ==
  ASSUME NEW seq \in Seq(Hosts), NEW g, NEW i, NEW k, LastAt(seq, g, i), LastAt(seq, g, k)
  PROVE  i = k
  BY DEF LastAt

\* no certificate is valid for longer than one that is made now
Young == \A h \in Cached : cache[h] <= now + Lifetime

AgeInv == TypeOK /\ Evictable /\ Young /\ OrderFollowsAge

\* What is kept has moved to the front by as many places as the list has lost.
LEMMA KeptMoves ==
  ASSUME TypeOK, Evictable
  PROVE  \E d \in {0, 1} :
           \A g \in Kept : \E i \in Nat : LastAt(order, g, i + d) /\ LastAt(Listed, g, i)
<1>1. Cached \subseteq Hosts /\ order \in Seq(Hosts) /\ DOMAIN order = 1..Len(order) /\ Len(order) \in Nat
  BY DEF TypeOK, Cached
<1>2. \A h \in Cached : \E i \in 1..Len(order) : order[i] = h
  BY <1>1 DEF Evictable, ToSet
<1>3. \A g \in Cached : LastAt(order, g, LastIndex(order, g))
  BY <1>1, <1>2, LastIndexIsLast
<1>4. CASE Cardinality(Cached) >= MaxSize
  <2>1. Kept = Cached \ {Head(order)} /\ Listed = Tail(order)
    BY <1>4 DEF Kept, Listed
  <2>2. order # <<>>
    BY <1>1, <1>2, <1>4, FullHasEntry
  <2>3. /\ Head(order) = order[1]
        /\ Len(Tail(order)) = Len(order) - 1
        /\ \A i \in 1..(Len(order) - 1) : Tail(order)[i] = order[i + 1]
    BY <1>1, <2>2
  <2>4. ASSUME NEW g \in Kept
        PROVE  \E i \in Nat : LastAt(order, g, i + 1) /\ LastAt(Tail(order), g, i)
    <3> DEFINE k == LastIndex(order, g)
    <3>1. LastAt(order, g, k) /\ g # order[1]
      BY <1>3, <2>1, <2>3
    <3> HIDE DEF k
    <3>2. k \in 2..Len(order) /\ order[k] = g /\ \A j \in 1..Len(order) : order[j] = g => j <= k
      BY <1>1, <3>1 DEF LastAt
    <3>3. k - 1 \in 1..(Len(order) - 1) /\ (k - 1) + 1 = k /\ k - 1 \in Nat
      BY <1>1, <3>2
    <3>4. Tail(order)[k - 1] = g
      BY <2>3, <3>2, <3>3
    <3>5. ASSUME NEW j \in 1..(Len(order) - 1), Tail(order)[j] = g
          PROVE  j <= k - 1
      <4>1. order[j + 1] = g /\ j + 1 \in 1..Len(order)
        BY <1>1, <2>3, <3>5
      <4>2. j + 1 <= k
        BY <3>2, <4>1
      <4> QED
        BY <3>2, <4>2
    <3>6. LastAt(Tail(order), g, k - 1)
      BY <2>3, <3>3, <3>4, <3>5 DEF LastAt
    <3> QED
      BY <3>1, <3>3, <3>6
  <2> QED
    BY <2>1, <2>4
<1>5. CASE ~(Cardinality(Cached) >= MaxSize)
  <2>1. Kept = Cached /\ Listed = order
    BY <1>5 DEF Kept, Listed
  <2>2. ASSUME NEW g \in Kept
        PROVE  \E i \in Nat : LastAt(order, g, i + 0) /\ LastAt(Listed, g, i)
    <3> DEFINE k == LastIndex(order, g)
    <3>1. LastAt(order, g, k)
      BY <1>3, <2>1
    <3> HIDE DEF k
    <3>2. k \in Nat /\ k + 0 = k
      BY <1>1, <3>1 DEF LastAt
    <3> QED
      BY <2>1, <3>1, <3>2
  <2> QED
    BY <2>2
<1> QED
  BY <1>4, <1>5

LEMMA GenerateKeepsAge ==
  ASSUME AgeInv, NEW h \in Hosts, Generate(h)
  PROVE  AgeInv'
<1>1. /\ TypeOK /\ Evictable /\ Young /\ OrderFollowsAge
      /\ TypeOK' /\ Evictable'
  BY GenerateKeeps DEF AgeInv
<1>2. /\ Listed \in Seq(Hosts) /\ Kept \subseteq Hosts /\ Kept \subseteq Cached
      /\ order \in Seq(Hosts) /\ order' \in Seq(Hosts)
  BY <1>1, KeptIsListed DEF TypeOK
<1>3. /\ DOMAIN cache' = Kept \cup {h} /\ now' = now
      /\ \A g \in Kept \cup {h} : cache'[g] = IF g = h THEN now + Lifetime ELSE cache[g]
      /\ order' = Append(Listed, h)
  BY DEF Generate
<1>4. now + Lifetime \in Nat /\ \A g \in Kept : cache[g] \in Nat /\ cache[g] <= now + Lifetime
  BY <1>1, <1>2, CacheAssumption DEF TypeOK, Young, Cached
<1>5. Young'
  BY <1>3, <1>4 DEF Young, Cached
<1>6. /\ Len(order') = Len(Listed) + 1 /\ order'[Len(Listed) + 1] = h /\ Len(Listed) \in Nat
      /\ \A i \in 1..Len(Listed) : order'[i] = Listed[i]
  BY <1>2, <1>3
<1>7. PICK d \in {0, 1} :
        \A g \in Kept : \E i \in Nat : LastAt(order, g, i + d) /\ LastAt(Listed, g, i)
  BY <1>1, KeptMoves
<1>8. \A g \in Kept \cup {h} : LastAt(order', g, LastIndex(order', g))
  <2>1. \A g \in Kept \cup {h} : \E i \in 1..Len(order') : order'[i] = g
    BY <1>1, <1>2, <1>3 DEF Evictable, Cached, ToSet
  <2> QED
    BY <1>2, <2>1, LastIndexIsLast
<1>9. ASSUME NEW g \in Kept, g # h
      PROVE  /\ LastIndex(order', g) + d = LastIndex(order, g)
             /\ LastIndex(order', g) \in 1..Len(Listed)
             /\ LastIndex(order, g) \in Nat
  <2>1. PICK i \in Nat : LastAt(order, g, i + d) /\ LastAt(Listed, g, i)
    BY <1>7
  <2>2. LastAt(order', g, i)
    BY <1>6, <1>9, <2>1 DEF LastAt
  <2>3. LastIndex(order', g) = i
    BY <1>2, <1>8, <2>2, OneLast
  <2>4. \E k \in 1..Len(order) : order[k] = g
    BY <2>1 DEF LastAt
  <2>5. LastIndex(order, g) = i + d
    BY <1>2, <2>1, <2>4, LastIndexIsLast, OneLast
  <2> QED
    BY <2>1, <2>3, <2>5 DEF LastAt
<1>10. LastIndex(order', h) = Len(Listed) + 1
  <2>1. LastAt(order', h, Len(Listed) + 1)
    BY <1>6 DEF LastAt
  <2> QED
    BY <1>2, <1>8, <2>1, OneLast
<1>11. ASSUME NEW f \in Kept \cup {h}, NEW g \in Kept \cup {h},
              LastIndex(order', f) <= LastIndex(order', g)
       PROVE  cache'[f] <= cache'[g]
  <2>1. CASE g = h
    BY <1>3, <1>4, <2>1
  <2>2. CASE f = h /\ g # h
    BY <1>6, <1>9, <1>10, <1>11, <2>2
  <2>3. CASE f # h /\ g # h
    <3>1. LastIndex(order, f) <= LastIndex(order, g)
      BY <1>9, <1>11, <2>3
    <3> QED
      BY <1>1, <1>2, <1>3, <2>3, <3>1 DEF OrderFollowsAge
  <2> QED
    BY <2>1, <2>2, <2>3
<1>12. OrderFollowsAge'
  BY <1>3, <1>11 DEF OrderFollowsAge, Cached
<1> QED
  BY <1>1, <1>5, <1>12 DEF AgeInv

LEMMA StepKeepsAge == AgeInv /\ [Next]_vars => AgeInv'
<1> SUFFICES ASSUME AgeInv, [Next]_vars PROVE AgeInv'
  OBVIOUS
<1>1. CASE Tick
  BY <1>1, CacheAssumption
  DEF Tick, AgeInv, TypeOK, Evictable, Young, OrderFollowsAge, Cached
<1>2. ASSUME NEW h \in Hosts, Hit(h)
      PROVE  AgeInv'
  <2>1. /\ h \in DOMAIN cache /\ cache[h] \in Nat
        /\ served' = [host |-> h, expires |-> cache[h], at |-> now]
        /\ UNCHANGED <<now, cache, order>>
    BY <1>2 DEF Hit, Fresh, Serve, Cached, TypeOK, AgeInv
  <2> QED
    BY <2>1 DEF AgeInv, TypeOK, Evictable, Young, OrderFollowsAge, Cached
<1>3. ASSUME NEW h \in Hosts, Generate(h)
      PROVE  AgeInv'
  BY <1>3, GenerateKeepsAge
<1>4. CASE UNCHANGED vars
  BY <1>4 DEF vars, AgeInv, TypeOK, Evictable, Young, OrderFollowsAge, Cached
<1> QED
  BY <1>1, <1>2, <1>3, <1>4 DEF Next, GetCertificate

\* A head of the list that is not listed again is the entry that expires first.
LEMMA HeadIsOldest ==
  ASSUME AgeInv, order # <<>>, Head(order) \in Cached, Head(order) \notin ToSet(Tail(order)),
         NEW g \in Cached
  PROVE  cache[Head(order)] <= cache[g]
<1> DEFINE x == Head(order)
<1>1. /\ order \in Seq(Hosts) /\ Len(order) \in Nat /\ x = order[1] /\ 1 \in 1..Len(order)
      /\ Tail(order) \in Seq(Hosts) /\ Len(Tail(order)) = Len(order) - 1
      /\ \A i \in 1..(Len(order) - 1) : Tail(order)[i] = order[i + 1]
  BY DEF AgeInv, TypeOK
<1>2. \A h \in Cached : \E i \in 1..Len(order) : order[i] = h
  BY <1>1 DEF AgeInv, Evictable, ToSet
<1>3. LastAt(order, x, LastIndex(order, x)) /\ LastAt(order, g, LastIndex(order, g))
  BY <1>1, <1>2, LastIndexIsLast
<1>4. \A i \in 1..(Len(order) - 1) : Tail(order)[i] # x
  <2>1. DOMAIN Tail(order) = 1..(Len(order) - 1)
    BY <1>1
  <2>2. \A i \in DOMAIN Tail(order) : Tail(order)[i] # x
    BY DEF ToSet
  <2> QED
    BY <2>1, <2>2
<1> HIDE DEF x
<1>5. ASSUME NEW i \in 1..Len(order), order[i] = x
      PROVE  i = 1
  <2>1. CASE i # 1
    <3>1. i - 1 \in 1..(Len(order) - 1) /\ (i - 1) + 1 = i
      BY <1>1, <2>1
    <3>2. Tail(order)[i - 1] = x
      BY <1>1, <1>5, <3>1
    <3> QED
      BY <1>4, <3>1, <3>2
  <2> QED
    BY <2>1
<1>6. LastIndex(order, x) = 1 /\ LastIndex(order, g) \in 1..Len(order)
  BY <1>3, <1>5 DEF LastAt
<1>7. LastIndex(order, x) <= LastIndex(order, g)
  BY <1>1, <1>6
<1> QED
  BY <1>7 DEF AgeInv, OrderFollowsAge, x

\* An entry leaves the cache only as one that expires first, or because a
\* listing of its name from before a renewal had come to the head of the list
\* (cert.go:62-73).
THEOREM EvictionIsByAge == Spec => EvictsTheOldest
<1> DEFINE Due(h) == (\A g \in Cached : cache[h] <= cache[g]) \/ h \in ToSet(Tail(order))
<1>1. Init => AgeInv
  BY DEF Init, AgeInv, TypeOK, Evictable, Young, OrderFollowsAge, Cached, Never
<1>2. AgeInv /\ [Next]_vars => [\A h \in Cached \ Cached' : Due(h)]_vars
  <2> SUFFICES ASSUME AgeInv, [Next]_vars, NEW h \in Cached \ Cached'
               PROVE  Due(h)
    OBVIOUS
  <2>1. PICK new \in Hosts : Generate(new)
    <3>1. UNCHANGED cache => Cached' = Cached
      BY DEF Cached
    <3>2. (Tick \/ UNCHANGED vars \/ \E g \in Hosts : Hit(g)) => UNCHANGED cache
      BY DEF Tick, Hit, vars
    <3> QED
      BY <3>1, <3>2 DEF Next, GetCertificate
  <2>2. h \in Cached /\ h \notin Kept
    BY <2>1 DEF Generate, Cached
  <2>3. Cardinality(Cached) >= MaxSize /\ h = Head(order)
    BY <2>2 DEF Kept
  <2>4. order # <<>>
    BY <2>2 DEF AgeInv, Evictable, ToSet
  <2> QED
    BY <2>2, <2>3, <2>4, HeadIsOldest
<1> QED
  BY <1>1, <1>2, StepKeepsAge, PTL DEF Spec, EvictsTheOldest

-----------------------------------------------------------------------------
(* How far the bound holds that CacheBounded states and the cache breaks.  *)

\* as long as no entry can have expired
Early == now < Lifetime

\* Until then a name is listed once, because only what is not cached is listed.
EarlyInv ==
  Early =>
    /\ \A i, j \in 1..Len(order) : i # j => order[i] # order[j]
    /\ \A i \in 1..Len(order) : order[i] \in Cached
    /\ IsFiniteSet(Cached) /\ Cardinality(Cached) = Len(order) /\ Len(order) <= MaxSize
    /\ \A h \in Cached : cache[h] >= Lifetime

LEMMA GenerateKeepsEarly ==
  ASSUME TypeOK, Evictable, EarlyInv, NEW h \in Hosts, Generate(h)
  PROVE  EarlyInv'
<1> SUFFICES ASSUME Early'
             PROVE  /\ \A i, j \in 1..Len(order') : i # j => order'[i] # order'[j]
                    /\ \A i \in 1..Len(order') : order'[i] \in Cached'
                    /\ IsFiniteSet(Cached') /\ Cardinality(Cached') = Len(order') /\ Len(order') <= MaxSize
                    /\ \A g \in Cached' : cache'[g] >= Lifetime
  BY DEF EarlyInv
<1>1. /\ DOMAIN cache' = Kept \cup {h} /\ now' = now /\ ~Fresh(h)
      /\ \A g \in Kept \cup {h} : cache'[g] = IF g = h THEN now + Lifetime ELSE cache[g]
      /\ order' = Append(Listed, h)
  BY DEF Generate
<1>2. /\ MaxSize \in Nat \ {0} /\ Lifetime \in Nat \ {0} /\ now \in Nat
      /\ order \in Seq(Hosts) /\ Len(order) \in Nat
      /\ Cached \subseteq Hosts /\ \A g \in Cached : cache[g] \in Nat
  BY CacheAssumption DEF TypeOK, Cached
<1>3. /\ Early
      /\ \A i, j \in 1..Len(order) : i # j => order[i] # order[j]
      /\ \A i \in 1..Len(order) : order[i] \in Cached
      /\ IsFiniteSet(Cached) /\ Cardinality(Cached) = Len(order) /\ Len(order) <= MaxSize
      /\ \A g \in Cached : cache[g] >= Lifetime
  BY <1>1 DEF Early, EarlyInv
<1>4. h \notin Cached
  BY <1>1, <1>2, <1>3 DEF Fresh, Early
<1>5. /\ Listed \in Seq(Hosts) /\ Len(Listed) \in Nat /\ Len(Listed) < MaxSize
      /\ \A i, j \in 1..Len(Listed) : i # j => Listed[i] # Listed[j]
      /\ \A i \in 1..Len(Listed) : Listed[i] \in Kept
      /\ Kept \subseteq Cached /\ IsFiniteSet(Kept) /\ Cardinality(Kept) = Len(Listed)
  <2>1. CASE Cardinality(Cached) >= MaxSize
    <3>1. Kept = Cached \ {Head(order)} /\ Listed = Tail(order)
      BY <2>1 DEF Kept, Listed
    <3>2. Len(order) = MaxSize /\ 1 \in 1..Len(order)
      BY <1>2, <1>3, <2>1
    <3>3. /\ Tail(order) \in Seq(Hosts) /\ Head(order) = order[1]
          /\ Len(Tail(order)) = Len(order) - 1
          /\ \A i \in 1..(Len(order) - 1) : Tail(order)[i] = order[i + 1]
      BY <1>2, <3>2
    <3>4. IsFiniteSet(Kept) /\ Cardinality(Kept) = Len(order) - 1 /\ Kept \subseteq Cached
      BY <1>3, <3>1, <3>2, <3>3, FS_RemoveElement
    <3>5. \A i \in 1..(Len(order) - 1) : i + 1 \in 1..Len(order) /\ i + 1 # 1
      BY <1>2
    <3>6. ASSUME NEW i \in 1..Len(Listed)
          PROVE  Listed[i] \in Kept /\ \A j \in 1..Len(Listed) : i # j => Listed[i] # Listed[j]
      <4>1. i \in 1..(Len(order) - 1) /\ i + 1 \in 1..Len(order) /\ i + 1 # 1 /\ Listed[i] = order[i + 1]
        BY <3>1, <3>3, <3>5
      <4>2. order[i + 1] # order[1] /\ order[i + 1] \in Cached
        BY <1>3, <3>2, <4>1
      <4>3. ASSUME NEW j \in 1..Len(Listed), i # j
            PROVE  Listed[i] # Listed[j]
        <5>1. j + 1 \in 1..Len(order) /\ Listed[j] = order[j + 1] /\ i + 1 # j + 1
          BY <3>1, <3>3, <3>5, <4>1, <4>3
        <5> QED
          BY <1>3, <4>1, <5>1
      <4> QED
        BY <3>1, <3>3, <4>1, <4>2, <4>3
    <3> QED
      BY <1>2, <3>1, <3>2, <3>3, <3>4, <3>6
  <2>2. CASE ~(Cardinality(Cached) >= MaxSize)
    <3>1. Kept = Cached /\ Listed = order
      BY <2>2 DEF Kept, Listed
    <3> QED
      BY <1>2, <1>3, <2>2, <3>1
  <2> QED
    BY <2>1, <2>2
<1>6. /\ Len(order') = Len(Listed) + 1 /\ order'[Len(Listed) + 1] = h
      /\ \A i \in 1..Len(Listed) : order'[i] = Listed[i]
  BY <1>1, <1>5
<1>7. /\ IsFiniteSet(Cached') /\ Cardinality(Cached') = Len(order') /\ Len(order') <= MaxSize
  <2>1. h \notin Kept /\ Cached' = Kept \cup {h}
    BY <1>1, <1>4, <1>5 DEF Cached
  <2>2. IsFiniteSet(Kept \cup {h}) /\ Cardinality(Kept \cup {h}) = Len(Listed) + 1
    BY <1>5, <2>1, FS_AddElement
  <2> QED
    BY <1>2, <1>5, <1>6, <2>1, <2>2
<1>8. ASSUME NEW i \in 1..Len(order')
      PROVE  order'[i] \in Cached' /\ \A j \in 1..Len(order') : i # j => order'[i] # order'[j]
  <2>1. \A j \in 1..Len(order') : j \in 1..Len(Listed) \/ j = Len(Listed) + 1
    BY <1>5, <1>6
  <2>2. \A j \in 1..Len(Listed) : order'[j] = Listed[j] /\ Listed[j] \in Kept /\ Listed[j] # h
    BY <1>4, <1>5, <1>6
  <2> QED
    BY <1>1, <1>5, <1>6, <2>1, <2>2 DEF Cached
<1>9. \A g \in Cached' : cache'[g] >= Lifetime
  <2>1. now + Lifetime >= Lifetime
    BY <1>2
  <2> QED
    BY <1>1, <1>3, <1>5, <2>1 DEF Cached
<1> QED
  BY <1>7, <1>8, <1>9

\* What cert_test.go:91 says of the cache, "expected cache size <= 3", holds as
\* long as no certificate can have expired: the first entry over the bound
\* takes a name that was listed again after its expiry (cert.go:53-75).
THEOREM BoundedWhileYoung == Spec => [](Early => CacheBounded)
<1>1. Init => EarlyInv
  <2> SUFFICES ASSUME Init PROVE EarlyInv
    OBVIOUS
  <2>1. order = <<>> /\ Cached = {} /\ Len(order) = 0
    BY DEF Init, Cached
  <2> QED
    BY <2>1, CacheAssumption, FS_EmptySet DEF EarlyInv
<1>2. TypeOK /\ Evictable /\ EarlyInv /\ [Next]_vars => EarlyInv'
  <2> SUFFICES ASSUME TypeOK, Evictable, EarlyInv, [Next]_vars PROVE EarlyInv'
    OBVIOUS
  <2>1. CASE Tick
    <3>1. now' = now + 1 /\ now \in Nat /\ UNCHANGED <<cache, order>>
      BY <2>1 DEF Tick, TypeOK
    <3>2. Early' => Early
      BY <3>1, CacheAssumption DEF Early
    <3> QED
      BY <3>1, <3>2 DEF EarlyInv, Cached
  <2>2. ASSUME NEW h \in Hosts, Hit(h)
        PROVE  EarlyInv'
    BY <2>2 DEF Hit, EarlyInv, Early, Cached
  <2>3. ASSUME NEW h \in Hosts, Generate(h)
        PROVE  EarlyInv'
    BY <2>3, GenerateKeepsEarly
  <2>4. CASE UNCHANGED vars
    BY <2>4 DEF vars, EarlyInv, Early, Cached
  <2> QED
    BY <2>1, <2>2, <2>3, <2>4 DEF Next, GetCertificate
<1>3. EarlyInv => (Early => CacheBounded)
  BY DEF EarlyInv, CacheBounded
<1> QED
  BY <1>1, <1>2, <1>3, CacheInvariant, PTL DEF Spec

=============================================================================
