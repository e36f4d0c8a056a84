------------------------------ MODULE CertCache ------------------------------
(***************************************************************************)
(* The leaf certificates of internal/ca/cert.go: a map from host name to   *)
(* certificate, bounded by maxSize, and the slice of names that says what  *)
(* to evict.  GetCertificate, which every TLS handshake calls, holds cc.mu *)
(* throughout, so that a call is one step here.                            *)
(*                                                                         *)
(* Time is counted in units far longer than it takes to sign a leaf: the   *)
(* NotAfter of a certificate and the expiresAt of its entry coincide.  A   *)
(* ClientHello without a server name is refused before the lock is taken,  *)
(* and a failure of the random source leaves the cache as it was: neither  *)
(* has a step.                                                             *)
(***************************************************************************)
EXTENDS Naturals, Sequences, SequencesExt, FiniteSets

CONSTANTS
  Hosts,     \* server names clients ask for
  MaxSize,   \* cc.maxSize
  Lifetime,  \* how long a leaf is valid
  MaxTime,   \* bound on the clock
  MaxOrder   \* bound on the length of cc.order

ASSUME CacheAssumption ==
  /\ MaxSize \in Nat \ {0}
  /\ Lifetime \in Nat \ {0}
  /\ MaxTime \in Nat
  /\ MaxOrder \in Nat

VARIABLES
  now,     \* time.Now()
  cache,   \* expiresAt of each host in cc.cache
  order,   \* cc.order
  served   \* history: host, expiry and time of the last call

vars == <<now, cache, order, served>>

Never == [host |-> "none", expires |-> 0, at |-> 0]

TypeOK ==
  /\ now \in Nat
  /\ DOMAIN cache \subseteq Hosts
  /\ \A h \in DOMAIN cache : cache[h] \in Nat
  /\ order \in Seq(Hosts)
  /\ served \in [host : Hosts \cup {"none"}, expires : Nat, at : Nat]

Init ==
  /\ now = 0
  /\ cache = <<>>
  /\ order = <<>>
  /\ served = Never

-----------------------------------------------------------------------------
Cached == DOMAIN cache

Fresh(h) == h \in Cached /\ now < cache[h]

Serve(h, expires) == served' = [host |-> h, expires |-> expires, at |-> now]

Hit(h) ==
  /\ Fresh(h)
  /\ Serve(h, cache[h])
  /\ UNCHANGED <<now, cache, order>>

\* hosts left after the eviction: the head of order goes, whether it is still
\* cached or not
Kept == IF Cardinality(Cached) >= MaxSize THEN Cached \ {Head(order)} ELSE Cached

Listed == IF Cardinality(Cached) >= MaxSize THEN Tail(order) ELSE order

\* Mutant: a name that is in the cache is not listed again.
GenerateUnlisted(h) ==
  /\ ~Fresh(h)
  /\ Len(order) < MaxOrder
  /\ cache' = [g \in Kept \cup {h} |-> IF g = h THEN now + Lifetime ELSE cache[g]]
  /\ order' = IF h \in Cached THEN Listed ELSE Append(Listed, h)
  /\ Serve(h, now + Lifetime)
  /\ UNCHANGED now

\* Mutant: the eviction comes after the insertion.
GenerateThenEvict(h) ==
  /\ ~Fresh(h)
  /\ Len(order) < MaxOrder
  /\ LET full == Cardinality(Cached \cup {h}) > MaxSize
         all  == Append(order, h)
     IN  /\ order' = IF full THEN Tail(all) ELSE all
         /\ cache' = [g \in (Cached \cup {h}) \ (IF full THEN {Head(all)} ELSE {}) |->
                        IF g = h THEN now + Lifetime ELSE cache[g]]
  /\ Serve(h, now + Lifetime)
  /\ UNCHANGED now

\* Mutant: the new name is put in front.
GenerateInFront(h) ==
  /\ ~Fresh(h)
  /\ Len(order) < MaxOrder
  /\ cache' = [g \in Kept \cup {h} |-> IF g = h THEN now + Lifetime ELSE cache[g]]
  /\ order' = <<h>> \o Listed
  /\ Serve(h, now + Lifetime)
  /\ UNCHANGED now

\* the host is new, or its entry has expired: the entry is replaced, and the
\* name is listed once more
Generate(h) ==
  /\ ~Fresh(h)
  /\ Len(order) < MaxOrder
  /\ cache' = [g \in Kept \cup {h} |-> IF g = h THEN now + Lifetime ELSE cache[g]]
  /\ order' = Append(Listed, h)
  /\ Serve(h, now + Lifetime)
  /\ UNCHANGED now

Tick ==
  /\ now < MaxTime
  /\ now' = now + 1
  /\ UNCHANGED <<cache, order, served>>

GetCertificate(h) == Hit(h) \/ Generate(h)

Next == Tick \/ \E h \in Hosts : GetCertificate(h)

Spec == Init /\ [][Next]_vars

-----------------------------------------------------------------------------
(* Properties.                                                             *)

\* Every cached host is listed, so that order[0] exists whenever the cache is
\* full and no entry is beyond the reach of the eviction (cert.go:62-73).
Evictable == Cached \subseteq ToSet(order)

\* The certificate a handshake got has not expired, and is the one the cache
\* holds for the host: the eviction never takes what was just stored
\* (cert.go:53-75).
ServedIsCached ==
  served # Never =>
    /\ served.at < served.expires
    /\ served.host \in Cached
    /\ cache[served.host] = served.expires

\* "Evict oldest if at capacity": an entry leaves the cache only as one that
\* expires first, or because a listing of its name from before a renewal had
\* come to the head of the list; then its name is listed once more
\* (cert.go:62-73).
EvictsTheOldest ==
  [][\A h \in Cached \ Cached' :
       (\A g \in Cached : cache[h] <= cache[g]) \/ h \in ToSet(Tail(order))]_vars

\* What internal/ca/cert_test.go:91 says: "expected cache size <= 3, got %d",
\* with maxSize 3.
CacheBounded == Cardinality(Cached) <= MaxSize

=============================================================================
