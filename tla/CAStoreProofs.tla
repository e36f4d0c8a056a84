---------------------------- MODULE CAStoreProofs ----------------------------
(***************************************************************************)
(* Proofs about CAStore, for any number of processes, generations, crashes *)
(* and failing writes.                                                     *)
(***************************************************************************)
EXTENDS CAStore, TLAPS

LEMMA NumbersDiffer ==
  /\ Absent \notin CAs /\ Cut \notin CAs /\ Cut # Absent
  /\ MaxGenerations \in Nat /\ CAs \subseteq Nat
  BY CAAssumption DEF Absent, Cut, CAs

-----------------------------------------------------------------------------
(* Types.                                                                  *)

LEMMA InitTyped == Init => TypeOK
<1>1. 0 \in 0..MaxGenerations /\ 0 \in 0..MaxFaults
  BY CAAssumption
<1> QED
  BY <1>1, NumbersDiffer, CAAssumption DEF Init, TypeOK, CAAssumption

LEMMA NextTyped == TypeOK /\ [Next]_vars => TypeOK'
<1> SUFFICES ASSUME TypeOK, [Next]_vars PROVE TypeOK'
  OBVIOUS
<1> USE NumbersDiffer, CAAssumption DEF TypeOK, Go, CAAssumption
<1>1. ASSUME NEW p \in Processes, Start(p)
      PROVE  TypeOK'
  BY <1>1 DEF Start, Starting, Disturbed
<1>2. ASSUME NEW p \in Processes, Main(p)
      PROVE  TypeOK'
  <2>1. CASE Ask(p)
    BY <2>1 DEF Ask, Starting
  <2>2. CASE Announce(p)
    BY <2>2 DEF Announce
  <2>3. CASE Stat(p)
    BY <2>3 DEF Stat, Starting
  <2>4. CASE Load(p)
    BY <2>4 DEF Load, Starting
  <2>5. CASE Generate(p)
    <3>1. last + 1 \in CAs /\ last + 1 \in 0..MaxGenerations
      BY <2>5 DEF Generate, CAs
    <3> QED
      BY <2>5, <3>1 DEF Generate, Starting, Writing, Disturbed
  <2>6. CASE WriteToDisk(p)
    BY <2>6 DEF WriteToDisk, Starting, Writing, Disturbed
  <2> QED
    BY <1>2, <2>1, <2>2, <2>3, <2>4, <2>5, <2>6 DEF Main
<1>3. ASSUME NEW p \in Processes, Stop(p)
      PROVE  TypeOK'
  BY <1>3 DEF Stop
<1>4. ASSUME NEW p \in Processes, WriteFails(p) \/ Crash(p)
      PROVE  TypeOK'
  <2>1. faults' \in 0..MaxFaults
    BY <1>4 DEF WriteFails, Crash
  <2>2. damaged' \in BOOLEAN
    BY <1>4, Zenon DEF WriteFails, Crash
  <2> QED
    BY <1>4, <2>1, <2>2 DEF WriteFails, Crash
<1>5. CASE UNCHANGED vars
  BY <1>5 DEF vars, procVars
<1> QED
  BY <1>1, <1>2, <1>3, <1>4, <1>5 DEF Next

\* Every reachable state is well typed.
THEOREM TypeCorrect == Spec => []TypeOK
  BY InitTyped, NextTyped, PTL DEF Spec

-----------------------------------------------------------------------------
(* A process that writes, announces or serves holds a pair.                *)

HoldsPair(p) ==
  at[p] \in Writing \cup {"announce", "serving"} => loaded[p] = signs[p] /\ signs[p] \in CAs

PairInv == \A p \in Processes : HoldsPair(p)

LEMMA NextPairs == TypeOK /\ PairInv /\ [Next]_vars => PairInv'
<1> SUFFICES ASSUME TypeOK, PairInv, [Next]_vars, NEW q \in Processes
             PROVE  HoldsPair(q)'
  BY DEF PairInv
<1> USE DEF HoldsPair, Writing, Go
<1>0. HoldsPair(q)
  BY DEF PairInv
<1>1. ASSUME NEW p \in Processes, Start(p)
      PROVE  HoldsPair(q)'
  BY <1>0, <1>1 DEF Start, TypeOK
<1>2. ASSUME NEW p \in Processes, Main(p)
      PROVE  HoldsPair(q)'
  <2>1. CASE Ask(p)
    BY <1>0, <2>1 DEF Ask, TypeOK
  <2>2. CASE Announce(p)
    BY <1>0, <2>2 DEF Announce, TypeOK
  <2>3. CASE Stat(p)
    BY <1>0, <2>3 DEF Stat, TypeOK
  <2>4. CASE Load(p)
    BY <1>0, <2>4 DEF Load, TypeOK
  <2>5. CASE Generate(p)
    <3>1. last + 1 \in CAs
      BY <2>5, NumbersDiffer DEF Generate, CAs, TypeOK
    <3> QED
      BY <1>0, <2>5, <3>1 DEF Generate, TypeOK
  <2>6. CASE WriteToDisk(p)
    BY <1>0, <2>6 DEF WriteToDisk, TypeOK
  <2> QED
    BY <1>2, <2>1, <2>2, <2>3, <2>4, <2>5, <2>6 DEF Main
<1>3. ASSUME NEW p \in Processes, Stop(p) \/ WriteFails(p) \/ Crash(p)
      PROVE  HoldsPair(q)'
  BY <1>0, <1>3 DEF Stop, WriteFails, Crash, TypeOK
<1>4. CASE UNCHANGED vars
  BY <1>0, <1>4 DEF vars, procVars
<1> QED
  BY <1>1, <1>2, <1>3, <1>4 DEF Next

LEMMA PairsAlways == Spec => [](TypeOK /\ PairInv)
<1>1. Init => TypeOK /\ PairInv
  BY InitTyped DEF Init, PairInv, HoldsPair, Writing
<1>2. TypeOK /\ PairInv /\ [Next]_vars => (TypeOK /\ PairInv)'
  BY NextTyped, NextPairs
<1> QED
  BY <1>1, <1>2, PTL DEF Spec

\* Whatever is in the files, a process serves with a certificate and the key
\* that belongs to it (ca.go:92-126).
THEOREM PairsAreServed == Spec => []ServesAPair
<1>1. PairInv => ServesAPair
  BY DEF PairInv, HoldsPair, ServesAPair
<1> QED
  BY <1>1, PairsAlways, PTL

-----------------------------------------------------------------------------
(* A CA that is there is kept.                                             *)

LEMMA StepKeepsCA ==
  ASSUME TypeOK, Settled, [Next]_vars
  PROVE  \/ Settled' /\ cert' = cert
         \/ \E p \in Processes : flagged'[p] /\ at'[p] = "generate"
<1> USE DEF Writing, Go
<1>0. /\ cert \in CAs /\ key = cert /\ cert # Absent
      /\ \A q \in Processes : at[q] \notin Writing \cup {"generate"}
  BY NumbersDiffer DEF Settled
<1>1. ASSUME NEW p \in Processes, NEW place,
             at' = [at EXCEPT ![p] = place], place \notin Writing \cup {"generate"},
             UNCHANGED <<cert, key>>
      PROVE  Settled' /\ cert' = cert
  BY <1>0, <1>1 DEF Settled, TypeOK
<1>2. ASSUME NEW p \in Processes, Start(p)
      PROVE  \/ Settled' /\ cert' = cert
             \/ \E q \in Processes : flagged'[q] /\ at'[q] = "generate"
  <2>1. PICK g \in BOOLEAN : /\ at' = [at EXCEPT ![p] = IF g THEN "generate" ELSE "ask_cert"]
                             /\ flagged' = [flagged EXCEPT ![p] = g]
    BY <1>2 DEF Start
  <2>2. CASE g
    <3>1. at'[p] = "generate"
      BY <2>1, <2>2 DEF TypeOK
    <3>2. flagged'[p] = g
      BY <2>1 DEF TypeOK
    <3> QED
      BY <2>2, <3>1, <3>2
  <2>3. CASE ~g
    <3>1. at' = [at EXCEPT ![p] = "ask_cert"]
      BY <2>1, <2>3
    <3> QED
      BY <1>1, <1>2, <3>1 DEF Start
  <2> QED
    BY <2>2, <2>3
<1>3. ASSUME NEW p \in Processes, Main(p)
      PROVE  Settled' /\ cert' = cert
  <2>1. ~Generate(p) /\ ~WriteToDisk(p)
    BY <1>0 DEF Generate, WriteToDisk
  <2>2. CASE Ask(p)
    BY <1>1, <2>2 DEF Ask
  <2>3. CASE Announce(p)
    BY <1>1, <2>3 DEF Announce
  <2>4. CASE Stat(p)
    BY <1>0, <1>1, <2>4 DEF Stat
  <2>5. CASE Load(p)
    BY <1>1, <2>5 DEF Load
  <2> QED
    BY <1>3, <2>1, <2>2, <2>3, <2>4, <2>5 DEF Main
<1>4. ASSUME NEW p \in Processes, Stop(p)
      PROVE  Settled' /\ cert' = cert
  BY <1>1, <1>4 DEF Stop
<1>5. ASSUME NEW p \in Processes, WriteFails(p) \/ Crash(p)
      PROVE  Settled' /\ cert' = cert
  BY <1>1, <1>5 DEF WriteFails, Crash
<1>6. CASE UNCHANGED vars
  BY <1>6 DEF vars, procVars, Settled
<1> QED
  BY <1>2, <1>3, <1>4, <1>5, <1>6 DEF Next

\* A CA the user may have trusted is replaced by --generate-ca only
\* (ca.go:26-31).
THEOREM CAIsKept == Spec => KeepsTheCA
<1>1. TypeOK /\ [Next]_vars =>
        [Settled => \/ Settled' /\ cert' = cert
                    \/ \E p \in Processes : flagged'[p] /\ at'[p] = "generate"]_vars
  BY StepKeepsCA
<1> QED
  BY <1>1, TypeCorrect, PTL DEF Spec, KeepsTheCA

-----------------------------------------------------------------------------
(* As long as nothing is damaged, a writer has the files to itself, and    *)
(* without one a key is the certificate's.                                 *)

Whole == key # Absent => key \in CAs /\ cert = key

HasFiles(p) ==
  /\ at[p] \in Writing => \A q \in Processes \ {p} : at[q] \notin Starting
  /\ at[p] \in {"read_cert", "read_key"} => key # Absent
  /\ at[p] = "read_key" => loaded[p] = key
  /\ at[p] \in {"open_key", "write_key"} => cert = loaded[p]
  /\ at[p] = "failed" => loaded[p] = signs[p]

DamageInv ==
  ~damaged =>
    /\ \A p \in Processes : HasFiles(p)
    /\ (\A p \in Processes : at[p] \notin Writing \ {"open_cert"}) => Whole

LEMMA NextUndamaged == TypeOK /\ PairInv /\ DamageInv /\ [Next]_vars => DamageInv'
<1> SUFFICES ASSUME TypeOK, PairInv, DamageInv, [Next]_vars, ~damaged'
             PROVE  /\ \A q \in Processes : HasFiles(q)'
                    /\ (\A q \in Processes : at'[q] \notin Writing \ {"open_cert"}) => Whole'
  BY DEF DamageInv
<1> USE DEF Go
<1>0. ~damaged
  BY DEF Next, Start, Main, Ask, Announce, Stat, Load, Generate, WriteToDisk, Stop,
         WriteFails, Crash, vars, procVars
<1>a. /\ \A q \in Processes : HasFiles(q) /\ HoldsPair(q)
      /\ (\A q \in Processes : at[q] \notin Writing \ {"open_cert"}) => Whole
  BY <1>0 DEF DamageInv, PairInv
<1>1. ASSUME NEW p \in Processes, Start(p)
      PROVE  /\ \A q \in Processes : HasFiles(q)'
             /\ (\A q \in Processes : at'[q] \notin Writing \ {"open_cert"}) => Whole'
  <2>1. ~Disturbed
    BY <1>1 DEF Start
  <2> QED
    BY <1>a, <1>1, <2>1 DEF Start, Disturbed, HasFiles, Whole, Writing, Starting, TypeOK
<1>2. ASSUME NEW p \in Processes, Main(p)
      PROVE  /\ \A q \in Processes : HasFiles(q)'
             /\ (\A q \in Processes : at'[q] \notin Writing \ {"open_cert"}) => Whole'
  <2>1. CASE Ask(p)
    BY <1>a, <2>1 DEF Ask, HasFiles, Whole, Writing, Starting, TypeOK
  <2>2. CASE Announce(p)
    BY <1>a, <2>2 DEF Announce, HasFiles, Whole, Writing, Starting, TypeOK
  <2>3. CASE Stat(p)
    BY <1>a, <2>3 DEF Stat, HasFiles, Whole, Writing, Starting, TypeOK
  <2>4. CASE Load(p)
    <3>1. at[p] \in {"read_cert", "read_key"} /\ key # Absent
      BY <1>a, <2>4 DEF Load, HasFiles
    <3>2. \A q \in Processes : at[q] \notin Writing
      BY <1>a, <3>1 DEF HasFiles, Writing, Starting
    <3>3. key \in CAs /\ cert = key
      BY <1>a, <3>1, <3>2 DEF Whole
    <3> QED
      BY <1>a, <2>4, <3>1, <3>2, <3>3, NumbersDiffer
         DEF Load, HasFiles, Whole, Writing, Starting, TypeOK
  <2>5. CASE Generate(p)
    <3>1. ~Disturbed
      BY <2>5 DEF Generate
    <3> QED
      BY <1>a, <2>5, <3>1 DEF Generate, Disturbed, HasFiles, Whole, Writing, Starting, TypeOK
  <2>6. CASE WriteToDisk(p)
    <3>1. at[p] \in Writing
      BY <2>6 DEF WriteToDisk, Writing
    <3>2. \A q \in Processes \ {p} : at[q] \notin Starting /\ at'[q] = at[q]
      BY <1>a, <2>6, <3>1 DEF WriteToDisk, HasFiles, TypeOK
    <3>3. loaded[p] = signs[p] /\ signs[p] \in CAs
      BY <1>a, <3>1 DEF HoldsPair
    <3> QED
      BY <1>a, <2>6, <3>1, <3>2, <3>3 DEF WriteToDisk, HasFiles, Whole, Writing, Starting, TypeOK
  <2> QED
    BY <1>2, <2>1, <2>2, <2>3, <2>4, <2>5, <2>6 DEF Main
<1>3. ASSUME NEW p \in Processes, Stop(p)
      PROVE  /\ \A q \in Processes : HasFiles(q)'
             /\ (\A q \in Processes : at'[q] \notin Writing \ {"open_cert"}) => Whole'
  BY <1>a, <1>3 DEF Stop, HasFiles, Whole, Writing, Starting, TypeOK
<1>4. ASSUME NEW p \in Processes, WriteFails(p) \/ Crash(p)
      PROVE  /\ \A q \in Processes : HasFiles(q)'
             /\ (\A q \in Processes : at'[q] \notin Writing \ {"open_cert"}) => Whole'
  <2>1. ~Halfway(p) /\ UNCHANGED <<cert, key, loaded, signs>>
    BY <1>4 DEF WriteFails, Crash
  <2>2. PICK place \in {"failed", "stopped"} :
          /\ at' = [at EXCEPT ![p] = place]
          /\ place = "failed" => loaded[p] = signs[p]
    BY <1>a, <1>4 DEF WriteFails, Crash, HoldsPair
  <2>3. \A q \in Processes : HasFiles(q)'
    BY <1>a, <2>1, <2>2 DEF HasFiles, Writing, Starting, TypeOK
  <2>4. ASSUME \A q \in Processes : at'[q] \notin Writing \ {"open_cert"}
        PROVE  Whole'
    <3>1. CASE at[p] \in Writing \ {"open_cert"}
      BY <2>1, <3>1 DEF Halfway, Whole, Writing
    <3>2. CASE at[p] \notin Writing \ {"open_cert"}
      BY <1>a, <2>1, <2>2, <2>4, <3>2 DEF Whole, TypeOK
    <3> QED
      BY <3>1, <3>2
  <2> QED
    BY <2>3, <2>4
<1>5. CASE UNCHANGED vars
  BY <1>a, <1>5 DEF vars, procVars, HasFiles, Whole
<1> QED
  BY <1>1, <1>2, <1>3, <1>4, <1>5 DEF Next

\* A start fails over damage only (ca.go:26-31, 135-140).
THEOREM FailureMeansDamage == Spec => []FailsOnlyOnDamage
<1>1. Init => DamageInv
  BY DEF Init, DamageInv, HasFiles, Whole, Writing, Starting
<1>2. TypeOK /\ PairInv /\ DamageInv /\ [Next]_vars => DamageInv'
  BY NextUndamaged
<1>3. DamageInv => FailsOnlyOnDamage
  BY DEF DamageInv, HasFiles, FailsOnlyOnDamage
<1> QED
  BY <1>1, <1>2, <1>3, PairsAlways, PTL DEF Spec

-----------------------------------------------------------------------------
(* Without faults, what can be loaded has been announced, or its maker is  *)
(* about to announce it.                                                   *)

Known(n) ==
  \/ n \in announced
  \/ \E p \in Processes : at[p] = "announce" /\ loaded[p] = n /\ (flagged[p] \/ missing[p])

KnowsFiles(p) ==
  /\ at[p] = "ask_key" => cert # Absent
  /\ at[p] \in {"stat_cert", "stat_key"} => missing[p] \/ (cert # Absent /\ key # Absent)
  /\ at[p] \in Writing \cup {"generate"} => flagged[p] \/ missing[p]
  /\ at[p] \in {"announce", "serving"} => Known(loaded[p])

AnnounceInv ==
  faults = 0 => /\ key \in CAs => Known(key)
                /\ \A p \in Processes : KnowsFiles(p)

\* Nothing that is known is forgotten without a fault.
LEMMA KnownStays ==
  ASSUME TypeOK, [Next]_vars, faults = 0, faults' = 0, NEW n, Known(n)
  PROVE  Known(n)'
<1> USE DEF Go
<1>1. announced \subseteq announced'
  BY DEF Next, Start, Main, Ask, Announce, Stat, Load, Generate, WriteToDisk, Stop,
         WriteFails, Crash, vars, procVars
<1>2. CASE n \in announced
  BY <1>1, <1>2 DEF Known
<1>3. ASSUME NEW p \in Processes, at[p] = "announce", loaded[p] = n, flagged[p] \/ missing[p]
      PROVE  Known(n)'
  <2>1. ASSUME NEW q \in Processes, Announce(q)
        PROVE  Known(n)'
    BY <1>3, <2>1 DEF Announce, Known, TypeOK
  <2>2. ASSUME NEW q \in Processes, Start(q) \/ Stop(q) \/ Ask(q) \/ Stat(q)
        PROVE  Known(n)'
    BY <1>3, <2>2 DEF Start, Stop, Ask, Stat, Known, TypeOK
  <2>3. ASSUME NEW q \in Processes, Load(q) \/ Generate(q) \/ WriteToDisk(q)
        PROVE  Known(n)'
    BY <1>3, <2>3 DEF Load, Generate, WriteToDisk, Known, TypeOK
  <2>4. ASSUME NEW q \in Processes, WriteFails(q) \/ Crash(q)
        PROVE  FALSE
    BY <2>4 DEF WriteFails, Crash
  <2>5. CASE UNCHANGED vars
    BY <1>3, <2>5 DEF vars, procVars, Known
  <2> QED
    BY <2>1, <2>2, <2>3, <2>4, <2>5 DEF Next, Main
<1> QED
  BY <1>2, <1>3 DEF Known

LEMMA NextAnnounced == TypeOK /\ PairInv /\ AnnounceInv /\ [Next]_vars => AnnounceInv'
<1> SUFFICES ASSUME TypeOK, PairInv, AnnounceInv, [Next]_vars, faults' = 0
             PROVE  /\ key' \in CAs => Known(key)'
                    /\ \A q \in Processes : KnowsFiles(q)'
  BY DEF AnnounceInv
<1> USE DEF Go
<1>0. faults = 0
  BY DEF Next, Start, Main, Ask, Announce, Stat, Load, Generate, WriteToDisk, Stop,
         WriteFails, Crash, vars, procVars, TypeOK
<1>a. /\ key \in CAs => Known(key)
      /\ \A q \in Processes : KnowsFiles(q)
  BY <1>0 DEF AnnounceInv
<1>b. \A n : Known(n) => Known(n)'
  BY <1>0, KnownStays
<1>1. ASSUME NEW p \in Processes, Start(p)
      PROVE  /\ key' \in CAs => Known(key)'
             /\ \A q \in Processes : KnowsFiles(q)'
  BY <1>a, <1>b, <1>1 DEF Start, KnowsFiles, Writing, TypeOK
<1>2. ASSUME NEW p \in Processes, Main(p)
      PROVE  /\ key' \in CAs => Known(key)'
             /\ \A q \in Processes : KnowsFiles(q)'
  <2>1. CASE Ask(p)
    BY <1>a, <1>b, <2>1 DEF Ask, KnowsFiles, Writing, TypeOK
  <2>2. CASE Announce(p)
    BY <1>a, <1>b, <2>2 DEF Announce, KnowsFiles, Writing, TypeOK
  <2>3. CASE Stat(p)
    BY <1>a, <1>b, <2>3 DEF Stat, KnowsFiles, Writing, TypeOK
  <2>4. CASE Load(p)
    BY <1>a, <1>b, <2>4 DEF Load, KnowsFiles, Writing, TypeOK
  <2>5. CASE Generate(p)
    BY <1>a, <1>b, <2>5 DEF Generate, KnowsFiles, Writing, TypeOK
  <2>6. CASE WriteToDisk(p)
    <3>1. /\ at[p] \in Writing /\ loaded[p] = signs[p] /\ signs[p] \in CAs
          /\ flagged[p] \/ missing[p]
      BY <1>a, <2>6 DEF WriteToDisk, KnowsFiles, PairInv, HoldsPair, Writing
    <3>2. cert # Absent => cert' # Absent
      BY <2>6, <3>1, NumbersDiffer DEF WriteToDisk
    <3>3. key # Absent => key' # Absent
      BY <2>6, <3>1, NumbersDiffer DEF WriteToDisk
    <3>4. at'[p] = "announce" => Known(loaded[p])' /\ key' = loaded[p]
      BY <2>6, <3>1 DEF WriteToDisk, Known, TypeOK
    <3>5. key' \in CAs => Known(key)'
      <4>1. key' = key \/ key' = Cut \/ (key' = loaded[p] /\ at'[p] = "announce")
        BY <2>6, <3>1 DEF WriteToDisk, TypeOK
      <4>2. loaded'[p] = loaded[p]
        BY <2>6 DEF WriteToDisk
      <4> QED
        BY <1>a, <1>b, <3>4, <4>1, <4>2, NumbersDiffer DEF Known
    <3>6. ASSUME NEW q \in Processes
          PROVE  KnowsFiles(q)'
      <4>1. /\ UNCHANGED <<flagged, missing, loaded>>
            /\ q # p => at'[q] = at[q]
            /\ q = p => at'[q] \in Writing \cup {"announce"}
        BY <2>6 DEF WriteToDisk, Writing, TypeOK
      <4>2. CASE q = p
        BY <3>1, <3>4, <4>1, <4>2 DEF KnowsFiles, Writing
      <4>3. CASE q # p
        BY <1>a, <1>b, <3>2, <3>3, <4>1, <4>3 DEF KnowsFiles
      <4> QED
        BY <4>2, <4>3
    <3> QED
      BY <3>5, <3>6
  <2> QED
    BY <1>2, <2>1, <2>2, <2>3, <2>4, <2>5, <2>6 DEF Main
<1>3. ASSUME NEW p \in Processes, Stop(p)
      PROVE  /\ key' \in CAs => Known(key)'
             /\ \A q \in Processes : KnowsFiles(q)'
  BY <1>a, <1>b, <1>3 DEF Stop, KnowsFiles, Writing, TypeOK
<1>4. ASSUME NEW p \in Processes, WriteFails(p) \/ Crash(p)
      PROVE  FALSE
  BY <1>0, <1>4 DEF WriteFails, Crash
<1>5. CASE UNCHANGED vars
  BY <1>a, <1>b, <1>5 DEF vars, procVars, KnowsFiles
<1> QED
  BY <1>1, <1>2, <1>3, <1>4, <1>5 DEF Next

\* Without faults no process serves with a CA that nobody announced or is about
\* to announce (main.go:65-83).
THEOREM NothingUnannounced == Spec => []AnnouncedBeforeUse
<1>1. Init => AnnounceInv
  BY NumbersDiffer DEF Init, AnnounceInv, KnowsFiles, Writing
<1>2. TypeOK /\ PairInv /\ AnnounceInv /\ [Next]_vars => AnnounceInv'
  BY NextAnnounced
<1>3. AnnounceInv => AnnouncedBeforeUse
  BY DEF AnnounceInv, KnowsFiles, Known, AnnouncedBeforeUse
<1> QED
  BY <1>1, <1>2, <1>3, PairsAlways, PTL DEF Spec

=============================================================================
