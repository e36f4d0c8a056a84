-------------------------- MODULE AuditTrailProofs --------------------------
(***************************************************************************)
(* Proofs about AuditTrail, for any sessions, capacity, file size and      *)
(* lengths of lines: the ring implements RecentSessions, what was written  *)
(* is kept, in order and in files that are rotated when they are full, what the store holds and the window shows has *)
(* been logged, and the window follows the store.                          *)
(***************************************************************************)
EXTENDS AuditTrail, TLAPS, SequenceTheorems, FiniteSetTheorems

-----------------------------------------------------------------------------
(* The ring's indices.                                                     *)

LEMMA ModLow == ASSUME NEW n \in Nat \ {0}, NEW a \in 0..(n - 1) PROVE a % n = a
  OBVIOUS

LEMMA ModHigh == ASSUME NEW n \in Nat \ {0}, NEW a \in 0..(n - 1) PROVE (a + n) % n = a
  OBVIOUS

\* the index of the i-th newest session, when the next one goes to h
LEMMA IndexIs ==
  ASSUME NEW n \in Nat \ {0}, NEW h \in 0..(n - 1), NEW i \in 1..n
  PROVE  (h - i + n) % n = IF i <= h THEN h - i ELSE h - i + n
<1>1. CASE i <= h
  <2>1. h - i \in 0..(n - 1)
    BY <1>1
  <2>2. ((h - i) + n) % n = h - i
    BY <2>1, ModHigh
  <2> QED
    BY <1>1, <2>2
<1>2. CASE ~(i <= h)
  <2>1. h - i + n \in 0..(n - 1)
    BY <1>2
  <2>2. (h - i + n) % n = h - i + n
    BY <2>1, ModLow
  <2> QED
    BY <1>2, <2>2
<1> QED
  BY <1>1, <1>2

LEMMA NextHeadIs ==
  ASSUME NEW n \in Nat \ {0}, NEW h \in 0..(n - 1)
  PROVE  (h + 1) % n = IF h = n - 1 THEN 0 ELSE h + 1
<1>1. CASE h = n - 1
  <2>1. 0 \in 0..(n - 1) /\ h + 1 = 0 + n
    BY <1>1
  <2>2. (0 + n) % n = 0
    BY <2>1, ModHigh
  <2> QED
    BY <1>1, <2>1, <2>2
<1>2. CASE h # n - 1
  <2>1. h + 1 \in 0..(n - 1)
    BY <1>2
  <2> QED
    BY <1>2, <2>1, ModLow
<1> QED
  BY <1>1, <1>2

\* One session further, the newest is where the head was, and every other one
\* where it was, one place later.
LEMMA IndexMoves ==
  ASSUME NEW n \in Nat \ {0}, NEW h \in 0..(n - 1), NEW i \in 1..n
  PROVE  /\ i = 1 => (((h + 1) % n) - i + n) % n = h
         /\ i # 1 => /\ (((h + 1) % n) - i + n) % n = (h - (i - 1) + n) % n
                     /\ (h - (i - 1) + n) % n # h
         /\ (h - i + n) % n \in 0..(n - 1)
         /\ (h + 1) % n \in 0..(n - 1)
<1>1. (h + 1) % n = (IF h = n - 1 THEN 0 ELSE h + 1) /\ (h + 1) % n \in 0..(n - 1)
  BY NextHeadIs
<1>2. (((h + 1) % n) - i + n) % n =
        IF i <= (h + 1) % n THEN ((h + 1) % n) - i ELSE ((h + 1) % n) - i + n
  BY <1>1, IndexIs
<1>3. (h - i + n) % n = IF i <= h THEN h - i ELSE h - i + n
  BY IndexIs
<1>4. (h - i + n) % n \in 0..(n - 1)
  BY <1>3
<1>5. CASE i = 1
  BY <1>1, <1>2, <1>4, <1>5
<1>6. CASE i # 1
  <2>1. i - 1 \in 1..n
    BY <1>6
  <2>2. (h - (i - 1) + n) % n = IF i - 1 <= h THEN h - (i - 1) ELSE h - (i - 1) + n
    BY <2>1, IndexIs
  <2> QED
    BY <1>1, <1>2, <1>4, <1>6, <2>2
<1> QED
  BY <1>5, <1>6

-----------------------------------------------------------------------------
(* The ring implements the recent sessions.                                *)

LEMMA StoreTyped == StoreTypeOK /\ [Next]_vars => StoreTypeOK'
<1> SUFFICES ASSUME StoreTypeOK, [Next]_vars PROVE StoreTypeOK'
  OBVIOUS
<1>0. Capacity \in Nat \ {0}
  BY StoreAssumption DEF StoreAssumption
<1>1. ASSUME NEW s \in Sessions, StoreLog(s)
      PROVE  StoreTypeOK'
  <2>1. head \in 0..(Capacity - 1) /\ count \in 0..Capacity
    BY DEF StoreTypeOK
  <2>2. (head + 1) % Capacity \in 0..(Capacity - 1)
    BY <1>0, <2>1, NextHeadIs
  <2>3. count' \in 0..Capacity
    BY <1>0, <1>1, <2>1 DEF StoreLog
  <2> QED
    BY <1>1, <2>2, <2>3 DEF StoreLog, StoreTypeOK
<1>2. CASE NewSessionStore
  BY <1>0, <1>2 DEF NewSessionStore, NoSessions, StoreTypeOK
<1>3. CASE UNCHANGED storeVars
  BY <1>3 DEF storeVars, StoreTypeOK
<1> QED
  BY <1>1, <1>2, <1>3
     DEF Next, Handler, CallLogger, CallRotate, CallStore, Notify, Deliver, Mount, Load, ReadRecent,
         ReadStats, SetSessions, SetStats, Quit, Restart, vars

LEMMA FunctionIsSeq ==
  ASSUME NEW S, NEW n \in Nat, NEW f \in [1..n -> S]
  PROVE  f \in Seq(S) /\ Len(f) = n
  OBVIOUS

LEMMA PrefixIs ==
  ASSUME NEW S, NEW seq \in Seq(S), NEW n \in 0..Len(seq)
  PROVE  /\ SubSeq(seq, 1, n) \in Seq(S) /\ Len(SubSeq(seq, 1, n)) = n
         /\ \A i \in 1..n : SubSeq(seq, 1, n)[i] = seq[i]
  OBVIOUS

LEMMA RecentIsSeq ==
  ASSUME StoreTypeOK
  PROVE  /\ Recent(0) = [i \in 1..count |-> slots[(head - i + Capacity) % Capacity]]
         /\ Recent(0) \in Seq(Sessions \cup {Empty})
         /\ Len(Recent(0)) = count
         /\ \A i \in 1..count : Recent(0)[i] = slots[(head - i + Capacity) % Capacity]
<1>0. Capacity \in Nat \ {0} /\ head \in 0..(Capacity - 1) /\ count \in 0..Capacity
  BY StoreAssumption DEF StoreAssumption, StoreTypeOK
<1>1. Recent(0) = [i \in 1..count |-> slots[(head - i + Capacity) % Capacity]]
  BY DEF Recent
<1>2. \A i \in 1..count : (head - i + Capacity) % Capacity \in 0..(Capacity - 1)
  BY <1>0, IndexMoves
<1>3. \A i \in 1..count : slots[(head - i + Capacity) % Capacity] \in Sessions \cup {Empty}
  BY <1>2 DEF StoreTypeOK
<1>4. Recent(0) \in [1..count -> Sessions \cup {Empty}]
  BY <1>1, <1>3, Zenon
<1>5. Recent(0) \in Seq(Sessions \cup {Empty}) /\ Len(Recent(0)) = count
  BY <1>0, <1>4, FunctionIsSeq
<1>6. \A i \in 1..count : Recent(0)[i] = slots[(head - i + Capacity) % Capacity]
  BY <1>1, Zenon
<1> QED
  BY <1>1, <1>5, <1>6

\* A session that is logged comes first, and the others follow it.
LEMMA LogIsLog ==
  ASSUME StoreTypeOK, StoreTypeOK', NEW s \in Sessions, StoreLog(s)
  PROVE  Store!Log(s)
<1> DEFINE old == Recent(0)
           new == Recent(0)'
           all == <<s>> \o old
           m   == Min({Capacity, Len(all)})
<1>0. /\ Capacity \in Nat \ {0} /\ head \in 0..(Capacity - 1) /\ count \in 0..Capacity
      /\ slots' = [slots EXCEPT ![head] = s] /\ head' = (head + 1) % Capacity
      /\ count' = IF count < Capacity THEN count + 1 ELSE count
  BY StoreAssumption DEF StoreAssumption, StoreTypeOK, StoreLog
<1>1. /\ old \in Seq(Sessions \cup {Empty}) /\ Len(old) = count
      /\ \A i \in 1..count : old[i] = slots[(head - i + Capacity) % Capacity]
  BY RecentIsSeq
<1>2. /\ new = [i \in 1..count' |-> slots'[(head' - i + Capacity) % Capacity]]
      /\ new \in Seq(Sessions \cup {Empty}) /\ Len(new) = count'
  <2>1. count' \in 0..Capacity /\ head' \in 0..(Capacity - 1)
        /\ slots' \in [0..(Capacity - 1) -> Sessions \cup {Empty}]
    BY DEF StoreTypeOK
  <2>2. new = [i \in 1..count' |-> slots'[(head' - i + Capacity) % Capacity]]
    BY DEF Recent
  <2>3. \A i \in 1..count' : (head' - i + Capacity) % Capacity \in 0..(Capacity - 1)
    BY <1>0, <2>1, IndexMoves
  <2>4. \A i \in 1..count' : slots'[(head' - i + Capacity) % Capacity] \in Sessions \cup {Empty}
    BY <2>1, <2>3
  <2>5. new \in [1..count' -> Sessions \cup {Empty}]
    BY <2>2, <2>4, Zenon
  <2>6. new \in Seq(Sessions \cup {Empty}) /\ Len(new) = count'
    BY <2>1, <2>5, FunctionIsSeq
  <2> QED
    BY <2>2, <2>6
<1>3. /\ all \in Seq(Sessions \cup {Empty}) /\ Len(all) = count + 1
      /\ all[1] = s /\ \A i \in 2..(count + 1) : all[i] = old[i - 1]
  <2>1. <<s>> \in Seq(Sessions \cup {Empty}) /\ Len(<<s>>) = 1 /\ <<s>>[1] = s
    OBVIOUS
  <2>2. old \in Seq(Sessions \cup {Empty}) /\ Len(old) = count
    BY <1>1
  <2> HIDE DEF old
  <2>3. /\ all \in Seq(Sessions \cup {Empty}) /\ Len(all) = 1 + count
        /\ \A i \in 1..(1 + count) : all[i] = IF i <= 1 THEN <<s>>[i] ELSE old[i - 1]
    BY <2>1, <2>2, ConcatProperties
  <2> HIDE DEF all
  <2>4. 1 \in 1..(1 + count) /\ count \in Nat
    BY <1>0
  <2>5. all[1] = s
    BY <2>1, <2>3, <2>4
  <2>6. ASSUME NEW i \in 2..(count + 1) PROVE all[i] = old[i - 1]
    <3>1. i \in 1..(1 + count) /\ ~(i <= 1)
      BY <2>4
    <3> QED
      BY <2>3, <3>1
  <2>7. Len(all) = count + 1
    BY <2>3, <2>4
  <2> QED
    BY <2>3, <2>5, <2>6, <2>7
<1>4. m = count'
  <2>1. \E x \in {Capacity, count + 1} : \A y \in {Capacity, count + 1} : x <= y
    BY <1>0
  <2>2. m \in {Capacity, count + 1} /\ m <= Capacity /\ m <= count + 1
    BY <1>3, <2>1 DEF Min
  <2> QED
    BY <1>0, <2>2
<1> HIDE DEF old, new, all, m
<1>5. \A i \in 1..count' : new[i] = all[i]
  <2> SUFFICES ASSUME NEW i \in 1..count'
               PROVE  slots'[(head' - i + Capacity) % Capacity] = all[i]
    BY <1>2
  <2>0. i \in 1..Capacity /\ i \in 1..(count + 1)
    BY <1>0
  <2>1. CASE i = 1
    <3>1. (head' - i + Capacity) % Capacity = head
      BY <1>0, <2>0, <2>1, IndexMoves
    <3>2. slots'[head] = s
      BY <1>0 DEF StoreTypeOK
    <3> QED
      BY <1>3, <2>1, <3>1, <3>2
  <2>2. CASE i # 1
    <3>1. /\ (head' - i + Capacity) % Capacity = (head - (i - 1) + Capacity) % Capacity
          /\ (head - (i - 1) + Capacity) % Capacity # head
      BY <1>0, <2>0, <2>2, IndexMoves
    <3>2. i - 1 \in 1..count /\ i - 1 \in 1..Capacity /\ i \in 2..(count + 1)
      BY <1>0, <2>0, <2>2
    <3>3. (head - (i - 1) + Capacity) % Capacity \in 0..(Capacity - 1)
      BY <1>0, <3>2, IndexMoves
    <3>4. slots'[(head - (i - 1) + Capacity) % Capacity] = slots[(head - (i - 1) + Capacity) % Capacity]
      BY <1>0, <3>1, <3>3 DEF StoreTypeOK
    <3>5. all[i] = slots[(head - (i - 1) + Capacity) % Capacity]
      BY <1>1, <1>3, <3>2
    <3> QED
      BY <3>1, <3>4, <3>5
  <2> QED
    BY <2>1, <2>2
<1>6. new = SubSeq(all, 1, m)
  <2>1. /\ SubSeq(all, 1, m) \in Seq(Sessions \cup {Empty})
        /\ Len(SubSeq(all, 1, m)) = count'
        /\ \A i \in 1..count' : SubSeq(all, 1, m)[i] = all[i]
    <3>1. m \in 0..Len(all)
      BY <1>0, <1>3, <1>4
    <3> QED
      BY <1>3, <1>4, <3>1, PrefixIs
  <2> QED
    BY <1>2, <1>5, <2>1
<1>7. m = Store!Min({Capacity, Len(all)})
  BY DEF m, Min, Store!Min
<1> QED
  BY <1>6, <1>7 DEF new, all, old, Store!Log, Store!Newest

\* The steps of the composition, as the ring sees them.
LEMMA StoreSteps ==
  ASSUME [Next]_vars
  PROVE  \/ \E s \in Sessions : CallStore(s)
         \/ Restart
         \/ UNCHANGED storeVars
  BY DEF Next, Handler, CallLogger, CallRotate, Notify, Deliver, Mount, Load, ReadRecent,
         ReadStats, SetSessions, SetStats, Quit, vars

\* The ring buffer holds the last Capacity sessions, newest first, whatever
\* the index arithmetic does at its wrap (store.go:50-73, 89-94).
THEOREM RingImplementsRecent == Spec => RingIsRecent
<1>1. Init => StoreTypeOK
  BY StoreAssumption DEF Init, StoreInit, StoreTypeOK, NoSessions, StoreAssumption
<1>2. StoreTypeOK /\ [Next]_vars => StoreTypeOK'
  BY StoreTyped
<1>3. Init => Store!Init
  <2> SUFFICES ASSUME Init PROVE Recent(0) = <<>>
    BY DEF Store!Init
  <2>1. count = 0 /\ Recent(0) \in Seq(Sessions \cup {Empty}) /\ Len(Recent(0)) = count
    BY <1>1, RecentIsSeq DEF Init, StoreInit
  <2> HIDE DEF Recent
  <2> QED
    BY <2>1
<1>4. StoreTypeOK /\ StoreTypeOK' /\ [Next]_vars => [Store!Next]_(Recent(0))
  <2> SUFFICES ASSUME StoreTypeOK, StoreTypeOK', [Next]_vars
               PROVE  Store!Next \/ UNCHANGED Recent(0)
    OBVIOUS
  <2>1. ASSUME NEW s \in Sessions, CallStore(s)
        PROVE  Store!Next
    BY <2>1, LogIsLog DEF CallStore, Store!Next
  <2>2. CASE Restart
    <3>1. count' = 0
      BY <2>2 DEF Restart, NewSessionStore
    <3>2. Recent(0)' = <<>>
      BY <3>1 DEF Recent
    <3> QED
      BY <3>2 DEF Store!Next, Store!Forget
  <2>3. CASE UNCHANGED storeVars
    BY <2>3 DEF storeVars, Recent
  <2> QED
    BY <2>1, <2>2, <2>3, StoreSteps
<1> QED
  BY <1>1, <1>2, <1>3, <1>4, PTL DEF Spec, RingIsRecent, Store!Spec

-----------------------------------------------------------------------------
(* What is held has been logged.                                           *)

\* where a session is that the log file has seen, or the ring
Passed == {"rotate", "store", "notify", "done"}
InRing == {"notify", "done"}

LogTyped ==
  /\ faults \in Nat
  /\ written \in Seq(Int)
  /\ at \in [Sessions -> {"logger", "gone"} \cup Passed]

\* a log that is closed has been closed by main, on its way out
LogInv ==
  /\ writer = "closed" => quit
  /\ faults = 0 /\ ~quit => \A s \in Sessions : at[s] \in Passed => s \in ToSet(written)
  /\ \A i \in 1..count :
       LET s == slots[(head - i + Capacity) % Capacity]
       IN  s \in Sessions /\ at[s] \in InRing

LEMMA AppendSet ==
  ASSUME NEW seq \in Seq(Int), NEW x \in Int
  PROVE  Append(seq, x) \in Seq(Int) /\ ToSet(Append(seq, x)) = ToSet(seq) \cup {x}
<1>1. /\ Append(seq, x) \in Seq(Int) /\ Len(Append(seq, x)) = Len(seq) + 1 /\ Len(seq) \in Nat
      /\ DOMAIN seq = 1..Len(seq) /\ DOMAIN Append(seq, x) = 1..(Len(seq) + 1)
      /\ \A i \in 1..Len(seq) : Append(seq, x)[i] = seq[i]
      /\ Append(seq, x)[Len(seq) + 1] = x
  OBVIOUS
<1>2. ASSUME NEW y \in ToSet(Append(seq, x))
      PROVE  y \in ToSet(seq) \cup {x}
  <2>1. PICK i \in 1..(Len(seq) + 1) : y = Append(seq, x)[i]
    BY <1>1, <1>2 DEF ToSet
  <2>2. i \in 1..Len(seq) \/ i = Len(seq) + 1
    BY <1>1
  <2> QED
    BY <1>1, <2>1, <2>2 DEF ToSet
<1>3. ASSUME NEW y \in ToSet(seq) \cup {x}
      PROVE  y \in ToSet(Append(seq, x))
  <2>1. CASE y = x
    <3>1. Len(seq) + 1 \in 1..(Len(seq) + 1)
      BY <1>1
    <3> QED
      BY <1>1, <2>1, <3>1 DEF ToSet
  <2>2. CASE y \in ToSet(seq)
    <3>1. PICK i \in 1..Len(seq) : y = seq[i]
      BY <1>1, <2>2 DEF ToSet
    <3>2. i \in 1..(Len(seq) + 1)
      BY <1>1
    <3> QED
      BY <1>1, <3>1, <3>2 DEF ToSet
  <2> QED
    BY <1>3, <2>1, <2>2
<1> QED
  BY <1>1, <1>2, <1>3

LEMMA SinkFacts == Sinks[1] = "logger" /\ Following("logger") = "store" /\ Following("store") = "done"
  BY DEF Sinks, Following

\* The logger has written the session, or has failed, or was closed.
LEMMA LoggerKeeps ==
  ASSUME LogTyped, LogInv, NEW s \in Sessions, CallLogger(s)
  PROVE  LogTyped' /\ LogInv'
<1>1. PICK ok \in BOOLEAN :
        /\ faults' = faults + (IF ok THEN 0 ELSE 1)
        /\ written' = IF ok /\ writer # "closed" THEN Append(written, s) ELSE written
  BY DEF CallLogger, Log, Fail
<1>2. /\ at[s] = "logger" /\ UNCHANGED <<writer, slots, head, count, quit>>
      /\ \E next \in {"rotate", "store"} : at' = [at EXCEPT ![s] = next]
  BY SinkFacts DEF CallLogger, Enter, Log, storeVars, endVars
<1>3. s \in Int
  BY StoreAssumption DEF StoreAssumption
<1>4. written' \in Seq(Int) /\ ToSet(written) \subseteq ToSet(written')
      /\ (ok /\ writer # "closed" => s \in ToSet(written'))
  BY <1>1, <1>3, AppendSet DEF LogTyped
<1>5. faults' \in Nat /\ (faults' = 0 => faults = 0 /\ ok)
  BY <1>1 DEF LogTyped
<1>6. LogTyped'
  BY <1>2, <1>4, <1>5 DEF LogTyped, Passed
<1>7. ASSUME faults' = 0, ~quit', NEW r \in Sessions, at'[r] \in Passed
      PROVE  r \in ToSet(written')
  BY <1>2, <1>4, <1>5, <1>7 DEF LogInv, LogTyped
<1>8. \A r \in Sessions : at[r] \in InRing => at'[r] \in InRing
  BY <1>2 DEF LogTyped, InRing
<1> QED
  BY <1>2, <1>6, <1>7, <1>8 DEF LogInv

\* No failure is counted as none.
LEMMA FailuresCounted ==
  ASSUME NEW renamed \in BOOLEAN, NEW opened \in BOOLEAN
  PROVE  LET failed == {x \in {"rename", "open"} :
                          (x = "rename" /\ ~renamed) \/ (x = "open" /\ ~opened)}
         IN  Cardinality(failed) \in Nat /\ (Cardinality(failed) = 0 => renamed /\ opened)
<1> DEFINE failed == {x \in {"rename", "open"} :
                        (x = "rename" /\ ~renamed) \/ (x = "open" /\ ~opened)}
<1>1. IsFiniteSet({"rename", "open"})
  <2>1. IsFiniteSet({} \cup {"rename"})
    BY FS_EmptySet, FS_AddElement
  <2>2. IsFiniteSet(({} \cup {"rename"}) \cup {"open"})
    BY <2>1, FS_AddElement
  <2>3. ({} \cup {"rename"}) \cup {"open"} = {"rename", "open"}
    OBVIOUS
  <2> QED
    BY <2>2, <2>3
<1>2. IsFiniteSet(failed)
  BY <1>1, FS_Subset
<1>3. Cardinality(failed) \in Nat /\ (Cardinality(failed) = 0 <=> failed = {})
  BY <1>2, FS_CardinalityType, FS_EmptySet
<1>4. failed = {} => renamed /\ opened
  OBVIOUS
<1> HIDE DEF failed
<1>5. Cardinality(failed) \in Nat /\ (Cardinality(failed) = 0 => renamed /\ opened)
  BY <1>3, <1>4
<1> QED
  BY <1>5 DEF failed

LEMMA RotateKeeps ==
  ASSUME LogTyped, LogInv, NEW s \in Sessions, CallRotate(s)
  PROVE  LogTyped' /\ LogInv'
<1>1. PICK renamed, opened \in BOOLEAN :
        /\ faults' = faults + Cardinality({x \in {"rename", "open"} :
                              (x = "rename" /\ ~renamed) \/ (x = "open" /\ ~opened)})
        /\ writer' \in {"file", "stdout"}
  BY DEF CallRotate, Rotate, Fail
<1>2. faults' \in Nat /\ (faults' = 0 => faults = 0)
  BY <1>1, FailuresCounted DEF LogTyped
<1>3. /\ at[s] = "rotate" /\ at' = [at EXCEPT ![s] = "store"]
      /\ UNCHANGED <<written, slots, head, count, quit>>
  BY SinkFacts DEF CallRotate, Rotate, storeVars, endVars
<1>4. /\ at' \in [Sessions -> {"logger", "gone"} \cup Passed]
      /\ \A r \in Sessions : /\ at'[r] \in Passed => at[r] \in Passed
                             /\ at[r] \in InRing => at'[r] \in InRing
  BY <1>3 DEF LogTyped, Passed, InRing
<1> QED
  BY <1>1, <1>2, <1>3, <1>4 DEF LogTyped, LogInv

LEMMA StoreKeeps ==
  ASSUME StoreTypeOK, LogTyped, LogInv, NEW s \in Sessions, CallStore(s)
  PROVE  LogTyped' /\ LogInv'
<1>1. /\ at[s] = "store" /\ at' = [at EXCEPT ![s] = "notify"]
      /\ UNCHANGED <<writer, faults, written, quit>>
      /\ slots' = [slots EXCEPT ![head] = s] /\ head' = (head + 1) % Capacity
      /\ count' = IF count < Capacity THEN count + 1 ELSE count
  BY DEF CallStore, StoreLog, Enter, logVars, endVars
<1>2. /\ at' \in [Sessions -> {"logger", "gone"} \cup Passed]
      /\ at'[s] \in InRing
      /\ \A r \in Sessions : /\ at'[r] \in Passed => at[r] \in Passed
                             /\ at[r] \in InRing => at'[r] \in InRing
  BY <1>1 DEF LogTyped, Passed, InRing
<1>3. Capacity \in Nat \ {0} /\ head \in 0..(Capacity - 1) /\ count \in 0..Capacity
  BY StoreAssumption DEF StoreAssumption, StoreTypeOK
<1>4. ASSUME NEW i \in 1..count'
      PROVE  slots'[(head' - i + Capacity) % Capacity] \in Sessions
             /\ at'[slots'[(head' - i + Capacity) % Capacity]] \in InRing
  <2>0. i \in 1..Capacity /\ i \in 1..(count + 1)
    BY <1>1, <1>3
  <2>1. CASE i = 1
    <3>1. (head' - i + Capacity) % Capacity = head
      BY <1>1, <1>3, <2>0, <2>1, IndexMoves
    <3>2. slots'[head] = s
      BY <1>1, <1>3 DEF StoreTypeOK
    <3> QED
      BY <1>2, <3>1, <3>2
  <2>2. CASE i # 1
    <3>1. /\ (head' - i + Capacity) % Capacity = (head - (i - 1) + Capacity) % Capacity
          /\ (head - (i - 1) + Capacity) % Capacity # head
      BY <1>1, <1>3, <2>0, <2>2, IndexMoves
    <3>2. i - 1 \in 1..count /\ i - 1 \in 1..Capacity
      BY <1>3, <2>0, <2>2
    <3>3. (head - (i - 1) + Capacity) % Capacity \in 0..(Capacity - 1)
      BY <1>3, <3>2, IndexMoves
    <3>4. slots'[(head - (i - 1) + Capacity) % Capacity] = slots[(head - (i - 1) + Capacity) % Capacity]
      BY <1>1, <3>1, <3>3 DEF StoreTypeOK
    <3>5. /\ slots[(head - (i - 1) + Capacity) % Capacity] \in Sessions
          /\ at[slots[(head - (i - 1) + Capacity) % Capacity]] \in InRing
      BY <3>2, Zenon DEF LogInv
    <3> QED
      BY <1>2, <3>1, <3>4, <3>5
  <2> QED
    BY <2>1, <2>2
<1>5. LogTyped'
  BY <1>1, <1>2 DEF LogTyped
<1>6. /\ writer' = "closed" => quit'
      /\ faults' = 0 /\ ~quit' => \A r \in Sessions : at'[r] \in Passed => r \in ToSet(written')
  BY <1>1, <1>2 DEF LogInv
<1> QED
  BY <1>4, <1>5, <1>6 DEF LogInv

LEMMA NextKeepsLog ==
  StoreTypeOK /\ LogTyped /\ LogInv /\ [Next]_vars => LogTyped' /\ LogInv'
<1> SUFFICES ASSUME StoreTypeOK, LogTyped, LogInv, [Next]_vars
             PROVE  LogTyped' /\ LogInv'
  OBVIOUS
<1>1. ASSUME NEW s \in Sessions, Notify(s)
      PROVE  LogTyped' /\ LogInv'
  <2>1. /\ at[s] = "notify" /\ at' = [at EXCEPT ![s] = "done"]
        /\ UNCHANGED <<writer, faults, written, slots, head, count, quit>>
    BY <1>1, SinkFacts DEF Notify, logVars, storeVars, endVars
  <2>2. /\ at' \in [Sessions -> {"logger", "gone"} \cup Passed]
        /\ \A r \in Sessions : /\ at'[r] \in Passed => at[r] \in Passed
                               /\ at[r] \in InRing => at'[r] \in InRing
    BY <2>1 DEF LogTyped, Passed, InRing
  <2> QED
    BY <2>1, <2>2 DEF LogTyped, LogInv
<1>2. ASSUME \/ \E s \in Sessions : Deliver(s)
             \/ Mount \/ Load
             \/ Tick /\ UNCHANGED <<storeVars, at, events, windowVars, endVars, overlap>>
             \/ UNCHANGED vars
      PROVE  LogTyped' /\ LogInv'
  <2>1. UNCHANGED <<writer, faults, written, slots, head, count, quit, at>>
    BY <1>2 DEF Deliver, Mount, Load, ReadRecent, ReadStats, SetSessions, SetStats, Tick, vars,
                logVars, storeVars, endVars
  <2> QED
    BY <2>1 DEF LogTyped, LogInv
<1>3. CASE Quit
  <2>1. /\ quit' = TRUE
        /\ UNCHANGED <<faults, written, slots, head, count, at>>
    BY <1>3 DEF Quit, Close, storeVars
  <2> QED
    BY <2>1 DEF LogTyped, LogInv
<1>4. CASE Restart
  <2>1. /\ \A s \in Sessions : at'[s] \in {"logger", "gone"}
        /\ at' = [s \in Sessions |-> at'[s]]
        /\ writer' = "file" /\ count' = 0 /\ UNCHANGED <<faults, written>>
    BY <1>4, SinkFacts DEF Restart, NewLogger, NewSessionStore
  <2>2. \A s \in Sessions : at'[s] \notin Passed
    BY <2>1 DEF Passed
  <2>3. at' \in [Sessions -> {"logger", "gone"} \cup Passed]
    BY <2>1
  <2> QED
    BY <2>1, <2>2, <2>3 DEF LogTyped, LogInv
<1> QED
  BY <1>1, <1>2, <1>3, <1>4, LoggerKeeps, RotateKeeps, StoreKeeps DEF Next, Handler

LEMMA InitLog == Init => StoreTypeOK /\ LogTyped /\ LogInv
<1> SUFFICES ASSUME Init PROVE StoreTypeOK /\ LogTyped /\ LogInv
  OBVIOUS
<1>1. StoreTypeOK
  BY StoreAssumption DEF Init, StoreInit, StoreTypeOK, NoSessions, StoreAssumption
<1>2. written \in Seq(Int)
  <2>1. PICK n \in 0..MaxOld : file = [i \in 1..n |-> i - n] /\ written = file
    BY DEF Init, LogInit
  <2>2. n \in Nat /\ [i \in 1..n |-> i - n] \in [1..n -> Int]
    BY LogAssumption DEF LogAssumption
  <2> QED
    BY <2>1, <2>2, FunctionIsSeq
<1>3. faults = 0 /\ writer = "file" /\ count = 0 /\ at = [s \in Sessions |-> "logger"]
  BY SinkFacts DEF Init, LogInit, StoreInit
<1> QED
  BY <1>1, <1>2, <1>3 DEF LogTyped, LogInv, Passed

-----------------------------------------------------------------------------
(* The files are bounded.                                                  *)

\* a sequence of sessions with a line each
IsFile(f) == f \in Seq(Int) /\ \A i \in 1..Len(f) : f[i] \in DOMAIN LineSize

LEMMA ByteIs ==
  ASSUME NEW f, NEW b
  PROVE  b \in Bytes(f) <=> \E i \in DOMAIN f : b \in {i} \X (1..LineSize[f[i]])
  BY DEF Bytes

LEMMA BytesFinite ==
  ASSUME NEW f, IsFile(f)
  PROVE  IsFiniteSet(Bytes(f)) /\ FileSize(f) \in Nat
<1> DEFINE Line(i) == {i} \X (1..LineSize[f[i]])
           Lines == {Line(i) : i \in DOMAIN f}
           line == [i \in DOMAIN f |-> Line(i)]
<1>1. DOMAIN f = 1..Len(f) /\ Len(f) \in Nat
  BY DEF IsFile
<1>2. IsFiniteSet(DOMAIN f)
  BY <1>1, FS_Interval
<1>3. line \in Surjection(DOMAIN f, Lines)
  BY DEF Surjection
<1>4. IsFiniteSet(Lines)
  BY <1>2, <1>3, FS_Surjection
<1>5. ASSUME NEW i \in DOMAIN f PROVE IsFiniteSet(Line(i))
  <2>1. LineSize[f[i]] \in Int
    BY <1>1, LogAssumption DEF LogAssumption, IsFile
  <2>2. IsFiniteSet(1..LineSize[f[i]])
    BY <2>1, FS_Interval
  <2>3. IsFiniteSet({i})
    BY FS_Singleton, Zenon
  <2> QED
    BY <2>2, <2>3, FS_Product
<1>6. \A L \in Lines : IsFiniteSet(L)
  BY <1>5
<1>7. Bytes(f) = UNION Lines
  BY DEF Bytes
<1> HIDE DEF Lines
<1>8. IsFiniteSet(Bytes(f))
  BY <1>4, <1>6, <1>7, FS_UNION
<1> QED
  BY <1>8, FS_CardinalityType DEF FileSize

\* A file is no smaller than its first lines.
LEMMA PrefixFits ==
  ASSUME NEW f, IsFile(f), NEW g, IsFile(g), Len(g) <= Len(f),
         \A i \in 1..Len(g) : g[i] = f[i]
  PROVE  FileSize(g) <= FileSize(f)
<1>1. /\ DOMAIN f = 1..Len(f) /\ Len(f) \in Nat
      /\ DOMAIN g = 1..Len(g) /\ Len(g) \in Nat
  BY DEF IsFile
<1>2. Bytes(g) \subseteq Bytes(f)
  <2>1. ASSUME NEW b \in Bytes(g) PROVE b \in Bytes(f)
    <3>1. PICK i \in DOMAIN g : b \in {i} \X (1..LineSize[g[i]])
      BY DEF Bytes
    <3>2. i \in DOMAIN f /\ g[i] = f[i]
      BY <1>1
    <3> QED
      BY <3>1, <3>2 DEF Bytes
  <2> QED
    BY <2>1
<1> QED
  BY <1>2, BytesFinite, FS_Subset DEF FileSize

\* A line adds its length.
LEMMA LineAdds ==
  ASSUME NEW f, IsFile(f), NEW s \in Int, s \in DOMAIN LineSize
  PROVE  IsFile(Append(f, s)) /\ FileSize(Append(f, s)) = FileSize(f) + LineSize[s]
<1> DEFINE n == Len(f) + 1
           line == {n} \X (1..LineSize[s])
<1>1. /\ DOMAIN f = 1..Len(f) /\ Len(f) \in Nat /\ f \in Seq(Int)
      /\ \A i \in 1..Len(f) : f[i] \in DOMAIN LineSize
      /\ LineSize[s] \in Nat
  BY LogAssumption DEF IsFile, LogAssumption
<1>2. /\ Append(f, s) \in Seq(Int) /\ Len(Append(f, s)) = n /\ DOMAIN Append(f, s) = 1..n
      /\ \A i \in 1..Len(f) : Append(f, s)[i] = f[i]
      /\ Append(f, s)[n] = s
  BY <1>1
<1>3. IsFile(Append(f, s))
  BY <1>1, <1>2 DEF IsFile
<1>4. Bytes(Append(f, s)) = Bytes(f) \cup line
  <2>1. \A i \in 1..n : i \in 1..Len(f) \/ i = n
    BY <1>1
  <2>2. n \in 1..n /\ 1..Len(f) \subseteq 1..n
    BY <1>1
  <2>3. ASSUME NEW b \in Bytes(Append(f, s)) PROVE b \in Bytes(f) \cup line
    <3>1. PICK i \in 1..n : b \in {i} \X (1..LineSize[Append(f, s)[i]])
      BY <1>2, ByteIs
    <3>2. CASE i = n
      BY <1>2, <3>1, <3>2
    <3>3. CASE i \in 1..Len(f)
      BY <1>1, <1>2, <3>1, <3>3, ByteIs
    <3> QED
      BY <2>1, <3>2, <3>3
  <2>4. ASSUME NEW b \in Bytes(f) PROVE b \in Bytes(Append(f, s))
    <3>1. PICK i \in 1..Len(f) : b \in {i} \X (1..LineSize[f[i]])
      BY <1>1, ByteIs
    <3>2. i \in DOMAIN Append(f, s) /\ Append(f, s)[i] = f[i]
      BY <1>2, <2>2
    <3>3. b \in {i} \X (1..LineSize[Append(f, s)[i]])
      BY <3>1, <3>2
    <3> QED
      BY <3>2, <3>3, ByteIs
  <2>5. ASSUME NEW b \in line PROVE b \in Bytes(Append(f, s))
    <3>1. n \in DOMAIN Append(f, s) /\ b \in {n} \X (1..LineSize[Append(f, s)[n]])
      BY <1>2, <2>2, <2>5
    <3> QED
      BY <3>1, ByteIs
  <2> HIDE DEF line
  <2> QED
    BY <2>3, <2>4, <2>5
<1>5. Bytes(f) \cap line = {}
  <2>1. n \notin DOMAIN f
    BY <1>1
  <2>2. ASSUME NEW b \in Bytes(f) PROVE b \notin line
    <3>1. PICK i \in DOMAIN f : b \in {i} \X (1..LineSize[f[i]])
      BY ByteIs
    <3>2. i # n /\ b[1] = i
      BY <2>1, <3>1
    <3> QED
      BY <3>2
  <2> QED
    BY <2>2
<1>6. IsFiniteSet(line) /\ Cardinality(line) = LineSize[s]
  <2>1. IsFiniteSet({n}) /\ Cardinality({n}) = 1
    BY FS_Singleton
  <2>2. IsFiniteSet(1..LineSize[s]) /\ Cardinality(1..LineSize[s]) = LineSize[s]
    BY <1>1, FS_Interval
  <2>3. IsFiniteSet(line) /\ Cardinality(line) = 1 * LineSize[s]
    BY <2>1, <2>2, FS_Product
  <2> QED
    BY <1>1, <2>3
<1> HIDE DEF line
<1>7. Cardinality(Bytes(f) \cup line) = Cardinality(Bytes(f)) + LineSize[s] - Cardinality({})
  BY <1>5, <1>6, BytesFinite, FS_Union
<1>8. Cardinality(Bytes(f)) \in Nat /\ Cardinality({}) = 0
  BY BytesFinite, FS_EmptySet DEF FileSize
<1> QED
  BY <1>1, <1>3, <1>4, <1>7, <1>8 DEF FileSize

LEMMA AllButIs ==
  ASSUME NEW f, IsFile(f), NEW n \in Nat
  PROVE  /\ IsFile(AllBut(n, f))
         /\ Len(AllBut(n, f)) = IF n < Len(f) THEN Len(f) - n ELSE 0
         /\ \A i \in 1..Len(AllBut(n, f)) : AllBut(n, f)[i] = f[i]
<1>1. Len(f) \in Nat /\ f \in Seq(Int) /\ \A i \in 1..Len(f) : f[i] \in DOMAIN LineSize
  BY DEF IsFile
<1>2. \A i \in 1..(Len(f) - n) : f[i] \in Int
  BY <1>1
<1>3. /\ AllBut(n, f) \in Seq(Int)
      /\ Len(AllBut(n, f)) = IF 1 <= Len(f) - n THEN Len(f) - n - 1 + 1 ELSE 0
      /\ \A i \in 1..(Len(f) - n - 1 + 1) : AllBut(n, f)[i] = f[1 + i - 1]
  BY <1>1, <1>2, SubSeqProperties DEF AllBut
<1>4. Len(AllBut(n, f)) = IF n < Len(f) THEN Len(f) - n ELSE 0
  BY <1>1, <1>3
<1>5. ASSUME NEW i \in 1..Len(AllBut(n, f))
      PROVE  AllBut(n, f)[i] = f[i] /\ f[i] \in DOMAIN LineSize
  BY <1>1, <1>3, <1>4
<1> QED
  BY <1>3, <1>4, <1>5 DEF IsFile

\* The fewer lines are left, the less they need; a line that is appended and
\* dropped again makes no difference.
LEMMA AllButShrinks ==
  ASSUME NEW f, IsFile(f), NEW m \in Nat, NEW n \in Nat, m <= n
  PROVE  /\ FileSize(AllBut(n, f)) \in Nat /\ FileSize(AllBut(m, f)) \in Nat
         /\ FileSize(AllBut(n, f)) <= FileSize(AllBut(m, f))
         /\ FileSize(AllBut(n, f)) <= FileSize(f)
<1>1. /\ IsFile(AllBut(m, f)) /\ IsFile(AllBut(n, f)) /\ Len(f) \in Nat
      /\ Len(AllBut(n, f)) <= Len(AllBut(m, f)) /\ Len(AllBut(n, f)) <= Len(f)
      /\ \A i \in 1..Len(AllBut(n, f)) :
           AllBut(n, f)[i] = f[i] /\ AllBut(n, f)[i] = AllBut(m, f)[i]
  <2>1. Len(f) \in Nat
    BY DEF IsFile
  <2>2. Len(AllBut(n, f)) <= Len(AllBut(m, f)) /\ Len(AllBut(n, f)) <= Len(f)
    BY <2>1, AllButIs
  <2>3. 1..Len(AllBut(n, f)) \subseteq 1..Len(AllBut(m, f))
    BY <2>1, <2>2, AllButIs
  <2> QED
    BY <2>1, <2>2, <2>3, AllButIs
<1>2. /\ FileSize(AllBut(n, f)) <= FileSize(AllBut(m, f))
      /\ FileSize(AllBut(n, f)) <= FileSize(f)
  BY <1>1, PrefixFits
<1> QED
  BY <1>1, <1>2, BytesFinite

LEMMA AppendAndDrop ==
  ASSUME NEW f, IsFile(f), NEW s \in Int, s \in DOMAIN LineSize, NEW n \in Nat
  PROVE  FileSize(AllBut(1 + n, Append(f, s))) <= FileSize(AllBut(n, f))
<1> DEFINE g == Append(f, s)
           m == 1 + n
<1>1. /\ IsFile(g) /\ Len(f) \in Nat /\ Len(g) = Len(f) + 1
      /\ \A i \in 1..Len(f) : g[i] = f[i]
  BY LineAdds DEF IsFile
<1>2. m \in Nat
  OBVIOUS
<1>3. Len(f) - n = Len(g) - m /\ (n < Len(f) <=> m < Len(g))
  BY <1>1
<1> HIDE DEF g, m
<1>4. /\ IsFile(AllBut(m, g))
      /\ Len(AllBut(m, g)) = IF m < Len(g) THEN Len(g) - m ELSE 0
      /\ \A i \in 1..Len(AllBut(m, g)) : AllBut(m, g)[i] = g[i]
  BY <1>1, <1>2, AllButIs
<1>5. /\ IsFile(AllBut(n, f))
      /\ Len(AllBut(n, f)) = IF n < Len(f) THEN Len(f) - n ELSE 0
      /\ \A i \in 1..Len(AllBut(n, f)) : AllBut(n, f)[i] = f[i]
  BY AllButIs
<1>6. Len(AllBut(m, g)) = Len(AllBut(n, f)) /\ Len(AllBut(n, f)) \in Nat /\ Len(AllBut(n, f)) <= Len(f)
  BY <1>1, <1>3, <1>4, <1>5
<1>7. ASSUME NEW i \in 1..Len(AllBut(m, g))
      PROVE  AllBut(m, g)[i] = AllBut(n, f)[i]
  <2>1. i \in 1..Len(AllBut(n, f)) /\ i \in 1..Len(f)
    BY <1>1, <1>6
  <2> QED
    BY <1>1, <1>4, <1>5, <2>1
<1>8. FileSize(AllBut(m, g)) <= FileSize(AllBut(n, f))
  BY <1>4, <1>5, <1>6, <1>7, PrefixFits
<1> QED
  BY <1>8 DEF g, m

LEMMA NothingFits == IsFile(<<>>) /\ FileSize(<<>>) = 0
<1>1. IsFile(<<>>)
  BY DEF IsFile
<1>2. Bytes(<<>>) = {}
  <2>1. DOMAIN <<>> = {}
    OBVIOUS
  <2> QED
    BY <2>1, Zenon DEF Bytes
<1> QED
  BY <1>1, <1>2, FS_EmptySet DEF FileSize

SizeTyped ==
  /\ faults \in Nat /\ cut \in Nat /\ size \in Nat
  /\ file \in Seq(Int) /\ IsFile(file)
  /\ \A t \in DOMAIN rotated : rotated[t] \in Seq(Int) /\ IsFile(rotated[t])

\* the size that Log counts is never below the file's, and the file is full
\* only while its rotation is due, but for what the crashes let in
SizeInv ==
  faults = 0 =>
    /\ writer # "stdout"
    /\ FileSize(file) <= size
    /\ FileSize(AllBut(1 + cut, file)) < MaxSize
    /\ ~rotating => FileSize(AllBut(cut, file)) < MaxSize
    /\ \A t \in DOMAIN rotated : FileSize(AllBut(1 + cut, rotated[t])) < MaxSize

LEMMA LogKeepsSize ==
  ASSUME SizeTyped, SizeInv, NEW s \in Sessions, Log(s)
  PROVE  SizeTyped' /\ SizeInv'
<1>1. PICK ok \in BOOLEAN :
        /\ faults' = faults + (IF ok THEN 0 ELSE 1)
        /\ file' = IF ok /\ writer # "closed" /\ writer = "file" THEN Append(file, s) ELSE file
  BY DEF Log, Fail
<1>2. /\ ~rotating /\ size' = size + LineSize[s]
      /\ rotating' = (writer # "stdout" /\ size' >= MaxSize)
      /\ UNCHANGED <<writer, rotated, cut>>
  BY DEF Log
<1>3. s \in Int /\ s \in DOMAIN LineSize /\ LineSize[s] \in Nat /\ MaxSize \in Nat
  BY StoreAssumption, LogAssumption, TrailAssumption
     DEF StoreAssumption, LogAssumption, TrailAssumption
<1>4. faults \in Nat /\ cut \in Nat /\ size \in Nat /\ IsFile(file) /\ FileSize(file) \in Nat
  BY BytesFinite DEF SizeTyped
<1>5. faults' \in Nat /\ (faults' = 0 => faults = 0)
  BY <1>1, <1>4
<1>6. file' = file \/ file' = Append(file, s)
  BY <1>1
<1>7. /\ IsFile(file')
      /\ FileSize(file') \in {FileSize(file), FileSize(file) + LineSize[s]}
      /\ FileSize(AllBut(1 + cut, file')) <= FileSize(AllBut(cut, file))
      /\ FileSize(AllBut(cut, file')) <= FileSize(file')
  <2>1. IsFile(file') /\ FileSize(file') \in {FileSize(file), FileSize(file) + LineSize[s]}
    BY <1>3, <1>4, <1>6, LineAdds
  <2>2. FileSize(AllBut(1 + cut, file')) <= FileSize(AllBut(cut, file))
    <3>1. CASE file' = file
      BY <1>4, <3>1, AllButShrinks
    <3>2. CASE file' = Append(file, s)
      BY <1>3, <1>4, <3>2, AppendAndDrop
    <3> QED
      BY <1>6, <3>1, <3>2
  <2>3. FileSize(AllBut(cut, file')) <= FileSize(file')
    BY <1>4, <2>1, AllButShrinks
  <2> QED
    BY <2>1, <2>2, <2>3
<1>8. SizeTyped'
  BY <1>2, <1>3, <1>4, <1>5, <1>7 DEF SizeTyped, IsFile
<1>9. ASSUME faults' = 0
      PROVE  /\ writer' # "stdout"
             /\ FileSize(file') <= size'
             /\ FileSize(AllBut(1 + cut', file')) < MaxSize
             /\ ~rotating' => FileSize(AllBut(cut', file')) < MaxSize
             /\ \A t \in DOMAIN rotated' : FileSize(AllBut(1 + cut', rotated'[t])) < MaxSize
  <2>1. /\ writer # "stdout" /\ FileSize(file) <= size /\ FileSize(AllBut(cut, file)) < MaxSize
        /\ \A t \in DOMAIN rotated : FileSize(AllBut(1 + cut, rotated[t])) < MaxSize
    BY <1>2, <1>5, <1>9 DEF SizeInv
  <2>2. /\ FileSize(AllBut(cut, file)) \in Nat /\ FileSize(AllBut(cut, file')) \in Nat
        /\ FileSize(AllBut(1 + cut, file')) \in Nat /\ FileSize(file') \in Nat
    BY <1>4, <1>7, AllButShrinks, BytesFinite
  <2>3. FileSize(file') <= size' /\ FileSize(AllBut(1 + cut, file')) < MaxSize
    BY <1>2, <1>3, <1>4, <1>7, <2>1, <2>2
  <2>4. ASSUME ~rotating' PROVE FileSize(AllBut(cut, file')) < MaxSize
    <3>1. ~(size' >= MaxSize)
      BY <1>2, <2>1, <2>4
    <3>2. size' \in Nat
      BY <1>2, <1>3, <1>4
    <3> QED
      BY <1>3, <1>7, <2>2, <2>3, <3>1, <3>2
  <2> QED
    BY <1>2, <2>1, <2>3, <2>4
<1> QED
  BY <1>8, <1>9 DEF SizeInv

LEMMA RotateKeepsSize ==
  ASSUME SizeTyped, SizeInv, Rotate
  PROVE  SizeTyped' /\ SizeInv'
<1>1. PICK renamed, opened \in BOOLEAN :
        /\ Fail(Cardinality({x \in {"rename", "open"} :
                              (x = "rename" /\ ~renamed) \/ (x = "open" /\ ~opened)}))
        /\ rotated' = IF renamed
                      THEN [t \in DOMAIN rotated \cup {Suffix} |-> IF t = Suffix THEN file ELSE rotated[t]]
                      ELSE rotated
        /\ file' = IF opened \/ renamed THEN Reopen(renamed) ELSE file
        /\ writer' = IF opened THEN "file" ELSE "stdout"
        /\ size' = IF opened THEN 0 ELSE size
  BY DEF Rotate
<1>2. ~rotating' /\ UNCHANGED cut
  BY DEF Rotate
<1>3. faults' \in Nat /\ (faults' = 0 => faults = 0 /\ renamed /\ opened)
  <2>1. faults' = faults + Cardinality({x \in {"rename", "open"} :
                              (x = "rename" /\ ~renamed) \/ (x = "open" /\ ~opened)})
    BY <1>1 DEF Fail
  <2> QED
    BY <2>1, FailuresCounted DEF SizeTyped
<1>4. \A t \in DOMAIN rotated' : rotated'[t] = file \/ (t \in DOMAIN rotated /\ rotated'[t] = rotated[t])
  <2>1. CASE renamed
    BY <1>1, <2>1
  <2>2. CASE ~renamed
    BY <1>1, <2>2
  <2> QED
    BY <2>1, <2>2
<1>5. file' \in {file, <<>>} /\ (renamed => file' = <<>>)
  BY <1>1 DEF Reopen
<1>6. SizeTyped'
  <2>1. size' \in Nat
    BY <1>1 DEF SizeTyped
  <2>2. file' \in Seq(Int) /\ IsFile(file')
    <3>1. <<>> \in Seq(Int) /\ IsFile(<<>>)
      BY NothingFits
    <3> QED
      BY <1>5, <3>1, Zenon DEF SizeTyped
  <2>3. \A t \in DOMAIN rotated' : rotated'[t] \in Seq(Int) /\ IsFile(rotated'[t])
    BY <1>4 DEF SizeTyped
  <2> QED
    BY <1>2, <1>3, <2>1, <2>2, <2>3 DEF SizeTyped
<1>7. ASSUME faults' = 0
      PROVE  /\ writer' # "stdout"
             /\ FileSize(file') <= size'
             /\ FileSize(AllBut(1 + cut', file')) < MaxSize
             /\ ~rotating' => FileSize(AllBut(cut', file')) < MaxSize
             /\ \A t \in DOMAIN rotated' : FileSize(AllBut(1 + cut', rotated'[t])) < MaxSize
  <2>1. faults = 0 /\ renamed /\ opened
    BY <1>3, <1>7
  <2>2. file' = <<>> /\ size' = 0 /\ writer' = "file"
    BY <1>1, <1>5, <2>1
  <2>3. MaxSize \in Nat \ {0} /\ cut \in Nat /\ 1 + cut \in Nat
    BY LogAssumption DEF LogAssumption, SizeTyped
  <2>4. \A n \in Nat : FileSize(AllBut(n, <<>>)) \in Nat /\ FileSize(AllBut(n, <<>>)) <= 0
    BY NothingFits, AllButShrinks
  <2>5. /\ FileSize(AllBut(1 + cut, file)) < MaxSize
        /\ \A t \in DOMAIN rotated : FileSize(AllBut(1 + cut, rotated[t])) < MaxSize
    BY <2>1 DEF SizeInv
  <2>6. \A t \in DOMAIN rotated' : FileSize(AllBut(1 + cut', rotated'[t])) < MaxSize
    BY <1>2, <1>4, <2>5
  <2>7. FileSize(file') <= size'
    BY <2>2, NothingFits
  <2>8. FileSize(AllBut(1 + cut', file')) < MaxSize /\ FileSize(AllBut(cut', file')) < MaxSize
    BY <1>2, <2>2, <2>3, <2>4
  <2> QED
    BY <2>2, <2>6, <2>7, <2>8
<1> QED
  BY <1>6, <1>7 DEF SizeInv

LEMMA NextKeepsSize == SizeTyped /\ SizeInv /\ [Next]_vars => SizeTyped' /\ SizeInv'
<1> SUFFICES ASSUME SizeTyped, SizeInv, [Next]_vars
             PROVE  SizeTyped' /\ SizeInv'
  OBVIOUS
<1>1. ASSUME NewLogger
      PROVE  SizeTyped' /\ SizeInv'
  <2>1. /\ writer' = "file" /\ size' = FileSize(file) /\ ~rotating'
        /\ cut' = (IF rotating THEN cut + 1 ELSE cut)
        /\ UNCHANGED <<file, rotated, faults>>
    BY <1>1 DEF NewLogger
  <2>2. /\ cut \in Nat /\ 1 + cut \in Nat /\ MaxSize \in Nat /\ FileSize(file) \in Nat
        /\ IsFile(file) /\ \A t \in DOMAIN rotated : IsFile(rotated[t])
    BY LogAssumption, BytesFinite DEF LogAssumption, SizeTyped
  <2>3. SizeTyped'
    BY <2>1, <2>2 DEF SizeTyped
  <2>4. /\ cut' = cut \/ cut' = 1 + cut
        /\ rotating => cut' = 1 + cut
        /\ cut' \in Nat /\ 1 + cut' \in Nat /\ 1 + cut <= 1 + cut'
    BY <2>1, <2>2
  <2>5. ASSUME faults = 0
        PROVE  /\ FileSize(AllBut(cut', file)) < MaxSize
               /\ FileSize(AllBut(1 + cut', file)) < MaxSize
               /\ \A t \in DOMAIN rotated : FileSize(AllBut(1 + cut', rotated[t])) < MaxSize
    <3>1. FileSize(AllBut(cut', file)) < MaxSize
      BY <2>1, <2>4, <2>5 DEF SizeInv
    <3>2. /\ FileSize(AllBut(1 + cut', file)) <= FileSize(AllBut(cut', file))
          /\ FileSize(AllBut(1 + cut', file)) \in Nat /\ FileSize(AllBut(cut', file)) \in Nat
      BY <2>2, <2>4, AllButShrinks
    <3>3. ASSUME NEW t \in DOMAIN rotated
          PROVE  FileSize(AllBut(1 + cut', rotated[t])) < MaxSize
      <4>1. FileSize(AllBut(1 + cut, rotated[t])) < MaxSize
        BY <2>5 DEF SizeInv
      <4>2. /\ FileSize(AllBut(1 + cut', rotated[t])) <= FileSize(AllBut(1 + cut, rotated[t]))
            /\ FileSize(AllBut(1 + cut', rotated[t])) \in Nat
            /\ FileSize(AllBut(1 + cut, rotated[t])) \in Nat
        BY <2>2, <2>4, AllButShrinks
      <4> QED
        BY <2>2, <4>1, <4>2
    <3> QED
      BY <2>2, <3>1, <3>2, <3>3
  <2>6. SizeInv'
    BY <2>1, <2>2, <2>5 DEF SizeInv
  <2> QED
    BY <2>3, <2>6
<1>2. ASSUME UNCHANGED <<file, rotated, size, rotating, faults, cut>>,
             writer' = "stdout" => writer = "stdout"
      PROVE  SizeTyped' /\ SizeInv'
  BY <1>2 DEF SizeTyped, SizeInv
<1>3. CASE Tick \/ Close
  BY <1>2, <1>3 DEF Tick, Close
<1>4. CASE UNCHANGED logVars
  BY <1>2, <1>4 DEF logVars
<1>5. \/ \E s \in Sessions : Log(s)
      \/ Rotate \/ NewLogger \/ Tick \/ Close \/ UNCHANGED logVars
  BY DEF Next, Handler, CallLogger, CallRotate, CallStore, Notify, Deliver, Mount, Load, ReadRecent,
         ReadStats, SetSessions, SetStats, Quit, Restart, vars
<1> QED
  BY <1>1, <1>3, <1>4, <1>5, LogKeepsSize, RotateKeepsSize

LEMMA InitSize == Init => SizeTyped /\ SizeInv
<1> SUFFICES ASSUME Init PROVE SizeTyped /\ SizeInv
  OBVIOUS
<1>1. PICK n \in 0..MaxOld : file = [i \in 1..n |-> i - n]
  BY DEF Init, LogInit
<1>2. n \in Nat /\ [i \in 1..n |-> i - n] \in [1..n -> Int]
  BY LogAssumption DEF LogAssumption
<1>3. file \in Seq(Int) /\ Len(file) = n /\ \A i \in 1..n : file[i] = i - n
  BY <1>1, <1>2, FunctionIsSeq
<1>4. /\ faults = 0 /\ cut = 0 /\ size = FileSize(file) /\ writer = "file"
      /\ rotated = [t \in {} |-> <<>>] /\ FileSize(file) < MaxSize
  BY DEF Init, LogInit
<1>5. MaxSize \in Nat
  BY LogAssumption DEF LogAssumption
<1>6. IsFile(file)
  <2>1. ASSUME NEW i \in 1..n PROVE i - n \in DOMAIN LineSize
    <3>1. i - n \in (1 - MaxOld)..0
      BY <1>2, LogAssumption DEF LogAssumption
    <3> QED
      BY <3>1, LogAssumption DEF LogAssumption
  <2> QED
    BY <1>3, <2>1 DEF IsFile
<1>7. FileSize(file) \in Nat
  BY <1>6, BytesFinite
<1>8. SizeTyped
  BY <1>3, <1>4, <1>6, <1>7 DEF SizeTyped
<1>9. \A k \in Nat : FileSize(AllBut(k, file)) < MaxSize
  <2>1. ASSUME NEW k \in Nat PROVE FileSize(AllBut(k, file)) < MaxSize
    <3>1. FileSize(AllBut(k, file)) <= FileSize(file) /\ FileSize(AllBut(k, file)) \in Nat
      BY <1>6, AllButShrinks
    <3> QED
      BY <1>4, <1>5, <1>7, <3>1
  <2> QED
    BY <2>1
<1>10. /\ FileSize(AllBut(1 + cut, file)) < MaxSize
       /\ FileSize(AllBut(cut, file)) < MaxSize
  BY <1>4, <1>9
<1>11. SizeInv
  BY <1>4, <1>7, <1>10 DEF SizeInv
<1> QED
  BY <1>8, <1>11

-----------------------------------------------------------------------------
(* What is in the files.                                                   *)

Rising(seq) == \A k, l \in DOMAIN seq : k < l => seq[k] < seq[l]

Earlier(f, g) == \A x \in ToSet(f), y \in ToSet(g) : x < y

\* The sessions enter the logger in the order of their numbers, and the names
\* of the rotated files follow the clock.
FileInv ==
  /\ now \in 0..MaxTime /\ console \in Seq(Int) /\ writer \in {"file", "stdout", "closed"}
  /\ turns = DOMAIN rotated /\ DOMAIN rotated \subseteq 0..now
  /\ Rising(written)
  /\ \A s \in Sessions : at[s] = "logger" => \A x \in ToSet(written) : x < s
  /\ Rising(file) /\ ToSet(file) \subseteq ToSet(written)
  /\ \A t \in DOMAIN rotated : /\ Rising(rotated[t]) /\ ToSet(rotated[t]) \subseteq ToSet(written)
                             /\ Earlier(rotated[t], file)
  /\ \A t, u \in DOMAIN rotated : t < u => Earlier(rotated[t], rotated[u])

\* where a session is that was written
KeptInv ==
  \A x \in ToSet(written) : \/ x \in ToSet(file) \cup ToSet(console) \cup replaced
                           \/ \E t \in DOMAIN rotated : x \in ToSet(rotated[t])

LEMMA AppendRises ==
  ASSUME NEW seq \in Seq(Int), NEW s \in Int, Rising(seq), \A x \in ToSet(seq) : x < s
  PROVE  Rising(Append(seq, s))
<1>1. /\ DOMAIN Append(seq, s) = 1..(Len(seq) + 1) /\ DOMAIN seq = 1..Len(seq) /\ Len(seq) \in Nat
      /\ \A i \in 1..Len(seq) : Append(seq, s)[i] = seq[i]
      /\ Append(seq, s)[Len(seq) + 1] = s
  OBVIOUS
<1>2. ASSUME NEW k \in 1..(Len(seq) + 1), NEW l \in 1..(Len(seq) + 1), k < l
      PROVE  Append(seq, s)[k] < Append(seq, s)[l]
  <2>1. k \in 1..Len(seq) /\ seq[k] \in ToSet(seq)
    <3>1. k \in 1..Len(seq)
      BY <1>1, <1>2
    <3> QED
      BY <1>1, <3>1 DEF ToSet
  <2>2. CASE l = Len(seq) + 1
    BY <1>1, <2>1, <2>2
  <2>3. CASE l \in 1..Len(seq)
    BY <1>1, <1>2, <2>1, <2>3 DEF Rising
  <2> QED
    BY <1>1, <2>2, <2>3
<1> QED
  BY <1>1, <1>2 DEF Rising

\* A session is written to the end of the file, or to stdout, or not at all.
LEMMA LogKeepsFiles ==
  ASSUME SizeTyped, LogTyped, FileInv, KeptInv, NEW s \in Sessions, CallLogger(s)
  PROVE  FileInv' /\ KeptInv'
<1>1. PICK wrote \in BOOLEAN :
        /\ file' = IF wrote /\ writer = "file" THEN Append(file, s) ELSE file
        /\ console' = IF wrote /\ writer = "stdout" THEN Append(console, s) ELSE console
        /\ written' = IF wrote THEN Append(written, s) ELSE written
        /\ wrote => writer # "closed"
  <2>1. PICK ok \in BOOLEAN :
          LET wrote == ok /\ writer # "closed"
          IN  /\ file' = IF wrote /\ writer = "file" THEN Append(file, s) ELSE file
              /\ console' = IF wrote /\ writer = "stdout" THEN Append(console, s) ELSE console
              /\ written' = IF wrote THEN Append(written, s) ELSE written
    BY DEF CallLogger, Log
  <2> QED
    BY <2>1
<1>2. /\ at[s] = "logger" /\ \A r \in Sessions : r < s => at[r] # "logger"
      /\ \E next \in {"rotate", "store"} : at' = [at EXCEPT ![s] = next]
      /\ UNCHANGED <<now, rotated, turns, replaced, writer>>
  BY SinkFacts DEF CallLogger, Enter, Log
<1>3. s \in Int /\ Sessions \subseteq Int
  BY StoreAssumption DEF StoreAssumption
<1>4. \A x \in ToSet(written) : x < s
  BY <1>2 DEF FileInv
<1>5. /\ written' \in Seq(Int) /\ ToSet(written') = ToSet(written) \cup (IF wrote THEN {s} ELSE {})
      /\ Rising(written')
  BY <1>1, <1>3, <1>4, AppendSet, AppendRises DEF LogTyped, FileInv
<1>6. /\ ToSet(file') = ToSet(file) \cup (IF wrote /\ writer = "file" THEN {s} ELSE {})
      /\ Rising(file')
  BY <1>1, <1>3, <1>4, AppendSet, AppendRises DEF SizeTyped, FileInv
<1>7. console' \in Seq(Int) /\ ToSet(console') = ToSet(console) \cup (IF wrote /\ writer = "stdout" THEN {s} ELSE {})
  BY <1>1, <1>3, AppendSet DEF FileInv
<1>8. ASSUME NEW r \in Sessions, at'[r] = "logger", NEW x \in ToSet(written')
      PROVE  x < r
  <2>1. r # s /\ at[r] = "logger"
    BY <1>2, <1>8 DEF LogTyped
  <2>2. s < r
    BY <1>2, <1>3, <2>1
  <2>3. CASE x = s
    BY <2>2, <2>3
  <2>4. CASE x \in ToSet(written)
    BY <2>1, <2>4 DEF FileInv
  <2> QED
    BY <1>5, <1>8, <2>3, <2>4
<1>9. \A t \in DOMAIN rotated : /\ ToSet(rotated[t]) \subseteq ToSet(written')
                                /\ Earlier(rotated[t], file')
  BY <1>4, <1>5, <1>6 DEF FileInv, Earlier
<1>10. FileInv'
  BY <1>2, <1>5, <1>6, <1>7, <1>8, <1>9 DEF FileInv
<1>11. KeptInv'
  <2> SUFFICES ASSUME NEW x \in ToSet(written')
               PROVE  \/ x \in ToSet(file') \cup ToSet(console') \cup replaced
                      \/ \E t \in DOMAIN rotated : x \in ToSet(rotated[t])
    BY <1>2 DEF KeptInv
  <2>1. CASE x \in ToSet(written)
    BY <1>6, <1>7, <2>1 DEF KeptInv
  <2>2. CASE x \notin ToSet(written)
    <3>1. wrote /\ x = s
      BY <1>5, <2>2
    <3> QED
      BY <1>1, <1>6, <1>7, <3>1 DEF FileInv
  <2> QED
    BY <2>1, <2>2
<1> QED
  BY <1>10, <1>11

\* The file gets the name of the current second, and no other has a later one.
LEMMA RotateKeepsFiles ==
  ASSUME SizeTyped, LogTyped, FileInv, KeptInv, NEW s \in Sessions, CallRotate(s)
  PROVE  FileInv' /\ KeptInv'
<1>1. PICK renamed, opened \in BOOLEAN :
        /\ rotated' = IF renamed
                      THEN [t \in DOMAIN rotated \cup {now} |-> IF t = now THEN file ELSE rotated[t]]
                      ELSE rotated
        /\ turns' = IF renamed THEN turns \cup {now} ELSE turns
        /\ replaced' = IF renamed /\ now \in turns THEN replaced \cup ToSet(rotated[now]) ELSE replaced
        /\ file' = IF renamed THEN <<>> ELSE file
        /\ writer' = IF opened THEN "file" ELSE "stdout"
  <2>1. PICK renamed, opened \in BOOLEAN :
        /\ rotated' = IF renamed
                      THEN [t \in DOMAIN rotated \cup {now} |-> IF t = now THEN file ELSE rotated[t]]
                      ELSE rotated
        /\ turns' = IF renamed THEN turns \cup {now} ELSE turns
        /\ replaced' = IF renamed /\ now \in turns THEN replaced \cup ToSet(rotated[now]) ELSE replaced
        /\ file' = IF opened \/ renamed THEN Reopen(renamed) ELSE file
        /\ writer' = IF opened THEN "file" ELSE "stdout"
    BY DEF CallRotate, Rotate, Suffix
  <2>2. file' = IF renamed THEN <<>> ELSE file
    BY <2>1 DEF Reopen
  <2> QED
    BY <2>1, <2>2
<1>2. /\ at' = [at EXCEPT ![s] = "store"] /\ at[s] = "rotate"
      /\ UNCHANGED <<now, written, console>>
  BY SinkFacts DEF CallRotate, Rotate
<1>3. \A r \in Sessions : at'[r] = "logger" => at[r] = "logger"
  BY <1>2 DEF LogTyped
<1>4. CASE ~renamed
  BY <1>1, <1>2, <1>3, <1>4 DEF FileInv, KeptInv
<1>5. CASE renamed
  <2>1. /\ DOMAIN rotated' = DOMAIN rotated \cup {now} /\ rotated'[now] = file
        /\ \A t \in DOMAIN rotated : t # now => rotated'[t] = rotated[t]
        /\ turns' = DOMAIN rotated'
        /\ replaced' = IF now \in DOMAIN rotated THEN replaced \cup ToSet(rotated[now]) ELSE replaced
        /\ file' = <<>> /\ ToSet(file') = {} /\ Rising(file')
    BY <1>1, <1>5 DEF FileInv, ToSet, Rising
  <2>2. /\ now \in Nat /\ DOMAIN rotated' \subseteq 0..now
        /\ \A t \in DOMAIN rotated : t # now => t < now
    BY <2>1, LogAssumption DEF FileInv, LogAssumption
  <2>3. \A t \in DOMAIN rotated' : /\ Rising(rotated'[t]) /\ ToSet(rotated'[t]) \subseteq ToSet(written)
                                   /\ Earlier(rotated'[t], file')
    BY <2>1 DEF FileInv, Earlier
  <2>4. ASSUME NEW t \in DOMAIN rotated', NEW u \in DOMAIN rotated', t < u
        PROVE  Earlier(rotated'[t], rotated'[u])
    <3>1. t # now /\ t \in DOMAIN rotated /\ t \in 0..now /\ u \in 0..now
      BY <2>1, <2>2, <2>4
    <3>2. CASE u = now
      BY <2>1, <3>1, <3>2 DEF FileInv
    <3>3. CASE u # now
      BY <2>1, <2>4, <3>1, <3>3 DEF FileInv
    <3> QED
      BY <3>2, <3>3
  <2>5. writer' \in {"file", "stdout", "closed"}
    BY <1>1
  <2>6. FileInv'
    BY <1>2, <1>3, <2>1, <2>2, <2>3, <2>4, <2>5 DEF FileInv
  <2>7. KeptInv'
    <3> SUFFICES ASSUME NEW x \in ToSet(written)
                 PROVE  \/ x \in ToSet(console) \cup replaced'
                        \/ \E t \in DOMAIN rotated' : x \in ToSet(rotated'[t])
      BY <1>2 DEF KeptInv
    <3>1. CASE x \in ToSet(file)
      BY <2>1, <3>1
    <3>2. CASE x \in ToSet(console) \cup replaced
      BY <2>1, <3>2
    <3>3. ASSUME NEW t \in DOMAIN rotated, x \in ToSet(rotated[t])
          PROVE  \/ x \in ToSet(console) \cup replaced'
                 \/ \E u \in DOMAIN rotated' : x \in ToSet(rotated'[u])
      BY <2>1, <3>3
    <3> QED
      BY <3>1, <3>2, <3>3 DEF KeptInv
  <2> QED
    BY <2>6, <2>7
<1> QED
  BY <1>4, <1>5

LEMMA NextKeepsFiles ==
  SizeTyped /\ LogTyped /\ FileInv /\ KeptInv /\ [Next]_vars => FileInv' /\ KeptInv'
<1> SUFFICES ASSUME SizeTyped, LogTyped, FileInv, KeptInv, [Next]_vars
             PROVE  FileInv' /\ KeptInv'
  OBVIOUS
<1>1. ASSUME UNCHANGED <<file, rotated, console, written, turns, replaced>>,
             now' \in now..MaxTime, writer' \in {"file", "stdout", "closed"},
             \A r \in Sessions : at'[r] = "logger" => at[r] = "logger"
      PROVE  FileInv' /\ KeptInv'
  <2>1. now' \in 0..MaxTime /\ DOMAIN rotated \subseteq 0..now'
    BY <1>1, LogAssumption DEF FileInv, LogAssumption
  <2> QED
    BY <1>1, <2>1 DEF FileInv, KeptInv
<1>2. now \in now..MaxTime /\ writer \in {"file", "stdout", "closed"}
  BY LogAssumption DEF FileInv, LogAssumption
<1>3. CASE Restart
  <2>1. /\ UNCHANGED <<now, file, rotated, console, written, turns, replaced>>
        /\ writer' = "file"
        /\ \A r \in Sessions : at'[r] = "logger" => at[r] = "logger"
    BY <1>3, SinkFacts DEF Restart, NewLogger
  <2> QED
    BY <1>1, <1>2, <2>1
<1>4. CASE Quit
  <2>1. /\ UNCHANGED <<now, file, rotated, console, written, turns, replaced, at>>
        /\ writer' \in {writer, "closed"}
    BY <1>4 DEF Quit, Close
  <2> QED
    BY <1>1, <1>2, <2>1
<1>5. CASE Tick /\ UNCHANGED <<storeVars, at, events, windowVars, endVars, overlap>>
  <2>1. /\ UNCHANGED <<file, rotated, console, written, turns, replaced, at, writer>>
        /\ now' = now + 1 /\ now < MaxTime
    BY <1>5 DEF Tick
  <2>2. now' \in now..MaxTime
    BY <1>2, <2>1, LogAssumption DEF LogAssumption, FileInv
  <2> QED
    BY <1>1, <1>2, <2>1, <2>2
<1>6. ASSUME NEW s \in Sessions, CallStore(s) \/ Notify(s)
      PROVE  FileInv' /\ KeptInv'
  <2>1. /\ UNCHANGED <<now, file, rotated, console, written, turns, replaced, writer>>
        /\ \E to \in {"notify", "done"} : at' = [at EXCEPT ![s] = to]
    BY <1>6, SinkFacts DEF CallStore, Notify, logVars
  <2>2. \A r \in Sessions : at'[r] = "logger" => at[r] = "logger"
    BY <2>1 DEF LogTyped
  <2> QED
    BY <1>1, <1>2, <2>1, <2>2
<1>7. ASSUME \/ \E s \in Sessions : Deliver(s)
             \/ Mount \/ Load
             \/ UNCHANGED vars
      PROVE  FileInv' /\ KeptInv'
  <2>1. UNCHANGED <<now, file, rotated, console, written, turns, replaced, writer, at>>
    BY <1>7 DEF Deliver, Mount, Load, ReadRecent, ReadStats, SetSessions, SetStats, vars, logVars
  <2> QED
    BY <1>1, <1>2, <2>1
<1> QED
  BY <1>3, <1>4, <1>5, <1>6, <1>7, LogKeepsFiles, RotateKeepsFiles DEF Next, Handler

LEMMA InitFiles == Init => FileInv /\ KeptInv
<1> SUFFICES ASSUME Init PROVE FileInv /\ KeptInv
  OBVIOUS
<1>1. PICK n \in 0..MaxOld : file = [i \in 1..n |-> i - n]
  BY DEF Init, LogInit
<1>2. /\ n \in Nat /\ DOMAIN file = 1..n /\ written = file
      /\ \A i \in 1..n : file[i] = i - n
  BY <1>1, LogAssumption DEF LogAssumption, Init, LogInit
<1>3. /\ now = 0 /\ console = <<>> /\ writer = "file" /\ turns = {}
      /\ rotated = [t \in {} |-> <<>>] /\ DOMAIN rotated = {}
  BY DEF Init, LogInit
<1>4. Rising(file)
  BY <1>2 DEF Rising
<1>5. ASSUME NEW s \in Sessions, NEW x \in ToSet(written)
      PROVE  x < s
  <2>1. PICK i \in 1..n : x = i - n
    BY <1>2 DEF ToSet
  <2>2. s \in Nat \ {0}
    BY StoreAssumption DEF StoreAssumption
  <2> QED
    BY <1>2, <2>1, <2>2
<1>6. 0 \in 0..MaxTime /\ <<>> \in Seq(Int)
  BY LogAssumption DEF LogAssumption
<1> QED
  BY <1>2, <1>3, <1>4, <1>5, <1>6 DEF FileInv, KeptInv

\* what the ring and the files keep
TrailInv == StoreTypeOK /\ LogTyped /\ LogInv /\ SizeTyped /\ SizeInv /\ FileInv /\ KeptInv

LEMMA InitTrail == Init => TrailInv
BY InitLog, InitSize, InitFiles DEF TrailInv

LEMMA NextKeepsTrail == TrailInv /\ [Next]_vars => TrailInv'
BY StoreTyped, NextKeepsLog, NextKeepsSize, NextKeepsFiles DEF TrailInv

LEMMA FilesAre ==
  ASSUME TrailInv
  PROVE  /\ DOMAIN Files = DOMAIN rotated \cup {MaxTime + 1} /\ DOMAIN rotated \subseteq 0..MaxTime
         /\ Files[MaxTime + 1] = file /\ \A t \in DOMAIN rotated : Files[t] = rotated[t]
         /\ \A t \in DOMAIN Files : /\ Files[t] \in Seq(Int) /\ Rising(Files[t])
                                 /\ ToSet(Files[t]) \subseteq ToSet(written)
         /\ \A t, u \in DOMAIN Files : t < u => Earlier(Files[t], Files[u])
<1>1. MaxTime \in Nat /\ now \in 0..MaxTime /\ DOMAIN rotated \subseteq 0..now
  BY LogAssumption DEF LogAssumption, TrailInv, FileInv
<1>2. DOMAIN rotated \subseteq 0..MaxTime /\ MaxTime + 1 \notin DOMAIN rotated
  BY <1>1
<1>3. /\ DOMAIN Files = DOMAIN rotated \cup {MaxTime + 1}
      /\ Files[MaxTime + 1] = file /\ \A t \in DOMAIN rotated : Files[t] = rotated[t]
  BY <1>2 DEF Files
<1>4. \A t \in DOMAIN Files : /\ Files[t] \in Seq(Int) /\ Rising(Files[t])
                              /\ ToSet(Files[t]) \subseteq ToSet(written)
  BY <1>3 DEF TrailInv, SizeTyped, FileInv
<1>5. ASSUME NEW t \in DOMAIN Files, NEW u \in DOMAIN Files, t < u
      PROVE  Earlier(Files[t], Files[u])
  <2>1. t \in DOMAIN rotated
    BY <1>1, <1>2, <1>3, <1>5
  <2>2. CASE u = MaxTime + 1
    BY <1>3, <2>1, <2>2 DEF TrailInv, FileInv
  <2>3. CASE u \in DOMAIN rotated
    BY <1>3, <1>5, <2>1, <2>3 DEF TrailInv, FileInv
  <2> QED
    BY <1>3, <2>2, <2>3
<1> QED
  BY <1>2, <1>3, <1>4, <1>5

-----------------------------------------------------------------------------
(* What the window shows.                                                  *)

\* the i-th newest session of the ring
RingAt(i) == slots[(head - i + Capacity) % Capacity]

\* how many sessions GetRecentSessions returns
Width == IF Limit > count THEN count ELSE Limit

\* the event of the session will not put it into the window once more, or the
\* window was loading when it could
Settled(s) == s \in overlap \/ (at[s] = "done" /\ s \notin events)

WindowTyped ==
  /\ mounted \in BOOLEAN
  /\ call \in [{"GetRecentSessions", "GetStats"} -> {"none", "asked", "answered"}]
  /\ events \subseteq Sessions /\ overlap \subseteq Sessions
  /\ IsFiniteSet(OnTheWay) /\ IsFiniteSet(overlap)
  /\ list \in Seq(Sessions) /\ shown \in Seq(Sessions)
  /\ stats \in Nat /\ total \in Nat

\* where sessions are, in the ring and on their way to the window
WayInv ==
  /\ \A i, j \in 1..count : i # j => RingAt(i) # RingAt(j)
  /\ \A s \in events : at[s] = "done"
  /\ \A s \in overlap : at[s] \in InRing
  /\ ~mounted => ~Loading /\ list = <<>> /\ shown = <<>>
  /\ Loading => OnTheWay \subseteq overlap

\* what the window shows, once and completely
ShownInv ==
  /\ \A s \in ToSet(list) \cup ToSet(shown) : Settled(s)
  /\ \A i, j \in DOMAIN list : i # j => list[i] # list[j]
  /\ \A i, j \in DOMAIN shown : i # j /\ shown[i] = shown[j] => shown[i] \in overlap
  /\ mounted /\ call["GetRecentSessions"] = "answered" =>
       ToSet(Recent(Limit)) \subseteq ToSet(list) \cup overlap
  /\ mounted /\ call["GetRecentSessions"] = "none" /\ Len(shown) < MaxShown =>
       ToSet(Recent(Limit)) \subseteq ToSet(shown) \cup overlap \cup OnTheWay

\* The window's total and the ring's, until the ring is full: the sessions
\* whose events are on their way are still to be counted.
CountInv ==
  mounted /\ count < Capacity =>
    /\ call["GetStats"] = "answered" => stats <= count /\ count <= stats + Cardinality(overlap)
    /\ call["GetStats"] = "none" =>
         /\ total + Cardinality(OnTheWay) <= count + Cardinality(overlap)
         /\ count <= total + Cardinality(overlap \cup OnTheWay)

WindowInv == WindowTyped /\ WayInv /\ ShownInv /\ CountInv

LEMMA RecentIs ==
  ASSUME StoreTypeOK, LogInv
  PROVE  /\ DOMAIN Recent(Limit) = 1..Width /\ Width \in 0..count
         /\ \A i \in 1..Width : Recent(Limit)[i] = RingAt(i)
         /\ Recent(Limit) \in Seq(Sessions)
         /\ ToSet(Recent(Limit)) = {RingAt(i) : i \in 1..Width}
         /\ \A i \in 1..count : RingAt(i) \in Sessions /\ at[RingAt(i)] \in InRing
<1>1. Limit \in Nat \ {0} /\ count \in Nat
  BY TrailAssumption, StoreAssumption DEF TrailAssumption, StoreAssumption, StoreTypeOK
<1>2. Width \in 0..count /\ Width = IF Limit = 0 \/ Limit > count THEN count ELSE Limit
  BY <1>1 DEF Width
<1>3. Recent(Limit) = [i \in 1..Width |-> RingAt(i)]
  BY <1>2, Zenon DEF Recent, RingAt
<1>4. \A i \in 1..count : RingAt(i) \in Sessions /\ at[RingAt(i)] \in InRing
  BY Zenon DEF LogInv, RingAt
<1>5. \A i \in 1..Width : RingAt(i) \in Sessions
  BY <1>1, <1>2, <1>4
<1>6. Recent(Limit) \in [1..Width -> Sessions]
  BY <1>3, <1>5, Zenon
<1>7. Recent(Limit) \in Seq(Sessions)
  BY <1>2, <1>6, FunctionIsSeq
<1>8. DOMAIN Recent(Limit) = 1..Width /\ \A i \in 1..Width : Recent(Limit)[i] = RingAt(i)
  BY <1>3, Zenon
<1>9. ToSet(Recent(Limit)) = {RingAt(i) : i \in 1..Width}
  BY <1>8 DEF ToSet
<1> QED
  BY <1>2, <1>4, <1>7, <1>8, <1>9

\* One session further, the others are one place later.
LEMMA RingMoves ==
  ASSUME StoreTypeOK, NEW s \in Sessions, StoreLog(s)
  PROVE  /\ count' \in 0..Capacity /\ \A i \in 1..count' : i # 1 => i - 1 \in 1..count
         /\ \A i \in 1..count' : RingAt(i)' = IF i = 1 THEN s ELSE RingAt(i - 1)
<1>1. /\ Capacity \in Nat \ {0} /\ head \in 0..(Capacity - 1) /\ count \in 0..Capacity
      /\ slots' = [slots EXCEPT ![head] = s] /\ head' = (head + 1) % Capacity
      /\ count' = IF count < Capacity THEN count + 1 ELSE count
  BY StoreAssumption DEF StoreAssumption, StoreTypeOK, StoreLog
<1>2. count' \in 0..Capacity /\ \A i \in 1..count' : i # 1 => i - 1 \in 1..count
  BY <1>1
<1>3. ASSUME NEW i \in 1..count'
      PROVE  slots'[(head' - i + Capacity) % Capacity] =
               IF i = 1 THEN s ELSE slots[(head - (i - 1) + Capacity) % Capacity]
  <2>0. i \in 1..Capacity
    BY <1>1, <1>2
  <2>1. CASE i = 1
    <3>1. (head' - i + Capacity) % Capacity = head
      BY <1>1, <2>0, <2>1, IndexMoves
    <3>2. slots'[head] = s
      BY <1>1 DEF StoreTypeOK
    <3> QED
      BY <2>1, <3>1, <3>2
  <2>2. CASE i # 1
    <3>1. /\ (head' - i + Capacity) % Capacity = (head - (i - 1) + Capacity) % Capacity
          /\ (head - (i - 1) + Capacity) % Capacity # head
      BY <1>1, <2>0, <2>2, IndexMoves
    <3>2. i - 1 \in 1..Capacity
      BY <1>1, <2>0, <2>2
    <3>3. (head - (i - 1) + Capacity) % Capacity \in 0..(Capacity - 1)
      BY <1>1, <3>2, IndexMoves
    <3>4. slots'[(head - (i - 1) + Capacity) % Capacity] = slots[(head - (i - 1) + Capacity) % Capacity]
      BY <1>1, <3>1, <3>3 DEF StoreTypeOK
    <3> QED
      BY <2>2, <3>1, <3>4
  <2> QED
    BY <2>1, <2>2
<1>4. \A i \in 1..count' : RingAt(i)' = IF i = 1 THEN s ELSE RingAt(i - 1)
  BY <1>3, Zenon DEF RingAt
<1> QED
  BY <1>2, <1>4

LEMMA LoadingIs ==
  WindowTyped => (Loading <=> call["GetRecentSessions"] # "none" \/ call["GetStats"] # "none")
BY DEF WindowTyped, Loading

\* before the ring and in the file, nothing of this changes
LEMMA LoggerKeepsWindow ==
  ASSUME LogTyped, WindowInv, NEW s \in Sessions, CallLogger(s) \/ CallRotate(s)
  PROVE  WindowInv'
<1>1. /\ at[s] \in {"logger", "rotate"}
      /\ \E to \in {"rotate", "store"} : at' = [at EXCEPT ![s] = to]
      /\ UNCHANGED <<slots, head, count, events, mounted, call, list, stats, shown, total, overlap>>
  BY SinkFacts DEF CallLogger, CallRotate, Enter, storeVars, windowVars
<1>2. \A r \in Sessions : /\ at'[r] \in InRing <=> at[r] \in InRing
                          /\ at[r] \in InRing => at'[r] = at[r]
  BY <1>1 DEF LogTyped, InRing
<1>3. OnTheWay' = OnTheWay
  BY <1>1, <1>2 DEF OnTheWay, InRing
<1>4. Recent(Limit)' = Recent(Limit) /\ Loading' = Loading /\ \A i \in 1..count : RingAt(i)' = RingAt(i)
  BY <1>1 DEF Recent, Loading, RingAt
<1>5. WindowTyped'
  BY <1>1, <1>3 DEF WindowInv, WindowTyped
<1>6. WayInv'
  BY <1>1, <1>2, <1>3, <1>4 DEF WindowInv, WindowTyped, WayInv, InRing
<1>7. \A r \in Sessions : Settled(r) => Settled(r)'
  BY <1>1, <1>2 DEF Settled, InRing
<1>8. ToSet(list) \subseteq Sessions /\ ToSet(shown) \subseteq Sessions
  BY DEF WindowInv, WindowTyped, ToSet
<1>9. ShownInv'
  BY <1>1, <1>3, <1>4, <1>7, <1>8 DEF WindowInv, ShownInv
<1>10. CountInv'
  BY <1>1, <1>3 DEF WindowInv, CountInv
<1> QED
  BY <1>5, <1>6, <1>9, <1>10 DEF WindowInv

\* A session that comes to the ring is on its way to the window, where it was
\* not before.
LEMMA StoreKeepsWindow ==
  ASSUME StoreTypeOK, StoreTypeOK', LogTyped, LogInv, LogInv', WindowInv,
         NEW s \in Sessions, CallStore(s)
  PROVE  WindowInv'
<1>1. /\ at[s] = "store" /\ at' = [at EXCEPT ![s] = "notify"] /\ StoreLog(s)
      /\ overlap' = IF Loading THEN overlap \cup {s} ELSE overlap
      /\ UNCHANGED <<events, mounted, call, list, stats, shown, total>>
  BY DEF CallStore, Enter, windowVars
<1>2. /\ WindowTyped /\ WayInv /\ ShownInv /\ CountInv
  BY DEF WindowInv
<1>3. \A r \in Sessions : at'[r] = IF r = s THEN "notify" ELSE at[r]
  BY <1>1 DEF LogTyped
<1>4. OnTheWay' = OnTheWay \cup {s} /\ s \notin OnTheWay /\ s \notin overlap /\ Loading' = Loading
  BY <1>1, <1>2, <1>3 DEF OnTheWay, WindowTyped, WayInv, InRing, Loading
<1>5. /\ count' \in 0..Capacity /\ \A i \in 1..count' : i # 1 => i - 1 \in 1..count
      /\ \A i \in 1..count' : RingAt(i)' = IF i = 1 THEN s ELSE RingAt(i - 1)
      /\ count' = IF count < Capacity THEN count + 1 ELSE count
  BY <1>1, RingMoves DEF StoreLog
<1>6. /\ count \in Nat /\ Capacity \in Nat /\ Limit \in Nat \ {0}
  BY StoreAssumption, TrailAssumption DEF StoreAssumption, TrailAssumption, StoreTypeOK
<1>7. WindowTyped'
  <2>1. IsFiniteSet(OnTheWay') /\ IsFiniteSet(overlap') /\ overlap' \subseteq Sessions
    BY <1>1, <1>2, <1>4, FS_AddElement DEF WindowTyped
  <2> QED
    BY <1>1, <1>2, <2>1 DEF WindowTyped
<1>8. \A i, j \in 1..count' : i # j => RingAt(i)' # RingAt(j)'
  <2>1. \A i \in 1..count : RingAt(i) # s
    BY <1>1, RecentIs DEF InRing
  <2> SUFFICES ASSUME NEW i \in 1..count', NEW j \in 1..count', i # j
               PROVE  RingAt(i)' # RingAt(j)'
    OBVIOUS
  <2>2. CASE i = 1
    BY <1>5, <2>1, <2>2
  <2>3. CASE j = 1
    BY <1>5, <2>1, <2>3
  <2>4. CASE i # 1 /\ j # 1
    <3>1. i - 1 \in 1..count /\ j - 1 \in 1..count /\ i - 1 # j - 1
      BY <1>5, <2>4
    <3>2. RingAt(i - 1) # RingAt(j - 1)
      BY <1>2, <3>1 DEF WayInv
    <3> QED
      BY <1>5, <2>4, <3>2
  <2> QED
    BY <2>2, <2>3, <2>4
<1>9. WayInv'
  <2>1. \A r \in events : at'[r] = "done"
    BY <1>1, <1>2, <1>3 DEF WindowTyped, WayInv
  <2>2. \A r \in overlap' : at'[r] \in InRing
    BY <1>1, <1>2, <1>3 DEF WindowTyped, WayInv, InRing
  <2>3. Loading' => OnTheWay' \subseteq overlap'
    BY <1>1, <1>2, <1>4 DEF WayInv
  <2>4. ~mounted' => ~Loading' /\ list' = <<>> /\ shown' = <<>>
    BY <1>1, <1>2, <1>4 DEF WayInv
  <2> QED
    BY <1>1, <1>8, <2>1, <2>2, <2>3, <2>4 DEF WayInv
<1>10. ToSet(Recent(Limit)') \subseteq ToSet(Recent(Limit)) \cup {s}
  <2>1. ToSet(Recent(Limit)) = {RingAt(i) : i \in 1..Width} /\ Width \in 0..count
    BY RecentIs
  <2>2. Width' \in 0..count' /\ \A i \in 1..Width' : i # 1 => i - 1 \in 1..Width
    BY <1>5, <1>6 DEF Width
  <2>3. Recent(Limit)' = [i \in 1..Width' |-> RingAt(i)']
    <3>1. Width' = IF Limit = 0 \/ Limit > count' THEN count' ELSE Limit
      BY <1>6 DEF Width
    <3> QED
      BY <3>1, Zenon DEF Recent, RingAt
  <2>4. ToSet(Recent(Limit)') = {RingAt(i)' : i \in 1..Width'}
    <3>1. /\ DOMAIN (Recent(Limit)') = 1..Width'
          /\ \A i \in 1..Width' : (Recent(Limit)')[i] = RingAt(i)'
      BY <2>3, Zenon
    <3> QED
      BY <3>1 DEF ToSet
  <2>5. ASSUME NEW i \in 1..Width'
        PROVE  RingAt(i)' \in ToSet(Recent(Limit)) \cup {s}
    <3>1. i \in 1..count'
      BY <1>5, <2>2
    <3> QED
      BY <1>5, <2>1, <2>2, <3>1
  <2> QED
    BY <2>4, <2>5
<1>11. ShownInv'
  <2>1. ToSet(list) \subseteq Sessions /\ ToSet(shown) \subseteq Sessions
    BY <1>2 DEF WindowTyped, ToSet
  <2>2. \A r \in Sessions : Settled(r) => Settled(r)'
    BY <1>1, <1>3 DEF Settled
  <2>3. \A r \in ToSet(list) \cup ToSet(shown) : Settled(r)'
    BY <1>2, <2>1, <2>2 DEF ShownInv
  <2>4. \A i, j \in DOMAIN shown : i # j /\ shown[i] = shown[j] => shown[i] \in overlap'
    BY <1>1, <1>2 DEF ShownInv
  <2>5. ASSUME mounted, call["GetRecentSessions"] = "answered"
        PROVE  ToSet(Recent(Limit)') \subseteq ToSet(list) \cup overlap'
    <3>1. Loading
      BY <1>2, <2>5, LoadingIs
    <3> QED
      BY <1>1, <1>2, <1>10, <2>5, <3>1 DEF ShownInv
  <2>6. ASSUME mounted, call["GetRecentSessions"] = "none", Len(shown) < MaxShown
        PROVE  ToSet(Recent(Limit)') \subseteq ToSet(shown) \cup overlap' \cup OnTheWay'
    BY <1>1, <1>2, <1>4, <1>10, <2>6 DEF ShownInv
  <2> QED
    BY <1>1, <1>2, <2>3, <2>4, <2>5, <2>6 DEF ShownInv
<1>12. CountInv'
  <2> SUFFICES ASSUME mounted, count' < Capacity
               PROVE  /\ call["GetStats"] = "answered" =>
                           stats <= count' /\ count' <= stats + Cardinality(overlap')
                      /\ call["GetStats"] = "none" =>
                           /\ total + Cardinality(OnTheWay') <= count' + Cardinality(overlap')
                           /\ count' <= total + Cardinality(overlap' \cup OnTheWay')
    BY <1>1 DEF CountInv
  <2>1. count < Capacity /\ count' = count + 1
    BY <1>5, <1>6
  <2>2. /\ IsFiniteSet(overlap) /\ IsFiniteSet(OnTheWay) /\ IsFiniteSet(overlap \cup OnTheWay)
        /\ stats \in Nat /\ total \in Nat
    BY <1>2, FS_Union DEF WindowTyped
  <2>3. /\ Cardinality(overlap) \in Nat /\ Cardinality(OnTheWay) \in Nat
        /\ Cardinality(overlap \cup OnTheWay) \in Nat
        /\ Cardinality(overlap \cup {s}) = Cardinality(overlap) + 1
        /\ Cardinality(OnTheWay \cup {s}) = Cardinality(OnTheWay) + 1
        /\ Cardinality((overlap \cup OnTheWay) \cup {s}) = Cardinality(overlap \cup OnTheWay) + 1
    BY <1>4, <2>2, FS_AddElement, FS_CardinalityType
  <2>4. overlap' \cup OnTheWay' = (overlap \cup OnTheWay) \cup {s}
    BY <1>1, <1>4
  <2>5. Cardinality(overlap') = Cardinality(overlap) + (IF Loading THEN 1 ELSE 0)
    BY <1>1, <2>3
  <2>6. CASE call["GetStats"] = "answered"
    <3>1. Loading
      BY <1>2, <2>6, LoadingIs
    <3> QED
      BY <1>2, <1>6, <2>1, <2>2, <2>3, <2>5, <2>6, <3>1 DEF CountInv
  <2>7. CASE call["GetStats"] = "none"
    BY <1>2, <1>4, <1>6, <2>1, <2>2, <2>3, <2>4, <2>5, <2>7 DEF CountInv
  <2> QED
    BY <2>6, <2>7
<1> QED
  BY <1>7, <1>9, <1>11, <1>12 DEF WindowInv

LEMMA NotifyKeepsWindow ==
  ASSUME LogTyped, WindowInv, NEW s \in Sessions, Notify(s)
  PROVE  WindowInv'
<1>1. /\ at[s] = "notify" /\ at' = [at EXCEPT ![s] = "done"] /\ events' = events \cup {s}
      /\ UNCHANGED <<slots, head, count, mounted, call, list, stats, shown, total, overlap>>
  BY SinkFacts DEF Notify, storeVars, windowVars
<1>2. WindowTyped /\ WayInv /\ ShownInv /\ CountInv
  BY DEF WindowInv
<1>3. \A r \in Sessions : at'[r] = IF r = s THEN "done" ELSE at[r]
  BY <1>1 DEF LogTyped
<1>4. OnTheWay' = OnTheWay
  BY <1>1, <1>2, <1>3 DEF OnTheWay, WindowTyped
<1>5. Recent(Limit)' = Recent(Limit) /\ Loading' = Loading /\ \A i \in 1..count : RingAt(i)' = RingAt(i)
  BY <1>1 DEF Recent, Loading, RingAt
<1>6. WindowTyped'
  BY <1>1, <1>2, <1>4 DEF WindowTyped
<1>7. WayInv'
  BY <1>1, <1>2, <1>3, <1>4, <1>5 DEF WindowTyped, WayInv, InRing
<1>8. \A r \in Sessions : Settled(r) => Settled(r)'
  BY <1>1, <1>3 DEF Settled
<1>9. ToSet(list) \subseteq Sessions /\ ToSet(shown) \subseteq Sessions
  BY <1>2 DEF WindowTyped, ToSet
<1>10. ShownInv'
  BY <1>1, <1>2, <1>4, <1>5, <1>8, <1>9 DEF ShownInv
<1>11. CountInv'
  BY <1>1, <1>2, <1>4 DEF CountInv
<1> QED
  BY <1>6, <1>7, <1>10, <1>11 DEF WindowInv

LEMMA MinOfTwo ==
  ASSUME NEW a \in Nat, NEW b \in Nat
  PROVE  Min({a, b}) \in {a, b} /\ Min({a, b}) <= a /\ Min({a, b}) <= b
<1>1. \E x \in {a, b} : \A y \in {a, b} : x <= y
  OBVIOUS
<1> QED
  BY <1>1 DEF Min

\* what an event puts before the sessions that are shown
LEMMA PrependIs ==
  ASSUME NEW S, NEW seq \in Seq(S), NEW s \in S, NEW m \in 0..(Len(seq) + 1)
  PROVE  /\ SubSeq(<<s>> \o seq, 1, m) \in Seq(S) /\ Len(SubSeq(<<s>> \o seq, 1, m)) = m
         /\ \A i \in 1..m : SubSeq(<<s>> \o seq, 1, m)[i] = IF i = 1 THEN s ELSE seq[i - 1]
         /\ \A i \in 1..m : i # 1 => i - 1 \in 1..Len(seq)
<1> DEFINE all == <<s>> \o seq
<1>1. Len(seq) \in Nat
  OBVIOUS
<1>2. <<s>> \in Seq(S) /\ Len(<<s>>) = 1 /\ <<s>>[1] = s
  OBVIOUS
<1>3. /\ all \in Seq(S) /\ Len(all) = 1 + Len(seq)
      /\ \A i \in 1..(1 + Len(seq)) : all[i] = IF i <= 1 THEN <<s>>[i] ELSE seq[i - 1]
  BY <1>2, ConcatProperties
<1> HIDE DEF all
<1>4. m \in 0..Len(all)
  BY <1>1, <1>3
<1>5. /\ SubSeq(all, 1, m) \in Seq(S) /\ Len(SubSeq(all, 1, m)) = m
      /\ \A i \in 1..m : SubSeq(all, 1, m)[i] = all[i]
  BY <1>3, <1>4, PrefixIs
<1>6. ASSUME NEW i \in 1..m
      PROVE  /\ SubSeq(all, 1, m)[i] = IF i = 1 THEN s ELSE seq[i - 1]
             /\ i # 1 => i - 1 \in 1..Len(seq)
  <2>1. i \in 1..(1 + Len(seq)) /\ (i <= 1 <=> i = 1)
    BY <1>1
  <2>2. all[i] = IF i = 1 THEN s ELSE seq[i - 1]
    BY <1>2, <1>3, <2>1
  <2> QED
    BY <1>1, <1>5, <2>1, <2>2
<1> QED
  BY <1>5, <1>6 DEF all

\* An event is shown once, unless its session was in the answer, too, and then
\* it was on its way while the window was loading.
LEMMA DeliverKeepsWindow ==
  ASSUME LogTyped, WindowInv, StoreTypeOK, NEW s \in Sessions, Deliver(s)
  PROVE  WindowInv'
<1>1. /\ s \in events /\ events' = events \ {s}
      /\ IF mounted THEN /\ shown' = SubSeq(<<s>> \o shown, 1, Min({MaxShown, Len(shown) + 1}))
                         /\ total' = total + 1
                    ELSE UNCHANGED <<shown, total>>
      /\ UNCHANGED <<at, slots, head, count, mounted, call, list, stats, overlap>>
  BY DEF Deliver, storeVars
<1>2. WindowTyped /\ WayInv /\ ShownInv /\ CountInv
  BY DEF WindowInv
<1>3. at[s] = "done" /\ OnTheWay' = OnTheWay \ {s} /\ s \in OnTheWay /\ IsFiniteSet(OnTheWay)
  BY <1>1, <1>2 DEF WayInv, WindowTyped, OnTheWay
<1>4. Recent(Limit)' = Recent(Limit) /\ Loading' = Loading /\ \A i \in 1..count : RingAt(i)' = RingAt(i)
  BY <1>1 DEF Recent, Loading, RingAt
<1>5. ASSUME mounted
      PROVE  /\ shown' \in Seq(Sessions) /\ Len(shown') \in 0..(Len(shown) + 1)
             /\ Len(shown') < MaxShown => Len(shown') = Len(shown) + 1
             /\ \A i \in 1..Len(shown') : shown'[i] = IF i = 1 THEN s ELSE shown[i - 1]
             /\ \A i \in 1..Len(shown') : i # 1 => i - 1 \in 1..Len(shown)
  <2> DEFINE m == Min({MaxShown, Len(shown) + 1})
  <2>1. shown \in Seq(Sessions) /\ Len(shown) \in Nat /\ MaxShown \in Nat
    BY <1>2, TrailAssumption DEF WindowTyped, TrailAssumption
  <2>2. shown' = SubSeq(<<s>> \o shown, 1, m)
    BY <1>1, <1>5
  <2>3. m \in {MaxShown, Len(shown) + 1} /\ m <= MaxShown /\ m <= Len(shown) + 1
    BY <2>1, MinOfTwo
  <2> HIDE DEF m
  <2>4. m \in 0..(Len(shown) + 1) /\ (m < MaxShown => m = Len(shown) + 1)
    BY <2>1, <2>3
  <2> QED
    BY <2>1, <2>2, <2>4, PrependIs
<1>6. WindowTyped'
  <2>1. IsFiniteSet(OnTheWay')
    BY <1>3, FS_RemoveElement
  <2>2. shown' \in Seq(Sessions) /\ total' \in Nat
    BY <1>1, <1>2, <1>5 DEF WindowTyped
  <2> QED
    BY <1>1, <1>2, <2>1, <2>2 DEF WindowTyped
<1>7. WayInv'
  BY <1>1, <1>2, <1>3, <1>4 DEF WayInv
<1>8. Settled(s)' /\ \A r \in Sessions : Settled(r) => Settled(r)'
  BY <1>1, <1>3 DEF Settled
<1>9. ShownInv'
  <2>1. ToSet(list) \subseteq Sessions /\ ToSet(shown) \subseteq Sessions
    BY <1>2 DEF WindowTyped, ToSet
  <2>2. CASE ~mounted
    BY <1>1, <1>2, <1>4, <1>8, <2>1, <2>2 DEF ShownInv
  <2>3. CASE mounted
    <3> DEFINE m == Len(shown')
    <3>1. /\ m \in 0..(Len(shown) + 1) /\ Len(shown) \in Nat /\ (m < MaxShown => m = Len(shown) + 1)
          /\ DOMAIN shown' = 1..m /\ DOMAIN shown = 1..Len(shown)
          /\ \A i \in 1..m : shown'[i] = IF i = 1 THEN s ELSE shown[i - 1]
          /\ \A i \in 1..m : i # 1 => i - 1 \in 1..Len(shown)
      <4>1. shown \in Seq(Sessions) /\ shown' \in Seq(Sessions)
        BY <1>2, <1>5, <2>3 DEF WindowTyped
      <4>2. Len(shown) \in Nat /\ DOMAIN shown' = 1..m /\ DOMAIN shown = 1..Len(shown)
        BY <4>1
      <4> QED
        BY <1>5, <2>3, <4>2
    <3> HIDE DEF m
    <3>2. ToSet(shown') \subseteq {s} \cup ToSet(shown)
      BY <3>1 DEF ToSet
    <3>3. \A r \in ToSet(list) \cup ToSet(shown') : Settled(r)'
      BY <1>2, <1>8, <2>1, <3>2 DEF ShownInv
    <3>4. s \in ToSet(shown) => s \in overlap
      BY <1>1, <1>2 DEF ShownInv, Settled
    <3>5. ASSUME NEW i \in 1..m, NEW j \in 1..m, i # j, shown'[i] = shown'[j]
          PROVE  shown'[i] \in overlap
      <4>1. CASE i = 1
        <5>1. j - 1 \in 1..Len(shown) /\ shown[j - 1] = s
          BY <3>1, <3>5, <4>1
        <5> QED
          BY <3>1, <3>4, <4>1, <5>1 DEF ToSet
      <4>2. CASE j = 1
        <5>1. i - 1 \in 1..Len(shown) /\ shown[i - 1] = s /\ shown'[i] = s
          BY <3>1, <3>5, <4>2
        <5> QED
          BY <3>1, <3>4, <5>1 DEF ToSet
      <4>3. CASE i # 1 /\ j # 1
        <5>1. /\ i - 1 \in 1..Len(shown) /\ j - 1 \in 1..Len(shown) /\ i - 1 # j - 1
              /\ shown'[i] = shown[i - 1] /\ shown'[j] = shown[j - 1]
          BY <3>1, <4>3, <3>5
        <5> QED
          BY <1>2, <3>1, <3>5, <5>1 DEF ShownInv
      <4> QED
        BY <4>1, <4>2, <4>3
    <3>6. ASSUME call["GetRecentSessions"] = "none", m < MaxShown
          PROVE  ToSet(Recent(Limit)) \subseteq ToSet(shown') \cup overlap \cup OnTheWay'
      <4>1. m = Len(shown) + 1 /\ Len(shown) < MaxShown
        BY <3>1, <3>6, TrailAssumption DEF TrailAssumption
      <4>2. shown'[1] = s /\ 1 \in 1..m
        BY <3>1, <4>1
      <4>3. \A i \in 1..Len(shown) : i + 1 \in 1..m /\ shown'[i + 1] = shown[i]
        BY <3>1, <4>1
      <4>4. {s} \cup ToSet(shown) \subseteq ToSet(shown')
        BY <3>1, <4>2, <4>3 DEF ToSet
      <4>5. ToSet(Recent(Limit)) \subseteq ToSet(shown) \cup overlap \cup OnTheWay
        BY <1>2, <2>3, <3>6, <4>1 DEF ShownInv
      <4> QED
        BY <1>3, <4>4, <4>5
    <3>7. mounted /\ call["GetRecentSessions"] = "answered" =>
            ToSet(Recent(Limit)) \subseteq ToSet(list) \cup overlap
      BY <1>2 DEF ShownInv
    <3>8. \A i, j \in DOMAIN list : i # j => list[i] # list[j]
      BY <1>2 DEF ShownInv
    <3> QED
      BY <1>1, <1>4, <3>1, <3>3, <3>5, <3>6, <3>7, <3>8 DEF ShownInv, m
  <2> QED
    BY <2>2, <2>3
<1>10. CountInv'
  <2> SUFFICES ASSUME mounted, count < Capacity
               PROVE  /\ call["GetStats"] = "answered" =>
                           stats <= count /\ count <= stats + Cardinality(overlap)
                      /\ call["GetStats"] = "none" =>
                           /\ total' + Cardinality(OnTheWay') <= count + Cardinality(overlap)
                           /\ count <= total' + Cardinality(overlap \cup OnTheWay')
    BY <1>1 DEF CountInv
  <2>1. /\ IsFiniteSet(overlap) /\ IsFiniteSet(OnTheWay') /\ IsFiniteSet(overlap \cup OnTheWay')
        /\ total \in Nat /\ count \in Nat /\ total' = total + 1
    <3>1. IsFiniteSet(overlap) /\ IsFiniteSet(OnTheWay') /\ total \in Nat
      BY <1>2, <1>3, FS_RemoveElement DEF WindowTyped
    <3>2. count \in Nat
      BY StoreAssumption DEF StoreTypeOK, StoreAssumption
    <3>3. IsFiniteSet(overlap \cup OnTheWay')
      BY <3>1, FS_Union
    <3> QED
      BY <1>1, <3>1, <3>2, <3>3
  <2>2. /\ Cardinality(overlap) \in Nat /\ Cardinality(OnTheWay') \in Nat
        /\ Cardinality(overlap \cup OnTheWay') \in Nat
    BY <2>1, FS_CardinalityType
  <2>3. Cardinality(OnTheWay) = Cardinality(OnTheWay') + 1
    <3>1. OnTheWay = OnTheWay' \cup {s} /\ s \notin OnTheWay'
      BY <1>3
    <3> QED
      BY <2>1, <3>1, FS_AddElement
  <2>4. /\ Cardinality(overlap \cup OnTheWay) \in Nat
        /\ Cardinality(overlap \cup OnTheWay) <= Cardinality(overlap \cup OnTheWay') + 1
    <3>1. overlap \cup OnTheWay = (overlap \cup OnTheWay') \cup {s}
      BY <1>3
    <3>2. Cardinality((overlap \cup OnTheWay') \cup {s}) \in
            {Cardinality(overlap \cup OnTheWay'), Cardinality(overlap \cup OnTheWay') + 1}
      BY <2>1, FS_AddElement
    <3> QED
      BY <2>2, <3>1, <3>2
  <2> QED
    BY <1>2, <2>1, <2>2, <2>3, <2>4 DEF CountInv
<1> QED
  BY <1>6, <1>7, <1>9, <1>10 DEF WindowInv

\* What is on its way when the window mounts may reach it in both ways.
LEMMA MountKeepsWindow == ASSUME LogTyped, WindowInv, Mount PROVE WindowInv'
<1>1. /\ ~mounted /\ mounted' = TRUE /\ call' = [c \in DOMAIN call |-> "asked"]
      /\ overlap' = overlap \cup OnTheWay
      /\ UNCHANGED <<slots, head, count, at, events, list, stats, shown, total>>
  BY DEF Mount, storeVars
<1>2. WindowTyped /\ WayInv /\ ShownInv /\ CountInv
  BY DEF WindowInv
<1>3. /\ call' \in [{"GetRecentSessions", "GetStats"} -> {"none", "asked", "answered"}]
      /\ call'["GetRecentSessions"] = "asked" /\ call'["GetStats"] = "asked"
  BY <1>1, <1>2 DEF WindowTyped
<1>4. /\ OnTheWay' = OnTheWay /\ \A i \in 1..count : RingAt(i)' = RingAt(i)
      /\ list' = <<>> /\ shown' = <<>>
  BY <1>1, <1>2 DEF OnTheWay, RingAt, WayInv
<1>5. WindowTyped'
  <2>1. overlap' \subseteq Sessions /\ IsFiniteSet(overlap')
    BY <1>1, <1>2, FS_Union DEF WindowTyped, OnTheWay
  <2> QED
    BY <1>1, <1>2, <1>3, <1>4, <2>1 DEF WindowTyped
<1>6. WayInv'
  <2>1. \A s \in overlap' : at'[s] \in InRing
    BY <1>1, <1>2 DEF WayInv, OnTheWay, InRing
  <2> QED
    BY <1>1, <1>2, <1>4, <2>1 DEF WayInv
<1>7. ShownInv'
  <2>1. ToSet(list') = {} /\ ToSet(shown') = {} /\ DOMAIN list' = {} /\ DOMAIN shown' = {}
    BY <1>4 DEF ToSet
  <2> QED
    BY <1>3, <2>1 DEF ShownInv
<1>8. CountInv'
  BY <1>3 DEF CountInv
<1> QED
  BY <1>5, <1>6, <1>7, <1>8 DEF WindowInv

\* The answers are read after the window mounted, and what comes to the ring
\* until they are used is on its way.
LEMMA LoadKeepsWindow ==
  ASSUME StoreTypeOK, LogTyped, LogInv, WindowInv, Load
  PROVE  WindowInv'
<1> DEFINE R == "GetRecentSessions"
           S == "GetStats"
<1>1. WindowTyped /\ WayInv /\ ShownInv /\ CountInv
  BY DEF WindowInv
<1>2. /\ UNCHANGED <<slots, head, count, at, events, mounted, overlap>>
      /\ OnTheWay' = OnTheWay /\ \A i \in 1..count : RingAt(i)' = RingAt(i)
      /\ Recent(Limit)' = Recent(Limit) /\ \A s : Settled(s)' <=> Settled(s)
  <2>1. UNCHANGED <<slots, head, count, at, events, mounted, overlap>>
    BY DEF Load, ReadRecent, ReadStats, SetSessions, SetStats, storeVars
  <2> QED
    BY <2>1 DEF OnTheWay, RingAt, Recent, Settled
<1>3. \E c \in {R, S} : \E to \in {"none", "answered"} :
        call[c] # "none" /\ call' = [call EXCEPT ![c] = to]
  BY DEF Load, ReadRecent, ReadStats, SetSessions, SetStats, Step
<1>4. call' \in [{R, S} -> {"none", "asked", "answered"}]
  BY <1>1, <1>3 DEF WindowTyped
<1>5. Loading /\ mounted /\ OnTheWay \subseteq overlap
  BY <1>1, <1>3, LoadingIs DEF WayInv
<1>6. count \in Nat
  BY StoreAssumption DEF StoreAssumption, StoreTypeOK
<1>7. WayInv'
  BY <1>1, <1>2, <1>5 DEF WayInv
<1>8. CASE ReadRecent
  <2>1. /\ call[R] = "asked" /\ call' = [call EXCEPT ![R] = "answered"] /\ list' = Recent(Limit)
        /\ UNCHANGED <<stats, shown, total>>
    BY <1>8 DEF ReadRecent, Step
  <2>2. call'[R] = "answered" /\ call'[S] = call[S]
    BY <1>1, <2>1 DEF WindowTyped
  <2>3. /\ DOMAIN Recent(Limit) = 1..Width /\ Width \in 0..count
        /\ \A i \in 1..Width : Recent(Limit)[i] = RingAt(i)
        /\ Recent(Limit) \in Seq(Sessions)
        /\ ToSet(Recent(Limit)) = {RingAt(i) : i \in 1..Width}
        /\ \A i \in 1..count : RingAt(i) \in Sessions /\ at[RingAt(i)] \in InRing
    BY RecentIs
  <2>4. WindowTyped'
    BY <1>1, <1>2, <1>4, <2>1, <2>3 DEF WindowTyped
  <2>5. \A s \in Sessions : at[s] \in InRing => Settled(s)
    BY <1>5 DEF Settled, OnTheWay, InRing
  <2>6. \A i \in 1..Width : i \in 1..count
    BY <1>6, <2>3
  <2>7. \A s \in ToSet(list') \cup ToSet(shown') : Settled(s)'
    BY <1>1, <1>2, <2>1, <2>3, <2>5, <2>6 DEF ShownInv
  <2>8. \A i, j \in DOMAIN list' : i # j => list'[i] # list'[j]
    BY <1>1, <2>1, <2>3, <2>6 DEF WayInv
  <2>9. ShownInv'
    BY <1>1, <1>2, <2>1, <2>2, <2>7, <2>8 DEF ShownInv
  <2>10. CountInv'
    BY <1>1, <1>2, <2>1, <2>2 DEF CountInv
  <2> QED
    BY <1>7, <2>4, <2>9, <2>10 DEF WindowInv
<1>9. CASE SetSessions
  <2>1. /\ call[R] = "answered" /\ call' = [call EXCEPT ![R] = "none"] /\ shown' = list /\ list' = <<>>
        /\ UNCHANGED <<stats, total>>
    BY <1>9 DEF SetSessions, Step
  <2>2. call'[R] = "none" /\ call'[S] = call[S]
    BY <1>1, <2>1 DEF WindowTyped
  <2>3. WindowTyped'
    BY <1>1, <1>2, <1>4, <2>1 DEF WindowTyped
  <2>4. ToSet(list') = {} /\ DOMAIN list' = {}
    BY <2>1 DEF ToSet
  <2>5. ShownInv'
    BY <1>1, <1>2, <1>5, <2>1, <2>2, <2>4 DEF ShownInv
  <2>6. CountInv'
    BY <1>1, <1>2, <2>1, <2>2 DEF CountInv
  <2> QED
    BY <1>7, <2>3, <2>5, <2>6 DEF WindowInv
<1>10. CASE ReadStats
  <2>1. /\ call[S] = "asked" /\ call' = [call EXCEPT ![S] = "answered"] /\ stats' = count
        /\ UNCHANGED <<list, shown, total>>
    BY <1>10 DEF ReadStats, Step, TotalSessions
  <2>2. call'[S] = "answered" /\ call'[R] = call[R]
    BY <1>1, <2>1 DEF WindowTyped
  <2>3. WindowTyped'
    BY <1>1, <1>2, <1>4, <1>6, <2>1 DEF WindowTyped
  <2>4. ShownInv'
    BY <1>1, <1>2, <2>1, <2>2 DEF ShownInv
  <2>5. Cardinality(overlap) \in Nat
    BY <1>1, FS_CardinalityType DEF WindowTyped
  <2>6. CountInv'
    BY <1>2, <1>6, <2>1, <2>2, <2>5 DEF CountInv
  <2> QED
    BY <1>7, <2>3, <2>4, <2>6 DEF WindowInv
<1>11. CASE SetStats
  <2>1. /\ call[S] = "answered" /\ call' = [call EXCEPT ![S] = "none"] /\ total' = stats /\ stats' = 0
        /\ UNCHANGED <<list, shown>>
    BY <1>11 DEF SetStats, Step
  <2>2. call'[S] = "none" /\ call'[R] = call[R]
    BY <1>1, <2>1 DEF WindowTyped
  <2>3. WindowTyped'
    BY <1>1, <1>2, <1>4, <2>1 DEF WindowTyped
  <2>4. ShownInv'
    BY <1>1, <1>2, <2>1, <2>2 DEF ShownInv
  <2>5. /\ Cardinality(overlap) \in Nat /\ Cardinality(OnTheWay) \in Nat
        /\ Cardinality(OnTheWay) <= Cardinality(overlap)
        /\ overlap \cup OnTheWay = overlap /\ stats \in Nat
    BY <1>1, <1>5, FS_CardinalityType, FS_Subset DEF WindowTyped
  <2>6. ASSUME mounted, count < Capacity
        PROVE  /\ total' + Cardinality(OnTheWay) <= count + Cardinality(overlap)
               /\ count <= total' + Cardinality(overlap \cup OnTheWay)
    <3>1. stats <= count /\ count <= stats + Cardinality(overlap)
      BY <1>1, <2>1, <2>6 DEF CountInv
    <3>2. Cardinality(overlap \cup OnTheWay) = Cardinality(overlap) /\ total' = stats
      BY <2>1, <2>5
    <3>3. stats \in Nat /\ Cardinality(overlap) \in Nat /\ Cardinality(OnTheWay) \in Nat
      BY <2>5
    <3>4. Cardinality(OnTheWay) <= Cardinality(overlap)
      BY <2>5
    <3>5. stats + Cardinality(OnTheWay) <= count + Cardinality(overlap)
      BY <1>6, <3>1, <3>3, <3>4
    <3> QED
      BY <3>1, <3>2, <3>5
  <2>7. CountInv'
    BY <1>2, <2>2, <2>6 DEF CountInv
  <2> QED
    BY <1>7, <2>3, <2>4, <2>7 DEF WindowInv
<1> QED
  BY <1>8, <1>9, <1>10, <1>11 DEF Load

LEMMA CloseKeepsWindow ==
  ASSUME LogTyped, WindowInv, Quit \/ Restart
  PROVE  WindowInv'
<1>1. /\ events' = {} /\ mounted' = FALSE /\ list' = <<>> /\ shown' = <<>> /\ stats' = 0 /\ total' = 0
      /\ call' = [c \in {"GetRecentSessions", "GetStats"} |-> "none"]
  BY DEF Quit, Restart, CloseWindow, NoCalls
<1>2. WindowTyped /\ WayInv
  BY DEF WindowInv
<1>3. ~Loading'
  BY <1>1 DEF Loading
<1>4. ToSet(list') = {} /\ ToSet(shown') = {} /\ DOMAIN list' = {} /\ DOMAIN shown' = {}
  BY <1>1 DEF ToSet
<1>5. ShownInv' /\ CountInv'
  BY <1>1, <1>4 DEF ShownInv, CountInv
<1>6. /\ OnTheWay' \subseteq OnTheWay /\ overlap' \subseteq overlap
      /\ \A s \in overlap' : at'[s] \in InRing
      /\ \A i, j \in 1..count' : i # j => RingAt(i)' # RingAt(j)'
  <2>1. CASE Quit
    <3>1. UNCHANGED <<slots, head, count, at, overlap>>
      BY <2>1 DEF Quit, storeVars
    <3>2. \A i \in 1..count : RingAt(i)' = RingAt(i)
      BY <3>1 DEF RingAt
    <3> QED
      BY <1>1, <1>2, <3>1, <3>2 DEF OnTheWay, WayInv
  <2>2. CASE Restart
    <3>1. count' = 0 /\ overlap' = {} /\ \A s \in Sessions : at'[s] \in {"logger", "gone"}
      BY <2>2, SinkFacts DEF Restart, NewSessionStore
    <3>2. OnTheWay' = {}
      BY <1>1, <3>1 DEF OnTheWay
    <3> QED
      BY <3>1, <3>2
  <2> QED
    BY <2>1, <2>2
<1>7. WayInv'
  BY <1>1, <1>3, <1>6 DEF WayInv
<1>8. IsFiniteSet(OnTheWay') /\ IsFiniteSet(overlap')
  BY <1>2, <1>6, FS_Subset DEF WindowTyped
<1>9. WindowTyped'
  <2>0. <<>> \in Seq(Sessions)
    OBVIOUS
  <2>1. call' \in [{"GetRecentSessions", "GetStats"} -> {"none", "asked", "answered"}]
    BY <1>1, Zenon
  <2>2. events' \subseteq Sessions /\ overlap' \subseteq Sessions
    BY <1>1, <1>2, <1>6 DEF WindowTyped
  <2> QED
    BY <1>1, <1>8, <2>0, <2>1, <2>2 DEF WindowTyped
<1> QED
  BY <1>5, <1>7, <1>9 DEF WindowInv

LEMMA NextKeepsWindow ==
  ASSUME TrailInv, TrailInv', WindowInv, [Next]_vars
  PROVE  WindowInv'
<1>1. StoreTypeOK /\ StoreTypeOK' /\ LogTyped /\ LogInv /\ LogInv'
  BY DEF TrailInv
<1>2. CASE \/ Tick /\ UNCHANGED <<storeVars, at, events, windowVars, endVars, overlap>>
           \/ UNCHANGED vars
  <2>1. UNCHANGED <<slots, head, count, at, events, mounted, call, list, stats, shown, total, overlap>>
    BY <1>2 DEF vars, storeVars, windowVars
  <2>2. /\ OnTheWay' = OnTheWay /\ Loading' = Loading /\ Recent(Limit)' = Recent(Limit)
        /\ \A i : RingAt(i)' = RingAt(i) /\ Settled(i)' = Settled(i)
    BY <2>1 DEF OnTheWay, Loading, Recent, RingAt, Settled
  <2> QED
    BY <2>1, <2>2 DEF WindowInv, WindowTyped, WayInv, ShownInv, CountInv
<1> QED
  BY <1>1, <1>2, LoggerKeepsWindow, StoreKeepsWindow, NotifyKeepsWindow, DeliverKeepsWindow,
     MountKeepsWindow, LoadKeepsWindow, CloseKeepsWindow DEF Next, Handler

LEMMA InitWindow == Init => WindowInv
<1> SUFFICES ASSUME Init PROVE WindowInv
  OBVIOUS
<1>1. /\ events = {} /\ mounted = FALSE /\ list = <<>> /\ shown = <<>> /\ stats = 0 /\ total = 0
      /\ call = [c \in {"GetRecentSessions", "GetStats"} |-> "none"] /\ overlap = {} /\ count = 0
      /\ at = [s \in Sessions |-> "logger"]
  BY SinkFacts DEF Init, NoCalls, StoreInit
<1>2. OnTheWay = {} /\ ~Loading /\ IsFiniteSet({})
  BY <1>1, FS_EmptySet DEF OnTheWay, Loading
<1>3. ToSet(list) = {} /\ ToSet(shown) = {} /\ DOMAIN list = {} /\ DOMAIN shown = {}
  BY <1>1 DEF ToSet
<1>4. WindowTyped /\ WayInv
  <2>0. <<>> \in Seq(Sessions)
    OBVIOUS
  <2>1. call \in [{"GetRecentSessions", "GetStats"} -> {"none", "asked", "answered"}]
    BY <1>1, Zenon
  <2>2. mounted \in BOOLEAN /\ stats \in Nat /\ total \in Nat
        /\ IsFiniteSet(OnTheWay) /\ IsFiniteSet(overlap)
    BY <1>1, <1>2
  <2>3. WindowTyped
    BY <1>1, <2>0, <2>1, <2>2 DEF WindowTyped
  <2>4. \A i, j \in 1..count : i # j => RingAt(i) # RingAt(j)
    BY <1>1
  <2>5. WayInv
    BY <1>1, <1>2, <2>4 DEF WayInv
  <2> QED
    BY <2>3, <2>5
<1>5. ShownInv /\ CountInv
  BY <1>1, <1>3 DEF ShownInv, CountInv
<1> QED
  BY <1>4, <1>5 DEF WindowInv

-----------------------------------------------------------------------------
(* The theorems.                                                           *)

\* What the proofs of this module keep, all of it.
THEOREM TrailInvariant == Spec => [](TrailInv /\ WindowInv)
<1>1. Init => TrailInv /\ WindowInv
  BY InitTrail, InitWindow
<1>2. TrailInv /\ WindowInv /\ [Next]_vars => TrailInv' /\ WindowInv'
  BY NextKeepsTrail, NextKeepsWindow
<1> QED
  BY <1>1, <1>2, PTL DEF Spec

\* Without failures a file stays below maxSize up to its last line, whatever
\* the lengths of the lines; each crash between a write and its rotation lets
\* one more line in (logger.go:43-53, 66-71).
THEOREM FilesStaySmall == Spec => []FilesAreBounded
<1>1. TrailInv => FilesAreBounded
  BY DEF TrailInv, SizeInv, FilesAreBounded
<1> QED
  BY <1>1, TrailInvariant, PTL

\* A session that was written is in a log file or went to stdout, through
\* rotations, failures, restarts and crashes, unless its file was replaced by
\* another rotation of the same second (logger.go:55-91).
THEOREM SessionsAreKept == Spec => []WrittenIsKept
<1>1. TrailInv => WrittenIsKept
  <2> SUFFICES ASSUME TrailInv, NEW x \in ToSet(written)
               PROVE  \/ x \in ToSet(console) \cup replaced
                      \/ \E t \in DOMAIN Files : x \in ToSet(Files[t])
    BY DEF WrittenIsKept
  <2> QED
    BY FilesAre DEF TrailInv, KeptInv
<1> QED
  BY <1>1, TrailInvariant, PTL

\* The files, read in the order of their names with the current one last, hold
\* sessions in the order they were written, none of them twice, whatever has
\* been lost (logger.go:66, 78-83).
THEOREM FilesAreInOrder == Spec => []FilesKeepOrder
<1>1. ASSUME TrailInv,
             NEW t \in DOMAIN Files, NEW u \in DOMAIN Files,
             NEW i \in DOMAIN Files[t], NEW j \in DOMAIN Files[u]
      PROVE  /\ Files[t][i] \in ToSet(written)
             /\ t < u \/ (t = u /\ i < j) =>
                  /\ Files[t][i] # Files[u][j]
                  /\ \E k, l \in DOMAIN written :
                       k < l /\ written[k] = Files[t][i] /\ written[l] = Files[u][j]
  <2> DEFINE x == Files[t][i]
             y == Files[u][j]
  <2>1. /\ x \in ToSet(Files[t]) /\ y \in ToSet(Files[u]) /\ x \in ToSet(written) /\ y \in ToSet(written)
        /\ Rising(Files[u]) /\ (t < u => Earlier(Files[t], Files[u]))
    BY <1>1, FilesAre DEF ToSet
  <2>2. t < u \/ (t = u /\ i < j) => x < y
    BY <2>1 DEF Rising, Earlier
  <2>3. PICK k, l \in DOMAIN written : written[k] = x /\ written[l] = y
    BY <2>1 DEF ToSet
  <2>4. /\ DOMAIN written = 1..Len(written) /\ Len(written) \in Nat
        /\ x \in Int /\ y \in Int /\ Rising(written)
    BY <1>1, <2>3 DEF TrailInv, LogTyped, FileInv
  <2> HIDE DEF x, y
  <2>5. x < y => k < l
    <3> SUFFICES ASSUME x < y, ~(k < l) PROVE FALSE
      OBVIOUS
    <3>1. CASE k = l
      BY <2>3, <2>4, <3>1
    <3>2. CASE l < k
      <4>1. y < x
        BY <2>3, <3>2, <2>4 DEF Rising
      <4> QED
        BY <2>4, <4>1
    <3> QED
      BY <2>4, <3>1, <3>2
  <2>6. x < y => x # y
    BY <2>4
  <2> QED
    BY <2>1, <2>2, <2>3, <2>5, <2>6 DEF x, y
<1>2. TrailInv => FilesKeepOrder
  BY <1>1 DEF FilesKeepOrder
<1> QED
  BY <1>2, TrailInvariant, PTL

\* As long as nothing failed, what the store holds, and what the window shows
\* of it, has been written to the audit log before (main.go:97,
\* observer.go:17).
THEOREM LoggedBeforeSeen == Spec => []LoggedFirst
<1>1. TrailInv /\ WindowInv => LoggedFirst
  <2> SUFFICES ASSUME TrailInv, WindowInv, faults = 0, ~quit
               PROVE  Held \cup ToSet(shown) \subseteq ToSet(written)
    BY DEF LoggedFirst
  <2>1. \A s \in Sessions : at[s] \in InRing => s \in ToSet(written)
    BY DEF TrailInv, LogInv, InRing, Passed
  <2>2. StoreTypeOK /\ LogInv /\ WindowTyped /\ WayInv /\ ShownInv
    BY DEF TrailInv, WindowInv
  <2>3. ASSUME NEW s \in Held
        PROVE  s \in Sessions /\ at[s] \in InRing
    <3>1. DOMAIN Recent(0) = 1..count
      BY DEF Recent
    <3>2. PICK i \in 1..count : s = slots[(head - i + Capacity) % Capacity]
      BY <2>2, <3>1, RecentIsSeq DEF Held, ToSet
    <3> QED
      BY <2>2, <3>2, Zenon DEF LogInv
  <2>4. ASSUME NEW s \in ToSet(shown)
        PROVE  s \in Sessions /\ at[s] \in InRing
    <3>1. s \in Sessions
      BY <2>2 DEF WindowTyped, ToSet
    <3>2. Settled(s)
      BY <2>2 DEF ShownInv
    <3> QED
      BY <2>2, <3>1, <3>2 DEF Settled, WayInv, InRing
  <2> QED
    BY <2>1, <2>3, <2>4
<1> QED
  BY <1>1, TrailInvariant, PTL

\* Once loaded, and with no session on its way, the window agrees with the
\* store: it shows every recent session, each once, and the right total,
\* except for sessions that came in while it was loading; their events are
\* overwritten by the answer, or count twice (useSessions.ts:13-29).
THEOREM WindowFollowsStore == Spec => []WindowAgrees
<1>1. TrailInv /\ WindowInv => WindowAgrees
  <2> SUFFICES ASSUME TrailInv, WindowInv, mounted, ~Loading, OnTheWay = {}
               PROVE  /\ \A i, j \in DOMAIN shown : i # j /\ shown[i] = shown[j] => shown[i] \in overlap
                      /\ Len(shown) < MaxShown => ToSet(Recent(Limit)) \subseteq ToSet(shown) \cup overlap
                      /\ count < Capacity =>
                           /\ total <= count + Cardinality(overlap)
                           /\ count <= total + Cardinality(overlap)
    BY DEF WindowAgrees
  <2>1. /\ WindowTyped /\ ShownInv /\ CountInv
        /\ call["GetRecentSessions"] = "none" /\ call["GetStats"] = "none"
    BY LoadingIs DEF WindowInv
  <2>2. overlap \cup OnTheWay = overlap /\ Cardinality(OnTheWay) = 0 /\ total \in Nat
    BY <2>1, FS_EmptySet DEF WindowTyped
  <2> QED
    BY <2>1, <2>2 DEF ShownInv, CountInv
<1> QED
  BY <1>1, TrailInvariant, PTL

=============================================================================
