---------------------------- MODULE SessionStore ----------------------------
(***************************************************************************)
(* The ring buffer of internal/audit/store.go.  Every method holds s.mu    *)
(* while it touches the ring, so that each is one step; the observers are  *)
(* called after the unlock, in AuditTrail.                                 *)
(***************************************************************************)
EXTENDS Integers, Sequences

CONSTANTS
  Sessions,  \* audited sessions, numbered from 1
  Capacity   \* s.capacity

ASSUME StoreAssumption == Sessions \subseteq Nat \ {0} /\ Capacity \in Nat \ {0}

VARIABLES
  slots,  \* s.sessions
  head,   \* s.head
  count   \* s.count

storeVars == <<slots, head, count>>

Empty == 0

StoreTypeOK ==
  /\ slots \in [0..(Capacity - 1) -> Sessions \cup {Empty}]
  /\ head \in 0..(Capacity - 1)
  /\ count \in 0..Capacity

NoSessions == [i \in 0..(Capacity - 1) |-> Empty]

StoreInit == slots = NoSessions /\ head = 0 /\ count = 0

\* the next process begins with an empty ring
NewSessionStore == slots' = NoSessions /\ head' = 0 /\ count' = 0

\* Mutant: the count goes on after the ring is full.
StoreLogCounting(s) ==
  /\ slots' = [slots EXCEPT ![head] = s]
  /\ head' = (head + 1) % Capacity
  /\ count' = count + 1

StoreLog(s) ==
  /\ slots' = [slots EXCEPT ![head] = s]
  /\ head' = (head + 1) % Capacity
  /\ count' = IF count < Capacity THEN count + 1 ELSE count

\* a limit of 0 asks for everything
Recent(limit) ==
  [i \in 1..(IF limit = 0 \/ limit > count THEN count ELSE limit) |->
     slots[(head - i + Capacity) % Capacity]]

TotalSessions == count

=============================================================================
