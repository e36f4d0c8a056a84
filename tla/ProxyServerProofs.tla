-------------------------- MODULE ProxyServerProofs --------------------------
(***************************************************************************)
(* Proofs about ProxyServer, for any callers and any number of Starts.     *)
(***************************************************************************)
EXTENDS ProxyServer, TLAPS

LEMMA StartsAreNumbers ==
  /\ MaxStarts \in Nat
  /\ Starts \subseteq Nat
  /\ None \notin Starts /\ None = 0
<1>1. MaxStarts \in Nat
  BY ServerAssumption DEF ServerAssumption
<1> QED
  BY <1>1 DEF Starts, None

LEMMA InitTyped == Init => TypeOK
<1>1. 0 \in 0..MaxStarts
  BY StartsAreNumbers
<1> QED
  BY <1>1 DEF Init, TypeOK

LEMMA NextTyped == TypeOK /\ [Next]_vars => TypeOK'
<1> SUFFICES ASSUME TypeOK, [Next]_vars PROVE TypeOK'
  OBVIOUS
<1> USE DEF TypeOK
<1>1. ASSUME NEW u \in Callers, Start(u)
      PROVE  TypeOK'
  <2>1. started' \in Starts /\ started' \in 0..MaxStarts
    BY <1>1, StartsAreNumbers DEF Start, Starts
  <2> QED
    BY <1>1, <2>1 DEF Start
<1>2. ASSUME NEW u \in Callers, StartReturns(u)
      PROVE  TypeOK'
  BY <1>2 DEF StartReturns
<1>3. ASSUME NEW u \in Callers, Stop(u)
      PROVE  TypeOK'
  BY <1>3 DEF Stop
<1>4. ASSUME NEW g \in Starts, Serve(g) \/ CloseListener(g)
      PROVE  TypeOK'
  BY <1>4 DEF Serve, Listen, AcceptFails, ClearRunning, Report, CloseListener
<1>5. CASE UNCHANGED vars
  BY <1>5 DEF vars
<1> QED
  BY <1>1, <1>2, <1>3, <1>4, <1>5 DEF Next

\* Every reachable state is well typed.
THEOREM TypeCorrect == Spec => []TypeOK
  BY InitTyped, NextTyped, PTL DEF Spec

-----------------------------------------------------------------------------
(* The inductive invariant: one lemma for the callers, one for the         *)
(* goroutines.                                                             *)

\* A new Start finds no live goroutine, and becomes the last.
LEMMA StartKeeps ==
  ASSUME TypeOK, ServerInv, NEW u \in Callers, Start(u)
  PROVE  ServerInv'
<1> DEFINE s == started + 1
<1>1. /\ s \in Starts /\ s > started /\ started' = s /\ started \in Nat
      /\ holder = "free" /\ holder' = u /\ running' = TRUE /\ ~running /\ cancel' = s
      /\ at[u] = "idle" /\ at' = [at EXCEPT ![u] = "starting"]
      /\ mine' = [mine EXCEPT ![u] = s]
      /\ serve' = [serve EXCEPT ![s] = "listen"]
      /\ UNCHANGED <<cancelled, reported>>
  BY StartsAreNumbers DEF Start, TypeOK, Starts
<1> HIDE DEF s
<1>2. serve'[s] = "listen" /\ \A g \in Starts \ {s} : serve'[g] = serve[g]
  BY <1>1 DEF TypeOK
<1>3. \A g \in Starts : Live(g)' <=> g = s
  BY <1>1, <1>2 DEF ServerInv, Live
<1>4. s \notin cancelled' \cup reported'
  BY <1>1 DEF ServerInv
<1>5. \A g \in Starts : g > s => g > started /\ g # s
  BY <1>1, StartsAreNumbers
<1>6. \A v \in Callers : at'[v] = "starting" <=> v = u
  BY <1>1, ServerAssumption DEF ServerInv, TypeOK
<1>7. mine'[u] = s /\ \A v \in Callers : at'[v] # "stuck"
  BY <1>1 DEF ServerInv, NeverStuck, TypeOK
<1>8. \A g \in Starts : g \in reported' <=> serve'[g] = "done"
  BY <1>1, <1>2, <1>4 DEF ServerInv
<1>9. cancel' <= started'
  BY <1>1, StartsAreNumbers
<1>10. \A g \in Starts : g > started' => serve'[g] = "none" /\ g \notin cancelled' \cup reported'
  BY <1>1, <1>2, <1>5 DEF ServerInv
<1> QED
  BY <1>1, <1>2, <1>3, <1>4, <1>6, <1>7, <1>8, <1>9, <1>10 DEF ServerInv, NeverStuck

\* While a caller is in Start its errCh stays empty, so that it returns by its
\* timer.
LEMMA ReturnKeeps ==
  ASSUME TypeOK, ServerInv, NEW u \in Callers, StartReturns(u)
  PROVE  ServerInv'
<1>1. /\ at[u] = "starting" /\ holder = u /\ mine[u] \notin reported
  BY DEF StartReturns, ServerInv
<1>2. /\ at' = [at EXCEPT ![u] = "idle"] /\ holder' = "free"
      /\ UNCHANGED <<running, cancel, started, mine, serve, cancelled, reported>>
  BY <1>1 DEF StartReturns
<1>3. \A v \in Callers : at'[v] # "starting" /\ at'[v] # "stuck" /\ v # "free"
  BY <1>1, <1>2, ServerAssumption DEF ServerInv, NeverStuck, TypeOK
<1>4. \A g \in Starts : Live(g)' <=> Live(g)
  BY <1>2 DEF Live
<1>5. started' \in Starts => (Live(started)' <=> Live(started))
  BY <1>2, <1>4
<1> QED
  BY <1>2, <1>3, <1>4, <1>5 DEF ServerInv, NeverStuck

LEMMA StopKeeps ==
  ASSUME TypeOK, ServerInv, NEW u \in Callers, Stop(u)
  PROVE  ServerInv'
<1>1. /\ cancel \in Starts /\ cancelled' = cancelled \cup {cancel} /\ cancel' = 0
      /\ UNCHANGED <<holder, running, started, at, mine, serve, reported>>
  BY StartsAreNumbers DEF Stop, TypeOK
<1>2. \A g \in Starts : Live(g)' <=> Live(g)
  BY <1>1 DEF Live
<1>3. started' \in Starts => (Live(started)' <=> Live(started))
  BY <1>1, <1>2
<1>4. /\ started \in Nat
      /\ cancel <= started
      /\ \A g \in Starts : g > started => g \notin cancelled'
  BY <1>1, StartsAreNumbers DEF ServerInv, TypeOK
<1>5. started \in Starts /\ Live(started) => started \in cancelled'
  BY <1>1, StartsAreNumbers DEF ServerInv
<1> QED
  BY <1>1, <1>2, <1>3, <1>4, <1>5 DEF ServerInv, NeverStuck

\* A goroutine that goes on serving, or that fails and has still to clear the
\* flag, is live before and after.
LEMMA ServingKeeps ==
  ASSUME TypeOK, ServerInv, NEW g \in Starts, Listen(g) \/ AcceptFails(g)
  PROVE  ServerInv'
<1>1. UNCHANGED <<holder, running, cancel, started, at, mine, cancelled, reported>>
  BY DEF Listen, AcceptFails
<1>2. PICK where \in {"accept", "stopped"} : serve' = [serve EXCEPT ![g] = where]
  BY DEF Listen, AcceptFails
<1>3. Live(g) /\ serve[g] # "done"
  BY DEF Listen, AcceptFails, Live
<1>4. \A h \in Starts :
        /\ Live(h)' <=> Live(h)
        /\ serve'[h] = "done" <=> serve[h] = "done"
        /\ serve[h] = "none" => serve'[h] = "none"
  BY <1>2, <1>3 DEF Live, TypeOK
<1>5. started' \in Starts => (Live(started)' <=> Live(started))
  BY <1>1, <1>4
<1> QED
  BY <1>1, <1>4, <1>5 DEF ServerInv, NeverStuck

\* The goroutine of the last Start clears the flag only when no caller is in
\* Start.
LEMMA ClearKeeps ==
  ASSUME TypeOK, ServerInv, NEW g \in Starts, ClearRunning(g)
  PROVE  ServerInv'
<1>1. /\ holder = "free" /\ running' = FALSE
      /\ serve' = [serve EXCEPT ![g] = "report"]
      /\ UNCHANGED <<holder, cancel, started, at, mine, cancelled, reported>>
  BY DEF ClearRunning
<1>2. serve[g] = "stopped" /\ Live(g) /\ g = started
  BY DEF ClearRunning, Live, ServerInv
<1>3. \A h \in Starts :
        /\ ~Live(h)'
        /\ serve'[h] = "done" <=> serve[h] = "done"
        /\ serve[h] = "none" => serve'[h] = "none"
  BY <1>1, <1>2 DEF Live, TypeOK, ServerInv
<1>4. \A u \in Callers : at'[u] # "starting"
  BY <1>1, ServerAssumption DEF ServerInv
<1>5. started' \in Starts => ~Live(started)'
  BY <1>1, <1>3
<1> QED
  BY <1>1, <1>3, <1>4, <1>5 DEF ServerInv, NeverStuck

\* It reports after that, when nobody waits for its errCh any more.
LEMMA ReportKeeps ==
  ASSUME TypeOK, ServerInv, NEW g \in Starts, Report(g)
  PROVE  ServerInv'
<1>1. /\ serve[g] = "report" /\ reported' = reported \cup {g}
      /\ serve' = [serve EXCEPT ![g] = "done"]
      /\ UNCHANGED <<holder, running, cancel, started, at, mine, cancelled>>
  BY DEF Report
<1>2. \A h \in Starts :
        /\ Live(h)' <=> Live(h)
        /\ serve'[h] = "done" <=> serve[h] = "done" \/ h = g
        /\ serve[h] = "none" => serve'[h] = "none" /\ h # g
  BY <1>1 DEF Live, TypeOK
<1>3. started' \in Starts => (Live(started)' <=> Live(started))
  BY <1>1, <1>2
<1>4. ~Live(g)
  BY <1>1 DEF Live
<1> QED
  BY <1>1, <1>2, <1>3, <1>4 DEF ServerInv, NeverStuck

LEMMA NextKeeps == TypeOK /\ ServerInv /\ [Next]_vars => ServerInv'
<1> SUFFICES ASSUME TypeOK, ServerInv, [Next]_vars PROVE ServerInv'
  OBVIOUS
<1>1. ASSUME NEW u \in Callers, Start(u) \/ StartReturns(u) \/ Stop(u)
      PROVE  ServerInv'
  BY <1>1, StartKeeps, ReturnKeeps, StopKeeps
<1>2. ASSUME NEW g \in Starts, Serve(g)
      PROVE  ServerInv'
  BY <1>2, ServingKeeps, ClearKeeps, ReportKeeps DEF Serve
<1>3. ASSUME NEW g \in Starts, CloseListener(g)
      PROVE  ServerInv'
  BY <1>3 DEF CloseListener, ServerInv, Live, NeverStuck
<1>4. CASE UNCHANGED vars
  BY <1>4 DEF vars, ServerInv, Live, NeverStuck
<1> QED
  BY <1>1, <1>2, <1>3, <1>4 DEF Next

LEMMA InitInv == Init => ServerInv
  BY StartsAreNumbers, ServerAssumption DEF Init, ServerInv, Live, NeverStuck

\* The bookkeeping of the Starts agrees with the goroutines they launched.
THEOREM ServerInvariant == Spec => [](TypeOK /\ ServerInv)
  BY InitTyped, NextTyped, InitInv, NextKeeps, PTL DEF Spec

-----------------------------------------------------------------------------
(* What the invariant gives.                                               *)

\* A Start never locks the mutex it holds.
THEOREM StartNeverStuck == Spec => []NeverStuck
<1>1. ServerInv => NeverStuck
  BY DEF ServerInv
<1> QED
  BY <1>1, ServerInvariant, PTL

\* s.running says whether a goroutine serves, and there is at most one.
THEOREM FlagIsTrue == Spec => []RunningIsTrue
<1>1. TypeOK /\ ServerInv => RunningIsTrue
  BY DEF ServerInv, RunningIsTrue
<1> QED
  BY <1>1, ServerInvariant, PTL

\* s.cancel cancels whatever serves and has not been cancelled.
THEOREM StopReaches == Spec => []StopReachesIt
<1>1. TypeOK /\ ServerInv => StopReachesIt
  <2> SUFFICES ASSUME TypeOK, ServerInv, NEW g \in Starts,
                      serve[g] \in {"listen", "accept"}, g \notin cancelled
               PROVE  cancel = g
    BY DEF StopReachesIt
  <2>1. Live(g) /\ g = started
    BY DEF Live, ServerInv
  <2> QED
    BY <2>1 DEF ServerInv
<1> QED
  BY <1>1, ServerInvariant, PTL

=============================================================================
