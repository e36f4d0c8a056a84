----------------------------- MODULE ProxyServer -----------------------------
(***************************************************************************)
(* Starting and stopping the proxy: Server.Start, Stop and IsRunning of    *)
(* internal/proxy/proxy.go, called by App on goroutines of their own       *)
(* (startup, the UI's start and stop button, the tray, shutdown), and the  *)
(* goroutines a Start launches: the one that runs ListenAndServe, and the  *)
(* one that closes the listener when the context is cancelled.             *)
(*                                                                         *)
(* Start holds s.mu for up to 100ms, until its timer fires or the server's *)
(* goroutine reports.  Every other section under s.mu is one step.  Starts *)
(* are numbered; a number stands for the context, the listener and the     *)
(* errCh of that Start.                                                    *)
(***************************************************************************)
EXTENDS Naturals

CONSTANTS
  Callers,   \* goroutines that call Start and Stop
  MaxStarts  \* bound on the successful calls of Start

ASSUME ServerAssumption ==
  /\ MaxStarts \in Nat
  /\ "free" \notin Callers

Starts == 1..MaxStarts
None == 0

VARIABLES
  holder,    \* who holds s.mu, "free" if nobody does
  running,   \* s.running
  cancel,    \* the Start that s.cancel cancels, None for nil
  started,   \* number of Starts so far
  at,        \* "idle", "starting", or "stuck" on the mutex it holds
  mine,      \* the Start a caller is in
  serve,     \* where the goroutine of each Start is
  failed,    \* Starts whose net.Listen failed
  listening, \* Starts whose listener is open
  cancelled, \* Starts whose context is done
  reported,  \* Starts whose errCh has its error or is closed
  misled     \* history: Starts that returned nil after net.Listen had failed

vars == <<holder, running, cancel, started, at, mine, serve, failed, listening,
          cancelled, reported, misled>>

TypeOK ==
  /\ holder \in Callers \cup {"free"}
  /\ running \in BOOLEAN
  /\ cancel \in Starts \cup {None}
  /\ started \in 0..MaxStarts
  /\ at \in [Callers -> {"idle", "starting", "stuck"}]
  /\ mine \in [Callers -> Starts \cup {None}]
  /\ serve \in [Starts -> {"none", "listen", "accept", "stopped", "report", "done"}]
  /\ failed \subseteq Starts
  /\ listening \subseteq Starts
  /\ cancelled \subseteq Starts
  /\ reported \subseteq Starts
  /\ misled \subseteq Starts

Init ==
  /\ holder = "free"
  /\ running = FALSE
  /\ cancel = None
  /\ started = 0
  /\ at = [u \in Callers |-> "idle"]
  /\ mine = [u \in Callers |-> None]
  /\ serve = [g \in Starts |-> "none"]
  /\ failed = {}
  /\ listening = {}
  /\ cancelled = {}
  /\ reported = {}
  /\ misled = {}

-----------------------------------------------------------------------------
(* Start and Stop.                                                         *)

\* a Start that finds the server running returns an error and changes nothing
Start(u) ==
  /\ at[u] = "idle"
  /\ holder = "free"
  /\ ~running
  /\ started < MaxStarts
  /\ started' = started + 1
  /\ holder' = u
  /\ running' = TRUE
  /\ cancel' = started'
  /\ at' = [at EXCEPT ![u] = "starting"]
  /\ mine' = [mine EXCEPT ![u] = started']
  /\ serve' = [serve EXCEPT ![started'] = "listen"]
  /\ UNCHANGED <<failed, listening, cancelled, reported, misled>>

\* Mutant: Start drops s.cancel however it ends.
StartForgets(u) ==
  /\ at[u] = "starting"
  /\ at' = [at EXCEPT ![u] = "idle"]
  /\ holder' = "free"
  /\ cancel' = None
  /\ UNCHANGED <<running, started, mine, serve, failed, listening, cancelled, reported, misled>>

\* the timer fires, or errCh is ready: then Start locks s.mu a second time
StartReturns(u) ==
  /\ at[u] = "starting"
  /\ \E error \in IF mine[u] \in reported THEN BOOLEAN ELSE {FALSE} :
       /\ at' = [at EXCEPT ![u] = IF error THEN "stuck" ELSE "idle"]
       /\ holder' = IF error THEN holder ELSE "free"
       /\ misled' = IF error THEN misled ELSE misled \cup (failed \cap {mine[u]})
  /\ UNCHANGED <<running, cancel, started, mine, serve, failed, listening, cancelled, reported>>

\* Mutant: Stop clears the flag itself.
StopClearing(u) ==
  /\ at[u] = "idle"
  /\ holder = "free"
  /\ cancel # None
  /\ cancelled' = cancelled \cup {cancel}
  /\ cancel' = None
  /\ running' = FALSE
  /\ UNCHANGED <<holder, started, at, mine, serve, failed, listening, reported, misled>>

Stop(u) ==
  /\ at[u] = "idle"
  /\ holder = "free"
  /\ cancel # None
  /\ cancelled' = cancelled \cup {cancel}
  /\ cancel' = None
  /\ UNCHANGED <<holder, running, started, at, mine, serve, failed, listening, reported, misled>>

-----------------------------------------------------------------------------
(* The goroutines of a Start.                                              *)

\* Mutant: ListenAndServe reports the error of net.Listen itself.
ListenReporting(g) ==
  /\ serve[g] = "listen"
  /\ failed' = failed \cup {g}
  /\ reported' = reported \cup {g}
  /\ serve' = [serve EXCEPT ![g] = "stopped"]
  /\ UNCHANGED <<holder, running, cancel, started, at, mine, listening, cancelled, misled>>

\* net.Listen fails when the port is taken, by an earlier listener or by
\* another program
Listen(g) ==
  /\ serve[g] = "listen"
  /\ \/ /\ listening = {}
        /\ listening' = {g}
        /\ serve' = [serve EXCEPT ![g] = "accept"]
        /\ UNCHANGED failed
     \/ /\ failed' = failed \cup {g}
        /\ serve' = [serve EXCEPT ![g] = "stopped"]
        /\ UNCHANGED listening
  /\ UNCHANGED <<holder, running, cancel, started, at, mine, cancelled, reported, misled>>

\* Mutant: the loop looks at the context only while the listener is open.
AcceptFailsOpen(g) ==
  /\ serve[g] = "accept"
  /\ g \in cancelled \cap listening
  /\ serve' = [serve EXCEPT ![g] = "stopped"]
  /\ UNCHANGED <<holder, running, cancel, started, at, mine, failed, listening, cancelled,
                 reported, misled>>

\* an error of Accept ends the loop only when the context is done; the error
\* need not be that of the closed listener
AcceptFails(g) ==
  /\ serve[g] = "accept"
  /\ g \in cancelled
  /\ serve' = [serve EXCEPT ![g] = "stopped"]
  /\ UNCHANGED <<holder, running, cancel, started, at, mine, failed, listening, cancelled,
                 reported, misled>>

CloseListener(g) ==
  /\ g \in listening \cap cancelled
  /\ listening' = listening \ {g}
  /\ UNCHANGED <<holder, running, cancel, started, at, mine, serve, failed, cancelled, reported,
                 misled>>

ClearRunning(g) ==
  /\ serve[g] = "stopped"
  /\ holder = "free"
  /\ running' = FALSE
  /\ serve' = [serve EXCEPT ![g] = "report"]
  /\ UNCHANGED <<holder, cancel, started, at, mine, failed, listening, cancelled, reported,
                 misled>>

\* the error, if any, and the closing of errCh
Report(g) ==
  /\ serve[g] = "report"
  /\ reported' = reported \cup {g}
  /\ serve' = [serve EXCEPT ![g] = "done"]
  /\ UNCHANGED <<holder, running, cancel, started, at, mine, failed, listening, cancelled, misled>>

-----------------------------------------------------------------------------
Serve(g) == Listen(g) \/ AcceptFails(g) \/ ClearRunning(g) \/ Report(g)

Next ==
  \/ \E u \in Callers : Start(u) \/ StartReturns(u) \/ Stop(u)
  \/ \E g \in Starts : Serve(g) \/ CloseListener(g)

\* the scheduler runs the goroutines, a Go mutex does not starve who waits for
\* it, and the timer of Start fires; nobody need call Start or Stop
Fairness ==
  /\ \A u \in Callers : WF_vars(StartReturns(u))
  /\ \A g \in Starts : SF_vars(Serve(g)) /\ WF_vars(CloseListener(g))

Spec == Init /\ [][Next]_vars /\ Fairness

-----------------------------------------------------------------------------
(* Properties.                                                             *)

Live(g) == serve[g] \in {"listen", "accept", "stopped"}

\* Start never waits for the mutex it holds: the server's goroutine reports
\* only after it has had the mutex itself (proxy.go:50-72).
NeverStuck == \A u \in Callers : at[u] # "stuck"

\* IsRunning tells the truth: TRUE while the goroutine of some Start serves
\* or is about to clear the flag, FALSE when there is none, and there is never
\* a second one (proxy.go:41-59).
RunningIsTrue ==
  /\ running <=> \E g \in Starts : Live(g)
  /\ \A g, h \in Starts : Live(g) /\ Live(h) => g = h

\* Stop reaches whatever serves: s.cancel is the context of the goroutine
\* that has not been cancelled yet (proxy.go:45-46, 75-83).
StopReachesIt ==
  \A g \in Starts : serve[g] \in {"listen", "accept"} /\ g \notin cancelled => cancel = g

\* A stopped server closes its listener and finishes (proxy.go:103-117).
StopEndsServing ==
  \A g \in Starts : g \in cancelled ~> g \notin listening /\ serve[g] = "done"

\* What proxy.go:61 says of the wait: "Give the listener a moment to bind or
\* fail": a Start whose net.Listen failed within that moment does not return nil.
StartReportsFailure == misled = {}

\* The inductive invariant: only the last Start can be live, and while its
\* caller is in Start nothing of it is reported.
ServerInv ==
  /\ \A g \in Starts : Live(g) => g = started
  /\ \A g \in Starts : g > started => serve[g] = "none" /\ g \notin cancelled \cup reported
  /\ cancel <= started
  /\ running <=> \E g \in Starts : Live(g)
  /\ started \in Starts /\ Live(started) /\ started \notin cancelled => cancel = started
  /\ \A u \in Callers :
       /\ at[u] = "starting" <=> holder = u
       /\ at[u] = "starting" =>
            started \in Starts /\ mine[u] = started /\ Live(started) /\ started \notin reported
  /\ \A g \in Starts : g \in reported <=> serve[g] = "done"
  /\ NeverStuck

=============================================================================
