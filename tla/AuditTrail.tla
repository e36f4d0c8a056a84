----------------------------- MODULE AuditTrail -----------------------------
(***************************************************************************)
(* The way of an audited session: handleConnection gives it to the         *)
(* MultiSink, which calls the log file and then the in-memory store        *)
(* (internal/audit/observer.go, cmd/egressor/main.go:96-98); the store     *)
(* calls its observer, which App.Startup registered before it started the  *)
(* proxy, and the session goes to the window as an event.  The window asks *)
(* for the recent sessions and for the count when it mounts, and adds the  *)
(* events to what it got (frontend/src/hooks/useSessions.ts).              *)
(*                                                                         *)
(* One goroutine per session; sessions are numbered in the order they      *)
(* enter their first sink.  The program may be closed while handlers are   *)
(* still running, and it may crash anywhere; both end in Restart.          *)
(***************************************************************************)
EXTENDS AuditLog, SessionStore

CONSTANTS
  Limit,        \* sessions the window asks for, 200 in the code
  MaxShown,     \* MAX_SESSIONS of the window, 500 in the code
  MaxRestarts   \* bound on the ends of the program

ASSUME TrailAssumption ==
  /\ Sessions \subseteq DOMAIN LineSize
  /\ Limit \in Nat \ {0} /\ MaxShown \in Nat /\ Limit < MaxShown
  /\ MaxRestarts \in Nat

VARIABLES
  at,        \* the sink each session is before, or where it is inside of one
  events,    \* "session:new" events on their way
  mounted,   \* the window has subscribed to them
  call,      \* how far the window's GetRecentSessions and GetStats are
  list,      \* the list on its way to the window
  stats,     \* the count on its way to the window
  shown,     \* the window's sessions
  total,     \* the window's stats.total_sessions
  quit,      \* the window is closed for good, the program about to end
  restarts,  \* ends of the program so far, for the bound
  \* history, read by the properties only
  overlap    \* sessions on their way to the window while it was loading

windowVars == <<mounted, call, list, stats, shown, total>>
endVars == <<quit, restarts>>
vars == <<logVars, storeVars, at, events, windowVars, endVars, overlap>>

\* the answers the window still waits for
Loading == \E c \in DOMAIN call : call[c] # "none"

\* sessions that are in the store and whose event has not arrived
OnTheWay == events \cup {s \in Sessions : at[s] = "notify"}

\* Mutant: the store comes before the logger.
SinksReversed == <<"store", "logger">>

Sinks == <<"logger", "store">>

Following(sink) == IF sink = Sinks[1] THEN Sinks[2] ELSE "done"

NoCalls == [c \in {"GetRecentSessions", "GetStats"} |-> "none"]

Init ==
  /\ LogInit
  /\ StoreInit
  /\ at = [s \in Sessions |-> Sinks[1]]
  /\ events = {}
  /\ mounted = FALSE
  /\ call = NoCalls
  /\ list = <<>>
  /\ stats = 0
  /\ shown = <<>>
  /\ total = 0
  /\ quit = FALSE
  /\ restarts = 0
  /\ overlap = {}

-----------------------------------------------------------------------------
(* MultiSink.Log, in the goroutine of a session.                           *)

Enter(s, sink) ==
  /\ at[s] = sink
  /\ sink = Sinks[1] => \A r \in Sessions : r < s => at[r] # sink

CallLogger(s) ==
  /\ Enter(s, "logger")
  /\ Log(s)
  /\ at' = [at EXCEPT ![s] = IF rotating' THEN "rotate" ELSE Following("logger")]
  /\ UNCHANGED <<storeVars, events, windowVars, endVars, overlap>>

CallRotate(s) ==
  /\ at[s] = "rotate"
  /\ Rotate
  /\ at' = [at EXCEPT ![s] = Following("logger")]
  /\ UNCHANGED <<storeVars, events, windowVars, endVars, overlap>>

\* the ring under the lock, with the copy of the observers
CallStore(s) ==
  /\ Enter(s, "store")
  /\ StoreLog(s)
  /\ at' = [at EXCEPT ![s] = "notify"]
  /\ overlap' = IF Loading THEN overlap \cup {s} ELSE overlap
  /\ UNCHANGED <<logVars, events, windowVars, endVars>>

\* the observer, outside the lock
Notify(s) ==
  /\ at[s] = "notify"
  /\ at' = [at EXCEPT ![s] = Following("store")]
  /\ events' = events \cup {s}
  /\ UNCHANGED <<logVars, storeVars, windowVars, endVars, overlap>>

Handler(s) == CallLogger(s) \/ CallRotate(s) \/ CallStore(s) \/ Notify(s)

-----------------------------------------------------------------------------
(* useSessions.                                                            *)

\* both effects run when the window mounts; the two calls are under way
Mount ==
  /\ ~mounted /\ ~quit
  /\ mounted' = TRUE
  /\ call' = [c \in DOMAIN call |-> "asked"]
  /\ overlap' = overlap \cup OnTheWay
  /\ UNCHANGED <<logVars, storeVars, at, events, list, stats, shown, total, endVars>>

Step(c, from, to) == call[c] = from /\ call' = [call EXCEPT ![c] = to]

\* the calls run on goroutines of their own, their answers come back later
ReadRecent ==
  /\ Step("GetRecentSessions", "asked", "answered")
  /\ list' = Recent(Limit)
  /\ UNCHANGED <<logVars, storeVars, at, events, mounted, stats, shown, total, endVars, overlap>>

ReadStats ==
  /\ Step("GetStats", "asked", "answered")
  /\ stats' = TotalSessions
  /\ UNCHANGED <<logVars, storeVars, at, events, mounted, list, shown, total, endVars, overlap>>

SetSessions ==
  /\ Step("GetRecentSessions", "answered", "none")
  /\ shown' = list
  /\ list' = <<>>
  /\ UNCHANGED <<logVars, storeVars, at, events, mounted, stats, total, endVars, overlap>>

SetStats ==
  /\ Step("GetStats", "answered", "none")
  /\ total' = stats
  /\ stats' = 0
  /\ UNCHANGED <<logVars, storeVars, at, events, mounted, list, shown, endVars, overlap>>

Load == ReadRecent \/ ReadStats \/ SetSessions \/ SetStats

\* Mutant: the event does not reach the statistics.
DeliverUncounted(s) ==
  /\ s \in events
  /\ events' = events \ {s}
  /\ shown' = IF mounted THEN SubSeq(<<s>> \o shown, 1, Min({MaxShown, Len(shown) + 1})) ELSE shown
  /\ UNCHANGED <<logVars, storeVars, at, mounted, call, list, stats, total, endVars, overlap>>

\* an event nobody subscribes to is lost
Deliver(s) ==
  /\ s \in events
  /\ events' = events \ {s}
  /\ IF mounted THEN /\ shown' = SubSeq(<<s>> \o shown, 1, Min({MaxShown, Len(shown) + 1}))
                     /\ total' = total + 1
                ELSE UNCHANGED <<shown, total>>
  /\ UNCHANGED <<logVars, storeVars, at, mounted, call, list, stats, endVars, overlap>>

-----------------------------------------------------------------------------
\* the window's state and the events to it are gone
CloseWindow ==
  /\ events' = {}
  /\ mounted' = FALSE
  /\ call' = NoCalls
  /\ list' = <<>>
  /\ stats' = 0
  /\ shown' = <<>>
  /\ total' = 0

\* RunUI has returned: main closes the log, the handlers do not wait
Quit ==
  /\ ~quit /\ restarts < MaxRestarts
  /\ quit' = TRUE
  /\ Close
  /\ CloseWindow
  /\ UNCHANGED <<storeVars, at, restarts, overlap>>

\* the process ends, by itself or in a crash, and is started again
Restart ==
  /\ restarts < MaxRestarts
  /\ restarts' = restarts + 1
  /\ quit' = FALSE
  /\ NewLogger
  /\ NewSessionStore
  /\ CloseWindow
  /\ at' = [s \in Sessions |-> IF at[s] = Sinks[1] THEN at[s] ELSE "gone"]
  /\ overlap' = {}

Next ==
  \/ \E s \in Sessions : Handler(s) \/ Deliver(s)
  \/ Mount \/ Load \/ Quit \/ Restart
  \/ Tick /\ UNCHANGED <<storeVars, at, events, windowVars, endVars, overlap>>

Spec == Init /\ [][Next]_vars

-----------------------------------------------------------------------------
(* Properties.                                                             *)

Held == ToSet(Recent(0))

Store == INSTANCE RecentSessions WITH recent <- Recent(0)

\* The ring buffer holds the last Capacity sessions, newest first, whatever
\* the index arithmetic does at its wrap (store.go:50-73, 89-94).
RingIsRecent == Store!Spec

\* As long as nothing failed, what the store holds, and what the window shows
\* of it, has been written to the audit log before: no crash can lose a
\* session that was seen (main.go:97, observer.go:17).
LoggedFirst == faults = 0 /\ ~quit => Held \cup ToSet(shown) \subseteq ToSet(written)

\* Once loaded, and with no session on its way, the window agrees with the
\* store: it shows every recent session, each once, and the right total,
\* except for sessions that came in while it was loading; their events are
\* overwritten by the answer, or count twice (useSessions.ts:13-29).
WindowAgrees ==
  mounted /\ ~Loading /\ OnTheWay = {} =>
    /\ \A i, j \in DOMAIN shown : i # j /\ shown[i] = shown[j] => shown[i] \in overlap
    /\ Len(shown) < MaxShown => ToSet(Recent(Limit)) \subseteq ToSet(shown) \cup overlap
    /\ count < Capacity =>
         /\ total <= count + Cardinality(overlap)
         /\ count <= total + Cardinality(overlap)

=============================================================================
