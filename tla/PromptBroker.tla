---------------------------- MODULE PromptBroker ----------------------------
(***************************************************************************)
(* How a keyword prompt gets its answer: App.PromptUser, called by the     *)
(* interceptor's goroutines, App.ResolveContentPrompt and                  *)
(* ResolveContentPromptForFile, each call of which Wails runs on a         *)
(* goroutine of its own, and the frontend hook useContentPrompts, which    *)
(* queues the prompts, shows the first and runs one asynchronous resolve() *)
(* per click (internal/ui/app.go:208-270, hooks/useContentPrompts.ts).     *)
(*                                                                         *)
(* A handler <<id, n>> is a resolve() of prompt id, with the calls it      *)
(* makes into App.  Time is not modelled: the 30s timer of a prompt may *)
(* fire whenever PromptUser is waiting.                                    *)
(***************************************************************************)
EXTENDS Naturals, Sequences, SequencesExt

CONSTANTS
  Prompts,    \* prompts the interceptor may open
  Files,      \* file paths
  FilesOf,    \* prompt.FilePaths of each, not empty
  Handlers    \* bounds the clicks: <<id, n>> is the n-th one on prompt id

ASSUME BrokerAssumption ==
  /\ FilesOf \in [Prompts -> (SUBSET Files) \ {{}}]
  /\ Handlers \subseteq Prompts \X Nat

AllowActions  == {"allow_once", "allow_always"}
AlwaysActions == {"allow_always", "block_always"}
Actions       == AllowActions \cup {"block_once", "block_always"}

VARIABLES
  caller,    \* where each PromptUser call is
  verdict,   \* what it returned, "none" until it does
  pending,   \* keys of a.pendingPrompts
  chan,      \* the prompt's channel of capacity one, "empty" or the response
  lists,     \* decisions on the engine's whitelist and blacklist
  emitted,   \* "content:prompt" events on their way to the frontend
  mounted,   \* the hook has subscribed to them
  queue,     \* the frontend's queue; its head is the modal on screen
  at,        \* where each handler is
  action,    \* the button that started it
  todo       \* files it still has to persist

callerVars   == <<caller, verdict>>
frontendVars == <<emitted, mounted, queue>>
handlerVars  == <<at, action, todo>>
vars == <<callerVars, pending, chan, lists, frontendVars, handlerVars>>

TypeOK ==
  /\ caller \in [Prompts -> {"idle", "emit", "wait", "late", "returned"}]
  /\ verdict \in [Prompts -> Actions \cup {"none"}]
  /\ pending \subseteq Prompts
  /\ chan \in [Prompts -> Actions \cup {"empty"}]
  /\ lists \subseteq Actions \X Files
  /\ emitted \subseteq Prompts
  /\ mounted \in BOOLEAN
  /\ queue \in Seq(Prompts)
  /\ at \in [Handlers -> {"unused", "persist", "resolve", "send", "filter", "done"}]
  /\ action \in [Handlers -> Actions]
  /\ todo \in [Handlers -> SUBSET Files]

\* an unused handler has an arbitrary action, nothing reads it
Init ==
  /\ caller = [id \in Prompts |-> "idle"]
  /\ verdict = [id \in Prompts |-> "none"]
  /\ pending = {}
  /\ chan = [id \in Prompts |-> "empty"]
  /\ lists = {}
  /\ emitted = {}
  /\ mounted = FALSE
  /\ queue = <<>>
  /\ at = [h \in Handlers |-> "unused"]
  /\ action = [h \in Handlers |-> "block_once"]
  /\ todo = [h \in Handlers |-> {}]

-----------------------------------------------------------------------------
(* PromptUser(prompt).                                                     *)

Register(id) ==
  /\ caller[id] = "idle"
  /\ caller' = [caller EXCEPT ![id] = "emit"]
  /\ pending' = pending \cup {id}
  /\ UNCHANGED <<verdict, chan, lists, frontendVars, handlerVars>>

Emit(id) ==
  /\ caller[id] = "emit"
  /\ caller' = [caller EXCEPT ![id] = "wait"]
  /\ emitted' = emitted \cup {id}
  /\ UNCHANGED <<verdict, pending, chan, lists, mounted, queue, handlerVars>>

\* with an answer in the channel and the timer expired, select takes either
Receive(id) ==
  /\ caller[id] = "wait"
  /\ chan[id] # "empty"
  /\ caller' = [caller EXCEPT ![id] = "returned"]
  /\ verdict' = [verdict EXCEPT ![id] = chan[id]]
  /\ chan' = [chan EXCEPT ![id] = "empty"]
  /\ UNCHANGED <<pending, lists, frontendVars, handlerVars>>

TimerFires(id) ==
  /\ caller[id] = "wait"
  /\ caller' = [caller EXCEPT ![id] = "late"]
  /\ UNCHANGED <<verdict, pending, chan, lists, frontendVars, handlerVars>>

Expire(id) ==
  /\ caller[id] = "late"
  /\ caller' = [caller EXCEPT ![id] = "returned"]
  /\ verdict' = [verdict EXCEPT ![id] = "block_once"]
  /\ pending' = pending \ {id}
  /\ UNCHANGED <<chan, lists, frontendVars, handlerVars>>

-----------------------------------------------------------------------------
(* The frontend.                                                           *)

Mount ==
  /\ ~mounted
  /\ mounted' = TRUE
  /\ UNCHANGED <<callerVars, pending, chan, lists, emitted, queue, handlerVars>>

\* an event nobody subscribes to is lost
Deliver(id) ==
  /\ id \in emitted
  /\ emitted' = emitted \ {id}
  /\ queue' = IF mounted THEN Append(queue, id) ELSE queue
  /\ UNCHANGED <<callerVars, pending, chan, lists, mounted, handlerVars>>

\* the modal stays on screen, and clickable, until resolve() has filtered the
\* prompt out: nothing disables its buttons, and an expiry does not close it
Click(h, a) ==
  /\ queue # <<>> /\ Head(queue) = h[1]
  /\ at[h] = "unused"
  /\ \A g \in Handlers : g[1] = h[1] /\ g[2] < h[2] => at[g] # "unused"
  /\ at' = [at EXCEPT ![h] = IF a \in AlwaysActions THEN "persist" ELSE "resolve"]
  /\ action' = [action EXCEPT ![h] = a]
  /\ todo' = [todo EXCEPT ![h] = IF a \in AlwaysActions THEN FilesOf[h[1]] ELSE {}]
  /\ UNCHANGED <<callerVars, pending, chan, lists, frontendVars>>

-----------------------------------------------------------------------------
(* resolve(), with the two App methods it awaits in turn.                  *)

\* Mutant: every decision goes to the whitelist.
PersistAllowing(h, f) ==
  /\ at[h] = "persist"
  /\ f \in todo[h]
  /\ lists' = lists \cup {<<"allow_always", f>>}
  /\ todo' = [todo EXCEPT ![h] = @ \ {f}]
  /\ at' = IF todo[h] = {f} THEN [at EXCEPT ![h] = "resolve"] ELSE at
  /\ UNCHANGED <<callerVars, pending, chan, frontendVars, action>>

\* Mutant: the case of block_always is missing.
PersistAllowed(h, f) ==
  /\ at[h] = "persist"
  /\ f \in todo[h]
  /\ lists' = lists \cup ({<<action[h], f>>} \ {<<"block_always", f>>})
  /\ todo' = [todo EXCEPT ![h] = @ \ {f}]
  /\ at' = IF todo[h] = {f} THEN [at EXCEPT ![h] = "resolve"] ELSE at
  /\ UNCHANGED <<callerVars, pending, chan, frontendVars, action>>

\* ResolveContentPromptForFile
PersistFile(h, f) ==
  /\ at[h] = "persist"
  /\ f \in todo[h]
  /\ lists' = lists \cup {<<action[h], f>>}
  /\ todo' = [todo EXCEPT ![h] = @ \ {f}]
  /\ at' = IF todo[h] = {f} THEN [at EXCEPT ![h] = "resolve"] ELSE at
  /\ UNCHANGED <<callerVars, pending, chan, frontendVars, action>>

\* Mutant: the entry stays in the map until PromptUser returns.
TakePendingKeeping(h) ==
  /\ at[h] = "resolve"
  /\ at' = [at EXCEPT ![h] = IF h[1] \in pending THEN "send" ELSE "filter"]
  /\ UNCHANGED <<callerVars, pending, chan, lists, frontendVars, action, todo>>

\* ResolveContentPrompt up to the unlock; an unknown id returns at once
TakePending(h) ==
  /\ at[h] = "resolve"
  /\ at' = [at EXCEPT ![h] = IF h[1] \in pending THEN "send" ELSE "filter"]
  /\ pending' = pending \ {h[1]}
  /\ UNCHANGED <<callerVars, chan, lists, frontendVars, action, todo>>

\* Mutant: the channel is not buffered.
SendUnbuffered(h) ==
  /\ at[h] = "send"
  /\ caller[h[1]] = "wait"
  /\ chan[h[1]] = "empty"
  /\ chan' = [chan EXCEPT ![h[1]] = action[h]]
  /\ at' = [at EXCEPT ![h] = "filter"]
  /\ UNCHANGED <<callerVars, pending, lists, frontendVars, action, todo>>

Send(h) ==
  /\ at[h] = "send"
  /\ chan[h[1]] = "empty"
  /\ chan' = [chan EXCEPT ![h[1]] = action[h]]
  /\ at' = [at EXCEPT ![h] = "filter"]
  /\ UNCHANGED <<callerVars, pending, lists, frontendVars, action, todo>>

\* Mutant: the modal of a prompt that is over is left to its own timer.
FilterOpen(h) ==
  /\ at[h] = "filter"
  /\ queue' = IF caller[h[1]] = "returned" THEN queue ELSE SelectSeq(queue, LAMBDA id : id # h[1])
  /\ at' = [at EXCEPT ![h] = "done"]
  /\ UNCHANGED <<callerVars, pending, chan, lists, emitted, mounted, action, todo>>

\* the prompt is in the queue once, if at all: its event is emitted once
Filter(h) ==
  /\ at[h] = "filter"
  /\ \/ \E i \in DOMAIN queue : queue[i] = h[1] /\ queue' = RemoveAt(queue, i)
     \/ (\A i \in DOMAIN queue : queue[i] # h[1]) /\ UNCHANGED queue
  /\ at' = [at EXCEPT ![h] = "done"]
  /\ UNCHANGED <<callerVars, pending, chan, lists, emitted, mounted, action, todo>>

-----------------------------------------------------------------------------
Caller(id) == Emit(id) \/ Receive(id) \/ TimerFires(id) \/ Expire(id)

Handle(h) ==
  \/ \E f \in Files : PersistFile(h, f)
  \/ TakePending(h) \/ Send(h) \/ Filter(h)

Next ==
  \/ \E id \in Prompts : Register(id) \/ Caller(id) \/ Deliver(id)
  \/ Mount
  \/ \E h \in Handlers : Handle(h) \/ \E a \in Actions : Click(h, a)

\* the scheduler runs the goroutines and the event loop, timers fire; the user
\* need not click, nor the window open
Fairness ==
  /\ \A id \in Prompts : WF_vars(Caller(id)) /\ WF_vars(Deliver(id))
  /\ \A h \in Handlers : WF_vars(Handle(h))

Spec == Init /\ [][Next]_vars /\ Fairness

-----------------------------------------------------------------------------
(* Properties.                                                             *)

Queued(id) == \E i \in DOMAIN queue : queue[i] = id

Unclicked(id) == \A h \in Handlers : h[1] = id => at[h] = "unused"

AskedOf(id) == IF caller[id] = "idle" THEN {} ELSE FilesOf[id]

ClickedIn(id) ==
  {a \in Actions : \E h \in Handlers : h[1] = id /\ at[h] # "unused" /\ action[h] = a}

\* decisions some handler of the prompt has carried through, and on the lists
HandledIn(id) ==
  {d \in AlwaysActions \X FilesOf[id] :
     \E h \in Handlers :
       h[1] = id /\ at[h] # "unused" /\ action[h] = d[1] /\ d[2] \notin todo[h]}

StoredIn(id) == HandledIn(id) \cap lists

Contract == INSTANCE PromptContract WITH
  asked     <- [id \in Prompts |-> AskedOf(id)],
  clicked   <- [id \in Prompts |-> ClickedIn(id)],
  persisted <- [id \in Prompts |-> StoredIn(id)]

\* The map, the channel and the hook together keep the promise of
\* PromptContract: PromptUser returns once, with an answer the user clicked in
\* this prompt or block_once, and an "always" answer only after every file of
\* the prompt has been stored (app.go:212-270, useContentPrompts.ts:19-29).
KeepsContract == Contract!Spec

\* ResolveContentPrompt never blocks in its send on the channel: taking the
\* entry out of pendingPrompts under the lock leaves one sender, and room for
\* its answer even when PromptUser has already given up (app.go:238-256).
SendNeverBlocks == \A h \in Handlers : at[h] = "send" => chan[h[1]] = "empty"

\* A PromptUser call that returned has left nothing in pendingPrompts, on
\* either of its ways out (app.go:222-232, 240-242).
NoStaleEntry == \A id \in Prompts : caller[id] = "returned" => id \notin pending

\* Whatever is on the engine's lists was clicked in a prompt naming that file
\* (useContentPrompts.ts:21-25, app.go:261-270).
ListsAreClicked ==
  \A decision \in lists :
    \E h \in Handlers :
      at[h] # "unused" /\ action[h] = decision[1] /\ decision[2] \in FilesOf[h[1]]

\* A prompt the user has dealt with does not come back: once a handler of it
\* is done, neither an event nor the queue brings it up again
\* (useContentPrompts.ts:13-14, 28).
ClosedForGood ==
  \A h \in Handlers :
    at[h] = "done" => h[1] \notin emitted /\ ~Queued(h[1])

\* Every click is carried through: its stores, its answer and the removal of
\* the prompt all happen, expired or not (useContentPrompts.ts:19-29).
HandlersFinish == \A h \in Handlers : at[h] # "unused" ~> at[h] = "done"

-----------------------------------------------------------------------------
(* The inductive invariant behind the safety properties.                   *)

\* an entry of the map stands for an empty channel that nobody is sending to,
\* and only one handler ever sends
ChannelInv ==
  /\ \A id \in pending : caller[id] \in {"emit", "wait", "late"} /\ chan[id] = "empty"
  /\ \A h \in Handlers :
       at[h] = "send" => chan[h[1]] = "empty" /\ h[1] \notin pending
  /\ \A g, h \in Handlers :
       at[g] = "send" /\ at[h] = "send" /\ g[1] = h[1] => g = h

\* an answer in the channel was clicked and has been stored
AnswerInv ==
  /\ \A h \in Handlers :
       /\ at[h] = "persist" => action[h] \in AlwaysActions
       /\ todo[h] \subseteq FilesOf[h[1]]
       /\ at[h] \notin {"unused", "persist"} => todo[h] = {}
  /\ \A id \in Prompts :
       chan[id] # "empty" =>
         \E h \in Handlers :
           h[1] = id /\ at[h] \in {"filter", "done"} /\ action[h] = chan[id]

\* what a handler has dealt with is on the engine's lists
StoredInv ==
  \A h \in Handlers :
    at[h] # "unused" /\ action[h] \in AlwaysActions =>
      \A f \in FilesOf[h[1]] \ todo[h] : <<action[h], f>> \in lists

\* a prompt is called for, then on its way, then queued, then dealt with
QueueInv ==
  /\ \A id \in Prompts :
       caller[id] \in {"idle", "emit"} =>
         id \notin emitted /\ ~Queued(id) /\ Unclicked(id)
  /\ \A id \in emitted : ~Queued(id) /\ Unclicked(id)
  /\ \A i, j \in DOMAIN queue : queue[i] = queue[j] => i = j
  /\ \A h \in Handlers : at[h] = "done" => ~Queued(h[1])

ReturnInv ==
  \A id \in Prompts :
    /\ caller[id] # "returned" <=> verdict[id] = "none"
    /\ caller[id] = "returned" => id \notin pending

\* The prompt, its map entry, its channel and its handlers agree on how far
\* the answer has come (app.go:208-270, useContentPrompts.ts:9-32).
BrokerInv == ChannelInv /\ AnswerInv /\ StoredInv /\ QueueInv /\ ReturnInv

=============================================================================
