-------------------------- MODULE PromptBrokerProofs --------------------------
(***************************************************************************)
(* Proofs about PromptBroker: type correctness, the inductive invariant    *)
(* BrokerInv with the safety properties it implies, and that every step    *)
(* implements a step of PromptContract, for any prompts, files and clicks. *)
(***************************************************************************)
EXTENDS PromptBroker, TLAPS, SequenceTheorems

\* a handler's first component is its prompt
LEMMA HandlerPrompt == \A h \in Handlers : h[1] \in Prompts
  BY BrokerAssumption

\* Taking a prompt out of the frontend's queue leaves the others, each at most
\* as often as before (useContentPrompts.ts:28).
LEMMA RemoveAtKeeps ==
  ASSUME NEW q \in Seq(Prompts), NEW i \in DOMAIN q
  PROVE  /\ RemoveAt(q, i) \in Seq(Prompts)
         /\ Len(RemoveAt(q, i)) = Len(q) - 1
         /\ \A j \in DOMAIN RemoveAt(q, i) :
              /\ j \in DOMAIN q /\ j + 1 \in DOMAIN q
              /\ RemoveAt(q, i)[j] = IF j < i THEN q[j] ELSE q[j + 1]
<1> DEFINE front == SubSeq(q, 1, i - 1)
           back == SubSeq(q, i + 1, Len(q))
<1>1. i \in 1..Len(q) /\ Len(q) \in Nat /\ DOMAIN q = 1..Len(q)
  OBVIOUS
<1>2. front \in Seq(Prompts) /\ Len(front) = i - 1 /\ \A j \in 1..(i - 1) : front[j] = q[j]
  BY <1>1
<1>3. back \in Seq(Prompts) /\ Len(back) = Len(q) - i
      /\ \A j \in 1..(Len(q) - i) : back[j] = q[i + j]
  BY <1>1
<1> HIDE DEF front, back
<1>4. /\ front \o back \in Seq(Prompts)
      /\ Len(front \o back) = (i - 1) + (Len(q) - i)
      /\ \A j \in 1..((i - 1) + (Len(q) - i)) :
           (front \o back)[j] = IF j <= i - 1 THEN front[j] ELSE back[j - (i - 1)]
  <2>1. Len(front) = i - 1 /\ Len(back) = Len(q) - i
    BY <1>2, <1>3
  <2>2. /\ front \o back \in Seq(Prompts)
        /\ Len(front \o back) = Len(front) + Len(back)
        /\ \A j \in 1..(Len(front) + Len(back)) :
             (front \o back)[j] = IF j <= Len(front) THEN front[j] ELSE back[j - Len(front)]
    BY <1>2, <1>3, ConcatProperties, Zenon
  <2> QED
    BY <2>1, <2>2
<1>5. Len(front \o back) = Len(q) - 1
  BY <1>1, <1>4
<1>6. ASSUME NEW j \in 1..(Len(q) - 1)
      PROVE  (front \o back)[j] = IF j < i THEN q[j] ELSE q[j + 1]
  <2>1. CASE j < i
    BY <1>1, <1>2, <1>4, <2>1
  <2>2. CASE j >= i
    <3>1. (front \o back)[j] = back[j - (i - 1)]
      BY <1>1, <1>4, <2>2
    <3>2. j - (i - 1) \in 1..(Len(q) - i) /\ i + (j - (i - 1)) = j + 1
      BY <1>1, <2>2
    <3>3. back[j - (i - 1)] = q[i + (j - (i - 1))]
      BY <1>3, <3>2
    <3> QED
      BY <1>1, <2>2, <3>1, <3>2, <3>3
  <2>3. j < i \/ j >= i
    BY <1>1
  <2> QED
    BY <2>1, <2>2, <2>3, Zenon
<1>7. RemoveAt(q, i) = front \o back
  BY DEF RemoveAt, front, back
<1>8. DOMAIN (front \o back) = 1..(Len(q) - 1)
  BY <1>4, <1>5
<1>9. \A j \in 1..(Len(q) - 1) : j \in DOMAIN q /\ j + 1 \in DOMAIN q
  BY <1>1
<1> HIDE DEF front, back
<1> QED
  BY <1>4, <1>5, <1>6, <1>7, <1>8, <1>9

-----------------------------------------------------------------------------
(* Type correctness.                                                       *)

LEMMA InitTyped == Init => TypeOK
<1> SUFFICES ASSUME Init PROVE TypeOK
  OBVIOUS
<1>1. /\ caller \in [Prompts -> {"idle", "emit", "wait", "late", "returned"}]
      /\ verdict \in [Prompts -> Actions \cup {"none"}]
      /\ chan \in [Prompts -> Actions \cup {"empty"}]
  BY DEF Init
<1>2. /\ at \in [Handlers -> {"unused", "persist", "resolve", "send", "filter", "done"}]
      /\ action \in [Handlers -> Actions]
      /\ todo \in [Handlers -> SUBSET Files]
  BY DEF Init, Actions
<1>3. queue \in Seq(Prompts)
  BY DEF Init
<1> QED
  BY <1>1, <1>2, <1>3 DEF Init, TypeOK

LEMMA NextTyped ==
  ASSUME TypeOK, [Next]_vars
  PROVE  TypeOK'
<1> USE DEF TypeOK, callerVars, frontendVars, handlerVars
<1>1. ASSUME NEW id \in Prompts, Register(id) \/ Caller(id)
      PROVE  TypeOK'
  BY <1>1 DEF Register, Caller, Emit, Receive, TimerFires, Expire, Actions
<1>2. ASSUME NEW id \in Prompts, Deliver(id)
      PROVE  TypeOK'
  BY <1>2 DEF Deliver
<1>3. CASE Mount
  BY <1>3 DEF Mount
<1>4. ASSUME NEW g \in Handlers, NEW a \in Actions, Click(g, a)
      PROVE  TypeOK'
  BY <1>4, BrokerAssumption DEF Click
<1>5. ASSUME NEW h \in Handlers, Handle(h)
      PROVE  TypeOK'
  <2>1. ASSUME NEW f \in Files, PersistFile(h, f)
        PROVE  TypeOK'
    BY <2>1 DEF PersistFile
  <2>2. CASE TakePending(h)
    BY <2>2 DEF TakePending
  <2>3. CASE Send(h)
    BY <2>3, HandlerPrompt DEF Send
  <2>4. CASE Filter(h)
    BY <2>4, RemoveAtKeeps DEF Filter
  <2> QED
    BY <1>5, <2>1, <2>2, <2>3, <2>4 DEF Handle
<1>6. CASE UNCHANGED vars
  BY <1>6 DEF vars
<1> QED
  BY <1>1, <1>2, <1>3, <1>4, <1>5, <1>6 DEF Next

\* Every reachable state of the broker is well typed.
THEOREM TypeCorrect == Spec => []TypeOK
  BY InitTyped, NextTyped, PTL DEF Spec

-----------------------------------------------------------------------------
(* The inductive invariant.                                                *)

\* The sender of an answer is alone with an empty channel.
LEMMA ChannelInvKept ==
  ASSUME TypeOK, BrokerInv, [Next]_vars
  PROVE  ChannelInv'
<1> USE DEF BrokerInv, ChannelInv, TypeOK, callerVars, handlerVars, frontendVars
<1>1. ASSUME NEW id \in Prompts, Register(id)
      PROVE  ChannelInv'
  <2>1. \A h \in Handlers : h[1] = id => at[h] = "unused"
    BY <1>1 DEF Register, QueueInv, Unclicked
  <2>2. chan[id] = "empty"
    BY <2>1 DEF AnswerInv
  <2> QED
    BY <1>1, <2>1, <2>2 DEF Register
<1>2. ASSUME NEW id \in Prompts, Caller(id)
      PROVE  ChannelInv'
  BY <1>2, HandlerPrompt DEF Caller, Emit, Receive, TimerFires, Expire
<1>3. ASSUME Mount \/ \E id \in Prompts : Deliver(id)
      PROVE  ChannelInv'
  BY <1>3 DEF Deliver, Mount
<1>4. ASSUME NEW g \in Handlers, NEW a \in Actions, Click(g, a)
      PROVE  ChannelInv'
  BY <1>4 DEF Click
<1>5. ASSUME NEW h \in Handlers, Handle(h)
      PROVE  ChannelInv'
  <2>1. ASSUME NEW f \in Files, PersistFile(h, f)
        PROVE  ChannelInv'
    BY <2>1 DEF PersistFile
  <2>2. CASE TakePending(h)
    BY <2>2, HandlerPrompt DEF TakePending
  <2>3. CASE Send(h)
    BY <2>3, HandlerPrompt DEF Send
  <2>4. CASE Filter(h)
    BY <2>4 DEF Filter
  <2> QED
    BY <1>5, <2>1, <2>2, <2>3, <2>4 DEF Handle
<1>6. CASE UNCHANGED vars
  <2>1. UNCHANGED <<caller, pending, chan, at>>
    BY <1>6 DEF vars
  <2> QED
    BY <2>1
<1> HIDE DEF BrokerInv, ChannelInv, TypeOK, callerVars, handlerVars, frontendVars
<1> QED
  BY <1>1, <1>2, <1>3, <1>4, <1>5, <1>6 DEF Next

\* The answer on its way to PromptUser was clicked, and its files are stored.
LEMMA AnswerInvKept ==
  ASSUME TypeOK, BrokerInv, [Next]_vars
  PROVE  AnswerInv'
<1> USE DEF BrokerInv, AnswerInv, TypeOK, callerVars, handlerVars, frontendVars
<1>1. ASSUME NEW id \in Prompts, Register(id) \/ Caller(id)
      PROVE  AnswerInv'
  BY <1>1 DEF Register, Caller, Emit, Receive, TimerFires, Expire
<1>2. ASSUME Mount \/ \E id \in Prompts : Deliver(id)
      PROVE  AnswerInv'
  BY <1>2 DEF Deliver, Mount
<1>3. ASSUME NEW g \in Handlers, NEW a \in Actions, Click(g, a)
      PROVE  AnswerInv'
  <2>2. /\ at[g] = "unused" /\ chan' = chan
        /\ at' = [at EXCEPT ![g] = IF a \in AlwaysActions THEN "persist" ELSE "resolve"]
        /\ action' = [action EXCEPT ![g] = a]
        /\ todo' = [todo EXCEPT ![g] = IF a \in AlwaysActions THEN FilesOf[g[1]] ELSE {}]
    BY <1>3 DEF Click
  <2>3. /\ at'[g] = "persist" => action'[g] \in AlwaysActions
        /\ at'[g] \notin {"unused", "persist"} => todo'[g] = {}
        /\ todo'[g] \subseteq FilesOf[g[1]]
    BY <2>2
  <2>4. \A h \in Handlers \ {g} : at'[h] = at[h] /\ action'[h] = action[h] /\ todo'[h] = todo[h]
    BY <2>2
  <2> QED
    BY <2>2, <2>3, <2>4
<1>4. ASSUME NEW h \in Handlers, Handle(h)
      PROVE  AnswerInv'
  <2>1. ASSUME NEW f \in Files, PersistFile(h, f)
        PROVE  AnswerInv'
    BY <2>1 DEF PersistFile
  <2>2. CASE TakePending(h)
    BY <2>2 DEF TakePending
  <2>3. CASE Send(h)
    <3>1. h[1] \in Prompts
      BY HandlerPrompt
    <3>2. /\ at' = [at EXCEPT ![h] = "filter"] /\ at[h] = "send"
          /\ chan' = [chan EXCEPT ![h[1]] = action[h]]
          /\ UNCHANGED <<action, todo>>
      BY <2>3 DEF Send
    <3> QED
      BY <3>1, <3>2
  <2>4. CASE Filter(h)
    BY <2>4 DEF Filter
  <2> QED
    BY <1>4, <2>1, <2>2, <2>3, <2>4 DEF Handle
<1>5. CASE UNCHANGED vars
  BY <1>5 DEF vars
<1> HIDE DEF BrokerInv, AnswerInv, TypeOK, callerVars, handlerVars, frontendVars
<1> QED
  BY <1>1, <1>2, <1>3, <1>4, <1>5 DEF Next

LEMMA StoredInvKept ==
  ASSUME TypeOK, BrokerInv, [Next]_vars
  PROVE  StoredInv'
<1> USE DEF BrokerInv, StoredInv, TypeOK, callerVars, handlerVars, frontendVars
<1>1. ASSUME UNCHANGED <<lists, at, action, todo>>
      PROVE  StoredInv'
  BY <1>1
<1>2. ASSUME NEW id \in Prompts, Register(id) \/ Caller(id) \/ Deliver(id)
      PROVE  StoredInv'
  BY <1>1, <1>2 DEF Register, Caller, Emit, Receive, TimerFires, Expire, Deliver
<1>3. CASE Mount \/ UNCHANGED vars
  BY <1>1, <1>3 DEF Mount, vars
<1>4. ASSUME NEW g \in Handlers, NEW a \in Actions, Click(g, a)
      PROVE  StoredInv'
  <2>1. /\ UNCHANGED lists
        /\ at' = [at EXCEPT ![g] = IF a \in AlwaysActions THEN "persist" ELSE "resolve"]
        /\ action' = [action EXCEPT ![g] = a]
        /\ todo' = [todo EXCEPT ![g] = IF a \in AlwaysActions THEN FilesOf[g[1]] ELSE {}]
    BY <1>4 DEF Click
  <2>2. action'[g] = a /\ (a \in AlwaysActions => todo'[g] = FilesOf[g[1]])
    BY <2>1
  <2>3. \A h \in Handlers \ {g} : at'[h] = at[h] /\ action'[h] = action[h] /\ todo'[h] = todo[h]
    BY <2>1
  <2> QED
    BY <2>1, <2>2, <2>3
<1>5. ASSUME NEW h \in Handlers, TakePending(h) \/ Send(h) \/ Filter(h)
      PROVE  StoredInv'
  BY <1>5 DEF TakePending, Send, Filter
<1>6. ASSUME NEW h \in Handlers, NEW f \in Files, PersistFile(h, f)
      PROVE  StoredInv'
  <2>1. /\ lists' = lists \cup {<<action[h], f>>} /\ UNCHANGED action
        /\ todo' = [todo EXCEPT ![h] = @ \ {f}]
        /\ \A g \in Handlers : at'[g] # "unused" => at[g] # "unused"
    BY <1>6 DEF PersistFile
  <2>2. todo'[h] = todo[h] \ {f} /\ \A g \in Handlers \ {h} : todo'[g] = todo[g]
    BY <2>1
  <2> QED
    BY <2>1, <2>2
<1> HIDE DEF BrokerInv, StoredInv, TypeOK, callerVars, handlerVars, frontendVars
<1> QED
  BY <1>2, <1>3, <1>4, <1>5, <1>6 DEF Next, Handle

LEMMA ReturnInvKept ==
  ASSUME TypeOK, BrokerInv, [Next]_vars
  PROVE  ReturnInv'
<1> USE DEF BrokerInv, ReturnInv, TypeOK, callerVars, handlerVars, frontendVars
<1>1. ASSUME NEW id \in Prompts, Register(id) \/ Emit(id) \/ TimerFires(id) \/ Expire(id)
      PROVE  ReturnInv'
  BY <1>1 DEF Register, Emit, TimerFires, Expire
<1>2. ASSUME NEW id \in Prompts, Receive(id)
      PROVE  ReturnInv'
  <2>1. chan[id] \in Actions /\ id \notin pending
    BY <1>2 DEF Receive, ChannelInv
  <2> QED
    BY <1>2, <2>1 DEF Receive, Actions, AllowActions
<1>3. ASSUME Mount \/ \E id \in Prompts : Deliver(id)
      PROVE  ReturnInv'
  BY <1>3 DEF Deliver, Mount
<1>4. ASSUME NEW g \in Handlers, NEW a \in Actions, Click(g, a)
      PROVE  ReturnInv'
  BY <1>4 DEF Click
<1>5. ASSUME NEW h \in Handlers, Handle(h)
      PROVE  ReturnInv'
  BY <1>5 DEF Handle, PersistFile, TakePending, Send, Filter
<1>6. CASE UNCHANGED vars
  BY <1>6 DEF vars
<1> HIDE DEF BrokerInv, ReturnInv, TypeOK, callerVars, handlerVars, frontendVars
<1> QED
  BY <1>1, <1>2, <1>3, <1>4, <1>5, <1>6 DEF Next, Caller

\* Taking a prompt out of the queue brings none in, and takes out every trace
\* of the prompt, which was queued once.
LEMMA FilterKeeps ==
  ASSUME TypeOK, QueueInv, NEW h \in Handlers, Filter(h)
  PROVE  /\ \A id \in Prompts : Queued(id)' => Queued(id)
         /\ ~Queued(h[1])'
         /\ \A i, j \in DOMAIN queue' : queue'[i] = queue'[j] => i = j
<1>1. CASE UNCHANGED queue /\ \A i \in DOMAIN queue : queue[i] # h[1]
  BY <1>1 DEF Queued, QueueInv
<1>2. ASSUME NEW i \in DOMAIN queue, queue[i] = h[1], queue' = RemoveAt(queue, i)
      PROVE  /\ \A id \in Prompts : Queued(id)' => Queued(id)
             /\ ~Queued(h[1])'
             /\ \A k, l \in DOMAIN queue' : queue'[k] = queue'[l] => k = l
  <2>1. \A j \in DOMAIN queue' :
          /\ j \in DOMAIN queue /\ j + 1 \in DOMAIN queue
          /\ queue'[j] = IF j < i THEN queue[j] ELSE queue[j + 1]
    BY <1>2, RemoveAtKeeps DEF TypeOK
  <2>2. \A j, k \in DOMAIN queue : queue[j] = queue[k] => j = k
    BY DEF QueueInv
  <2>3. DOMAIN queue \subseteq Nat /\ DOMAIN queue' \subseteq Nat
    BY <2>1 DEF TypeOK
  <2>4. \A id \in Prompts : Queued(id)' => Queued(id)
    BY <2>1 DEF Queued
  <2>5. \A j \in DOMAIN queue' : queue'[j] # queue[i]
    BY <2>1, <2>2, <2>3
  <2>6. \A k, l \in DOMAIN queue' : queue'[k] = queue'[l] => k = l
    BY <2>1, <2>2, <2>3
  <2> QED
    BY <1>2, <2>4, <2>5, <2>6 DEF Queued
<1> QED
  BY <1>1, <1>2 DEF Filter

LEMMA QueueInvKept ==
  ASSUME TypeOK, BrokerInv, [Next]_vars
  PROVE  QueueInv'
<1> USE DEF BrokerInv, QueueInv, TypeOK, callerVars, handlerVars, frontendVars
<1>1. ASSUME NEW id \in Prompts, Register(id) \/ Receive(id) \/ TimerFires(id) \/ Expire(id)
      PROVE  QueueInv'
  BY <1>1 DEF Register, Receive, TimerFires, Expire, Queued, Unclicked
<1>2. ASSUME NEW id \in Prompts, Emit(id)
      PROVE  QueueInv'
  BY <1>2 DEF Emit, Queued, Unclicked
<1>3. ASSUME NEW id \in Prompts, Deliver(id)
      PROVE  QueueInv'
  <2>1. CASE ~mounted
    BY <1>3, <2>1 DEF Deliver, Queued, Unclicked
  <2>2. CASE mounted
    <3>1. /\ id \in emitted /\ emitted' = emitted \ {id} /\ queue' = Append(queue, id)
          /\ UNCHANGED <<caller, at>>
      BY <1>3, <2>2 DEF Deliver
    <3>2. /\ DOMAIN queue = 1..Len(queue) /\ Len(queue) \in Nat
          /\ DOMAIN queue' = 1..(Len(queue) + 1)
          /\ \A i \in 1..Len(queue) : queue'[i] = queue[i]
          /\ queue'[Len(queue) + 1] = id
      BY <3>1
    <3>3. ~Queued(id) /\ Unclicked(id) /\ caller[id] \notin {"idle", "emit"}
      BY <3>1
    <3>4. \A x \in Prompts : Queued(x)' => Queued(x) \/ x = id
      BY <3>2 DEF Queued
    <3>5. \A i, j \in DOMAIN queue' : queue'[i] = queue'[j] => i = j
      BY <3>2, <3>3 DEF Queued
    <3>6. \A x \in Prompts : Unclicked(x)' <=> Unclicked(x)
      BY <3>1 DEF Unclicked
    <3>7. \A h \in Handlers : h[1] \in Prompts /\ (at'[h] = "done" => h[1] # id)
      BY <3>1, <3>3, HandlerPrompt DEF Unclicked
    <3> QED
      BY <3>1, <3>3, <3>4, <3>5, <3>6, <3>7
  <2> QED
    BY <2>1, <2>2
<1>4. CASE Mount
  BY <1>4 DEF Mount, Queued, Unclicked
<1>5. ASSUME NEW g \in Handlers, NEW a \in Actions, Click(g, a)
      PROVE  QueueInv'
  <2>1. Queued(g[1])
    BY <1>5 DEF Click, Queued
  <2>2. UNCHANGED <<caller, emitted, queue>> /\ \A x \in Prompts : Queued(x)' <=> Queued(x)
    BY <1>5 DEF Click, Queued
  <2>3. /\ \A h \in Handlers : h[1] # g[1] => at'[h] = at[h]
        /\ \A h \in Handlers : at'[h] = "done" => at[h] = "done"
    BY <1>5 DEF Click
  <2>4. \A x \in Prompts : x # g[1] /\ Unclicked(x) => Unclicked(x)'
    BY <2>3 DEF Unclicked
  <2> QED
    BY <2>1, <2>2, <2>3, <2>4, HandlerPrompt
<1>6. ASSUME NEW h \in Handlers, NEW f \in Files, PersistFile(h, f) \/ TakePending(h) \/ Send(h)
      PROVE  QueueInv'
  BY <1>6 DEF PersistFile, TakePending, Send, Queued, Unclicked
<1>7. ASSUME NEW h \in Handlers, TakePending(h) \/ Send(h)
      PROVE  QueueInv'
  BY <1>7 DEF TakePending, Send, Queued, Unclicked
<1>8. ASSUME NEW h \in Handlers, Filter(h)
      PROVE  QueueInv'
  <2>1. /\ \A id \in Prompts : Queued(id)' => Queued(id)
        /\ ~Queued(h[1])'
        /\ \A i, j \in DOMAIN queue' : queue'[i] = queue'[j] => i = j
    BY <1>8, FilterKeeps
  <2>2. UNCHANGED <<caller, emitted>> /\ at[h] = "filter" /\ at' = [at EXCEPT ![h] = "done"]
    BY <1>8 DEF Filter
  <2>3. \A id \in Prompts : Unclicked(id) => Unclicked(id)'
    BY <2>2 DEF Unclicked
  <2>4. \A g \in Handlers : at'[g] = "done" => at[g] = "done" \/ g = h
    BY <2>2
  <2> QED
    BY <2>1, <2>2, <2>3, <2>4, HandlerPrompt
<1>9. CASE UNCHANGED vars
  BY <1>9 DEF vars, Queued, Unclicked
<1> HIDE DEF BrokerInv, QueueInv, TypeOK, callerVars, handlerVars, frontendVars
<1> QED
  BY <1>1, <1>2, <1>3, <1>4, <1>5, <1>6, <1>7, <1>8, <1>9 DEF Next, Caller, Handle

LEMMA InitBrokerInv == Init => BrokerInv
<1> SUFFICES ASSUME Init PROVE BrokerInv
  OBVIOUS
<1>1. ChannelInv
  BY DEF Init, ChannelInv
<1>2. AnswerInv
  BY HandlerPrompt, BrokerAssumption DEF Init, AnswerInv
<1>3. QueueInv
  BY DEF Init, QueueInv, Queued, Unclicked
<1>4. ReturnInv
  BY DEF Init, ReturnInv
<1>5. StoredInv
  BY DEF Init, StoredInv
<1> QED
  BY <1>1, <1>2, <1>3, <1>4, <1>5 DEF BrokerInv

\* BrokerInv holds in every reachable state.
THEOREM BrokerInvariant == Spec => [](TypeOK /\ BrokerInv)
<1>1. Init => TypeOK /\ BrokerInv
  BY InitTyped, InitBrokerInv
<1>2. TypeOK /\ BrokerInv /\ [Next]_vars => (TypeOK /\ BrokerInv)'
  BY NextTyped, ChannelInvKept, AnswerInvKept, StoredInvKept, QueueInvKept, ReturnInvKept
  DEF BrokerInv
<1> QED
  BY <1>1, <1>2, PTL DEF Spec

\* ResolveContentPrompt never waits for room in the channel (app.go:238-256).
THEOREM SendsNeverBlock == Spec => []SendNeverBlocks
<1>1. BrokerInv => SendNeverBlocks
  BY DEF BrokerInv, ChannelInv, SendNeverBlocks
<1> QED
  BY <1>1, BrokerInvariant, PTL

\* A PromptUser call that returned left no entry behind (app.go:222-232).
THEOREM NoEntryIsStale == Spec => []NoStaleEntry
<1>1. BrokerInv => NoStaleEntry
  BY DEF BrokerInv, ReturnInv, NoStaleEntry
<1> QED
  BY <1>1, BrokerInvariant, PTL

\* A prompt that was dealt with never comes back (useContentPrompts.ts:13-28).
THEOREM DealtWithForGood == Spec => []ClosedForGood
<1>1. BrokerInv => ClosedForGood
  BY HandlerPrompt DEF BrokerInv, QueueInv, Unclicked, ClosedForGood
<1> QED
  BY <1>1, BrokerInvariant, PTL

\* Only a click puts a file on a list, and no handler changes its button.
LEMMA ListsKept ==
  ASSUME TypeOK, BrokerInv, ListsAreClicked, [Next]_vars
  PROVE  ListsAreClicked'
<1> USE DEF TypeOK, callerVars, handlerVars, frontendVars
<1>1. ASSUME UNCHANGED lists,
             \A h \in Handlers : at[h] # "unused" => at'[h] # "unused" /\ action'[h] = action[h]
      PROVE  ListsAreClicked'
  BY <1>1 DEF ListsAreClicked
<1>2. ASSUME NEW id \in Prompts, Register(id) \/ Caller(id) \/ Deliver(id)
      PROVE  ListsAreClicked'
  BY <1>1, <1>2 DEF Register, Caller, Emit, Receive, TimerFires, Expire, Deliver
<1>3. CASE Mount \/ UNCHANGED vars
  BY <1>1, <1>3 DEF Mount, vars
<1>4. ASSUME NEW g \in Handlers, NEW a \in Actions, Click(g, a)
      PROVE  ListsAreClicked'
  BY <1>1, <1>4 DEF Click
<1>5. ASSUME NEW h \in Handlers, TakePending(h) \/ Send(h) \/ Filter(h)
      PROVE  ListsAreClicked'
  BY <1>1, <1>5 DEF TakePending, Send, Filter
<1>6. ASSUME NEW h \in Handlers, NEW f \in Files, PersistFile(h, f)
      PROVE  ListsAreClicked'
  <2>1. /\ at[h] = "persist" /\ f \in todo[h]
        /\ lists' = lists \cup {<<action[h], f>>} /\ UNCHANGED action
        /\ \A g \in Handlers : at[g] # "unused" => at'[g] # "unused"
    BY <1>6 DEF PersistFile
  <2>2. f \in FilesOf[h[1]]
    BY <2>1 DEF BrokerInv, AnswerInv
  <2> QED
    BY <2>1, <2>2 DEF ListsAreClicked
<1> HIDE DEF TypeOK, callerVars, handlerVars, frontendVars
<1> QED
  BY <1>2, <1>3, <1>4, <1>5, <1>6 DEF Next, Handle

\* Whatever is on the engine's lists was clicked in a prompt naming that file
\* (useContentPrompts.ts:21-25, app.go:261-270).
THEOREM OnlyClicksAreStored == Spec => []ListsAreClicked
<1>1. Init => ListsAreClicked
  BY DEF Init, ListsAreClicked
<1>2. TypeOK /\ BrokerInv /\ ListsAreClicked /\ [Next]_vars => ListsAreClicked'
  BY ListsKept
<1> QED
  BY <1>1, <1>2, BrokerInvariant, PTL DEF Spec

-----------------------------------------------------------------------------
(* Every step implements a step of PromptContract, or is invisible to it.  *)

\* A step that calls, clicks, stores and decides nothing is a stutter.
LEMMA Invisible ==
  ASSUME \A id \in Prompts : AskedOf(id)' = AskedOf(id) /\ ClickedIn(id)' = ClickedIn(id)
                              /\ StoredIn(id)' = StoredIn(id),
         UNCHANGED verdict
  PROVE  UNCHANGED Contract!contractVars
  BY DEF Contract!contractVars

\* What a handler has dealt with is on the lists, so that what a prompt has
\* stored depends on its handlers only.
StoredAgrees == \A id \in Prompts : StoredIn(id) = HandledIn(id)

LEMMA StoredIsHandled == TypeOK /\ BrokerInv => StoredAgrees
<1> SUFFICES ASSUME TypeOK, BrokerInv, NEW id \in Prompts PROVE StoredIn(id) = HandledIn(id)
  BY DEF StoredAgrees
<1>1. ASSUME NEW d \in HandledIn(id) PROVE d \in lists
  <2>1. PICK h \in Handlers :
          h[1] = id /\ at[h] # "unused" /\ action[h] = d[1] /\ d[2] \notin todo[h]
    BY <1>1 DEF HandledIn
  <2>2. d = <<d[1], d[2]>> /\ d[1] \in AlwaysActions /\ d[2] \in FilesOf[id]
    BY <1>1 DEF HandledIn
  <2> QED
    BY <2>1, <2>2 DEF BrokerInv, StoredInv
<1> QED
  BY <1>1 DEF StoredIn

LEMMA StoredIsHandledNext == TypeOK' /\ BrokerInv' => StoredAgrees'
  BY StoredIsHandled, PTL

LEMMA HandlersDecide ==
  ASSUME TypeOK, BrokerInv, TypeOK', BrokerInv', UNCHANGED <<at, action, todo>>
  PROVE  \A id \in Prompts : ClickedIn(id)' = ClickedIn(id) /\ StoredIn(id)' = StoredIn(id)
<1>1. \A id \in Prompts : ClickedIn(id)' = ClickedIn(id) /\ HandledIn(id)' = HandledIn(id)
  BY DEF ClickedIn, HandledIn
<1> QED
  BY <1>1, StoredIsHandled, StoredIsHandledNext DEF StoredAgrees

\* Registering the prompt asks it; the way from there to the wait, and the
\* timer, are invisible until PromptUser returns what it received or block_once.
LEMMA CallerImplements ==
  ASSUME TypeOK, BrokerInv, TypeOK', BrokerInv', NEW id \in Prompts, Register(id) \/ Caller(id)
  PROVE  Contract!Next \/ UNCHANGED Contract!contractVars
<1> USE DEF callerVars, handlerVars, frontendVars
<1>1. UNCHANGED <<at, action, todo>>
  BY DEF Register, Caller, Emit, Receive, TimerFires, Expire
<1>2. \A x \in Prompts : ClickedIn(x)' = ClickedIn(x) /\ StoredIn(x)' = StoredIn(x)
  BY <1>1, HandlersDecide
<1>3. \A x \in Prompts : x # id => AskedOf(x)' = AskedOf(x)
  BY DEF Register, Caller, Emit, Receive, TimerFires, Expire, AskedOf, TypeOK
<1>4. CASE Register(id)
  <2>1. AskedOf(id) = {} /\ AskedOf(id)' = FilesOf[id] /\ UNCHANGED verdict
    BY <1>4 DEF Register, AskedOf, TypeOK
  <2>2. FilesOf[id] \in SUBSET Files /\ FilesOf[id] # {}
    BY BrokerAssumption
  <2>3. Contract!Ask(id, FilesOf[id])
    BY <1>2, <1>3, <2>1, <2>2 DEF Contract!Ask
  <2> QED
    BY <2>2, <2>3 DEF Contract!Next
<1>5. CASE Emit(id) \/ TimerFires(id)
  <2>1. AskedOf(id)' = AskedOf(id) /\ UNCHANGED verdict
    BY <1>5 DEF Emit, TimerFires, AskedOf, TypeOK
  <2> QED
    BY <1>2, <1>3, <2>1, Invisible
<1>6. CASE Receive(id)
  <2> DEFINE a == chan[id]
  <2>1. AskedOf(id)' = AskedOf(id) /\ AskedOf(id) = FilesOf[id]
    BY <1>6 DEF Receive, AskedOf, TypeOK
  <2>2. verdict' = [verdict EXCEPT ![id] = a] /\ a \in Actions /\ verdict[id] = "none"
    BY <1>6 DEF Receive, TypeOK, BrokerInv, ReturnInv
  <2>3. PICK h \in Handlers : h[1] = id /\ at[h] \in {"filter", "done"} /\ action[h] = a
    BY <1>6 DEF Receive, TypeOK, BrokerInv, AnswerInv
  <2>4. a \in ClickedIn(id) /\ todo[h] = {}
    BY <2>2, <2>3 DEF ClickedIn, BrokerInv, AnswerInv
  <2>5. a \in AlwaysActions => \A f \in FilesOf[id] : <<a, f>> \in StoredIn(id)
    <3>1. a \in AlwaysActions => \A f \in FilesOf[id] : <<a, f>> \in HandledIn(id)
      BY <2>3, <2>4 DEF HandledIn
    <3>2. StoredIn(id) = HandledIn(id)
      BY StoredIsHandled DEF StoredAgrees
    <3> QED
      BY <3>1, <3>2
  <2>6. FilesOf[id] # {}
    BY BrokerAssumption
  <2>7. Contract!Decide(id, a)
    BY <1>2, <1>3, <2>1, <2>2, <2>4, <2>5, <2>6
    DEF Contract!Decide, Contract!AlwaysActions, AlwaysActions
  <2>8. a \in Contract!Actions
    BY <2>2 DEF Actions, AllowActions, Contract!Actions, Contract!AllowActions
  <2> QED
    BY <2>7, <2>8 DEF Contract!Next, Contract!Return
<1>7. CASE Expire(id)
  <2>1. AskedOf(id)' = AskedOf(id) /\ AskedOf(id) = FilesOf[id] /\ FilesOf[id] # {}
    <3>1. caller[id] = "late" /\ caller'[id] = "returned"
      BY <1>7 DEF Expire, TypeOK
    <3> QED
      BY <3>1, BrokerAssumption DEF AskedOf
  <2>2. verdict' = [verdict EXCEPT ![id] = "block_once"] /\ verdict[id] = "none"
    BY <1>7 DEF Expire, TypeOK, BrokerInv, ReturnInv
  <2>3. \A x \in Prompts : AskedOf(x)' = AskedOf(x)
    BY <1>3, <2>1
  <2>4. Contract!Expire(id)
    BY <1>2, <2>1, <2>2, <2>3 DEF Contract!Expire
  <2> QED
    BY <2>4 DEF Contract!Next, Contract!Return
<1> QED
  BY <1>4, <1>5, <1>6, <1>7 DEF Caller

\* A click asks nothing and stores nothing, it adds one choice, or none when
\* the user has made the same choice in this prompt before.
LEMMA ClickImplements ==
  ASSUME TypeOK, BrokerInv, TypeOK', BrokerInv',
         NEW g \in Handlers, NEW a \in Actions, Click(g, a)
  PROVE  Contract!Next \/ UNCHANGED Contract!contractVars
<1>0. PICK id \in Prompts : id = g[1]
  BY HandlerPrompt
<1>1. /\ at[g] = "unused"
      /\ at' = [at EXCEPT ![g] = IF a \in AlwaysActions THEN "persist" ELSE "resolve"]
      /\ action' = [action EXCEPT ![g] = a]
      /\ todo' = [todo EXCEPT ![g] = IF a \in AlwaysActions THEN FilesOf[id] ELSE {}]
      /\ UNCHANGED <<caller, verdict>>
  BY <1>0 DEF Click, callerVars
<1>2. /\ at'[g] # "unused" /\ action'[g] = a
      /\ a \in AlwaysActions => todo'[g] = FilesOf[id]
  BY <1>0, <1>1 DEF TypeOK
<1>3. \A h \in Handlers \ {g} : at'[h] = at[h] /\ action'[h] = action[h] /\ todo'[h] = todo[h]
  BY <1>1
<1>4. \A x \in Prompts : AskedOf(x)' = AskedOf(x)
  BY <1>1 DEF AskedOf
<1>5. AskedOf(id) # {}
  <2>1. Queued(id)
    BY <1>0 DEF Click, Queued, TypeOK
  <2> QED
    BY <2>1, BrokerAssumption DEF BrokerInv, QueueInv, AskedOf
<1>6. \A x \in Prompts : StoredIn(x)' = StoredIn(x)
  <2>1. \A x \in Prompts : HandledIn(x)' = HandledIn(x)
    BY <1>0, <1>1, <1>2, <1>3 DEF HandledIn
  <2> QED
    BY <2>1, StoredIsHandled, StoredIsHandledNext DEF StoredAgrees
<1>7. /\ \A x \in Prompts : x # id => ClickedIn(x)' = ClickedIn(x)
      /\ ClickedIn(id)' = ClickedIn(id) \cup {a}
  BY <1>0, <1>1, <1>2, <1>3 DEF ClickedIn
<1>8. CASE a \in ClickedIn(id)
  <2>1. \A x \in Prompts : ClickedIn(x)' = ClickedIn(x)
    BY <1>7, <1>8
  <2> QED
    BY <1>1, <1>4, <1>6, <2>1, Invisible
<1>9. CASE a \notin ClickedIn(id)
  <2>1. Contract!Click(id, a)
    BY <1>1, <1>4, <1>5, <1>6, <1>7, <1>9 DEF Contract!Click
  <2>2. a \in Contract!Actions
    BY DEF Actions, AllowActions, Contract!Actions, Contract!AllowActions
  <2> QED
    BY <2>1, <2>2 DEF Contract!Next
<1> QED
  BY <1>8, <1>9

\* Storing a file of an "always" choice is the contract's Persist; taking the
\* entry, answering and closing the modal are invisible.
LEMMA HandleImplements ==
  ASSUME TypeOK, BrokerInv, TypeOK', BrokerInv', NEW h \in Handlers, Handle(h)
  PROVE  Contract!Next \/ UNCHANGED Contract!contractVars
<1>1. UNCHANGED <<caller, verdict, action>>
  BY DEF Handle, PersistFile, TakePending, Send, Filter, callerVars
<1>2. \A id \in Prompts : AskedOf(id)' = AskedOf(id)
  BY <1>1 DEF AskedOf
<1>3. \A g \in Handlers : at'[g] = "unused" <=> at[g] = "unused"
  BY DEF Handle, PersistFile, TakePending, Send, Filter, TypeOK
<1>4. \A id \in Prompts : ClickedIn(id)' = ClickedIn(id)
  BY <1>1, <1>3 DEF ClickedIn
<1>5. CASE TakePending(h) \/ Send(h) \/ Filter(h)
  <2>1. UNCHANGED todo
    BY <1>5 DEF TakePending, Send, Filter
  <2>2. \A id \in Prompts : StoredIn(id)' = StoredIn(id)
    <3>1. \A id \in Prompts : HandledIn(id)' = HandledIn(id)
      BY <1>1, <1>3, <2>1 DEF HandledIn
    <3> QED
      BY <3>1, StoredIsHandled, StoredIsHandledNext DEF StoredAgrees
  <2> QED
    BY <1>1, <1>2, <1>4, <2>2, Invisible
<1>6. ASSUME NEW f \in Files, PersistFile(h, f)
      PROVE  Contract!Next
  <2> DEFINE id == h[1]
             a == action[h]
  <2>1. /\ id \in Prompts /\ at[h] = "persist" /\ f \in todo[h]
        /\ todo' = [todo EXCEPT ![h] = @ \ {f}]
    BY <1>6, HandlerPrompt DEF PersistFile
  <2>2. a \in AlwaysActions /\ f \in FilesOf[id] /\ a \in Actions
    BY <2>1 DEF BrokerInv, AnswerInv, TypeOK
  <2>3. a \in ClickedIn(id)
    BY <2>1, <2>2 DEF ClickedIn
  <2>4. /\ f \notin todo'[h] /\ todo'[h] = todo[h] \ {f}
        /\ \A g \in Handlers \ {h} : todo'[g] = todo[g]
    BY <2>1 DEF TypeOK
  <2>5. \A x \in Prompts : x # id => StoredIn(x)' = StoredIn(x)
    <3>1. \A x \in Prompts : x # id => HandledIn(x)' = HandledIn(x)
      BY <1>1, <1>3, <2>4 DEF HandledIn
    <3> QED
      BY <3>1, StoredIsHandled, StoredIsHandledNext DEF StoredAgrees
  <2>6. StoredIn(id)' = StoredIn(id) \cup {<<a, f>>}
    <3>1. ASSUME NEW d \in AlwaysActions \X FilesOf[id]
          PROVE  (\E g \in Handlers :
                    g[1] = id /\ at'[g] # "unused" /\ action'[g] = d[1] /\ d[2] \notin todo'[g])
                 <=>
                 \/ \E g \in Handlers :
                      g[1] = id /\ at[g] # "unused" /\ action[g] = d[1] /\ d[2] \notin todo[g]
                 \/ d = <<a, f>>
      BY <1>1, <1>3, <2>1, <2>2, <2>4
    <3>2. HandledIn(id)' = HandledIn(id) \cup {<<a, f>>}
      BY <2>2, <3>1 DEF HandledIn
    <3> QED
      BY <2>1, <3>2, StoredIsHandled, StoredIsHandledNext DEF StoredAgrees
  <2>7. AskedOf(id) = FilesOf[id]
    <3>1. caller[id] # "idle"
      BY <2>1 DEF BrokerInv, QueueInv, Unclicked
    <3> QED
      BY <3>1 DEF AskedOf
  <2>8. Contract!Persist(id, a, f)
    <3>1. a \in Contract!AlwaysActions
      BY <2>2 DEF AlwaysActions, Contract!AlwaysActions
    <3> HIDE DEF a, id
    <3> QED
      BY <1>1, <1>2, <1>4, <2>1, <2>2, <2>3, <2>5, <2>6, <2>7, <3>1 DEF Contract!Persist
  <2>9. a \in Contract!AlwaysActions
    BY <2>2 DEF AlwaysActions, Contract!AlwaysActions
  <2> QED
    BY <2>1, <2>8, <2>9 DEF Contract!Next
<1> QED
  BY <1>5, <1>6 DEF Handle

LEMMA StepImplements ==
  ASSUME TypeOK, BrokerInv, TypeOK', BrokerInv', [Next]_vars
  PROVE  Contract!Next \/ UNCHANGED Contract!contractVars
<1>1. ASSUME Mount \/ (\E id \in Prompts : Deliver(id)) \/ UNCHANGED vars
      PROVE  UNCHANGED Contract!contractVars
  <2>1. UNCHANGED <<caller, verdict, at, action, todo>>
    BY <1>1 DEF Mount, Deliver, vars, callerVars, handlerVars
  <2>2. \A id \in Prompts : AskedOf(id)' = AskedOf(id)
    BY <2>1 DEF AskedOf
  <2> QED
    BY <2>1, <2>2, HandlersDecide, Invisible
<1> QED
  BY <1>1, CallerImplements, ClickImplements, HandleImplements DEF Next

LEMMA InitImplements == Init => Contract!Init
<1> SUFFICES ASSUME Init PROVE Contract!Init
  OBVIOUS
<1>1. \A id \in Prompts : AskedOf(id) = {} /\ ClickedIn(id) = {} /\ StoredIn(id) = {}
  BY HandlerPrompt DEF Init, AskedOf, ClickedIn, StoredIn, HandledIn
<1> QED
  BY <1>1 DEF Init, Contract!Init

\* App and the hook implement PromptContract but for its liveness, which the
\* run broker_contract checks: PromptUser answers what was clicked for this
\* prompt or block_once, an "always" only once every file is on its list
\* (app.go:212-270, useContentPrompts.ts:19-29).
THEOREM ImplementsContract == Spec => Contract!Init /\ [][Contract!Next]_Contract!contractVars
<1>1. /\ TypeOK /\ BrokerInv /\ TypeOK' /\ BrokerInv' /\ [Next]_vars
      => [Contract!Next]_Contract!contractVars
  BY StepImplements
<1> QED
  BY <1>1, InitImplements, BrokerInvariant, PTL DEF Spec

=============================================================================
