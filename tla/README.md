# Egressor: specifications and proofs

Egressor is a forward proxy that a developer puts between their tools and the
internet. It terminates TLS with certificates of its own, looks into every
request for files that must not leave the machine, blocks or forwards it, may
ask the user in a desktop window, and writes an audit record. This directory
holds TLA+ models of the parts of it that are hard to test, the TLC
configurations that check them on small instances, and TLAPS proofs of what
matters most for every instance.

Paths below are relative to the repository's root.

## 1. Inventory

| Component | State | Operations | Hard to get right |
|---|---|---|---|
| Policy engine, `internal/policy/policy.go` | six rule lists under an RWMutex, atomic bypass flag | Set/Add/Remove of each list, `SetBypassed`, `EvaluateScope`, `EvaluateFiles`, `EvaluateContentTags`, `EvaluateContentKeywords` | edits between two layers of one request |
| Interceptor, `internal/proxy/intercept.go` | per connection: current request, buffer, exchange | relay loop: read, scan, ask, forward, answer, record | four reads of the rules at four instants; a prompt that waits 30s; peers that fail or fall silent anywhere; bodies beyond the limit |
| Prompts, `internal/ui/app.go`, `hooks/useContentPrompts.ts` | map of pending prompts, one channel each; the window's queue | `PromptUser`, `ResolveContentPrompt`, `ResolveContentPromptForFile`, click | timeout against a late or second answer; lost events |
| Server, `internal/proxy/proxy.go` | `running`, `cancel`, mutex; a listener and two goroutines per Start | `Start`, `Stop`, `IsRunning`, `ListenAndServe`, `handleConnection` | Start/Stop races, bind failure reported under a mutex |
| Leaf certificates, `internal/ca/cert.go` | map with expiries, eviction order | `GetCertificate` | expired entries are listed twice |
| CA on disk, `internal/ca/ca.go` | two files | load, generate | crash between the two writes, two processes over the same files |
| Audit log, `internal/audit/logger.go` | the file, its size, the writer | `Log`, rotate, `Close`, `NewLogger` | rotations in one second, failing renames and opens, crash before a rotation |
| Session store and feed, `internal/audit/store.go`, `hooks/useSessions.ts` | ring of 1000 sessions, observers; the window's sessions and count | `Log`, `Recent`, `Stats`; fetch on mount, events after it | fan-out order, answers that overwrite events |
| Configuration, `internal/config`, `App.SaveConfig` | the YAML file, `a.cfg` | load, save | lists copied one by one, truncating write |
| Policy window and tray, `hooks/usePolicy.ts`, `PolicyEditor.tsx`, `internal/tray` | copies of lists, paused flags | edits, toggles, fetches, save | read-modify-write of the directories, copies that go stale |
| Extraction, `internal/extract` | none | regular expressions over a body | none that a state machine would show |

How they interact: `main.go` builds the engine, the interceptor and the server
and gives the interceptor a resolver, `App` in desktop mode and
`HeadlessResolver` otherwise. The server's accept loop starts one goroutine per
connection (`handleConnection`), which calls the interceptor, which calls the
certificate cache during the handshake, the engine four times per request and
the resolver when the engine says so. `App` emits an event to the window, whose
hook calls back into `App` on other goroutines, which write to the engine the
first goroutine has read from. A finished session goes to the log file and to
the ring, whose observers emit events to the window.

What makes each part correct is stated with the runs in section 4.

## 2. Modules

| Module | Models | State and actions against the code |
|---|---|---|
| `PolicyEngine` | `policy.go` | `rules` is the set of tagged entries of all lists in `e.cfg`, `bypassed` the atomic; the `Evaluate*` operators decide from a copy of the rules; `EngineNext` is every edit the window can make |
| `InterceptGate` | `intercept.go` up to "Forward request to upstream" | one goroutine per connection: `ReadRequest`, then for each layer `LoadBypass` (the atomic load) and `Copy`/`CopyKeywords` (the copy under the read lock and the decision), `Answered` when `PromptUser` returns; extends `PolicyEngine`, instantiates `PromptContract` |
| `PromptContract` | the `PromptResolver` interface | what `PromptUser` promises its caller; `HeadlessResolver` is the case where every prompt expires at once |
| `PromptBroker` | `app.go:208-270`, `useContentPrompts.ts` | `pending` is the map, `chan` the one-place channels, `queue` the hook's state; a handler is one run of `resolve()`, whose awaits are separate steps |
| `InterceptRelay` | `handleConnection` and the relay loop | `pc` follows one connection from CONNECT to the log; the outcome of the gate is a choice; the peers answer, hint (1xx), fall silent and go away on their own |
| `ProxyServer` | `Start`, `Stop`, `ListenAndServe` | `holder` is the mutex (a Start keeps it up to 100ms), `serve[g]` the goroutine that the g-th Start launched |
| `CertCache` | `GetCertificate` | `cache` maps hosts to expiries, `order` is `cc.order` |
| `AuditLog` | `logger.go` | `file` and `rotated` are the files by name, `writer` and `size` the fields; `Log` appends a line of any length and compares the size afterwards, `Rotate` is the call at its end, under the same lock, but a crash can fall between them |
| `SessionStore` | the ring of `store.go` | `slots`, `head`, `count`; `Recent` walks back from the head with the code's modular index |
| `RecentSessions` | what the ring promises | the list of the last sessions, newest first |
| `AuditTrail` | `MultiSink`, the observer, `useSessions.ts`, the end of `main` | extends `AuditLog` and `SessionStore`; `at[s]` is the sink the goroutine of session `s` is before or inside of, `events` the window's events, `call` its two fetches |
| `CAStore` | `ca.go` and the start of `main` | `cert` and `key` are the files, by the number of the CA they hold, `Cut` for a truncated one; `at[p]` follows one process through `main`, `LoadOrGenerate` and `writeToDisk` |
| `PolicyWindow` | `usePolicy.ts`, the editing methods and `SaveConfig` of `app.go`, `tray.go`, `config.go` | `engine`, `cfg`, `disk`, `shown` are the four copies of a list; `at[c]` follows one asynchronous function of the hook through the calls it awaits |

`InterceptGate` composes the engine with the resolver's contract, and
`PromptBroker` is shown to implement that contract: what is proved of the gate
with the contract holds with the real resolver in its place. `AuditTrail`
composes the log file, the ring and the window, and its ring is shown to
implement `RecentSessions`. `PolicyWindow` and `PolicyEngine` look at the same
lists from two sides: there how they come to change and what is shown and
saved of them, here what a request is told by them.

`MCInterceptGate`, `MCPromptBroker`, `MCCertCache`, `MCAuditTrail` and
`MCPolicyWindow` hold the instances for TLC. The `*Proofs` modules hold the theorems. Definitions
commented "Mutant" are mistakes somebody could make in the code: each property
is also run with one of them in place of the real definition, and must then
fail.

### Abstractions

* A path, a tag, a keyword is a member of a small set. `DirsOf` and
  `PatternsOf` say which directories contain a file and which patterns match
  it, so that `isInScope`, `resolvePath` and `matchFilePattern` are data. What
  the extractor and the scans find in a body is data too (`Requests`).
* Time: the timer of a prompt may fire at any moment while `PromptUser` waits;
  the timer of Start likewise; only `CertCache` and `AuditLog` have a clock.
* A body is a number of parts (`InterceptRelay`). Headers are left out, except
  `Connection: close` and the framing of the body: a length, chunks, or chunks
  that cannot be read to their end ("garbled").
* A silent peer stays connected and neither sends nor reads any more; it may
  still go away. One that pauses and goes on is a slow one: its steps come
  later.
* Lists are sets: no decision depends on order or multiplicity. In
  `PolicyWindow` three of them stand for the six: the directories, which `App` reads and writes back; the tags, which the engine
  edits under its lock like the patterns and the keywords; the whitelist,
  which prompts add to like the blacklist.
* The size of a log file is the sum of the lengths of its lines (`LineSize`, any
  positive numbers); sessions are numbered in the order they enter the first
  sink. `Close` and a rotation do not overlap
  in the middle: each is one step. A logger on stdout from the start
  (`file == ""`) and the default size are left out.
* A truncated configuration may lose any of its items, or fail to load, when
  the next start reads it.
* `stable`, `ever` and `modes` in `InterceptGate`, `misled` in `ProxyServer`,
  `served` in `CertCache`, `written`, `turns`, `replaced`, `cut` and `overlap`
  in `AuditLog` and `AuditTrail`, `announced` and `damaged` in `CAStore`,
  `intended` and what follows it in `PolicyWindow` are history, read by
  properties only.

## 3. Bounds

The bounds that the models need are constants, named in the module that uses
them. Two files (one inside the directory, one matched by the pattern) reach
every combination of a list with a layer. `MaxEdits` = 3 edits suffice to
remove a rule, add another and toggle the bypass within one request;
`MaxClicks` = 2 clicks on one prompt are the race the buttons allow, and so
are the two `Handlers` of one prompt in `broker`. `MaxStarts` = 3 Starts of the
server give a goroutine of the past, of the present and of the next Start. Four
hosts in a cache of two, over three lifetimes (`MaxTime`, `MaxOrder`), expire,
renew and evict each other. `MaxRequests` = 2 requests show what follows a
refusal or a shifted response, `MaxHints` = 1 interim response shifts one.
Bodies of one and two parts are within and beyond a `MaxBody` of one; a body
without parts comes in with `relay_large`.

In `audit`, three sessions whose lines are of one or two units go into files of
three (`MaxSize`) and a ring of two (`Capacity`) and go beyond both: two lines
of two pass `MaxSize` without reaching it exactly, one of two and one of one
reach it. The file may hold an older session (`MaxOld`); two seconds (`MaxTime`) allow two rotations in one second and in
two; one failing call (`MaxFaults`), one end or crash (`MaxRestarts`). `Limit`
1 < `MaxShown` 2 <= `Capacity` 2 keeps the order of the code's 200, 500 and
1000 as far as it matters: the window asks for less than it shows. In
`startup`, two processes, three CAs (`MaxGenerations`), two faults: one
can cut a file, the other can interrupt the repair. In `window`, two calls run
at once out of three clicks, with one change from outside (`MaxOutside`), one
failing write and one restart; `Slow` says which load may still be under way
when the user begins. Two calls are enough for every overlap of an edit with
an edit, of a save with a save and of a save with an edit. The proofs need
none of these.

## 4. Runs

| Run | Checks | Result |
|---|---|---|
| `gate_edits` | `ForwardJustified`, `BlockJustified`, `PromptWarranted`, `GateInv`, `EveryRequestDecided` | hold; one connection, two requests, every edit at any point |
| `gate_prompts` | `ForwardJustified`, `BlockJustified` | hold; two connections whose prompts rewrite each other's lists |
| `broker` | `SendNeverBlocks`, `ListsAreClicked`, `ClosedForGood`, `BrokerInv`, `KeepsContract`, `HandlersFinish` | hold; two prompts that share a file, one clicked twice: `PromptBroker` implements `PromptContract`, with its liveness |
| `cert_cache` | `Evictable`, `ServedIsCached`, `EvictsTheOldest` | hold |
| `cert_bound` | `CacheBounded` | violated: a renewed host is listed twice |
| `server_start` | `NeverStuck`, `RunningIsTrue`, `StopReachesIt`, `StopEndsServing` | hold |
| `server_bind` | `StartReportsFailure` | violated: Start cannot learn of a failed bind |
| `relay` | `BlockIsFinal`, `RecordHasNoHoles`, `LoggedOnce`, `CutIsNeverComplete`, `AnswersMatch`, `EveryRequestEnds`, `GoneIsLogged` | hold; peers that go away or fall silent anywhere |
| `relay_large` | `LargeBodiesForwarded` | violated: what is forwarded is the truncated buffer |
| `audit` | `WrittenIsKept`, `FilesKeepOrder`, `FilesAreBounded`, `LoggedFirst`, `WindowAgrees`, `RingIsRecent` | hold; `AuditTrail`'s ring implements `RecentSessions` |
| `startup` | `ServesAPair`, `FailsOnlyOnDamage`, `AnnouncedBeforeUse`, `KeepsTheCA` | hold; crashes and failing writes anywhere |
| `window` | `EditsAreKept`, `WindowTellsTruth`, `RestartRestores` | hold; edits, saves, toggles, prompts, the tray, a failing or cut write |

The central question is what a decision means when the rules change while it
is taken. No single rule set need explain it: scope may have been judged by
the rules of one instant and the tags by those of another. `ForwardJustified`
says what remains true: a rule that was in force from the moment the request
was read until it is forwarded has been obeyed. `BlockJustified` is its
converse: the reason of a block was in force at some moment of that interval.

Several properties name what the code can lose, and say that it loses nothing
else. `WrittenIsKept`: a written session is lost only with a file that another
rotation of the same second replaced. `FilesKeepOrder`: what is left is in the
order it was written, file after file. `LoggedFirst`: without failures, nobody
has seen a session that the audit log does not have, neither in the store nor
in the window. `FilesAreBounded`: the limit is compared after the write
(logger.go:66-71), so that the last line of a file may exceed `maxSize` by any
length; without failures, the file is below `maxSize` up to that line. Each
crash between a write and its rotation lets one more line in, because a restart
looks at the file's size but does not rotate before the next write.
`EvictsTheOldest`: an entry leaves the certificate cache only as one that
expires first, or because its name is listed from before a renewal and that
listing came to the head of `cc.order`: then even the newest entry may go
(cert.go:62-73). `EveryRequestEnds` and `GoneIsLogged`: a request or a session
that does not end waits for a peer that is connected and silent. `WindowAgrees`: the window
differs from the store only by sessions that came in while it was loading.
`FailsOnlyOnDamage`: a start fails only after a writer stopped halfway or two
processes were at the files. `EditsAreKept`: only directory edits that overlap
lose one. `RestartRestores`: a restart brings back something other than what
the last save found only if saves overlapped, or the write failed or was cut. The
exceptions are the hazards that PROJECT.json lists; the mutants show that
other code would break more.

Deadlock is not checked (`CHECK_DEADLOCK FALSE`): every bound ends the
behaviours of an instance, and connections, prompts and servers really stop.

### Where the code and its documentation disagree

* cert_test.go:91 "expected cache size <= 3". True of the test's hosts, which
  never expire. One renewal is enough to exceed the limit later (cert.go:62-73).
  Run `cert_bound`; `BoundedWhileYoung` proves the part that is true, that the
  limit holds until a first certificate can have expired.
* proxy.go:61 "Give the listener a moment to bind or fail". Start holds the
  mutex that the goroutine must lock before it can send the error: a failed
  bind is never returned. `NeverStuck` shows the other side of it: the branch
  that would lock the mutex twice is unreachable. Run `server_bind`.
* config.yaml:90 "truncated in logs but still forwarded to the upstream". The
  buffer that is forwarded is the truncated one; with a Content-Length the
  write fails and the session ends in an error, with chunked framing the
  upstream gets a cut body that looks complete. Run `relay_large`;
  `SmallBodiesAreWhole` proves that nothing within the limit is cut, and that
  what is beyond it is cut exactly at the limit.

Others were met while modelling and have no run of their own:

* README.md:227 "When Egressor detects a tag in the request body, it blocks
  immediately." The scan is inside `if len(files) > 0 && !skipScan`
  (intercept.go:106); `ForwardJustified` speaks of scanned requests.
* docs/components.md:34 "the response is captured and relayed back". An interim
  (1xx) response takes the final one's place (intercept.go:291);
  `AnswersMatch` says how far the answers can be trusted.
* config.yaml:76 "Rotated files are kept with a unix timestamp suffix." Of two
  rotations in one second, the second replaces the first one's file
  (logger.go:78).
* A directory typed as `~/...` in the window, as its placeholder suggests, is
  not expanded until the configuration is loaded again (PolicyEditor.tsx,
  config.go:83-86); `Expand` in `PolicyWindow`.
* The window says "Saved" without waiting for `SaveConfig`
  (PolicyEditor.tsx:70-74).
* An Allow Always clicked after the timeout whitelists the file although the
  request was blocked (docs/policy.md:98, app.go:222-232); a queued prompt is
  shown although an earlier answer settled its files (docs/policy.md:102,
  useContentPrompts.ts:14); Block Always for a file that is already whitelisted
  changes nothing (docs/policy.md:100, policy.go:385-387).

## 5. Fairness

* `InterceptGate`: weak fairness of each goroutine's steps and of the return of
  `PromptUser`. The scheduler runs goroutines, and the 30s timer is always
  pending, so that the return is always possible. Nothing is assumed of clients
  or of the user.
* `PromptBroker`: weak fairness of callers, event delivery and handlers. The
  window need not open, the user need not click.
* `ProxyServer`: strong fairness of the server's goroutine, because it competes
  for the mutex with callers that may start and stop for ever, and a Go mutex
  does not starve a waiter; weak fairness of the timer of Start and of the
  goroutine that closes the listener.
* `InterceptRelay`: weak fairness of the handler's steps, but not of those that
  read from or write to a peer that is silent: after the client's handshake
  (intercept.go:60) no deadline is set, so that io.Copy from the client's body
  (96), the writes to the client (146, 309) and to the upstream (286) and the
  read of the response (291) may each wait for ever. A request is ended by its
  handler only if neither peer falls silent for good, and the liveness
  properties say so. Nothing is assumed of the peers: each may fall silent or
  go away at any point. Weak fairness of `UpstreamAnswers` says only that an
  upstream that is not silent, gone or without a complete request to answer
  answers in the end, which is what not being silent means; that of `ReadFails`
  with a client that is gone, that reading from a closed connection ends.
* `AuditTrail`, `CAStore` and `PolicyWindow` assume no fairness: their
  properties are about safety, and must hold of a program that stops anywhere.

## 6. Proofs

All theorems hold for every value of the constants that satisfies the module's
`ASSUME`; they rest on nothing else. Each proof has the same shape: a lemma
that the initial states satisfy the invariant, one lemma per action (or group
of actions) that it is kept, and a temporal step.

* `InterceptGateProofs`: `GateInvariant`. `ForwardJustified` is not inductive:
  it speaks of the moment of forwarding only. `GateInv` says for every layer a
  goroutine has passed what passing it established (`Cleared`), that the
  history brackets the current rules (`Framed`), that an allowing verdict
  was clicked (`PromptInv`), and that a prompt is opened once, by the request
  it belongs to (`Opened`). Edits keep it because `stable` only shrinks and
  `ever` only grows. `ForwardIsJustified`, `BlockIsJustified`,
  `PromptIsWarranted` and `PromptsAreFresh` follow. `GateKeepsContract` is the
  other half of the composition with `PromptBroker`: every step of the gate is
  a step of `PromptContract` or leaves it alone, so that what the broker is
  proved to implement is what the gate is proved to use. `DecisionAdvances`
  gives every undecided request a distance of at most eleven, which only its
  own goroutine changes and only downwards: what fairness then adds, for
  `EveryRequestDecided`, is that the goroutine runs and the prompt returns.
* `PromptBrokerProofs`: `BrokerInvariant`. A map entry stands for an empty
  channel and at most one sender; an answer in the channel has been stored; a
  prompt is on its way, or queued, or dealt with. `SendsNeverBlock`,
  `NoEntryIsStale`, `DealtWithForGood` follow, and `ImplementsContract`: every
  step is a step of `PromptContract` or a stutter.
  `OnlyClicksAreStored` is inductive by itself, given that a handler has only
  files of its own prompt to store.
* `CertCacheProofs`: `CacheInvariant`, whose point is that every cached host is
  listed although names are listed more than once and evicted when they are no
  longer cached. `EvictionIsByAge` adds to it (`AgeInv`) that of the places at
  which two cached names are listed last, the later one belongs to the entry
  that expires later (`OrderFollowsAge`), and that no entry outlives one made
  now; removing the head keeps both. A head that is its name's last listing
  then belongs to an entry that expires first (`HeadIsOldest`), any other head
  is an outdated listing. `BoundedWhileYoung` shows that before the first expiry a
  name is listed once, so that the list and the cache are of one size
  (`EarlyInv`).
* `ProxyServerProofs`: `ServerInvariant`: only the last Start can be live, and
  while its caller is in Start it has reported nothing. `StartNeverStuck`,
  `FlagIsTrue` and `StopReaches` follow.
* `InterceptRelayProofs`: all five invariants of `relay`. `WireInv` says what
  the wires hold, `RecordInv` how the record lags behind the requests at each
  `pc`, `AnswerInv` that as long as no interim response has been taken, the
  upstream's next response on the wire belongs to the oldest request that
  waits for one. `BlockedForGood`, `RecordIsComplete`, `SessionIsLoggedOnce`,
  `CutsAreSeen` and `AnswersAreOwn` follow. `SmallBodiesAreWhole` carries that
  the buffer of the request at hand is cut at the limit and nowhere else,
  unless the client left or sent it garbled (`BodyInv`).
* `AuditTrailProofs`: all six properties of `audit`. `RingImplementsRecent`
  rests on three lemmas about the modular index, of which `IndexMoves` says
  that one session further every older one is found where it was. The others
  follow from `TrailInvariant`. Sessions are numbered in the order they come,
  so that "in order" is `Rising`: the numbers in a file rise, those of a file
  are below those of the next (`FileInv`), and whatever is written is in some
  file, on stdout or replaced (`KeptInv`). `LogInv` says that a session past
  the logger is written, `SizeInv` that the counted size is never below the
  file's and that a file is full only while its rotation is due, but for one
  line for each crash; it starts from a file below `MaxSize`, since a full one
  is what such a crash leaves, and then counts as one. It rests on lemmas about
  the size of a file as the number of its bytes: a line adds its length
  (`LineAdds`), leaving out the last line that was added changes nothing
  (`AppendAndDrop`), and leaving out more lines never makes a file larger
  (`AllButShrinks`). `WindowInv` is about the window: the
  ring holds no session twice, and whatever is on its way while a load is under
  way has overlapped with it (`WayInv`); what is recent is shown, on its way or
  has overlapped (`ShownInv`); the totals differ by no more than the overlaps
  and the events to come (`CountInv`).
  `FilesStaySmall`, `SessionsAreKept`, `FilesAreInOrder`, `LoggedBeforeSeen`
  and `WindowFollowsStore` follow.
* `CAStoreProofs`: `PairsAreServed` from `PairInv` (a process holds a pair or
  nothing); `FailureMeansDamage` from `DamageInv` (undamaged files belong
  together whenever nobody writes them); `NothingUnannounced` from
  `AnnounceInv` (a CA in the files is announced, or its maker is about to);
  `CAIsKept` is a fact about single steps and needs the types only.
* `PolicyWindowProofs`: all three properties of `window`. `EditInv`: a
  directory edit between its two calls has read the current list, or has been
  raced. `SaveInv`: a save that is alone has in its copy, its text and the
  file what it found (`Alone`). `ShownInv`: a list that is not stale has at
  most one call on it, which brings what is in force (`Followed`).

Every safety property that a passing run checks is also proved. Only
model-checked are the liveness properties (`EveryRequestDecided`,
`HandlersFinish`, `StopEndsServing`, `EveryRequestEnds`, `GoneIsLogged`, the
fairness conjunct of `KeepsContract`), which are out of the prover's reach.
Where the ring, the files and the window are about sequences of any length, the
proofs avoid induction over them: the invariants speak of indices and of the
order of the sessions' numbers instead of concatenations and selections.

## 7. Not modelled, and the plan

* The file extractor (`internal/extract`) scans the text of a JSON body with
  regular expressions. It keeps no state and its subject is text, character by
  character; which paths it finds is data of `InterceptGate`.
* The proxy button (`ProxyControls.tsx`) reads a flag before and after the call
  it makes. Any order of calls it can cause is an order of `ProxyServer`; what
  it shows is not modelled.
* `GetByID`, and the sums over exchanges in `Stats`, only read. `refresh` of
  `useSessions` is called by no component.
* The views, flags, the lookup of the configuration file and its sections that
  are only read, and generated code have no state worth a model. Conversions to
  JSON and YAML, X.509 content, log lines and headers are left out.

Planned next: for the other liveness properties, the safety half that
`DecisionAdvances` is for `EveryRequestDecided`; a queue of prompts that looks
at the lists again, as docs/policy.md:102 promises, should the code take that
up.
