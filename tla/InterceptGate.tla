---------------------------- MODULE InterceptGate ----------------------------
(***************************************************************************)
(* The decision the interceptor takes on every request it relays           *)
(* (internal/proxy/intercept.go, the body of the relay loop up to "Forward *)
(* request to upstream"): one goroutine per connection runs the request    *)
(* through the four layers, each of which loads the bypass flag and then   *)
(* copies its own lists, and may wait for the user, while the user edits   *)
(* the rules, toggles the bypass and answers prompts of other connections. *)
(*                                                                         *)
(* The engine is PolicyEngine, the resolver is what PromptContract         *)
(* promises of PromptUser: PromptBroker shows that App keeps it, and the   *)
(* HeadlessResolver, whose prompts expire at once, keeps it too.  What     *)
(* becomes of a request once it is decided, and the failures of the two    *)
(* connections, are in InterceptRelay.                                     *)
(***************************************************************************)
EXTENDS PolicyEngine, FiniteSets

CONSTANTS
  Conns,        \* connections, one relay goroutine each
  MaxRequests,  \* bound on the requests of one connection
  MaxClicks,    \* bound on the different buttons clicked for one prompt
  Requests      \* requests: [files, terms, skip], see below

Rounds  == 1..MaxRequests
Prompts == Conns \X Rounds

\* files and terms are what the extractor and the scans find in the buffered
\* body; skip says that the Content-Type is in skip_content_types
ASSUME GateAssumption ==
  /\ MaxRequests \in Nat
  /\ Requests \subseteq [files : SUBSET Files, terms : SUBSET Terms, skip : BOOLEAN]

VARIABLES
  asked, clicked, persisted, verdict,  \* of PromptContract
  pc,        \* where each connection's goroutine is
  round,     \* number of requests the connection has read
  req,       \* the request being decided
  layer,     \* the layer about to be evaluated
  reason,    \* exchange.BlockReason, "none" while not blocked
  \* history, read by the properties only: since the request was read ...
  stable,    \* ... the rules that were in force all the time
  ever,      \* ... the rules that were in force at some time
  modes      \* ... the values e.bypassed had

Resolve == INSTANCE PromptContract

promptVars  == <<asked, clicked, persisted, verdict>>
controlVars == <<pc, round, req, layer, reason>>
historyVars == <<stable, ever, modes>>
vars == <<engineVars, promptVars, controlVars, historyVars>>

Layers  == {"scope", "files", "tags", "keywords"}

\* Mutant: the tags are left out.
AfterWithoutTags == [scope |-> "files", files |-> "keywords", tags |-> "keywords"]

After   == [scope |-> "files", files |-> "tags", tags |-> "keywords"]
Reasons == {"scope", "file", "tag", "blacklist", "user"}
Places  == {"read", "load", "copy", "ask", "forward", "blocked", "closed"}

PromptId(c) == <<c, round[c]>>

TypeOK ==
  /\ EngineTypeOK
  /\ Resolve!TypeOK
  /\ pc \in [Conns -> Places]
  /\ round \in [Conns -> 0..MaxRequests]
  /\ req \in [Conns -> [files : SUBSET Files, terms : SUBSET Terms, skip : BOOLEAN]]
  /\ layer \in [Conns -> Layers]
  /\ reason \in [Conns -> Reasons \cup {"none"}]
  /\ stable \in [Conns -> SUBSET Rules]
  /\ ever \in [Conns -> SUBSET Rules]
  /\ modes \in [Conns -> SUBSET BOOLEAN]

Init ==
  /\ EngineInit
  /\ Resolve!Init
  /\ pc = [c \in Conns |-> "read"]
  /\ round = [c \in Conns |-> 0]
  /\ req = [c \in Conns |-> [files |-> {}, terms |-> {}, skip |-> FALSE]]
  /\ layer = [c \in Conns |-> "scope"]
  /\ reason = [c \in Conns |-> "none"]
  /\ stable = [c \in Conns |-> {}]
  /\ ever = [c \in Conns |-> {}]
  /\ modes = [c \in Conns |-> {}]

-----------------------------------------------------------------------------
(* The goroutine of connection c.                                          *)

Goto(c, place) == pc' = [pc EXCEPT ![c] = place]

\* files are extracted whatever the Content-Type; a request without any, or
\* with a skipped type, goes to upstream without a look at the engine
ReadRequest(c) ==
  /\ pc[c] = "read"
  /\ round[c] < MaxRequests
  /\ round' = [round EXCEPT ![c] = @ + 1]
  /\ \E r \in Requests :
       /\ req' = [req EXCEPT ![c] = r]
       /\ Goto(c, IF r.files # {} /\ ~r.skip THEN "load" ELSE "forward")
  /\ layer' = [layer EXCEPT ![c] = "scope"]
  /\ reason' = [reason EXCEPT ![c] = "none"]
  /\ stable' = [stable EXCEPT ![c] = rules]
  /\ ever' = [ever EXCEPT ![c] = rules]
  /\ modes' = [modes EXCEPT ![c] = {bypassed}]
  /\ UNCHANGED <<engineVars, promptVars>>

\* a layer that finds no objection hands over to the next one
Pass(c) ==
  /\ reason' = reason
  /\ IF layer[c] = "keywords"
     THEN Goto(c, "forward") /\ layer' = layer
     ELSE Goto(c, "load") /\ layer' = [layer EXCEPT ![c] = After[layer[c]]]

Block(c, why) ==
  /\ Goto(c, "blocked")
  /\ reason' = [reason EXCEPT ![c] = why]
  /\ layer' = layer

\* e.bypassed.Load() at the head of every Evaluate method
LoadBypass(c) ==
  /\ pc[c] = "load"
  /\ IF bypassed THEN Pass(c) ELSE Goto(c, "copy") /\ UNCHANGED <<layer, reason>>
  /\ UNCHANGED <<engineVars, promptVars, round, req, historyVars>>

\* the copy under e.mu.RLock() and the decision taken from it
Judge(c) ==
  LET files == req[c].files
      terms == req[c].terms
  IN  \/ /\ layer[c] = "scope"
         /\ IF EvaluateScope(rules, files) THEN Pass(c) ELSE Block(c, "scope")
      \/ /\ layer[c] = "files"
         /\ IF EvaluateFiles(rules, files) THEN Pass(c) ELSE Block(c, "file")
      \/ /\ layer[c] = "tags"
         /\ IF EvaluateContentTags(rules, terms) THEN Pass(c) ELSE Block(c, "tag")

\* Mutant: the blacklist is consulted before any keyword has matched.
JudgeListsFirst(c) ==
  LET files == req[c].files
  IN  /\ layer[c] = "keywords"
      /\ IF AutoBlocked(rules, files) # {}
         THEN Block(c, "blacklist")
         ELSE IF KeywordMatch(rules, req[c].terms) /\ NeedPrompt(rules, files) # {}
              THEN Goto(c, "ask") /\ UNCHANGED <<layer, reason>>
              ELSE Pass(c)

JudgeKeywords(c) ==
  LET files == req[c].files
  IN  /\ layer[c] = "keywords"
      /\ \/ /\ ~KeywordMatch(rules, req[c].terms)
            /\ Pass(c)
         \/ /\ KeywordMatch(rules, req[c].terms)
            /\ IF AutoBlocked(rules, files) # {}
               THEN Block(c, "blacklist")
               ELSE IF NeedPrompt(rules, files) # {}
                    THEN Goto(c, "ask") /\ UNCHANGED <<layer, reason>>
                    ELSE Pass(c)

Copy(c) ==
  /\ pc[c] = "copy"
  /\ Judge(c)
  /\ UNCHANGED <<engineVars, promptVars, round, req, historyVars>>

\* kwResult.NeedPrompt becomes the prompt's file list
CopyKeywords(c) ==
  /\ pc[c] = "copy"
  /\ JudgeKeywords(c)
  /\ IF pc'[c] = "ask"
     THEN Resolve!Ask(PromptId(c), NeedPrompt(rules, req[c].files))
     ELSE UNCHANGED promptVars
  /\ UNCHANGED <<engineVars, round, req, historyVars>>

\* Mutant: the switch over the answer forgets block_always.
AnsweredLeniently(c) ==
  /\ pc[c] = "ask"
  /\ verdict[PromptId(c)] # "none"
  /\ IF verdict[PromptId(c)] = "block_once" THEN Block(c, "user") ELSE Pass(c)
  /\ UNCHANGED <<engineVars, promptVars, round, req, historyVars>>

\* PromptUser returns
Answered(c) ==
  /\ pc[c] = "ask"
  /\ verdict[PromptId(c)] # "none"
  /\ IF verdict[PromptId(c)] \in Resolve!AllowActions THEN Pass(c) ELSE Block(c, "user")
  /\ UNCHANGED <<engineVars, promptVars, round, req, historyVars>>

\* a blocked request ends the relay loop, a relayed one starts it again
EndExchange(c) ==
  /\ \/ pc[c] = "forward" /\ Goto(c, "read")
     \/ pc[c] \in {"read", "forward", "blocked"} /\ Goto(c, "closed")
  /\ UNCHANGED <<engineVars, promptVars, round, req, layer, reason, historyVars>>

-----------------------------------------------------------------------------
(* The user, whose edits and answers reach the engine at any time.         *)

Observe ==
  /\ stable' = [c \in Conns |-> stable[c] \cap rules']
  /\ ever' = [c \in Conns |-> ever[c] \cup rules']
  /\ modes' = [c \in Conns |-> modes[c] \cup {bypassed'}]

UserEdits ==
  /\ EngineNext
  /\ Observe
  /\ UNCHANGED <<promptVars, controlVars>>

UserClicks(id) ==
  /\ Cardinality(clicked[id]) < MaxClicks
  /\ \E a \in Resolve!Actions : Resolve!Click(id, a)
  /\ UNCHANGED <<engineVars, controlVars, historyVars>>

\* ResolveContentPromptForFile: AddToContentWhitelist / AddToContentBlacklist
StoreDecision(id) ==
  /\ \E a \in Resolve!AlwaysActions, f \in Files :
       /\ Resolve!Persist(id, a, f)
       /\ rules' = rules \cup {IF a = "allow_always" THEN WhiteRule(f) ELSE BlackRule(f)}
  /\ UNCHANGED <<bypassed, edits, controlVars>>
  /\ Observe

\* Mutant: PromptUser has no timer.
PromptReturnsAnswered(id) ==
  /\ \E a \in Resolve!Actions : Resolve!Decide(id, a)
  /\ UNCHANGED <<engineVars, controlVars, historyVars>>

PromptReturns(id) ==
  /\ Resolve!Return(id)
  /\ UNCHANGED <<engineVars, controlVars, historyVars>>

-----------------------------------------------------------------------------
Relay(c) ==
  \/ LoadBypass(c) \/ Copy(c) \/ CopyKeywords(c) \/ Answered(c)

User ==
  \/ UserEdits
  \/ \E id \in Prompts : UserClicks(id) \/ StoreDecision(id)

Next ==
  \/ \E c \in Conns : ReadRequest(c) \/ Relay(c) \/ EndExchange(c)
  \/ User
  \/ \E id \in Prompts : PromptReturns(id)

Spec == Init /\ [][Next]_vars

\* the Go scheduler runs every goroutine, and the 30s timer of a prompt fires;
\* nothing is assumed of clients or of the user
FairSpec ==
  /\ Spec
  /\ \A c \in Conns : WF_vars(Relay(c))
  /\ \A id \in Prompts : WF_vars(PromptReturns(id))

-----------------------------------------------------------------------------
(* Properties.  The four layers read the rules at four instants, so that   *)
(* no single rule set need explain a decision: what justifies a forward is *)
(* what was in force all the time since the request was read (stable) or   *)
(* at some time (ever), and likewise for a block.                          *)

Scanned(c) == req[c].files # {} /\ ~req[c].skip

\* each allowed directory of some instant that held all along rules out
\* the files no directory of any instant contains
ScopeClear(c) ==
  (\E d \in Dirs : DirRule(d) \in stable[c]) =>
    \A f \in req[c].files : \E d \in DirsOf[f] : DirRule(d) \in ever[c]

FilesClear(c) ==
  \A f \in req[c].files : \A p \in PatternsOf[f] : PatternRule(p) \notin stable[c]

TagsClear(c) == \A t \in req[c].terms : TagRule(t) \notin stable[c]

\* the user clicked Allow in the prompt of this very request, which named f
Approved(c, f) ==
  /\ f \in asked[PromptId(c)]
  /\ verdict[PromptId(c)] \in Resolve!AllowActions \cap clicked[PromptId(c)]

KeywordsClear(c) ==
  KeywordMatch(stable[c], req[c].terms) =>
    \A f \in req[c].files :
      \/ WhiteRule(f) \in ever[c]
      \/ BlackRule(f) \notin stable[c] /\ Approved(c, f)

\* A scanned request goes to upstream, with the policy never paused since it
\* was read, only if no layer had a standing objection: no denied tag or file
\* pattern that was in force throughout, no file outside every directory that
\* was ever allowed, and every file of a keyword match whitelisted at some
\* time or approved by the user for this request (intercept.go:124-271).
ForwardJustified ==
  \A c \in Conns :
    pc[c] = "forward" /\ Scanned(c) /\ modes[c] = {FALSE} =>
      ScopeClear(c) /\ FilesClear(c) /\ TagsClear(c) /\ KeywordsClear(c)

\* the rule or the answer that explains each kind of block
ScopeExplained(c) ==
  /\ \E d \in Dirs : DirRule(d) \in ever[c]
  /\ \E f \in req[c].files : \A d \in DirsOf[f] : DirRule(d) \notin stable[c]

BlacklistExplained(c) ==
  /\ KeywordMatch(ever[c], req[c].terms)
  /\ \E f \in req[c].files : BlackRule(f) \in ever[c] /\ WhiteRule(f) \notin stable[c]

\* some file needed the user, and none was standing on the blacklist
QuestionExplained(c) ==
  /\ KeywordMatch(ever[c], req[c].terms)
  /\ \E f \in req[c].files : WhiteRule(f) \notin stable[c]
  /\ \A f \in req[c].files : WhiteRule(f) \in ever[c] \/ BlackRule(f) \notin stable[c]

Explained(c, why) ==
  /\ why = "scope" => ScopeExplained(c)
  /\ why = "file" => \E f \in req[c].files : \E p \in PatternsOf[f] : PatternRule(p) \in ever[c]
  /\ why = "tag" => \E t \in req[c].terms : TagRule(t) \in ever[c]
  /\ why = "blacklist" => BlacklistExplained(c)
  /\ why = "user" =>
       /\ QuestionExplained(c)
       /\ verdict[PromptId(c)] \in Resolve!Actions \ Resolve!AllowActions
  /\ why # "none"

\* A request is blocked only if it was scanned, the policy was on at some
\* time, and the reported reason names a rule that was in force while the
\* request was decided (intercept.go:125-267, policy.go:105-128, 344-423).
BlockJustified ==
  \A c \in Conns :
    pc[c] = "blocked" => Scanned(c) /\ FALSE \in modes[c] /\ Explained(c, reason[c])

\* The user is asked only about a request that no hard rule was objecting to,
\* and only about files neither list had settled all along (docs/policy.md:102
\* "If a file has already been approved or blocked permanently, the user isn't
\* bothered again"; intercept.go:204-247).
PromptWarranted ==
  \A c \in Conns :
    pc[c] = "ask" /\ modes[c] = {FALSE} =>
      /\ ScopeClear(c) /\ FilesClear(c) /\ TagsClear(c)
      /\ \A f \in req[c].files :
           f \in asked[PromptId(c)] =>
             {WhiteRule(f), BlackRule(f)} \cap stable[c] = {}

\* The interceptor never leaves a request undecided: whatever the user does,
\* the layers or the 30s timer end in a forward or a block.
EveryRequestDecided ==
  \A c \in Conns :
    pc[c] \in {"load", "copy", "ask"} ~> pc[c] \in {"forward", "blocked"}

-----------------------------------------------------------------------------
(* The inductive invariant behind ForwardJustified, BlockJustified and     *)
(* PromptWarranted: what each layer a goroutine has passed established is  *)
(* kept by every later edit, because stable only shrinks and ever grows.   *)

Before == [scope |-> {}, files |-> {"scope"}, tags |-> {"scope", "files"},
           keywords |-> {"scope", "files", "tags"}]

Passed(c, l) ==
  pc[c] = "forward" \/ (pc[c] \in {"load", "copy", "ask"} /\ l \in Before[layer[c]])

\* the history of a request brackets the rules in force
Framed(c) ==
  pc[c] \notin {"read", "closed"} =>
    stable[c] \subseteq rules /\ rules \subseteq ever[c] /\ bypassed \in modes[c]

Deciding(c) ==
  /\ pc[c] \in {"load", "copy", "ask"} => Scanned(c)
  /\ pc[c] \in {"copy", "ask"} => FALSE \in modes[c]
  /\ pc[c] = "ask" => layer[c] = "keywords"

Cleared(c) ==
  Scanned(c) /\ modes[c] = {FALSE} =>
    /\ Passed(c, "scope") => ScopeClear(c)
    /\ Passed(c, "files") => FilesClear(c)
    /\ Passed(c, "tags") => TagsClear(c)
    /\ Passed(c, "keywords") => KeywordsClear(c)

Asking(c) ==
  pc[c] = "ask" =>
    /\ QuestionExplained(c)
    /\ \A f \in req[c].files \cap asked[PromptId(c)] :
         WhiteRule(f) \notin stable[c] /\ BlackRule(f) \notin stable[c]
    /\ \A f \in req[c].files : f \in asked[PromptId(c)] \/ WhiteRule(f) \in ever[c]

Blocked(c) ==
  pc[c] = "blocked" => Scanned(c) /\ FALSE \in modes[c] /\ Explained(c, reason[c])

ConnInv(c) == Framed(c) /\ Deciding(c) /\ Cleared(c) /\ Asking(c) /\ Blocked(c)

PromptInv ==
  \A id \in Prompts : verdict[id] \in Resolve!AllowActions => verdict[id] \in clicked[id]

\* a prompt belongs to one request, it is opened at most once, by the keyword
\* layer of that request, and nothing is known of it before
Opened ==
  /\ \A id \in Prompts :
       IF asked[id] = {} THEN clicked[id] = {} /\ verdict[id] = "none"
                         ELSE id[2] <= round[id[1]]
  /\ \A c \in Conns :
       /\ pc[c] \in {"load", "copy"} => asked[PromptId(c)] = {}
       /\ pc[c] = "ask" => asked[PromptId(c)] # {}

\* Every connection is in the state its history explains, every allowing
\* answer is one the user clicked, and no prompt is opened twice
\* (intercept.go:124-271, app.go:212-257).
GateInv == (\A c \in Conns : ConnInv(c)) /\ PromptInv /\ Opened

=============================================================================
