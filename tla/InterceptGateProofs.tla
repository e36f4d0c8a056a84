-------------------------- MODULE InterceptGateProofs --------------------------
(***************************************************************************)
(* Proofs about InterceptGate: its type invariant, and an inductive        *)
(* invariant GateInv that implies ForwardJustified, BlockJustified and     *)
(* PromptWarranted for every set of connections, files, rules and edits;   *)
(* that the gate keeps to PromptContract; and that decisions advance.      *)
(***************************************************************************)
EXTENDS InterceptGate, TLAPS

-----------------------------------------------------------------------------
(* Type correctness.                                                       *)

\* Every entry of every list is a rule (policy.go:21-25, the Engine's cfg).
LEMMA RulesAreRules ==
  /\ \A f \in Files : WhiteRule(f) \in Rules /\ BlackRule(f) \in Rules
  /\ \A kind \in Kinds : RulesOf(kind) \subseteq Rules
<1>1. \A kind \in Kinds : RulesOf(kind) \subseteq Rules
  BY DEF Rules
<1>2. RulesOf("white") = {WhiteRule(f) : f \in Files}
  BY DEF RulesOf, Subjects, WhiteRule
<1>3. RulesOf("black") = {BlackRule(f) : f \in Files}
  BY DEF RulesOf, Subjects, BlackRule
<1> QED
  BY <1>1, <1>2, <1>3 DEF Kinds, Subjects

\* An edit made through the UI keeps the engine well typed (policy.go:27-33,
\* 47-101, 170-196, 229-331).
LEMMA EngineNextType ==
  ASSUME EngineTypeOK, EngineNext
  PROVE  EngineTypeOK'
<1> USE DEF EngineTypeOK
<1>1. ASSUME NEW kind \in Kinds, NEW r \in RulesOf(kind), AddRule(r) \/ RemoveRule(r)
      PROVE  EngineTypeOK'
  BY <1>1, RulesAreRules DEF AddRule, RemoveRule, Edit
<1>2. ASSUME NEW kind \in Kinds, NEW rs \in SUBSET RulesOf(kind), SetRules(kind, rs)
      PROVE  EngineTypeOK'
  BY <1>2, RulesAreRules DEF SetRules, Edit
<1>3. ASSUME NEW b \in BOOLEAN, SetBypassed(b)
      PROVE  EngineTypeOK'
  BY <1>3 DEF SetBypassed
<1> QED
  BY <1>1, <1>2, <1>3 DEF EngineNext, Kinds, Subjects

\* What the contract does to its own variables keeps them well typed, and the
\* prompts are those of the connections' rounds (policy/prompt.go:6-32).
LEMMA ContractType ==
  ASSUME Resolve!TypeOK, Resolve!Next
  PROVE  Resolve!TypeOK'
<1> USE DEF Resolve!TypeOK, Resolve!Actions, Resolve!AllowActions, Resolve!AlwaysActions
<1>1. ASSUME NEW id \in Prompts, NEW files \in SUBSET Files, Resolve!Ask(id, files)
      PROVE  Resolve!TypeOK'
  BY <1>1 DEF Resolve!Ask
<1>2. ASSUME NEW id \in Prompts, NEW a \in Resolve!Actions, Resolve!Click(id, a)
      PROVE  Resolve!TypeOK'
  BY <1>2 DEF Resolve!Click
<1>3. ASSUME NEW id \in Prompts, NEW a \in Resolve!AlwaysActions, NEW f \in Files,
             Resolve!Persist(id, a, f)
      PROVE  Resolve!TypeOK'
  BY <1>3 DEF Resolve!Persist
<1>4. ASSUME NEW id \in Prompts, Resolve!Return(id)
      PROVE  Resolve!TypeOK'
  <2>1. CASE Resolve!Expire(id)
    BY <2>1 DEF Resolve!Expire
  <2>2. ASSUME NEW a \in Resolve!Actions, Resolve!Decide(id, a)
        PROVE  Resolve!TypeOK'
    BY <2>2 DEF Resolve!Decide
  <2> QED
    BY <1>4, <2>1, <2>2 DEF Resolve!Return
<1> QED
  BY <1>1, <1>2, <1>3, <1>4 DEF Resolve!Next

ControlTypeOK ==
  /\ pc \in [Conns -> Places]
  /\ layer \in [Conns -> Layers]
  /\ reason \in [Conns -> Reasons \cup {"none"}]

\* Handing over to the next layer and blocking are well typed.
LEMMA PassBlockType ==
  ASSUME NEW c \in Conns, ControlTypeOK,
         Pass(c) \/ \E why \in Reasons : Block(c, why)
  PROVE  ControlTypeOK'
<1> USE DEF ControlTypeOK, Places, Layers, Goto
<1>1. CASE Pass(c)
  BY <1>1 DEF Pass, After
<1>2. ASSUME NEW why \in Reasons, Block(c, why)
      PROVE  ControlTypeOK'
  BY <1>2 DEF Block
<1> QED
  BY <1>1, <1>2

\* The goroutine of a connection only ever passes, blocks, goes on to copy the
\* rules it needs, or asks the user.
LEMMA RelayControl ==
  ASSUME NEW c \in Conns, Relay(c), ControlTypeOK
  PROVE  ControlTypeOK'
<1> USE DEF ControlTypeOK, Places, Layers, Goto
<1>1. CASE LoadBypass(c)
  BY <1>1, PassBlockType DEF LoadBypass
<1>2. CASE Copy(c)
  BY <1>2, PassBlockType DEF Copy, Judge, Reasons
<1>3. CASE CopyKeywords(c)
  BY <1>3, PassBlockType DEF CopyKeywords, JudgeKeywords, Reasons
<1>4. CASE Answered(c)
  BY <1>4, PassBlockType DEF Answered, Reasons
<1> QED
  BY <1>1, <1>2, <1>3, <1>4 DEF Relay

\* A connection that is deciding a request, or has decided it, is in a round.
InRound == \A c \in Conns : pc[c] \notin {"read", "closed"} => round[c] \in Rounds

Typed == TypeOK /\ InRound

\* Of the prompts, a relay step can only open its own one.
LEMMA RelayPrompts ==
  ASSUME NEW c \in Conns, Relay(c), Typed
  PROVE  /\ UNCHANGED <<engineVars, historyVars, round, req>>
         /\ Resolve!TypeOK'
<1> USE DEF promptVars, Typed
<1>1. CASE LoadBypass(c) \/ Copy(c) \/ Answered(c)
  BY <1>1 DEF LoadBypass, Copy, Answered, TypeOK, Resolve!TypeOK
<1>2. CASE CopyKeywords(c)
  <2>1. CASE UNCHANGED promptVars
    BY <1>2, <2>1 DEF CopyKeywords, TypeOK, Resolve!TypeOK
  <2>2. CASE Resolve!Ask(PromptId(c), NeedPrompt(rules, req[c].files))
    <3>1. round[c] \in Rounds
      BY <1>2 DEF CopyKeywords, InRound
    <3>2. PromptId(c) \in Prompts
      BY <3>1 DEF PromptId, Prompts
    <3>3. NeedPrompt(rules, req[c].files) \in SUBSET Files
      BY DEF NeedPrompt, TypeOK
    <3>4. Resolve!Next
      BY <2>2, <3>2, <3>3 DEF Resolve!Next
    <3> QED
      BY <1>2, <3>4, ContractType DEF TypeOK, CopyKeywords
  <2> QED
    BY <1>2, <2>1, <2>2 DEF CopyKeywords
<1> QED
  BY <1>1, <1>2 DEF Relay

LEMMA NextTyped ==
  ASSUME Typed, [Next]_vars
  PROVE  Typed'
<1> USE DEF Typed
<1>1. ASSUME NEW c \in Conns, ReadRequest(c)
      PROVE  Typed'
  <2> USE <1>1 DEF ReadRequest, TypeOK, engineVars, promptVars
  <2>1. EngineTypeOK' /\ Resolve!TypeOK'
    BY DEF EngineTypeOK, Resolve!TypeOK
  <2>2. round' \in [Conns -> 0..MaxRequests] /\ round'[c] \in Rounds
    BY GateAssumption DEF Rounds
  <2>3. req' \in [Conns -> [files : SUBSET Files, terms : SUBSET Terms, skip : BOOLEAN]]
    BY GateAssumption
  <2>4. /\ pc' \in [Conns -> Places]
        /\ layer' \in [Conns -> Layers]
        /\ reason' \in [Conns -> Reasons \cup {"none"}]
    BY DEF Goto, Places, Layers
  <2>5. /\ stable' \in [Conns -> SUBSET Rules]
        /\ ever' \in [Conns -> SUBSET Rules]
        /\ modes' \in [Conns -> SUBSET BOOLEAN]
    BY DEF EngineTypeOK
  <2>6. InRound'
    BY <2>2 DEF InRound, Goto
  <2> QED
    BY <2>1, <2>2, <2>3, <2>4, <2>5, <2>6
<1>2. ASSUME NEW c \in Conns, Relay(c)
      PROVE  Typed'
  <2>1. ControlTypeOK'
    BY <1>2, RelayControl DEF TypeOK, ControlTypeOK
  <2>2. \A d \in Conns \ {c} : pc'[d] = pc[d]
    BY <1>2 DEF Relay, LoadBypass, Copy, CopyKeywords, Answered,
                Judge, JudgeKeywords, Pass, Block, Goto, TypeOK
  <2>3. pc[c] \in {"load", "copy", "ask"}
    BY <1>2 DEF Relay, LoadBypass, Copy, CopyKeywords, Answered
  <2>4. InRound'
    BY <1>2, <2>2, <2>3, RelayPrompts DEF InRound
  <2> QED
    BY <1>2, <2>1, <2>4, RelayPrompts
    DEF TypeOK, ControlTypeOK, EngineTypeOK, engineVars, historyVars
<1>3. ASSUME NEW c \in Conns, EndExchange(c)
      PROVE  Typed'
  BY <1>3 DEF EndExchange, Goto, TypeOK, EngineTypeOK, Resolve!TypeOK, InRound, Places,
              engineVars, promptVars, historyVars
<1>4. ASSUME UserEdits
      PROVE  Typed'
  <2>1. EngineTypeOK'
    BY <1>4, EngineNextType DEF UserEdits, TypeOK
  <2>2. Resolve!TypeOK'
    BY <1>4 DEF UserEdits, TypeOK, Resolve!TypeOK, promptVars
  <2> QED
    BY <1>4, <2>1, <2>2 DEF UserEdits, Observe, TypeOK, EngineTypeOK, InRound, controlVars
<1>5. ASSUME NEW id \in Prompts, UserClicks(id)
      PROVE  Typed'
  <2>1. Resolve!Next
    BY <1>5 DEF UserClicks, Resolve!Next
  <2> QED
    BY <1>5, <2>1, ContractType
    DEF UserClicks, TypeOK, EngineTypeOK, InRound, engineVars, controlVars, historyVars
<1>6. ASSUME NEW id \in Prompts, StoreDecision(id)
      PROVE  Typed'
  <2>1. Resolve!Next
    BY <1>6 DEF StoreDecision, Resolve!Next
  <2>2. rules' \subseteq Rules
    BY <1>6, RulesAreRules DEF StoreDecision, TypeOK, EngineTypeOK
  <2> QED
    BY <1>6, <2>1, <2>2, ContractType
    DEF StoreDecision, Observe, TypeOK, EngineTypeOK, InRound, controlVars
<1>7. ASSUME NEW id \in Prompts, PromptReturns(id)
      PROVE  Typed'
  <2>1. Resolve!Next
    BY <1>7 DEF PromptReturns, Resolve!Next
  <2> QED
    BY <1>7, <2>1, ContractType
    DEF PromptReturns, TypeOK, EngineTypeOK, InRound, engineVars, controlVars, historyVars
<1>8. ASSUME UNCHANGED vars
      PROVE  Typed'
  BY <1>8 DEF vars, engineVars, promptVars, controlVars, historyVars,
              TypeOK, EngineTypeOK, Resolve!TypeOK, InRound
<1> QED
  BY <1>1, <1>2, <1>3, <1>4, <1>5, <1>6, <1>7, <1>8 DEF Next, User

LEMMA InitTyped == Init => Typed
<1> SUFFICES ASSUME Init PROVE Typed
  OBVIOUS
<1>1. EngineTypeOK
  BY EngineAssumption DEF Init, EngineInit, EngineTypeOK
<1>2. Resolve!TypeOK
  BY DEF Init, Resolve!Init, Resolve!TypeOK
<1>3. ControlTypeOK
  BY DEF Init, ControlTypeOK, Places, Layers
<1>4. /\ round \in [Conns -> 0..MaxRequests]
      /\ req \in [Conns -> [files : SUBSET Files, terms : SUBSET Terms, skip : BOOLEAN]]
      /\ stable \in [Conns -> SUBSET Rules]
      /\ ever \in [Conns -> SUBSET Rules]
      /\ modes \in [Conns -> SUBSET BOOLEAN]
  BY GateAssumption DEF Init
<1>5. InRound
  BY DEF Init, InRound
<1> QED
  BY <1>1, <1>2, <1>3, <1>4, <1>5 DEF Typed, TypeOK, ControlTypeOK

\* Every reachable state of the gate is well typed.
THEOREM TypeCorrect == Spec => []TypeOK
<1>1. Typed => TypeOK
  BY DEF Typed
<1> QED
  BY InitTyped, NextTyped, <1>1, PTL DEF Spec

-----------------------------------------------------------------------------
(* The inductive invariant.                                                *)

\* What the rest of the system may do to connection c while its goroutine
\* stands still: the history grows, and its prompt only gets its answer.
Undisturbed(c) ==
  /\ pc'[c] = pc[c] /\ round'[c] = round[c] /\ req'[c] = req[c]
  /\ layer'[c] = layer[c] /\ reason'[c] = reason[c]
  /\ stable'[c] \subseteq stable[c] /\ ever[c] \subseteq ever'[c] /\ modes[c] \subseteq modes'[c]
  /\ Framed(c)'
  /\ LET id == PromptId(c)
     IN  id \in Prompts =>
           /\ asked'[id] = asked[id]
           /\ clicked[id] \subseteq clicked'[id]
           /\ verdict[id] # "none" => verdict'[id] = verdict[id]

\* A justification outlives every later edit: the standing rules only get
\* fewer and the rules seen only get more (policy.go:47-331).
LEMMA ClearPersists ==
  ASSUME Typed, NEW c \in Conns, Undisturbed(c), PromptId(c) \in Prompts
  PROVE  /\ Scanned(c)' = Scanned(c)
         /\ ScopeClear(c) => ScopeClear(c)'
         /\ FilesClear(c) => FilesClear(c)'
         /\ TagsClear(c) => TagsClear(c)'
         /\ KeywordsClear(c) => KeywordsClear(c)'
         /\ QuestionExplained(c) => QuestionExplained(c)'
<1> USE DEF Undisturbed
<1>1. Scanned(c)' = Scanned(c)
  BY DEF Scanned
<1>2. ScopeClear(c) => ScopeClear(c)'
  BY DEF ScopeClear
<1>3. FilesClear(c) => FilesClear(c)'
  BY DEF FilesClear
<1>4. TagsClear(c) => TagsClear(c)'
  BY DEF TagsClear
<1>5. KeywordsClear(c) => KeywordsClear(c)'
  <2>1. PromptId(c)' = PromptId(c)
    BY DEF PromptId
  <2>2. KeywordMatch(stable[c], req[c].terms)' => KeywordMatch(stable[c], req[c].terms)
    BY DEF KeywordMatch
  <2>3. \A f \in req[c].files : Approved(c, f) => Approved(c, f)'
    BY <2>1 DEF Approved, Resolve!AllowActions
  <2> QED
    BY <2>2, <2>3 DEF KeywordsClear
<1>6. QuestionExplained(c) => QuestionExplained(c)'
  BY DEF QuestionExplained, KeywordMatch
<1> QED
  BY <1>1, <1>2, <1>3, <1>4, <1>5, <1>6

\* The explanation of a block outlives every later edit too.
LEMMA ExplanationPersists ==
  ASSUME Typed, NEW c \in Conns, Undisturbed(c), PromptId(c) \in Prompts,
         Explained(c, reason[c])
  PROVE  Explained(c, reason[c])'
<1> USE DEF Undisturbed
<1> DEFINE why == reason[c]
<1>1. ScopeExplained(c) => ScopeExplained(c)'
  BY DEF ScopeExplained
<1>2. BlacklistExplained(c) => BlacklistExplained(c)'
  BY DEF BlacklistExplained, KeywordMatch
<1>3. QuestionExplained(c) => QuestionExplained(c)'
  BY ClearPersists
<1>4. ASSUME verdict[PromptId(c)] \in Resolve!Actions \ Resolve!AllowActions
      PROVE  (verdict[PromptId(c)] \in Resolve!Actions \ Resolve!AllowActions)'
  BY <1>4 DEF PromptId, Resolve!Actions, Resolve!AllowActions
<1> QED
  BY <1>1, <1>2, <1>3, <1>4 DEF Explained

LEMMA UndisturbedPersists ==
  ASSUME Typed, NEW c \in Conns, ConnInv(c), Undisturbed(c)
  PROVE  ConnInv(c)'
<1>1. CASE pc[c] \in {"read", "closed"}
  BY <1>1 DEF Undisturbed, ConnInv, Framed, Deciding, Cleared, Passed, Asking, Blocked
<1>2. CASE pc[c] \notin {"read", "closed"}
  <2>1. PromptId(c) \in Prompts /\ PromptId(c)' = PromptId(c)
    BY <1>2 DEF Typed, InRound, PromptId, Prompts, Undisturbed
  <2>2. Framed(c)' /\ Deciding(c)'
    BY <2>1, ClearPersists DEF ConnInv, Deciding, Undisturbed
  <2>3. Cleared(c)'
    <3> SUFFICES ASSUME Scanned(c)', modes'[c] = {FALSE}
                 PROVE  Cleared(c)'
      BY DEF Cleared
    <3>1. Scanned(c) /\ modes[c] = {FALSE}
      BY <1>2, <2>1, ClearPersists DEF ConnInv, Framed, Undisturbed, Typed, TypeOK, EngineTypeOK
    <3>2. \A l \in Layers : Passed(c, l)' = Passed(c, l)
      BY DEF Passed, Undisturbed
    <3> QED
      BY <2>1, <3>1, <3>2, ClearPersists DEF ConnInv, Cleared, Layers
  <2>4. Asking(c)'
    BY <2>1, ClearPersists DEF ConnInv, Asking, Undisturbed
  <2>5. Blocked(c)'
    BY <2>1, ClearPersists, ExplanationPersists DEF ConnInv, Blocked, Undisturbed
  <2> QED
    BY <2>2, <2>3, <2>4, <2>5 DEF ConnInv
<1> QED
  BY <1>1, <1>2

-----------------------------------------------------------------------------
(* The step of the goroutine itself.                                       *)

\* everything a decision depends on, but the place the goroutine is at
Standing == UNCHANGED <<rules, bypassed, promptVars, round, req, historyVars>>

LEMMA StandingKeeps ==
  ASSUME NEW c \in Conns, Standing
  PROVE  /\ Scanned(c)' = Scanned(c) /\ ScopeClear(c)' = ScopeClear(c)
         /\ FilesClear(c)' = FilesClear(c) /\ TagsClear(c)' = TagsClear(c)
         /\ KeywordsClear(c)' = KeywordsClear(c)
         /\ \A why \in Reasons : Explained(c, why)' = Explained(c, why)
  BY DEF Standing, historyVars, promptVars, Scanned, ScopeClear, FilesClear, TagsClear,
         KeywordsClear, KeywordMatch, Approved, PromptId, Explained, ScopeExplained,
         BlacklistExplained, QuestionExplained

\* what the layer at hand has to establish before it hands over
LayerClear(c) ==
  /\ layer[c] = "scope" => ScopeClear(c)
  /\ layer[c] = "files" => FilesClear(c)
  /\ layer[c] = "tags" => TagsClear(c)
  /\ layer[c] = "keywords" => KeywordsClear(c)

\* Handing over is justified when the layer's own check was passed
\* (intercept.go:124-233).
LEMMA PassKeeps ==
  ASSUME Typed, NEW c \in Conns, ConnInv(c), Standing,
         pc[c] \in {"load", "copy", "ask"}, Pass(c),
         modes[c] = {FALSE} => LayerClear(c)
  PROVE  ConnInv(c)'
<1>1. pc'[c] = "forward" \/ pc'[c] = "load"
  BY DEF Pass, Goto, Typed, TypeOK
<1>2. Framed(c)'
  BY DEF ConnInv, Framed, Standing, historyVars
<1>3. Scanned(c) /\ Scanned(c)'
  BY StandingKeeps DEF ConnInv, Deciding
<1>4. Deciding(c)'
  BY <1>1, <1>3 DEF Deciding
<1>5. Cleared(c)'
  <2> SUFFICES ASSUME modes[c] = {FALSE}
               PROVE  Cleared(c)'
    BY DEF Cleared, Standing, historyVars
  <2>1. CASE layer[c] = "keywords"
    <3>1. Passed(c, "scope") /\ Passed(c, "files") /\ Passed(c, "tags")
      BY <2>1 DEF Passed, Before
    <3> QED
      BY <1>3, <2>1, <3>1, StandingKeeps DEF LayerClear, ConnInv, Cleared
  <2>2. CASE layer[c] # "keywords"
    <3>1. pc'[c] = "load" /\ layer'[c] = After[layer[c]]
      BY <2>2 DEF Pass, Goto, Typed, TypeOK
    <3>2. \A l \in Layers : Passed(c, l)' => Passed(c, l) \/ l = layer[c]
      BY <2>2, <3>1 DEF Passed, Before, After, Layers, Typed, TypeOK
    <3> QED
      BY <1>3, <3>2, StandingKeeps DEF LayerClear, ConnInv, Cleared, Layers
  <2> QED
    BY <2>1, <2>2
<1> QED
  BY <1>1, <1>2, <1>4, <1>5 DEF ConnInv, Asking, Blocked

\* Blocking is justified when the reason is (intercept.go:125-267).
LEMMA BlockKeeps ==
  ASSUME Typed, NEW c \in Conns, ConnInv(c), Standing,
         pc[c] \in {"copy", "ask"}, NEW why \in Reasons, Block(c, why),
         Explained(c, why)
  PROVE  ConnInv(c)'
<1>1. pc'[c] = "blocked" /\ reason'[c] = why
  BY DEF Block, Goto, Typed, TypeOK
<1>2. Framed(c)'
  BY DEF ConnInv, Framed, Standing, historyVars
<1>3. Blocked(c)'
  BY <1>1, StandingKeeps DEF Blocked, ConnInv, Deciding, Standing, historyVars
<1> QED
  BY <1>1, <1>2, <1>3 DEF ConnInv, Deciding, Cleared, Passed, Asking

LEMMA LoadBypassKeeps ==
  ASSUME Typed, NEW c \in Conns, ConnInv(c), LoadBypass(c)
  PROVE  ConnInv(c)'
<1> USE DEF LoadBypass
<1>1. Standing
  BY DEF Standing, engineVars
<1>2. CASE bypassed
  <2>1. modes[c] # {FALSE}
    BY <1>2 DEF ConnInv, Framed
  <2> QED
    BY <1>1, <1>2, <2>1, PassKeeps
<1>3. CASE ~bypassed
  <2>1. /\ pc'[c] = "copy" /\ UNCHANGED <<layer, reason>>
        /\ FALSE \in modes[c]
    BY <1>3 DEF ConnInv, Framed, Goto, Typed, TypeOK, EngineTypeOK
  <2>2. \A l \in Layers : Passed(c, l)' = Passed(c, l)
    BY <2>1 DEF Passed
  <2> QED
    BY <1>1, <2>1, <2>2, StandingKeeps
    DEF ConnInv, Framed, Deciding, Cleared, Asking, Blocked, Layers, Standing, historyVars
<1> QED
  BY <1>2, <1>3

\* Scope, file patterns and tags: a copy of the lists that has no objection
\* clears the layer for every rule that stands, and one that has explains the
\* block (policy.go:105-128, 200-224, 398-423).
LEMMA CopyKeeps ==
  ASSUME Typed, NEW c \in Conns, ConnInv(c), Copy(c)
  PROVE  ConnInv(c)'
<1> USE DEF Copy
<1> DEFINE files == req[c].files
           terms == req[c].terms
<1>1. Standing /\ stable[c] \subseteq rules /\ rules \subseteq ever[c]
  BY DEF Standing, engineVars, ConnInv, Framed
<1>2. files \subseteq Files /\ terms \subseteq Terms
  BY DEF Typed, TypeOK
<1>3. CASE layer[c] = "scope"
  <2>1. EvaluateScope(rules, files) => ScopeClear(c)
    BY <1>1, <1>2, EngineAssumption DEF EvaluateScope, ScopeClear
  <2>2. ~EvaluateScope(rules, files) => ScopeExplained(c)
    BY <1>1, <1>2, EngineAssumption DEF EvaluateScope, ScopeExplained
  <2>3. Explained(c, "scope") <=> ScopeExplained(c)
    BY DEF Explained
  <2> QED
    BY <1>1, <1>3, <2>1, <2>2, <2>3, PassKeeps, BlockKeeps DEF Judge, LayerClear, Reasons
<1>4. CASE layer[c] = "files"
  <2>1. EvaluateFiles(rules, files) => FilesClear(c)
    BY <1>1, <1>2, EngineAssumption DEF EvaluateFiles, FilesClear
  <2>2. ~EvaluateFiles(rules, files) => Explained(c, "file")
    BY <1>1, <1>2, EngineAssumption DEF EvaluateFiles, Explained
  <2> QED
    BY <1>1, <1>4, <2>1, <2>2, PassKeeps, BlockKeeps DEF Judge, LayerClear, Reasons
<1>5. CASE layer[c] = "tags"
  <2>1. EvaluateContentTags(rules, terms) => TagsClear(c)
    BY <1>1, <1>2 DEF EvaluateContentTags, TagsClear
  <2>2. ~EvaluateContentTags(rules, terms) => Explained(c, "tag")
    BY <1>1, <1>2 DEF EvaluateContentTags, Explained
  <2> QED
    BY <1>1, <1>5, <2>1, <2>2, PassKeeps, BlockKeeps DEF Judge, LayerClear, Reasons
<1> QED
  BY <1>3, <1>4, <1>5 DEF Judge

\* Keywords: what is neither listed nor matched passes, a standing blacklist
\* entry blocks, and the prompt names every file the lists leave open
\* (policy.go:344-395, intercept.go:204-247).
LEMMA CopyKeywordsKeeps ==
  ASSUME Typed, NEW c \in Conns, ConnInv(c), PromptInv, CopyKeywords(c)
  PROVE  ConnInv(c)'
<1> USE DEF CopyKeywords
<1> DEFINE files == req[c].files
           terms == req[c].terms
<1>1. stable[c] \subseteq rules /\ rules \subseteq ever[c] /\ layer[c] = "keywords"
  BY DEF ConnInv, Framed, JudgeKeywords
<1>2. CASE pc'[c] # "ask"
  <2>1. Standing
    BY <1>2 DEF Standing, engineVars
  <2>2. CASE ~KeywordMatch(rules, terms)
    <3>1. KeywordsClear(c)
      BY <1>1, <2>2 DEF KeywordsClear, KeywordMatch
    <3> QED
      BY <1>1, <2>1, <2>2, <3>1, PassKeeps DEF JudgeKeywords, LayerClear
  <2>3. CASE KeywordMatch(rules, terms)
    <3>1. KeywordMatch(ever[c], terms)
      BY <1>1, <2>3 DEF KeywordMatch
    <3>2. CASE AutoBlocked(rules, files) # {}
      <4>1. Explained(c, "blacklist")
        BY <1>1, <3>1, <3>2 DEF AutoBlocked, Explained, BlacklistExplained
      <4> QED
        BY <2>1, <2>3, <3>2, <4>1, BlockKeeps DEF JudgeKeywords, Reasons
    <3>3. CASE AutoBlocked(rules, files) = {}
      <4>1. NeedPrompt(rules, files) = {} /\ Pass(c)
        BY <1>2, <2>3, <3>3 DEF JudgeKeywords, Goto, Typed, TypeOK
      <4>2. KeywordsClear(c)
        BY <1>1, <3>3, <4>1 DEF AutoBlocked, NeedPrompt, KeywordsClear
      <4> QED
        BY <1>1, <2>1, <4>1, <4>2, PassKeeps DEF LayerClear
    <3> QED
      BY <3>2, <3>3
  <2> QED
    BY <2>2, <2>3
<1>3. CASE pc'[c] = "ask"
  <2>1. /\ KeywordMatch(rules, terms) /\ AutoBlocked(rules, files) = {}
        /\ NeedPrompt(rules, files) # {} /\ UNCHANGED <<layer, reason>>
    BY <1>1, <1>3 DEF JudgeKeywords, Pass, Block, Goto, Typed, TypeOK
  <2>2. UNCHANGED <<rules, bypassed, round, req, stable, ever, modes>>
    BY DEF engineVars, historyVars
  <2>3. QuestionExplained(c)
    BY <1>1, <2>1 DEF QuestionExplained, KeywordMatch, AutoBlocked, NeedPrompt
  <2>4. PromptId(c) \in Prompts
    BY DEF PromptId, Prompts, Typed, InRound
  <2>5. asked'[PromptId(c)] = NeedPrompt(rules, files)
    BY <1>3, <2>4 DEF Resolve!Ask, Typed, TypeOK, Resolve!TypeOK
  <2>6. Asking(c)'
    <3>1. QuestionExplained(c)'
      BY <2>2, <2>3 DEF QuestionExplained, KeywordMatch
    <3>2. PromptId(c)' = PromptId(c)
      BY <2>2 DEF PromptId
    <3> QED
      BY <1>1, <2>1, <2>2, <2>5, <3>1, <3>2 DEF Asking, AutoBlocked, NeedPrompt
  <2>7. Framed(c)' /\ Deciding(c)' /\ Blocked(c)'
    BY <1>1, <1>3, <2>1, <2>2 DEF ConnInv, Framed, Deciding, Blocked, Scanned
  <2>8. Cleared(c)'
    <3>1. Passed(c, "scope") /\ Passed(c, "files") /\ Passed(c, "tags")
      BY <1>1 DEF Passed, Before
    <3>2. ~Passed(c, "keywords")'
      BY <1>1, <1>3, <2>1 DEF Passed, Before
    <3> QED
      BY <2>2, <3>1, <3>2 DEF ConnInv, Cleared, Scanned, ScopeClear, FilesClear, TagsClear
  <2> QED
    BY <2>6, <2>7, <2>8 DEF ConnInv
<1> QED
  BY <1>2, <1>3

\* An allowing answer approves every file of the prompt, any other blocks
\* (intercept.go:247-268, prompt.go:35-43).
LEMMA AnsweredKeeps ==
  ASSUME Typed, NEW c \in Conns, ConnInv(c), PromptInv, Answered(c)
  PROVE  ConnInv(c)'
<1>1. Standing /\ pc[c] = "ask"
  BY DEF Standing, engineVars, Answered
<1>2. QuestionExplained(c) /\ layer[c] = "keywords"
  BY <1>1 DEF ConnInv, Asking, Deciding
<1>3. PromptId(c) \in Prompts
  BY <1>1 DEF PromptId, Prompts, Typed, InRound
<1>4. CASE verdict[PromptId(c)] \in Resolve!AllowActions
  <2>1. \A f \in req[c].files : WhiteRule(f) \in ever[c] \/ f \in asked[PromptId(c)]
    BY <1>1 DEF ConnInv, Asking
  <2>2. \A f \in req[c].files : WhiteRule(f) \in ever[c] \/ BlackRule(f) \notin stable[c]
    BY <1>2 DEF QuestionExplained
  <2>3. verdict[PromptId(c)] \in clicked[PromptId(c)]
    BY <1>3, <1>4 DEF PromptInv
  <2>4. KeywordsClear(c)
    BY <1>4, <2>1, <2>2, <2>3 DEF KeywordsClear, Approved
  <2> QED
    BY <1>1, <1>2, <1>4, <2>4, PassKeeps DEF Answered, LayerClear
<1>5. CASE verdict[PromptId(c)] \notin Resolve!AllowActions
  <2>1. verdict[PromptId(c)] \in Resolve!Actions \ Resolve!AllowActions
    BY <1>3, <1>5 DEF Answered, Typed, TypeOK, Resolve!TypeOK
  <2>2. Explained(c, "user")
    BY <1>2, <2>1 DEF Explained
  <2> QED
    BY <1>1, <1>5, <2>2, BlockKeeps DEF Answered, Reasons
<1> QED
  BY <1>4, <1>5

-----------------------------------------------------------------------------
(* Every step keeps GateInv.                                               *)

\* A goroutine's step does not disturb the other connections.
LEMMA RelayUndisturbs ==
  ASSUME Typed, NEW c \in Conns, NEW d \in Conns \ {c}, ConnInv(d), Relay(c)
  PROVE  Undisturbed(d)
<1>1. /\ pc'[d] = pc[d] /\ layer'[d] = layer[d] /\ reason'[d] = reason[d]
  BY DEF Relay, LoadBypass, Copy, CopyKeywords, Answered,
         Judge, JudgeKeywords, Pass, Block, Goto, Typed, TypeOK
<1>2. UNCHANGED <<rules, bypassed, round, req, stable, ever, modes>>
  BY RelayPrompts DEF engineVars, historyVars
<1>3. UNCHANGED promptVars \/ Resolve!Ask(PromptId(c), NeedPrompt(rules, req[c].files))
  BY DEF Relay, LoadBypass, Copy, CopyKeywords, Answered
<1>4. PromptId(d) # PromptId(c)
  BY DEF PromptId
<1>5. /\ PromptId(d) \in Prompts => asked'[PromptId(d)] = asked[PromptId(d)]
      /\ UNCHANGED <<clicked, verdict>>
  BY <1>3, <1>4 DEF Resolve!Ask, promptVars, Typed, TypeOK, Resolve!TypeOK
<1>6. Framed(d)'
  BY <1>1, <1>2 DEF ConnInv, Framed
<1> QED
  BY <1>1, <1>2, <1>5, <1>6 DEF Undisturbed

\* An edit of the rules or of the bypass, and a decision stored by a prompt,
\* reach the history of every connection with the rules themselves.
LEMMA ObserveUndisturbs ==
  ASSUME Typed, NEW c \in Conns, ConnInv(c), Observe, UNCHANGED controlVars,
         UNCHANGED <<asked, clicked, verdict>>
  PROVE  Undisturbed(c)
<1>1. /\ stable'[c] = stable[c] \cap rules' /\ ever'[c] = ever[c] \cup rules'
      /\ modes'[c] = modes[c] \cup {bypassed'}
  BY DEF Observe
<1>2. Framed(c)'
  BY <1>1 DEF Framed
<1> QED
  BY <1>1, <1>2 DEF Undisturbed, controlVars

\* A click or an answer of a prompt leaves the connections where they are.
LEMMA AnswerUndisturbs ==
  ASSUME Typed, NEW c \in Conns, ConnInv(c), NEW id \in Prompts,
         UserClicks(id) \/ PromptReturns(id)
  PROVE  Undisturbed(c)
<1>1. UNCHANGED <<engineVars, controlVars, historyVars>> /\ UNCHANGED asked
  BY DEF UserClicks, PromptReturns, Resolve!Click, Resolve!Return, Resolve!Expire, Resolve!Decide
<1>2. Framed(c)'
  BY <1>1 DEF ConnInv, Framed, engineVars, controlVars, historyVars
<1>3. CASE UserClicks(id)
  <2>1. PICK a \in Resolve!Actions : Resolve!Click(id, a)
    BY <1>3 DEF UserClicks
  <2>2. /\ UNCHANGED verdict
        /\ PromptId(c) \in Prompts => clicked[PromptId(c)] \subseteq clicked'[PromptId(c)]
    BY <2>1 DEF Resolve!Click, Typed, TypeOK, Resolve!TypeOK
  <2> QED
    BY <1>1, <1>2, <2>2 DEF Undisturbed, controlVars, historyVars
<1>4. CASE PromptReturns(id)
  <2>1. UNCHANGED clicked /\ verdict[id] = "none"
        /\ \E v : verdict' = [verdict EXCEPT ![id] = v]
    BY <1>4 DEF PromptReturns, Resolve!Return, Resolve!Expire, Resolve!Decide
  <2>2. PromptId(c) \in Prompts /\ verdict[PromptId(c)] # "none"
          => verdict'[PromptId(c)] = verdict[PromptId(c)]
    BY <2>1 DEF Typed, TypeOK, Resolve!TypeOK
  <2> QED
    BY <1>1, <1>2, <2>1, <2>2 DEF Undisturbed, controlVars, historyVars
<1> QED
  BY <1>3, <1>4

\* Reading a request opens its history with the rules and the mode in force.
LEMMA ReadRequestKeeps ==
  ASSUME Typed, GateInv, NEW c \in Conns, ReadRequest(c)
  PROVE  \A d \in Conns : ConnInv(d)'
<1>1. ASSUME NEW d \in Conns \ {c}
      PROVE  ConnInv(d)'
  <2>1. Undisturbed(d)
    BY <1>1 DEF ReadRequest, Goto, Undisturbed, GateInv, ConnInv, Framed, engineVars,
                promptVars, Typed, TypeOK
  <2> QED
    BY <1>1, <2>1, UndisturbedPersists DEF GateInv
<1>2. ConnInv(c)'
  <2>1. PICK r \in Requests : /\ req' = [req EXCEPT ![c] = r]
                              /\ Goto(c, IF r.files # {} /\ ~r.skip THEN "load" ELSE "forward")
    BY DEF ReadRequest
  <2>2. /\ pc'[c] = (IF Scanned(c)' THEN "load" ELSE "forward")
        /\ layer'[c] = "scope"
    BY <2>1 DEF Goto, Scanned, ReadRequest, Typed, TypeOK
  <2>3. Framed(c)'
    BY DEF ReadRequest, Framed, engineVars, Typed, TypeOK
  <2>4. Cleared(c)'
    BY <2>2 DEF Cleared, Passed, Before
  <2> QED
    BY <2>2, <2>3, <2>4 DEF ConnInv, Deciding, Asking, Blocked
<1> QED
  BY <1>1, <1>2

LEMMA PromptInvKeeps ==
  ASSUME Typed, PromptInv, [Next]_vars
  PROVE  PromptInv'
<1> USE DEF PromptInv, Typed, TypeOK, Resolve!TypeOK
<1>1. ASSUME UNCHANGED <<asked, clicked, verdict>>
      PROVE  PromptInv'
  BY <1>1
<1>2. ASSUME NEW c \in Conns, ReadRequest(c) \/ EndExchange(c)
      PROVE  PromptInv'
  BY <1>1, <1>2 DEF ReadRequest, EndExchange, promptVars
<1>3. ASSUME NEW c \in Conns, Relay(c)
      PROVE  PromptInv'
  <2>1. CASE UNCHANGED promptVars
    BY <1>1, <2>1 DEF promptVars
  <2>2. CASE ~UNCHANGED promptVars
    <3>1. Resolve!Ask(PromptId(c), NeedPrompt(rules, req[c].files))
      BY <1>3, <2>2 DEF Relay, LoadBypass, Copy, CopyKeywords, Answered
    <3> QED
      BY <3>1 DEF Resolve!Ask
  <2> QED
    BY <2>1, <2>2
<1>4. ASSUME UserEdits
      PROVE  PromptInv'
  BY <1>1, <1>4 DEF UserEdits, promptVars
<1>5. ASSUME NEW id \in Prompts, UserClicks(id)
      PROVE  PromptInv'
  BY <1>5 DEF UserClicks, Resolve!Click
<1>6. ASSUME NEW id \in Prompts, StoreDecision(id)
      PROVE  PromptInv'
  BY <1>1, <1>6 DEF StoreDecision, Resolve!Persist
<1>7. ASSUME NEW id \in Prompts, PromptReturns(id)
      PROVE  PromptInv'
  BY <1>7 DEF PromptReturns, Resolve!Return, Resolve!Expire, Resolve!Decide, Resolve!AllowActions
<1>8. ASSUME UNCHANGED vars
      PROVE  PromptInv'
  BY <1>1, <1>8 DEF vars, promptVars
<1> QED
  BY <1>2, <1>3, <1>4, <1>5, <1>6, <1>7, <1>8 DEF Next, User

\* A connection's step moves that connection only, and touches no prompt but
\* the one its keyword layer opens.
LEMMA RelayMoves ==
  ASSUME Typed, NEW c \in Conns, Relay(c)
  PROVE  /\ round' = round
         /\ \A d \in Conns \ {c} : pc'[d] = pc[d] /\ layer'[d] = layer[d]
         /\ \/ pc'[c] # "ask" /\ UNCHANGED promptVars
            \/ /\ pc[c] = "copy" /\ pc'[c] = "ask"
               /\ PromptId(c) \in Prompts
               /\ Resolve!Ask(PromptId(c), NeedPrompt(rules, req[c].files))
<1> USE DEF Typed, TypeOK, Goto
<1>1. round' = round
  BY RelayPrompts
<1>2. \A d \in Conns \ {c} : pc'[d] = pc[d] /\ layer'[d] = layer[d]
  BY DEF Relay, LoadBypass, Copy, CopyKeywords, Answered, Judge, JudgeKeywords, Pass, Block
<1>3. CASE LoadBypass(c) \/ Copy(c) \/ Answered(c)
  <2>1. pc'[c] # "ask"
    BY <1>3 DEF LoadBypass, Copy, Answered, Judge, Pass, Block
  <2> QED
    BY <1>1, <1>2, <1>3, <2>1 DEF LoadBypass, Copy, Answered
<1>4. CASE CopyKeywords(c)
  <2>1. PromptId(c) \in Prompts /\ pc[c] = "copy"
    BY <1>4 DEF CopyKeywords, InRound, PromptId, Prompts
  <2> QED
    BY <1>1, <1>2, <1>4, <2>1 DEF CopyKeywords
<1> QED
  BY <1>3, <1>4 DEF Relay

\* Every step keeps Opened: a prompt is only opened by the request it belongs
\* to, which then leaves the keyword layer (intercept.go:233-247).
LEMMA OpenedKeeps ==
  ASSUME Typed, GateInv, [Next]_vars
  PROVE  Opened'
<1> USE DEF Typed, TypeOK, Resolve!TypeOK
<1> Opened
  BY DEF GateInv
<1>1. ASSUME UNCHANGED <<pc, round, asked, clicked, verdict>>
      PROVE  Opened'
  BY <1>1 DEF Opened, PromptId
<1>2. ASSUME NEW c \in Conns, ReadRequest(c)
      PROVE  Opened'
  <2>1. /\ pc[c] = "read" /\ round'[c] = round[c] + 1 /\ round[c] \in Nat
        /\ pc'[c] \in {"load", "forward"}
        /\ \A d \in Conns \ {c} : pc'[d] = pc[d] /\ round'[d] = round[d]
        /\ UNCHANGED <<asked, clicked, verdict>>
    BY <1>2 DEF ReadRequest, Goto, promptVars
  <2>2. ASSUME NEW id \in Prompts, asked[id] # {}
        PROVE  id[2] <= round'[id[1]]
    <3>1. id[1] \in Conns /\ id[2] \in Nat /\ id[2] <= round[id[1]]
      BY <2>2 DEF Opened, Prompts, Rounds
    <3>2. round[id[1]] \in Nat /\ round'[id[1]] \in {round[id[1]], round[id[1]] + 1}
      BY <2>1, <3>1
    <3> QED
      BY <3>1, <3>2
  <2>3. asked[PromptId(c)'] = {}
    <3>1. Typed'
      BY <1>2, NextTyped DEF Next
    <3>2. PromptId(c)' \in Prompts
      BY <2>1, <3>1 DEF InRound, PromptId, Prompts
    <3>3. PromptId(c)'[1] = c /\ PromptId(c)'[2] = round[c] + 1
      BY <2>1 DEF PromptId
    <3> QED
      BY <2>1, <3>2, <3>3 DEF Opened
  <2>4. \A d \in Conns \ {c} : PromptId(d)' = PromptId(d)
    BY <2>1 DEF PromptId
  <2> QED
    BY <2>1, <2>2, <2>3, <2>4 DEF Opened
<1>3. ASSUME NEW c \in Conns, Relay(c)
      PROVE  Opened'
  <2>1. pc[c] \in {"load", "copy", "ask"} /\ pc'[c] \in {"load", "copy", "ask", "forward", "blocked"}
    BY <1>3 DEF Relay, LoadBypass, Copy, CopyKeywords, Answered, Judge, JudgeKeywords,
                Pass, Block, Goto
  <2>2. \A d \in Conns : PromptId(d)' = PromptId(d)
    BY <1>3, RelayMoves DEF PromptId
  <2>3. CASE pc'[c] # "ask" /\ UNCHANGED promptVars
    <3>1. pc[c] = "ask" => pc'[c] \in {"forward", "blocked"}
      <4>1. pc[c] = "ask" => layer[c] = "keywords"
        BY DEF GateInv, ConnInv, Deciding
      <4> QED
        BY <1>3, <4>1 DEF Relay, LoadBypass, Copy, CopyKeywords, Answered, Pass, Block, Goto
    <3>2. ASSUME NEW d \in Conns
          PROVE  \/ pc'[d] = pc[d]
                 \/ pc[d] \in {"load", "copy"} /\ pc'[d] \in {"load", "copy"}
                 \/ pc'[d] \in {"forward", "blocked"}
      <4>1. CASE d = c
        BY <2>1, <2>3, <3>1, <4>1
      <4>2. CASE d # c
        BY <1>3, <4>2, RelayMoves
      <4> QED
        BY <4>1, <4>2
    <3>3. round' = round /\ UNCHANGED <<asked, clicked, verdict>>
      BY <1>3, <2>3, RelayMoves DEF promptVars
    <3> QED
      BY <2>2, <3>2, <3>3 DEF Opened
  <2>4. CASE pc'[c] = "ask"
    <3>1. /\ PromptId(c) \in Prompts
          /\ asked' = [asked EXCEPT ![PromptId(c)] = NeedPrompt(rules, req[c].files)]
          /\ NeedPrompt(rules, req[c].files) # {}
          /\ UNCHANGED <<clicked, verdict>>
      BY <1>3, <2>4, RelayMoves DEF Resolve!Ask
    <3>2. PromptId(c)[1] = c /\ PromptId(c)[2] = round[c] /\ round[c] \in Nat
      BY DEF PromptId
    <3>3. \A id \in Prompts : IF asked'[id] = {} THEN clicked'[id] = {} /\ verdict'[id] = "none"
                              ELSE id[2] <= round'[id[1]]
      BY <1>3, <3>1, <3>2, RelayMoves DEF Opened
    <3>4. \A d \in Conns \ {c} : PromptId(d) # PromptId(c)
      BY DEF PromptId
    <3>5. \A d \in Conns \ {c} :
            pc[d] \in {"load", "copy", "ask"} => asked'[PromptId(d)] = asked[PromptId(d)]
      BY <3>1, <3>4 DEF InRound, PromptId, Prompts
    <3>6. asked'[PromptId(c)] # {}
      BY <3>1
    <3> QED
      BY <1>3, <2>2, <2>4, <3>3, <3>5, <3>6, RelayMoves DEF Opened
  <2> QED
    BY <1>3, <2>3, <2>4, RelayMoves
<1>4. ASSUME NEW c \in Conns, EndExchange(c)
      PROVE  Opened'
  <2>1. /\ \A d \in Conns : pc'[d] = pc[d] \/ pc'[d] \in {"read", "closed"}
        /\ UNCHANGED <<round, asked, clicked, verdict>>
    BY <1>4 DEF EndExchange, Goto, promptVars
  <2> QED
    BY <2>1 DEF Opened, PromptId
<1>5. CASE UserEdits
  BY <1>1, <1>5 DEF UserEdits, promptVars, controlVars
<1>6. ASSUME NEW id \in Prompts, StoreDecision(id)
      PROVE  Opened'
  BY <1>1, <1>6 DEF StoreDecision, Resolve!Persist, controlVars
<1>7. ASSUME NEW id \in Prompts, UserClicks(id) \/ PromptReturns(id)
      PROVE  Opened'
  <2>1. /\ asked[id] # {} /\ UNCHANGED <<pc, round, asked>>
        /\ \A other \in Prompts \ {id} :
             clicked'[other] = clicked[other] /\ verdict'[other] = verdict[other]
    BY <1>7 DEF UserClicks, PromptReturns, Resolve!Click, Resolve!Return, Resolve!Expire,
                Resolve!Decide, controlVars
  <2> QED
    BY <2>1 DEF Opened, PromptId
<1>8. CASE UNCHANGED vars
  BY <1>1, <1>8 DEF vars, promptVars, controlVars
<1> QED
  BY <1>2, <1>3, <1>4, <1>5, <1>6, <1>7, <1>8 DEF Next, User

LEMMA NextGateInv ==
  ASSUME Typed, GateInv, [Next]_vars
  PROVE  GateInv'
<1> SUFFICES ASSUME NEW d \in Conns PROVE ConnInv(d)'
  BY PromptInvKeeps, OpenedKeeps DEF GateInv
<1> USE DEF GateInv
<1>1. ASSUME NEW c \in Conns, ReadRequest(c)
      PROVE  ConnInv(d)'
  BY <1>1, ReadRequestKeeps
<1>2. ASSUME NEW c \in Conns, Relay(c)
      PROVE  ConnInv(d)'
  <2>1. CASE d # c
    BY <1>2, <2>1, RelayUndisturbs, UndisturbedPersists
  <2>2. CASE d = c
    BY <1>2, <2>2, LoadBypassKeeps, CopyKeeps, CopyKeywordsKeeps, AnsweredKeeps DEF Relay
  <2> QED
    BY <2>1, <2>2
<1>3. ASSUME NEW c \in Conns, EndExchange(c)
      PROVE  ConnInv(d)'
  <2>1. CASE d # c
    <3>1. Undisturbed(d)
      BY <1>3, <2>1 DEF EndExchange, Goto, Undisturbed, ConnInv, Framed, engineVars,
                        promptVars, historyVars, Typed, TypeOK
    <3> QED
      BY <3>1, UndisturbedPersists
  <2>2. CASE d = c
    <3>1. pc'[c] \in {"read", "closed"}
      BY <1>3 DEF EndExchange, Goto, Typed, TypeOK
    <3> QED
      BY <2>2, <3>1 DEF ConnInv, Framed, Deciding, Cleared, Passed, Asking, Blocked
  <2> QED
    BY <2>1, <2>2
<1>4. ASSUME UserEdits
      PROVE  ConnInv(d)'
  BY <1>4, ObserveUndisturbs, UndisturbedPersists DEF UserEdits, promptVars
<1>5. ASSUME NEW id \in Prompts, StoreDecision(id)
      PROVE  ConnInv(d)'
  BY <1>5, ObserveUndisturbs, UndisturbedPersists DEF StoreDecision, Resolve!Persist, controlVars
<1>6. ASSUME NEW id \in Prompts, UserClicks(id) \/ PromptReturns(id)
      PROVE  ConnInv(d)'
  BY <1>6, AnswerUndisturbs, UndisturbedPersists
<1>7. ASSUME UNCHANGED vars
      PROVE  ConnInv(d)'
  <2>1. Undisturbed(d)
    BY <1>7 DEF vars, engineVars, promptVars, controlVars, historyVars, Undisturbed,
                ConnInv, Framed
  <2> QED
    BY <2>1, UndisturbedPersists
<1> QED
  BY <1>1, <1>2, <1>3, <1>4, <1>5, <1>6, <1>7 DEF Next, User

LEMMA InitGateInv == Init => GateInv
<1> SUFFICES ASSUME Init PROVE GateInv
  OBVIOUS
<1>1. \A c \in Conns : ConnInv(c)
  BY DEF Init, ConnInv, Framed, Deciding, Cleared, Passed, Asking, Blocked
<1>2. PromptInv
  BY DEF Init, Resolve!Init, PromptInv, Resolve!AllowActions
<1>3. Opened
  BY DEF Init, Resolve!Init, Opened
<1> QED
  BY <1>1, <1>2, <1>3 DEF GateInv

\* GateInv is an invariant: what the layers established for a request stays
\* true whatever the user edits while it is being decided.
THEOREM GateInvariant == Spec => [](Typed /\ GateInv)
<1>1. Init => Typed /\ GateInv
  BY InitTyped, InitGateInv
<1>2. Typed /\ GateInv /\ [Next]_vars => (Typed /\ GateInv)'
  BY NextTyped, NextGateInv
<1> QED
  BY <1>1, <1>2, PTL DEF Spec

\* A scanned request is forwarded only if no layer had a standing objection
\* (intercept.go:124-271), for any rules, files, edits and connections.
THEOREM ForwardIsJustified == Spec => []ForwardJustified
<1>1. GateInv => ForwardJustified
  BY DEF GateInv, ConnInv, Cleared, Passed, ForwardJustified
<1> QED
  BY <1>1, GateInvariant, PTL

\* A block is always explained by a rule or an answer the history has.
THEOREM BlockIsJustified == Spec => []BlockJustified
<1>1. GateInv => BlockJustified
  BY DEF GateInv, ConnInv, Blocked, BlockJustified
<1> QED
  BY <1>1, GateInvariant, PTL

\* The user is asked only about files no list had settled, after the hard
\* layers found nothing that stands.
THEOREM PromptIsWarranted == Spec => []PromptWarranted
<1>1. Typed /\ GateInv => PromptWarranted
  <2> SUFFICES ASSUME Typed, GateInv, NEW c \in Conns, pc[c] = "ask", modes[c] = {FALSE}
               PROVE  /\ ScopeClear(c) /\ FilesClear(c) /\ TagsClear(c)
                      /\ \A f \in req[c].files :
                           f \in asked[PromptId(c)] =>
                             {WhiteRule(f), BlackRule(f)} \cap stable[c] = {}
    BY DEF PromptWarranted
  <2>1. ConnInv(c)
    BY DEF GateInv
  <2>2. Scanned(c) /\ layer[c] = "keywords"
    BY <2>1 DEF ConnInv, Deciding
  <2>3. Passed(c, "scope") /\ Passed(c, "files") /\ Passed(c, "tags")
    BY <2>2 DEF Passed, Before
  <2> QED
    BY <2>1, <2>2, <2>3 DEF ConnInv, Cleared, Asking
<1> QED
  BY <1>1, GateInvariant, PTL

-----------------------------------------------------------------------------
(* The gate and the resolver.                                              *)

\* At most one prompt is ever opened for a request: when the keyword layer is
\* reached there is none, so that opening one never has to wait, and no click
\* and no answer is there before the question (intercept.go:233-247).
OnePromptPerRequest ==
  \A c \in Conns :
    pc[c] \in {"load", "copy"} =>
      /\ asked[PromptId(c)] = {} /\ clicked[PromptId(c)] = {}
      /\ verdict[PromptId(c)] = "none"

\* Whatever the interceptor, the user and the timers do, no prompt is opened
\* twice and no answer precedes its question.
THEOREM PromptsAreFresh == Spec => []OnePromptPerRequest
<1>1. Typed /\ GateInv => OnePromptPerRequest
  BY DEF GateInv, Opened, OnePromptPerRequest, Typed, InRound, PromptId, Prompts
<1> QED
  BY <1>1, GateInvariant, PTL

\* The gate uses the resolver as PromptContract allows, and what it assumes of
\* the answers is no more than the contract promises: every step is a step of
\* the contract (policy/prompt.go:6-32, intercept.go:233-268).
THEOREM GateKeepsContract == Spec => Resolve!Init /\ [][Resolve!Next]_(Resolve!contractVars)
<1>1. ASSUME Typed, [Next]_vars
      PROVE  [Resolve!Next]_(Resolve!contractVars)
  <2>1. ASSUME NEW c \in Conns, ReadRequest(c) \/ EndExchange(c)
        PROVE  UNCHANGED Resolve!contractVars
    BY <2>1 DEF ReadRequest, EndExchange, promptVars, Resolve!contractVars
  <2>2. ASSUME NEW c \in Conns, Relay(c)
        PROVE  [Resolve!Next]_(Resolve!contractVars)
    <3>1. NeedPrompt(rules, req[c].files) \in SUBSET Files
      BY <1>1 DEF NeedPrompt, Typed, TypeOK
    <3> QED
      BY <1>1, <2>2, <3>1, RelayMoves DEF Resolve!Next, promptVars, Resolve!contractVars
  <2>3. CASE UserEdits
    BY <2>3 DEF UserEdits, promptVars, Resolve!contractVars
  <2>4. ASSUME NEW id \in Prompts, UserClicks(id) \/ StoreDecision(id) \/ PromptReturns(id)
        PROVE  Resolve!Next
    BY <2>4 DEF UserClicks, StoreDecision, PromptReturns, Resolve!Next
  <2>5. CASE UNCHANGED vars
    BY <2>5 DEF vars, promptVars, Resolve!contractVars
  <2> QED
    BY <1>1, <2>1, <2>2, <2>3, <2>4, <2>5 DEF Next, User
<1>2. Init => Resolve!Init
  BY DEF Init
<1>3. Spec => []Typed
  BY GateInvariant, PTL
<1> QED
  BY <1>1, <1>2, <1>3, PTL DEF Spec

-----------------------------------------------------------------------------
(* The safety half of EveryRequestDecided: how far a decision is away.     *)

Undecided == {"load", "copy", "ask"}

\* the layers that are left, and the places of the layer that are
Distance(c) ==
  3 * [scope |-> 3, files |-> 2, tags |-> 1, keywords |-> 0][layer[c]]
    + [load |-> 2, copy |-> 1, ask |-> 0][pc[c]]

\* a step of the goroutine ends the decision or brings it closer, and nobody
\* else's step undoes what has been evaluated
Advances(c) ==
  \/ pc'[c] = pc[c] /\ layer'[c] = layer[c]
  \/ /\ Relay(c)
     /\ \/ pc'[c] \in {"forward", "blocked"}
        \/ pc'[c] \in Undecided /\ Distance(c)' \in 0..(Distance(c) - 1)

DecisionStep ==
  \A c \in Conns : pc[c] \in Undecided => Distance(c) \in 0..11 /\ Advances(c)

\* A decision takes at most a dozen steps of its own goroutine, whatever the
\* user edits meanwhile: no edit, toggle or answer makes the interceptor start
\* over, so that no stream of edits keeps a request waiting (intercept.go:124-271).
THEOREM DecisionAdvances == Spec => [][DecisionStep]_vars
<1>1. ASSUME Typed, [Next]_vars, NEW c \in Conns, pc[c] \in Undecided
      PROVE  Distance(c) \in 0..11 /\ Advances(c)
  <2> USE DEF Undecided
  <2>1. Distance(c) \in 0..11
    BY <1>1 DEF Distance, Typed, TypeOK, Layers
  <2> SUFFICES Advances(c)
    BY <2>1
  <2>2. ASSUME NEW d \in Conns, ReadRequest(d) \/ EndExchange(d) \/ (Relay(d) /\ d # c)
        PROVE  Advances(c)
    <3>1. pc'[c] = pc[c] /\ layer'[c] = layer[c]
      BY <1>1, <2>2, RelayMoves DEF ReadRequest, EndExchange, Goto, Typed, TypeOK
    <3> QED
      BY <3>1 DEF Advances
  <2>3. CASE Relay(c)
    <3> USE DEF Goto, Typed, TypeOK, Layers
    <3>1. ASSUME Pass(c) PROVE Advances(c)
      <4>1. CASE layer[c] = "keywords"
        BY <1>1, <2>3, <3>1, <4>1 DEF Pass, Advances
      <4>2. CASE layer[c] # "keywords"
        <5>1. pc'[c] = "load" /\ layer'[c] = After[layer[c]]
          BY <1>1, <3>1, <4>2 DEF Pass
        <5>2. Distance(c)' \in 0..(Distance(c) - 1)
          BY <1>1, <4>2, <5>1 DEF Distance, After
        <5> QED
          BY <2>3, <5>1, <5>2 DEF Advances
      <4> QED
        BY <4>1, <4>2
    <3>2. ASSUME NEW why \in Reasons, Block(c, why) PROVE Advances(c)
      BY <1>1, <2>3, <3>2 DEF Block, Advances
    <3>3. ASSUME layer'[c] = layer[c],
                 (pc[c] = "load" /\ pc'[c] = "copy") \/ (pc[c] = "copy" /\ pc'[c] = "ask")
          PROVE  Advances(c)
      <4>1. Distance(c)' \in 0..(Distance(c) - 1)
        BY <1>1, <3>3 DEF Distance
      <4> QED
        BY <2>3, <3>3, <4>1 DEF Advances
    <3>4. CASE LoadBypass(c)
      BY <1>1, <3>1, <3>3, <3>4 DEF LoadBypass
    <3>5. CASE Copy(c)
      BY <3>1, <3>2, <3>5 DEF Copy, Judge, Reasons
    <3>6. CASE CopyKeywords(c)
      BY <1>1, <3>1, <3>2, <3>3, <3>6 DEF CopyKeywords, JudgeKeywords, Reasons
    <3>7. CASE Answered(c)
      BY <3>1, <3>2, <3>7 DEF Answered, Reasons
    <3> QED
      BY <2>3, <3>4, <3>5, <3>6, <3>7 DEF Relay
  <2>4. CASE UserEdits \/ \E id \in Prompts : UserClicks(id) \/ StoreDecision(id) \/ PromptReturns(id)
    BY <2>4 DEF UserEdits, UserClicks, StoreDecision, PromptReturns, controlVars, Advances
  <2>5. CASE UNCHANGED vars
    BY <2>5 DEF vars, controlVars, Advances
  <2> QED
    BY <1>1, <2>2, <2>3, <2>4, <2>5 DEF Next, User
<1>2. Spec => []Typed
  BY GateInvariant, PTL
<1>3. Typed /\ [Next]_vars => [DecisionStep]_vars
  BY <1>1 DEF DecisionStep
<1> QED
  BY <1>2, <1>3, PTL DEF Spec

====
