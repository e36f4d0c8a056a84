---------------------------- MODULE PolicyEngine ----------------------------
(***************************************************************************)
(* The policy engine of internal/policy/policy.go: the six rule lists the  *)
(* desktop UI edits while requests are being evaluated, the atomic bypass  *)
(* flag, and what each of the four Evaluate methods decides from a copy of *)
(* the lists.                                                              *)
(*                                                                         *)
(* A list is a set of its entries: Remove* drops every occurrence of an    *)
(* entry and every Evaluate* tests membership, so neither order nor        *)
(* multiplicity changes a decision (they only choose the reason text).     *)
(* Path matching is data here: DirsOf[f] are the directories that          *)
(* isInScope puts f in, PatternsOf[f] the patterns matchFilePattern        *)
(* accepts for f.                                                          *)
(***************************************************************************)
EXTENDS Naturals

CONSTANTS
  Files,       \* file paths the extractor can find in a body
  Dirs,        \* directories that may be allowed
  Patterns,    \* deny patterns
  Terms,       \* tags and keywords a body may contain
  DirsOf,      \* [Files -> SUBSET Dirs]
  PatternsOf,  \* [Files -> SUBSET Patterns]
  Configs,     \* rule sets a configuration file may start the engine with
  MaxEdits     \* bound on the edits made through the UI

DirRule(d)     == <<"dir", d>>
PatternRule(p) == <<"pattern", p>>
TagRule(t)     == <<"tag", t>>
KeywordRule(t) == <<"keyword", t>>
WhiteRule(f)   == <<"white", f>>
BlackRule(f)   == <<"black", f>>

Subjects ==
  [dir |-> Dirs, pattern |-> Patterns, tag |-> Terms, keyword |-> Terms,
   white |-> Files, black |-> Files]

Kinds == DOMAIN Subjects
RulesOf(kind) == {<<kind, x>> : x \in Subjects[kind]}
Rules == UNION {RulesOf(kind) : kind \in Kinds}

ASSUME EngineAssumption ==
  /\ DirsOf \in [Files -> SUBSET Dirs]
  /\ PatternsOf \in [Files -> SUBSET Patterns]
  /\ Configs \subseteq SUBSET Rules
  /\ MaxEdits \in Nat

VARIABLES
  rules,     \* e.cfg: the rules in force
  bypassed,  \* e.bypassed
  edits      \* number of edits so far, for the bound MaxEdits

engineVars == <<rules, bypassed, edits>>

EngineTypeOK ==
  /\ rules \subseteq Rules
  /\ bypassed \in BOOLEAN
  /\ edits \in Nat

EngineInit ==
  /\ rules \in Configs
  /\ bypassed = FALSE
  /\ edits = 0

-----------------------------------------------------------------------------
(* What the Evaluate methods decide from the copied lists rs.              *)

EvaluateScope(rs, files) ==
  LET dirs == {d \in Dirs : DirRule(d) \in rs}
  IN  dirs = {} \/ \A f \in files : DirsOf[f] \cap dirs # {}

EvaluateFiles(rs, files) ==
  \A f \in files, p \in Patterns : PatternRule(p) \in rs => p \notin PatternsOf[f]

EvaluateContentTags(rs, terms) ==
  \A t \in terms : TagRule(t) \notin rs

KeywordMatch(rs, terms) == \E t \in terms : KeywordRule(t) \in rs

\* Mutant: the blacklist is tested first.
AutoBlockedFirst(rs, files) == {f \in files : BlackRule(f) \in rs}

\* the switch tests the whitelist first, so a file on both lists is allowed
AutoBlocked(rs, files) ==
  {f \in files : WhiteRule(f) \notin rs /\ BlackRule(f) \in rs}

\* Mutant: the whitelist is not consulted.
NeedPromptUnlisted(rs, files) == {f \in files : BlackRule(f) \notin rs}

NeedPrompt(rs, files) ==
  {f \in files : WhiteRule(f) \notin rs /\ BlackRule(f) \notin rs}

-----------------------------------------------------------------------------
(* The edits the UI makes; each holds e.mu for the whole call.  The policy *)
(* editor can only remove from the whitelist and the blacklist: what is on *)
(* them was decided in a prompt or read from the configuration file.       *)

Edit(rs) ==
  /\ edits < MaxEdits
  /\ edits' = edits + 1
  /\ rules' = rs
  /\ UNCHANGED bypassed

AddRule(r)    == Edit(rules \cup {r})
RemoveRule(r) == Edit(rules \ {r})

\* SetDenyPatterns, SetAllowedDirectories, SetDenyContentTags/Keywords
SetRules(kind, rs) == Edit((rules \ RulesOf(kind)) \cup rs)

SetBypassed(b) ==
  /\ edits < MaxEdits
  /\ edits' = edits + 1
  /\ bypassed' = b
  /\ UNCHANGED rules

EngineNext ==
  \/ \E kind \in {"pattern", "tag", "keyword"} : \E r \in RulesOf(kind) : AddRule(r)
  \/ \E kind \in Kinds \ {"dir"} : \E r \in RulesOf(kind) : RemoveRule(r)
  \/ \E kind \in {"dir", "pattern", "tag", "keyword"} :
       \E rs \in SUBSET RulesOf(kind) : SetRules(kind, rs)
  \/ \E b \in BOOLEAN : SetBypassed(b)

=============================================================================
