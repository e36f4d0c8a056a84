--------------------------- MODULE PromptContract ---------------------------
(***************************************************************************)
(* What the PromptResolver interface of internal/policy/prompt.go promises *)
(* the interceptor that calls PromptUser, as App implements it together    *)
(* with the frontend's prompt hook: the call returns exactly one decision; *)
(* the decision is one the user clicked for this very prompt or, when the  *)
(* wait expires, block_once; an "always" decision is on the whitelist or   *)
(* the blacklist before the call returns it.                               *)
(***************************************************************************)
CONSTANTS
  Prompts,    \* prompt identifiers
  Files       \* file paths a prompt may be about

VARIABLES
  asked,      \* the files of each prompt, {} before PromptUser is called
  clicked,    \* the actions the user has chosen for each prompt
  persisted,  \* the <<action, file>> decisions stored for each prompt
  verdict     \* what PromptUser returned, "none" until it does

contractVars == <<asked, clicked, persisted, verdict>>

AllowActions  == {"allow_once", "allow_always"}
AlwaysActions == {"allow_always", "block_always"}
Actions       == AllowActions \cup {"block_once", "block_always"}

TypeOK ==
  /\ asked \in [Prompts -> SUBSET Files]
  /\ clicked \in [Prompts -> SUBSET Actions]
  /\ persisted \in [Prompts -> SUBSET (AlwaysActions \X Files)]
  /\ verdict \in [Prompts -> Actions \cup {"none"}]

Init ==
  /\ asked = [id \in Prompts |-> {}]
  /\ clicked = [id \in Prompts |-> {}]
  /\ persisted = [id \in Prompts |-> {}]
  /\ verdict = [id \in Prompts |-> "none"]

-----------------------------------------------------------------------------
Ask(id, files) ==
  /\ asked[id] = {}
  /\ files # {}
  /\ asked' = [asked EXCEPT ![id] = files]
  /\ UNCHANGED <<clicked, persisted, verdict>>

\* the modal stays up, and can be clicked, after the wait has expired
Click(id, a) ==
  /\ asked[id] # {}
  /\ a \notin clicked[id]
  /\ clicked' = [clicked EXCEPT ![id] = @ \cup {a}]
  /\ UNCHANGED <<asked, persisted, verdict>>

Persist(id, a, f) ==
  /\ a \in clicked[id] \cap AlwaysActions
  /\ f \in asked[id]
  /\ persisted' = [persisted EXCEPT ![id] = @ \cup {<<a, f>>}]
  /\ UNCHANGED <<asked, clicked, verdict>>

Decide(id, a) ==
  /\ asked[id] # {}
  /\ verdict[id] = "none"
  /\ a \in clicked[id]
  /\ a \in AlwaysActions => \A f \in asked[id] : <<a, f>> \in persisted[id]
  /\ verdict' = [verdict EXCEPT ![id] = a]
  /\ UNCHANGED <<asked, clicked, persisted>>

Expire(id) ==
  /\ asked[id] # {}
  /\ verdict[id] = "none"
  /\ verdict' = [verdict EXCEPT ![id] = "block_once"]
  /\ UNCHANGED <<asked, clicked, persisted>>

Return(id) == Expire(id) \/ \E a \in Actions : Decide(id, a)

Next ==
  \E id \in Prompts :
    \/ \E files \in SUBSET Files : Ask(id, files)
    \/ \E a \in Actions : Click(id, a)
    \/ \E a \in AlwaysActions, f \in Files : Persist(id, a, f)
    \/ Return(id)

Spec == Init /\ [][Next]_contractVars /\ \A id \in Prompts : WF_contractVars(Return(id))

=============================================================================
