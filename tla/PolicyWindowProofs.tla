------------------------- MODULE PolicyWindowProofs -------------------------
(***************************************************************************)
(* Proofs about PolicyWindow, for any items, any number of clicks and of   *)
(* loads under way, answers, failing writes and restarts.                  *)
(***************************************************************************)
EXTENDS PolicyWindow, TLAPS

-----------------------------------------------------------------------------
(* Edits of the engine's lists.                                            *)

\* what a directory edit has read is still the list, unless edits overlapped
ReadIsCurrent ==
  \A c \in Calls :
    at[c] = "set" => list[c] = "dirs" /\ (raced \/ got[c] = engine["dirs"])

\* the edits made of the engine, had they been made at once
EditInv == EditsAreKept /\ ReadIsCurrent

\* what a save that is alone has put in its copy, its text and the file
Alone(c) ==
  /\ OtherSaves(c) = {}
  /\ at[c] = "copy" /\ list[c] \in {"tags", "white"} => cfg["dirs"] = taken["dirs"]
  /\ at[c] = "copy" /\ list[c] = "white" => cfg["tags"] = taken["tags"]
  /\ at[c] = "marshal" => cfg = taken
  /\ at[c] \in {"open", "write"} => text[c] = taken
  /\ at[c] = "write" => disk = File(NoRules, TRUE)

\* where each save is, and what the file holds
SaveInv ==
  /\ \A c \in Calls : at[c] = "copy" => list[c] \in Saved
  /\ sound => disk = File(last, TRUE) /\ \A c \in Calls : at[c] # "write"
  /\ ~mixed => \A c \in Calls : at[c] \in Saving => Alone(c)

\* a list that is not stale has at most one call on it, and that one brings
\* the list in force
Followed(l) ==
  /\ \A c, d \in Calls :
       at[c] \in Editing /\ at[d] \in Editing /\ list[c] = l /\ list[d] = l => c = d
  /\ \A c \in Calls : at[c] = "show" /\ list[c] = l => got[c] = engine[l]
  /\ (\A c \in Calls : at[c] \in Editing => list[c] # l) => shown[l] = engine[l]

ShownInv == \A l \in Lists \ stale : Followed(l)

-----------------------------------------------------------------------------
(* Types.                                                                  *)

LEMMA ListFacts ==
  /\ Saved = {"dirs", "tags", "white"} /\ Saved \subseteq Lists
  /\ Lists = {"dirs", "tags", "white", "paused"}
  /\ \A l \in Lists : ItemsOf[l] \subseteq Items
  /\ "on" \in Items
  /\ Expand \in [Items -> Items]
  /\ Configured \in Rules
  /\ NoRules \in Rules
<1>1. Saved = {"dirs", "tags", "white"} /\ Saved = Lists \ {"paused"}
  BY DEF Saved, Lists
<1> QED
  BY <1>1, WindowAssumption DEF WindowAssumption, Lists, Items, Rules, NoRules

LEMMA LoadTyped == ASSUME NEW rules \in Rules PROVE Load(rules) \in Rules
  BY ListFacts DEF Load, Rules

LEMMA InitTyped == Init => ListsTyped /\ CallsTyped /\ SavesTyped
<1> SUFFICES ASSUME Init PROVE ListsTyped /\ CallsTyped /\ SavesTyped
  OBVIOUS
<1>1. SavesTyped
  BY ListFacts, LoadTyped DEF Init, SavesTyped, File
<1>2. ListsTyped
  BY <1>1, ListFacts DEF Init, Rules, ListsTyped, SavesTyped
<1>3. Slow \subseteq Lists /\ "dirs" \in Lists
  BY ListFacts, WindowAssumption DEF WindowAssumption
<1>4. CallsTyped
  BY <1>3, ListFacts DEF Init, CallsTyped, Editing
<1> QED
  BY <1>1, <1>2, <1>4

LEMMA ChangedTyped ==
  ASSUME CallsTyped, NEW c \in Calls, NEW old \in SUBSET Items
  PROVE  Changed(c, old) \in SUBSET Items
  BY DEF CallsTyped, Changed

\* a list of items under one name
LEMMA SetTyped ==
  ASSUME NEW f \in [Lists -> SUBSET Items], NEW l, NEW new \in SUBSET Items
  PROVE  [f EXCEPT ![l] = new] \in [Lists -> SUBSET Items]
  OBVIOUS

LEMMA EditsTyped ==
  ASSUME ListsTyped, CallsTyped, NEW c \in Calls,
         ReadDirs(c) \/ SetDirs(c) \/ Edit(c) \/ Toggle(c)
  PROVE  ListsTyped' /\ CallsTyped'
<1>0. /\ \A l \in Lists : engine[l] \in SUBSET Items /\ intended[l] \in SUBSET Items
      /\ list[c] \in Lists /\ got[c] \in SUBSET Items /\ {} \in SUBSET Items
      /\ "paused" \in Lists
  BY ListFacts DEF ListsTyped, CallsTyped
<1>1. CASE ReadDirs(c)
  BY <1>0, <1>1 DEF ReadDirs, ListsTyped, CallsTyped, Go, Editing
<1>2. CASE SetDirs(c)
  <2>1. Changed(c, got[c]) \in SUBSET Items /\ Changed(c, intended[list[c]]) \in SUBSET Items
    BY <1>0, ChangedTyped
  <2>2. ListsTyped'
    BY <1>2, <2>1, SetTyped DEF SetDirs, ListsTyped
  <2> QED
    BY <1>2, <2>2 DEF SetDirs, CallsTyped, Go, Editing
<1>3. CASE Edit(c)
  <2>1. Changed(c, engine[list[c]]) \in SUBSET Items /\ Changed(c, intended[list[c]]) \in SUBSET Items
    BY <1>0, ChangedTyped
  <2>2. ListsTyped'
    BY <1>3, <2>1, SetTyped DEF Edit, ListsTyped
  <2> QED
    BY <1>3, <2>2 DEF Edit, CallsTyped, Go, Editing
<1>4. CASE Toggle(c)
  <2>1. Changed(c, {}) \in SUBSET Items
    BY <1>0, ChangedTyped
  <2>2. ListsTyped'
    BY <1>4, <2>1, SetTyped DEF Toggle, ListsTyped
  <2> QED
    BY <1>4, <2>1, <2>2 DEF Toggle, CallsTyped, Go, Editing
<1> QED
  BY <1>1, <1>2, <1>3, <1>4

LEMMA SavesStayTyped ==
  ASSUME ListsTyped, CallsTyped, SavesTyped, NEW c \in Calls,
         Copy(c) \/ Marshal(c) \/ Open(c) \/ Write(c) \/ WriteFails(c)
  PROVE  CallsTyped' /\ SavesTyped'
<1> USE DEF Go
<1>0. /\ \A l \in Saved : engine[l] \in SUBSET Items
      /\ list[c] \in Lists /\ text[c] \in Rules /\ cfg \in Rules /\ taken \in Rules
      /\ NoRules \in Rules /\ disk \in [rules : Rules, whole : BOOLEAN]
      /\ \A r \in Rules : File(r, TRUE) \in [rules : Rules, whole : BOOLEAN]
      /\ \A r \in Rules : File(r, FALSE) \in [rules : Rules, whole : BOOLEAN]
  BY ListFacts DEF ListsTyped, CallsTyped, SavesTyped, File
<1>a. ASSUME NEW r \in Rules, NEW l, NEW new \in SUBSET Items
      PROVE  [r EXCEPT ![l] = new] \in Rules
  BY <1>a DEF Rules
<1>b. ASSUME NEW r \in Rules, NEW l \in Lists
      PROVE  [r EXCEPT ![l] = engine[l]] \in Rules
  <2>1. engine[l] \in SUBSET Items
    BY DEF ListsTyped
  <2> QED
    BY <1>a, <2>1
<1>1. CASE Copy(c)
  <2>1. After(list[c]) \in Lists
    BY ListFacts DEF After
  <2> QED
    BY <1>0, <1>1, <1>b, <2>1 DEF Copy, CallsTyped, SavesTyped, Saving
<1>2. CASE Marshal(c)
  <2>1. \E r \in Rules : text' = [text EXCEPT ![c] = r]
    <3>1. CASE text' = [text EXCEPT ![c] = cfg]
      BY <1>0, <3>1
    <3>2. ASSUME NEW d \in Calls, NEW torn \in SUBSET ItemsOf[list[d]],
                 text' = [text EXCEPT ![c] = [cfg EXCEPT ![list[d]] = torn]]
          PROVE  \E r \in Rules : text' = [text EXCEPT ![c] = r]
      <4>1. torn \in SUBSET Items
        BY ListFacts DEF CallsTyped
      <4> QED
        BY <1>0, <1>a, <3>2, <4>1
    <3> QED
      BY <1>2, <3>1, <3>2 DEF Marshal, OtherSaves
  <2> QED
    BY <1>2, <2>1 DEF Marshal, CallsTyped, SavesTyped, Saving, saveVars
<1>3. CASE Open(c)
  BY <1>0, <1>3 DEF Open, CallsTyped, SavesTyped, Saving
<1>4. CASE Write(c)
  <2>1. disk' \in [rules : Rules, whole : BOOLEAN] /\ UNCHANGED cfg /\ UNCHANGED taken /\ last' = taken
    BY <1>0, <1>4 DEF Write
  <2>2. CallsTyped'
    BY <1>0, <1>4 DEF Write, CallsTyped, Saving
  <2> QED
    BY <2>1, <2>2 DEF SavesTyped
<1>5. CASE WriteFails(c)
  <2>1. disk' \in [rules : Rules, whole : BOOLEAN]
    BY <1>0, <1>5 DEF WriteFails
  <2>2. CallsTyped'
    BY <1>0, <1>5 DEF WriteFails, CallsTyped, Saving
  <2> QED
    BY <1>5, <2>1, <2>2 DEF WriteFails, SavesTyped
<1> QED
  BY <1>1, <1>2, <1>3, <1>4, <1>5

LEMMA NextTyped ==
  ListsTyped /\ CallsTyped /\ SavesTyped /\ [Next]_vars
    => (ListsTyped /\ CallsTyped /\ SavesTyped)'
<1> SUFFICES ASSUME ListsTyped, CallsTyped, SavesTyped, [Next]_vars
             PROVE  (ListsTyped /\ CallsTyped /\ SavesTyped)'
  OBVIOUS
<1> USE DEF Go
<1>1. ASSUME NEW c \in Clicks, ClickSave(c)
      PROVE  (ListsTyped /\ CallsTyped /\ SavesTyped)'
  BY <1>1, ListFacts DEF ClickSave, ListsTyped, CallsTyped, SavesTyped, Saving, Calls
<1>2. ASSUME NEW c \in Clicks, NEW l \in Lists, NEW x \in ItemsOf[l], ClickEdit(c, l, x)
      PROVE  (ListsTyped /\ CallsTyped /\ SavesTyped)'
  <2>1. x \in Items /\ c \in Calls
    BY ListFacts DEF Calls
  <2> QED
    BY <1>2, <2>1 DEF ClickEdit, ListsTyped, CallsTyped, SavesTyped, Editing, saveVars
<1>3. ASSUME NEW c \in Calls, ReadDirs(c) \/ SetDirs(c) \/ Edit(c) \/ Toggle(c)
      PROVE  (ListsTyped /\ CallsTyped /\ SavesTyped)'
  <2>1. UNCHANGED saveVars
    BY <1>3 DEF ReadDirs, SetDirs, Edit, Toggle
  <2> QED
    BY <1>3, <2>1, EditsTyped DEF SavesTyped, saveVars
<1>4. ASSUME NEW c \in Calls, Fetch(c) \/ Show(c)
      PROVE  (ListsTyped /\ CallsTyped /\ SavesTyped)'
  BY <1>4 DEF Fetch, Show, ListsTyped, CallsTyped, SavesTyped, Editing, saveVars
<1>5. ASSUME NEW c \in Calls, Copy(c) \/ Marshal(c) \/ Open(c) \/ Write(c) \/ WriteFails(c)
      PROVE  (ListsTyped /\ CallsTyped /\ SavesTyped)'
  <2>1. UNCHANGED <<engine, shown, intended, stale>>
    BY <1>5 DEF Copy, Marshal, Open, Write, WriteFails
  <2> QED
    BY <1>5, <2>1, SavesStayTyped DEF ListsTyped
<1>6. ASSUME NEW x \in ItemsOf["white"], StoreAnswer(x)
      PROVE  (ListsTyped /\ CallsTyped /\ SavesTyped)'
  <2>1. x \in Items
    BY ListFacts
  <2> QED
    BY <1>6, <2>1, ListFacts DEF StoreAnswer, ListsTyped, CallsTyped, SavesTyped, callVars, saveVars
<1>7. CASE TrayToggle
  <2>1. {} \in SUBSET Items /\ {"on"} \in SUBSET Items
    BY ListFacts
  <2>2. (IF paused' THEN {"on"} ELSE {}) \in SUBSET Items
    BY <2>1
  <2> QED
    BY <1>7, <2>2, ListFacts DEF TrayToggle, ListsTyped, CallsTyped, SavesTyped, callVars, saveVars
<1>8. CASE Restart
  <2>1. PICK lost \in SUBSET Items : cfg' = Load([l \in Saved |-> disk.rules[l] \ lost])
    BY <1>8, Zenon DEF Restart
  <2>2. [l \in Saved |-> disk.rules[l] \ lost] \in Rules
    BY DEF SavesTyped, Rules
  <2>3. cfg' \in Rules
    BY <2>1, <2>2, LoadTyped
  <2>4. SavesTyped'
    BY <1>8, <2>3 DEF Restart, SavesTyped
  <2>5. ListsTyped'
    BY <1>8, <2>3, ListFacts DEF Restart, ListsTyped, Rules
  <2>6. CallsTyped'
    BY <1>8, ListFacts, WindowAssumption DEF Restart, CallsTyped, Editing, WindowAssumption
  <2> QED
    BY <2>4, <2>5, <2>6
<1>9. CASE UNCHANGED vars
  BY <1>9 DEF vars, callVars, saveVars, ListsTyped, CallsTyped, SavesTyped
<1> QED
  BY <1>1, <1>2, <1>3, <1>4, <1>5, <1>6, <1>7, <1>8, <1>9 DEF Next, Step, SaveStep

\* Every reachable state is well typed, the flags and the counters apart.
THEOREM TypeCorrect == Spec => [](ListsTyped /\ CallsTyped /\ SavesTyped)
  BY InitTyped, NextTyped, PTL DEF Spec

-----------------------------------------------------------------------------
(* No edit is lost.                                                        *)

LEMMA NextKeepsEdits ==
  ListsTyped /\ CallsTyped /\ EditInv /\ [Next]_vars => EditInv'
<1> SUFFICES ASSUME ListsTyped, CallsTyped, EditInv, [Next]_vars
             PROVE  EditInv'
  OBVIOUS
<1> USE DEF Go
<1>a. /\ \A l \in Lists : engine[l] # intended[l] => l = "dirs" /\ raced
      /\ \A c \in Calls :
           at[c] = "set" => list[c] = "dirs" /\ (raced \/ got[c] = engine["dirs"])
  BY DEF EditInv, EditsAreKept, ReadIsCurrent
<1>b. "dirs" \in Lists /\ "paused" \in Lists /\ "white" \in Lists
  BY ListFacts
<1>1. ASSUME NEW c \in Clicks, ClickSave(c)
      PROVE  EditInv'
  BY <1>1, <1>a DEF ClickSave, EditInv, EditsAreKept, ReadIsCurrent, CallsTyped, Calls
<1>2. ASSUME NEW c \in Clicks, NEW l \in Lists, NEW x \in ItemsOf[l], ClickEdit(c, l, x)
      PROVE  EditInv'
  BY <1>2, <1>a DEF ClickEdit, EditInv, EditsAreKept, ReadIsCurrent, CallsTyped, Calls
<1>3. ASSUME NEW c \in Calls, SetDirs(c)
      PROVE  EditInv'
  <2>1. /\ at[c] = "set" /\ list[c] = "dirs" /\ at' = [at EXCEPT ![c] = "fetch"]
        /\ engine' = [engine EXCEPT !["dirs"] = Changed(c, got[c])]
        /\ intended' = [intended EXCEPT !["dirs"] = Changed(c, intended["dirs"])]
        /\ raced' = (raced \/ \E d \in Others(c, "dirs") : at[d] = "set")
        /\ UNCHANGED <<list, got>>
    BY <1>3, <1>a DEF SetDirs
  <2>2. \A l \in Lists : engine'[l] # intended'[l] => l = "dirs" /\ raced'
    <3>1. CASE raced
      BY <1>a, <2>1, <3>1 DEF ListsTyped
    <3>2. CASE ~raced
      <4>1. engine["dirs"] = intended["dirs"] /\ got[c] = engine["dirs"]
        BY <1>a, <1>b, <2>1, <3>2
      <4> QED
        BY <1>a, <2>1, <4>1 DEF ListsTyped
    <3> QED
      BY <3>1, <3>2
  <2>3. ASSUME NEW d \in Calls, at'[d] = "set"
        PROVE  list'[d] = "dirs" /\ raced'
    <3>1. d # c /\ at[d] = "set" /\ list[d] = "dirs"
      BY <1>a, <2>1, <2>3 DEF CallsTyped
    <3>2. d \in Others(c, "dirs")
      BY <3>1 DEF Others, Editing
    <3> QED
      BY <2>1, <3>1, <3>2
  <2> QED
    BY <2>2, <2>3 DEF EditInv, EditsAreKept, ReadIsCurrent
<1>4. ASSUME NEW c \in Calls, ReadDirs(c)
      PROVE  EditInv'
  BY <1>4, <1>a DEF ReadDirs, EditInv, EditsAreKept, ReadIsCurrent, CallsTyped
<1>5. ASSUME NEW c \in Calls, Edit(c)
      PROVE  EditInv'
  <2>1. /\ list[c] # "dirs" /\ engine[list[c]] = intended[list[c]]
        /\ engine' = [engine EXCEPT ![list[c]] = Changed(c, engine[list[c]])]
        /\ intended' = [intended EXCEPT ![list[c]] = Changed(c, intended[list[c]])]
    BY <1>5, <1>a DEF Edit, CallsTyped
  <2> QED
    BY <1>5, <1>a, <2>1 DEF Edit, EditInv, EditsAreKept, ReadIsCurrent, CallsTyped, ListsTyped
<1>6. ASSUME NEW c \in Calls, Toggle(c)
      PROVE  EditInv'
  BY <1>6, <1>a, <1>b DEF Toggle, EditInv, EditsAreKept, ReadIsCurrent, CallsTyped, ListsTyped
<1>7. ASSUME NEW c \in Calls, Fetch(c) \/ Show(c)
      PROVE  EditInv'
  BY <1>7, <1>a DEF Fetch, Show, EditInv, EditsAreKept, ReadIsCurrent, CallsTyped
<1>8. ASSUME NEW c \in Calls, Copy(c) \/ Marshal(c) \/ Open(c) \/ Write(c) \/ WriteFails(c)
      PROVE  EditInv'
  <2>1. /\ UNCHANGED <<engine, intended, raced, got>>
        /\ \A d \in Calls : at'[d] = "set" => at[d] = "set" /\ list'[d] = list[d]
    BY <1>8 DEF Copy, Marshal, Open, Write, WriteFails, CallsTyped
  <2> QED
    BY <1>a, <2>1 DEF EditInv, EditsAreKept, ReadIsCurrent
<1>9. ASSUME NEW x \in ItemsOf["white"], StoreAnswer(x)
      PROVE  EditInv'
  BY <1>9, <1>a, <1>b DEF StoreAnswer, callVars, EditInv, EditsAreKept, ReadIsCurrent, ListsTyped
<1>10. CASE TrayToggle
  BY <1>10, <1>a, <1>b DEF TrayToggle, callVars, EditInv, EditsAreKept, ReadIsCurrent, ListsTyped
<1>11. CASE Restart
  BY <1>11 DEF Restart, EditInv, EditsAreKept, ReadIsCurrent
<1>12. CASE UNCHANGED vars
  BY <1>12, <1>a DEF vars, callVars, EditInv, EditsAreKept, ReadIsCurrent
<1> QED
  BY <1>1, <1>2, <1>3, <1>4, <1>5, <1>6, <1>7, <1>8, <1>9, <1>10, <1>11, <1>12
     DEF Next, Step, SaveStep

\* No edit of a list is undone by another that runs at the same time, but for
\* overlapping edits of the directories (app.go:124-139, policy.go:62-84).
THEOREM NoEditIsLost == Spec => []EditsAreKept
<1>1. Init => EditInv
  BY DEF Init, EditInv, EditsAreKept, ReadIsCurrent
<1>2. ListsTyped /\ CallsTyped /\ EditInv /\ [Next]_vars => EditInv'
  BY NextKeepsEdits
<1> QED
  BY <1>1, <1>2, TypeCorrect, PTL DEF Spec, EditInv

-----------------------------------------------------------------------------
(* A restart restores what a save found.                                   *)

\* Calls that are not about saving leave the saves alone.
LEMMA OthersKeepSaves ==
  ASSUME SaveInv, UNCHANGED <<saveVars, text>>,
         \A c \in Calls : /\ at'[c] \in Saving <=> at[c] \in Saving
                          /\ at[c] \in Saving => at'[c] = at[c] /\ list'[c] = list[c]
  PROVE  SaveInv'
<1>1. \A c \in Calls : at'[c] \in {"copy", "marshal", "open", "write"} =>
        at[c] \in Saving /\ at'[c] = at[c] /\ list'[c] = list[c]
  BY DEF Saving
<1>2. \A c \in Calls : OtherSaves(c)' = OtherSaves(c)
  BY DEF OtherSaves
<1>3. ~mixed => \A c \in Calls : at'[c] \in Saving => Alone(c)'
  BY <1>1, <1>2 DEF SaveInv, Alone, saveVars, Saving
<1> QED
  BY <1>1, <1>3 DEF SaveInv, saveVars, Saving

LEMMA SaveStepsKeepSaves ==
  ASSUME ListsTyped, CallsTyped, SavesTyped, SaveInv, NEW c \in Calls,
         Copy(c) \/ Marshal(c) \/ Open(c) \/ Write(c) \/ WriteFails(c)
  PROVE  SaveInv'
<1> USE DEF Go
<1>a. /\ \A d \in Calls : at[d] = "copy" => list[d] \in Saved
      /\ sound => disk = File(last, TRUE) /\ \A d \in Calls : at[d] # "write"
      /\ ~mixed => \A d \in Calls : at[d] \in Saving => Alone(d)
  BY DEF SaveInv
<1>b. at[c] \in Saving /\ \A d \in Calls \ {c} : at'[d] = at[d]
  BY DEF Copy, Marshal, Open, Write, WriteFails, Saving, CallsTyped
<1>c. ASSUME ~mixed
      PROVE  /\ Alone(c) /\ \A d \in Calls \ {c} : at[d] \notin Saving
             /\ \A d \in Calls \ {c} : at'[d] \notin Saving
             /\ OtherSaves(c)' = {}
  BY <1>a, <1>b, <1>c DEF Alone, OtherSaves
<1>1. CASE Copy(c)
  <2>1. /\ list[c] \in {"dirs", "tags", "white"} /\ at[c] = "copy"
        /\ list' = [list EXCEPT ![c] = After(list[c])]
        /\ at' = [at EXCEPT ![c] = IF list[c] = "white" THEN "marshal" ELSE "copy"]
        /\ cfg' = [cfg EXCEPT ![list[c]] = engine[list[c]]]
        /\ taken' = [taken EXCEPT ![list[c]] = engine[list[c]]]
        /\ UNCHANGED <<text, disk, last, mixed, sound>>
    BY <1>1, <1>a, ListFacts DEF Copy
  <2>2. /\ cfg \in [Saved -> SUBSET Items] /\ taken \in [Saved -> SUBSET Items]
        /\ Saved = {"dirs", "tags", "white"}
    BY ListFacts DEF SavesTyped, Rules
  <2>3. \A d \in Calls : at'[d] = "copy" => list'[d] \in Saved
    BY <1>a, <1>b, <2>1, ListFacts DEF CallsTyped, After
  <2>4. sound' => disk' = File(last', TRUE) /\ \A d \in Calls : at'[d] # "write"
    BY <1>a, <1>b, <2>1 DEF CallsTyped
  <2>5. ASSUME ~mixed
        PROVE  Alone(c)'
    <3>1. CASE list[c] = "dirs"
      BY <1>c, <2>1, <2>2, <2>5, <3>1 DEF Alone, CallsTyped, After
    <3>2. CASE list[c] = "tags"
      BY <1>c, <2>1, <2>2, <2>5, <3>2 DEF Alone, CallsTyped, After
    <3>3. CASE list[c] = "white"
      <4>1. cfg["dirs"] = taken["dirs"] /\ cfg["tags"] = taken["tags"]
        BY <1>c, <2>1, <2>5, <3>3 DEF Alone
      <4>2. cfg' = taken'
        BY <2>1, <2>2, <3>3, <4>1
      <4>3. at'[c] = "marshal"
        BY <2>1, <3>3 DEF CallsTyped
      <4> QED
        BY <1>c, <2>5, <4>2, <4>3 DEF Alone
    <3> QED
      BY <2>1, <3>1, <3>2, <3>3
  <2> QED
    BY <1>c, <2>1, <2>3, <2>4, <2>5 DEF SaveInv
<1>2. CASE Marshal(c)
  <2>1. at[c] = "marshal" /\ at' = [at EXCEPT ![c] = "open"] /\ UNCHANGED list /\ UNCHANGED saveVars
    BY <1>2 DEF Marshal
  <2>2. ASSUME ~mixed
        PROVE  text' = [text EXCEPT ![c] = cfg]
    BY <1>2, <1>c, <2>2 DEF Marshal, Alone
  <2>3. ASSUME ~mixed
        PROVE  Alone(c)'
    BY <1>c, <2>1, <2>2, <2>3 DEF Alone, CallsTyped, saveVars
  <2>4. \A d \in Calls : at'[d] # "copy" \/ at[d] = "copy"
    BY <2>1 DEF CallsTyped
  <2>5. \A d \in Calls : at'[d] # "write" \/ at[d] = "write"
    BY <2>1 DEF CallsTyped
  <2> QED
    BY <1>a, <1>c, <2>1, <2>3, <2>4, <2>5 DEF SaveInv, saveVars
<1>3. CASE Open(c)
  <2>1. /\ at[c] = "open" /\ at' = [at EXCEPT ![c] = "write"] /\ ~sound'
        /\ disk' = File(NoRules, TRUE)
        /\ UNCHANGED <<list, text, cfg, taken, last, mixed>>
    BY <1>3 DEF Open
  <2>2. ASSUME ~mixed
        PROVE  Alone(c)'
    BY <1>c, <2>1, <2>2 DEF Alone, CallsTyped, Saving
  <2>3. \A d \in Calls : at'[d] # "copy" \/ at[d] = "copy"
    BY <2>1 DEF CallsTyped
  <2> QED
    BY <1>a, <1>c, <2>1, <2>2, <2>3 DEF SaveInv
<1>4. CASE Write(c)
  <2>1. /\ at[c] = "write" /\ at' = [at EXCEPT ![c] = "idle"] /\ sound' = ~mixed
        /\ last' = taken
        /\ UNCHANGED <<list, cfg, taken, mixed>>
    BY <1>4 DEF Write
  <2>2. ASSUME ~mixed
        PROVE  disk' = File(last', TRUE)
    <3>1. text[c] = taken /\ disk = File(NoRules, TRUE)
      BY <1>c, <2>1, <2>2 DEF Alone
    <3> QED
      BY <1>4, <2>1, <3>1 DEF Write
  <2>3. \A d \in Calls : at'[d] # "copy" \/ at[d] = "copy"
    BY <2>1 DEF CallsTyped
  <2>4. at'[c] \notin Saving /\ "write" \in Saving
    BY <2>1 DEF CallsTyped, Saving
  <2> QED
    BY <1>a, <1>c, <2>1, <2>2, <2>3, <2>4 DEF SaveInv
<1>5. CASE WriteFails(c)
  <2>1. /\ at'[c] = "idle"
        /\ sound => disk' = disk
        /\ UNCHANGED <<list, cfg, taken, last, mixed, sound>>
    BY <1>5, <1>a DEF WriteFails, CallsTyped
  <2>2. \A d \in Calls : /\ at'[d] # "copy" \/ at[d] = "copy"
                         /\ at'[d] # "write" \/ at[d] = "write"
    BY <1>b, <2>1
  <2>3. at'[c] \notin Saving
    BY <2>1 DEF Saving
  <2> QED
    BY <1>a, <1>c, <2>1, <2>2, <2>3 DEF SaveInv
<1> QED
  BY <1>1, <1>2, <1>3, <1>4, <1>5

LEMMA NextKeepsSaves ==
  ListsTyped /\ CallsTyped /\ SavesTyped /\ SaveInv /\ [Next]_vars => SaveInv'
<1> SUFFICES ASSUME ListsTyped, CallsTyped, SavesTyped, SaveInv, [Next]_vars
             PROVE  SaveInv'
  OBVIOUS
<1> USE DEF Go
<1>a. /\ \A d \in Calls : at[d] = "copy" => list[d] \in Saved
      /\ sound => disk = File(last, TRUE) /\ \A d \in Calls : at[d] # "write"
      /\ ~mixed => \A d \in Calls : at[d] \in Saving => Alone(d)
  BY DEF SaveInv
<1>1. ASSUME NEW c \in Clicks, ClickSave(c)
      PROVE  SaveInv'
  <2>1. /\ c \in Calls /\ at[c] = "idle" /\ at' = [at EXCEPT ![c] = "copy"]
        /\ list' = [list EXCEPT ![c] = "dirs"] /\ mixed' = (OtherSaves(c) # {})
        /\ UNCHANGED <<cfg, disk, text, taken, last, sound>>
    BY <1>1 DEF ClickSave, Calls
  <2>2. \A d \in Calls : at'[d] = "copy" => list'[d] \in Saved
    BY <1>a, <2>1, ListFacts DEF CallsTyped
  <2>3. sound' => disk' = File(last', TRUE) /\ \A d \in Calls : at'[d] # "write"
    BY <1>a, <2>1 DEF CallsTyped
  <2>4. ASSUME ~mixed', NEW d \in Calls, at'[d] \in Saving
        PROVE  Alone(d)'
    <3>1. d = c /\ OtherSaves(c)' = {} /\ at'[d] = "copy" /\ list'[d] = "dirs"
      BY <2>1, <2>4 DEF OtherSaves, CallsTyped
    <3> QED
      BY <3>1 DEF Alone
  <2> QED
    BY <2>2, <2>3, <2>4 DEF SaveInv
<1>2. ASSUME NEW c \in Clicks, NEW l \in Lists, NEW x \in ItemsOf[l], ClickEdit(c, l, x)
      PROVE  SaveInv'
  <2>1. \A d \in Calls : /\ at'[d] \in Saving <=> at[d] \in Saving
                         /\ at[d] \in Saving => at'[d] = at[d] /\ list'[d] = list[d]
    BY <1>2 DEF ClickEdit, CallsTyped, Saving
  <2> QED
    BY <1>2, <2>1, OthersKeepSaves DEF ClickEdit, saveVars
<1>3. ASSUME NEW c \in Calls, Step(c)
      PROVE  SaveInv'
  <2>1. UNCHANGED list /\ UNCHANGED saveVars /\ UNCHANGED text
    BY <1>3 DEF Step, ReadDirs, SetDirs, Edit, Toggle, Fetch, Show
  <2>2. \E f \in Editing, t \in {"idle"} \cup Editing : Go(c, f, t)
    BY <1>3 DEF Step, ReadDirs, SetDirs, Edit, Toggle, Fetch, Show, Editing
  <2>3. \A d \in Calls : /\ at'[d] \in Saving <=> at[d] \in Saving
                         /\ at[d] \in Saving => at'[d] = at[d] /\ list'[d] = list[d]
    BY <2>1, <2>2 DEF CallsTyped, Saving, Editing
  <2> QED
    BY <2>1, <2>3, OthersKeepSaves
<1>4. ASSUME NEW c \in Calls, SaveStep(c)
      PROVE  SaveInv'
  BY <1>4, SaveStepsKeepSaves DEF SaveStep
<1>5. ASSUME \/ \E x \in ItemsOf["white"] : StoreAnswer(x)
             \/ TrayToggle
             \/ UNCHANGED vars
      PROVE  SaveInv'
  BY <1>5, OthersKeepSaves DEF StoreAnswer, TrayToggle, vars, callVars
<1>6. CASE Restart
  <2>1. \A d \in Calls : at'[d] \in {"idle", "fetch"}
    BY <1>6 DEF Restart
  <2> QED
    BY <1>6, <1>a, <2>1 DEF Restart, SaveInv, Saving
<1> QED
  BY <1>1, <1>2, <1>3, <1>4, <1>5, <1>6 DEF Next

\* A file that a lone save has written gives back, at a start, what that save
\* found.
LEMMA RestartLoadsTheFile ==
  ASSUME ListsTyped, SavesTyped, SaveInv, Restart, sound
  PROVE  /\ \A l \in Saved \ {"dirs"} : engine'[l] = last[l]
         /\ engine'["dirs"] = {Expand[d] : d \in last["dirs"]}
<1>1. disk.whole /\ disk.rules = last /\ last \in [Saved -> SUBSET Items]
  BY DEF SaveInv, File, SavesTyped, Rules
<1>2. cfg' = Load([l \in Saved |-> last[l] \ {}])
  BY <1>1 DEF Restart
<1>3. [l \in Saved |-> last[l] \ {}] = last
  BY <1>1
<1>4. cfg' = [last EXCEPT !["dirs"] = {Expand[d] : d \in last["dirs"]}]
  BY <1>2, <1>3 DEF Load
<1>5. \A l \in Saved : engine'[l] = cfg'[l]
  BY ListFacts DEF Restart
<1> QED
  BY <1>1, <1>4, <1>5, ListFacts

\* A start finds the rules that were in force when the last save copied them,
\* unless that save was not alone or was cut off within its write
\* (app.go:274-282, config.go:42-110).
THEOREM SavedRulesComeBack == Spec => RestartRestores
<1>1. Init => SaveInv
  <2> SUFFICES ASSUME Init PROVE SaveInv
    OBVIOUS
  <2>1. \A c \in Calls : at[c] \in {"idle", "fetch"}
    BY DEF Init
  <2> QED
    BY <2>1 DEF Init, SaveInv, Saving
<1>2. ListsTyped /\ CallsTyped /\ SavesTyped /\ SaveInv /\ [Next]_vars => SaveInv'
  BY NextKeepsSaves
<1>3. ListsTyped /\ SavesTyped /\ SaveInv /\ [Next]_vars
        => [starts' # starts /\ sound =>
              /\ \A l \in Saved \ {"dirs"} : engine'[l] = last[l]
              /\ engine'["dirs"] = {Expand[d] : d \in last["dirs"]}]_vars
  <2> SUFFICES ASSUME ListsTyped, SavesTyped, SaveInv, Next, starts' # starts, sound
               PROVE  /\ \A l \in Saved \ {"dirs"} : engine'[l] = last[l]
                      /\ engine'["dirs"] = {Expand[d] : d \in last["dirs"]}
    OBVIOUS
  <2>1. Restart
    BY DEF Next, ClickSave, ClickEdit, Step, ReadDirs, SetDirs, Edit, Toggle, Fetch, Show,
           SaveStep, Copy, Marshal, Open, Write, WriteFails, StoreAnswer, TrayToggle, bounds
  <2> QED
    BY <2>1, RestartLoadsTheFile
<1> QED
  BY <1>1, <1>2, <1>3, TypeCorrect, PTL DEF Spec, RestartRestores

-----------------------------------------------------------------------------
(* The window shows the lists in force.                                    *)

\* Calls that touch nothing of a list leave it followed.
LEMMA UntouchedStaysFollowed ==
  ASSUME NEW l, Followed(l), shown'[l] = shown[l], engine'[l] = engine[l],
         \A d \in Calls :
           /\ (at'[d] \in Editing /\ list'[d] = l) <=> (at[d] \in Editing /\ list[d] = l)
           /\ at'[d] = "show" /\ list'[d] = l => at[d] = "show" /\ list[d] = l /\ got'[d] = got[d]
  PROVE  Followed(l)'
  BY DEF Followed

\* A call that is the only one on a list, and is not done, has it followed.
LEMMA OnlyCallFollows ==
  ASSUME NEW l, NEW c \in Calls, at'[c] \in Editing, list'[c] = l,
         \A d \in Calls \ {c} : ~(at'[d] \in Editing /\ list'[d] = l),
         at'[c] = "show" => got'[c] = engine'[l]
  PROVE  Followed(l)'
  BY DEF Followed, Editing

\* The steps of an editing function.
LEMMA StepKeepsShown ==
  ASSUME ListsTyped, CallsTyped, ShownInv, NEW c \in Calls, Step(c)
  PROVE  ShownInv'
<1> USE DEF Go
<1>1. /\ UNCHANGED list /\ list[c] \in Lists /\ at[c] \in Editing
      /\ \A l \in Lists \ {list[c]} : engine'[l] = engine[l] /\ shown'[l] = shown[l]
      /\ \A d \in Calls \ {c} : at'[d] = at[d] /\ got'[d] = got[d]
  BY DEF Step, ReadDirs, SetDirs, Edit, Toggle, Fetch, Show, CallsTyped, ListsTyped, Editing
<1>2. \/ stale' = stale
      \/ stale' = stale \ {list[c]} /\ Others(c, list[c]) = {}
  BY DEF Step, ReadDirs, SetDirs, Edit, Toggle, Fetch, Show
<1>3. ASSUME NEW l \in Lists \ stale', l # list[c]
      PROVE  Followed(l)'
  <2>1. Followed(l)
    BY <1>2, <1>3 DEF ShownInv
  <2>2. \A d \in Calls :
          /\ (at'[d] \in Editing /\ list'[d] = l) <=> (at[d] \in Editing /\ list[d] = l)
          /\ at'[d] = "show" /\ list'[d] = l => at[d] = "show" /\ list[d] = l /\ got'[d] = got[d]
    BY <1>1, <1>3
  <2> QED
    BY <1>1, <1>3, <2>1, <2>2, UntouchedStaysFollowed
<1>4. ASSUME list[c] \notin stale'
      PROVE  Followed(list[c])'
  <2>1. \A d \in Calls \ {c} : ~(at[d] \in Editing /\ list[d] = list[c])
    <3>1. CASE Others(c, list[c]) = {}
      BY <3>1 DEF Others
    <3>2. CASE list[c] \notin stale
      BY <1>1, <3>2 DEF ShownInv, Followed
    <3> QED
      BY <1>2, <1>4, <3>1, <3>2
  <2>2. \A d \in Calls \ {c} : ~(at'[d] \in Editing /\ list'[d] = list[c])
    BY <1>1, <2>1
  <2>3. CASE ReadDirs(c) \/ SetDirs(c) \/ Edit(c)
    <3>1. at'[c] \in {"set", "fetch"}
      BY <2>3 DEF ReadDirs, SetDirs, Edit, CallsTyped
    <3> QED
      BY <1>1, <2>2, <3>1, OnlyCallFollows DEF Editing
  <2>4. CASE Toggle(c) \/ Fetch(c)
    <3>1. at'[c] = "show" /\ got'[c] = engine'[list[c]]
      BY <2>4, <1>1 DEF Toggle, Fetch, CallsTyped, ListsTyped
    <3> QED
      BY <1>1, <2>2, <3>1, OnlyCallFollows DEF Editing
  <2>5. CASE Show(c)
    <3>1. /\ at[c] = "show" /\ at'[c] = "idle" /\ UNCHANGED engine /\ stale' = stale
          /\ shown' = [shown EXCEPT ![list[c]] = got[c]]
      BY <2>5 DEF Show, CallsTyped
    <3>2. got[c] = engine[list[c]]
      BY <1>1, <1>4, <3>1 DEF ShownInv, Followed
    <3>3. shown'[list[c]] = engine'[list[c]]
      BY <1>1, <3>1, <3>2 DEF ListsTyped
    <3>4. \A d \in Calls : ~(at'[d] \in Editing /\ list'[d] = list[c])
      BY <2>2, <3>1 DEF Editing
    <3> QED
      BY <1>1, <3>3, <3>4 DEF Followed, Editing
  <2> QED
    BY <2>3, <2>4, <2>5 DEF Step
<1> QED
  BY <1>1, <1>3, <1>4 DEF ShownInv

LEMMA NextKeepsShown ==
  ListsTyped /\ CallsTyped /\ ShownInv /\ [Next]_vars => ShownInv'
<1> SUFFICES ASSUME ListsTyped, CallsTyped, ShownInv, [Next]_vars
             PROVE  ShownInv'
  OBVIOUS
<1> USE DEF Go
<1>1. ASSUME NEW c \in Clicks, NEW l \in Lists, NEW x \in ItemsOf[l], ClickEdit(c, l, x)
      PROVE  ShownInv'
  <2>1. /\ c \in Calls /\ at[c] = "idle" /\ at' = [at EXCEPT ![c] = "edit"]
        /\ list' = [list EXCEPT ![c] = l]
        /\ stale' = IF Others(c, l) # {} THEN stale \cup {l} ELSE stale
        /\ UNCHANGED <<engine, shown, got>>
    BY <1>1 DEF ClickEdit, Calls
  <2>2. /\ at'[c] = "edit" /\ list'[c] = l
        /\ \A d \in Calls \ {c} : at'[d] = at[d] /\ list'[d] = list[d]
    BY <2>1 DEF CallsTyped
  <2>3. ASSUME NEW m \in Lists \ stale', m # l
        PROVE  Followed(m)'
    <3>1. Followed(m)
      BY <2>1, <2>3 DEF ShownInv
    <3>2. \A d \in Calls :
            /\ (at'[d] \in Editing /\ list'[d] = m) <=> (at[d] \in Editing /\ list[d] = m)
            /\ at'[d] = "show" /\ list'[d] = m => at[d] = "show" /\ list[d] = m /\ got'[d] = got[d]
      BY <2>1, <2>2, <2>3 DEF Editing
    <3> QED
      BY <2>1, <3>1, <3>2, UntouchedStaysFollowed
  <2>4. ASSUME l \notin stale'
        PROVE  Followed(l)'
    <3>1. \A d \in Calls \ {c} : ~(at'[d] \in Editing /\ list'[d] = l)
      BY <2>1, <2>2, <2>4 DEF Others
    <3> QED
      BY <2>1, <2>2, <3>1, OnlyCallFollows DEF Editing
  <2> QED
    BY <2>3, <2>4 DEF ShownInv
<1>2. ASSUME NEW c \in Calls, Step(c)
      PROVE  ShownInv'
  BY <1>2, StepKeepsShown
<1>3. ASSUME \/ \E c \in Clicks : ClickSave(c)
             \/ \E c \in Calls : SaveStep(c)
             \/ UNCHANGED vars
      PROVE  ShownInv'
  <2>1. /\ UNCHANGED <<engine, shown, got, stale>>
        /\ \A d \in Calls : \/ at'[d] = at[d] /\ list'[d] = list[d]
                            \/ at'[d] \notin Editing /\ at[d] \notin Editing
    <3>1. ASSUME NEW c \in Clicks, ClickSave(c)
          PROVE  /\ UNCHANGED <<engine, shown, got, stale>>
                 /\ \A d \in Calls : \/ at'[d] = at[d] /\ list'[d] = list[d]
                                     \/ at'[d] \notin Editing /\ at[d] \notin Editing
      BY <3>1 DEF ClickSave, CallsTyped, Editing, Calls
    <3>2. ASSUME NEW c \in Calls, SaveStep(c)
          PROVE  /\ UNCHANGED <<engine, shown, got, stale>>
                 /\ \A d \in Calls : \/ at'[d] = at[d] /\ list'[d] = list[d]
                                     \/ at'[d] \notin Editing /\ at[d] \notin Editing
      BY <3>2 DEF SaveStep, Copy, Marshal, Open, Write, WriteFails, CallsTyped, Editing
    <3> QED
      BY <1>3, <3>1, <3>2 DEF vars, callVars
  <2>2. ASSUME NEW l \in Lists \ stale'
        PROVE  Followed(l)'
    BY <2>1, UntouchedStaysFollowed DEF ShownInv, Editing
  <2> QED
    BY <2>2 DEF ShownInv
<1>4. ASSUME (\E x \in ItemsOf["white"] : StoreAnswer(x)) \/ TrayToggle
      PROVE  ShownInv'
  <2>1. PICK l \in Lists : /\ stale' = stale \cup {l}
                           /\ \A m \in Lists \ {l} : engine'[m] = engine[m]
                           /\ UNCHANGED <<shown, at, list, got>>
    BY <1>4, ListFacts DEF StoreAnswer, TrayToggle, callVars, ListsTyped
  <2>2. ASSUME NEW m \in Lists \ stale'
        PROVE  Followed(m)'
    BY <2>1, UntouchedStaysFollowed DEF ShownInv
  <2> QED
    BY <2>2 DEF ShownInv
<1>5. CASE Restart
  <2>1. /\ \A d \in Calls : IF d \in Slow THEN at'[d] = "fetch" /\ list'[d] = d ELSE at'[d] = "idle"
        /\ \A l \in Lists \ Slow : shown'[l] = engine'[l]
    BY <1>5 DEF Restart
  <2>2. Slow \subseteq Calls
    BY DEF Calls
  <2> QED
    BY <2>1, <2>2 DEF ShownInv, Followed, Editing
<1> QED
  BY <1>1, <1>2, <1>3, <1>4, <1>5 DEF Next

\* While no call on a list is under way, the window shows the list in force,
\* unless calls on it have overlapped, or a prompt or the tray has changed it
\* since it was last fetched (usePolicy.ts:34-110).
THEOREM WindowIsTrue == Spec => []WindowTellsTruth
<1>1. Init => ShownInv
  <2> SUFFICES ASSUME Init PROVE ShownInv
    OBVIOUS
  <2>1. /\ \A d \in Calls : IF d \in Slow THEN at[d] = "fetch" /\ list[d] = d ELSE at[d] = "idle"
        /\ \A l \in Lists \ Slow : shown[l] = engine[l]
        /\ Slow \subseteq Calls
    BY DEF Init, Calls
  <2> QED
    BY <2>1 DEF ShownInv, Followed, Editing
<1>2. ListsTyped /\ CallsTyped /\ ShownInv /\ [Next]_vars => ShownInv'
  BY NextKeepsShown
<1>3. ShownInv => WindowTellsTruth
  BY DEF ShownInv, Followed, WindowTellsTruth
<1> QED
  BY <1>1, <1>2, <1>3, TypeCorrect, PTL DEF Spec

=============================================================================
