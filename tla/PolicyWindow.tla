---------------------------- MODULE PolicyWindow ----------------------------
(***************************************************************************)
(* The policy as the user edits, sees and saves it: the engine's lists,    *)
(* the window's copies of them (frontend/src/hooks/usePolicy.ts), the      *)
(* calls between the two (internal/ui/app.go:96-206, 274-282), the tray's  *)
(* pause item (internal/tray/tray.go:42-57), the App's copy of the         *)
(* configuration and the file it is written to and loaded from             *)
(* (internal/config/config.go).                                            *)
(*                                                                         *)
(* Each click runs one asynchronous function of the hook; its calls into   *)
(* App run on goroutines of their own.  Three lists stand for the six:     *)
(* "dirs", which App edits by reading and writing it back; "tags", which   *)
(* the engine edits under its lock, as it does the patterns and keywords;  *)
(* "white", which a prompt adds to, and a "never ask" answer adds to the   *)
(* blacklist in the same way.  "paused" is the bypass flag, a list of at   *)
(* most one item that is not saved.                                        *)
(***************************************************************************)
EXTENDS Naturals

CONSTANTS
  Clicks,       \* asynchronous functions of the hook that may run at once
  ItemsOf,      \* what each list may hold
  Expand,       \* expandHome, on every item
  Configured,   \* the rules in the configuration file at first
  Slow,         \* bounds the loads that are still under way when the user begins
  MaxClicks,    \* bound on the clicks
  MaxOutside,   \* bound on the prompts' answers and the tray's clicks
  MaxFaults,    \* bound on the failing writes
  MaxStarts     \* bound on the restarts

Lists == {"dirs", "tags", "white", "paused"}
Saved == Lists \ {"paused"}
Items == UNION {ItemsOf[l] : l \in Lists}

ASSUME WindowAssumption ==
  /\ DOMAIN ItemsOf = Lists
  /\ ItemsOf["paused"] = {"on"}
  /\ Clicks \cap Lists = {} /\ Slow \subseteq Lists
  /\ Expand \in [Items -> Items]
  /\ Configured \in [Lists \ {"paused"} -> SUBSET Items]
  /\ MaxClicks \in Nat /\ MaxOutside \in Nat
  /\ MaxFaults \in Nat /\ MaxStarts \in Nat

\* a click, or the call that loads a list when the window mounts
Calls == Clicks \cup Slow

VARIABLES
  engine,    \* the lists in force
  cfg,       \* a.cfg.Policy
  disk,      \* the rules in the configuration file; it may be cut short
  shown,     \* the window's lists
  paused,    \* the tray's flag
  at,        \* where each call is
  list,      \* the list it is about, or is copying
  item,      \* the item it adds or removes
  adds,      \* it adds
  got,       \* the list it has read
  text,      \* the file it is about to write
  clicks,    \* for the bounds
  outside,
  faults,
  starts,
  \* history, read by the properties only
  intended,  \* the lists, had every edit been made at once
  raced,     \* two directory edits have overlapped
  stale,     \* lists that changed behind the window's back
  taken,     \* what the save under way found in the engine
  last,      \* the same for the last save that ended
  mixed,     \* the save under way has not been alone
  sound      \* the file is what a save, alone, has written

callVars == <<at, list, item, adds, got, text>>
bounds   == <<clicks, outside, faults, starts>>
saveVars == <<cfg, disk, taken, last, mixed, sound>>
vars == <<engine, shown, paused, callVars, bounds, saveVars, intended, raced, stale>>

NoRules == [l \in Saved |-> {}]
File(rules, whole) == [rules |-> rules, whole |-> whole]

Load(rules) == [rules EXCEPT !["dirs"] = {Expand[d] : d \in @}]

Init ==
  /\ disk = File(Configured, TRUE)
  /\ cfg = Load(Configured)
  /\ engine = [l \in Lists |-> IF l \in Saved THEN cfg[l] ELSE {}]
  /\ shown = [l \in Lists |-> IF l \in Slow THEN {} ELSE engine[l]]
  /\ paused = FALSE
  /\ at = [c \in Calls |-> IF c \in Slow THEN "fetch" ELSE "idle"]
  /\ list = [c \in Calls |-> IF c \in Slow THEN c ELSE "dirs"]
  /\ item = [c \in Calls |-> "on"]
  /\ adds = [c \in Calls |-> FALSE]
  /\ got = [c \in Calls |-> {}]
  /\ text = [c \in Calls |-> NoRules]
  /\ clicks = 0 /\ outside = 0 /\ faults = 0 /\ starts = 0
  /\ intended = engine
  /\ raced = FALSE
  /\ stale = {}
  /\ taken = NoRules
  /\ last = Configured
  /\ mixed = FALSE
  /\ sound = TRUE

Editing == {"edit", "set", "fetch", "show"}
Saving  == {"copy", "marshal", "open", "write"}

Rules == [Saved -> SUBSET Items]

ListsTyped ==
  /\ engine \in [Lists -> SUBSET Items]
  /\ shown \in [Lists -> SUBSET Items]
  /\ intended \in [Lists -> SUBSET Items]
  /\ stale \subseteq Lists

CallsTyped ==
  /\ at \in [Calls -> {"idle"} \cup Editing \cup Saving]
  /\ list \in [Calls -> Lists]
  /\ item \in [Calls -> Items]
  /\ adds \in [Calls -> BOOLEAN]
  /\ got \in [Calls -> SUBSET Items]
  /\ text \in [Calls -> Rules]

SavesTyped ==
  /\ cfg \in Rules
  /\ taken \in Rules
  /\ last \in Rules
  /\ disk \in [rules : Rules, whole : BOOLEAN]

TypeOK ==
  /\ ListsTyped /\ CallsTyped /\ SavesTyped
  /\ {paused, raced, mixed, sound} \subseteq BOOLEAN
  /\ {clicks, outside, faults, starts} \subseteq Nat

Others(c, l)  == {d \in Calls \ {c} : at[d] \in Editing /\ list[d] = l}
OtherSaves(c) == {d \in Calls \ {c} : at[d] \in Saving}

Go(c, from, to) == at[c] = from /\ at' = [at EXCEPT ![c] = to]

Changed(c, old) == IF adds[c] THEN old \cup {item[c]} ELSE old \ {item[c]}

-----------------------------------------------------------------------------
(* The editing functions of usePolicy, with the App methods they await.    *)

\* the window offers to add what it does not show, and to remove what it
\* shows; nothing can be added to the whitelist here
ClickEdit(c, l, x) ==
  /\ c \in Clicks /\ clicks < MaxClicks
  /\ l = "white" => x \in shown[l]
  /\ Go(c, "idle", "edit")
  /\ clicks' = clicks + 1
  /\ list' = [list EXCEPT ![c] = l]
  /\ item' = [item EXCEPT ![c] = x]
  /\ adds' = [adds EXCEPT ![c] = x \notin shown[l]]
  /\ stale' = IF Others(c, l) # {} THEN stale \cup {l} ELSE stale
  /\ UNCHANGED <<engine, shown, paused, got, text, outside, faults, starts, saveVars, intended, raced>>

\* Mutant: the engine has no edits of its own, App reads and writes every list.
ReadAny(c) ==
  /\ list[c] # "paused"
  /\ Go(c, "edit", "set")
  /\ got' = [got EXCEPT ![c] = engine[list[c]]]
  /\ UNCHANGED <<engine, shown, paused, list, item, adds, text, bounds, saveVars,
                 intended, raced, stale>>

\* the first half of App.AddAllowedDirectory and RemoveAllowedDirectory
ReadDirs(c) ==
  /\ list[c] = "dirs"
  /\ Go(c, "edit", "set")
  /\ got' = [got EXCEPT ![c] = engine[list[c]]]
  /\ UNCHANGED <<engine, shown, paused, list, item, adds, text, bounds, saveVars,
                 intended, raced, stale>>

SetDirs(c) ==
  /\ Go(c, "set", "fetch")
  /\ engine' = [engine EXCEPT ![list[c]] = Changed(c, got[c])]
  /\ intended' = [intended EXCEPT ![list[c]] = Changed(c, @)]
  /\ raced' = (raced \/ \E d \in Others(c, list[c]) : at[d] = "set")
  /\ UNCHANGED <<shown, paused, list, item, adds, got, text, bounds, saveVars, stale>>

\* Mutant: the list is fetched without waiting for the edit.
EditUnawaited(c) ==
  /\ list[c] \notin {"dirs", "paused"}
  /\ Go(c, "edit", "show")
  /\ engine' = [engine EXCEPT ![list[c]] = Changed(c, @)]
  /\ intended' = [intended EXCEPT ![list[c]] = Changed(c, @)]
  /\ got' = [got EXCEPT ![c] = engine[list[c]]]
  /\ UNCHANGED <<shown, paused, list, item, adds, text, bounds, saveVars, raced, stale>>

\* the other lists are edited under the engine's lock
Edit(c) ==
  /\ list[c] \notin {"dirs", "paused"}
  /\ Go(c, "edit", "fetch")
  /\ engine' = [engine EXCEPT ![list[c]] = Changed(c, @)]
  /\ intended' = [intended EXCEPT ![list[c]] = Changed(c, @)]
  /\ UNCHANGED <<shown, paused, list, item, adds, got, text, bounds, saveVars, raced, stale>>

\* toggleBypassed sets what it has computed at the click, and shows that
Toggle(c) ==
  /\ list[c] = "paused"
  /\ Go(c, "edit", "show")
  /\ engine' = [engine EXCEPT !["paused"] = Changed(c, {})]
  /\ intended' = [intended EXCEPT !["paused"] = Changed(c, {})]
  /\ got' = [got EXCEPT ![c] = Changed(c, {})]
  /\ stale' = IF Others(c, "paused") = {} THEN stale \ {"paused"} ELSE stale
  /\ UNCHANGED <<shown, paused, list, item, adds, text, bounds, saveVars, raced>>

Fetch(c) ==
  /\ Go(c, "fetch", "show")
  /\ got' = [got EXCEPT ![c] = engine[list[c]]]
  /\ stale' = IF Others(c, list[c]) = {} THEN stale \ {list[c]} ELSE stale
  /\ UNCHANGED <<engine, shown, paused, list, item, adds, text, bounds, saveVars,
                 intended, raced>>

Show(c) ==
  /\ Go(c, "show", "idle")
  /\ shown' = [shown EXCEPT ![list[c]] = got[c]]
  /\ got' = [got EXCEPT ![c] = {}]
  /\ UNCHANGED <<engine, paused, list, item, adds, text, bounds, saveVars,
                 intended, raced, stale>>

Step(c) == ReadDirs(c) \/ SetDirs(c) \/ Edit(c) \/ Toggle(c) \/ Fetch(c) \/ Show(c)

-----------------------------------------------------------------------------
(* Changes the window does not hear of.                                    *)

\* a prompt is answered with "always"
StoreAnswer(x) ==
  /\ outside < MaxOutside
  /\ outside' = outside + 1
  /\ engine' = [engine EXCEPT !["white"] = @ \cup {x}]
  /\ intended' = [intended EXCEPT !["white"] = @ \cup {x}]
  /\ stale' = stale \cup {"white"}
  /\ UNCHANGED <<shown, paused, callVars, clicks, faults, starts, saveVars, raced>>

\* the tray's pause item toggles a flag of its own
TrayToggle ==
  /\ outside < MaxOutside
  /\ outside' = outside + 1
  /\ paused' = ~paused
  /\ engine' = [engine EXCEPT !["paused"] = IF paused' THEN {"on"} ELSE {}]
  /\ intended' = [intended EXCEPT !["paused"] = IF paused' THEN {"on"} ELSE {}]
  /\ stale' = stale \cup {"paused"}
  /\ UNCHANGED <<shown, callVars, clicks, faults, starts, saveVars, raced>>

-----------------------------------------------------------------------------
(* SaveConfig.                                                             *)

ClickSave(c) ==
  /\ c \in Clicks /\ clicks < MaxClicks
  /\ Go(c, "idle", "copy")
  /\ clicks' = clicks + 1
  /\ list' = [list EXCEPT ![c] = "dirs"]
  /\ mixed' = (OtherSaves(c) # {})
  /\ UNCHANGED <<engine, shown, paused, item, adds, got, text, outside, faults, starts, cfg, disk,
                 taken, last, sound, intended, raced, stale>>

After(l) == IF l = "dirs" THEN "tags" ELSE "white"

\* Mutant: one of the lists is forgotten.
CopyWithoutWhitelist(c) ==
  /\ Go(c, "copy", IF list[c] = "white" THEN "marshal" ELSE "copy")
  /\ list' = [list EXCEPT ![c] = After(@)]
  /\ cfg' = IF list[c] = "white" THEN cfg ELSE [cfg EXCEPT ![list[c]] = engine[list[c]]]
  /\ taken' = [taken EXCEPT ![list[c]] = engine[list[c]]]
  /\ UNCHANGED <<engine, shown, paused, item, adds, got, text, bounds, disk, last, mixed, sound,
                 intended, raced, stale>>

\* one list at a time, with no lock around them
Copy(c) ==
  /\ Go(c, "copy", IF list[c] = "white" THEN "marshal" ELSE "copy")
  /\ list' = [list EXCEPT ![c] = After(@)]
  /\ cfg' = [cfg EXCEPT ![list[c]] = engine[list[c]]]
  /\ taken' = [taken EXCEPT ![list[c]] = engine[list[c]]]
  /\ UNCHANGED <<engine, shown, paused, item, adds, got, text, bounds, disk, last, mixed, sound,
                 intended, raced, stale>>

\* a list that another call is writing may be read as anything
Marshal(c) ==
  /\ Go(c, "marshal", "open")
  /\ \/ text' = [text EXCEPT ![c] = cfg]
     \/ \E d \in OtherSaves(c) :
          /\ at[d] = "copy"
          /\ \E torn \in SUBSET ItemsOf[list[d]] :
               text' = [text EXCEPT ![c] = [cfg EXCEPT ![list[d]] = torn]]
  /\ UNCHANGED <<engine, shown, paused, list, item, adds, got, bounds, saveVars,
                 intended, raced, stale>>

\* os.WriteFile truncates the file
Open(c) ==
  /\ Go(c, "open", "write")
  /\ disk' = File(NoRules, TRUE)
  /\ sound' = FALSE
  /\ UNCHANGED <<engine, shown, paused, list, item, adds, got, text, bounds, cfg, taken, last,
                 mixed, intended, raced, stale>>

\* over what another save has written since, if anything
Write(c) ==
  /\ Go(c, "write", "idle")
  /\ \/ disk' = File(text[c], TRUE)
     \/ disk # File(NoRules, TRUE) /\ disk' = File(text[c], FALSE)
  /\ text' = [text EXCEPT ![c] = NoRules]
  /\ last' = taken
  /\ sound' = ~mixed
  /\ UNCHANGED <<engine, shown, paused, list, item, adds, got, bounds, cfg, taken, mixed,
                 intended, raced, stale>>

\* the open or the write fails; the window says "Saved" all the same
WriteFails(c) ==
  /\ faults < MaxFaults
  /\ faults' = faults + 1
  /\ \/ Go(c, "open", "idle") /\ UNCHANGED disk
     \/ Go(c, "write", "idle") /\ disk' = File(text[c], FALSE)
  /\ text' = [text EXCEPT ![c] = NoRules]
  /\ UNCHANGED <<engine, shown, paused, list, item, adds, got, clicks, outside, starts, cfg, taken, last,
                 mixed, sound, intended, raced, stale>>

SaveStep(c) == Copy(c) \/ Marshal(c) \/ Open(c) \/ Write(c) \/ WriteFails(c)

-----------------------------------------------------------------------------
\* The program ends, or crashes, and is started again; of a file that is cut
\* it takes what is there, if it can be parsed at all.
Restart ==
  /\ starts < MaxStarts
  /\ starts' = starts + 1
  /\ \E lost \in IF disk.whole THEN {{}} ELSE SUBSET Items :
       cfg' = Load([l \in Saved |-> disk.rules[l] \ lost])
  /\ engine' = [l \in Lists |-> IF l \in Saved THEN cfg'[l] ELSE {}]
  /\ shown' = [l \in Lists |-> IF l \in Slow THEN {} ELSE engine'[l]]
  /\ paused' = FALSE
  /\ at' = [c \in Calls |-> IF c \in Slow THEN "fetch" ELSE "idle"]
  /\ list' = [c \in Calls |-> IF c \in Slow THEN c ELSE "dirs"]
  /\ got' = [c \in Calls |-> {}]
  /\ text' = [c \in Calls |-> NoRules]
  /\ intended' = engine'
  /\ raced' = FALSE
  /\ stale' = {}
  /\ UNCHANGED <<item, adds, clicks, outside, faults, disk, taken, last, mixed, sound>>

Next ==
  \/ \E c \in Clicks : ClickSave(c) \/ \E l \in Lists : \E x \in ItemsOf[l] : ClickEdit(c, l, x)
  \/ \E c \in Calls : Step(c) \/ SaveStep(c)
  \/ \E x \in ItemsOf["white"] : StoreAnswer(x)
  \/ TrayToggle
  \/ Restart

Spec == Init /\ [][Next]_vars

-----------------------------------------------------------------------------
(* Properties.                                                             *)

\* An edit of a list is never undone by another edit or an answer of a prompt
\* that runs at the same time, except for directories, and there only when two
\* edits overlap (app.go:124-139, policy.go:62-84).
EditsAreKept ==
  \A l \in Lists : engine[l] # intended[l] => l = "dirs" /\ raced

\* While no call on a list is under way, the window shows the list that is in
\* force, unless calls on it have overlapped, or a prompt or the tray has
\* changed it since it was last fetched (usePolicy.ts:34-110).
WindowTellsTruth ==
  \A l \in Lists \ stale :
    (\A c \in Calls : at[c] \in Editing => list[c] # l) => shown[l] = engine[l]

\* A start finds the rules that were in force when the last save copied them,
\* whatever was edited while it was saving, unless that save was not alone or
\* was cut off within its write (app.go:274-282, config.go:42-110).
RestartRestores ==
  [][starts' # starts /\ sound =>
       /\ \A l \in Saved \ {"dirs"} : engine'[l] = last[l]
       /\ engine'["dirs"] = {Expand[d] : d \in last["dirs"]}]_vars

=============================================================================
