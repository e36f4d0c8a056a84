--------------------------- MODULE MCPolicyWindow ---------------------------
(* Instance of PolicyWindow for TLC: a directory that may be typed in two *)
(* ways, a tag, two files. *)
EXTENDS PolicyWindow, TLC

MCItemsOf ==
  [l \in Lists |-> CASE l = "dirs" -> {"~/d", "/home/d"} [] l = "tags" -> {"t"}
                     [] l = "white" -> {"f", "g"} [] OTHER -> {"on"}]
MCExpand == [x \in {"~/d", "/home/d", "t", "f", "g", "on"} |-> IF x = "~/d" THEN "/home/d" ELSE x]

MCConfigured ==
  [l \in Lists \ {"paused"} |-> CASE l = "dirs" -> {"~/d"} [] l = "tags" -> {} [] OTHER -> {"f"}]

ClickSymmetry == Permutations(Clicks)

=============================================================================
