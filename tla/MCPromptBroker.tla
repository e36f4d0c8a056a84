--------------------------- MODULE MCPromptBroker ---------------------------
(* Instance of PromptBroker for TLC: two prompts that share a file, one of *)
(* which may be clicked twice. *)
EXTENDS PromptBroker

MCFilesOf == [id \in Prompts |-> IF id = "p1" THEN {"f1", "f2"} ELSE {"f1"}]

MCHandlers == {<<"p1", 1>>, <<"p1", 2>>, <<"p2", 1>>}

=============================================================================
