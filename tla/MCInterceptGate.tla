--------------------------- MODULE MCInterceptGate ---------------------------
(* Instances of InterceptGate for TLC. *)
EXTENDS InterceptGate, TLC

ConnSymmetry == Permutations(Conns)

\* one directory, pattern and term; f1 is inside the directory, f2 matches
\* the pattern
MCDirsOf == [f \in Files |-> IF f = "f1" THEN {"d1"} ELSE {}]
MCPatternsOf == [f \in Files |-> IF f = "f2" THEN {"p1"} ELSE {}]

NoRules == {}
DirConfig == {DirRule("d1")}
TagConfig == {TagRule("t1")}
KeywordConfig == {KeywordRule("t1")}
ListConfig == {KeywordRule("t1"), BlackRule("f2"), WhiteRule("f1")}
FullConfig ==
  {DirRule("d1"), PatternRule("p1"), KeywordRule("t1"), BlackRule("f1")}

MCConfigs == {DirConfig, TagConfig, ListConfig, FullConfig}
MCPromptConfigs == {KeywordConfig}

Request(fs, ts, s) == [files |-> fs, terms |-> ts, skip |-> s]

MCRequests ==
  {Request(fs, {"t1"}, FALSE) : fs \in {{"f1"}, {"f2"}, {"f1", "f2"}}}
    \cup {Request({"f1"}, {}, FALSE), Request({}, {"t1"}, FALSE),
          Request({"f2"}, {"t1"}, TRUE)}
MCPromptRequests == {Request({"f1"}, {"t1"}, FALSE), Request({"f1", "f2"}, {"t1"}, FALSE)}

=============================================================================
