------------------------------ MODULE CAStore ------------------------------
(***************************************************************************)
(* The root CA's two files, and the processes that load or generate them:  *)
(* the start of the program, which announces a CA it finds missing         *)
(* (cmd/egressor/main.go:65-83), and --generate-ca, both over              *)
(* internal/ca/ca.go.  Nothing locks the files.  A process may crash       *)
(* anywhere, and a write may fail: os.WriteFile truncates before it        *)
(* writes, so that a file can be cut.                                      *)
(*                                                                         *)
(* A certificate and the key it was made with have the same number.  Of    *)
(* two writers to one file the later one wins.                             *)
(***************************************************************************)
EXTENDS Naturals

CONSTANTS
  Processes,        \* processes that may run at the same time
  MaxGenerations,   \* bound on the CAs ever generated
  MaxFaults         \* bound on the crashes and failing writes

ASSUME CAAssumption == MaxGenerations \in Nat /\ MaxFaults \in Nat

Absent == 0
Cut == MaxGenerations + 1
CAs == 1..MaxGenerations

VARIABLES
  cert,       \* the file at certPath
  key,        \* the file at keyPath
  at,         \* where each process is
  flagged,    \* its -generate-ca
  missing,    \* its caGenerated
  loaded,     \* the certificate it has generated or read
  signs,      \* the key of the authority it serves with
  last,       \* the number of CAs generated so far
  faults,     \* for the bound
  \* history, read by the properties only
  announced,  \* CAs whose setup instructions were printed
  damaged     \* a writer ended halfway, or did not have the files to itself

procVars == <<at, flagged, missing, loaded, signs>>
vars == <<cert, key, procVars, last, faults, announced, damaged>>

Writing == {"open_cert", "write_cert", "open_key", "write_key"}
Starting == {"ask_cert", "ask_key", "stat_cert", "stat_key", "generate",
             "read_cert", "read_key"} \cup Writing

TypeOK ==
  /\ cert \in CAs \cup {Absent, Cut}
  /\ key \in CAs \cup {Absent, Cut}
  /\ at \in [Processes -> Starting \cup {"stopped", "announce", "serving", "failed"}]
  /\ flagged \in [Processes -> BOOLEAN]
  /\ missing \in [Processes -> BOOLEAN]
  /\ loaded \in [Processes -> CAs \cup {Absent, Cut}]
  /\ signs \in [Processes -> CAs \cup {Absent, Cut}]
  /\ last \in 0..MaxGenerations
  /\ faults \in 0..MaxFaults
  /\ announced \subseteq CAs \cup {Absent, Cut}
  /\ damaged \in BOOLEAN

Init ==
  /\ cert = Absent
  /\ key = Absent
  /\ at = [p \in Processes |-> "stopped"]
  /\ flagged = [p \in Processes |-> FALSE]
  /\ missing = [p \in Processes |-> FALSE]
  /\ loaded = [p \in Processes |-> Absent]
  /\ signs = [p \in Processes |-> Absent]
  /\ last = 0
  /\ faults = 0
  /\ announced = {}
  /\ damaged = FALSE

Go(p, from, to) == at[p] = from /\ at' = [at EXCEPT ![p] = to]

\* somebody else is under way while a writer is
Disturbed ==
  \E p, q \in Processes : p # q /\ at'[p] \in Writing /\ at'[q] \in Starting

-----------------------------------------------------------------------------
(* main, up to the interceptor.                                            *)

Start(p) ==
  /\ at[p] \in {"stopped", "failed"}
  /\ \E g \in BOOLEAN :
       /\ at' = [at EXCEPT ![p] = IF g THEN "generate" ELSE "ask_cert"]
       /\ flagged' = [flagged EXCEPT ![p] = g]
  /\ missing' = [missing EXCEPT ![p] = FALSE]
  /\ loaded' = [loaded EXCEPT ![p] = Absent]
  /\ signs' = [signs EXCEPT ![p] = Absent]
  /\ damaged' = (damaged \/ Disturbed)
  /\ UNCHANGED <<cert, key, last, faults, announced>>

\* Mutant: caGenerated is computed after the CA has been loaded.
AskNothing(p) ==
  /\ Go(p, "ask_cert", "stat_cert")
  /\ UNCHANGED <<cert, key, flagged, missing, loaded, signs, last, faults, announced, damaged>>

\* caGenerated := !fileExists(CACert) || !fileExists(CAKey)
Ask(p) ==
  /\ \/ cert # Absent /\ Go(p, "ask_cert", "ask_key") /\ UNCHANGED missing
     \/ /\ Go(p, "ask_cert", "stat_cert") /\ cert = Absent
        /\ missing' = [missing EXCEPT ![p] = TRUE]
     \/ /\ Go(p, "ask_key", "stat_cert")
        /\ missing' = [missing EXCEPT ![p] = (key = Absent)]
  /\ UNCHANGED <<cert, key, flagged, loaded, signs, last, faults, announced, damaged>>

\* the instructions name the files, whatever they hold by now
Announce(p) ==
  /\ Go(p, "announce", IF flagged[p] THEN "stopped" ELSE "serving")
  /\ announced' = IF flagged[p] \/ missing[p] THEN announced \cup {loaded[p]} ELSE announced
  /\ UNCHANGED <<cert, key, flagged, missing, loaded, signs, last, faults, damaged>>

Stop(p) ==
  /\ Go(p, "serving", "stopped")
  /\ UNCHANGED <<cert, key, flagged, missing, loaded, signs, last, faults, announced, damaged>>

-----------------------------------------------------------------------------
(* LoadOrGenerate.                                                         *)

\* Mutant: what main found out is not looked up again.
StatAsAsked(p) ==
  /\ Go(p, "stat_cert", IF missing[p] THEN "generate" ELSE "read_cert")
  /\ UNCHANGED <<cert, key, flagged, missing, loaded, signs, last, faults, announced, damaged>>

\* Mutant: only the certificate is looked for.
StatCertOnly(p) ==
  /\ Go(p, "stat_cert", IF cert = Absent THEN "generate" ELSE "read_cert")
  /\ UNCHANGED <<cert, key, flagged, missing, loaded, signs, last, faults, announced, damaged>>

Stat(p) ==
  /\ \/ Go(p, "stat_cert", IF cert = Absent THEN "generate" ELSE "stat_key")
     \/ Go(p, "stat_key", IF key = Absent THEN "generate" ELSE "read_cert")
  /\ UNCHANGED <<cert, key, flagged, missing, loaded, signs, last, faults, announced, damaged>>

\* Mutant: a certificate and a key that do not belong together are taken.
LoadUnchecked(p) ==
  /\ \/ /\ at[p] = "read_cert"
        /\ loaded' = [loaded EXCEPT ![p] = cert]
        /\ UNCHANGED signs
        /\ at' = [at EXCEPT ![p] = "read_key"]
     \/ /\ at[p] = "read_key"
        /\ signs' = [signs EXCEPT ![p] = key]
        /\ UNCHANGED loaded
        /\ at' = [at EXCEPT ![p] = IF loaded[p] \in CAs /\ key \in CAs THEN "announce" ELSE "failed"]
  /\ UNCHANGED <<cert, key, flagged, missing, last, faults, announced, damaged>>

\* loadFromDisk: a file that is gone or cut does not decode, and X509KeyPair
\* refuses a key that is not the certificate's
Load(p) ==
  /\ \/ /\ at[p] = "read_cert"
        /\ loaded' = [loaded EXCEPT ![p] = cert]
        /\ UNCHANGED signs
        /\ at' = [at EXCEPT ![p] = IF cert = Absent THEN "failed" ELSE "read_key"]
     \/ /\ at[p] = "read_key"
        /\ signs' = [signs EXCEPT ![p] = key]
        /\ UNCHANGED loaded
        /\ at' = [at EXCEPT ![p] = IF loaded[p] \in CAs /\ key = loaded[p] THEN "announce" ELSE "failed"]
  /\ UNCHANGED <<cert, key, flagged, missing, last, faults, announced, damaged>>

Generate(p) ==
  /\ Go(p, "generate", "open_cert")
  /\ last < MaxGenerations
  /\ last' = last + 1
  /\ loaded' = [loaded EXCEPT ![p] = last + 1]
  /\ signs' = [signs EXCEPT ![p] = last + 1]
  /\ damaged' = (damaged \/ Disturbed)
  /\ UNCHANGED <<cert, key, flagged, missing, faults, announced>>

\* writeToDisk: os.WriteFile of the certificate, then of the key
WriteToDisk(p) ==
  /\ \/ Go(p, "open_cert", "write_cert") /\ cert' = Cut /\ UNCHANGED key
     \/ Go(p, "write_cert", "open_key") /\ cert' = loaded[p] /\ UNCHANGED key
     \/ Go(p, "open_key", "write_key") /\ key' = Cut /\ UNCHANGED cert
     \/ Go(p, "write_key", "announce") /\ key' = signs[p] /\ UNCHANGED cert
  /\ damaged' = (damaged \/ Disturbed)
  /\ UNCHANGED <<flagged, missing, loaded, signs, last, faults, announced>>

\* a writer that stops here leaves a pair that will not load, if both are there
Halfway(p) ==
  \/ at[p] \in {"write_cert", "open_key"} /\ key # Absent
  \/ at[p] = "write_key"

\* an open or a write fails, and with it the start
WriteFails(p) ==
  /\ faults < MaxFaults
  /\ faults' = faults + 1
  /\ at[p] \in Writing
  /\ at' = [at EXCEPT ![p] = "failed"]
  /\ damaged' = (damaged \/ Halfway(p))
  /\ UNCHANGED <<cert, key, flagged, missing, loaded, signs, last, announced>>

Crash(p) ==
  /\ faults < MaxFaults
  /\ faults' = faults + 1
  /\ at[p] \in Starting \cup {"announce"}
  /\ at' = [at EXCEPT ![p] = "stopped"]
  /\ damaged' = (damaged \/ Halfway(p))
  /\ UNCHANGED <<cert, key, flagged, missing, loaded, signs, last, announced>>

Main(p) == Ask(p) \/ Announce(p) \/ Stat(p) \/ Load(p) \/ Generate(p) \/ WriteToDisk(p)

Next == \E p \in Processes : Start(p) \/ Main(p) \/ Stop(p) \/ WriteFails(p) \/ Crash(p)

Spec == Init /\ [][Next]_vars

-----------------------------------------------------------------------------
(* Properties.                                                             *)

\* A process serves with a certificate and the key that belongs to it, whatever
\* crashes, failing writes and other processes have left in the two files
\* (ca.go:92-126).
ServesAPair == \A p \in Processes : at[p] = "serving" => loaded[p] = signs[p] /\ signs[p] \in CAs

\* both files are there, they belong together, and nobody is about to write
Settled ==
  /\ cert \in CAs /\ key = cert
  /\ \A p \in Processes : at[p] \notin Writing \cup {"generate"}

\* Once there is a CA the user can trust, no start replaces it, not even one
\* that had found the files missing before; only --generate-ca does
\* (ca.go:26-31, docs/components.md:73).
KeepsTheCA ==
  [][Settled =>
       \/ Settled' /\ cert' = cert
       \/ \E p \in Processes : flagged'[p] /\ at'[p] = "generate"]_vars

\* A start fails only if a writer has ended halfway through a pair, or did not
\* have the files to itself, or if it met a failing write itself: a missing
\* file is not a failure, nor is a crash before the key file was touched
\* (ca.go:26-31, 135-140).
FailsOnlyOnDamage ==
  \A p \in Processes : at[p] = "failed" /\ loaded[p] # signs[p] => damaged

\* A process serves with a CA whose setup instructions have been printed, or
\* are about to be by the process that made it, unless that one crashed
\* (main.go:65-83).
AnnouncedBeforeUse ==
  faults = 0 =>
    \A p \in Processes :
      at[p] = "serving" =>
        \/ loaded[p] \in announced
        \/ \E q \in Processes : at[q] = "announce" /\ loaded[q] = loaded[p]

=============================================================================
