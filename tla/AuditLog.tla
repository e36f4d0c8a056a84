------------------------------ MODULE AuditLog ------------------------------
(***************************************************************************)
(* The audit log file of internal/audit/logger.go: every session is one    *)
(* line appended to the file; when the file has reached maxSize it is      *)
(* renamed to a name that ends in the current Unix second, and a new one   *)
(* is opened.  Log holds l.mu to its end; a crash can fall between the     *)
(* write and the rotation.                                                 *)
(*                                                                         *)
(* A file is the sequence of its sessions, and its size the sum of the     *)
(* lengths of their lines.  A write, a rename or an open may fail,         *)
(* MaxFaults times.  A rotated file is named by its second alone: renaming *)
(* over an existing name replaces that file, as rename(2) does.            *)
(***************************************************************************)
EXTENDS Integers, FiniteSetsExt, SequencesExt

CONSTANTS
  LineSize,   \* the length of each session's line
  MaxSize,    \* l.maxSize
  MaxOld,     \* bound on the sessions earlier processes left in the file
  MaxTime,    \* bound on the clock, in seconds
  MaxFaults   \* bound on the failing system calls

ASSUME LogAssumption ==
  /\ (1 - MaxOld)..0 \subseteq DOMAIN LineSize
  /\ \A s \in DOMAIN LineSize : LineSize[s] \in Nat \ {0}
  /\ MaxSize \in Nat \ {0} /\ MaxOld \in Nat
  /\ MaxTime \in Nat /\ MaxFaults \in Nat

Seconds == 0..MaxTime

VARIABLES
  now,        \* time.Now().Unix()
  file,       \* the sessions in the file named l.file
  rotated,    \* the sessions in the rotated file of each second, if any
  writer,     \* l.writer: "file", "stdout", or "closed"
  size,       \* l.size
  rotating,   \* Log is at the call of l.rotate(), holding l.mu
  console,    \* the sessions that went to stdout
  faults,     \* number of failures so far, for the bound
  \* history, read by the properties only
  written,    \* the sessions that were written, in order
  turns,      \* the seconds there was a rotation in
  replaced,   \* sessions in files that a rotation of the same second replaced
  cut         \* number of crashes between a write and its rotation

logVars == <<now, file, rotated, writer, size, rotating, console, faults, written, turns, replaced, cut>>

\* the bytes of a file, line by line, and their number
Bytes(f) == UNION {{i} \X (1..LineSize[f[i]]) : i \in DOMAIN f}

FileSize(f) == Cardinality(Bytes(f))

\* sessions of earlier processes have the numbers up to 0; a crash that left a
\* full file is one of this history, see NewLogger
LogInit ==
  /\ now = 0
  /\ \E n \in 0..MaxOld : file = [i \in 1..n |-> i - n]
  /\ FileSize(file) < MaxSize
  /\ rotated = [t \in {} |-> <<>>]
  /\ writer = "file"
  /\ size = FileSize(file)
  /\ rotating = FALSE
  /\ console = <<>>
  /\ faults = 0
  /\ written = file
  /\ turns = {}
  /\ replaced = {}
  /\ cut = 0

Fail(n) == faults + n <= MaxFaults /\ faults' = faults + n

\* the write's error is not looked at, and its size counts all the same; a
\* Log after Close writes nothing either
Log(s) ==
  /\ ~rotating
  /\ \E ok \in BOOLEAN :
       LET wrote == ok /\ writer # "closed"
       IN  /\ Fail(IF ok THEN 0 ELSE 1)
           /\ file' = IF wrote /\ writer = "file" THEN Append(file, s) ELSE file
           /\ console' = IF wrote /\ writer = "stdout" THEN Append(console, s) ELSE console
           /\ written' = IF wrote THEN Append(written, s) ELSE written
  /\ size' = size + LineSize[s]
  /\ rotating' = (writer # "stdout" /\ size' >= MaxSize)
  /\ UNCHANGED <<now, rotated, writer, turns, replaced, cut>>

\* Mutant: the suffix is the time of the day; midnight is at 1.
SuffixOfDay == (now + MaxTime) % (MaxTime + 1)

Suffix == now

\* Mutant: the new file is opened with O_TRUNC.
ReopenTruncating(renamed) == <<>>

\* what os.OpenFile with O_CREATE and O_APPEND finds under the name l.file
Reopen(renamed) == IF renamed THEN <<>> ELSE file

\* a failed rename is logged, and the old file is opened again; a failed open
\* leaves stdout for good
Rotate ==
  /\ rotating
  /\ \E renamed, opened \in BOOLEAN :
       /\ Fail(Cardinality({x \in {"rename", "open"} :
                              (x = "rename" /\ ~renamed) \/ (x = "open" /\ ~opened)}))
       /\ rotated' = IF renamed
                     THEN [t \in DOMAIN rotated \cup {Suffix} |-> IF t = Suffix THEN file ELSE rotated[t]]
                     ELSE rotated
       /\ turns' = IF renamed THEN turns \cup {now} ELSE turns
       /\ replaced' = IF renamed /\ now \in turns THEN replaced \cup ToSet(rotated[Suffix])
                      ELSE replaced
       /\ file' = IF opened \/ renamed THEN Reopen(renamed) ELSE file
       /\ writer' = IF opened THEN "file" ELSE "stdout"
       /\ size' = IF opened THEN 0 ELSE size
  /\ rotating' = FALSE
  /\ UNCHANGED <<now, console, written, cut>>

\* the deferred Close of main, which does not take l.mu
Close ==
  /\ writer # "closed"
  /\ writer' = IF writer = "file" THEN "closed" ELSE writer
  /\ UNCHANGED <<now, file, rotated, size, rotating, console, faults, written, turns, replaced, cut>>

\* Mutant: the size of an existing file is not looked at.
NewLoggerFromZero ==
  /\ writer' = "file"
  /\ size' = 0
  /\ rotating' = FALSE
  /\ cut' = IF rotating THEN cut + 1 ELSE cut
  /\ UNCHANGED <<now, file, rotated, console, faults, written, turns, replaced>>

\* the program starts again, after its end or a crash
NewLogger ==
  /\ writer' = "file"
  /\ size' = FileSize(file)
  /\ rotating' = FALSE
  /\ cut' = IF rotating THEN cut + 1 ELSE cut
  /\ UNCHANGED <<now, file, rotated, console, faults, written, turns, replaced>>

Tick ==
  /\ now < MaxTime
  /\ now' = now + 1
  /\ UNCHANGED <<file, rotated, writer, size, rotating, console, faults, written, turns, replaced, cut>>

-----------------------------------------------------------------------------
(* Properties.                                                             *)

\* all log files, in the order of their names: the current one is the last
Files == [t \in DOMAIN rotated \cup {MaxTime + 1} |-> IF t \in DOMAIN rotated THEN rotated[t] ELSE file]

\* A session that was written is in a log file or went to stdout, through
\* rotations, failures, restarts and crashes, unless its file was replaced by
\* another rotation of the same second (logger.go:55-91).
WrittenIsKept ==
  ToSet(written) \subseteq (UNION {ToSet(Files[t]) : t \in DOMAIN Files}) \cup ToSet(console) \cup replaced

\* The files, read in the order of their names with the current one last, hold
\* sessions in the order they were written, none of them twice, whatever has
\* been lost (logger.go:66, 78-83).
FilesKeepOrder ==
  \A t, u \in DOMAIN Files : \A i \in DOMAIN Files[t], j \in DOMAIN Files[u] :
    /\ Files[t][i] \in ToSet(written)
    /\ t < u \/ (t = u /\ i < j) =>
         /\ Files[t][i] # Files[u][j]
         /\ \E k, l \in DOMAIN written :
              k < l /\ written[k] = Files[t][i] /\ written[l] = Files[u][j]

\* a file without its last n lines
AllBut(n, f) == SubSeq(f, 1, Len(f) - n)

\* Without failures a file stays below maxSize up to its last line, which may
\* exceed it by any length since the limit is compared after the write; each
\* crash between a write and its rotation lets one more line in
\* (logger.go:43-53, 66-71).
FilesAreBounded ==
  faults = 0 =>
    \A f \in {file} \cup {rotated[t] : t \in DOMAIN rotated} : FileSize(AllBut(1 + cut, f)) < MaxSize

=============================================================================
