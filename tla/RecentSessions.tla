--------------------------- MODULE RecentSessions ---------------------------
(***************************************************************************)
(* What the in-memory store of internal/audit/store.go promises: the last  *)
(* Capacity sessions that were logged, newest first, forgotten when the    *)
(* program restarts.                                                       *)
(***************************************************************************)
EXTENDS Naturals, SequencesExt

CONSTANTS
  Sessions,  \* audited sessions
  Capacity   \* how many are held

VARIABLE recent

Newest(n, seq) == SubSeq(seq, 1, Min({n, Len(seq)}))

Init == recent = <<>>

Log(s) == recent' = Newest(Capacity, <<s>> \o recent)

Forget == recent' = <<>>

Next == Forget \/ \E s \in Sessions : Log(s)

Spec == Init /\ [][Next]_recent

=============================================================================
