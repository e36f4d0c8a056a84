---------------------------- MODULE MCAuditTrail ----------------------------
(* Instances of AuditTrail for TLC. *)
EXTENDS AuditTrail

\* session 0 is an old one; lines of 2 go beyond a MaxSize of 3, lines of 1
\* and 2 reach it exactly
Lines == [s \in 0..3 |-> IF s \in {1, 2} THEN 2 ELSE 1]

=============================================================================
