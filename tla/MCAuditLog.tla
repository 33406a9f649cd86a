----------------------------- MODULE MCAuditLog -----------------------------
(* Instances of AuditLog and DashboardLogs for TLC. *)
EXTENDS DashboardLogs

\* Two calls in almost every second; the line of call 5 is written before that
\* of call 6, which took its time first.
MCSecond == [n \in 1..MaxCalls |-> IF n = 6 THEN 1 ELSE n \div 2]

=============================================================================
