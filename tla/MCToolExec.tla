----------------------------- MODULE MCToolExec -----------------------------
(* Instances of ToolExec and JobObject for TLC. *)
EXTENDS JobObject

\* A strict tool and the defaults, whose shares of the timeout are less than a
\* second, and a generous one.
MCConfig ==
  [p \in {"strict", "default", "generous"} |->
     CASE p = "strict"   -> [memory |-> 64, cpu |-> 50, timeout |-> 1]
       [] p = "default"  -> [memory |-> -1, cpu |-> 0, timeout |-> 1]
       [] p = "generous" -> [memory |-> 1024, cpu |-> 200, timeout |-> 60]]

TwoStarts == {"default", "generous"}
TwoConfigs == [p \in TwoStarts |-> MCConfig[p]]

\* On Windows calls share nothing.
OneStart == {"default"}

ThreeStarts == DOMAIN MCConfig

\* The generous tool is granted more than the soft limit of the server.
MCInitLimit ==
  [res \in {"data", "cpu"} |->
     IF res = "data" THEN [soft |-> 800, hard |-> 4096]
                     ELSE [soft |-> 3600, hard |-> 3600]]

=============================================================================
