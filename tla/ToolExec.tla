------------------------------ MODULE ToolExec ------------------------------
(***************************************************************************)
(* ExternalTool.Handle and TerminalTool.Handle of internal/tools: one      *)
(* process per call, started under rlimitMu (module RLimit) and stopped by *)
(* a context with a deadline.  os/exec is external: the deadline kills the *)
(* process alone, and cmd.Wait() returns when the process has been reaped  *)
(* and no process is left that holds the write end of its output pipe.     *)
(***************************************************************************)
EXTENDS RLimit

VARIABLES
  expired,    \* the deadline of the call's context has passed
  process,    \* what became of the process of each call
  cancelled,  \* the deadline found the process before it was reaped
  reaped,     \* Process.Wait() has returned
  pipeHeld,   \* a descendant that outlives the process holds its output pipe
  result      \* what Handle has returned

runVars == <<expired, process, cancelled, reaped, pipeHeld, result>>
execVars == <<rlimitVars, runVars>>

ProcessStates == {"none", "running", "ok", "failed", "killed"}
Results == {"none", "refused", "output", "error", "timeout"}

Unstarted ==
  /\ RLimitInit
  /\ expired = [p \in Starts |-> FALSE]
  /\ process = [p \in Starts |-> "none"]
  /\ cancelled = [p \in Starts |-> FALSE]
  /\ reaped = [p \in Starts |-> FALSE]
  /\ pipeHeld = [p \in Starts |-> FALSE]

ExecInit == Unstarted /\ result = [p \in Starts |-> "none"]

Handling(p) == result[p] = "none"

Return(p, value) == result' = [result EXCEPT ![p] = value]

-----------------------------------------------------------------------------
(* Up to the start of the process.                                         *)

\* The platform, the arguments, the sandbox or the allowlist is refused.
Refuse(p) ==
  /\ Handling(p) /\ at[p] = "called"
  /\ Return(p, "refused")
  /\ UNCHANGED <<rlimitVars, expired, process, cancelled, reaped, pipeHeld>>

\* The context is made before the start, so waiting for the mutex counts.
DeadlinePasses(p) ==
  /\ Handling(p) /\ ~expired[p]
  /\ expired' = [expired EXCEPT ![p] = TRUE]
  /\ UNCHANGED <<rlimitVars, process, cancelled, reaped, pipeHeld, result>>

Prepare(p) ==
  /\ Handling(p)
  /\ LockAndSave(p) \/ SetData(p) \/ SetCPU(p)
  /\ UNCHANGED runVars

\* cmd.Start() checks the context first.
Fork(p) ==
  /\ Start(p)
  /\ expired[p] => child' = child
  /\ process' = [process EXCEPT ![p] = IF child' = child THEN @ ELSE "running"]
  /\ UNCHANGED <<expired, cancelled, reaped, pipeHeld, result>>

\* Variant that keeps the mutex while the process runs.
RestoreAfterRun(p) ==
  /\ process[p] # "running"
  /\ RestoreData(p) \/ RestoreCPU(p)
  /\ UNCHANGED runVars

Restore(p) ==
  /\ RestoreData(p) \/ RestoreCPU(p)
  /\ UNCHANGED runVars

StartFails(p) ==
  /\ Handling(p) /\ at[p] = "returned" /\ process[p] = "none"
  /\ Return(p, "error")
  /\ UNCHANGED <<rlimitVars, expired, process, cancelled, reaped, pipeHeld>>

-----------------------------------------------------------------------------
(* The process, the goroutine that watches the context, and cmd.Wait().    *)

\* A process ends; what it has started may live on with its output pipe.
Ends(p, status) ==
  /\ process[p] = "running"
  /\ process' = [process EXCEPT ![p] = status]
  /\ \E held \in BOOLEAN : pipeHeld' = [pipeHeld EXCEPT ![p] = held]

ProcessEnds(p) ==
  /\ Ends(p, "ok") \/ Ends(p, "failed")
  /\ UNCHANGED <<rlimitVars, expired, cancelled, reaped, result>>

\* Variant that sends a signal which the process ignores.
KillIgnored(p) ==
  /\ expired[p] /\ process[p] # "none" /\ ~reaped[p]
  /\ UNCHANGED execVars

\* The signal is also accepted for a process that has ended and is not reaped.
Kill(p) ==
  /\ expired[p] /\ process[p] # "none" /\ ~reaped[p] /\ ~cancelled[p]
  /\ cancelled' = [cancelled EXCEPT ![p] = TRUE]
  /\ IF process[p] = "running" THEN Ends(p, "killed")
                               ELSE UNCHANGED <<process, pipeHeld>>
  /\ UNCHANGED <<rlimitVars, expired, reaped, result>>

Reap(p) ==
  /\ at[p] = "returned" /\ ~reaped[p]
  /\ process[p] \in {"ok", "failed", "killed"}
  /\ reaped' = [reaped EXCEPT ![p] = TRUE]
  /\ UNCHANGED <<rlimitVars, expired, process, cancelled, pipeHeld, result>>

DescendantsEnd(p) ==
  /\ pipeHeld[p]
  /\ pipeHeld' = [pipeHeld EXCEPT ![p] = FALSE]
  /\ UNCHANGED <<rlimitVars, expired, process, cancelled, reaped, result>>

\* The error of cmd.Wait(), if any.
WaitFails(p) == process[p] # "ok" \/ cancelled[p]

\* Variant that looks at the clock before it looks at the error.
OutcomeByClock(p) ==
  IF expired[p] THEN {"timeout"}
  ELSE IF WaitFails(p) THEN {"error"} ELSE {"output", "error"}

\* The output of a process that ended well may still be refused (image data).
Outcome(p) ==
  IF ~WaitFails(p) THEN {"output", "error"}
  ELSE IF expired[p] THEN {"timeout"} ELSE {"error"}

WaitReturns(p) ==
  /\ Handling(p) /\ reaped[p] /\ ~pipeHeld[p]
  /\ \E value \in Outcome(p) : Return(p, value)
  /\ UNCHANGED <<rlimitVars, expired, process, cancelled, reaped, pipeHeld>>

ServerSteps(p) ==
  \/ Prepare(p) \/ Fork(p) \/ Restore(p)
  \/ StartFails(p) \/ Kill(p) \/ Reap(p) \/ WaitReturns(p)

AllHandled ==
  /\ \A p \in Starts : ~Handling(p) /\ ~pipeHeld[p]
  /\ UNCHANGED execVars

ExecNext ==
  \/ \E p \in Starts :
       \/ Refuse(p) \/ DeadlinePasses(p) \/ ServerSteps(p)
       \/ ProcessEnds(p) \/ DescendantsEnd(p)
  \/ AllHandled

\* The goroutines of the server run.  Nothing is assumed of the processes, nor
\* of deadlines: a timeout may be as long as the manifest says.
ExecFairness ==
  \A p \in Starts : WF_execVars(ServerSteps(p)) /\ WF_execVars(Kill(p))

ExecSpec == ExecInit /\ [][ExecNext]_execVars /\ ExecFairness

-----------------------------------------------------------------------------

ExecTypeOK ==
  /\ RLimitTypeOK
  /\ expired \in [Starts -> BOOLEAN]
  /\ process \in [Starts -> ProcessStates]
  /\ cancelled \in [Starts -> BOOLEAN]
  /\ reaped \in [Starts -> BOOLEAN]
  /\ pipeHeld \in [Starts -> BOOLEAN]
  /\ result \in [Starts -> Results]

(***************************************************************************)
(* A process killed at its deadline is always reported as a timeout, and   *)
(* one that ended well before the deadline could reach it never is, even   *)
(* when the deadline passes while Handle still waits for its output.       *)
(***************************************************************************)
TimeoutsReported ==
  \A p \in Starts :
    /\ process[p] = "killed" /\ ~Handling(p) => result[p] = "timeout"
    /\ process[p] = "ok" /\ ~cancelled[p] => result[p] # "timeout"

(***************************************************************************)
(* rlimit_unix.go: "The lock is held only for the fork; actual execution   *)
(* runs concurrently after Start returns".  A call that is not refused     *)
(* gets past StartWithLimits although every other process may run for ever *)
(* without a deadline that passes.                                         *)
(***************************************************************************)
StartsNotHeldUp ==
  \A p \in Starts : (at[p] = "called") ~> (at[p] = "returned" \/ ~Handling(p))

(***************************************************************************)
(* The process itself never runs on after the deadline of its call, not    *)
(* even when the deadline passes between its fork and cmd.Wait() or the    *)
(* process could never be resumed: it is killed, and reaped, whatever its  *)
(* descendants do.                                                         *)
(***************************************************************************)
DeadlineStopsProcess ==
  \A p \in Starts : (expired[p] /\ process[p] = "running") ~> reaped[p]

(***************************************************************************)
(* README.md: "Execution timeout: Prevent runaway scripts".  A call whose  *)
(* deadline has passed is answered.                                        *)
(***************************************************************************)
TimeoutEnforced ==
  \A p \in Starts : expired[p] ~> ~Handling(p)

=============================================================================
