----------------------------- MODULE JobObject -----------------------------
(***************************************************************************)
(* Process tools on both families of platforms, and the descendants of     *)
(* their processes that have redirected their output.  On "unix" nothing   *)
(* ends these.  On "windows" StartWithLimits (rlimit_windows.go) starts the *)
(* process suspended, puts it into a job object that carries the limits,   *)
(* and resumes it; every error after the start is only logged.  Handle     *)
(* closes the job when it returns, which kills the members of the job if   *)
(* the flag KILL_ON_JOB_CLOSE could be set.                                *)
(***************************************************************************)
EXTENDS ToolExec

CONSTANT
  WindowsCalls  \* bound: the calls that are not refused beforehand on Windows

VARIABLES
  platform,   \* "unix" or "windows"
  next,       \* the system call that comes next in StartWithLimits
  inForce,    \* the calls of StartWithLimits that succeeded
  stray       \* a descendant that outlives the process, without its pipe

jobVars == <<platform, next, inForce, stray>>
platformVars == <<execVars, jobVars>>

\* The kernel of Windows has no rlimits and no privilege to raise them.
PlatformInit ==
  /\ \/ platform = "unix" /\ ExecInit
     \/ /\ platform = "windows" /\ Unstarted /\ ~privileged
        /\ result = [p \in Starts |-> IF p \in WindowsCalls THEN "none" ELSE "refused"]
  /\ next = [p \in Starts |-> "start"]
  /\ inForce = [p \in Starts |-> {}]
  /\ stray = [p \in Starts |-> FALSE]

-----------------------------------------------------------------------------
(* StartWithLimits, while at[p] is "called".                               *)

\* cmd.Start() with CREATE_SUSPENDED.
StartSuspended(p) ==
  /\ Handling(p) /\ at[p] = "called" /\ next[p] = "start"
  /\ \/ /\ ~expired[p]
        /\ process' = [process EXCEPT ![p] = "running"]
        /\ next' = [next EXCEPT ![p] = "create"]
        /\ UNCHANGED at
     \/ /\ at' = [at EXCEPT ![p] = "returned"]
        /\ next' = [next EXCEPT ![p] = "done"]
        /\ UNCHANGED process
  /\ UNCHANGED <<privileged, limit, rlimitMu, old, child, expired, cancelled,
                 reaped, pipeHeld, result, platform, inForce, stray>>

\* The call takes effect or fails; only a live process can be put into a job
\* or resumed.
Attempt(p, call) ==
  /\ next[p] = call
  /\ \/ UNCHANGED inForce
     \/ /\ call \in {"assign", "resume"} => process[p] = "running"
        /\ inForce' = [inForce EXCEPT ![p] = @ \cup {call}]
  /\ UNCHANGED <<runVars, privileged, limit, rlimitMu, old, child, platform, stray>>

\* Without a job, the process is only resumed.
CreateJobObject(p) ==
  /\ Attempt(p, "create")
  /\ next' = [next EXCEPT ![p] =
                IF "create" \in inForce'[p] THEN "limits" ELSE "resume"]
  /\ UNCHANGED at

Continue(p, call, then) ==
  /\ Attempt(p, call)
  /\ next' = [next EXCEPT ![p] = then]
  /\ UNCHANGED at

SetJobResourceLimits(p) == Continue(p, "limits", "rate")

\* Variant that resumes the process before it is in the job.
SetJobCpuRateAndResume(p) ==
  /\ next[p] = "rate"
  /\ process[p] = "running"
  /\ inForce' = [inForce EXCEPT ![p] = @ \cup {"rate", "resume"}]
  /\ next' = [next EXCEPT ![p] = "assign"]
  /\ UNCHANGED <<execVars, platform, stray>>

SetJobCpuRate(p) == Continue(p, "rate", "assign")

AssignToJob(p) == Continue(p, "assign", "resume")

ResumeProcess(p) ==
  /\ Attempt(p, "resume")
  /\ next' = [next EXCEPT ![p] = "done"]
  /\ at' = [at EXCEPT ![p] = "returned"]

-----------------------------------------------------------------------------
(* The rest of Handle, and the processes.                                  *)

Executing(p) == "resume" \in inForce[p]

\* What the process leaves behind when it ends.  One that has never run leaves
\* nothing.
LeavesStray(p) ==
  /\ stray' \in {stray, [stray EXCEPT ![p] = TRUE]}
  /\ platform = "windows" /\ ~Executing(p) => stray' = stray /\ pipeHeld' = pipeHeld
  /\ UNCHANGED <<platform, next, inForce>>

ProcessEndsOnWindows(p) == Executing(p) /\ ProcessEnds(p) /\ LeavesStray(p)

KillOnWindows(p) ==
  /\ Kill(p)
  /\ IF process' = process THEN UNCHANGED jobVars ELSE LeavesStray(p)

StrayEnds(p) ==
  /\ stray[p]
  /\ stray' = [stray EXCEPT ![p] = FALSE]
  /\ UNCHANGED <<execVars, platform, next, inForce>>

\* The deferred cleanup closes the job.
HandleReturns(p) ==
  /\ WaitReturns(p)
  /\ stray' = [stray EXCEPT ![p] = @ /\ ~({"limits", "assign"} \subseteq inForce[p])]
  /\ UNCHANGED <<platform, next, inForce>>

WindowsSteps(p) ==
  \/ StartSuspended(p)
  \/ CreateJobObject(p) \/ SetJobResourceLimits(p) \/ SetJobCpuRate(p)
  \/ AssignToJob(p) \/ ResumeProcess(p)
  \/ (StartFails(p) \/ Reap(p)) /\ UNCHANGED jobVars
  \/ KillOnWindows(p)
  \/ HandleReturns(p)

WindowsNext ==
  \/ \E p \in Starts :
       \/ next[p] = "start" /\ Refuse(p) /\ UNCHANGED jobVars
       \/ (DeadlinePasses(p) \/ DescendantsEnd(p)) /\ UNCHANGED jobVars
       \/ WindowsSteps(p)
       \/ ProcessEndsOnWindows(p) \/ StrayEnds(p)
  \/ AllHandled /\ UNCHANGED jobVars

Ended(p) == process[p] = "running" /\ process'[p] # "running"

\* Descendants live on for as long as they please, answered or not.
UnixNext ==
  \/ /\ ExecNext
     /\ UNCHANGED jobVars \/ \E p \in Starts : Ended(p) /\ LeavesStray(p)
  \/ \E p \in Starts : StrayEnds(p)

PlatformNext ==
  \/ platform = "unix" /\ UnixNext
  \/ platform = "windows" /\ WindowsNext

\* As in ToolExec: the goroutines of the server run.
PlatformSpec ==
  /\ PlatformInit /\ [][PlatformNext]_platformVars
  /\ \A p \in Starts :
       /\ WF_platformVars(platform = "unix" /\ ServerSteps(p) /\ UNCHANGED jobVars)
       /\ WF_platformVars(platform = "unix" /\ Kill(p) /\ UNCHANGED jobVars)
       /\ WF_platformVars(platform = "windows" /\ WindowsSteps(p))
       /\ WF_platformVars(platform = "windows" /\ KillOnWindows(p))

-----------------------------------------------------------------------------

(***************************************************************************)
(* rlimit_windows.go: the suspended start "eliminates the race between     *)
(* process start and limit application", and closing the job "also kills   *)
(* surviving child processes".  A process on Windows executes nothing      *)
(* before every call that confines it has succeeded or failed; and when    *)
(* its own call has been answered no descendant of it lives on, unless the *)
(* limits could not be set or it could not be put into the job.  On Unix   *)
(* nothing of the kind holds: a descendant may outlive the call.           *)
(***************************************************************************)
JobConfines ==
  \A p \in Starts :
    /\ Executing(p) => next[p] = "done"
    /\ platform = "windows" /\ stray[p] =>
         /\ Executing(p)
         /\ Handling(p) \/ ~({"limits", "assign"} \subseteq inForce[p])

=============================================================================
