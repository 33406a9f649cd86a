--------------------------- MODULE JobObjectProofs ---------------------------
(***************************************************************************)
(* On Windows the job object confines every process, whatever calls of the *)
(* Windows API fail; and on both families of platforms a call tells what   *)
(* became of its process.                                                  *)
(***************************************************************************)
EXTENDS JobObject, ToolExecProofs

LEMMA PlatformFixed ==
  ASSUME [PlatformNext]_platformVars
  PROVE  platform' = platform
BY DEF PlatformNext, UnixNext, WindowsNext, WindowsSteps, StartSuspended, CreateJobObject,
       SetJobResourceLimits, SetJobCpuRate, AssignToJob, ResumeProcess, Continue,
       Attempt, LeavesStray, ProcessEndsOnWindows, KillOnWindows, StrayEnds,
       HandleReturns, jobVars, platformVars

LEMMA UnixStep ==
  ASSUME platform = "unix", [PlatformNext]_platformVars
  PROVE  [ExecNext]_execVars /\ inForce' = inForce
BY DEF PlatformNext, UnixNext, LeavesStray, StrayEnds, platformVars, jobVars

-----------------------------------------------------------------------------
(* Windows.                                                                *)

ApiCalls == {"create", "limits", "rate", "assign", "resume"}

JobTypeOK ==
  /\ at \in [Starts -> Places]
  /\ process \in [Starts -> ProcessStates]
  /\ reaped \in [Starts -> BOOLEAN]
  /\ result \in [Starts -> Results]
  /\ next \in [Starts -> ApiCalls \cup {"start", "done"}]
  /\ inForce \in [Starts -> SUBSET ApiCalls]
  /\ stray \in [Starts -> BOOLEAN]

\* What a call has done so far, and what may therefore be left of it.
CallOrdered(p) ==
  /\ next[p] = "start" => process[p] = "none"
  /\ next[p] \in ApiCalls => Handling(p) /\ process[p] # "none"
  /\ process[p] = "none" => inForce[p] = {} /\ ~reaped[p]
  /\ process[p] = "running" => Handling(p) /\ ~reaped[p]
  /\ at[p] = "returned" \/ reaped[p] => next[p] = "done"
  /\ Executing(p) => next[p] = "done"
  /\ stray[p] => /\ Executing(p)
                 /\ Handling(p) \/ ~({"limits", "assign"} \subseteq inForce[p])

JobInv ==
  \/ platform = "unix" /\ \A p \in Starts : inForce[p] = {}
  \/ platform = "windows" /\ JobTypeOK /\ \A p \in Starts : CallOrdered(p)

LEMMA JobStart ==
  ASSUME PlatformInit
  PROVE  JobInv
BY DEF PlatformInit, Unstarted, RLimitInit, JobInv, JobTypeOK, CallOrdered, Places,
       ProcessStates, Results, ApiCalls, Executing, Handling

\* Of the calls other than p nothing changes that CallOrdered looks at.
OthersKept(p) ==
  \A q \in Starts \ {p} :
    /\ at'[q] = at[q] /\ process'[q] = process[q] /\ reaped'[q] = reaped[q]
    /\ result'[q] = result[q] /\ next'[q] = next[q]
    /\ inForce'[q] = inForce[q] /\ stray'[q] = stray[q]

LEMMA OthersOrdered ==
  ASSUME NEW p \in Starts, OthersKept(p), \A q \in Starts : CallOrdered(q),
         CallOrdered(p)'
  PROVE  \A q \in Starts : CallOrdered(q)'
<1>1. ASSUME NEW q \in Starts, q # p
      PROVE  CallOrdered(q)'
  BY <1>1 DEF OthersKept, CallOrdered, Handling, Executing
<1> QED
  BY <1>1

LEMMA StartKeepsJob ==
  ASSUME JobTypeOK, NEW p \in Starts, CallOrdered(p), StartSuspended(p)
  PROVE  JobTypeOK' /\ CallOrdered(p)' /\ OthersKept(p) /\ platform' = platform
<1>1. /\ Handling(p) /\ next[p] = "start" /\ at[p] = "called"
      /\ UNCHANGED <<reaped, result, inForce, stray, platform>>
      /\ \/ /\ process' = [process EXCEPT ![p] = "running"]
            /\ next' = [next EXCEPT ![p] = "create"]
            /\ at' = at
         \/ /\ process' = process
            /\ next' = [next EXCEPT ![p] = "done"]
            /\ at' = [at EXCEPT ![p] = "returned"]
  BY DEF StartSuspended
<1>2. JobTypeOK'
  BY <1>1 DEF JobTypeOK, Places, ProcessStates, ApiCalls
<1>3. OthersKept(p)
  BY <1>1 DEF JobTypeOK, OthersKept
<1>4. process[p] = "none" /\ inForce[p] = {} /\ ~reaped[p]
  BY <1>1 DEF CallOrdered
<1>5. CallOrdered(p)'
  BY <1>1, <1>4 DEF JobTypeOK, CallOrdered, Handling, Executing, ApiCalls
<1> QED
  BY <1>1, <1>2, <1>3, <1>5

LEMMA AttemptKeepsJob ==
  ASSUME JobTypeOK, NEW p \in Starts, CallOrdered(p), NEW call \in ApiCalls,
         Attempt(p, call),
         NEW then \in ApiCalls \cup {"done"}, next' = [next EXCEPT ![p] = then],
         IF call = "resume" THEN then = "done" /\ at' = [at EXCEPT ![p] = "returned"]
                            ELSE then # "done" /\ at' = at
  PROVE  JobTypeOK' /\ CallOrdered(p)' /\ OthersKept(p) /\ platform' = platform
<1>1. /\ inForce' = inForce \/ inForce' = [inForce EXCEPT ![p] = @ \cup {call}]
      /\ UNCHANGED <<process, reaped, result, stray, platform>>
      /\ next[p] = call
  BY DEF Attempt, runVars
<1>2. JobTypeOK'
  BY <1>1 DEF JobTypeOK, Places
<1>3. OthersKept(p)
  BY <1>1 DEF JobTypeOK, OthersKept
<1>4. CallOrdered(p)'
  BY <1>1 DEF JobTypeOK, CallOrdered, Handling, Executing, ApiCalls
<1> QED
  BY <1>1, <1>2, <1>3, <1>4

LEMMA ApiCallKeepsJob ==
  ASSUME JobTypeOK, NEW p \in Starts, CallOrdered(p),
         \/ CreateJobObject(p) \/ SetJobResourceLimits(p) \/ SetJobCpuRate(p)
         \/ AssignToJob(p) \/ ResumeProcess(p)
  PROVE  JobTypeOK' /\ CallOrdered(p)' /\ OthersKept(p) /\ platform' = platform
<1> USE DEF ApiCalls
<1>1. CASE CreateJobObject(p)
  <2>1. PICK then \in {"limits", "resume"} : next' = [next EXCEPT ![p] = then]
    BY <1>1 DEF CreateJobObject
  <2> QED
    BY <1>1, <2>1, AttemptKeepsJob DEF CreateJobObject
<1>2. CASE SetJobResourceLimits(p)
  BY <1>2, AttemptKeepsJob DEF SetJobResourceLimits, Continue
<1>3. CASE SetJobCpuRate(p)
  BY <1>3, AttemptKeepsJob DEF SetJobCpuRate, Continue
<1>4. CASE AssignToJob(p)
  BY <1>4, AttemptKeepsJob DEF AssignToJob, Continue
<1>5. CASE ResumeProcess(p)
  BY <1>5, AttemptKeepsJob DEF ResumeProcess
<1> QED
  BY <1>1, <1>2, <1>3, <1>4, <1>5

LEMMA EndKeepsJob ==
  ASSUME platform = "windows", JobTypeOK, NEW p \in Starts, CallOrdered(p),
         ProcessEndsOnWindows(p) \/ KillOnWindows(p) \/ StrayEnds(p)
  PROVE  JobTypeOK' /\ CallOrdered(p)' /\ OthersKept(p) /\ platform' = platform
<1>1. /\ UNCHANGED <<at, reaped, result, next, inForce, platform>>
      /\ \/ process' = process
         \/ /\ process[p] = "running"
            /\ \E status \in {"ok", "failed", "killed"} :
                 process' = [process EXCEPT ![p] = status]
      /\ \/ UNCHANGED stray \/ stray' = [stray EXCEPT ![p] = FALSE]
         \/ Executing(p) /\ process[p] = "running" /\ stray' = [stray EXCEPT ![p] = TRUE]
  BY DEF ProcessEndsOnWindows, KillOnWindows, StrayEnds, ProcessEnds, Ends, Kill,
         LeavesStray, rlimitVars, execVars, runVars, jobVars, JobTypeOK, CallOrdered
<1>2. JobTypeOK'
  BY <1>1 DEF JobTypeOK, ProcessStates
<1>3. OthersKept(p)
  BY <1>1 DEF JobTypeOK, OthersKept
<1>4. CallOrdered(p)'
  BY <1>1 DEF JobTypeOK, CallOrdered, Handling, Executing, ApiCalls
<1> QED
  BY <1>1, <1>2, <1>3, <1>4

\* The end of a call: refused, not started, reaped and answered.
LEMMA AnswerKeepsJob ==
  ASSUME JobTypeOK, NEW p \in Starts, CallOrdered(p),
         \/ /\ (next[p] = "start" /\ Refuse(p)) \/ StartFails(p) \/ Reap(p)
            /\ UNCHANGED jobVars
         \/ HandleReturns(p)
  PROVE  JobTypeOK' /\ CallOrdered(p)' /\ OthersKept(p) /\ platform' = platform
<1>1. CASE HandleReturns(p)
  <2>1. /\ UNCHANGED <<at, process, reaped, next, inForce, platform>>
        /\ reaped[p] /\ \E value \in Results : result' = [result EXCEPT ![p] = value]
        /\ stray' = [stray EXCEPT ![p] = @ /\ ~({"limits", "assign"} \subseteq inForce[p])]
    BY <1>1 DEF HandleReturns, WaitReturns, Return, Outcome, Results, rlimitVars
  <2>2. JobTypeOK' /\ OthersKept(p)
    BY <2>1 DEF JobTypeOK, OthersKept
  <2>3. CallOrdered(p)'
    BY <1>1, <2>1 DEF HandleReturns, WaitReturns, JobTypeOK, CallOrdered, Handling,
                      Executing, ApiCalls
  <2> QED
    BY <2>1, <2>2, <2>3
<1>2. CASE Reap(p) /\ UNCHANGED jobVars
  BY <1>2 DEF Reap, rlimitVars, jobVars, JobTypeOK, CallOrdered, OthersKept, Handling,
              Executing
<1>3. CASE /\ (next[p] = "start" /\ Refuse(p)) \/ StartFails(p)
           /\ UNCHANGED jobVars
  <2>1. /\ UNCHANGED <<at, process, reaped, jobVars>> /\ process[p] = "none"
        /\ \E value \in Results : result' = [result EXCEPT ![p] = value]
    BY <1>3 DEF Refuse, StartFails, Return, Results, rlimitVars, CallOrdered
  <2>2. JobTypeOK' /\ OthersKept(p)
    BY <2>1 DEF JobTypeOK, OthersKept, jobVars
  <2>3. CallOrdered(p)'
    BY <1>3, <2>1 DEF JobTypeOK, CallOrdered, Handling, Executing, ApiCalls, jobVars,
                      Refuse, StartFails
  <2> QED
    BY <2>1, <2>2, <2>3 DEF jobVars
<1> QED
  BY <1>1, <1>2, <1>3

LEMMA WindowsStepKeepsJob ==
  ASSUME platform = "windows", JobInv, WindowsNext
  PROVE  JobInv'
<1> USE DEF JobInv
<1>1. ASSUME NEW p \in Starts,
             /\ JobTypeOK' /\ CallOrdered(p)' /\ OthersKept(p)
             /\ platform' = platform
      PROVE  JobInv'
  BY <1>1, OthersOrdered
<1>2. CASE \/ AllHandled /\ UNCHANGED jobVars
           \/ \E p \in Starts : (DeadlinePasses(p) \/ DescendantsEnd(p)) /\ UNCHANGED jobVars
  BY <1>2 DEF AllHandled, execVars, runVars, DeadlinePasses, DescendantsEnd, rlimitVars,
              jobVars, JobTypeOK, CallOrdered, Handling, Executing
<1>3. ASSUME NEW p \in Starts,
             \/ next[p] = "start" /\ Refuse(p) /\ UNCHANGED jobVars
             \/ WindowsSteps(p)
             \/ ProcessEndsOnWindows(p) \/ StrayEnds(p)
      PROVE  JobInv'
  BY <1>1, <1>3, StartKeepsJob, ApiCallKeepsJob, EndKeepsJob, AnswerKeepsJob
  DEF WindowsSteps
<1> QED
  BY <1>2, <1>3 DEF WindowsNext

LEMMA JobStep ==
  ASSUME JobInv, [PlatformNext]_platformVars
  PROVE  JobInv'
<1>1. CASE platform = "unix"
  BY <1>1, UnixStep, PlatformFixed DEF JobInv
<1>2. CASE platform = "windows" /\ WindowsNext
  BY <1>2, WindowsStepKeepsJob
<1>3. CASE UNCHANGED platformVars
  BY <1>3 DEF platformVars, execVars, rlimitVars, runVars, jobVars, JobInv,
              JobTypeOK, CallOrdered, Handling, Executing
<1> QED
  BY <1>1, <1>2, <1>3 DEF PlatformNext, JobInv

(***************************************************************************)
(* On Windows no process executes before its job object is settled, and no *)
(* descendant outlives an answered call unless the job could not be set up *)
(* around it: for any number of calls, in any state they start from.       *)
(***************************************************************************)
THEOREM JobsConfine == PlatformSpec => []JobConfines
<1>1. PlatformInit => JobInv
  BY JobStart
<1>2. JobInv /\ [PlatformNext]_platformVars => JobInv'
  BY JobStep
<1>3. JobInv => JobConfines
  BY DEF JobInv, JobConfines, CallOrdered, Executing
<1> QED
  BY <1>1, <1>2, <1>3, PTL DEF PlatformSpec

-----------------------------------------------------------------------------
(* Both families of platforms.                                             *)

\* StartWithLimits on Windows takes no mutex and touches no limit of the server.
ServerUntouched ==
  /\ LimitsInv
  /\ rlimitMu = Nobody
  /\ at \in [Starts -> {"called", "returned"}]

\* NotForked does not hold on Windows: the process is there, suspended, before
\* StartWithLimits has returned.
PlatformInv ==
  /\ JobInv
  /\ platform = "unix" => ExecInv
  /\ platform = "windows" => ServerUntouched /\ AnswerInv

LEMMA PlatformStart ==
  ASSUME PlatformInit
  PROVE  PlatformInv
<1>1. CASE platform = "unix" /\ ExecInit
  BY <1>1, JobStart, ExecStart DEF PlatformInv
<1>2. CASE /\ platform = "windows" /\ Unstarted
           /\ result = [p \in Starts |-> IF p \in WindowsCalls THEN "none" ELSE "refused"]
  <2>1. ExecInv
    <3>1. result \in [Starts -> {"none", "refused"}]
      BY <1>2
    <3> QED
      BY <1>2, <3>1, UnstartedRight
  <2>2. rlimitMu = Nobody /\ at \in [Starts -> {"called", "returned"}]
    BY <1>2 DEF Unstarted, RLimitInit
  <2> QED
    BY <1>2, <2>1, <2>2, JobStart DEF PlatformInv, ServerUntouched, ExecInv, CallInv
<1> QED
  BY <1>1, <1>2 DEF PlatformInit

LEMMA UntouchedKept ==
  ASSUME ServerUntouched, UNCHANGED <<privileged, limit, rlimitMu, old, child>>,
         at' \in [Starts -> {"called", "returned"}]
  PROVE  ServerUntouched'
<1>1. /\ \A p \in Starts : at'[p] \in {"called", "returned"} /\ rlimitMu' # p
      /\ rlimitMu' = Nobody
  BY NobodyAssumption DEF ServerUntouched, Nobody
<1>2. RLimitTypeOK'
  BY DEF ServerUntouched, LimitsInv, RLimitTypeOK, Places
<1>3. MutexHeld' /\ LoweredInTime' /\ ExactInProgress'
  BY <1>1 DEF MutexHeld, LoweredInTime, ExactInProgress, InProgress
<1>4. /\ Ordered(limit)' /\ \A p \in Starts : Ordered(old[p])'
      /\ ChildNeverLooser' /\ ServerLimitsRestored' /\ ChildLimitsExact'
  BY DEF ServerUntouched, LimitsInv, Ordered, ChildNeverLooser, ServerLimitsRestored,
         ChildLimitsExact
<1> QED
  BY <1>1, <1>2, <1>3, <1>4 DEF ServerUntouched, LimitsInv

\* The steps of StartWithLimits on Windows.
LEMMA StartKeepsAnswers ==
  ASSUME ServerUntouched, AnswerInv, NEW p \in Starts, CallOrdered(p),
         \/ StartSuspended(p)
         \/ CreateJobObject(p) \/ SetJobResourceLimits(p) \/ SetJobCpuRate(p)
         \/ AssignToJob(p) \/ ResumeProcess(p)
  PROVE  ServerUntouched' /\ AnswerInv'
<1>1. /\ UNCHANGED <<privileged, limit, rlimitMu, old, child>>
      /\ UNCHANGED <<expired, cancelled, reaped, pipeHeld, result>>
      /\ at' = at \/ at' = [at EXCEPT ![p] = "returned"]
      /\ \/ process' = process
         \/ /\ Handling(p) /\ process[p] = "none"
            /\ process' = [process EXCEPT ![p] = "running"]
  BY DEF StartSuspended, CreateJobObject, SetJobResourceLimits, SetJobCpuRate, AssignToJob,
         ResumeProcess, Continue, Attempt, runVars, CallOrdered
<1>2. at' \in [Starts -> {"called", "returned"}]
  BY <1>1 DEF ServerUntouched
<1>3. ServerUntouched'
  BY <1>1, <1>2, UntouchedKept
<1>4. /\ \A q \in Starts : at[q] = "returned" => at'[q] = "returned"
      /\ \A q \in Starts :
           \/ process'[q] = process[q]
           \/ Handling(q) /\ process[q] = "none" /\ process'[q] = "running"
  BY <1>1 DEF ServerUntouched, AnswerInv, ExecTypeOK
<1>5. ExecTypeOK'
  BY <1>1, <1>3 DEF ServerUntouched, LimitsInv, AnswerInv, ExecTypeOK, ProcessStates
<1>6. LifeOrdered'
  BY <1>1, <1>2, <1>4 DEF AnswerInv, LifeOrdered, Handling
<1>7. OwnProcessReaped' /\ TimeoutsReported'
  BY <1>1, <1>4 DEF AnswerInv, LifeOrdered, OwnProcessReaped, TimeoutsReported, Handling
<1> QED
  BY <1>3, <1>5, <1>6, <1>7 DEF AnswerInv

LEMMA WindowsStepKeepsAnswers ==
  ASSUME ServerUntouched, AnswerInv, \A p \in Starts : CallOrdered(p), WindowsNext
  PROVE  ServerUntouched' /\ AnswerInv'
<1>1. CASE AllHandled /\ UNCHANGED jobVars
  <2>1. UNCHANGED <<rlimitVars, runVars>>
    BY <1>1 DEF AllHandled, execVars
  <2>2. ServerUntouched'
    BY <2>1, UntouchedKept DEF rlimitVars, ServerUntouched
  <2> QED
    BY <2>1, <2>2 DEF rlimitVars, runVars, AnswerInv, ExecTypeOK, RLimitTypeOK, LifeOrdered,
                      OwnProcessReaped, TimeoutsReported, Handling
<1>2. ASSUME NEW p \in Starts,
             \/ StartSuspended(p)
             \/ CreateJobObject(p) \/ SetJobResourceLimits(p) \/ SetJobCpuRate(p)
             \/ AssignToJob(p) \/ ResumeProcess(p)
      PROVE  ServerUntouched' /\ AnswerInv'
  BY <1>2, StartKeepsAnswers
<1>3. ASSUME NEW p \in Starts,
             \/ next[p] = "start" /\ Refuse(p)
             \/ StartFails(p) \/ WaitReturns(p)
             \/ ProcessEnds(p) \/ Kill(p)
             \/ DeadlinePasses(p) \/ Reap(p) \/ DescendantsEnd(p)
      PROVE  ServerUntouched' /\ AnswerInv'
  <2>1. ServerUntouched'
    <3>1. UNCHANGED rlimitVars
      BY <1>3 DEF Refuse, StartFails, WaitReturns, ProcessEnds, Kill, DeadlinePasses, Reap,
                  DescendantsEnd
    <3> QED
      BY <3>1, UntouchedKept DEF rlimitVars, ServerUntouched
  <2> SUFFICES AnswerInv'
    BY <2>1
  <2>2. CASE next[p] = "start" /\ Refuse(p)
    <3>1. process[p] = "none"
      BY <2>2 DEF CallOrdered
    <3> QED
      BY <2>2, <3>1, ReturnKeepsAnswers
  <2>3. CASE StartFails(p) \/ WaitReturns(p)
    <3>1. at[p] = "returned"
      BY <2>3 DEF StartFails, WaitReturns, AnswerInv, LifeOrdered
    <3>2. ~Refuse(p)
      BY <3>1 DEF Refuse
    <3> QED
      BY <2>3, <3>2, ReturnKeepsAnswers
  <2>4. CASE ProcessEnds(p) \/ Kill(p) \/ DeadlinePasses(p) \/ Reap(p) \/ DescendantsEnd(p)
    BY <2>4, EndKeepsAnswers, RestKeepsAnswers
  <2> QED
    BY <1>3, <2>2, <2>3, <2>4
<1>4. ASSUME NEW p \in Starts, StrayEnds(p)
      PROVE  ServerUntouched' /\ AnswerInv'
  <2>1. UNCHANGED <<rlimitVars, runVars>>
    BY <1>4 DEF StrayEnds, execVars
  <2>2. ServerUntouched'
    BY <2>1, UntouchedKept DEF rlimitVars, ServerUntouched
  <2> QED
    BY <2>1, <2>2 DEF rlimitVars, runVars, AnswerInv, ExecTypeOK, RLimitTypeOK, LifeOrdered,
                      OwnProcessReaped, TimeoutsReported, Handling
<1> QED
  BY <1>1, <1>2, <1>3, <1>4
  DEF WindowsNext, WindowsSteps, ProcessEndsOnWindows, KillOnWindows, HandleReturns

LEMMA PlatformStep ==
  ASSUME PlatformInv, [PlatformNext]_platformVars
  PROVE  PlatformInv'
<1>1. platform' = platform /\ JobInv'
  BY PlatformFixed, JobStep DEF PlatformInv
<1>2. CASE platform = "unix"
  BY <1>1, <1>2, UnixStep, ExecStep DEF PlatformInv
<1>3. CASE platform = "windows" /\ WindowsNext
  <2>1. \A p \in Starts : CallOrdered(p)
    BY <1>3 DEF PlatformInv, JobInv
  <2> QED
    BY <1>1, <1>3, <2>1, WindowsStepKeepsAnswers DEF PlatformInv
<1>4. CASE platform = "windows" /\ UNCHANGED platformVars
  <2>1. UNCHANGED <<rlimitVars, runVars>>
    BY <1>4 DEF platformVars, execVars
  <2>2. ServerUntouched'
    BY <1>4, <2>1, UntouchedKept DEF rlimitVars, ServerUntouched, PlatformInv
  <2>3. AnswerInv'
    BY <1>4, <2>1 DEF PlatformInv, rlimitVars, runVars, AnswerInv, ExecTypeOK, RLimitTypeOK,
                      LifeOrdered, OwnProcessReaped, TimeoutsReported, Handling
  <2> QED
    BY <1>1, <1>4, <2>2, <2>3 DEF PlatformInv
<1> QED
  BY <1>2, <1>3, <1>4 DEF PlatformInv, JobInv, PlatformNext

LEMMA PlatformInvariant == PlatformSpec => []PlatformInv
<1>1. PlatformInit => PlatformInv
  BY PlatformStart
<1>2. PlatformInv /\ [PlatformNext]_platformVars => PlatformInv'
  BY PlatformStep
<1> QED
  BY <1>1, <1>2, PTL DEF PlatformSpec

(***************************************************************************)
(* On both platforms a call is reported as timed out if the deadline       *)
(* killed its process, suspended or running, and not if it ended before.   *)
(***************************************************************************)
THEOREM TimeoutsToldAnywhere == PlatformSpec => []TimeoutsReported
<1>1. PlatformInv => TimeoutsReported
  BY DEF PlatformInv, JobInv, ExecInv, CallInv, AnswerInv
<1> QED
  BY <1>1, PlatformInvariant, PTL

(***************************************************************************)
(* On both platforms the limits of processes and of the server are as      *)
(* ToolExec has them; on Windows, because nothing touches them.            *)
(***************************************************************************)
THEOREM LimitsAnywhere ==
  PlatformSpec => [](/\ ExecTypeOK
                     /\ ChildNeverLooser /\ ChildLimitsExact /\ ServerLimitsRestored)
<1>1. PlatformInv => /\ ExecTypeOK
                     /\ ChildNeverLooser /\ ChildLimitsExact /\ ServerLimitsRestored
  BY DEF PlatformInv, JobInv, ExecInv, CallInv, AnswerInv, ServerUntouched, LimitsInv
<1> QED
  BY <1>1, PlatformInvariant, PTL

=============================================================================
