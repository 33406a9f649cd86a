-------------------------- MODULE StdioServerProofs --------------------------
(***************************************************************************)
(* Proofs about StdioServer, for every set of requests (infinite ones      *)
(* included) and every capacity of the semaphore.                          *)
(*                                                                         *)
(* The transport first: its goroutines make only steps of ToolCall, so     *)
(* what ToolCallProofs shows of the processor holds here.  CountInv is     *)
(* about the two WaitGroups; OrderInv, which rests on it, follows the main *)
(* goroutine and the one that waits for inflightTools.                     *)
(***************************************************************************)
EXTENDS StdioServer, ToolCallProofs

-----------------------------------------------------------------------------
(* The transport and the request processor.                                *)

LEMMA StdioStepOfCall ==
  ASSUME [StdioNext]_allVars
  PROVE  [CallNext]_callVars
<1> USE DEF CallNext, ServerStep, ToolEnds
<1>1. ASSUME NEW r \in Requests, Process(r)
      PROVE  CallNext
  BY <1>1 DEF Process
<1>2. ASSUME NEW r \in Requests, ProcessRecord(r)
      PROVE  CallNext
  BY <1>2 DEF ProcessRecord
<1>3. ASSUME NEW r \in Requests, Scan(r) \/ (Goroutine(r) /\ ~Process(r) /\ ~ProcessRecord(r))
      PROVE  UNCHANGED callVars
  BY <1>3 DEF Scan, Goroutine, Discard, BeginProcess, Respond, InflightDone, RequestDone
<1>4. ASSUME ScanFails \/ Signal \/ Waiter
      PROVE  UNCHANGED callVars
  BY <1>4 DEF ScanFails, Signal, Waiter, WaiterEnters, WaiterReturns, WaiterPanics
<1>5. ASSUME Main
      PROVE  UNCHANGED callVars
  BY <1>5 DEF Main, SignalReceived, StdioDone, DrainDone, DrainExpires, AwaitInflight,
              InflightDrained, InflightExpires, CloseAudit, Exit
<1>6. ASSUME Terminated \/ UNCHANGED allVars
      PROVE  UNCHANGED callVars
  BY <1>6 DEF Terminated, allVars
<1> QED
  BY <1>1, <1>2, <1>3, <1>4, <1>5, <1>6 DEF StdioNext

(***************************************************************************)
(* Requests that come over stdio are processed as ToolCall says, whatever  *)
(* the reader, the signals and the shutdown do meanwhile.                  *)
(***************************************************************************)
THEOREM StdioCallsAreCalls == StdioSafetySpec => CallSafetySpec
<1>1. StdioInit => CallInit
  BY DEF StdioInit
<1>2. [StdioNext]_allVars => [CallNext]_callVars
  BY StdioStepOfCall
<1> QED
  BY <1>1, <1>2, PTL DEF StdioSafetySpec, CallSafetySpec

(***************************************************************************)
(* So slots are conserved, the audit log and the metrics agree with the    *)
(* answers, and the processor is the abstract pool, up to the exit.        *)
(***************************************************************************)
THEOREM StdioKeepsBooks ==
  StdioSafetySpec => /\ []SlotsConserved /\ []AuditAgreesWithAnswer /\ []MetricsMatchAudit
                     /\ ImplementsPool
BY StdioCallsAreCalls, SlotsSafe, AuditAgrees, MetricsAgree, PoolRefined

-----------------------------------------------------------------------------
(* The WaitGroups.                                                         *)

\* The goroutines in one of the given stages.
InStage(S) == {r \in Requests : gor[r] \in S}

\* WaitGroupsExact with the finiteness that Cardinality needs: only finitely
\* many lines have been read, however many there may be.
CountInv ==
  /\ StdioTypeOK
  /\ IsFiniteSet(InStage(InRequestWg)) /\ IsFiniteSet(InStage(InInflightTools))
  /\ requestWg = Cardinality(InStage(InRequestWg))
  /\ inflightTools = Cardinality(InStage(InInflightTools))

LEMMA StageEntered ==
  ASSUME gor \in [Requests -> Stages], NEW S, IsFiniteSet(InStage(S)),
         NEW r \in Requests, NEW st \in S, gor[r] \notin S,
         gor' = [gor EXCEPT ![r] = st]
  PROVE  IsFiniteSet(InStage(S)') /\ Cardinality(InStage(S)') = Cardinality(InStage(S)) + 1
<1>1. InStage(S)' = InStage(S) \cup {r}
  BY DEF InStage
<1>2. r \notin InStage(S)
  BY DEF InStage
<1> QED
  BY <1>1, <1>2, FS_AddElement

LEMMA StageLeft ==
  ASSUME gor \in [Requests -> Stages], NEW S, IsFiniteSet(InStage(S)),
         NEW r \in Requests, NEW st, st \notin S, gor[r] \in S,
         gor' = [gor EXCEPT ![r] = st]
  PROVE  /\ IsFiniteSet(InStage(S)') /\ Cardinality(InStage(S)') = Cardinality(InStage(S)) - 1
         /\ Cardinality(InStage(S)) \in Nat \ {0}
<1>1. InStage(S)' = InStage(S) \ {r}
  BY DEF InStage
<1>2. r \in InStage(S)
  BY DEF InStage
<1>3. Cardinality(InStage(S)) \in Nat /\ Cardinality(InStage(S)) # 0
  BY <1>2, FS_CardinalityType, FS_EmptySet
<1> QED
  BY <1>1, <1>2, <1>3, FS_RemoveElement

LEMMA StageKept ==
  ASSUME gor \in [Requests -> Stages], NEW S, NEW r \in Requests, NEW st,
         gor[r] \in S <=> st \in S,
         gor' = [gor EXCEPT ![r] = st]
  PROVE  InStage(S)' = InStage(S)
BY DEF InStage

\* A step that neither moves a goroutine nor touches a counter.
LEMMA CountUntouched ==
  ASSUME CountInv, UNCHANGED <<gor, requestWg, inflightTools>>, StdioTypeOK'
  PROVE  CountInv'
<1>1. InStage(InRequestWg)' = InStage(InRequestWg)
      /\ InStage(InInflightTools)' = InStage(InInflightTools)
  BY DEF InStage
<1> QED
  BY <1>1 DEF CountInv

LEMMA GoroutineKeepsCount ==
  ASSUME CountInv, NEW r \in Requests, Scan(r) \/ Goroutine(r)
  PROVE  CountInv'
<1> USE DEF InRequestWg, InInflightTools
<1>0. /\ StdioTypeOK
      /\ gor \in [Requests -> Stages]
      /\ IsFiniteSet(InStage(InRequestWg)) /\ IsFiniteSet(InStage(InInflightTools))
      /\ requestWg = Cardinality(InStage(InRequestWg))
      /\ inflightTools = Cardinality(InStage(InInflightTools))
      /\ requestWg \in Nat /\ inflightTools \in Nat
  BY DEF CountInv, StdioTypeOK
<1>1. CASE Scan(r)
  <2>1. gor' = [gor EXCEPT ![r] = "spawned"] /\ gor[r] = "unread"
    BY <1>1 DEF Scan
  <2>2. /\ IsFiniteSet(InStage(InRequestWg)')
        /\ Cardinality(InStage(InRequestWg)') = Cardinality(InStage(InRequestWg)) + 1
    BY <1>0, <2>1, StageEntered
  <2>3. InStage(InInflightTools)' = InStage(InInflightTools)
    BY <1>0, <2>1, StageKept
  <2>4. StdioTypeOK'
    BY <1>0, <1>1 DEF Scan, StdioTypeOK, Stages, inputVars, mainVars
  <2> QED
    BY <1>0, <1>1, <2>2, <2>3, <2>4 DEF CountInv, Scan
<1>2. CASE Discard(r)
  <2>1. gor' = [gor EXCEPT ![r] = "leaving"] /\ gor[r] = "spawned"
    BY <1>2 DEF Discard
  <2>2. InStage(InRequestWg)' = InStage(InRequestWg)
        /\ InStage(InInflightTools)' = InStage(InInflightTools)
    BY <1>0, <2>1, StageKept
  <2>3. StdioTypeOK'
    BY <1>0, <1>2 DEF Discard, StdioTypeOK, Stages, inputVars, wgVars, mainVars
  <2> QED
    BY <1>0, <1>2, <2>2, <2>3 DEF CountInv, Discard, wgVars
<1>3. CASE BeginProcess(r)
  <2>1. gor' = [gor EXCEPT ![r] = "processing"] /\ gor[r] = "spawned"
    BY <1>3 DEF BeginProcess
  <2>2. /\ IsFiniteSet(InStage(InInflightTools)')
        /\ Cardinality(InStage(InInflightTools)') = Cardinality(InStage(InInflightTools)) + 1
    BY <1>0, <2>1, StageEntered
  <2>3. InStage(InRequestWg)' = InStage(InRequestWg)
    BY <1>0, <2>1, StageKept
  <2>4. StdioTypeOK'
    BY <1>0, <1>3 DEF BeginProcess, StdioTypeOK, Stages, inputVars, mainVars
  <2> QED
    BY <1>0, <1>3, <2>2, <2>3, <2>4 DEF CountInv, BeginProcess
<1>4. CASE Process(r) \/ ProcessRecord(r)
  <2>1. UNCHANGED <<gor, requestWg, inflightTools>>
    BY <1>4 DEF Process, ProcessRecord, wgVars
  <2>2. UNCHANGED <<gor, inputVars, wgVars, main, cause, expired, atWait>>
        /\ auditOpen' \in BOOLEAN
    BY <1>0, <1>4 DEF Process, ProcessRecord, StdioTypeOK, mainVars
  <2>3. StdioTypeOK'
    BY <1>0, <2>2 DEF StdioTypeOK, inputVars, wgVars
  <2> QED
    BY <2>1, <2>3, CountUntouched
<1>5. CASE Respond(r)
  <2>1. gor' = [gor EXCEPT ![r] = "responded"] /\ gor[r] = "processing"
    BY <1>5 DEF Respond
  <2>2. InStage(InRequestWg)' = InStage(InRequestWg)
        /\ InStage(InInflightTools)' = InStage(InInflightTools)
    BY <1>0, <2>1, StageKept
  <2>3. StdioTypeOK'
    BY <1>0, <1>5 DEF Respond, StdioTypeOK, Stages, inputVars, wgVars, mainVars
  <2> QED
    BY <1>0, <1>5, <2>2, <2>3 DEF CountInv, Respond, wgVars
<1>6. CASE InflightDone(r)
  <2>1. gor' = [gor EXCEPT ![r] = "leaving"] /\ gor[r] = "responded"
    BY <1>6 DEF InflightDone
  <2>2. /\ IsFiniteSet(InStage(InInflightTools)')
        /\ Cardinality(InStage(InInflightTools)') = Cardinality(InStage(InInflightTools)) - 1
        /\ Cardinality(InStage(InInflightTools)) \in Nat \ {0}
    BY <1>0, <2>1, StageLeft
  <2>3. InStage(InRequestWg)' = InStage(InRequestWg)
    BY <1>0, <2>1, StageKept
  <2>4. StdioTypeOK'
    BY <1>0, <1>6, <2>2
    DEF InflightDone, WakenedBy, StdioTypeOK, Stages, inputVars, mainVars
  <2> QED
    BY <1>0, <1>6, <2>2, <2>3, <2>4 DEF CountInv, InflightDone
<1>7. CASE RequestDone(r)
  <2>1. gor' = [gor EXCEPT ![r] = "finished"] /\ gor[r] = "leaving"
    BY <1>7 DEF RequestDone
  <2>2. /\ IsFiniteSet(InStage(InRequestWg)')
        /\ Cardinality(InStage(InRequestWg)') = Cardinality(InStage(InRequestWg)) - 1
        /\ Cardinality(InStage(InRequestWg)) \in Nat \ {0}
    BY <1>0, <2>1, StageLeft
  <2>3. InStage(InInflightTools)' = InStage(InInflightTools)
    BY <1>0, <2>1, StageKept
  <2>4. StdioTypeOK'
    BY <1>0, <1>7, <2>2 DEF RequestDone, StdioTypeOK, Stages, inputVars, mainVars
  <2> QED
    BY <1>0, <1>7, <2>2, <2>3, <2>4 DEF CountInv, RequestDone
<1> QED
  BY <1>1, <1>2, <1>3, <1>4, <1>5, <1>6, <1>7 DEF Goroutine

LEMMA WaitGroupsStep ==
  ASSUME CountInv, [StdioNext]_allVars
  PROVE  CountInv'
<1>0. StdioTypeOK
  BY DEF CountInv
<1>1. ASSUME NEW r \in Requests, Scan(r) \/ Goroutine(r)
      PROVE  CountInv'
  BY <1>1, GoroutineKeepsCount
<1>2. ASSUME ScanFails \/ Signal
      PROVE  UNCHANGED <<gor, requestWg, inflightTools>> /\ StdioTypeOK'
  BY <1>0, <1>2 DEF ScanFails, Signal, StdioTypeOK, wgVars, mainVars
<1>5. ASSUME Waiter
      PROVE  UNCHANGED <<gor, requestWg, inflightTools>> /\ StdioTypeOK'
  BY <1>0, <1>5
  DEF Waiter, WaiterEnters, WaiterReturns, WaiterPanics, StdioTypeOK, inputVars, wgVars,
      mainVars
<1>3. ASSUME Main
      PROVE  UNCHANGED <<gor, requestWg, inflightTools>> /\ StdioTypeOK'
  BY <1>0, <1>3
  DEF Main, SignalReceived, StdioDone, DrainDone, DrainExpires, AwaitInflight,
      InflightDrained, InflightExpires, CloseAudit, Exit, StdioTypeOK, inputVars, wgVars
<1>4. ASSUME Terminated \/ UNCHANGED allVars
      PROVE  UNCHANGED <<gor, requestWg, inflightTools>> /\ StdioTypeOK'
  BY <1>0, <1>4 DEF Terminated, allVars, StdioTypeOK, inputVars, wgVars, mainVars
<1> QED
  BY <1>1, <1>2, <1>3, <1>4, <1>5, CountUntouched DEF StdioNext

LEMMA CountInitially ==
  ASSUME StdioInit
  PROVE  CountInv
<1>1. InStage(InRequestWg) = {} /\ InStage(InInflightTools) = {}
  BY DEF StdioInit, InStage, InRequestWg, InInflightTools
<1> QED
  BY <1>1, FS_EmptySet DEF StdioInit, CountInv, StdioTypeOK, Stages

LEMMA CountAlways == StdioSafetySpec => []CountInv
<1>1. StdioInit => CountInv
  BY CountInitially
<1>2. CountInv /\ [StdioNext]_allVars => CountInv'
  BY WaitGroupsStep
<1> QED
  BY <1>1, <1>2, PTL DEF StdioSafetySpec

(***************************************************************************)
(* The variables keep their types: in particular neither WaitGroup goes    *)
(* below zero, which would be a panic of the runtime.                      *)
(***************************************************************************)
THEOREM StdioTypeCorrect == StdioSafetySpec => []StdioTypeOK
<1>1. CountInv => StdioTypeOK
  BY DEF CountInv
<1> QED
  BY <1>1, CountAlways, PTL

(***************************************************************************)
(* Each WaitGroup counts the goroutines between its Add and its Done, on   *)
(* every path through the goroutine of a line.                             *)
(***************************************************************************)
THEOREM WaitGroupsCount == StdioSafetySpec => []WaitGroupsExact
<1>1. CountInv => WaitGroupsExact
  BY DEF CountInv, WaitGroupsExact, InStage
<1> QED
  BY <1>1, CountAlways, PTL

-----------------------------------------------------------------------------
(* The shutdown.                                                           *)

\* A call is under way only while the goroutine of its line is in ProcessRequest.
CallsSettled ==
  \A r \in Requests : gor[r] # "processing" => pc[r] \in {"idle", "answered"}

\* The end of input: no line is read any more, and once requestWg has been
\* waited for no goroutine is left, nor can a new one come up.
StdinDrained ==
  /\ main = "serving" <=> cause = "none"
  /\ main = "drain" => cause = "stdin"
  /\ cause = "stdin" => reader = "closed"
  /\ cause = "stdin" /\ main # "drain" /\ ~expired =>
       \A r \in Requests : gor[r] \in {"unread", "finished"}
  /\ main = "crashed" => cause = "signal" \/ expired
  /\ main \in {"returning", "exited"} /\ cause = "stdin" /\ ~expired => ~auditOpen

\* What inflightTools.Wait() has waited for by the time it is woken.
InflightAwaited ==
  /\ waiter = "off" <=> main \in {"serving", "drain", "shutdown"}
  /\ main \in {"closing", "returning", "exited"} /\ ~expired => waiter = "done"
  /\ \A r \in Requests :
       atWait[r] \in InInflightTools =>
         /\ gor[r] \notin {"unread", "spawned"}
         /\ waiter \in {"woken", "done"} => gor[r] \in {"leaving", "finished"}

OrderInv == CallsSettled /\ StdinDrained /\ InflightAwaited

\* Nobody is in the stages that a WaitGroup counts when its counter is zero.
LEMMA ZeroMeansNobody ==
  ASSUME CountInv
  PROVE  /\ requestWg = 0 => \A r \in Requests : gor[r] \in {"unread", "finished"}
         /\ inflightTools = 0 => \A r \in Requests : gor[r] \notin InInflightTools
         /\ (\A r \in Requests : gor[r] \notin InInflightTools) => inflightTools = 0
<1>1. requestWg = 0 => InStage(InRequestWg) = {}
  BY FS_EmptySet DEF CountInv
<1>2. inflightTools = 0 <=> InStage(InInflightTools) = {}
  BY FS_EmptySet DEF CountInv
<1> QED
  BY <1>1, <1>2 DEF CountInv, StdioTypeOK, InStage, InRequestWg, Stages

LEMMA GoroutineKeepsOrder ==
  ASSUME CallTypeOK, CountInv, CountInv', OrderInv, NEW r \in Requests,
         Scan(r) \/ Goroutine(r)
  PROVE  OrderInv'
<1> USE DEF InInflightTools
<1>0. CallTypeOK /\ StdioTypeOK /\ OrderInv
  BY DEF CountInv
<1>1. ASSUME NEW from, NEW st, gor[r] = from, gor' = [gor EXCEPT ![r] = st],
             UNCHANGED <<callVars, mainVars>>,
             \/ from = "unread" /\ st = "spawned" /\ reader = "scanning"
             \/ from = "spawned" /\ st \in {"leaving", "processing"}
             \/ from = "processing" /\ st = "responded" /\ pc[r] = "answered"
             \/ from = "responded" /\ st = "leaving"
             \/ from = "leaving" /\ st = "finished",
             UNCHANGED reader,
             \/ UNCHANGED waiter
             \/ waiter = "parked" /\ waiter' = "woken"
                /\ \A q \in Requests : gor'[q] \notin InInflightTools
      PROVE  OrderInv'
  <2>1. CallsSettled'
    BY <1>0, <1>1 DEF OrderInv, CallsSettled, StdioTypeOK, callVars
  <2>2. StdinDrained'
    BY <1>0, <1>1 DEF OrderInv, StdinDrained, StdioTypeOK, mainVars
  <2>3. InflightAwaited'
    BY <1>0, <1>1 DEF OrderInv, InflightAwaited, StdioTypeOK, Stages, mainVars
  <2> QED
    BY <2>1, <2>2, <2>3 DEF OrderInv
<1>2. CASE Scan(r)
  BY <1>1, <1>2 DEF Scan, inputVars
<1>3. CASE Discard(r)
  BY <1>1, <1>3 DEF Discard, inputVars, wgVars
<1>4. CASE BeginProcess(r)
  BY <1>1, <1>4 DEF BeginProcess, inputVars
<1>5. CASE Process(r) \/ ProcessRecord(r)
  <2>1. /\ gor[r] = "processing" /\ Alive
        /\ UNCHANGED <<gor, reader, waiter, main, cause, expired, atWait>>
        /\ UNCHANGED auditOpen \/ ProcessRecord(r)
    BY <1>5 DEF Process, ProcessRecord, inputVars, wgVars, mainVars
  <2>2. \A q \in Requests \ {r} : pc'[q] = pc[q]
    BY <1>0, <1>5
    DEF CallTypeOK, Process, ProcessRecord, ProcessRequest, AnswerAtOnce, CallTool, ToolEnds,
        HandleReturns, HandlePanics, Acquire, RejectBusy, Record, OnToolCall, ReturnResult
  <2>3. CallsSettled'
    BY <1>0, <2>1, <2>2 DEF OrderInv, CallsSettled
  <2>4. StdinDrained'
    BY <1>0, <2>1 DEF OrderInv, StdinDrained
  <2>5. InflightAwaited'
    BY <1>0, <2>1 DEF OrderInv, InflightAwaited
  <2> QED
    BY <2>3, <2>4, <2>5 DEF OrderInv
<1>6. CASE Respond(r)
  BY <1>1, <1>6 DEF Respond, inputVars, wgVars
<1>7. CASE InflightDone(r)
  <2>1. inflightTools' = 0 => \A q \in Requests : gor'[q] \notin InInflightTools
    <3>1. inflightTools' = 0 => InStage(InInflightTools)' = {}
      BY FS_EmptySet DEF CountInv
    <3> QED
      BY <3>1 DEF InStage
  <2> QED
    BY <1>1, <1>7, <2>1 DEF InflightDone, WakenedBy, inputVars
<1>8. CASE RequestDone(r)
  BY <1>1, <1>8 DEF RequestDone, inputVars
<1> QED
  BY <1>2, <1>3, <1>4, <1>5, <1>6, <1>7, <1>8 DEF Goroutine

LEMMA WaiterKeepsOrder ==
  ASSUME CountInv, OrderInv, Waiter
  PROVE  OrderInv'
<1>1. UNCHANGED <<callVars, gor, reader, cause, expired, auditOpen, atWait>>
  BY DEF Waiter, WaiterEnters, WaiterReturns, WaiterPanics, inputVars, mainVars
<1>2. CallsSettled'
  BY <1>1 DEF OrderInv, CallsSettled, callVars
<1>3. CASE WaiterEnters \/ WaiterReturns
  <2>1. /\ UNCHANGED main /\ waiter # "off" /\ waiter' # "off"
        /\ waiter' = "done" => inflightTools = 0
        /\ waiter' # "woken" /\ waiter # "done"
    BY <1>3 DEF WaiterEnters, WaiterReturns, mainVars
  <2>2. StdinDrained'
    BY <1>1, <2>1 DEF OrderInv, StdinDrained
  <2>3. InflightAwaited'
    BY <1>1, <2>1, ZeroMeansNobody
    DEF OrderInv, InflightAwaited, CountInv, StdioTypeOK, Stages, InInflightTools
  <2> QED
    BY <1>2, <2>2, <2>3 DEF OrderInv
<1>4. CASE WaiterPanics
  <2>1. /\ main' = "crashed" /\ UNCHANGED waiter /\ waiter = "woken"
        /\ inflightTools # 0
    BY <1>4 DEF WaiterPanics, wgVars
  <2>2. cause \in {"stdin", "signal"} /\ main # "drain"
    BY <2>1 DEF OrderInv, StdinDrained, InflightAwaited, CountInv, StdioTypeOK
  <2>3. cause = "stdin" => expired
    BY <2>1, <2>2, ZeroMeansNobody DEF OrderInv, StdinDrained, InInflightTools
  <2>4. StdinDrained'
    BY <1>1, <2>1, <2>2, <2>3 DEF OrderInv, StdinDrained
  <2>5. InflightAwaited'
    BY <1>1, <2>1 DEF OrderInv, InflightAwaited
  <2> QED
    BY <1>2, <2>4, <2>5 DEF OrderInv
<1> QED
  BY <1>3, <1>4 DEF Waiter

LEMMA MainKeepsOrder ==
  ASSUME CountInv, OrderInv, Main
  PROVE  OrderInv'
<1> USE DEF OrderInv, StdinDrained, InflightAwaited, inputVars, wgVars
<1>0. StdioTypeOK
  BY DEF CountInv
<1>1. UNCHANGED <<callVars, gor, reader>>
  BY DEF Main, SignalReceived, StdioDone, DrainDone, DrainExpires, AwaitInflight,
         InflightDrained, InflightExpires, CloseAudit, Exit
<1>2. CallsSettled'
  BY <1>1 DEF CallsSettled, callVars
<1>3. CASE SignalReceived
  BY <1>1, <1>2, <1>3 DEF SignalReceived
<1>4. CASE StdioDone
  BY <1>1, <1>2, <1>4 DEF StdioDone
<1>5. CASE DrainDone
  BY <1>1, <1>2, <1>5, ZeroMeansNobody DEF DrainDone
<1>6. CASE DrainExpires
  BY <1>1, <1>2, <1>6 DEF DrainExpires
<1>7. CASE AwaitInflight
  BY <1>1, <1>2, <1>7 DEF AwaitInflight, InInflightTools
<1>8. CASE InflightDrained
  BY <1>1, <1>2, <1>8 DEF InflightDrained
<1>9. CASE InflightExpires
  BY <1>1, <1>2, <1>9 DEF InflightExpires
<1>10. CASE CloseAudit
  BY <1>1, <1>2, <1>10 DEF CloseAudit
<1>11. CASE Exit
  BY <1>1, <1>2, <1>11 DEF Exit
<1> QED
  BY <1>3, <1>4, <1>5, <1>6, <1>7, <1>8, <1>9, <1>10, <1>11 DEF Main

LEMMA OrderStep ==
  ASSUME CallTypeOK, CountInv, CountInv', OrderInv, [StdioNext]_allVars
  PROVE  OrderInv'
<1>1. ASSUME NEW r \in Requests, Scan(r) \/ Goroutine(r)
      PROVE  OrderInv'
  BY <1>1, GoroutineKeepsOrder
<1>2. ASSUME ScanFails \/ Signal \/ Terminated \/ UNCHANGED allVars
      PROVE  OrderInv'
  <2>1. /\ UNCHANGED <<callVars, gor, waiter, mainVars>>
        /\ UNCHANGED reader \/ reader' = "closed"
    BY <1>2 DEF ScanFails, Signal, Terminated, allVars, inputVars, wgVars
  <2> QED
    BY <2>1 DEF OrderInv, CallsSettled, StdinDrained, InflightAwaited, callVars, mainVars
<1> QED
  BY <1>1, <1>2, WaiterKeepsOrder, MainKeepsOrder DEF StdioNext

LEMMA OrderAlways == StdioSafetySpec => [](CountInv /\ OrderInv)
<1>1. StdioInit => OrderInv
  BY DEF StdioInit, CallInit, OrderInv, CallsSettled, StdinDrained, InflightAwaited,
         InInflightTools
<1>2. CallTypeOK /\ CountInv /\ CountInv' /\ OrderInv /\ [StdioNext]_allVars => OrderInv'
  BY OrderStep
<1> QED
  BY <1>1, <1>2, CountAlways, StdioCallsAreCalls, TypeCorrect, PTL DEF StdioSafetySpec

(***************************************************************************)
(* End of input loses nothing: unless the grace period runs out, every     *)
(* line that was read is answered or discarded, and the audit log is       *)
(* closed behind the last call.                                            *)
(***************************************************************************)
THEOREM StdinLosesNothing == StdioSafetySpec => []ClosingStdinLosesNothing
<1>1. OrderInv => ClosingStdinLosesNothing
  BY DEF OrderInv, CallsSettled, StdinDrained, ClosingStdinLosesNothing
<1> QED
  BY <1>1, OrderAlways, PTL

(***************************************************************************)
(* Whatever the reader adds to inflightTools during the shutdown, each     *)
(* call that it counted when main began to wait has been answered at the   *)
(* exit, unless the grace period ran out.                                  *)
(***************************************************************************)
THEOREM CountedAwaited == StdioSafetySpec => []ShutdownWaitsForCounted
<1>1. OrderInv => ShutdownWaitsForCounted
  BY DEF OrderInv, InflightAwaited, ShutdownWaitsForCounted
<1> QED
  BY <1>1, OrderAlways, PTL

(***************************************************************************)
(* The panic of a reused WaitGroup cannot follow the orderly end of input. *)
(***************************************************************************)
THEOREM OrderlyEndNeverCrashes == StdioSafetySpec => []CrashNeedsSignalOrExpiry
<1>1. OrderInv => CrashNeedsSignalOrExpiry
  BY DEF OrderInv, StdinDrained, CrashNeedsSignalOrExpiry
<1> QED
  BY <1>1, OrderAlways, PTL

=============================================================================
