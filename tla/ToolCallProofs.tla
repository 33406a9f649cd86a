--------------------------- MODULE ToolCallProofs ---------------------------
(***************************************************************************)
(* Proofs about ToolCall, for every set of requests (infinite ones         *)
(* included) and every capacity of the semaphore.                          *)
(*                                                                         *)
(* Two inductive invariants carry them.  SlotsInv is SlotsConserved with   *)
(* the finiteness of Holders, which Cardinality needs and which follows    *)
(* from no assumption on Requests: it is the channel that bounds them.     *)
(* BooksInv follows a call through audit.Record and OnToolCall.            *)
(***************************************************************************)
EXTENDS ToolCall, FiniteSetTheorems, TLAPS

SlotsInv ==
  /\ CallTypeOK
  /\ IsFiniteSet(Holders)
  /\ SlotsConserved

\* The line in the audit log, if there is one, fits the result of the tool.
LineFits(r) ==
  \/ result[r] = "ok" /\ audit[r] \in {"success", "lost"}
  \/ result[r] = "isError" /\ audit[r] \in {"failure", "lost"}

\* Nothing is recorded before Record; from then on the line fits the result.
AuditFollowsCall ==
  \A r \in Requests :
    /\ pc[r] \in {"idle", "queued", "running", "record"} => audit[r] = "none"
    /\ pc[r] = "record" => result[r] \in ToolResults
    /\ pc[r] \in {"metric", "return"} => LineFits(r)
    /\ pc[r] = "answered" =>
         \/ LineFits(r)
         \/ result[r] \notin ToolResults /\ audit[r] = "none"

BooksInv ==
  /\ CallTypeOK
  /\ AuditFollowsCall
  /\ IsFiniteSet(Counted)
  /\ MetricsMatchAudit

-----------------------------------------------------------------------------
(* Type correctness.                                                       *)

\* The only arithmetic that could leave Nat is the decrement of the
\* semaphore, which a holder makes: hence SlotsInv rather than CallTypeOK.
LEMMA HolderMakesPositive ==
  ASSUME SlotsInv, NEW r \in Requests, pc[r] \in Holding
  PROVE  semaphore - 1 \in Nat
<1>1. r \in Holders
  BY DEF Holders
<1>2. Cardinality(Holders) # 0
  BY <1>1, FS_EmptySet DEF SlotsInv
<1> QED
  BY <1>2 DEF SlotsInv, SlotsConserved, CallTypeOK

LEMMA TypeStep ==
  ASSUME SlotsInv, [CallNext]_callVars
  PROVE  CallTypeOK'
<1> USE DEF CallTypeOK, Locations, Results, ToolResults, AuditStates
<1>0. CallTypeOK
  BY DEF SlotsInv
<1>1. ASSUME NEW r \in Requests, ProcessRequest(r)
      PROVE  CallTypeOK'
  BY <1>0, <1>1 DEF ProcessRequest, AnswerAtOnce, CallTool
<1>2. ASSUME NEW r \in Requests, HandleReturns(r)
      PROVE  CallTypeOK'
  BY <1>0, <1>2 DEF HandleReturns
<1>3. ASSUME NEW r \in Requests, HandlePanics(r)
      PROVE  CallTypeOK'
  <2>1. semaphore - 1 \in Nat
    BY <1>3, HolderMakesPositive DEF HandlePanics, Holding
  <2> QED
    BY <1>0, <1>3, <2>1 DEF HandlePanics
<1>4. ASSUME NEW r \in Requests, Acquire(r)
      PROVE  CallTypeOK'
  BY <1>0, <1>4 DEF Acquire
<1>5. ASSUME NEW r \in Requests, RejectBusy(r)
      PROVE  CallTypeOK'
  BY <1>0, <1>5 DEF RejectBusy
<1>6. ASSUME NEW r \in Requests, Record(r)
      PROVE  CallTypeOK'
  BY <1>0, <1>6 DEF Record
<1>7. ASSUME NEW r \in Requests, OnToolCall(r)
      PROVE  CallTypeOK'
  BY <1>0, <1>7 DEF OnToolCall
<1>8. ASSUME NEW r \in Requests, ReturnResult(r)
      PROVE  CallTypeOK'
  <2>1. semaphore - 1 \in Nat
    BY <1>8, HolderMakesPositive DEF ReturnResult, Holding
  <2> QED
    BY <1>0, <1>8, <2>1 DEF ReturnResult
<1>9. CASE UNCHANGED callVars
  BY <1>0, <1>9 DEF callVars
<1> QED
  BY <1>1, <1>2, <1>3, <1>4, <1>5, <1>6, <1>7, <1>8, <1>9
  DEF CallNext, ToolEnds, ServerStep, AllAnswered

-----------------------------------------------------------------------------
(* The semaphore.                                                          *)

\* A step that leaves the semaphore alone and moves no goroutine in or out
\* of the part of HandleToolCall that holds a slot.
LEMMA SlotsUntouched ==
  ASSUME SlotsInv, UNCHANGED semaphore,
         \A q \in Requests : pc'[q] \in Holding <=> pc[q] \in Holding
  PROVE  IsFiniteSet(Holders)' /\ SlotsConserved'
<1>1. Holders' = Holders
  BY DEF Holders
<1> QED
  BY <1>1 DEF SlotsInv, SlotsConserved

LEMMA SlotReleased ==
  ASSUME SlotsInv, NEW r \in Requests, pc[r] \in Holding,
         pc' = [pc EXCEPT ![r] = "answered"], semaphore' = semaphore - 1
  PROVE  IsFiniteSet(Holders)' /\ SlotsConserved'
<1>1. r \in Holders
  BY DEF Holders
<1>2. Holders' = Holders \ {r}
  BY DEF Holders, Holding, SlotsInv, CallTypeOK
<1>3. IsFiniteSet(Holders') /\ Cardinality(Holders') = Cardinality(Holders) - 1
  BY <1>1, <1>2, FS_RemoveElement DEF SlotsInv
<1> QED
  BY <1>3, SemaphoreSizeAssumption DEF SlotsInv, SlotsConserved, CallTypeOK

LEMMA SlotTaken ==
  ASSUME SlotsInv, NEW r \in Requests, Acquire(r)
  PROVE  IsFiniteSet(Holders)' /\ SlotsConserved'
<1>1. r \notin Holders
  BY DEF Holders, Acquire, Holding
<1>2. Holders' = Holders \cup {r}
  BY DEF Holders, Holding, Acquire, SlotsInv, CallTypeOK
<1>3. IsFiniteSet(Holders') /\ Cardinality(Holders') = Cardinality(Holders) + 1
  BY <1>1, <1>2, FS_AddElement DEF SlotsInv
<1> QED
  BY <1>3, SemaphoreSizeAssumption
  DEF SlotsInv, SlotsConserved, CallTypeOK, Acquire

LEMMA SlotsStep ==
  ASSUME SlotsInv, [CallNext]_callVars
  PROVE  SlotsInv'
<1>1. CallTypeOK'
  BY TypeStep
<1>2. ASSUME NEW r \in Requests,
             \/ ProcessRequest(r) \/ HandleReturns(r) \/ RejectBusy(r)
             \/ Record(r) \/ OnToolCall(r)
      PROVE  IsFiniteSet(Holders)' /\ SlotsConserved'
  <2>1. UNCHANGED semaphore
    BY <1>2 DEF ProcessRequest, AnswerAtOnce, CallTool, HandleReturns,
                RejectBusy, Record, OnToolCall
  <2>2. \A q \in Requests : pc'[q] \in Holding <=> pc[q] \in Holding
    BY <1>2 DEF SlotsInv, CallTypeOK, Holding, ProcessRequest, AnswerAtOnce,
                CallTool, HandleReturns, RejectBusy, Record, OnToolCall
  <2> QED
    BY <2>1, <2>2, SlotsUntouched
<1>3. ASSUME NEW r \in Requests, HandlePanics(r) \/ ReturnResult(r)
      PROVE  IsFiniteSet(Holders)' /\ SlotsConserved'
  BY <1>3, SlotReleased DEF HandlePanics, ReturnResult, Holding
<1>4. ASSUME NEW r \in Requests, Acquire(r)
      PROVE  IsFiniteSet(Holders)' /\ SlotsConserved'
  BY <1>4, SlotTaken
<1>5. ASSUME UNCHANGED callVars
      PROVE  IsFiniteSet(Holders)' /\ SlotsConserved'
  BY <1>5, SlotsUntouched DEF callVars
<1>6. IsFiniteSet(Holders)' /\ SlotsConserved'
  BY <1>2, <1>3, <1>4, <1>5
  DEF CallNext, ToolEnds, ServerStep, AllAnswered
<1> QED
  BY <1>1, <1>6 DEF SlotsInv

LEMMA SlotsInitially ==
  ASSUME CallInit
  PROVE  SlotsInv
<1>1. CallTypeOK
  BY DEF CallInit, CallTypeOK, Locations, Results, AuditStates
<1>2. Holders = {}
  BY DEF CallInit, Holders, Holding
<1> QED
  BY <1>1, <1>2, FS_EmptySet, SemaphoreSizeAssumption
  DEF CallInit, SlotsInv, SlotsConserved

LEMMA SlotsAlways == CallSafetySpec => []SlotsInv
<1>1. CallInit => SlotsInv
  BY SlotsInitially
<1>2. SlotsInv /\ [CallNext]_callVars => SlotsInv'
  BY SlotsStep
<1> QED
  BY <1>1, <1>2, PTL DEF CallSafetySpec

\* Every variable keeps its type; in particular the count of elements in the
\* channel Semaphore never goes below zero, i.e. no deferred receive blocks.
THEOREM TypeCorrect == CallSafetySpec => []CallTypeOK
<1>1. SlotsInv => CallTypeOK
  BY DEF SlotsInv
<1> QED
  BY <1>1, SlotsAlways, PTL

\* The slots of HandleToolCall are neither leaked nor given back twice, on
\* any path, and at most JIG_MAX_CONCURRENT_TOOLS goroutines hold one.
THEOREM SlotsSafe == CallSafetySpec => []SlotsConserved
<1>1. SlotsInv => SlotsConserved
  BY DEF SlotsInv
<1> QED
  BY <1>1, SlotsAlways, PTL

-----------------------------------------------------------------------------
(* The audit log and the dashboard's counter.                              *)

LEMMA AuditStep ==
  ASSUME CallTypeOK, AuditFollowsCall, [CallNext]_callVars
  PROVE  AuditFollowsCall'
<1> USE DEF CallTypeOK, AuditFollowsCall, LineFits, ToolResults
<1>1. ASSUME NEW r \in Requests, AnswerAtOnce(r)
      PROVE  AuditFollowsCall'
  BY <1>1 DEF AnswerAtOnce
<1>2. ASSUME NEW r \in Requests, CallTool(r) \/ Acquire(r)
      PROVE  AuditFollowsCall'
  BY <1>2 DEF CallTool, Acquire
<1>3. ASSUME NEW r \in Requests, RejectBusy(r) \/ HandlePanics(r)
      PROVE  AuditFollowsCall'
  BY <1>3 DEF RejectBusy, HandlePanics
<1>4. ASSUME NEW r \in Requests, HandleReturns(r)
      PROVE  AuditFollowsCall'
  BY <1>4 DEF HandleReturns
<1>5. ASSUME NEW r \in Requests, Record(r)
      PROVE  AuditFollowsCall'
  BY <1>5 DEF Record
<1>6. ASSUME NEW r \in Requests, OnToolCall(r) \/ ReturnResult(r)
      PROVE  AuditFollowsCall'
  BY <1>6 DEF OnToolCall, ReturnResult
<1>7. CASE UNCHANGED callVars
  BY <1>7 DEF callVars
<1> QED
  BY <1>1, <1>2, <1>3, <1>4, <1>5, <1>6, <1>7
  DEF CallNext, ProcessRequest, ToolEnds, ServerStep, AllAnswered

LEMMA CountStep ==
  ASSUME SlotsInv, BooksInv, [CallNext]_callVars
  PROVE  IsFiniteSet(Counted)' /\ MetricsMatchAudit'
<1> USE DEF CallTypeOK, Counted
<1>0. CallTypeOK /\ AuditFollowsCall /\ IsFiniteSet(Counted) /\ MetricsMatchAudit
  BY DEF BooksInv
<1>1. ASSUME NEW r \in Requests,
             \/ ProcessRequest(r) \/ ToolEnds(r) \/ Acquire(r) \/ RejectBusy(r)
             \/ ReturnResult(r) \/ Record(r)
      PROVE  Counted' = Counted /\ metrics' = metrics
  <2>1. CASE ProcessRequest(r) \/ ToolEnds(r) \/ Acquire(r) \/ RejectBusy(r)
             \/ ReturnResult(r)
    BY <1>0, <2>1
    DEF ProcessRequest, AnswerAtOnce, CallTool, ToolEnds, HandleReturns,
        HandlePanics, Acquire, RejectBusy, ReturnResult
  <2>2. CASE Record(r)
    <3>1. audit[r] = "none"
      BY <1>0, <2>2 DEF Record, AuditFollowsCall
    <3> QED
      BY <1>0, <2>2, <3>1 DEF Record
  <2> QED
    BY <1>1, <2>1, <2>2
<1>2. ASSUME NEW r \in Requests, OnToolCall(r)
      PROVE  IsFiniteSet(Counted)' /\ MetricsMatchAudit'
  <2>1. audit[r] # "none"
    BY <1>0, <1>2 DEF OnToolCall, AuditFollowsCall, LineFits
  <2>2. r \notin Counted /\ Counted' = Counted \cup {r}
    BY <1>0, <1>2, <2>1 DEF OnToolCall
  <2>3. IsFiniteSet(Counted') /\ Cardinality(Counted') = Cardinality(Counted) + 1
    BY <1>0, <2>2, FS_AddElement
  <2> QED
    BY <1>0, <1>2, <2>3 DEF OnToolCall, MetricsMatchAudit
<1>3. ASSUME UNCHANGED callVars
      PROVE  Counted' = Counted /\ metrics' = metrics
  BY <1>3 DEF callVars
<1>4. ASSUME Counted' = Counted, metrics' = metrics
      PROVE  IsFiniteSet(Counted)' /\ MetricsMatchAudit'
  BY <1>0, <1>4 DEF MetricsMatchAudit
<1> QED
  BY <1>1, <1>2, <1>3, <1>4 DEF CallNext, ServerStep, AllAnswered

LEMMA BooksInitially ==
  ASSUME CallInit
  PROVE  BooksInv
<1>1. Counted = {}
  BY DEF CallInit, Counted
<1>2. AuditFollowsCall
  BY DEF CallInit, AuditFollowsCall
<1> QED
  BY <1>1, <1>2, FS_EmptySet, SlotsInitially
  DEF CallInit, BooksInv, MetricsMatchAudit, SlotsInv

LEMMA BooksAlways == CallSafetySpec => []BooksInv
<1>1. CallInit => BooksInv
  BY BooksInitially
<1>2. SlotsInv /\ BooksInv /\ [CallNext]_callVars => BooksInv'
  BY TypeStep, AuditStep, CountStep DEF BooksInv
<1> QED
  BY <1>1, <1>2, SlotsAlways, PTL DEF CallSafetySpec

\* The success field that audit.Record wrote agrees with the answer the
\* caller got, and a refused or panicked call has no line.
THEOREM AuditAgrees == CallSafetySpec => []AuditAgreesWithAnswer
<1>1. BooksInv => AuditAgreesWithAnswer
  BY DEF BooksInv, AuditFollowsCall, LineFits, AuditAgreesWithAnswer,
         ToolResults
<1> QED
  BY <1>1, BooksAlways, PTL

\* The dashboard counts exactly the calls that reached the audit log.
THEOREM MetricsAgree == CallSafetySpec => []MetricsMatchAudit
<1>1. BooksInv => MetricsMatchAudit
  BY DEF BooksInv
<1> QED
  BY <1>1, BooksAlways, PTL

-----------------------------------------------------------------------------
(* Refinement.                                                             *)

\* The instance of RequestPool has its own copy of Cardinality.
LEMMA SameCardinality ==
  ASSUME NEW S
  PROVE  Pool!Cardinality(S) = Cardinality(S)
BY DEF Pool!Cardinality, Cardinality

LEMMA PoolStep ==
  ASSUME SlotsInv, [CallNext]_callVars
  PROVE  [Pool!PoolNext]_(Pool!poolVars)
<1> USE DEF CallTypeOK, Pool!poolVars, Holders, Holding
<1>0. CallTypeOK
  BY DEF SlotsInv
<1>1. ASSUME NEW r \in Requests, AnswerAtOnce(r)
      PROVE  Pool!Answer(r)
  BY <1>0, <1>1 DEF AnswerAtOnce, Pool!Answer, Pool!Fresh
<1>2. ASSUME NEW r \in Requests, CallTool(r)
      PROVE  Pool!Join(r)
  BY <1>0, <1>2 DEF CallTool, Pool!Join, Pool!Fresh
<1>3. ASSUME NEW r \in Requests, Acquire(r)
      PROVE  Pool!Enter(r)
  <2>1. Pool!Cardinality(Holders) < SemaphoreSize
    BY <1>3, SameCardinality DEF Acquire, SlotsInv, SlotsConserved
  <2> QED
    BY <1>0, <1>3, <2>1 DEF Acquire, Pool!Enter
<1>4. ASSUME NEW r \in Requests, RejectBusy(r)
      PROVE  Pool!TurnAway(r)
  <2>1. Pool!Cardinality(Holders) = SemaphoreSize
    BY <1>4, SameCardinality DEF RejectBusy, SlotsInv, SlotsConserved
  <2> QED
    BY <1>0, <1>4, <2>1 DEF RejectBusy, Pool!TurnAway
<1>5. ASSUME NEW r \in Requests, HandlePanics(r) \/ ReturnResult(r)
      PROVE  Pool!Leave(r)
  BY <1>0, <1>5 DEF HandlePanics, ReturnResult, Pool!Leave
<1>6. ASSUME NEW r \in Requests,
             HandleReturns(r) \/ Record(r) \/ OnToolCall(r)
      PROVE  UNCHANGED Pool!poolVars
  BY <1>0, <1>6 DEF HandleReturns, Record, OnToolCall
<1>7. ASSUME UNCHANGED callVars
      PROVE  UNCHANGED Pool!poolVars
  BY <1>7 DEF callVars
<1> QED
  BY <1>1, <1>2, <1>3, <1>4, <1>5, <1>6, <1>7
  DEF CallNext, ProcessRequest, ToolEnds, ServerStep, AllAnswered,
      Pool!PoolNext

\* Whatever the tools do, the request processor is a pool of SemaphoreSize
\* slots: nobody runs without a slot, is turned away while one is free, or is
\* answered twice.
THEOREM PoolRefined == CallSafetySpec => ImplementsPool
<1>1. CallInit => Pool!PoolInit
  BY DEF CallInit, Pool!PoolInit, Holders, Holding
<1>2. SlotsInv /\ [CallNext]_callVars => [Pool!PoolNext]_(Pool!poolVars)
  BY PoolStep
<1> QED
  BY <1>1, <1>2, SlotsAlways, PTL DEF CallSafetySpec, ImplementsPool, Pool!PoolSpec

=============================================================================
