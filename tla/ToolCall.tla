------------------------------ MODULE ToolCall ------------------------------
(***************************************************************************)
(* The request processor of jig-mcp: Server.ProcessRequest and             *)
(* Server.HandleToolCall of internal/server/request.go, each request run   *)
(* by a goroutine of its own, all of them sharing the buffered channel     *)
(* Semaphore, the audit log and the dashboard's counters.                  *)
(*                                                                         *)
(* The transports (StdioServer, SseServer) EXTEND this module and decide   *)
(* when a request is processed and where its answer goes.                  *)
(***************************************************************************)
EXTENDS Integers, FiniteSets

CONSTANTS
  Requests,        \* identities of the requests
  SemaphoreSize    \* capacity of the channel Semaphore

\* initToolSemaphore replaces every configured value below one by 8.
ASSUME SemaphoreSizeAssumption == SemaphoreSize \in Nat \ {0}

VARIABLES
  pc,          \* where the goroutine of a request is
  result,      \* the value it will answer with (the named result of the code)
  semaphore,   \* number of elements in the channel Semaphore
  audit,       \* what the audit log says of a request
  metrics      \* total Count of the dashboard's metricsStore

callVars == <<pc, result, semaphore, audit, metrics>>

\* What tool.Handle returns: without and with isError.
ToolResults == {"ok", "isError"}

Results == ToolResults \cup {"none", "immediate", "busy", "panicked"}

AuditStates == {"none", "success", "failure", "lost"}

Locations ==
  {"idle", "queued", "running", "record", "metric", "return", "answered"}

\* The goroutine holds one element of the channel Semaphore.
Holding == {"running", "record", "metric", "return"}
Holders == {r \in Requests : pc[r] \in Holding}

CallInit ==
  /\ pc = [r \in Requests |-> "idle"]
  /\ result = [r \in Requests |-> "none"]
  /\ semaphore = 0
  /\ audit = [r \in Requests |-> "none"]
  /\ metrics = 0

-----------------------------------------------------------------------------
(* ProcessRequest: the method switch, and HandleToolCall up to its select. *)
(* Neither touches anything shared but the registry, which is only read.   *)

\* An answer that needs no tool: the result of initialize, tools/list or ping,
\* "method not found", "invalid params" or "unknown tool".
AnswerAtOnce(r) ==
  /\ pc[r] = "idle"
  /\ result' = [result EXCEPT ![r] = "immediate"]
  /\ pc' = [pc EXCEPT ![r] = "answered"]
  /\ UNCHANGED <<semaphore, audit, metrics>>

CallTool(r) ==
  /\ pc[r] = "idle"
  /\ pc' = [pc EXCEPT ![r] = "queued"]
  /\ UNCHANGED <<result, semaphore, audit, metrics>>

\* Variant without the channel's capacity: the send never blocks.
AcquireUnbounded(r) ==
  /\ pc[r] = "queued"
  /\ semaphore' = semaphore + 1
  /\ pc' = [pc EXCEPT ![r] = "running"]
  /\ UNCHANGED <<result, audit, metrics>>

\* case s.Semaphore <- struct{}{}
Acquire(r) ==
  /\ pc[r] = "queued"
  /\ semaphore < SemaphoreSize
  /\ semaphore' = semaphore + 1
  /\ pc' = [pc EXCEPT ![r] = "running"]
  /\ UNCHANGED <<result, audit, metrics>>

\* Variant in which the deferred receive also runs after a rejection.
RejectBusyReleases(r) ==
  /\ pc[r] = "queued"
  /\ semaphore = SemaphoreSize
  /\ result' = [result EXCEPT ![r] = "busy"]
  /\ pc' = [pc EXCEPT ![r] = "answered"]
  /\ semaphore' = semaphore - 1
  /\ UNCHANGED <<audit, metrics>>

\* case <-time.After(timeout).  A goroutine is parked in the select only while
\* the channel is full: a receive hands the slot to a parked sender directly.
RejectBusy(r) ==
  /\ pc[r] = "queued"
  /\ semaphore = SemaphoreSize
  /\ result' = [result EXCEPT ![r] = "busy"]
  /\ pc' = [pc EXCEPT ![r] = "answered"]
  /\ UNCHANGED <<semaphore, audit, metrics>>

-----------------------------------------------------------------------------
(* The tool runs, then the deferred functions and the bookkeeping.         *)

HandleReturns(r) ==
  /\ pc[r] = "running"
  /\ \E res \in ToolResults : result' = [result EXCEPT ![r] = res]
  /\ pc' = [pc EXCEPT ![r] = "record"]
  /\ UNCHANGED <<semaphore, audit, metrics>>

\* Variant in which the recovered panic keeps its slot.
HandlePanicsLeaking(r) ==
  /\ pc[r] = "running"
  /\ result' = [result EXCEPT ![r] = "panicked"]
  /\ pc' = [pc EXCEPT ![r] = "answered"]
  /\ UNCHANGED <<semaphore, audit, metrics>>

\* tool.Handle panics: the deferred receive frees the slot, then the deferred
\* recover replaces the result; audit.Record and OnToolCall are not reached.
HandlePanics(r) ==
  /\ pc[r] = "running"
  /\ semaphore' = semaphore - 1
  /\ result' = [result EXCEPT ![r] = "panicked"]
  /\ pc' = [pc EXCEPT ![r] = "answered"]
  /\ UNCHANGED <<audit, metrics>>

\* Variant in which the success field ignores isError.
RecordAlwaysSuccess(r) ==
  /\ pc[r] = "record"
  /\ \E line \in {"success", "lost"} : audit' = [audit EXCEPT ![r] = line]
  /\ pc' = [pc EXCEPT ![r] = "metric"]
  /\ UNCHANGED <<result, semaphore, metrics>>

\* audit.Record: one line, whose success field is computed from the result;
\* the line is lost when it cannot be marshalled or written (only a warning).
Record(r) ==
  /\ pc[r] = "record"
  /\ \E line \in {IF result[r] = "isError" THEN "failure" ELSE "success", "lost"} :
       audit' = [audit EXCEPT ![r] = line]
  /\ pc' = [pc EXCEPT ![r] = "metric"]
  /\ UNCHANGED <<result, semaphore, metrics>>

\* Variant that counts only the calls that succeeded.
OnToolCallSuccessOnly(r) ==
  /\ pc[r] = "metric"
  /\ metrics' = IF result[r] = "ok" THEN metrics + 1 ELSE metrics
  /\ pc' = [pc EXCEPT ![r] = "return"]
  /\ UNCHANGED <<result, semaphore, audit>>

\* OnToolCall is dashboard.RecordMetric in both transports.
OnToolCall(r) ==
  /\ pc[r] = "metric"
  /\ metrics' = metrics + 1
  /\ pc' = [pc EXCEPT ![r] = "return"]
  /\ UNCHANGED <<result, semaphore, audit>>

\* return result: the deferred receive frees the slot.
ReturnResult(r) ==
  /\ pc[r] = "return"
  /\ semaphore' = semaphore - 1
  /\ pc' = [pc EXCEPT ![r] = "answered"]
  /\ UNCHANGED <<result, audit, metrics>>

ProcessRequest(r) == AnswerAtOnce(r) \/ CallTool(r)

\* The tool decides when its Handle ends.
ToolEnds(r) == HandleReturns(r) \/ HandlePanics(r)

\* The steps the server's own code takes once the request is queued.
ServerStep(r) ==
  \/ Acquire(r)
  \/ RejectBusy(r)
  \/ Record(r)
  \/ OnToolCall(r)
  \/ ReturnResult(r)

\* Every request of the instance has its answer: nothing is left to do.
AllAnswered ==
  /\ \A r \in Requests : pc[r] = "answered"
  /\ UNCHANGED callVars

CallNext ==
  \/ \E r \in Requests : ProcessRequest(r) \/ ToolEnds(r) \/ ServerStep(r)
  \/ AllAnswered

(***************************************************************************)
(* The Go scheduler runs every goroutine that can run, and the timer of    *)
(* the select fires.  Nothing is assumed of the clients, who need not send *)
(* a request, nor of the tools: Handle may never return, because a script  *)
(* whose descendants keep its output pipe open outlives its own timeout.   *)
(***************************************************************************)
CallFairness == \A r \in Requests : WF_callVars(ServerStep(r))

CallSafetySpec == CallInit /\ [][CallNext]_callVars

CallSpec == CallSafetySpec /\ CallFairness

-----------------------------------------------------------------------------

CallTypeOK ==
  /\ pc \in [Requests -> Locations]
  /\ result \in [Requests -> Results]
  /\ semaphore \in Nat
  /\ audit \in [Requests -> AuditStates]
  /\ metrics \in Nat

(***************************************************************************)
(* The elements of the channel Semaphore are exactly the slots of the      *)
(* goroutines between the send and the deferred receive, on every path out *)
(* of HandleToolCall: return, recovered panic and rejection; and there are *)
(* never more of them than JIG_MAX_CONCURRENT_TOOLS.                       *)
(***************************************************************************)
SlotsConserved ==
  /\ semaphore = Cardinality(Holders)
  /\ semaphore <= SemaphoreSize

(***************************************************************************)
(* A caller that sees a tool's result finds the call in the audit log with *)
(* the success field that agrees with the isError of the answer (or the    *)
(* line was lost to a write error); a call that was refused, or whose tool *)
(* panicked, leaves no line behind.                                        *)
(***************************************************************************)
AuditAgreesWithAnswer ==
  \A r \in Requests : pc[r] = "answered" =>
    CASE result[r] = "ok"      -> audit[r] \in {"success", "lost"}
      [] result[r] = "isError" -> audit[r] \in {"failure", "lost"}
      [] OTHER                 -> audit[r] = "none"

(***************************************************************************)
(* The dashboard counts the calls whose audit.Record has returned, less    *)
(* those that are not yet past OnToolCall, and no other; a call whose line *)
(* was lost to a write error is counted like the rest.                     *)
(***************************************************************************)
Counted == {r \in Requests : audit[r] # "none" /\ pc[r] # "metric"}
MetricsMatchAudit == metrics = Cardinality(Counted)

(***************************************************************************)
(* A tool that hangs harms only its own caller: a request that asked for a *)
(* tool is answered (with the result, "server busy", or the error that     *)
(* replaces a panic) provided its own Handle does not run forever,         *)
(* whatever the tools in the other slots do.                               *)
(***************************************************************************)
CallsAnswered ==
  \A r \in Requests :
    []<>(pc[r] # "running") => (pc[r] = "queued" ~> pc[r] = "answered")

(***************************************************************************)
(* README: "Every tool invocation logged as JSONL".  Every call whose tool *)
(* was invoked has a line in the audit log once it is answered (lines lost *)
(* to write errors apart).                                                 *)
(***************************************************************************)
EveryInvocationAudited ==
  \A r \in Requests :
    pc[r] = "answered" /\ result[r] \in ToolResults \cup {"panicked"}
      => audit[r] # "none"

(***************************************************************************)
(* The request processor implements the abstract request pool: a slot is   *)
(* occupied from the send on the channel to the deferred receive.          *)
(***************************************************************************)
Pool == INSTANCE RequestPool WITH
  Slots    <- SemaphoreSize,
  waiting  <- {r \in Requests : pc[r] = "queued"},
  running  <- Holders,
  finished <- {r \in Requests : pc[r] = "answered"}

ImplementsPool == Pool!PoolSpec

=============================================================================
