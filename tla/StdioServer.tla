---------------------------- MODULE StdioServer ----------------------------
(***************************************************************************)
(* The stdio transport of cmd/jig-mcp/main.go and its shutdown: the reader *)
(* goroutine (runStdioServer), one goroutine per line read, the main       *)
(* goroutine (the tail of main, and gracefulShutdown when a dashboard      *)
(* runs), and the goroutine that waits on inflightTools.                   *)
(*                                                                         *)
(* A sync.WaitGroup is its counter.  The one subtlety the code is exposed  *)
(* to is modelled: a waiter that was parked and is woken because the       *)
(* counter reached zero panics ("WaitGroup is reused before previous Wait  *)
(* has returned") when it finds the counter raised again by then.          *)
(***************************************************************************)
EXTENDS ToolCall

VARIABLES
  gor,            \* stage of the goroutine that handles a line
  reader,         \* the loop of runStdioServer
  signalled,      \* SIGTERM or SIGINT has arrived
  requestWg,      \* counter of the WaitGroup requestWg
  inflightTools,  \* counter of the WaitGroup inflightTools
  waiter,         \* the goroutine in inflightTools.Wait
  main,           \* the main goroutine
  cause,          \* which case of the outer select was taken
  expired,        \* a grace period has run out
  auditOpen,      \* the audit log's file is open
  atWait          \* history: gor when main began to wait for inflightTools

inputVars == <<reader, signalled>>
wgVars == <<requestWg, inflightTools, waiter>>
mainVars == <<main, cause, expired, auditOpen, atWait>>
allVars == <<callVars, gor, inputVars, wgVars, mainVars>>

Stages == {"unread", "spawned", "processing", "responded", "leaving", "finished"}

\* Stages in which the goroutine counts in the two WaitGroups.
InRequestWg == {"spawned", "processing", "responded", "leaving"}
InInflightTools == {"processing", "responded"}

StdioInit ==
  /\ CallInit
  /\ gor = [r \in Requests |-> "unread"]
  /\ reader = "scanning"
  /\ signalled = FALSE
  /\ requestWg = 0
  /\ inflightTools = 0
  /\ waiter = "off"
  /\ main = "serving"
  /\ cause = "none"
  /\ expired = FALSE
  /\ auditOpen = TRUE
  /\ atWait = [r \in Requests |-> "unread"]

\* Goroutines run until main returns or one of them panics.
Alive == main \notin {"exited", "crashed"}

-----------------------------------------------------------------------------
(* The reader goroutine.  It knows nothing of a shutdown that has begun.   *)

Scan(r) ==
  /\ Alive
  /\ reader = "scanning"
  /\ gor[r] = "unread"
  /\ requestWg' = requestWg + 1
  /\ gor' = [gor EXCEPT ![r] = "spawned"]
  /\ UNCHANGED <<callVars, inputVars, inflightTools, waiter, mainVars>>

\* End of input, a read error, or a line longer than the scanner's buffer.
ScanFails ==
  /\ Alive
  /\ reader = "scanning"
  /\ reader' = "closed"
  /\ UNCHANGED <<callVars, gor, signalled, wgVars, mainVars>>

-----------------------------------------------------------------------------
(* The goroutine of one line.                                              *)

\* Variant whose early returns bypass the deferred requestWg.Done.
DiscardLeaking(r) ==
  /\ Alive
  /\ gor[r] = "spawned"
  /\ gor' = [gor EXCEPT ![r] = "finished"]
  /\ UNCHANGED <<callVars, inputVars, wgVars, mainVars>>

\* The line is no request, or a notification: no answer.
Discard(r) ==
  /\ Alive
  /\ gor[r] = "spawned"
  /\ gor' = [gor EXCEPT ![r] = "leaving"]
  /\ UNCHANGED <<callVars, inputVars, wgVars, mainVars>>

\* inflightTools.Add(1)
BeginProcess(r) ==
  /\ Alive
  /\ gor[r] = "spawned"
  /\ inflightTools' = inflightTools + 1
  /\ gor' = [gor EXCEPT ![r] = "processing"]
  /\ UNCHANGED <<callVars, inputVars, requestWg, waiter, mainVars>>

\* srv.ProcessRequest, up to and after its audit.Record.
Process(r) ==
  /\ Alive
  /\ gor[r] = "processing"
  /\ \/ ProcessRequest(r) \/ ToolEnds(r)
     \/ Acquire(r) \/ RejectBusy(r) \/ OnToolCall(r) \/ ReturnResult(r)
  /\ UNCHANGED <<gor, inputVars, wgVars, mainVars>>

\* audit.Record opens the audit log again if it finds it closed.
ProcessRecord(r) ==
  /\ Alive
  /\ gor[r] = "processing"
  /\ Record(r)
  /\ auditOpen' \in {auditOpen, TRUE}
  /\ audit'[r] # "lost" => auditOpen'
  /\ UNCHANGED <<gor, inputVars, wgVars, main, cause, expired, atWait>>

\* The answer is written under stdoutMu, or dropped if it cannot be marshalled.
Respond(r) ==
  /\ Alive
  /\ gor[r] = "processing"
  /\ pc[r] = "answered"
  /\ gor' = [gor EXCEPT ![r] = "responded"]
  /\ UNCHANGED <<callVars, inputVars, wgVars, mainVars>>

\* The last Done wakes a parked waiter.
WakenedBy(count) == IF count = 0 /\ waiter = "parked" THEN "woken" ELSE waiter

\* Variant with an explicit Done beside the deferred one.
InflightDoneTwice(r) ==
  /\ Alive
  /\ gor[r] = "responded"
  /\ inflightTools' = inflightTools - 2
  /\ waiter' = WakenedBy(inflightTools')
  /\ gor' = [gor EXCEPT ![r] = "leaving"]
  /\ UNCHANGED <<callVars, inputVars, requestWg, mainVars>>

\* Deferred calls run last in, first out: inflightTools.Done ...
InflightDone(r) ==
  /\ Alive
  /\ gor[r] = "responded"
  /\ inflightTools' = inflightTools - 1
  /\ waiter' = WakenedBy(inflightTools')
  /\ gor' = [gor EXCEPT ![r] = "leaving"]
  /\ UNCHANGED <<callVars, inputVars, requestWg, mainVars>>

\* ... then requestWg.Done.
RequestDone(r) ==
  /\ Alive
  /\ gor[r] = "leaving"
  /\ requestWg' = requestWg - 1
  /\ gor' = [gor EXCEPT ![r] = "finished"]
  /\ UNCHANGED <<callVars, inputVars, inflightTools, waiter, mainVars>>

-----------------------------------------------------------------------------
(* The main goroutine.                                                     *)

Signal ==
  /\ Alive
  /\ ~signalled
  /\ signalled' = TRUE
  /\ UNCHANGED <<callVars, gor, reader, wgVars, mainVars>>

\* case <-sig
SignalReceived ==
  /\ main = "serving"
  /\ signalled
  /\ main' = "shutdown"
  /\ cause' = "signal"
  /\ UNCHANGED <<callVars, gor, inputVars, wgVars, expired, auditOpen,
                 atWait>>

\* case <-stdioDone
StdioDone ==
  /\ main = "serving"
  /\ reader = "closed"
  /\ main' = "drain"
  /\ cause' = "stdin"
  /\ UNCHANGED <<callVars, gor, inputVars, wgVars, expired, auditOpen,
                 atWait>>

\* Variant that waits for inflightTools only.
DrainDoneByInflight ==
  /\ main = "drain"
  /\ inflightTools = 0
  /\ main' = "shutdown"
  /\ UNCHANGED <<callVars, gor, inputVars, wgVars, cause, expired,
                 auditOpen, atWait>>

\* case <-requestDone
DrainDone ==
  /\ main = "drain"
  /\ requestWg = 0
  /\ main' = "shutdown"
  /\ UNCHANGED <<callVars, gor, inputVars, wgVars, cause, expired,
                 auditOpen, atWait>>

\* Variant without the timer.
DrainExpiresNever ==
  /\ main = "drain"
  /\ expired
  /\ main' = "shutdown"
  /\ UNCHANGED <<callVars, gor, inputVars, wgVars, cause, expired,
                 auditOpen, atWait>>

\* case <-timer.C
DrainExpires ==
  /\ main = "drain"
  /\ main' = "shutdown"
  /\ expired' = TRUE
  /\ UNCHANGED <<callVars, gor, inputVars, wgVars, cause, auditOpen,
                 atWait>>

\* The dashboard's HTTP server, if any, is shut down (this only takes time),
\* and the goroutine that waits for inflightTools is started.
AwaitInflight ==
  /\ main = "shutdown"
  /\ main' = "waiting"
  /\ waiter' = "ready"
  /\ atWait' = gor
  /\ UNCHANGED <<callVars, gor, inputVars, requestWg, inflightTools,
                 cause, expired, auditOpen>>

\* Variant that closes the channel done without waiting.
WaiterEntersAndLeaves ==
  /\ Alive
  /\ waiter = "ready"
  /\ waiter' = "done"
  /\ UNCHANGED <<callVars, gor, inputVars, requestWg, inflightTools,
                 mainVars>>

\* inflightTools.Wait(): parks while the counter is not zero.
WaiterEnters ==
  /\ Alive
  /\ waiter = "ready"
  /\ waiter' = IF inflightTools = 0 THEN "done" ELSE "parked"
  /\ UNCHANGED <<callVars, gor, inputVars, requestWg, inflightTools,
                 mainVars>>

\* A woken waiter closes the channel done.
WaiterReturns ==
  /\ Alive
  /\ waiter = "woken"
  /\ inflightTools = 0
  /\ waiter' = "done"
  /\ UNCHANGED <<callVars, gor, inputVars, requestWg, inflightTools,
                 mainVars>>

\* The counter was raised after the wake-up: the runtime ends the process.
WaiterPanics ==
  /\ Alive
  /\ waiter = "woken"
  /\ inflightTools # 0
  /\ main' = "crashed"
  /\ UNCHANGED <<callVars, gor, inputVars, wgVars, cause, expired,
                 auditOpen, atWait>>

\* case <-done
InflightDrained ==
  /\ main = "waiting"
  /\ waiter = "done"
  /\ main' = "closing"
  /\ UNCHANGED <<callVars, gor, inputVars, wgVars, cause, expired,
                 auditOpen, atWait>>

\* case <-timer.C, or case <-ctx.Done()
InflightExpires ==
  /\ main = "waiting"
  /\ main' = "closing"
  /\ expired' = TRUE
  /\ UNCHANGED <<callVars, gor, inputVars, wgVars, cause, auditOpen,
                 atWait>>

\* audit.Close()
CloseAudit ==
  /\ main = "closing"
  /\ main' = "returning"
  /\ auditOpen' = FALSE
  /\ UNCHANGED <<callVars, gor, inputVars, wgVars, cause, expired,
                 atWait>>

\* main returns: the process ends, with whatever still runs in it.
Exit ==
  /\ main = "returning"
  /\ main' = "exited"
  /\ UNCHANGED <<callVars, gor, inputVars, wgVars, cause, expired,
                 auditOpen, atWait>>

-----------------------------------------------------------------------------

Goroutine(r) ==
  \/ Discard(r) \/ BeginProcess(r)
  \/ Process(r) \/ ProcessRecord(r)
  \/ Respond(r) \/ InflightDone(r) \/ RequestDone(r)

Waiter == WaiterEnters \/ WaiterReturns \/ WaiterPanics

Main ==
  \/ SignalReceived \/ StdioDone
  \/ DrainDone \/ DrainExpires
  \/ AwaitInflight \/ InflightDrained \/ InflightExpires
  \/ CloseAudit \/ Exit

Terminated == ~Alive /\ UNCHANGED allVars

StdioNext ==
  \/ \E r \in Requests : Scan(r) \/ Goroutine(r)
  \/ ScanFails
  \/ Signal
  \/ Waiter
  \/ Main
  \/ Terminated

StdioSafetySpec == StdioInit /\ [][StdioNext]_allVars

(***************************************************************************)
(* Only the main goroutine is assumed to be scheduled, and its timers to   *)
(* fire.  Tools may hang, and the client may keep its end open.            *)
(***************************************************************************)
StdioSpec == StdioSafetySpec /\ WF_allVars(Main)

-----------------------------------------------------------------------------

StdioTypeOK ==
  /\ gor \in [Requests -> Stages]
  /\ reader \in {"scanning", "closed"}
  /\ signalled \in BOOLEAN
  /\ requestWg \in Nat
  /\ inflightTools \in Nat
  /\ waiter \in {"off", "ready", "parked", "woken", "done"}
  /\ main \in {"serving", "drain", "shutdown", "waiting", "closing",
               "returning", "exited", "crashed"}
  /\ cause \in {"none", "stdin", "signal"}
  /\ expired \in BOOLEAN
  /\ auditOpen \in BOOLEAN
  /\ atWait \in [Requests -> Stages]

(***************************************************************************)
(* The two WaitGroups count what their names say on every path through a   *)
(* goroutine, early returns and failed marshalling included.               *)
(***************************************************************************)
WaitGroupsExact ==
  /\ requestWg = Cardinality({r \in Requests : gor[r] \in InRequestWg})
  /\ inflightTools = Cardinality({r \in Requests : gor[r] \in InInflightTools})

(***************************************************************************)
(* A client that closes its end loses nothing: unless the grace period ran *)
(* out, the process exits only when every line that was read has been      *)
(* answered or discarded, every call is in the audit log, and the log is   *)
(* closed behind the last of them.                                         *)
(***************************************************************************)
ClosingStdinLosesNothing ==
  main = "exited" /\ cause = "stdin" /\ ~expired =>
    /\ \A r \in Requests :
         /\ gor[r] \in {"unread", "finished"}
         /\ pc[r] \in {"idle", "answered"}
    /\ ~auditOpen

(***************************************************************************)
(* A signal waits for the calls that inflightTools counted by then: unless *)
(* the grace period ran out, each of them has had its answer written (or   *)
(* dropped) when the process exits.                                        *)
(***************************************************************************)
ShutdownWaitsForCounted ==
  main = "exited" /\ ~expired =>
    \A r \in Requests : atWait[r] \in InInflightTools => gor[r] # "processing"

(***************************************************************************)
(* The orderly end of input never brings the process down: the WaitGroup   *)
(* panic needs a signal, or a grace period that ran out.                   *)
(***************************************************************************)
CrashNeedsSignalOrExpiry ==
  main = "crashed" => cause = "signal" \/ expired

(***************************************************************************)
(* main.go: "Wait for in-flight tool calls to finish before exiting."      *)
(* Unless the grace period ran out, no tool still runs at exit on behalf   *)
(* of a request that had been read when main began to wait.                *)
(***************************************************************************)
InflightFinishedBeforeExit ==
  main = "exited" /\ ~expired =>
    \A r \in Requests : atWait[r] # "unread" => pc[r] # "running"

(***************************************************************************)
(* The process ends after end of input or a signal, even if every tool     *)
(* hangs.                                                                  *)
(***************************************************************************)
ShutdownEnds == (signalled \/ reader = "closed") ~> ~Alive

=============================================================================
