# TLA+ verification of jig-mcp

jig-mcp is an MCP server: a client sends JSON-RPC requests over stdio or over
HTTP with server-sent events, and the server runs tools for it (scripts,
terminal commands, HTTP requests), under a limit on concurrent executions, with
resource limits and timeouts, and with an audit log and a dashboard. This
directory holds TLA+ models of the parts of it where steps of several
goroutines, processes or failures interleave, the TLC runs that check them on
small instances, and TLAPS proofs.

Run everything from this directory:

    tlc -workers 2 -config MCToolCall.cfg MCToolCall       # likewise for the other cfgs
    tlapm ToolCallProofs.tla                               # likewise for the other *Proofs

## 1. Inventory

| Component | State it keeps | Operations | Talks to |
|---|---|---|---|
| Request processor (`internal/server/request.go`) | the channel `Semaphore` | `ProcessRequest`, `HandleToolCall` | called by both transports; calls tools, the audit log and `OnToolCall` |
| stdio transport and shutdown (`cmd/jig-mcp/main.go`) | `requestWg`, `inflightTools`, the channels of the main goroutine | `runStdioServer`, the tail of `main`, `gracefulShutdown` | stdin, stdout, signals, request processor, audit log |
| SSE transport (`internal/sse/sse.go`) | the map `sessions`; per session the channels `messages` and `done` | `handleSSE`, `handleMessage`, `CloseAllSessions` | `net/http`, request processor, shutdown |
| Process tools (`internal/tools/external.go`, `terminal.go`) | one context and one process per call | `Handle` | `os/exec`, resource limits |
| Resource limits (`internal/rlimit`) | Unix: the limits of the server process, `rlimitMu`; Windows: a job object per call | `EffectiveLimits`, `StartWithLimits` | kernel |
| Audit log (`internal/audit/audit.go`) | `audit.jsonl`, `audit.jsonl.1`, ..., the open file | `Init`, `Record`, `write`, `rotate`, `Close` | file system |
| Dashboard (`internal/dashboard/dashboard.go`) | `metricsStore`; an open file per `/api/logs` | `RecordMetric`, `SeedMetricsFromLog`, `getAuditLogs`, the HTTP API | audit log, registry |
| HTTP tool (`internal/tools/http.go`) | one context per call | `Handle` | `net/http` client |
| Tool configuration and registry (`internal/config`, `internal/tools/types.go`, `loadTools`) | the map `tools`, written at startup | `LoadManifests`, `ProbeScripts`, `RegisterTool` | file system, one process per script |
| Settings (`main.go`) | values, written at startup | flags, `.env`, overrides, `detectConfigDir` | environment, every other component |
| Authentication (`internal/auth/auth.go`) | the token list, written at startup | `InitTokenRegistry`, `Lookup`, `authenticate` | the handlers of both HTTP servers |
| Logging, packaging, CI, examples | none | | |

Where the difficulty lies, and what makes each component correct:

* **Request processor.** Any number of goroutines, one counting semaphore, four
  ways out (answer, rejection, result, recovered panic). Correct: slots are
  conserved on each way out; the caller's answer, the audit line and the metric
  agree; a hanging tool harms only its own caller.
* **stdio and shutdown.** Two WaitGroups are raised at different places, by a
  reader that never learns of the shutdown; two grace periods; tools that hang.
  Correct: end of input loses nothing, a signal waits for what was counted, the
  process always ends.
* **SSE.** A POST keeps the pointer of a session whose stream may end at any
  moment; `http.TimeoutHandler` answers for handlers that still run; sessions
  are closed while requests are answered; a client that stays and does not read
  blocks the handler of its stream, as there is no `WriteTimeout`. Correct: the
  map is exact, `202` means the answer is on its way to the client, closing
  drains, only clients hold up the shutdown.
* **Process tools and limits.** Limits are inherited through process-global
  state; deadline, exit, reaping and the end of the output race. Correct: no
  child has more than it is granted, no start holds up another, the deadline
  stops the process of the call, and the answer says what happened; on Windows,
  no process executes before it is confined, and closing the job ends its
  descendants. On Unix descendants are left alone: one that has redirected its
  output outlives the call, one that has not holds the call up.
* **HTTP tool.** A remote server may stall at any byte. Correct: the deadline
  covers the body too, and half a body is never an answer.
* **Audit log.** A rotation is several renames, each of which may fail, with a
  crash possible between any two. Correct: the files give the history in order,
  only the oldest is missing, and the retention is honoured.
* **Dashboard.** The tail of `audit.jsonl` is read while it is written, rotated
  and broken. Correct: an older call is never shown in the place of a newer one.
* **Tool configuration and registry.** Scripts are run to ask for their names
  while the server is not yet up; each races a timer, and may answer late, hang
  or never start. Correct: a name is served by the tool the precedence says,
  never by a late answer, and the server comes up.
* **Settings and authentication.** Four sources, two places for `.env`, texts
  that are not what they should be, and listeners opened by goroutines that may
  fail. Correct: nobody can reach the server before everything is settled, each
  setting by the one rule of main, and the server serves or gives up.

`PROJECT.json` lists the hazards one by one, at the line where each bites, with
the properties that cover it.

## 2. Modules

    RequestPool            what the processor promises: slots, waiting, running, finished
      ^ implemented by (refinement mapping in ToolCall)
    ToolCall               ProcessRequest / HandleToolCall, one pc per request
      ^ EXTENDS     ^ EXTENDS    ^ EXTENDS    ^ EXTENDS
    StdioServer   SseServer    HttpTool     ToolCallProofs (TLAPS)
      ^             ^            ^            ^
      StdioServerProofs, SseServerProofs and HttpToolProofs (TLAPS), each of
      which EXTENDS its module and ToolCallProofs

    RLimit                 StartWithLimits on Unix, one step per system call
      ^ EXTENDS
    ToolExec               Handle of the process tools around it
      ^ EXTENDS     ^ EXTENDS
    JobObject     ToolExecProofs (TLAPS)
      ^ EXTENDS     ^ EXTENDS
    JobObjectProofs (TLAPS)

    ToolLoading            manifests, probes with their timers, registry
      ^ EXTENDS
    Startup                main up to the listeners: settings, tokens, loadTools
      ^ EXTENDS
    StartupProofs (TLAPS)  about both

    AuditLog               writer, rotation, failures, crashes, seeding of metrics
      ^ EXTENDS
    DashboardLogs          the reader of /api/logs beside the writer
      ^ EXTENDS
    AuditLogProofs (TLAPS) about both

`MC<module>` instantiates a module for TLC; its cfgs give the constants. A
definition whose comment begins with "Variant" is not part of a specification:
it is a plausible bug in the definition next to it, and shows (see the mutants
in `PROJECT.json`) that the properties can tell.

### RequestPool, ToolCall

A request is a model value; `pc` says where its goroutine is (`idle`, `queued`
in the `select`, `running` in `tool.Handle`, `record`, `metric`, `return`,
`answered`), `result` is the named result of `HandleToolCall` reduced to its
kind. The deferred receive and the deferred `recover` are part of the actions
that leave the function. `RejectBusy` is enabled only while the channel is full,
because a Go receive hands the slot directly to a parked sender, so a goroutine
is parked in the `select` only then. `audit` and `metrics` are what `audit.Record` and
`dashboard.RecordMetric` leave behind; a line may be `lost` to a write error.

### HttpTool

The calls in `HttpCalls` run `HTTPTool.Handle` instead of an arbitrary tool.
`exchange` is how far `Handle` has come (`none`, `sent`, `reading`, `over`),
`body` counts reads up to the limit of the `LimitReader`, and `Whole` stands for
a body that ended before it. The remote server is the environment: it may send
any status, any part of a body, break the connection, or do nothing. What
`Handle` returns goes through ToolCall's `HandleReturns`, so a call's slot,
audit line and metric are those of every other tool.

### StdioServer

`gor` is the stage of the goroutine of each line, `reader` the loop of
`runStdioServer`, `main` the main goroutine, `waiter` the goroutine inside
`inflightTools.Wait()`. `Process` steps are those of ToolCall. A WaitGroup is
its counter plus the one thing the runtime adds: a woken waiter panics when the
counter is above zero again. `atWait` is a history variable. With a dashboard
the wait happens in `gracefulShutdown` instead of in `main`; the steps are the
same, `AwaitInflight` standing for the (instant or slow) shutdown of the
dashboard's server before it.

### SseServer

`stream`, `registered`, `done`, `messages` and `gone` are per session; `post`,
`to`, `status` per POST request; `main` is `gracefulShutdown`. A session's
channel is a sequence bounded by `BufferSize`. A message is taken from it
(`WriteMessage`, `DrainMessage`), is then in the hand of the handler (`writing`)
and, when `Fprintf` and `Flush` have returned (`WriteEnds`), in `delivered`, if
the client was still there. `StopReading` makes a client one that reads no more:
its handler is `stalled` in a write, of a message, of the endpoint event or of a
keep-alive comment, until the client leaves. These last two writes change nothing
else and have no action of their own. A client that pauses makes a write slow.
Network loss shows as `Disconnect`. `HandlerTimesOut` is TimeoutHandler (deadline
or departed client). `HttpShutdownDone` is enabled when every connection has
its response, which is what `http.Server.Shutdown` waits for; the process exits
in the same step, as no call is counted in `inflightTools`. `HeldByClients` is
what `http.Server.Shutdown` may still have to wait for.

### RLimit, ToolExec

RLimit has one action per system call of `StartWithLimits`; `Setrlimit` is the
kernel's rule (soft <= hard, and a hard limit is raised only with privilege),
`privileged` is chosen initially. Memory is in megabytes. ToolExec wraps the steps into
a call: `expired` (the context's deadline), `process`, `reaped`
(`Process.Wait()` has returned), `cancelled` (the signal of the context was
accepted, also by a zombie), `pipeHeld` (a descendant outlives the process and
holds its output pipe), `result`. Descendants that do not hold it change nothing
for the call and come in with JobObject. `os/exec` is modelled from its documented
behaviour without `WaitDelay`, which the code does not set.

### JobObject

`platform` is chosen initially. On `unix` the module is ToolExec with
descendants that do not hold the output pipe (`stray`), which nothing ends and
which outlive the call as they please; on `windows` the step of `StartWithLimits`
is replaced by the calls of the Windows API, in the order of rlimit_windows.go
(`next`), each of which may fail; `inForce` is the set of those that took effect.
There only the job ends a stray descendant: the
`cleanup` deferred by `Handle`, which closes it, is part of `HandleReturns`.

### AuditLog

`content[i]` is the sequence of lines in `audit.jsonl.i` (0 for `audit.jsonl`).
The mutex makes the writer sequential, so one `step` variable suffices. It is
released before the call is counted: `uncounted` is how many calls are between
`audit.Record` and `OnToolCall`, each still with its slot, so there are at most
`Slots` of them, and `RecordMetric` counts one of them whatever the writer does
meanwhile. Every file operation is an action that succeeds or fails (`Try`), and `Crash` is enabled
between any two. A line is `readable`, `torn` (a failed write wrote a part of
it) or `glued` to a torn one. `written` and `counted` are history variables.
Sizes are counted in lines; `Restart` is `audit.Init` plus
`SeedMetricsFromLog`, whose scanner stops at a line that is too long.

### DashboardLogs

The reader holds an open file, not a name: `live` says whether that file is
still `audit.jsonl` (else it has been renamed or replaced), `inode` is what it
holds. `Writes` is any step of AuditLog with its effect on the open file.
`FirstKept` is the seek to the tail: it lands inside a line or on a boundary,
where a whole line is then skipped as if it were a partial one. `Recent` is the
sort and the limit. `Second` is the second of each call's timestamp, any function
of the calls: `Record` takes the time before it waits for the mutex, so the
seconds need not grow with the place in the file. A line's place in the list is
the number of lines that the stable sort puts before it (`Above`), which says what
the sort does without saying how, and which the proofs can count. A line too long
for the scanner ends the scan.

### ToolLoading

`manifest` and `script` are what the disk holds, chosen initially and reduced
to what decides: whether a manifest can be read, which sections it has and
whether their strings pass `ValidateToolConfig`; whether a file is a script and
can answer. `step` and `at` are the main goroutine in its two loops. `probe` is
the goroutine and the process of a script; it goes on after the main goroutine
has given up, and the kill may miss a process that has just started, because
`cmd.Process` is read without synchronisation. `ToolFor` is the reference
definition of the tool behind a name; `RegistryExact` compares the result of
the loops with it.

### Startup

`boot` is where `main` is, from `flag.Parse` on; `env` is the process environment,
which `.env` adds to; `setting` is each setting as a text, reduced to whether the
code accepts it (`Texts`), or a detected place; `tokens` is the registry of
internal/auth. The loops of ToolLoading run while `boot` is `loading`; a probe's
goroutine may run on after it. `listeners` is what clients can talk to: standard
input as soon as `main` reads it (`Listen`), the SSE server when its goroutine has
bound the port (`SseListens`), unless that fails and ends the process (`SseFails`),
and the dashboard, whose failure is only logged. `launch` is the input:
`ServedAsLaunched` reads the settings off it without following the steps. `Caller`
is who a request comes from: only `/sse` is wrapped in `authenticate`, so whoever
posts to `/message` is `unknown`. The guards of `NameOf`, its reading of the token
variables, exclude each other: of overlapping ones a CASE may take any, and TLC
takes the first, so only a proof tells.

## 3. Runs

| Run | Instance | Shows |
|---|---|---|
| `tool_call` | 3 requests, one of an HTTP tool, 2 slots, bodies of 2 reads | type, slots, audit and metrics agree with answers, refinement of RequestPool; an HTTP answer is complete; every caller whose own tool ends is answered, and every HTTP call, whatever its remote server does |
| `tool_call_audited` (violation) | 2 requests, 1 slot | a panicking tool leaves no audit line (README.md:160 says every invocation is logged) |
| `stdio` | 2 requests, 1 slot | exact WaitGroups; end of input loses nothing; a signal waits for counted calls; the WaitGroup panic needs a signal or an expired grace period; the process ends |
| `stdio_inflight` (violation) | 1 request | after a signal the process can exit while the tool of a request that was read still runs (main.go:408 says it waits) |
| `sse_requests` | 2 requests, 1 session, buffer 1 | 202 means the answer is on its way; the exit cuts off only calls that were answered 503 |
| `sse_sessions` | 1 request, 2 sessions, buffer 2 | the session map is exact, closing drains in order, what is buffered is delivered to a client that reads, closed streams end unless their client does not read, and only clients hold up the shutdown: a stream that was opened after the sessions were closed, a stream whose client does not read, or an unanswered POST |
| `tool_exec` | 2 calls on Unix, with the default timeout rounded to a share below a second; 1 on Windows | limits of children and server, timeouts reported as such, starts not held up, deadlines stop processes; on Windows, nothing executes before its job is settled and a job leaves no descendants |
| `tool_exec_inherited` (violation) | 3 calls | an unprivileged server passes the limits of one tool on to the next |
| `tool_exec_timeout` (violation) | 2 calls | a call hangs beyond its timeout while a descendant holds the output pipe |
| `tool_loading` | 2 manifests of 8 kinds with 2 scripts of 4 kinds and 2 names; every launch that sets one variable in any way, every `-port` with every `JIG_SSE_PORT` | every name is served by the tool the precedence says, however probes race their timers; settings and tokens are those of the launch before the first listener opens; the server serves its transport or gives up for a reason that is named, although scripts hang |
| `audit_log` | 9 calls, one of them with an earlier second than the call before it, 2 slots, files of 2 lines, 3 files, 2 failures, 2 crashes, a tail and a limit of 2 lines | history in order, only the oldest missing, retention honoured, metrics kept until the first rotation; the dashboard shows no call twice and passes over only calls that lie before all it shows, in the file or by their second |
| `audit_retention` (violation) | 5 calls, 1 failure | one failing rename deletes a file within the retention count |

Bounds. Two concurrent requests are enough for every race between a request
and the shutdown and between two requests; three with two slots let one
wait, one run and one return. A buffer of one message is full and empty within
two sends; one of two holds an answer and the notice of the shutdown, whose
order a drain must keep. Two slots let two calls be audited and not yet counted
at one crash. Two starts show inheritance between calls, three with the strict
one first are used where all of memory, CPU and the rounding to one second
matter. Nine calls and files of two lines fill all four files of the default
retention and rotate once more; two failures and two crashes include a crash
during the rotation that follows a failed one. Two manifests and two scripts
suffice for every clash of names, as an entry interacts with another only
through a name both have. A setting interacts with no other but the two token
variables, the flag of the same setting and the layouts of the directory, so one variable at a time,
each in the environment and in `.env`, those pairs, and any disk with a plain
launch cover what a product of everything would. A body of two reads is shorter
than, at and beyond the limit. On Windows calls share nothing, so one at a time
suffices (`WindowsCalls`). A file may hold more lines than the tail, as failed
rotations let it grow. `MaxTroubles` keeps a request for the log out of states
after the last failure or crash, which halves the run: the reader has seen one
of them come while it was reading. No proof rests on any of these bounds: the
theorems hold for every number of requests, sessions, calls, files, failures,
crashes, manifests and scripts, and for every launch.

Fairness. ToolCall: the goroutine of a request is scheduled and its timer
fires; nothing about tools or clients. HttpTool: besides, the handler and the
timer of its context; nothing about the remote server. StdioServer: the main
goroutine only. SseServer: stream handlers, whose writes end unless the client has stopped
reading, and the main goroutine; nothing about POST handlers, whose tools may
hang, nor about clients, who may leave, stay or stop reading at any moment. ToolExec and JobObject:
the goroutines of the server; processes, their descendants and deadlines may
take for ever. Startup: the main goroutine and its timer, and the goroutine that
binds the port of SSE or fails to; the scripts may hang or never start. AuditLog has no
liveness: a write happens in its caller. Mutexes are contended
by finitely many goroutines that each release them, so weak fairness suffices.

What the violated properties mean is told in `PROJECT.json` under `findings`.
Further disagreements between the code and what is said of it were met that have
no run of their own:

* After a rotation `SeedMetricsFromLog` reads only `audit.jsonl`, so metrics do
  not survive a restart in full (dashboard.go:65), and `/api/logs` shows no call
  of a rotated file. `MetricsKeptBeforeRotation` and `LogsShowTheNewest` state what does hold.
* `/api/logs` sorts by the second: lines of one second are shown oldest first
  and the limit may cut the newest of them ("Reverse to get recent first",
  dashboard.go:549); and as the time is taken before the mutex (audit.go:331), a
  line near the end of the file may have an earlier second and be cut instead.
* Over SSE a tool whose POST was answered 503 is not waited for, since only stdio
  counts in `inflightTools` (main.go:230); `ExitCutsOffOnlyTimedOut` states what does hold.
* `/message` is not wrapped in `authenticate` (sse.go:263), so the caller of an
  SSE call is `unknown` in the audit log, not the token's name (README.md:395):
  `Caller` models it, and `ServedAsLaunched` speaks of clients of `/sse` only.
* `JIG_CONFIG_DIR` wins over `-config-dir` (main.go:101); example.env:28 gives
  the flag precedence. An invalid `JIG_SSE_PORT` discards the `-port` flag for the
  default (main.go:96). `ServedAsLaunched` states both as the code has them.
* Without a `WriteTimeout` (sse.go:265) a client that stays and does not read keeps
  the handler of its stream, and with it the shutdown, until the grace period ends
  (`stalled` in `ClosedStreamsEnd` and `HeldByClients`).
* `JIG_TOOL_TIMEOUT` is documented as the default timeout of all tools
  (README.md:383, example.env:21); it bounds the wait for a slot (request.go:136),
  while process tools without a timeout of their own have a constant
  (external.go:32).
* A blank `-config-dir` with nothing detected names a directory of blanks, while
  the log says that the working directory is used.

## 4. Proofs

`ToolCallProofs` proves for every set of requests and every positive
capacity, from the one assumption `SemaphoreSizeAssumption` (which
`initToolSemaphore` establishes); the set of requests may be infinite:

* `TypeCorrect`, `SlotsSafe`: the inductive invariant is `SlotsInv`, the type
  invariant with `semaphore = Cardinality(Holders)` and the bound. The bound
  alone is not inductive: that the deferred receive never goes below zero needs
  the equation, and the equation needs the set of holders to be finite, which
  is itself part of the invariant.
* `AuditAgrees`, `MetricsAgree`: the inductive invariant `BooksInv` ties, for
  each location of `pc`, what `result` and `audit` may be, and counts the calls
  between the two bookkeeping steps.
* `PoolRefined`: every step maps to a step of RequestPool or a stutter; the
  invariant `SlotsInv` gives `Cardinality(running) < Slots` for `Enter` and
  `= Slots` for `TurnAway`.

`ToolExecProofs` proves every safety property of the run `tool_exec`, for every
set of calls, whatever the manifests say, and whatever limits the server has at
first (`ConfigAssumption`, `InitLimitAssumption`: the soft limit is at most the
hard one, as the kernel ensures; `NobodyAssumption` is a choice of names):

* `CallsStartWithLimits`: what a call does to the limits is a step of
  StartWithLimits or nothing, so `LimitsInv` needs RLimit's steps alone.
* `NoChildLooser`, `ChildExact`, `LimitsRestored`: `LimitsInv` says who is
  between lock and unlock (exactly the holder of `rlimitMu`), and for each place
  of that holder what the limits of the server are. `ServerLimitsRestored` is
  not inductive: that the last `setrlimit` restores the limits rests on what was
  saved at the lock, several steps before. `NoChildLooser` holds without the
  privilege because a `setrlimit` that is refused was asked for more than there
  was (`SetrlimitLowers`).
* `TimeoutsTold`: `LifeOrdered` orders the life of a process
  (flags only after its end, reaped only after StartWithLimits has returned), and
  `NotForked` says where there is none yet; an answer then finds what became of
  the process.

`HttpToolProofs` builds on `ToolCallProofs`, for every set of HTTP calls and
every limit on the body (`HttpAssumption`):

* `HttpCallsAreCalls`: a step of HttpTool is a step of ToolCall or leaves its
  variables alone; hence `HttpCallsKeepBooks` gives slots, audit log, metrics
  and the refinement of RequestPool without a new invariant.
* `HttpAnswersComplete`: `AnswerInv` says for each stage of the exchange what
  status, body and result may be. That an exchange is over only once its call
  has left `running` is needed too: otherwise a later step could still change the result.

`JobObjectProofs` builds on `ToolExecProofs`:

* `JobsConfine`: `JobInv` ties `next`, the place in `StartWithLimits`, to the life
  of the process: API calls are made only for a started process of a call that
  is being handled, and a process is reaped only when they are all done.
  Without that a call could be answered, its job closed, and its process resumed
  afterwards.
* `TimeoutsToldAnywhere`, `LimitsAnywhere`: the platform never changes, and on
  unix every step is one of ToolExec or leaves its variables alone, and so keeps
  its invariant. On Windows the process is there before StartWithLimits has returned, so
  the order of fork and place (`NotForked`) fails; what the answers rest on
  (`AnswerInv`) does not need it, and the steps after the start keep it on both
  platforms by the same lemmas.

`StdioServerProofs` builds on `ToolCallProofs`, with no assumption of its own;
the set of lines may be infinite:

* `StdioCallsAreCalls`: a step of StdioServer is a step of ToolCall or leaves its
  variables alone, hence `StdioKeepsBooks`: slots, books and the refinement of
  RequestPool hold up to the exit.
* `StdioTypeCorrect`, `WaitGroupsCount`: `CountInv` is `WaitGroupsExact` with the
  finiteness of the two sets that are counted. Each `Done` takes away one that
  an `Add` has put there, so no counter goes below zero.
* `StdinLosesNothing`, `CountedAwaited`, `OrderlyEndNeverCrashes`: `OrderInv` ties
  the stage of each goroutine to the place of main. A counter at zero means
  nobody is in its stages (`ZeroMeansNobody`), and that stays so after the end of
  input because the reader has closed (`StdinDrained`), but not after a signal:
  there only the calls of the history variable `atWait` are known to be gone
  (`InflightAwaited`). `CallsSettled` joins the two modules: a call is under way
  only while the goroutine of its line is.

`SseServerProofs` builds on `ToolCallProofs`, for any sets of requests and
sessions and any positive buffer (`BufferSizeAssumption`; `NoMessageAssumption` is a choice of
names):

* `SseCallsAreCalls`, `SseKeepsBooks`: as for stdio.
* `SessionsExact`, `AcceptedKept`, `ExitCutsOff`, `StreamsDrainedAtEnd`: `SseInv`.
  A POST keeps its session while the stream's handler and `CloseAllSessions`
  change it, so `PostsOrdered` says what a handler may still rely on at each
  stage, and that TimeoutHandler has answered for all that run once `Shutdown`
  has found the connections idle. `StreamsDrained` is what `ShutdownDrainsStreams`
  needs before the end: what was in the channel is a contiguous part (`Within`)
  of what was delivered, the message in the hand of the handler (`Flushed`), and what
  is still in the channel. Taking a message and writing it only move the
  boundaries (`WriteKeepsWhole`); a handler blocked in a write moves nothing.

`AuditLogProofs` proves about AuditLog and DashboardLogs, for every retention,
size and set of long lines (`LimitsAssumption`, which the two getters establish;
`SlotsAssumption`, which `initToolSemaphore` does; `BoundsAssumption`,
`TailAssumption`; `SecondAssumption` only gives `Second` its type: no order of
the seconds is assumed). Files are changed in four ways only (`FileSteps`: removed, moved,
appended to, continued), each with a lemma on its effect:

* `LogInOrder`: `CallsOrdered` adds to `HistoryOrdered` that no line is of a later
  call than the one in progress. Renames keep the order whatever fails between
  them because each moves a file to the next number, whose own file is older.
* `OldestGoFirst`: `LogComplete`. Without failures a rename finds the next number
  free, so only the removal of the oldest file loses lines; with crashes that
  is the point of it, as a cut-off rotation leaves a gap and is begun again.
* `RetentionHonoured`: `Packed`, the rotated files are full and have no gap but
  the one that the rotation is moving down; the lines of full files are counted
  by an injection (`FullFilesRetained`).
* `MetricsSurviveRestart`: `MetricsKept` compares what was counted with what was
  written, off by the calls that are not yet counted (at most one for each slot)
  and by as many per crash; `AllSeeded` counts
  the lines that a restart finds by a bijection with the calls written.
* `LogsKeepTheLog`: a reader changes nothing of the log, so all of this holds
  while the dashboard reads.
* `ListShowsTheNewest`: `ReaderInv`. What was readable when the file was opened
  stays in it and readable, since the writer adds lines or continues one that no
  reader could read (`WriterGrows`, `GrowthKeepsReader`); a line too long that
  comes later lies behind all of that. `RanksOrdered` and `RanksTaken` say that
  the places of the list are taken by one line each, in the order of the sort;
  `ReplyIsRight` puts them together: a call that is not shown lies before the
  tail, and so before all that is shown in the file, or its place in the list is
  beyond the limit, and so its second is not later than any that is shown.

`StartupProofs` proves about ToolLoading and Startup, for any number of manifests
and scripts (`CountsAssumption`), any contents of the disk of the kinds in
`ManifestsAssumption` and `ScriptFilesAssumption`, and any launches of the type in
`WorldsAssumption`:

* `StartupLoadsTools`: Startup implements ToolLoading.
* `RegistryAlwaysExact`: `LoadInv`. `ProbesInOrder` says that a script which did
  not time out was settled when main went by it, so that a late answer has
  timed out for good; `RegistryInOrder` that `found` is the answers heard in the
  order of the directory, and that until they are registered the registry is
  what the manifests passed so far say.
* `ServesAsLaunched`: `SettingsInv` gives the value of each setting, and of the
  environment, at each place of `boot`, as a function of the launch alone; it holds
  nothing about a server that has failed but that it has no listeners.

Every property that a passing run checks is proved for every value of the
constants, except liveness, which is out of reach of the installed provers and
only model-checked: `AnsweredWhateverRemotesDo`, `ShutdownEnds`,
`BufferedIsDelivered`, `ClosedStreamsEnd`, `ShutdownHeldOnlyByClients`,
`StartsNotHeldUp`, `DeadlineStopsProcess`, `StartupEnds`.

## 5. Not modelled, and why

Contents of messages, JSON, log wording and HTML; string validation (allowlist,
URL prefixes, shell metacharacters), which is a verdict in the models; `/health`,
which changes nothing; of the endpoint event and the keep-alive comments anything
but that they may block; a client that does not read the few bytes of the response
to its own POST, and so could hold up `Shutdown` as one that does not read its
stream does;
errors of a listener after it was bound, which are like a signal (`BeginShutdown`);
the numbers of the limits on Windows,
which are in force or not; failures of `getrlimit`; the wrap-around of a memory
limit above 2^44 MB; two server processes sharing a log directory; SIGPIPE on
stdout; `-version`; logging, packaging and CI.

## 6. Plan

1. The safety part of the liveness properties: that a step which they wait for
   cannot be disabled again, and measures that such steps decrease.
2. What is left out of the transports: the shutdown of the dashboard's server
   beside the stdio shutdown, as a module of its own.
