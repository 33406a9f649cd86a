------------------------------ MODULE AuditLog ------------------------------
(***************************************************************************)
(* The audit log of internal/audit/audit.go: lines appended to             *)
(* audit.jsonl, which is renamed to audit.jsonl.1 when it is full, the     *)
(* older files shifted up by one, and the oldest removed; and the seeding  *)
(* of the dashboard's metrics from it (SeedMetricsFromLog) at startup.     *)
(* Every file operation may fail, and the process may crash between any    *)
(* two of them.  The mutex of auditWriter makes the writer sequential; the *)
(* counting of a call comes after it, in the goroutine of the call, which  *)
(* holds one of the slots of the request processor until then.             *)
(***************************************************************************)
EXTENDS Integers, Sequences, FiniteSets, Functions

CONSTANTS
  MaxFiles,    \* logMaxFiles: rotated files to keep
  MaxLines,    \* logMaxSizeBytes, in lines
  Slots,       \* capacity of the request processor's semaphore
  LongCalls,   \* calls whose line is longer than a bufio.Scanner takes
  MaxCalls,    \* bound: number of tool calls
  MaxFaults,   \* bound: number of file operations that fail
  MaxCrashes   \* bound: number of crashes

\* The two getters replace every configured value below one by a default.
ASSUME LimitsAssumption == MaxFiles \in Nat \ {0} /\ MaxLines \in Nat \ {0}

\* initToolSemaphore takes no capacity below one.
ASSUME SlotsAssumption == Slots \in Nat \ {0}

ASSUME BoundsAssumption == MaxCalls \in Nat /\ MaxFaults \in Nat /\ MaxCrashes \in Nat

VARIABLES
  content,   \* content[0] is audit.jsonl, content[i] is audit.jsonl.i
  step,      \* what the writer does next
  shifting,  \* the file to be renamed when step is "shift"
  open,      \* whether w.file is open
  call,      \* the calls that had the mutex so far; the last may still have it
  uncounted, \* how many have returned from Record and are not yet counted
  metrics,   \* total Count of the metrics store
  faults,    \* failures so far
  crashes,   \* crashes so far
  written,   \* history: the calls whose line was written
  counted    \* history: the calls of RecordMetric

auditVars == <<content, step, shifting, open, call, uncounted, metrics, faults,
               crashes, written, counted>>

Files == 0..MaxFiles

\* A file is its lines.  A line is readable, or cut off by a failed write and
\* not terminated, or glued to the remains of the one before.
Lines == [call : 1..MaxCalls, form : {"readable", "torn", "glued"}]

Steps == {"down", "idle", "remove", "shift", "renameBase", "reopen", "append"}

\* A file that does not exist has no lines; a rotated file that exists has some.
Absent(i) == content[i] = <<>>

AuditInit ==
  /\ content = [i \in Files |-> <<>>]
  /\ step = "idle"
  /\ shifting = 0
  /\ open = TRUE
  /\ call = 0
  /\ uncounted = 0
  /\ metrics = 0
  /\ faults = 0
  /\ crashes = 0
  /\ written = {}
  /\ counted = 0

\* An operation succeeds with the effect given, or fails and has the other.
Try(success, failure) ==
  \/ /\ success
     /\ UNCHANGED faults
  \/ /\ failure
     /\ faults < MaxFaults
     /\ faults' = faults + 1

-----------------------------------------------------------------------------
(* auditWriter.write                                                       *)

\* The mutex is released, and Record returns.
Unlock == step' = "idle" /\ uncounted' = uncounted + 1

Locked(next) == step' = next /\ UNCHANGED uncounted

\* Lock; open the file if it is not open, and close it for a rotation if it is
\* full.  The calls that are not yet counted hold their slots.
Write ==
  /\ step = "idle"
  /\ call < MaxCalls /\ uncounted < Slots
  /\ call' = call + 1
  /\ \/ /\ ~open /\ faults < MaxFaults          \* the line is lost
        /\ faults' = faults + 1
        /\ Unlock
        /\ UNCHANGED open
     \/ /\ Len(content[0]) >= MaxLines
        /\ Locked("remove")
        /\ open' = FALSE
        /\ UNCHANGED faults
     \/ /\ Len(content[0]) < MaxLines
        /\ Locked("append")
        /\ open' = TRUE
        /\ UNCHANGED faults
  /\ UNCHANGED <<content, shifting, metrics, crashes, written, counted>>

\* Variant whose loop starts at the oldest file.
RemoveOldestOneMore ==
  /\ step = "remove"
  /\ Try(content' = [content EXCEPT ![MaxFiles] = <<>>], UNCHANGED content)
  /\ shifting' = MaxFiles
  /\ Locked(IF shifting' >= 1 THEN "shift" ELSE "renameBase")
  /\ UNCHANGED <<open, call, metrics, crashes, written, counted>>

\* rotate: w.root.Remove(oldest)
RemoveOldest ==
  /\ step = "remove"
  /\ Try(content' = [content EXCEPT ![MaxFiles] = <<>>], UNCHANGED content)
  /\ shifting' = MaxFiles - 1
  /\ Locked(IF shifting' >= 1 THEN "shift" ELSE "renameBase")
  /\ UNCHANGED <<open, call, metrics, crashes, written, counted>>

\* A rename replaces the file of the new name.
Rename(src, dst) ==
  content' = IF Absent(src) THEN content
             ELSE [content EXCEPT ![src] = <<>>, ![dst] = content[src]]

\* Variant that shifts the files in ascending order.
ShiftAscending ==
  /\ step = "shift"
  /\ Try(Rename(MaxFiles - shifting, MaxFiles - shifting + 1), UNCHANGED content)
  /\ shifting' = shifting - 1
  /\ Locked(IF shifting' >= 1 THEN "shift" ELSE "renameBase")
  /\ UNCHANGED <<open, call, metrics, crashes, written, counted>>

\* Variant that skips a number.
ShiftTooFar ==
  /\ step = "shift"
  /\ Try(Rename(shifting - 1, shifting + 1), UNCHANGED content)
  /\ shifting' = shifting - 1
  /\ Locked(IF shifting' >= 1 THEN "shift" ELSE "renameBase")
  /\ UNCHANGED <<open, call, metrics, crashes, written, counted>>

\* One iteration of the loop: .i -> .i+1
Shift ==
  /\ step = "shift"
  /\ Try(Rename(shifting, shifting + 1), UNCHANGED content)
  /\ shifting' = shifting - 1
  /\ Locked(IF shifting' >= 1 THEN "shift" ELSE "renameBase")
  /\ UNCHANGED <<open, call, metrics, crashes, written, counted>>

RenameBase ==
  /\ step = "renameBase"
  /\ Try(Rename(0, 1), UNCHANGED content)
  /\ Locked("reopen")
  /\ UNCHANGED <<shifting, open, call, metrics, crashes, written, counted>>

\* When the fresh file cannot be opened, the write to a nil file loses the line.
Reopen ==
  /\ step = "reopen"
  /\ Try(open' = TRUE /\ Locked("append"), UNCHANGED open /\ Unlock)
  /\ UNCHANGED <<content, shifting, call, metrics, crashes, written, counted>>

Appended(form) ==
  content' = [content EXCEPT ![0] = Append(@, [call |-> call, form |-> form])]

EndsTorn ==
  ~Absent(0) /\ content[0][Len(content[0])].form = "torn"

\* The line continues an unterminated one: together they are one line.
Glue(form) ==
  content' = [content EXCEPT ![0] =
                [@ EXCEPT ![Len(@)] = [call |-> call, form |-> form]]]

\* A write that fails may have written a part of the line.
AppendLine ==
  /\ step = "append"
  /\ Unlock
  /\ IF EndsTorn
     THEN /\ Try(Glue("glued"), Glue("torn") \/ UNCHANGED content)
          /\ UNCHANGED written
     ELSE Try(Appended("readable") /\ written' = written \cup {call},
              (Appended("torn") \/ UNCHANGED content) /\ UNCHANGED written)
  /\ UNCHANGED <<shifting, open, call, metrics, crashes, counted>>

\* OnToolCall, after audit.Record has returned, whatever the writer does for
\* other calls meanwhile.
RecordMetric ==
  /\ step # "down"
  /\ uncounted > 0
  /\ uncounted' = uncounted - 1
  /\ metrics' = metrics + 1
  /\ counted' = counted + 1
  /\ UNCHANGED <<content, step, shifting, open, call, faults, crashes, written>>

-----------------------------------------------------------------------------
(* The end of the process, at any point, and the next start.               *)

Crash ==
  /\ step # "down"
  /\ crashes < MaxCrashes
  /\ crashes' = crashes + 1
  /\ step' = "down"
  /\ open' = FALSE
  /\ uncounted' = 0
  /\ metrics' = 0
  /\ UNCHANGED <<content, shifting, call, faults, written, counted>>

\* The positions of audit.jsonl that the scanner gets to: it stops at the
\* first line that is too long.
Scanned ==
  {k \in 1..Len(content[0]) :
     \A l \in 1..k : content[0][l].call \notin LongCalls}

\* Variant that starts without seeding.
RestartUnseeded ==
  /\ step = "down"
  /\ step' = "idle"
  /\ open' = TRUE
  /\ UNCHANGED <<content, shifting, call, uncounted, metrics, faults, crashes,
                 written, counted>>

\* Variant that opens the log with O_TRUNC.
RestartTruncating ==
  /\ step = "down"
  /\ step' = "idle"
  /\ open' = TRUE
  /\ content' = [content EXCEPT ![0] = <<>>]
  /\ metrics' = 0
  /\ UNCHANGED <<shifting, call, uncounted, faults, crashes, written, counted>>

\* audit.Init opens the log; SeedMetricsFromLog counts the readable lines.
Restart ==
  /\ step = "down"
  /\ step' = "idle"
  /\ open' = TRUE
  /\ metrics' = Cardinality({k \in Scanned : content[0][k].form = "readable"})
  /\ UNCHANGED <<content, shifting, call, uncounted, faults, crashes, written,
                 counted>>

-----------------------------------------------------------------------------

\* All calls of the instance have been made.
Done == step = "idle" /\ call = MaxCalls /\ uncounted = 0 /\ UNCHANGED auditVars

AuditNext ==
  \/ Write
  \/ RemoveOldest \/ Shift \/ RenameBase \/ Reopen
  \/ AppendLine
  \/ RecordMetric
  \/ Crash \/ Restart
  \/ Done

AuditSpec == AuditInit /\ [][AuditNext]_auditVars

-----------------------------------------------------------------------------

AuditTypeOK ==
  /\ DOMAIN content = Files
  /\ \A i \in Files : Range(content[i]) \subseteq Lines
  /\ step \in Steps
  /\ shifting \in 0..MaxFiles - 1
  /\ open \in BOOLEAN
  /\ call \in 0..MaxCalls
  /\ uncounted \in 0..Slots
  /\ metrics \in Nat
  /\ faults \in 0..MaxFaults
  /\ crashes \in 0..MaxCrashes
  /\ written \subseteq 1..MaxCalls
  /\ counted \in Nat

\* File i, line k comes before file j, line l in the history.
Before(i, k, j, l) == i > j \/ (i = j /\ k < l)

(***************************************************************************)
(* Whatever operation fails and wherever the process crashes in the middle *)
(* of a rotation, the files read from the oldest to audit.jsonl give the   *)
(* calls in the order they were made, and none twice.                      *)
(***************************************************************************)
HistoryOrdered ==
  \A i, j \in Files :
    \A k \in 1..Len(content[i]), l \in 1..Len(content[j]) :
      Before(i, k, j, l) => content[i][k].call < content[j][l].call

Retained ==
  {n \in 1..MaxCalls :
     \E i \in Files : [call |-> n, form |-> "readable"] \in Range(content[i])}

(***************************************************************************)
(* As long as the file operations succeed, what is missing from the log is *)
(* older than all that is in it, however often the process crashed.        *)
(***************************************************************************)
OnlyOldestMissing ==
  faults = 0 =>
    \A m \in Retained, n \in written : n > m => n \in Retained

\* Nothing is missing, or as many lines as MaxFiles full files hold are there.
RetentionKept ==
  written \subseteq Retained \/ Cardinality(Retained) >= MaxFiles * MaxLines

(***************************************************************************)
(* Without failures and crashes, the log never holds less than the         *)
(* retention promises, nor a file more than its limit.                     *)
(***************************************************************************)
RotationHonoursRetention ==
  faults = 0 /\ crashes = 0 =>
    /\ RetentionKept
    /\ \A i \in Files : Len(content[i]) <= MaxLines

(***************************************************************************)
(* README: "The oldest file beyond the retention count is deleted."        *)
(***************************************************************************)
OnlyBeyondRetentionDeleted == RetentionKept

(***************************************************************************)
(* Until the first rotation, and with lines of ordinary length, a restart  *)
(* keeps the metrics: no call that was counted is forgotten, and no more   *)
(* are added than were between Record and OnToolCall at a crash, which are *)
(* as many as there are slots.                                             *)
(***************************************************************************)
MetricsKeptBeforeRotation ==
  (/\ step # "down"
   /\ faults = 0
   /\ written \cap LongCalls = {}
   /\ \A n \in written : [call |-> n, form |-> "readable"] \in Range(content[0]))
  => counted <= metrics /\ metrics <= counted + Slots * crashes

=============================================================================
