--------------------------- MODULE DashboardLogs ---------------------------
(***************************************************************************)
(* The handler of /api/logs: getAuditLogs of internal/dashboard reads the  *)
(* tail of audit.jsonl while the writer of AuditLog appends to the file,   *)
(* renames it away and crashes.  The reader holds an open file: it keeps   *)
(* reading the file it has opened, under whatever name that file goes.     *)
(***************************************************************************)
EXTENDS AuditLog

CONSTANTS
  TailLines,   \* tailSize, in lines
  Limit,       \* the number of lines asked for
  MaxTroubles, \* bound: failures and crashes after which no request comes
  Second       \* the second in which each call is recorded

ASSUME TailAssumption == TailLines \in Nat \ {0} /\ Limit \in Nat \ {0}

\* Record takes the time before it waits for the mutex, so that the lines of
\* concurrent calls need not be in the order of their seconds.
ASSUME SecondAssumption == Second \in [1..MaxCalls -> Nat]

VARIABLES
  reader,   \* "idle", "scanning" or "replied"
  live,     \* the file that was opened is still audit.jsonl
  inode,    \* its lines
  from,     \* the first line the reader keeps
  known,    \* history: the calls that were readable in it when it was opened
  shown     \* the calls in the reply

readerVars == <<reader, live, inode, from, known, shown>>
logsVars == <<auditVars, readerVars>>

Nothing ==
  /\ live' = FALSE /\ inode' = <<>> /\ from' = 1 /\ known' = {} /\ shown' = <<>>

LogsInit ==
  /\ AuditInit
  /\ reader = "idle" /\ live = FALSE /\ inode = <<>> /\ from = 1
  /\ known = {} /\ shown = <<>>

\* What the writer does to the file that is open for reading.  A crash ends the
\* reader as well.
Writes ==
  /\ AuditNext
  /\ IF step' = "down" /\ step # "down" THEN reader' = "idle" /\ Nothing
     ELSE /\ live' = (live /\ (Absent(0) \/ content'[0] # <<>>))
          /\ inode' = IF live' THEN content'[0] ELSE inode
          /\ UNCHANGED <<reader, from, known, shown>>

-----------------------------------------------------------------------------

TooLong(line) == line.call \in LongCalls

\* The seek lands in the line before the last TailLines ones, or in a long one;
\* if it lands on the boundary between two lines, a whole line is taken for the
\* partial one.
FirstKept(lines) ==
  LET cut == {k \in DOMAIN lines : TooLong(lines[k]) \/ k <= Len(lines) - TailLines}
  IN  IF cut = {} THEN {1}
      ELSE LET k == CHOOSE k \in cut : \A l \in cut : l <= k IN {k + 1, k + 2}

ReadableIn(lines) == {line.call : line \in {l \in Range(lines) : l.form = "readable"}}

\* Open, Stat and Seek.  A file that does not exist is an empty list.
OpenLogs ==
  /\ reader = "idle" /\ step # "down" /\ faults + crashes < MaxTroubles
  /\ reader' = "scanning"
  /\ live' = (open \/ ~Absent(0))
  /\ inode' = content[0]
  /\ from' \in FirstKept(content[0])
  /\ known' = ReadableIn(content[0])
  /\ UNCHANGED <<auditVars, shown>>

\* The lines the scanner finds before it meets one that is too long.
Scan(lines) ==
  LET tail == SubSeq(lines, from, Len(lines))
      long == {k \in DOMAIN tail : TooLong(tail[k])}
  IN  IF long = {} THEN tail
      ELSE SubSeq(tail, 1, (CHOOSE k \in long : \A l \in long : k <= l) - 1)

Parsed(tail) == {k \in DOMAIN tail : tail[k].form = "readable"}

\* The lines that come before line k in the list: later seconds first, lines of
\* one second in file order.
Above(tail, k) ==
  {l \in Parsed(tail) :
     \/ Second[tail[l].call] > Second[tail[k].call]
     \/ Second[tail[l].call] = Second[tail[k].call] /\ l < k}

\* The lines that parse, sorted and cut off at the limit.
Recent(lines) ==
  LET tail  == Scan(lines)
      count == Cardinality(Parsed(tail))
      at(i) == CHOOSE k \in Parsed(tail) : Cardinality(Above(tail, k)) = i - 1
  IN  [i \in 1..(IF count > Limit THEN Limit ELSE count) |-> tail[at(i)].call]

\* Variant that opens the file again, by its name, after it has measured it.
ReplyByName ==
  /\ reader = "scanning"
  /\ shown' = Recent(content[0])
  /\ reader' = "replied"
  /\ UNCHANGED <<auditVars, live, inode, from, known>>

\* The scan to the end of the file, the sort and the limit.
Reply ==
  /\ reader = "scanning"
  /\ shown' = Recent(inode)
  /\ reader' = "replied"
  /\ UNCHANGED <<auditVars, live, inode, from, known>>

\* The handler returns; the next request starts afresh.
CloseLogs ==
  /\ reader = "replied"
  /\ reader' = "idle"
  /\ Nothing
  /\ UNCHANGED auditVars

LogsNext == Writes \/ OpenLogs \/ Reply \/ CloseLogs

LogsSpec == LogsInit /\ [][LogsNext]_logsVars

-----------------------------------------------------------------------------

LogsTypeOK ==
  /\ AuditTypeOK
  /\ reader \in {"idle", "scanning", "replied"}
  /\ live \in BOOLEAN
  /\ Range(inode) \subseteq Lines
  /\ from \in 1..Len(inode) + 2
  /\ known \subseteq 1..MaxCalls
  /\ Range(shown) \subseteq 1..MaxCalls /\ Len(shown) <= Limit

(***************************************************************************)
(* However rotations, appends and failed writes interleave with the        *)
(* reading, the dashboard shows no call twice, and later seconds first.  A *)
(* call that was in the log when the request came and is not shown lies    *)
(* before all that are shown, in the file or by its second.  A file that   *)
(* fits into the tail and has no damaged or oversized line is shown whole, *)
(* up to the limit.                                                        *)
(***************************************************************************)
LogsShowTheNewest ==
  reader = "replied" =>
    /\ \A k, l \in DOMAIN shown :
         k < l => shown[k] # shown[l] /\ Second[shown[k]] >= Second[shown[l]]
    /\ \A n \in known \ Range(shown) :
         \/ \A m \in Range(shown) : Second[m] >= Second[n]
         \/ \A m \in Range(shown) : m > n
    /\ /\ Len(inode) <= TailLines /\ Len(shown) < Limit
       /\ \A line \in Range(inode) : line.form = "readable" /\ ~TooLong(line)
       => known \subseteq Range(shown)

=============================================================================
