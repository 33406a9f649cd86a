--------------------------- MODULE AuditLogProofs ---------------------------
(***************************************************************************)
(* Proofs about AuditLog and DashboardLogs, for every retention, every     *)
(* limit of a file, and any number of calls, failures and crashes.         *)
(***************************************************************************)
EXTENDS DashboardLogs, FiniteSetTheorems, SequenceTheorems, WellFoundedInduction, TLAPS

-----------------------------------------------------------------------------
(* Types, and where the writer is.                                         *)

\* The call whose line is still to be written is in progress.
InProgress == {"remove", "shift", "renameBase", "reopen", "append"}

\* AuditTypeOK with the files as sequences, and what the steps tell.
AuditTypes ==
  /\ AuditTypeOK
  /\ content \in [Files -> Seq(Lines)]
  /\ step = "shift" => shifting >= 1
  /\ step = "renameBase" => shifting = 0
  /\ step \in InProgress => call >= 1 /\ uncounted < Slots
  /\ step = "down" => uncounted = 0

LEMMA LinesOf ==
  ASSUME content \in [Files -> Seq(Lines)], NEW i \in Files
  PROVE  /\ content[i] \in Seq(Lines) /\ Len(content[i]) \in Nat
         /\ \A k \in 1..Len(content[i]) : content[i][k] \in Lines
         /\ Range(content[i]) = {content[i][k] : k \in 1..Len(content[i])}
         /\ Absent(i) <=> Len(content[i]) = 0
<1>1. content[i] \in Seq(Lines)
  OBVIOUS
<1> QED
  BY <1>1, LenProperties, ElementOfSeq, RangeEquality, EmptySeq DEF Absent

LEMMA LineFields ==
  ASSUME content \in [Files -> Seq(Lines)], NEW i \in Files, NEW k \in 1..Len(content[i])
  PROVE  /\ content[i][k].call \in 1..MaxCalls /\ content[i][k].call \in Nat
         /\ content[i][k].form \in {"readable", "torn", "glued"}
         /\ content[i][k] = [call |-> content[i][k].call, form |-> content[i][k].form]
<1>1. content[i][k] \in Lines
  BY LinesOf
<1> QED
  BY <1>1, BoundsAssumption DEF Lines

\* The files a rotation renames: s becomes s + 1.
Moved(s) ==
  /\ content' = [content EXCEPT ![s] = <<>>, ![s + 1] = content[s]]
  /\ s \in 0..MaxFiles - 1

LEMMA MoveEffect ==
  ASSUME content \in [Files -> Seq(Lines)], NEW s, Moved(s)
  PROVE  /\ s \in Files /\ s + 1 \in Files /\ s \in Nat
         /\ content' \in [Files -> Seq(Lines)]
         /\ content'[s] = <<>> /\ content'[s + 1] = content[s]
         /\ \A i \in Files \ {s, s + 1} : content'[i] = content[i]
<1>1. s \in Files /\ s + 1 \in Files /\ s \in Nat /\ s + 1 # s
  BY LimitsAssumption DEF Moved, Files
<1>2. <<>> \in Seq(Lines) /\ content[s] \in Seq(Lines)
  BY <1>1, EmptySeq
<1> DEFINE e == <<>>
<1>3. content' = [content EXCEPT ![s] = e, ![s + 1] = content[s]]
  BY DEF Moved
<1> HIDE DEF e
<1>4. /\ content' \in [Files -> Seq(Lines)]
      /\ content'[s] = e /\ content'[s + 1] = content[s]
      /\ \A i \in Files \ {s, s + 1} : content'[i] = content[i]
  BY <1>1, <1>2, <1>3 DEF e
<1> QED
  BY <1>1, <1>4 DEF e

\* The oldest file is removed.
Removed ==
  content' = [content EXCEPT ![MaxFiles] = <<>>]

LEMMA RemoveEffect ==
  ASSUME content \in [Files -> Seq(Lines)], Removed
  PROVE  /\ MaxFiles \in Files /\ MaxFiles \in Nat \ {0}
         /\ content' \in [Files -> Seq(Lines)]
         /\ content'[MaxFiles] = <<>>
         /\ \A i \in Files \ {MaxFiles} : content'[i] = content[i]
<1>1. MaxFiles \in Files /\ MaxFiles \in Nat \ {0} /\ <<>> \in Seq(Lines)
  BY LimitsAssumption, EmptySeq DEF Files
<1> DEFINE e == <<>>
<1>2. content' = [content EXCEPT ![MaxFiles] = e]
  BY DEF Removed
<1> HIDE DEF e
<1>3. /\ content' \in [Files -> Seq(Lines)]
      /\ content'[MaxFiles] = e
      /\ \A i \in Files \ {MaxFiles} : content'[i] = content[i]
  BY <1>1, <1>2 DEF e
<1> QED
  BY <1>1, <1>3 DEF e

\* audit.jsonl gets a line, or its last line is continued.
LEMMA AppendEffect ==
  ASSUME content \in [Files -> Seq(Lines)], call \in 1..MaxCalls,
         NEW form \in {"readable", "torn"}, Appended(form)
  PROVE  /\ content' \in [Files -> Seq(Lines)]
         /\ Len(content'[0]) = Len(content[0]) + 1
         /\ content'[0][Len(content[0]) + 1] = [call |-> call, form |-> form]
         /\ \A k \in 1..Len(content[0]) : content'[0][k] = content[0][k]
         /\ \A i \in Files \ {0} : content'[i] = content[i]
<1> DEFINE line == [call |-> call, form |-> form]
<1> DEFINE file == Append(content[0], line)
<1>1. 0 \in Files /\ line \in Lines
  BY LimitsAssumption DEF Files, Lines
<1>2. content[0] \in Seq(Lines)
  BY <1>1
<1>3. content' = [content EXCEPT ![0] = file]
  BY DEF Appended
<1> HIDE DEF line
<1>4. /\ file \in Seq(Lines) /\ Len(file) = Len(content[0]) + 1
      /\ \A k \in 1..Len(content[0]) : file[k] = content[0][k]
      /\ file[Len(content[0]) + 1] = line
  BY <1>1, <1>2, AppendProperties
<1> HIDE DEF file
<1>5. /\ content' \in [Files -> Seq(Lines)] /\ content'[0] = file
      /\ \A i \in Files \ {0} : content'[i] = content[i]
  BY <1>1, <1>3, <1>4
<1> QED
  BY <1>4, <1>5 DEF line

LEMMA GlueEffect ==
  ASSUME content \in [Files -> Seq(Lines)], call \in 1..MaxCalls, EndsTorn,
         NEW form \in {"glued", "torn"}, Glue(form)
  PROVE  /\ content' \in [Files -> Seq(Lines)]
         /\ Len(content[0]) >= 1 /\ Len(content'[0]) = Len(content[0])
         /\ content[0][Len(content[0])].form = "torn"
         /\ content'[0][Len(content[0])] = [call |-> call, form |-> form]
         /\ \A k \in 1..Len(content[0]) - 1 : content'[0][k] = content[0][k]
         /\ \A i \in Files \ {0} : content'[i] = content[i]
<1> DEFINE line == [call |-> call, form |-> form]
<1> DEFINE n == Len(content[0])
<1> DEFINE file == [content[0] EXCEPT ![n] = line]
<1>1. 0 \in Files /\ line \in Lines
  BY LimitsAssumption DEF Files, Lines
<1>2. content[0] \in Seq(Lines) /\ n \in Nat \ {0} /\ content[0][n].form = "torn"
  BY <1>1, EmptySeq DEF EndsTorn, Absent
<1>3. content' = [content EXCEPT ![0] = file]
  BY DEF Glue
<1> HIDE DEF line
<1>4. n \in 1..n
  BY <1>2
<1>5. /\ file \in Seq(Lines) /\ Len(file) = n
      /\ \A k \in 1..n : file[k] = IF k = n THEN line ELSE content[0][k]
  BY <1>1, <1>2, <1>4, ExceptSeq
<1> HIDE DEF file
<1>6. /\ content' \in [Files -> Seq(Lines)] /\ content'[0] = file
      /\ \A i \in Files \ {0} : content'[i] = content[i]
  BY <1>1, <1>3, <1>5
<1>7. file[n] = line /\ \A k \in 1..n - 1 : file[k] = content[0][k]
  BY <1>2, <1>5
<1> QED
  BY <1>2, <1>5, <1>6, <1>7 DEF line

\* What a step does to the files.
LEMMA FileSteps ==
  ASSUME AuditTypes, [AuditNext]_auditVars
  PROVE  \/ UNCHANGED content
         \/ step = "remove" /\ Removed
         \/ step = "shift" /\ Moved(shifting)
         \/ step = "renameBase" /\ Moved(0)
         \/ step = "append" /\ \E form \in {"readable", "torn"} : Appended(form)
         \/ step = "append" /\ EndsTorn /\ \E form \in {"glued", "torn"} : Glue(form)
<1>1. shifting \in 0..MaxFiles - 1 /\ MaxFiles \in Nat \ {0}
  BY LimitsAssumption DEF AuditTypes, AuditTypeOK
<1>2. CASE RemoveOldest
  BY <1>2 DEF RemoveOldest, Try, Removed
<1>3. CASE Shift
  BY <1>1, <1>3 DEF Shift, Try, Rename, Moved
<1>4. CASE RenameBase
  BY <1>1, <1>4 DEF RenameBase, Try, Rename, Moved
<1>5. CASE AppendLine
  BY <1>5 DEF AppendLine, Try
<1>6. CASE Write \/ Reopen \/ RecordMetric \/ Crash \/ Restart
  BY <1>6 DEF Write, Reopen, Try, RecordMetric, Crash, Restart
<1>7. CASE Done \/ UNCHANGED auditVars
  BY <1>7 DEF Done, auditVars
<1> QED
  BY <1>2, <1>3, <1>4, <1>5, <1>6, <1>7 DEF AuditNext

LEMMA TypesStep ==
  ASSUME AuditTypes, [AuditNext]_auditVars
  PROVE  AuditTypes'
<1> USE DEF AuditTypes, InProgress
<1>0. /\ content \in [Files -> Seq(Lines)]
      /\ step \in Steps /\ shifting \in 0..MaxFiles - 1 /\ open \in BOOLEAN
      /\ call \in 0..MaxCalls /\ metrics \in Nat /\ faults \in 0..MaxFaults
      /\ crashes \in 0..MaxCrashes /\ written \subseteq 1..MaxCalls /\ counted \in Nat
      /\ step = "shift" => shifting >= 1
      /\ step = "renameBase" => shifting = 0
      /\ step \in InProgress => call >= 1 /\ uncounted < Slots
      /\ step = "down" => uncounted = 0
      /\ uncounted \in 0..Slots /\ Slots \in Nat \ {0}
      /\ MaxFiles \in Nat \ {0} /\ MaxCalls \in Nat /\ MaxFaults \in Nat /\ MaxCrashes \in Nat
  BY LimitsAssumption, SlotsAssumption, BoundsAssumption DEF AuditTypeOK
<1>1. content' \in [Files -> Seq(Lines)]
  <2>1. ASSUME step = "append"
        PROVE  call \in 1..MaxCalls
    BY <1>0, <2>1
  <2> QED
    BY <1>0, <2>1, FileSteps, RemoveEffect, MoveEffect, AppendEffect, GlueEffect
<1>2. /\ DOMAIN content' = Files
      /\ \A i \in Files : Range(content'[i]) \subseteq Lines
  BY <1>1, RangeOfSeq
<1>3. faults' \in 0..MaxFaults
  BY <1>0 DEF AuditNext, auditVars, Try, Write, RemoveOldest, Shift, RenameBase, Reopen, AppendLine,
              RecordMetric, Crash, Restart, Done
<1>4. /\ step' \in Steps /\ shifting' \in 0..MaxFiles - 1 /\ open' \in BOOLEAN
      /\ call' \in 0..MaxCalls /\ crashes' \in 0..MaxCrashes
      /\ written' \subseteq 1..MaxCalls /\ counted' \in Nat
      /\ step' = "shift" => shifting' >= 1
      /\ step' = "renameBase" => shifting' = 0
      /\ uncounted' \in 0..Slots
      /\ step' \in InProgress => call' >= 1 /\ uncounted' < Slots
      /\ step' = "down" => uncounted' = 0
  <2> USE DEF Steps, Unlock, Locked
  <2>1. CASE Write
    <3>1. /\ call < MaxCalls /\ call' = call + 1 /\ uncounted < Slots
          /\ \/ step' = "idle" /\ uncounted' = uncounted + 1
             \/ step' \in {"remove", "append"} /\ uncounted' = uncounted
          /\ open' \in BOOLEAN
          /\ UNCHANGED <<shifting, crashes, written, counted>>
      BY <1>0, <2>1 DEF Write
    <3>2. call' \in 0..MaxCalls /\ call' >= 1
      BY <1>0, <3>1
    <3> QED
      BY <1>0, <3>1, <3>2
  <2>2. CASE RemoveOldest
    BY <1>0, <2>2 DEF RemoveOldest
  <2>3. CASE Shift
    BY <1>0, <2>3 DEF Shift
  <2>4. CASE RenameBase
    BY <1>0, <2>4 DEF RenameBase
  <2>5. CASE Reopen
    <3>1. /\ step = "reopen"
          /\ \/ step' = "append" /\ uncounted' = uncounted /\ open' = TRUE
             \/ step' = "idle" /\ uncounted' = uncounted + 1 /\ open' = open
          /\ UNCHANGED <<shifting, call, crashes, written, counted>>
      BY <2>5 DEF Reopen, Try
    <3>2. step \in InProgress
      BY <3>1
    <3>3. uncounted' \in 0..Slots /\ (step' \in InProgress => call' >= 1 /\ uncounted' < Slots)
      BY <1>0, <3>1, <3>2
    <3> QED
      BY <1>0, <3>1, <3>3
  <2>6. CASE AppendLine
    <3>1. /\ step = "append" /\ step' = "idle" /\ uncounted' = uncounted + 1
          /\ written' \in {written, written \cup {call}}
          /\ UNCHANGED <<shifting, open, call, crashes, counted>>
      BY <2>6 DEF AppendLine, Try
    <3>2. call \in 1..MaxCalls
      BY <1>0, <3>1
    <3> QED
      BY <1>0, <3>1, <3>2
  <2>7. CASE RecordMetric
    BY <1>0, <2>7 DEF RecordMetric
  <2>8. CASE Crash \/ Restart
    <3>1. /\ \/ step' = "down" /\ uncounted' = 0
             \/ step' = "idle" /\ uncounted' = uncounted
          /\ open' \in BOOLEAN
          /\ \/ crashes' = crashes
             \/ crashes < MaxCrashes /\ crashes' = crashes + 1
          /\ UNCHANGED <<shifting, call, written, counted>>
      BY <2>8 DEF Crash, Restart
    <3>2. crashes' \in 0..MaxCrashes
      BY <1>0, <3>1
    <3> QED
      BY <1>0, <3>1, <3>2
  <2>9. CASE Done \/ UNCHANGED auditVars
    BY <1>0, <2>9 DEF Done, auditVars
  <2> QED
    BY <2>1, <2>2, <2>3, <2>4, <2>5, <2>6, <2>7, <2>8, <2>9 DEF AuditNext
<1>5. metrics' \in Nat
  <2>1. CASE Restart
    <3> DEFINE seen == {k \in Scanned : content[0][k].form = "readable"}
    <3>1. 0 \in Files
      BY <1>0 DEF Files
    <3>2. Len(content[0]) \in Nat
      BY <1>0, <3>1, LinesOf
    <3>3. seen \subseteq 1..Len(content[0])
      BY DEF Scanned
    <3> HIDE DEF seen
    <3>4. IsFiniteSet(seen)
      <4>1. IsFiniteSet(1..Len(content[0]))
        BY <3>2, FS_Interval
      <4> QED
        BY <3>3, <4>1, FS_Subset
    <3> QED
      BY <2>1, <3>4, FS_CardinalityType DEF Restart, seen
  <2>2. CASE ~Restart
    BY <1>0, <2>2
    DEF AuditNext, auditVars, Write, RemoveOldest, Shift, RenameBase, Reopen, AppendLine,
        RecordMetric, Crash, Done
  <2> QED
    BY <2>1, <2>2
<1> QED
  BY <1>1, <1>2, <1>3, <1>4, <1>5 DEF AuditTypeOK

LEMMA TypesInitially ==
  ASSUME AuditInit
  PROVE  AuditTypes
<1> DEFINE e == <<>>
<1>1. content = [i \in Files |-> e] /\ e \in Seq(Lines)
  BY EmptySeq DEF AuditInit
<1> HIDE DEF e
<1>2. content \in [Files -> Seq(Lines)]
  BY <1>1
<1>3. \A i \in Files : Range(content[i]) \subseteq Lines
  BY <1>2, RangeOfSeq
<1> QED
  BY <1>2, <1>3, LimitsAssumption, SlotsAssumption, BoundsAssumption
  DEF AuditInit, AuditTypes, AuditTypeOK, Steps, InProgress

LEMMA TypesAlways == AuditSpec => []AuditTypes
<1>1. AuditInit => AuditTypes
  BY TypesInitially
<1>2. AuditTypes /\ [AuditNext]_auditVars => AuditTypes'
  BY TypesStep
<1> QED
  BY <1>1, <1>2, PTL DEF AuditSpec

(***************************************************************************)
(* The variables keep their types, whatever fails and wherever the process *)
(* crashes.                                                                *)
(***************************************************************************)
THEOREM AuditTypeCorrect == AuditSpec => []AuditTypeOK
<1>1. AuditTypes => AuditTypeOK
  BY DEF AuditTypes
<1> QED
  BY <1>1, TypesAlways, PTL

-----------------------------------------------------------------------------
(* The order of the log.                                                   *)

\* No line is of a call that has not been made, nor of the one whose line is
\* still to be written.
CallsOrdered ==
  /\ HistoryOrdered
  /\ \A i \in Files : \A k \in 1..Len(content[i]) :
       /\ content[i][k].call <= call
       /\ step \in InProgress => content[i][k].call < call
  /\ \A n \in written : n <= call /\ (step \in InProgress => n < call)

LEMMA OrderedAfterRemove ==
  ASSUME content \in [Files -> Seq(Lines)], HistoryOrdered, Removed
  PROVE  HistoryOrdered'
<1>1. content'[MaxFiles] = <<>> /\ \A i \in Files \ {MaxFiles} : content'[i] = content[i]
  BY RemoveEffect
<1>2. Len(<<>>) = 0
  BY EmptySeq
<1> SUFFICES ASSUME NEW i \in Files, NEW j \in Files,
                    NEW k \in 1..Len(content'[i]), NEW l \in 1..Len(content'[j]),
                    Before(i, k, j, l)
             PROVE  content'[i][k].call < content'[j][l].call
  BY DEF HistoryOrdered
<1>3. i # MaxFiles /\ j # MaxFiles
  BY <1>1, <1>2
<1>4. content'[i] = content[i] /\ content'[j] = content[j]
  BY <1>1, <1>3
<1> QED
  BY <1>4 DEF HistoryOrdered

LEMMA OrderedAfterMove ==
  ASSUME content \in [Files -> Seq(Lines)], HistoryOrdered, NEW s, Moved(s)
  PROVE  HistoryOrdered'
<1>1. /\ s \in Files /\ s + 1 \in Files /\ s \in Nat
      /\ content'[s] = <<>> /\ content'[s + 1] = content[s]
      /\ \A i \in Files \ {s, s + 1} : content'[i] = content[i]
  BY MoveEffect
<1>2. Len(<<>>) = 0
  BY EmptySeq
<1> DEFINE Origin(i) == IF i = s + 1 THEN s ELSE i
<1>3. ASSUME NEW i \in Files, NEW k \in 1..Len(content'[i])
      PROVE  i # s /\ Origin(i) \in Files /\ content'[i] = content[Origin(i)]
  <2>1. i # s
    BY <1>1, <1>2
  <2>2. CASE i = s + 1
    BY <1>1, <2>1, <2>2
  <2>3. CASE i # s + 1
    BY <1>1, <2>1, <2>3
  <2> QED
    BY <2>2, <2>3
<1> SUFFICES ASSUME NEW i \in Files, NEW j \in Files,
                    NEW k \in 1..Len(content'[i]), NEW l \in 1..Len(content'[j]),
                    Before(i, k, j, l)
             PROVE  content'[i][k].call < content'[j][l].call
  BY DEF HistoryOrdered
<1>4. Before(Origin(i), k, Origin(j), l)
  <2>1. i \in Int /\ j \in Int /\ i # s /\ j # s
    BY <1>3, LimitsAssumption DEF Files
  <2> QED
    BY <1>1, <2>1 DEF Before
<1>5. /\ content'[i] = content[Origin(i)] /\ content'[j] = content[Origin(j)]
      /\ Origin(i) \in Files /\ Origin(j) \in Files
  BY <1>3
<1> HIDE DEF Origin
<1> QED
  BY <1>4, <1>5 DEF HistoryOrdered

\* A rotation makes no lines: each file is empty or was a file before.
LEMMA RotatedFrom ==
  ASSUME content \in [Files -> Seq(Lines)], Removed \/ \E s : Moved(s),
         NEW i \in Files, NEW k \in 1..Len(content'[i])
  PROVE  \E j \in Files : content'[i] = content[j]
<1>1. Len(<<>>) = 0
  BY EmptySeq
<1>2. CASE Removed
  <2>1. i # MaxFiles
    BY <1>1, <1>2, RemoveEffect
  <2> QED
    BY <1>2, <2>1, RemoveEffect
<1>3. CASE \E s : Moved(s)
  <2>1. PICK s : Moved(s)
    BY <1>3
  <2>2. i # s
    BY <1>1, <2>1, MoveEffect
  <2> QED
    BY <2>1, <2>2, MoveEffect
<1> QED
  BY <1>2, <1>3

LEMMA OrderedAfterAppend ==
  ASSUME content \in [Files -> Seq(Lines)], call \in 1..MaxCalls,
         HistoryOrdered, NEW form \in {"readable", "torn"}, Appended(form),
         \A i \in Files : \A k \in 1..Len(content[i]) : content[i][k].call < call
  PROVE  /\ HistoryOrdered'
         /\ \A i \in Files : \A k \in 1..Len(content'[i]) : content'[i][k].call <= call
<1> DEFINE n == Len(content[0])
<1>1. /\ Len(content'[0]) = n + 1 /\ content'[0][n + 1].call = call
      /\ \A k \in 1..n : content'[0][k] = content[0][k]
      /\ \A i \in Files \ {0} : content'[i] = content[i]
  BY AppendEffect
<1>2. 0 \in Files /\ (\A i \in Files : i \in Nat)
  BY LimitsAssumption DEF Files
<1>3. n \in Nat
  BY <1>2, LinesOf
<1> HIDE DEF n
<1>4. ASSUME NEW i \in Files, NEW k \in 1..Len(content'[i]), ~(i = 0 /\ k = n + 1)
      PROVE  k \in 1..Len(content[i]) /\ content'[i][k] = content[i][k]
  BY <1>1, <1>2, <1>3, <1>4 DEF n
<1>5. ASSUME NEW i \in Files, NEW j \in Files,
             NEW k \in 1..Len(content'[i]), NEW l \in 1..Len(content'[j]),
             Before(i, k, j, l)
      PROVE  content'[i][k].call < content'[j][l].call
  <2>1. ~(i = 0 /\ k = n + 1)
    BY <1>1, <1>2, <1>3, <1>5 DEF Before
  <2>2. k \in 1..Len(content[i]) /\ content'[i][k] = content[i][k]
    BY <1>4, <2>1
  <2>3. CASE j = 0 /\ l = n + 1
    BY <1>1, <2>2, <2>3
  <2>4. CASE ~(j = 0 /\ l = n + 1)
    <3>1. l \in 1..Len(content[j]) /\ content'[j][l] = content[j][l]
      BY <1>4, <2>4
    <3> QED
      BY <1>5, <2>2, <3>1 DEF HistoryOrdered
  <2> QED
    BY <2>3, <2>4
<1>6. ASSUME NEW i \in Files, NEW k \in 1..Len(content'[i])
      PROVE  content'[i][k].call <= call
  <2>1. CASE i = 0 /\ k = n + 1
    BY <1>1, <2>1
  <2>2. CASE ~(i = 0 /\ k = n + 1)
    <3>1. k \in 1..Len(content[i]) /\ content'[i][k] = content[i][k]
      BY <1>4, <2>2
    <3>2. content[i][k].call \in Nat /\ content[i][k].call < call
      BY <3>1, LineFields
    <3> QED
      BY <3>1, <3>2
  <2> QED
    BY <2>1, <2>2
<1> QED
  BY <1>5, <1>6 DEF HistoryOrdered

LEMMA OrderedAfterGlue ==
  ASSUME content \in [Files -> Seq(Lines)], call \in 1..MaxCalls, EndsTorn,
         HistoryOrdered, NEW form \in {"glued", "torn"}, Glue(form),
         \A i \in Files : \A k \in 1..Len(content[i]) : content[i][k].call < call
  PROVE  /\ HistoryOrdered'
         /\ \A i \in Files : \A k \in 1..Len(content'[i]) : content'[i][k].call <= call
<1> DEFINE n == Len(content[0])
<1>1. /\ Len(content'[0]) = n /\ n >= 1 /\ content'[0][n].call = call
      /\ \A k \in 1..n - 1 : content'[0][k] = content[0][k]
      /\ \A i \in Files \ {0} : content'[i] = content[i]
  BY GlueEffect
<1>2. 0 \in Files /\ (\A i \in Files : i \in Nat)
  BY LimitsAssumption DEF Files
<1>3. n \in Nat
  BY <1>2, LinesOf
<1> HIDE DEF n
<1>4. ASSUME NEW i \in Files, NEW k \in 1..Len(content'[i]), ~(i = 0 /\ k = n)
      PROVE  k \in 1..Len(content[i]) /\ content'[i][k] = content[i][k]
  BY <1>1, <1>2, <1>3, <1>4 DEF n
<1>5. ASSUME NEW i \in Files, NEW j \in Files,
             NEW k \in 1..Len(content'[i]), NEW l \in 1..Len(content'[j]),
             Before(i, k, j, l)
      PROVE  content'[i][k].call < content'[j][l].call
  <2>1. ~(i = 0 /\ k = n)
    BY <1>1, <1>2, <1>3, <1>5 DEF Before
  <2>2. k \in 1..Len(content[i]) /\ content'[i][k] = content[i][k]
    BY <1>4, <2>1
  <2>3. CASE j = 0 /\ l = n
    BY <1>1, <2>2, <2>3
  <2>4. CASE ~(j = 0 /\ l = n)
    <3>1. l \in 1..Len(content[j]) /\ content'[j][l] = content[j][l]
      BY <1>4, <2>4
    <3> QED
      BY <1>5, <2>2, <3>1 DEF HistoryOrdered
  <2> QED
    BY <2>3, <2>4
<1>6. ASSUME NEW i \in Files, NEW k \in 1..Len(content'[i])
      PROVE  content'[i][k].call <= call
  <2>1. CASE i = 0 /\ k = n
    BY <1>1, <2>1
  <2>2. CASE ~(i = 0 /\ k = n)
    <3>1. k \in 1..Len(content[i]) /\ content'[i][k] = content[i][k]
      BY <1>4, <2>2
    <3>2. content[i][k].call \in Nat /\ content[i][k].call < call
      BY <3>1, LineFields
    <3> QED
      BY <3>1, <3>2
  <2> QED
    BY <2>1, <2>2
<1> QED
  BY <1>5, <1>6 DEF HistoryOrdered

LEMMA CallsStep ==
  ASSUME AuditTypes, CallsOrdered, [AuditNext]_auditVars
  PROVE  CallsOrdered'
<1>0. /\ content \in [Files -> Seq(Lines)] /\ call \in Nat /\ written \subseteq Nat
      /\ step \in Steps
      /\ step = "append" => call \in 1..MaxCalls
      /\ HistoryOrdered
  BY BoundsAssumption DEF AuditTypes, AuditTypeOK, CallsOrdered, InProgress
<1>1. \A i \in Files : \A k \in 1..Len(content[i]) :
        /\ content[i][k].call \in Nat /\ content[i][k].call <= call
        /\ step \in InProgress => content[i][k].call < call
  BY <1>0, LineFields DEF CallsOrdered
\* What the step does to the writer.
<1>2. /\ \/ step \in InProgress /\ call' = call
         \/ step' \notin InProgress /\ call' = call
         \/ call' = call + 1 /\ UNCHANGED <<content, written>>
      /\ \/ written' = written
         \/ step = "append" /\ step' = "idle" /\ written' = written \cup {call}
  BY DEF AuditNext, auditVars, Try, Unlock, Locked, Write, RemoveOldest, Shift, RenameBase, Reopen,
         AppendLine, RecordMetric, Crash, Restart, Done, InProgress
<1>3. \A n \in written' : n <= call' /\ (step' \in InProgress => n < call')
  <2>1. \A n \in written : n \in Nat /\ n <= call /\ (step \in InProgress => n < call)
    BY <1>0 DEF CallsOrdered
  <2>2. CASE written' = written
    BY <1>0, <1>2, <2>1, <2>2
  <2>3. CASE step = "append" /\ step' = "idle" /\ written' = written \cup {call}
    BY <1>0, <1>2, <2>1, <2>3 DEF InProgress
  <2> QED
    BY <1>2, <2>2, <2>3
<1>4. CASE UNCHANGED content
  <2>1. HistoryOrdered'
    BY <1>0, <1>4 DEF HistoryOrdered
  <2>2. \A i \in Files : \A k \in 1..Len(content'[i]) :
          /\ content'[i][k].call <= call'
          /\ step' \in InProgress => content'[i][k].call < call'
    BY <1>0, <1>1, <1>2, <1>4
  <2> QED
    BY <1>3, <2>1, <2>2 DEF CallsOrdered
<1>5. CASE step \in {"remove", "shift", "renameBase"} /\ (Removed \/ \E s : Moved(s))
  <2>1. HistoryOrdered'
    BY <1>0, <1>5, OrderedAfterRemove, OrderedAfterMove
  <2>2. ASSUME NEW i \in Files, NEW k \in 1..Len(content'[i])
        PROVE  content'[i][k].call < call
    <3>1. PICK j \in Files : content'[i] = content[j]
      BY <1>0, <1>5, RotatedFrom
    <3> QED
      BY <1>1, <1>5, <3>1 DEF InProgress
  <2>3. call' = call
    BY <1>5 DEF AuditNext, auditVars, Write, RemoveOldest, Shift, RenameBase, Reopen,
                AppendLine, RecordMetric, Crash, Restart, Done
  <2>4. \A i \in Files : \A k \in 1..Len(content'[i]) :
          /\ content'[i][k].call <= call'
          /\ step' \in InProgress => content'[i][k].call < call'
    <3>1. ASSUME NEW i \in Files, NEW k \in 1..Len(content'[i])
          PROVE  content'[i][k].call \in Nat
      BY <1>0, <1>1, <1>5, <3>1, RotatedFrom
    <3> QED
      BY <1>0, <2>2, <2>3, <3>1
  <2> QED
    BY <1>3, <2>1, <2>4 DEF CallsOrdered
<1>6. CASE /\ step = "append"
           /\ \/ \E form \in {"readable", "torn"} : Appended(form)
              \/ EndsTorn /\ \E form \in {"glued", "torn"} : Glue(form)
  <2>1. call \in 1..MaxCalls
        /\ \A i \in Files : \A k \in 1..Len(content[i]) : content[i][k].call < call
    BY <1>0, <1>1, <1>6 DEF InProgress
  <2>2. /\ HistoryOrdered'
        /\ \A i \in Files : \A k \in 1..Len(content'[i]) : content'[i][k].call <= call
    BY <1>0, <1>6, <2>1, OrderedAfterAppend, OrderedAfterGlue
  <2>3. step' \notin InProgress \/ UNCHANGED content
    BY <1>6 DEF AuditNext, auditVars, Unlock, Write, RemoveOldest, Shift, RenameBase, Reopen,
                AppendLine, RecordMetric, Crash, Restart, Done, InProgress
  <2>4. call' = call
    BY <1>6 DEF AuditNext, auditVars, Write, RemoveOldest, Shift, RenameBase, Reopen,
                AppendLine, RecordMetric, Crash, Restart, Done
  <2> QED
    BY <1>3, <1>4, <2>2, <2>3, <2>4 DEF CallsOrdered
<1> QED
  BY <1>4, <1>5, <1>6, FileSteps

LEMMA CallsAlways == AuditSpec => [](AuditTypes /\ CallsOrdered)
<1>1. AuditInit => CallsOrdered
  BY EmptySeq DEF AuditInit, CallsOrdered, HistoryOrdered, InProgress
<1>2. AuditTypes /\ CallsOrdered /\ [AuditNext]_auditVars => CallsOrdered'
  BY CallsStep
<1> QED
  BY <1>1, <1>2, TypesAlways, PTL DEF AuditSpec

(***************************************************************************)
(* The files, from the oldest to audit.jsonl, give the calls in the order  *)
(* they were made, and none twice, whatever operation of a rotation fails  *)
(* and wherever a crash cuts it off.                                       *)
(***************************************************************************)
THEOREM LogInOrder == AuditSpec => []HistoryOrdered
<1>1. CallsOrdered => HistoryOrdered
  BY DEF CallsOrdered
<1> QED
  BY <1>1, CallsAlways, PTL

-----------------------------------------------------------------------------
(* What is missing from the log.                                           *)

InLog(n) == \E i \in Files : \E k \in 1..Len(content[i]) : content[i][k].call = n

\* Without failures all lines are whole, a rename never meets a file it would
\* replace, and the log is the newest part of what was written.
LogComplete ==
  faults = 0 =>
    /\ \A i \in Files : \A k \in 1..Len(content[i]) :
         content[i][k].form = "readable" /\ content[i][k].call \in written
    /\ step = "shift" => Absent(shifting + 1)
    /\ step = "renameBase" => Absent(1)
    /\ \A n \in written, i \in Files : \A k \in 1..Len(content[i]) :
         content[i][k].call <= n => InLog(n)

\* A step that leaves faults at zero is one in which nothing fails.
LEMMA FaultlessSteps ==
  ASSUME AuditTypes, LogComplete, [AuditNext]_auditVars, faults' = 0
  PROVE  /\ faults = 0
         /\ \/ /\ UNCHANGED <<content, written>>
               /\ \/ UNCHANGED <<step, shifting>>
                  \/ step = "idle" /\ step' = "remove" /\ Len(content[0]) >= MaxLines
                  \/ step = "idle" /\ step' = "append" /\ Len(content[0]) < MaxLines
                  \/ step = "reopen" /\ step' = "append"
                  \/ step = "down" /\ step' = "idle"
                  \/ step' = "down" /\ crashes' = crashes + 1
            \/ /\ step = "remove" /\ Removed /\ UNCHANGED written
               /\ shifting' = MaxFiles - 1
               /\ step' = IF shifting' >= 1 THEN "shift" ELSE "renameBase"
            \/ /\ step = "shift" /\ UNCHANGED written
               /\ Moved(shifting) \/ (Absent(shifting) /\ UNCHANGED content)
               /\ shifting' = shifting - 1
               /\ step' = IF shifting' >= 1 THEN "shift" ELSE "renameBase"
            \/ /\ step = "renameBase" /\ UNCHANGED written
               /\ Moved(0) \/ (Absent(0) /\ UNCHANGED content)
               /\ step' = "reopen"
            \/ /\ step = "append" /\ Appended("readable") /\ written' = written \cup {call}
               /\ step' = "idle"
<1>0. /\ shifting \in 0..MaxFiles - 1 /\ MaxFiles \in Nat \ {0} /\ faults \in Nat
      /\ 0 \in Files /\ content \in [Files -> Seq(Lines)]
  BY LimitsAssumption, BoundsAssumption DEF AuditTypes, AuditTypeOK, Files
<1>1. faults = 0
  BY <1>0 DEF AuditNext, auditVars, Try, Write, RemoveOldest, Shift, RenameBase, Reopen,
              AppendLine, RecordMetric, Crash, Restart, Done
<1>2. faults' # faults + 1
  BY <1>1
<1>3. CASE RemoveOldest
  BY <1>1, <1>2, <1>3 DEF RemoveOldest, Try, Locked, Removed
<1>4. CASE Shift
  BY <1>0, <1>1, <1>2, <1>4 DEF Shift, Try, Locked, Rename, Moved
<1>5. CASE RenameBase
  BY <1>0, <1>1, <1>2, <1>5 DEF RenameBase, Try, Locked, Rename, Moved
<1>6. CASE AppendLine
  <2>1. ~EndsTorn
    <3>1. ASSUME ~Absent(0)
          PROVE  Len(content[0]) \in 1..Len(content[0])
      BY <1>0, <3>1, LinesOf
    <3> QED
      BY <1>0, <1>1, <3>1 DEF LogComplete, EndsTorn
  <2> QED
    BY <1>1, <1>2, <1>6, <2>1 DEF AppendLine, Try, Unlock
<1>7. CASE Write
  BY <1>1, <1>2, <1>7 DEF Write, Locked
<1>8. CASE Reopen
  BY <1>1, <1>2, <1>8 DEF Reopen, Try, Locked
<1>9. CASE RecordMetric \/ Crash \/ Restart
  BY <1>1, <1>9 DEF RecordMetric, Crash, Restart
<1>10. CASE Done \/ UNCHANGED auditVars
  BY <1>1, <1>10 DEF Done, auditVars
<1> QED
  BY <1>3, <1>4, <1>5, <1>6, <1>7, <1>8, <1>9, <1>10 DEF AuditNext

\* A rename whose target does not exist loses nothing.
LEMMA MoveLosesNothing ==
  ASSUME content \in [Files -> Seq(Lines)], NEW s, Moved(s), Absent(s + 1), NEW n, InLog(n)
  PROVE  InLog(n)'
<1>1. /\ s \in Files /\ s + 1 \in Files /\ content'[s + 1] = content[s]
      /\ \A i \in Files \ {s, s + 1} : content'[i] = content[i]
  BY MoveEffect
<1>2. PICK i \in Files : \E k \in 1..Len(content[i]) : content[i][k].call = n
  BY DEF InLog
<1>3. i # s + 1
  BY <1>1, <1>2, LinesOf
<1>4. \E j \in Files : content'[j] = content[i]
  BY <1>1, <1>3
<1> QED
  BY <1>2, <1>4 DEF InLog

\* Who removes the oldest file loses nothing that is newer than what is left.
LEMMA RemoveLosesOldest ==
  ASSUME content \in [Files -> Seq(Lines)], HistoryOrdered, Removed, NEW n, InLog(n),
         NEW i \in Files, NEW k \in 1..Len(content'[i]), content'[i][k].call <= n
  PROVE  InLog(n)'
<1>1. /\ MaxFiles \in Files /\ MaxFiles \in Nat
      /\ content'[MaxFiles] = <<>>
      /\ \A j \in Files \ {MaxFiles} : content'[j] = content[j]
  BY RemoveEffect
<1>2. i # MaxFiles
  BY <1>1, EmptySeq
<1>3. content'[i] = content[i] /\ i < MaxFiles
  BY <1>1, <1>2 DEF Files
<1>4. PICK j \in Files : \E l \in 1..Len(content[j]) : content[j][l].call = n
  BY DEF InLog
<1>5. CASE j = MaxFiles
  <2>1. PICK l \in 1..Len(content[j]) : content[j][l].call = n
    BY <1>4
  <2>2. content[j][l].call < content[i][k].call
    BY <1>3, <1>5 DEF HistoryOrdered, Before
  <2>3. content[i][k].call \in Nat /\ content[j][l].call \in Nat
    BY <1>3, LineFields
  <2> QED
    BY <1>3, <2>1, <2>2, <2>3
<1>6. CASE j # MaxFiles
  BY <1>1, <1>4, <1>6 DEF InLog
<1> QED
  BY <1>5, <1>6

LEMMA CompleteStep ==
  ASSUME AuditTypes, CallsOrdered, LogComplete, [AuditNext]_auditVars
  PROVE  LogComplete'
<1> SUFFICES ASSUME faults' = 0
             PROVE  /\ \A i \in Files : \A k \in 1..Len(content'[i]) :
                         content'[i][k].form = "readable" /\ content'[i][k].call \in written'
                    /\ step' = "shift" => Absent(shifting + 1)'
                    /\ step' = "renameBase" => Absent(1)'
                    /\ \A n \in written', i \in Files : \A k \in 1..Len(content'[i]) :
                         content'[i][k].call <= n => InLog(n)'
  BY DEF LogComplete
<1>0. /\ content \in [Files -> Seq(Lines)] /\ shifting \in Nat
      /\ MaxFiles \in Nat \ {0} /\ 0 \in Files
      /\ step = "append" => call \in 1..MaxCalls
      /\ call \in Nat /\ written \subseteq Nat
      /\ step = "shift" => shifting >= 1
      /\ faults = 0 /\ HistoryOrdered
  <2>1. faults = 0
    BY FaultlessSteps
  <2>2. MaxFiles \in Nat \ {0} /\ 0 \in Files /\ MaxCalls \in Nat
    BY LimitsAssumption, BoundsAssumption DEF Files
  <2>3. /\ shifting \in 0..MaxFiles - 1 /\ call \in 0..MaxCalls /\ written \subseteq 1..MaxCalls
        /\ step = "append" => call >= 1
    BY DEF AuditTypes, AuditTypeOK, InProgress
  <2> QED
    BY <2>1, <2>2, <2>3 DEF AuditTypes, CallsOrdered
<1>1. /\ \A i \in Files : \A k \in 1..Len(content[i]) :
           content[i][k].form = "readable" /\ content[i][k].call \in written
      /\ step = "shift" => Absent(shifting + 1)
      /\ step = "renameBase" => Absent(1)
      /\ \A n \in written, i \in Files : \A k \in 1..Len(content[i]) :
           content[i][k].call <= n => InLog(n)
  BY <1>0 DEF LogComplete
<1>2. CASE /\ UNCHANGED <<content, written>>
           /\ step' \notin {"shift", "renameBase"} \/ UNCHANGED <<step, shifting>>
  BY <1>1, <1>2 DEF Absent, InLog
\* A rotation: the lines are those of before.
<1>3. ASSUME Removed \/ \E s : Moved(s), UNCHANGED written,
             \A n \in written, i \in Files : \A k \in 1..Len(content'[i]) :
               content'[i][k].call <= n /\ InLog(n) => InLog(n)'
      PROVE  /\ \A i \in Files : \A k \in 1..Len(content'[i]) :
                  content'[i][k].form = "readable" /\ content'[i][k].call \in written'
             /\ \A n \in written', i \in Files : \A k \in 1..Len(content'[i]) :
                  content'[i][k].call <= n => InLog(n)'
  <2>1. ASSUME NEW i \in Files, NEW k \in 1..Len(content'[i])
        PROVE  \E j \in Files : content'[i] = content[j]
    BY <1>0, <1>3, RotatedFrom
  <2> QED
    BY <1>1, <1>3, <2>1
<1>4. CASE /\ step = "remove" /\ Removed /\ UNCHANGED written
           /\ shifting' = MaxFiles - 1
           /\ step' = IF shifting' >= 1 THEN "shift" ELSE "renameBase"
  <2>1. \A n \in written, i \in Files : \A k \in 1..Len(content'[i]) :
          content'[i][k].call <= n /\ InLog(n) => InLog(n)'
    BY <1>0, <1>4, RemoveLosesOldest
  <2>2. content'[MaxFiles] = <<>>
    BY <1>0, <1>4, RemoveEffect
  <2>3. step' = "shift" => Absent(shifting + 1)'
    BY <1>0, <1>4, <2>2 DEF Absent
  <2>4. step' = "renameBase" => Absent(1)'
    BY <1>0, <1>4, <2>2 DEF Absent
  <2> QED
    BY <1>3, <1>4, <2>1, <2>3, <2>4
<1>5. CASE /\ step = "shift" /\ UNCHANGED written
           /\ Moved(shifting) \/ (Absent(shifting) /\ UNCHANGED content)
           /\ shifting' = shifting - 1
           /\ step' = IF shifting' >= 1 THEN "shift" ELSE "renameBase"
  <2>1. content'[shifting] = <<>>
    BY <1>0, <1>5, MoveEffect DEF Absent
  <2>2. step' = "shift" => Absent(shifting + 1)'
    BY <1>0, <1>5, <2>1 DEF Absent
  <2>3. step' = "renameBase" => Absent(1)'
    BY <1>0, <1>5, <2>1 DEF Absent
  <2>4. CASE Moved(shifting)
    <3>1. \A n \in written : InLog(n) => InLog(n)'
      BY <1>0, <1>1, <1>5, <2>4, MoveLosesNothing
    <3> QED
      BY <1>3, <1>5, <2>2, <2>3, <2>4, <3>1
  <2>5. CASE UNCHANGED content
    BY <1>1, <1>5, <2>2, <2>3, <2>5 DEF InLog
  <2> QED
    BY <1>5, <2>4, <2>5
<1>6. CASE /\ step = "renameBase" /\ UNCHANGED written
           /\ Moved(0) \/ (Absent(0) /\ UNCHANGED content)
           /\ step' = "reopen"
  <2>1. CASE Moved(0)
    <3>1. \A n \in written : InLog(n) => InLog(n)'
      BY <1>0, <1>1, <1>6, <2>1, MoveLosesNothing
    <3> QED
      BY <1>3, <1>6, <2>1, <3>1
  <2>2. CASE UNCHANGED content
    BY <1>1, <1>6, <2>2 DEF InLog
  <2> QED
    BY <1>6, <2>1, <2>2
<1>7. CASE /\ step = "append" /\ Appended("readable") /\ written' = written \cup {call}
           /\ step' = "idle"
  <2> DEFINE n == Len(content[0])
  <2>1. /\ Len(content'[0]) = n + 1 /\ content'[0][n + 1] = [call |-> call, form |-> "readable"]
        /\ \A k \in 1..n : content'[0][k] = content[0][k]
        /\ \A i \in Files \ {0} : content'[i] = content[i]
    BY <1>0, <1>7, AppendEffect
  <2>2. n \in Nat
    BY <1>0, LinesOf
  <2>3. \E i \in Files : \E k \in 1..Len(content'[i]) : content'[i][k].call = call
    <3>1. n + 1 \in 1..Len(content'[0])
      BY <2>1, <2>2
    <3> QED
      BY <1>0, <2>1, <3>1
  <2>4. \A i \in Files : \A k \in 1..Len(content[i]) :
          k \in 1..Len(content'[i]) /\ content'[i][k] = content[i][k]
    BY <1>0, <2>1, <2>2
  <2>5. \A m : InLog(m) => InLog(m)'
    BY <2>4 DEF InLog
  <2> HIDE DEF n
  <2>6. ASSUME NEW i \in Files, NEW k \in 1..Len(content'[i])
        PROVE  \/ k \in 1..Len(content[i]) /\ content'[i][k] = content[i][k]
               \/ content'[i][k] = [call |-> call, form |-> "readable"]
    BY <1>0, <2>1, <2>2 DEF n
  <2>7. \A i \in Files : \A k \in 1..Len(content'[i]) :
          content'[i][k].form = "readable" /\ content'[i][k].call \in written'
    BY <1>1, <1>7, <2>6
  <2>8. ASSUME NEW m \in written', NEW i \in Files, NEW k \in 1..Len(content'[i]),
               content'[i][k].call <= m
        PROVE  InLog(m)'
    <3>1. CASE m = call
      BY <2>3, <3>1 DEF InLog
    <3>2. CASE m # call
      <4>1. m \in written /\ m \in Nat /\ m < call
        BY <1>0, <1>7, <3>2 DEF CallsOrdered, InProgress
      <4>2. k \in 1..Len(content[i]) /\ content'[i][k] = content[i][k]
        BY <1>0, <2>6, <2>8, <4>1
      <4> QED
        BY <1>1, <2>5, <2>8, <4>1, <4>2
    <3> QED
      BY <3>1, <3>2
  <2> QED
    BY <1>7, <2>7, <2>8
<1> QED
  BY <1>2, <1>4, <1>5, <1>6, <1>7, FaultlessSteps

LEMMA CompleteAlways == AuditSpec => [](AuditTypes /\ CallsOrdered /\ LogComplete)
<1>1. AuditInit => LogComplete
  BY EmptySeq DEF AuditInit, LogComplete
<1>2. AuditTypes /\ CallsOrdered /\ LogComplete /\ [AuditNext]_auditVars => LogComplete'
  BY CompleteStep
<1> QED
  BY <1>1, <1>2, CallsAlways, PTL DEF AuditSpec

LEMMA RetainedInLog ==
  ASSUME AuditTypes, LogComplete, faults = 0, NEW n
  PROVE  n \in Retained <=> InLog(n)
<1>1. content \in [Files -> Seq(Lines)]
  BY DEF AuditTypes
<1>2. ASSUME NEW i \in Files
      PROVE  [call |-> n, form |-> "readable"] \in Range(content[i])
               <=> \E k \in 1..Len(content[i]) : content[i][k].call = n
  <2>1. Range(content[i]) = {content[i][k] : k \in 1..Len(content[i])}
    BY <1>1, LinesOf
  <2>2. ASSUME NEW k \in 1..Len(content[i])
        PROVE  content[i][k] = [call |-> n, form |-> "readable"] <=> content[i][k].call = n
    <3>1. content[i][k].form = "readable"
      BY DEF LogComplete
    <3>2. content[i][k] = [call |-> content[i][k].call, form |-> content[i][k].form]
      BY <1>1, LineFields
    <3> QED
      BY <3>1, <3>2
  <2> QED
    BY <2>1, <2>2
<1>3. InLog(n) => n \in 1..MaxCalls
  BY <1>1, LineFields DEF InLog
<1> QED
  BY <1>2, <1>3 DEF Retained, InLog

(***************************************************************************)
(* As long as the file operations succeed, what a rotation (or a crash in  *)
(* the middle of one) takes out of the log is older than all that stays.   *)
(***************************************************************************)
THEOREM OldestGoFirst == AuditSpec => []OnlyOldestMissing
<1>1. AuditTypes /\ LogComplete => OnlyOldestMissing
  <2> SUFFICES ASSUME AuditTypes, LogComplete, faults = 0,
                      NEW m \in Retained, NEW n \in written, n > m
               PROVE  n \in Retained
    BY DEF OnlyOldestMissing
  <2>1. PICK i \in Files : \E k \in 1..Len(content[i]) : content[i][k].call = m
    BY RetainedInLog DEF InLog
  <2>2. m \in Nat /\ n \in Nat
    BY BoundsAssumption DEF Retained, AuditTypes, AuditTypeOK
  <2>3. InLog(n)
    BY <2>1, <2>2 DEF LogComplete
  <2> QED
    BY <2>3, RetainedInLog
<1> QED
  BY <1>1, CompleteAlways, PTL

-----------------------------------------------------------------------------
(* What the log holds without failures and crashes.                        *)

\* The place that a rotation has made free and not yet filled.
Vacated ==
  IF step = "shift" THEN shifting + 1 ELSE IF step = "renameBase" THEN 1 ELSE 0

Full(i) == Len(content[i]) = MaxLines

\* The rotated files are full and have no gap but the vacated one, and once
\* something is missing there is a full file in every other place.
Packed ==
  faults = 0 /\ crashes = 0 =>
    /\ step # "down" /\ Len(content[0]) <= MaxLines
    /\ step \in {"remove", "shift", "renameBase"} => Full(0)
    /\ step = "reopen" => Absent(0)
    /\ step = "append" => Len(content[0]) < MaxLines
    /\ \A i \in Files \ {0} : Absent(i) \/ Full(i)
    /\ \A i, j \in Files \ {0, Vacated} : i > j /\ ~Absent(i) => ~Absent(j)
    /\ \/ \A n \in written : InLog(n)
       \/ \A i \in Files \ {Vacated} : i = 0 \/ Full(i)

LEMMA PackedStep ==
  ASSUME AuditTypes, LogComplete, Packed, [AuditNext]_auditVars
  PROVE  Packed'
<1> DEFINE OnlyFull(v) == \A i \in Files \ {v} : i = 0 \/ Len(content'[i]) = MaxLines
<1> DEFINE NoGap(v) ==
      \A i, j \in Files \ {0, v} : i > j /\ content'[i] # <<>> => content'[j] # <<>>
<1>0. /\ content \in [Files -> Seq(Lines)] /\ shifting \in 0..MaxFiles - 1
      /\ MaxFiles \in Nat \ {0} /\ MaxLines \in Nat \ {0}
      /\ 0 \in Files /\ MaxFiles \in Files /\ Files = 0..MaxFiles
      /\ step = "append" => call \in 1..MaxCalls
      /\ step = "shift" => shifting >= 1
      /\ faults \in Nat /\ crashes \in Nat
  BY LimitsAssumption, BoundsAssumption DEF AuditTypes, AuditTypeOK, Files, InProgress
<1>e. \A i \in Files : Len(content[i]) \in Nat /\ (Absent(i) <=> Len(content[i]) = 0)
  BY <1>0, LinesOf
<1> SUFFICES ASSUME faults' = 0, crashes' = 0
             PROVE  Packed'
  BY DEF Packed
<1>1. faults = 0 /\ crashes = 0
  <2>1. crashes' = crashes \/ crashes' = crashes + 1
    BY DEF AuditNext, auditVars, Write, RemoveOldest, Shift, RenameBase, Reopen,
           AppendLine, RecordMetric, Crash, Restart, Done
  <2> QED
    BY <1>0, <2>1, FaultlessSteps
<1>2. /\ step # "down" /\ Len(content[0]) <= MaxLines
      /\ step \in {"remove", "shift", "renameBase"} => Full(0)
      /\ step = "reopen" => Absent(0)
      /\ step = "append" => Len(content[0]) < MaxLines
      /\ \A i \in Files \ {0} : Absent(i) \/ Full(i)
      /\ \A i, j \in Files \ {0, Vacated} : i > j /\ ~Absent(i) => ~Absent(j)
      /\ \/ \A n \in written : InLog(n)
         \/ \A i \in Files \ {Vacated} : i = 0 \/ Full(i)
  BY <1>1 DEF Packed
<1>3. ASSUME step' # "down", Len(content'[0]) <= MaxLines,
             step' \in {"remove", "shift", "renameBase"} => Len(content'[0]) = MaxLines,
             step' = "reopen" => content'[0] = <<>>,
             step' = "append" => Len(content'[0]) < MaxLines,
             \A i \in Files \ {0} : content'[i] = <<>> \/ Len(content'[i]) = MaxLines,
             NoGap(Vacated'),
             (\A n \in written' : InLog(n)') \/ OnlyFull(Vacated')
      PROVE  Packed'
  BY <1>3 DEF Packed, Absent, Full
<1>4. CASE /\ UNCHANGED <<content, written>>
           /\ \/ UNCHANGED <<step, shifting>>
              \/ step = "idle" /\ step' = "remove" /\ Len(content[0]) >= MaxLines
              \/ step = "idle" /\ step' = "append" /\ Len(content[0]) < MaxLines
              \/ step = "reopen" /\ step' = "append"
              \/ step = "down" /\ step' = "idle"
              \/ step' = "down" /\ crashes' = crashes + 1
  <2>1. \/ UNCHANGED <<step, shifting>>
        \/ step = "idle" /\ step' = "remove" /\ Full(0)
        \/ step = "idle" /\ step' = "append" /\ Len(content[0]) < MaxLines
        \/ step = "reopen" /\ step' = "append" /\ Len(content[0]) < MaxLines
    BY <1>0, <1>e, <1>1, <1>2, <1>4 DEF Full
  <2>2. Vacated' = Vacated
    BY <2>1 DEF Vacated
  <2>3. (\A n \in written : InLog(n)) => \A n \in written' : InLog(n)'
    BY <1>4 DEF InLog
  <2>4. /\ step' # "down" /\ Len(content'[0]) <= MaxLines
        /\ step' \in {"remove", "shift", "renameBase"} => Len(content'[0]) = MaxLines
        /\ step' = "reopen" => content'[0] = <<>>
        /\ step' = "append" => Len(content'[0]) < MaxLines
    BY <1>2, <1>4, <2>1 DEF Full, Absent
  <2>5. /\ \A i \in Files \ {0} : content'[i] = <<>> \/ Len(content'[i]) = MaxLines
        /\ NoGap(Vacated')
        /\ (\A n \in written' : InLog(n)') \/ OnlyFull(Vacated')
    BY <1>2, <1>4, <2>2, <2>3 DEF Full, Absent
  <2> HIDE DEF OnlyFull, NoGap
  <2> QED
    BY <1>3, <2>4, <2>5
<1>5. CASE /\ step = "remove" /\ Removed /\ UNCHANGED written
           /\ shifting' = MaxFiles - 1
           /\ step' = IF shifting' >= 1 THEN "shift" ELSE "renameBase"
  <2>1. content'[MaxFiles] = <<>> /\ \A i \in Files \ {MaxFiles} : content'[i] = content[i]
    BY <1>0, <1>5, RemoveEffect
  <2>2. Vacated = 0 /\ Vacated' = MaxFiles
    BY <1>0, <1>5 DEF Vacated
  <2>3. content'[0] = content[0] /\ Full(0) /\ step' \in {"shift", "renameBase"}
    BY <1>0, <1>2, <1>5, <2>1
  <2>4. \A i \in Files \ {0} : content'[i] = <<>> \/ Len(content'[i]) = MaxLines
    BY <1>2, <2>1 DEF Absent, Full
  <2>5. NoGap(Vacated')
    BY <1>2, <2>1, <2>2 DEF Absent
  <2>6. (\A n \in written' : InLog(n)') \/ OnlyFull(Vacated')
    <3>1. CASE Absent(MaxFiles)
      <4>1. ASSUME NEW n, InLog(n)
            PROVE  InLog(n)'
        <5>1. PICK i \in Files : \E k \in 1..Len(content[i]) : content[i][k].call = n
          BY <4>1 DEF InLog
        <5>2. i # MaxFiles
          BY <1>e, <3>1, <5>1
        <5> QED
          BY <2>1, <5>1, <5>2 DEF InLog
      <4>2. CASE \A n \in written : InLog(n)
        BY <1>5, <4>1, <4>2
      <4>3. CASE \A i \in Files \ {Vacated} : i = 0 \/ Full(i)
        BY <2>1, <2>2, <4>3 DEF Full
      <4> QED
        BY <1>2, <4>2, <4>3
    <3>2. CASE ~Absent(MaxFiles)
      <4>1. ASSUME NEW i \in Files \ {MaxFiles}, i # 0
            PROVE  Full(i)
        <5>1. i \in Files \ {0} /\ MaxFiles > i
          BY <1>0, <4>1
        <5>2. ~Absent(i)
          BY <1>0, <1>2, <2>2, <3>2, <5>1
        <5> QED
          BY <1>2, <5>1, <5>2
      <4> QED
        BY <2>1, <2>2, <4>1 DEF Full
    <3> QED
      BY <3>1, <3>2
  <2> HIDE DEF OnlyFull, NoGap
  <2> QED
    BY <1>0, <1>3, <2>3, <2>4, <2>5, <2>6 DEF Full
<1>6. CASE /\ step = "shift" /\ UNCHANGED written
           /\ Moved(shifting) \/ (Absent(shifting) /\ UNCHANGED content)
           /\ shifting' = shifting - 1
           /\ step' = IF shifting' >= 1 THEN "shift" ELSE "renameBase"
  <2> DEFINE s == shifting
  <2>1. /\ s \in Files /\ s + 1 \in Files /\ s \in Nat \ {0}
        /\ content'[s] = <<>> /\ content'[s + 1] = content[s] /\ content[s + 1] = <<>>
        /\ \A i \in Files \ {s, s + 1} : content'[i] = content[i]
    <3>1. s \in Files /\ s + 1 \in Files /\ s \in Nat \ {0} /\ Absent(s + 1)
      BY <1>0, <1>1, <1>6 DEF LogComplete
    <3> QED
      BY <1>0, <1>6, <3>1, MoveEffect DEF Absent
  <2>2. Vacated = s + 1 /\ Vacated' = s
    BY <1>0, <1>6 DEF Vacated
  <2>3. \A n : InLog(n) => InLog(n)'
    <3>1. CASE Moved(s)
      BY <1>0, <2>1, <3>1, MoveLosesNothing DEF Absent
    <3>2. CASE UNCHANGED content
      BY <3>2 DEF InLog
    <3> QED
      BY <1>6, <3>1, <3>2
  <2> HIDE DEF s
  <2>4. content'[0] = content[0] /\ Full(0) /\ step' \in {"shift", "renameBase"}
    BY <1>0, <1>2, <1>6, <2>1
  <2>5. \A i \in Files \ {s} : \E j \in Files \ {s + 1} :
          /\ content'[i] = content[j] /\ (i = 0 <=> j = 0)
          /\ i # s + 1 => j = i
          /\ i = s + 1 => j = s
    <3> SUFFICES ASSUME NEW i \in Files \ {s}
                 PROVE  \E j \in Files \ {s + 1} :
                          /\ content'[i] = content[j] /\ (i = 0 <=> j = 0)
                          /\ i # s + 1 => j = i
                          /\ i = s + 1 => j = s
      OBVIOUS
    <3>1. CASE i = s + 1
      BY <2>1, <3>1
    <3>2. CASE i # s + 1
      BY <2>1, <3>2
    <3> QED
      BY <3>1, <3>2
  <2>6. \A i \in Files \ {0} : content'[i] = <<>> \/ Len(content'[i]) = MaxLines
    BY <1>2, <2>1, <2>5 DEF Absent, Full
  <2>7. NoGap(Vacated')
    <3> SUFFICES ASSUME NEW i \in Files \ {0, s}, NEW j \in Files \ {0, s},
                        i > j, content'[i] # <<>>
                 PROVE  content'[j] # <<>>
      BY <2>2
    <3>1. PICK a \in Files \ {s + 1} : /\ content'[i] = content[a] /\ (i = 0 <=> a = 0)
                                       /\ i # s + 1 => a = i
                                       /\ i = s + 1 => a = s
      BY <2>5
    <3>2. PICK b \in Files \ {s + 1} : /\ content'[j] = content[b] /\ (j = 0 <=> b = 0)
                                       /\ j # s + 1 => b = j
                                       /\ j = s + 1 => b = s
      BY <2>5
    <3>3. a > b
      BY <1>0, <2>1, <3>1, <3>2
    <3> QED
      BY <1>2, <2>2, <3>1, <3>2, <3>3 DEF Absent
  <2>8. (\A n \in written' : InLog(n)') \/ OnlyFull(Vacated')
    <3>1. CASE \A n \in written : InLog(n)
      BY <1>6, <2>3, <3>1
    <3>2. CASE \A i \in Files \ {Vacated} : i = 0 \/ Full(i)
      BY <2>2, <2>5, <3>2 DEF Full
    <3> QED
      BY <1>2, <3>1, <3>2
  <2> HIDE DEF OnlyFull, NoGap
  <2> QED
    BY <1>0, <1>3, <2>4, <2>6, <2>7, <2>8 DEF Full
<1>7. CASE /\ step = "renameBase" /\ UNCHANGED written
           /\ Moved(0) \/ (Absent(0) /\ UNCHANGED content)
           /\ step' = "reopen"
  <2>1. Moved(0) /\ Full(0)
    BY <1>0, <1>e, <1>2, <1>7 DEF Full
  <2>2. /\ 1 \in Files /\ content'[0] = <<>> /\ content'[1] = content[0]
        /\ \A i \in Files \ {0, 1} : content'[i] = content[i]
        /\ Absent(1)
    <3> DEFINE one == 0 + 1
    <3>1. one = 1
      OBVIOUS
    <3>2. /\ one \in Files /\ content'[0] = <<>> /\ content'[one] = content[0]
          /\ \A i \in Files \ {0, one} : content'[i] = content[i]
      BY <1>0, <2>1, MoveEffect
    <3>3. Absent(1)
      BY <1>1, <1>7 DEF LogComplete
    <3> QED
      BY <3>1, <3>2, <3>3
  <2>3. Vacated = 1 /\ Vacated' = 0
    BY <1>7 DEF Vacated
  <2>4. content'[1] # <<>> /\ Len(content'[1]) = MaxLines
    BY <1>0, <1>e, <2>1, <2>2 DEF Full, Absent
  <2>5. \A i \in Files \ {0} : content'[i] = <<>> \/ Len(content'[i]) = MaxLines
    BY <1>2, <2>2, <2>4 DEF Absent, Full
  <2>6. NoGap(Vacated')
    <3> SUFFICES ASSUME NEW i \in Files \ {0}, NEW j \in Files \ {0},
                        i > j, content'[i] # <<>>
                 PROVE  content'[j] # <<>>
      BY <2>3
    <3>1. CASE j = 1
      BY <2>4, <3>1
    <3>2. CASE j # 1
      <4>1. i # 1
        BY <1>0, <3>2
      <4> QED
        BY <1>2, <2>2, <2>3, <3>2, <4>1 DEF Absent
    <3> QED
      BY <3>1, <3>2
  <2>7. (\A n \in written' : InLog(n)') \/ OnlyFull(Vacated')
    <3>1. CASE \A n \in written : InLog(n)
      <4>1. Absent(0 + 1)
        BY <2>2
      <4>2. \A n : InLog(n) => InLog(n)'
        BY <1>0, <2>1, <4>1, MoveLosesNothing
      <4> QED
        BY <1>7, <3>1, <4>2
    <3>2. CASE \A i \in Files \ {Vacated} : i = 0 \/ Full(i)
      BY <2>2, <2>3, <2>4, <3>2 DEF Full
    <3> QED
      BY <1>2, <3>1, <3>2
  <2>8. Len(content'[0]) <= MaxLines
    BY <1>0, <2>2, EmptySeq
  <2> HIDE DEF OnlyFull, NoGap
  <2> QED
    BY <1>3, <1>7, <2>2, <2>5, <2>6, <2>7, <2>8
<1>8. CASE /\ step = "append" /\ Appended("readable") /\ written' = written \cup {call}
           /\ step' = "idle"
  <2>1. /\ Len(content'[0]) = Len(content[0]) + 1
        /\ content'[0][Len(content[0]) + 1] = [call |-> call, form |-> "readable"]
        /\ \A k \in 1..Len(content[0]) : content'[0][k] = content[0][k]
        /\ \A i \in Files \ {0} : content'[i] = content[i]
    BY <1>0, <1>8, AppendEffect
  <2>2. Vacated = 0 /\ Vacated' = 0
    BY <1>8 DEF Vacated
  <2>3. Len(content'[0]) <= MaxLines
    BY <1>0, <1>e, <1>2, <1>8, <2>1
  <2>4. /\ \A i \in Files \ {0} : content'[i] = <<>> \/ Len(content'[i]) = MaxLines
        /\ NoGap(Vacated')
    BY <1>2, <2>1, <2>2 DEF Absent, Full
  <2>5. (\A n \in written' : InLog(n)') \/ OnlyFull(Vacated')
    <3>1. CASE \A n \in written : InLog(n)
      <4>1. ASSUME NEW n \in written
            PROVE  InLog(n)'
        <5>0. PICK i \in Files : \E k \in 1..Len(content[i]) : content[i][k].call = n
          BY <3>1 DEF InLog
        <5>1. PICK k \in 1..Len(content[i]) : content[i][k].call = n
          BY <5>0
        <5>2. k \in 1..Len(content'[i]) /\ content'[i][k] = content[i][k]
          BY <1>0, <1>e, <2>1
        <5> QED
          BY <5>1, <5>2 DEF InLog
      <4>2. \E i \in Files : \E k \in 1..Len(content'[i]) : content'[i][k].call = call
        <5> DEFINE k == Len(content[0]) + 1
        <5>1. k \in 1..Len(content'[0])
          BY <1>0, <1>e, <2>1
        <5>2. content'[0][k].call = call
          BY <2>1
        <5> HIDE DEF k
        <5> QED
          BY <1>0, <5>1, <5>2
      <4>3. ASSUME NEW n \in written'
            PROVE  InLog(n)'
        BY <1>8, <4>1, <4>2 DEF InLog
      <4> QED
        BY <4>3
    <3>2. CASE \A i \in Files \ {Vacated} : i = 0 \/ Full(i)
      BY <2>1, <2>2, <3>2 DEF Full
    <3> QED
      BY <1>2, <3>1, <3>2
  <2> HIDE DEF OnlyFull, NoGap
  <2> QED
    BY <1>3, <1>8, <2>3, <2>4, <2>5
<1> QED
  BY <1>4, <1>5, <1>6, <1>7, <1>8, FaultlessSteps

LEMMA PackedAlways ==
  AuditSpec => [](AuditTypes /\ CallsOrdered /\ LogComplete /\ Packed)
<1>1. AuditInit => Packed
  BY LimitsAssumption, EmptySeq DEF AuditInit, Packed, Files, Absent
<1>2. AuditTypes /\ LogComplete /\ Packed /\ [AuditNext]_auditVars => Packed'
  BY PackedStep
<1> QED
  BY <1>1, <1>2, CompleteAlways, PTL DEF AuditSpec

LEMMA IntervalCount ==
  ASSUME NEW n \in Nat
  PROVE  IsFiniteSet(1..n) /\ Cardinality(1..n) = n
<1>1. 1 \in Int /\ n \in Int
  OBVIOUS
<1>2. IsFiniteSet(1..n) /\ Cardinality(1..n) = IF 1 > n THEN 0 ELSE n - 1 + 1
  BY <1>1, FS_Interval
<1> QED
  BY <1>2

\* The lines of full files are as many calls: by HistoryOrdered, no two of them
\* are of the same call.
LEMMA FullFilesRetained ==
  ASSUME AuditTypes, HistoryOrdered, LogComplete, faults = 0,
         NEW v \in Files, \A i \in Files \ {v} : Full(i)
  PROVE  Cardinality(Retained) >= MaxFiles * MaxLines
<1> DEFINE Places == (Files \ {v}) \X (1..MaxLines)
<1> DEFINE f == [p \in Places |-> content[p[1]][p[2]].call]
<1>0. /\ content \in [Files -> Seq(Lines)] /\ MaxFiles \in Nat \ {0} /\ MaxLines \in Nat \ {0}
      /\ MaxCalls \in Nat /\ Files = 0..MaxFiles
  BY LimitsAssumption, BoundsAssumption DEF AuditTypes, Files
<1>1. IsFiniteSet(Places) /\ Cardinality(Places) = MaxFiles * MaxLines
  <2>1. IsFiniteSet(Files) /\ Cardinality(Files) = MaxFiles + 1
    BY <1>0, FS_Interval
  <2>2. /\ IsFiniteSet(Files \ {v})
        /\ Cardinality(Files \ {v}) = IF v \in Files THEN Cardinality(Files) - 1
                                                   ELSE Cardinality(Files)
    BY <2>1, FS_RemoveElement
  <2>3. Cardinality(Files \ {v}) = MaxFiles
    BY <1>0, <2>1, <2>2
  <2>4. IsFiniteSet(1..MaxLines) /\ Cardinality(1..MaxLines) = MaxLines
    BY <1>0, IntervalCount
  <2> QED
    BY <2>2, <2>3, <2>4, FS_Product
<1>2. IsFiniteSet(Retained)
  <2>1. Retained \subseteq 1..MaxCalls
    BY DEF Retained
  <2>2. IsFiniteSet(1..MaxCalls)
    BY <1>0, IntervalCount
  <2> QED
    BY <2>1, <2>2, FS_Subset
<1>3. ASSUME NEW p \in Places
      PROVE  p[1] \in Files /\ p[2] \in 1..Len(content[p[1]]) /\ f[p] \in Nat /\ f[p] \in Retained
  <2>1. p[1] \in Files /\ p[2] \in 1..Len(content[p[1]])
    BY DEF Full
  <2>2. InLog(f[p]) /\ f[p] \in Nat
    BY <1>0, <2>1, LineFields DEF InLog
  <2> QED
    BY <2>1, <2>2, RetainedInLog
<1>4. ASSUME NEW p \in Places, NEW q \in Places, f[p] = f[q]
      PROVE  p = q
  <2>1. ~Before(p[1], p[2], q[1], q[2]) /\ ~Before(q[1], q[2], p[1], p[2])
    <3>1. Before(p[1], p[2], q[1], q[2]) => f[p] < f[q]
      BY <1>3 DEF HistoryOrdered
    <3>2. Before(q[1], q[2], p[1], p[2]) => f[q] < f[p]
      BY <1>3 DEF HistoryOrdered
    <3>3. f[p] \in Nat /\ f[q] \in Nat
      BY <1>3
    <3> HIDE DEF f
    <3> QED
      BY <1>4, <3>1, <3>2, <3>3
  <2>2. p[1] \in Nat /\ q[1] \in Nat /\ p[2] \in Nat /\ q[2] \in Nat
    BY <1>0
  <2>3. p[1] = q[1] /\ p[2] = q[2]
    BY <2>1, <2>2 DEF Before
  <2> QED
    BY <2>3
<1>5. f \in Injection(Places, Retained)
  <2>1. f \in [Places -> Retained]
    BY <1>3
  <2> HIDE DEF f, Places
  <2> QED
    BY <1>4, <2>1 DEF Injection, IsInjective
<1> HIDE DEF f, Places
<1>6. Cardinality(Places) <= Cardinality(Retained)
  BY <1>2, <1>5, FS_Injection
<1>7. Cardinality(Retained) \in Nat /\ Cardinality(Places) \in Nat
  BY <1>1, <1>2, FS_CardinalityType
<1> QED
  BY <1>1, <1>6, <1>7

(***************************************************************************)
(* Without failures and crashes, the log holds every line or as many as    *)
(* the retention promises, in files that keep to their limit: rotation     *)
(* never removes a line while there is room.                               *)
(***************************************************************************)
THEOREM RetentionHonoured == AuditSpec => []RotationHonoursRetention
<1>1. AuditTypes /\ CallsOrdered /\ LogComplete /\ Packed => RotationHonoursRetention
  <2>1. ASSUME AuditTypes, CallsOrdered, LogComplete, Packed, faults = 0, crashes = 0
        PROVE  RetentionKept /\ \A i \in Files : Len(content[i]) <= MaxLines
    <3>0. /\ content \in [Files -> Seq(Lines)] /\ MaxFiles \in Nat \ {0} /\ MaxLines \in Nat \ {0}
          /\ Files = 0..MaxFiles /\ shifting \in 0..MaxFiles - 1
          /\ HistoryOrdered
      BY <2>1, LimitsAssumption DEF AuditTypes, AuditTypeOK, CallsOrdered, Files
    <3>1. /\ Len(content[0]) <= MaxLines
          /\ step \in {"remove", "shift", "renameBase"} => Full(0)
          /\ \A i \in Files \ {0} : Absent(i) \/ Full(i)
          /\ \/ \A n \in written : InLog(n)
             \/ \A i \in Files \ {Vacated} : i = 0 \/ Full(i)
      BY <2>1 DEF Packed
    <3>2. \A i \in Files : Len(content[i]) <= MaxLines
      <4>1. ASSUME NEW i \in Files, i # 0
            PROVE  Len(content[i]) <= MaxLines
        <5>1. Len(content[i]) = 0 \/ Len(content[i]) = MaxLines
          BY <3>0, <3>1, <4>1, LinesOf DEF Full
        <5> QED
          BY <3>0, <5>1
      <4> QED
        BY <3>1, <4>1
    <3>3. ASSUME \A n \in written : InLog(n)
          PROVE  RetentionKept
      <4>1. written \subseteq Retained
        BY <2>1, <3>0, <3>3, RetainedInLog DEF AuditTypes, AuditTypeOK
      <4> QED
        BY <4>1 DEF RetentionKept
    <3>4. ASSUME \A i \in Files \ {Vacated} : i = 0 \/ Full(i)
          PROVE  RetentionKept
      <4>1. Vacated \in Files
        BY <3>0 DEF Vacated
      <4>2. Vacated # 0 => Full(0)
        BY <3>1 DEF Vacated
      <4>3. \A i \in Files \ {Vacated} : Full(i)
        BY <3>4, <4>2
      <4>4. Cardinality(Retained) >= MaxFiles * MaxLines
        BY <2>1, <3>0, <4>1, <4>3, FullFilesRetained
      <4> QED
        BY <4>4 DEF RetentionKept
    <3> QED
      BY <3>1, <3>2, <3>3, <3>4
  <2> QED
    BY <2>1 DEF RotationHonoursRetention
<1> QED
  BY <1>1, PackedAlways, PTL

-----------------------------------------------------------------------------
(* The metrics after a restart.                                            *)

\* The log has not been rotated, and a restart scans all of it.
AllInBase ==
  /\ written \cap LongCalls = {}
  /\ \A n \in written : \E k \in 1..Len(content[0]) : content[0][k].call = n

\* The calls that crashes may have kept from being counted.
Forgotten == Slots * crashes

\* Without failures, what was written is what was counted, but for the calls that
\* are about to be and those that a crash kept from being.
MetricsKept ==
  faults = 0 =>
    /\ IsFiniteSet(written)
    /\ counted + uncounted <= Cardinality(written)
    /\ Cardinality(written) <= counted + uncounted + Forgotten
    /\ step # "down" /\ AllInBase => counted <= metrics /\ metrics <= counted + Forgotten

LEMMA ForgottenIs ==
  ASSUME AuditTypes
  PROVE  /\ Forgotten \in Nat
         /\ crashes' = crashes => Forgotten' = Forgotten
         /\ crashes' = crashes + 1 => Forgotten' = Forgotten + Slots
<1>1. crashes \in Nat /\ Slots \in Nat
  BY BoundsAssumption, SlotsAssumption DEF AuditTypes, AuditTypeOK
<1>2. Slots * crashes \in Nat /\ Slots * (crashes + 1) = Slots * crashes + Slots
  BY <1>1
<1> QED
  BY <1>2 DEF Forgotten

\* A restart finds every line of the log.
LEMMA AllSeeded ==
  ASSUME AuditTypes, CallsOrdered, LogComplete, faults = 0, IsFiniteSet(written), AllInBase
  PROVE  Cardinality({k \in Scanned : content[0][k].form = "readable"}) = Cardinality(written)
<1> DEFINE n == Len(content[0])
<1> DEFINE f == [k \in 1..n |-> content[0][k].call]
<1>0. content \in [Files -> Seq(Lines)] /\ 0 \in Files
  BY LimitsAssumption DEF AuditTypes, Files
<1>1. n \in Nat
  BY <1>0, LinesOf
<1>2. \A k \in 1..n : /\ content[0][k].form = "readable" /\ content[0][k].call \in written
                      /\ content[0][k].call \in Nat
  BY <1>0, LineFields DEF LogComplete
<1>3. {k \in Scanned : content[0][k].form = "readable"} = 1..n
  BY <1>1, <1>2 DEF Scanned, AllInBase
<1>4. f \in [1..n -> written]
  BY <1>2
<1>5. \A k, l \in 1..n : k < l => content[0][k].call < content[0][l].call
  BY <1>0 DEF CallsOrdered, HistoryOrdered, Before
<1>6. \A k, l \in 1..n : f[k] = f[l] => k = l
  <2> SUFFICES ASSUME NEW k \in 1..n, NEW l \in 1..n,
                      content[0][k].call = content[0][l].call
               PROVE  k = l
    OBVIOUS
  <2>1. ~(k < l) /\ ~(l < k)
    BY <1>2, <1>5
  <2> QED
    BY <1>1, <2>1
<1>7. \A m \in written : \E k \in 1..n : f[k] = m
  BY DEF AllInBase
<1> HIDE DEF n, f
<1>8. f \in Bijection(1..n, written)
  BY <1>4, <1>6, <1>7 DEF Bijection, Injection, Surjection, IsInjective
<1>9. IsFiniteSet(1..n) /\ Cardinality(1..n) = n
  BY <1>1, IntervalCount
<1>10. Cardinality(written) = Cardinality(1..n)
  BY <1>8, <1>9, FS_Bijection DEF ExistsBijection
<1> QED
  BY <1>3, <1>10


\* What a step without failures does to the history and the metrics.
LEMMA CountingSteps ==
  ASSUME AuditTypes, CallsOrdered, LogComplete, [AuditNext]_auditVars, faults' = 0
  PROVE  \/ /\ step = "append" /\ step' = "idle" /\ Appended("readable")
            /\ written' = written \cup {call} /\ call \notin written
            /\ uncounted' = uncounted + 1 /\ UNCHANGED <<counted, metrics, crashes>>
         \/ /\ step # "down" /\ UNCHANGED <<step, written, crashes, content>>
            /\ uncounted' = uncounted - 1 /\ metrics' = metrics + 1 /\ counted' = counted + 1
         \/ /\ step' = "down" /\ crashes' = crashes + 1 /\ uncounted' = 0
            /\ UNCHANGED <<written, counted>>
         \/ Restart
         \/ /\ step' = "down" <=> step = "down"
            /\ UNCHANGED <<uncounted, written, counted, metrics, crashes>>
            /\ content'[0] \in {content[0], <<>>}
<1>0. /\ faults = 0 /\ step \in Steps /\ call \in Nat
      /\ shifting \in 0..MaxFiles - 1 /\ MaxFiles \in Nat \ {0} /\ 0 \in Files
      /\ content \in [Files -> Seq(Lines)]
  BY FaultlessSteps, LimitsAssumption, BoundsAssumption DEF AuditTypes, AuditTypeOK, Files
<1>1. faults' # faults + 1
  BY <1>0
<1>2. CASE AppendLine
  <2>1. /\ step = "append" /\ step' = "idle" /\ uncounted' = uncounted + 1
        /\ UNCHANGED <<counted, metrics, crashes>>
    BY <1>2 DEF AppendLine, Unlock
  <2>2. Appended("readable") /\ written' = written \cup {call}
    BY <2>1, FaultlessSteps
  <2>3. call \notin written
    BY <1>0, <2>1 DEF CallsOrdered, InProgress
  <2> QED
    BY <2>1, <2>2, <2>3
<1>3. CASE RecordMetric
  BY <1>3 DEF RecordMetric
<1>4. CASE Crash
  BY <1>4 DEF Crash
<1>5. CASE Restart
  BY <1>5
<1>6. CASE Write \/ Reopen
  BY <1>1, <1>6 DEF Write, Reopen, Try, Locked
<1>7. CASE RemoveOldest \/ Shift \/ RenameBase
  <2>1. /\ step' = "down" <=> step = "down"
        /\ UNCHANGED <<uncounted, written, counted, metrics, crashes>>
    BY <1>7 DEF RemoveOldest, Shift, RenameBase, Locked
  <2>2. \/ step = "remove" /\ Removed
        \/ step = "shift" /\ Moved(shifting)
        \/ step = "renameBase" /\ Moved(0)
        \/ UNCHANGED content
    BY <1>7, FileSteps DEF RemoveOldest, Shift, RenameBase
  <2>3. content'[0] \in {content[0], <<>>}
    <3>1. CASE Removed
      BY <1>0, <3>1, RemoveEffect
    <3>2. CASE step = "shift" /\ Moved(shifting)
      <4>1. 0 \in Files \ {shifting, shifting + 1}
        BY <1>0, <3>2 DEF AuditTypes
      <4> QED
        BY <1>0, <3>2, <4>1, MoveEffect
    <3>3. CASE Moved(0)
      BY <1>0, <3>3, MoveEffect
    <3> QED
      BY <2>2, <3>1, <3>2, <3>3
  <2> QED
    BY <2>1, <2>3
<1>8. CASE Done \/ UNCHANGED auditVars
  BY <1>8 DEF Done, auditVars
<1> QED
  BY <1>2, <1>3, <1>4, <1>5, <1>6, <1>7, <1>8 DEF AuditNext

\* A log that is whole after a step was so before it.
LEMMA WholeBefore ==
  ASSUME AuditTypes, CallsOrdered, LogComplete, [AuditNext]_auditVars, faults' = 0, AllInBase',
         ~Restart, step' # "down"
  PROVE  AllInBase
<1>0. content \in [Files -> Seq(Lines)] /\ 0 \in Files /\ call \in 0..MaxCalls /\ MaxCalls \in Nat
  BY LimitsAssumption, BoundsAssumption DEF AuditTypes, AuditTypeOK, Files
<1>1. written \subseteq written'
  BY CountingSteps
<1>2. written \cap LongCalls = {}
  BY <1>1 DEF AllInBase
<1>3. ASSUME NEW n \in written
      PROVE  \E k \in 1..Len(content[0]) : content[0][k].call = n
  <2>1. PICK k \in 1..Len(content'[0]) : content'[0][k].call = n
    BY <1>1, <1>3 DEF AllInBase
  <2>2. CASE step = "append" /\ Appended("readable") /\ call \notin written
    <3>1. call \in 1..MaxCalls
      BY <1>0, <2>2 DEF AuditTypes, InProgress
    <3>2. /\ Len(content[0]) \in Nat /\ Len(content'[0]) = Len(content[0]) + 1
          /\ content'[0][Len(content[0]) + 1] = [call |-> call, form |-> "readable"]
          /\ \A l \in 1..Len(content[0]) : content'[0][l] = content[0][l]
      BY <1>0, <2>2, <3>1, AppendEffect, LinesOf
    <3>3. k # Len(content[0]) + 1
      BY <2>1, <2>2, <3>2
    <3>4. k \in 1..Len(content[0])
      BY <3>2, <3>3
    <3> QED
      BY <2>1, <3>2, <3>4
  <2>3. CASE content'[0] = content[0]
    BY <2>1, <2>3
  <2>4. CASE content'[0] = <<>>
    BY <2>1, <2>4, EmptySeq
  <2> QED
    BY <2>2, <2>3, <2>4, CountingSteps
<1> QED
  BY <1>2, <1>3 DEF AllInBase

LEMMA MetricsStep ==
  ASSUME AuditTypes, CallsOrdered, LogComplete, MetricsKept, [AuditNext]_auditVars
  PROVE  MetricsKept'
<1> SUFFICES ASSUME faults' = 0
             PROVE  /\ IsFiniteSet(written')
                    /\ counted' + uncounted' <= Cardinality(written')
                    /\ Cardinality(written') <= counted' + uncounted' + Forgotten'
                    /\ step' # "down" /\ AllInBase'
                         => counted' <= metrics' /\ metrics' <= counted' + Forgotten'
  BY DEF MetricsKept
<1>0. /\ faults = 0 /\ counted \in Nat /\ metrics \in Nat
      /\ uncounted \in Nat /\ uncounted <= Slots /\ Slots \in Nat /\ Forgotten \in Nat
      /\ step = "down" => uncounted = 0
      /\ crashes' = crashes => Forgotten' = Forgotten
      /\ crashes' = crashes + 1 => Forgotten' = Forgotten + Slots
      /\ IsFiniteSet(written) /\ Cardinality(written) \in Nat
      /\ counted + uncounted <= Cardinality(written)
      /\ Cardinality(written) <= counted + uncounted + Forgotten
      /\ step # "down" /\ AllInBase => counted <= metrics /\ metrics <= counted + Forgotten
  BY FaultlessSteps, FS_CardinalityType, ForgottenIs, SlotsAssumption
  DEF AuditTypes, AuditTypeOK, MetricsKept
<1>1. CASE /\ step = "append" /\ step' = "idle" /\ Appended("readable")
           /\ written' = written \cup {call} /\ call \notin written
           /\ uncounted' = uncounted + 1 /\ UNCHANGED <<counted, metrics, crashes>>
  <2>1. IsFiniteSet(written') /\ Cardinality(written') = Cardinality(written) + 1
    BY <1>0, <1>1, FS_AddElement
  <2>2. AllInBase' => AllInBase
    <3>1. ~Restart
      BY <1>1 DEF Restart
    <3> QED
      BY <1>1, <3>1, WholeBefore
  <2> QED
    BY <1>0, <1>1, <2>1, <2>2
<1>2. CASE /\ step # "down" /\ UNCHANGED <<step, written, crashes, content>>
           /\ uncounted' = uncounted - 1 /\ metrics' = metrics + 1 /\ counted' = counted + 1
  <2>1. AllInBase' => AllInBase
    BY <1>2 DEF AllInBase
  <2> QED
    BY <1>0, <1>2, <2>1
<1>3. CASE /\ step' = "down" /\ crashes' = crashes + 1 /\ uncounted' = 0
           /\ UNCHANGED <<written, counted>>
  BY <1>0, <1>3
<1>4. CASE Restart
  <2>1. /\ step = "down" /\ step' = "idle"
        /\ UNCHANGED <<content, uncounted, written, counted, crashes>>
        /\ metrics' = Cardinality({k \in Scanned : content[0][k].form = "readable"})
    BY <1>4 DEF Restart
  <2>2. AllInBase' => metrics' = Cardinality(written)
    <3>1. AllInBase' => AllInBase
      BY <2>1 DEF AllInBase
    <3> QED
      BY <1>0, <2>1, <3>1, AllSeeded
  <2> QED
    BY <1>0, <2>1, <2>2
<1>5. CASE /\ step' = "down" <=> step = "down"
           /\ UNCHANGED <<uncounted, written, counted, metrics, crashes>>
  <2>1. ~Restart /\ step' # "down" /\ AllInBase' => AllInBase
    BY WholeBefore
  <2>2. step' # "down" => ~Restart
    BY <1>5 DEF Restart
  <2> QED
    BY <1>0, <1>5, <2>1, <2>2
<1> QED
  BY <1>1, <1>2, <1>3, <1>4, <1>5, CountingSteps

LEMMA MetricsAlways ==
  AuditSpec => [](AuditTypes /\ CallsOrdered /\ LogComplete /\ MetricsKept)
<1>1. AuditInit => MetricsKept
  <2>1. ASSUME AuditInit
        PROVE  written = {} /\ counted = 0 /\ uncounted = 0 /\ metrics = 0 /\ Forgotten = 0
    BY <2>1, SlotsAssumption DEF AuditInit, Forgotten
  <2>2. IsFiniteSet({}) /\ Cardinality({}) = 0
    BY FS_EmptySet
  <2> QED
    BY <2>1, <2>2 DEF MetricsKept
<1>2. AuditTypes /\ CallsOrdered /\ LogComplete /\ MetricsKept /\ [AuditNext]_auditVars
        => MetricsKept'
  BY MetricsStep
<1> QED
  BY <1>1, <1>2, CompleteAlways, PTL DEF AuditSpec

(***************************************************************************)
(* A restart keeps the metrics of a log that has not been rotated: no call *)
(* that was counted is forgotten, and for each crash at most as many are   *)
(* added as there are slots.                                               *)
(***************************************************************************)
THEOREM MetricsSurviveRestart == AuditSpec => []MetricsKeptBeforeRotation
<1>1. AuditTypes /\ MetricsKept => MetricsKeptBeforeRotation
  <2>1. ASSUME AuditTypes, MetricsKept, step # "down", faults = 0, written \cap LongCalls = {},
               \A n \in written : [call |-> n, form |-> "readable"] \in Range(content[0])
        PROVE  counted <= metrics /\ metrics <= counted + Slots * crashes
    <3>1. content \in [Files -> Seq(Lines)] /\ 0 \in Files
      BY <2>1, LimitsAssumption DEF AuditTypes, Files
    <3>2. ASSUME NEW n \in written
          PROVE  \E k \in 1..Len(content[0]) : content[0][k].call = n
      <4>1. PICK k \in 1..Len(content[0]) : content[0][k] = [call |-> n, form |-> "readable"]
        BY <2>1, <3>1, <3>2, LinesOf
      <4> QED
        BY <4>1
    <3>3. AllInBase
      BY <2>1, <3>2 DEF AllInBase
    <3> QED
      BY <2>1, <3>3 DEF MetricsKept, Forgotten
  <2> QED
    BY <2>1 DEF MetricsKeptBeforeRotation
<1> QED
  BY <1>1, MetricsAlways, PTL

-----------------------------------------------------------------------------
(* The dashboard.                                                          *)

(***************************************************************************)
(* The requests of the dashboard, whatever they meet, do not touch the     *)
(* log: every theorem about the log holds while it is being read.          *)
(***************************************************************************)
THEOREM LogsKeepTheLog == LogsSpec => AuditSpec
<1>1. LogsInit => AuditInit
  BY DEF LogsInit
<1>2. [LogsNext]_logsVars => [AuditNext]_auditVars
  BY DEF LogsNext, logsVars, Writes, OpenLogs, Reply, CloseLogs
<1> QED
  BY <1>1, <1>2, PTL DEF LogsSpec, AuditSpec

-----------------------------------------------------------------------------
(* The list of a reply.                                                    *)

\* The first and the last of a set of numbers.
LEMMA FirstOf ==
  ASSUME NEW S \in SUBSET Nat, S # {}
  PROVE  \E m \in S : \A x \in S : m <= x
<1>1. PICK m \in S : \A y \in S : ~(<<y, m>> \in OpToRel(<, Nat))
  BY NatLessThanWellFounded, WFMin
<1>2. \A y \in S : ~(y < m)
  BY <1>1 DEF OpToRel
<1> QED
  BY <1>2

LEMMA LastOf ==
  ASSUME NEW n \in Nat, NEW S \in SUBSET (1..n), S # {}
  PROVE  \E m \in S : \A x \in S : x <= m
<1> DEFINE T == {n - x : x \in S}
<1>1. T \in SUBSET Nat /\ T # {}
  <2>1. \A x \in S : n - x \in Nat
    OBVIOUS
  <2>2. PICK x \in S : TRUE
    OBVIOUS
  <2>3. n - x \in T
    BY <2>2
  <2> QED
    BY <2>1, <2>3
<1>2. PICK t \in T : \A y \in T : t <= y
  <2> HIDE DEF T
  <2> QED
    BY <1>1, FirstOf
<1>3. PICK m \in S : t = n - m
  BY <1>2
<1>4. \A x \in S : n - m <= n - x
  BY <1>2, <1>3
<1> QED
  BY <1>4

LEMMA FunctionIsSeq ==
  ASSUME NEW S, NEW n \in Nat, NEW f \in [1..n -> S]
  PROVE  f \in Seq(S) /\ Len(f) = n
OBVIOUS

\* The calls of a file are in order.
InOrder(lines) ==
  \A k, l \in 1..Len(lines) : k < l => lines[k].call < lines[l].call

\* What the scanner gets is a piece of the file, from where the reader begins
\* up to the end or to the first line that is too long.
LEMMA ScanIs ==
  ASSUME NEW lines \in Seq(Lines), from \in Nat \ {0}
  PROVE  /\ Scan(lines) \in Seq(Lines)
         /\ \A k \in 1..Len(Scan(lines)) :
              from - 1 + k \in 1..Len(lines) /\ Scan(lines)[k] = lines[from - 1 + k]
         /\ \A k \in 1..Len(lines) :
              k >= from /\ (\A l \in from..k : ~TooLong(lines[l]))
                => k - from + 1 \in 1..Len(Scan(lines))
<1> DEFINE tail == SubSeq(lines, from, Len(lines))
<1> DEFINE long == {k \in DOMAIN tail : TooLong(tail[k])}
<1>1. /\ tail \in Seq(Lines) /\ Len(lines) \in Nat
      /\ Len(tail) = IF from <= Len(lines) THEN Len(lines) - from + 1 ELSE 0
      /\ \A i \in 1..Len(lines) - from + 1 : tail[i] = lines[from + i - 1]
  <2>1. Len(lines) \in Nat /\ \A i \in from..Len(lines) : lines[i] \in Lines
    BY ElementOfSeq
  <2> QED
    BY <2>1, SubSeqProperties
<1>2. DOMAIN tail = 1..Len(tail) /\ Len(tail) \in Nat
  BY <1>1, LenProperties
<1> HIDE DEF tail
<1>3. \A k \in 1..Len(tail) :
        from - 1 + k \in 1..Len(lines) /\ tail[k] = lines[from - 1 + k]
  BY <1>1
<1>4. \A k \in 1..Len(lines) : k >= from => k - from + 1 \in 1..Len(tail)
  BY <1>1
<1>5. CASE long = {}
  <2>1. Scan(lines) = tail
    BY <1>5 DEF Scan, tail
  <2> QED
    BY <1>1, <1>3, <1>4, <2>1
<1>6. CASE long # {}
  <2>1. long \in SUBSET Nat /\ long \subseteq 1..Len(tail)
    BY <1>2
  <2> DEFINE first == CHOOSE k \in long : \A l \in long : k <= l
  <2>2. first \in long /\ \A l \in long : first <= l
    <3> HIDE DEF long
    <3> QED
      BY <1>6, <2>1, FirstOf
  <2>3. Scan(lines) = SubSeq(tail, 1, first - 1)
    BY <1>6 DEF Scan, tail
  <2> HIDE DEF first
  <2>4. first \in 1..Len(tail) /\ TooLong(tail[first])
    BY <2>1, <2>2
  <2>5. /\ Scan(lines) \in Seq(Lines) /\ Len(Scan(lines)) = first - 1
        /\ \A i \in 1..first - 1 : Scan(lines)[i] = tail[i]
    <3>1. \A i \in 1..first - 1 : tail[i] \in Lines
      BY <1>1, <1>2, <2>4, ElementOfSeq
    <3>2. 1 \in Int /\ first - 1 \in Int
      BY <1>2, <2>4
    <3>3. /\ SubSeq(tail, 1, first - 1) \in Seq(Lines)
          /\ Len(SubSeq(tail, 1, first - 1)) = IF 1 <= first - 1 THEN first - 1 - 1 + 1 ELSE 0
          /\ \A i \in 1..first - 1 - 1 + 1 : SubSeq(tail, 1, first - 1)[i] = tail[1 + i - 1]
      BY <3>1, <3>2, SubSeqProperties
    <3> QED
      BY <1>2, <2>3, <2>4, <3>3
  <2>6. ASSUME NEW k \in 1..Len(lines), k >= from, \A l \in from..k : ~TooLong(lines[l])
        PROVE  k - from + 1 \in 1..Len(Scan(lines))
    <3>1. lines[from - 1 + first] = tail[first] /\ from - 1 + first \in 1..Len(lines)
      BY <1>3, <2>4
    <3>2. ~(from - 1 + first <= k)
      BY <1>2, <2>4, <2>6, <3>1
    <3> QED
      BY <1>1, <1>2, <2>4, <2>5, <2>6, <3>2
  <2> QED
    BY <1>2, <1>3, <2>4, <2>5, <2>6
<1> QED
  BY <1>5, <1>6

\* The number of lines that come before line k in the list.
Rank(tail, k) == Cardinality(Above(tail, k))

\* The lines that parse are counted, and their seconds are numbers.
LEMMA ParsedIs ==
  ASSUME NEW tail \in Seq(Lines)
  PROVE  /\ Parsed(tail) \subseteq 1..Len(tail) /\ Parsed(tail) \subseteq Nat
         /\ IsFiniteSet(Parsed(tail)) /\ Cardinality(Parsed(tail)) \in Nat
         /\ \A k \in Parsed(tail) :
              /\ tail[k].form = "readable" /\ tail[k].call \in 1..MaxCalls
              /\ Second[tail[k].call] \in Nat
              /\ IsFiniteSet(Above(tail, k)) /\ Rank(tail, k) \in Nat
<1>1. DOMAIN tail = 1..Len(tail) /\ Len(tail) \in Nat
  BY LenProperties
<1>2. Parsed(tail) \subseteq 1..Len(tail)
  BY <1>1 DEF Parsed
<1>3. IsFiniteSet(1..Len(tail))
  BY <1>1, IntervalCount
<1>4. IsFiniteSet(Parsed(tail)) /\ Cardinality(Parsed(tail)) \in Nat
  BY <1>2, <1>3, FS_Subset, FS_CardinalityType
<1>5. ASSUME NEW k \in Parsed(tail)
      PROVE  /\ tail[k].form = "readable" /\ tail[k].call \in 1..MaxCalls
             /\ Second[tail[k].call] \in Nat
             /\ IsFiniteSet(Above(tail, k)) /\ Rank(tail, k) \in Nat
  <2>1. tail[k] \in Lines /\ tail[k].form = "readable"
    BY <1>2, ElementOfSeq DEF Parsed
  <2>2. tail[k].call \in 1..MaxCalls
    BY <2>1 DEF Lines
  <2>3. Second[tail[k].call] \in Nat
    BY <2>2, SecondAssumption
  <2>4. Above(tail, k) \subseteq Parsed(tail)
    BY DEF Above
  <2>5. IsFiniteSet(Above(tail, k)) /\ Rank(tail, k) \in Nat
    BY <1>4, <2>4, FS_Subset, FS_CardinalityType DEF Rank
  <2> QED
    BY <2>1, <2>2, <2>3, <2>5
<1> QED
  BY <1>1, <1>2, <1>4, <1>5

\* What comes before has the smaller rank.
LEMMA RanksOrdered ==
  ASSUME NEW tail \in Seq(Lines), NEW k \in Parsed(tail), NEW l \in Parsed(tail)
  PROVE  /\ k \in Above(tail, l) => Rank(tail, k) < Rank(tail, l)
         /\ k = l \/ k \in Above(tail, l) \/ l \in Above(tail, k)
<1> DEFINE sec(i) == Second[tail[i].call]
<1>1. \A i \in Parsed(tail) : i \in Nat /\ sec(i) \in Nat
  BY ParsedIs
<1>2. \A i, j \in Parsed(tail) :
        i \in Above(tail, j) <=> sec(i) > sec(j) \/ (sec(i) = sec(j) /\ i < j)
  BY DEF Above
<1> HIDE DEF sec
<1>3. k = l \/ k \in Above(tail, l) \/ l \in Above(tail, k)
  BY <1>1, <1>2
<1>4. ASSUME k \in Above(tail, l)
      PROVE  Rank(tail, k) < Rank(tail, l)
  <2>1. Above(tail, k) \subseteq Parsed(tail) /\ k \notin Above(tail, k)
    BY <1>1, <1>2 DEF Above
  <2>2. \A i \in Above(tail, k) : i \in Above(tail, l)
    BY <1>1, <1>2, <1>4, <2>1
  <2>3. Above(tail, k) \cup {k} \subseteq Above(tail, l)
    BY <1>4, <2>2
  <2>4. IsFiniteSet(Above(tail, k)) /\ IsFiniteSet(Above(tail, l))
        /\ Rank(tail, k) \in Nat /\ Rank(tail, l) \in Nat
    BY ParsedIs
  <2>5. Cardinality(Above(tail, k) \cup {k}) = Rank(tail, k) + 1
    BY <2>1, <2>4, FS_AddElement DEF Rank
  <2>6. Cardinality(Above(tail, k) \cup {k}) <= Rank(tail, l)
    BY <2>3, <2>4, FS_Subset DEF Rank
  <2> QED
    BY <2>4, <2>5, <2>6
<1> QED
  BY <1>3, <1>4

LEMMA RankBelowCount ==
  ASSUME NEW tail \in Seq(Lines), NEW k \in Parsed(tail)
  PROVE  Rank(tail, k) < Cardinality(Parsed(tail))
<1>1. k \in Nat /\ Second[tail[k].call] \in Nat /\ Rank(tail, k) \in Nat
  BY ParsedIs
<1>2. Above(tail, k) \subseteq Parsed(tail) \ {k}
  BY <1>1 DEF Above
<1>3. IsFiniteSet(Parsed(tail)) /\ Cardinality(Parsed(tail)) \in Nat
  BY ParsedIs
<1>4. /\ IsFiniteSet(Parsed(tail) \ {k})
      /\ Cardinality(Parsed(tail) \ {k}) = Cardinality(Parsed(tail)) - 1
  BY <1>3, FS_RemoveElement
<1>5. Rank(tail, k) <= Cardinality(Parsed(tail)) - 1
  BY <1>2, <1>4, FS_Subset DEF Rank
<1> QED
  BY <1>1, <1>3, <1>5

\* Every place of the list is taken by a line.
LEMMA RanksTaken ==
  ASSUME NEW tail \in Seq(Lines), NEW i \in 1..Cardinality(Parsed(tail))
  PROVE  \E k \in Parsed(tail) : Rank(tail, k) = i - 1
<1> DEFINE P == Parsed(tail)
<1> DEFINE n == Cardinality(P)
<1> DEFINE f == [k \in P |-> Rank(tail, k)]
<1> DEFINE R == {f[k] : k \in P}
<1>1. IsFiniteSet(P) /\ n \in Nat /\ \A k \in P : f[k] = Rank(tail, k) /\ f[k] \in Nat
  BY ParsedIs
<1>2. ASSUME NEW k \in P
      PROVE  f[k] \in 0..n - 1
  <2>1. Rank(tail, k) \in Nat /\ Rank(tail, k) < n
    BY <1>1, RankBelowCount
  <2> QED
    BY <1>1, <2>1
<1>3. \A k, l \in P : f[k] = f[l] => k = l
  <2> SUFFICES ASSUME NEW k \in P, NEW l \in P, f[k] = f[l]
               PROVE  k = l
    OBVIOUS
  <2>1. ~(f[k] < f[l]) /\ ~(f[l] < f[k])
    BY <1>1
  <2> QED
    BY <1>1, <2>1, RanksOrdered
<1>4. f \in Bijection(P, R)
  <2>1. f \in [P -> R]
    OBVIOUS
  <2>2. \A r \in R : \E k \in P : f[k] = r
    OBVIOUS
  <2> HIDE DEF f, R, P
  <2> QED
    BY <1>3, <2>1, <2>2 DEF Bijection, Injection, Surjection, IsInjective
<1>5. R \subseteq 0..n - 1
  BY <1>2
<1>6. IsFiniteSet(0..n - 1) /\ Cardinality(0..n - 1) = n
  <2>1. IsFiniteSet(0..n - 1) /\ Cardinality(0..n - 1) = IF 0 > n - 1 THEN 0 ELSE n - 1 - 0 + 1
    <3>1. 0 \in Int /\ n - 1 \in Int
      BY <1>1
    <3> HIDE DEF n
    <3> QED
      BY <3>1, FS_Interval
  <2> QED
    BY <1>1, <2>1
<1> HIDE DEF f, R
<1>7. IsFiniteSet(R) /\ Cardinality(R) = n
  BY <1>1, <1>4, FS_Bijection DEF ExistsBijection
<1>8. R = 0..n - 1
  BY <1>5, <1>6, <1>7, FS_Subset
<1>9. i - 1 \in R
  BY <1>1, <1>8
<1> QED
  BY <1>1, <1>9 DEF R

\* The reply lists the lines of the first ranks, as many as there are or Limit.
LEMMA RecentIs ==
  ASSUME NEW lines \in Seq(Lines), from \in Nat \ {0}
  PROVE  LET tail == Scan(lines)
             list == Recent(lines)
             count == Cardinality(Parsed(tail))
         IN  /\ list \in Seq(1..MaxCalls)
             /\ Len(list) = IF count > Limit THEN Limit ELSE count
             /\ \A i \in 1..Len(list) :
                  \E k \in Parsed(tail) : list[i] = tail[k].call /\ Rank(tail, k) = i - 1
             /\ \A k \in Parsed(tail) :
                  Rank(tail, k) < Len(list) => \E i \in 1..Len(list) : list[i] = tail[k].call
<1> DEFINE tail == Scan(lines)
<1> DEFINE list == Recent(lines)
<1> DEFINE count == Cardinality(Parsed(tail))
<1> DEFINE at(i) == CHOOSE k \in Parsed(tail) : Cardinality(Above(tail, k)) = i - 1
<1> DEFINE m == IF count > Limit THEN Limit ELSE count
<1>1. tail \in Seq(Lines)
  BY ScanIs
<1>2. count \in Nat /\ Limit \in Nat /\ m \in Nat /\ m <= count
  BY <1>1, ParsedIs, TailAssumption
<1>3. list = [i \in 1..m |-> tail[at(i)].call]
  BY DEF Recent
<1> HIDE DEF tail, list
<1>4. ASSUME NEW i \in 1..m
      PROVE  at(i) \in Parsed(tail) /\ Rank(tail, at(i)) = i - 1
  <2>1. i \in 1..count
    BY <1>2
  <2>2. \E k \in Parsed(tail) : Cardinality(Above(tail, k)) = i - 1
    BY <1>1, <2>1, RanksTaken DEF Rank
  <2> QED
    BY <2>2 DEF Rank
<1>5. \A i \in 1..m : tail[at(i)].call \in 1..MaxCalls
  BY <1>1, <1>4, ParsedIs
<1>6. list \in Seq(1..MaxCalls) /\ Len(list) = m
  <2>1. list \in [1..m -> 1..MaxCalls]
    BY <1>3, <1>5
  <2> HIDE DEF m
  <2> QED
    BY <1>2, <2>1, FunctionIsSeq
<1>7. ASSUME NEW i \in 1..Len(list)
      PROVE  \E k \in Parsed(tail) : list[i] = tail[k].call /\ Rank(tail, k) = i - 1
  BY <1>3, <1>4, <1>6
<1>8. ASSUME NEW k \in Parsed(tail), Rank(tail, k) < Len(list)
      PROVE  \E i \in 1..Len(list) : list[i] = tail[k].call
  <2>1. Rank(tail, k) \in Nat
    BY <1>1, ParsedIs
  <2> DEFINE i == Rank(tail, k) + 1
  <2>2. i \in 1..m /\ i - 1 = Rank(tail, k)
    BY <1>2, <1>6, <1>8, <2>1
  <2> HIDE DEF i
  <2>3. at(i) \in Parsed(tail) /\ Rank(tail, at(i)) = Rank(tail, k)
    BY <1>4, <2>2
  <2> HIDE DEF at
  <2>4. at(i) = k
    <3>1. ~(Rank(tail, at(i)) < Rank(tail, k)) /\ ~(Rank(tail, k) < Rank(tail, at(i)))
      BY <2>1, <2>3
    <3> QED
      BY <1>1, <2>3, <3>1, RanksOrdered
  <2> QED
    BY <1>3, <1>6, <2>2, <2>4
<1> QED
  BY <1>6, <1>7, <1>8 DEF tail, list

-----------------------------------------------------------------------------
(* The reader and the writer.                                              *)

\* A file that fits into the tail and has no damaged or oversized line.
Whole(lines) ==
  /\ Len(lines) <= TailLines
  /\ \A k \in 1..Len(lines) : lines[k].form = "readable" /\ ~TooLong(lines[k])

Listed(n) == \E i \in 1..Len(shown) : shown[i] = n

\* LogsShowTheNewest, in terms of positions.
ListRight ==
  /\ \A i, j \in 1..Len(shown) :
       i < j => shown[i] # shown[j] /\ Second[shown[i]] >= Second[shown[j]]
  /\ \A n \in known :
       \/ Listed(n)
       \/ \A i \in 1..Len(shown) : Second[shown[i]] >= Second[n]
       \/ \A i \in 1..Len(shown) : shown[i] > n
  /\ Whole(inode) /\ Len(shown) < Limit => \A n \in known : Listed(n)

\* What was readable when the file was opened stays in it, readable; the reader
\* does not meet a line that is too long before it has passed all of that; and
\* it begins at the first line of a file that is whole.
ReaderInv ==
  /\ reader \in {"idle", "scanning", "replied"} /\ live \in BOOLEAN
  /\ inode \in Seq(Lines) /\ InOrder(inode)
  /\ live => inode = content[0]
  /\ from \in 1..Len(inode) + 2
  /\ known \subseteq 1..MaxCalls
  /\ \A n \in known : \E k \in 1..Len(inode) : inode[k] = [call |-> n, form |-> "readable"]
  /\ \A k, l \in 1..Len(inode) :
       k >= from /\ TooLong(inode[k]) /\ inode[l].call \in known => l < k
  /\ from > 1 => ~Whole(inode)
  /\ shown \in Seq(1..MaxCalls) /\ Len(shown) <= Limit
  /\ reader = "replied" => ListRight

LEMMA NothingIsRight ==
  ASSUME reader' \in {"idle", "scanning"}, Nothing
  PROVE  ReaderInv'
<1>1. /\ live' = FALSE /\ inode' = <<>> /\ from' = 1 /\ known' = {} /\ shown' = <<>>
  BY DEF Nothing
<1>2. /\ <<>> \in Seq(Lines) /\ <<>> \in Seq(1..MaxCalls) /\ Len(<<>>) = 0
  BY EmptySeq
<1>3. Len(inode') = 0 /\ Len(shown') = 0 /\ 0 <= Limit
  BY <1>1, <1>2, TailAssumption
<1>4. InOrder(inode)'
  BY <1>3 DEF InOrder
<1>5. from' \in 1..Len(inode') + 2 /\ ~(from' > 1) /\ ~live' /\ reader' # "replied"
  BY <1>1, <1>3
<1>6. \A k, l \in 1..Len(inode') :
        k >= from' /\ TooLong(inode'[k]) /\ inode'[l].call \in known' => l < k
  BY <1>1
<1> QED
  BY <1>1, <1>2, <1>3, <1>4, <1>5, <1>6 DEF ReaderInv, TooLong

\* Where the reader begins: behind every line that is too long.
LEMMA FirstKeptIs ==
  ASSUME NEW lines \in Seq(Lines), NEW i \in FirstKept(lines)
  PROVE  /\ i \in 1..Len(lines) + 2
         /\ \A k \in 1..Len(lines) : TooLong(lines[k]) => k < i
         /\ i > 1 => ~Whole(lines)
<1> DEFINE cut == {k \in DOMAIN lines : TooLong(lines[k]) \/ k <= Len(lines) - TailLines}
<1>0. DOMAIN lines = 1..Len(lines) /\ Len(lines) \in Nat /\ TailLines \in Nat \ {0}
  BY LenProperties, TailAssumption
<1>1. CASE cut = {}
  <2>1. i = 1
    BY <1>1 DEF FirstKept
  <2> QED
    BY <1>0, <1>1, <2>1
<1>2. CASE cut # {}
  <2> DEFINE last == CHOOSE k \in cut : \A l \in cut : l <= k
  <2>1. cut \in SUBSET (1..Len(lines))
    BY <1>0
  <2>2. last \in cut /\ \A l \in cut : l <= last
    <3> HIDE DEF cut
    <3> QED
      BY <1>0, <1>2, <2>1, LastOf
  <2>3. i \in {last + 1, last + 2}
    BY <1>2 DEF FirstKept
  <2> HIDE DEF last
  <2>4. last \in 1..Len(lines) /\ (TooLong(lines[last]) \/ last <= Len(lines) - TailLines)
    BY <2>1, <2>2
  <2>5. \A k \in 1..Len(lines) : TooLong(lines[k]) => k <= last
    BY <1>0, <2>2
  <2>6. ~Whole(lines)
    BY <1>0, <2>4 DEF Whole
  <2> QED
    BY <1>0, <2>3, <2>4, <2>5, <2>6
<1> QED
  BY <1>1, <1>2

LEMMA OpenedRight ==
  ASSUME AuditTypes, CallsOrdered, ReaderInv, OpenLogs
  PROVE  ReaderInv'
<1>0. content[0] \in Seq(Lines) /\ InOrder(content[0]) /\ open \in BOOLEAN
  <2>1. 0 \in Files
    BY LimitsAssumption DEF Files
  <2> QED
    BY <2>1 DEF AuditTypes, AuditTypeOK, CallsOrdered, HistoryOrdered, Before, InOrder
<1>1. /\ reader' = "scanning" /\ live' \in BOOLEAN /\ inode' = content[0]
      /\ from' \in FirstKept(content[0]) /\ known' = ReadableIn(content[0])
      /\ UNCHANGED <<content, shown>>
  BY <1>0 DEF OpenLogs, auditVars
<1>2. Range(content[0]) = {content[0][k] : k \in 1..Len(content[0])}
  BY <1>0, RangeEquality
<1>3. ASSUME NEW n \in known'
      PROVE  /\ n \in 1..MaxCalls
             /\ \E k \in 1..Len(content[0]) : content[0][k] = [call |-> n, form |-> "readable"]
  <2>1. PICK line \in Range(content[0]) : line.form = "readable" /\ line.call = n
    BY <1>1 DEF ReadableIn
  <2>2. PICK k \in 1..Len(content[0]) : content[0][k] = line
    BY <1>2
  <2>3. line \in Lines
    BY <1>0, <2>2, ElementOfSeq
  <2> QED
    BY <2>1, <2>2, <2>3 DEF Lines
<1>4. /\ from' \in 1..Len(content[0]) + 2
      /\ \A k \in 1..Len(content[0]) : TooLong(content[0][k]) => k < from'
      /\ from' > 1 => ~Whole(content[0])
  BY <1>0, <1>1, FirstKeptIs
<1>5. \A k \in 1..Len(content[0]) : ~(k >= from' /\ TooLong(content[0][k]))
  BY <1>0, <1>4, LenProperties
<1>6. InOrder(inode)' /\ (Whole(inode)' <=> Whole(content[0]))
      /\ \A k \in 1..Len(inode') : TooLong(inode[k])' <=> TooLong(content[0][k])
  BY <1>0, <1>1 DEF InOrder, Whole, TooLong
<1>7. \A k, l \in 1..Len(inode') :
        k >= from' /\ TooLong(inode'[k]) /\ inode'[l].call \in known' => l < k
  BY <1>1, <1>5
<1> QED
  BY <1>0, <1>1, <1>3, <1>4, <1>6, <1>7 DEF ReaderInv, TooLong

\* A line that was there when the file was opened is found, unless it lies
\* before the place where the reader begins.
LEMMA KnownParsed ==
  ASSUME ReaderInv, NEW n \in known, NEW k \in 1..Len(inode),
         inode[k] = [call |-> n, form |-> "readable"], k >= from
  PROVE  \E b \in Parsed(Scan(inode)) : Scan(inode)[b].call = n
<1>0. inode \in Seq(Lines) /\ Len(inode) \in Nat /\ from \in Nat \ {0}
  BY LenProperties DEF ReaderInv
<1>1. ASSUME NEW l \in from..k, TooLong(inode[l])
      PROVE  FALSE
  <2>1. l \in 1..Len(inode)
    BY <1>0
  <2>2. k < l
    BY <1>1, <2>1 DEF ReaderInv
  <2> QED
    BY <1>0, <2>2
<1>2. k - from + 1 \in 1..Len(Scan(inode))
  BY <1>0, <1>1, ScanIs
<1>3. Scan(inode)[k - from + 1] = inode[from - 1 + (k - from + 1)]
  BY <1>0, <1>2, ScanIs
<1>4. from - 1 + (k - from + 1) = k
  BY <1>0
<1>5. Scan(inode) \in Seq(Lines)
  BY <1>0, ScanIs
<1>6. k - from + 1 \in Parsed(Scan(inode))
  BY <1>2, <1>3, <1>4, <1>5, LenProperties DEF Parsed
<1> QED
  BY <1>3, <1>4, <1>6

\* What the writer does to an open file: it adds a line, or continues the last
\* one, which no reader could read.
LEMMA WriterGrows ==
  ASSUME AuditTypes, CallsOrdered, AuditTypes', CallsOrdered', ReaderInv, AuditNext,
         live' = (live /\ (Absent(0) \/ content'[0] # <<>>)),
         inode' = IF live' THEN content'[0] ELSE inode
  PROVE  /\ live' \in BOOLEAN /\ inode' \in Seq(Lines) /\ InOrder(inode)'
         /\ live' => inode' = content'[0]
         /\ Len(inode) <= Len(inode')
         /\ \A k \in 1..Len(inode) :
              inode'[k] = inode[k] \/ (k = Len(inode) /\ inode[k].form # "readable")
         /\ Whole(inode)' => Whole(inode)
<1>0. /\ 0 \in Files /\ MaxFiles >= 1
      /\ content \in [Files -> Seq(Lines)] /\ content' \in [Files -> Seq(Lines)]
  BY LimitsAssumption DEF Files, AuditTypes
<1>1. live \in BOOLEAN /\ inode \in Seq(Lines) /\ InOrder(inode) /\ Len(inode) \in Nat
  BY LenProperties DEF ReaderInv
<1>2. InOrder(content[0])'
  BY <1>0 DEF CallsOrdered, HistoryOrdered, Before, InOrder
<1>3. CASE ~live'
  <2>1. inode' = inode /\ (Whole(inode)' <=> Whole(inode)) /\ (InOrder(inode)' <=> InOrder(inode))
    BY <1>3 DEF Whole, TooLong, InOrder
  <2> QED
    BY <1>1, <1>3, <2>1
<1>4. CASE live'
  <2>1. inode = content[0] /\ inode' = content'[0] /\ (content[0] = <<>> \/ content'[0] # <<>>)
    BY <1>1, <1>4 DEF ReaderInv, Absent
  <2>2. inode' \in Seq(Lines) /\ InOrder(inode)' /\ Len(inode') \in Nat
    BY <1>0, <1>2, <2>1, LenProperties DEF InOrder
  <2>3. CASE content'[0] = content[0]
    BY <1>1, <1>4, <2>1, <2>2, <2>3 DEF Whole, TooLong
  <2>4. CASE Removed
    BY <1>0, <2>3, <2>4, RemoveEffect
  <2>5. CASE step = "shift" /\ Moved(shifting)
    <3>1. shifting >= 1 /\ shifting \in Nat
      BY <1>0, <2>5, MoveEffect DEF AuditTypes
    <3>2. 0 \in Files \ {shifting, shifting + 1}
      BY <1>0, <3>1
    <3>3. content'[0] = content[0]
      BY <1>0, <2>5, <3>2, MoveEffect
    <3> QED
      BY <2>3, <3>3
  <2>6. CASE Moved(0)
    BY <1>0, <2>1, <2>3, <2>6, MoveEffect
  <2>7. CASE step = "append"
    <3>1. call \in 1..MaxCalls
      BY <2>7, BoundsAssumption DEF AuditTypes, AuditTypeOK, InProgress
    <3>2. CASE \E form \in {"readable", "torn"} : Appended(form)
      <4>1. /\ Len(inode') = Len(inode) + 1
            /\ \A k \in 1..Len(inode) : inode'[k] = inode[k]
        BY <1>0, <2>1, <3>1, <3>2, AppendEffect
      <4>2. ASSUME Whole(inode)'
            PROVE  Whole(inode)
        <5>1. Len(inode) <= TailLines
          BY <1>1, <4>1, <4>2, TailAssumption DEF Whole
        <5>2. \A k \in 1..Len(inode') : inode'[k].form = "readable" /\ inode'[k].call \notin LongCalls
          BY <4>2 DEF Whole, TooLong
        <5> QED
          BY <1>1, <4>1, <5>1, <5>2 DEF Whole, TooLong
      <4> QED
        BY <1>1, <1>4, <2>1, <2>2, <4>1, <4>2
    <3>3. CASE EndsTorn /\ \E form \in {"glued", "torn"} : Glue(form)
      <4>1. PICK form \in {"glued", "torn"} : Glue(form)
        BY <3>3
      <4>2. /\ Len(inode) >= 1 /\ Len(inode') = Len(inode)
            /\ inode[Len(inode)].form = "torn"
            /\ inode'[Len(inode)] = [call |-> call, form |-> form]
            /\ \A k \in 1..Len(inode) - 1 : inode'[k] = inode[k]
        BY <1>0, <2>1, <3>1, <3>3, <4>1, GlueEffect
      <4>3. inode'[Len(inode')].form # "readable" /\ Len(inode') \in 1..Len(inode')
        BY <1>1, <4>2
      <4>4. ~Whole(inode)'
        BY <4>3 DEF Whole
      <4>5. \A k \in 1..Len(inode) : k \in 1..Len(inode) - 1 \/ k = Len(inode)
        BY <1>1
      <4> QED
        BY <1>1, <1>4, <2>1, <2>2, <4>2, <4>4, <4>5
    <3>4. CASE UNCHANGED content
      BY <2>3, <3>4
    <3> QED
      BY <2>7, <3>2, <3>3, <3>4, <2>4, <2>6, FileSteps
  <2>8. CASE UNCHANGED content
    BY <2>3, <2>8
  <2> QED
    BY <2>4, <2>5, <2>6, <2>7, <2>8, FileSteps
<1> QED
  BY <1>3, <1>4

LEMMA GrowthKeepsReader ==
  ASSUME ReaderInv, UNCHANGED <<reader, from, known, shown>>,
         live' \in BOOLEAN, inode' \in Seq(Lines), InOrder(inode)',
         live' => inode' = content'[0],
         Len(inode) <= Len(inode'),
         \A k \in 1..Len(inode) :
           inode'[k] = inode[k] \/ (k = Len(inode) /\ inode[k].form # "readable"),
         Whole(inode)' => Whole(inode)
  PROVE  ReaderInv'
<1>0. /\ inode \in Seq(Lines) /\ Len(inode) \in Nat /\ Len(inode') \in Nat
      /\ from \in 1..Len(inode) + 2 /\ known \subseteq Nat
  BY LenProperties, BoundsAssumption DEF ReaderInv
\* Where the known lines are.
<1>1. ASSUME NEW n \in known
      PROVE  \E p \in 1..Len(inode) :
               inode[p] = [call |-> n, form |-> "readable"] /\ inode'[p] = inode[p]
  <2>1. PICK p \in 1..Len(inode) : inode[p] = [call |-> n, form |-> "readable"]
    BY DEF ReaderInv
  <2> QED
    BY <2>1
<1>2. ASSUME NEW k \in 1..Len(inode'), NEW l \in 1..Len(inode'),
             k >= from, TooLong(inode'[k]), inode'[l].call \in known
      PROVE  l < k
  <2>1. PICK p \in 1..Len(inode) :
          inode[p] = [call |-> inode'[l].call, form |-> "readable"] /\ inode'[p] = inode[p]
    BY <1>1, <1>2
  <2>2. p = l
    <3>1. p \in 1..Len(inode') /\ inode'[p].call = inode'[l].call
      BY <1>0, <2>1
    <3>2. inode'[l].call \in Nat
      BY <1>0, <1>2
    <3>3. ~(p < l) /\ ~(l < p)
      BY <3>1, <3>2 DEF InOrder
    <3> QED
      BY <1>0, <3>3
  <2>3. CASE k \in 1..Len(inode) /\ inode'[k] = inode[k]
    <3>1. TooLong(inode[k]) /\ inode[p].call \in known
      BY <1>2, <2>1, <2>3
    <3> QED
      BY <1>2, <2>2, <2>3, <3>1 DEF ReaderInv
  <2>4. CASE k = Len(inode) /\ inode[k].form # "readable"
    <3>1. p # k
      BY <2>1, <2>4
    <3> QED
      BY <1>0, <2>2, <2>4, <3>1
  <2>5. CASE k > Len(inode)
    BY <1>0, <2>2, <2>5
  <2> QED
    BY <1>0, <2>3, <2>4, <2>5
<1>3. \A n \in known' : \E k \in 1..Len(inode') : inode'[k] = [call |-> n, form |-> "readable"]
  <2>1. \A p \in 1..Len(inode) : p \in 1..Len(inode')
    BY <1>0
  <2> QED
    BY <1>1, <2>1
<1>4. reader' = "replied" => ListRight'
  <2>1. ASSUME reader' = "replied"
        PROVE  ListRight'
    <3>1. ListRight /\ Whole(inode)' => Whole(inode)
      BY <2>1 DEF ReaderInv
    <3>2. ListRight
      BY <2>1 DEF ReaderInv
    <3> QED
      BY <3>2 DEF ListRight, Listed
  <2> QED
    BY <2>1
<1>5. from' \in 1..Len(inode') + 2 /\ (from' > 1 => ~Whole(inode)')
  <2>1. from > 1 => ~Whole(inode)
    BY DEF ReaderInv
  <2> QED
    BY <1>0, <2>1
<1>6. /\ reader' \in {"idle", "scanning", "replied"} /\ known' \subseteq 1..MaxCalls
      /\ shown' \in Seq(1..MaxCalls) /\ Len(shown') <= Limit
  BY DEF ReaderInv
<1>7. \A k, l \in 1..Len(inode') :
        k >= from' /\ TooLong(inode'[k]) /\ inode'[l].call \in known' => l < k
  BY <1>2
<1> QED
  BY <1>3, <1>4, <1>5, <1>6, <1>7 DEF ReaderInv, TooLong

LEMMA ReplyIsRight ==
  ASSUME ReaderInv, Reply
  PROVE  ReaderInv'
<1> DEFINE tail == Scan(inode)
<1> DEFINE list == Recent(inode)
<1>0. /\ inode \in Seq(Lines) /\ Len(inode) \in Nat /\ from \in Nat \ {0} /\ InOrder(inode)
      /\ known \subseteq 1..MaxCalls
  BY LenProperties DEF ReaderInv
<1>1. /\ tail \in Seq(Lines)
      /\ \A a \in 1..Len(tail) :
           from - 1 + a \in 1..Len(inode) /\ tail[a] = inode[from - 1 + a]
  BY <1>0, ScanIs
<1>2. /\ list \in Seq(1..MaxCalls)
      /\ Len(list) = IF Cardinality(Parsed(tail)) > Limit THEN Limit ELSE Cardinality(Parsed(tail))
      /\ \A i \in 1..Len(list) :
           \E a \in Parsed(tail) : list[i] = tail[a].call /\ Rank(tail, a) = i - 1
      /\ \A b \in Parsed(tail) :
           Rank(tail, b) < Len(list) => \E i \in 1..Len(list) : list[i] = tail[b].call
  BY <1>0, RecentIs
<1> HIDE DEF tail, list
<1>3. \A a \in Parsed(tail) :
        /\ a \in 1..Len(tail) /\ a \in Nat
        /\ tail[a].call \in 1..MaxCalls /\ Second[tail[a].call] \in Nat /\ Rank(tail, a) \in Nat
  BY <1>1, ParsedIs
<1>4. Len(list) \in Nat /\ Cardinality(Parsed(tail)) \in Nat /\ Limit \in Nat /\ Len(list) <= Limit
  BY <1>1, <1>2, ParsedIs, TailAssumption
\* The list is sorted by rank.
<1>5. ASSUME NEW a \in Parsed(tail), NEW b \in Parsed(tail), Rank(tail, a) < Rank(tail, b)
      PROVE  a # b /\ Second[tail[a].call] >= Second[tail[b].call]
  <2>1. a # b /\ ~(Rank(tail, b) < Rank(tail, a))
    BY <1>3, <1>5
  <2>2. a \in Above(tail, b)
    BY <1>1, <2>1, RanksOrdered
  <2>3. Second[tail[a].call] > Second[tail[b].call] \/ Second[tail[a].call] = Second[tail[b].call]
    BY <2>2 DEF Above
  <2> QED
    BY <1>3, <2>1, <2>3
<1>6. ASSUME NEW i \in 1..Len(list), NEW j \in 1..Len(list), i < j
      PROVE  list[i] # list[j] /\ Second[list[i]] >= Second[list[j]]
  <2>1. PICK a \in Parsed(tail) : list[i] = tail[a].call /\ Rank(tail, a) = i - 1
    BY <1>2
  <2>2. PICK b \in Parsed(tail) : list[j] = tail[b].call /\ Rank(tail, b) = j - 1
    BY <1>2
  <2>3. a # b /\ Second[tail[a].call] >= Second[tail[b].call]
    BY <1>4, <1>5, <1>6, <2>1, <2>2
  <2>4. /\ from - 1 + a \in 1..Len(inode) /\ tail[a] = inode[from - 1 + a]
        /\ from - 1 + b \in 1..Len(inode) /\ tail[b] = inode[from - 1 + b]
        /\ from - 1 + a < from - 1 + b \/ from - 1 + b < from - 1 + a
    <3>1. a \in 1..Len(tail) /\ b \in 1..Len(tail) /\ a \in Nat /\ b \in Nat
      BY <1>3
    <3>2. a < b \/ b < a
      BY <2>3, <3>1
    <3> QED
      BY <1>0, <1>1, <3>1, <3>2
  <2>5. tail[a].call < tail[b].call \/ tail[b].call < tail[a].call
    BY <1>0, <2>4 DEF InOrder
  <2>6. tail[a].call \in Int /\ tail[b].call \in Int
    BY <1>3
  <2> QED
    BY <2>1, <2>2, <2>3, <2>5, <2>6
<1>7. ASSUME NEW n \in known
      PROVE  /\ \/ \E i \in 1..Len(list) : list[i] = n
                \/ \A i \in 1..Len(list) : Second[list[i]] >= Second[n]
                \/ \A i \in 1..Len(list) : list[i] > n
             /\ Whole(inode) /\ Len(list) < Limit => \E i \in 1..Len(list) : list[i] = n
  <2>1. PICK p \in 1..Len(inode) : inode[p] = [call |-> n, form |-> "readable"]
    BY DEF ReaderInv
  <2>2. n \in 1..MaxCalls /\ inode[p].call = n
    BY <1>0, <2>1
  <2>3. CASE p < from
    <3>1. ASSUME NEW i \in 1..Len(list)
          PROVE  list[i] > n
      <4>1. PICK a \in Parsed(tail) : list[i] = tail[a].call
        BY <1>2
      <4>2. /\ from - 1 + a \in 1..Len(inode) /\ tail[a] = inode[from - 1 + a]
            /\ p < from - 1 + a
        BY <1>0, <1>1, <1>3, <2>3
      <4>3. n < tail[a].call /\ tail[a].call \in 1..MaxCalls
        BY <1>0, <1>3, <2>2, <4>2 DEF InOrder
      <4> QED
        BY <2>2, <4>1, <4>3
    <3>2. ~Whole(inode)
      <4>1. from > 1
        BY <1>0, <2>3
      <4> QED
        BY <4>1 DEF ReaderInv
    <3> QED
      BY <3>1, <3>2
  <2>4. CASE p >= from
    <3>1. PICK b \in Parsed(tail) : tail[b].call = n
      BY <2>1, <2>4, KnownParsed DEF tail
    <3>2. CASE Rank(tail, b) < Len(list)
      BY <1>2, <3>1, <3>2
    <3>3. CASE Rank(tail, b) >= Len(list)
      <4>1. ASSUME NEW i \in 1..Len(list)
            PROVE  Second[list[i]] >= Second[n]
        <5>1. PICK a \in Parsed(tail) : list[i] = tail[a].call /\ Rank(tail, a) = i - 1
          BY <1>2
        <5>2. Rank(tail, a) < Rank(tail, b)
          BY <1>3, <1>4, <3>3, <5>1
        <5> QED
          BY <1>5, <3>1, <5>1, <5>2
      <4>2. ~(Len(list) < Limit)
        <5>1. Rank(tail, b) < Cardinality(Parsed(tail))
          BY <1>1, RankBelowCount
        <5> QED
          BY <1>2, <1>3, <1>4, <3>3, <5>1
      <4> QED
        BY <4>1, <4>2
    <3> QED
      BY <1>3, <1>4, <3>2, <3>3
  <2> QED
    BY <1>0, <2>3, <2>4
<1>8. shown' = list /\ reader' = "replied" /\ UNCHANGED <<content, live, inode, from, known>>
  BY DEF Reply, auditVars, list
<1>9. ListRight'
  <2>1. Whole(inode)' <=> Whole(inode)
    BY <1>8 DEF Whole, TooLong
  <2>2. \A n : Listed(n)' <=> \E i \in 1..Len(list) : list[i] = n
    BY <1>8 DEF Listed
  <2> QED
    BY <1>6, <1>7, <1>8, <2>1, <2>2 DEF ListRight
<1>10. /\ InOrder(inode)' /\ (from' > 1 => ~Whole(inode)')
       /\ \A k, l \in 1..Len(inode') :
            k >= from' /\ TooLong(inode'[k]) /\ inode'[l].call \in known' => l < k
  BY <1>8 DEF ReaderInv, InOrder, Whole, TooLong
<1>11. /\ live' \in BOOLEAN /\ inode' \in Seq(Lines) /\ (live' => inode' = content'[0])
       /\ from' \in 1..Len(inode') + 2 /\ known' \subseteq 1..MaxCalls
       /\ \A n \in known' :
            \E k \in 1..Len(inode') : inode'[k] = [call |-> n, form |-> "readable"]
  BY <1>8 DEF ReaderInv
<1> QED
  BY <1>2, <1>4, <1>8, <1>9, <1>10, <1>11 DEF ReaderInv, TooLong

LEMMA ReaderStep ==
  ASSUME AuditTypes, CallsOrdered, AuditTypes', CallsOrdered', ReaderInv,
         [LogsNext]_logsVars
  PROVE  ReaderInv'
<1>1. CASE Writes
  <2>1. CASE reader' = "idle" /\ Nothing
    BY <2>1, NothingIsRight
  <2>2. CASE /\ live' = (live /\ (Absent(0) \/ content'[0] # <<>>))
             /\ inode' = IF live' THEN content'[0] ELSE inode
             /\ UNCHANGED <<reader, from, known, shown>>
    <3>1. AuditNext
      BY <1>1 DEF Writes
    <3>2. /\ live' \in BOOLEAN /\ inode' \in Seq(Lines) /\ InOrder(inode)'
          /\ live' => inode' = content'[0]
          /\ Len(inode) <= Len(inode')
          /\ \A k \in 1..Len(inode) :
               inode'[k] = inode[k] \/ (k = Len(inode) /\ inode[k].form # "readable")
          /\ Whole(inode)' => Whole(inode)
      BY <2>2, <3>1, WriterGrows
    <3> QED
      BY <2>2, <3>2, GrowthKeepsReader
  <2> QED
    BY <1>1, <2>1, <2>2 DEF Writes
<1>2. CASE OpenLogs
  BY <1>2, OpenedRight
<1>3. CASE Reply
  BY <1>3, ReplyIsRight
<1>4. CASE CloseLogs
  BY <1>4, NothingIsRight DEF CloseLogs
<1>5. CASE UNCHANGED logsVars
  BY <1>5 DEF logsVars, readerVars, auditVars, ReaderInv, InOrder, Whole, TooLong,
              ListRight, Listed
<1> QED
  BY <1>1, <1>2, <1>3, <1>4, <1>5 DEF LogsNext

LEMMA ReaderAlways == LogsSpec => [](AuditTypes /\ ReaderInv)
<1>1. LogsInit => ReaderInv
  <2> SUFFICES ASSUME LogsInit
               PROVE  ReaderInv
    OBVIOUS
  <2>1. /\ reader = "idle" /\ live = FALSE /\ inode = <<>> /\ from = 1
        /\ known = {} /\ shown = <<>>
    BY DEF LogsInit
  <2>2. inode \in Seq(Lines) /\ shown \in Seq(1..MaxCalls) /\ Len(inode) = 0 /\ Len(shown) = 0
    BY <2>1, EmptySeq
  <2>3. InOrder(inode) /\ from \in 1..Len(inode) + 2 /\ ~(from > 1) /\ Len(shown) <= Limit
    BY <2>1, <2>2, TailAssumption DEF InOrder
  <2> QED
    BY <2>1, <2>2, <2>3 DEF ReaderInv
<1>2. AuditTypes /\ CallsOrdered /\ AuditTypes' /\ CallsOrdered' /\ ReaderInv
        /\ [LogsNext]_logsVars => ReaderInv'
  BY ReaderStep
<1> QED
  BY <1>1, <1>2, LogsKeepTheLog, CallsAlways, PTL DEF LogsSpec

(***************************************************************************)
(* What the reader of the dashboard holds is of its type, and no reply has *)
(* more lines than the limit.                                              *)
(***************************************************************************)
THEOREM LogsTypeCorrect == LogsSpec => []LogsTypeOK
<1>1. AuditTypes /\ ReaderInv => LogsTypeOK
  <2> SUFFICES ASSUME AuditTypes, ReaderInv
               PROVE  LogsTypeOK
    OBVIOUS
  <2>1. AuditTypeOK
    BY DEF AuditTypes
  <2>2. Range(inode) \subseteq Lines
    BY RangeEquality, ElementOfSeq DEF ReaderInv
  <2>3. Range(shown) \subseteq 1..MaxCalls
    <3> DEFINE S == 1..MaxCalls
    <3>1. shown \in Seq(S)
      BY DEF ReaderInv
    <3> HIDE DEF S
    <3>2. Range(shown) \subseteq S
      BY <3>1, RangeEquality, ElementOfSeq
    <3> QED
      BY <3>2 DEF S
  <2>4. /\ reader \in {"idle", "scanning", "replied"} /\ live \in BOOLEAN
        /\ from \in 1..Len(inode) + 2 /\ known \subseteq 1..MaxCalls /\ Len(shown) <= Limit
    BY DEF ReaderInv
  <2> QED
    BY <2>1, <2>2, <2>3, <2>4 DEF LogsTypeOK
<1> QED
  BY <1>1, ReaderAlways, PTL

(***************************************************************************)
(* However appends, rotations, failed writes and crashes interleave with   *)
(* the reading, a reply of /api/logs shows the newest calls of the log it  *)
(* has opened: sorted by their seconds, none twice; none is passed over    *)
(* that does not lie before all that are shown, in the file or by its      *)
(* second; and all are shown when the file is undamaged and fits.          *)
(***************************************************************************)
THEOREM ListShowsTheNewest == LogsSpec => []LogsShowTheNewest
<1>1. ReaderInv => LogsShowTheNewest
  <2> SUFFICES ASSUME ReaderInv, reader = "replied"
               PROVE  LogsShowTheNewest
    BY DEF LogsShowTheNewest
  <2>1. ListRight /\ shown \in Seq(1..MaxCalls) /\ inode \in Seq(Lines)
    BY DEF ReaderInv
  <2>2. /\ DOMAIN shown = 1..Len(shown)
        /\ Range(shown) = {shown[i] : i \in 1..Len(shown)}
        /\ Range(inode) = {inode[k] : k \in 1..Len(inode)}
    BY <2>1, LenProperties, RangeEquality
  <2>3. \A n : Listed(n) <=> n \in Range(shown)
    BY <2>2 DEF Listed
  <2>4. \A k, l \in DOMAIN shown :
          k < l => shown[k] # shown[l] /\ Second[shown[k]] >= Second[shown[l]]
    BY <2>1, <2>2 DEF ListRight
  <2>5. \A n \in known \ Range(shown) :
          \/ \A m \in Range(shown) : Second[m] >= Second[n]
          \/ \A m \in Range(shown) : m > n
    BY <2>1, <2>2, <2>3 DEF ListRight
  <2>6. ASSUME Len(inode) <= TailLines, Len(shown) < Limit,
               \A line \in Range(inode) : line.form = "readable" /\ ~TooLong(line)
        PROVE  known \subseteq Range(shown)
    <3>1. Whole(inode)
      BY <2>2, <2>6 DEF Whole
    <3> QED
      BY <2>1, <2>3, <2>6, <3>1 DEF ListRight
  <2> QED
    BY <2>4, <2>5, <2>6 DEF LogsShowTheNewest
<1> QED
  BY <1>1, ReaderAlways, PTL
=============================================================================
