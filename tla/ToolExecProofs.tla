--------------------------- MODULE ToolExecProofs ---------------------------
(***************************************************************************)
(* Proofs about RLimit and ToolExec, for every set of calls, whatever      *)
(* their manifests say, and whatever limits the server was started with.   *)
(*                                                                         *)
(* LimitsInv says, for each place of the start that holds rlimitMu, what   *)
(* the limits of the server are; AnswerInv says in which combinations the  *)
(* process, its deadline and the answer of a call occur.                   *)
(***************************************************************************)
EXTENDS ToolExec, TLAPS

InProgress == {"saved", "dataSet", "bothSet", "started", "dataRestored"}

Ordered(l) == \A res \in Resources : l[res].soft <= l[res].hard

\* Exactly the holder of the mutex is between lock and unlock.
MutexHeld == \A p \in Starts : at[p] \in InProgress <=> rlimitMu = p

\* What is set is never more than the holder's manifest grants.
LoweredInTime ==
  \A p \in Starts :
    /\ at[p] \in {"dataSet", "bothSet"} => limit["data"].soft <= Requested(p)["data"]
    /\ at[p] = "bothSet" => limit["cpu"].soft <= Requested(p)["cpu"]

\* With the privilege, every setrlimit does what it is asked.
ExactInProgress ==
  \A p \in Starts :
    /\ at[p] \in InProgress => old[p] = InitLimit
    /\ at[p] = "saved" => limit = InitLimit
    /\ at[p] = "dataSet" =>
         /\ limit["data"] = Both(Requested(p)["data"])
         /\ limit["cpu"] = InitLimit["cpu"]
    /\ at[p] \in {"bothSet", "started"} =>
         \A res \in Resources : limit[res] = Both(Requested(p)[res])
    /\ at[p] = "dataRestored" => limit["data"] = InitLimit["data"]

LimitsInv ==
  /\ RLimitTypeOK
  /\ Ordered(limit)
  /\ \A p \in Starts : Ordered(old[p])
  /\ MutexHeld
  /\ LoweredInTime
  /\ ChildNeverLooser
  /\ privileged => ExactInProgress
  /\ ServerLimitsRestored
  /\ ChildLimitsExact

\* A process is there from cmd.Start() on; the flags follow its life.
LifeOrdered ==
  \A p \in Starts :
    /\ process[p] \in {"none", "running"} =>
         ~reaped[p] /\ ~pipeHeld[p] /\ ~cancelled[p]
    /\ cancelled[p] => expired[p]
    /\ process[p] = "killed" => cancelled[p]
    /\ reaped[p] => at[p] = "returned"
    /\ ~Handling(p) => at[p] \in {"called", "returned"}

\* An answered call's own process has been reaped, and no descendant holds its
\* output pipe any more (one that has redirected its output may live on).
OwnProcessReaped ==
  \A p \in Starts :
    ~Handling(p) => process[p] = "none" \/ (reaped[p] /\ ~pipeHeld[p])

AnswerInv ==
  /\ ExecTypeOK
  /\ LifeOrdered
  /\ OwnProcessReaped
  /\ TimeoutsReported

\* Where StartWithLimits forks.
NotForked ==
  \A p \in Starts :
    at[p] \in {"called", "saved", "dataSet", "bothSet"} => process[p] = "none"

CallInv == AnswerInv /\ NotForked

-----------------------------------------------------------------------------
(* What the kernel and the manifests contribute.                           *)

\* Every tool is granted something, whatever its manifest says.
LEMMA RequestedPositive ==
  ASSUME NEW p \in Starts
  PROVE  Requested(p) \in [Resources -> Nat \ {0}]
<1> DEFINE percent == EffectiveCPU(Config[p].cpu)
           share == (Config[p].timeout * percent) \div 100
<1>1. Config[p].memory \in Int /\ Config[p].cpu \in Int /\ Config[p].timeout \in Nat
  BY ConfigAssumption
<1>2. EffectiveMemory(Config[p].memory) \in Nat \ {0}
  BY <1>1 DEF EffectiveMemory, DefaultMaxMemoryMB
<1>3. percent \in Nat
  BY <1>1 DEF EffectiveCPU, DefaultMaxCPUPercent
<1>4. share \in Int
  <2> HIDE DEF percent
  <2>1. Config[p].timeout * percent \in Int
    BY <1>1, <1>3
  <2> HIDE <1>1, <1>3
  <2> QED
    BY <2>1
<1>5. CpuSeconds(Config[p].timeout, percent) \in Nat \ {0}
  <2> HIDE DEF percent
  <2>1. CpuSeconds(Config[p].timeout, percent) = IF share < 1 THEN 1 ELSE share
    BY DEF CpuSeconds
  <2> HIDE DEF share
  <2> QED
    BY <1>4, <2>1
<1> QED
  BY <1>2, <1>5 DEF Requested, Resources

LEMMA BothIsOrdered ==
  ASSUME NEW value \in Nat
  PROVE  /\ Both(value) \in Rlimits
         /\ Both(value).soft = value /\ Both(value).hard = value
BY DEF Both, Rlimits

\* setrlimit leaves ordered limits behind; with the privilege, those asked for.
LEMMA SetrlimitResult ==
  ASSUME NEW current \in Rlimits, current.soft <= current.hard,
         NEW wanted \in Rlimits, wanted.soft <= wanted.hard
  PROVE  /\ Setrlimit(current, wanted) \in Rlimits
         /\ Setrlimit(current, wanted).soft <= Setrlimit(current, wanted).hard
         /\ privileged => Setrlimit(current, wanted) = wanted
BY DEF Setrlimit

\* A limit that is refused was lower already.
LEMMA SetrlimitLowers ==
  ASSUME NEW current \in Rlimits, current.soft <= current.hard,
         NEW value \in Nat
  PROVE  Setrlimit(current, Both(value)).soft <= value
BY DEF Setrlimit, Both, Rlimits

-----------------------------------------------------------------------------
(* The limits.                                                             *)

\* A step of a start that holds the mutex leaves the others where they are.
LEMMA OthersAway ==
  ASSUME LimitsInv, NEW p \in Starts, at[p] \in InProgress,
         NEW q \in Starts, q # p
  PROVE  at[q] \notin InProgress
BY DEF LimitsInv, MutexHeld

\* What every setrlimit in StartWithLimits leaves intact.  The bounds on what
\* is set, and its exact value, are left to the callers.
LEMMA SetStep ==
  ASSUME LimitsInv, NEW p \in Starts, at[p] \in InProgress,
         NEW res \in Resources,
         NEW wanted \in Rlimits, wanted.soft <= wanted.hard,
         NEW next \in InProgress,
         SetTo(p, res, wanted), at' = [at EXCEPT ![p] = next],
         UNCHANGED <<privileged, rlimitMu, old, child>>
  PROVE  /\ RLimitTypeOK'
         /\ Ordered(limit)' /\ (\A q \in Starts : Ordered(old[q]))'
         /\ MutexHeld' /\ ChildNeverLooser' /\ ServerLimitsRestored'
         /\ ChildLimitsExact'
         /\ \A q \in Starts \ {p} : at'[q] \notin InProgress
         /\ at'[p] = next
         /\ limit'[res] = Setrlimit(limit[res], wanted)
         /\ \A other \in Resources \ {res} : limit'[other] = limit[other]
<1> DEFINE new == Setrlimit(limit[res], wanted)
<1>1. limit \in [Resources -> Rlimits] /\ at \in [Starts -> Places]
  BY DEF LimitsInv, RLimitTypeOK
<1>2. limit[res] \in Rlimits /\ limit[res].soft <= limit[res].hard
  BY <1>1 DEF LimitsInv, Ordered
<1>3. new \in Rlimits /\ new.soft <= new.hard /\ (privileged => new = wanted)
  BY <1>2, SetrlimitResult
<1>4. /\ limit' \in [Resources -> Rlimits]
      /\ limit'[res] = new
      /\ \A other \in Resources \ {res} : limit'[other] = limit[other]
  BY <1>1, <1>3 DEF SetTo
<1> HIDE DEF new
<1>5. RLimitTypeOK'
  BY <1>1, <1>4 DEF LimitsInv, RLimitTypeOK, InProgress, Places
<1>6. Ordered(limit)'
  BY <1>3, <1>4 DEF LimitsInv, Ordered
<1>7. (\A q \in Starts : Ordered(old[q]))'
  BY DEF LimitsInv, Ordered
<1>8. /\ \A q \in Starts \ {p} : at'[q] = at[q] /\ at'[q] \notin InProgress
      /\ at'[p] = next
  BY <1>1, OthersAway
<1>9. rlimitMu = p
  BY DEF LimitsInv, MutexHeld
<1>10. MutexHeld'
  BY <1>8, <1>9 DEF MutexHeld
<1>11. ServerLimitsRestored'
  BY <1>9, NobodyAssumption DEF ServerLimitsRestored, Nobody
<1>12. ChildNeverLooser' /\ ChildLimitsExact'
  BY DEF LimitsInv, ChildNeverLooser, ChildLimitsExact, Requested
<1> QED
  BY <1>3, <1>4, <1>5, <1>6, <1>7, <1>8, <1>10, <1>11, <1>12 DEF new

LEMMA SetDataKeepsLimits ==
  ASSUME LimitsInv, NEW p \in Starts, SetData(p)
  PROVE  LimitsInv'
<1> DEFINE value == Requested(p)["data"]
<1>1. value \in Nat /\ "data" \in Resources /\ "cpu" \in Resources \ {"data"}
  BY RequestedPositive DEF Resources
<1>2. Both(value) \in Rlimits /\ Both(value).soft <= Both(value).hard
  BY <1>1, BothIsOrdered
<1>3. at[p] = "saved" /\ at[p] \in InProgress /\ "dataSet" \in InProgress
  BY DEF SetData, InProgress
<1>4. limit["data"] \in Rlimits /\ limit["data"].soft <= limit["data"].hard
  BY <1>1 DEF LimitsInv, RLimitTypeOK, Ordered
<1>5. /\ Setrlimit(limit["data"], Both(value)).soft <= value
      /\ privileged => Setrlimit(limit["data"], Both(value)) = Both(value)
  BY <1>1, <1>2, <1>4, SetrlimitLowers, SetrlimitResult
<1>6. /\ SetTo(p, "data", Both(value)) /\ at' = [at EXCEPT ![p] = "dataSet"]
      /\ UNCHANGED <<privileged, rlimitMu, old, child>>
  BY DEF SetData
<1> HIDE DEF value
<1>7. /\ RLimitTypeOK'
      /\ Ordered(limit)' /\ (\A q \in Starts : Ordered(old[q]))'
      /\ MutexHeld' /\ ChildNeverLooser' /\ ServerLimitsRestored'
      /\ ChildLimitsExact'
  BY <1>1, <1>2, <1>3, <1>6, SetStep
<1>8. /\ \A q \in Starts \ {p} : at'[q] \notin InProgress
      /\ at'[p] = "dataSet"
      /\ limit'["data"] = Setrlimit(limit["data"], Both(value))
      /\ \A other \in Resources \ {"data"} : limit'[other] = limit[other]
  BY <1>1, <1>2, <1>3, <1>6, SetStep
<1>9. limit'["cpu"] = limit["cpu"]
  BY <1>1, <1>8
<1>10. LoweredInTime'
  BY <1>3, <1>5, <1>8, <1>9 DEF LimitsInv, LoweredInTime, InProgress, value, Requested
<1>11. ASSUME privileged PROVE ExactInProgress'
  BY <1>3, <1>5, <1>6, <1>8, <1>9, <1>11
  DEF LimitsInv, ExactInProgress, InProgress, Resources, value, Requested
<1> QED
  BY <1>6, <1>7, <1>10, <1>11 DEF LimitsInv

LEMMA SetCPUKeepsLimits ==
  ASSUME LimitsInv, NEW p \in Starts, SetCPU(p)
  PROVE  LimitsInv'
<1> DEFINE value == Requested(p)["cpu"]
<1>1. value \in Nat /\ "cpu" \in Resources /\ "data" \in Resources \ {"cpu"}
  BY RequestedPositive DEF Resources
<1>2. Both(value) \in Rlimits /\ Both(value).soft <= Both(value).hard
  BY <1>1, BothIsOrdered
<1>3. at[p] = "dataSet" /\ at[p] \in InProgress /\ "bothSet" \in InProgress
  BY DEF SetCPU, InProgress
<1>4. limit["cpu"] \in Rlimits /\ limit["cpu"].soft <= limit["cpu"].hard
  BY <1>1 DEF LimitsInv, RLimitTypeOK, Ordered
<1>5. /\ Setrlimit(limit["cpu"], Both(value)).soft <= value
      /\ privileged => Setrlimit(limit["cpu"], Both(value)) = Both(value)
  BY <1>1, <1>2, <1>4, SetrlimitLowers, SetrlimitResult
<1>6. /\ SetTo(p, "cpu", Both(value)) /\ at' = [at EXCEPT ![p] = "bothSet"]
      /\ UNCHANGED <<privileged, rlimitMu, old, child>>
  BY DEF SetCPU
<1> HIDE DEF value
<1>7. /\ RLimitTypeOK'
      /\ Ordered(limit)' /\ (\A q \in Starts : Ordered(old[q]))'
      /\ MutexHeld' /\ ChildNeverLooser' /\ ServerLimitsRestored'
      /\ ChildLimitsExact'
  BY <1>1, <1>2, <1>3, <1>6, SetStep
<1>8. /\ \A q \in Starts \ {p} : at'[q] \notin InProgress
      /\ at'[p] = "bothSet"
      /\ limit'["cpu"] = Setrlimit(limit["cpu"], Both(value))
      /\ \A other \in Resources \ {"cpu"} : limit'[other] = limit[other]
  BY <1>1, <1>2, <1>3, <1>6, SetStep
<1>9. limit'["data"] = limit["data"]
  BY <1>1, <1>8
<1>10. LoweredInTime'
  BY <1>3, <1>5, <1>8, <1>9 DEF LimitsInv, LoweredInTime, InProgress, value, Requested
<1>11. ASSUME privileged PROVE ExactInProgress'
  BY <1>3, <1>5, <1>6, <1>8, <1>9, <1>11
  DEF LimitsInv, ExactInProgress, InProgress, Resources, value, Requested
<1> QED
  BY <1>6, <1>7, <1>10, <1>11 DEF LimitsInv

LEMMA RestoreDataKeepsLimits ==
  ASSUME LimitsInv, NEW p \in Starts, RestoreData(p)
  PROVE  LimitsInv'
<1> DEFINE value == old[p]["data"]
<1>1. "data" \in Resources /\ "cpu" \in Resources \ {"data"}
  BY DEF Resources
<1>2. /\ value \in Rlimits /\ value.soft <= value.hard
      /\ limit["data"] \in Rlimits /\ limit["data"].soft <= limit["data"].hard
  BY <1>1 DEF LimitsInv, RLimitTypeOK, Ordered
<1>3. at[p] = "started" /\ at[p] \in InProgress /\ "dataRestored" \in InProgress
  BY DEF RestoreData, InProgress
<1>4. /\ SetTo(p, "data", value) /\ at' = [at EXCEPT ![p] = "dataRestored"]
      /\ UNCHANGED <<privileged, rlimitMu, old, child>>
  BY DEF RestoreData
<1> HIDE DEF value
<1>5. /\ RLimitTypeOK'
      /\ Ordered(limit)' /\ (\A q \in Starts : Ordered(old[q]))'
      /\ MutexHeld' /\ ChildNeverLooser' /\ ServerLimitsRestored'
      /\ ChildLimitsExact'
  BY <1>1, <1>2, <1>3, <1>4, SetStep
<1>6. /\ \A q \in Starts \ {p} : at'[q] \notin InProgress
      /\ at'[p] = "dataRestored"
      /\ limit'["data"] = Setrlimit(limit["data"], value)
  BY <1>1, <1>2, <1>3, <1>4, SetStep
<1>7. LoweredInTime'
  BY <1>6 DEF LoweredInTime, InProgress
<1>8. ASSUME privileged PROVE ExactInProgress'
  <2>1. limit'["data"] = value
    BY <1>2, <1>6, <1>8, SetrlimitResult
  <2> QED
    BY <1>3, <1>4, <1>6, <1>8, <2>1 DEF LimitsInv, ExactInProgress, InProgress, value
<1> QED
  BY <1>4, <1>5, <1>7, <1>8 DEF LimitsInv

\* The mutex is free: no start is in progress, and the limits are the server's.
LEMMA LockAndSaveKeepsLimits ==
  ASSUME LimitsInv, NEW p \in Starts, LockAndSave(p)
  PROVE  LimitsInv'
<1>1. /\ at \in [Starts -> Places] /\ old \in [Starts -> [Resources -> Rlimits]]
      /\ limit \in [Resources -> Rlimits]
  BY DEF LimitsInv, RLimitTypeOK
<1>2. \A q \in Starts : at[q] \notin InProgress
  BY NobodyAssumption DEF LimitsInv, MutexHeld, LockAndSave, Nobody
<1>3. /\ at' = [at EXCEPT ![p] = "saved"] /\ old' = [old EXCEPT ![p] = limit]
      /\ rlimitMu = Nobody /\ rlimitMu' = p
      /\ UNCHANGED <<privileged, limit, child>>
  BY DEF LockAndSave
<1>4. /\ \A q \in Starts \ {p} : at'[q] \notin InProgress /\ old'[q] = old[q]
      /\ at'[p] = "saved" /\ old'[p] = limit
  BY <1>1, <1>2, <1>3
<1>5. RLimitTypeOK'
  BY <1>1, <1>3 DEF LimitsInv, RLimitTypeOK, Places
<1>6. Ordered(limit)' /\ (\A q \in Starts : Ordered(old[q]))'
  BY <1>3, <1>4 DEF LimitsInv, Ordered
<1>7. MutexHeld'
  BY <1>3, <1>4 DEF MutexHeld, InProgress
<1>8. LoweredInTime'
  BY <1>4 DEF LoweredInTime, InProgress
<1>9. ASSUME privileged PROVE ExactInProgress'
  BY <1>3, <1>4, <1>9 DEF LimitsInv, ServerLimitsRestored, ExactInProgress, InProgress
<1>10. ServerLimitsRestored'
  BY <1>3, NobodyAssumption DEF ServerLimitsRestored, Nobody
<1>11. ChildNeverLooser' /\ ChildLimitsExact'
  BY <1>3 DEF LimitsInv, ChildNeverLooser, ChildLimitsExact, Requested
<1> QED
  BY <1>3, <1>5, <1>6, <1>7, <1>8, <1>9, <1>10, <1>11 DEF LimitsInv

\* The process inherits what has just been set.
LEMMA StartKeepsLimits ==
  ASSUME LimitsInv, NEW p \in Starts, Start(p)
  PROVE  LimitsInv'
<1>1. /\ at \in [Starts -> Places] /\ child \in [Starts -> [Resources -> Rlimits]]
      /\ limit \in [Resources -> Rlimits]
  BY DEF LimitsInv, RLimitTypeOK
<1>2. /\ at[p] = "bothSet" /\ at[p] \in InProgress /\ at' = [at EXCEPT ![p] = "started"]
      /\ child' \in {[child EXCEPT ![p] = limit], child}
      /\ UNCHANGED <<privileged, limit, rlimitMu, old>>
  BY DEF Start, InProgress
<1>3. /\ \A q \in Starts \ {p} : at'[q] \notin InProgress /\ child'[q] = child[q]
      /\ at'[p] = "started" /\ child'[p] \in {limit, child[p]}
  BY <1>1, <1>2, OthersAway
<1>4. RLimitTypeOK'
  BY <1>1, <1>2 DEF LimitsInv, RLimitTypeOK, Places
<1>5. Ordered(limit)' /\ (\A q \in Starts : Ordered(old[q]))'
  BY <1>2 DEF LimitsInv, Ordered
<1>6. MutexHeld'
  BY <1>2, <1>3 DEF LimitsInv, MutexHeld, InProgress
<1>7. LoweredInTime'
  BY <1>3 DEF LoweredInTime, InProgress
<1>8. ASSUME privileged PROVE ExactInProgress'
  BY <1>2, <1>3, <1>8 DEF LimitsInv, ExactInProgress, InProgress, Requested
<1>9. ServerLimitsRestored'
  BY <1>2 DEF LimitsInv, ServerLimitsRestored
<1>10. \A res \in Resources : limit[res].soft <= Requested(p)[res]
  BY <1>2 DEF LimitsInv, LoweredInTime, Resources
<1>11. ChildNeverLooser'
  BY <1>3, <1>10 DEF LimitsInv, ChildNeverLooser, Requested
<1>12. privileged => \A res \in Resources : limit[res] = Both(Requested(p)[res])
  BY <1>2 DEF LimitsInv, ExactInProgress
<1>13. ChildLimitsExact'
  BY <1>2, <1>3, <1>12 DEF LimitsInv, ChildLimitsExact, Requested
<1> QED
  BY <1>2, <1>4, <1>5, <1>6, <1>7, <1>8, <1>9, <1>11, <1>13 DEF LimitsInv

\* With the second limit, the limits of the server are complete again.
LEMMA RestoreCPUKeepsLimits ==
  ASSUME LimitsInv, NEW p \in Starts, RestoreCPU(p)
  PROVE  LimitsInv'
<1> DEFINE value == old[p]["cpu"]
           new == Setrlimit(limit["cpu"], value)
<1>1. /\ at \in [Starts -> Places] /\ limit \in [Resources -> Rlimits]
      /\ "cpu" \in Resources /\ value \in Rlimits /\ value.soft <= value.hard
      /\ limit["cpu"] \in Rlimits /\ limit["cpu"].soft <= limit["cpu"].hard
  BY DEF LimitsInv, RLimitTypeOK, Ordered, Resources
<1>2. new \in Rlimits /\ new.soft <= new.hard /\ (privileged => new = value)
  BY <1>1, SetrlimitResult
<1>3. /\ at[p] = "dataRestored" /\ at[p] \in InProgress
      /\ at' = [at EXCEPT ![p] = "returned"] /\ rlimitMu' = Nobody
      /\ limit' = [limit EXCEPT !["cpu"] = new]
      /\ UNCHANGED <<privileged, old, child>>
  BY DEF RestoreCPU, SetTo, InProgress
<1> HIDE DEF new
<1>4. \A q \in Starts : at'[q] \notin InProgress
  BY <1>1, <1>3, OthersAway DEF InProgress
<1>5. RLimitTypeOK'
  BY <1>1, <1>2, <1>3 DEF LimitsInv, RLimitTypeOK, Places
<1>6. Ordered(limit)' /\ (\A q \in Starts : Ordered(old[q]))'
  BY <1>1, <1>2, <1>3 DEF LimitsInv, Ordered
<1>7. MutexHeld'
  BY <1>3, <1>4, NobodyAssumption DEF MutexHeld, Nobody
<1>8. LoweredInTime' /\ ExactInProgress'
  BY <1>4 DEF LoweredInTime, ExactInProgress, InProgress
<1>9. ServerLimitsRestored'
  <2> SUFFICES ASSUME privileged PROVE limit' = InitLimit
    BY <1>3 DEF ServerLimitsRestored
  <2>1. old[p] = InitLimit /\ limit["data"] = InitLimit["data"]
    BY <1>3 DEF LimitsInv, ExactInProgress
  <2>2. limit'["cpu"] = InitLimit["cpu"] /\ limit'["data"] = InitLimit["data"]
    BY <1>1, <1>2, <1>3, <2>1 DEF Resources
  <2> QED
    BY <1>5, <2>2, InitLimitAssumption DEF RLimitTypeOK, Resources
<1>10. ChildNeverLooser' /\ ChildLimitsExact'
  BY <1>3 DEF LimitsInv, ChildNeverLooser, ChildLimitsExact, Requested
<1> QED
  BY <1>5, <1>6, <1>7, <1>8, <1>9, <1>10 DEF LimitsInv

LEMMA LimitsStep ==
  ASSUME LimitsInv, [RLimitNext]_rlimitVars
  PROVE  LimitsInv'
<1>1. ASSUME NEW p \in Starts, StartWithLimits(p)
      PROVE  LimitsInv'
  BY <1>1, LockAndSaveKeepsLimits, SetDataKeepsLimits, SetCPUKeepsLimits,
     StartKeepsLimits, RestoreDataKeepsLimits, RestoreCPUKeepsLimits
  DEF StartWithLimits
<1>2. CASE UNCHANGED rlimitVars
  BY <1>2 DEF rlimitVars, LimitsInv, RLimitTypeOK, Ordered, MutexHeld,
              LoweredInTime, ChildNeverLooser, ExactInProgress,
              ServerLimitsRestored, ChildLimitsExact, Requested
<1> QED
  BY <1>1, <1>2 DEF RLimitNext, AllReturned

LEMMA LimitsStart ==
  ASSUME RLimitInit
  PROVE  LimitsInv
<1>1. RLimitTypeOK
  BY InitLimitAssumption
  DEF RLimitInit, RLimitTypeOK, Resources, NoLimit, Rlimits, Nobody, Places
<1>2. Ordered(limit) /\ \A q \in Starts : Ordered(old[q])
  BY InitLimitAssumption DEF RLimitInit, Ordered, Resources, NoLimit
<1>3. MutexHeld /\ LoweredInTime /\ ExactInProgress
  BY NobodyAssumption
  DEF RLimitInit, MutexHeld, LoweredInTime, ExactInProgress, InProgress, Nobody
<1>4. ServerLimitsRestored /\ ChildLimitsExact
  BY DEF RLimitInit, ServerLimitsRestored, ChildLimitsExact
<1>5. ChildNeverLooser
  BY RequestedPositive DEF RLimitInit, ChildNeverLooser, NoLimit, Resources
<1> QED
  BY <1>1, <1>2, <1>3, <1>4, <1>5 DEF LimitsInv

-----------------------------------------------------------------------------
(* The life of a call.                                                     *)

\* What a call does to the limits is a step of StartWithLimits, or nothing.
LEMMA ExecStepOfLimits ==
  ASSUME [ExecNext]_execVars
  PROVE  [RLimitNext]_rlimitVars
<1>1. ASSUME NEW p \in Starts, Prepare(p) \/ Fork(p) \/ Restore(p)
      PROVE  RLimitNext
  BY <1>1 DEF Prepare, Fork, Restore, RLimitNext, StartWithLimits
<1>2. ASSUME NEW p \in Starts,
             \/ Refuse(p) \/ DeadlinePasses(p) \/ StartFails(p) \/ Kill(p)
             \/ Reap(p) \/ WaitReturns(p) \/ ProcessEnds(p) \/ DescendantsEnd(p)
      PROVE  UNCHANGED rlimitVars
  BY <1>2 DEF Refuse, DeadlinePasses, StartFails, Kill, Reap, WaitReturns,
              ProcessEnds, DescendantsEnd
<1>3. CASE AllHandled \/ UNCHANGED execVars
  BY <1>3 DEF AllHandled, execVars
<1> QED
  BY <1>1, <1>2, <1>3 DEF ExecNext, ServerSteps

\* The steps of StartWithLimits before the fork and after it.
LEMMA StartingKeepsCall ==
  ASSUME CallInv, NEW p \in Starts, RLimitTypeOK', Prepare(p) \/ Restore(p)
  PROVE  CallInv'
<1>1. UNCHANGED runVars
  BY DEF Prepare, Restore
<1>2. /\ ~Handling(p) => at[p] = "called" \/ at[p] = "returned"
      /\ at \in [Starts -> Places]
  BY DEF CallInv, AnswerInv, NotForked, LifeOrdered, ExecTypeOK, RLimitTypeOK
<1>3. /\ \A q \in Starts \ {p} : at'[q] = at[q]
      /\ \/ Handling(p) /\ at[p] \in {"called", "saved", "dataSet"}
         \/ /\ at[p] \in {"started", "dataRestored"}
            /\ at'[p] \in {"dataRestored", "returned"}
  BY <1>2 DEF Prepare, Restore, LockAndSave, SetData, SetCPU, RestoreData,
              RestoreCPU, Places
<1>4. ExecTypeOK' /\ OwnProcessReaped' /\ TimeoutsReported'
  BY <1>1 DEF runVars, CallInv, AnswerInv, NotForked, ExecTypeOK, OwnProcessReaped,
              TimeoutsReported, Handling
<1>5. LifeOrdered' /\ NotForked'
  BY <1>1, <1>2, <1>3 DEF runVars, CallInv, AnswerInv, NotForked, LifeOrdered, Handling
<1> QED
  BY <1>4, <1>5 DEF CallInv, AnswerInv, NotForked

LEMMA ForkKeepsCall ==
  ASSUME CallInv, NEW p \in Starts, RLimitTypeOK', Fork(p)
  PROVE  CallInv'
<1>1. /\ at[p] = "bothSet" /\ at' = [at EXCEPT ![p] = "started"]
      /\ process' \in {process, [process EXCEPT ![p] = "running"]}
      /\ UNCHANGED <<expired, cancelled, reaped, pipeHeld, result>>
  BY DEF Fork, Start, CallInv, AnswerInv, ExecTypeOK
<1>2. /\ process[p] = "none" /\ Handling(p)
      /\ ~reaped[p] /\ ~pipeHeld[p] /\ ~cancelled[p]
  BY <1>1 DEF CallInv, AnswerInv, NotForked, LifeOrdered
<1>3. /\ at \in [Starts -> Places] /\ process \in [Starts -> ProcessStates]
      /\ \A q \in Starts \ {p} : at'[q] = at[q] /\ process'[q] = process[q]
      /\ at'[p] = "started" /\ process'[p] \in {"none", "running"}
  BY <1>1, <1>2 DEF CallInv, AnswerInv, NotForked, ExecTypeOK, RLimitTypeOK
<1>4. ExecTypeOK'
  BY <1>1 DEF CallInv, AnswerInv, NotForked, ExecTypeOK, ProcessStates
<1>5. LifeOrdered' /\ NotForked'
  BY <1>1, <1>2, <1>3 DEF CallInv, AnswerInv, NotForked, LifeOrdered, Handling
<1>6. OwnProcessReaped' /\ TimeoutsReported'
  BY <1>1, <1>2, <1>3 DEF CallInv, AnswerInv, NotForked, OwnProcessReaped, TimeoutsReported, Handling
<1> QED
  BY <1>4, <1>5, <1>6 DEF CallInv, AnswerInv, NotForked

\* The steps that give the answer: each in a state in which no process is left.
LEMMA ReturnKeepsAnswers ==
  ASSUME AnswerInv, NEW p \in Starts, Refuse(p) \/ StartFails(p) \/ WaitReturns(p),
         Refuse(p) => process[p] = "none"
  PROVE  AnswerInv'
<1>1. /\ UNCHANGED <<privileged, limit, rlimitMu, old, at, child,
                     expired, process, cancelled, reaped, pipeHeld>>
      /\ at[p] \in {"called", "returned"}
      /\ process[p] = "none" \/ (reaped[p] /\ ~pipeHeld[p])
  <2>1. CASE Refuse(p) \/ StartFails(p)
    BY <2>1 DEF Refuse, StartFails, AnswerInv, LifeOrdered, rlimitVars
  <2>2. CASE WaitReturns(p)
    BY <2>2 DEF WaitReturns, AnswerInv, LifeOrdered, rlimitVars
  <2> QED
    BY <2>1, <2>2
<1>2. PICK value \in Results \ {"none"} :
        /\ result' = [result EXCEPT ![p] = value]
        /\ process[p] = "killed" => value = "timeout"
        /\ process[p] = "ok" /\ ~cancelled[p] => value # "timeout"
  <2>1. CASE Refuse(p) \/ StartFails(p)
    BY <2>1 DEF Refuse, StartFails, Return, Results, AnswerInv, LifeOrdered
  <2>2. CASE WaitReturns(p)
    BY <2>2 DEF WaitReturns, Return, Results, Outcome, WaitFails, AnswerInv, LifeOrdered
  <2> QED
    BY <2>1, <2>2
<1>3. /\ \A q \in Starts \ {p} : result'[q] = result[q]
      /\ result'[p] = value
  BY <1>2 DEF AnswerInv, ExecTypeOK
<1>4. ExecTypeOK'
  BY <1>1, <1>2 DEF AnswerInv, ExecTypeOK, RLimitTypeOK
<1>5. LifeOrdered'
  BY <1>1, <1>3 DEF AnswerInv, LifeOrdered, Handling
<1>6. OwnProcessReaped' /\ TimeoutsReported'
  BY <1>1, <1>2, <1>3 DEF AnswerInv, OwnProcessReaped, TimeoutsReported, Handling
<1> QED
  BY <1>4, <1>5, <1>6 DEF AnswerInv

\* Whatever happens to a running process: its call has not been answered yet.
LEMMA EndKeepsAnswers ==
  ASSUME AnswerInv, NEW p \in Starts, ProcessEnds(p) \/ Kill(p)
  PROVE  AnswerInv'
<1>1. UNCHANGED <<privileged, limit, rlimitMu, old, at, child, expired, reaped, result>>
  BY DEF ProcessEnds, Kill, rlimitVars
<1>2. /\ process \in [Starts -> ProcessStates] /\ cancelled \in [Starts -> BOOLEAN]
      /\ pipeHeld \in [Starts -> BOOLEAN]
  BY DEF AnswerInv, ExecTypeOK
<1>3. ASSUME NEW status \in {"ok", "failed", "killed"}, Ends(p, status),
             \/ cancelled' = cancelled /\ status # "killed"
             \/ expired[p] /\ cancelled' = [cancelled EXCEPT ![p] = TRUE]
      PROVE  AnswerInv'
  <2>1. /\ process[p] = "running" /\ process' = [process EXCEPT ![p] = status]
        /\ pipeHeld' \in [Starts -> BOOLEAN] /\ cancelled' \in [Starts -> BOOLEAN]
        /\ \A q \in Starts \ {p} : /\ process'[q] = process[q]
                                   /\ pipeHeld'[q] = pipeHeld[q]
                                   /\ cancelled'[q] = cancelled[q]
        /\ process'[p] = status
        /\ cancelled'[p] => expired[p]
        /\ status = "killed" => cancelled'[p]
    BY <1>2, <1>3 DEF Ends, AnswerInv, LifeOrdered
  <2>2. Handling(p)
    BY <2>1 DEF AnswerInv, LifeOrdered, OwnProcessReaped
  <2>3. ExecTypeOK'
    BY <1>1, <1>2, <2>1 DEF AnswerInv, ExecTypeOK, RLimitTypeOK, ProcessStates
  <2>4. LifeOrdered'
    BY <1>1, <2>1 DEF AnswerInv, LifeOrdered, Handling
  <2>5. OwnProcessReaped' /\ TimeoutsReported'
    BY <1>1, <2>1, <2>2 DEF AnswerInv, OwnProcessReaped, TimeoutsReported, Handling
  <2> QED
    BY <2>3, <2>4, <2>5 DEF AnswerInv
<1>4. ASSUME expired[p], process[p] \notin {"none", "running"},
             cancelled' = [cancelled EXCEPT ![p] = TRUE],
             UNCHANGED <<process, pipeHeld>>
      PROVE  AnswerInv'
  BY <1>1, <1>2, <1>4
  DEF AnswerInv, ExecTypeOK, RLimitTypeOK, LifeOrdered, OwnProcessReaped,
      TimeoutsReported, Handling
<1>5. CASE ProcessEnds(p)
  <2>1. PICK status \in {"ok", "failed"} : Ends(p, status)
    BY <1>5 DEF ProcessEnds
  <2>2. cancelled' = cancelled
    BY <1>5 DEF ProcessEnds
  <2>3. status \in {"ok", "failed", "killed"} /\ status # "killed"
    OBVIOUS
  <2> QED
    BY <1>3, <2>1, <2>2, <2>3
<1>6. CASE Kill(p)
  <2>1. CASE process[p] = "running"
    BY <1>3, <1>6, <2>1 DEF Kill
  <2>2. CASE process[p] # "running"
    BY <1>4, <1>6, <2>2 DEF Kill
  <2> QED
    BY <2>1, <2>2
<1> QED
  BY <1>5, <1>6

\* The clock, the reaping and the descendants.
LEMMA RestKeepsAnswers ==
  ASSUME AnswerInv, NEW p \in Starts, DeadlinePasses(p) \/ Reap(p) \/ DescendantsEnd(p)
  PROVE  AnswerInv'
<1> USE DEF AnswerInv, ExecTypeOK, RLimitTypeOK, LifeOrdered, OwnProcessReaped,
            TimeoutsReported, Handling, rlimitVars
<1>1. CASE DeadlinePasses(p)
  BY <1>1 DEF DeadlinePasses
<1>2. CASE Reap(p)
  BY <1>2 DEF Reap
<1>3. CASE DescendantsEnd(p)
  BY <1>3 DEF DescendantsEnd
<1> QED
  BY <1>1, <1>2, <1>3

ExecInv == LimitsInv /\ CallInv

LEMMA UnstartedRight ==
  ASSUME Unstarted, result \in [Starts -> {"none", "refused"}]
  PROVE  ExecInv
<1>1. LimitsInv
  BY LimitsStart DEF Unstarted
<1>2. AnswerInv /\ NotForked
  BY <1>1 DEF Unstarted, RLimitInit, LimitsInv, AnswerInv, NotForked, ExecTypeOK, LifeOrdered,
              OwnProcessReaped, TimeoutsReported, Handling, ProcessStates, Results
<1> QED
  BY <1>1, <1>2 DEF ExecInv, CallInv

LEMMA ExecStart ==
  ASSUME ExecInit
  PROVE  ExecInv
BY UnstartedRight DEF ExecInit

LEMMA ExecStep ==
  ASSUME ExecInv, [ExecNext]_execVars
  PROVE  ExecInv'
<1>1. LimitsInv'
  BY ExecStepOfLimits, LimitsStep DEF ExecInv
<1>2. RLimitTypeOK' /\ CallInv
  BY <1>1 DEF LimitsInv, ExecInv
<1>3. CASE AllHandled \/ UNCHANGED execVars
  <2>1. UNCHANGED <<rlimitVars, runVars>>
    BY <1>3 DEF AllHandled, execVars
  <2>2. CallInv'
    BY <1>2, <2>1
    DEF rlimitVars, runVars, CallInv, AnswerInv, NotForked, ExecTypeOK, LifeOrdered,
        OwnProcessReaped, TimeoutsReported, Handling
  <2> QED
    BY <1>1, <2>2 DEF ExecInv
<1>4. ASSUME NEW p \in Starts, Prepare(p) \/ Fork(p) \/ Restore(p)
      PROVE  CallInv'
  BY <1>2, <1>4, StartingKeepsCall, ForkKeepsCall
<1>5. ASSUME NEW p \in Starts,
             \/ Refuse(p) \/ StartFails(p) \/ WaitReturns(p)
             \/ ProcessEnds(p) \/ Kill(p)
             \/ DeadlinePasses(p) \/ Reap(p) \/ DescendantsEnd(p)
      PROVE  CallInv'
  <2>1. Refuse(p) => process[p] = "none"
    BY <1>2 DEF Refuse, CallInv, NotForked
  <2>2. AnswerInv'
    BY <1>2, <1>5, <2>1, ReturnKeepsAnswers, EndKeepsAnswers, RestKeepsAnswers DEF CallInv
  <2>3. /\ UNCHANGED at
        /\ \A q \in Starts : process[q] = "none" => process'[q] = "none"
    <3>1. process \in [Starts -> ProcessStates]
      BY <1>2 DEF CallInv, AnswerInv, ExecTypeOK
    <3> QED
      BY <1>5, <3>1 DEF Refuse, StartFails, WaitReturns, ProcessEnds, Kill, Ends,
                        DeadlinePasses, Reap, DescendantsEnd, rlimitVars
  <2> QED
    BY <1>2, <2>2, <2>3 DEF CallInv, NotForked
<1> QED
  BY <1>1, <1>3, <1>4, <1>5 DEF ExecNext, ServerSteps, ExecInv

LEMMA ExecInvariant == ExecSpec => []ExecInv
<1>1. ExecInit => ExecInv
  BY ExecStart
<1>2. ExecInv /\ [ExecNext]_execVars => ExecInv'
  BY ExecStep
<1> QED
  BY <1>1, <1>2, PTL DEF ExecSpec

-----------------------------------------------------------------------------
(* The theorems.                                                           *)

(***************************************************************************)
(* The variables of Handle and of StartWithLimits keep their types.        *)
(***************************************************************************)
THEOREM ExecTypeCorrect == ExecSpec => []ExecTypeOK
<1>1. ExecInv => ExecTypeOK
  BY DEF ExecInv, CallInv, AnswerInv
<1> QED
  BY <1>1, ExecInvariant, PTL

(***************************************************************************)
(* Every start of a process goes through StartWithLimits step by step,     *)
(* whatever deadlines, exits and other calls come in between.              *)
(***************************************************************************)
THEOREM CallsStartWithLimits == ExecSpec => RLimitSpec
<1>1. ExecInit => RLimitInit
  BY DEF ExecInit, Unstarted
<1>2. [ExecNext]_execVars => [RLimitNext]_rlimitVars
  BY ExecStepOfLimits
<1> QED
  BY <1>1, <1>2, PTL DEF ExecSpec, RLimitSpec

(***************************************************************************)
(* No process is ever started with more memory or CPU time than its        *)
(* manifest or the default grants, with or without the privilege.          *)
(***************************************************************************)
THEOREM NoChildLooser == ExecSpec => []ChildNeverLooser
<1>1. ExecInv => ChildNeverLooser
  BY DEF ExecInv, LimitsInv
<1> QED
  BY <1>1, ExecInvariant, PTL

(***************************************************************************)
(* A privileged server gives each process exactly the limits of its own    *)
(* manifest.                                                               *)
(***************************************************************************)
THEOREM ChildExact == ExecSpec => []ChildLimitsExact
<1>1. ExecInv => ChildLimitsExact
  BY DEF ExecInv, LimitsInv
<1> QED
  BY <1>1, ExecInvariant, PTL

(***************************************************************************)
(* A privileged server is back under its own limits whenever rlimitMu is   *)
(* free.                                                                   *)
(***************************************************************************)
THEOREM LimitsRestored == ExecSpec => []ServerLimitsRestored
<1>1. ExecInv => ServerLimitsRestored
  BY DEF ExecInv, LimitsInv
<1> QED
  BY <1>1, ExecInvariant, PTL

(***************************************************************************)
(* A call is reported as timed out if the deadline killed its process, and *)
(* not if the process ended well before the deadline reached it.           *)
(***************************************************************************)
THEOREM TimeoutsTold == ExecSpec => []TimeoutsReported
<1>1. ExecInv => TimeoutsReported
  BY DEF ExecInv, CallInv, AnswerInv
<1> QED
  BY <1>1, ExecInvariant, PTL

=============================================================================
