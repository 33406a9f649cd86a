------------------------------- MODULE RLimit -------------------------------
(***************************************************************************)
(* internal/rlimit on Linux and macOS: a tool process gets its memory and  *)
(* CPU limits by inheritance.  Under rlimitMu the server lowers its own    *)
(* limits, starts the process, and raises them again; every error of       *)
(* setrlimit is ignored.  The kernel is external: an unprivileged process  *)
(* may lower its hard limits but never raise them.                         *)
(***************************************************************************)
EXTENDS Integers

CONSTANTS
  Starts,      \* the starts of tool processes
  Config,      \* what the manifest of each says: memory, cpu, timeout
  InitLimit    \* the server's own limits when it starts

\* A pair of limits, as in struct rlimit.
Rlimits == [soft : Nat, hard : Nat]

ASSUME ConfigAssumption ==
  Config \in [Starts -> [memory : Int, cpu : Int, timeout : Nat]]

ASSUME NobodyAssumption == "nobody" \notin Starts

ASSUME InitLimitAssumption ==
  /\ InitLimit \in [{"data", "cpu"} -> Rlimits]
  /\ \A res \in {"data", "cpu"} : InitLimit[res].soft <= InitLimit[res].hard

VARIABLES
  privileged,  \* the server has CAP_SYS_RESOURCE
  limit,       \* the server's limits
  rlimitMu,    \* the start that holds the mutex, or Nobody
  old,         \* what it read with getrlimit
  at,          \* where each start is
  child        \* the limits each process was started with

rlimitVars == <<privileged, limit, rlimitMu, old, at, child>>

Resources == {"data", "cpu"}
Nobody == "nobody"
NoLimit == [soft |-> 0, hard |-> 0]

Places == {"called", "saved", "dataSet", "bothSet", "started", "dataRestored",
           "returned"}

\* EffectiveLimits, in megabytes and percent.
DefaultMaxMemoryMB == 512
DefaultMaxCPUPercent == 90
\* Variant that only takes zero for "not given".
EffectiveMemoryUnchecked(mb) == IF mb = 0 THEN DefaultMaxMemoryMB ELSE mb
EffectiveMemory(mb) == IF mb <= 0 THEN DefaultMaxMemoryMB ELSE mb
EffectiveCPU(percent) == IF percent <= 0 THEN DefaultMaxCPUPercent ELSE percent

\* The share of the timeout in whole seconds, but at least one.
CpuSeconds(timeout, percent) ==
  LET share == (timeout * percent) \div 100
  IN  IF share < 1 THEN 1 ELSE share

Requested(p) ==
  [res \in Resources |->
     IF res = "data" THEN EffectiveMemory(Config[p].memory)
                     ELSE CpuSeconds(Config[p].timeout, EffectiveCPU(Config[p].cpu))]

\* setrlimit(2): the limits it leaves behind, whether it succeeds or not.
Setrlimit(current, wanted) ==
  IF wanted.soft <= wanted.hard /\ (privileged \/ wanted.hard <= current.hard)
  THEN wanted ELSE current

RLimitInit ==
  /\ privileged \in BOOLEAN
  /\ limit = InitLimit
  /\ rlimitMu = Nobody
  /\ old = [p \in Starts |-> [res \in Resources |-> NoLimit]]
  /\ at = [p \in Starts |-> "called"]
  /\ child = [p \in Starts |-> [res \in Resources |-> NoLimit]]

-----------------------------------------------------------------------------
(* StartWithLimits.                                                        *)

\* Variant without rlimitMu.
LockAndSaveUnlocked(p) ==
  /\ at[p] = "called"
  /\ rlimitMu' = p
  /\ old' = [old EXCEPT ![p] = limit]
  /\ at' = [at EXCEPT ![p] = "saved"]
  /\ UNCHANGED <<privileged, limit, child>>

\* rlimitMu.Lock() and the two getrlimits.
LockAndSave(p) ==
  /\ at[p] = "called"
  /\ rlimitMu = Nobody
  /\ rlimitMu' = p
  /\ old' = [old EXCEPT ![p] = limit]
  /\ at' = [at EXCEPT ![p] = "saved"]
  /\ UNCHANGED <<privileged, limit, child>>

SetTo(p, res, wanted) ==
  limit' = [limit EXCEPT ![res] = Setrlimit(@, wanted)]

Both(value) == [soft |-> value, hard |-> value]

SetData(p) ==
  /\ at[p] = "saved"
  /\ SetTo(p, "data", Both(Requested(p)["data"]))
  /\ at' = [at EXCEPT ![p] = "dataSet"]
  /\ UNCHANGED <<privileged, rlimitMu, old, child>>

\* Variant that rounds the seconds up.
SetCPURoundedUp(p) ==
  /\ at[p] = "dataSet"
  /\ SetTo(p, "cpu", Both(Requested(p)["cpu"] + 1))
  /\ at' = [at EXCEPT ![p] = "bothSet"]
  /\ UNCHANGED <<privileged, rlimitMu, old, child>>

SetCPU(p) ==
  /\ at[p] = "dataSet"
  /\ SetTo(p, "cpu", Both(Requested(p)["cpu"]))
  /\ at' = [at EXCEPT ![p] = "bothSet"]
  /\ UNCHANGED <<privileged, rlimitMu, old, child>>

\* cmd.Start(): the process inherits the limits of the server, or is not started.
Start(p) ==
  /\ at[p] = "bothSet"
  /\ child' \in {[child EXCEPT ![p] = limit], child}
  /\ at' = [at EXCEPT ![p] = "started"]
  /\ UNCHANGED <<privileged, limit, rlimitMu, old>>

RestoreData(p) ==
  /\ at[p] = "started"
  /\ SetTo(p, "data", old[p]["data"])
  /\ at' = [at EXCEPT ![p] = "dataRestored"]
  /\ UNCHANGED <<privileged, rlimitMu, old, child>>

\* Variant that forgets to restore the second limit.
RestoreCPUForgotten(p) ==
  /\ at[p] = "dataRestored"
  /\ rlimitMu' = Nobody
  /\ at' = [at EXCEPT ![p] = "returned"]
  /\ UNCHANGED <<privileged, limit, old, child>>

\* ... and the deferred rlimitMu.Unlock().
RestoreCPU(p) ==
  /\ at[p] = "dataRestored"
  /\ SetTo(p, "cpu", old[p]["cpu"])
  /\ rlimitMu' = Nobody
  /\ at' = [at EXCEPT ![p] = "returned"]
  /\ UNCHANGED <<privileged, old, child>>

StartWithLimits(p) ==
  \/ LockAndSave(p)
  \/ SetData(p) \/ SetCPU(p)
  \/ Start(p)
  \/ RestoreData(p) \/ RestoreCPU(p)

AllReturned ==
  /\ \A p \in Starts : at[p] = "returned"
  /\ UNCHANGED rlimitVars

RLimitNext == (\E p \in Starts : StartWithLimits(p)) \/ AllReturned

RLimitSpec == RLimitInit /\ [][RLimitNext]_rlimitVars

-----------------------------------------------------------------------------

RLimitTypeOK ==
  /\ privileged \in BOOLEAN
  /\ limit \in [Resources -> Rlimits]
  /\ rlimitMu \in Starts \cup {Nobody}
  /\ old \in [Starts -> [Resources -> Rlimits]]
  /\ at \in [Starts -> Places]
  /\ child \in [Starts -> [Resources -> Rlimits]]

(***************************************************************************)
(* Whatever starts run side by side, and with or without the privilege to  *)
(* raise limits, no tool process is ever started with more than its        *)
(* manifest (or the default) grants.                                       *)
(***************************************************************************)
ChildNeverLooser ==
  \A p \in Starts, res \in Resources :
    child[p][res].soft <= Requested(p)[res]

(***************************************************************************)
(* A privileged server starts every process with exactly the limits of its *)
(* own manifest, however small those of an earlier start were.             *)
(***************************************************************************)
ChildLimitsExact ==
  privileged =>
    \A p \in Starts, res \in Resources :
      child[p][res] \in {NoLimit, Both(Requested(p)[res])}

(***************************************************************************)
(* A privileged server runs under its own limits whenever no start is in   *)
(* progress.                                                               *)
(***************************************************************************)
ServerLimitsRestored ==
  privileged /\ rlimitMu = Nobody => limit = InitLimit

(***************************************************************************)
(* rlimit_unix.go: "child processes inherit the correct limits without     *)
(* racing".  A started process has the limits of its own manifest.         *)
(***************************************************************************)
CorrectLimitsInherited ==
  \A p \in Starts, res \in Resources :
    child[p][res] \in {NoLimit, Both(Requested(p)[res])}

=============================================================================
