---------------------------- MODULE StartupProofs ----------------------------
(***************************************************************************)
(* Proofs about ToolLoading and Startup, for any number of manifests and   *)
(* scripts, whatever is in them, and for every launch.                     *)
(***************************************************************************)
EXTENDS Startup, SequenceTheorems, WellFoundedInduction, TLAPS

-----------------------------------------------------------------------------
(* The greatest of a set of numbers.                                       *)

LEMMA MaxIs ==
  ASSUME NEW S \in SUBSET Nat, NEW m \in S, \A x \in S : x <= m
  PROVE  Max(S) = m
<1>1. \A x \in S : m >= x
  OBVIOUS
<1>2. \A x \in S : (\A y \in S : x >= y) => x = m
  OBVIOUS
<1> QED
  BY <1>1, <1>2 DEF Max

LEMMA MinIs ==
  ASSUME NEW S \in SUBSET Nat, NEW m \in S, \A x \in S : m <= x
  PROVE  Min(S) = m
<1>1. \A x \in S : (\A y \in S : x <= y) => x = m
  OBVIOUS
<1> QED
  BY <1>1 DEF Min

LEMMA MaxExists ==
  ASSUME NEW n \in Nat, NEW S \in SUBSET (1..n), S # {}
  PROVE  \E m \in S : \A x \in S : x <= m
<1> DEFINE T == {n - x : x \in S}
<1>1. T \subseteq Nat /\ T # {}
  <2>1. \A x \in S : x \in 1..n /\ n - x \in Nat
    OBVIOUS
  <2>2. PICK x \in S : TRUE
    OBVIOUS
  <2>3. n - x \in T
    BY <2>2
  <2> QED
    BY <2>1, <2>3
<1>2. PICK t \in T : \A y \in T : ~(<<y, t>> \in OpToRel(<, Nat))
  BY <1>1, NatLessThanWellFounded, WFMin
<1>3. \A y \in T : ~(y < t)
  BY <1>1, <1>2 DEF OpToRel
<1>4. PICK m \in S : t = n - m
  BY <1>2
<1>5. \A x \in S : ~(n - x < n - m)
  BY <1>3, <1>4
<1> QED
  BY <1>5

-----------------------------------------------------------------------------
(* What the registry holds while it is filled.                             *)

\* The manifests of a name that the main goroutine has passed.
Passed(n) ==
  {m \in ManifestsOf(n) : step = "manifests" => m < at}

\* What the manifests alone have registered under a name.
FromManifests(n) ==
  \/ Passed(n) = {} /\ registry[n] = NoTool
  \/ \E m \in Passed(n) :
       /\ \A o \in Passed(n) : o <= m
       /\ registry[n] = [kind |-> Kind(manifest[m]), entry |-> m]

\* LoadTypeOK with what is on the disk, and when scripts have been probed.
LoadTypes ==
  /\ LoadTypeOK
  /\ manifest \in [ManifestEntries -> Manifests]
  /\ script \in [ScriptEntries -> ScriptFiles]
  /\ step = "probing" => at \in ScriptEntries
  /\ step = "serving" => at = ScriptCount + 1

\* The answers that ProbeScripts has gone by.
Heard ==
  {s \in ScriptEntries :
     /\ s < at
     /\ probe[s] = "answered" /\ s \notin timedOut
     /\ script[s].name \notin existingNames}

\* Whether the main goroutine has not come to a script yet.
Ahead(s) == step = "manifests" \/ s > at \/ (s = at /\ step = "scripts")

ProbesInOrder ==
  \A s \in ScriptEntries :
    /\ Ahead(s) => probe[s] = "none" /\ s \notin timedOut
    /\ step = "probing" /\ s = at => s \notin timedOut
    /\ s < at /\ step # "manifests" /\ s \notin timedOut
         => probe[s] \in {"none", "answered", "failed"}

\* What is found are the answers, in the order of the directory; nothing
\* stands in the registry but what the manifests say until RegisterScripts.
RegistryInOrder ==
  /\ \A n \in Names : n \in existingNames <=> Passed(n) # {}
  /\ step # "serving" => \A n \in Names : FromManifests(n)
  /\ \A i, j \in DOMAIN found : i < j => found[i] < found[j]
  /\ step = "manifests" => found = <<>>
  /\ step \in {"scripts", "probing"} => {found[i] : i \in DOMAIN found} = Heard

LoadInv == LoadTypes /\ ProbesInOrder /\ RegistryInOrder /\ RegistryExact

LEMMA DiskFields ==
  ASSUME LoadTypes
  PROVE  /\ \A m \in ManifestEntries :
              Loadable(manifest[m]) =>
                manifest[m].name \in Names /\ Kind(manifest[m]) \in {"http", "terminal", "external"}
         /\ \A s \in ScriptEntries :
              script[s].isScript \in BOOLEAN /\ script[s].name \in Names
<1>1. ASSUME NEW m \in ManifestEntries, Loadable(manifest[m])
      PROVE  manifest[m].name \in Names /\ Kind(manifest[m]) \in {"http", "terminal", "external"}
  <2>1. manifest[m] \in Manifests /\ manifest[m].readable
    BY <1>1 DEF LoadTypes, Loadable
  <2>2. manifest[m] \in [readable : {TRUE}, name : Names, http : BOOLEAN,
                         terminal : {"absent", "disabled", "enabled"},
                         platforms : {"absent", "clean", "unsafe"}]
    BY <2>1, ManifestsAssumption
  <2>3. manifest[m].http \in BOOLEAN
    BY <2>2
  <2> QED
    BY <2>2, <2>3 DEF Kind
<1>2. ASSUME NEW s \in ScriptEntries
      PROVE  script[s].isScript \in BOOLEAN /\ script[s].name \in Names
  BY ScriptFilesAssumption DEF LoadTypes
<1> QED
  BY <1>1, <1>2

\* The part of the state that each step leaves alone, and the script it probes.
LEMMA LoadTypesStep ==
  ASSUME LoadTypes, [LoadNext]_loadVars
  PROVE  LoadTypes'
<1> USE DEF LoadTypes, LoadTypeOK, ManifestEntries, ScriptEntries, ProbeStates
<1>0. ManifestCount \in Nat /\ ScriptCount \in Nat
  BY CountsAssumption
<1>1. CASE SkipManifest
  BY <1>0, <1>1 DEF SkipManifest, diskVars
<1>2. CASE LoadManifest
  <2>1. /\ step = "manifests" /\ at \in ManifestEntries /\ Loadable(manifest[at])
        /\ existingNames' = existingNames \cup {manifest[at].name}
        /\ registry' = [registry EXCEPT ![manifest[at].name] =
                          [kind |-> Kind(manifest[at]), entry |-> at]]
        /\ at' = at + 1
        /\ UNCHANGED <<manifest, script, step, found, probe, timedOut>>
    BY <1>2 DEF LoadManifest, diskVars
  <2>2. manifest[at].name \in Names
    BY <2>1, DiskFields
  <2>3. [kind |-> Kind(manifest[at]), entry |-> at] \in Tools
    BY <1>0, <2>1, DiskFields DEF Tools
  <2>4. registry' \in [Names -> Tools \cup {NoTool}]
    BY <2>1, <2>3
  <2> QED
    BY <1>0, <2>1, <2>2, <2>4
<1>3. CASE ManifestsDone
  BY <1>0, <1>3 DEF ManifestsDone, diskVars
<1>4. CASE SkipScript
  BY <1>0, <1>4 DEF SkipScript, NextScript, diskVars
<1>5. CASE SpawnProbe
  BY <1>0, <1>5 DEF SpawnProbe, diskVars
<1>6. CASE TakeProbe
  <2>1. at \in ScriptEntries /\ found \in Seq(ScriptEntries)
    BY <1>6 DEF TakeProbe
  <2>2. Append(found, at) \in Seq(ScriptEntries)
    BY <2>1, AppendProperties
  <2>3. found' \in Seq(ScriptEntries)
    BY <1>6, <2>1, <2>2 DEF TakeProbe
  <2> QED
    BY <1>0, <1>6, <2>1, <2>3 DEF TakeProbe, NextScript, diskVars
<1>7. CASE ProbeTimesOut
  BY <1>0, <1>7 DEF ProbeTimesOut, NextScript, diskVars
<1>8. CASE RegisterScripts
  <2>1. /\ step = "scripts" /\ at > ScriptCount /\ step' = "serving"
        /\ UNCHANGED <<manifest, script, at, existingNames, found, probe, timedOut>>
    BY <1>8 DEF RegisterScripts, diskVars
  <2>2. at = ScriptCount + 1
    BY <1>0, <2>1
  <2>3. registry' \in [Names -> Tools \cup {NoTool}]
    <3>1. DOMAIN found = 1..Len(found) /\ Len(found) \in Nat
      BY LenProperties
    <3>2. ASSUME NEW n \in Names,
                 {i \in DOMAIN found : script[found[i]].name = n} # {}
          PROVE  [kind |-> "script",
                  entry |-> found[Max({i \in DOMAIN found : script[found[i]].name = n})]] \in Tools
      <4> DEFINE mine == {i \in DOMAIN found : script[found[i]].name = n}
      <4>0. mine \in SUBSET (1..Len(found)) /\ mine \in SUBSET Nat
        BY <3>1
      <4>1. PICK m \in mine : \A x \in mine : x <= m
        BY <3>1, <3>2, <4>0, MaxExists
      <4>2. Max(mine) = m
        <5> HIDE DEF mine
        <5> QED
          BY <4>0, <4>1, MaxIs
      <4>3. found[m] \in ScriptEntries
        BY <3>1, <4>1, ElementOfSeq
      <4> QED
        BY <1>0, <4>2, <4>3 DEF Tools
    <3> QED
      BY <1>8, <3>2 DEF RegisterScripts
  <2> QED
    BY <1>0, <2>1, <2>2, <2>3
<1>9. CASE \E s \in ScriptEntries : ProbeStarts(s) \/ ProbeReturns(s)
  BY <1>0, <1>9 DEF ProbeStarts, ProbeReturns, diskVars
<1>10. CASE UNCHANGED loadVars
  BY <1>10 DEF loadVars, diskVars
<1> QED
  BY <1>1, <1>2, <1>3, <1>4, <1>5, <1>6, <1>7, <1>8, <1>9, <1>10 DEF LoadNext, LoadTools

LEMMA ProbesStep ==
  ASSUME LoadTypes, ProbesInOrder, [LoadNext]_loadVars
  PROVE  ProbesInOrder'
<1> USE DEF ProbesInOrder, Ahead
<1>0. /\ ManifestCount \in Nat /\ ScriptCount \in Nat /\ at \in Nat
      /\ probe \in [ScriptEntries -> ProbeStates]
      /\ step = "probing" => at \in ScriptEntries
      /\ ScriptEntries \subseteq Nat
  BY CountsAssumption DEF LoadTypes, LoadTypeOK, ScriptEntries
<1>1. CASE SkipManifest \/ LoadManifest
  BY <1>1 DEF SkipManifest, LoadManifest
<1>2. CASE ManifestsDone
  BY <1>0, <1>2 DEF ManifestsDone, ScriptEntries
<1>3. CASE SkipScript
  BY <1>0, <1>3 DEF SkipScript, NextScript
<1>4. CASE SpawnProbe
  BY <1>0, <1>4 DEF SpawnProbe
<1>5. CASE TakeProbe
  BY <1>0, <1>5 DEF TakeProbe, NextScript
<1>6. CASE ProbeTimesOut
  BY <1>0, <1>6 DEF ProbeTimesOut, NextScript
<1>7. CASE RegisterScripts
  BY <1>0, <1>7 DEF RegisterScripts
<1>8. ASSUME NEW t \in ScriptEntries, ProbeStarts(t) \/ ProbeReturns(t)
      PROVE  ProbesInOrder'
  <2>1. /\ probe[t] \in {"spawned", "running"}
        /\ UNCHANGED <<step, at, timedOut>>
        /\ \A s \in ScriptEntries \ {t} : probe'[s] = probe[s]
    BY <1>0, <1>8 DEF ProbeStarts, ProbeReturns
  <2>2. ~Ahead(t)
    BY <2>1
  <2>3. t < at /\ step # "manifests" => t \in timedOut
    BY <2>1
  <2> QED
    BY <1>0, <2>1, <2>2, <2>3
<1>9. CASE UNCHANGED loadVars
  BY <1>9 DEF loadVars
<1> QED
  BY <1>1, <1>2, <1>3, <1>4, <1>5, <1>6, <1>7, <1>8, <1>9 DEF LoadNext, LoadTools

\* While the main goroutine goes through the scripts, an answer it has gone by
\* stays as it is.
LEMMA HeardStays ==
  ASSUME LoadTypes, ProbesInOrder, step # "manifests",
         NEW t \in ScriptEntries, ProbeStarts(t) \/ ProbeReturns(t)
  PROVE  /\ Heard' = Heard
         /\ t < at => \A n \in Names : AnsweredInTime(n)' = AnsweredInTime(n)
<1>1. /\ probe[t] \in {"spawned", "running"}
      /\ UNCHANGED <<manifest, script, step, at, existingNames, timedOut>>
      /\ \A s \in ScriptEntries \ {t} : probe'[s] = probe[s]
  BY DEF ProbeStarts, ProbeReturns, diskVars, LoadTypes, LoadTypeOK
<1>2. t < at => t \in timedOut
  BY <1>1 DEF ProbesInOrder
<1>3. Heard' = Heard
  BY <1>1, <1>2 DEF Heard
<1>4. ASSUME NEW n \in Names, t < at
      PROVE  AnsweredInTime(n)' = AnsweredInTime(n)
  BY <1>1, <1>2, <1>4 DEF AnsweredInTime
<1> QED
  BY <1>3, <1>4

\* LoadManifest passes a manifest, and no other step passes one that counts.
LEMMA PassedStep ==
  ASSUME LoadTypes, [LoadNext]_loadVars
  PROVE  IF LoadManifest
         THEN \A n \in Names : Passed(n)' = IF manifest[at].name = n THEN Passed(n) \cup {at}
                                                                 ELSE Passed(n)
         ELSE \A n \in Names : Passed(n)' = Passed(n)
<1>0. ManifestCount \in Nat /\ at \in Nat /\ UNCHANGED <<manifest, script>>
  BY CountsAssumption
  DEF LoadTypes, LoadTypeOK, LoadNext, LoadTools, loadVars, diskVars, SkipManifest, LoadManifest,
      ManifestsDone, SkipScript, SpawnProbe, TakeProbe, ProbeTimesOut, RegisterScripts,
      ProbeStarts, ProbeReturns
<1>1. \A n \in Names : ManifestsOf(n)' = ManifestsOf(n)
  BY <1>0 DEF ManifestsOf
<1>2. \A n \in Names : \A m \in ManifestsOf(n) :
        m \in Nat /\ m <= ManifestCount /\ Loadable(manifest[m]) /\ manifest[m].name = n
  BY <1>0 DEF ManifestsOf, ManifestEntries
<1>3. CASE LoadManifest
  <2>1. /\ step = "manifests" /\ step' = "manifests" /\ at' = at + 1
        /\ at \in ManifestEntries /\ Loadable(manifest[at])
    BY <1>3 DEF LoadManifest
  <2>2. \A n \in Names : at \in ManifestsOf(n) <=> manifest[at].name = n
    BY <2>1 DEF ManifestsOf
  <2>3. ASSUME NEW n \in Names
        PROVE  \A m \in ManifestsOf(n) : m < at' <=> m < at \/ m = at
    BY <1>0, <1>2, <2>1
  <2> QED
    BY <1>1, <1>3, <2>1, <2>2, <2>3 DEF Passed
<1>4. CASE SkipManifest
  <2>1. /\ step = "manifests" /\ step' = "manifests" /\ at' = at + 1 /\ ~Loadable(manifest[at])
    BY <1>4 DEF SkipManifest
  <2>2. ASSUME NEW n \in Names
        PROVE  \A m \in ManifestsOf(n) : m < at' <=> m < at
    BY <1>0, <1>2, <2>1
  <2>3. ~LoadManifest
    BY <2>1 DEF LoadManifest
  <2> QED
    BY <1>1, <2>1, <2>2, <2>3 DEF Passed
<1>5. CASE ManifestsDone
  <2>1. step = "manifests" /\ step' = "scripts" /\ at > ManifestCount
    BY <1>5 DEF ManifestsDone
  <2>2. \A n \in Names : \A m \in ManifestsOf(n) : m < at
    BY <1>0, <1>2, <2>1
  <2>3. ~LoadManifest
    BY <1>0, <2>1 DEF LoadManifest, ManifestEntries
  <2> QED
    BY <1>1, <2>1, <2>2, <2>3 DEF Passed
<1>6. CASE step # "manifests" /\ step' # "manifests"
  <2>1. ~LoadManifest
    BY <1>6 DEF LoadManifest
  <2> QED
    BY <1>1, <1>6, <2>1 DEF Passed
<1>7. CASE UNCHANGED <<step, at>>
  <2>1. LoadManifest => at' # at
    BY <1>0 DEF LoadManifest
  <2> QED
    BY <1>1, <1>7, <2>1 DEF Passed
<1>8. \/ LoadManifest \/ SkipManifest \/ ManifestsDone
      \/ step # "manifests" /\ step' # "manifests"
      \/ UNCHANGED <<step, at>>
  BY DEF LoadNext, LoadTools, loadVars, SkipScript, NextScript, SpawnProbe, TakeProbe,
         ProbeTimesOut, RegisterScripts, ProbeStarts, ProbeReturns
<1> QED
  BY <1>3, <1>4, <1>5, <1>6, <1>7, <1>8

\* The manifests: a later one replaces an earlier one of the same name.
LEMMA ManifestsStep ==
  ASSUME LoadTypes, RegistryInOrder, [LoadNext]_loadVars
  PROVE  /\ \A n \in Names : n \in existingNames' <=> Passed(n)' # {}
         /\ step' # "serving" => \A n \in Names : FromManifests(n)'
<1>0. /\ ManifestCount \in Nat /\ at \in Nat /\ ScriptCount \in Nat
      /\ registry \in [Names -> Tools \cup {NoTool}]
      /\ \A n \in Names : n \in existingNames <=> Passed(n) # {}
      /\ step # "serving" => \A n \in Names : FromManifests(n)
  BY CountsAssumption DEF LoadTypes, LoadTypeOK, RegistryInOrder
<1>1. CASE LoadManifest
  <2>1. /\ step = "manifests" /\ at \in ManifestEntries /\ Loadable(manifest[at])
        /\ existingNames' = existingNames \cup {manifest[at].name}
        /\ registry' = [registry EXCEPT ![manifest[at].name] =
                          [kind |-> Kind(manifest[at]), entry |-> at]]
        /\ UNCHANGED manifest
    BY <1>1 DEF LoadManifest, diskVars
  <2>2. ASSUME NEW n \in Names, manifest[at].name = n
        PROVE  n \in existingNames' /\ Passed(n)' # {} /\ FromManifests(n)'
    <3>1. Passed(n)' = Passed(n) \cup {at}
      BY <1>1, <2>2, PassedStep
    <3>2. \A o \in Passed(n) : o <= at
      BY <1>0, <2>1 DEF Passed, ManifestsOf, ManifestEntries
    <3>3. registry'[n] = [kind |-> Kind(manifest'[at]), entry |-> at]
      BY <1>0, <2>1, <2>2
    <3>4. at <= at
      BY <1>0
    <3> QED
      BY <2>1, <2>2, <3>1, <3>2, <3>3, <3>4 DEF FromManifests
  <2>3. ASSUME NEW n \in Names, manifest[at].name # n
        PROVE  (n \in existingNames' <=> Passed(n)' # {}) /\ FromManifests(n)'
    <3>1. Passed(n)' = Passed(n)
      BY <1>1, <2>3, PassedStep
    <3>2. registry'[n] = registry[n] /\ FromManifests(n)
      BY <1>0, <2>1, <2>3
    <3> QED
      BY <1>0, <2>1, <2>3, <3>1, <3>2 DEF FromManifests
  <2> QED
    BY <2>2, <2>3
<1>2. CASE ~LoadManifest
  <2>1. \A n \in Names : Passed(n)' = Passed(n)
    BY <1>2, PassedStep
  <2>2. /\ UNCHANGED <<manifest, existingNames>>
        /\ step' # "serving" => step # "serving" /\ UNCHANGED registry
    BY <1>2 DEF LoadNext, LoadTools, loadVars, diskVars, SkipManifest, ManifestsDone,
                SkipScript, NextScript, SpawnProbe, TakeProbe, ProbeTimesOut, RegisterScripts,
                ProbeStarts, ProbeReturns
  <2> QED
    BY <1>0, <2>1, <2>2 DEF FromManifests
<1> QED
  BY <1>1, <1>2

\* What is found: an answer is appended when the main goroutine goes by it, and
\* what it has gone by does not change any more.
LEMMA FoundStep ==
  ASSUME LoadTypes, ProbesInOrder, RegistryInOrder, [LoadNext]_loadVars
  PROVE  /\ \A i, j \in DOMAIN found' : i < j => found'[i] < found'[j]
         /\ step' = "manifests" => found' = <<>>
         /\ step' \in {"scripts", "probing"} => {found'[i] : i \in DOMAIN found'} = Heard'
<1>0. /\ ScriptCount \in Nat /\ at \in Nat /\ ScriptEntries = 1..ScriptCount
      /\ found \in Seq(ScriptEntries) /\ Len(found) \in Nat /\ DOMAIN found = 1..Len(found)
      /\ \A i, j \in DOMAIN found : i < j => found[i] < found[j]
      /\ step = "manifests" => found = <<>>
      /\ step \in {"scripts", "probing"} => {found[i] : i \in DOMAIN found} = Heard
      /\ step = "probing" => at \in ScriptEntries
  BY CountsAssumption, LenProperties
  DEF LoadTypes, LoadTypeOK, RegistryInOrder, ScriptEntries
<1>1. CASE SkipManifest \/ LoadManifest
  BY <1>0, <1>1 DEF SkipManifest, LoadManifest
<1>2. CASE ManifestsDone
  <2>1. step = "manifests" /\ step' = "scripts" /\ at' = 1 /\ found' = <<>>
    BY <1>0, <1>2 DEF ManifestsDone
  <2>2. Heard' = {}
    BY <1>0, <2>1 DEF Heard, ScriptEntries
  <2>3. DOMAIN <<>> = {}
    OBVIOUS
  <2> QED
    BY <2>1, <2>2, <2>3
<1>3. CASE SkipScript
  <2>1. /\ step = "scripts" /\ at \in ScriptEntries /\ step' = "scripts" /\ at' = at + 1
        /\ UNCHANGED <<script, existingNames, found, probe, timedOut>>
    BY <1>3 DEF SkipScript, NextScript, diskVars
  <2>2. probe[at] = "none"
    BY <2>1 DEF ProbesInOrder, Ahead
  <2>3. Heard' = Heard
    BY <1>0, <2>1, <2>2 DEF Heard
  <2> QED
    BY <1>0, <2>1, <2>3
<1>4. CASE SpawnProbe
  <2>1. /\ step = "scripts" /\ step' = "probing" /\ at \in ScriptEntries
        /\ probe' = [probe EXCEPT ![at] = "spawned"]
        /\ UNCHANGED <<script, at, existingNames, found, timedOut>>
    BY <1>4 DEF SpawnProbe, diskVars
  <2>2. \A s \in ScriptEntries : s < at => probe'[s] = probe[s]
    BY <1>0, <2>1 DEF LoadTypes, LoadTypeOK
  <2>3. Heard' = Heard
    BY <2>1, <2>2 DEF Heard
  <2> QED
    BY <1>0, <2>1, <2>3
<1>5. CASE TakeProbe
  <2>1. /\ step = "probing" /\ step' = "scripts" /\ at' = at + 1 /\ at \in ScriptEntries
        /\ probe[at] \in {"answered", "failed"} /\ at \notin timedOut
        /\ UNCHANGED <<script, existingNames, probe, timedOut>>
    BY <1>0, <1>5 DEF TakeProbe, NextScript, diskVars, ProbesInOrder
  <2>2. CASE probe[at] = "answered" /\ script[at].name \notin existingNames
    <3>1. found' = Append(found, at)
      BY <1>5, <2>2 DEF TakeProbe
    <3>2. /\ found' \in Seq(ScriptEntries)
          /\ DOMAIN found' = 1..Len(found) + 1
          /\ \A i \in 1..Len(found) : found'[i] = found[i]
          /\ found'[Len(found) + 1] = at
      <4>1. /\ Append(found, at) \in Seq(ScriptEntries)
            /\ Len(Append(found, at)) = Len(found) + 1
            /\ \A i \in 1..Len(found) : Append(found, at)[i] = found[i]
            /\ Append(found, at)[Len(found) + 1] = at
        BY <1>0, <2>1, AppendProperties
      <4>2. DOMAIN Append(found, at) = 1..Len(found) + 1
        BY <4>1, LenProperties
      <4> QED
        BY <3>1, <4>1, <4>2
    <3>3. Heard' = Heard \cup {at}
      BY <1>0, <2>1, <2>2 DEF Heard
    <3>4. \A i \in 1..Len(found) : found[i] \in Heard /\ found[i] < at
      BY <1>0, <2>1 DEF Heard
    <3>5. \A i, j \in DOMAIN found' : i < j => found'[i] < found'[j]
      <4> SUFFICES ASSUME NEW i \in 1..Len(found) + 1, NEW j \in 1..Len(found) + 1, i < j
                   PROVE  found'[i] < found'[j]
        BY <3>2
      <4>1. i \in 1..Len(found)
        BY <1>0
      <4>2. CASE j \in 1..Len(found)
        BY <1>0, <3>2, <4>1, <4>2
      <4>3. CASE j = Len(found) + 1
        BY <3>2, <3>4, <4>1, <4>3
      <4> QED
        BY <1>0, <4>2, <4>3
    <3>6. \A s : (\E i \in DOMAIN found' : found'[i] = s) <=> s \in Heard'
      <4>1. \A s : (\E i \in DOMAIN found : found[i] = s) <=> s \in Heard
        BY <1>0, <2>1
      <4>2. DOMAIN found' = DOMAIN found \cup {Len(found) + 1}
        BY <1>0, <3>2
      <4> QED
        BY <1>0, <3>2, <3>3, <4>1, <4>2
    <3>7. {found'[i] : i \in DOMAIN found'} = Heard'
      BY <3>6
    <3> QED
      BY <2>1, <3>5, <3>7
  <2>3. CASE ~(probe[at] = "answered" /\ script[at].name \notin existingNames)
    <3>1. UNCHANGED found
      BY <1>5, <2>3 DEF TakeProbe
    <3>2. Heard' = Heard
      BY <1>0, <2>1, <2>3 DEF Heard
    <3> QED
      BY <1>0, <2>1, <3>1, <3>2
  <2> QED
    BY <2>2, <2>3
<1>6. CASE ProbeTimesOut
  <2>1. /\ step = "probing" /\ step' = "scripts" /\ at' = at + 1 /\ at \in ScriptEntries
        /\ timedOut' = timedOut \cup {at}
        /\ UNCHANGED <<script, existingNames, found>>
    BY <1>0, <1>6 DEF ProbeTimesOut, NextScript, diskVars
  <2>2. \A s \in ScriptEntries : s < at => probe'[s] = probe[s]
    BY <1>0, <1>6 DEF ProbeTimesOut, LoadTypes, LoadTypeOK
  <2>3. Heard' = Heard
    BY <1>0, <2>1, <2>2 DEF Heard
  <2> QED
    BY <1>0, <2>1, <2>3
<1>7. CASE RegisterScripts
  BY <1>0, <1>7 DEF RegisterScripts
<1>8. ASSUME NEW t \in ScriptEntries, ProbeStarts(t) \/ ProbeReturns(t)
      PROVE  /\ \A i, j \in DOMAIN found' : i < j => found'[i] < found'[j]
             /\ step' = "manifests" => found' = <<>>
             /\ step' \in {"scripts", "probing"} => {found'[i] : i \in DOMAIN found'} = Heard'
  <2>1. UNCHANGED <<step, found>>
    BY <1>8 DEF ProbeStarts, ProbeReturns
  <2>2. step # "manifests" => Heard' = Heard
    BY <1>8, HeardStays
  <2> QED
    BY <1>0, <2>1, <2>2
<1>9. CASE UNCHANGED loadVars
  <2>1. Heard' = Heard /\ UNCHANGED <<step, found>>
    BY <1>9 DEF Heard, loadVars, diskVars
  <2> QED
    BY <1>0, <2>1
<1> QED
  BY <1>1, <1>2, <1>3, <1>4, <1>5, <1>6, <1>7, <1>8, <1>9 DEF LoadNext, LoadTools

\* What the manifests have registered is the last manifest of each name.
LEMMA LastManifest ==
  ASSUME LoadTypes, NEW n \in Names, FromManifests(n), step # "manifests", ManifestsOf(n) # {}
  PROVE  registry[n] = ToolFor(n)
<1>1. Passed(n) = ManifestsOf(n) /\ ManifestsOf(n) \in SUBSET Nat
  BY CountsAssumption DEF Passed, ManifestsOf, ManifestEntries
<1>2. PICK m \in ManifestsOf(n) : /\ \A o \in ManifestsOf(n) : o <= m
                                  /\ registry[n] = [kind |-> Kind(manifest[m]), entry |-> m]
  BY <1>1 DEF FromManifests
<1>3. Max(ManifestsOf(n)) = m
  BY <1>1, <1>2, MaxIs
<1> QED
  BY <1>2, <1>3 DEF ToolFor

\* RegisterScripts completes the registry.
LEMMA RegistryFilled ==
  ASSUME LoadTypes, ProbesInOrder, RegistryInOrder, RegisterScripts
  PROVE  RegistryExact'
<1>0. /\ ScriptCount \in Nat /\ at \in Nat /\ step = "scripts" /\ at > ScriptCount
      /\ ScriptEntries \subseteq Nat /\ \A s \in ScriptEntries : s < at
      /\ found \in Seq(ScriptEntries) /\ Len(found) \in Nat /\ DOMAIN found = 1..Len(found)
      /\ \A i \in DOMAIN found : found[i] \in ScriptEntries
      /\ UNCHANGED <<manifest, script, probe, timedOut>>
  BY CountsAssumption, LenProperties
  DEF LoadTypes, LoadTypeOK, ScriptEntries, RegisterScripts, diskVars
<1>1. ASSUME NEW n \in Names
      PROVE  registry'[n] = ToolFor(n)
  <2> DEFINE mine == {i \in DOMAIN found : script[found[i]].name = n}
  <2>1. registry'[n] = IF mine = {} THEN registry[n]
                       ELSE [kind |-> "script", entry |-> found[Max(mine)]]
    BY DEF RegisterScripts
  <2>2. Passed(n) = ManifestsOf(n)
    BY <1>0 DEF Passed
  <2>3. FromManifests(n) /\ (n \in existingNames <=> ManifestsOf(n) # {})
    BY <1>0, <2>2 DEF RegistryInOrder
  <2>4. {found[i] : i \in DOMAIN found} = Heard
    BY <1>0 DEF RegistryInOrder
  <2>5. CASE ManifestsOf(n) # {}
    <3>1. mine = {}
      BY <2>3, <2>4, <2>5 DEF Heard
    <3> QED
      BY <1>0, <2>1, <2>3, <2>5, <3>1, LastManifest
  <2>6. CASE ManifestsOf(n) = {} /\ AnsweredInTime(n) = {}
    <3>1. mine = {}
      BY <2>4, <2>6 DEF Heard, AnsweredInTime
    <3>2. registry[n] = NoTool
      BY <2>2, <2>3, <2>6 DEF FromManifests
    <3> QED
      BY <2>1, <2>6, <3>1, <3>2 DEF ToolFor
  <2>7. CASE ManifestsOf(n) = {} /\ AnsweredInTime(n) # {}
    <3>1. \A s \in AnsweredInTime(n) : \E i \in mine : found[i] = s
      <4>1. AnsweredInTime(n) \subseteq Heard
        BY <1>0, <2>3, <2>7 DEF Heard, AnsweredInTime
      <4>2. \A s \in AnsweredInTime(n) : script[s].name = n
        BY DEF AnsweredInTime
      <4>3. \A s \in AnsweredInTime(n) : \E i \in DOMAIN found : found[i] = s
        BY <2>4, <4>1
      <4> QED
        BY <4>2, <4>3
    <3>2. mine \in SUBSET (1..Len(found)) /\ mine \in SUBSET Nat /\ mine # {}
      BY <1>0, <2>7, <3>1
    <3>3. PICK m \in mine : \A i \in mine : i <= m
      <4> HIDE DEF mine
      <4> QED
        BY <1>0, <3>2, MaxExists
    <3>4. Max(mine) = m
      <4> HIDE DEF mine
      <4> QED
        BY <3>2, <3>3, MaxIs
    <3>5. found[m] \in AnsweredInTime(n)
      BY <1>0, <2>4 DEF Heard, AnsweredInTime
    <3>6. ASSUME NEW s \in AnsweredInTime(n)
          PROVE  s <= found[m]
      <4>1. PICK i \in mine : found[i] = s
        BY <3>1
      <4>2. i <= m /\ i \in DOMAIN found /\ m \in DOMAIN found
        BY <3>3
      <4>3. i < m => found[i] < found[m]
        BY <4>2 DEF RegistryInOrder
      <4>4. found[i] \in Nat /\ found[m] \in Nat
        BY <1>0, <4>2
      <4>5. i \in 1..Len(found) /\ m \in 1..Len(found)
        BY <1>0, <4>2
      <4> QED
        BY <1>0, <4>1, <4>2, <4>3, <4>4, <4>5
    <3>7. AnsweredInTime(n) \in SUBSET Nat
      BY <1>0 DEF AnsweredInTime
    <3>8. Max(AnsweredInTime(n)) = found[m]
      BY <3>5, <3>6, <3>7, MaxIs
    <3> HIDE DEF mine
    <3> QED
      BY <2>1, <2>7, <3>2, <3>4, <3>8 DEF ToolFor
  <2> QED
    BY <2>5, <2>6, <2>7
<1>2. \A n \in Names : ToolFor(n)' = ToolFor(n)
  BY <1>0 DEF ToolFor, ManifestsOf, AnsweredInTime
<1> QED
  BY <1>1, <1>2 DEF RegistryExact

LEMMA ExactStep ==
  ASSUME LoadTypes, ProbesInOrder, RegistryInOrder, RegistryExact, [LoadNext]_loadVars
  PROVE  RegistryExact'
<1>1. CASE RegisterScripts
  BY <1>1, RegistryFilled
<1>2. CASE step' # "serving"
  BY <1>2 DEF RegistryExact
<1>3. CASE step = "serving" /\ \E t \in ScriptEntries : ProbeStarts(t) \/ ProbeReturns(t)
  <2>1. PICK t \in ScriptEntries : ProbeStarts(t) \/ ProbeReturns(t)
    BY <1>3
  <2>2. UNCHANGED <<manifest, script, step, registry>>
    BY <2>1 DEF ProbeStarts, ProbeReturns, diskVars
  <2>3. t < at
    BY <1>3, CountsAssumption DEF LoadTypes, ScriptEntries
  <2>4. \A n \in Names : AnsweredInTime(n)' = AnsweredInTime(n)
    BY <1>3, <2>1, <2>3, HeardStays
  <2>5. \A n \in Names : ManifestsOf(n)' = ManifestsOf(n)
    BY <2>2 DEF ManifestsOf
  <2>6. \A n \in Names : ToolFor(n)' = ToolFor(n)
    BY <2>2, <2>4, <2>5 DEF ToolFor
  <2> QED
    BY <1>3, <2>2, <2>6 DEF RegistryExact
<1>4. CASE UNCHANGED loadVars
  <2>1. \A n \in Names : ToolFor(n)' = ToolFor(n)
    BY <1>4 DEF ToolFor, ManifestsOf, AnsweredInTime, loadVars, diskVars
  <2> QED
    BY <1>4, <2>1 DEF RegistryExact, loadVars
<1>5. \/ RegisterScripts \/ step' # "serving" \/ UNCHANGED loadVars
      \/ step = "serving" /\ \E t \in ScriptEntries : ProbeStarts(t) \/ ProbeReturns(t)
  BY DEF LoadNext, LoadTools, SkipManifest, LoadManifest, ManifestsDone, SkipScript, NextScript,
         SpawnProbe, TakeProbe, ProbeTimesOut, ProbeStarts, ProbeReturns
<1> QED
  BY <1>1, <1>2, <1>3, <1>4, <1>5

LEMMA LoadInvStep ==
  ASSUME LoadInv, [LoadNext]_loadVars
  PROVE  LoadInv'
<1> USE DEF LoadInv
<1>1. LoadTypes'
  BY LoadTypesStep
<1>2. ProbesInOrder'
  BY ProbesStep
<1>3. RegistryInOrder'
  BY ManifestsStep, FoundStep DEF RegistryInOrder
<1>4. RegistryExact'
  BY ExactStep
<1> QED
  BY <1>1, <1>2, <1>3, <1>4

LEMMA LoadInvInitially ==
  ASSUME LoadInit
  PROVE  LoadInv
<1>0. ManifestCount \in Nat /\ ScriptCount \in Nat /\ DOMAIN <<>> = {}
  BY CountsAssumption
<1>1. LoadTypes
  <2>1. <<>> \in Seq(ScriptEntries)
    BY EmptySeq
  <2> QED
    BY <1>0, <2>1 DEF LoadInit, LoadTypes, LoadTypeOK, ProbeStates
<1>2. ProbesInOrder
  BY DEF LoadInit, ProbesInOrder, Ahead
<1>3. \A n \in Names : Passed(n) = {}
  BY <1>0 DEF LoadInit, Passed, ManifestsOf, ManifestEntries
<1>4. RegistryInOrder
  BY <1>0, <1>3 DEF LoadInit, RegistryInOrder, FromManifests
<1>5. RegistryExact
  BY DEF LoadInit, RegistryExact
<1> QED
  BY <1>1, <1>2, <1>4, <1>5 DEF LoadInv

LEMMA LoadInvAlways == LoadSpec => []LoadInv
<1>1. LoadInit => LoadInv
  BY LoadInvInitially
<1>2. LoadInv /\ [LoadNext]_loadVars => LoadInv'
  BY LoadInvStep
<1> QED
  BY <1>1, <1>2, PTL DEF LoadSpec

(***************************************************************************)
(* Startup fills the registry as loadTools does by itself: whatever main   *)
(* does with settings and listeners, only loading writes the registry.     *)
(***************************************************************************)
THEOREM StartupLoadsTools == StartupSpec => LoadSpec
<1>1. StartupInit => LoadInit
  BY DEF StartupInit
<1>2. [StartupNext]_startVars => [LoadNext]_loadVars
  BY DEF StartupNext, startVars, MainStarts, Started, LoadEnvFiles, InitAudit, InitAuditFails,
         ApplyEnvOverrides, InitTokenRegistry, InitGlobalTimeout, InitToolSemaphore,
         DetectConfigDir, Loading, Listen, ProbeGoroutine, LoadNext, ParseFlags,
         ParseFlagsFails, SseListens, SseFails, DashboardListens
<1> QED
  BY <1>1, <1>2, PTL DEF StartupSpec, LoadSpec

(***************************************************************************)
(* Whatever order probes answer, hang and time out in, each name is served *)
(* by the last loadable manifest of that name or, without one, by the last *)
(* script that answered in time.                                           *)
(***************************************************************************)
THEOREM RegistryAlwaysExact == StartupSpec => []RegistryExact
<1>1. LoadInv => RegistryExact
  BY DEF LoadInv
<1> QED
  BY <1>1, LoadInvAlways, StartupLoadsTools, PTL

-----------------------------------------------------------------------------
(* What main makes of the launch.                                          *)

\* The environment once .env has been read.
Merged ==
  [k \in Keys |-> IF launch.env[k] = "unset" THEN launch.envFile[Home][k] ELSE launch.env[k]]

LaunchTypes ==
  launch \in [env : [Keys -> Texts], envFile : [Places -> [Keys -> Texts]],
              flag : [Flags -> Texts], inBin : BOOLEAN,
              toolsAt : SUBSET Places, logDir : BOOLEAN]

\* What the launch makes of each setting, and of the tokens.
LaunchPort ==
  IF Said("JIG_SSE_PORT") = "unset" THEN launch.flag["port"]
  ELSE IF Accepted(Said("JIG_SSE_PORT")) THEN Said("JIG_SSE_PORT") ELSE "unset"

LaunchNumber(k) == IF Accepted(Said(k)) THEN Said(k) ELSE "unset"

LaunchDir ==
  IF Said("JIG_CONFIG_DIR") \in {"unset", "blank"} THEN launch.flag["config-dir"]
                                                 ELSE Said("JIG_CONFIG_DIR")

FoundDir ==
  IF Explicit(LaunchDir) THEN LaunchDir
  ELSE IF launch.inBin /\ "installRoot" \in launch.toolsAt THEN "installRoot"
  ELSE IF "exeDir" \in launch.toolsAt THEN "exeDir"
  ELSE LaunchDir

LaunchTokens ==
  IF Said("JIG_AUTH_TOKENS") # "unset" THEN Entries(Said("JIG_AUTH_TOKENS"))
  ELSE IF Said("JIG_AUTH_TOKEN") # "unset"
  THEN << [name |-> "default", token |-> Said("JIG_AUTH_TOKEN")] >>
  ELSE <<>>

\* Where main is when it has passed ApplyEnvOverrides, InitTokenRegistry, ...
Overridden == {"tokens", "timeout", "semaphore", "configDir", "loading", "up"}
Tokened == Overridden \ {"tokens"}
Timed == Tokened \ {"timeout"}
Counted == Timed \ {"semaphore"}
Located == Counted \ {"configDir"}

\* Each setting has its first value until the step of main that sets it, and
\* then keeps what the launch says.
MainInOrder ==
  /\ setting["transport"] = IF boot \in Overridden THEN SaidTransport
                                                  ELSE launch.flag["transport"]
  /\ setting["port"] = IF boot \in Overridden THEN LaunchPort ELSE launch.flag["port"]
  /\ setting["configDir"] = IF boot \in Located THEN FoundDir
                            ELSE IF boot \in Overridden THEN LaunchDir
                            ELSE launch.flag["config-dir"]
  /\ setting["timeout"] = IF boot \in Timed THEN LaunchNumber("JIG_TOOL_TIMEOUT") ELSE "unset"
  /\ setting["maxTools"] = IF boot \in Counted THEN LaunchNumber("JIG_MAX_CONCURRENT_TOOLS")
                                              ELSE "unset"
  /\ tokens = IF boot \in Tokened THEN LaunchTokens ELSE <<>>

SettingsInv ==
  /\ LaunchTypes
  /\ boot \in {"flags", "envFile", "audit", "overrides", "failed"} \cup Overridden
  /\ boot \in {"flags", "envFile"} => env = launch.env
  /\ boot = "failed" => env \in {launch.env, Merged}
  /\ boot \notin {"flags", "envFile", "failed"} => env = Merged
  /\ setting \in [Settings -> Texts \cup Places]
  /\ boot # "failed" => MainInOrder
  /\ Len(tokens) <= 2
  /\ boot # "up" => listeners = {}
  /\ boot = "up" => /\ step = "serving"
                    /\ listeners \subseteq {"dashboard", "sse", "stdio"}
                    /\ "sse" \in listeners => setting["transport"] = "a"
                    /\ "stdio" \in listeners => setting["transport"] # "a"

LEMMA HomeIsAPlace ==
  ASSUME LaunchTypes
  PROVE  /\ Home \in Places /\ launch.inBin \in BOOLEAN /\ launch.toolsAt \subseteq Places
         /\ \A k \in Keys : launch.env[k] \in Texts /\ launch.envFile[Home][k] \in Texts
         /\ \A f \in Flags : launch.flag[f] \in Texts
<1>1. Home \in Places /\ launch.inBin \in BOOLEAN /\ launch.toolsAt \subseteq Places
  BY DEF LaunchTypes, Home, Places
<1>2. /\ launch.env \in [Keys -> Texts] /\ launch.envFile[Home] \in [Keys -> Texts]
      /\ launch.flag \in [Flags -> Texts]
  BY <1>1 DEF LaunchTypes
<1> QED
  BY <1>1, <1>2

\* Once .env has been read, what the environment says is what the launch says.
LEMMA MergedSays ==
  ASSUME LaunchTypes, env = Merged, NEW k \in Keys
  PROVE  /\ Said(k) \in Texts \ {"empty"}
         /\ Given(k) <=> Said(k) # "unset"
         /\ Given(k) => env[k] = Said(k)
         /\ Accepted(env[k]) <=> Accepted(Said(k))
         /\ Accepted(env[k]) => env[k] = Said(k)
<1>1. env[k] = IF launch.env[k] # "unset" THEN launch.env[k] ELSE launch.envFile[Home][k]
  BY DEF Merged
<1>2. env[k] \in Texts
  BY <1>1, HomeIsAPlace
<1>3. Said(k) = IF env[k] = "empty" THEN "unset" ELSE env[k]
  BY <1>1 DEF Said
<1> QED
  BY <1>2, <1>3 DEF Given, Accepted, Texts

\* What the launch says of a setting is one of the texts.
LEMMA LaunchTexts ==
  ASSUME LaunchTypes, env = Merged
  PROVE  /\ SaidTransport \in Texts /\ LaunchPort \in Texts /\ LaunchDir \in Texts
         /\ FoundDir \in Texts \cup Places
         /\ \A k \in Keys : LaunchNumber(k) \in Texts
<1>1. {"JIG_TRANSPORT", "JIG_SSE_PORT", "JIG_CONFIG_DIR"} \subseteq Keys /\ "unset" \in Texts
      /\ {"transport", "port", "config-dir"} \subseteq Flags
  BY DEF Keys, Texts, Flags
<1>2. \A k \in Keys : Said(k) \in Texts
  BY MergedSays
<1>3. \A f \in Flags : launch.flag[f] \in Texts
  BY HomeIsAPlace
<1>4. SaidTransport \in Texts /\ LaunchPort \in Texts /\ LaunchDir \in Texts
  BY <1>1, <1>2, <1>3 DEF SaidTransport, LaunchPort, LaunchDir
<1>5. FoundDir \in Texts \cup Places
  BY <1>4 DEF FoundDir, Places
<1>6. \A k \in Keys : LaunchNumber(k) \in Texts
  BY <1>1, <1>2 DEF LaunchNumber
<1> QED
  BY <1>4, <1>5, <1>6

LEMMA SettingsInitially ==
  ASSUME StartupInit
  PROVE  SettingsInv
<1>1. PICK w \in Worlds : launch = w.launch
  BY DEF StartupInit
<1>2. LaunchTypes
  BY <1>1, WorldsAssumption DEF LaunchTypes
<1>3. \A f \in Flags : launch.flag[f] \in Texts
  BY <1>2, HomeIsAPlace
<1>4. /\ setting = [s \in Settings |->
            CASE s = "transport" -> launch.flag["transport"]
              [] s = "port" -> launch.flag["port"]
              [] s = "configDir" -> launch.flag["config-dir"]
              [] OTHER -> "unset"]
      /\ env = launch.env /\ boot = "flags" /\ tokens = <<>> /\ listeners = {}
  BY DEF StartupInit
<1>5. setting["transport"] = launch.flag["transport"]
  BY <1>4 DEF Settings
<1>6. setting["port"] = launch.flag["port"]
  BY <1>4 DEF Settings
<1>7. setting["configDir"] = launch.flag["config-dir"]
  BY <1>4 DEF Settings
<1>8. setting["timeout"] = "unset" /\ setting["maxTools"] = "unset"
  BY <1>4 DEF Settings
<1>9. setting \in [Settings -> Texts \cup Places]
  <2>1. DOMAIN setting = Settings /\ setting = [s \in Settings |-> setting[s]]
    BY <1>4
  <2>2. \A s \in Settings : setting[s] \in Texts
    BY <1>3, <1>5, <1>6, <1>7, <1>8 DEF Settings, Flags, Texts
  <2> QED
    BY <2>1, <2>2
<1>10. Len(tokens) <= 2
  BY <1>4
<1> QED
  BY <1>2, <1>4, <1>5, <1>6, <1>7, <1>8, <1>9, <1>10
  DEF SettingsInv, MainInOrder, Overridden, Tokened, Timed, Counted, Located

\* What the launch makes of a setting does not change.
LEMMA LaunchStays ==
  ASSUME UNCHANGED launch
  PROVE  /\ LaunchTypes' = LaunchTypes /\ Merged' = Merged
         /\ SaidTransport' = SaidTransport /\ LaunchPort' = LaunchPort
         /\ LaunchDir' = LaunchDir /\ FoundDir' = FoundDir /\ LaunchTokens' = LaunchTokens
         /\ \A k \in Keys : LaunchNumber(k)' = LaunchNumber(k)
<1>1. Home' = Home /\ LaunchTypes' = LaunchTypes
  BY DEF Home, LaunchTypes
<1>2. Merged' = Merged /\ \A k : Said(k)' = Said(k)
  BY <1>1 DEF Merged, Said
<1>3. /\ SaidTransport' = SaidTransport /\ LaunchPort' = LaunchPort
      /\ LaunchDir' = LaunchDir /\ LaunchTokens' = LaunchTokens
      /\ \A k \in Keys : LaunchNumber(k)' = LaunchNumber(k)
  BY <1>2 DEF SaidTransport, LaunchPort, LaunchDir, LaunchTokens, LaunchNumber
<1>4. FoundDir' = FoundDir
  BY <1>3 DEF FoundDir
<1> QED
  BY <1>1, <1>2, <1>3, <1>4

LEMMA SettingsStep ==
  ASSUME SettingsInv, [StartupNext]_startVars
  PROVE  SettingsInv'
<1> USE DEF SettingsInv, MainInOrder, Overridden, Tokened, Timed, Counted, Located
<1>0. UNCHANGED launch
  BY DEF StartupNext, startVars, bootVars, MainStarts, Started, LoadEnvFiles, InitAudit,
         InitAuditFails, ApplyEnvOverrides, InitTokenRegistry, InitGlobalTimeout,
         InitToolSemaphore, DetectConfigDir, Loading, Listen, ProbeGoroutine,
         ParseFlags, ParseFlagsFails, SseListens, SseFails, DashboardListens
<1>1. /\ LaunchTypes' /\ Merged' = Merged
      /\ SaidTransport' = SaidTransport /\ LaunchPort' = LaunchPort
      /\ LaunchDir' = LaunchDir /\ FoundDir' = FoundDir /\ LaunchTokens' = LaunchTokens
      /\ LaunchNumber("JIG_TOOL_TIMEOUT")' = LaunchNumber("JIG_TOOL_TIMEOUT")
      /\ LaunchNumber("JIG_MAX_CONCURRENT_TOOLS")' = LaunchNumber("JIG_MAX_CONCURRENT_TOOLS")
  BY <1>0, LaunchStays DEF Keys
<1>2. Settings = {"transport", "port", "configDir", "timeout", "maxTools"}
  BY DEF Settings
<1>3. CASE ParseFlags \/ ParseFlagsFails
  BY <1>0, <1>1, <1>3 DEF ParseFlags, ParseFlagsFails, Step
<1>4. CASE LoadEnvFiles
  <2>1. env' = Merged
    BY <1>4 DEF LoadEnvFiles, Step, Merged
  <2> QED
    BY <1>0, <1>1, <1>4, <2>1 DEF LoadEnvFiles, Step
<1>5. CASE InitAudit \/ InitAuditFails
  BY <1>0, <1>1, <1>5 DEF InitAudit, InitAuditFails, Step
<1>6. CASE ApplyEnvOverrides
  <2>1. /\ boot = "overrides" /\ boot' = "tokens" /\ env = Merged
        /\ UNCHANGED <<env, tokens, listeners>>
    BY <1>6 DEF ApplyEnvOverrides, Step
  <2>2. /\ setting["transport"] = launch.flag["transport"]
        /\ setting["port"] = launch.flag["port"]
        /\ setting["configDir"] = launch.flag["config-dir"]
    BY <2>1
  <2> DEFINE transport == IF Given("JIG_TRANSPORT") THEN env["JIG_TRANSPORT"]
                          ELSE setting["transport"]
  <2> DEFINE port == IF ~Given("JIG_SSE_PORT") THEN setting["port"]
                     ELSE IF Accepted(env["JIG_SSE_PORT"]) THEN env["JIG_SSE_PORT"]
                     ELSE "unset"
  <2> DEFINE dir == IF Given("JIG_CONFIG_DIR") /\ env["JIG_CONFIG_DIR"] # "blank"
                    THEN env["JIG_CONFIG_DIR"] ELSE setting["configDir"]
  <2>3. setting' = [setting EXCEPT !["transport"] = transport, !["port"] = port,
                                   !["configDir"] = dir]
    BY <1>6 DEF ApplyEnvOverrides
  <2>4. transport = SaidTransport
    BY <2>1, <2>2, MergedSays DEF SaidTransport, Keys
  <2>5. port = LaunchPort
    BY <2>1, <2>2, MergedSays DEF LaunchPort, Keys
  <2>6. dir = LaunchDir
    BY <2>1, <2>2, MergedSays DEF LaunchDir, Keys
  <2>7. SaidTransport \in Texts /\ LaunchPort \in Texts /\ LaunchDir \in Texts
    BY <2>1, LaunchTexts
  <2> HIDE DEF transport, port, dir
  <2>8. /\ setting' \in [Settings -> Texts \cup Places]
        /\ setting'["transport"] = SaidTransport /\ setting'["port"] = LaunchPort
        /\ setting'["configDir"] = LaunchDir
        /\ setting'["timeout"] = setting["timeout"] /\ setting'["maxTools"] = setting["maxTools"]
    BY <1>2, <2>3, <2>4, <2>5, <2>6, <2>7
  <2> QED
    BY <1>0, <1>1, <2>1, <2>8
<1>7. CASE InitTokenRegistry
  <2>1. /\ boot = "tokens" /\ boot' = "timeout" /\ env = Merged
        /\ UNCHANGED <<env, setting, listeners>>
    BY <1>7 DEF InitTokenRegistry, Step
  <2>2. tokens' = LaunchTokens
    BY <1>7, <2>1, MergedSays DEF InitTokenRegistry, LaunchTokens, Keys
  <2>3. Len(LaunchTokens) <= 2
    BY DEF LaunchTokens, Entries
  <2> QED
    BY <1>0, <1>1, <2>1, <2>2, <2>3
<1>8. CASE InitGlobalTimeout
  <2>1. /\ boot = "timeout" /\ boot' = "semaphore" /\ env = Merged
        /\ setting["timeout"] = "unset"
        /\ UNCHANGED <<env, tokens, listeners>>
    BY <1>8 DEF InitGlobalTimeout, Step
  <2>2. setting' = [setting EXCEPT !["timeout"] = LaunchNumber("JIG_TOOL_TIMEOUT")]
    BY <1>8, <2>1, MergedSays DEF InitGlobalTimeout, LaunchNumber, Keys
  <2>3. LaunchNumber("JIG_TOOL_TIMEOUT") \in Texts
    BY <2>1, LaunchTexts DEF Keys
  <2>4. /\ setting' \in [Settings -> Texts \cup Places]
        /\ setting'["timeout"] = LaunchNumber("JIG_TOOL_TIMEOUT")
        /\ \A s \in Settings \ {"timeout"} : setting'[s] = setting[s]
    BY <1>2, <2>2, <2>3
  <2> QED
    BY <1>0, <1>1, <1>2, <2>1, <2>4
<1>9. CASE InitToolSemaphore
  <2>1. /\ boot = "semaphore" /\ boot' = "configDir" /\ env = Merged
        /\ setting["maxTools"] = "unset"
        /\ UNCHANGED <<env, tokens, listeners>>
    BY <1>9 DEF InitToolSemaphore, Step
  <2>2. setting' = [setting EXCEPT !["maxTools"] = LaunchNumber("JIG_MAX_CONCURRENT_TOOLS")]
    BY <1>9, <2>1, MergedSays DEF InitToolSemaphore, LaunchNumber, Keys
  <2>3. LaunchNumber("JIG_MAX_CONCURRENT_TOOLS") \in Texts
    BY <2>1, LaunchTexts DEF Keys
  <2>4. /\ setting' \in [Settings -> Texts \cup Places]
        /\ setting'["maxTools"] = LaunchNumber("JIG_MAX_CONCURRENT_TOOLS")
        /\ \A s \in Settings \ {"maxTools"} : setting'[s] = setting[s]
    BY <1>2, <2>2, <2>3
  <2> QED
    BY <1>0, <1>1, <1>2, <2>1, <2>4
<1>10. CASE DetectConfigDir
  <2>1. /\ boot = "configDir" /\ boot' = "loading" /\ env = Merged
        /\ setting["configDir"] = LaunchDir
        /\ UNCHANGED <<env, tokens, listeners>>
    BY <1>10 DEF DetectConfigDir, Step
  <2>2. setting' = [setting EXCEPT !["configDir"] = FoundDir]
    BY <1>10, <2>1 DEF DetectConfigDir, FoundDir
  <2>3. FoundDir \in Texts \cup Places
    BY <2>1, LaunchTexts
  <2>4. /\ setting' \in [Settings -> Texts \cup Places]
        /\ setting'["configDir"] = FoundDir
        /\ \A s \in Settings \ {"configDir"} : setting'[s] = setting[s]
    BY <1>2, <2>2, <2>3
  <2> QED
    BY <1>0, <1>1, <1>2, <2>1, <2>4
<1>11. CASE Listen
  <2>1. /\ boot = "loading" /\ boot' = "up" /\ step' = "serving"
        /\ UNCHANGED <<env, setting, tokens>>
    BY <1>11 DEF Listen, Step, loadVars
  <2>2. listeners' = IF setting["transport"] = "a" THEN {} ELSE {"stdio"}
    BY <1>11 DEF Listen, SseAsked
  <2> QED
    BY <1>0, <1>1, <2>1, <2>2
<1>12. CASE SseListens \/ DashboardListens
  <2>1. /\ boot = "up" /\ step' = step
        /\ UNCHANGED <<env, boot, setting, tokens>>
    BY <1>12 DEF SseListens, DashboardListens, loadVars
  <2>2. /\ listeners' \subseteq {"dashboard", "sse", "stdio"}
        /\ "sse" \in listeners' => "sse" \in listeners \/ setting["transport"] = "a"
        /\ "stdio" \in listeners' => "stdio" \in listeners
    BY <1>12, <2>1 DEF SseListens, DashboardListens, SseAsked
  <2> QED
    BY <1>0, <1>1, <2>1, <2>2
<1>13. CASE SseFails
  BY <1>0, <1>1, <1>13 DEF SseFails, Step
<1>14. CASE \/ Loading \/ Started \/ UNCHANGED startVars
            \/ \E s \in ScriptEntries : ProbeGoroutine(s)
  <2>1. UNCHANGED <<launch, env, boot, setting, tokens, listeners>>
    BY <1>14 DEF Loading, Started, startVars, bootVars, ProbeGoroutine
  <2>2. boot = "up" => UNCHANGED step
    BY <1>14 DEF Loading, Started, startVars, loadVars, ProbeGoroutine, ProbeStarts, ProbeReturns
  <2> QED
    BY <1>1, <2>1, <2>2
<1> QED
  BY <1>3, <1>4, <1>5, <1>6, <1>7, <1>8, <1>9, <1>10, <1>11, <1>12,
     <1>13, <1>14 DEF StartupNext, MainStarts

LEMMA SettingsAlways == StartupSpec => []SettingsInv
<1>1. StartupInit => SettingsInv
  BY SettingsInitially
<1>2. SettingsInv /\ [StartupNext]_startVars => SettingsInv'
  BY SettingsStep
<1> QED
  BY <1>1, <1>2, PTL DEF StartupSpec

(***************************************************************************)
(* The variables of the startup keep their types, for every launch.        *)
(***************************************************************************)
THEOREM StartupTypeCorrect == StartupSpec => []StartupTypeOK
<1>1. LoadInv /\ SettingsInv => StartupTypeOK
  <2> SUFFICES ASSUME LoadInv, SettingsInv
               PROVE  StartupTypeOK
    OBVIOUS
  <2>1. LoadTypeOK
    BY DEF LoadInv, LoadTypes
  <2>2. env \in [Keys -> Texts]
    <3>1. launch.env \in [Keys -> Texts]
      BY DEF SettingsInv, LaunchTypes
    <3>2. Merged \in [Keys -> Texts]
      BY HomeIsAPlace DEF SettingsInv, Merged
    <3> QED
      BY <3>1, <3>2 DEF SettingsInv
  <2>3. Len(tokens) <= 2
    BY DEF SettingsInv
  <2>4. listeners \subseteq {"dashboard", "sse", "stdio"}
    BY DEF SettingsInv
  <2> QED
    BY <2>1, <2>2, <2>3, <2>4
    DEF SettingsInv, StartupTypeOK, Overridden
<1> QED
  BY <1>1, LoadInvAlways, StartupLoadsTools, SettingsAlways, PTL

\* The tokens of the launch know the callers that NameOf knows.
LEMMA TokensName ==
  ASSUME LaunchTypes, env = Merged, tokens = LaunchTokens, NEW candidate
  PROVE  /\ tokens = <<>> => NameOf(candidate) = "anonymous"
         /\ tokens # <<>> => Lookup(candidate) = NameOf(candidate)
<1>1. /\ Said("JIG_AUTH_TOKENS") \in Texts \ {"empty"}
      /\ Said("JIG_AUTH_TOKEN") \in Texts \ {"empty"}
  BY MergedSays DEF Keys
<1>2. CASE Said("JIG_AUTH_TOKENS") = "a"
  <2>1. tokens = << [name |-> "n1", token |-> "t1"], [name |-> "n2", token |-> "t2"] >>
    BY <1>2 DEF LaunchTokens, Entries
  <2>2. DOMAIN tokens = {1, 2} /\ tokens # <<>>
    BY <2>1
  <2>3. /\ tokens[1].token = "t1" /\ tokens[1].name = "n1"
        /\ tokens[2].token = "t2" /\ tokens[2].name = "n2"
    BY <2>1
  <2> DEFINE match == {i \in DOMAIN tokens : tokens[i].token = candidate}
  <2>4. match = IF candidate = "t1" THEN {1} ELSE IF candidate = "t2" THEN {2} ELSE {}
    BY <2>2, <2>3
  <2>5. Min({1}) = 1 /\ Min({2}) = 2
    BY MinIs
  <2>6. Lookup(candidate) = IF candidate = "t1" THEN "n1" ELSE IF candidate = "t2" THEN "n2"
                            ELSE "refused"
    BY <2>3, <2>4, <2>5 DEF Lookup
  <2> QED
    BY <1>2, <2>2, <2>6 DEF NameOf
<1>3. CASE Said("JIG_AUTH_TOKENS") = "b"
  <2>1. tokens = << [name |-> "n1", token |-> "t2"], [name |-> "n2", token |-> "t2"] >>
    BY <1>3 DEF LaunchTokens, Entries
  <2>2. DOMAIN tokens = {1, 2} /\ tokens # <<>>
    BY <2>1
  <2>3. /\ tokens[1].token = "t2" /\ tokens[1].name = "n1" /\ tokens[2].token = "t2"
    BY <2>1
  <2> DEFINE match == {i \in DOMAIN tokens : tokens[i].token = candidate}
  <2>4. match = IF candidate = "t2" THEN {1, 2} ELSE {}
    BY <2>2, <2>3
  <2>5. Min({1, 2}) = 1
    BY MinIs
  <2>6. Lookup(candidate) = IF candidate = "t2" THEN "n1" ELSE "refused"
    BY <2>3, <2>4, <2>5 DEF Lookup
  <2> QED
    BY <1>3, <2>2, <2>6 DEF NameOf
<1>4. CASE Said("JIG_AUTH_TOKENS") = "unset" /\ Said("JIG_AUTH_TOKEN") # "unset"
  <2>1. tokens = << [name |-> "default", token |-> Said("JIG_AUTH_TOKEN")] >>
    BY <1>4 DEF LaunchTokens
  <2>2. DOMAIN tokens = {1} /\ tokens # <<>>
    BY <2>1
  <2>3. tokens[1].token = Said("JIG_AUTH_TOKEN") /\ tokens[1].name = "default"
    BY <2>1
  <2> DEFINE match == {i \in DOMAIN tokens : tokens[i].token = candidate}
  <2>4. match = IF candidate = Said("JIG_AUTH_TOKEN") THEN {1} ELSE {}
    BY <2>2, <2>3
  <2>5. Min({1}) = 1
    BY MinIs
  <2>6. Lookup(candidate) = IF candidate = Said("JIG_AUTH_TOKEN") THEN "default" ELSE "refused"
    BY <2>3, <2>4, <2>5 DEF Lookup
  <2> QED
    BY <1>4, <2>2, <2>6 DEF NameOf
<1>5. CASE /\ Said("JIG_AUTH_TOKENS") \notin {"a", "b"}
           /\ ~(Said("JIG_AUTH_TOKENS") = "unset" /\ Said("JIG_AUTH_TOKEN") # "unset")
  <2>1. tokens = <<>>
    BY <1>5 DEF LaunchTokens, Entries
  <2>2. NameOf(candidate) = "anonymous"
    BY <1>5 DEF NameOf
  <2> QED
    BY <2>1, <2>2
<1> QED
  BY <1>2, <1>3, <1>4, <1>5

(***************************************************************************)
(* Whoever can reach the server finds the registry complete and every      *)
(* setting as main takes it from the launch: a variable before a flag,     *)
(* even an invalid JIG_SSE_PORT before -port.  Each client of /sse is      *)
(* known by the tokens of the variable that takes precedence; of the       *)
(* callers of /message, who are known to nobody, nothing is said.          *)
(***************************************************************************)
THEOREM ServesAsLaunched == StartupSpec => []ServedAsLaunched
<1>1. SettingsInv => ServedAsLaunched
  <2> SUFFICES ASSUME SettingsInv, listeners # {}
               PROVE  ServedAsLaunched
    BY DEF ServedAsLaunched
  <2>1. /\ boot = "up" /\ step = "serving" /\ env = Merged /\ LaunchTypes
        /\ "sse" \in listeners => setting["transport"] = "a"
        /\ "stdio" \in listeners => setting["transport"] # "a"
        /\ setting["transport"] = SaidTransport /\ setting["port"] = LaunchPort
        /\ setting["configDir"] = FoundDir /\ tokens = LaunchTokens
        /\ setting["timeout"] = LaunchNumber("JIG_TOOL_TIMEOUT")
        /\ setting["maxTools"] = LaunchNumber("JIG_MAX_CONCURRENT_TOOLS")
    BY DEF SettingsInv, MainInOrder, Overridden, Tokened, Timed, Counted, Located
  <2>2. /\ "sse" \in listeners => SaidTransport = "a"
        /\ "stdio" \in listeners => SaidTransport # "a"
    BY <2>1
  <2>3. setting["port"] = IF Said("JIG_SSE_PORT") = "unset" THEN launch.flag["port"]
                          ELSE IF Accepted(Said("JIG_SSE_PORT")) THEN Said("JIG_SSE_PORT")
                          ELSE "unset"
    BY <2>1 DEF LaunchPort
  <2> DEFINE detected == (IF launch.inBin THEN Places ELSE {"exeDir"}) \cap launch.toolsAt
  <2>4. IF Explicit(LaunchDir) \/ detected = {} THEN setting["configDir"] = LaunchDir
        ELSE /\ setting["configDir"] \in detected
             /\ "installRoot" \in detected => setting["configDir"] = "installRoot"
    <3>1. launch.toolsAt \subseteq Places /\ launch.inBin \in BOOLEAN
      BY <2>1, HomeIsAPlace
    <3>2. /\ "installRoot" \in detected <=> launch.inBin /\ "installRoot" \in launch.toolsAt
          /\ "exeDir" \in detected <=> "exeDir" \in launch.toolsAt
          /\ detected \subseteq {"exeDir", "installRoot"}
      BY <3>1 DEF Places
    <3> HIDE DEF detected
    <3> QED
      BY <2>1, <3>2 DEF FoundDir
  <2>5. ASSUME NEW token \in {"t1", "t2"} \cup Texts, NEW other
        PROVE  /\ Caller("/sse", token, other) = NameOf(token)
               /\ Caller("/sse", "", token) = NameOf(token)
    <3>1. token # ""
      BY DEF Texts
    <3>2. /\ tokens = <<>> => NameOf(token) = "anonymous"
          /\ tokens # <<>> => Lookup(token) = NameOf(token)
      BY <2>1, TokensName
    <3> QED
      BY <3>1, <3>2 DEF Caller
  <2> QED
    BY <2>1, <2>2, <2>3, <2>4, <2>5 DEF ServedAsLaunched, LaunchDir, LaunchNumber
<1> QED
  BY <1>1, SettingsAlways, PTL
=============================================================================
