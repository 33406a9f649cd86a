----------------------------- MODULE ToolLoading -----------------------------
(***************************************************************************)
(* How the registry of tools is filled at startup: loadTools of            *)
(* cmd/jig-mcp/main.go with LoadManifests and ProbeScripts of              *)
(* internal/config/config.go.  The main goroutine walks through the        *)
(* manifests and then the scripts, in the order of the directory listings; *)
(* each script is run with --mcp-metadata by a goroutine of its own, which *)
(* the main goroutine waits for until a timer fires.  What is on the disk  *)
(* is chosen in the initial state.                                         *)
(***************************************************************************)
EXTENDS Integers, Sequences, FiniteSets, FiniteSetsExt

CONSTANTS
  Names,          \* the names of tools that occur
  Manifests,      \* the manifests that occur
  ScriptFiles,    \* the entries of scripts/ that occur
  ManifestCount,  \* number of directories below tools/
  ScriptCount     \* number of entries of scripts/

\* A manifest that cannot be opened or decoded says nothing else.
ASSUME ManifestsAssumption ==
  Manifests \subseteq
    [readable : {FALSE}] \cup
    [readable : {TRUE}, name : Names, http : BOOLEAN,
     terminal : {"absent", "disabled", "enabled"},
     platforms : {"absent", "clean", "unsafe"}]

\* isScript: a file whose extension is .sh or .ps1.  metadata: it can answer.
ASSUME ScriptFilesAssumption ==
  ScriptFiles \subseteq [isScript : BOOLEAN, metadata : BOOLEAN, name : Names]

ASSUME CountsAssumption == ManifestCount \in Nat /\ ScriptCount \in Nat

VARIABLES
  manifest,       \* the manifest of each directory
  script,         \* the scripts
  step,           \* what the main goroutine does
  at,             \* the entry it has come to
  existingNames,  \* the names the manifests have taken
  found,          \* the tools ProbeScripts has collected
  registry,       \* the tool that is registered for each name
  probe,          \* the process of each script, or the goroutine that starts it
  timedOut        \* the scripts whose timer has fired

diskVars == <<manifest, script>>
loadVars == <<diskVars, step, at, existingNames, found, registry, probe, timedOut>>

ManifestEntries == 1..ManifestCount
ScriptEntries == 1..ScriptCount

NoTool == [kind |-> "none", entry |-> 0]
Tools == [kind : {"http", "terminal", "external", "script"}, entry : Nat]

ProbeStates == {"none", "spawned", "running", "answered", "failed", "killed"}

LoadInit ==
  /\ manifest \in [ManifestEntries -> Manifests]
  /\ script \in [ScriptEntries -> ScriptFiles]
  /\ step = "manifests"
  /\ at = 1
  /\ existingNames = {}
  /\ found = <<>>
  /\ registry = [n \in Names |-> NoTool]
  /\ probe = [s \in ScriptEntries |-> "none"]
  /\ timedOut = {}

-----------------------------------------------------------------------------
(* LoadManifests, and the registration of what it returns.                 *)

\* ValidateToolConfig
Valid(m) ==
  /\ m.platforms # "unsafe"
  /\ m.http \/ m.terminal # "absent" \/ m.platforms # "absent"

Loadable(m) ==
  m.readable /\ Valid(m) /\ (m.http \/ m.terminal # "disabled")

\* HTTP before terminal before platforms.
Kind(m) ==
  CASE m.http -> "http"
    [] ~m.http /\ m.terminal # "absent" -> "terminal"
    [] OTHER -> "external"

SkipManifest ==
  /\ step = "manifests" /\ at \in ManifestEntries
  /\ ~Loadable(manifest[at])
  /\ at' = at + 1
  /\ UNCHANGED <<diskVars, step, existingNames, found, registry, probe, timedOut>>

\* A later manifest replaces an earlier one of the same name.
LoadManifest ==
  /\ step = "manifests" /\ at \in ManifestEntries
  /\ LET m == manifest[at]
     IN  /\ Loadable(m)
         /\ existingNames' = existingNames \cup {m.name}
         /\ registry' = [registry EXCEPT ![m.name] = [kind |-> Kind(m), entry |-> at]]
  /\ at' = at + 1
  /\ UNCHANGED <<diskVars, step, found, probe, timedOut>>

ManifestsDone ==
  /\ step = "manifests" /\ at > ManifestCount
  /\ step' = "scripts"
  /\ at' = 1
  /\ UNCHANGED <<diskVars, existingNames, found, registry, probe, timedOut>>

-----------------------------------------------------------------------------
(* ProbeScripts.                                                           *)

NextScript == step' = "scripts" /\ at' = at + 1

\* Variant that steps forward itself and in the loop.
SkipScriptTwice ==
  /\ step = "scripts" /\ at \in ScriptEntries
  /\ ~script[at].isScript
  /\ at' = at + 2
  /\ UNCHANGED <<diskVars, step, existingNames, found, registry, probe, timedOut>>

SkipScript ==
  /\ step = "scripts" /\ at \in ScriptEntries
  /\ ~script[at].isScript
  /\ NextScript
  /\ UNCHANGED <<diskVars, existingNames, found, registry, probe, timedOut>>

SpawnProbe ==
  /\ step = "scripts" /\ at \in ScriptEntries
  /\ script[at].isScript
  /\ probe' = [probe EXCEPT ![at] = "spawned"]
  /\ step' = "probing"
  /\ UNCHANGED <<diskVars, at, existingNames, found, registry, timedOut>>

\* cmd.CombinedOutput() starts the process, even when nobody waits any more.
ProbeStarts(s) ==
  /\ probe[s] = "spawned"
  /\ \E state \in {"running", "failed"} : probe' = [probe EXCEPT ![s] = state]
  /\ UNCHANGED <<diskVars, step, at, existingNames, found, registry, timedOut>>

\* It returns: with the metadata, or with an error or something else.
ProbeReturns(s) ==
  /\ probe[s] = "running"
  /\ \E state \in {"failed"} \cup (IF script[s].metadata THEN {"answered"} ELSE {}) :
       probe' = [probe EXCEPT ![s] = state]
  /\ UNCHANGED <<diskVars, step, at, existingNames, found, registry, timedOut>>

\* Variant that lets a script replace a tool of a manifest.
TakeProbeOverwriting ==
  /\ step = "probing"
  /\ probe[at] \in {"answered", "failed"}
  /\ found' = IF probe[at] = "answered" THEN Append(found, at) ELSE found
  /\ NextScript
  /\ UNCHANGED <<diskVars, existingNames, registry, probe, timedOut>>

\* case <-done
TakeProbe ==
  /\ step = "probing"
  /\ probe[at] \in {"answered", "failed"}
  /\ found' = IF probe[at] = "answered" /\ script[at].name \notin existingNames
              THEN Append(found, at) ELSE found
  /\ NextScript
  /\ UNCHANGED <<diskVars, existingNames, registry, probe, timedOut>>

\* Variant without the timer.
ProbeTimesOutNever == FALSE /\ UNCHANGED loadVars

\* case <-time.After(scriptProbeTimeout).  cmd.Process is read while the other
\* goroutine may write it: of a process that runs, the read may still see nil.
ProbeTimesOut ==
  /\ step = "probing"
  /\ timedOut' = timedOut \cup {at}
  /\ \/ probe[at] = "running" /\ probe' = [probe EXCEPT ![at] = "killed"]
     \/ UNCHANGED probe
  /\ NextScript
  /\ UNCHANGED <<diskVars, existingNames, found, registry>>

\* RegisterTool for each, in order: the last of a name stays.
RegisterScripts ==
  /\ step = "scripts" /\ at > ScriptCount
  /\ registry' = [n \in Names |->
       LET mine == {i \in DOMAIN found : script[found[i]].name = n}
       IN  IF mine = {} THEN registry[n]
           ELSE [kind |-> "script", entry |-> found[Max(mine)]]]
  /\ step' = "serving"
  /\ UNCHANGED <<diskVars, at, existingNames, found, probe, timedOut>>

-----------------------------------------------------------------------------

LoadTools ==
  \/ SkipManifest \/ LoadManifest \/ ManifestsDone
  \/ SkipScript \/ SpawnProbe \/ TakeProbe \/ ProbeTimesOut
  \/ RegisterScripts

LoadNext ==
  \/ LoadTools
  \/ \E s \in ScriptEntries : ProbeStarts(s) \/ ProbeReturns(s)

LoadSpec == LoadInit /\ [][LoadNext]_loadVars

-----------------------------------------------------------------------------

LoadTypeOK ==
  /\ step \in {"manifests", "scripts", "probing", "serving"}
  /\ at \in 1..(IF step = "manifests" THEN ManifestCount ELSE ScriptCount) + 1
  /\ existingNames \subseteq Names
  /\ found \in Seq(ScriptEntries)
  /\ registry \in [Names -> Tools \cup {NoTool}]
  /\ probe \in [ScriptEntries -> ProbeStates]
  /\ timedOut \subseteq ScriptEntries

ManifestsOf(n) ==
  {m \in ManifestEntries : Loadable(manifest[m]) /\ manifest[m].name = n}

AnsweredInTime(n) ==
  {s \in ScriptEntries :
     probe[s] = "answered" /\ s \notin timedOut /\ script[s].name = n}

\* Which tool answers to a name, by definition.
ToolFor(n) ==
  IF ManifestsOf(n) # {}
  THEN LET m == Max(ManifestsOf(n)) IN [kind |-> Kind(manifest[m]), entry |-> m]
  ELSE IF AnsweredInTime(n) # {}
  THEN [kind |-> "script", entry |-> Max(AnsweredInTime(n))]
  ELSE NoTool

(***************************************************************************)
(* Whatever order probes answer, hang and time out in, the server serves   *)
(* under each name the last loadable manifest of that name or, if no       *)
(* manifest has it, the last script that answered in time ("Don't          *)
(* overwrite tools already loaded from manifests"): never one whose        *)
(* answer came late.                                                       *)
(***************************************************************************)
RegistryExact ==
  step = "serving" => \A n \in Names : registry[n] = ToolFor(n)

=============================================================================
