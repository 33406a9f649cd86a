---------------------------- MODULE MCToolLoading ----------------------------
(* Instances of Startup, and of ToolLoading in it, for TLC. *)
EXTENDS Startup

\* One manifest for each way through LoadManifests, and both names for the
\* ways that lead to a tool.
MCManifests ==
  LET Manifest(n, http, terminal, platforms) ==
        [readable |-> TRUE, name |-> n, http |-> http, terminal |-> terminal,
         platforms |-> platforms]
  IN  {[readable |-> FALSE],
       Manifest("n1", FALSE, "absent", "absent"),
       Manifest("n1", TRUE, "absent", "unsafe"),
       Manifest("n1", FALSE, "disabled", "clean"),
       Manifest("n1", TRUE, "disabled", "absent"),
       Manifest("n1", FALSE, "enabled", "clean")}
      \cup {Manifest(n, FALSE, "absent", "clean") : n \in {"n1", "n2"}}

\* Two scripts of one name, one of another, one without metadata, and a file
\* that is no script.
NoScript == [isScript |-> FALSE, metadata |-> FALSE, name |-> "n1"]
MCScriptFiles ==
  LET Script(n, metadata) == [isScript |-> TRUE, metadata |-> metadata, name |-> n]
  IN  {Script("n1", TRUE), Script("n2", TRUE), Script("n2", FALSE), NoScript}

Nothing == [k \in Keys |-> "unset"]
Plain ==
  [env |-> Nothing, envFile |-> [p \in Places |-> Nothing],
   flag |-> [f \in Flags |-> "unset"], inBin |-> TRUE, toolsAt |-> {"installRoot"},
   logDir |-> TRUE]

\* One variable set in any way in the environment and in both files, with or
\* without flags; both token variables; every layout; -port in every form with
\* every JIG_SSE_PORT, for both transports.
MCLaunches ==
  {[Plain EXCEPT !.env[k] = e, !.envFile[home][k] = t,
                 !.flag = [f \in Flags |-> flag], !.inBin = (home = "installRoot")] :
     k \in Keys, e \in Texts, t \in Texts, flag \in {"unset", "a"}, home \in Places}
  \cup {[Plain EXCEPT !.env["JIG_AUTH_TOKENS"] = e, !.envFile["installRoot"]["JIG_AUTH_TOKEN"] = t] :
     e \in Texts, t \in Texts}
  \cup {[Plain EXCEPT !.envFile[p]["JIG_MAX_CONCURRENT_TOOLS"] = "a", !.inBin = bin,
                 !.toolsAt = places, !.flag["config-dir"] = flag, !.logDir = usable] :
     p \in Places, bin \in BOOLEAN, places \in SUBSET Places,
     flag \in {"unset", "blank", "b"}, usable \in BOOLEAN}
  \cup {[Plain EXCEPT !.flag["transport"] = transport, !.flag["port"] = port,
                 !.env["JIG_SSE_PORT"] = e] :
     transport \in {"unset", "a"}, port \in Texts, e \in Texts}

\* Any disk with the plain launch, any launch with the plain disk.
MCWorlds ==
  {[launch |-> Plain, manifest |-> m, script |-> s] :
     m \in [ManifestEntries -> Manifests], s \in [ScriptEntries -> ScriptFiles]}
  \cup {[launch |-> l, manifest |-> [m \in ManifestEntries |-> [readable |-> FALSE]],
         script |-> [s \in ScriptEntries |-> NoScript]] : l \in MCLaunches}

=============================================================================
