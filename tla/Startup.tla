------------------------------- MODULE Startup -------------------------------
(***************************************************************************)
(* The start of the server: main of cmd/jig-mcp/main.go with the settings  *)
(* it takes from flags, the environment and a .env file, the checks of     *)
(* audit.Init, the tokens of internal/auth, and the loading of the tools   *)
(* (ToolLoading) before the first listener is opened.  Everything up to    *)
(* there happens in the main goroutine; the listeners of the two HTTP      *)
(* servers are opened by goroutines, and may fail.                         *)
(*                                                                         *)
(* The text of a setting is abstracted to how the code reads it: two texts *)
(* that are accepted, and the ways of not being one.                       *)
(***************************************************************************)
EXTENDS ToolLoading

CONSTANT
  Worlds        \* the launches and disks the server may be started with

Keys == {"JIG_TRANSPORT", "JIG_SSE_PORT", "JIG_CONFIG_DIR", "JIG_AUTH_TOKENS",
         "JIG_AUTH_TOKEN", "JIG_TOOL_TIMEOUT", "JIG_MAX_CONCURRENT_TOOLS", "JIG_LOG"}
Flags == {"transport", "port", "config-dir"}

\* blank: white space only.  bad: does not parse.  low: parses, but is out of range.
Texts == {"unset", "empty", "blank", "bad", "low", "a", "b"}

\* The directory of the executable and, if that is called bin, the one above.
Places == {"exeDir", "installRoot"}

\* envFile: what .env says in each place.  toolsAt: the places with a tools/.
\* JIG_LOG stands for the three numbers of the audit log, logDir for whether
\* its directory is acceptable and can be made.
ASSUME WorldsAssumption ==
  \A w \in Worlds :
    w.launch \in [env : [Keys -> Texts], envFile : [Places -> [Keys -> Texts]],
                  flag : [Flags -> Texts], inBin : BOOLEAN,
                  toolsAt : SUBSET Places, logDir : BOOLEAN]

VARIABLES
  launch,       \* how the server was launched; never changes
  env,          \* the environment of the process
  boot,         \* where main is
  setting,      \* what the settings are
  tokens,       \* entries of the token registry, in order
  listeners     \* what clients can talk to

bootVars == <<launch, env, boot, setting, tokens, listeners>>
startVars == <<loadVars, bootVars>>

Settings == {"transport", "port", "configDir", "timeout", "maxTools"}

StartupInit ==
  /\ \E w \in Worlds : launch = w.launch /\ manifest = w.manifest /\ script = w.script
  /\ LoadInit
  /\ env = launch.env
  /\ boot = "flags"
  /\ setting = [s \in Settings |->
       CASE s = "transport" -> launch.flag["transport"]
         [] s = "port" -> launch.flag["port"]
         [] s = "configDir" -> launch.flag["config-dir"]
         [] OTHER -> "unset"]
  /\ tokens = <<>>
  /\ listeners = {}

\* os.Getenv(k) # ""
Given(k) == env[k] \notin {"unset", "empty"}

\* A number or a duration the code accepts.
Accepted(text) == text \in {"a", "b"}

Home == IF launch.inBin THEN "installRoot" ELSE "exeDir"

Step(from, to) == boot = from /\ boot' = to

-----------------------------------------------------------------------------
(* main, up to loadTools.                                                  *)

\* -port is a number; the other two flags are strings and take any text.
PortParses == launch.flag["port"] \notin {"empty", "blank", "bad"}

ParseFlags ==
  /\ PortParses
  /\ Step("flags", "envFile")
  /\ UNCHANGED <<loadVars, launch, env, setting, tokens, listeners>>

\* flag.Parse exits: flag.CommandLine is ExitOnError.
ParseFlagsFails ==
  /\ ~PortParses
  /\ Step("flags", "failed")
  /\ UNCHANGED <<loadVars, launch, env, setting, tokens, listeners>>

\* godotenv.Load leaves alone what is in the environment, though it be empty.
LoadEnvFiles ==
  /\ Step("envFile", "audit")
  /\ env' = [k \in Keys |-> IF env[k] = "unset" THEN launch.envFile[Home][k]
                                                ELSE env[k]]
  /\ UNCHANGED <<loadVars, launch, setting, tokens, listeners>>

\* Zero and negative numbers pass here; the log then uses its defaults.
AuditUsable == launch.logDir /\ (Given("JIG_LOG") => env["JIG_LOG"] \notin {"blank", "bad"})

InitAudit ==
  /\ AuditUsable
  /\ Step("audit", "overrides")
  /\ UNCHANGED <<loadVars, launch, env, setting, tokens, listeners>>

\* os.Exit(1)
InitAuditFails ==
  /\ ~AuditUsable
  /\ Step("audit", "failed")
  /\ UNCHANGED <<loadVars, launch, env, setting, tokens, listeners>>

\* A port that is no port falls back to the default, not to the flag.
ApplyEnvOverrides ==
  /\ Step("overrides", "tokens")
  /\ setting' = [setting EXCEPT
       !["transport"] = IF Given("JIG_TRANSPORT") THEN env["JIG_TRANSPORT"] ELSE @,
       !["port"] = IF ~Given("JIG_SSE_PORT") THEN @
                   ELSE IF Accepted(env["JIG_SSE_PORT"]) THEN env["JIG_SSE_PORT"]
                   ELSE "unset",
       !["configDir"] = IF Given("JIG_CONFIG_DIR") /\ env["JIG_CONFIG_DIR"] # "blank"
                        THEN env["JIG_CONFIG_DIR"] ELSE @]
  /\ UNCHANGED <<loadVars, launch, env, tokens, listeners>>

\* The entries of JIG_AUTH_TOKENS that have a name and a token.
Entries(text) ==
  CASE text = "a" -> << [name |-> "n1", token |-> "t1"], [name |-> "n2", token |-> "t2"] >>
    [] text = "b" -> << [name |-> "n1", token |-> "t2"], [name |-> "n2", token |-> "t2"] >>
    [] OTHER -> <<>>

\* Variant that tries JIG_AUTH_TOKEN when JIG_AUTH_TOKENS has no valid entry.
InitTokenRegistryTryingBoth ==
  /\ Step("tokens", "timeout")
  /\ tokens' = IF Entries(env["JIG_AUTH_TOKENS"]) # <<>> THEN Entries(env["JIG_AUTH_TOKENS"])
               ELSE IF Given("JIG_AUTH_TOKEN")
               THEN << [name |-> "default", token |-> env["JIG_AUTH_TOKEN"]] >>
               ELSE tokens
  /\ UNCHANGED <<loadVars, launch, env, setting, listeners>>

\* The singular variable is not looked at once the plural one is given.
InitTokenRegistry ==
  /\ Step("tokens", "timeout")
  /\ tokens' = IF Given("JIG_AUTH_TOKENS") THEN Entries(env["JIG_AUTH_TOKENS"])
               ELSE IF Given("JIG_AUTH_TOKEN")
               THEN << [name |-> "default", token |-> env["JIG_AUTH_TOKEN"]] >>
               ELSE tokens
  /\ UNCHANGED <<loadVars, launch, env, setting, listeners>>

InitGlobalTimeout ==
  /\ Step("timeout", "semaphore")
  /\ setting' = [setting EXCEPT !["timeout"] =
       IF Accepted(env["JIG_TOOL_TIMEOUT"]) THEN env["JIG_TOOL_TIMEOUT"] ELSE @]
  /\ UNCHANGED <<loadVars, launch, env, tokens, listeners>>

\* Sscanf stores a number below one before the check puts the default back.
InitToolSemaphore ==
  /\ Step("semaphore", "configDir")
  /\ setting' = [setting EXCEPT !["maxTools"] =
       IF Accepted(env["JIG_MAX_CONCURRENT_TOOLS"])
       THEN env["JIG_MAX_CONCURRENT_TOOLS"] ELSE @]
  /\ UNCHANGED <<loadVars, launch, env, tokens, listeners>>

Explicit(dir) == dir \notin {"unset", "empty", "blank"}

\* Where nothing is detected the setting stays as it is, blank text included.
DetectConfigDir ==
  /\ Step("configDir", "loading")
  /\ setting' = [setting EXCEPT !["configDir"] =
       IF Explicit(@) THEN @
       ELSE IF launch.inBin /\ "installRoot" \in launch.toolsAt THEN "installRoot"
       ELSE IF "exeDir" \in launch.toolsAt THEN "exeDir"
       ELSE @]
  /\ UNCHANGED <<loadVars, launch, env, tokens, listeners>>

-----------------------------------------------------------------------------
(* loadTools, the listeners, and the callers.                              *)

Loading ==
  /\ boot = "loading" /\ step # "serving"
  /\ LoadTools
  /\ UNCHANGED bootVars

ProbeGoroutine(s) == (ProbeStarts(s) \/ ProbeReturns(s)) /\ UNCHANGED bootVars

\* "a" stands for sse; anything else is stdio.
SseAsked == setting["transport"] = "a"

\* After SeedMetricsFromLog.  Standard input is there already, the HTTP servers
\* have yet to open their listeners.
Listen ==
  /\ step = "serving"
  /\ Step("loading", "up")
  /\ listeners' = IF SseAsked THEN {} ELSE {"stdio"}
  /\ UNCHANGED <<loadVars, launch, env, setting, tokens>>

\* The goroutine of StartSSEServer binds the port.
SseListens ==
  /\ boot = "up" /\ SseAsked /\ "sse" \notin listeners
  /\ listeners' = listeners \cup {"sse"}
  /\ UNCHANGED <<loadVars, launch, env, boot, setting, tokens>>

\* It cannot: the port is taken or no port.  The error goes to main through
\* sseErrCh, and gracefulShutdown, with no request to wait for, ends the process.
SseFails ==
  /\ SseAsked /\ "sse" \notin listeners
  /\ Step("up", "failed")
  /\ listeners' = {}
  /\ UNCHANGED <<loadVars, launch, env, setting, tokens>>

\* The dashboard's goroutine, if -dashboard-port is given; when it fails that
\* is only logged.
DashboardListens ==
  /\ boot = "up"
  /\ listeners' = listeners \cup {"dashboard"}
  /\ UNCHANGED <<loadVars, launch, env, boot, setting, tokens>>

\* TokenRegistry.Lookup: the first entry with the token gives the name.
Lookup(candidate) ==
  LET match == {i \in DOMAIN tokens : tokens[i].token = candidate}
  IN  IF match = {} THEN "refused" ELSE tokens[Min(match)].name

\* The caller in the context of a request with a bearer token in its header and
\* a token in its query.  Only /sse is wrapped in authenticate; a call of a tool
\* comes by /message and has CallerFrom's name for nobody.
Caller(endpoint, bearer, query) ==
  IF endpoint = "/message" THEN "unknown"
  ELSE IF tokens = <<>> THEN "anonymous"
  ELSE Lookup(IF bearer # "" THEN bearer ELSE query)

-----------------------------------------------------------------------------

MainStarts ==
  \/ ParseFlags \/ ParseFlagsFails \/ LoadEnvFiles
  \/ InitAudit \/ InitAuditFails \/ ApplyEnvOverrides
  \/ InitTokenRegistry \/ InitGlobalTimeout \/ InitToolSemaphore
  \/ DetectConfigDir \/ Loading \/ Listen

\* The transport that was asked for can be used.
Served == listeners \cap {"sse", "stdio"} # {}

Started == (Served \/ boot = "failed") /\ UNCHANGED startVars

StartupNext ==
  \/ MainStarts
  \/ SseListens \/ SseFails \/ DashboardListens
  \/ \E s \in ScriptEntries : ProbeGoroutine(s)
  \/ Started

\* The main goroutine runs and its timer fires, and an attempt to bind a port
\* comes to an end; scripts may hang.
StartupSpec ==
  /\ StartupInit /\ [][StartupNext]_startVars
  /\ WF_startVars(MainStarts) /\ WF_startVars(SseListens \/ SseFails)

-----------------------------------------------------------------------------

StartupTypeOK ==
  /\ LoadTypeOK
  /\ env \in [Keys -> Texts]
  /\ boot \in {"flags", "envFile", "audit", "overrides", "tokens", "timeout", "semaphore",
               "configDir", "loading", "up", "failed"}
  /\ setting \in [Settings -> Texts \cup Places]
  /\ Len(tokens) <= 2
  /\ listeners \subseteq {"dashboard", "sse", "stdio"}

\* What the launch says of a variable: the environment, then the file.
Said(k) ==
  LET text == IF launch.env[k] # "unset" THEN launch.env[k] ELSE launch.envFile[Home][k]
  IN  IF text = "empty" THEN "unset" ELSE text

\* The transport that the launch asks for.
SaidTransport ==
  IF Said("JIG_TRANSPORT") = "unset" THEN launch.flag["transport"] ELSE Said("JIG_TRANSPORT")

\* The name a client of /sse with a token goes by.
NameOf(token) ==
  CASE Said("JIG_AUTH_TOKENS") = "a" ->
         IF token = "t1" THEN "n1" ELSE IF token = "t2" THEN "n2" ELSE "refused"
    [] Said("JIG_AUTH_TOKENS") = "b" -> IF token = "t2" THEN "n1" ELSE "refused"
    [] Said("JIG_AUTH_TOKENS") = "unset" /\ Said("JIG_AUTH_TOKEN") # "unset" ->
         IF token = Said("JIG_AUTH_TOKEN") THEN "default" ELSE "refused"
    [] OTHER -> "anonymous"

(***************************************************************************)
(* Whoever can reach the server finds the registry complete ("writes       *)
(* happen only during init before any server goroutine starts",            *)
(* registry.go) and the settings as main takes them from the launch,       *)
(* wherever .env lies and whatever of it the environment hides.  A         *)
(* variable that is set beats the flag of the same setting even with a     *)
(* text that is of no use: an invalid JIG_SSE_PORT gives the default port, *)
(* not that of -port; a JIG_TRANSPORT that names no transport gives stdio; *)
(* and JIG_CONFIG_DIR beats -config-dir, unless it is blank (example.env   *)
(* says that the flag takes precedence).  The timeout is what              *)
(* JIG_TOOL_TIMEOUT says; what it is used for is said in ToolCall.         *)
(* Clients of /sse are known by the tokens of the variable that takes      *)
(* precedence, a bearer token before one in the query.  Nothing of the     *)
(* kind holds for the callers of tools: theirs is the name "unknown",      *)
(* whatever token they send, and the README's "token name for SSE" is not  *)
(* what the audit log says.                                                *)
(***************************************************************************)
ServedAsLaunched ==
  LET usable(k) == IF Accepted(Said(k)) THEN Said(k) ELSE "unset"
      flag == launch.flag
      dir == IF Said("JIG_CONFIG_DIR") \in {"unset", "blank"} THEN flag["config-dir"]
                                                            ELSE Said("JIG_CONFIG_DIR")
      detected == (IF launch.inBin THEN Places ELSE {"exeDir"}) \cap launch.toolsAt
  IN  listeners # {} =>
        /\ step = "serving"
        /\ "sse" \in listeners => SaidTransport = "a"
        /\ "stdio" \in listeners => SaidTransport # "a"
        /\ setting["port"] = IF Said("JIG_SSE_PORT") = "unset" THEN flag["port"]
                             ELSE usable("JIG_SSE_PORT")
        /\ setting["timeout"] = usable("JIG_TOOL_TIMEOUT")
        /\ setting["maxTools"] = usable("JIG_MAX_CONCURRENT_TOOLS")
        /\ IF Explicit(dir) \/ detected = {} THEN setting["configDir"] = dir
           ELSE /\ setting["configDir"] \in detected
                /\ "installRoot" \in detected => setting["configDir"] = "installRoot"
        /\ \A token, other \in {"t1", "t2"} \cup Texts :
             /\ Caller("/sse", token, other) = NameOf(token)
             /\ Caller("/sse", "", token) = NameOf(token)

(***************************************************************************)
(* config.go: "so a misbehaving script doesn't block startup".  Though     *)
(* every script hangs, the server comes to serve the transport it was      *)
(* asked for, or gives up for one of three reasons: a -port that is no     *)
(* number, settings of the audit log that cannot be used, or, once the     *)
(* tools are loaded, a port for SSE that cannot be bound.                  *)
(***************************************************************************)
StartupEnds ==
  <>(\/ boot = "up" /\ Served
     \/ /\ boot = "failed"
        /\ \/ ~PortParses
           \/ ~launch.logDir \/ Said("JIG_LOG") \in {"blank", "bad"}
           \/ step = "serving" /\ SaidTransport = "a")

=============================================================================
