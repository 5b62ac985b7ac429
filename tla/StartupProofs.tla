---------------------------- MODULE StartupProofs ----------------------------
(***************************************************************************)
(* Theorems about the start of the program, first-time setup and the       *)
(* requests it makes, for any answers, names, provider files, servers and  *)
(* skills, and for any number of starts.                                   *)
(*                                                                         *)
(* The files of an attempt (FilesInv, AttemptInv) and the phases of a      *)
(* start (PhaseInv) carry the others: what the engine is wired with        *)
(* (WiringInv), what the flag says (FlagInv), where a request may go       *)
(* (RouteInv). The settings' copies (ConfigInv) and the tools (ToolsInv)   *)
(* stand for themselves.                                                   *)
(***************************************************************************)
EXTENDS Startup, FiniteSetTheorems, SequenceTheorems, TLAPS

Loads == {"migrate", "rewrite", "read"}

\* The phases of one start: setup has not been done while it is asked for or its files are
\* checked, and it has been done when the configuration is loaded again.
PhaseInv ==
    /\ pc \in {"setup", "asking", "keys", "commit"} \/ loading = "validate" => ~ marker
    /\ loading = "reload" => marker
    /\ pc \in {"off", "schema", "setup", "asking", "keys"} => loading = "start"
    /\ pc = "commit" => loading = "validate"
    /\ pc \in {"wire", "engine"} => loading \in {"start", "reload"}
    /\ loading \in {"start", "validate", "reload"}
    /\ marker \in BOOLEAN
    /\ call # None => pc \in {"asking", "running"}

\* A chain is on disk only after the files of all its providers.
ChainOnDisk ==
    LET base == files["base.yaml"]
    IN  base # NoFile => \A i \in DOMAIN base.providers : files[base.providers[i].name] # NoFile

FilesInv ==
    /\ DOMAIN files = Paths
    /\ \A n \in Names : files[n] \in ProviderFiles \cup {NoFile}
    /\ \A p \in OtherPaths : files[p] \in Summaries \cup {NoFile}
    /\ ChainOnDisk

\* The first k files of summary s are as s has them.
WrittenUpTo(s, k) == \A j \in 1..k : files[WriteSteps(s)[j]] = FileContent(s, WriteSteps(s)[j])

\* The files of the attempt that is under way.
AttemptInv ==
    /\ DOMAIN boot = {"summary", "keys", "written"}
    /\ boot.summary # None <=> \/ pc \in {"keys", "commit"}
                               \/ pc \in Loads /\ loading = "validate"
    /\ boot.summary # None =>
         /\ boot.summary \in Summaries
         /\ boot.written \in 0..Len(WriteSteps(boot.summary))
         /\ pc # "keys" => boot.written = Len(WriteSteps(boot.summary))
         /\ WrittenUpTo(boot.summary, boot.written)

\* What is wired comes from the files.
WiringInv ==
    /\ pc \in {"wire", "schema", "engine"} => cfg = Load(files, env)
    /\ pc \in {"schema", "engine"} => wired = InitSecurity(cfg, marker)
    /\ pc \in {"mcp", "running"} /\ marker =>
         /\ wired = InitSecurity(Load(files, env), TRUE)
         /\ engine.names = PromptNames(files, Load(files, env))

\* The gate's flag tells of the first provider of a chain that is not empty.
FlagInv ==
    wired # None =>
      /\ wired.chain \in Seq(Range(wired.chain))
      /\ wired.chain # <<>>
      /\ wired.isLocal <=> wired.chain[1].type = "ollama"

\* A request is sent to providers of the chain, and a private one in strict mode only
\* when the first of them is local.
RouteInv ==
    call # None =>
      /\ wired # None
      /\ DOMAIN call = {"at", "kind", "private", "entry", "tries", "cancelled", "reached", "outcome"}
      /\ call.entry \in DOMAIN wired.chain
      /\ call.reached \subseteq Range(wired.chain)
      /\ call.at = "gate" => call.reached = {}
      /\ call.private /\ Blocks => call.at \in {"gate", "done"} /\ call.reached = {}

\* Only the user's settings are at version 1, of which a backup exists before they are
\* rewritten, and the other backup is of no version.
ConfigInv ==
    /\ config \in Configs /\ backups \in [0..1 -> Configs]
    /\ config # NoFile /\ config.version = 1 => config.settings = "user"
    /\ backups[0] # NoFile => backups[0].version = 0
    /\ pc = "rewrite" =>
         config # NoFile /\ config.version \in 0..1 /\ backups[config.version] = config

\* Every engine has the tools of all skills, and of the servers that answered.
AllTools(e) ==
    e.tools = {<<"core", "">>} \cup {<<"skill", s>> : s \in Skills}
                \cup {<<"mcp", m>> : m \in e.connected}

Built == pc \in {"setup", "asking", "keys", "commit", "mcp", "running"} \/ loading = "validate"

ToolsInv ==
    /\ DOMAIN engine = {"tools", "loaded", "connecting", "connected", "names"}
    /\ Built => AllTools(engine)
-----------------------------------------------------------------------------
(***************************************************************************)
(* The phases of a start.                                                  *)
(***************************************************************************)
\* The steps that read or write the configuration, with their failures.
ConfigStep == MigrateConfig \/ RewriteConfig \/ ReadConfig \/ ReadFails

\* Where a step of reading the configuration leads.
LEMMA ConfigStepLeads ==
    ASSUME PhaseInv, ConfigStep
    PROVE  /\ pc \in Loads
           /\ UNCHANGED <<files, envFile, marker, schema, starts>>
           /\ \/ /\ pc' \in {"read", "rewrite"} \/ (pc' = "commit" /\ loading = "validate")
                 /\ UNCHANGED <<loading, env, cfg, boot, tx, engine, wired, call>>
              \/ /\ loading # "validate" /\ pc' = "wire" /\ cfg' = Load(files, env)
                 /\ UNCHANGED <<loading, env, boot, tx, engine, wired, call>>
              \/ /\ loading = "validate" /\ pc' = "mcp" /\ call' = None /\ boot' = NoBoot
                 /\ UNCHANGED <<loading, env, cfg, tx, engine, wired>>
              \/ Off
  <1> DEFINE Disk == UNCHANGED <<files, envFile, marker, schema, starts>>
             Fails ==
               \/ /\ loading = "validate" /\ pc' = "mcp" /\ call' = None /\ boot' = NoBoot
                  /\ UNCHANGED <<loading, env, cfg, tx, engine, wired>>
               \/ Off
             Moves ==
               /\ pc' \in {"read", "rewrite"} \/ (pc' = "commit" /\ loading = "validate")
               /\ UNCHANGED <<loading, env, cfg, boot, tx, engine, wired, call>>
             Loaded ==
               /\ loading # "validate" /\ pc' = "wire" /\ cfg' = Load(files, env)
               /\ UNCHANGED <<loading, env, boot, tx, engine, wired, call>>
  <1>1. ASSUME LoadFails, UNCHANGED schema
        PROVE  Disk /\ Fails
    <2>1. CASE loading = "validate"
      <3>1. BootstrapFails
        BY <1>1, <2>1 DEF LoadFails
      <3> QED
        BY <1>1, <2>1, <3>1 DEF BootstrapFails
    <2>2. CASE loading \in {"start", "reload"}
      <3>1. Fatal
        BY <1>1, <2>2 DEF LoadFails
      <3> QED
        BY <1>1, <3>1 DEF Fatal
    <2> QED
      BY <2>1, <2>2 DEF PhaseInv
  <1>2. CASE MigrateConfig
    <2>1. pc \in Loads
      BY <1>2 DEF MigrateConfig, Loads
    <2>2. \/ /\ Goto("read") \/ Goto("rewrite")
             /\ UNCHANGED <<files, envFile, marker, schema, starts,
                            loading, env, cfg, boot, tx, engine>>
          \/ LoadFails /\ UNCHANGED schema
      BY <1>2 DEF MigrateConfig, diskVars
    <2>3. CASE LoadFails /\ UNCHANGED schema
      <3>1. Disk /\ Fails
        BY <1>1, <2>3
      <3> QED
        BY <2>1, <3>1
    <2>4. CASE /\ Goto("read") \/ Goto("rewrite")
               /\ UNCHANGED <<files, envFile, marker, schema, starts,
                              loading, env, cfg, boot, tx, engine>>
      BY <2>1, <2>4 DEF Goto
    <2> QED
      BY <2>2, <2>3, <2>4
  <1>3. CASE RewriteConfig
    <2>1. pc \in Loads
      BY <1>3 DEF RewriteConfig, Loads
    <2>2. \/ /\ Goto("read")
             /\ UNCHANGED <<files, envFile, marker, schema, starts,
                            loading, env, cfg, boot, tx, engine>>
          \/ LoadFails /\ UNCHANGED schema
      BY <1>3 DEF RewriteConfig
    <2>3. CASE LoadFails /\ UNCHANGED schema
      <3>1. Disk /\ Fails
        BY <1>1, <2>3
      <3> QED
        BY <2>1, <3>1
    <2>4. CASE /\ Goto("read") \/ Goto("rewrite")
               /\ UNCHANGED <<files, envFile, marker, schema, starts,
                              loading, env, cfg, boot, tx, engine>>
      BY <2>1, <2>4 DEF Goto
    <2> QED
      BY <2>2, <2>3, <2>4
  <1>4. CASE ReadConfig
    <2>1. pc \in Loads
      BY <1>4 DEF ReadConfig, Loads
    <2>2. CASE loading = "validate"
      <3>1. \/ /\ Goto("commit")
               /\ UNCHANGED <<diskVars, loading, env, cfg, boot, tx, engine>>
            \/ BootstrapFails /\ UNCHANGED <<config, backups, schema>>
        BY <1>4, <2>2 DEF ReadConfig
      <3>2. CASE Goto("commit") /\ UNCHANGED <<diskVars, loading, env, cfg, boot, tx, engine>>
        BY <2>1, <2>2, <3>2 DEF Goto, diskVars
      <3>3. CASE BootstrapFails /\ UNCHANGED <<config, backups, schema>>
        BY <2>1, <2>2, <3>3 DEF BootstrapFails
      <3> QED
        BY <3>1, <3>2, <3>3
    <2>3. CASE loading # "validate"
      <3>1. /\ cfg' = Load(files, env) /\ Goto("wire")
            /\ UNCHANGED <<diskVars, loading, env, boot, tx, engine>>
        BY <1>4, <2>3 DEF ReadConfig
      <3> QED
        BY <2>1, <2>3, <3>1 DEF Goto, diskVars
    <2> QED
      BY <2>2, <2>3
  <1>5. CASE ReadFails
    <2>1. pc \in Loads /\ Disk /\ Fails
      BY <1>1, <1>5 DEF ReadFails, Loads
    <2> QED
      BY <2>1
  <1> QED
    BY <1>2, <1>3, <1>4, <1>5 DEF ConfigStep

\* The step by which a request moves on changes nothing else.
LEMMA RequestMoves ==
    ASSUME Route \/ Interrupt
    PROVE  call # None /\ UNCHANGED <<wired, diskVars, procVars>>
  BY DEF Route, RoutingStep, CheckMessages, AttemptUnsent, Attempt, Backoff, StreamEnds,
         Interrupt, Cancel

\* The steps that only serve a request or the database.
Quiet ==
    /\ UNCHANGED <<files, config, backups, envFile, marker, starts,
                   pc, loading, env, cfg, boot, engine, wired>>
    /\ call' = call \/ pc \in {"asking", "running"}

\* The program ends outside of the steps that write the configuration.
Ends == Off /\ UNCHANGED diskVars

\* Setup is given up outside of the check of its files.
GivesUp ==
    /\ BootstrapFails /\ UNCHANGED <<backups, schema>>
    /\ pc \in {"setup", "asking", "keys", "commit"}
    /\ config' = config \/ (config = NoFile /\ config' \in Damaged(Template))

\* The template of the configuration is in its place.
Prepares ==
    /\ pc = "setup" /\ pc' = "asking"
    /\ config' = config \/ (config = NoFile /\ config' = Template)
    /\ UNCHANGED <<files, backups, envFile, marker, schema, starts,
                   loading, env, cfg, boot, tx, engine, wired, call>>

\* The subsystems are wired.
Wired ==
    /\ pc = "wire" /\ BuildProvider(cfg) # <<>>
    /\ wired' = InitSecurity(cfg, marker)
    /\ pc' \in {"schema", "engine"} /\ (pc' = "schema" => loading = "start")
    /\ UNCHANGED <<diskVars, loading, env, cfg, boot, tx, engine, call>>

\* The database is at the version of the program.
SchemaDone ==
    /\ pc = "schema" /\ pc' = "engine"
    /\ UNCHANGED <<diskVars, loading, env, cfg, boot, tx, engine, wired, call>>

LEMMA StepKinds ==
    ASSUME PhaseInv, [Next]_vars
    PROVE  \/ ConfigStep \/ Wired \/ SchemaDone \/ InitEngine \/ Prepares
           \/ WriteResult \/ Commit \/ ConnectServer \/ Run \/ Start
           \/ ConfirmSummary \/ CollectKey
           \/ Ends \/ GivesUp \/ Quiet
  <1>1. CASE Wire
    BY <1>1 DEF Wire, Wired, Ends, Fatal, diskVars
  <1>2. CASE MigrateSchema \/ CommitMigration \/ SchemaFails
    BY <1>2 DEF MigrateSchema, CommitMigration, SchemaFails, SchemaDone, Goto, Ends, Fatal, Quiet,
                diskVars
  <1>3. CASE Infrastructure
    <2>1. CASE Goto("asking")
      BY <1>3, <2>1 DEF Infrastructure, Goto, Prepares, BootstrapFails
    <2>2. CASE ~ Goto("asking")
      BY <1>3, <2>2 DEF Infrastructure, GivesUp
    <2> QED
      BY <2>1, <2>2
  <1>4. CASE WriteFails \/ IdentityFails \/ KeysFail
    BY <1>4 DEF WriteFails, IdentityFails, KeysFail, GivesUp
  <1>5. CASE Route \/ Interrupt
    BY <1>5, RequestMoves DEF Quiet, diskVars, procVars, PhaseInv
  <1>6. CASE Stop \/ CancelSetup
    BY <1>6 DEF Stop, CancelSetup, Ends
  <1>7. CASE BootstrapSend \/ AnswerQuestion \/ Send \/ Answered
    BY <1>7 DEF BootstrapSend, AnswerQuestion, Send, Answered, Ask, Quiet, diskVars, procVars
  <1>8. CASE UNCHANGED vars
    BY <1>8 DEF vars, Quiet, diskVars, procVars
  <1> QED
    BY <1>1, <1>2, <1>3, <1>4, <1>5, <1>6, <1>7, <1>8
    DEF Next, ProgramStep, UserStep, ConfigStep

LEMMA PhaseStep ==
    ASSUME PhaseInv, [Next]_vars
    PROVE  PhaseInv'
  <1>1. CASE Off /\ marker' = marker
    BY <1>1 DEF PhaseInv, Off
  <1>2. CASE ConfigStep
    BY <1>1, <1>2, ConfigStepLeads DEF PhaseInv, Loads
  <1>3. CASE Ends
    BY <1>1, <1>3 DEF Ends, diskVars
  <1>4. CASE GivesUp
    BY <1>4 DEF GivesUp, BootstrapFails, PhaseInv
  <1>5. CASE Quiet
    BY <1>5 DEF Quiet, PhaseInv
  <1>6. CASE Wired \/ SchemaDone \/ Prepares
    BY <1>6 DEF Wired, SchemaDone, Prepares, PhaseInv, diskVars
  <1>7. CASE InitEngine
    <2>1. /\ UNCHANGED <<loading, marker, call>> /\ pc = "engine"
          /\ IF loading = "start" /\ ~ marker THEN pc' = "setup" ELSE pc' = "mcp"
      BY <1>7 DEF InitEngine, Goto, diskVars
    <2> QED
      BY <2>1 DEF PhaseInv
  <1>8. CASE WriteResult
    <2>1. /\ pc = "keys" /\ UNCHANGED <<marker, call>>
          /\ \/ UNCHANGED <<pc, loading>>
             \/ pc' = "migrate" /\ loading' = "validate"
      BY <1>8 DEF WriteResult
    <2> QED
      BY <2>1 DEF PhaseInv
  <1>9. CASE Commit
    BY <1>9 DEF Commit, PhaseInv
  <1>10. CASE ConnectServer \/ Run
    <2>1. /\ pc = "mcp" /\ pc' \in {"mcp", "running"} /\ UNCHANGED <<loading, marker, call>>
      BY <1>10 DEF ConnectServer, Run, Goto, diskVars
    <2> QED
      BY <2>1 DEF PhaseInv
  <1>11. CASE Start
    BY <1>11 DEF Start, PhaseInv
  <1>12. CASE ConfirmSummary \/ CollectKey
    <2>1. /\ UNCHANGED <<loading, marker>> /\ call' \in {call, None}
          /\ \/ pc = "asking" /\ pc' = "keys" /\ call' = None
             \/ pc = "keys" /\ pc' = "keys"
      BY <1>12 DEF ConfirmSummary, CollectKey, diskVars
    <2> QED
      BY <2>1 DEF PhaseInv
  <1> QED
    BY <1>2, <1>3, <1>4, <1>5, <1>6, <1>7, <1>8, <1>9, <1>10, <1>11, <1>12, StepKinds

\* main and RunBootstrap: setup is under way only before the marker is there, and the
\* configuration is loaded again only after it.
THEOREM PhaseInvariant == Spec => []PhaseInv
  <1>1. Init => PhaseInv
    BY DEF Init, PhaseInv
  <1> QED
    BY <1>1, PhaseStep, PTL DEF Spec
-----------------------------------------------------------------------------
(***************************************************************************)
(* The tools.                                                              *)
(***************************************************************************)
LEMMA ToolsStep ==
    ASSUME PhaseInv, ToolsInv, [Next]_vars
    PROVE  ToolsInv'
  <1>1. ASSUME UNCHANGED engine, Built' => Built
        PROVE  ToolsInv'
    BY <1>1 DEF ToolsInv, AllTools
  <1>2. CASE Off
    BY <1>2 DEF ToolsInv, Off, NoEngine, Built
  <1>3. CASE ConfigStep
    <2>1. \/ /\ UNCHANGED <<loading, engine>>
             /\ loading = "validate" \/ pc' \in {"read", "rewrite", "wire"}
          \/ Off
      BY <1>3, ConfigStepLeads
    <2> QED
      BY <1>1, <1>2, <2>1 DEF Built
  <1>4. CASE InitEngine
    BY <1>4 DEF InitEngine, SkillTools, AllTools, ToolsInv
  <1>5. CASE ConnectServer
    <2>1. AllTools(engine)
      BY <1>5 DEF ConnectServer, ToolsInv, Built
    <2>2. PICK server \in engine.connecting, ok \in BOOLEAN :
            engine' = [engine EXCEPT
                         !.connecting = @ \ {server},
                         !.connected = IF ok THEN @ \cup {server} ELSE @,
                         !.tools = IF ok THEN @ \cup {<<"mcp", server>>} ELSE @]
      BY <1>5 DEF ConnectServer
    <2>3. /\ DOMAIN engine' = DOMAIN engine
          /\ engine'.connected = IF ok THEN engine.connected \cup {server} ELSE engine.connected
          /\ engine'.tools = IF ok THEN engine.tools \cup {<<"mcp", server>>} ELSE engine.tools
      BY <2>2 DEF ToolsInv
    <2>4. CASE ok
      <3>1. /\ engine'.connected = engine.connected \cup {server}
            /\ engine'.tools = engine.tools \cup {<<"mcp", server>>}
        BY <2>3, <2>4
      <3>2. {<<"mcp", m>> : m \in engine'.connected}
              = {<<"mcp", m>> : m \in engine.connected} \cup {<<"mcp", server>>}
        BY <3>1
      <3>3. AllTools(engine')
        BY <2>1, <3>1, <3>2 DEF AllTools
      <3> QED
        BY <2>3, <3>3 DEF ToolsInv
    <2>5. CASE ~ ok
      <3>1. engine'.connected = engine.connected /\ engine'.tools = engine.tools
        BY <2>3, <2>5
      <3> QED
        BY <2>1, <2>3, <3>1 DEF AllTools, ToolsInv
    <2> QED
      BY <2>4, <2>5
  <1>6. CASE GivesUp
    BY <1>1, <1>6 DEF GivesUp, BootstrapFails, Built
  <1>7. CASE Quiet
    BY <1>1, <1>7 DEF Quiet, Built
  <1>8. CASE Ends
    BY <1>2, <1>8 DEF Ends
  <1>9. CASE Wired \/ SchemaDone \/ Prepares
    BY <1>1, <1>9 DEF Wired, SchemaDone, Prepares, Built, PhaseInv
  <1>10. CASE WriteResult \/ Commit
    <2>1. pc \in {"keys", "commit"} /\ UNCHANGED engine
      BY <1>10 DEF WriteResult, Commit
    <2> QED
      BY <1>1, <2>1 DEF Built
  <1>11. CASE Run \/ Start
    <2>1. UNCHANGED <<engine>> /\ (pc = "mcp" \/ (pc' = "migrate" /\ loading' = "start"))
      BY <1>11 DEF Run, Start
    <2> QED
      BY <1>1, <2>1 DEF Built
  <1>12. CASE ConfirmSummary \/ CollectKey
    <2>1. pc \in {"asking", "keys"} /\ UNCHANGED engine
      BY <1>12 DEF ConfirmSummary, CollectKey
    <2> QED
      BY <1>1, <2>1 DEF Built
  <1> QED
    BY <1>3, <1>4, <1>5, <1>6, <1>7, <1>8, <1>9, <1>10, <1>11, <1>12, StepKinds

\* InitEngine and InitMCP: whichever way the program came up, the tools that are offered to
\* the model are those of the core, of every skill and of every server that answered.
THEOREM ToolsAreComplete == Spec => []ToolsComplete
  <1>1. Init => ToolsInv
    BY DEF Init, ToolsInv, NoEngine, Built
  <1>2. ToolsInv => ToolsComplete
    BY DEF ToolsInv, ToolsComplete, AllTools, Built
  <1> QED
    BY <1>1, <1>2, ToolsStep, PhaseInvariant, PTL DEF Spec
-----------------------------------------------------------------------------
(***************************************************************************)
(* The user's settings.                                                    *)
(***************************************************************************)
\* A copy of the user's settings that carries a version.
IsCopy(c) == c # NoFile /\ c.settings = "user" /\ c.version > 0

LEMMA ConfigTypes ==
    /\ \A c \in Configs : c # NoFile => c.version \in Versions
    /\ Template \in Configs /\ Template # NoFile /\ Template.version = 0 /\ ~ IsCopy(Template)
    /\ \A whole : whole.version \in Versions =>
         \A c \in Damaged(whole) :
           c \in Configs /\ c # NoFile /\ c.version \in {0, whole.version} /\ ~ IsCopy(c)
  <1>1. \A v \in Versions, s \in Settings :
          /\ Config(v, s) \in Configs /\ Config(v, s) # NoFile
          /\ Config(v, s).version = v /\ Config(v, s).settings = s
    BY SentinelAssumption DEF Config, Configs
  <1>2. 0 \in Versions /\ {"user", "template", "part", "torn"} = Settings
    BY DEF Versions, Settings
  <1>3. \A c \in Configs : c # NoFile => c.version \in Versions
    BY DEF Configs
  <1>4. Template \in Configs /\ Template # NoFile /\ Template.version = 0 /\ ~ IsCopy(Template)
    BY <1>1, <1>2 DEF Template, IsCopy
  <1>5. ASSUME NEW whole, whole.version \in Versions, NEW c \in Damaged(whole)
        PROVE  c \in Configs /\ c # NoFile /\ c.version \in {0, whole.version} /\ ~ IsCopy(c)
    <2>1. \/ c = Config(0, "torn")
          \/ \E v \in {0, whole.version} : c = Config(v, "part")
      BY <1>5 DEF Damaged, Torn
    <2> QED
      BY <1>1, <1>2, <1>5, <2>1 DEF IsCopy
  <1> QED
    BY <1>3, <1>4, <1>5

LEMMA KeptByCopies ==
    /\ ConfigInv => (SettingsKept <=> IsCopy(config) \/ IsCopy(backups[1]))
    /\ ConfigInv' => (SettingsKept' <=> IsCopy(config') \/ IsCopy(backups'[1]))
  <1>1. ASSUME ConfigInv
        PROVE  SettingsKept <=> IsCopy(config) \/ IsCopy(backups[1])
    <2>1. ~ IsCopy(backups[0])
      BY <1>1 DEF ConfigInv, IsCopy
    <2> QED
      BY <2>1 DEF SettingsKept, IsCopy
  <1>2. ASSUME ConfigInv'
        PROVE  SettingsKept' <=> IsCopy(config') \/ IsCopy(backups'[1])
    <2>1. ~ IsCopy(backups'[0])
      BY <1>2 DEF ConfigInv, IsCopy
    <2> QED
      BY <2>1 DEF SettingsKept, IsCopy
  <1> QED
    BY <1>1, <1>2

\* Whatever leaves the configuration and its backups alone.
LEMMA ConfigFrame ==
    ASSUME ConfigInv, UNCHANGED <<config, backups>>, pc' # "rewrite"
    PROVE  ConfigInv' /\ (SettingsKept => SettingsKept')
  BY DEF ConfigInv, SettingsKept

\* A configuration that was not there.
LEMMA ConfigAppears ==
    ASSUME ConfigInv, UNCHANGED backups, pc' # "rewrite", config = NoFile,
           config' \in Damaged(Template) \cup {Template}
    PROVE  ConfigInv' /\ (SettingsKept => SettingsKept')
  <1>1. config' \in Configs /\ config'.version = 0
    BY ConfigTypes
  <1>2. ConfigInv'
    BY <1>1 DEF ConfigInv
  <1> QED
    BY <1>2 DEF SettingsKept

LEMMA ConfigMigrates ==
    ASSUME PhaseInv, ConfigInv, MigrateConfig
    PROVE  ConfigInv' /\ (SettingsKept => SettingsKept')
  <1>1. LoadFails => pc' # "rewrite"
    BY DEF LoadFails, Fatal, Off, BootstrapFails, PhaseInv
  <1>2. CASE UNCHANGED <<config, backups>> /\ pc' # "rewrite"
    BY <1>2, ConfigFrame
  <1>3. CASE /\ config \notin {NoFile, Torn} /\ config.version < 2
             /\ UNCHANGED config
             /\ \/ backups' = [backups EXCEPT ![BackupSlot] = config]
                \/ /\ \E bad \in Damaged(config) : backups' = [backups EXCEPT ![BackupSlot] = bad]
                   /\ pc' # "rewrite"
    <2>1. config # NoFile /\ config \in Configs /\ config.version \in 0..1
      BY <1>3, ConfigTypes DEF ConfigInv, Versions
    <2>2. PICK copy \in Damaged(config) \cup {config} :
            /\ backups' = [backups EXCEPT ![config.version] = copy]
            /\ copy = config \/ pc' # "rewrite"
      BY <1>3 DEF BackupSlot
    <2>3. copy \in Configs /\ copy.version \in {0, config.version}
      <3>1. config.version \in Versions
        BY <2>1 DEF Versions
      <3> QED
        BY <2>1, <2>2, <3>1, ConfigTypes
    <2>4. /\ backups' \in [0..1 -> Configs] /\ backups'[config.version] = copy
          /\ \A v \in 0..1 : v # config.version => backups'[v] = backups[v]
      BY <2>1, <2>2, <2>3 DEF ConfigInv
    <2>5. backups'[0] # NoFile => backups'[0].version = 0
      BY <2>1, <2>3, <2>4 DEF ConfigInv
    <2>6. ConfigInv'
      BY <1>3, <2>1, <2>2, <2>4, <2>5 DEF ConfigInv
    <2>7. IsCopy(config) \/ IsCopy(backups[1]) => IsCopy(config) \/ IsCopy(backups'[1])
      <3>1. CASE config.version = 1
        BY <2>1, <3>1 DEF ConfigInv, IsCopy
      <3>2. CASE config.version = 0
        BY <2>1, <2>4, <3>2
      <3> QED
        BY <2>1, <3>1, <3>2
    <2> QED
      BY <1>3, <2>6, <2>7, KeptByCopies
  <1> QED
    BY <1>1, <1>2, <1>3 DEF MigrateConfig, Goto, diskVars

LEMMA ConfigRewrites ==
    ASSUME PhaseInv, ConfigInv, RewriteConfig
    PROVE  ConfigInv' /\ (SettingsKept => SettingsKept')
  <1>1. /\ config # NoFile /\ config \in Configs /\ config.version \in 0..1
        /\ backups[config.version] = config
    BY DEF ConfigInv, RewriteConfig
  <1>2. pc' # "rewrite" /\ UNCHANGED backups
    BY DEF RewriteConfig, Goto, LoadFails, Fatal, Off, BootstrapFails, PhaseInv
  <1>3. /\ Migrated \in Configs /\ Migrated # NoFile /\ Migrated.version = 2
        /\ Migrated.settings = config.settings
    BY <1>1, SentinelAssumption DEF Migrated, Configs, Versions, Config
  <1>4. CASE config' = Migrated
    <2>1. /\ config' \in Configs /\ config' # NoFile /\ config'.version = 2
          /\ config'.settings = config.settings
      BY <1>1, <1>3, <1>4
    <2>2. ConfigInv'
      BY <1>2, <2>1 DEF ConfigInv
    <2> QED
      BY <1>2, <2>1, <2>2, KeptByCopies DEF IsCopy
  <1>5. CASE config' \in Damaged(Migrated)
    <2>1. config' \in Configs /\ config'.version \in {0, 2}
      <3>1. Migrated.version \in Versions
        BY <1>3 DEF Versions
      <3> QED
        BY <1>3, <1>5, <3>1, ConfigTypes
    <2>2. ConfigInv'
      BY <1>2, <2>1 DEF ConfigInv
    <2>3. IsCopy(config) => IsCopy(backups[1])
      BY <1>1 DEF IsCopy
    <2> QED
      BY <1>2, <2>2, <2>3, KeptByCopies
  <1> QED
    BY <1>4, <1>5 DEF RewriteConfig

LEMMA ConfigKept ==
    ASSUME PhaseInv, ConfigInv, [Next]_vars
    PROVE  ConfigInv' /\ (SettingsKept => SettingsKept')
  <1>1. CASE UNCHANGED <<config, backups>> /\ pc' # "rewrite"
    BY <1>1, ConfigFrame
  <1>2. CASE ConfigStep
    <2>1. CASE ReadConfig \/ ReadFails
      <3>1. UNCHANGED <<config, backups>> /\ pc' # "rewrite"
        BY <2>1 DEF ReadConfig, ReadFails, LoadFails, Fatal, Off, BootstrapFails, Goto, PhaseInv,
                    diskVars
      <3> QED
        BY <1>1, <3>1
    <2> QED
      BY <1>2, <2>1, ConfigMigrates, ConfigRewrites DEF ConfigStep
  <1>3. CASE GivesUp \/ Prepares
    <2>1. /\ UNCHANGED backups /\ pc' # "rewrite"
          /\ \/ UNCHANGED config
             \/ config = NoFile /\ config' \in Damaged(Template) \cup {Template}
      BY <1>3 DEF GivesUp, Prepares, BootstrapFails
    <2> QED
      BY <1>1, <2>1, ConfigAppears
  <1>4. CASE Quiet
    <2>1. UNCHANGED <<config, backups, pc>>
      BY <1>4 DEF Quiet
    <2> QED
      BY <2>1 DEF ConfigInv, SettingsKept
  <1>5. CASE Wired \/ SchemaDone \/ Ends \/ Run \/ Start \/ Commit
    <2>1. UNCHANGED <<config, backups>> /\ pc' # "rewrite"
      BY <1>5 DEF Wired, SchemaDone, Ends, Off, Run, Start, Commit, Goto, diskVars
    <2> QED
      BY <1>1, <2>1
  <1>6. CASE InitEngine \/ ConnectServer
    <2>1. UNCHANGED <<config, backups>> /\ (pc' \in {"setup", "mcp"} \/ (pc = "mcp" /\ pc' = pc))
      BY <1>6 DEF InitEngine, ConnectServer, Goto, diskVars
    <2> QED
      BY <1>1, <2>1
  <1>7. CASE WriteResult \/ ConfirmSummary \/ CollectKey
    <2>1. /\ UNCHANGED <<config, backups>>
          /\ pc' \in {"keys", "migrate"}
      BY <1>7 DEF WriteResult, ConfirmSummary, CollectKey, diskVars
    <2> QED
      BY <1>1, <2>1
  <1> QED
    BY <1>2, <1>3, <1>4, <1>5, <1>6, <1>7, StepKinds

\* migrateConfig: the configuration is rewritten only after its backup, under the name of
\* its version, is whole.
THEOREM ConfigInvariant == Spec => []ConfigInv
  <1>1. Init => ConfigInv
    <2>1. ASSUME Init PROVE config \in FirstConfigs /\ backups = [v \in 0..1 |-> NoFile]
                            /\ pc = "off"
      BY <2>1 DEF Init
    <2>2. \A c \in FirstConfigs : c \in Configs /\ (c # NoFile => c.settings = "user")
      BY FirstAssumption DEF Configs, Config, Settings
    <2>3. NoFile \in Configs
      BY DEF Configs
    <2> QED
      BY <2>1, <2>2, <2>3 DEF ConfigInv
  <1> QED
    BY <1>1, ConfigKept, PhaseInvariant, PTL DEF Spec

\* migrateConfig: through migrations, killed writes and later starts that find damage,
\* config.yaml or a backup has the user's settings once they carry a version.
THEOREM SettingsAreKept == Spec => KeepsSettings
  <1>1. PhaseInv /\ ConfigInv /\ [Next]_vars => [SettingsKept => SettingsKept']_vars
    BY ConfigKept
  <1> QED
    BY <1>1, PhaseInvariant, ConfigInvariant, PTL DEF Spec, KeepsSettings
-----------------------------------------------------------------------------
(***************************************************************************)
(* The answers and what is made of them.                                   *)
(***************************************************************************)
SummaryProvider == [name : Names, type : ProviderTypes, host : STRING, key : KeyVars \cup {""}]

LEMMA DefaultsFill ==
    ASSUME NEW p \in [name : Names \cup {""}, type : ProviderTypes \cup {""}, host : STRING,
                      key : KeyVars \cup {""}]
    PROVE  ProviderDefaults(p) \in SummaryProvider
  <1> DEFINE type == Or(p.type, "openai_compatible")
             host == Or(p.host, IF type = "ollama" THEN "localhost" ELSE "api.openai.com")
             key == Or(p.key, IF type = "openai" THEN "OPENAI_API_KEY" ELSE "")
  <1>1. Or(p.name, "default") \in Names
    BY AnswersAssumption DEF Or
  <1>2. type \in ProviderTypes
    BY DEF Or, ProviderTypes
  <1>3. host \in STRING
    <2>1. p.host \in STRING /\ "localhost" \in STRING /\ "api.openai.com" \in STRING
      BY HostsAreStrings
    <2> QED
      BY <2>1 DEF Or
  <1>4. key \in KeyVars \cup {""}
    BY AnswersAssumption DEF Or
  <1> HIDE DEF type, host, key
  <1>5. [name |-> Or(p.name, "default"), type |-> type, host |-> host, key |-> key]
          \in SummaryProvider
    BY <1>1, <1>2, <1>3, <1>4 DEF SummaryProvider
  <1> QED
    BY <1>5 DEF ProviderDefaults, type, host, key

LEMMA SummaryFacts ==
    ASSUME NEW s \in Summaries
    PROVE  /\ s.providers \in Seq(SummaryProvider)
           /\ s.providers # <<>>
           /\ s.mode \in Modes
  <1>1. PICK a \in Answers : s = ApplyDefaults(a)
    BY DEF Summaries
  <1>2. /\ a \in Answer
        /\ a.providers \in Seq([name : Names \cup {""}, type : ProviderTypes \cup {""},
                                 host : STRING, key : KeyVars \cup {""}])
        /\ a.provider \in [name : Names \cup {""}, type : ProviderTypes \cup {""},
                            host : STRING, key : KeyVars \cup {""}]
        /\ a.mode \in Modes \cup {""}
    BY AnswersAssumption DEF Answer
  <1> DEFINE single == [a.provider EXCEPT !.name = "default"]
             filled == IF a.providers = <<>>
                         THEN <<ProviderDefaults(single)>>
                         ELSE [i \in DOMAIN a.providers |-> ProviderDefaults(a.providers[i])]
  <1>3. s.providers = filled /\ s.mode = Or(a.mode, "disabled")
    BY <1>1, <1>2 DEF ApplyDefaults, Answer
  <1>4. filled \in Seq(SummaryProvider) /\ filled # <<>>
    <2>1. CASE a.providers = <<>>
      <3>1. single \in [name : Names \cup {""}, type : ProviderTypes \cup {""}, host : STRING,
                        key : KeyVars \cup {""}]
        BY <1>2, AnswersAssumption
      <3>2. ProviderDefaults(single) \in SummaryProvider
        BY <3>1, DefaultsFill
      <3> QED
        BY <2>1, <3>2
    <2>2. CASE a.providers # <<>>
      <3>1. /\ Len(a.providers) \in Nat /\ DOMAIN a.providers = 1..Len(a.providers)
            /\ Len(a.providers) # 0
        BY <1>2, <2>2, LenProperties, EmptySeq
      <3>2. \A i \in 1..Len(a.providers) : ProviderDefaults(a.providers[i]) \in SummaryProvider
        BY <1>2, <3>1, ElementOfSeq, DefaultsFill
      <3>3. filled = [i \in 1..Len(a.providers) |-> ProviderDefaults(a.providers[i])]
        BY <2>2, <3>1
      <3> HIDE DEF filled
      <3>4. filled \in Seq(SummaryProvider) /\ Len(filled) = Len(a.providers)
        BY <3>1, <3>2, <3>3
      <3> QED
        BY <3>1, <3>4
    <2> QED
      BY <2>1, <2>2
  <1>5. Or(a.mode, "disabled") \in Modes
    BY <1>2 DEF Or, Modes
  <1> QED
    BY <1>3, <1>4, <1>5

\* The chain of a summary, by its places.
LEMMA ChainFacts ==
    ASSUME NEW s \in Summaries
    PROVE  /\ Len(s.providers) \in Nat \ {0}
           /\ DOMAIN s.providers = 1..Len(s.providers)
           /\ ChainOf(s) \in Seq(Names) /\ Len(ChainOf(s)) = Len(s.providers)
           /\ \A i \in 1..Len(s.providers) :
                 s.providers[i] \in SummaryProvider /\ ChainOf(s)[i] = s.providers[i].name
  <1>1. /\ Len(s.providers) \in Nat /\ DOMAIN s.providers = 1..Len(s.providers)
        /\ Len(s.providers) # 0
    BY SummaryFacts, LenProperties, EmptySeq
  <1>2. \A i \in 1..Len(s.providers) : s.providers[i] \in SummaryProvider
    BY <1>1, SummaryFacts, ElementOfSeq
  <1>3. \A i \in 1..Len(s.providers) : s.providers[i].name \in Names
    BY <1>2 DEF SummaryProvider
  <1>4. ChainOf(s) = [i \in 1..Len(s.providers) |-> s.providers[i].name]
    BY <1>1 DEF ChainOf
  <1>5. ChainOf(s) \in Seq(Names) /\ Len(ChainOf(s)) = Len(s.providers)
    BY <1>1, <1>3, <1>4
  <1> QED
    BY <1>1, <1>2, <1>4, <1>5

\* The files of a summary, by their places in the order of the writes.
LEMMA WriteStepsFacts ==
    ASSUME NEW s \in Summaries, NEW n, n = Len(s.providers)
    PROVE  /\ n \in Nat \ {0} /\ Len(WriteSteps(s)) = n + 6
           /\ WriteSteps(s)[1] = "user.md" /\ WriteSteps(s)[2] = "identity.yaml"
           /\ \A i \in 1..n : WriteSteps(s)[i + 2] = s.providers[i].name
           /\ WriteSteps(s)[n + 3] = "base.yaml" /\ WriteSteps(s)[n + 4] = "rest.yaml"
           /\ WriteSteps(s)[n + 5] = "telegram.yaml" /\ WriteSteps(s)[n + 6] = "network.yaml"
  <1> DEFINE front == <<"user.md", "identity.yaml">>
             chain == ChainOf(s)
             back == <<"base.yaml", "rest.yaml", "telegram.yaml", "network.yaml">>
             both == front \o chain
  <1>1. /\ n \in Nat \ {0} /\ chain \in Seq(Paths) /\ Len(chain) = n
        /\ \A i \in 1..n : chain[i] = s.providers[i].name
    BY ChainFacts DEF Paths
  <1>2. /\ front \in Seq(Paths) /\ back \in Seq(Paths)
        /\ Len(front) = 2 /\ Len(back) = 4
        /\ front[1] = "user.md" /\ front[2] = "identity.yaml"
        /\ back[1] = "base.yaml" /\ back[2] = "rest.yaml" /\ back[3] = "telegram.yaml"
        /\ back[4] = "network.yaml"
    BY DEF Paths, OtherPaths
  <1>3. WriteSteps(s) = both \o back
    BY DEF WriteSteps
  <1> DEFINE all == both \o back
  <1> HIDE DEF front, chain, back
  <1>4. /\ both \in Seq(Paths) /\ Len(both) = Len(front) + Len(chain)
        /\ \A i \in 1..Len(front) + Len(chain) :
              both[i] = IF i <= Len(front) THEN front[i] ELSE chain[i - Len(front)]
    BY <1>1, <1>2, ConcatProperties
  <1> HIDE DEF both
  <1>5. /\ Len(all) = Len(both) + Len(back)
        /\ \A i \in 1..Len(both) + Len(back) :
              all[i] = IF i <= Len(both) THEN both[i] ELSE back[i - Len(both)]
    <2>1. both \in Seq(Paths) /\ back \in Seq(Paths)
      BY <1>2, <1>4
    <2> QED
      BY <2>1, ConcatProperties
  <1> HIDE DEF all
  <1>6. /\ Len(both) = n + 2 /\ Len(all) = n + 6
        /\ \A i \in 1..(n + 2) : both[i] = IF i <= 2 THEN front[i] ELSE chain[i - 2]
        /\ \A i \in 1..(n + 6) : all[i] = IF i <= n + 2 THEN both[i] ELSE back[i - (n + 2)]
    <2>1. Len(front) = 2 /\ Len(chain) = n /\ Len(back) = 4 /\ n \in Nat
      BY <1>1, <1>2
    <2>2. Len(both) = n + 2
      BY <1>4, <2>1
    <2>3. Len(all) = n + 6
      BY <1>5, <2>1, <2>2
    <2>4. Len(front) + Len(chain) = n + 2 /\ Len(both) + Len(back) = n + 6
      BY <2>1, <2>2
    <2> QED
      BY <1>4, <1>5, <2>1, <2>2, <2>3, <2>4
  <1>7. all[1] = front[1] /\ all[2] = front[2]
    BY <1>1, <1>6
  <1>8. ASSUME NEW i \in 1..n
        PROVE  all[i + 2] = chain[i]
    BY <1>1, <1>6
  <1>9. /\ all[n + 3] = back[1] /\ all[n + 4] = back[2]
        /\ all[n + 5] = back[3] /\ all[n + 6] = back[4]
    <2>1. /\ n + 3 \in 1..(n + 6) /\ ~ (n + 3 <= n + 2) /\ (n + 3) - (n + 2) = 1
          /\ n + 4 \in 1..(n + 6) /\ ~ (n + 4 <= n + 2) /\ (n + 4) - (n + 2) = 2
          /\ n + 5 \in 1..(n + 6) /\ ~ (n + 5 <= n + 2) /\ (n + 5) - (n + 2) = 3
          /\ n + 6 \in 1..(n + 6) /\ ~ (n + 6 <= n + 2) /\ (n + 6) - (n + 2) = 4
      BY <1>1
    <2> QED
      BY <1>6, <2>1
  <1>10. WriteSteps(s) = all
    BY <1>3 DEF all
  <1> QED
    BY <1>1, <1>2, <1>6, <1>7, <1>8, <1>9, <1>10

LEMMA ProviderFileTyped ==
    ASSUME NEW s \in Summaries, NEW i \in 1..Len(s.providers)
    PROVE  /\ s.providers[i].name \in Names
           /\ FileContent(s, s.providers[i].name) \in ProviderFiles
  <1> DEFINE n == s.providers[i].name
             j == CHOOSE k \in DOMAIN s.providers : s.providers[k].name = n
             p == s.providers[j]
             type == IF p.type = "openai" THEN "openai_compatible" ELSE p.type
  <1>1. DOMAIN s.providers = 1..Len(s.providers)
    BY ChainFacts
  <1>2. j \in 1..Len(s.providers)
    BY <1>1
  <1>3. n \in Names /\ p \in SummaryProvider
    BY <1>2, ChainFacts DEF SummaryProvider
  <1>4. FileContent(s, n) = [type |-> type, host |-> p.host, key |-> p.key]
    BY <1>3 DEF FileContent, ProviderFile
  <1> HIDE DEF p
  <1>5. type \in {"openai_compatible", "ollama"} /\ p.host \in STRING /\ p.key \in KeyVars \cup {""}
    BY <1>3 DEF SummaryProvider, ProviderTypes
  <1> HIDE DEF type
  <1>6. [type |-> type, host |-> p.host, key |-> p.key] \in ProviderFiles
    BY <1>5 DEF ProviderFiles
  <1> QED
    BY <1>3, <1>4, <1>6

LEMMA StepContent ==
    ASSUME NEW s \in Summaries, NEW k \in 1..Len(WriteSteps(s))
    PROVE  \/ /\ WriteSteps(s)[k] \in OtherPaths
              /\ FileContent(s, WriteSteps(s)[k]) = s
           \/ \E i \in 1..Len(s.providers) :
                /\ k = i + 2 /\ WriteSteps(s)[k] = s.providers[i].name
                /\ WriteSteps(s)[k] \in Names
                /\ FileContent(s, WriteSteps(s)[k]) \in ProviderFiles
  <1> DEFINE n == Len(s.providers)
  <1>1. /\ n \in Nat \ {0} /\ k \in 1..(n + 6)
        /\ WriteSteps(s)[1] \in OtherPaths /\ WriteSteps(s)[2] \in OtherPaths
        /\ WriteSteps(s)[n + 3] \in OtherPaths /\ WriteSteps(s)[n + 4] \in OtherPaths
        /\ WriteSteps(s)[n + 5] \in OtherPaths /\ WriteSteps(s)[n + 6] \in OtherPaths
    <2>1. /\ n \in Nat \ {0} /\ Len(WriteSteps(s)) = n + 6
      BY WriteStepsFacts
    <2>2. /\ WriteSteps(s)[1] = "user.md" /\ WriteSteps(s)[2] = "identity.yaml"
          /\ WriteSteps(s)[n + 3] = "base.yaml" /\ WriteSteps(s)[n + 4] = "rest.yaml"
          /\ WriteSteps(s)[n + 5] = "telegram.yaml" /\ WriteSteps(s)[n + 6] = "network.yaml"
      BY WriteStepsFacts
    <2>3. {"user.md", "identity.yaml", "base.yaml", "rest.yaml", "telegram.yaml", "network.yaml"}
            \subseteq OtherPaths
      BY DEF OtherPaths
    <2> QED
      BY <2>1, <2>2, <2>3
  <1> HIDE DEF n
  <1>2. CASE k \in 3..(n + 2)
    <2>1. PICK i \in 1..n : k = i + 2
      <3>1. k - 2 \in 1..n /\ k = (k - 2) + 2
        BY <1>1, <1>2
      <3> QED
        BY <3>1
    <2>2. WriteSteps(s)[k] = s.providers[i].name
      BY <2>1, WriteStepsFacts DEF n
    <2> QED
      BY <2>1, <2>2, ProviderFileTyped DEF n
  <1>3. CASE k \notin 3..(n + 2)
    <2>1. k \in {1, 2, n + 3, n + 4, n + 5, n + 6}
      BY <1>1, <1>3
    <2>2. WriteSteps(s)[k] \in OtherPaths
      BY <1>1, <2>1
    <2> QED
      BY <2>2, NamesAreOrdered DEF FileContent
  <1> QED
    BY <1>2, <1>3

\* Every file but the names' is written, and one for each provider.
LEMMA AllAreWritten ==
    ASSUME NEW s \in Summaries, NEW k, k = Len(WriteSteps(s)), WrittenUpTo(s, k)
    PROVE  /\ \A p \in OtherPaths : files[p] = s
           /\ \A i \in 1..Len(s.providers) :
                files[s.providers[i].name] = FileContent(s, s.providers[i].name)
  <1> DEFINE n == Len(s.providers)
  <1>1. n \in Nat \ {0} /\ k = n + 6
    BY WriteStepsFacts
  <1> HIDE DEF n
  <1>2. 1..2 \cup (n + 3)..(n + 6) \subseteq 1..k /\ \A i \in 1..n : i + 2 \in 1..k
    BY <1>1
  <1>3. ASSUME NEW p \in OtherPaths
        PROVE  files[p] = s
    <2>1. PICK j \in {1, 2, n + 3, n + 4, n + 5, n + 6} : p = WriteSteps(s)[j]
      BY WriteStepsFacts DEF n, OtherPaths
    <2>2. j \in 1..k
      BY <1>1, <2>1
    <2>3. files[p] = FileContent(s, p)
      BY <2>1, <2>2 DEF WrittenUpTo
    <2> QED
      BY <2>3, NamesAreOrdered DEF FileContent
  <1>4. ASSUME NEW i \in 1..n
        PROVE  files[s.providers[i].name] = FileContent(s, s.providers[i].name)
    BY <1>2, WriteStepsFacts DEF WrittenUpTo, n
  <1> QED
    BY <1>3, <1>4 DEF n

\* The chain is written after its providers.
LEMMA BaseComesLast ==
    ASSUME NEW s \in Summaries, NEW k \in 1..Len(WriteSteps(s)),
           WriteSteps(s)[k] = "base.yaml"
    PROVE  k = Len(s.providers) + 3
  <1> DEFINE n == Len(s.providers)
  <1>1. n \in Nat \ {0} /\ k \in 1..(n + 6)
    BY WriteStepsFacts
  <1>2. "base.yaml" \notin Names
    BY NamesAreOrdered DEF OtherPaths
  <1>3. ASSUME NEW i \in 1..n, k = i + 2
        PROVE  FALSE
    <2>1. WriteSteps(s)[i + 2] = s.providers[i].name
      BY WriteStepsFacts
    <2>2. s.providers[i].name \in Names
      BY ProviderFileTyped
    <2> QED
      BY <1>2, <1>3, <2>1, <2>2
  <1>4. k \notin {1, 2, n + 4, n + 5, n + 6}
    BY WriteStepsFacts
  <1> HIDE DEF n
  <1>5. k - 2 \in 1..n => k = (k - 2) + 2
    BY <1>1
  <1>6. k \notin 3..(n + 2)
    BY <1>1, <1>3
  <1> QED
    BY <1>1, <1>4, <1>6 DEF n
-----------------------------------------------------------------------------
(***************************************************************************)
(* The files of an attempt.                                                *)
(***************************************************************************)
\* One file is written, and it is the attempt's next one.
WritesFile ==
    /\ pc = "keys" /\ boot.written < Len(WriteSteps(boot.summary))
    /\ files' = [files EXCEPT ![WriteSteps(boot.summary)[boot.written + 1]] =
                     FileContent(boot.summary, WriteSteps(boot.summary)[boot.written + 1])]
    /\ boot' = [boot EXCEPT !.written = @ + 1]
    /\ UNCHANGED <<pc, loading, marker, env, cfg, engine, wired, call>>

LEMMA FilesFrame ==
    ASSUME PhaseInv, [Next]_vars
    PROVE  UNCHANGED files \/ WritesFile
  <1>1. CASE ConfigStep
    BY <1>1, ConfigStepLeads
  <1>2. CASE WriteResult
    BY <1>2 DEF WriteResult, WritesFile
  <1>3. CASE \/ Wired \/ SchemaDone \/ InitEngine \/ Prepares \/ Commit \/ ConnectServer \/ Run
             \/ Start \/ ConfirmSummary \/ CollectKey \/ Ends \/ GivesUp \/ Quiet
    BY <1>3 DEF Wired, SchemaDone, InitEngine, Prepares, Commit, ConnectServer, Run, Start,
                ConfirmSummary, CollectKey, Ends, GivesUp, Quiet, BootstrapFails, diskVars
  <1> QED
    BY <1>1, <1>2, <1>3, StepKinds

LEMMA FilesStep ==
    ASSUME PhaseInv, FilesInv, AttemptInv, [Next]_vars
    PROVE  FilesInv'
  <1>1. CASE UNCHANGED files
    BY <1>1 DEF FilesInv, ChainOnDisk
  <1>2. CASE WritesFile
    <2> DEFINE s == boot.summary
               k == boot.written + 1
               path == WriteSteps(s)[k]
    <2>1. s \in Summaries /\ boot.written \in Nat /\ WrittenUpTo(s, boot.written)
      BY <1>2 DEF WritesFile, AttemptInv
    <2>2. Len(WriteSteps(s)) = Len(s.providers) + 6 /\ Len(s.providers) \in Nat
      BY <2>1, WriteStepsFacts
    <2>3. k \in 1..Len(WriteSteps(s)) /\ boot.written = k - 1
      BY <1>2, <2>1, <2>2 DEF WritesFile
    <2>4. files' = [files EXCEPT ![path] = FileContent(s, path)]
      BY <1>2 DEF WritesFile
    <2> HIDE DEF s, k, path
    <2>5. CASE path \in OtherPaths
      <3>1. FileContent(s, path) = s /\ path \notin Names
        BY <2>5, NamesAreOrdered DEF FileContent
      <3>2. /\ DOMAIN files' = Paths
            /\ \A n \in Names : files'[n] = files[n]
            /\ \A p \in OtherPaths : files'[p] = IF p = path THEN s ELSE files[p]
        BY <2>4, <3>1, NamesAreOrdered DEF FilesInv, Paths
      <3>3. ChainOnDisk'
        <4>1. CASE path # "base.yaml"
          <5>1. files'["base.yaml"] = files["base.yaml"]
            BY <3>2, <4>1 DEF OtherPaths
          <5>2. ASSUME files["base.yaml"] # NoFile,
                       NEW i \in DOMAIN files["base.yaml"].providers
                PROVE  files'[files["base.yaml"].providers[i].name] # NoFile
            <6>1. files["base.yaml"] \in Summaries
              BY <5>2 DEF FilesInv, OtherPaths
            <6>2. files["base.yaml"].providers[i].name \in Names
              BY <5>2, <6>1, ChainFacts, ProviderFileTyped
            <6> QED
              BY <3>2, <5>2, <6>2 DEF FilesInv, ChainOnDisk
          <5> QED
            BY <5>1, <5>2 DEF ChainOnDisk
        <4>2. CASE path = "base.yaml"
          <5>1. files'["base.yaml"] = s
            BY <3>2, <4>2 DEF OtherPaths
          <5>2. k = Len(s.providers) + 3
            BY <2>1, <2>2, <2>3, <4>2, WriteStepsFacts, BaseComesLast DEF path
          <5>3. ASSUME NEW i \in 1..Len(s.providers)
                PROVE  files'[s.providers[i].name] # NoFile
            <6>1. i + 2 \in 1..boot.written
              BY <2>2, <2>3, <5>2
            <6>2. WriteSteps(s)[i + 2] = s.providers[i].name
              BY <2>1, WriteStepsFacts
            <6>3. files[s.providers[i].name] = FileContent(s, s.providers[i].name)
              BY <2>1, <6>1, <6>2 DEF WrittenUpTo
            <6> QED
              BY <2>1, <3>2, <6>3, ProviderFileTyped, NoFileAssumption
          <5> QED
            BY <2>1, <5>1, <5>3, ChainFacts DEF ChainOnDisk
        <4> QED
          BY <4>1, <4>2
      <3> QED
        BY <2>1, <3>2, <3>3 DEF FilesInv
    <2>6. CASE path \in Names /\ FileContent(s, path) \in ProviderFiles
      <3>1. /\ DOMAIN files' = Paths
            /\ \A n \in Names : files'[n] = IF n = path THEN FileContent(s, path) ELSE files[n]
            /\ \A p \in OtherPaths : files'[p] = files[p]
        BY <2>4, <2>6, NamesAreOrdered DEF FilesInv, Paths
      <3>2. \A n \in Names : files[n] # NoFile => files'[n] # NoFile
        BY <2>6, <3>1, NoFileAssumption
      <3>3. ChainOnDisk'
        <4>1. files'["base.yaml"] = files["base.yaml"]
          BY <3>1 DEF OtherPaths
        <4>2. ASSUME files["base.yaml"] # NoFile,
                     NEW i \in DOMAIN files["base.yaml"].providers
              PROVE  files'[files["base.yaml"].providers[i].name] # NoFile
          <5>1. files["base.yaml"] \in Summaries
            BY <4>2 DEF FilesInv, OtherPaths
          <5>2. files["base.yaml"].providers[i].name \in Names
            BY <4>2, <5>1, ChainFacts, ProviderFileTyped
          <5> QED
            BY <3>2, <4>2, <5>2 DEF FilesInv, ChainOnDisk
        <4> QED
          BY <4>1, <4>2 DEF ChainOnDisk
      <3> QED
        BY <2>6, <3>1, <3>3 DEF FilesInv
    <2> QED
      BY <2>1, <2>3, <2>5, <2>6, StepContent DEF path
  <1> QED
    BY <1>1, <1>2, FilesFrame

\* The attempt is as it was, or has ended.
LEMMA AttemptFrame ==
    ASSUME AttemptInv, UNCHANGED <<files, boot>>,
           boot.summary # None /\ pc' # "keys" => pc # "keys",
           boot.summary # None <=> \/ pc' \in {"keys", "commit"}
                                   \/ pc' \in Loads /\ loading' = "validate"
    PROVE  AttemptInv'
  BY DEF AttemptInv, WrittenUpTo

LEMMA AttemptEnds ==
    ASSUME boot' = NoBoot, pc' \notin {"keys", "commit"},
           pc' \in Loads => loading' # "validate"
    PROVE  AttemptInv'
  BY DEF AttemptInv, NoBoot

LEMMA AttemptWrites ==
    ASSUME FilesInv, AttemptInv, WritesFile
    PROVE  AttemptInv'
  <1> DEFINE s == boot.summary
             k == boot.written + 1
             path == WriteSteps(s)[k]
  <1>1. s \in Summaries /\ boot.written \in Nat /\ WrittenUpTo(s, boot.written) /\ s # None
    BY DEF WritesFile, AttemptInv
  <1>2. Len(WriteSteps(s)) = Len(s.providers) + 6 /\ Len(s.providers) \in Nat
    BY <1>1, WriteStepsFacts
  <1>3. k \in 1..Len(WriteSteps(s)) /\ boot.written = k - 1 /\ k \in 0..Len(WriteSteps(s))
    BY <1>1, <1>2 DEF WritesFile
  <1>4. /\ files' = [files EXCEPT ![path] = FileContent(s, path)]
        /\ DOMAIN boot' = DOMAIN boot /\ boot'.summary = s /\ boot'.written = k
        /\ pc = "keys" /\ pc' = pc
    BY DEF WritesFile, AttemptInv
  <1>5. path \in Paths
    BY <1>1, <1>3, StepContent DEF Paths
  <1> HIDE DEF s, k, path
  <1>6. ASSUME NEW j \in 1..k
        PROVE  files'[WriteSteps(s)[j]] = FileContent(s, WriteSteps(s)[j])
    <2>1. CASE WriteSteps(s)[j] = path
      BY <1>4, <1>5, <2>1 DEF FilesInv
    <2>2. CASE WriteSteps(s)[j] # path
      <3>1. j # k
        BY <2>2 DEF path
      <3>2. j \in 1..boot.written
        BY <1>2, <1>3, <3>1
      <3>3. WriteSteps(s)[j] \in Paths
        <4>1. j \in 1..Len(WriteSteps(s))
          BY <1>2, <1>3
        <4> QED
          BY <1>1, <4>1, StepContent DEF Paths
      <3> QED
        BY <1>1, <1>4, <2>2, <3>2, <3>3 DEF WrittenUpTo, FilesInv
    <2> QED
      BY <2>1, <2>2
  <1> QED
    BY <1>1, <1>3, <1>4, <1>6 DEF AttemptInv, WrittenUpTo

LEMMA AttemptStep ==
    ASSUME PhaseInv, FilesInv, AttemptInv, [Next]_vars
    PROVE  AttemptInv'
  <1>1. CASE ConfigStep
    <2>1. /\ pc \in Loads /\ UNCHANGED files
          /\ \/ /\ pc' \in {"read", "rewrite"} \/ (pc' = "commit" /\ loading = "validate")
                /\ UNCHANGED <<loading, boot>>
             \/ loading # "validate" /\ pc' = "wire" /\ UNCHANGED <<loading, boot>>
             \/ pc' \in {"mcp", "off"} /\ boot' = NoBoot
      BY <1>1, ConfigStepLeads DEF Off
    <2> QED
      BY <2>1, AttemptFrame, AttemptEnds DEF AttemptInv, Loads
  <1>2. CASE WriteResult
    <2>1. CASE WritesFile
      BY <2>1, AttemptWrites
    <2>2. CASE ~ WritesFile
      <3>1. /\ pc = "keys" /\ pc' = "migrate" /\ loading' = "validate" /\ UNCHANGED <<files, boot>>
            /\ boot.written = Len(WriteSteps(boot.summary))
        BY <1>2, <2>2 DEF WriteResult, WritesFile
      <3> QED
        BY <3>1 DEF AttemptInv, WrittenUpTo, Loads
    <2> QED
      BY <2>1, <2>2
  <1>3. CASE Commit \/ Ends \/ GivesUp
    <2>1. boot' = NoBoot /\ pc' \in {"migrate", "off", "mcp"} /\ (pc' = "migrate" => loading' = "reload")
      BY <1>3 DEF Commit, Ends, Off, GivesUp, BootstrapFails
    <2> QED
      BY <2>1, AttemptEnds DEF Loads
  <1>4. CASE ConfirmSummary
    <2>1. PICK s \in Summaries : boot' = [summary |-> s, keys |-> RequiredEnvVars(s), written |-> 0]
      BY <1>4 DEF ConfirmSummary
    <2>2. /\ DOMAIN boot' = {"summary", "keys", "written"} /\ boot'.summary = s /\ boot'.written = 0
          /\ pc' = "keys" /\ s # None
      BY <1>4, <2>1, SentinelAssumption DEF ConfirmSummary
    <2>3. Len(WriteSteps(s)) = Len(s.providers) + 6 /\ Len(s.providers) \in Nat
      BY WriteStepsFacts
    <2> QED
      BY <2>2, <2>3 DEF AttemptInv, WrittenUpTo
  <1>5. CASE CollectKey
    <2>1. /\ pc = "keys" /\ pc' = pc /\ UNCHANGED files
          /\ boot' = [boot EXCEPT !.keys = Tail(@)]
      BY <1>5 DEF CollectKey
    <2>2. DOMAIN boot' = DOMAIN boot /\ boot'.summary = boot.summary /\ boot'.written = boot.written
      BY <2>1 DEF AttemptInv
    <2> QED
      BY <2>1, <2>2 DEF AttemptInv, WrittenUpTo
  <1>6. CASE Quiet
    <2>1. UNCHANGED <<files, boot, pc, loading>>
      BY <1>6 DEF Quiet
    <2> QED
      BY <2>1 DEF AttemptInv, WrittenUpTo
  <1>7. CASE Wired \/ SchemaDone \/ InitEngine \/ Prepares \/ ConnectServer \/ Run \/ Start
    <2>1. /\ UNCHANGED <<files, boot>>
          /\ pc \in {"wire", "schema", "engine", "setup", "mcp", "off"}
          /\ \/ pc' \in {"schema", "engine", "setup", "asking", "mcp", "running"}
             \/ pc' = "migrate" /\ loading' = "start"
      BY <1>7 DEF Wired, SchemaDone, InitEngine, Prepares, ConnectServer, Run, Start, Goto, diskVars
    <2> QED
      BY <2>1, AttemptFrame DEF AttemptInv, Loads
  <1> QED
    BY <1>1, <1>2, <1>3, <1>4, <1>5, <1>6, <1>7, StepKinds

\* writeBootstrapResults: the files of the attempt under way are written up to where it
\* is, and whatever attempts were interrupted, a chain is on disk only with its providers.
THEOREM AttemptInvariant == Spec => [](FilesInv /\ AttemptInv)
  <1>1. Init => FilesInv /\ AttemptInv
    <2>1. ASSUME Init PROVE FilesInv
      <3>1. PICK first \in FirstFiles :
              files = [p \in Paths |-> IF p \in DOMAIN first THEN first[p] ELSE NoFile]
        BY <2>1 DEF Init
      <3>2. DOMAIN first \subseteq Names /\ \A n \in DOMAIN first : first[n] \in ProviderFiles
        BY FirstAssumption
      <3>3. \A n \in Names : files[n] \in ProviderFiles \cup {NoFile}
        BY <3>1, <3>2 DEF Paths
      <3>4. \A p \in OtherPaths : files[p] = NoFile
        BY <3>1, <3>2, NamesAreOrdered DEF Paths
      <3>5. files["base.yaml"] = NoFile
        BY <3>4 DEF OtherPaths
      <3> QED
        BY <3>1, <3>3, <3>4, <3>5 DEF FilesInv, ChainOnDisk
    <2>2. ASSUME Init PROVE AttemptInv
      BY <2>2 DEF Init, AttemptInv, NoBoot, Loads
    <2> QED
      BY <2>1, <2>2
  <1> QED
    BY <1>1, FilesStep, AttemptStep, PhaseInvariant, PTL DEF Spec
-----------------------------------------------------------------------------
(***************************************************************************)
(* What the files make of the program.                                     *)
(***************************************************************************)
LEMMA PickedIsSeq ==
    ASSUME NEW s, NEW n \in Nat, NEW at \in SUBSET (1..n)
    PROVE  Cardinality(at) \in Nat /\ DOMAIN Picked(s, at) = 1..Cardinality(at)
  <1>1. IsFiniteSet(1..n)
    BY FS_Interval
  <1>2. Cardinality(at) \in Nat
    BY <1>1, FS_Subset, FS_CardinalityType
  <1> QED
    BY <1>2 DEF Picked

LEMMA PickedNone ==
    ASSUME NEW s
    PROVE  Picked(s, {}) = <<>>
  <1>1. Cardinality({}) = 0
    BY FS_EmptySet
  <1> QED
    BY <1>1 DEF Picked

\* All the elements, picked in their order.
LEMMA PickedAll ==
    ASSUME NEW s, NEW n \in Nat
    PROVE  Picked(s, 1..n) = [k \in 1..n |-> s[k]]
  <1> DEFINE rank(i) == Cardinality({j \in 1..n : j <= i})
  <1>1. Cardinality(1..n) = n
    BY FS_Interval
  <1>2. ASSUME NEW i \in 1..n
        PROVE  rank(i) = i
    <2>1. {j \in 1..n : j <= i} = 1..i
      OBVIOUS
    <2>2. Cardinality(1..i) = i
      BY FS_Interval
    <2> QED
      BY <2>1, <2>2
  <1>3. ASSUME NEW k \in 1..n
        PROVE  (CHOOSE i \in 1..n : rank(i) = k) = k
    <2>1. \A i \in 1..n : rank(i) = i
      BY <1>2
    <2> HIDE DEF rank
    <2>2. k \in 1..n /\ rank(k) = k
      BY <2>1
    <2>3. (CHOOSE i \in 1..n : rank(i) = k) \in 1..n /\ rank(CHOOSE i \in 1..n : rank(i) = k) = k
      BY <2>2
    <2> QED
      BY <2>1, <2>3
  <1>4. Picked(s, 1..n) = [k \in 1..n |-> s[CHOOSE i \in 1..n : rank(i) = k]]
    BY <1>1 DEF Picked
  <1> HIDE DEF rank
  <1> QED
    BY <1>3, <1>4

\* The chain on disk is the chain that is built.
LEMMA ChainIsBuilt ==
    ASSUME NEW c, NEW s \in Summaries, c.chain = ChainOf(s),
           \A i \in 1..Len(s.providers) : s.providers[i].name \in DOMAIN c.providers
    PROVE  /\ BuildProvider(c) = [i \in 1..Len(s.providers) |-> c.providers[s.providers[i].name]]
           /\ FirstProvider(c) = <<s.providers[1].name>>
  <1> DEFINE n == Len(s.providers)
             chain == ChainOf(s)
             named == Present(c.chain, c)
  <1>1. /\ n \in Nat \ {0} /\ DOMAIN chain = 1..n /\ 1 \in 1..n
        /\ \A i \in 1..n : chain[i] = s.providers[i].name
    BY ChainFacts, LenProperties
  <1>2. {i \in DOMAIN chain : chain[i] \in DOMAIN c.providers} = 1..n
    BY <1>1
  <1>3. named = Picked(chain, 1..n)
    BY <1>2 DEF Present
  <1>4. named = [k \in 1..n |-> chain[k]]
    BY <1>1, <1>3, PickedAll
  <1> HIDE DEF n, chain, named
  <1>5. named # <<>> /\ DOMAIN named = 1..n /\ \A i \in 1..n : named[i] = s.providers[i].name
    BY <1>1, <1>4
  <1>6. BuildProvider(c) = [i \in DOMAIN named |-> c.providers[named[i]]]
    BY <1>5 DEF BuildProvider, named
  <1>7. chain # <<>> /\ chain[1] = s.providers[1].name
    BY <1>1
  <1>8. FirstProvider(c) = <<s.providers[1].name>>
    BY <1>1, <1>7 DEF FirstProvider, chain, n
  <1> QED
    BY <1>5, <1>6, <1>8 DEF n

\* BuildProvider and the flag agree on the first provider, on any files that setup, or
\* a setup that was interrupted, may have left.
LEMMA FlagOfFiles ==
    ASSUME FilesInv, NEW e, NEW c, c = Load(files, e), BuildProvider(c) # <<>>
    PROVE  /\ \E m \in Nat \ {0} : DOMAIN BuildProvider(c) = 1..m
           /\ IsLocal(c) <=> BuildProvider(c)[1].type = "ollama"
  <1> DEFINE base == files["base.yaml"]
             present == {n \in Names : files[n] # NoFile}
  <1>1. /\ DOMAIN c.providers = present
        /\ c.chain = IF base = NoFile THEN <<>> ELSE ChainOf(base)
    BY DEF Load
  <1>2. CASE base # NoFile
    <2>1. base \in Summaries
      BY <1>2 DEF FilesInv, OtherPaths
    <2>2. Len(base.providers) \in Nat \ {0} /\ 1 \in 1..Len(base.providers)
      BY <2>1, ChainFacts
    <2>3. ASSUME NEW i \in 1..Len(base.providers)
          PROVE  base.providers[i].name \in DOMAIN c.providers
      <3>1. files[base.providers[i].name] # NoFile
        BY <1>2, <2>1, ChainFacts DEF FilesInv, ChainOnDisk
      <3> QED
        BY <1>1, <2>1, <3>1, ProviderFileTyped
    <2> HIDE DEF base, present
    <2>4. /\ BuildProvider(c) = [i \in 1..Len(base.providers) |-> c.providers[base.providers[i].name]]
          /\ FirstProvider(c) = <<base.providers[1].name>>
      BY <1>1, <1>2, <2>1, <2>3, ChainIsBuilt
    <2>5. BuildProvider(c)[1] = c.providers[base.providers[1].name]
      BY <2>2, <2>4
    <2>6. IsLocal(c) <=> c.providers[base.providers[1].name].type = "ollama"
      BY <2>4 DEF IsLocal
    <2> QED
      BY <2>2, <2>4, <2>5, <2>6
  <1>3. CASE base = NoFile
    <2> DEFINE usable == Usable(c)
    <2>1. c.chain = <<>>
      BY <1>1, <1>3
    <2>2. Present(c.chain, c) = <<>>
      <3>1. {i \in DOMAIN c.chain : c.chain[i] \in DOMAIN c.providers} = {}
        BY <2>1
      <3> QED
        BY <3>1, PickedNone DEF Present
    <2>3. BuildProvider(c) = [i \in DOMAIN usable |-> c.providers[usable[i]]]
      BY <2>2 DEF BuildProvider
    <2>4. FirstProvider(c) = usable
      BY <2>1 DEF FirstProvider
    <2>5. PICK m \in Nat : DOMAIN usable = 1..m
      <3>1. Len(NameOrder) \in Nat /\ DOMAIN NameOrder = 1..Len(NameOrder)
        BY NamesAreOrdered, LenProperties
      <3> QED
        BY <3>1, PickedIsSeq DEF Usable
    <2> HIDE DEF usable
    <2>6. m # 0 /\ usable # <<>>
      BY <2>3, <2>5
    <2>7. 1 \in 1..m /\ DOMAIN BuildProvider(c) = 1..m /\ BuildProvider(c)[1] = c.providers[usable[1]]
      BY <2>3, <2>5, <2>6
    <2> QED
      BY <2>4, <2>5, <2>6, <2>7 DEF IsLocal
  <1> QED
    BY <1>2, <1>3

LEMMA WiringFrame ==
    ASSUME WiringInv, UNCHANGED <<files, env, cfg, wired, marker>>, engine'.names = engine.names,
           pc' = pc \/ (pc = "schema" /\ pc' = "engine") \/ (pc = "mcp" /\ pc' = "running")
    PROVE  WiringInv'
  <1>1. /\ Load(files, env)' = Load(files, env) /\ InitSecurity(cfg, marker)' = InitSecurity(cfg, marker)
        /\ InitSecurity(Load(files, env), TRUE)' = InitSecurity(Load(files, env), TRUE)
        /\ PromptNames(files, Load(files, env))' = PromptNames(files, Load(files, env))
    OBVIOUS
  <1> QED
    BY <1>1 DEF WiringInv

\* A place where nothing of it has to hold.
LEMMA WiringElsewhere ==
    ASSUME pc' \notin {"wire", "schema", "engine"}, pc' \in {"mcp", "running"} => ~ marker'
    PROVE  WiringInv'
  BY DEF WiringInv

LEMMA WiringStep ==
    ASSUME PhaseInv, ToolsInv, WiringInv, [Next]_vars
    PROVE  WiringInv'
  <1>1. CASE ConfigStep
    <2>1. /\ UNCHANGED <<files, marker>>
          /\ \/ pc' \in {"read", "rewrite", "commit", "off"}
             \/ pc' = "mcp" /\ loading = "validate"
             \/ pc' = "wire" /\ cfg' = Load(files, env) /\ UNCHANGED env
      BY <1>1, ConfigStepLeads DEF Off
    <2>2. CASE pc' = "wire"
      <3>1. cfg' = Load(files', env')
        BY <2>1, <2>2
      <3> QED
        BY <2>2, <3>1 DEF WiringInv
    <2> QED
      BY <2>1, <2>2, WiringElsewhere DEF PhaseInv
  <1>2. CASE Wired
    <2>1. /\ pc' \in {"schema", "engine"} /\ UNCHANGED <<cfg, files, env, marker>>
          /\ wired' = InitSecurity(cfg, marker) /\ cfg = Load(files, env)
      BY <1>2 DEF Wired, diskVars, WiringInv
    <2>2. cfg' = Load(files', env') /\ wired' = InitSecurity(cfg', marker')
      BY <2>1
    <2> QED
      BY <2>1, <2>2 DEF WiringInv
  <1>3. CASE SchemaDone \/ Run
    BY <1>3, WiringFrame DEF SchemaDone, Run, Goto, diskVars
  <1>4. CASE InitEngine
    <2>1. /\ UNCHANGED <<files, env, cfg, marker, wired, loading>> /\ pc = "engine"
          /\ engine'.names = PromptNames(files, cfg)
          /\ pc' = IF loading = "start" /\ ~ marker THEN "setup" ELSE "mcp"
      BY <1>4 DEF InitEngine, Goto, diskVars
    <2>2. cfg = Load(files, env) /\ wired = InitSecurity(cfg, marker)
      BY <2>1 DEF WiringInv
    <2>3. marker => /\ wired' = InitSecurity(Load(files', env'), TRUE)
                    /\ engine'.names = PromptNames(files', Load(files', env'))
      BY <2>1, <2>2 DEF PhaseInv
    <2> QED
      BY <2>1, <2>3 DEF WiringInv
  <1>5. CASE ConnectServer
    <2>1. UNCHANGED <<files, env, cfg, wired, marker, pc>>
      BY <1>5 DEF ConnectServer, diskVars
    <2>2. engine'.names = engine.names
      <3>1. PICK server \in engine.connecting, ok \in BOOLEAN :
              engine' = [engine EXCEPT
                           !.connecting = @ \ {server},
                           !.connected = IF ok THEN @ \cup {server} ELSE @,
                           !.tools = IF ok THEN @ \cup {<<"mcp", server>>} ELSE @]
        BY <1>5 DEF ConnectServer
      <3> QED
        BY <3>1 DEF ToolsInv
    <2> QED
      BY <2>1, <2>2, WiringFrame
  <1>6. CASE Quiet
    <2>1. UNCHANGED <<files, env, cfg, wired, marker, engine, pc>>
      BY <1>6 DEF Quiet
    <2> QED
      BY <2>1, WiringFrame
  <1>7. CASE GivesUp
    <2>1. pc' = "mcp" /\ ~ marker'
      BY <1>7 DEF GivesUp, BootstrapFails, PhaseInv
    <2> QED
      BY <2>1, WiringElsewhere
  <1>8. CASE Prepares \/ WriteResult \/ Commit \/ Start \/ ConfirmSummary \/ CollectKey \/ Ends
    <2>1. pc' \in {"asking", "keys", "migrate", "off"}
      BY <1>8 DEF Prepares, WriteResult, Commit, Start, ConfirmSummary, CollectKey, Ends, Off
    <2> QED
      BY <2>1, WiringElsewhere
  <1> QED
    BY <1>1, <1>2, <1>3, <1>4, <1>5, <1>6, <1>7, <1>8, StepKinds

LEMMA FlagStep ==
    ASSUME PhaseInv, FilesInv, WiringInv, FlagInv, [Next]_vars
    PROVE  FlagInv'
  <1>1. CASE Wired
    <2> DEFINE chain == BuildProvider(cfg)
    <2>1. /\ cfg = Load(files, env) /\ chain # <<>>
          /\ wired'.chain = chain /\ wired'.isLocal = IsLocal(cfg)
      BY <1>1 DEF Wired, WiringInv, InitSecurity
    <2>2. (\E m \in Nat \ {0} : DOMAIN chain = 1..m) /\ (IsLocal(cfg) <=> chain[1].type = "ollama")
      BY <2>1, FlagOfFiles
    <2>3. chain = [i \in DOMAIN chain |-> chain[i]]
      BY DEF BuildProvider
    <2> HIDE DEF chain
    <2>4. chain \in Seq(Range(chain))
      BY <2>2, <2>3 DEF Range
    <2> QED
      BY <2>1, <2>2, <2>4 DEF FlagInv
  <1>2. CASE wired' = None
    BY <1>2 DEF FlagInv
  <1>3. CASE UNCHANGED wired
    BY <1>3 DEF FlagInv
  <1>4. CASE ConfigStep
    BY <1>2, <1>3, <1>4, ConfigStepLeads DEF Off
  <1>5. CASE \/ SchemaDone \/ InitEngine \/ Prepares \/ WriteResult \/ Commit \/ ConnectServer
             \/ Run \/ Start \/ ConfirmSummary \/ CollectKey \/ Ends \/ GivesUp \/ Quiet
    <2>1. wired' = None \/ UNCHANGED wired
      BY <1>5 DEF SchemaDone, InitEngine, Prepares, WriteResult, Commit, ConnectServer, Run, Start,
                  ConfirmSummary, CollectKey, Ends, Off, GivesUp, BootstrapFails, Quiet, Goto
    <2> QED
      BY <1>2, <1>3, <2>1
  <1> QED
    BY <1>1, <1>4, <1>5, StepKinds

\* InitSecurity and InitEngine: what is wired, in either round, comes from the files, the
\* environment and the marker as they are.
THEOREM WiringInvariant == Spec => [](WiringInv /\ ToolsInv /\ FlagInv)
  <1>1. Init => WiringInv /\ ToolsInv /\ FlagInv
    BY DEF Init, WiringInv, ToolsInv, NoEngine, Built, FlagInv
  <1> QED
    BY <1>1, WiringStep, ToolsStep, FlagStep, PhaseInvariant, AttemptInvariant, PTL DEF Spec

\* InitSecurity: the gate's flag tells of the provider a request goes to first, although
\* two functions find it, also on the files of an attempt that was interrupted.
THEOREM FlagIsRight == Spec => []FlagMatchesChain
  <1>1. FlagInv => FlagMatchesChain
    BY DEF FlagInv, FlagMatchesChain
  <1> QED
    BY <1>1, WiringInvariant, PTL

\* main: a program that is set up runs as its files say, in the start that has set it up
\* too.
THEOREM RunsAsItsFilesSay == Spec => []RunsAsSetUp
  <1>1. WiringInv => RunsAsSetUp
    BY DEF WiringInv, RunsAsSetUp
  <1> QED
    BY <1>1, WiringInvariant, PTL
-----------------------------------------------------------------------------
(***************************************************************************)
(* The requests.                                                           *)
(***************************************************************************)
\* The next attempt, or none, is at a provider of the chain; what was sent stays.
LEMMA MovesAlong ==
    ASSUME FlagInv, RouteInv, call # None, NEW next \in {Failed, NextEntry}
    PROVE  /\ DOMAIN next = DOMAIN call
           /\ next.entry \in DOMAIN wired.chain
           /\ next.reached = call.reached /\ next.private = call.private
           /\ next.at \in {"attempt", "backoff", "done"}
  <1> DEFINE chain == wired.chain
             onward == [call EXCEPT !.at = "attempt", !.entry = @ + 1, !.tries = 0]
             given == [call EXCEPT !.at = "done", !.outcome = "error"]
             again == [call EXCEPT !.at = "backoff", !.tries = @ + 1]
  <1>1. /\ chain \in Seq(Range(chain)) /\ call.entry \in DOMAIN chain
        /\ DOMAIN call = {"at", "kind", "private", "entry", "tries", "cancelled", "reached", "outcome"}
    BY DEF FlagInv, RouteInv
  <1>2. Len(chain) \in Nat /\ DOMAIN chain = 1..Len(chain)
    BY <1>1, LenProperties
  <1>3. /\ DOMAIN onward = DOMAIN call /\ onward.entry = call.entry + 1
        /\ onward.reached = call.reached /\ onward.private = call.private
        /\ onward.at = "attempt"
    BY <1>1
  <1>4. /\ DOMAIN given = DOMAIN call /\ given.entry = call.entry
        /\ given.reached = call.reached /\ given.private = call.private
        /\ given.at = "done"
    BY <1>1
  <1>5. /\ DOMAIN again = DOMAIN call /\ again.entry = call.entry
        /\ again.reached = call.reached /\ again.private = call.private
        /\ again.at = "backoff"
    BY <1>1
  <1>6. \/ next = onward /\ call.entry < Len(chain)
        \/ next = given
        \/ next = again
    BY DEF Failed, NextEntry
  <1> HIDE DEF chain, onward, given, again
  <1>7. CASE next = onward /\ call.entry < Len(chain)
    <2>1. call.entry + 1 \in DOMAIN chain
      BY <1>1, <1>2, <1>7
    <2> QED
      BY <1>3, <1>7, <2>1 DEF chain
  <1> QED
    BY <1>1, <1>4, <1>5, <1>6, <1>7 DEF chain

\* Where a request comes from, and where it goes.
LEMMA CallSteps ==
    ASSUME PhaseInv, [Next]_vars
    PROVE  \/ call' = None
           \/ UNCHANGED <<call, wired>>
           \/ \E kind \in {"chat", "stream"}, private \in BOOLEAN : Ask(kind, private)
           \/ RoutingStep
           \/ Cancel
  <1>1. CASE ConfigStep
    BY <1>1, ConfigStepLeads DEF Off
  <1>2. CASE \/ MigrateSchema \/ SchemaFails \/ CommitMigration \/ InitEngine \/ Infrastructure
             \/ WriteResult \/ WriteFails \/ Commit \/ ConnectServer \/ Run
    BY <1>2 DEF MigrateSchema, SchemaFails, CommitMigration, InitEngine, Infrastructure, WriteResult,
                WriteFails, Commit, ConnectServer, Run, Goto, Fatal, Off, BootstrapFails
  <1>3. CASE Wire
    <2>1. call = None
      BY <1>3 DEF Wire, PhaseInv
    <2> QED
      BY <1>3, <2>1 DEF Wire, Fatal, Off
  <1>4. CASE \/ Start \/ Stop \/ AnswerQuestion \/ ConfirmSummary \/ CancelSetup \/ IdentityFails
             \/ CollectKey \/ KeysFail \/ Answered
    BY <1>4 DEF Start, Stop, AnswerQuestion, ConfirmSummary, CancelSetup, IdentityFails, CollectKey,
                KeysFail, Answered, Off, BootstrapFails
  <1>5. CASE Send \/ BootstrapSend
    BY <1>5 DEF Send, BootstrapSend
  <1>6. CASE Route \/ Interrupt
    BY <1>6 DEF Route, Interrupt
  <1>7. CASE UNCHANGED vars
    BY <1>7 DEF vars
  <1> QED
    BY <1>1, <1>2, <1>3, <1>4, <1>5, <1>6, <1>7 DEF Next, ProgramStep, UserStep, ConfigStep

LEMMA RouteStep ==
    ASSUME PhaseInv, FlagInv, RouteInv, [Next]_vars
    PROVE  RouteInv'
  <1>1. CASE call' = None
    BY <1>1 DEF RouteInv
  <1>2. CASE UNCHANGED <<call, wired>>
    BY <1>2 DEF RouteInv, Blocks
  <1>3. CASE \E kind \in {"chat", "stream"}, private \in BOOLEAN : Ask(kind, private)
    <2>1. PICK kind \in {"chat", "stream"}, private \in BOOLEAN : Ask(kind, private)
      BY <1>3
    <2>2. 1 \in DOMAIN wired.chain
      <3>1. wired.chain \in Seq(Range(wired.chain)) /\ wired.chain # <<>>
        BY <2>1 DEF FlagInv, Ask
      <3> QED
        BY <3>1, EmptySeq, LenProperties
    <2>3. /\ wired' = wired /\ wired # None
          /\ call' = Request(kind, private)
      BY <2>1 DEF Ask
    <2> QED
      BY <2>2, <2>3 DEF RouteInv, Request
  <1>4. ASSUME RoutingStep \/ Cancel
        PROVE  RouteInv'
    <2>1. /\ call # None /\ wired # None /\ wired' = wired
          /\ DOMAIN call = {"at", "kind", "private", "entry", "tries", "cancelled", "reached", "outcome"}
          /\ call.entry \in DOMAIN wired.chain
          /\ call.reached \subseteq Range(wired.chain)
          /\ call.at = "gate" => call.reached = {}
          /\ call.private /\ Blocks => call.at \in {"gate", "done"} /\ call.reached = {}
      BY <1>4 DEF RouteInv, RoutingStep, CheckMessages, AttemptUnsent, Attempt, Backoff, StreamEnds,
                  Cancel
    <2>2. ASSUME NEW at, NEW outcome,
                 call' = [call EXCEPT !.at = at, !.outcome = outcome]
                   \/ call' = [call EXCEPT !.at = at],
                 at # "gate", call.private /\ Blocks => at = "done"
          PROVE  RouteInv'
      BY <2>1, <2>2 DEF RouteInv, Blocks
    <2>3. CASE CheckMessages
      <3>1. CASE call.private /\ Blocks
        BY <2>2, <2>3, <3>1 DEF CheckMessages
      <3>2. CASE ~ (call.private /\ Blocks)
        BY <2>2, <2>3, <3>2 DEF CheckMessages
      <3> QED
        BY <3>1, <3>2
    <2>4. CASE AttemptUnsent
      <3>1. call' = Failed /\ call.at = "attempt" /\ ~ (call.private /\ Blocks)
        BY <2>1, <2>4 DEF AttemptUnsent
      <3>2. /\ DOMAIN call' = DOMAIN call /\ call'.entry \in DOMAIN wired.chain
            /\ call'.reached = call.reached /\ call'.private = call.private
            /\ call'.at \in {"attempt", "backoff", "done"}
        BY <2>1, <3>1, MovesAlong
      <3> QED
        BY <2>1, <3>1, <3>2 DEF RouteInv, Blocks
    <2>5. CASE Attempt
      <3>1. PICK next \in {Failed,
                           IF call.kind = "stream"
                             THEN [call EXCEPT !.at = "streaming"]
                             ELSE [call EXCEPT !.at = "done", !.outcome = "reply"]} :
              call' = [next EXCEPT !.reached = @ \cup {Provider}]
        BY <2>5 DEF Attempt
      <3>2. ~ (call.private /\ Blocks)
        BY <2>1, <2>5 DEF Attempt
      <3>3. /\ DOMAIN next = DOMAIN call /\ next.entry \in DOMAIN wired.chain
            /\ next.reached = call.reached /\ next.private = call.private
            /\ next.at \in {"attempt", "backoff", "done", "streaming"}
        <4>1. CASE next = Failed
          BY <2>1, <4>1, MovesAlong
        <4>2. CASE next = [call EXCEPT !.at = "streaming"]
          BY <2>1, <4>2
        <4>3. CASE next = [call EXCEPT !.at = "done", !.outcome = "reply"]
          BY <2>1, <4>3
        <4> QED
          BY <3>1, <4>1, <4>2, <4>3
      <3>4. /\ DOMAIN call' = DOMAIN call /\ call'.entry = next.entry /\ call'.private = call.private
            /\ call'.at = next.at /\ call'.reached = call.reached \cup {Provider}
        BY <2>1, <3>1, <3>3
      <3>5. Provider \in Range(wired.chain)
        BY <2>1 DEF Provider, Range
      <3> QED
        BY <2>1, <3>2, <3>3, <3>4, <3>5 DEF RouteInv, Blocks
    <2>6. CASE Backoff
      <3>1. call.at = "backoff" /\ ~ (call.private /\ Blocks)
        BY <2>1, <2>6 DEF Backoff
      <3>2. CASE call' = [call EXCEPT !.at = "attempt"]
        BY <2>2, <3>1, <3>2
      <3>3. CASE call' = NextEntry
        <4>1. /\ DOMAIN call' = DOMAIN call /\ call'.entry \in DOMAIN wired.chain
              /\ call'.reached = call.reached /\ call'.private = call.private
              /\ call'.at \in {"attempt", "backoff", "done"}
          BY <2>1, <3>3, MovesAlong
        <4> QED
          BY <2>1, <3>1, <4>1 DEF RouteInv, Blocks
      <3> QED
        BY <2>6, <3>2, <3>3 DEF Backoff
    <2>7. CASE StreamEnds
      <3>1. PICK outcome \in {"reply", "broken"} :
              call' = [call EXCEPT !.at = "done", !.outcome = outcome]
        BY <2>7 DEF StreamEnds
      <3> QED
        BY <2>2, <3>1
    <2>8. CASE Cancel
      <3>1. call' = [call EXCEPT !.cancelled = TRUE]
        BY <2>8 DEF Cancel
      <3> QED
        BY <2>1, <3>1 DEF RouteInv, Blocks
    <2> QED
      BY <1>4, <2>3, <2>4, <2>5, <2>6, <2>7, <2>8 DEF RoutingStep
  <1> QED
    BY <1>1, <1>2, <1>3, <1>4, CallSteps

\* Gate and Router: a request goes to the providers of the chain alone, and to none
\* when the gate blocks it.
THEOREM RouteInvariant == Spec => []RouteInv
  <1>1. Init => RouteInv
    BY DEF Init, RouteInv
  <1> QED
    BY <1>1, RouteStep, PhaseInvariant, WiringInvariant, PTL DEF Spec
-----------------------------------------------------------------------------
(***************************************************************************)
(* Types.                                                                  *)
(***************************************************************************)
EnvInv ==
    /\ envFile \in [KeyVars -> 0..MaxStarts] /\ env \in [KeyVars -> 0..MaxStarts]
    /\ starts \in 0..MaxStarts

SchemaInv == schema \in Versions /\ tx \in Versions

PlaceInv ==
    /\ pc \in {"off", "migrate", "rewrite", "read", "wire", "schema", "engine", "setup",
               "asking", "keys", "commit", "mcp", "running"}
    /\ pc = "off" => wired = None /\ call = None /\ cfg = None
    /\ wired # None => wired.mode \in Modes

LEMMA EnvStep ==
    ASSUME PhaseInv, EnvInv, [Next]_vars
    PROVE  EnvInv'
  <1>1. MaxStarts \in Nat /\ NoKeys \in [KeyVars -> 0..MaxStarts]
    BY FirstAssumption DEF NoKeys
  <1>2. CASE UNCHANGED <<envFile, starts>> /\ env' \in {env, NoKeys}
    BY <1>1, <1>2 DEF EnvInv
  <1>3. CASE ConfigStep
    BY <1>2, <1>3, ConfigStepLeads DEF Off
  <1>4. CASE Start
    BY <1>1, <1>4 DEF Start, EnvInv
  <1>5. CASE CollectKey
    <2> DEFINE key == Head(boot.keys)
    <2>1. /\ UNCHANGED starts
          /\ env' = env \/ env' = [env EXCEPT ![key] = starts]
          /\ envFile' = envFile \/ envFile' = [envFile EXCEPT ![key] = starts]
      BY <1>5 DEF CollectKey
    <2> HIDE DEF key
    <2> QED
      BY <2>1 DEF EnvInv
  <1>6. CASE \/ Wired \/ SchemaDone \/ InitEngine \/ Prepares \/ WriteResult \/ Commit
             \/ ConnectServer \/ Run \/ ConfirmSummary \/ Ends \/ GivesUp \/ Quiet
    <2>1. UNCHANGED <<envFile, starts>> /\ env' \in {env, NoKeys}
      BY <1>6 DEF Wired, SchemaDone, InitEngine, Prepares, WriteResult, Commit, ConnectServer, Run,
                  ConfirmSummary, Ends, Off, GivesUp, BootstrapFails, Quiet, diskVars
    <2> QED
      BY <1>2, <2>1
  <1> QED
    BY <1>3, <1>4, <1>5, <1>6, StepKinds

LEMMA SchemaStep ==
    ASSUME PhaseInv, SchemaInv, [Next]_vars
    PROVE  SchemaInv'
  <1>1. CASE UNCHANGED schema /\ tx' \in {tx, 0}
    BY <1>1 DEF SchemaInv, Versions
  <1>2. CASE ConfigStep
    BY <1>1, <1>2, ConfigStepLeads DEF Off
  <1>3. CASE MigrateSchema
    <2>1. UNCHANGED schema /\ (tx' = tx \/ (schema < 2 /\ tx' = schema + 1))
      BY <1>3 DEF MigrateSchema, diskVars
    <2> QED
      BY <2>1 DEF SchemaInv, Versions
  <1>4. CASE CommitMigration
    BY <1>4 DEF CommitMigration, SchemaInv, Versions
  <1>5. CASE Route \/ Interrupt
    BY <1>1, <1>5, RequestMoves DEF diskVars, procVars
  <1>6. CASE UNCHANGED vars
    BY <1>1, <1>6 DEF vars, diskVars, procVars
  <1>7. CASE \/ Wire \/ SchemaFails \/ InitEngine \/ Infrastructure \/ WriteResult \/ WriteFails
             \/ Commit \/ ConnectServer \/ Run
    <2>1. UNCHANGED schema /\ tx' \in {tx, 0}
      BY <1>7 DEF Wire, SchemaFails, InitEngine, Infrastructure, WriteResult, WriteFails, Commit,
                  ConnectServer, Run, Fatal, Off, BootstrapFails, diskVars
    <2> QED
      BY <1>1, <2>1
  <1>8. CASE \/ Start \/ Stop \/ BootstrapSend \/ AnswerQuestion \/ ConfirmSummary \/ CancelSetup
             \/ IdentityFails \/ CollectKey \/ KeysFail \/ Send \/ Answered
    <2>1. UNCHANGED schema /\ tx' \in {tx, 0}
      BY <1>8 DEF Start, Stop, BootstrapSend, AnswerQuestion, ConfirmSummary, CancelSetup,
                  IdentityFails, CollectKey, KeysFail, Send, Answered, Off, BootstrapFails, diskVars,
                  procVars
    <2> QED
      BY <1>1, <2>1
  <1> QED
    BY <1>2, <1>3, <1>4, <1>5, <1>6, <1>7, <1>8 DEF Next, ProgramStep, UserStep, ConfigStep

LEMMA PlaceStep ==
    ASSUME PhaseInv, FilesInv, WiringInv, PlaceInv, [Next]_vars
    PROVE  PlaceInv'
  <1> DEFINE Places == {"migrate", "rewrite", "read", "wire", "schema", "engine", "setup",
                        "asking", "keys", "commit", "mcp", "running"}
  <1>1. CASE pc' \in Places /\ wired' = wired
    BY <1>1 DEF PlaceInv
  <1>2. CASE Off
    BY <1>2 DEF Off, PlaceInv
  <1>3. CASE ConfigStep
    BY <1>1, <1>2, <1>3, ConfigStepLeads
  <1>4. CASE Wired
    <2>1. /\ cfg = Load(files, env) /\ wired'.mode = cfg.mode /\ pc' \in {"schema", "engine"}
      BY <1>4 DEF Wired, WiringInv, InitSecurity
    <2>2. cfg.mode = IF files["base.yaml"] = NoFile THEN "disabled" ELSE files["base.yaml"].mode
      BY <2>1 DEF Load
    <2>3. files["base.yaml"] # NoFile => files["base.yaml"] \in Summaries
      BY DEF FilesInv, OtherPaths
    <2>4. wired'.mode \in Modes
      <3>1. CASE files["base.yaml"] = NoFile
        BY <2>1, <2>2, <3>1 DEF Modes
      <3>2. CASE files["base.yaml"] # NoFile
        BY <2>1, <2>2, <2>3, <3>2, SummaryFacts
      <3> QED
        BY <3>1, <3>2
    <2> QED
      BY <2>1, <2>4 DEF PlaceInv
  <1>5. CASE Quiet
    <2>1. /\ UNCHANGED <<pc, cfg, wired>>
          /\ call' = call \/ pc \in {"asking", "running"}
      BY <1>5 DEF Quiet
    <2> QED
      BY <2>1 DEF PlaceInv
  <1>6. CASE ConnectServer \/ CollectKey
    BY <1>1, <1>6 DEF ConnectServer, CollectKey
  <1>7. CASE InitEngine
    BY <1>1, <1>7 DEF InitEngine, Goto
  <1>8. CASE \/ SchemaDone \/ Prepares \/ Commit \/ Run \/ Start \/ ConfirmSummary \/ GivesUp
    BY <1>1, <1>8 DEF SchemaDone, Prepares, Commit, Run, Goto, Start, ConfirmSummary, GivesUp,
                      BootstrapFails
  <1>9. CASE WriteResult
    <2>1. pc' \in Places /\ wired' = wired
      BY <1>9 DEF WriteResult
    <2> QED
      BY <1>1, <2>1
  <1>10. CASE Ends
    BY <1>2, <1>10 DEF Ends
  <1> QED
    BY <1>3, <1>4, <1>5, <1>6, <1>7, <1>8, <1>9, <1>10, StepKinds

\* The values of keys, the database's versions and the places of the program.
THEOREM RestInvariant == Spec => [](EnvInv /\ SchemaInv /\ PlaceInv)
  <1>1. Init => EnvInv /\ SchemaInv /\ PlaceInv
    <2>1. ASSUME Init PROVE EnvInv
      BY <2>1, FirstAssumption DEF Init, EnvInv, NoKeys
    <2>2. ASSUME Init PROVE SchemaInv
      BY <2>2 DEF Init, SchemaInv, Versions
    <2>3. ASSUME Init PROVE PlaceInv
      BY <2>3 DEF Init, PlaceInv
    <2> QED
      BY <2>1, <2>2, <2>3
  <1> QED
    BY <1>1, EnvStep, SchemaStep, PlaceStep, PhaseInvariant, AttemptInvariant, WiringInvariant,
       PTL DEF Spec

\* Type correctness.
THEOREM StartupTypes == Spec => []TypeOK
  <1>1. PhaseInv /\ FilesInv /\ AttemptInv /\ ConfigInv /\ EnvInv /\ SchemaInv /\ PlaceInv => TypeOK
    <2> SUFFICES ASSUME PhaseInv, FilesInv, AttemptInv, ConfigInv, EnvInv, SchemaInv, PlaceInv
                 PROVE  TypeOK
      OBVIOUS
    <2>1. ASSUME NEW n \in Names, files[n] # NoFile
          PROVE  files[n].key \in KeyVars \cup {""} /\ files[n].type \in {"openai_compatible", "ollama"}
      BY <2>1 DEF FilesInv, ProviderFiles
    <2>2. \A p \in Paths \ Names : files[p] \in Summaries \cup {NoFile}
      BY DEF FilesInv, Paths
    <2>3. boot.summary \in Summaries \cup {None}
      BY DEF AttemptInv
    <2> QED
      BY <2>1, <2>2, <2>3 DEF TypeOK, PhaseInv, ConfigInv, EnvInv, SchemaInv, PlaceInv
  <1> QED
    BY <1>1, PhaseInvariant, AttemptInvariant, ConfigInvariant, RestInvariant, PTL
-----------------------------------------------------------------------------
(***************************************************************************)
(* First-time setup keeps its promise.                                     *)
(***************************************************************************)
\* Only the files of a summary matter once they are all there: those of an interrupted
\* attempt that are left over are not looked at.
LEMMA ProfileOfFiles ==
    ASSUME NEW s \in Summaries, NEW f, NEW g,
           \A p \in OtherPaths : f[p] = s /\ g[p] = s,
           \A i \in 1..Len(s.providers) :
              LET n == s.providers[i].name
              IN  f[n] = g[n] /\ f[n] # NoFile
    PROVE  ProfileMade(f) = ProfileMade(g)
  <1> DEFINE n == Len(s.providers)
             name(i) == s.providers[i].name
             c == Load(f, NoKeys)
             d == Load(g, NoKeys)
             entry(h, m) == [type |-> h[m].type, host |-> h[m].host,
                             apiKey |-> IF h[m].key = "" THEN 0 ELSE NoKeys[h[m].key]]
  <1>1. /\ n \in Nat \ {0} /\ 1 \in 1..n
        /\ \A i \in 1..n : name(i) \in Names
    BY ChainFacts, ProviderFileTyped
  <1>2. /\ f["base.yaml"] = s /\ f["network.yaml"] = s /\ f["rest.yaml"] = s
        /\ f["telegram.yaml"] = s /\ f["identity.yaml"] = s
        /\ g["base.yaml"] = s /\ g["network.yaml"] = s /\ g["rest.yaml"] = s
        /\ g["telegram.yaml"] = s /\ g["identity.yaml"] = s
        /\ s # NoFile
    BY NoFileAssumption DEF OtherPaths
  <1>3. /\ c.chain = ChainOf(s) /\ c.mode = s.mode /\ c.hosts = NetworkHosts(s)
        /\ d.chain = ChainOf(s) /\ d.mode = s.mode /\ d.hosts = NetworkHosts(s)
        /\ c.rest = s.rest /\ d.rest = s.rest /\ c.telegram = d.telegram
    BY <1>2 DEF Load
  <1>4. /\ c.providers = [m \in {m \in Names : f[m] # NoFile} |-> entry(f, m)]
        /\ d.providers = [m \in {m \in Names : g[m] # NoFile} |-> entry(g, m)]
    BY DEF Load
  <1>5. ASSUME NEW i \in 1..n
        PROVE  /\ name(i) \in DOMAIN c.providers /\ name(i) \in DOMAIN d.providers
               /\ c.providers[name(i)] = d.providers[name(i)]
    <2>1. /\ name(i) \in Names /\ f[name(i)] = g[name(i)]
          /\ f[name(i)] # NoFile /\ g[name(i)] # NoFile
      BY <1>1
    <2>2. entry(f, name(i)) = entry(g, name(i))
      BY <2>1
    <2> HIDE DEF c, d, entry, name
    <2> QED
      BY <1>4, <2>1, <2>2
  <1>6. /\ PromptNames(f, c) = [agent |-> s.agent, user |-> s.user]
        /\ PromptNames(g, d) = [agent |-> s.agent, user |-> s.user]
    BY <1>2 DEF PromptNames
  <1> HIDE DEF c, d
  <1>7. /\ BuildProvider(c) = [i \in 1..n |-> c.providers[name(i)]]
        /\ FirstProvider(c) = <<name(1)>>
    BY <1>3, <1>5, ChainIsBuilt
  <1>8. /\ BuildProvider(d) = [i \in 1..n |-> d.providers[name(i)]]
        /\ FirstProvider(d) = <<name(1)>>
    BY <1>3, <1>5, ChainIsBuilt
  <1>9. BuildProvider(c) = BuildProvider(d)
    BY <1>5, <1>7, <1>8
  <1>10. IsLocal(c) = IsLocal(d)
    <2>1. c.providers[name(1)] = d.providers[name(1)]
      BY <1>1, <1>5
    <2> HIDE DEF name
    <2> QED
      BY <1>7, <1>8, <2>1 DEF IsLocal
  <1>11. InitSecurity(c, TRUE) = InitSecurity(d, TRUE)
    BY <1>3, <1>9, <1>10 DEF InitSecurity
  <1> QED
    BY <1>3, <1>6, <1>11 DEF ProfileMade, c, d

LEMMA WrittenIsProfile ==
    ASSUME FilesInv, NEW s \in Summaries, WrittenUpTo(s, Len(WriteSteps(s)))
    PROVE  ProfileMade(files) = ProfileOf(s)
  <1> DEFINE n == Len(s.providers)
             written == FilesOf(s)
  <1>1. /\ \A p \in OtherPaths : files[p] = s
        /\ \A i \in 1..n : files[s.providers[i].name] = FileContent(s, s.providers[i].name)
    BY AllAreWritten
  <1>2. \A i \in 1..n : /\ s.providers[i].name \in Names
                        /\ FileContent(s, s.providers[i].name) # NoFile
    BY ProviderFileTyped, NoFileAssumption
  <1>3. ASSUME NEW p \in OtherPaths
        PROVE  written[p] = s
    BY NamesAreOrdered DEF FilesOf, Paths, FileContent
  <1>4. ASSUME NEW i \in 1..n
        PROVE  written[s.providers[i].name] = FileContent(s, s.providers[i].name)
    <2>1. i \in DOMAIN s.providers
      BY ChainFacts
    <2> QED
      BY <1>2, <2>1 DEF FilesOf, Paths
  <1> HIDE DEF written
  <1>5. ProfileMade(files) = ProfileMade(written)
    BY <1>1, <1>2, <1>3, <1>4, ProfileOfFiles
  <1> QED
    BY <1>5 DEF ProfileOf, written

\* What a step does to an attempt and to the marker.
LEMMA SetupSteps ==
    ASSUME PhaseInv, AttemptInv, [Next]_vars
    PROVE  \/ /\ marker' = marker /\ boot'.summary = boot.summary
              /\ UNCHANGED files \/ ~ marker
           \/ /\ boot'.summary = None /\ UNCHANGED <<marker, files>>
           \/ /\ pc = "asking" /\ boot'.summary \in Summaries /\ UNCHANGED <<marker, files>>
           \/ /\ pc = "commit" /\ marker' = TRUE /\ boot'.summary = None /\ UNCHANGED files
  <1>1. CASE ConfigStep
    BY <1>1, ConfigStepLeads DEF Off, NoBoot
  <1>2. CASE Ends \/ GivesUp
    BY <1>2 DEF Ends, Off, GivesUp, BootstrapFails, NoBoot, diskVars
  <1>3. CASE Commit
    BY <1>3 DEF Commit, NoBoot
  <1>4. CASE ConfirmSummary
    BY <1>4 DEF ConfirmSummary, diskVars
  <1>5. CASE CollectKey
    <2>1. /\ boot' = [boot EXCEPT !.keys = Tail(@)] /\ UNCHANGED <<files, marker>>
      BY <1>5 DEF CollectKey
    <2> QED
      BY <2>1 DEF AttemptInv
  <1>6. CASE WriteResult
    <2>1. /\ UNCHANGED marker /\ pc = "keys"
          /\ boot' = [boot EXCEPT !.written = @ + 1] \/ boot' = boot
      BY <1>6 DEF WriteResult
    <2> QED
      BY <2>1 DEF AttemptInv, PhaseInv
  <1>7. CASE \/ Wired \/ SchemaDone \/ InitEngine \/ Prepares \/ ConnectServer \/ Run \/ Start
             \/ Quiet
    BY <1>7 DEF Wired, SchemaDone, InitEngine, Prepares, ConnectServer, Run, Start, Quiet, diskVars
  <1> QED
    BY <1>1, <1>2, <1>3, <1>4, <1>5, <1>6, <1>7, StepKinds

\* RunBootstrap: first-time setup is all or nothing. Every step of the program confirms,
\* withdraws or completes an attempt as module Setup says, or does nothing to it.
THEOREM SetupRefines == Spec => SetupIsAtomic
  <1>1. Init => Promise!Init
    BY DEF Init, NoBoot, Promise!Init, Confirmed, InForce
  <1>2. PhaseInv /\ FilesInv /\ AttemptInv /\ [Next]_vars
          => [Promise!Next]_<<Confirmed, InForce>>
    <2> SUFFICES ASSUME PhaseInv, FilesInv, AttemptInv, [Next]_vars
                 PROVE  Promise!Next \/ UNCHANGED <<Confirmed, InForce>>
      OBVIOUS
    <2>1. CASE /\ marker' = marker /\ boot'.summary = boot.summary
               /\ UNCHANGED files \/ ~ marker
      BY <2>1 DEF Confirmed, InForce
    <2>2. CASE boot'.summary = None /\ UNCHANGED <<marker, files>>
      <3>1. Confirmed' = None /\ InForce' = InForce
        BY <2>2 DEF Confirmed, InForce
      <3> QED
        BY <3>1 DEF Promise!Next, Promise!Withdraw
    <2>3. CASE pc = "asking" /\ boot'.summary \in Summaries /\ UNCHANGED <<marker, files>>
      <3>1. boot.summary = None /\ ~ marker /\ boot'.summary # None
        BY <2>3, SentinelAssumption DEF AttemptInv, PhaseInv, Loads
      <3>2. /\ Confirmed = None /\ InForce = None /\ InForce' = None
            /\ Confirmed' \in {ProfileOf(s) : s \in Summaries}
        BY <2>3, <3>1 DEF Confirmed, InForce
      <3> QED
        BY <3>2 DEF Promise!Next, Promise!Confirm
    <2>4. CASE pc = "commit" /\ marker' = TRUE /\ boot'.summary = None /\ UNCHANGED files
      <3>1. /\ boot.summary \in Summaries /\ boot.summary # None /\ ~ marker
            /\ WrittenUpTo(boot.summary, Len(WriteSteps(boot.summary)))
        BY <2>4 DEF AttemptInv, PhaseInv
      <3>2. ProfileMade(files) = ProfileOf(boot.summary)
        BY <3>1, WrittenIsProfile
      <3>3. /\ Confirmed = ProfileOf(boot.summary) /\ Confirmed' = None
            /\ InForce' = ProfileOf(boot.summary) /\ InForce = None
        BY <2>4, <3>1, <3>2 DEF Confirmed, InForce
      <3> QED
        BY <3>3 DEF Promise!Next, Promise!Complete
    <2> QED
      BY <2>1, <2>2, <2>3, <2>4, SetupSteps
  <1> QED
    BY <1>1, <1>2, PhaseInvariant, AttemptInvariant, PTL DEF Spec, SetupIsAtomic, Promise!Spec
-----------------------------------------------------------------------------
(***************************************************************************)
(* The safety parts of RequestEnds and StartEnds: the steps of a request,  *)
(* and those of a start, are numbered downwards.                           *)
(***************************************************************************)
\* Attempts and waits at one provider.
EntrySteps == 2 * Retries + 1

\* A bound on the steps of a request that are left.
RequestLeft(c) ==
    LET onward == (Len(wired.chain) - c.entry) * EntrySteps + 2 * (Retries - c.tries)
    IN  CASE c.at \in {"gate", "backoff"} -> onward + 3
          [] c.at = "attempt"             -> onward + 2
          [] c.at = "streaming"           -> 1
          [] OTHER                        -> 0

\* A step takes a request on, or is its cancellation, or is not about it.
RequestAdvances ==
    call # None /\ call' # None =>
      \/ call' = call
      \/ call' = [call EXCEPT !.cancelled = TRUE] /\ ~ call.cancelled
      \/ wired' = wired /\ RequestLeft(call') < RequestLeft(call)

\* The attempts at a provider are counted up to the retries, and from none at the next.
TriesInv ==
    call # None =>
      /\ call.tries \in 0..Retries
      /\ call.at \in {"gate", "attempt", "backoff", "streaming", "done"}

\* A provider's attempts are paid for out of the providers that are left.
LEMMA EntryIsCounted ==
    /\ Retries \in Nat
    /\ EntrySteps \in Nat /\ EntrySteps = 2 * Retries + 1
    /\ \A left \in Nat : left * EntrySteps \in Nat
    /\ \A left \in Nat \ {0} : left * EntrySteps = (left - 1) * EntrySteps + EntrySteps
  <1>1. Retries \in Nat /\ EntrySteps \in Nat
    BY RetriesAssumption DEF EntrySteps
  <1> QED
    BY <1>1 DEF EntrySteps

\* What is left behind an attempt that has failed.
LEMMA FailedIsCounted ==
    ASSUME FlagInv, RouteInv, TriesInv, call # None, NEW next \in {Failed, NextEntry},
           call.at \in {"attempt", "backoff"}
    PROVE  /\ next.tries \in 0..Retries
           /\ next.at \in {"attempt", "backoff", "done"}
           /\ next = NextEntry \/ call.at = "attempt" => RequestLeft(next) < RequestLeft(call)
  <1> DEFINE onward == [call EXCEPT !.at = "attempt", !.entry = @ + 1, !.tries = 0]
             given == [call EXCEPT !.at = "done", !.outcome = "error"]
             again == [call EXCEPT !.at = "backoff", !.tries = @ + 1]
             n == Len(wired.chain)
             left == n - call.entry
             onwards(i) == i * EntrySteps
             late == left - 1
  <1>1. /\ DOMAIN call = {"at", "kind", "private", "entry", "tries", "cancelled", "reached", "outcome"}
        /\ n \in Nat /\ call.entry \in 1..n /\ call.tries \in 0..Retries
    BY LenProperties DEF FlagInv, RouteInv, TriesInv
  <1>2. onward.at = "attempt" /\ onward.entry = call.entry + 1 /\ onward.tries = 0
    BY <1>1
  <1>3. given.at = "done" /\ given.tries = call.tries
    BY <1>1
  <1>4. again.at = "backoff" /\ again.entry = call.entry /\ again.tries = call.tries + 1
    BY <1>1
  <1>5. \/ next = onward /\ call.entry < n
        \/ next = given
        \/ next = again /\ call.tries + 1 < Attempts /\ next = Failed
    BY DEF Failed, NextEntry
  <1>6. Attempts \in {1, Retries + 1}
    BY DEF Attempts
  <1>7. NextEntry \in {onward, given}
    BY DEF NextEntry
  <1>8. /\ left \in Nat /\ onwards(left) \in Nat
        /\ EntrySteps = 2 * Retries + 1 /\ Retries \in Nat
        /\ left # 0 => late \in Nat /\ onwards(late) \in Nat
                       /\ onwards(left) = onwards(late) + EntrySteps
    <2>1. left \in Nat /\ (left # 0 => left \in Nat \ {0} /\ late \in Nat)
      BY <1>1
    <2> HIDE DEF left
    <2> QED
      BY <2>1, EntryIsCounted
  <1>9. RequestLeft(call) = onwards(left) + 2 * (Retries - call.tries)
                              + (IF call.at = "attempt" THEN 2 ELSE 3)
    BY DEF RequestLeft
  <1>10. RequestLeft(call) >= 2 + onwards(left) /\ RequestLeft(call) \in Nat
    <2> HIDE DEF onwards, left
    <2> QED
      BY <1>1, <1>8, <1>9
  <1>11. CASE next = onward /\ call.entry < n
    <2>1. RequestLeft(next) = (n - (call.entry + 1)) * EntrySteps + 2 * Retries + 2
      <3> HIDE DEF onward
      <3> QED
        BY <1>2, <1>8, <1>11 DEF RequestLeft
    <2>2. n - (call.entry + 1) = late /\ left # 0
      BY <1>1, <1>11
    <2>3. RequestLeft(next) = onwards(late) + 2 * Retries + 2
      BY <2>1, <2>2
    <2> HIDE DEF onward, onwards, left, late
    <2>4. RequestLeft(next) < RequestLeft(call)
      BY <1>8, <1>10, <2>2, <2>3
    <2> QED
      BY <1>2, <1>8, <1>11, <2>4
  <1>12. CASE next = given
    <2>1. RequestLeft(next) = 0
      BY <1>3, <1>12 DEF RequestLeft
    <2> HIDE DEF given, onwards, left
    <2> QED
      BY <1>1, <1>3, <1>8, <1>10, <1>12, <2>1
  <1>13. CASE next = again /\ call.tries + 1 < Attempts /\ next = Failed
    <2>1. next.tries = call.tries + 1 /\ next.at = "backoff" /\ next.entry = call.entry
      BY <1>4, <1>13
    <2>2. RequestLeft(next) = onwards(left) + 2 * (Retries - next.tries) + 3
      BY <2>1 DEF RequestLeft
    <2>3. next # NextEntry
      <3> HIDE DEF onward, given
      <3> QED
        BY <1>2, <1>3, <1>7, <2>1
    <2>4. call.tries + 1 \in 0..Retries
      BY <1>1, <1>6, <1>8, <1>13
    <2> HIDE DEF again, onwards, left
    <2>5. call.at = "attempt" => RequestLeft(next) < RequestLeft(call)
      BY <1>1, <1>8, <1>9, <2>1, <2>2
    <2> QED
      BY <2>1, <2>3, <2>4, <2>5
  <1> QED
    BY <1>5, <1>11, <1>12, <1>13

\* Each step of a request brings it closer to its end.
LEMMA RequestCounted ==
    ASSUME FlagInv, RouteInv, TriesInv, call # None, RoutingStep
    PROVE  /\ call'.tries \in 0..Retries
           /\ call'.at \in {"attempt", "backoff", "streaming", "done"}
           /\ RequestLeft(call') < RequestLeft(call)
  <1> DEFINE n == Len(wired.chain)
             onward == (n - call.entry) * EntrySteps
             spare == 2 * (Retries - call.tries)
  <1>1. /\ DOMAIN call = {"at", "kind", "private", "entry", "tries", "cancelled", "reached", "outcome"}
        /\ n \in Nat /\ call.entry \in 1..n /\ call.tries \in 0..Retries
    BY LenProperties DEF FlagInv, RouteInv, TriesInv
  <1>2. onward \in Nat /\ spare \in Nat
    <2>1. n - call.entry \in Nat
      BY <1>1
    <2> QED
      BY <1>1, <2>1, EntryIsCounted
  <1>3. ASSUME NEW next, next.entry = call.entry, next.tries = call.tries,
               \/ call.at \in {"gate", "backoff"} /\ next.at \in {"attempt", "done"}
               \/ call.at = "attempt" /\ next.at \in {"streaming", "done"}
               \/ call.at = "streaming" /\ next.at = "done"
        PROVE  /\ next.tries \in 0..Retries
               /\ next.at \in {"attempt", "backoff", "streaming", "done"}
               /\ RequestLeft(next) < RequestLeft(call)
    <2>1. /\ call.at \in {"gate", "backoff"} => RequestLeft(call) = onward + spare + 3
          /\ call.at = "attempt" => RequestLeft(call) = onward + spare + 2
          /\ call.at = "streaming" => RequestLeft(call) = 1
      BY DEF RequestLeft
    <2>2. /\ next.at = "attempt" => RequestLeft(next) = onward + spare + 2
          /\ next.at = "streaming" => RequestLeft(next) = 1
          /\ next.at = "done" => RequestLeft(next) = 0
      BY <1>3 DEF RequestLeft
    <2> HIDE DEF onward, spare
    <2> QED
      BY <1>1, <1>2, <1>3, <2>1, <2>2
  <1>4. CASE CheckMessages
    <2>1. call.at = "gate" /\ call'.entry = call.entry /\ call'.tries = call.tries
          /\ call'.at \in {"attempt", "done"}
      BY <1>1, <1>4 DEF CheckMessages
    <2> QED
      BY <1>3, <2>1
  <1>5. CASE AttemptUnsent
    BY <1>5, FailedIsCounted DEF AttemptUnsent
  <1>6. CASE Attempt
    <2>1. PICK next \in {Failed,
                         IF call.kind = "stream"
                           THEN [call EXCEPT !.at = "streaming"]
                           ELSE [call EXCEPT !.at = "done", !.outcome = "reply"]} :
            call' = [next EXCEPT !.reached = @ \cup {Provider}]
      BY <1>6 DEF Attempt
    <2>2. call.at = "attempt"
      BY <1>6 DEF Attempt
    <2>3. /\ next.tries \in 0..Retries
          /\ next.at \in {"attempt", "backoff", "streaming", "done"}
          /\ RequestLeft(next) < RequestLeft(call)
          /\ DOMAIN next = DOMAIN call
      <3>1. CASE next = Failed
        BY <2>2, <3>1, FailedIsCounted, MovesAlong
      <3>2. CASE next = [call EXCEPT !.at = "streaming"]
        <4>1. next.entry = call.entry /\ next.tries = call.tries /\ next.at = "streaming"
          BY <1>1, <3>2
        <4> QED
          BY <1>3, <2>2, <3>2, <4>1
      <3>3. CASE next = [call EXCEPT !.at = "done", !.outcome = "reply"]
        <4>1. next.entry = call.entry /\ next.tries = call.tries /\ next.at = "done"
          BY <1>1, <3>3
        <4> QED
          BY <1>3, <2>2, <3>3, <4>1
      <3> QED
        BY <2>1, <3>1, <3>2, <3>3
    <2>4. call'.entry = next.entry /\ call'.tries = next.tries /\ call'.at = next.at
      BY <1>1, <2>1, <2>3
    <2>5. RequestLeft(call') = RequestLeft(next)
      BY <2>4 DEF RequestLeft
    <2> QED
      BY <2>3, <2>4, <2>5
  <1>7. CASE Backoff
    <2>1. CASE call' = [call EXCEPT !.at = "attempt"]
      <3>1. call.at = "backoff" /\ call'.entry = call.entry /\ call'.tries = call.tries
            /\ call'.at = "attempt"
        BY <1>1, <1>7, <2>1 DEF Backoff
      <3> QED
        BY <1>3, <3>1
    <2>2. CASE call' = NextEntry
      <3>1. call.at = "backoff"
        BY <1>7 DEF Backoff
      <3> QED
        BY <2>2, <3>1, FailedIsCounted
    <2> QED
      BY <1>7, <2>1, <2>2 DEF Backoff
  <1>8. CASE StreamEnds
    <2>1. call.at = "streaming" /\ call'.entry = call.entry /\ call'.tries = call.tries
          /\ call'.at = "done"
      BY <1>1, <1>8 DEF StreamEnds
    <2> QED
      BY <1>3, <2>1
  <1> QED
    BY <1>4, <1>5, <1>6, <1>7, <1>8 DEF RoutingStep

\* The request as a new one, as the one whose caller went away, or one step on.
LEMMA RequestKept ==
    ASSUME PhaseInv, FlagInv, RouteInv, TriesInv, [Next]_vars
    PROVE  TriesInv' /\ RequestAdvances
  <1>1. CASE call' = None
    BY <1>1 DEF TriesInv, RequestAdvances
  <1>2. CASE UNCHANGED <<call, wired>>
    BY <1>2 DEF TriesInv, RequestAdvances
  <1>3. CASE \E kind \in {"chat", "stream"}, private \in BOOLEAN : Ask(kind, private)
    <2>1. PICK kind \in {"chat", "stream"}, private \in BOOLEAN : Ask(kind, private)
      BY <1>3
    <2>2. call = None /\ call'.tries = 0 /\ call'.at = "gate"
      BY <2>1 DEF Ask, Request
    <2>3. 0 \in 0..Retries
      BY RetriesAssumption
    <2> QED
      BY <2>2, <2>3 DEF TriesInv, RequestAdvances
  <1>4. CASE RoutingStep
    <2>1. call # None /\ wired' = wired
      BY <1>4 DEF RoutingStep, CheckMessages, AttemptUnsent, Attempt, Backoff, StreamEnds
    <2>2. /\ call'.tries \in 0..Retries
          /\ call'.at \in {"attempt", "backoff", "streaming", "done"}
          /\ RequestLeft(call') < RequestLeft(call)
      BY <1>4, <2>1, RequestCounted
    <2> QED
      BY <2>1, <2>2 DEF TriesInv, RequestAdvances
  <1>5. CASE Cancel
    <2>1. call # None /\ ~ call.cancelled /\ call' = [call EXCEPT !.cancelled = TRUE]
      BY <1>5 DEF Cancel
    <2>2. DOMAIN call = {"at", "kind", "private", "entry", "tries", "cancelled", "reached", "outcome"}
      BY <2>1 DEF RouteInv
    <2>3. call'.tries = call.tries /\ call'.at = call.at
      BY <2>1, <2>2
    <2> QED
      BY <2>1, <2>3 DEF TriesInv, RequestAdvances
  <1> QED
    BY <1>1, <1>2, <1>3, <1>4, <1>5, CallSteps

\* Gate.Chat, Router.Chat, tryWithRetries and Router.ChatStream: attempts and waits come to
\* an end, so with n providers and r retries a request is over after n * (2r + 1) + 2
\* steps, whether its caller goes away or not.
THEOREM RequestsGetOn == Spec => [][RequestAdvances]_vars
  <1>1. Init => TriesInv
    BY DEF Init, TriesInv
  <1>2. Spec => []TriesInv
    BY <1>1, RequestKept, PhaseInvariant, WiringInvariant, RouteInvariant, PTL DEF Spec
  <1>3. PhaseInv /\ FlagInv /\ RouteInv /\ TriesInv /\ [Next]_vars => [RequestAdvances]_vars
    BY RequestKept
  <1> QED
    BY <1>2, <1>3, PhaseInvariant, WiringInvariant, RouteInvariant, PTL DEF Spec
-----------------------------------------------------------------------------
\* A bound on the steps of a start that are left, up to the next question to the user.
StartLeft ==
    LET servers == Cardinality(Servers)
        load    == CASE pc = "migrate" -> 3 [] pc = "rewrite" -> 2 [] OTHER -> 1
    IN  CASE pc = "keys"    -> servers + 19 + Len(boot.keys)
                                 + (Len(WriteSteps(boot.summary)) - boot.written)
          [] pc \in Loads   -> servers + load + (IF loading = "validate" THEN 15 ELSE 10)
          [] pc = "commit"  -> servers + 14
          [] pc = "wire"    -> servers + 10
          [] pc = "schema"  -> servers + 4 + 2 * (2 - schema) + (IF tx = 0 THEN 1 ELSE 0)
          [] pc = "engine"  -> servers + 3
          [] pc = "setup"   -> servers + 2
          [] pc = "mcp"     -> Cardinality(engine.connecting) + 1
          [] OTHER          -> 0

\* Each step of a start that does not wait for the user brings it closer to its end.
StartAdvances == pc \notin {"off", "asking", "running"} => StartLeft' < StartLeft

\* What is counted: servers still to connect, keys still to ask for, migrations still to
\* run.
CountInv ==
    /\ engine.connecting \subseteq Servers
    /\ boot.keys \in Seq(Range(boot.keys))
    /\ tx # 0 => tx = schema + 1

LEMMA ServersAreCounted ==
    ASSUME NEW some \in SUBSET Servers
    PROVE  /\ Cardinality(Servers) \in Nat /\ Cardinality(some) \in Nat
           /\ Cardinality(some) <= Cardinality(Servers)
           /\ \A server \in some : Cardinality(some \ {server}) = Cardinality(some) - 1
  <1>1. IsFiniteSet(some)
    BY ServersAssumption, FS_Subset
  <1> QED
    BY <1>1, ServersAssumption, FS_Subset, FS_CardinalityType, FS_RemoveElement

\* A sequence of the elements it has.
LEMMA SeqOfItsOwn ==
    ASSUME NEW n \in Nat, NEW s, DOMAIN s = 1..n, s = [i \in 1..n |-> s[i]]
    PROVE  s \in Seq(Range(s))
  <1>1. \A i \in 1..n : s[i] \in Range(s)
    BY DEF Range
  <1>2. s \in [1..n -> Range(s)]
    BY <1>1
  <1> QED
    BY <1>2, SeqDef

LEMMA KeysAreSeq ==
    ASSUME NEW s \in Summaries
    PROVE  RequiredEnvVars(s) \in Seq(Range(RequiredEnvVars(s)))
  <1> DEFINE wanted == [i \in DOMAIN s.providers |-> s.providers[i].key]
                         \o <<IF s.telegram THEN s.telegramKey ELSE "">>
                         \o <<IF s.rest THEN s.restKey ELSE "">>
             first == {i \in DOMAIN wanted :
                         wanted[i] # "" /\ \A j \in 1..(i - 1) : wanted[j] # wanted[i]}
             keys == Picked(wanted, first)
  <1>1. /\ Len(s.providers) \in Nat /\ DOMAIN s.providers = 1..Len(s.providers)
    BY ChainFacts
  <1>2. PICK n \in Nat : DOMAIN wanted = 1..n
    <2> DEFINE of == [i \in DOMAIN s.providers |-> s.providers[i].key]
               tel == <<IF s.telegram THEN s.telegramKey ELSE "">>
               rest == <<IF s.rest THEN s.restKey ELSE "">>
               All == {of[i] : i \in DOMAIN of} \cup {tel[1], rest[1]}
    <2>1. of \in Seq(All) /\ tel \in Seq(All) /\ rest \in Seq(All)
      <3>1. of \in [1..Len(s.providers) -> All]
        BY <1>1
      <3>2. tel \in Seq(All) /\ rest \in Seq(All)
        <4>1. \A x \in All : <<x>> \in Seq(All)
          <5> HIDE DEF All
          <5> QED
            OBVIOUS
        <4>2. tel[1] \in All /\ rest[1] \in All /\ tel = <<tel[1]>> /\ rest = <<rest[1]>>
          OBVIOUS
        <4> HIDE DEF All, tel, rest
        <4> QED
          BY <4>1, <4>2
      <3> HIDE DEF of, All
      <3> QED
        BY <1>1, <3>1, <3>2, SeqDef
    <2> HIDE DEF of, tel, rest, All
    <2>2. (of \o tel) \o rest \in Seq(All)
      BY <2>1
    <2> QED
      BY <2>2, LenProperties DEF of, tel, rest
  <1>3. first \in SUBSET (1..n)
    BY <1>2
  <1>4. Cardinality(first) \in Nat /\ DOMAIN keys = 1..Cardinality(first)
    BY <1>3, PickedIsSeq
  <1>5. keys = [k \in 1..Cardinality(first) |-> keys[k]]
    <2> HIDE DEF wanted, first
    <2> QED
      BY DEF Picked
  <1>6. RequiredEnvVars(s) = keys
    BY DEF RequiredEnvVars
  <1> HIDE DEF keys, first
  <1> QED
    BY <1>4, <1>5, <1>6, SeqOfItsOwn

LEMMA CountStep ==
    ASSUME PhaseInv, AttemptInv, ToolsInv, CountInv, [Next]_vars
    PROVE  CountInv'
  <1>1. <<>> \in Seq(Range(<<>>))
    OBVIOUS
  <1>2. CASE UNCHANGED <<engine, boot, schema, tx>>
    BY <1>2 DEF CountInv
  <1>3. NoBoot.keys = <<>> /\ NoEngine.connecting = {}
    BY DEF NoBoot, NoEngine
  <1>4. CASE Off /\ (engine' = NoEngine /\ boot' = NoBoot /\ tx' = 0)
    BY <1>1, <1>3, <1>4 DEF CountInv
  <1>5. CASE boot' = NoBoot /\ UNCHANGED <<engine, schema, tx>>
    BY <1>1, <1>3, <1>5 DEF CountInv
  <1>6. CASE ConfigStep
    BY <1>2, <1>4, <1>5, <1>6, ConfigStepLeads DEF Off
  <1>7. CASE MigrateSchema
    BY <1>7 DEF MigrateSchema, CountInv, diskVars, Goto
  <1>8. CASE CommitMigration
    BY <1>8 DEF CommitMigration, CountInv
  <1>9. CASE InitEngine
    <2>1. engine'.connecting = Servers /\ UNCHANGED <<boot, schema, tx>>
      BY <1>9 DEF InitEngine, diskVars
    <2> QED
      BY <2>1 DEF CountInv
  <1>10. CASE ConnectServer
    <2>1. PICK server \in engine.connecting, ok \in BOOLEAN :
             engine' = [engine EXCEPT
                          !.connecting = @ \ {server},
                          !.connected = IF ok THEN @ \cup {server} ELSE @,
                          !.tools = IF ok THEN @ \cup {<<"mcp", server>>} ELSE @]
      BY <1>10 DEF ConnectServer
    <2>2. engine'.connecting = engine.connecting \ {server} /\ UNCHANGED <<boot, schema, tx>>
      BY <1>10, <2>1 DEF ConnectServer, ToolsInv, diskVars
    <2> QED
      BY <2>2 DEF CountInv
  <1>11. CASE WriteResult
    <2>1. boot'.keys = boot.keys /\ UNCHANGED <<engine, schema, tx>>
      BY <1>11 DEF WriteResult, AttemptInv
    <2> QED
      BY <2>1 DEF CountInv
  <1>12. CASE ConfirmSummary
    <2>1. PICK s \in Summaries : boot' = [summary |-> s, keys |-> RequiredEnvVars(s), written |-> 0]
      BY <1>12 DEF ConfirmSummary
    <2>2. boot'.keys \in Seq(Range(boot'.keys)) /\ UNCHANGED <<engine, schema, tx>>
      BY <1>12, <2>1, KeysAreSeq DEF ConfirmSummary, diskVars
    <2> QED
      BY <2>2 DEF CountInv
  <1>13. CASE CollectKey
    <2> DEFINE keys == boot.keys
               rest == Tail(keys)
    <2>1. keys # <<>> /\ boot' = [boot EXCEPT !.keys = rest] /\ UNCHANGED <<engine, schema, tx>>
      BY <1>13 DEF CollectKey
    <2>2. boot'.keys = rest
      BY <2>1 DEF AttemptInv
    <2>3. rest \in Seq(Range(keys))
      <3>1. keys \in Seq(Range(keys))
        BY DEF CountInv
      <3> HIDE DEF keys
      <3> QED
        BY <2>1, <3>1
    <2>4. Len(rest) \in Nat /\ DOMAIN rest = 1..Len(rest) /\ rest = [i \in 1..Len(rest) |-> rest[i]]
      <3> HIDE DEF rest
      <3> QED
        BY <2>3, LenProperties
    <2> HIDE DEF rest
    <2>5. rest \in Seq(Range(rest))
      BY <2>4, SeqOfItsOwn
    <2> QED
      BY <2>1, <2>2, <2>5 DEF CountInv
  <1>14. CASE Wire \/ SchemaFails \/ WriteFails \/ Commit \/ Run \/ Infrastructure
    BY <1>2, <1>4, <1>5, <1>14 DEF Wire, SchemaFails, WriteFails, Commit, Run, Infrastructure, Goto,
                                   Fatal, Off, BootstrapFails, diskVars
  <1>15. CASE \/ Start \/ Stop \/ BootstrapSend \/ AnswerQuestion \/ CancelSetup \/ IdentityFails
              \/ KeysFail \/ Send \/ Answered
    BY <1>2, <1>4, <1>5, <1>15 DEF Start, Stop, BootstrapSend, AnswerQuestion, CancelSetup,
                                   IdentityFails, KeysFail, Send, Answered, Off, BootstrapFails,
                                   diskVars, procVars
  <1>16. CASE Route \/ Interrupt
    BY <1>2, <1>16, RequestMoves DEF diskVars, procVars
  <1>17. CASE UNCHANGED vars
    BY <1>2, <1>17 DEF vars, diskVars, procVars
  <1> QED
    BY <1>6, <1>7, <1>8, <1>9, <1>10, <1>11, <1>12, <1>13, <1>14, <1>15, <1>16, <1>17
    DEF Next, ProgramStep, UserStep, ConfigStep

\* What is left at each place is a number, and enough for setup to be given up there.
LEMMA PlacesAreCounted ==
    ASSUME PhaseInv, AttemptInv, SchemaInv, PlaceInv, CountInv,
           pc \notin {"off", "asking", "running"},
           NEW servers, servers = Cardinality(Servers)
    PROVE  /\ servers \in Nat /\ StartLeft \in Nat /\ StartLeft > 0
           /\ pc # "mcp" => StartLeft > servers + 1
           /\ pc = "mcp" => StartLeft = Cardinality(engine.connecting) + 1
           /\ pc = "migrate" => StartLeft = servers + 3 + (IF loading = "validate" THEN 15 ELSE 10)
           /\ pc = "rewrite" => StartLeft = servers + 2 + (IF loading = "validate" THEN 15 ELSE 10)
           /\ pc = "read" => StartLeft = servers + 1 + (IF loading = "validate" THEN 15 ELSE 10)
           /\ pc = "keys" => StartLeft = servers + 19 + Len(boot.keys)
                                + (Len(WriteSteps(boot.summary)) - boot.written)
           /\ pc = "keys" => /\ Len(boot.keys) \in Nat /\ Len(WriteSteps(boot.summary)) \in Nat
                              /\ boot.written \in 0..Len(WriteSteps(boot.summary))
  <1>1. servers \in Nat /\ Cardinality(engine.connecting) \in Nat
    BY ServersAreCounted DEF CountInv
  <1>2. CASE pc = "keys"
    <2>1. boot.summary \in Summaries /\ boot.written \in 0..Len(WriteSteps(boot.summary))
      BY <1>2 DEF AttemptInv
    <2>2. Len(boot.keys) \in Nat /\ Len(WriteSteps(boot.summary)) \in Nat
      BY <2>1, WriteStepsFacts, LenProperties DEF CountInv
    <2> QED
      BY <1>1, <1>2, <2>1, <2>2 DEF StartLeft, Loads
  <1>3. CASE pc = "schema"
    BY <1>1, <1>3 DEF StartLeft, Loads, SchemaInv, Versions
  <1>4. CASE pc \in {"migrate", "rewrite", "read"}
    BY <1>1, <1>4 DEF StartLeft, Loads
  <1>5. CASE pc \in {"commit", "wire", "engine", "setup", "mcp"}
    BY <1>1, <1>5 DEF StartLeft, Loads
  <1> QED
    BY <1>2, <1>3, <1>4, <1>5 DEF PlaceInv

\* The configuration is rewritten once in a load, and read after that.
LEMMA LoadsGetOn ==
    ASSUME PhaseInv, ConfigStep
    PROVE  /\ pc' = "read" => pc \in {"migrate", "rewrite"}
           /\ pc' = "rewrite" => pc = "migrate"
           /\ pc' = "commit" => pc = "read"
  BY DEF ConfigStep, MigrateConfig, RewriteConfig, ReadConfig, ReadFails, Goto, LoadFails, Fatal, Off,
         BootstrapFails, PhaseInv

\* Load, InitSecurity, the migrations, RunBootstrap and InitMCP: a start comes to an end, to a
\* question to the user or to the program at work, through each of its failures: with n MCP
\* servers after n + 13 steps at most. One that does not answer lets it take no step.
THEOREM StartsGetOn == Spec => [][StartAdvances]_vars
  <1>1. Init => CountInv
    <2> SUFFICES ASSUME Init PROVE CountInv
      OBVIOUS
    <2>1. engine.connecting = {} /\ boot.keys = <<>> /\ tx = 0
      BY DEF Init, NoEngine, NoBoot
    <2> QED
      BY <2>1 DEF CountInv
  <1>2. Spec => []CountInv
    BY <1>1, CountStep, PhaseInvariant, AttemptInvariant, WiringInvariant, PTL DEF Spec
  <1>3. ASSUME PhaseInv, AttemptInv, ToolsInv, SchemaInv, PlaceInv, CountInv, CountInv', AttemptInv',
               SchemaInv', PlaceInv', PhaseInv', Next, pc \notin {"off", "asking", "running"}
        PROVE  StartLeft' < StartLeft
    <2> DEFINE servers == Cardinality(Servers)
    <2>1. /\ servers \in Nat /\ StartLeft \in Nat /\ StartLeft > 0
          /\ pc # "mcp" => StartLeft > servers + 1
      BY <1>3, PlacesAreCounted
    <2>2. CASE pc' \in {"off", "asking", "running"}
      <3>1. StartLeft' = 0
        BY <2>2 DEF StartLeft, Loads
      <3> QED
        BY <2>1, <3>1
    <2>3. CASE pc' = "mcp" /\ pc # "mcp"
      <3>1. StartLeft' = Cardinality(engine'.connecting) + 1
        BY <2>3 DEF StartLeft, Loads
      <3>2. Cardinality(engine'.connecting) \in Nat /\ Cardinality(engine'.connecting) <= servers
        BY <1>3, ServersAreCounted DEF CountInv
      <3> QED
        BY <2>1, <2>3, <3>1, <3>2
    <2>4. CASE ConfigStep /\ pc' \in {"read", "rewrite", "commit", "wire"}
      <3>1. pc \in Loads
        BY <1>3, <2>4, ConfigStepLeads
      <3>2. /\ pc' = "read" => pc \in {"migrate", "rewrite"}
            /\ pc' = "rewrite" => pc = "migrate"
            /\ pc' = "commit" => pc = "read"
        BY <1>3, <2>4, LoadsGetOn
      <3>3. /\ loading' = loading
            /\ pc' = "commit" => loading = "validate"
            /\ pc' = "wire" => loading # "validate"
        BY <1>3, <2>4, ConfigStepLeads DEF Off
      <3> QED
        BY <2>1, <2>4, <3>1, <3>2, <3>3 DEF StartLeft, Loads
    <2>5. CASE Wire /\ pc' \in {"schema", "engine"}
      <3>1. pc = "wire" /\ UNCHANGED <<schema, tx>>
        BY <2>5 DEF Wire, Fatal, Off, diskVars
      <3> QED
        BY <1>3, <2>1, <2>5, <3>1 DEF StartLeft, Loads, SchemaInv, Versions
    <2>6. CASE MigrateSchema
      <3>1. pc = "schema" /\ tx = 0 /\ UNCHANGED schema
        BY <2>6 DEF MigrateSchema, diskVars
      <3>2. \/ pc' = "engine"
            \/ pc' = pc /\ tx' = schema + 1
        BY <2>6 DEF MigrateSchema, Goto
      <3> QED
        BY <1>3, <2>1, <3>1, <3>2 DEF StartLeft, Loads, SchemaInv, Versions
    <2>7. CASE CommitMigration
      <3>1. /\ pc = "schema" /\ pc' = pc /\ tx # 0 /\ tx = schema + 1
            /\ schema' = tx /\ tx' = 0
        BY <1>3, <2>7 DEF CommitMigration, CountInv
      <3>2. schema \in {0, 1}
        BY <1>3, <3>1 DEF SchemaInv, Versions
      <3>3. StartLeft = servers + 8 - 2 * schema
        BY <2>1, <3>1, <3>2 DEF StartLeft, Loads
      <3>4. StartLeft' = servers + 7 - 2 * schema
        BY <2>1, <3>1, <3>2 DEF StartLeft, Loads
      <3> QED
        BY <2>1, <3>2, <3>3, <3>4
    <2>8. CASE InitEngine /\ pc' = "setup"
      <3>1. pc = "engine" /\ pc' = "setup"
        BY <2>8 DEF InitEngine
      <3> QED
        BY <2>1, <3>1 DEF StartLeft, Loads
    <2>9. CASE WriteResult
      <3>1. pc = "keys" /\ DOMAIN boot = {"summary", "keys", "written"}
        BY <1>3, <2>9 DEF WriteResult, AttemptInv
      <3> DEFINE toWrite == Len(WriteSteps(boot.summary))
      <3>2. /\ StartLeft = servers + 19 + Len(boot.keys) + (toWrite - boot.written)
            /\ Len(boot.keys) \in Nat /\ toWrite \in Nat /\ boot.written \in 0..toWrite
        BY <1>3, <3>1, PlacesAreCounted
      <3>3. CASE boot' = [boot EXCEPT !.written = @ + 1] /\ pc' = pc
        <4>1. boot'.keys = boot.keys /\ boot'.summary = boot.summary /\ boot'.written = boot.written + 1
          BY <3>1, <3>3
        <4>2. StartLeft' = servers + 19 + Len(boot.keys) + (toWrite - (boot.written + 1))
          BY <3>1, <3>3, <4>1 DEF StartLeft, Loads
        <4> DEFINE written == boot.written
                   asked == Len(boot.keys)
                   gap == toWrite - written
        <4>3. /\ written \in Nat /\ toWrite \in Nat /\ written <= toWrite /\ asked \in Nat
              /\ StartLeft = servers + 19 + asked + gap
              /\ StartLeft' = servers + 19 + asked + (toWrite - (written + 1))
          BY <3>2, <4>2
        <4> HIDE DEF servers, toWrite, written, asked
        <4>4. toWrite - (written + 1) = gap - 1 /\ gap \in Nat
          BY <4>3
        <4> HIDE DEF gap
        <4> QED
          BY <2>1, <4>3, <4>4
      <3>4. CASE pc' = "migrate" /\ loading' = "validate"
        <4>1. StartLeft' = servers + 18
          BY <2>1, <3>4 DEF StartLeft, Loads
        <4> QED
          BY <2>1, <3>2, <4>1
      <3> QED
        BY <2>9, <3>3, <3>4 DEF WriteResult
    <2>10. CASE CollectKey
      <3> DEFINE keys == boot.keys
                 toWrite == Len(WriteSteps(boot.summary)) - boot.written
      <3>1. pc = "keys" /\ pc' = pc /\ keys # <<>> /\ DOMAIN boot = {"summary", "keys", "written"}
            /\ boot' = [boot EXCEPT !.keys = Tail(keys)]
        BY <1>3, <2>10 DEF CollectKey, AttemptInv
      <3>2. StartLeft = servers + 19 + Len(keys) + toWrite /\ Len(keys) \in Nat /\ toWrite \in Nat
        <4>1. /\ StartLeft = servers + 19 + Len(keys) + toWrite
              /\ Len(keys) \in Nat /\ Len(WriteSteps(boot.summary)) \in Nat
              /\ boot.written \in 0..Len(WriteSteps(boot.summary))
          BY <1>3, <3>1, PlacesAreCounted
        <4> QED
          BY <4>1
      <3>3. boot'.keys = Tail(keys) /\ boot'.summary = boot.summary /\ boot'.written = boot.written
        BY <3>1
      <3>4. Len(Tail(keys)) = Len(keys) - 1
        <4>1. keys \in Seq(Range(keys))
          BY <1>3 DEF CountInv
        <4> HIDE DEF keys
        <4> QED
          BY <3>1, <4>1
      <3>5. StartLeft' = servers + 19 + Len(Tail(keys)) + toWrite
        BY <3>1, <3>3 DEF StartLeft, Loads
      <3> HIDE DEF keys, toWrite
      <3> QED
        BY <2>1, <3>2, <3>4, <3>5
    <2>11. CASE Commit
      <3>1. pc = "commit" /\ pc' = "migrate" /\ loading' = "reload"
        BY <2>11 DEF Commit
      <3> QED
        BY <2>1, <3>1 DEF StartLeft, Loads
    <2>12. CASE ConnectServer
      <3>1. PICK server \in engine.connecting, ok \in BOOLEAN :
               engine' = [engine EXCEPT
                            !.connecting = @ \ {server},
                            !.connected = IF ok THEN @ \cup {server} ELSE @,
                            !.tools = IF ok THEN @ \cup {<<"mcp", server>>} ELSE @]
        BY <2>12 DEF ConnectServer
      <3>2. engine'.connecting = engine.connecting \ {server} /\ pc = "mcp" /\ pc' = pc
        BY <1>3, <2>12, <3>1 DEF ConnectServer, ToolsInv
      <3>3. /\ Cardinality(engine.connecting) \in Nat
            /\ Cardinality(engine'.connecting) = Cardinality(engine.connecting) - 1
        BY <1>3, <3>2, ServersAreCounted DEF CountInv
      <3> QED
        BY <3>2, <3>3 DEF StartLeft, Loads
    <2>13. \/ pc' \in {"off", "asking", "running"}
           \/ pc' = "mcp" /\ pc # "mcp"
           \/ ConfigStep /\ pc' \in {"read", "rewrite", "commit", "wire"}
           \/ Wire /\ pc' \in {"schema", "engine"}
           \/ MigrateSchema \/ CommitMigration \/ (InitEngine /\ pc' = "setup")
           \/ WriteResult \/ CollectKey \/ Commit \/ ConnectServer
      <3>1. CASE ConfigStep
        <4>1. pc # "mcp"
          BY <1>3, <3>1, ConfigStepLeads DEF Loads
        <4> QED
          BY <1>3, <3>1, <4>1, ConfigStepLeads DEF Off
      <3>2. CASE Wire \/ SchemaFails \/ InitEngine \/ Infrastructure \/ WriteFails \/ Run
        BY <3>2 DEF Wire, SchemaFails, InitEngine, Infrastructure, WriteFails, Run, Goto, Fatal, Off,
                    BootstrapFails
      <3>3. CASE \/ Start \/ Stop \/ BootstrapSend \/ AnswerQuestion \/ ConfirmSummary \/ CancelSetup
                 \/ IdentityFails \/ KeysFail \/ Send \/ Answered
        BY <1>3, <3>3 DEF Start, Stop, BootstrapSend, AnswerQuestion, ConfirmSummary, CancelSetup,
                          IdentityFails, KeysFail, Send, Answered, Off, BootstrapFails
      <3>4. CASE Route \/ Interrupt
        BY <1>3, <3>4, RequestMoves DEF PhaseInv
      <3> QED
        BY <1>3, <3>1, <3>2, <3>3, <3>4 DEF Next, ProgramStep, UserStep, ConfigStep
    <2> QED
      BY <2>2, <2>3, <2>4, <2>5, <2>6, <2>7, <2>8, <2>9, <2>10, <2>11, <2>12, <2>13
  <1> DEFINE Inv == PhaseInv /\ AttemptInv /\ ToolsInv /\ SchemaInv /\ PlaceInv /\ CountInv
  <1>4. Spec => []Inv
    BY <1>2, PhaseInvariant, AttemptInvariant, WiringInvariant, RestInvariant, PTL
  <1>5. Inv /\ Inv' /\ [Next]_vars => [StartAdvances]_vars
    BY <1>3 DEF StartAdvances
  <1> HIDE DEF Inv
  <1> QED
    BY <1>4, <1>5, PTL DEF Spec
=============================================================================
