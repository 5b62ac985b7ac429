------------------------------- MODULE Startup -------------------------------
(***************************************************************************)
(* The program from its start to its end: the migrations of config.yaml    *)
(* and of the database, the wiring of the subsystems, first-time setup, and *)
(* the requests the wired engine makes (module Routing).                   *)
(*                                                                         *)
(* The process may be killed between any two steps; what it keeps on disk  *)
(* stays. Files written through a temporary one are old or new, those that *)
(* os.WriteFile overwrites in place (config.yaml and its backups) may be   *)
(* left damaged. First-time setup is a conversation with the engine that   *)
(* the files of an earlier, interrupted attempt may already have changed.  *)
(***************************************************************************)
EXTENDS Routing, BootConfig

CONSTANTS
    MaxStarts,     \* bound: times the program is started
    FirstFiles,    \* the provider files the user may have put there first
    FirstConfigs,  \* what config.yaml may be then
    Servers,       \* the MCP servers of the configuration
    Skills         \* the skills in the registry

VARIABLES
    files,         \* path -> content of the files setup writes
    config,        \* config.yaml: its version and whose settings it has
    backups,       \* config.yaml.bak.v0 and .v1
    envFile,       \* key variable -> value in ~/.gogoclaw/env, 0 when absent
    marker,        \* the file "initialized" is there
    schema,        \* the version of the database
    starts,        \* starts so far; a key typed in start n has the value n
    pc,            \* what the process does next
    loading,       \* which of the three loads it is in
    env,           \* the process environment
    cfg,           \* the configuration loaded last
    boot,          \* setup: confirmed summary, keys to ask for, files written
    tx,            \* the open migration transaction's version, or 0
    engine         \* what InitEngine and InitMCP have built, and the runtime's skills

diskVars == <<files, config, backups, envFile, marker, schema, starts>>
procVars == <<pc, loading, env, cfg, boot, tx, engine>>
vars == <<diskVars, procVars, wired, call>>

Versions == 0..2
Config(version, settings) == [version |-> version, settings |-> settings]
Torn == Config(0, "torn")     \* it does not parse
Settings == {"user", "template", "part", "torn"}
Configs == {NoFile} \cup [version : Versions, settings : Settings]

\* What the user may have put there: provider files, and a configuration.
ASSUME FirstAssumption ==
    /\ MaxStarts \in Nat
    /\ FirstConfigs \subseteq {NoFile} \cup {Config(v, "user") : v \in Versions}
    /\ \A first \in FirstFiles : DOMAIN first \subseteq Names
                                  /\ \A n \in DOMAIN first : first[n] \in ProviderFiles

\* The servers are those of a list in the configuration.
ASSUME ServersAssumption == IsFiniteSet(Servers)

ASSUME SentinelAssumption ==
    /\ None \notin Summaries
    /\ NoFile \notin {Config(v, s) : v \in Versions, s \in Settings}

NoBoot == [summary |-> None, keys |-> <<>>, written |-> 0]
NoEngine == [tools |-> {}, loaded |-> {}, connecting |-> {}, connected |-> {}, names |-> None]
NoKeys == [k \in KeyVars |-> 0]

Init ==
    /\ \E first \in FirstFiles :
         files = [p \in Paths |-> IF p \in DOMAIN first THEN first[p] ELSE NoFile]
    /\ config \in FirstConfigs
    /\ backups = [v \in 0..1 |-> NoFile]
    /\ envFile = NoKeys /\ marker = FALSE
    /\ schema = 0 /\ starts = 0
    /\ pc = "off" /\ loading = "start" /\ env = NoKeys /\ cfg = None
    /\ boot = NoBoot /\ tx = 0 /\ engine = NoEngine
    /\ wired = None /\ call = None

Goto(place) == pc' = place /\ UNCHANGED <<wired, call>>
-----------------------------------------------------------------------------
(***************************************************************************)
(* The process starts and ends.                                            *)
(***************************************************************************)
\* Variables already set win over the file; here none is set from outside.
Start ==
    /\ pc = "off" /\ starts < MaxStarts
    /\ starts' = starts + 1
    /\ env' = envFile
    /\ loading' = "start"
    /\ pc' = "migrate"
    /\ UNCHANGED <<files, config, backups, envFile, marker, schema, cfg, boot, tx, engine,
                   wired, call>>

\* Everything but the disk is gone.
Off ==
    /\ pc' = "off"
    /\ loading' = "start" /\ env' = NoKeys /\ cfg' = None
    /\ boot' = NoBoot /\ tx' = 0 /\ engine' = NoEngine
    /\ wired' = None /\ call' = None

\* A kill, a power failure, or the user quits.
Stop == pc # "off" /\ Off /\ UNCHANGED diskVars

Fatal == Off /\ UNCHANGED <<files, envFile, marker, starts>>

\* RunBootstrap returns an error: "continuing with defaults".
BootstrapFails ==
    /\ boot' = NoBoot
    /\ pc' = "mcp"
    /\ call' = None
    /\ UNCHANGED <<files, envFile, marker, starts, loading, env, cfg, tx, engine, wired>>

\* The first load is fatal, the one that checks the answers' files fails the setup, and
\* after the third one the program goes on with no configuration: it panics.
LoadFails ==
    CASE loading = "start"    -> Fatal
      [] loading = "validate" -> BootstrapFails
      [] loading = "reload"   -> Fatal
-----------------------------------------------------------------------------
(***************************************************************************)
(* migrateConfig, which every Load begins with.                            *)
(***************************************************************************)
\* What an interrupted os.WriteFile may leave of a file: a prefix that does not parse, or
\* one that does and has some or none of the settings, with the version or without.
Damaged(whole) == {Torn} \cup {Config(v, "part") : v \in {0, whole.version}}

Migrated == [config EXCEPT !.version = 2]

\* A mutated form: the backup's name does not have the version in it.
BackupSlotFixed == 0

BackupSlot == config.version

MigrateConfig ==
    /\ pc = "migrate"
    /\ \/ /\ config # NoFile => config.version = 2
          /\ Goto("read")
          /\ UNCHANGED <<diskVars, loading, env, cfg, boot, tx, engine>>
       \/ /\ config = Torn
          /\ LoadFails
          /\ UNCHANGED <<config, backups, schema>>
       \/ /\ config \notin {NoFile, Torn} /\ config.version < 2
          /\ \/ /\ backups' = [backups EXCEPT ![BackupSlot] = config]
                /\ Goto("rewrite")
                /\ UNCHANGED <<files, config, envFile, marker, schema, starts,
                               loading, env, cfg, boot, tx, engine>>
             \/ /\ \E bad \in Damaged(config) : backups' = [backups EXCEPT ![BackupSlot] = bad]
                /\ LoadFails
                /\ UNCHANGED <<config, schema>>

\* The migrated configuration overwrites the old one in place.
RewriteConfig ==
    /\ pc = "rewrite"
    /\ \/ /\ config' = Migrated
          /\ Goto("read")
          /\ UNCHANGED <<files, backups, envFile, marker, schema, starts,
                         loading, env, cfg, boot, tx, engine>>
       \/ /\ config' \in Damaged(Migrated)
          /\ LoadFails
          /\ UNCHANGED <<backups, schema>>

\* The rest of Load. RunBootstrap's check of the files it has written wants a
\* provider and the base agent.
ReadConfig ==
    /\ pc = "read"
    /\ IF loading = "validate"
         THEN LET found == Load(files, env)
              IN  IF DOMAIN found.providers # {} /\ found.base
                    THEN /\ Goto("commit")
                         /\ UNCHANGED <<diskVars, loading, env, cfg, boot, tx, engine>>
                    ELSE BootstrapFails /\ UNCHANGED <<config, backups, schema>>
         ELSE /\ cfg' = Load(files, env)
              /\ Goto("wire")
              /\ UNCHANGED <<diskVars, loading, env, boot, tx, engine>>

\* One of the files cannot be read.
ReadFails ==
    /\ pc = "read"
    /\ LoadFails
    /\ UNCHANGED <<config, backups, schema>>
-----------------------------------------------------------------------------
(***************************************************************************)
(* InitSecurity, the database's migrations and InitEngine.                 *)
(***************************************************************************)
Wire ==
    /\ pc = "wire"
    /\ IF BuildProvider(cfg) = <<>>
         THEN Fatal /\ UNCHANGED <<config, backups, schema>>
         ELSE /\ wired' = InitSecurity(cfg, marker)
              /\ pc' = IF loading = "start" THEN "schema" ELSE "engine"
              /\ UNCHANGED <<diskVars, loading, env, cfg, boot, tx, engine, call>>

\* One migration, in a transaction.
MigrateSchema ==
    /\ pc = "schema" /\ tx = 0
    /\ \/ /\ schema = 2
          /\ Goto("engine")
          /\ UNCHANGED tx
       \/ /\ schema < 2
          /\ tx' = schema + 1
          /\ UNCHANGED <<pc, wired, call>>
    /\ UNCHANGED <<diskVars, loading, env, cfg, boot, engine>>

\* An error of the database ends the program; an open transaction is rolled back.
SchemaFails ==
    /\ pc = "schema"
    /\ Fatal
    /\ UNCHANGED <<config, backups, schema>>

\* The version is stamped within the transaction: the tables and the stamp are
\* committed together.
CommitMigration ==
    /\ pc = "schema" /\ tx # 0
    /\ schema' = tx
    /\ tx' = 0
    /\ UNCHANGED <<files, config, backups, envFile, marker, starts, pc, loading, env, cfg,
                   boot, engine, wired, call>>

\* A mutated form: a skill that cannot be loaded, and one that is loaded already
\* cannot, gets no tools.
SkillToolsIfLoaded(old) == {<<"skill", s>> : s \in Skills \ old}

\* The skills' runtime outlives the engine: at the second time each is "already loaded",
\* and its tools are registered all the same.
SkillTools(old) == {<<"skill", s>> : s \in Skills}

InitEngine ==
    /\ pc = "engine"
    /\ engine' = [tools |-> {<<"core", "">>} \cup SkillTools(engine.loaded),
                  loaded |-> Skills, connecting |-> Servers, connected |-> {},
                  names |-> PromptNames(files, cfg)]
    /\ Goto(IF loading = "start" /\ ~ marker THEN "setup" ELSE "mcp")
    /\ UNCHANGED <<diskVars, loading, env, cfg, boot, tx>>
-----------------------------------------------------------------------------
(***************************************************************************)
(* RunBootstrap.                                                           *)
(***************************************************************************)
Template == Config(0, "template")

\* The template is copied where there is no config.yaml; a missing template is not an
\* error, a failed copy is.
Infrastructure ==
    /\ pc = "setup"
    /\ \/ /\ config' \in IF config = NoFile THEN {NoFile, Template} ELSE {config}
          /\ Goto("asking")
          /\ UNCHANGED <<files, backups, envFile, marker, schema, starts,
                         loading, env, cfg, boot, tx, engine>>
       \/ /\ config = NoFile /\ config' \in Damaged(Template)
          /\ BootstrapFails
          /\ UNCHANGED <<backups, schema>>

\* The questions are asked through the engine, and so are the user's answers.
BootstrapSend ==
    /\ pc = "asking"
    /\ \E private \in BOOLEAN : Ask("chat", private)
    /\ UNCHANGED <<diskVars, procVars>>

\* The reply is a question, to which the user answers; a blocked request's is taken
\* for one.
AnswerQuestion ==
    /\ pc = "asking" /\ call # None /\ call.outcome \in {"reply", "blocked"}
    /\ call' = None
    /\ UNCHANGED <<diskVars, procVars, wired>>

\* The reply has the answers' summary in it, and the user confirms it.
ConfirmSummary ==
    /\ pc = "asking" /\ call # None /\ call.outcome = "reply"
    /\ \E s \in Summaries :
         boot' = [summary |-> s, keys |-> RequiredEnvVars(s), written |-> 0]
    /\ call' = None
    /\ pc' = "keys"
    /\ UNCHANGED <<diskVars, loading, env, cfg, tx, engine, wired>>

\* The user does not confirm it: the program ends.
CancelSetup ==
    /\ pc = "asking" /\ call # None /\ call.outcome = "reply"
    /\ Off
    /\ UNCHANGED diskVars

\* The engine's error, or the end of the input.
IdentityFails ==
    /\ pc = "asking" /\ call # None /\ call.at = "done"
    /\ BootstrapFails
    /\ UNCHANGED <<config, backups, schema>>

\* A key is skipped, or set in the process and saved; saving it may fail.
CollectKey ==
    /\ pc = "keys" /\ boot.keys # <<>>
    /\ LET key == Head(boot.keys)
       IN  \/ UNCHANGED <<env, envFile>>
           \/ env' = [env EXCEPT ![key] = starts] /\ UNCHANGED envFile
           \/ /\ env' = [env EXCEPT ![key] = starts]
              /\ envFile' = [envFile EXCEPT ![key] = starts]
    /\ boot' = [boot EXCEPT !.keys = Tail(@)]
    /\ UNCHANGED <<files, config, backups, marker, schema, starts, pc, loading, cfg, tx,
                   engine, wired, call>>

KeysFail ==
    /\ pc = "keys" /\ boot.keys # <<>>
    /\ BootstrapFails
    /\ UNCHANGED <<config, backups, schema>>

\* One of the files of writeBootstrapResults; a file that is there is replaced.
WriteResult ==
    /\ pc = "keys" /\ boot.keys = <<>>
    /\ LET steps == WriteSteps(boot.summary)
       IN  \/ /\ boot.written < Len(steps)
              /\ files' = [files EXCEPT ![steps[boot.written + 1]] =
                                          FileContent(boot.summary, steps[boot.written + 1])]
              /\ boot' = [boot EXCEPT !.written = @ + 1]
              /\ UNCHANGED <<pc, loading>>
           \/ /\ boot.written = Len(steps)
              /\ pc' = "migrate" /\ loading' = "validate"
              /\ UNCHANGED <<files, boot>>
    /\ UNCHANGED <<config, backups, envFile, marker, schema, starts, env, cfg, tx, engine,
                   wired, call>>

WriteFails ==
    /\ \/ pc = "keys" /\ boot.keys = <<>> /\ boot.written < Len(WriteSteps(boot.summary))
       \/ pc = "commit"
    /\ BootstrapFails
    /\ UNCHANGED <<config, backups, schema>>

\* A mutated form: the program goes on with what was wired before.
CommitWithoutReload ==
    /\ pc = "commit"
    /\ marker' = TRUE
    /\ boot' = NoBoot
    /\ pc' = "mcp" /\ UNCHANGED loading
    /\ UNCHANGED <<files, config, backups, envFile, schema, starts, env, cfg, tx, engine,
                   wired, call>>

\* The marker, and the reload in main.
Commit ==
    /\ pc = "commit"
    /\ marker' = TRUE
    /\ boot' = NoBoot
    /\ pc' = "migrate" /\ loading' = "reload"
    /\ UNCHANGED <<files, config, backups, envFile, schema, starts, env, cfg, tx, engine,
                   wired, call>>
-----------------------------------------------------------------------------
(***************************************************************************)
(* InitMCP, and the program at work.                                       *)
(***************************************************************************)
\* A server that refuses the connection, or does not list its tools, is skipped. For one
\* that does not answer InitMCP waits without a limit: its context has no deadline.
ConnectServer ==
    /\ pc = "mcp"
    /\ \E server \in engine.connecting :
         \E ok \in BOOLEAN :
           engine' = [engine EXCEPT
                        !.connecting = @ \ {server},
                        !.connected = IF ok THEN @ \cup {server} ELSE @,
                        !.tools = IF ok THEN @ \cup {<<"mcp", server>>} ELSE @]
    /\ UNCHANGED <<diskVars, pc, loading, env, cfg, boot, tx, wired, call>>

\* A mutated form: the program waits for a server that was skipped.
RunWhenConnected ==
    /\ pc = "mcp" /\ engine.connected = Servers
    /\ Goto("running")
    /\ UNCHANGED <<diskVars, loading, env, cfg, boot, tx, engine>>

Run ==
    /\ pc = "mcp" /\ engine.connecting = {}
    /\ Goto("running")
    /\ UNCHANGED <<diskVars, loading, env, cfg, boot, tx, engine>>

Send ==
    /\ pc = "running"
    /\ \E kind \in {"chat", "stream"}, private \in BOOLEAN : Ask(kind, private)
    /\ UNCHANGED <<diskVars, procVars>>

Answered ==
    /\ pc = "running" /\ call # None /\ call.at = "done"
    /\ call' = None
    /\ UNCHANGED <<diskVars, procVars, wired>>

Route == RoutingStep /\ UNCHANGED <<diskVars, procVars>>

Interrupt == Cancel /\ UNCHANGED <<diskVars, procVars>>

\* The steps the program takes by itself.
ProgramStep ==
    \/ MigrateConfig \/ RewriteConfig \/ ReadConfig \/ ReadFails
    \/ Wire \/ MigrateSchema \/ SchemaFails \/ CommitMigration \/ InitEngine
    \/ Infrastructure \/ WriteResult \/ WriteFails \/ Commit
    \/ Run \/ Route

\* Those the user takes, or that wait for one.
UserStep ==
    \/ Start \/ Stop \/ Interrupt
    \/ BootstrapSend \/ AnswerQuestion \/ ConfirmSummary \/ CancelSetup \/ IdentityFails
    \/ CollectKey \/ KeysFail
    \/ Send \/ Answered

Next == ProgramStep \/ ConnectServer \/ UserStep

\* The program does not stop in the middle of a step of its own, and the requests it
\* makes have timeouts; nothing is assumed of the user or of the MCP servers.
Spec == Init /\ [][Next]_vars /\ WF_vars(ProgramStep)
-----------------------------------------------------------------------------
(***************************************************************************)
(* Properties.                                                             *)
(***************************************************************************)
\* What each variable may hold.
TypeOK ==
    /\ \A n \in Names : 
          files[n] # NoFile => /\ files[n].key \in KeyVars \cup {""}
                               /\ files[n].type \in {"openai_compatible", "ollama"}
    /\ \A p \in Paths \ Names : files[p] \in Summaries \cup {NoFile}
    /\ config \in Configs /\ backups \in [0..1 -> Configs]
    /\ envFile \in [KeyVars -> 0..MaxStarts] /\ env \in [KeyVars -> 0..MaxStarts]
    /\ marker \in BOOLEAN /\ starts \in 0..MaxStarts
    /\ schema \in Versions /\ tx \in Versions
    /\ pc \in {"off", "migrate", "rewrite", "read", "wire", "schema", "engine", "setup",
               "asking", "keys", "commit", "mcp", "running"}
    /\ loading \in {"start", "validate", "reload"}
    /\ boot.summary \in Summaries \cup {None}
    /\ wired # None => wired.mode \in Modes
    /\ pc = "off" => wired = None /\ call = None /\ cfg = None

\* The user's settings, once they carry a version, are never lost: through migrations,
\* killed writes and later starts that find damage, config.yaml or a backup has them
\* ("backs up to config.yaml.bak.v{N}" before it migrates).
SettingsKept ==
    \E copy \in {config, backups[0], backups[1]} :
      copy # NoFile /\ copy.settings = "user" /\ copy.version > 0

KeepsSettings == [][SettingsKept => SettingsKept']_vars

\* What files make of the program once setup is done: the values of keys apart, which
\* may be skipped and set later.
ProfileMade(on) ==
    LET found == Load(on, NoKeys)
    IN  [security |-> InitSecurity(found, TRUE), names |-> PromptNames(on, found),
         rest |-> found.rest, telegram |-> found.telegram]

\* The files of s, where nothing was before.
FilesOf(s) ==
    [p \in Paths |->
        IF p \in Names /\ ~ \E i \in DOMAIN s.providers : s.providers[i].name = p
          THEN NoFile ELSE FileContent(s, p)]

ProfileOf(s) == ProfileMade(FilesOf(s))

Confirmed == IF boot.summary = None THEN None ELSE ProfileOf(boot.summary)
InForce == IF marker THEN ProfileMade(files) ELSE None

\* First-time setup is all or nothing: the marker comes after every file, so a start that
\* finds it finds the whole of one confirmed summary and nothing of an earlier
\* attempt that was interrupted.
Promise == INSTANCE Setup WITH
    Profiles  <- {ProfileOf(s) : s \in Summaries},
    confirmed <- Confirmed,
    inForce   <- InForce

SetupIsAtomic == Promise!Spec

\* The gate's flag tells of the provider the request goes to first: two functions find it,
\* each in its own way, also in the files an interrupted attempt has left.
FlagMatchesChain ==
    wired # None => (wired.isLocal <=> wired.chain[1].type = "ollama")

\* A program that is set up runs as its files say, in the start that set it up too: the
\* hosts allowed for setup are refused again, and the keys are those just typed.
RunsAsSetUp ==
    pc = "running" /\ marker =>
      /\ wired = InitSecurity(Load(files, env), TRUE)
      /\ engine.names = PromptNames(files, Load(files, env))

\* The tools offered to the model are all there whichever way the program came up.
ToolsComplete ==
    pc = "running" =>
      engine.tools = {<<"core", "">>} \cup {<<"skill", s>> : s \in Skills}
                       \cup {<<"mcp", m>> : m \in engine.connected}

\* A start comes to its end, or to the user's turn, whatever fails on the way, unless it
\* waits for ever for an MCP server that does not answer.
StartEnds ==
    []<>(pc = "mcp" => engine.connecting = {})
      => (pc = "migrate" ~> pc \in {"off", "asking", "keys", "running"})

\* A request is answered in the end, through all its retries and providers.
RequestEnds == (call # None) ~> (call = None \/ call.at = "done")
=============================================================================
