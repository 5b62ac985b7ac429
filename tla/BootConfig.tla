----------------------------- MODULE BootConfig ------------------------------
(***************************************************************************)
(* What is computed from configuration files and from the user's answers:  *)
(* the summary's defaults, the files it is written to, the hosts they      *)
(* allow, and the chain of providers, the gate and the guard they make.    *)
(*                                                                         *)
(* The answers are a record of what the model wrote in its JSON block, ""  *)
(* where a field was left out. A file written from them stands for the     *)
(* whole record; its reader projects what the file holds.                  *)
(***************************************************************************)
EXTENDS Integers, Sequences, FiniteSets

CONSTANTS
    NameOrder,    \* the names of provider files, in the order sort.Strings gives
    KeyVars,      \* the environment variables that hold keys
    Answers,      \* what the model may conclude from the user's answers
    NoFile        \* the content of a file that is not there

Names == {NameOrder[i] : i \in DOMAIN NameOrder}

\* Provider files are in a directory of their own.
OtherPaths == {"user.md", "identity.yaml", "base.yaml", "rest.yaml", "telegram.yaml",
               "network.yaml"}
Paths == OtherPaths \cup Names

ASSUME NamesAreOrdered ==
    /\ NameOrder \in Seq(STRING)
    /\ Cardinality(Names) = Len(NameOrder)
    /\ Names \cap OtherPaths = {}

\* The template of the questions names the types and the modes; "" is a field that was
\* left out.
ProviderTypes == {"openai", "openai_compatible", "ollama"}
Modes == {"strict", "warn", "permissive", "disabled"}

Answer ==
    LET provider == [name : Names \cup {""}, type : ProviderTypes \cup {""}, host : STRING,
                     key : KeyVars \cup {""}]
    IN  [user : STRING, agent : STRING, mode : Modes \cup {""},
         provider : provider, providers : Seq(provider),
         telegram : BOOLEAN, telegramKey : STRING, rest : BOOLEAN, restKey : STRING]

ASSUME AnswersAssumption ==
    /\ Answers \subseteq Answer
    /\ "default" \in Names
    /\ "OPENAI_API_KEY" \in KeyVars

\* True of every string; the provers do not know it of a literal.
ASSUME HostsAreStrings == {"localhost", "api.openai.com"} \subseteq STRING

\* What the writer of the answers' files relies on: two providers of one list are
\* never both left without a name, nor given the same one.
ASSUME NamesAreDistinct ==
    \A a \in Answers : \A i, j \in DOMAIN a.providers :
        a.providers[i].name = a.providers[j].name => i = j

\* The elements of s at the places in the set at, in their order.
Picked(s, at) ==
    [k \in 1..Cardinality(at) |->
        s[CHOOSE i \in at : Cardinality({j \in at : j <= i}) = k]]
-----------------------------------------------------------------------------
(***************************************************************************)
(* BootstrapSummary.applyDefaults.                                         *)
(***************************************************************************)
Or(value, default) == IF value = "" THEN default ELSE value

ProviderDefaults(p) ==
    LET type == Or(p.type, "openai_compatible")
    IN  [name |-> Or(p.name, "default"),
         type |-> type,
         host |-> Or(p.host, IF type = "ollama" THEN "localhost" ELSE "api.openai.com"),
         key  |-> Or(p.key, IF type = "openai" THEN "OPENAI_API_KEY" ELSE "")]

\* With no list the fields of a single provider make one of their own.
ApplyDefaults(a) ==
    [a EXCEPT !.mode = Or(@, "disabled"),
              !.agent = Or(@, "GoGoClaw Assistant"),
              !.restKey = Or(@, "GOGOCLAW_REST_API_KEY"),
              !.providers = IF @ = <<>>
                              THEN <<ProviderDefaults([a.provider EXCEPT !.name = "default"])>>
                              ELSE [i \in DOMAIN @ |-> ProviderDefaults(@[i])]]

Summaries == {ApplyDefaults(a) : a \in Answers}

ProviderFiles == [type : {"openai_compatible", "ollama"}, host : STRING,
                  key : KeyVars \cup {""}]

\* A file that is there is told from one that is not.
ASSUME NoFileAssumption == NoFile \notin Summaries \cup ProviderFiles

ChainOf(s) == [i \in DOMAIN s.providers |-> s.providers[i].name]

\* The variables the user is asked for, in the order of the questions.
RequiredEnvVars(s) ==
    LET wanted == [i \in DOMAIN s.providers |-> s.providers[i].key]
                    \o <<IF s.telegram THEN s.telegramKey ELSE "">>
                    \o <<IF s.rest THEN s.restKey ELSE "">>
        first == {i \in DOMAIN wanted :
                    wanted[i] # "" /\ \A j \in 1..(i - 1) : wanted[j] # wanted[i]}
    IN  Picked(wanted, first)
-----------------------------------------------------------------------------
(***************************************************************************)
(* The files writeBootstrapResults writes, one after the other.            *)
(***************************************************************************)
\* A mutated form: network.yaml is left to the template.
StepsWithoutNetwork(s) ==
    <<"user.md", "identity.yaml">> \o ChainOf(s) \o <<"base.yaml", "rest.yaml", "telegram.yaml">>

\* A mutated form: the chain is written before its providers.
StepsChainFirst(s) ==
    <<"user.md", "identity.yaml", "base.yaml">> \o ChainOf(s)
      \o <<"rest.yaml", "telegram.yaml", "network.yaml">>

WriteSteps(s) ==
    <<"user.md", "identity.yaml">> \o ChainOf(s)
      \o <<"base.yaml", "rest.yaml", "telegram.yaml", "network.yaml">>

\* A mutated form: the type is written as the model gave it.
ProviderFileAsGiven(s, n) ==
    LET p == s.providers[CHOOSE i \in DOMAIN s.providers : s.providers[i].name = n]
    IN  [type |-> p.type, host |-> p.host, key |-> p.key]

\* What the provider named n becomes in its file; "openai" is written as the
\* type makeProvider knows.
ProviderFile(s, n) ==
    LET p == s.providers[CHOOSE i \in DOMAIN s.providers : s.providers[i].name = n]
    IN  [type |-> IF p.type = "openai" THEN "openai_compatible" ELSE p.type,
         host |-> p.host, key |-> p.key]

FileContent(s, path) == IF path \in Names THEN ProviderFile(s, path) ELSE s

NetworkHosts(s) ==
    {"localhost", "127.0.0.1"} \cup {s.providers[i].host : i \in DOMAIN s.providers}
      \cup (IF s.telegram THEN {"api.telegram.org"} ELSE {})
-----------------------------------------------------------------------------
(***************************************************************************)
(* Loader.Load, after the migration of config.yaml, and InitSecurity.      *)
(***************************************************************************)
\* ${NAME} in a provider's file is replaced when it is read.
Load(files, env) ==
    LET present == {n \in Names : files[n] # NoFile}
        base    == files["base.yaml"]
    IN  [providers |-> [n \in present |->
                          [type |-> files[n].type, host |-> files[n].host,
                           apiKey |-> IF files[n].key = "" THEN 0 ELSE env[files[n].key]]],
         base |-> base # NoFile,
         agent |-> IF base = NoFile THEN "" ELSE base.agent,
         chain |-> IF base = NoFile THEN <<>> ELSE ChainOf(base),
         mode  |-> IF base = NoFile THEN "disabled" ELSE base.mode,
         hosts |-> IF files["network.yaml"] = NoFile
                     THEN {"localhost", "127.0.0.1"} ELSE NetworkHosts(files["network.yaml"]),
         rest  |-> IF files["rest.yaml"] = NoFile THEN FALSE ELSE files["rest.yaml"].rest,
         telegram |-> IF files["telegram.yaml"] = NoFile \/ ~ files["telegram.yaml"].telegram
                        THEN "" ELSE Or(files["telegram.yaml"].telegramKey,
                                        "GOGOCLAW_TELEGRAM_TOKEN")]

PreBootstrapHosts ==
    {"api.openai.com", "api.anthropic.com", "api.groq.com",
     "generativelanguage.googleapis.com", "api.mistral.ai", "api.together.xyz"}

Present(names, cfg) ==
    Picked(names, {i \in DOMAIN names : names[i] \in DOMAIN cfg.providers})

Usable(cfg) ==
    Picked(NameOrder, {i \in DOMAIN NameOrder :
                         NameOrder[i] \in DOMAIN cfg.providers \ {"example"}})

\* The providers of the chain that have a file, in order; all of them, sorted, when
\* there is none. An empty result is an error.
BuildProvider(cfg) ==
    LET named  == Present(cfg.chain, cfg)
        chosen == IF named # <<>> THEN named ELSE Usable(cfg)
    IN  [i \in DOMAIN chosen |-> cfg.providers[chosen[i]]]

\* The providers the gate's flag may be taken from: the chain's first when it has a
\* file, else all of them.
FirstProvider(cfg) ==
    IF cfg.chain # <<>> /\ cfg.chain[1] \in DOMAIN cfg.providers
      THEN <<cfg.chain[1]>>
      ELSE Usable(cfg)

IsLocal(cfg) ==
    LET first == FirstProvider(cfg)
    IN  first # <<>> /\ cfg.providers[first[1]].type = "ollama"

InitSecurity(cfg, bootstrapped) ==
    [chain   |-> BuildProvider(cfg),
     mode    |-> cfg.mode,
     isLocal |-> IsLocal(cfg),
     allow   |-> cfg.hosts \cup IF bootstrapped THEN {} ELSE PreBootstrapHosts]

\* What ResolvePromptVars puts in the system prompt: the identity's names, or those of
\* the two files that hold one each.
PromptNames(files, cfg) ==
    LET id == files["identity.yaml"]
    IN  [agent |-> IF id # NoFile THEN id.agent ELSE cfg.agent,
         user  |-> CASE id # NoFile -> id.user
                     [] id = NoFile /\ files["user.md"] # NoFile -> files["user.md"].user
                     [] OTHER -> ""]
=============================================================================
