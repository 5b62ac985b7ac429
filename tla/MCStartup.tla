------------------------------ MODULE MCStartup ------------------------------
(* An instance of Startup: two summaries the user may come to confirm, and the provider files
   of a local and a cloud provider to begin with. *)
EXTENDS Startup

MCNameOrder == <<"aa", "bb", "default">>
MCKeyVars == {"GROQ_API_KEY", "OPENAI_API_KEY", "GOGOCLAW_TELEGRAM_TOKEN"}

Blank == [name |-> "", type |-> "", host |-> "", key |-> ""]

\* One local provider, from the single-provider fields; strict.
LocalAnswers ==
    [user |-> "ann", agent |-> "", mode |-> "strict",
     provider |-> [Blank EXCEPT !.type = "ollama"], providers |-> <<>>,
     telegram |-> FALSE, telegramKey |-> "", rest |-> FALSE, restKey |-> ""]

\* Two cloud providers, the first with no name of its own.
CloudAnswers ==
    [user |-> "bob", agent |-> "", mode |-> "strict",
     provider |-> Blank,
     providers |-> <<[Blank EXCEPT !.type = "openai"],
                     [name |-> "bb", type |-> "openai_compatible",
                      host |-> "api.groq.com", key |-> ""]>>,
     telegram |-> TRUE, telegramKey |-> "", rest |-> FALSE, restKey |-> ""]

MCAnswers == {LocalAnswers, CloudAnswers}

\* A chain of a local provider and a cloud one to fail over to; strict.
MixedAnswers ==
    [CloudAnswers EXCEPT !.providers = <<[Blank EXCEPT !.type = "ollama"], @[2]>>]

MCMixedAnswers == {MixedAnswers}

Cloud == [type |-> "openai_compatible", host |-> "api.mistral.ai", key |-> ""]
Local == [type |-> "ollama", host |-> "localhost", key |-> ""]

MCFirstFiles == {[aa |-> Local, bb |-> Cloud]}

MCFirstConfigs == {NoFile, Config(1, "user")}
=============================================================================
