----------------------------- MODULE MCLlmCall -----------------------------
(* Two filters and an annotator of Ollama, and an OpenAI filter with a     *)
(* prompt.  The Ollama filters agree on their prompt, which they leave out,*)
(* and on their timeout; one of them leaves out the number of attempts.    *)
EXTENDS LlmCall, TLC

CONSTANTS w1, w2

MCKind == [s \in {"filter1", "filter2"} |-> "filter"]
            @@ [s \in {"annotator1"} |-> "annotator"]
            @@ [s \in {"openai1"} |-> "openai"]

MCStep == DOMAIN MCKind

Settings(p, t, a) == [SystemPrompt |-> p, Timeout |-> t, MaxRetryAttempts |-> a]

MCConf == "filter1" :> Settings(0, 3, 1) @@ "filter2" :> Settings(0, 3, 0)
            @@ "annotator1" :> Settings(2, 0, 2)
            @@ "openai1" :> Settings(3, 0, 0)

MCDefault == [k \in Kind |-> Settings(1, 1, IF k = "openai" THEN 1 ELSE 2)]
=============================================================================
