------------------------------ MODULE MCSteps ------------------------------
(* Configurations and fields for the runs of Steps.  "lat" is common to    *)
(* both position services, as ACARSProcessor.AircraftLatitude is.          *)
EXTENDS Steps

MCSource  == {"text", "tail", "label"}
MCAdsb    == {"lat", "category"}
MCLlm     == {"number", "answer"}
MCTar1090 == {"lat", "squawk"}

NoWants == [x \in Annotator |-> {}]

Plain(M) == [modules |-> M, broken |-> {}, onFailure |-> {}, selected |-> {},
             wants |-> NoWants, gradient |-> NoField]

\* Everything in one step, and one module of each kind in the next.
All == <<Plain(Module), Plain({"Builtin", "Tar1090", "Discord"})>>

\* Only SelectedFields.
SelectOnly(F) == [Plain({}) EXCEPT !.selected = F]

\* The shape of config_example.yaml: cheap filters, a position, an LLM filter
\* that drops the message if it fails, an annotation, two receivers.
Example ==
  <<[Plain({"Builtin"}) EXCEPT !.selected = {"text", "tail"}],
    Plain({"Tar1090"}),
    [Plain({"Builtin", "OllamaFilter"})
       EXCEPT !.onFailure = {"Builtin", "OllamaFilter"}],
    [Plain({"OllamaAnnotator"}) EXCEPT !.wants["OllamaAnnotator"] = {"answer"}],
    [Plain({"Discord", "Mastodon"}) EXCEPT !.gradient = "answer"]>>

\* Two annotations around a selection, and a receiver without a URL.
Twice ==
  <<[Plain({"ADSB", "OllamaAnnotator"}) EXCEPT !.wants["ADSB"] = {"lat"}],
    SelectOnly({"text", "number", "lat"}),
    [Plain({"OllamaAnnotator", "Discord", "Webhook", "Mastodon"})
       EXCEPT !.broken = {"Webhook"}]>>

\* A filter without a prompt, one without its regex, and a selection that takes the text away.
Careless ==
  <<[Plain({"OllamaFilter", "ADSB"})
       EXCEPT !.onFailure = {"OllamaFilter"}, !.broken = {"OllamaFilter", "ADSB"},
              !.selected = {"tail", "label"}],
    [Plain({"Builtin", "OpenAI", "NewRelic"})
       EXCEPT !.onFailure = {"OpenAI"}, !.broken = {"Builtin"}]>>

MCStepConfigs == {<<>>, All, Example, Twice, Careless}
=============================================================================
