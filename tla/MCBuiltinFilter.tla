--------------------------- MODULE MCBuiltinFilter ---------------------------
(* Configurations and messages for the runs of BuiltinFilter. *)
EXTENDS BuiltinFilter, TLC

MCPattern   == {"p", "q", "r", "bad"}
MCMalformed == {"bad"}
MCFreetext  == <<"THANKS", "PAX">>

-----------------------------------------------------------------------------
(* Filters.                                                                *)

Regexes(terms, count, all) ==
  [onFailure |-> FALSE, invert |-> FALSE, set |-> <<>>,
   terms |-> terms, count |-> count, allTerms |-> all]

Set(settings) == [Regexes(<<>>, 0, <<>>) EXCEPT !.set = settings]

\* A criterion of each sort, alone or with others.
Plain ==
  {Set([HasText |-> TRUE]),
   Set([HasText |-> FALSE]),
   Set([TailCode |-> [dots |-> 0, code |-> "N1"], HasText |-> TRUE]),
   Set([FlightNumber |-> "AB1", Labels |-> {"H1"}]),
   Set([StationID |-> "S1", FromTower |-> TRUE]),
   Set([FromAircraft |-> TRUE]),
   Set([FromTower |-> FALSE, FreetextTermPresent |-> TRUE]),
   Set([ASSStatus |-> "ok"]),
   Set([More |-> TRUE]),
   Set([Frequency |-> 2]),
   Set([Frequency |-> 2000000]),
   Set([AboveDistanceMi |-> 10, BelowDistanceMi |-> 20]),
   Set([BelowDistanceMi |-> 15, AboveDistanceNm |-> 5]),
   Set([AboveDistanceNm |-> 5, BelowDistanceNm |-> 9]),
   Set([Emergency |-> TRUE, HasText |-> TRUE]),
   Set([AboveSignaldBm |-> -4, BelowSignaldBm |-> -2]),
   Set([DictionaryPhraseLengthMinimum |-> 2]),
   Set([DictionaryPhraseLengthMinimum |-> 3, FreetextTermPresent |-> FALSE]),
   Set([PreviousMessageSimilarity |-> [similarity |-> 9]]),
   Set([RequireAllTerms |-> <<"LAV", "PAX">>]),
   Set([RequireTerms |-> [terms |-> <<"LAV", "PAX", "TEA">>, count |-> 2]]),
   Set([RequireTerms |-> [terms |-> <<>>, count |-> 1]]),
   Set([LLMProcessedNumberAbove |-> 40, LLMProcessedNumberBelow |-> 60]),
   Regexes(<<"p", "q">>, 1, <<"r">>),
   Regexes(<<"p", "q", "r">>, 2, <<>>)}

WithFlags ==
  {[f EXCEPT !.onFailure = o, !.invert = i] :
     f \in Plain, o \in BOOLEAN, i \in BOOLEAN}

\* Two steps that share patterns, lists that repeat one, a malformed one.
WithRepeats ==
  {<<Regexes(<<"p">>, 1, <<>>), Regexes(<<"p", "q">>, 2, <<"p">>)>>,
   <<Regexes(<<>>, 0, <<"p", "q">>), Regexes(<<"r", "q">>, 1, <<"q", "r">>)>>,
   <<Regexes(<<"q", "q", "bad">>, 1, <<>>)>>,
   <<Regexes(<<"p", "p", "q">>, 3, <<"r">>), Regexes(<<"q">>, 1, <<>>)>>,
   <<Regexes(<<"p", "bad">>, 1, <<>>)>>,
   <<Regexes(<<>>, 0, <<"p", "p">>), Regexes(<<"q">>, 1, <<"bad">>)>>,
   <<Regexes(<<"q", "p">>, 1, <<"q">>), Regexes(<<"q">>, 1, <<"r">>)>>}

MCConfigs == {<<f>> : f \in WithFlags} \cup WithRepeats

-----------------------------------------------------------------------------
(* Messages.                                                               *)

Words(w) == [NoText EXCEPT !.blank = FALSE, !.words = w]

\* Every text of up to four words, and longer ones with three chains.
WordTexts ==
  {Words(w) : w \in UNION {[1..n -> BOOLEAN] : n \in 1..4}}
    \cup {Words(<<TRUE, TRUE, FALSE, TRUE, FALSE, TRUE, TRUE>>),
          Words(<<TRUE, FALSE, TRUE, FALSE, TRUE, FALSE>>),
          Words(<<TRUE, TRUE, FALSE, TRUE, FALSE, TRUE>>)}

OtherTexts ==
  {NoText,
   [NoText EXCEPT !.hits = {"p"}],
   [Words(<<TRUE, FALSE>>) EXCEPT !.terms = {"LAV", "PAX"}, !.hits = {"p", "r"}],
   [Words(<<FALSE>>) EXCEPT !.terms = {"THANKS", "TEA"}, !.hits = {"q"}],
   [Words(<<FALSE>>) EXCEPT !.disp = TRUE, !.hits = {"p", "q", "r"}]}

From(kind, text) ==
  [kind |-> kind, text |-> text, tail |-> [dots |-> 1, code |-> "N1"],
   flight |-> "AB1", station |-> "S1", label |-> "H1", khz |-> 2, signal |-> -3,
   assStatus |-> "ok", more |-> TRUE]

SomeText == Words(<<TRUE>>)

MCMessages ==
  {From("ACARS", t) : t \in WordTexts}
    \cup {From(k, t) : k \in {"ACARS", "VDLM2"}, t \in OtherTexts}
    \cup {[From(k, SomeText) EXCEPT !.tail.dots = d, !.flight = n] :
            k \in {"ACARS", "VDLM2"}, d \in {0, 3}, n \in {"", " ", "CD2"}}
    \cup {[From(k, SomeText) EXCEPT !.khz = 0, !.label = "SQ", !.station = "S2",
                               !.signal = -5] :
            k \in {"ACARS", "VDLM2"}}

\* No annotation, a position that is known or not, a number.
MCAnnotations ==
  {<<>>,
   [AircraftDistanceMi |-> GoFloat(0)],
   [AircraftDistanceMi |-> GoFloat(12)],
   [AircraftDistanceMi |-> GoFloat(18), LLMProcessedNumber |-> GoInt(50)],
   [LLMProcessedNumber |-> GoInt(80)]}

MCSelections ==
  {[ACARS |-> {}, VDLM2 |-> {"MessageText"}],
   [ACARS |-> {"MessageText", "FlightNumber", "FrequencyMHz"}, VDLM2 |-> {}]}
=============================================================================
