---------------------------- MODULE BuiltinFilter ----------------------------
(***************************************************************************)
(* BuiltinFilter.Filter of filter_builtin.go: which criteria of a step are *)
(* evaluated, against which fields of the message, and how their results,  *)
(* Invert and FilterOnFailure make one decision.  The criteria run in the  *)
(* configuration LoadConfig prepared (RegexCache), on a message Prepare    *)
(* made (APMessage) and annotators may have added to; the longest phrase   *)
(* of a text is counted by DictionaryPhrase.                               *)
(*                                                                         *)
(* A step of the configuration is a record: its FilterOnFailure and Invert *)
(* flags, the nonzero settings of its criteria, the lists of the two       *)
(* regular expression criteria and the count of the first.  A text is a    *)
(* record: whether it is blank or starts with DISP, which terms it         *)
(* contains, which patterns match it, and its words.  Whether a text is    *)
(* similar to an earlier one is decided in SimilarityFilter.               *)
(***************************************************************************)
EXTENDS APMessage, RegexCache, DictionaryPhrase

CONSTANTS
  Messages,      \* the received messages considered
  Annotations,   \* what annotators may have merged into one
  Selections,    \* the SelectedFields of the two connections
  FreetextTerms  \* the list freetextTerms

VARIABLES
  selected,      \* ACARSHub.ACARS.SelectedFields, ACARSHub.VDLM2.SelectedFields
  stepNumber,    \* the step whose filter is called
  received, m,   \* the message as it was received, and as an APMessage
  field,         \* the criterion that is next
  call,          \* "none", "criteria", "phrase", "done", or "fatal"
  filterThisMessage,
  errs           \* did the call collect an error?

callVars    == <<selected, stepNumber, received, m, field, call,
                 filterThisMessage, errs>>
builtinVars == <<cacheVars, phraseVars, callVars>>

\* The fields of the struct that are criteria, in their order.
Fields ==
  <<"HasText", "TailCode", "Labels", "FlightNumber", "ASSStatus",
    "AboveSignaldBm", "BelowSignaldBm", "Frequency", "StationID", "FromTower",
    "FromAircraft", "More", "AboveDistanceNm", "BelowDistanceNm",
    "AboveDistanceMi", "BelowDistanceMi", "Emergency",
    "DictionaryPhraseLengthMinimum", "FreetextTermPresent",
    "PreviousMessageSimilarity", "RequireAllTerms", "RequireTerms",
    "RequireAllRegexMatches", "RequireRegexMatches",
    "LLMProcessedNumberAbove", "LLMProcessedNumberBelow">>

\* Three of them have no function of their name in BuiltinFilterFunctions
\* (the two for the signal are there as AboveMinimumSignal and
\* BelowMaximumSignal, names that no field has).
Unknown == {"AboveSignaldBm", "BelowSignaldBm", "Emergency"}

Filter == config[stepNumber]

NonZeroFields(f) ==
  DOMAIN f.set
    \cup (IF f.terms # <<>> \/ f.count # 0 THEN {"RequireRegexMatches"} ELSE {})
    \cup (IF f.allTerms # <<>> THEN {"RequireAllRegexMatches"} ELSE {})

\* Fields of a struct have the types of filter_builtin.go, and what f.set holds
\* is not the zero value.
SettingsTyped(f) ==
  /\ f.onFailure \in BOOLEAN /\ f.invert \in BOOLEAN /\ f.count \in Int
  /\ DOMAIN f.set \subseteq
       Range(Fields) \ {"RequireRegexMatches", "RequireAllRegexMatches"}
  /\ "FromAircraft" \in DOMAIN f.set => f.set["FromAircraft"] \in BOOLEAN
  /\ "ASSStatus" \in DOMAIN f.set => f.set["ASSStatus"] # ""
  /\ "Frequency" \in DOMAIN f.set => f.set["Frequency"] \in Int \ {0}
  /\ \A c \in DOMAIN f.set \cap {"AboveDistanceMi", "BelowDistanceMi"} : f.set[c] \in Int
  /\ "RequireTerms" \in DOMAIN f.set =>
       LET required == f.set["RequireTerms"]
       IN required.terms \in Seq(Range(required.terms)) /\ required.count \in Int

\* Of the fields a criterion reads, the annotators add a distance in miles (a
\* float64) and the number a model gave (an int), and overwrite none.
ASSUME BuiltinAssumption ==
  /\ \A r \in Messages :
       r.text.words \in Seq(BOOLEAN) /\ r.text.blank \in BOOLEAN
       /\ r.khz \in Int /\ r.signal \in Int
  /\ \A a \in Annotations :
       /\ DOMAIN a \subseteq {"AircraftDistanceMi", "LLMProcessedNumber"}
       /\ "AircraftDistanceMi" \in DOMAIN a =>
            a["AircraftDistanceMi"].type = "float64" /\ a["AircraftDistanceMi"].v \in Int
       /\ "LLMProcessedNumber" \in DOMAIN a => a["LLMProcessedNumber"].type = "int"
  /\ FreetextTerms \in Seq(Range(FreetextTerms))
  /\ \A c \in Configs : \A s \in DOMAIN c : SettingsTyped(c[s])

\* The first criterion after place p that f configures; Len + 1 if none.
FieldAfter(f, p) ==
  CHOOSE q \in (p + 1)..(Len(Fields) + 1) :
    /\ q <= Len(Fields) => Fields[q] \in NonZeroFields(f)
    /\ \A k \in (p + 1)..(q - 1) : Fields[k] \notin NonZeroFields(f)

-----------------------------------------------------------------------------
(* The functions of the criteria: TRUE is "filter this message".           *)

FreetextTermPresent(t) == RequireN(FreetextTerms, t.terms, 1) \/ t.disp

\* HasText does not look at its setting.
TextFilters(f, c) ==
  LET t == AsText(m) IN
  CASE c = "HasText" -> t.blank
    [] c = "FreetextTermPresent" -> f.set[c] # FreetextTermPresent(t)
    [] c = "RequireAllTerms" -> ~RequireAll(f.set[c], t.terms)
    [] c = "RequireTerms" -> ~RequireN(f.set[c].terms, t.terms, f.set[c].count)
    [] c = "RequireRegexMatches" -> ~RequireN(f.terms, t.hits, f.count)
    [] c = "RequireAllRegexMatches" -> ~RequireAll(f.allTerms, t.hits)

OriginFilters(f, c) ==
  CASE c = "TailCode" -> f.set[c] # AsTail(m)
    [] c = "FlightNumber" -> f.set[c] # AsString(m, "FlightNumber")
    [] c = "StationID" -> f.set[c] # AsString(m, "StationId")
    [] c = "Labels" -> AsString(m, "Label") \notin f.set[c]
    [] c = "ASSStatus" -> f.set[c] # AsString(m, "ASSStatus")
    [] c = "FromTower" -> f.set[c] # Blank(AsString(m, "FlightNumber"))
    [] c = "FromAircraft" -> f.set[c] # ~Blank(AsString(m, "FlightNumber"))
    [] c = "More" -> ~AsBoolean(m, "More")

\* The setting, in thousandths, is compared with the frequency in Hz.
FrequencyFilters(setting) ==
  LET mhz == AsFloat64(m, "FrequencyMHz")
      hz  == AsFloat64(m, "FrequencyHz")
  IN /\ mhz # 0 \/ hz # 0
     /\ setting # 1000 * (IF hz = 0 THEN 1000 * mhz ELSE hz)

Inside(f, c, distance) ==
  IF c \in {"AboveDistanceNm", "AboveDistanceMi"}
    THEN distance >= f.set[c] ELSE distance <= f.set[c]

DistanceOf(c) ==
  AsFloat64(m, IF c \in {"AboveDistanceNm", "BelowDistanceNm"}
                 THEN "AircraftDistanceNm" ELSE "AircraftDistanceMi")

\* A distance of zero stands for one nobody has found out.
DistanceFilters(f, c) == DistanceOf(c) # 0 /\ ~Inside(f, c, DistanceOf(c))

NumberFilters(f, c) ==
  LET number == AsInt(m, "LLMProcessedNumber") IN
  CASE c = "Frequency" -> FrequencyFilters(f.set[c])
    [] c = "LLMProcessedNumberAbove" -> ~(number > f.set[c])
    [] c = "LLMProcessedNumberBelow" -> ~(number < f.set[c])

OfText   == {"HasText", "FreetextTermPresent", "RequireAllTerms",
             "RequireTerms", "RequireRegexMatches", "RequireAllRegexMatches"}
OfOrigin == {"TailCode", "FlightNumber", "StationID", "Labels", "ASSStatus",
             "FromTower", "FromAircraft", "More"}
OfNumber == {"Frequency", "LLMProcessedNumberAbove", "LLMProcessedNumberBelow"}
OfDistance == {"AboveDistanceNm", "BelowDistanceNm",
               "AboveDistanceMi", "BelowDistanceMi"}

\* What the function of criterion c may return.  FilterSimilarAPMessage never
\* returns an error, and filters nothing when Similarity is 0.
Results(f, c) ==
  IF c \in OfText THEN {TextFilters(f, c)}
  ELSE IF c \in OfOrigin THEN {OriginFilters(f, c)}
  ELSE IF c \in OfNumber THEN {NumberFilters(f, c)}
  ELSE IF c \in OfDistance THEN {DistanceFilters(f, c)}
  ELSE {FALSE, f.set[c].similarity # 0}

\* The lookup of criterion c in the cache is fatal.
Fatal(f, c) ==
  \/ c = "RequireRegexMatches" /\ FatalN(f.terms, AsText(m).hits, f.count)
  \/ c = "RequireAllRegexMatches" /\ FatalAll(f.allTerms, AsText(m).hits)

-----------------------------------------------------------------------------
(* One call.                                                               *)

BuiltinInit ==
  /\ CacheInit
  /\ wordSlice = <<>> /\ idx = 0 /\ consecutive = 0 /\ maxConsecutive = 0
  /\ selected \in Selections
  /\ stepNumber = 0 /\ received = <<>> /\ m = <<>> /\ field = 0
  /\ call = "none"
  /\ filterThisMessage = FALSE /\ errs = FALSE

Load == LoadConfig /\ UNCHANGED <<phraseVars, callVars>>

Begin(s, r, a) ==
  /\ load = "loaded" /\ call = "none"
  /\ stepNumber' = s
  /\ received' = r
  /\ m' = MergeAPMessages(Prepare(r, selected), a)
  /\ field' = FieldAfter(config[s], 0)
  /\ call' = "criteria"
  /\ filterThisMessage' = FALSE /\ errs' = FALSE
  /\ UNCHANGED <<cacheVars, phraseVars, selected>>

AtField(c) ==
  call = "criteria" /\ field <= Len(Fields) /\ Fields[field] = c

BugStay == field' = field

Proceed == field' = FieldAfter(Filter, field)

BugInvertOnce(result) ==
  filterThisMessage' = IF Filter.invert THEN ~(filterThisMessage \/ result)
                       ELSE filterThisMessage \/ result

\* Invert turns the result of each criterion round, and then they are joined.
Join(result) ==
  filterThisMessage' = (filterThisMessage \/ (result # Filter.invert))

BugInvertFailure(c) ==
  /\ c \in Unknown /\ AtField(c)
  /\ errs' = TRUE
  /\ filterThisMessage' = (filterThisMessage \/ (Filter.onFailure # Filter.invert))
  /\ Proceed
  /\ UNCHANGED <<cacheVars, phraseVars, selected, stepNumber, received, m, call>>

\* A criterion without a function: an error, and the message is filtered if
\* FilterOnFailure says so, inverted or not.
TryUnknown(c) ==
  /\ c \in Unknown /\ AtField(c)
  /\ errs' = TRUE
  /\ filterThisMessage' = (filterThisMessage \/ Filter.onFailure)
  /\ Proceed
  /\ UNCHANGED <<cacheVars, phraseVars, selected, stepNumber, received, m, call>>

Evaluate(c) ==
  /\ c \notin Unknown \cup {"DictionaryPhraseLengthMinimum"} /\ AtField(c)
  /\ ~Fatal(Filter, c)
  /\ \E result \in Results(Filter, c) : Join(result)
  /\ Proceed
  /\ UNCHANGED <<cacheVars, phraseVars, selected, stepNumber, received, m, call, errs>>

\* log.Fatal in a lookup ends the process.
FatalLookup(c) ==
  /\ AtField(c) /\ Fatal(Filter, c)
  /\ call' = "fatal"
  /\ UNCHANGED <<cacheVars, phraseVars, selected, stepNumber, received, m, field,
                 filterThisMessage, errs>>

\* LongestDictionaryWordPhraseLength: started, a word at a time, and compared.
StartPhrase ==
  /\ AtField("DictionaryPhraseLengthMinimum")
  /\ PhraseStart(AsText(m).words)
  /\ call' = "phrase"
  /\ UNCHANGED <<cacheVars, selected, stepNumber, received, m, field,
                 filterThisMessage, errs>>

NextWord ==
  /\ call = "phrase" /\ LookAtWord
  /\ UNCHANGED <<cacheVars, callVars>>

PhraseFilters(minimum) == maxConsecutive < minimum

EndPhrase ==
  /\ call = "phrase" /\ PhraseDone
  /\ Join(PhraseFilters(Filter.set["DictionaryPhraseLengthMinimum"]))
  /\ call' = "criteria"
  /\ Proceed
  /\ UNCHANGED <<cacheVars, phraseVars, selected, stepNumber, received, m, errs>>

Return ==
  /\ call = "criteria" /\ field > Len(Fields)
  /\ call' = "done"
  /\ UNCHANGED <<cacheVars, phraseVars, selected, stepNumber, received, m, field,
                 filterThisMessage, errs>>

\* The caller has the result, and the variables of the call are gone.
Leave ==
  /\ call = "done"
  /\ call' = "none"
  /\ stepNumber' = 0 /\ received' = <<>> /\ m' = <<>> /\ field' = 0
  /\ filterThisMessage' = FALSE /\ errs' = FALSE
  /\ PhraseStart(<<>>)
  /\ UNCHANGED <<cacheVars, selected>>

Progress ==
  \/ \E c \in Range(Fields) : TryUnknown(c) \/ Evaluate(c) \/ FatalLookup(c)
  \/ StartPhrase \/ NextWord \/ EndPhrase \/ Return \/ Leave

BuiltinNext ==
  \/ Load \/ Progress
  \/ \E s \in DOMAIN config, r \in Messages, a \in Annotations : Begin(s, r, a)

\* The goroutine of the worker is scheduled, and so is main while it loads.
BuiltinSpec ==
  /\ BuiltinInit /\ [][BuiltinNext]_builtinVars
  /\ WF_builtinVars(Load) /\ WF_builtinVars(Progress)

-----------------------------------------------------------------------------
(* What the configuration documents say a criterion means, over the message*)
(* as it was received and what the annotators found out about it.  No      *)
(* message has an emergency flag or a distance in nautical miles.          *)

Has(a, name)    == name \in DOMAIN a
HasNumber       == Has(m, "LLMProcessedNumber")
KnownDistance(name) == Has(m, name) /\ m[name].v # 0

HasFreetext(t) == Range(FreetextTerms) \cap t.terms # {} \/ t.disp

\* At least n entries of the list are among the hits.
AtLeast(n, list, hits) == Cardinality({i \in DOMAIN list : list[i] \in hits}) >= n

Meets(f, c) ==
  LET r == received
      t == received.text
  IN CASE c = "HasText" -> ~t.blank
       [] c = "TailCode" -> f.set[c] = [dots |-> 0, code |-> r.tail.code]
       [] c = "Labels" -> r.label \in f.set[c]
       [] c = "FlightNumber" -> r.flight = f.set[c]
       [] c = "StationID" -> r.station = f.set[c]
       [] c = "FromTower" -> f.set[c] = Blank(r.flight)
       [] c = "FromAircraft" -> f.set[c] # Blank(r.flight)
       [] c = "ASSStatus" -> r.kind = "ACARS" /\ r.assStatus = f.set[c]
       [] c = "More" -> r.kind = "VDLM2" /\ r.more
       [] c = "Frequency" -> r.khz = f.set[c]
       [] c = "AboveSignaldBm" -> r.signal > f.set[c]
       [] c = "BelowSignaldBm" -> r.signal < f.set[c]
       [] c = "AboveDistanceMi" -> m["AircraftDistanceMi"].v > f.set[c]
       [] c = "BelowDistanceMi" -> m["AircraftDistanceMi"].v < f.set[c]
       [] c = "FreetextTermPresent" -> f.set[c] = HasFreetext(t)
       [] c = "RequireAllTerms" -> Range(f.set[c]) \subseteq t.terms
       [] c = "RequireTerms" -> AtLeast(f.set[c].count, f.set[c].terms, t.terms)
       [] c = "RequireAllRegexMatches" -> Range(f.allTerms) \subseteq t.hits
       [] c = "RequireRegexMatches" -> AtLeast(f.count, f.terms, t.hits)
       [] c = "LLMProcessedNumberAbove" -> m["LLMProcessedNumber"].v > f.set[c]
       [] c = "LLMProcessedNumberBelow" -> m["LLMProcessedNumber"].v < f.set[c]

\* The field of the message a criterion reads, if a source provides it.
Reads(c) == CASE c \in OfText -> "MessageText"
              [] c = "TailCode" -> "TailCode"
              [] c \in {"FlightNumber", "FromTower", "FromAircraft"} -> "FlightNumber"
              [] c = "StationID" -> "StationId"
              [] c = "Labels" -> "Label"

Selected(name) == selected["ACARS"] = {} \/ name \in selected["ACARS"]

\* Where the code does what is documented: the field has to be selected for
\* the ACARS connection (for both formats), a VDLM2 tail code may have two
\* dots in front of it, HasText must not be false, a list must not be empty,
\* a number or a distance must be there, and the distance not the very limit.
AsDocumented(f, c) ==
  /\ c \in OfText \cup OfOrigin => Selected(Reads(c))
  /\ c = "HasText" => f.set[c]
  /\ c = "TailCode" => received.kind = "ACARS" \/ received.tail.dots <= 2
  /\ c = "RequireTerms" => f.set[c].terms # <<>>
  /\ c = "RequireRegexMatches" => f.terms # <<>>
  /\ c \in {"AboveDistanceMi", "BelowDistanceMi"} =>
       KnownDistance("AircraftDistanceMi") /\ m["AircraftDistanceMi"].v # f.set[c]
  /\ c \in {"LLMProcessedNumberAbove", "LLMProcessedNumberBelow"} => HasNumber

Documented ==
  (OfText \cup OfOrigin \cup OfNumber \cup OfDistance)
    \ {"ASSStatus", "More", "Frequency", "AboveDistanceNm", "BelowDistanceNm"}

Done == call = "done"

-----------------------------------------------------------------------------
(* Properties.                                                             *)

\* Every variable of the call has its type.
BuiltinTypeOK ==
  /\ CacheTypeOK /\ PhraseTypeOK
  /\ selected \in Selections
  /\ call \in {"none", "criteria", "phrase", "done", "fatal"}
  /\ call = "none" => stepNumber = 0
  /\ call # "none" =>
       /\ stepNumber \in DOMAIN config /\ received \in Messages
       /\ field \in 1..(Len(Fields) + 1)
  /\ filterThisMessage \in BOOLEAN /\ errs \in BOOLEAN

\* "Only process messages that ..." and "Inverse logic": a message of either
\* format, prepared, selected from and annotated, is filtered exactly when it
\* misses one of the criteria, or meets one of them if the filter is inverted.
FilterMeansWhatItSays ==
  Done /\ (\A c \in NonZeroFields(Filter) :
             c \in Documented /\ AsDocumented(Filter, c)) =>
    (filterThisMessage <=>
       \E c \in NonZeroFields(Filter) : Meets(Filter, c) = Filter.invert)

\* "Whether or not to filter the message if the filter has an error": a
\* criterion without a function is an error of the call, and FilterOnFailure
\* filters every message then, whatever the other criteria and Invert say.
UnknownFollowsFailure ==
  Done /\ NonZeroFields(Filter) \cap Unknown # {} =>
    /\ errs
    /\ Filter.onFailure => filterThisMessage

\* A lookup is fatal only in a configuration that repeats a pattern, and
\* after it in one list of RequireRegexMatches.
FatalOnlyAfterRepeat ==
  call = "fatal" =>
    \E j \in DOMAIN Filter.terms :
      Filter.terms[j] \notin compiled /\ LeftBefore(stepNumber, j)

-----------------------------------------------------------------------------
(* An inductive invariant: a call has decided the criteria it has passed.  *)

Passed == {Fields[q] : q \in 1..(field - 1)} \cap NonZeroFields(Filter)

\* The results with which criterion c may, or must, filter the message.
MayFilter(c) ==
  IF c \in Unknown THEN Filter.onFailure
  ELSE \/ c = "DictionaryPhraseLengthMinimum"
       \/ \E result \in Results(Filter, c) : result # Filter.invert

MustFilter(c) ==
  IF c \in Unknown THEN Filter.onFailure
  ELSE /\ c # "DictionaryPhraseLengthMinimum"
       /\ \A result \in Results(Filter, c) : result # Filter.invert

\* The place of the call, and the message it works on.
CallPlace ==
  /\ field \in 1..(Len(Fields) + 1)
  /\ field <= Len(Fields) => Fields[field] \in NonZeroFields(Filter)
  /\ call = "phrase" => /\ field <= Len(Fields)
                        /\ Fields[field] = "DictionaryPhraseLengthMinimum"
  /\ call = "done" => field > Len(Fields)
  /\ received \in Messages
  /\ \E a \in Annotations : m = MergeAPMessages(Prepare(received, selected), a)

\* filterThisMessage and errs follow from the criteria passed, and from no other.
CallDecided ==
  /\ errs <=> Passed \cap Unknown # {}
  /\ filterThisMessage => \E c \in Passed : MayFilter(c)
  /\ (\E c \in Passed : MustFilter(c)) => filterThisMessage

CriteriaIInv ==
  /\ filterThisMessage \in BOOLEAN /\ errs \in BOOLEAN
  /\ call \in {"none", "criteria", "phrase", "done", "fatal"}
  /\ call \in {"criteria", "phrase", "done"} => CallPlace /\ CallDecided

-----------------------------------------------------------------------------
(* Liveness.                                                               *)

\* A call of the filter returns, or ends the process.
FilterReturns == call = "criteria" ~> call \in {"done", "fatal"}

-----------------------------------------------------------------------------
(* What the documents say and the code does not do.                        *)

\* "Only process messages received on this frequency", "that have ASS Status",
\* "that have the More flag set", "received above this signal strength" or below
\* it: a filter that has only such criteria stops a message exactly when the
\* message misses one of them.
CriteriaAreApplied ==
  Done /\ ~Filter.invert
       /\ NonZeroFields(Filter) \subseteq
            {"Frequency", "ASSStatus", "More", "AboveSignaldBm", "BelowSignaldBm"} =>
    (filterThisMessage <=> \E c \in NonZeroFields(Filter) : ~Meets(Filter, c))
=============================================================================
