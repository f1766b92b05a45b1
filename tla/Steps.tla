-------------------------------- MODULE Steps --------------------------------
(***************************************************************************)
(* What a worker of processor.go does with one message: the loop over      *)
(* config.Steps, and in each step the filters of filters.go, the selection *)
(* of fields, the annotators of annotators.go and the receivers of         *)
(* receivers.go.  Pipeline.RunSteps stands for a whole run of this module, *)
(* Pipeline.Stop also for a run that panics.                               *)
(*                                                                         *)
(* A message is the set of its fields; what a field contains matters only  *)
(* in that MessageText and TailCode may be empty, so a field is mapped to  *)
(* what wrote its value: the step (0 before the first), and its source, an *)
(* annotator, or Tar1090 about an aircraft that it does not know, whose    *)
(* position is zeros.  A step is a record:                                 *)
(* the modules it configures, those whose settings are incomplete or       *)
(* malformed (no prompt, no URL, a bad template, a regex LoadConfig did    *)
(* not compile), those that have FilterOnFailure, the SelectedFields of    *)
(* its filter, the SelectedFields of each annotator, and the field Discord *)
(* colours its embed by.                                                   *)
(***************************************************************************)
EXTENDS Integers, Sequences, FiniteSets, Functions

CONSTANTS
  StepConfigs,  \* the configurations considered: sequences of steps
  SourceField,  \* the fields of a prepared ACARS or VDLM2 message
  MessageText, TailCode,             \* two common fields among them
  AdsbField, LlmField, Tar1090Field, \* the fields each annotator adds
  NoField,      \* no EmbedColorGradientField is set
  Hanging       \* modules whose remote call may never return (may be {})

Filterer  == {"Builtin", "OllamaFilter", "OpenAI"}
Annotator == {"ADSB", "OllamaAnnotator", "Tar1090"}
Receiver  == {"Discord", "NewRelic", "Webhook", "Mastodon"}
Module    == Filterer \cup Annotator \cup Receiver

\* The body of the loop over the steps, as the places it passes.
Order == <<"Builtin", "OllamaFilter", "OpenAI", "Select",
           "ADSB", "OllamaAnnotator", "Tar1090",
           "Discord", "NewRelic", "Webhook", "Mastodon">>

Place(x) == CHOOSE p \in 1..Len(Order) : Order[p] = x

SelectAt == Place("Select")

Field == SourceField \cup AdsbField \cup LlmField \cup Tar1090Field

\* What wrote a field.
Unknown == "Unknown"   \* Tar1090, about an aircraft it does not know
Source  == "Source"
Writer  == Annotator \cup {Unknown, Source}

ProcessingStep ==
  [modules : SUBSET Module, broken : SUBSET Module,
   onFailure : SUBSET Filterer, selected : SUBSET Field,
   wants : [Annotator -> SUBSET Field], gradient : Field \cup {NoField}]

ASSUME StepsAssumption ==
  /\ StepConfigs \subseteq Seq(ProcessingStep)
  /\ NoField \notin Field
  /\ {MessageText, TailCode} \subseteq SourceField
  /\ {MessageText, TailCode} \cap (AdsbField \cup LlmField \cup Tar1090Field) = {}
  /\ Hanging \subseteq Module

VARIABLES
  steps,     \* config.Steps
  step, at,  \* the current step, and the place in Order
  status,    \* "open", "filtered", "finished", or "dead" after a panic
  m,         \* message.APMessage: its fields, each with what wrote it
  arrived,   \* history: the fields it had before the first step
  empty,     \* which of MessageText and TailCode are blank in this message
  drop,      \* the filter of this step said to filter the message
  calls,     \* history: <<step, module>> of every call made
  made,      \* history: how many calls were made
  errors,    \* history: the calls that returned an error
  answered   \* history: <<step, annotator>> of the calls that got data

vars == <<steps, step, at, status, m, arrived, empty, drop, calls, made, errors, answered>>

-----------------------------------------------------------------------------
Init ==
  /\ steps \in StepConfigs
  /\ step = 1 /\ at = 1
  /\ status = IF steps = <<>> THEN "finished" ELSE "open"
  /\ \E F \in SUBSET SourceField : m = [f \in F |-> [step |-> 0, by |-> Source]]
  /\ arrived = DOMAIN m
  /\ empty \in SUBSET {MessageText, TailCode}
  /\ drop = FALSE
  /\ calls = {} /\ made = 0 /\ errors = {} /\ answered = {}

Config == steps[step]

\* GetAPMessageCommonFieldAsString: "" for a field that is not there.
HasContent(f) == f \in DOMAIN m /\ f \notin empty

\* The loop is at module x of a step.
Reached(x) == status = "open" /\ Order[at] = x

\* Go on after place p of the step: to the next place, step or the end.
ContinueAfter(p) ==
  IF p < Len(Order)
    THEN at' = p + 1 /\ UNCHANGED <<step, status>>
  ELSE IF step < Len(steps)
    THEN at' = 1 /\ step' = step + 1 /\ UNCHANGED status
  ELSE status' = "finished" /\ UNCHANGED <<step, at>>

Called(x) == calls' = calls \cup {<<step, x>>} /\ made' = made + 1

Failed(x, error) ==
  errors' = IF error THEN errors \cup {<<step, x>>} ELSE errors

BugWaitConfigured(x) ==
  /\ Reached(x)
  /\ x \notin Config.modules
  /\ UNCHANGED vars

\* "if !x.Configured() { continue }"
Skip(x) ==
  /\ Reached(x)
  /\ x \notin Config.modules
  /\ ContinueAfter(at)
  /\ UNCHANGED <<steps, m, arrived, empty, drop, calls, made, errors, answered>>

\* A nil response or an empty list of choices is dereferenced: the worker
\* panics, and the process with it.
Panic(x) ==
  /\ x \in Config.modules
  /\ status' = "dead"
  /\ Called(x)
  /\ UNCHANGED <<steps, step, at, m, arrived, empty, drop, errors, answered>>

-----------------------------------------------------------------------------
(* Filters.                                                                *)

Result(d, e) == [drop |-> d, error |-> e]
Decisions    == {Result(TRUE, FALSE), Result(FALSE, FALSE)}
Failure(x)   == Result(x \in Config.onFailure, TRUE)

\* Errors of criteria are collected and the other criteria still decide.
BuiltinResults == Decisions \cup {Failure("Builtin"), Result(TRUE, TRUE)}

BugIgnoreFailure ==
  IF ~HasContent(MessageText) THEN {Result(TRUE, FALSE)}
  ELSE Decisions \cup {Result(FALSE, TRUE)}

OllamaFilterResults ==
  IF "OllamaFilter" \in Config.broken THEN {Result(FALSE, TRUE)}
  ELSE IF ~HasContent(MessageText) THEN {Result(TRUE, FALSE)}
  ELSE Decisions \cup {Failure("OllamaFilter")}

OpenAIResults ==
  IF ~HasContent(MessageText) THEN {Result(TRUE, FALSE)}
  ELSE Decisions \cup {Failure("OpenAI")}

FilterResults(x) == CASE x = "Builtin" -> BuiltinResults
                      [] x = "OllamaFilter" -> OllamaFilterResults
                      [] x = "OpenAI" -> OpenAIResults

BugOneFilterOnly(x) ==
  /\ Reached(x) /\ x \in Config.modules
  /\ \E r \in FilterResults(x) :
       /\ drop' = r.drop
       /\ Failed(x, r.error)
       /\ at' = SelectAt
  /\ Called(x)
  /\ UNCHANGED <<steps, step, status, m, arrived, empty, answered>>

\* log.Fatal: a configured regex is missing from the cache LoadConfig built.
FatalBuiltin ==
  Reached("Builtin") /\ "Builtin" \in Config.broken /\ Panic("Builtin")

\* The first filter that says to drop the message ends the loop over them.
CallFilter(x) ==
  /\ Reached(x) /\ x \in Config.modules
  /\ \E r \in FilterResults(x) :
       /\ drop' = r.drop
       /\ Failed(x, r.error)
       /\ at' = IF r.drop THEN SelectAt ELSE at + 1
  /\ Called(x)
  /\ UNCHANGED <<steps, step, status, m, arrived, empty, answered>>

PanicOpenAI == Reached("OpenAI") /\ HasContent(MessageText) /\ Panic("OpenAI")

BugSelectOnlyIfKept ==
  /\ Reached("Select")
  /\ m' = IF Config.selected = {} \/ drop THEN m
          ELSE Restrict(m, Config.selected \cap DOMAIN m)
  /\ IF drop THEN status' = "filtered" /\ UNCHANGED <<step, at>>
             ELSE ContinueAfter(at)
  /\ UNCHANGED <<steps, arrived, empty, drop, calls, made, errors, answered>>

BugNoBreak ==
  /\ Reached("Select")
  /\ m' = IF Config.selected = {} THEN m
          ELSE Restrict(m, Config.selected \cap DOMAIN m)
  /\ ContinueAfter(at)
  /\ UNCHANGED <<steps, arrived, empty, drop, calls, made, errors, answered>>

\* The end of FilterStep.Filter: the fields that were not selected are
\* deleted, from a message that is dropped too; then the loop goes on or
\* breaks.
SelectFields ==
  /\ Reached("Select")
  /\ m' = IF Config.selected = {} THEN m
          ELSE Restrict(m, Config.selected \cap DOMAIN m)
  /\ IF drop THEN status' = "filtered" /\ UNCHANGED <<step, at>>
             ELSE ContinueAfter(at)
  /\ UNCHANGED <<steps, arrived, empty, drop, calls, made, errors, answered>>

-----------------------------------------------------------------------------
(* Annotators.                                                             *)

\* A map of fields written in this step, and MergeAPMessages.
Written(F, by) == [f \in F |-> [step |-> step, by |-> by]]
Merge(m1, m2) ==
  [f \in DOMAIN m1 \cup DOMAIN m2 |-> IF f \in DOMAIN m2 THEN m2[f] ELSE m1[f]]

BugMergeOver(by) == Merge(Written(Tar1090Field, by), m)

\* What each annotator returns when it got data.  AnnotateStep.Annotate then
\* merges it over the message.  Tar1090 reads a list of all aircraft, and for
\* one that is not on it answers with the zero values of every field.
AdsbAnswer ==
  Written(IF Config.wants["ADSB"] = {} THEN AdsbField
          ELSE AdsbField \cap Config.wants["ADSB"], "ADSB")
OllamaAnswer      == Merge(Written(LlmField, "OllamaAnnotator"), m)
Tar1090Answer(by) == Merge(m, Written(Tar1090Field, by))

Answers(x) == CASE x = "ADSB" -> {AdsbAnswer}
                [] x = "OllamaAnnotator" -> {OllamaAnswer}
                [] x = "Tar1090" -> {Tar1090Answer(by) : by \in {"Tar1090", Unknown}}

\* An annotator does nothing for a message without the field it needs.
Subject(x) == IF x = "OllamaAnnotator" THEN MessageText ELSE TailCode

CanAsk(x) == HasContent(Subject(x)) /\ x \notin Config.broken

\* Does it return an error when it got no data?  Bad coordinates are found
\* out before the tail code is looked at, a missing prompt after the text.  A
\* failed request is an error for the position services only, an empty list
\* of aircraft for none: ADSB reports no error, Tar1090 answers with zeros.
NoAnswerErrors(x) ==
  IF x \in Config.broken
    THEN {x = "OllamaAnnotator" => HasContent(MessageText)}
  ELSE IF x = "OllamaAnnotator" \/ ~HasContent(TailCode) THEN {FALSE}
  ELSE IF x = "ADSB" THEN BOOLEAN ELSE {TRUE}

\* Errors are logged and the message goes on as it was.
CallAnnotator(x) ==
  /\ Reached(x) /\ x \in Config.modules
  /\ \/ /\ CanAsk(x)
        /\ \E answer \in Answers(x) : m' = Merge(m, answer)
        /\ answered' = answered \cup {<<step, x>>}
        /\ UNCHANGED errors
     \/ \E error \in NoAnswerErrors(x) :
          /\ Failed(x, error)
          /\ UNCHANGED <<m, answered>>
  /\ Called(x)
  /\ ContinueAfter(at)
  /\ UNCHANGED <<steps, arrived, empty, drop>>

PanicAdsb == Reached("ADSB") /\ CanAsk("ADSB") /\ Panic("ADSB")

-----------------------------------------------------------------------------
(* Receivers.                                                              *)

\* Does Send return an error?  Always if the settings are incomplete; else the
\* request may fail, but for Discord and the webhook a refusal of the service
\* (a status of 4xx or 5xx) is none, and for New Relic only the timeout is.
\* Discord also fails on a gradient field that is not a number.
DiscordErrors  == IF "Discord" \in Config.broken THEN {TRUE} ELSE BOOLEAN
NewRelicErrors == IF "NewRelic" \in Config.broken THEN {TRUE} ELSE BOOLEAN
WebhookErrors  == IF "Webhook" \in Config.broken THEN {TRUE} ELSE BOOLEAN
MastodonErrors == IF "Mastodon" \in Config.broken THEN {TRUE} ELSE BOOLEAN

SendErrors(x) == CASE x = "Discord" -> DiscordErrors
                   [] x = "NewRelic" -> NewRelicErrors
                   [] x = "Webhook" -> WebhookErrors
                   [] x = "Mastodon" -> MastodonErrors

BugSendAgain(x) ==
  /\ Reached(x) /\ x \in Config.modules
  /\ \E error \in SendErrors(x) :
       /\ Failed(x, error)
       /\ IF error THEN UNCHANGED <<step, at, status>> ELSE ContinueAfter(at)
  /\ Called(x)
  /\ UNCHANGED <<steps, m, arrived, empty, drop, answered>>

\* The first receiver that returns an error ends the loop over them.
CallReceiver(x) ==
  /\ Reached(x) /\ x \in Config.modules
  /\ \E error \in SendErrors(x) :
       /\ Failed(x, error)
       /\ ContinueAfter(IF error THEN Len(Order) ELSE at)
  /\ Called(x)
  /\ UNCHANGED <<steps, m, arrived, empty, drop, answered>>

\* The gradient field is there and holds neither an int nor a string.
PanicDiscord ==
  /\ Reached("Discord")
  /\ Config.gradient \in DOMAIN m /\ "Discord" \notin Config.broken
  /\ Panic("Discord")

-----------------------------------------------------------------------------
CallModule(x) ==
  \/ x \in Filterer /\ CallFilter(x)
  \/ x \in Annotator /\ CallAnnotator(x)
  \/ x \in Receiver /\ CallReceiver(x)

Next ==
  \/ \E x \in Module : Skip(x) \/ CallModule(x)
  \/ SelectFields
  \/ FatalBuiltin \/ PanicOpenAI \/ PanicAdsb \/ PanicDiscord

Spec == Init /\ [][Next]_vars

\* The worker's goroutine is scheduled; a call that may hang may not return.
FairSpec ==
  /\ Spec
  /\ WF_vars(SelectFields)
  /\ \A x \in Module : WF_vars(Skip(x))
  /\ \A x \in Module \ Hanging : WF_vars(CallModule(x))

-----------------------------------------------------------------------------
(* Properties.                                                             *)

StepNumber == UNION {DOMAIN s : s \in StepConfigs}

\* Every variable has its type; no field was written in a later step.
TypeOK ==
  /\ steps \in StepConfigs
  /\ step \in Nat \ {0} /\ (status = "open" => step \in DOMAIN steps)
  /\ at \in 1..Len(Order)
  /\ status \in {"open", "filtered", "finished", "dead"}
  /\ m \in [DOMAIN m -> [step : 0..step, by : Writer]] /\ DOMAIN m \subseteq Field
  /\ arrived \subseteq SourceField
  /\ empty \subseteq {MessageText, TailCode}
  /\ drop \in BOOLEAN
  /\ calls \subseteq StepNumber \X Module /\ made \in Nat
  /\ errors \subseteq calls /\ answered \subseteq calls

\* The SelectedFields of step i have been applied to the message.
Selected(i) ==
  i < step \/ (i = step /\ (at > SelectAt \/ status = "filtered"))

Keeps(i, f) == steps[i].selected = {} \/ f \in steps[i].selected

\* Whatever the annotators between them add and the filters decide, what the
\* next module sees is what the SelectedFields of the steps passed so far
\* leave over: a field is there only if each of them kept it, unless it was
\* written after it, and a field of the source is gone only if one did not.
SelectionIsExact ==
  /\ \A i \in DOMAIN steps, f \in DOMAIN m :
       Selected(i) => Keeps(i, f) \/ m[f].step >= i
  /\ \A f \in arrived :
       (\A i \in DOMAIN steps : Selected(i) => Keeps(i, f)) => f \in DOMAIN m

\* The loop is past the place of module x in step i.
Passed(i, x) ==
  i < step \/ status = "finished" \/ (i = step /\ at > Place(x))

\* No module is left out: while the message is not dropped every configured
\* filter, annotator and receiver of the steps and places passed was called,
\* except the receivers after one that failed in the same step.
NothingLeftOut ==
  ~drop => \A i \in DOMAIN steps : \A x \in steps[i].modules :
    Passed(i, x) =>
      \/ <<i, x>> \in calls
      \/ x \in Receiver /\ \E y \in Receiver :
           Place(y) < Place(x) /\ <<i, y>> \in errors

\* A step that filters the message neither annotates nor sends it.
FilteredIsNotSent ==
  drop => \A c \in calls : c[1] = step => c[2] \in Filterer

\* The steps implement the abstract run of a message.
AllCalls  == StepNumber \X Module
CallOrder == {p \in AllCalls \X AllCalls :
                \/ p[1][1] < p[2][1]
                \/ p[1][1] = p[2][1] /\ Place(p[1][2]) < Place(p[2][2])}

Run == INSTANCE MessageRun WITH
         Call <- AllCalls, Precedes <- CallOrder, fate <- status

ImplementsRun == Run!Spec

\* The calls made so far lie before the current place.
CallsBehind ==
  status = "open" => \A c \in calls :
    c[1] < step \/ (c[1] = step /\ Place(c[2]) < at)

\* A filter that drops the message leads to the selection and no further.
DropAtSelect == drop => at = SelectAt /\ status \in {"open", "filtered"}

\* An inductive invariant.
IInv ==
  /\ TypeOK /\ CallsBehind /\ DropAtSelect
  /\ SelectionIsExact /\ NothingLeftOut /\ FilteredIsNotSent

\* The run of the steps ends, unless a call never returns.
StuckInCall ==
  status = "open" /\ Order[at] \in Hanging /\ Order[at] \in Config.modules

RunEnds == <>(status # "open" \/ StuckInCall)

\* "The filters take FilterOnFailure into account": a filter that returns an
\* error and has FilterOnFailure filters the message, whatever the filters
\* before it said and whichever of its ways to fail it took.  The one that
\* does not is the Ollama filter without a model or a prompt.
FailureFilters ==
  \A c \in errors : c[2] \in steps[c[1]].onFailure =>
    \/ drop /\ step = c[1]
    \/ c[2] = "OllamaFilter" /\ c[2] \in steps[c[1]].broken

FieldsOf(x) == CASE x = "ADSB" -> AdsbField
                 [] x = "OllamaAnnotator" -> LlmField
                 [] x = "Tar1090" -> Tar1090Field

\* "Only provide these fields to future steps": what the configuration wants an
\* annotator to provide.
Wanted(i, x) ==
  IF steps[i].wants[x] = {} THEN FieldsOf(x) ELSE FieldsOf(x) \cap steps[i].wants[x]

\* The annotators of the current step have run, and its receivers not all.
AtReceivers == status = "open" /\ at >= Place("Discord")

\* The value was written by annotator x in the current step.
WrittenBy(value, x) ==
  /\ value.step = step
  /\ value.by = x \/ (x = "Tar1090" /\ value.by = Unknown)

\* An answer of this step is in the message, field by field, with two exceptions:
\* Ollama does not replace what another step or ADSB wrote, and Tar1090 replaces
\* whatever is there, with zeros too.
AnswersKept ==
  \A x \in Annotator : <<step, x>> \in answered =>
    \A f \in Wanted(step, x) :
      /\ f \in DOMAIN m
      /\ \/ WrittenBy(m[f], x)
         \/ x = "OllamaAnnotator" /\ (m[f].step < step \/ WrittenBy(m[f], "ADSB"))
         \/ <<step, "Tar1090">> \in answered /\ WrittenBy(m[f], "Tar1090")

\* What was written in this step was written by an annotator that answered.
NewIsAnswered ==
  \A f \in DOMAIN m : m[f].step = step =>
    \E x \in Annotator : <<step, x>> \in answered /\ WrittenBy(m[f], x)

\* What the receivers of a step see of the answers it got: whatever fields the
\* annotators share and in whichever order each of them merges, every wanted
\* field of an answer is there, with the value of that very answer, unless it is
\* one of Ollama's that had a value before, or Tar1090 answered too and
\* overwrote it.
AnswersArrive == AtReceivers => AnswersKept

\* A second inductive invariant, for errors and answers: both hold from the
\* first place of a step on, when it has neither asked nor written anything.
AnswerIInv == FailureFilters /\ (status = "open" => AnswersKept /\ NewIsAnswered)
=============================================================================
