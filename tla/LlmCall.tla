------------------------------ MODULE LlmCall ------------------------------
(***************************************************************************)
(* One request to a model, as filter_ollama.go, annotator_ollama.go and    *)
(* filter_openai.go make it: the settings of the step are copied into      *)
(* package globals, read back from there, and the request is tried until   *)
(* it gets an answer, under one deadline for all tries.  Workers make such *)
(* calls at the same time, for any of the configured steps, and nothing    *)
(* guards the globals.                                                     *)
(*                                                                         *)
(* The OpenAI filter has a global for the prompt only.  It sends one       *)
(* request without a deadline, so it is a call that leaves out the other   *)
(* settings, may try once and never expires; nothing reads the Timeout of  *)
(* its configuration.  The retries inside its client are part of the       *)
(* request.                                                                *)
(*                                                                         *)
(* A call begins here after the early returns for a blank message and for  *)
(* missing settings; Steps has those, and says what becomes of the result. *)
(* The retry delay is left out: its global only shows in an error's text.  *)
(***************************************************************************)
EXTENDS Naturals, Sequences, FiniteSets

CONSTANTS
  Worker,   \* the workers of processor.go
  Step,     \* the LLM filters and annotators of the configuration
  kind,     \* [Step -> Kind]
  conf,     \* [Step -> [Setting -> Nat]]: 0 is a setting left out
  Default   \* [Kind -> [Setting -> Nat]]: the initial values of the globals

Kind    == {"filter", "annotator", "openai"}
Setting == {"SystemPrompt", "Timeout", "MaxRetryAttempts"}

\* The order in which the settings are copied, and later read.
SettingOrder == <<"SystemPrompt", "Timeout", "MaxRetryAttempts">>

\* The fields of OllamaFilterResponse and OpenAIResponse, and two of
\* OllamaAnnotatorResponse.
ResponseField == {"matches", "reasoning", "number", "text"}
FieldsOf(k) ==
  IF k = "annotator" THEN {"number", "text"} ELSE {"matches", "reasoning"}

ASSUME LlmCallAssumption ==
  /\ kind \in [Step -> Kind]
  /\ conf \in [Step -> [Setting -> Nat]]
  /\ Default \in [Kind -> [Setting -> Nat \ {0}]]
  /\ Default["openai"]["MaxRetryAttempts"] = 1
  /\ \A s \in Step : kind[s] = "openai" =>
       conf[s]["Timeout"] = 0 /\ conf[s]["MaxRetryAttempts"] = 0

VARIABLES
  global,   \* the package variables of each kind
  pc,       \* "idle", "configure", "prepare", "ask" or "done"
  step,     \* the step a worker makes its current or last call for
  next,     \* how many settings it has copied, or read, and the next one
  used,     \* the settings it read
  tries,    \* how often the request was made
  expired,  \* the deadline of the call has passed
  r,        \* the response struct: the try that wrote each field, or 0
  result,   \* "none", "answered" or "failed"
  rows,     \* how many OllamaFilterResults of the call are in the database
  row,      \* the last of them: the prompt it names and the response
  lost      \* history: the call had one to save and db.Create failed

table  == <<rows, row, lost>>
locals == <<step, next, used, tries, expired, r, result, table>>
vars   == <<global, pc, locals>>

-----------------------------------------------------------------------------
Init ==
  /\ global = Default
  /\ pc = [w \in Worker |-> "idle"]
  /\ step \in [Worker -> Step]
  /\ next = [w \in Worker |-> 1]
  /\ used = [w \in Worker |-> Default[kind[step[w]]]]
  /\ tries = [w \in Worker |-> 0]
  /\ expired = [w \in Worker |-> FALSE]
  /\ r = [w \in Worker |-> [f \in ResponseField |-> 0]]
  /\ result = [w \in Worker |-> "none"]
  /\ rows = [w \in Worker |-> 0]
  /\ row = [w \in Worker |-> [prompt |-> 0, response |-> r[w]]]
  /\ lost = [w \in Worker |-> FALSE]

\* A worker reaches an LLM module of the loop, with locals of its own.
Begin(w, s) ==
  /\ pc[w] \in {"idle", "done"}
  /\ pc' = [pc EXCEPT ![w] = "configure"]
  /\ step' = [step EXCEPT ![w] = s]
  /\ next' = [next EXCEPT ![w] = 1]
  /\ used' = [used EXCEPT ![w] = Default[kind[s]]]
  /\ tries' = [tries EXCEPT ![w] = 0]
  /\ expired' = [expired EXCEPT ![w] = FALSE]
  /\ r' = [r EXCEPT ![w] = [f \in ResponseField |-> 0]]
  /\ result' = [result EXCEPT ![w] = "none"]
  /\ rows' = [rows EXCEPT ![w] = 0]
  /\ row' = [row EXCEPT ![w] = [prompt |-> 0, response |-> r'[w]]]
  /\ lost' = [lost EXCEPT ![w] = FALSE]
  /\ UNCHANGED global

BugOneSetOfGlobals(w) == "filter"

\* Each of the three modules has globals of its own.
KindOf(w) == kind[step[w]]

\* The settings come one after the other; then the call goes on at place p.
Advance(w, p) ==
  IF next[w] < Len(SettingOrder)
    THEN next' = [next EXCEPT ![w] = next[w] + 1] /\ UNCHANGED pc
    ELSE next' = [next EXCEPT ![w] = 1] /\ pc' = [pc EXCEPT ![w] = p]

\* "if o.Timeout != 0 { OllamaFilterTimeout = o.Timeout }", and so on.
Configure(w) ==
  LET x == SettingOrder[next[w]]
      v == conf[step[w]][x]
  IN
  /\ pc[w] = "configure"
  /\ global' = IF v # 0 THEN [global EXCEPT ![KindOf(w)][x] = v] ELSE global
  /\ Advance(w, "prepare")
  /\ UNCHANGED <<step, used, tries, expired, r, result, table>>

\* The prompt goes into the request, the timeout into the context, the number
\* of attempts into retry.Do.
Prepare(w) ==
  LET x == SettingOrder[next[w]] IN
  /\ pc[w] = "prepare"
  /\ used' = [used EXCEPT ![w][x] = global[KindOf(w)][x]]
  /\ Advance(w, "ask")
  /\ UNCHANGED <<global, step, tries, expired, r, result, table>>

-----------------------------------------------------------------------------
(* The tries.                                                              *)

BugOneTryMore(w) == tries'[w] > used[w]["MaxRetryAttempts"]

\* retry.Do counts the first try as an attempt.
GivesUp(w) == tries'[w] >= used[w]["MaxRetryAttempts"]

Finish(w, res) ==
  /\ pc' = [pc EXCEPT ![w] = "done"]
  /\ result' = [result EXCEPT ![w] = res]

\* What a try leaves in the response struct, which all tries share.
Fills(w, F) ==
  r' = [r EXCEPT ![w] = [f \in ResponseField |-> IF f \in F THEN tries'[w] ELSE @[f]]]

FailedTry(w) ==
  /\ tries' = [tries EXCEPT ![w] = tries[w] + 1]
  /\ IF GivesUp(w) THEN Finish(w, "failed") ELSE UNCHANGED <<pc, result>>

\* No connection, an error status, no JSON object in the text, or the deadline
\* has passed.
Refused(w) ==
  /\ pc[w] = "ask"
  /\ FailedTry(w)
  /\ UNCHANGED <<global, step, next, used, expired, r, table>>

\* db.Create of the decision: the row keeps the response, and the prompt as it
\* is read from the global once more.  Whether it failed is not looked at.
Save(w) ==
  \E stored \in BOOLEAN :
    /\ rows' = [rows EXCEPT ![w] = IF stored THEN @ + 1 ELSE @]
    /\ row' = [row EXCEPT ![w] =
                 IF stored THEN [prompt |-> global["filter"]["SystemPrompt"],
                                 response |-> r'[w]]
                 ELSE @]
    /\ lost' = [lost EXCEPT ![w] = ~stored]

\* Only the Ollama filter saves.
SaveIfFilter(w) == IF KindOf(w) = "filter" THEN Save(w) ELSE UNCHANGED table

BugSaveFirst(w, F) ==
  /\ pc[w] = "ask" /\ ~expired[w]
  /\ F \subseteq FieldsOf(KindOf(w))
  /\ FailedTry(w)
  /\ Fills(w, F)
  /\ SaveIfFilter(w)
  /\ UNCHANGED <<global, step, next, used, expired>>

\* An answer that is rejected after it was decoded into the struct: a field has
\* the wrong type, or (annotator) the model was cut off.
Garbled(w, F) ==
  /\ pc[w] = "ask" /\ ~expired[w]
  /\ F \subseteq FieldsOf(KindOf(w))
  /\ FailedTry(w)
  /\ Fills(w, F)
  /\ UNCHANGED <<global, step, next, used, expired, table>>

\* An answer that is accepted, maybe without some of the fields.
Answered(w, F) ==
  /\ pc[w] = "ask" /\ ~expired[w]
  /\ F \subseteq FieldsOf(KindOf(w))
  /\ tries' = [tries EXCEPT ![w] = tries[w] + 1]
  /\ Fills(w, F)
  /\ SaveIfFilter(w)
  /\ Finish(w, "answered")
  /\ UNCHANGED <<global, step, next, used, expired>>

\* The client of Ollama reads no line of an answer, and reports no error: the
\* call goes on with the struct as it is, and nothing is saved.
Silent(w) ==
  /\ pc[w] = "ask" /\ ~expired[w] /\ KindOf(w) # "openai"
  /\ tries' = [tries EXCEPT ![w] = tries[w] + 1]
  /\ Finish(w, "answered")
  /\ UNCHANGED <<global, step, next, used, expired, r, table>>

BugNoDeadline(w) == FALSE /\ UNCHANGED vars

\* The one deadline of a call to Ollama passes; time is not modelled, so at any
\* moment.
Expire(w) ==
  /\ pc[w] = "ask" /\ ~expired[w] /\ KindOf(w) # "openai"
  /\ expired' = [expired EXCEPT ![w] = TRUE]
  /\ UNCHANGED <<global, pc, step, next, used, tries, r, result, table>>

Next ==
  \E w \in Worker :
    \/ \E s \in Step : Begin(w, s)
    \/ Configure(w) \/ Prepare(w)
    \/ Refused(w) \/ Silent(w) \/ Expire(w)
    \/ \E F \in SUBSET ResponseField : Garbled(w, F) \/ Answered(w, F)

Spec == Init /\ [][Next]_vars

\* The goroutine runs and the timer of the context fires; the server need
\* never answer.  Once the deadline has passed a try fails at once.
FairSpec ==
  /\ Spec
  /\ \A w \in Worker :
       /\ WF_vars(Configure(w)) /\ WF_vars(Prepare(w)) /\ WF_vars(Expire(w))
       /\ WF_vars(expired[w] /\ Refused(w))

-----------------------------------------------------------------------------
(* Properties.                                                             *)

\* Every variable has its type; a global is never reset to "left out".
TypeOK ==
  /\ global \in [Kind -> [Setting -> Nat \ {0}]]
  /\ pc \in [Worker -> {"idle", "configure", "prepare", "ask", "done"}]
  /\ step \in [Worker -> Step]
  /\ next \in [Worker -> 1..Len(SettingOrder)]
  /\ used \in [Worker -> [Setting -> Nat \ {0}]]
  /\ tries \in [Worker -> Nat]
  /\ expired \in [Worker -> BOOLEAN]
  /\ r \in [Worker -> [ResponseField -> Nat]]
  /\ result \in [Worker -> {"none", "answered", "failed"}]
  /\ rows \in [Worker -> Nat]
  /\ row \in [Worker -> [prompt : Nat, response : [ResponseField -> Nat]]]
  /\ lost \in [Worker -> BOOLEAN]

\* What the configuration says a step uses.
Own(s, x) == IF conf[s][x] # 0 THEN conf[s][x] ELSE Default[kind[s]][x]

\* All steps of the kind of s treat setting x alike.
Uniform(s, x) == \A t \in Step : kind[t] = kind[s] => conf[t][x] = conf[s][x]

Asks(w) == pc[w] \in {"ask", "done"}

\* A setting that all steps of one kind in the configuration give
\* the same value, or all leave out, has that value, or its default, in every
\* call, whatever other workers copy into the globals in the meantime.
UniformSettingsAreOwn ==
  \A w \in Worker, x \in Setting :
    Asks(w) /\ Uniform(step[w], x) => used[w][x] = Own(step[w], x)

\* A call fails only after the number of attempts it read, and never makes
\* more; where that number is the same in all steps it is the configured one.
AttemptsAreCounted ==
  \A w \in Worker : Asks(w) =>
    /\ tries[w] <= used[w]["MaxRetryAttempts"]
    /\ result[w] = "failed" => tries[w] = used[w]["MaxRetryAttempts"]
    /\ result[w] = "failed" /\ Uniform(step[w], "MaxRetryAttempts") =>
         tries[w] = Own(step[w], "MaxRetryAttempts")

\* The model answered the last try of a call of the Ollama filter.
Decided(w) ==
  /\ result[w] = "answered" /\ KindOf(w) = "filter"
  /\ \E f \in ResponseField : r[w][f] = tries[w]

\* The database tells of a call what became of it, however many tries were
\* rejected before and whatever other workers do: at most one row, only for a
\* decision, with the response the decision was taken from, and with the prompt
\* that was sent if all filters have the same; a decision has no row only if
\* the database refused it.
SavedOnce ==
  \A w \in Worker :
    /\ rows[w] <= 1
    /\ rows[w] = 1 =>
         /\ result[w] = "answered" /\ KindOf(w) = "filter"
         /\ row[w].response = r[w]
         /\ Uniform(step[w], "SystemPrompt") => row[w].prompt = used[w]["SystemPrompt"]
    /\ Decided(w) => (rows[w] = 0 <=> lost[w])

(***************************************************************************)
(* The inductive invariant: what the globals and the locals of a call say  *)
(* about each other.                                                       *)
(***************************************************************************)

\* A global has its initial value or one that a step of its kind sets.
GlobalsAreConfigured ==
  \A k \in Kind, x \in Setting :
    \/ global[k][x] = Default[k][x]
    \/ \E s \in Step : kind[s] = k /\ conf[s][x] # 0 /\ global[k][x] = conf[s][x]

\* From the moment a call has copied a uniform setting, the global has it.
HasCopied(w, i) ==
  pc[w] \in {"prepare", "ask", "done"} \/ (pc[w] = "configure" /\ i < next[w])

CopiedIsOwn ==
  \A w \in Worker : \A i \in DOMAIN SettingOrder : LET x == SettingOrder[i] IN
    HasCopied(w, i) /\ Uniform(step[w], x) =>
      global[KindOf(w)][x] = Own(step[w], x)

HasRead(w, i) == Asks(w) \/ (pc[w] = "prepare" /\ i < next[w])

ReadIsOwn ==
  \A w \in Worker : \A i \in DOMAIN SettingOrder : LET x == SettingOrder[i] IN
    HasRead(w, i) /\ Uniform(step[w], x) => used[w][x] = Own(step[w], x)

\* No try was made before the settings were read; while the call asks, one is
\* left; the tries that filled the struct were made.
TriesMatchPc ==
  \A w \in Worker :
    /\ pc[w] # "done" => result[w] = "none" /\ rows[w] = 0
    /\ pc[w] = "done" => result[w] # "none"
    /\ pc[w] \in {"configure", "prepare"} => tries[w] = 0
    /\ pc[w] = "ask" => tries[w] < used[w]["MaxRetryAttempts"]
    /\ pc[w] = "done" => tries[w] <= used[w]["MaxRetryAttempts"]
    /\ result[w] = "failed" => tries[w] = used[w]["MaxRetryAttempts"]
    /\ \A f \in ResponseField : r[w][f] <= tries[w]

IInv ==
  /\ TypeOK /\ GlobalsAreConfigured /\ CopiedIsOwn /\ ReadIsOwn
  /\ TriesMatchPc /\ SavedOnce

\* A call returns, also when the server never answers: the deadline ends the
\* tries that are left.  A request to OpenAI has none and may hang.
CallReturns ==
  \A w \in Worker :
    pc[w] = "configure" ~> \/ pc[w] = "done"
                           \/ pc[w] = "ask" /\ KindOf(w) = "openai"

\* "There are defaults for these": a call to Ollama uses the settings of its own
\* step, and the default for those the step leaves out.
SettingsAreOwn ==
  \A w \in Worker, x \in Setting :
    Asks(w) /\ KindOf(w) # "openai" => used[w][x] = Own(step[w], x)
=============================================================================
