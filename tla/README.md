# Specifications of acars-processor

TLA+ models of [acars-processor](../src), the TLC runs that check them on small
instances, and TLAPS proofs of the results that hold for every instance. Paths
below are relative to the repository; line numbers refer to the modelled commit.

## 1. The system

acars-processor is one Go process. It reads JSON messages from ACARSHub over TCP
(or from standard input), saves each in a database, puts it on a buffered
channel, and a pool of workers runs the configured steps on it: filters,
annotators and receivers. There are no tests in the repository; its README, the
comments in `config.go` and the two example configurations are the only
statements of what it should do.

| Component | State it keeps | Operations | Interacts by |
| --- | --- | --- | --- |
| main (`main.go`) | none | parse flags, load, subscribe, wait for a signal | calls, goroutines |
| Database (`db.go`) | one row per message, `processed` flag; results of the Ollama filter | `LoadSavedMessages`, `Create`, `Updates`, look-behind query | gorm calls from every goroutine |
| Readers (`source_acarshub.go`, `source_stdin.go`) | the connection, the message in hand | dial, decode, `Create`, send | channel `APMessageQueue` / `STDINAPMessageQueue` (capacity 10000) |
| Workers (`processor.go`) | the item in hand | receive, run the steps, `Updates` | channels, calls |
| Step engine (`filters.go`, `annotators.go`, `receivers.go`) | the `APMessage` map of the item, mutated in place | `Filter`, `Annotate`, `Send` | calls |
| Built-in filter (`filter_builtin.go`) | compiled regexes, `defaultMaxLookbehind` (package globals) | one function per configured field | calls, a query for previous messages |
| LLM modules (`filter_ollama.go`, `annotator_ollama.go`, `filter_openai.go`) | prompts, timeouts, retry counts (package globals) | a request with retries, parse the answer | HTTP, callback per answer |
| Other annotators (`annotator_adsb_exchange.go`, `annotator_tar1090.go`) | none | one HTTP request, distance | HTTP |
| Receivers (`receiver_*.go`) | none | render a payload, one HTTP request | HTTP |
| Message formats (`apmessage.go`, `message_*.go`) | none | flatten a struct to a map, merge maps, typed getters | calls |
| Photo lookup (`planespotter.go`) | none | one HTTP request in `Prepare`, before a message is saved or reloaded | HTTP, from readers and from `main` |
| Configuration (`config.go`) | the configuration, the regex cache | load, compile regexes | globals |
| Schema generator (`main.go -s`, `docs.go`, `schema.go`, `filesystem.go`) | three generated files | compare and rewrite, exit code | files |

What is hard about it: readers, workers and the loading main goroutine share two
bounded channels; every database error is ignored; the process may end anywhere
(a signal, `log.Fatal` on a bad input line, a panic of any goroutine) and is
restarted on a database that holds what the last life left; the HTTP calls of
Discord, webhook, Mastodon, OpenAI, ADS-B Exchange, tar1090 and the photo
service have no timeout;
filters and annotators write package globals that other steps and other workers
read.

What makes each component correct:

| Component | Properties |
| --- | --- |
| main, Database, Readers, Workers | a saved message is handled at least once, across restarts, and at most once in a life; a row is marked after its steps ran and never handled again; nothing is forgotten between two restarts; what was decoded is handled in the end; startup ends; readers reconnect |
| Step engine | modules are called in their order, each at most once, none left out unless the message was dropped or an earlier receiver failed; a dropped message is not sent; the fields a module sees are those the selections so far leave over; the loop ends |
| Annotators, Receivers | an annotation reaches the receivers of its step, field by field, and does not cost the message what another one found; later steps get the selected fields only (the last two do not always hold: see "Also noticed") |
| LLM modules | a call uses the settings of its step; it makes the configured number of attempts; it returns; what is saved of it is the decision, at most once, with the prompt it was asked with |
| Built-in filter | every configured criterion is applied and means what the documents say; a failing one is treated as `FilterOnFailure` says; every configured regex is in the cache when it is looked up; the count of the longest phrase brackets the real one; a message is dropped as similar only for one that is done, never all of a kind |
| Message formats | common fields have one meaning in both formats; merging keeps the newer value |
| Schema generator | the exit status says whether the files were up to date; the hook that reruns it comes to rest, with every file as the code generates it, unless a run waits for ever for the photo service |

## 2. The modules

```
MessageLedger <--implements-- Pipeline       MessageRun <--implements-- Steps
                                 |  RunSteps stands for a whole run of  ^
                                 +--------------------------------------+
      the modules Steps calls, in detail:
        LlmCall            an Ollama filter or annotator, or OpenAI, by several workers
        BuiltinFilter      one call of the built-in filter; EXTENDS APMessage (the
                           message it reads), RegexCache (the configuration it was
                           loaded with) and DictionaryPhrase (one criterion)
        SimilarityFilter   one more criterion, over the rows other workers mark
SchemaGen  the other program in the same binary: acars-processor -s
```

`Pipeline.RunSteps(w)` is one action for the whole loop over `config.Steps`;
`Steps` is that loop for one message, with a call of a module as one action;
`LlmCall`, `BuiltinFilter` and `SimilarityFilter` are the inside of such calls. A
panic in `Steps` (status `"dead"`), a fatal lookup in `BuiltinFilter` (`call =
"fatal"`), is a `Stop` of `Pipeline`; a call that never returns
(`Steps.Hanging`) is a worker in `Pipeline.Hung`. These levels are separate state
machines and not composed in one run: the interface between them is narrow (a
run ends or not; a call has one of a set of results) and the product would only
multiply their states. Where two components share state the specification
composes them: `BuiltinFilter` runs `LoadConfig`, `Prepare` and the word loop
together, `SimilarityFilter` has the workers, their rows and the restart.

### Pipeline

State: `main` (where `main()` is), `loading` (result of the startup query not
yet sent), `db` (the row of each message: `none`, `unprocessed`, `processed`),
`queue` (the two channels), `pc` and `held` (the place and the message in hand
of every reader and worker), `unsent` (input that is left), and two history
variables: the messages whose steps were run in this life, and ever.

| Action | Code |
| --- | --- |
| `Start`, `LoadRow`, `LoadVDLM2` | `LoadSavedMessages`, a query and a loop of blocking sends for each table |
| `Subscribe` | launch of readers and workers, after the loading has returned |
| `DialOk`, `DialFail`, `DecodeError` | the outer loop of the two hub readers |
| `Decode`, `Create`, `Enqueue` | the body of the reader loops; the row is written before the send |
| `Take`, `RunSteps`, `Mark` | the body of `HandleAPMessageQueue` |
| `Stop`, `BadLine` | end of the process: signal, kill, panic, `log.Fatal` |

Each is one atomic step between two points where other goroutines can be seen:
a database call, a channel operation, a dial. `Create` stands for `Prepare` and the
insert: a goroutine in `Hung` never gets out of the photo lookup of `Prepare` (a
reader, or `main` while it loads) or of its steps (a worker). A message is an identity; its
text matters nowhere here. The query at startup has no `ORDER BY`, so its rows
are sent in any order. `DBFails` names the gorm calls that may fail without a
caller noticing. `MessageLedger` is what this should amount to, with a stage for
each message; `Stages` is the refinement mapping.

### Steps

State: the configuration, the place in it (`step`, `at`), the fate of the
message, its fields `m`, and histories of the calls made. A field is mapped to
what wrote it: the step, and in it the source, an annotator, or tar1090 about an
aircraft it does not know, whose position is zeros. That is enough to say which
fields a module sees and whose value they have. `Order` is the body of the loop; an action is a module
that is skipped, called, or panics, or the selection at the end of the filters.
What a module computes is a set of possible results: `FilterResults` with their
errors and the use each filter makes of `FilterOnFailure`, `Answer` with the
merge of each annotator (the Ollama one merges in the other direction, tar1090
puts its fields over what is there, known aircraft or not; only ADS-B Exchange
looks at its `SelectedFields`), `SendErrors`. `MessageRun` is the abstract run: calls in a strict order, none
after the message is dropped.

### LlmCall

State: the package globals of the Ollama filter, of the Ollama annotator and of
the OpenAI filter (its prompt only), and for each worker the place in its call, the settings read so far, the tries, whether the
deadline has passed, the response struct, the result and the rows saved. A
setting is copied (`Configure`) and read (`Prepare`) in an action of its own, as
nothing orders the accesses of two workers. Three settings are modelled: the
prompt, the timeout and the number of attempts. A try is refused, garbled (it
is decoded into the struct and then rejected), accepted, or silent (the client
saw no line and reports no error). When the model has decided, the callback of
the filter reads the prompt global once more for the row it saves, and the database
may refuse the row, which nobody notices (`Save`, `lost`). OpenAI makes one try, with
no deadline (`context.TODO()`).

A read of a global that races with a write returns the old or the new value in
the model. For the two integers that is what the build does. A string is two
words, and a read may mix the pointer of one prompt with the length of another;
that adds outcomes where two steps give different prompts, where `SettingsAreOwn`
is violated anyhow, and none where they agree, as `UniformSettingsAreOwn` asks:
by the time a call reads such a prompt it has copied it, and the strings that
other workers write have the same length and content.

### BuiltinFilter, RegexCache, APMessage, DictionaryPhrase

`RegexCache` is `LoadConfig`: a cursor walks the two regex lists of each step.
`Compile`, `Continue`, `EndList` are the loops, `SkipRest` is the jump that leaves
one of them early; `FatalN` and `FatalAll` say when a lookup ends the process.
`APMessage` says which common fields `Prepare` makes of a message of either
format, with the Go types the getters look at: a frequency in Hz is an `int`, and
the getter for a `float64` reads it as 0. `DictionaryPhrase` is the loop over the
words, one action per word; a word is only known or unknown.

`BuiltinFilter` puts them together: `Load` until the process is up, then calls of
any step's filter with any message. Its state is that of the Go function: the
criterion that is next, `filterThisMessage`, whether there was an error. The
functions of the criteria (`TextFilters`, `OriginFilters`, `NumberFilters`,
`DistanceFilters`) are translated from the code, including where it does not look
at the setting, compares Hz with MHz or treats 0 as unknown. What the documents
say a criterion means is stated apart from that, over the message as it was
received (`Meets`: a tail code, for one, is compared without its dots), and
`AsDocumented` names the settings for which the two are supposed to agree; for some
of the others a run shows that they do not (finding 5).
`SettingsTyped` is what the Go types of the settings, and their being nonzero, say.

### SimilarityFilter

State: for each worker the place in `FilterSimilarAPMessage`, the message and the
rows its two queries found; the rows; the package variable
`defaultMaxLookbehind`. `SetLimit`, `Query` (one for each table, each reads the
variable again), `Drop` or `Keep`, and `Mark`, after which the row can be seen by
the others. A query without an order returns any rows up to the limit. Which texts
are similar is one relation chosen at the start, for filters that agree on their
threshold; the `Invert` of the built-in filter, which would turn the result round
(`filter_builtin.go:150`), is in `BuiltinFilter` and not set here.

### SchemaGen

State: what the code generates for each of the three files, what is on disk, the
two `updated` flags, the exit status of the last run. `GenerateSchema`,
`GenerateConfig` and `GenerateFields` write a file each, `Exit` reports. A write
may fail and leave the file as it was or cut off (`UpdateFile` only logs that), a
run may be aborted, and between two runs code and files may be edited. Before each
file the run prepares an empty message for the names of its fields and so asks the
photo service, without a timeout: it may hang there (`Hang`), until somebody kills it.

## 3. What the runs check

| Run | What it shows |
| --- | --- |
| `Pipeline_safety` | both hub readers, two workers, channels of 2, `Create` and `Updates` may fail, stop anywhere, one reader and one worker may hang. `OneCopy`, `HandledOnce`, `Accounted`, `ProcessedWasHandled`, `ProcessedIsFinal`, and that it implements the ledger; what was decoded (`ReceivedIsHandled`) and what was reloaded (`BacklogIsHandled`) is handled, unless the process ends, a hung goroutine has it or the readers or startup are stalled. 39478 states |
| `Pipeline_stdin` | the `-i` flag on MariaDB, where a bad line ends the process: five messages, one worker, one reader, two channels of 1. The inductive invariant `IInv`, the ledger, and `BacklogBound`: rows still to be handled are at most what channels, workers and readers hold, also after restarts. 40753 states |
| `Pipeline_startup` | violated: `StartupCompletes` (finding 1) |
| `Pipeline_reconnect` | violated: `ReadersReconnect` (finding 2) |
| `Steps_loop` | five configurations, all sets of source fields, blank or not, any results. `SelectionIsExact`, `NothingLeftOut`, `FilteredIsNotSent`; which failures filter the message (`FailureFilters`), whose answers reach the receivers, and what may overwrite them (`AnswersArrive`); `RunEnds`, and that it implements `MessageRun`. 87784 states |
| `LlmCall_calls` | two workers, two Ollama filters, an annotator, an OpenAI filter, at most two attempts, a database that may refuse a result. `UniformSettingsAreOwn`, `AttemptsAreCounted`, `SavedOnce`, `CallReturns`. 104106 states |
| `LlmCall_leak` | violated: `SettingsAreOwn` (finding 3) |
| `Builtin_filter` | 25 filters with each value of the two flags, and 7 configurations that repeat or break regular expressions, on messages of both formats. What is missing from the cache and when a lookup is fatal (`MissingOnlyAfterRepeat`, `FatalOnlyAfterRepeat`); the phrase count (`NotTooShort`, `NotAboveKnown`, `ExactWithTwoChains`); the decision (`FilterMeansWhatItSays`, `UnknownFollowsFailure`); `FilterReturns`. 236696 states |
| `Builtin_regex` | violated: `EveryRegexCompiled` (finding 4) |
| `Builtin_criteria` | violated: `CriteriaAreApplied` (finding 5) |
| `Similarity` | two workers, three messages, three lists of filters, failing updates and restarts. `DropHasWitness`, `NoCircularDrops`, `AtMostOnePerWorker`, `SeenOrCutOff`. 155668 states |
| `SchemaGen` | any files, two versions of the code, two disturbances, a photo service that may stop answering. `StatusIsHonest`, `TwoRunsAreEnough`, `ComesToRest`. 54496 states |

The properties are stated and explained at the end of each module. For every one
of them `PROJECT.json` names a changed definition (the `Bug...` operators: a
worker that marks before it runs the steps, a reload that forgets its condition,
a receiver that is retried, a jump that skips both lists, a query that returns
rows still being decided about) under which the run finds it violated.

### Findings

1. `db.go:83`: `main` sends every saved row on a channel nobody receives from
   yet. With more rows than its capacity the process never starts working.
   `BacklogBound` says that one life can already leave that many rows.
2. `source_acarshub.go:122`: a failed dial ends the VDLM2 reader for good; the
   ACARS reader retries.
3. `filter_ollama.go:146`: a step that leaves a setting out uses what another
   step wrote to the package global.
4. `config.go:54`: a repeated term of `RequireRegexMatches` leaves the loop, and
   the terms after it are never compiled. The first message that gets as far as
   one of them ends the process; a malformed one goes unnoticed at the start.
5. `filter_builtin.go:211`: `ASSStatus` reads a common field no format has, so every
   message is filtered. So it is with `More` (`:228`) and with `Frequency` (`:188`),
   which is compared with a number that reads as 0 or is in Hz, while it is documented
   in MHz; `AboveSignaldBm` and `BelowSignaldBm` (`:67`) find no function, which is
   called by another name, and every message passes without `FilterOnFailure`.

Also noticed. The models do in these cases what the code does; the properties named
leave them out, with the exception written into them, and none asserts that they
are right:

- Loop over the steps: the Ollama filter ignores `FilterOnFailure` when it has no
  model or prompt (`filter_ollama.go:113`, against `:52`; `FailureFilters`); a second
  Ollama answer about a message is lost, as the message is merged over the answer
  (`AnswersArrive`).
- Annotators: the Ollama one and tar1090 do not look at their `SelectedFields`
  (`annotator_ollama.go:228`, against `:54`), so later steps get every field; an
  aircraft that is not on tar1090's list is annotated with zeros, which replace a
  position ADS-B Exchange has just found (`annotator_tar1090.go:204`; `AnswersArrive`).
- Nothing reads the `Timeout` of the OpenAI filter (`filter_openai.go:90`, against
  `:49`): a request that is not answered holds its worker for ever (`RunEnds`).
- Criteria (`AsDocumented`): `Emergency` has no function either, and no format has
  such a field; `HasText` does not look at its value; distances in nautical miles are
  never written; "further than" and "closer than" a distance (`filter_builtin.go:81`)
  include the distance itself; a message without a distance passes, `FilterOnFailure`
  or not (`filter_builtin.go:234`), although `config_example.yaml:50` says that it
  stops; a number below a limit is also no number at all.
- Formats (`AsDocumented`): a VDLM2 message keeps the `SelectedFields` of the ACARS
  connection (`message_vdlm2.go:111`), and dots in front of its tail code if there
  were more than two.
- Words (`ExactWithTwoChains`): short chains around an unknown word add up.
- Similarity (`AtMostOnePerWorker`, `SeenOrCutOff`): each worker may send one of
  several similar messages; the query has a limit and no order, so a large table
  hides the newest rows.
- An empty `SQLiteDatabasePath` opens `./messages.db` although `config.go:112`
  promises a database in memory; the saved backlog is loaded but not handled in
  interactive mode; `MaxRetryDelaySeconds` only reaches an error value that
  `retry.BackOffDelay` does not look at; `config.go:243` calls a number of attempts,
  the first one included, a number of retries.

### Bounds

- `Cap` is 1 or 2 instead of 10000. The code never looks at the length of a
  channel except by blocking; with 3 messages a channel of 2 is full, empty and
  one reader short in the same behaviour. `Pipeline_stdin` has 5 messages for two
  channels of 1, one worker and one reader, so its bound of 4 is reached and a
  fifth row would exceed it. The theorems hold for every capacity.
- No run has a failing startup query (`"Find"` in `DBFails`); the proofs of `IInv` and
  the ledger include it.
- Two workers, two hub readers: the races are between two goroutines. One
  message of the VDLM2 kind and two of the ACARS kind let the tables differ.
- Messages are used up (`unsent`); the number of restarts is not bounded.
- Five configurations of `Steps` (`MCSteps`): none, all modules twice, the shape
  of `config_example.yaml`, annotations around a selection, and careless settings.
  Fields: three of the source, two of each annotator, one shared by two of them.
- `LlmCall`: attempts 1 and 2, the Ollama filters agree on one setting they give, on
  one they leave out, and differ in a third; an OpenAI filter gives a prompt.
- `MCBuiltinFilter`: each criterion alone or with others, each with both values of
  `Invert` and `FilterOnFailure`; texts of up to four words, and three longer ones,
  as it takes three chains for the count to be wrong. The theorems about regular
  expressions, the words and the decision hold for any.
- `MCSimilarity`: three messages for two workers, so that one more than the workers
  may be similar; limits of 1, 2, 3 and a default of 2, so that some hide rows.
- `SchemaGen`: any content of the three files is "of this version", "of the other"
  or neither; two disturbances (`Disturbances`) are enough for a failed write
  after an edit.
- Symmetry (messages and workers) is used in `Pipeline_stdin` only, which checks no
  liveness.

`Steps` ends when the message is done, a fatal lookup ends `BuiltinFilter`, a run of
`SchemaGen` may wait for ever, so their runs do not check for deadlock; the other
runs do.

### Fairness

- Go schedules a goroutine that can run: weak fairness on the actions of main
  while it loads, of readers with a message in hand, of workers, and on the
  steps of a call.
- A goroutine in `Hung`, a module in `Hanging` gets none where it may hang:
  `http.Client` has no timeout of its own. Ollama calls have a context with a
  deadline, New Relic's client a timeout, so they are never in that set.
- In `LlmCall` the timer of a call to Ollama fires (`Expire`), and after it a try
  fails at once. No server is assumed to answer; a call to OpenAI has no timer, and
  `CallReturns` leaves it out.
- In `SchemaGen` a run goes on once started unless it hangs, at any file, and the
  hook is run again (`WF(Generate)`): a commit is tried until it passes. Nothing is
  assumed of the photo service, and nobody has to kill a run that hangs, so
  `ComesToRest` says that the files come to rest or a run hangs for ever.
  Disturbances are bounded; without a bound somebody could edit for ever.
- Nothing obliges the hub to send or the operator to start or stop the process.
  Only `HubSpec`, for the reconnection, assumes that a reader that keeps dialling
  is accepted in the end; without that assumption no reader could be blamed.

## 4. What is proved

The proofs are in `PipelineProofs`, `StepsProofs`, `LlmCallProofs`, `BuiltinProofs` (with
`PhraseProofs`), `BuiltinCallProofs`, `SimilarityProofs` and `SchemaProofs`; they hold
for every value of the constants that satisfies the named assumption of the module
(`PipelineAssumption`, `StepsAssumption`, `LlmCallAssumption`, `RegexAssumption`,
`BuiltinAssumption`, `SimilarityAssumption`, `SchemaAssumption`: disjoint kinds of
names, positive capacity and defaults, configurations that are sequences of
steps, texts that are sequences of words, settings with the types of the Go struct
(`SettingsTyped`), annotators that of the fields a criterion reads write only a
distance in miles and the number of a model). The proofs use no bound on their
number or length; only `AtMostOnePerWorker` and `BacklogBound` count, and need
workers, and for the first also messages, to be finite, which
`SimilarityAssumption` and `PipelineAssumption` say.

- **Pipeline.** `Invariance` proves `[]IInv`. None of the safety properties is
  inductive alone: that a row is marked only after its steps needs to know that
  the worker at `mark` holds a message it ran (`MarkedAfterSteps`); that no copy
  arises from a reload needs that there is no goroutine and nothing on the other
  channel while main loads (`Phases`); that no copy arises from the readers needs
  that unseen input left no trace (`Untouched`); that nothing is forgotten needs
  the same statement half way through the load (`AccountedAtLoad`). Each action
  has a lemma with a step per conjunct. From it follow `OneCopy`, `HandledOnce`,
  `ProcessedWasHandled`, `Accounted`, the action property `ProcessedIsFinal`, and
  `PipelineImplementsLedger`: `Create` is the ledger's `Save`, `RunSteps` its
  `Handle`, `Mark` its `Settle` or `Forget`, `Halt` its `Crash`; every other action
  changes no stage, or is `Receive`. `BacklogBound` counts: every row owed is in a
  channel, in the hand of a worker or in that of a reader, a channel holds at most
  `Cap` messages and a hand one. That readers which were not launched hold nothing
  and that the stdin channel stays empty without `-i` is `OnlyServed`, an invariant of
  its own.
- **Steps.** `Invariance`; the strengthening says that the calls made lie before
  the current place (`CallsBehind`) and that a filter that drops leads to the
  selection and no further (`DropAtSelect`). From it follow `SelectionIsExact`,
  `NothingLeftOut`, `FilteredIsNotSent` and `StepsImplementRun`. A second invariant,
  `AnswerIInv`, is about errors and answers: at every place of a step the answers it
  got are in the message (`AnswersKept`: a later annotator that shares the field
  overwrites it only if it is tar1090, known aircraft or not; only the Ollama
  annotator leaves a value that was there) and what the step wrote was written by an
  annotator that answered (`NewIsAnswered`). It gives `FailureFilters` and
  `AnswersArrive`.
- **LlmCall.** `Invariance`; the strengthening says that from the moment a call
  has copied a setting on which all steps of its kind agree, the global has that
  value and keeps it (`CopiedIsOwn`), for a global only ever holds its default or
  the value of some step (`GlobalsAreConfigured`). From it follow
  `UniformSettingsAreOwn` (so the leak of finding 3 needs two steps that differ),
  `AttemptsAreCounted` and `SavedOnce`: at most one row, only for a decision, with the
  response it was taken from, and with the prompt that was sent if all filters agree on
  it (the callback reads the global again); a decision has no row only if the database
  refused it.
- **RegexCache, BuiltinFilter.** `CacheInvariance`: everything before the cursor is
  compiled or comes after a repeated pattern (`PassedIsCovered`). The jump is the
  hard case: that its term was in the cache must mean that it occurred before, so
  the invariant also says where every compiled pattern came from
  (`CompiledOccurs`). From it follow `MissingOnlyAfterRepeat` and, with an invariant
  of the calls, `FatalOnlyAfterRepeat`. The word loop needs that the open chain has
  been counted in full until the text ends (`OpenChainCounted`), as the maximum
  alone says nothing about a chain that goes on; then `NotTooShort` and, by counting
  the known words one word at a time, `NotAboveKnown`. `ExactWithTwoChains` needs what
  the stale counter holds: among at most two chains so far it is the open one, or the
  first or second, which was not longer (`AtMostTwoChains`).
- **One call of BuiltinFilter** (`BuiltinCallProofs`). `CriteriaInvariance`: the call is
  at the first criterion the step sets that it has not passed, on the message
  `Prepare` made and the annotators added to (`CallPlace`), and `filterThisMessage` and
  `errs` follow from the criteria passed and from no others (`CallDecided`). A phrase
  may go either way there; every other criterion has one result, or one of two.
  `NextField` says that `FieldAfter` leaves none out, `ReadMessage` what the getters
  find in the message, and `ResultsSayMeets`, with a lemma per group of criteria, that
  the function of a documented criterion returns the opposite of `Meets`: for a list
  that includes that the loop which stops at the n-th hit counts what the set of hits
  counts (`RequireNIsAtLeast`). Hence `FilterMeansWhatItSays`,
  `UnknownFollowsFailure` (a criterion without a function is an error of the call, and filters when
  `FilterOnFailure` is set) and
  `BuiltinTypeOK`.
- **SimilarityFilter.** `SimInvariance`: messages in hand are unprocessed and
  distinct (`OpenMessages`), what was found stays processed, and the limit is one
  that some filter has from the first query on (`LimitIsInUse`). Hence
  `DropHasWitness` and `SeenOrCutOff`. `AtMostOnePerWorker` is not about a state but
  about the messages one life sends: `LifeIInv` says that among messages that are
  alike, sent or undecided, with no undecided member that knew of a processed one,
  there are no more than workers. `NoCircularDrops` is inductive with them: a
  message that is marked was nobody's cause before, so it closes no circle.
- **SchemaGen.** `SchemaInvariance` relates the flags of a run to the files as it
  found them (`FlagsOfRun`, `FilesOfRun`) and to what the run before left
  (`RunsBefore`). Hence `StatusIsHonest` and `TwoRunsAreEnough`, for any number of
  disturbances.

Only model-checked: all liveness (`ReceivedIsHandled`, `BacklogIsHandled`,
`RunEnds`, `CallReturns`, `FilterReturns`, `ComesToRest`), which is out of the
prover's reach. Every other property of the passing runs is a theorem. The findings
are counterexamples of TLC. Of the inductive invariants only that of `Pipeline` is
in a run as well; the others were checked on the configurations of the runs before
they were proved.

## 5. What is not modelled

Payloads and texts: the JSON of messages, prompts and templates, colours, logging,
the links a message gets, the answer of `planespotter.go`. The OpenAI filter is
a set of results in `Steps`, and a prompt global and one try in `LlmCall`. The retry
delay is left out of `LlmCall`, as time is; what an answer of Ollama means when
some of its fields are missing or left from a rejected try is said nowhere, so
there is no property about it. Reading the YAML file and the environment is pure
I/O, and the content of the generated files is produced by reflection. How
similar two texts are, which words are in the dictionary, whether a pattern
matches, and the distance formula are data of a message.

## 6. Plan

Done: the inventory, the life of a message, the loop over the steps, the Ollama
calls, the built-in filter with the formats and the regex cache, the similarity
filter, the schema generator, and a proof of every safety property that a passing
run checks. Left: that a complete run of `Steps` is what `Pipeline.RunSteps` stands
for, stated between the two modules and not only in this text, and the same for a
call of `BuiltinFilter` and the set of results `Steps` lets a filter have.
