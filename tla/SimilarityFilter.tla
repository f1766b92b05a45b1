--------------------------- MODULE SimilarityFilter ---------------------------
(***************************************************************************)
(* FilterSimilarAPMessage of filter_builtin.go, as the workers run it next *)
(* to each other: each message is compared with rows that are already      *)
(* marked processed, and its own row is marked when its steps are over,    *)
(* filtered or not (processor.go).  How many rows are read is in a package *)
(* variable that every filter with a MaximumLookBehind overwrites.         *)
(*                                                                         *)
(* Texts are abstracted to which of them are similar and which are longer  *)
(* than which: one relation stands for the threshold of every filter, which*)
(* is the case of filters that agree on Similarity.  The Invert of the     *)
(* built-in filter, which turns each criterion's result round, is          *)
(* BuiltinFilter's; here it is not set.  A message is taken by a worker in *)
(* any order; its row is there unless db.Create failed.                    *)
(***************************************************************************)
EXTENDS Integers, Sequences, FiniteSets, Functions

CONSTANTS
  AcarsMsg, Vdlm2Msg,  \* the messages of each kind; they have a table each
  Worker,              \* worker goroutines
  FilterLists,         \* the similarity filters of a configuration, in order
  Similarities,        \* which texts are similar: sets of pairs
  Longer,              \* the pairs <<m, x>> where the text of m is longer
  Default,             \* defaultMaxLookbehind at the start: 1000 in the code
  NoMsg

Msg  == AcarsMsg \cup Vdlm2Msg
Kind == {"ACARS", "VDLM2"}

TableOf(k) == IF k = "ACARS" THEN AcarsMsg ELSE Vdlm2Msg

ASSUME SimilarityAssumption ==
  /\ AcarsMsg \cap Vdlm2Msg = {} /\ IsFiniteSet(Msg) /\ NoMsg \notin Msg
  /\ IsFiniteSet(Worker)
  /\ \A F \in FilterLists :
       F \in Seq([lookBehind : Nat, dontFilterIfLonger : BOOLEAN]) /\ F # <<>>
  /\ \A S \in Similarities : \A p \in S : p \in Msg \X Msg /\ <<p[2], p[1]>> \in S
  /\ Longer \subseteq Msg \X Msg
  /\ Default \in Nat \ {0}

VARIABLES
  filters, similar,      \* the configuration and the texts of this behaviour
  row,                   \* the Processed flag of each message's row
  waiting,               \* messages on the channel
  defaultMaxLookbehind,  \* the package variable
  pc, held, at,          \* of each worker: place, message, filter it is at
  found,                 \* of each worker: the rows its queries returned
  before,                \* history: the rows processed when it took its message
  cause,                 \* history: the row a message was filtered for
  sent,                  \* history: messages kept in this life
  lost                   \* history: an Updates failed in this life

simVars == <<filters, similar, row, waiting, defaultMaxLookbehind, pc, held,
             at, found, before, cause, sent, lost>>

NoRows == [k \in Kind |-> {}]

SimInit ==
  /\ filters \in FilterLists
  /\ similar \in Similarities
  /\ row \in [Msg -> {"none", "unprocessed"}]
  /\ waiting = Msg
  /\ defaultMaxLookbehind = Default
  /\ pc = [w \in Worker |-> "idle"]
  /\ held = [w \in Worker |-> NoMsg]
  /\ at = [w \in Worker |-> 1]
  /\ found = [w \in Worker |-> NoRows]
  /\ before = [w \in Worker |-> {}]
  /\ cause = [m \in Msg |-> NoMsg]
  /\ sent = {}
  /\ lost = FALSE

FilterAt(w) == filters[at[w]]
Goto(w, place) == pc' = [pc EXCEPT ![w] = place]

-----------------------------------------------------------------------------
(* A worker.                                                               *)

\* Receive a message; the first similarity filter of its steps is next.
Take(w, m) ==
  /\ pc[w] = "idle" /\ m \in waiting
  /\ waiting' = waiting \ {m}
  /\ held' = [held EXCEPT ![w] = m]
  /\ at' = [at EXCEPT ![w] = 1]
  /\ before' = [before EXCEPT ![w] = {x \in Msg : row[x] = "processed"}]
  /\ cause' = [cause EXCEPT ![m] = NoMsg]
  /\ Goto(w, "limit")
  /\ UNCHANGED <<filters, similar, row, defaultMaxLookbehind, found, sent, lost>>

BugNoTest(w) ==
  /\ pc[w] = "limit"
  /\ defaultMaxLookbehind' = FilterAt(w).lookBehind
  /\ Goto(w, "ACARS")
  /\ UNCHANGED <<filters, similar, row, waiting, held, at, found,
                 before, cause, sent, lost>>

\* A filter that sets MaximumLookBehind sets it for all.
SetLimit(w) ==
  /\ pc[w] = "limit"
  /\ defaultMaxLookbehind' = IF FilterAt(w).lookBehind # 0
                             THEN FilterAt(w).lookBehind ELSE defaultMaxLookbehind
  /\ Goto(w, "ACARS")
  /\ UNCHANGED <<filters, similar, row, waiting, held, at, found,
                 before, cause, sent, lost>>

Processed(k) == {m \in TableOf(k) : row[m] = "processed"}

BugAllRows(k) ==
  {R \in SUBSET {m \in TableOf(k) : row[m] # "none"} :
     Cardinality(R) <= defaultMaxLookbehind}

\* Where(Processed), Limit, no order: some of the processed rows, all of them
\* if they are no more than the limit.
QueryResults(k) ==
  {R \in SUBSET Processed(k) :
     \/ R = Processed(k) /\ Cardinality(R) <= defaultMaxLookbehind
     \/ Cardinality(R) = defaultMaxLookbehind}

\* One of the two queries, each of which reads the limit again.
Query(w, k) ==
  /\ pc[w] = k
  /\ \E R \in QueryResults(k) : found' = [found EXCEPT ![w][k] = R]
  /\ Goto(w, IF k = "ACARS" THEN "VDLM2" ELSE "compare")
  /\ UNCHANGED <<filters, similar, row, waiting, defaultMaxLookbehind, held, at,
                 before, cause, sent, lost>>

\* The rows that are similar to the text of m: those of the ACARS table come
\* first, in whatever order they were found.
FirstSimilar(w) ==
  LET near(k) == {x \in found[w][k] : <<held[w], x>> \in similar}
  IN IF near("ACARS") # {} THEN near("ACARS") ELSE near("VDLM2")

\* The first similar row decides, and the loop ends there: a message that is
\* longer than it may pass.
Forgives(w, x) ==
  FilterAt(w).dontFilterIfLonger /\ <<held[w], x>> \in Longer

Drop(w) ==
  /\ pc[w] = "compare"
  /\ \E x \in FirstSimilar(w) :
       ~Forgives(w, x) /\ cause' = [cause EXCEPT ![held[w]] = x]
  /\ Goto(w, "mark")
  /\ UNCHANGED <<filters, similar, row, waiting, defaultMaxLookbehind, held, at,
                 found, before, sent, lost>>

\* No similar row, or one that forgives: on to the next filter, and to the
\* receivers after the last one.
Keep(w) ==
  /\ pc[w] = "compare"
  /\ FirstSimilar(w) = {} \/ \E x \in FirstSimilar(w) : Forgives(w, x)
  /\ IF at[w] < Len(filters)
       THEN at' = [at EXCEPT ![w] = @ + 1] /\ Goto(w, "limit") /\ UNCHANGED sent
       ELSE sent' = sent \cup {held[w]} /\ Goto(w, "mark") /\ UNCHANGED at
  /\ UNCHANGED <<filters, similar, row, waiting, defaultMaxLookbehind, held,
                 found, before, cause, lost>>

BugMarkDroppedOnly(w) ==
  /\ pc[w] = "mark"
  /\ row' = [row EXCEPT ![held[w]] =
               IF @ = "unprocessed" /\ cause[held[w]] # NoMsg THEN "processed" ELSE @]
  /\ held' = [held EXCEPT ![w] = NoMsg]
  /\ found' = [found EXCEPT ![w] = NoRows]
  /\ before' = [before EXCEPT ![w] = {}]
  /\ Goto(w, "idle")
  /\ UNCHANGED <<filters, similar, waiting, defaultMaxLookbehind, at, cause, sent, lost>>

\* Processed = true, for a message that was filtered as well; the update may
\* fail, and writes nothing if there is no row.
Mark(w) ==
  /\ pc[w] = "mark"
  /\ \/ /\ row' = [row EXCEPT ![held[w]] = IF @ = "none" THEN @ ELSE "processed"]
        /\ UNCHANGED lost
     \/ lost' = TRUE /\ UNCHANGED row
  /\ held' = [held EXCEPT ![w] = NoMsg]
  /\ found' = [found EXCEPT ![w] = NoRows]
  /\ before' = [before EXCEPT ![w] = {}]
  /\ Goto(w, "idle")
  /\ UNCHANGED <<filters, similar, waiting, defaultMaxLookbehind, at, cause, sent>>

\* The process ends and starts again: the rows that are not processed are
\* loaded, messages without a row are gone, the package variable is new.
Restart ==
  /\ waiting' = {m \in Msg : row[m] = "unprocessed"}
  /\ defaultMaxLookbehind' = Default
  /\ pc' = [w \in Worker |-> "idle"]
  /\ held' = [w \in Worker |-> NoMsg]
  /\ at' = [w \in Worker |-> 1]
  /\ found' = [w \in Worker |-> NoRows]
  /\ before' = [w \in Worker |-> {}]
  /\ sent' = {}
  /\ lost' = FALSE
  /\ UNCHANGED <<filters, similar, row, cause>>

SimNext ==
  \/ \E w \in Worker :
       \/ \E m \in Msg : Take(w, m)
       \/ SetLimit(w) \/ (\E k \in Kind : Query(w, k)) \/ Drop(w) \/ Keep(w) \/ Mark(w)
  \/ Restart

SimSpec == SimInit /\ [][SimNext]_simVars

-----------------------------------------------------------------------------
(* Properties.                                                             *)

\* Every variable has its type.
SimTypeOK ==
  /\ filters \in FilterLists /\ similar \in Similarities
  /\ row \in [Msg -> {"none", "unprocessed", "processed"}]
  /\ waiting \subseteq Msg
  /\ defaultMaxLookbehind \in Nat \ {0}
  /\ pc \in [Worker -> {"idle", "limit", "ACARS", "VDLM2", "compare", "mark"}]
  /\ held \in [Worker -> Msg \cup {NoMsg}]
  /\ at \in [Worker -> Nat] /\ \A w \in Worker : at[w] \in DOMAIN filters
  /\ found \in [Worker -> [Kind -> SUBSET Msg]]
  /\ before \in [Worker -> SUBSET Msg]
  /\ cause \in [Msg -> Msg \cup {NoMsg}]
  /\ sent \subseteq Msg /\ lost \in BOOLEAN

\* "filter out the message if similarity is greater": a message is filtered
\* only for another one that is similar and whose own steps are over, never
\* for itself and never for one that is still being decided about.
DropHasWitness ==
  \A m \in Msg : cause[m] # NoMsg =>
    /\ cause[m] # m
    /\ <<m, cause[m]>> \in similar
    /\ row[cause[m]] = "processed"

Dropped == {m \in Msg : cause[m] # NoMsg}

\* Messages are never filtered for each other, in a circle of any length: of
\* any similar messages that were filtered, one was filtered for a message
\* outside of them, so at least one of its kind has been let through.
NoCircularDrops ==
  \A D \in SUBSET {m \in Dropped : row[m] = "processed"} :
    D # {} => \E m \in D : cause[m] \notin D

\* The limits some filter may use: what the filters set and, if one sets
\* none, the default.
LimitsInUse ==
  ({F.lookBehind : F \in Range(filters)} \ {0})
    \cup (IF \E F \in Range(filters) : F.lookBehind = 0 THEN {Default} ELSE {})

\* A filter looks far enough: no limit in use hides a row of any table.
NothingHidden ==
  \A k \in Kind, n \in LimitsInUse : Cardinality(TableOf(k)) <= n

\* Nothing gets in the way of the comparison in this life.
Quiet ==
  NothingHidden /\ ~lost /\ \A F \in Range(filters) : ~F.dontFilterIfLonger

Alike(K) == \A m, n \in K : m # n => <<m, n>> \in similar

\* Whatever the workers do to the limit, at most one of any messages that are
\* all similar passes in each worker before the first is marked: as long as
\* no limit hides a row, no update fails and no filter forgives, one life of
\* the process sends at most as many of them as it has workers.
AtMostOnePerWorker ==
  Quiet =>
    \A K \in SUBSET {m \in sent : row[m] # "none"} :
      Alike(K) => Cardinality(K) <= Cardinality(Worker)

Seen(w, k) ==
  \/ Cardinality(found[w][k]) \in LimitsInUse
  \/ before[w] \cap TableOf(k) \subseteq found[w][k]

\* A similar row that was processed before the message was taken is missed
\* only if the query was cut off, at a limit that some filter has.
SeenOrCutOff ==
  \A w \in Worker, k \in Kind : pc[w] = "compare" => Seen(w, k)

-----------------------------------------------------------------------------
(* An inductive invariant.                                                 *)

IsProcessed(m) == row[m] = "processed"

\* A message that waits or is in hand is not processed, and in one place.
OpenMessages ==
  /\ \A m \in waiting : ~IsProcessed(m)
  /\ \A w \in Worker :
       /\ held[w] = NoMsg <=> pc[w] = "idle"
       /\ held[w] # NoMsg => ~IsProcessed(held[w]) /\ held[w] \notin waiting
       /\ \A v \in Worker : v # w /\ held[v] = held[w] => held[w] = NoMsg

\* What a worker remembers of the table stays processed.
SeenIsProcessed ==
  \A w \in Worker :
    /\ \A k \in Kind : \A x \in found[w][k] : IsProcessed(x)
    /\ \A x \in before[w] : IsProcessed(x)

\* Past the first filter, the limit is one that some filter has.
LimitIsInUse ==
  /\ defaultMaxLookbehind \in LimitsInUse \cup {Default}
  /\ \A w \in Worker : pc[w] \notin {"idle", "limit"} => defaultMaxLookbehind \in LimitsInUse

\* What a query returned is kept until it is compared.
QueriesSee ==
  \A w \in Worker :
    /\ pc[w] \in {"VDLM2", "compare"} => Seen(w, "ACARS")
    /\ pc[w] = "compare" => Seen(w, "VDLM2")

SimIInv ==
  /\ SimTypeOK /\ OpenMessages /\ SeenIsProcessed /\ LimitIsInUse /\ QueriesSee
  /\ DropHasWitness /\ NoCircularDrops

-----------------------------------------------------------------------------
(* A second one, for the number of similar messages that are sent.         *)

FoundInTable == \A w \in Worker, k \in Kind : found[w][k] \subseteq TableOf(k)

\* A message that was sent is marked by the worker that has sent it.
SentIsMarked ==
  \A m \in sent : row[m] = "unprocessed" =>
    \E w \in Worker : held[w] = m /\ pc[w] = "mark"

\* Messages that were sent or may still be.
Undecided(w) == pc[w] \in {"limit", "ACARS", "VDLM2", "compare"}
Candidates ==
  {m \in Msg : row[m] # "none"
                 /\ (m \in sent \/ \E w \in Worker : held[w] = m /\ Undecided(w))}

\* None of those of K that are still to be decided about was taken when
\* another one of K was processed.
Unaware(K) == \A w \in Worker : held[w] \in K \ sent => before[w] \cap K = {}

OnePerWorker ==
  \A K \in SUBSET Candidates :
    Alike(K) /\ Unaware(K) => Cardinality(K) <= Cardinality(Worker)

LifeIInv == FoundInTable /\ (Quiet => SentIsMarked /\ OnePerWorker)
=============================================================================
