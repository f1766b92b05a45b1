----------------------------- MODULE RegexCache -----------------------------
(***************************************************************************)
(* The regular expressions LoadConfig of config.go compiles when the       *)
(* process starts, and the lookups of the built-in filter, which end the   *)
(* process when an expression is not in the cache.  Reading the file and   *)
(* filling in the environment come before and are not modelled: config is  *)
(* what they left, a step being a record with at least the terms of        *)
(* RequireRegexMatches and of RequireAllRegexMatches.                      *)
(***************************************************************************)
EXTENDS Integers, Sequences, FiniteSets, Functions

CONSTANTS
  Configs,   \* the configurations considered: sequences of steps
  Pattern,   \* the regular expressions that occur in them
  Malformed  \* those regexp.Compile refuses

ASSUME RegexAssumption ==
  /\ \A c \in Configs :
       /\ c \in Seq(Range(c))
       /\ \A s \in DOMAIN c :
            c[s].terms \in Seq(Pattern) /\ c[s].allTerms \in Seq(Pattern)
  /\ Malformed \subseteq Pattern

VARIABLES
  config,   \* config.Steps
  compiled, \* the keys of CompiledRegexes
  load,     \* "loading", "loaded", or "dead" after a panic
  cursor    \* the step, the list and the term LoadConfig is at

cacheVars == <<config, compiled, load, cursor>>

At(s, l, i) == [step |-> s, list |-> l, term |-> i]

CacheInit ==
  /\ config \in Configs
  /\ compiled = {}
  /\ load = "loading"
  /\ cursor = At(1, "terms", 1)

\* The list of terms the cursor is in.
Terms(c) == IF c.list = "terms" THEN config[c.step].terms
                                ELSE config[c.step].allTerms

InList == load = "loading" /\ cursor.step <= Len(config)
AtTerm == InList /\ cursor.term <= Len(Terms(cursor))

NextTerm == cursor' = [cursor EXCEPT !.term = @ + 1]

\* regexp.Compile, and log.Panic if it refuses the term.
Compile ==
  /\ AtTerm
  /\ LET term == Terms(cursor)[cursor.term] IN
       /\ term \notin compiled
       /\ IF term \in Malformed
            THEN load' = "dead" /\ UNCHANGED <<compiled, cursor>>
            ELSE compiled' = compiled \cup {term} /\ NextTerm /\ UNCHANGED load
  /\ UNCHANGED config

BugSkipBothLists ==
  /\ AtTerm /\ cursor.list = "terms"
  /\ Terms(cursor)[cursor.term] \in compiled
  /\ cursor' = At(cursor.step + 1, "terms", 1)
  /\ UNCHANGED <<config, compiled, load>>

\* "goto skip": a term of RequireRegexMatches that is in the cache leaves the
\* loop over the list, and the rest of the list with it.
SkipRest ==
  /\ AtTerm /\ cursor.list = "terms"
  /\ Terms(cursor)[cursor.term] \in compiled
  /\ cursor' = At(cursor.step, "all", 1)
  /\ UNCHANGED <<config, compiled, load>>

\* "continue": a term of RequireAllRegexMatches that is there is passed over.
Continue ==
  /\ AtTerm /\ cursor.list = "all"
  /\ Terms(cursor)[cursor.term] \in compiled
  /\ NextTerm
  /\ UNCHANGED <<config, compiled, load>>

\* The end of a list: the other list, or the next step.
EndList ==
  /\ InList /\ ~AtTerm
  /\ cursor' = IF cursor.list = "terms" THEN At(cursor.step, "all", 1)
               ELSE At(cursor.step + 1, "terms", 1)
  /\ UNCHANGED <<config, compiled, load>>

Loaded ==
  /\ load = "loading" /\ cursor.step > Len(config)
  /\ load' = "loaded"
  /\ UNCHANGED <<config, compiled, cursor>>

LoadConfig == Compile \/ SkipRest \/ Continue \/ EndList \/ Loaded

-----------------------------------------------------------------------------
(* Lookups.                                                                *)

\* How many of the first i terms of list l are among the hits of a text.
HitsIn(l, i, hits) == Cardinality({k \in 1..i : l[k] \in hits})

\* RequireNTerms and RequireNRegexMatches: the loop over the list stops as
\* soon as n terms have matched.
RequireN(l, hits, n) == \E i \in DOMAIN l : HitsIn(l, i, hits) >= n
RequireAll(l, hits)  == \A i \in DOMAIN l : l[i] \in hits

\* The loops over regular expressions call log.Fatal at the first one that is
\* not in the cache, if they get that far.
FatalN(l, hits, n) ==
  \E i \in DOMAIN l :
    l[i] \notin compiled /\ \A k \in 1..(i - 1) : HitsIn(l, k, hits) < n
FatalAll(l, hits) ==
  \E i \in DOMAIN l : l[i] \notin compiled /\ \A k \in 1..(i - 1) : l[k] \in hits

-----------------------------------------------------------------------------
(* Properties.                                                             *)

CacheTypeOK ==
  /\ config \in Configs
  /\ compiled \subseteq Pattern
  /\ load \in {"loading", "loaded", "dead"}
  /\ cursor \in [step : 1..(Len(config) + 1), list : {"terms", "all"},
                 term : Nat \ {0}]

\* Pattern p occurs in a step before s, or before place i of the terms of s.
OccursBefore(p, s, i) ==
  \/ \E r \in 1..(s - 1) :
       p \in Range(config[r].terms) \cup Range(config[r].allTerms)
  \/ \E k \in 1..(i - 1) : config[s].terms[k] = p

\* After place i of the terms of step s the loop was left: that place repeats
\* a pattern.
LeftBefore(s, j) ==
  \E i \in 1..(j - 1) : OccursBefore(config[s].terms[i], s, i)

Covered(s, j) == config[s].terms[j] \in compiled \/ LeftBefore(s, j)

\* "If the regex does not compile, the app will not run": an expression of the
\* configuration is missing from the cache, malformed or not, only if it
\* follows a repeated one in its RequireRegexMatches list; those of
\* RequireAllRegexMatches are never missing.
MissingOnlyAfterRepeat ==
  /\ compiled \cap Malformed = {}
  /\ load = "loaded" => \A s \in DOMAIN config :
       /\ \A j \in DOMAIN config[s].terms : Covered(s, j)
       /\ Range(config[s].allTerms) \subseteq compiled

\* "compile them once": after LoadConfig every configured expression is in
\* the cache, and no lookup of the filters is fatal.
EveryRegexCompiled ==
  load = "loaded" => \A s \in DOMAIN config :
    Range(config[s].terms) \cup Range(config[s].allTerms) \subseteq compiled

-----------------------------------------------------------------------------
(* An inductive invariant: what the cursor has passed is covered.          *)

PassedStep(s) == s < cursor.step

CompiledOccurs ==
  \A p \in compiled :
    \/ \E r \in 1..(cursor.step - 1) :
         p \in Range(config[r].terms) \cup Range(config[r].allTerms)
    \/ /\ cursor.step <= Len(config)
       /\ \/ \E k \in DOMAIN config[cursor.step].terms :
               /\ cursor.list = "terms" => k < cursor.term
               /\ config[cursor.step].terms[k] = p
          \/ cursor.list = "all" /\ p \in Range(config[cursor.step].allTerms)

PassedIsCovered ==
  \A s \in DOMAIN config :
    /\ PassedStep(s) \/ (s = cursor.step /\ cursor.list = "all") =>
         \A j \in DOMAIN config[s].terms : Covered(s, j)
    /\ s = cursor.step /\ cursor.list = "terms" =>
         \A j \in DOMAIN config[s].terms : j < cursor.term => Covered(s, j)
    /\ PassedStep(s) => Range(config[s].allTerms) \subseteq compiled
    /\ s = cursor.step /\ cursor.list = "all" =>
         \A j \in DOMAIN config[s].allTerms :
           j < cursor.term => config[s].allTerms[j] \in compiled

CacheIInv ==
  /\ CacheTypeOK /\ CompiledOccurs /\ PassedIsCovered
  /\ compiled \cap Malformed = {}
  /\ load = "loaded" => cursor.step = Len(config) + 1
=============================================================================
