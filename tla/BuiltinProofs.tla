----------------------------- MODULE BuiltinProofs -----------------------------
(* Proofs about BuiltinFilter, for any configurations and messages: which  *)
(* regular expressions LoadConfig leaves out of the cache, which lookups   *)
(* end the process, and what the count of a phrase is worth.               *)
EXTENDS BuiltinFilter, PhraseProofs

-----------------------------------------------------------------------------
(* LoadConfig.                                                             *)

\* The configuration is a sequence of steps with two lists of patterns.
LEMMA ConfigTypes ==
  ASSUME CacheTypeOK
  PROVE  /\ Len(config) \in Nat /\ DOMAIN config = 1..Len(config)
         /\ \A s \in DOMAIN config :
              config[s].terms \in Seq(Pattern) /\ config[s].allTerms \in Seq(Pattern)
<1>1. config \in Seq(Range(config))
  BY RegexAssumption DEF CacheTypeOK
<1>2. \A s \in DOMAIN config :
        config[s].terms \in Seq(Pattern) /\ config[s].allTerms \in Seq(Pattern)
  BY RegexAssumption DEF CacheTypeOK
<1> QED
  BY <1>1, <1>2

\* The cursor at a term: which term it is, and that it is a pattern.
LEMMA TermTypes ==
  ASSUME CacheTypeOK, AtTerm
  PROVE  /\ cursor.step \in DOMAIN config
         /\ cursor.term \in DOMAIN Terms(cursor)
         /\ Terms(cursor)[cursor.term] \in Pattern
         /\ Terms(cursor) = IF cursor.list = "terms" THEN config[cursor.step].terms
                            ELSE config[cursor.step].allTerms
<1>1. cursor.step \in DOMAIN config
  BY ConfigTypes DEF CacheTypeOK, AtTerm, InList
<1>2. Terms(cursor) \in Seq(Pattern)
  BY <1>1, ConfigTypes DEF Terms
<1>3. cursor.term \in 1..Len(Terms(cursor))
  BY <1>2 DEF CacheTypeOK, AtTerm
<1> QED
  BY <1>1, <1>2, <1>3 DEF Terms

LEMMA CacheInitial == CacheInit => CacheIInv
<1> SUFFICES ASSUME CacheInit PROVE CacheIInv
  OBVIOUS
<1>1. config \in Configs /\ config \in Seq(Range(config))
  BY RegexAssumption DEF CacheInit
<1>2. Len(config) \in Nat /\ DOMAIN config = 1..Len(config)
  BY <1>1
<1>3. CacheTypeOK
  BY <1>1, <1>2 DEF CacheInit, CacheTypeOK, At
<1>4. CompiledOccurs
  BY DEF CacheInit, CompiledOccurs
<1>5. PassedIsCovered
  <2>1. cursor.step = 1 /\ cursor.list = "terms" /\ cursor.term = 1
    BY DEF CacheInit, At
  <2>2. ASSUME NEW s \in DOMAIN config, s = cursor.step, NEW j \in DOMAIN config[s].terms
        PROVE  ~(j < cursor.term)
    BY <1>3, <2>1, <2>2, ConfigTypes
  <2>3. \A s \in DOMAIN config : ~PassedStep(s)
    BY <1>2, <2>1 DEF PassedStep
  <2> QED
    BY <2>1, <2>2, <2>3 DEF PassedIsCovered
<1> QED
  BY <1>3, <1>4, <1>5 DEF CacheInit, CacheIInv

\* What is covered stays covered as long as nothing leaves the cache.
LEMMA CoveredStays ==
  ASSUME compiled \subseteq compiled', config' = config, NEW s, NEW j, Covered(s, j)
  PROVE  Covered(s, j)'
BY DEF Covered, LeftBefore, OccursBefore

\* A term that is compiled is in the cache, and the cursor passes it.
LEMMA CompilePreserves == CacheIInv /\ Compile => CacheIInv'
<1> SUFFICES ASSUME CacheIInv, Compile PROVE CacheIInv'
  OBVIOUS
<1> DEFINE p == Terms(cursor)[cursor.term]
<1>1. CacheTypeOK /\ AtTerm /\ config' = config
  BY DEF CacheIInv, Compile
<1>2. CASE load' = "dead" /\ UNCHANGED <<compiled, cursor>>
  BY <1>1, <1>2 DEF CacheIInv, CacheTypeOK, CompiledOccurs, PassedIsCovered,
     PassedStep, Covered, LeftBefore, OccursBefore
<1>3. CASE compiled' = compiled \cup {p} /\ NextTerm /\ UNCHANGED load /\ p \notin Malformed
  <2>1. /\ cursor \in [step : 1..(Len(config) + 1), list : {"terms", "all"}, term : Nat \ {0}]
        /\ cursor'.step = cursor.step /\ cursor'.list = cursor.list
        /\ cursor'.term = cursor.term + 1 /\ cursor.term \in Nat \ {0}
        /\ cursor' \in [step : 1..(Len(config) + 1), list : {"terms", "all"}, term : Nat \ {0}]
    BY <1>1, <1>3 DEF CacheTypeOK, NextTerm
  <2>2. /\ cursor.step \in DOMAIN config /\ p \in Pattern
        /\ cursor.term \in DOMAIN Terms(cursor)
        /\ cursor.list = "terms" => Terms(cursor) = config[cursor.step].terms
        /\ cursor.list = "all" => Terms(cursor) = config[cursor.step].allTerms
    BY <1>1, TermTypes
  <2>3. CacheTypeOK'
    BY <1>1, <1>3, <2>1, <2>2 DEF CacheTypeOK
  <2>4. CompiledOccurs'
    <3>1. ASSUME NEW q \in compiled'
          PROVE  \/ \E r \in 1..(cursor'.step - 1) :
                      q \in Range(config[r].terms) \cup Range(config[r].allTerms)
                 \/ /\ cursor'.step <= Len(config)
                    /\ \/ \E k \in DOMAIN config[cursor'.step].terms :
                            /\ cursor'.list = "terms" => k < cursor'.term
                            /\ config[cursor'.step].terms[k] = q
                       \/ cursor'.list = "all" /\ q \in Range(config[cursor'.step].allTerms)
      <4>1. CASE q \in compiled
        <5>1. \/ \E r \in 1..(cursor.step - 1) :
                   q \in Range(config[r].terms) \cup Range(config[r].allTerms)
              \/ /\ cursor.step <= Len(config)
                 /\ \/ \E k \in DOMAIN config[cursor.step].terms :
                         /\ cursor.list = "terms" => k < cursor.term
                         /\ config[cursor.step].terms[k] = q
                    \/ cursor.list = "all" /\ q \in Range(config[cursor.step].allTerms)
          BY <4>1, Zenon DEF CacheIInv, CompiledOccurs
        <5>2. \A k \in DOMAIN config[cursor.step].terms : k \in Nat
          BY <1>1, <2>2, ConfigTypes
        <5> QED
          BY <2>1, <5>1, <5>2
      <4>2. CASE q = p /\ cursor.list = "terms"
        BY <1>1, <2>1, <2>2, <4>2 DEF AtTerm, InList
      <4>3. CASE q = p /\ cursor.list = "all"
        BY <1>1, <2>1, <2>2, <4>3 DEF AtTerm, InList, Range
      <4> QED
        BY <1>3, <2>1, <4>1, <4>2, <4>3
    <3> QED
      BY <1>1, <3>1, Zenon DEF CompiledOccurs
  <2>5. PassedIsCovered'
    <3>1. \A s \in DOMAIN config : \A j \in DOMAIN config[s].terms :
            Covered(s, j) => Covered(s, j)'
      BY <1>1, <1>3, CoveredStays
    <3>2. ASSUME NEW s \in DOMAIN config, PassedStep(s) \/ (s = cursor.step /\ cursor.list = "all"),
                 NEW j \in DOMAIN config[s].terms
          PROVE  Covered(s, j)'
      BY <3>1, <3>2 DEF CacheIInv, PassedIsCovered
    <3>3. ASSUME NEW s \in DOMAIN config, s = cursor.step, cursor.list = "terms",
                 NEW j \in DOMAIN config[s].terms, j < cursor'.term
          PROVE  Covered(s, j)'
      <4>1. CASE j < cursor.term
        BY <3>1, <3>3, <4>1 DEF CacheIInv, PassedIsCovered
      <4>2. CASE j = cursor.term
        <5>1. config'[s].terms[j] = p
          BY <1>1, <2>2, <3>3, <4>2
        <5> QED
          BY <1>3, <5>1 DEF Covered
      <4>3. j \in Nat
        BY <1>1, ConfigTypes
      <4> QED
        BY <2>1, <3>3, <4>1, <4>2, <4>3
    <3>4. ASSUME NEW s \in DOMAIN config, PassedStep(s)
          PROVE  Range(config[s].allTerms) \subseteq compiled'
      BY <1>3, <3>4 DEF CacheIInv, PassedIsCovered
    <3>5. ASSUME NEW s \in DOMAIN config, s = cursor.step, cursor.list = "all",
                 NEW j \in DOMAIN config[s].allTerms, j < cursor'.term
          PROVE  config[s].allTerms[j] \in compiled'
      <4>1. CASE j < cursor.term
        BY <1>3, <3>5, <4>1 DEF CacheIInv, PassedIsCovered
      <4>2. CASE j = cursor.term
        BY <1>3, <2>2, <3>5, <4>2
      <4>3. j \in Nat
        BY <1>1, ConfigTypes
      <4> QED
        BY <2>1, <3>5, <4>1, <4>2, <4>3
    <3>6. \A s : PassedStep(s)' = PassedStep(s)
      BY <2>1 DEF PassedStep
    <3> QED
      BY <1>1, <2>1, <3>2, <3>3, <3>4, <3>5, <3>6 DEF PassedIsCovered
  <2>6. compiled' \cap Malformed = {}
    BY <1>3 DEF CacheIInv
  <2>7. load' # "loaded"
    BY <1>1, <1>3 DEF AtTerm, InList
  <2> QED
    BY <2>3, <2>4, <2>5, <2>6, <2>7 DEF CacheIInv
<1> QED
  BY <1>2, <1>3 DEF Compile

\* Only the cursor moves: the rest of the invariant.
LEMMA CursorMoves ==
  ASSUME CacheIInv, UNCHANGED <<config, compiled>>,
         cursor' \in [step : 1..(Len(config) + 1), list : {"terms", "all"}, term : Nat \ {0}],
         CompiledOccurs', PassedIsCovered', UNCHANGED load, load # "loaded"
  PROVE  CacheIInv'
BY DEF CacheIInv, CacheTypeOK

\* The jump out of the loop: the term was compiled before, so its place
\* repeats a pattern, and everything after it is covered by that.
LEMMA SkipRestPreserves == CacheIInv /\ SkipRest => CacheIInv'
<1> SUFFICES ASSUME CacheIInv, SkipRest PROVE CacheIInv'
  OBVIOUS
<1> DEFINE s == cursor.step
           p == Terms(cursor)[cursor.term]
<1>1. CacheTypeOK /\ AtTerm /\ cursor.list = "terms" /\ p \in compiled
        /\ UNCHANGED <<config, compiled, load>> /\ load # "loaded"
  BY DEF CacheIInv, SkipRest, AtTerm, InList
<1>2. /\ cursor'.step = s /\ cursor'.list = "all" /\ cursor'.term = 1
      /\ cursor' \in [step : 1..(Len(config) + 1), list : {"terms", "all"}, term : Nat \ {0}]
      /\ s \in 1..(Len(config) + 1) /\ cursor.term \in Nat \ {0}
  BY DEF CacheIInv, CacheTypeOK, SkipRest, At
<1>3. s \in DOMAIN config /\ cursor.term \in DOMAIN config[s].terms
        /\ config[s].terms[cursor.term] = p
  BY <1>1, TermTypes
<1>4. \A k \in DOMAIN config[s].terms : k \in 1..Len(config[s].terms) /\ k \in Nat
  BY <1>1, <1>3, ConfigTypes
<1>5. OccursBefore(p, s, cursor.term)
  <2>1. \/ \E r \in 1..(s - 1) : p \in Range(config[r].terms) \cup Range(config[r].allTerms)
        \/ \E k \in DOMAIN config[s].terms : k < cursor.term /\ config[s].terms[k] = p
    BY <1>1, Zenon DEF CacheIInv, CompiledOccurs
  <2>2. \A k \in DOMAIN config[s].terms : k < cursor.term => k \in 1..(cursor.term - 1)
    BY <1>2, <1>4
  <2> QED
    BY <2>1, <2>2 DEF OccursBefore
<1>6. \A j \in DOMAIN config[s].terms : Covered(s, j)
  <2>1. SUFFICES ASSUME NEW j \in DOMAIN config[s].terms PROVE Covered(s, j)
    OBVIOUS
  <2>2. CASE j < cursor.term
    BY <1>1, <1>3, <2>2 DEF CacheIInv, PassedIsCovered
  <2>3. CASE j = cursor.term
    BY <1>1, <1>3, <2>3 DEF Covered
  <2>4. CASE j > cursor.term
    <3>1. cursor.term \in 1..(j - 1)
      BY <1>2, <1>4, <2>4
    <3> QED
      BY <1>3, <1>5, <3>1 DEF Covered, LeftBefore
  <2> QED
    BY <1>2, <1>4, <2>2, <2>3, <2>4
<1>7. CompiledOccurs'
  <2>1. s <= Len(config)
    BY <1>1 DEF AtTerm, InList
  <2> QED
    BY <1>1, <1>2, <2>1 DEF CacheIInv, CompiledOccurs
<1>8. PassedIsCovered'
  <2>1. ASSUME NEW r \in DOMAIN config, PassedStep(r) \/ r = s, NEW j \in DOMAIN config[r].terms
        PROVE  Covered(r, j)'
    <3>1. Covered(r, j)
      BY <1>6, <2>1 DEF CacheIInv, PassedIsCovered
    <3> QED
      BY <1>1, <3>1 DEF Covered, LeftBefore, OccursBefore
  <2>2. ASSUME NEW r \in DOMAIN config, PassedStep(r)
        PROVE  Range(config[r].allTerms) \subseteq compiled'
    BY <1>1, <2>2 DEF CacheIInv, PassedIsCovered
  <2>3. \A j \in DOMAIN config[s].allTerms : ~(j < 1)
    BY <1>1, <1>3, ConfigTypes
  <2>4. \A r : PassedStep(r)' = PassedStep(r)
    BY <1>2 DEF PassedStep
  <2> QED
    BY <1>1, <1>2, <2>1, <2>2, <2>3, <2>4 DEF PassedIsCovered
<1> QED
  BY <1>1, <1>2, <1>7, <1>8, CursorMoves

\* A term of the other list that is in the cache is passed.
LEMMA ContinuePreserves == CacheIInv /\ Continue => CacheIInv'
<1> SUFFICES ASSUME CacheIInv, Continue PROVE CacheIInv'
  OBVIOUS
<1> DEFINE s == cursor.step
           p == Terms(cursor)[cursor.term]
<1>1. CacheTypeOK /\ AtTerm /\ cursor.list = "all" /\ p \in compiled
        /\ UNCHANGED <<config, compiled, load>> /\ load # "loaded"
  BY DEF CacheIInv, Continue, AtTerm, InList
<1>2. /\ cursor'.step = s /\ cursor'.list = "all" /\ cursor'.term = cursor.term + 1
      /\ cursor' \in [step : 1..(Len(config) + 1), list : {"terms", "all"}, term : Nat \ {0}]
      /\ s \in 1..(Len(config) + 1) /\ cursor.term \in Nat \ {0}
  <2>1. cursor \in [step : 1..(Len(config) + 1), list : {"terms", "all"}, term : Nat \ {0}]
    BY <1>1 DEF CacheTypeOK
  <2> QED
    BY <1>1, <2>1 DEF Continue, NextTerm
<1>3. s \in DOMAIN config /\ cursor.term \in DOMAIN config[s].allTerms
        /\ config[s].allTerms[cursor.term] = p
  BY <1>1, TermTypes
<1>4. \A k \in DOMAIN config[s].allTerms : k \in Nat
  BY <1>1, <1>3, ConfigTypes
<1>5. CompiledOccurs'
  BY <1>1, <1>2 DEF CacheIInv, CompiledOccurs
<1>6. PassedIsCovered'
  <2>1. ASSUME NEW r \in DOMAIN config, PassedStep(r) \/ r = s, NEW j \in DOMAIN config[r].terms
        PROVE  Covered(r, j)'
    <3>1. Covered(r, j)
      BY <1>1, <2>1 DEF CacheIInv, PassedIsCovered
    <3> QED
      BY <1>1, <3>1 DEF Covered, LeftBefore, OccursBefore
  <2>2. ASSUME NEW r \in DOMAIN config, PassedStep(r)
        PROVE  Range(config[r].allTerms) \subseteq compiled'
    BY <1>1, <2>2 DEF CacheIInv, PassedIsCovered
  <2>3. ASSUME NEW j \in DOMAIN config[s].allTerms, j < cursor.term + 1
        PROVE  config[s].allTerms[j] \in compiled
    <3>1. CASE j < cursor.term
      BY <1>1, <1>3, <3>1 DEF CacheIInv, PassedIsCovered
    <3>2. CASE j = cursor.term
      BY <1>1, <1>3, <3>2
    <3> QED
      BY <1>2, <1>4, <2>3, <3>1, <3>2
  <2>4. \A r : PassedStep(r)' = PassedStep(r)
    BY <1>2 DEF PassedStep
  <2> QED
    BY <1>1, <1>2, <2>1, <2>2, <2>3, <2>4 DEF PassedIsCovered
<1> QED
  BY <1>1, <1>2, <1>5, <1>6, CursorMoves

\* The end of a list: every place of it is before the cursor.
LEMMA EndListPreserves == CacheIInv /\ EndList => CacheIInv'
<1> SUFFICES ASSUME CacheIInv, EndList PROVE CacheIInv'
  OBVIOUS
<1> DEFINE s == cursor.step
<1>1. CacheTypeOK /\ InList /\ ~AtTerm /\ s <= Len(config)
        /\ UNCHANGED <<config, compiled, load>> /\ load # "loaded"
  BY DEF CacheIInv, EndList, InList
<1>2. /\ cursor.list \in {"terms", "all"}
      /\ s \in 1..(Len(config) + 1) /\ cursor.term \in Nat \ {0}
      /\ s \in DOMAIN config /\ Len(config) \in Nat
  BY <1>1, ConfigTypes DEF CacheTypeOK
<1>3. config[s].terms \in Seq(Pattern) /\ config[s].allTerms \in Seq(Pattern)
  BY <1>1, <1>2, ConfigTypes
<1>4. CASE cursor.list = "terms"
  <2>1. /\ cursor'.step = s /\ cursor'.list = "all" /\ cursor'.term = 1
        /\ cursor' \in [step : 1..(Len(config) + 1), list : {"terms", "all"}, term : Nat \ {0}]
    BY <1>2, <1>4 DEF EndList, At
  <2>2. \A j \in DOMAIN config[s].terms : j < cursor.term
    BY <1>1, <1>2, <1>3, <1>4 DEF AtTerm, Terms
  <2>3. CompiledOccurs'
    BY <1>1, <1>2, <1>4, <2>1 DEF CacheIInv, CompiledOccurs
  <2>4. PassedIsCovered'
    <3>1. ASSUME NEW r \in DOMAIN config, PassedStep(r) \/ r = s, NEW j \in DOMAIN config[r].terms
          PROVE  Covered(r, j)'
      <4>1. Covered(r, j)
        BY <1>4, <2>2, <3>1 DEF CacheIInv, PassedIsCovered
      <4> QED
        BY <1>1, <4>1 DEF Covered, LeftBefore, OccursBefore
    <3>2. ASSUME NEW r \in DOMAIN config, PassedStep(r)
          PROVE  Range(config[r].allTerms) \subseteq compiled'
      BY <1>1, <3>2 DEF CacheIInv, PassedIsCovered
    <3>3. \A j \in DOMAIN config[s].allTerms : ~(j < 1)
      BY <1>3
    <3>4. \A r : PassedStep(r)' = PassedStep(r)
      BY <2>1 DEF PassedStep
    <3> QED
      BY <1>1, <2>1, <3>1, <3>2, <3>3, <3>4 DEF PassedIsCovered
  <2> QED
    BY <1>1, <2>1, <2>3, <2>4, CursorMoves
<1>5. CASE cursor.list = "all"
  <2>1. /\ cursor'.step = s + 1 /\ cursor'.list = "terms" /\ cursor'.term = 1
        /\ cursor' \in [step : 1..(Len(config) + 1), list : {"terms", "all"}, term : Nat \ {0}]
    BY <1>1, <1>2, <1>5 DEF EndList, At
  <2>2. \A j \in DOMAIN config[s].allTerms : j < cursor.term
    BY <1>1, <1>2, <1>3, <1>5 DEF AtTerm, Terms
  <2>3. CompiledOccurs'
    <3>1. ASSUME NEW p \in compiled
          PROVE  \E r \in 1..s : p \in Range(config[r].terms) \cup Range(config[r].allTerms)
      <4>1. \/ \E r \in 1..(s - 1) : p \in Range(config[r].terms) \cup Range(config[r].allTerms)
            \/ \E k \in DOMAIN config[s].terms : config[s].terms[k] = p
            \/ p \in Range(config[s].allTerms)
        BY Zenon DEF CacheIInv, CompiledOccurs
      <4> QED
        BY <1>2, <4>1 DEF Range
    <3>2. cursor'.step - 1 = s
      BY <1>2, <2>1
    <3> QED
      BY <1>1, <3>1, <3>2, Zenon DEF CompiledOccurs
  <2>4. PassedIsCovered'
    <3>1. \A r \in DOMAIN config : PassedStep(r)' <=> PassedStep(r) \/ r = s
      BY <1>1, <1>2, <2>1, ConfigTypes DEF PassedStep
    <3>2. ASSUME NEW r \in DOMAIN config, PassedStep(r) \/ r = s, NEW j \in DOMAIN config[r].terms
          PROVE  Covered(r, j)'
      <4>1. Covered(r, j)
        BY <1>5, <3>2 DEF CacheIInv, PassedIsCovered
      <4> QED
        BY <1>1, <4>1 DEF Covered, LeftBefore, OccursBefore
    <3>3. ASSUME NEW r \in DOMAIN config, PassedStep(r) \/ r = s
          PROVE  Range(config[r].allTerms) \subseteq compiled
      <4>1. CASE PassedStep(r)
        BY <4>1 DEF CacheIInv, PassedIsCovered
      <4>2. CASE r = s
        <5>1. \A j \in DOMAIN config[s].allTerms : config[s].allTerms[j] \in compiled
          BY <1>2, <1>5, <2>2 DEF CacheIInv, PassedIsCovered
        <5> QED
          BY <4>2, <5>1 DEF Range
      <4> QED
        BY <3>3, <4>1, <4>2
    <3>4. ASSUME NEW r \in DOMAIN config, r = cursor'.step
          PROVE  \A j \in DOMAIN config[r].terms : ~(j < 1)
      BY <1>1, ConfigTypes
    <3> QED
      BY <1>1, <2>1, <3>1, <3>2, <3>3, <3>4 DEF PassedIsCovered
  <2> QED
    BY <1>1, <2>1, <2>3, <2>4, CursorMoves
<1> QED
  BY <1>2, <1>4, <1>5

LEMMA LoadedPreserves == CacheIInv /\ Loaded => CacheIInv'
<1> SUFFICES ASSUME CacheIInv, Loaded PROVE CacheIInv'
  OBVIOUS
<1>1. CacheTypeOK /\ UNCHANGED <<config, compiled, cursor>> /\ load' = "loaded"
        /\ cursor.step > Len(config)
  BY DEF CacheIInv, Loaded
<1>2. cursor.step = Len(config) + 1
  BY <1>1, ConfigTypes DEF CacheTypeOK
<1>3. CacheTypeOK' /\ CompiledOccurs'
  BY <1>1 DEF CacheIInv, CacheTypeOK, CompiledOccurs
<1>4. PassedIsCovered'
  BY <1>1 DEF CacheIInv, PassedIsCovered, PassedStep, Covered, LeftBefore, OccursBefore
<1> QED
  BY <1>1, <1>2, <1>3, <1>4 DEF CacheIInv

\* Only LoadConfig touches the cache.
LEMMA OnlyLoadConfig ==
  BuiltinNext => LoadConfig \/ UNCHANGED cacheVars
BY DEF BuiltinNext, Load, Progress, Begin, TryUnknown, Evaluate, FatalLookup,
       StartPhrase, NextWord, EndPhrase, Return, Leave

LEMMA CacheStep == CacheIInv /\ [BuiltinNext]_builtinVars => CacheIInv'
<1> SUFFICES ASSUME CacheIInv, [BuiltinNext]_builtinVars PROVE CacheIInv'
  OBVIOUS
<1>1. LoadConfig \/ UNCHANGED cacheVars
  BY OnlyLoadConfig DEF builtinVars
<1>2. CASE UNCHANGED cacheVars
  BY <1>2 DEF cacheVars, CacheIInv, CacheTypeOK, CompiledOccurs, PassedIsCovered,
              PassedStep, Covered, LeftBefore, OccursBefore
<1> QED
  BY <1>1, <1>2, CompilePreserves, SkipRestPreserves, ContinuePreserves,
     EndListPreserves, LoadedPreserves DEF LoadConfig

\* In every reachable state what the cursor has passed is covered.
THEOREM CacheInvariance == BuiltinSpec => []CacheIInv
<1>1. BuiltinInit => CacheIInv
  BY CacheInitial DEF BuiltinInit
<1> QED
  BY <1>1, CacheStep, PTL DEF BuiltinSpec

LEMMA LoadedIsCovered ==
  ASSUME CacheIInv, load = "loaded"
  PROVE  \A s \in DOMAIN config :
           /\ \A j \in DOMAIN config[s].terms : Covered(s, j)
           /\ Range(config[s].allTerms) \subseteq compiled
<1>1. \A s \in DOMAIN config : PassedStep(s)
  BY ConfigTypes DEF CacheIInv, PassedStep
<1> QED
  BY <1>1 DEF CacheIInv, PassedIsCovered

\* An expression of the configuration is missing from the cache only if it
\* follows a repeated one in its RequireRegexMatches list (config.go).
THEOREM RegexMissingOnlyAfterRepeat == BuiltinSpec => []MissingOnlyAfterRepeat
<1>1. CacheIInv => MissingOnlyAfterRepeat
  BY LoadedIsCovered DEF CacheIInv, MissingOnlyAfterRepeat
<1> QED
  BY <1>1, CacheInvariance, PTL

-----------------------------------------------------------------------------
(* Lookups.                                                                *)

\* A call is under way only after LoadConfig, with a step of the configuration,
\* and one that ended the process was at a term that is not in the cache.
CallIInv ==
  /\ call # "none" => load = "loaded" /\ stepNumber \in DOMAIN config
  /\ call = "fatal" =>
       \/ \E i \in DOMAIN Filter.terms : Filter.terms[i] \notin compiled
       \/ \E i \in DOMAIN Filter.allTerms : Filter.allTerms[i] \notin compiled

LEMMA CallStep == CallIInv /\ [BuiltinNext]_builtinVars => CallIInv'
<1> SUFFICES ASSUME CallIInv, [BuiltinNext]_builtinVars PROVE CallIInv'
  OBVIOUS
<1>1. CASE Load
  BY <1>1 DEF Load, LoadConfig, Compile, SkipRest, Continue, EndList, Loaded,
              AtTerm, InList, callVars, CallIInv
<1>2. ASSUME NEW s \in DOMAIN config, NEW r \in Messages, NEW a \in Annotations, Begin(s, r, a)
      PROVE  CallIInv'
  BY <1>2 DEF Begin, cacheVars, CallIInv
<1>3. ASSUME NEW c \in Range(Fields), TryUnknown(c) \/ Evaluate(c)
      PROVE  CallIInv'
  BY <1>3 DEF TryUnknown, Evaluate, AtField, cacheVars, CallIInv
<1>4. ASSUME NEW c \in Range(Fields), FatalLookup(c)
      PROVE  CallIInv'
  BY <1>4 DEF FatalLookup, Fatal, FatalN, FatalAll, AtField, cacheVars, CallIInv, Filter
<1>5. CASE StartPhrase \/ NextWord \/ EndPhrase \/ Return \/ Leave
  BY <1>5 DEF StartPhrase, NextWord, EndPhrase, Return, Leave, AtField,
              cacheVars, callVars, CallIInv
<1>6. CASE UNCHANGED builtinVars
  BY <1>6 DEF builtinVars, callVars, cacheVars, CallIInv, Filter
<1> QED
  BY <1>1, <1>2, <1>3, <1>4, <1>5, <1>6 DEF BuiltinNext, Progress

\* A lookup ends the process only after a repeated pattern, in one list of
\* RequireRegexMatches (filter_builtin.go, config.go).
THEOREM LookupFatalOnlyAfterRepeat == BuiltinSpec => []FatalOnlyAfterRepeat
<1>1. BuiltinInit => CallIInv
  BY DEF BuiltinInit, CallIInv
<1>2. BuiltinSpec => []CallIInv
  BY <1>1, CallStep, PTL DEF BuiltinSpec
<1>3. ASSUME CacheIInv, CallIInv, call = "fatal"
      PROVE  \E j \in DOMAIN Filter.terms :
               Filter.terms[j] \notin compiled /\ LeftBefore(stepNumber, j)
  <2>1. load = "loaded" /\ stepNumber \in DOMAIN config
    BY <1>3 DEF CallIInv
  <2>2. \A j \in DOMAIN Filter.terms : Covered(stepNumber, j)
    BY <1>3, <2>1, LoadedIsCovered DEF Filter
  <2>3. \A i \in DOMAIN Filter.allTerms : Filter.allTerms[i] \in compiled
    BY <1>3, <2>1, LoadedIsCovered DEF Filter, Range
  <2> QED
    BY <1>3, <2>2, <2>3 DEF CallIInv, Covered, Filter
<1>4. CacheIInv /\ CallIInv => FatalOnlyAfterRepeat
  BY <1>3 DEF FatalOnlyAfterRepeat
<1> QED
  BY <1>2, <1>4, CacheInvariance, PTL

-----------------------------------------------------------------------------
(* The longest phrase.                                                     *)

\* The text the filters read is the one that was received, or none.
LEMMA TextOfMessage ==
  ASSUME NEW r \in Messages, NEW a \in Annotations
  PROVE  AsText(MergeAPMessages(Prepare(r, selected), a)).words \in Seq(BOOLEAN)
<1> DEFINE p == Prepare(r, selected)
           msg == MergeAPMessages(p, a)
<1>1. NoText.words \in Seq(BOOLEAN)
  BY DEF NoText
<1>2. "MessageText" \in DOMAIN p => p["MessageText"] = GoString(r.text)
  <2>1. CommonFields(r)["MessageText"] = GoString(r.text)
    BY DEF CommonFields
  <2> QED
    BY <2>1, Zenon DEF Prepare, Restrict
<1>3. "MessageText" \in DOMAIN msg => msg["MessageText"] = GoString(r.text)
  BY <1>2, BuiltinAssumption, Zenon DEF MergeAPMessages
<1>4. GoString(r.text).v = r.text
  BY DEF GoString, Typed
<1>5. AsText(msg) = r.text \/ AsText(msg) = NoText
  BY <1>3, <1>4 DEF AsText, CommonField
<1> QED
  BY <1>1, <1>5, BuiltinAssumption

\* The loop over the words keeps its invariant, and the text it is started
\* with is a sequence of words.
PhraseCallIInv ==
  PhraseIInv /\ (call # "none" => AsText(m).words \in Seq(BOOLEAN))

LEMMA PhraseUntouched ==
  ASSUME PhraseIInv, UNCHANGED phraseVars
  PROVE  PhraseIInv'
BY DEF PhraseIInv, phraseVars, PhraseTypeOK, OpenChainCounted, ChainsCovered,
       CountsKnown, AtMostTwoChains, PhraseDone

LEMMA PhraseCallStep == PhraseCallIInv /\ [BuiltinNext]_builtinVars => PhraseCallIInv'
<1> SUFFICES ASSUME PhraseCallIInv, [BuiltinNext]_builtinVars PROVE PhraseCallIInv'
  OBVIOUS
<1> DEFINE Kept == UNCHANGED phraseVars /\ m' = m /\ (call' # "none" => call # "none")
<1>1. ASSUME Kept PROVE PhraseCallIInv'
  BY <1>1, PhraseUntouched DEF PhraseCallIInv
<1>2. CASE Load \/ UNCHANGED builtinVars
  BY <1>1, <1>2 DEF Load, callVars, builtinVars
<1>3. ASSUME NEW s \in DOMAIN config, NEW r \in Messages, NEW a \in Annotations, Begin(s, r, a)
      PROVE  PhraseCallIInv'
  <2>1. PhraseIInv'
    BY <1>3, PhraseUntouched DEF Begin, PhraseCallIInv
  <2>2. AsText(MergeAPMessages(Prepare(r, selected), a)).words \in Seq(BOOLEAN)
    BY TextOfMessage
  <2>3. m' = MergeAPMessages(Prepare(r, selected), a)
    BY <1>3 DEF Begin
  <2> QED
    BY <2>1, <2>2, <2>3, Zenon DEF PhraseCallIInv, AsText, CommonField
<1>4. ASSUME NEW c \in Range(Fields), TryUnknown(c) \/ Evaluate(c) \/ FatalLookup(c)
      PROVE  PhraseCallIInv'
  BY <1>1, <1>4 DEF TryUnknown, Evaluate, FatalLookup, AtField
<1>5. CASE EndPhrase \/ Return
  BY <1>1, <1>5 DEF EndPhrase, Return
<1>6. CASE StartPhrase
  <2>1. AsText(m).words \in Seq(BOOLEAN) /\ PhraseStart(AsText(m).words) /\ m' = m
    BY <1>6 DEF StartPhrase, AtField, PhraseCallIInv
  <2> QED
    BY <2>1, PhraseStarts, Zenon DEF PhraseCallIInv, AsText, CommonField
<1>7. CASE NextWord
  <2>1. LookAtWord /\ UNCHANGED callVars
    BY <1>7 DEF NextWord
  <2>2. PhraseIInv'
    BY <2>1, LookAtWordPreserves DEF PhraseCallIInv
  <2> QED
    BY <2>1, <2>2 DEF PhraseCallIInv, callVars
<1>8. CASE Leave
  <2>1. <<>> \in Seq(BOOLEAN) /\ PhraseStart(<<>>) /\ call' = "none"
    BY <1>8 DEF Leave
  <2> QED
    BY <2>1, PhraseStarts DEF PhraseCallIInv
<1> QED
  BY <1>2, <1>3, <1>4, <1>5, <1>6, <1>7, <1>8 DEF BuiltinNext, Progress

THEOREM PhraseInvariance == BuiltinSpec => []PhraseCallIInv
<1>1. ASSUME BuiltinInit PROVE PhraseCallIInv
  <2>1. wordSlice = <<>> /\ idx = 0 /\ consecutive = 0 /\ maxConsecutive = 0 /\ call = "none"
    BY <1>1 DEF BuiltinInit
  <2>2. PhraseTypeOK /\ OpenChainCounted /\ ChainsCovered
    BY <2>1 DEF PhraseTypeOK, OpenChainCounted, ChainsCovered
  <2>3. CountsKnown
    BY <2>1, KnownNone DEF CountsKnown
  <2>4. AtMostTwoChains
    <3>1. Chain(<<>>, 0, 0) /\ <<>> \in Seq(BOOLEAN)
      BY DEF Chain
    <3>2. StartsIn(<<>>, 0) = 0
      BY <3>1, StartsNone
    <3> QED
      BY <2>1, <3>1, <3>2 DEF AtMostTwoChains
  <2> QED
    BY <2>1, <2>2, <2>3, <2>4 DEF PhraseCallIInv, PhraseIInv
<1> QED
  BY <1>1, PhraseCallStep, PTL DEF BuiltinSpec

\* The result is never shorter than a chain of dictionary words in the text
\* (LongestDictionaryWordPhraseLength).
THEOREM PhraseNotTooShort == BuiltinSpec => []NotTooShort
<1>1. PhraseCallIInv => NotTooShort
  BY PhraseResult DEF PhraseCallIInv
<1> QED
  BY <1>1, PhraseInvariance, PTL

\* It is never longer than the number of dictionary words in the text.
THEOREM PhraseNotAboveKnown == BuiltinSpec => []NotAboveKnown
<1>1. PhraseCallIInv => NotAboveKnown
  BY PhraseResult DEF PhraseCallIInv
<1> QED
  BY <1>1, PhraseInvariance, PTL

\* The chain that is not emptied when it was no new maximum falsifies the
\* result only of a text with three chains or more: with two the result is
\* the length of one of them, so by NotTooShort that of the longest.
THEOREM PhraseExactWithTwoChains == BuiltinSpec => []ExactWithTwoChains
<1>1. PhraseCallIInv => ExactWithTwoChains
  BY PhraseResult DEF PhraseCallIInv
<1> QED
  BY <1>1, PhraseInvariance, PTL
=============================================================================
