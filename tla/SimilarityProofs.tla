--------------------------- MODULE SimilarityProofs ---------------------------
(* Proofs about SimilarityFilter, for any messages, workers, texts and     *)
(* filters.                                                                *)
EXTENDS SimilarityFilter, FiniteSetTheorems, TLAPS

-----------------------------------------------------------------------------
(* Facts about the configuration.                                          *)

\* A configuration has a first filter, and each has a limit.
LEMMA FilterTypes ==
  ASSUME SimTypeOK
  PROVE  /\ Len(filters) \in Nat /\ DOMAIN filters = 1..Len(filters)
         /\ 1 \in DOMAIN filters
         /\ \A i \in DOMAIN filters : filters[i].lookBehind \in Nat
<1>1. filters \in Seq([lookBehind : Nat, dontFilterIfLonger : BOOLEAN]) /\ filters # <<>>
  BY SimilarityAssumption DEF SimTypeOK
<1>2. 1 \in DOMAIN filters
  BY <1>1
<1> DEFINE R == [lookBehind : Nat, dontFilterIfLonger : BOOLEAN]
<1>3. \A i \in DOMAIN filters : filters[i].lookBehind \in Nat
  <2>1. filters \in Seq(R)
    BY <1>1
  <2>2. \A x \in R : x.lookBehind \in Nat
    OBVIOUS
  <2> HIDE DEF R
  <2>3. \A i \in DOMAIN filters : filters[i] \in R
    BY <2>1
  <2> QED
    BY <2>2, <2>3
<1>4. Len(filters) \in Nat /\ DOMAIN filters = 1..Len(filters)
  BY <1>1
<1> QED
  BY <1>2, <1>3, <1>4

\* The processed rows of a table are messages of it.
LEMMA ProcessedTypes ==
  ASSUME NEW k \in Kind, NEW R \in QueryResults(k)
  PROVE  /\ R \subseteq TableOf(k) /\ R \subseteq Msg
         /\ \A x \in R : IsProcessed(x)
         /\ R = Processed(k) \/ Cardinality(R) = defaultMaxLookbehind
BY DEF QueryResults, Processed, TableOf, Msg, IsProcessed

LEMMA SimInitial == SimInit => SimIInv
<1> SUFFICES ASSUME SimInit PROVE SimIInv
  OBVIOUS
<1>1. filters \in FilterLists /\ filters # <<>>
        /\ filters \in Seq([lookBehind : Nat, dontFilterIfLonger : BOOLEAN])
  BY SimilarityAssumption DEF SimInit
<1>2. 1 \in DOMAIN filters
  BY <1>1
<1>3. SimTypeOK
  BY <1>1, <1>2, SimilarityAssumption DEF SimInit, SimTypeOK, NoRows
<1>4. OpenMessages /\ SeenIsProcessed
  BY DEF SimInit, OpenMessages, SeenIsProcessed, IsProcessed, NoRows
<1>5. LimitIsInUse /\ QueriesSee
  BY DEF SimInit, LimitIsInUse, QueriesSee
<1>6. DropHasWitness /\ NoCircularDrops
  BY DEF SimInit, DropHasWitness, NoCircularDrops, Dropped
<1> QED
  BY <1>3, <1>4, <1>5, <1>6 DEF SimIInv

-----------------------------------------------------------------------------
(* What a step may leave alone.                                            *)

\* Drops stand as long as causes and rows do.
LEMMA DropsStand ==
  ASSUME SimIInv, UNCHANGED <<similar, row, cause>>
  PROVE  DropHasWitness' /\ NoCircularDrops'
BY DEF SimIInv, DropHasWitness, NoCircularDrops, Dropped

\* What was seen stays processed as long as rows do.
LEMMA SeenStands ==
  ASSUME SimIInv, UNCHANGED <<row, found, before>>
  PROVE  SeenIsProcessed'
BY DEF SimIInv, SeenIsProcessed, IsProcessed

LEMMA OpenStands ==
  ASSUME SimIInv, UNCHANGED <<row, held, waiting>>,
         \A w \in Worker : pc'[w] = "idle" <=> pc[w] = "idle"
  PROVE  OpenMessages'
BY DEF SimIInv, OpenMessages, IsProcessed

LEMMA LimitStands ==
  ASSUME SimIInv, UNCHANGED <<filters, defaultMaxLookbehind>>,
         \A w \in Worker : pc'[w] \notin {"idle", "limit"} => pc[w] \notin {"idle", "limit"}
  PROVE  LimitIsInUse'
BY DEF SimIInv, LimitIsInUse, LimitsInUse

\* What the queries of a worker returned stands as long as it is not asked again.
LEMMA QueriesStand ==
  ASSUME SimIInv, UNCHANGED <<filters, found, before>>,
         \A w \in Worker :
           pc'[w] # pc[w] => pc'[w] \notin {"VDLM2", "compare"}
  PROVE  QueriesSee'
BY DEF SimIInv, QueriesSee, Seen, LimitsInUse

-----------------------------------------------------------------------------
(* The actions.                                                            *)

LEMMA TakePreserves ==
  ASSUME SimIInv, NEW w \in Worker, NEW m \in Msg, Take(w, m)
  PROVE  SimIInv'
<1>1. SimTypeOK /\ pc[w] = "idle" /\ m \in waiting /\ ~IsProcessed(m) /\ held[w] = NoMsg
  BY DEF SimIInv, Take, OpenMessages
<1>2. 1 \in DOMAIN filters
  BY <1>1, FilterTypes
<1>3. SimTypeOK'
  BY <1>1, <1>2 DEF SimTypeOK, Take, Goto
<1>4. m # NoMsg /\ \A v \in Worker : held[v] # m
  BY <1>1, SimilarityAssumption DEF SimIInv, OpenMessages
<1>5. OpenMessages'
  <2>1. \A v \in Worker : /\ pc'[v] = IF v = w THEN "limit" ELSE pc[v]
                          /\ held'[v] = IF v = w THEN m ELSE held[v]
    BY <1>1 DEF SimTypeOK, Take, Goto
  <2>2. waiting' = waiting \ {m} /\ row' = row
    BY DEF Take
  <2> QED
    BY <1>1, <1>4, <2>1, <2>2 DEF SimIInv, OpenMessages, IsProcessed
<1>6. SeenIsProcessed'
  BY <1>1 DEF SimIInv, SeenIsProcessed, IsProcessed, Take, SimTypeOK
<1>7. LimitIsInUse'
  BY <1>1, LimitStands DEF Take, Goto, SimTypeOK
<1>8. QueriesSee'
  <2>1. \A v \in Worker : v # w => pc'[v] = pc[v] /\ before'[v] = before[v]
    BY <1>1 DEF SimTypeOK, Take, Goto
  <2>2. pc'[w] = "limit" /\ UNCHANGED <<found, filters>>
    BY <1>1 DEF SimTypeOK, Take, Goto
  <2> QED
    BY <2>1, <2>2 DEF SimIInv, QueriesSee, Seen, LimitsInUse
<1>9. cause' = [cause EXCEPT ![m] = NoMsg] /\ row' = row /\ similar' = similar
        /\ \A x \in Msg : cause'[x] = IF x = m THEN NoMsg ELSE cause[x]
  BY <1>1 DEF Take, SimTypeOK
<1>10. DropHasWitness'
  BY <1>9 DEF SimIInv, DropHasWitness
<1>11. NoCircularDrops'
  <2>1. \A x \in Msg : row[x] = "processed" => cause'[x] = cause[x]
    BY <1>1, <1>9 DEF IsProcessed
  <2> QED
    BY <1>9, <2>1 DEF SimIInv, NoCircularDrops, Dropped
<1> QED
  BY <1>3, <1>5, <1>6, <1>7, <1>8, <1>10, <1>11 DEF SimIInv

\* The limit is set by the filter, or is one that an earlier filter has set.
LEMMA SetLimitPreserves ==
  ASSUME SimIInv, NEW w \in Worker, SetLimit(w)
  PROVE  SimIInv'
<1>1. SimTypeOK /\ pc[w] = "limit" /\ at[w] \in DOMAIN filters
        /\ FilterAt(w).lookBehind \in Nat /\ FilterAt(w) \in Range(filters)
  BY FilterTypes DEF SimIInv, SetLimit, SimTypeOK, FilterAt, Range
<1>2. SimTypeOK'
  BY <1>1 DEF SimTypeOK, SetLimit, Goto
<1>3. \A v \in Worker : pc'[v] = IF v = w THEN "ACARS" ELSE pc[v]
  BY <1>1 DEF SimTypeOK, SetLimit, Goto
<1>4. OpenMessages' /\ SeenIsProcessed' /\ QueriesSee' /\ DropHasWitness' /\ NoCircularDrops'
  BY <1>1, <1>3, OpenStands, SeenStands, QueriesStand, DropsStand DEF SetLimit
<1>5. LimitIsInUse'
  <2>1. defaultMaxLookbehind' \in LimitsInUse
    <3>1. CASE FilterAt(w).lookBehind # 0
      BY <1>1, <3>1 DEF SetLimit, LimitsInUse
    <3>2. CASE FilterAt(w).lookBehind = 0
      <4>1. Default \in LimitsInUse
        BY <1>1, <3>2 DEF LimitsInUse
      <4> QED
        BY <3>2, <4>1 DEF SetLimit, SimIInv, LimitIsInUse
    <3> QED
      BY <3>1, <3>2
  <2>2. LimitsInUse' = LimitsInUse
    BY DEF SetLimit, LimitsInUse
  <2> QED
    BY <2>1, <2>2 DEF LimitIsInUse
<1> QED
  BY <1>2, <1>4, <1>5 DEF SimIInv

\* A query returns all processed rows of its table, or as many as the limit.
LEMMA QueryPreserves ==
  ASSUME SimIInv, NEW w \in Worker, NEW k \in Kind, Query(w, k)
  PROVE  SimIInv'
<1>1. PICK R \in QueryResults(k) : found' = [found EXCEPT ![w][k] = R]
  BY DEF Query
<1>2. SimTypeOK /\ pc[w] = k
        /\ UNCHANGED <<filters, similar, row, waiting, defaultMaxLookbehind, held, at,
                       before, cause, sent, lost>>
  BY DEF SimIInv, Query
<1>3. /\ R \subseteq TableOf(k) /\ R \subseteq Msg
      /\ \A x \in R : IsProcessed(x)
      /\ R = Processed(k) \/ Cardinality(R) = defaultMaxLookbehind
  BY ProcessedTypes
<1>4. /\ \A v \in Worker : pc'[v] = IF v = w THEN IF k = "ACARS" THEN "VDLM2" ELSE "compare"
                                    ELSE pc[v]
      /\ pc' \in [Worker -> {"idle", "limit", "ACARS", "VDLM2", "compare", "mark"}]
  BY <1>2 DEF SimTypeOK, Query, Goto
<1>5. /\ found' \in [Worker -> [Kind -> SUBSET Msg]]
      /\ \A v \in Worker, l \in Kind :
           found'[v][l] = IF v = w /\ l = k THEN R ELSE found[v][l]
  BY <1>1, <1>2, <1>3 DEF SimTypeOK
<1>6. SimTypeOK'
  BY <1>2, <1>4, <1>5 DEF SimTypeOK
<1>7. OpenMessages' /\ LimitIsInUse'
  BY <1>2, <1>4, OpenStands, LimitStands DEF Kind
<1>8. SeenIsProcessed'
  BY <1>2, <1>3, <1>5 DEF SimIInv, SeenIsProcessed, IsProcessed
<1>9. DropHasWitness' /\ NoCircularDrops'
  BY <1>2, DropsStand
<1>10. QueriesSee'
  <2>1. Seen(w, k)'
    <3>1. found'[w][k] = R /\ LimitsInUse' = LimitsInUse /\ before' = before
      BY <1>2, <1>5 DEF LimitsInUse
    <3>2. CASE R = Processed(k)
      <4>1. before[w] \cap TableOf(k) \subseteq R
        BY <1>2, <3>2 DEF SimIInv, SeenIsProcessed, IsProcessed, Processed
      <4> QED
        BY <3>1, <4>1 DEF Seen
    <3>3. CASE Cardinality(R) = defaultMaxLookbehind
      <4>1. defaultMaxLookbehind \in LimitsInUse
        BY <1>2 DEF SimIInv, LimitIsInUse, Kind
      <4> QED
        BY <3>1, <3>3, <4>1 DEF Seen
    <3> QED
      BY <1>3, <3>2, <3>3
  <2>2. \A v \in Worker, l \in Kind : Seen(v, l) /\ (v # w \/ l # k) => Seen(v, l)'
    BY <1>2, <1>5 DEF Seen, LimitsInUse
  <2>3. ASSUME NEW v \in Worker
        PROVE  /\ pc'[v] \in {"VDLM2", "compare"} => Seen(v, "ACARS")'
               /\ pc'[v] = "compare" => Seen(v, "VDLM2")'
    BY <1>2, <1>4, <2>1, <2>2 DEF SimIInv, QueriesSee, Kind
  <2> QED
    BY <2>3 DEF QueriesSee
<1> QED
  BY <1>6, <1>7, <1>8, <1>9, <1>10 DEF SimIInv

\* The rows FirstSimilar returns are processed and similar to the message.
LEMMA WitnessTypes ==
  ASSUME SimIInv, NEW w \in Worker, NEW x \in FirstSimilar(w)
  PROVE  x \in Msg /\ IsProcessed(x) /\ <<held[w], x>> \in similar
<1>1. \E k \in Kind : x \in found[w][k] /\ <<held[w], x>> \in similar
  BY DEF FirstSimilar, Kind
<1> QED
  BY <1>1 DEF SimIInv, SimTypeOK, SeenIsProcessed

LEMMA DropPreserves ==
  ASSUME SimIInv, NEW w \in Worker, Drop(w)
  PROVE  SimIInv'
<1>1. PICK x \in FirstSimilar(w) : cause' = [cause EXCEPT ![held[w]] = x]
  BY DEF Drop
<1>2. SimTypeOK /\ pc[w] = "compare" /\ held[w] \in Msg /\ ~IsProcessed(held[w])
        /\ UNCHANGED <<filters, similar, row, waiting, defaultMaxLookbehind, held, at,
                       found, before, sent, lost>>
  BY DEF SimIInv, Drop, SimTypeOK, OpenMessages
<1>3. x \in Msg /\ IsProcessed(x) /\ <<held[w], x>> \in similar
  BY WitnessTypes
<1>4. /\ \A v \in Worker : pc'[v] = IF v = w THEN "mark" ELSE pc[v]
      /\ pc' \in [Worker -> {"idle", "limit", "ACARS", "VDLM2", "compare", "mark"}]
  BY <1>2 DEF SimTypeOK, Drop, Goto
<1>5. /\ cause' \in [Msg -> Msg \cup {NoMsg}]
      /\ \A y \in Msg : cause'[y] = IF y = held[w] THEN x ELSE cause[y]
  BY <1>1, <1>2, <1>3 DEF SimTypeOK
<1>6. SimTypeOK'
  BY <1>2, <1>4, <1>5 DEF SimTypeOK
<1>7. OpenMessages' /\ SeenIsProcessed' /\ LimitIsInUse' /\ QueriesSee'
  BY <1>2, <1>4, OpenStands, SeenStands, LimitStands, QueriesStand
<1>8. DropHasWitness'
  BY <1>2, <1>3, <1>5 DEF SimIInv, DropHasWitness, IsProcessed
<1>9. NoCircularDrops'
  <2>1. \A y \in Msg : row[y] = "processed" => cause'[y] = cause[y]
    BY <1>2, <1>5 DEF IsProcessed
  <2> QED
    BY <1>2, <2>1 DEF SimIInv, NoCircularDrops, Dropped
<1> QED
  BY <1>6, <1>7, <1>8, <1>9 DEF SimIInv

LEMMA KeepPreserves ==
  ASSUME SimIInv, NEW w \in Worker, Keep(w)
  PROVE  SimIInv'
<1>1. SimTypeOK /\ pc[w] = "compare" /\ held[w] \in Msg
        /\ UNCHANGED <<filters, similar, row, waiting, defaultMaxLookbehind, held,
                       found, before, cause, lost>>
  BY DEF SimIInv, Keep, SimTypeOK, OpenMessages
<1>2. /\ \A v \in Worker : v # w => pc'[v] = pc[v]
      /\ pc'[w] \in {"limit", "mark"}
      /\ pc' \in [Worker -> {"idle", "limit", "ACARS", "VDLM2", "compare", "mark"}]
  BY <1>1 DEF SimTypeOK, Keep, Goto
<1>3. at' \in [Worker -> Nat] /\ \A v \in Worker : at'[v] \in DOMAIN filters
  <2>1. CASE at[w] < Len(filters)
    <3>1. at' = [at EXCEPT ![w] = at[w] + 1] /\ at \in [Worker -> Nat]
      BY <1>1, <2>1 DEF SimTypeOK, Keep
    <3>2. at[w] + 1 \in Nat /\ at[w] + 1 \in DOMAIN filters
      BY <1>1, <2>1, FilterTypes DEF SimTypeOK
    <3> QED
      BY <1>1, <3>1, <3>2 DEF SimTypeOK
  <2>2. CASE ~(at[w] < Len(filters))
    BY <1>1, <2>2 DEF SimTypeOK, Keep
  <2> QED
    BY <2>1, <2>2
<1>4. sent' \subseteq Msg
  BY <1>1 DEF SimTypeOK, Keep
<1>5. SimTypeOK'
  BY <1>1, <1>2, <1>3, <1>4 DEF SimTypeOK
<1>6. \A v \in Worker : /\ pc'[v] = "idle" <=> pc[v] = "idle"
                        /\ pc'[v] \notin {"idle", "limit"} => pc[v] \notin {"idle", "limit"}
                        /\ pc'[v] # pc[v] => pc'[v] \notin {"VDLM2", "compare"}
  BY <1>1, <1>2
<1>7. OpenMessages' /\ SeenIsProcessed' /\ LimitIsInUse' /\ QueriesSee'
  BY <1>1, <1>6, OpenStands, SeenStands, LimitStands, QueriesStand
<1> QED
  BY <1>1, <1>5, <1>7, DropsStand DEF SimIInv

\* The row of the message is marked, or the update has failed.  A message that
\* becomes one of the dropped ones was the cause of none of them.
LEMMA MarkPreserves ==
  ASSUME SimIInv, NEW w \in Worker, Mark(w)
  PROVE  SimIInv'
<1> DEFINE h == held[w]
<1>1. SimTypeOK /\ pc[w] = "mark" /\ h \in Msg /\ ~IsProcessed(h) /\ h # NoMsg
        /\ UNCHANGED <<filters, similar, waiting, defaultMaxLookbehind, at, cause, sent>>
  BY SimilarityAssumption DEF SimIInv, Mark, SimTypeOK, OpenMessages
<1>2. /\ row' \in [Msg -> {"none", "unprocessed", "processed"}]
      /\ lost' \in BOOLEAN
      /\ \A x \in Msg : x # h => row'[x] = row[x]
  BY <1>1 DEF Mark, SimTypeOK
<1>3. /\ held' \in [Worker -> Msg \cup {NoMsg}]
      /\ \A v \in Worker : held'[v] = IF v = w THEN NoMsg ELSE held[v]
      /\ pc' \in [Worker -> {"idle", "limit", "ACARS", "VDLM2", "compare", "mark"}]
      /\ \A v \in Worker : pc'[v] = IF v = w THEN "idle" ELSE pc[v]
  BY <1>1 DEF Mark, Goto, SimTypeOK
<1>4. /\ found' \in [Worker -> [Kind -> SUBSET Msg]]
      /\ before' \in [Worker -> SUBSET Msg]
      /\ \A v \in Worker : /\ found'[v] = IF v = w THEN NoRows ELSE found[v]
                           /\ before'[v] = IF v = w THEN {} ELSE before[v]
  BY <1>1 DEF Mark, SimTypeOK, NoRows
<1>5. SimTypeOK'
  BY <1>1, <1>2, <1>3, <1>4 DEF SimTypeOK
<1>6. \A x \in Msg : IsProcessed(x) => IsProcessed(x)'
  BY <1>1, <1>2 DEF IsProcessed
<1>7. OpenMessages'
  <2>1. h \notin waiting /\ \A v \in Worker : v # w => held[v] # h
    BY <1>1 DEF SimIInv, OpenMessages
  <2>2. \A x \in waiting : x \in Msg /\ ~IsProcessed(x)'
    BY <1>1, <1>2, <2>1 DEF SimIInv, OpenMessages, SimTypeOK, IsProcessed
  <2>3. \A x \in Msg : x # h /\ row[x] # "processed" => row'[x] # "processed"
    BY <1>2
  <2>4. ASSUME NEW v \in Worker, v # w, held[v] # NoMsg
        PROVE  row'[held[v]] # "processed" /\ held[v] \notin waiting
    <3>1. held[v] \in Msg /\ held[v] # h
      BY <1>1, <2>1, <2>4 DEF SimTypeOK
    <3>2. row[held[v]] # "processed" /\ held[v] \notin waiting
      BY <2>4 DEF SimIInv, OpenMessages, IsProcessed
    <3> QED
      BY <2>3, <3>1, <3>2
  <2>5. \A v \in Worker :
          /\ held'[v] = NoMsg <=> pc'[v] = "idle"
          /\ held'[v] # NoMsg => row'[held'[v]] # "processed" /\ held'[v] \notin waiting
          /\ \A u \in Worker : u # v /\ held'[u] = held'[v] => held'[v] = NoMsg
    BY <1>3, <2>4 DEF SimIInv, OpenMessages
  <2> QED
    BY <1>1, <2>2, <2>5 DEF OpenMessages, IsProcessed
<1>8. SeenIsProcessed'
  <2>1. ASSUME NEW v \in Worker, v # w
        PROVE  /\ \A k \in Kind : \A x \in found[v][k] : IsProcessed(x)'
               /\ \A x \in before[v] : IsProcessed(x)'
    BY <1>1, <1>6 DEF SimIInv, SeenIsProcessed, SimTypeOK
  <2>2. \A k \in Kind : NoRows[k] = {}
    BY DEF NoRows
  <2> QED
    BY <1>4, <2>1, <2>2 DEF SeenIsProcessed
<1>9. LimitIsInUse'
  BY <1>1, <1>3, LimitStands
<1>10. QueriesSee'
  BY <1>1, <1>3, <1>4 DEF SimIInv, QueriesSee, Seen, LimitsInUse
<1>11. DropHasWitness'
  BY <1>1, <1>6 DEF SimIInv, DropHasWitness, IsProcessed, SimTypeOK
<1>12. NoCircularDrops'
  <2>1. SUFFICES ASSUME NEW D, D \subseteq {m \in Dropped : row'[m] = "processed"}, D # {}
                 PROVE  \E m \in D : cause[m] \notin D
    BY <1>1 DEF NoCircularDrops, Dropped
  <2> DEFINE E == D \ {h}
  <2>2. E \subseteq {m \in Dropped : row[m] = "processed"}
    BY <1>2, <2>1 DEF Dropped
  <2>3. CASE E = {}
    <3>1. D = {h} /\ h \in Dropped
      BY <2>1, <2>3
    <3>2. cause[h] # h
      BY <3>1 DEF SimIInv, DropHasWitness, Dropped
    <3> QED
      BY <3>1, <3>2
  <2>4. CASE E # {}
    <3>1. PICK m \in E : cause[m] \notin E
      BY <2>2, <2>4 DEF SimIInv, NoCircularDrops
    <3>2. row[cause[m]] = "processed"
      BY <2>2, <3>1 DEF SimIInv, DropHasWitness, Dropped
    <3> QED
      BY <1>1, <3>1, <3>2 DEF IsProcessed
  <2> QED
    BY <2>3, <2>4
<1> QED
  BY <1>5, <1>7, <1>8, <1>9, <1>10, <1>11, <1>12 DEF SimIInv

LEMMA RestartPreserves == SimIInv /\ Restart => SimIInv'
<1> SUFFICES ASSUME SimIInv, Restart PROVE SimIInv'
  OBVIOUS
<1>1. SimTypeOK /\ UNCHANGED <<filters, similar, row, cause>> /\ 1 \in DOMAIN filters
  BY FilterTypes DEF SimIInv, Restart
<1>2. SimTypeOK'
  BY <1>1, SimilarityAssumption DEF SimTypeOK, Restart, NoRows
<1>3. (OpenMessages /\ SeenIsProcessed)'
  BY <1>1 DEF Restart, OpenMessages, SeenIsProcessed, IsProcessed, NoRows
<1>4. (LimitIsInUse /\ QueriesSee)'
  BY DEF Restart, LimitIsInUse, QueriesSee
<1> QED
  BY <1>1, <1>2, <1>3, <1>4, DropsStand DEF SimIInv

LEMMA SimStep == SimIInv /\ [SimNext]_simVars => SimIInv'
<1> SUFFICES ASSUME SimIInv, [SimNext]_simVars PROVE SimIInv'
  OBVIOUS
<1>1. CASE UNCHANGED simVars
  <2>1. (OpenMessages /\ SeenIsProcessed /\ LimitIsInUse /\ QueriesSee)'
    BY <1>1, OpenStands, SeenStands, LimitStands, QueriesStand DEF simVars
  <2>2. SimTypeOK'
    BY <1>1 DEF simVars, SimIInv, SimTypeOK
  <2> QED
    BY <1>1, <2>1, <2>2, DropsStand DEF simVars, SimIInv
<1> QED
  BY <1>1, TakePreserves, SetLimitPreserves, QueryPreserves, DropPreserves,
     KeepPreserves, MarkPreserves, RestartPreserves DEF SimNext

-----------------------------------------------------------------------------
(* The results.                                                            *)

\* In every reachable state the inductive invariant holds.
THEOREM SimInvariance == SimSpec => []SimIInv
BY SimInitial, SimStep, PTL DEF SimSpec

\* A message is filtered only for another one that is similar and whose own
\* steps are over (FilterSimilarAPMessage).
THEOREM DropsHaveWitnesses == SimSpec => []DropHasWitness
<1>1. SimIInv => DropHasWitness
  BY DEF SimIInv
<1> QED
  BY <1>1, SimInvariance, PTL

\* Messages are never filtered for each other, in a circle of any length.
THEOREM DropsAreNotCircular == SimSpec => []NoCircularDrops
<1>1. SimIInv => NoCircularDrops
  BY DEF SimIInv
<1> QED
  BY <1>1, SimInvariance, PTL

\* A query misses a row that was there in time only when it was cut off at a
\* limit some filter has, whoever set it.
THEOREM QueriesSeeOrAreCutOff == SimSpec => []SeenOrCutOff
<1>1. SimIInv => SeenOrCutOff
  BY DEF SimIInv, QueriesSee, SeenOrCutOff, Kind
<1> QED
  BY <1>1, SimInvariance, PTL

-----------------------------------------------------------------------------
(* How many similar messages are sent.                                     *)

\* Messages in the hands of workers are no more than the workers.
LEMMA HeldAreFew ==
  ASSUME NEW K, NEW g \in [Worker -> Msg \cup {NoMsg}],
         \A m \in K : \E w \in Worker : g[w] = m
  PROVE  Cardinality(K) <= Cardinality(Worker)
<1> DEFINE S == {w \in Worker : g[w] \in K}
           f == [w \in S |-> g[w]]
<1>1. f \in Surjection(S, K)
  BY DEF Surjection
<1>2. IsFiniteSet(Worker) /\ S \in SUBSET Worker
  BY SimilarityAssumption
<1>3. IsFiniteSet(S) /\ Cardinality(S) <= Cardinality(Worker)
  BY <1>2, FS_Subset
<1>4. Cardinality(K) <= Cardinality(S) /\ IsFiniteSet(K)
  BY <1>1, <1>3, FS_Surjection
<1>5. Cardinality(K) \in Nat /\ Cardinality(S) \in Nat /\ Cardinality(Worker) \in Nat
  BY <1>2, <1>3, <1>4, FS_CardinalityType
<1> QED
  BY <1>3, <1>4, <1>5

\* As long as no limit hides a row, a query has all rows it could have.
LEMMA NothingIsMissed ==
  ASSUME SimIInv, LifeIInv, NothingHidden, NEW w \in Worker, NEW k \in Kind, Seen(w, k)
  PROVE  before[w] \cap TableOf(k) \subseteq found[w][k]
<1>1. CASE Cardinality(found[w][k]) \in LimitsInUse
  <2>1. Cardinality(TableOf(k)) <= Cardinality(found[w][k])
    BY <1>1 DEF NothingHidden
  <2>2. found[w][k] \in SUBSET TableOf(k)
    BY DEF LifeIInv, FoundInTable
  <2>3. IsFiniteSet(TableOf(k))
    <3>1. TableOf(k) \in SUBSET Msg /\ IsFiniteSet(Msg)
      BY SimilarityAssumption DEF TableOf, Msg
    <3> QED
      BY <3>1, FS_Subset
  <2>4. /\ IsFiniteSet(found[w][k])
        /\ Cardinality(found[w][k]) <= Cardinality(TableOf(k))
        /\ Cardinality(TableOf(k)) = Cardinality(found[w][k]) => TableOf(k) = found[w][k]
    BY <2>2, <2>3, FS_Subset
  <2>5. Cardinality(found[w][k]) \in Nat /\ Cardinality(TableOf(k)) \in Nat
    BY <2>3, <2>4, FS_CardinalityType
  <2> QED
    BY <2>1, <2>4, <2>5
<1> QED
  BY <1>1 DEF Seen

\* A step that leaves the messages at their workers, and before their
\* decisions, keeps the bound.
LEMMA CandidatesStand ==
  ASSUME Quiet => OnePerWorker, UNCHANGED <<filters, similar, row, lost, held, before, sent>>,
         \A w \in Worker : Undecided(w)' => Undecided(w)
  PROVE  Quiet' => OnePerWorker'
<1>1. Candidates' \subseteq Candidates
  BY DEF Candidates
<1>2. Quiet' = Quiet
  BY DEF Quiet, NothingHidden, LimitsInUse
<1>3. \A K : Unaware(K)' = Unaware(K) /\ Alike(K)' = Alike(K)
  BY DEF Unaware, Alike
<1> QED
  BY <1>1, <1>2, <1>3 DEF OnePerWorker

LEMMA SentStands ==
  ASSUME Quiet => SentIsMarked, UNCHANGED <<filters, row, lost, held, sent>>,
         \A w \in Worker : pc[w] = "mark" => pc'[w] = "mark"
  PROVE  Quiet' => SentIsMarked'
<1>1. Quiet' = Quiet
  BY DEF Quiet, NothingHidden, LimitsInUse
<1> QED
  BY <1>1 DEF SentIsMarked

\* A message that is taken knows of every one that is processed; if it knows
\* of none that is similar, all similar ones are in the hands of workers.
LEMMA TakeKeepsLife ==
  ASSUME SimIInv, LifeIInv, NEW w \in Worker, NEW m \in Msg, Take(w, m)
  PROVE  LifeIInv'
<1>1. /\ SimTypeOK /\ pc[w] = "idle" /\ held[w] = NoMsg /\ m \in waiting /\ ~IsProcessed(m)
      /\ UNCHANGED <<filters, similar, row, found, sent, lost>>
  BY DEF SimIInv, Take, OpenMessages
<1>2. \A v \in Worker :
        /\ pc'[v] = IF v = w THEN "limit" ELSE pc[v]
        /\ held'[v] = IF v = w THEN m ELSE held[v]
        /\ before'[v] = IF v = w THEN {x \in Msg : row[x] = "processed"} ELSE before[v]
  BY <1>1 DEF SimTypeOK, Take, Goto
<1>3. held' \in [Worker -> Msg \cup {NoMsg}] /\ m # NoMsg
  BY <1>1, SimilarityAssumption DEF SimTypeOK, Take
<1>4. \A v \in Worker : held[v] # m
  BY <1>1, <1>3 DEF SimIInv, OpenMessages
<1>5. Quiet' = Quiet
  BY <1>1 DEF Quiet, NothingHidden, LimitsInUse
<1>6. Quiet => SentIsMarked'
  <2>1. ASSUME Quiet, NEW x \in sent, row[x] = "unprocessed"
        PROVE  \E v \in Worker : held'[v] = x /\ pc'[v] = "mark"
    <3>1. PICK v \in Worker : held[v] = x /\ pc[v] = "mark"
      BY <2>1 DEF LifeIInv, SentIsMarked
    <3> QED
      BY <1>1, <1>2, <3>1
  <2> QED
    BY <1>1, <2>1 DEF SentIsMarked
<1>7. Quiet => OnePerWorker'
  <2>1. SUFFICES ASSUME Quiet, NEW K \in SUBSET Candidates', Alike(K), Unaware(K)'
                 PROVE  Cardinality(K) <= Cardinality(Worker)
    BY <1>1 DEF OnePerWorker, Alike
  <2>2. \A x \in K : /\ x \in Msg /\ row[x] # "none"
                     /\ x \in sent \/ \E v \in Worker : held'[v] = x /\ Undecided(v)'
    BY <1>1, <2>1 DEF Candidates
  <2>3. \A v \in Worker : v # w => Undecided(v)' = Undecided(v)
    BY <1>2 DEF Undecided
  <2>4. CASE m \notin K
    <3>1. K \subseteq Candidates
      <4>1. \A x \in K : x \in sent \/ \E v \in Worker : held[v] = x /\ Undecided(v)
        <5>1. SUFFICES ASSUME NEW x \in K, x \notin sent
                       PROVE  \E v \in Worker : held[v] = x /\ Undecided(v)
          OBVIOUS
        <5>2. PICK v \in Worker : held'[v] = x /\ Undecided(v)'
          BY <2>2, <5>1, Zenon
        <5>3. v # w
          BY <1>2, <2>4, <5>1, <5>2
        <5>4. held[v] = x /\ Undecided(v)
          BY <1>2, <2>3, <5>2, <5>3
        <5> QED
          BY <5>4
      <4> QED
        BY <2>2, <4>1, Zenon DEF Candidates
    <3>2. Unaware(K)
      <4>1. ASSUME NEW v \in Worker, held[v] \in K \ sent
            PROVE  before[v] \cap K = {}
        <5>1. v # w
          BY <1>1, <2>2, <4>1, SimilarityAssumption
        <5> QED
          BY <1>1, <1>2, <2>1, <4>1, <5>1 DEF Unaware
      <4> QED
        BY <4>1 DEF Unaware
    <3> QED
      BY <2>1, <3>1, <3>2 DEF LifeIInv, OnePerWorker
  <2>5. CASE m \in K
    <3>1. m \notin sent
      <4>1. row[m] = "unprocessed"
        BY <1>1, <2>2, <2>5 DEF SimTypeOK, IsProcessed
      <4> QED
        BY <1>4, <2>1, <4>1 DEF LifeIInv, SentIsMarked
    <3>2. \A x \in K : row[x] # "processed"
      BY <1>1, <1>2, <2>1, <2>2, <2>5, <3>1 DEF Unaware
    <3>3. \A x \in K : row[x] = "unprocessed"
      BY <1>1, <2>2, <3>2 DEF SimTypeOK
    <3>4. \A x \in K : \E v \in Worker : held'[v] = x
      <4>1. \A x \in sent : row[x] = "unprocessed" => \E v \in Worker : held[v] = x /\ v # w
        BY <1>1, <2>1 DEF LifeIInv, SentIsMarked
      <4> QED
        BY <1>2, <2>2, <3>3, <4>1
    <3> QED
      BY <1>3, <3>4, HeldAreFew
  <2> QED
    BY <2>4, <2>5
<1>8. FoundInTable'
  BY <1>1 DEF LifeIInv, FoundInTable
<1> QED
  BY <1>5, <1>6, <1>7, <1>8 DEF LifeIInv

LEMMA SetLimitKeepsLife ==
  ASSUME SimIInv, LifeIInv, NEW w \in Worker, SetLimit(w)
  PROVE  LifeIInv'
<1>1. /\ pc[w] = "limit"
      /\ UNCHANGED <<filters, similar, row, waiting, held, at, found, before, cause, sent, lost>>
      /\ \A v \in Worker : pc'[v] = IF v = w THEN "ACARS" ELSE pc[v]
  BY DEF SimIInv, SimTypeOK, SetLimit, Goto
<1>2. FoundInTable'
  BY <1>1 DEF LifeIInv, FoundInTable
<1>3. \A v \in Worker : Undecided(v)' => Undecided(v)
  BY <1>1 DEF Undecided
<1> QED
  BY <1>1, <1>2, <1>3, CandidatesStand, SentStands DEF LifeIInv

LEMMA QueryKeepsLife ==
  ASSUME SimIInv, LifeIInv, NEW w \in Worker, NEW k \in Kind, Query(w, k)
  PROVE  LifeIInv'
<1>1. PICK R \in QueryResults(k) : found' = [found EXCEPT ![w][k] = R]
  BY DEF Query
<1>2. /\ SimTypeOK /\ pc[w] = k
      /\ UNCHANGED <<filters, similar, row, waiting, held, at, before, cause, sent, lost>>
      /\ \A v \in Worker : pc'[v] = IF v = w THEN IF k = "ACARS" THEN "VDLM2" ELSE "compare"
                                    ELSE pc[v]
  BY DEF SimIInv, SimTypeOK, Query, Goto
<1>3. \A v \in Worker, l \in Kind :
        found'[v][l] = IF v = w /\ l = k THEN R ELSE found[v][l]
  BY <1>1, <1>2 DEF SimTypeOK
<1>4. FoundInTable'
  BY <1>3, ProcessedTypes DEF LifeIInv, FoundInTable
<1>5. /\ \A v \in Worker : Undecided(v)' => Undecided(v)
      /\ \A v \in Worker : pc[v] = "mark" => pc'[v] = "mark"
  BY <1>2 DEF Undecided, Kind
<1> QED
  BY <1>2, <1>4, <1>5, CandidatesStand, SentStands DEF LifeIInv

LEMMA DropKeepsLife ==
  ASSUME SimIInv, LifeIInv, NEW w \in Worker, Drop(w)
  PROVE  LifeIInv'
<1>1. /\ pc[w] = "compare"
      /\ UNCHANGED <<filters, similar, row, waiting, held, at, found, before, sent, lost>>
      /\ \A v \in Worker : pc'[v] = IF v = w THEN "mark" ELSE pc[v]
  BY DEF SimIInv, SimTypeOK, Drop, Goto
<1>2. FoundInTable'
  BY <1>1 DEF LifeIInv, FoundInTable
<1>3. \A v \in Worker : Undecided(v)' => Undecided(v)
  BY <1>1 DEF Undecided
<1> QED
  BY <1>1, <1>2, <1>3, CandidatesStand, SentStands DEF LifeIInv

\* A message is kept by the last filter only if it knows of no similar one.
LEMMA KeptIsUnaware ==
  ASSUME SimIInv, LifeIInv, NEW w \in Worker, Keep(w), Quiet,
         NEW K \in SUBSET Msg, Alike(K), held[w] \in K
  PROVE  before[w] \cap K = {}
<1>1. /\ SimTypeOK /\ pc[w] = "compare" /\ held[w] \in Msg /\ ~IsProcessed(held[w])
      /\ at[w] \in DOMAIN filters
  BY DEF SimIInv, Keep, SimTypeOK, OpenMessages
<1>2. FirstSimilar(w) = {}
  <2>1. ~FilterAt(w).dontFilterIfLonger
    BY <1>1 DEF Quiet, Range, FilterAt
  <2> QED
    BY <2>1 DEF Keep, Forgives
<1>3. ASSUME NEW x \in before[w], x \in K
      PROVE  FALSE
  <2>1. IsProcessed(x) /\ x # held[w] /\ <<held[w], x>> \in similar
    BY <1>1, <1>3 DEF SimIInv, SeenIsProcessed, Alike
  <2>2. PICK k \in Kind : x \in TableOf(k)
    BY <1>3 DEF Kind, TableOf, Msg
  <2>3. Seen(w, k)
    BY <1>1, <2>2 DEF SimIInv, QueriesSee, Kind
  <2>4. x \in found[w][k]
    BY <1>3, <2>2, <2>3, NothingIsMissed DEF Quiet
  <2> QED
    BY <1>2, <2>1, <2>4 DEF FirstSimilar, Kind
<1> QED
  BY <1>3

LEMMA KeepKeepsLife ==
  ASSUME SimIInv, LifeIInv, NEW w \in Worker, Keep(w)
  PROVE  LifeIInv'
<1>1. /\ SimTypeOK /\ pc[w] = "compare" /\ held[w] \in Msg
      /\ UNCHANGED <<filters, similar, row, waiting, held, found, before, cause, lost>>
  BY DEF SimIInv, SimTypeOK, OpenMessages, Keep
<1>2. FoundInTable'
  BY <1>1 DEF LifeIInv, FoundInTable
<1>3. CASE at[w] < Len(filters)
  <2>1. sent' = sent /\ \A v \in Worker : pc'[v] = IF v = w THEN "limit" ELSE pc[v]
    BY <1>1, <1>3 DEF Keep, Goto, SimTypeOK
  <2>2. /\ \A v \in Worker : Undecided(v)' => Undecided(v)
        /\ \A v \in Worker : pc[v] = "mark" => pc'[v] = "mark"
    BY <1>1, <2>1 DEF Undecided
  <2> QED
    BY <1>1, <1>2, <2>1, <2>2, CandidatesStand, SentStands DEF LifeIInv
<1>4. CASE ~(at[w] < Len(filters))
  <2>1. /\ sent' = sent \cup {held[w]}
        /\ \A v \in Worker : pc'[v] = IF v = w THEN "mark" ELSE pc[v]
    BY <1>1, <1>4 DEF Keep, Goto, SimTypeOK
  <2>2. Quiet' = Quiet
    BY <1>1 DEF Quiet, NothingHidden, LimitsInUse
  <2>3. Quiet => SentIsMarked'
    <3>1. ASSUME Quiet, NEW x \in sent', row[x] = "unprocessed"
          PROVE  \E v \in Worker : held[v] = x /\ pc'[v] = "mark"
      <4>1. CASE x = held[w]
        BY <2>1, <4>1
      <4>2. CASE x \in sent
        BY <1>1, <2>1, <3>1, <4>2 DEF LifeIInv, SentIsMarked
      <4> QED
        BY <2>1, <3>1, <4>1, <4>2
    <3> QED
      BY <1>1, <3>1 DEF SentIsMarked
  <2>4. Quiet => OnePerWorker'
    <3>1. SUFFICES ASSUME Quiet, NEW K \in SUBSET Candidates', Alike(K), Unaware(K)'
                   PROVE  Cardinality(K) <= Cardinality(Worker)
      BY <1>1 DEF OnePerWorker, Alike
    <3>2. \A v \in Worker : Undecided(v)' => Undecided(v)
      BY <1>1, <2>1 DEF Undecided
    <3>3. K \subseteq Candidates /\ K \subseteq Msg
      BY <1>1, <2>1, <3>1, <3>2 DEF Candidates, Undecided
    <3>4. Unaware(K)
      <4>1. ASSUME NEW v \in Worker, held[v] \in K \ sent
            PROVE  before[v] \cap K = {}
        <5>1. CASE v = w
          BY <3>1, <3>3, <4>1, <5>1, KeptIsUnaware
        <5>2. CASE v # w
          <6>1. held[v] # held[w]
            BY <1>1, <5>2, SimilarityAssumption DEF SimIInv, OpenMessages
          <6> QED
            BY <1>1, <2>1, <3>1, <4>1, <6>1 DEF Unaware
        <5> QED
          BY <5>1, <5>2
      <4> QED
        BY <4>1 DEF Unaware
    <3> QED
      BY <3>1, <3>3, <3>4 DEF LifeIInv, OnePerWorker
  <2> QED
    BY <1>2, <2>2, <2>3, <2>4 DEF LifeIInv
<1> QED
  BY <1>3, <1>4

LEMMA MarkKeepsLife ==
  ASSUME SimIInv, LifeIInv, NEW w \in Worker, Mark(w)
  PROVE  LifeIInv'
<1> DEFINE h == held[w]
<1>1. /\ SimTypeOK /\ pc[w] = "mark" /\ h \in Msg /\ h # NoMsg
      /\ UNCHANGED <<filters, similar, waiting, defaultMaxLookbehind, at, cause, sent>>
  BY SimilarityAssumption DEF SimIInv, Mark, SimTypeOK, OpenMessages
<1>2. \A v \in Worker :
        /\ held'[v] = IF v = w THEN NoMsg ELSE held[v]
        /\ pc'[v] = IF v = w THEN "idle" ELSE pc[v]
        /\ found'[v] = IF v = w THEN NoRows ELSE found[v]
        /\ before'[v] = IF v = w THEN {} ELSE before[v]
  BY <1>1 DEF Mark, Goto, SimTypeOK
<1>3. FoundInTable'
  BY <1>2 DEF LifeIInv, FoundInTable, NoRows
<1>4. SUFFICES ASSUME Quiet' PROVE SentIsMarked' /\ OnePerWorker'
  BY <1>3 DEF LifeIInv
<1>5. Quiet
  BY <1>1, <1>4 DEF Quiet, NothingHidden, LimitsInUse, Mark
<1>6. \A x \in Msg : row'[x] = IF x = h /\ row[x] # "none" THEN "processed" ELSE row[x]
  BY <1>1, <1>4 DEF Mark, Quiet, SimTypeOK
<1>7. SentIsMarked'
  <2>1. ASSUME NEW x \in sent, row'[x] = "unprocessed"
        PROVE  \E v \in Worker : held'[v] = x /\ pc'[v] = "mark"
    <3>1. x \in Msg /\ x # h /\ row[x] = "unprocessed"
      BY <1>1, <1>6, <2>1 DEF SimTypeOK
    <3>2. PICK v \in Worker : held[v] = x /\ pc[v] = "mark"
      BY <1>5, <2>1, <3>1 DEF LifeIInv, SentIsMarked
    <3> QED
      BY <1>2, <3>1, <3>2
  <2> QED
    BY <1>1, <2>1 DEF SentIsMarked
<1>8. OnePerWorker'
  <2>1. SUFFICES ASSUME NEW K \in SUBSET Candidates', Alike(K), Unaware(K)'
                 PROVE  Cardinality(K) <= Cardinality(Worker)
    BY <1>1 DEF OnePerWorker, Alike
  <2>2. \A x \in K : /\ x \in Msg /\ row'[x] # "none"
                     /\ x \in sent \/ \E v \in Worker : held'[v] = x /\ Undecided(v)'
    BY <1>1, <2>1 DEF Candidates
  <2>3. \A x \in Msg : row'[x] # "none" => row[x] # "none"
    BY <1>6
  <2>4. \A x \in K : x \in sent \/ \E v \in Worker : v # w /\ held[v] = x /\ Undecided(v)
    BY <1>2, <2>2 DEF Undecided
  <2>5. K \subseteq Candidates
    BY <2>2, <2>3, <2>4 DEF Candidates
  <2>6. Unaware(K)
    <3>1. ASSUME NEW v \in Worker, held[v] \in K \ sent
          PROVE  before[v] \cap K = {}
      <4>1. v # w
        BY <1>1, <2>4, <3>1 DEF SimIInv, OpenMessages
      <4> QED
        BY <1>1, <1>2, <2>1, <3>1, <4>1 DEF Unaware
    <3> QED
      BY <3>1 DEF Unaware
  <2> QED
    BY <1>5, <2>1, <2>5, <2>6 DEF LifeIInv, OnePerWorker
<1> QED
  BY <1>7, <1>8

LEMMA RestartKeepsLife ==
  ASSUME SimIInv, LifeIInv, Restart
  PROVE  LifeIInv'
<1>1. FoundInTable' /\ SentIsMarked'
  BY DEF Restart, FoundInTable, SentIsMarked, NoRows
<1>2. Candidates' = {}
  BY DEF Restart, Candidates, Undecided
<1>3. OnePerWorker'
  <2>1. Cardinality({}) = 0 /\ Cardinality(Worker) \in Nat
    BY FS_EmptySet, FS_CardinalityType, SimilarityAssumption
  <2> QED
    BY <1>2, <2>1 DEF OnePerWorker
<1> QED
  BY <1>1, <1>3 DEF LifeIInv

LEMMA LifeStep == SimIInv /\ LifeIInv /\ [SimNext]_simVars => LifeIInv'
<1> SUFFICES ASSUME SimIInv, LifeIInv, [SimNext]_simVars PROVE LifeIInv'
  OBVIOUS
<1>1. CASE UNCHANGED simVars
  BY <1>1, CandidatesStand, SentStands
     DEF simVars, LifeIInv, FoundInTable, Undecided
<1> QED
  BY <1>1, TakeKeepsLife, SetLimitKeepsLife, QueryKeepsLife, DropKeepsLife,
     KeepKeepsLife, MarkKeepsLife, RestartKeepsLife DEF SimNext

LEMMA LifeInitial == SimInit => LifeIInv
<1> SUFFICES ASSUME SimInit PROVE LifeIInv
  OBVIOUS
<1>1. FoundInTable /\ SentIsMarked
  BY DEF SimInit, FoundInTable, SentIsMarked, NoRows
<1>2. Candidates = {}
  BY DEF SimInit, Candidates, Undecided
<1>3. OnePerWorker
  <2>1. Cardinality({}) = 0 /\ Cardinality(Worker) \in Nat
    BY FS_EmptySet, FS_CardinalityType, SimilarityAssumption
  <2> QED
    BY <1>2, <2>1 DEF OnePerWorker
<1> QED
  BY <1>1, <1>3 DEF LifeIInv

\* Of any messages that are all similar, one life of the process sends at most
\* as many as it has workers, unless a limit hides a row, an update has failed
\* or a filter forgives longer messages.
THEOREM SimilarOncePerWorker == SimSpec => []AtMostOnePerWorker
<1>1. ASSUME LifeIInv, SimTypeOK PROVE AtMostOnePerWorker
  <2>1. ASSUME Quiet, NEW K \in SUBSET {m \in sent : row[m] # "none"}, Alike(K)
        PROVE  Cardinality(K) <= Cardinality(Worker)
    <3>1. K \subseteq Candidates
      BY <1>1, <2>1 DEF SimTypeOK, Candidates
    <3>2. Unaware(K)
      BY <2>1 DEF Unaware
    <3> QED
      BY <1>1, <2>1, <3>1, <3>2 DEF LifeIInv, OnePerWorker
  <2> QED
    BY <2>1 DEF AtMostOnePerWorker
<1>2. SimIInv => SimTypeOK
  BY DEF SimIInv
<1>3. SimSpec => []LifeIInv
  BY LifeInitial, LifeStep, SimInvariance, PTL DEF SimSpec
<1> QED
  BY <1>1, <1>2, <1>3, SimInvariance, PTL
=============================================================================
