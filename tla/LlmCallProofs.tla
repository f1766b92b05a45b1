--------------------------- MODULE LlmCallProofs ---------------------------
(***************************************************************************)
(* Proofs about LlmCall, for any number of workers and any configuration.  *)
(***************************************************************************)
EXTENDS LlmCall, TLAPS

-----------------------------------------------------------------------------
\* SettingOrder names every setting, once.
LEMMA OrderFacts ==
  /\ Len(SettingOrder) = 3 /\ DOMAIN SettingOrder = 1..3
  /\ \A i \in 1..3 : SettingOrder[i] \in Setting
  /\ \A x \in Setting : \E i \in 1..3 : SettingOrder[i] = x
  /\ \A i, j \in 1..3 : SettingOrder[i] = SettingOrder[j] => i = j
PROOF
  <1>1. Len(SettingOrder) = 3 /\ DOMAIN SettingOrder = 1..3
    BY DEF SettingOrder
  <1>2. /\ SettingOrder[1] = "SystemPrompt" /\ SettingOrder[2] = "Timeout"
        /\ SettingOrder[3] = "MaxRetryAttempts"
    BY DEF SettingOrder
  <1>3. \A i \in 1..3 : i = 1 \/ i = 2 \/ i = 3
    OBVIOUS
  <1> QED
    BY <1>1, <1>2, <1>3 DEF Setting

\* The setting a worker copies or reads, and its kind.
LEMMA NextFacts ==
  ASSUME LlmCallAssumption, TypeOK, NEW w \in Worker
  PROVE  /\ next[w] \in 1..3 /\ SettingOrder[next[w]] \in Setting
         /\ step[w] \in Step /\ KindOf(w) \in Kind
         /\ \A x \in Setting : conf[step[w]][x] \in Nat
PROOF
  <1>1. next[w] \in 1..3
    BY OrderFacts DEF TypeOK
  <1>2. step[w] \in Step
    BY DEF TypeOK
  <1>3. KindOf(w) \in Kind /\ \A x \in Setting : conf[step[w]][x] \in Nat
    BY <1>2 DEF KindOf, LlmCallAssumption
  <1> QED
    BY <1>1, <1>2, <1>3, OrderFacts

LEMMA InitInvariant ==
  ASSUME LlmCallAssumption, Init
  PROVE  IInv
PROOF
  <1>1. TypeOK
    <2>1. global \in [Kind -> [Setting -> Nat \ {0}]]
      BY DEF Init, LlmCallAssumption
    <2>2. used \in [Worker -> [Setting -> Nat \ {0}]]
      <3>1. \A w \in Worker : Default[kind[step[w]]] \in [Setting -> Nat \ {0}]
        BY DEF Init, LlmCallAssumption
      <3> QED
        BY <3>1 DEF Init
    <2>3. /\ pc \in [Worker -> {"idle", "configure", "prepare", "ask", "done"}]
          /\ step \in [Worker -> Step] /\ next \in [Worker -> 1..Len(SettingOrder)]
      BY OrderFacts DEF Init
    <2>4. /\ tries \in [Worker -> Nat] /\ expired \in [Worker -> BOOLEAN]
          /\ r \in [Worker -> [ResponseField -> Nat]]
          /\ result \in [Worker -> {"none", "answered", "failed"}]
          /\ rows \in [Worker -> Nat] /\ lost \in [Worker -> BOOLEAN]
      BY DEF Init
    <2>5. row \in [Worker -> [prompt : Nat, response : [ResponseField -> Nat]]]
      BY <2>4 DEF Init
    <2> QED
      BY <2>1, <2>2, <2>3, <2>4, <2>5 DEF TypeOK
  <1>2. \A w \in Worker : pc[w] = "idle"
    BY DEF Init
  <1>3. GlobalsAreConfigured
    BY DEF Init, GlobalsAreConfigured
  <1>4. CopiedIsOwn /\ ReadIsOwn
    BY <1>2 DEF CopiedIsOwn, ReadIsOwn, HasCopied, HasRead, Asks
  <1>5. TriesMatchPc
    BY <1>2 DEF Init, TriesMatchPc
  <1>6. SavedOnce
    BY DEF Init, SavedOnce, Decided
  <1> QED
    BY <1>1, <1>3, <1>4, <1>5, <1>6 DEF IInv

\* Only Configure writes the globals, and only Prepare the settings read: any
\* other step that keeps or restarts the calls keeps what is said of them.
LEMMA SettingsKept ==
  ASSUME LlmCallAssumption, IInv, global' = global,
         \A w \in Worker :
           \/ pc'[w] = "configure" /\ next'[w] = 1
           \/ step'[w] = step[w] /\ (pc'[w] = pc[w] \/ (Asks(w) /\ Asks(w)'))
              /\ next'[w] = next[w] /\ used'[w] = used[w]
  PROVE  GlobalsAreConfigured' /\ CopiedIsOwn' /\ ReadIsOwn'
PROOF
  <1>1. GlobalsAreConfigured'
    BY DEF IInv, GlobalsAreConfigured
  <1>2. ASSUME NEW w \in Worker, NEW i \in 1..3
        PROVE  /\ HasCopied(w, i)' => HasCopied(w, i) /\ step'[w] = step[w]
               /\ HasRead(w, i)' =>
                    HasRead(w, i) /\ step'[w] = step[w] /\ used'[w] = used[w]
    BY <1>2 DEF HasCopied, HasRead, Asks
  <1>3. CopiedIsOwn'
    BY <1>2, OrderFacts DEF IInv, CopiedIsOwn, KindOf, Uniform, Own
  <1>4. ReadIsOwn'
    BY <1>2, OrderFacts DEF IInv, ReadIsOwn, Uniform, Own
  <1> QED
    BY <1>1, <1>3, <1>4

LEMMA BeginKeeps ==
  ASSUME LlmCallAssumption, IInv, NEW w \in Worker, NEW s \in Step, Begin(w, s)
  PROVE  IInv'
PROOF
  <1>1. TypeOK
    BY DEF IInv
  <1>2. TypeOK'
    <2>1. /\ global' \in [Kind -> [Setting -> Nat \ {0}]]
          /\ used' \in [Worker -> [Setting -> Nat \ {0}]]
          /\ pc' \in [Worker -> {"idle", "configure", "prepare", "ask", "done"}]
      <3>1. Default[kind[s]] \in [Setting -> Nat \ {0}]
        BY DEF LlmCallAssumption
      <3> QED
        BY <1>1, <3>1 DEF Begin, TypeOK
    <2>2. step' \in [Worker -> Step] /\ next' \in [Worker -> 1..Len(SettingOrder)]
      BY <1>1, OrderFacts DEF Begin, TypeOK
    <2>3. /\ tries' \in [Worker -> Nat] /\ expired' \in [Worker -> BOOLEAN]
          /\ result' \in [Worker -> {"none", "answered", "failed"}]
          /\ rows' \in [Worker -> Nat] /\ lost' \in [Worker -> BOOLEAN]
      BY <1>1 DEF Begin, TypeOK
    <2>4. r' \in [Worker -> [ResponseField -> Nat]]
      BY <1>1 DEF Begin, TypeOK
    <2>5. row' \in [Worker -> [prompt : Nat, response : [ResponseField -> Nat]]]
      <3>1. r'[w] \in [ResponseField -> Nat]
        BY <2>4
      <3> QED
        BY <1>1, <3>1 DEF Begin, TypeOK
    <2> QED
      BY <2>1, <2>2, <2>3, <2>4, <2>5 DEF TypeOK
  <1>3. \A v \in Worker : v # w =>
          /\ pc'[v] = pc[v] /\ step'[v] = step[v] /\ next'[v] = next[v]
          /\ tries'[v] = tries[v] /\ r'[v] = r[v]
          /\ result'[v] = result[v] /\ rows'[v] = rows[v]
          /\ row'[v] = row[v] /\ lost'[v] = lost[v] /\ used'[v] = used[v]
    BY <1>1 DEF Begin, TypeOK
  <1>4. /\ pc'[w] = "configure" /\ next'[w] = 1 /\ tries'[w] = 0
        /\ result'[w] = "none" /\ rows'[w] = 0
        /\ r'[w] = [f \in ResponseField |-> 0]
        /\ global' = global
    BY <1>1 DEF Begin, TypeOK
  <1>5. GlobalsAreConfigured' /\ CopiedIsOwn' /\ ReadIsOwn'
    BY <1>3, <1>4, SettingsKept
  <1>6. TriesMatchPc'
    BY <1>3, <1>4 DEF IInv, TriesMatchPc
  <1>7. SavedOnce'
    BY <1>3, <1>4 DEF IInv, SavedOnce, Decided, KindOf, Uniform
  <1> QED
    BY <1>2, <1>5, <1>6, <1>7 DEF IInv

-----------------------------------------------------------------------------
(* Copying and reading the settings.                                       *)

LEMMA AdvanceFacts ==
  ASSUME TypeOK, NEW w \in Worker, NEW p \in {"prepare", "ask"}, Advance(w, p)
  PROVE  /\ \A v \in Worker : v # w => pc'[v] = pc[v] /\ next'[v] = next[v]
         /\ \/ next[w] \in 1..2 /\ next'[w] = next[w] + 1 /\ pc'[w] = pc[w]
            \/ next[w] = 3 /\ next'[w] = 1 /\ pc'[w] = p
         /\ pc' \in [Worker -> {"idle", "configure", "prepare", "ask", "done"}]
         /\ next' \in [Worker -> 1..Len(SettingOrder)]
PROOF
  <1>1. next \in [Worker -> 1..3] /\ next[w] \in 1..3 /\ Len(SettingOrder) = 3
    BY OrderFacts DEF TypeOK
  <1>2. CASE next[w] < 3
    <2>1. pc' = pc /\ next' = [next EXCEPT ![w] = next[w] + 1]
      BY <1>1, <1>2 DEF Advance
    <2> QED
      BY <1>1, <1>2, <2>1 DEF TypeOK
  <1>3. CASE ~(next[w] < 3)
    <2>1. pc' = [pc EXCEPT ![w] = p] /\ next' = [next EXCEPT ![w] = 1]
      BY <1>1, <1>3 DEF Advance
    <2> QED
      BY <1>1, <1>3, <2>1 DEF TypeOK
  <1> QED
    BY <1>2, <1>3

\* A call that copies or reads settings makes no try and saves nothing.
LEMMA TriesKept ==
  ASSUME IInv, NEW w \in Worker, pc[w] \in {"configure", "prepare"},
         \A v \in Worker : v # w => pc'[v] = pc[v] /\ used'[v] = used[v],
         pc'[w] \in {"configure", "prepare", "ask"},
         pc'[w] = "ask" => used'[w]["MaxRetryAttempts"] \in Nat \ {0},
         UNCHANGED <<step, tries, r, result, rows, row, lost>>
  PROVE  TriesMatchPc' /\ SavedOnce'
PROOF
  <1>1. tries[w] = 0 /\ result[w] = "none" /\ rows[w] = 0
    BY DEF IInv, TriesMatchPc
  <1>2. TriesMatchPc'
    BY <1>1 DEF IInv, TriesMatchPc
  <1>3. SavedOnce'
    BY <1>1 DEF IInv, SavedOnce, Decided, KindOf, Uniform
  <1> QED
    BY <1>2, <1>3

LEMMA ConfigureKeeps ==
  ASSUME LlmCallAssumption, IInv, NEW w \in Worker, Configure(w)
  PROVE  IInv'
PROOF
  <1> DEFINE x == SettingOrder[next[w]]
             k == KindOf(w)
             v == conf[step[w]][x]
  <1>1. /\ pc[w] = "configure" /\ Advance(w, "prepare")
        /\ global' = IF v # 0 THEN [global EXCEPT ![k][x] = v] ELSE global
        /\ UNCHANGED <<step, used, tries, expired, r, result, rows, row, lost>>
    BY DEF Configure, table
  <1>2. /\ TypeOK /\ next[w] \in 1..3 /\ x \in Setting /\ k \in Kind
        /\ v \in Nat /\ step[w] \in Step /\ kind[step[w]] = k
    BY NextFacts DEF IInv, KindOf
  <1>3. /\ \A u \in Worker : u # w => pc'[u] = pc[u] /\ next'[u] = next[u]
        /\ \/ next[w] \in 1..2 /\ next'[w] = next[w] + 1 /\ pc'[w] = pc[w]
           \/ next[w] = 3 /\ next'[w] = 1 /\ pc'[w] = "prepare"
        /\ pc' \in [Worker -> {"idle", "configure", "prepare", "ask", "done"}]
        /\ next' \in [Worker -> 1..Len(SettingOrder)]
    BY <1>1, <1>2, AdvanceFacts
  <1>4. global \in [Kind -> [Setting -> Nat \ {0}]]
    BY <1>2 DEF TypeOK
  <1>5. /\ global' \in [Kind -> [Setting -> Nat \ {0}]]
        /\ v # 0 => global'[k][x] = v
        /\ v = 0 => global' = global
        /\ \A c \in Kind, y \in Setting :
             c # k \/ y # x => global'[c][y] = global[c][y]
    <2> HIDE DEF x, k, v
    <2>1. CASE v # 0
      BY <1>1, <1>2, <1>4, <2>1
    <2>2. CASE v = 0
      BY <1>1, <1>4, <2>2
    <2> QED
      BY <2>1, <2>2
  <1>6. TypeOK'
    BY <1>1, <1>2, <1>3, <1>5 DEF TypeOK
  <1>7. GlobalsAreConfigured'
    <2> SUFFICES ASSUME NEW c \in Kind, NEW y \in Setting
                 PROVE  \/ global'[c][y] = Default[c][y]
                        \/ \E s \in Step : /\ kind[s] = c /\ conf[s][y] # 0
                                           /\ global'[c][y] = conf[s][y]
      BY DEF GlobalsAreConfigured
    <2>1. CASE c = k /\ y = x /\ v # 0
      BY <1>2, <1>5, <2>1
    <2>2. CASE ~(c = k /\ y = x /\ v # 0)
      <3>1. global'[c][y] = global[c][y]
        BY <1>5, <2>2
      <3> QED
        BY <3>1 DEF IInv, GlobalsAreConfigured
    <2> QED
      BY <2>1, <2>2
  \* A write of a uniform setting keeps or establishes the value all agree on.
  <1>8. ASSUME NEW u \in Worker, NEW y \in Setting, Uniform(step[u], y),
               global[KindOf(u)][y] = Own(step[u], y)
        PROVE  global'[KindOf(u)][y] = Own(step[u], y)
    <2>1. KindOf(u) \in Kind
      BY <1>2, NextFacts
    <2>2. CASE KindOf(u) = k /\ y = x /\ v # 0
      <3>1. conf[step[w]][x] = conf[step[u]][x]
        BY <1>2, <1>8, <2>2 DEF Uniform, KindOf
      <3> QED
        BY <1>5, <2>2, <3>1 DEF Own
    <2>3. CASE ~(KindOf(u) = k /\ y = x /\ v # 0)
      BY <1>5, <1>8, <2>1, <2>3
    <2> QED
      BY <2>2, <2>3
  <1>9. Uniform(step[w], x) => global'[k][x] = Own(step[w], x)
    <2>1. CASE v # 0
      BY <1>5, <2>1 DEF Own
    <2>2. CASE v = 0 /\ Uniform(step[w], x)
      <3>1. \A s \in Step : kind[s] = k => conf[s][x] = 0
        BY <1>2, <2>2 DEF Uniform
      <3>2. global[k][x] = Default[k][x]
        BY <1>2, <3>1 DEF IInv, GlobalsAreConfigured
      <3> QED
        BY <1>2, <1>5, <2>2, <3>2 DEF Own
    <2> QED
      BY <2>1, <2>2
  <1>10. CopiedIsOwn'
    <2> SUFFICES ASSUME NEW u \in Worker, NEW i \in 1..3,
                        HasCopied(u, i)', Uniform(step[u], SettingOrder[i])
                 PROVE  global'[KindOf(u)][SettingOrder[i]]
                          = Own(step[u], SettingOrder[i])
      BY <1>1, OrderFacts DEF CopiedIsOwn, KindOf, Uniform, Own
    <2>1. SettingOrder[i] \in Setting
      BY OrderFacts
    <2>2. CASE HasCopied(u, i)
      <3>1. global[KindOf(u)][SettingOrder[i]] = Own(step[u], SettingOrder[i])
        BY <2>2, OrderFacts DEF IInv, CopiedIsOwn
      <3> QED
        BY <1>8, <2>1, <3>1
    <2>3. CASE ~HasCopied(u, i)
      <3>1. u = w /\ i = next[w]
        BY <1>1, <1>2, <1>3, <2>3 DEF HasCopied
      <3> QED
        BY <1>9, <3>1
    <2> QED
      BY <2>2, <2>3
  <1>11. ReadIsOwn'
    <2> SUFFICES ASSUME NEW u \in Worker, NEW i \in 1..3,
                        HasRead(u, i)', Uniform(step[u], SettingOrder[i])
                 PROVE  used[u][SettingOrder[i]] = Own(step[u], SettingOrder[i])
      BY <1>1, OrderFacts DEF ReadIsOwn, Uniform, Own
    <2>1. HasRead(u, i)
      <3>1. CASE u = w
        BY <1>1, <1>3, <3>1 DEF HasRead, Asks
      <3>2. CASE u # w
        BY <1>3, <3>2 DEF HasRead, Asks
      <3> QED
        BY <3>1, <3>2
    <2> QED
      BY <2>1, OrderFacts DEF IInv, ReadIsOwn
  <1>12. TriesMatchPc' /\ SavedOnce'
    BY <1>1, <1>3, TriesKept
  <1> QED
    BY <1>6, <1>7, <1>10, <1>11, <1>12 DEF IInv

LEMMA PrepareKeeps ==
  ASSUME LlmCallAssumption, IInv, NEW w \in Worker, Prepare(w)
  PROVE  IInv'
PROOF
  <1> DEFINE x == SettingOrder[next[w]]
             v == global[KindOf(w)][x]
  <1>1. /\ pc[w] = "prepare" /\ Advance(w, "ask")
        /\ used' = [used EXCEPT ![w][x] = v]
        /\ UNCHANGED <<global, step, tries, expired, r, result, rows, row, lost>>
    BY DEF Prepare, table
  <1>2. /\ TypeOK /\ next[w] \in 1..3 /\ x \in Setting /\ KindOf(w) \in Kind
    BY NextFacts DEF IInv
  <1>3. v \in Nat \ {0}
    BY <1>2 DEF TypeOK
  <1>4. /\ \A u \in Worker : u # w => pc'[u] = pc[u] /\ next'[u] = next[u]
        /\ \/ next[w] \in 1..2 /\ next'[w] = next[w] + 1 /\ pc'[w] = pc[w]
           \/ next[w] = 3 /\ next'[w] = 1 /\ pc'[w] = "ask"
        /\ pc' \in [Worker -> {"idle", "configure", "prepare", "ask", "done"}]
        /\ next' \in [Worker -> 1..Len(SettingOrder)]
    BY <1>1, <1>2, AdvanceFacts
  <1>5. /\ used' \in [Worker -> [Setting -> Nat \ {0}]]
        /\ used'[w][x] = v
        /\ \A u \in Worker, y \in Setting :
             u # w \/ y # x => used'[u][y] = used[u][y]
        /\ \A u \in Worker : u # w => used'[u] = used[u]
    <2> HIDE DEF x, v
    <2>1. used \in [Worker -> [Setting -> Nat \ {0}]]
      BY <1>2 DEF TypeOK
    <2> QED
      BY <1>1, <1>2, <1>3, <2>1
  <1>6. TypeOK'
    BY <1>1, <1>2, <1>4, <1>5 DEF TypeOK
  <1>7. GlobalsAreConfigured'
    BY <1>1 DEF IInv, GlobalsAreConfigured
  <1>8. ASSUME NEW u \in Worker, NEW i \in 1..3, HasCopied(u, i)'
        PROVE  HasCopied(u, i)
    BY <1>1, <1>4, <1>8 DEF HasCopied
  <1>9. CopiedIsOwn'
    BY <1>1, <1>8, OrderFacts DEF IInv, CopiedIsOwn, KindOf, Uniform, Own
  <1>10. ReadIsOwn'
    <2> SUFFICES ASSUME NEW u \in Worker, NEW i \in 1..3,
                        HasRead(u, i)', Uniform(step[u], SettingOrder[i])
                 PROVE  used'[u][SettingOrder[i]] = Own(step[u], SettingOrder[i])
      BY <1>1, OrderFacts DEF ReadIsOwn, Uniform, Own
    <2>1. SettingOrder[i] \in Setting
      BY OrderFacts
    <2>2. CASE u = w /\ i = next[w]
      <3>1. HasCopied(w, i)
        BY <1>1 DEF HasCopied
      <3> QED
        BY <1>5, <2>2, <3>1, OrderFacts DEF IInv, CopiedIsOwn
    <2>3. CASE ~(u = w /\ i = next[w])
      <3>1. HasRead(u, i)
        BY <1>1, <1>2, <1>4, <2>3 DEF HasRead, Asks
      <3>2. used'[u][SettingOrder[i]] = used[u][SettingOrder[i]]
        BY <1>2, <1>5, <2>1, <2>3, OrderFacts
      <3> QED
        BY <3>1, <3>2, OrderFacts DEF IInv, ReadIsOwn
    <2> QED
      BY <2>2, <2>3
  <1>11. TriesMatchPc' /\ SavedOnce'
    <2>1. used'[w]["MaxRetryAttempts"] \in Nat \ {0}
      BY <1>5 DEF Setting
    <2> QED
      BY <1>1, <1>4, <1>5, <2>1, TriesKept
  <1> QED
    BY <1>6, <1>7, <1>9, <1>10, <1>11 DEF IInv

-----------------------------------------------------------------------------
(* The tries.                                                              *)

\* A try with result res (or "none", when more tries are left), which wrote the
\* fields F and saved n rows; l says that the database refused one.
Try(w, res, F, n, l) ==
  /\ pc[w] = "ask"
  /\ UNCHANGED <<global, step, next, used, expired>>
  /\ tries' = [tries EXCEPT ![w] = tries[w] + 1]
  /\ result' = [result EXCEPT ![w] = res]
  /\ pc' = IF res = "none" THEN pc ELSE [pc EXCEPT ![w] = "done"]
  /\ r' = [r EXCEPT ![w] = [f \in ResponseField |->
                              IF f \in F THEN tries[w] + 1 ELSE r[w][f]]]
  /\ rows' = [rows EXCEPT ![w] = rows[w] + n]
  /\ row' = IF n = 0 THEN row
            ELSE [row EXCEPT ![w] = [prompt |-> global["filter"]["SystemPrompt"],
                                     response |-> r'[w]]]
  /\ lost' = [lost EXCEPT ![w] = l]
  /\ res = "none" => tries[w] + 1 < used[w]["MaxRetryAttempts"]
  /\ res = "failed" => tries[w] + 1 >= used[w]["MaxRetryAttempts"]
  /\ n = 1 => res = "answered" /\ KindOf(w) = "filter"
  /\ res = "answered" /\ KindOf(w) = "filter" /\ F # {} => (n = 0 <=> l)

\* A try that fails leaves tries to make, or ends the call when none is left;
\* one that does not fail ends it.
LEMMA TryKeeps ==
  ASSUME LlmCallAssumption, IInv, NEW w \in Worker,
         NEW res \in {"none", "answered", "failed"},
         NEW F \in SUBSET ResponseField, NEW n \in {0, 1}, NEW l \in BOOLEAN,
         Try(w, res, F, n, l)
  PROVE  IInv'
PROOF
  <1> USE DEF Try
  <1>1. TypeOK /\ tries[w] \in Nat
    BY DEF IInv, TypeOK
  <1>2. /\ used[w]["MaxRetryAttempts"] \in Nat \ {0}
        /\ tries[w] < used[w]["MaxRetryAttempts"]
        /\ result[w] = "none" /\ rows[w] = 0
    <2>1. used \in [Worker -> [Setting -> Nat \ {0}]]
      BY <1>1 DEF TypeOK
    <2>2. used[w]["MaxRetryAttempts"] \in Nat \ {0}
      BY <2>1 DEF Setting
    <2>3. pc[w] = "ask"
      OBVIOUS
    <2> HIDE DEF Try
    <2> QED
      BY <2>2, <2>3 DEF IInv, TriesMatchPc
  <1>3. TypeOK'
    <2>1. /\ global' = global /\ step' = step /\ next' = next /\ used' = used
          /\ expired' = expired
      OBVIOUS
    <2>2. /\ tries' \in [Worker -> Nat]
          /\ result' \in [Worker -> {"none", "answered", "failed"}]
          /\ pc' \in [Worker -> {"idle", "configure", "prepare", "ask", "done"}]
          /\ rows' \in [Worker -> Nat] /\ lost' \in [Worker -> BOOLEAN]
      BY <1>1 DEF TypeOK
    <2>3. r' \in [Worker -> [ResponseField -> Nat]]
      BY <1>1 DEF TypeOK
    <2>4. row' \in [Worker -> [prompt : Nat, response : [ResponseField -> Nat]]]
      <3>1. r'[w] \in [ResponseField -> Nat]
        BY <2>3
      <3>2. global["filter"]["SystemPrompt"] \in Nat
        BY <1>1 DEF TypeOK, Kind, Setting
      <3>3. row \in [Worker -> [prompt : Nat, response : [ResponseField -> Nat]]]
        BY <1>1 DEF TypeOK
      <3>4. CASE n = 0
        BY <3>3, <3>4
      <3>5. CASE n # 0
        <4>1. row' = [row EXCEPT ![w] = [prompt |-> global["filter"]["SystemPrompt"],
                                         response |-> r'[w]]]
          BY <3>5
        <4> QED
          BY <3>1, <3>2, <3>3, <4>1
      <3> QED
        BY <3>4, <3>5
    <2> QED
      BY <1>1, <2>1, <2>2, <2>3, <2>4 DEF TypeOK
  <1>4. \A v \in Worker : v # w =>
          /\ pc'[v] = pc[v] /\ tries'[v] = tries[v] /\ r'[v] = r[v]
          /\ result'[v] = result[v] /\ rows'[v] = rows[v]
          /\ row'[v] = row[v] /\ lost'[v] = lost[v]
    BY <1>1 DEF TypeOK
  <1>5. /\ tries'[w] = tries[w] + 1 /\ result'[w] = res /\ rows'[w] = n
        /\ pc'[w] = IF res = "none" THEN "ask" ELSE "done"
        /\ \A f \in ResponseField :
             r'[w][f] = IF f \in F THEN tries[w] + 1 ELSE r[w][f]
    BY <1>1, <1>2 DEF TypeOK
  <1>6. GlobalsAreConfigured' /\ CopiedIsOwn' /\ ReadIsOwn'
    <2>1. \A v \in Worker : step'[v] = step[v] /\ next'[v] = next[v]
            /\ (pc'[v] = pc[v] \/ (Asks(v) /\ Asks(v)'))
      BY <1>4, <1>5 DEF Asks
    <2> QED
      BY <2>1, SettingsKept
  <1>7. \A f \in ResponseField : r[w][f] \in Nat /\ r[w][f] <= tries[w]
    BY <1>1 DEF IInv, TriesMatchPc, TypeOK
  <1>8. TriesMatchPc'
    <2> DEFINE Match(v) ==
          /\ pc[v] # "done" => result[v] = "none" /\ rows[v] = 0
          /\ pc[v] = "done" => result[v] # "none"
          /\ pc[v] \in {"configure", "prepare"} => tries[v] = 0
          /\ pc[v] = "ask" => tries[v] < used[v]["MaxRetryAttempts"]
          /\ pc[v] = "done" => tries[v] <= used[v]["MaxRetryAttempts"]
          /\ result[v] = "failed" => tries[v] = used[v]["MaxRetryAttempts"]
          /\ \A f \in ResponseField : r[v][f] <= tries[v]
    <2>1. ASSUME NEW v \in Worker, v # w
          PROVE  Match(v)'
      <3>1. Match(v)
        BY DEF IInv, TriesMatchPc
      <3> QED
        BY <1>4, <2>1, <3>1
    <2>2. Match(w)'
      <3>1. \A f \in ResponseField : r'[w][f] <= tries'[w]
        BY <1>1, <1>5, <1>7
      <3>2. CASE res = "none"
        BY <1>2, <1>5, <3>1, <3>2
      <3>3. CASE res # "none"
        <4>1. /\ pc'[w] = "done" /\ result'[w] = res
              /\ used'[w]["MaxRetryAttempts"] = used[w]["MaxRetryAttempts"]
          BY <1>5, <3>3
        <4>2. tries'[w] \in Nat /\ tries'[w] <= used[w]["MaxRetryAttempts"]
          BY <1>1, <1>2, <1>5
        <4>3. res = "failed" => tries'[w] = used[w]["MaxRetryAttempts"]
          <5>1. res = "failed" => tries[w] + 1 >= used[w]["MaxRetryAttempts"]
            OBVIOUS
          <5>2. tries'[w] = tries[w] + 1
            BY <1>5
          <5>3. \A t, u \in Nat : t < u /\ t + 1 >= u => t + 1 = u
            OBVIOUS
          <5>4. tries[w] \in Nat /\ used[w]["MaxRetryAttempts"] \in Nat
            BY <1>1, <1>2
          <5> HIDE DEF Try
          <5> QED
            BY <1>2, <5>1, <5>2, <5>3, <5>4
        <4> QED
          BY <3>1, <3>3, <4>1, <4>2, <4>3
      <3> QED
        BY <3>2, <3>3
    <2> QED
      BY <2>1, <2>2 DEF TriesMatchPc
  <1>9. SavedOnce'
    <2>1. ASSUME NEW v \in Worker, v # w
          PROVE  /\ rows'[v] <= 1
                 /\ rows'[v] = 1 =>
                      /\ result'[v] = "answered" /\ KindOf(v)' = "filter"
                      /\ row'[v].response = r'[v]
                      /\ Uniform(step'[v], "SystemPrompt") =>
                           row'[v].prompt = used'[v]["SystemPrompt"]
                 /\ Decided(v)' => (rows'[v] = 0 <=> lost'[v])
      <3>1. KindOf(v)' = KindOf(v) /\ step' = step /\ used' = used
        BY DEF KindOf
      <3>2. Decided(v)' <=> Decided(v)
        BY <1>4, <2>1, <3>1 DEF Decided
      <3> HIDE DEF Try
      <3> QED
        BY <1>4, <2>1, <3>1, <3>2 DEF IInv, SavedOnce
    <2>2. rows'[w] <= 1 /\ lost'[w] = l /\ KindOf(w)' = KindOf(w)
          /\ step' = step /\ used' = used
      BY <1>1, <1>5 DEF TypeOK, KindOf
    <2>3. rows'[w] = 1 => result'[w] = "answered" /\ KindOf(w) = "filter"
      BY <1>5
    <2>4. ASSUME rows'[w] = 1
          PROVE  row'[w] = [prompt |-> global["filter"]["SystemPrompt"],
                            response |-> r'[w]]
      <3>1. n # 0
        BY <1>5, <2>4
      <3>2. row' = [row EXCEPT ![w] = [prompt |-> global["filter"]["SystemPrompt"],
                                       response |-> r'[w]]]
        BY <3>1
      <3>3. row \in [Worker -> [prompt : Nat, response : [ResponseField -> Nat]]]
        BY <1>1 DEF TypeOK
      <3> HIDE DEF Try
      <3> QED
        BY <3>2, <3>3
    <2>5. ASSUME KindOf(w) = "filter", Uniform(step[w], "SystemPrompt")
          PROVE  global["filter"]["SystemPrompt"] = used[w]["SystemPrompt"]
      <3>1. PICK i \in DOMAIN SettingOrder : SettingOrder[i] = "SystemPrompt"
        BY OrderFacts DEF Setting
      <3>2. HasCopied(w, i) /\ HasRead(w, i)
        BY DEF HasCopied, HasRead, Asks
      <3>3. global[KindOf(w)]["SystemPrompt"] = Own(step[w], "SystemPrompt")
        BY <2>5, <3>1, <3>2 DEF IInv, CopiedIsOwn
      <3>4. used[w]["SystemPrompt"] = Own(step[w], "SystemPrompt")
        BY <2>5, <3>1, <3>2 DEF IInv, ReadIsOwn
      <3> QED
        BY <2>5, <3>3, <3>4
    <2>6. Decided(w)' => (rows'[w] = 0 <=> lost'[w])
      <3> SUFFICES ASSUME Decided(w)'
                   PROVE  rows'[w] = 0 <=> lost'[w]
        OBVIOUS
      <3>1. res = "answered" /\ KindOf(w) = "filter"
        BY <1>5, <2>2 DEF Decided
      <3>2. PICK f \in ResponseField : r'[w][f] = tries'[w]
        BY DEF Decided
      <3>3. f \in F
        BY <1>1, <1>5, <1>7, <3>2
      <3> QED
        BY <1>5, <2>2, <3>1, <3>3
    <2> HIDE DEF Try
    <2>7. rows'[w] = 1 =>
            /\ result'[w] = "answered" /\ KindOf(w)' = "filter"
            /\ row'[w].response = r'[w]
            /\ Uniform(step'[w], "SystemPrompt") =>
                 row'[w].prompt = used'[w]["SystemPrompt"]
      BY <2>2, <2>3, <2>4, <2>5
    <2> QED
      BY <2>1, <2>2, <2>6, <2>7 DEF SavedOnce, Uniform
  <1> QED
    BY <1>3, <1>6, <1>8, <1>9 DEF IInv

\* A struct nothing is written to.
LEMMA NothingFilled ==
  ASSUME TypeOK, NEW w \in Worker, NEW k
  PROVE  r = [r EXCEPT ![w] = [f \in ResponseField |->
                                 IF f \in {} THEN k ELSE r[w][f]]]
PROOF
  <1>1. r \in [Worker -> [ResponseField -> Nat]]
    BY DEF TypeOK
  <1>2. r[w] = [f \in ResponseField |-> IF f \in {} THEN k ELSE r[w][f]]
    BY <1>1
  <1> QED
    BY <1>1, <1>2

LEMMA RefusedKeeps ==
  ASSUME LlmCallAssumption, IInv, NEW w \in Worker, Refused(w) \/ Silent(w)
  PROVE  IInv'
PROOF
  <1>1. TypeOK
    BY DEF IInv
  <1>2. r' = [r EXCEPT ![w] = [f \in ResponseField |->
                                 IF f \in {} THEN tries[w] + 1 ELSE r[w][f]]]
    BY <1>1, NothingFilled DEF Refused, Silent
  <1>3. /\ rows' = [rows EXCEPT ![w] = rows[w] + 0] /\ row' = row
        /\ lost' = [lost EXCEPT ![w] = lost[w]] /\ lost[w] \in BOOLEAN
    BY <1>1 DEF Refused, Silent, table, TypeOK
  <1>4. /\ pc[w] = "ask" /\ result[w] = "none"
        /\ UNCHANGED <<global, step, next, used, expired>>
        /\ tries' = [tries EXCEPT ![w] = tries[w] + 1]
        /\ tries'[w] = tries[w] + 1
        /\ result = [result EXCEPT ![w] = "none"]
    BY <1>1 DEF Refused, Silent, FailedTry, IInv, TriesMatchPc, TypeOK
  <1>5. tries[w] + 1 \in Nat /\ used[w]["MaxRetryAttempts"] \in Nat
    <2>1. tries \in [Worker -> Nat] /\ used \in [Worker -> [Setting -> Nat \ {0}]]
      BY <1>1 DEF TypeOK
    <2>2. tries[w] \in Nat /\ used[w] \in [Setting -> Nat \ {0}]
      BY <2>1
    <2> QED
      BY <2>2 DEF Setting
  <1>6. CASE Silent(w)
    <2>1. pc' = [pc EXCEPT ![w] = "done"] /\ result' = [result EXCEPT ![w] = "answered"]
      BY <1>6 DEF Silent, Finish
    <2>2. Try(w, "answered", {}, 0, lost[w])
      BY <1>2, <1>3, <1>4, <2>1 DEF Try
    <2> QED
      BY <1>3, <2>2, TryKeeps
  <1>7. CASE Refused(w) /\ GivesUp(w)
    <2>1. pc' = [pc EXCEPT ![w] = "done"] /\ result' = [result EXCEPT ![w] = "failed"]
      BY <1>7 DEF Refused, FailedTry, Finish
    <2>2. tries[w] + 1 >= used[w]["MaxRetryAttempts"]
      BY <1>4, <1>7 DEF GivesUp
    <2>3. Try(w, "failed", {}, 0, lost[w])
      BY <1>2, <1>3, <1>4, <2>1, <2>2 DEF Try
    <2> QED
      BY <1>3, <2>3, TryKeeps
  <1>8. CASE Refused(w) /\ ~GivesUp(w)
    <2>1. pc' = pc /\ result' = [result EXCEPT ![w] = "none"]
      BY <1>4, <1>8 DEF Refused, FailedTry
    <2>2. tries[w] + 1 < used[w]["MaxRetryAttempts"]
      BY <1>4, <1>5, <1>8 DEF GivesUp
    <2>3. Try(w, "none", {}, 0, lost[w])
      BY <1>2, <1>3, <1>4, <2>1, <2>2 DEF Try
    <2> QED
      BY <1>3, <2>3, TryKeeps
  <1> QED
    BY <1>6, <1>7, <1>8

LEMMA AnswerKeeps ==
  ASSUME LlmCallAssumption, IInv, NEW w \in Worker, NEW F \in SUBSET ResponseField,
         Garbled(w, F) \/ Answered(w, F)
  PROVE  IInv'
PROOF
  <1>1. TypeOK
    BY DEF IInv
  <1>2. /\ pc[w] = "ask" /\ result[w] = "none"
        /\ UNCHANGED <<global, step, next, used, expired>>
        /\ tries' = [tries EXCEPT ![w] = tries[w] + 1]
        /\ tries'[w] = tries[w] + 1
        /\ result = [result EXCEPT ![w] = "none"]
    BY <1>1 DEF Garbled, Answered, FailedTry, IInv, TriesMatchPc, TypeOK
  <1>3. r' = [r EXCEPT ![w] = [f \in ResponseField |->
                                 IF f \in F THEN tries[w] + 1 ELSE r[w][f]]]
    BY <1>1, <1>2 DEF Garbled, Answered, Fills, TypeOK
  <1>4. tries[w] + 1 \in Nat /\ used[w]["MaxRetryAttempts"] \in Nat
    <2>1. tries \in [Worker -> Nat] /\ used \in [Worker -> [Setting -> Nat \ {0}]]
      BY <1>1 DEF TypeOK
    <2> QED
      BY <2>1 DEF Setting
  <1>5. CASE Answered(w, F)
    <2>1. /\ pc' = [pc EXCEPT ![w] = "done"]
          /\ result' = [result EXCEPT ![w] = "answered"]
      BY <1>5 DEF Answered, Finish
    <2>2. /\ rows \in [Worker -> Nat] /\ lost \in [Worker -> BOOLEAN]
          /\ lost[w] \in BOOLEAN
      BY <1>1 DEF TypeOK
    <2>3. CASE KindOf(w) # "filter"
      <3>1. UNCHANGED <<rows, row, lost>>
        BY <1>5, <2>3 DEF Answered, SaveIfFilter, table
      <3>2. /\ rows' = [rows EXCEPT ![w] = rows[w] + 0] /\ row' = row
            /\ lost' = [lost EXCEPT ![w] = lost[w]]
        BY <2>2, <3>1
      <3>3. Try(w, "answered", F, 0, lost[w])
        BY <1>2, <1>3, <2>1, <2>3, <3>2 DEF Try
      <3> QED
        BY <2>2, <3>3, TryKeeps
    <2>4. CASE KindOf(w) = "filter"
      <3>1. PICK stored \in BOOLEAN :
              /\ rows' = [rows EXCEPT ![w] = IF stored THEN rows[w] + 1 ELSE rows[w]]
              /\ row' = [row EXCEPT ![w] =
                           IF stored THEN [prompt |-> global["filter"]["SystemPrompt"],
                                           response |-> r'[w]]
                           ELSE row[w]]
              /\ lost' = [lost EXCEPT ![w] = ~stored]
        BY <1>5, <2>4 DEF Answered, SaveIfFilter, Save
      <3>2. CASE stored
        <4>1. /\ rows' = [rows EXCEPT ![w] = rows[w] + 1]
              /\ row' = [row EXCEPT ![w] = [prompt |-> global["filter"]["SystemPrompt"],
                                             response |-> r'[w]]]
              /\ lost' = [lost EXCEPT ![w] = FALSE]
          BY <3>1, <3>2
        <4>2. Try(w, "answered", F, 1, FALSE)
          BY <1>2, <1>3, <2>1, <2>4, <4>1 DEF Try
        <4> QED
          BY <4>2, TryKeeps
      <3>3. CASE ~stored
        <4>1. row' = row
          <5>1. row \in [Worker -> [prompt : Nat, response : [ResponseField -> Nat]]]
            BY <1>1 DEF TypeOK
          <5> QED
            BY <3>1, <3>3, <5>1
        <4>2. rows' = [rows EXCEPT ![w] = rows[w] + 0] /\ lost' = [lost EXCEPT ![w] = TRUE]
          <5>1. rows' = [rows EXCEPT ![w] = rows[w]] /\ lost' = [lost EXCEPT ![w] = ~stored]
            BY <3>1, <3>3
          <5>2. (~stored) = TRUE
            BY <3>3
          <5>3. lost' = [lost EXCEPT ![w] = TRUE]
            BY <5>1, <5>2, Zenon
          <5>4. rows[w] + 0 = rows[w]
            BY <2>2
          <5> QED
            BY <5>1, <5>3, <5>4
        <4>3. Try(w, "answered", F, 0, TRUE)
          BY <1>2, <1>3, <2>1, <2>4, <4>1, <4>2 DEF Try
        <4> QED
          BY <4>3, TryKeeps
      <3> QED
        BY <3>2, <3>3
    <2> QED
      BY <2>3, <2>4
  <1>6. CASE Garbled(w, F)
    <2>1. /\ rows' = [rows EXCEPT ![w] = rows[w] + 0] /\ row' = row
          /\ lost' = [lost EXCEPT ![w] = lost[w]] /\ lost[w] \in BOOLEAN
      BY <1>1, <1>6 DEF Garbled, table, TypeOK
    <2>2. CASE GivesUp(w)
      <3>1. pc' = [pc EXCEPT ![w] = "done"] /\ result' = [result EXCEPT ![w] = "failed"]
        BY <1>6, <2>2 DEF Garbled, FailedTry, Finish
      <3>2. tries[w] + 1 >= used[w]["MaxRetryAttempts"]
        BY <1>2, <2>2 DEF GivesUp
      <3>3. Try(w, "failed", F, 0, lost[w])
        BY <1>2, <1>3, <2>1, <3>1, <3>2 DEF Try
      <3> QED
        BY <2>1, <3>3, TryKeeps
    <2>3. CASE ~GivesUp(w)
      <3>1. pc' = pc /\ result' = [result EXCEPT ![w] = "none"]
        BY <1>2, <1>6, <2>3 DEF Garbled, FailedTry
      <3>2. tries[w] + 1 < used[w]["MaxRetryAttempts"]
        BY <1>2, <1>4, <2>3 DEF GivesUp
      <3>3. Try(w, "none", F, 0, lost[w])
        BY <1>2, <1>3, <2>1, <3>1, <3>2 DEF Try
      <3> QED
        BY <2>1, <3>3, TryKeeps
    <2> QED
      BY <2>2, <2>3
  <1> QED
    BY <1>5, <1>6

LEMMA ExpireKeeps ==
  ASSUME LlmCallAssumption, IInv, NEW w \in Worker, Expire(w)
  PROVE  IInv'
PROOF
  <1>1. TypeOK'
    BY DEF IInv, TypeOK, Expire, table
  <1>2. GlobalsAreConfigured' /\ CopiedIsOwn' /\ ReadIsOwn'
    BY SettingsKept DEF Expire
  <1>3. TriesMatchPc' /\ SavedOnce'
    BY DEF IInv, TriesMatchPc, SavedOnce, Decided, KindOf, Uniform, Expire, table
  <1> QED
    BY <1>1, <1>2, <1>3 DEF IInv

-----------------------------------------------------------------------------
\* IInv holds in every reachable state, whatever the workers interleave.
THEOREM Invariance == Spec => []IInv
PROOF
  <1>1. Init => IInv
    BY InitInvariant, LlmCallAssumption
  <1>2. IInv /\ [Next]_vars => IInv'
    <2> SUFFICES ASSUME IInv, [Next]_vars
                 PROVE  IInv'
      OBVIOUS
    <2> USE LlmCallAssumption
    <2>1. ASSUME NEW w \in Worker, NEW s \in Step, Begin(w, s)
          PROVE  IInv'
      BY <2>1, BeginKeeps
    <2>2. ASSUME NEW w \in Worker, Configure(w) \/ Prepare(w) \/ Expire(w)
          PROVE  IInv'
      BY <2>2, ConfigureKeeps, PrepareKeeps, ExpireKeeps
    <2>3. ASSUME NEW w \in Worker, Refused(w) \/ Silent(w)
          PROVE  IInv'
      BY <2>3, RefusedKeeps
    <2>4. ASSUME NEW w \in Worker, NEW F \in SUBSET ResponseField,
                 Garbled(w, F) \/ Answered(w, F)
          PROVE  IInv'
      BY <2>4, AnswerKeeps
    <2>5. CASE UNCHANGED vars
      <3>1. /\ UNCHANGED <<global, pc, step, next, used, tries>>
            /\ UNCHANGED <<expired, r, result, rows, row, lost>>
        BY <2>5 DEF vars, locals, table
      <3>2. TypeOK' /\ GlobalsAreConfigured'
        BY <3>1 DEF IInv, TypeOK, GlobalsAreConfigured
      <3>3. CopiedIsOwn' /\ ReadIsOwn'
        BY <3>1 DEF IInv, CopiedIsOwn, ReadIsOwn, HasCopied, HasRead, Asks,
                    KindOf, Uniform, Own
      <3>4. TriesMatchPc' /\ SavedOnce'
        BY <3>1 DEF IInv, TriesMatchPc, SavedOnce, Decided, KindOf, Uniform
      <3> QED
        BY <3>2, <3>3, <3>4 DEF IInv
    <2> QED
      BY <2>1, <2>2, <2>3, <2>4, <2>5 DEF Next
  <1> QED
    BY <1>1, <1>2, PTL DEF Spec

\* A setting that all steps of one kind treat alike is what the configuration
\* says in every call, for any number of workers and steps.
THEOREM UniformSettings == Spec => []UniformSettingsAreOwn
PROOF
  <1>1. IInv => UniformSettingsAreOwn
    <2> SUFFICES ASSUME IInv, NEW w \in Worker, NEW x \in Setting,
                        Asks(w), Uniform(step[w], x)
                 PROVE  used[w][x] = Own(step[w], x)
      BY DEF UniformSettingsAreOwn
    <2>1. PICK i \in 1..3 : SettingOrder[i] = x
      BY OrderFacts
    <2> QED
      BY <2>1, OrderFacts DEF IInv, ReadIsOwn, HasRead
  <1> QED
    BY <1>1, Invariance, PTL

\* Every variable keeps its type.
THEOREM TypeCorrectness == Spec => []TypeOK
PROOF
  <1>1. IInv => TypeOK
    BY DEF IInv
  <1> QED
    BY <1>1, Invariance, PTL

\* No call makes more attempts than it read, and a failed one made them all.
THEOREM AttemptsCounted == Spec => []AttemptsAreCounted
PROOF
  <1>1. IInv /\ UniformSettingsAreOwn => AttemptsAreCounted
    <2> SUFFICES ASSUME IInv, UniformSettingsAreOwn, NEW w \in Worker, Asks(w)
                 PROVE  /\ tries[w] <= used[w]["MaxRetryAttempts"]
                        /\ result[w] = "failed" =>
                             tries[w] = used[w]["MaxRetryAttempts"]
                        /\ result[w] = "failed" /\ Uniform(step[w], "MaxRetryAttempts")
                             => tries[w] = Own(step[w], "MaxRetryAttempts")
      BY DEF AttemptsAreCounted
    <2>1. tries[w] \in Nat /\ used[w]["MaxRetryAttempts"] \in Nat
      <3>1. tries \in [Worker -> Nat] /\ used \in [Worker -> [Setting -> Nat \ {0}]]
        BY DEF IInv, TypeOK
      <3>2. tries[w] \in Nat /\ used[w] \in [Setting -> Nat \ {0}]
        BY <3>1
      <3> QED
        BY <3>2 DEF Setting
    <2>2. Uniform(step[w], "MaxRetryAttempts") =>
            used[w]["MaxRetryAttempts"] = Own(step[w], "MaxRetryAttempts")
      BY DEF UniformSettingsAreOwn, Setting
    <2> QED
      BY <2>1, <2>2 DEF IInv, TriesMatchPc, Asks
  <1> QED
    BY <1>1, Invariance, UniformSettings, PTL

\* A call of the Ollama filter has at most one row, only for a decision, with
\* the response it was taken from and, if all filters have one prompt, with the
\* prompt that was sent; a decision without a row is one the database refused.
THEOREM ResultsSavedOnce == Spec => []SavedOnce
PROOF
  <1>1. IInv => SavedOnce
    BY DEF IInv
  <1> QED
    BY <1>1, Invariance, PTL
=============================================================================
