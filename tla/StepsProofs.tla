----------------------------- MODULE StepsProofs -----------------------------
(***************************************************************************)
(* Proofs about Steps: its inductive invariant, the safety properties that *)
(* follow from it, and the refinement of MessageRun, for any               *)
(* configuration and any message.                                          *)
(***************************************************************************)
EXTENDS Steps, TLAPS

-----------------------------------------------------------------------------
(* The places of a step.                                                   *)

\* Order lists every module, and Place finds it again.
LEMMA OrderFacts ==
  /\ Len(Order) = 11
  /\ \A p \in 1..11 : Order[p] \in Module \cup {"Select"}
  /\ \A p, q \in 1..11 : Order[p] = Order[q] => p = q
  /\ \A x \in Module \cup {"Select"} : \E p \in 1..11 : Order[p] = x
PROOF
  <1>1. Len(Order) = 11
    BY DEF Order
  <1>2. \A p \in 1..11 : \/ p = 1 \/ p = 2 \/ p = 3 \/ p = 4 \/ p = 5 \/ p = 6
                         \/ p = 7 \/ p = 8 \/ p = 9 \/ p = 10 \/ p = 11
    OBVIOUS
  <1>3. /\ Order[1] = "Builtin" /\ Order[2] = "OllamaFilter"
        /\ Order[3] = "OpenAI" /\ Order[4] = "Select"
        /\ Order[5] = "ADSB" /\ Order[6] = "OllamaAnnotator"
        /\ Order[7] = "Tar1090" /\ Order[8] = "Discord"
        /\ Order[9] = "NewRelic" /\ Order[10] = "Webhook"
        /\ Order[11] = "Mastodon"
    BY DEF Order
  <1>4. \A p \in 1..11 : Order[p] \in Module \cup {"Select"}
    BY <1>2, <1>3 DEF Module, Filterer, Annotator, Receiver
  <1>5. \A p, q \in 1..11 : Order[p] = Order[q] => p = q
    BY <1>2, <1>3
  <1>6. \A x \in Module \cup {"Select"} : \E p \in 1..11 : Order[p] = x
    BY <1>3 DEF Module, Filterer, Annotator, Receiver
  <1> QED
    BY <1>1, <1>4, <1>5, <1>6

LEMMA PlaceFacts ==
  /\ \A x \in Module \cup {"Select"} : Place(x) \in 1..11 /\ Order[Place(x)] = x
  /\ \A p \in 1..11 : Place(Order[p]) = p
PROOF
  <1>1. \A x \in Module \cup {"Select"} :
          Place(x) \in 1..11 /\ Order[Place(x)] = x
    <2> SUFFICES ASSUME NEW x \in Module \cup {"Select"}
                 PROVE  Place(x) \in 1..11 /\ Order[Place(x)] = x
      OBVIOUS
    <2>1. PICK p \in 1..11 : Order[p] = x
      BY OrderFacts
    <2> QED
      BY <2>1, OrderFacts DEF Place
  <1>2. \A p \in 1..11 : Place(Order[p]) = p
    BY <1>1, OrderFacts
  <1> QED
    BY <1>1, <1>2

\* Filters, the selection, annotators and receivers follow each other.
LEMMA PhaseFacts ==
  /\ SelectAt = 4
  /\ \A x \in Filterer : Place(x) \in 1..3
  /\ \A x \in Annotator : Place(x) \in 5..7
  /\ \A x \in Receiver : Place(x) \in 8..11
  /\ \A p \in 1..11 : p < 4 => Order[p] \in Filterer
PROOF
  <1>1. /\ Order[1] = "Builtin" /\ Order[2] = "OllamaFilter"
        /\ Order[3] = "OpenAI" /\ Order[4] = "Select"
        /\ Order[5] = "ADSB" /\ Order[6] = "OllamaAnnotator"
        /\ Order[7] = "Tar1090" /\ Order[8] = "Discord"
        /\ Order[9] = "NewRelic" /\ Order[10] = "Webhook"
        /\ Order[11] = "Mastodon"
    BY DEF Order
  <1>2. /\ Place("Builtin") = 1 /\ Place("OllamaFilter") = 2
        /\ Place("OpenAI") = 3 /\ Place("Select") = 4
        /\ Place("ADSB") = 5 /\ Place("OllamaAnnotator") = 6
        /\ Place("Tar1090") = 7 /\ Place("Discord") = 8
        /\ Place("NewRelic") = 9 /\ Place("Webhook") = 10
        /\ Place("Mastodon") = 11
    BY <1>1, PlaceFacts
  <1>3. \A p \in 1..11 : p < 4 => p = 1 \/ p = 2 \/ p = 3
    OBVIOUS
  <1> QED
    BY <1>1, <1>2, <1>3 DEF SelectAt, Filterer, Annotator, Receiver

\* A configured step has the fields of a ProcessingStep.
LEMMA ConfigFacts ==
  ASSUME StepsAssumption, TypeOK, status = "open"
  PROVE  /\ step \in DOMAIN steps /\ step \in 1..Len(steps) /\ step \in StepNumber
         /\ Config \in ProcessingStep
         /\ Len(steps) \in Nat
PROOF
  <1>1. steps \in Seq(ProcessingStep)
    BY DEF StepsAssumption, TypeOK
  <1>2. step \in DOMAIN steps
    BY DEF TypeOK
  <1>3. step \in StepNumber
    BY <1>2 DEF StepNumber, TypeOK
  <1> QED
    BY <1>1, <1>2, <1>3 DEF Config

\* The three ways to go on.
LEMMA ContinueFacts ==
  ASSUME TypeOK, NEW p \in 1..11, status = "open", ContinueAfter(p)
  PROVE  \/ p < 11 /\ at' = p + 1 /\ step' = step /\ status' = "open"
         \/ /\ p = 11 /\ step < Len(steps)
            /\ at' = 1 /\ step' = step + 1 /\ status' = "open"
         \/ /\ p = 11 /\ ~(step < Len(steps))
            /\ at' = at /\ step' = step /\ status' = "finished"
PROOF
  BY OrderFacts DEF ContinueAfter, TypeOK

\* What a call leaves behind: it was made at a place the loop is leaving, and
\* the calls before it lie behind.
LEMMA StaysBehind ==
  ASSUME StepsAssumption, IInv, NEW p \in at..11, status = "open",
         ContinueAfter(p),
         calls' \subseteq calls \cup {<<step, Order[at]>>}
  PROVE  CallsBehind'
PROOF
  <1>1. at \in 1..11 /\ step \in Nat /\ p \in 1..11
    BY OrderFacts DEF IInv, TypeOK
  <1>2. SUFFICES ASSUME status' = "open", NEW c \in calls'
                 PROVE  \/ c[1] < step'
                        \/ c[1] = step' /\ Place(c[2]) < at'
    BY DEF CallsBehind, Place
  <1>3. \/ p < 11 /\ at' = p + 1 /\ step' = step
        \/ at' = 1 /\ step' = step + 1
    BY <1>1, <1>2, ContinueFacts DEF IInv
  <1>4. \/ c[1] \in Nat /\ c[1] < step
        \/ c[1] = step /\ Place(c[2]) \in 1..at
    <2>1. CASE c \in calls
      <3>1. c[1] \in Nat /\ c[2] \in Module
        BY <2>1, ConfigFacts DEF IInv, TypeOK, StepNumber, StepsAssumption
      <3> QED
        BY <1>1, <2>1, <3>1, PlaceFacts DEF IInv, CallsBehind
    <2>2. CASE c = <<step, Order[at]>>
      BY <1>1, <2>2, PlaceFacts
    <2> QED
      BY <1>2, <2>1, <2>2
  <1> QED
    BY <1>1, <1>3, <1>4

\* The position stays typed.
LEMMA StaysTyped ==
  ASSUME StepsAssumption, TypeOK, NEW p \in 1..11, status = "open",
         ContinueAfter(p), steps' = steps
  PROVE  /\ at' \in 1..Len(Order) /\ step' \in Nat \ {0} /\ step <= step'
         /\ status' \in {"open", "finished"}
         /\ status' = "open" => step' \in DOMAIN steps'
         /\ 0..step \subseteq 0..step'
PROOF
  <1>1. step \in 1..Len(steps) /\ Len(steps) \in Nat /\ steps \in Seq(ProcessingStep)
    BY ConfigFacts DEF StepsAssumption, TypeOK
  <1>2. at \in 1..11
    BY OrderFacts DEF TypeOK
  <1> QED
    BY <1>1, <1>2, ContinueFacts, OrderFacts

\* Apart from the selection itself, no place applies SelectedFields.
LEMMA SelectedKept ==
  ASSUME StepsAssumption, TypeOK, NEW p \in at..11, status = "open",
         at > SelectAt \/ p < SelectAt,
         ContinueAfter(p), steps' = steps
  PROVE  \A i \in DOMAIN steps : Selected(i)' <=> Selected(i)
PROOF
  <1>1. at \in 1..11 /\ p \in 1..11 /\ SelectAt = 4
    BY OrderFacts, PhaseFacts DEF TypeOK
  <1>2. SelectAt' = SelectAt
    BY DEF SelectAt, Place
  <1>3. step \in 1..Len(steps) /\ Len(steps) \in Nat /\ DOMAIN steps = 1..Len(steps)
    BY ConfigFacts DEF StepsAssumption, TypeOK
  <1> QED
    BY <1>1, <1>2, <1>3, ContinueFacts DEF Selected

\* Leaving the places from at to p keeps NothingLeftOut if nothing that is
\* configured there was left out.
LEMMA LeftOutKept ==
  ASSUME StepsAssumption, IInv, NEW p \in at..11, status = "open",
         ContinueAfter(p), steps' = steps, drop' = drop,
         calls \subseteq calls', errors \subseteq errors',
         \A x \in Config.modules : Place(x) \in at..p =>
           \/ <<step, x>> \in calls'
           \/ x \in Receiver /\ \E y \in Receiver :
                Place(y) < Place(x) /\ <<step, y>> \in errors'
  PROVE  NothingLeftOut'
PROOF
  <1>1. /\ at \in 1..11 /\ p \in 1..11 /\ TypeOK
        /\ step \in 1..Len(steps) /\ Len(steps) \in Nat
        /\ DOMAIN steps = 1..Len(steps)
    BY OrderFacts, ConfigFacts DEF IInv, TypeOK, StepsAssumption
  <1>2. SUFFICES ASSUME ~drop, NEW i \in DOMAIN steps, NEW x \in steps[i].modules,
                        Passed(i, x)'
                 PROVE  \/ <<i, x>> \in calls'
                        \/ x \in Receiver /\ \E y \in Receiver :
                             Place(y) < Place(x) /\ <<i, y>> \in errors'
    BY DEF NothingLeftOut, Place
  <1>3. x \in Module
    <2>1. steps[i] \in ProcessingStep
      BY DEF StepsAssumption, IInv, TypeOK
    <2> QED
      BY <2>1 DEF ProcessingStep
  <1>4. Place(x)' = Place(x) /\ Place(x) \in 1..11
    BY <1>3, PlaceFacts DEF Place
  <1>5. \/ Passed(i, x)
        \/ i = step /\ Place(x) \in at..p
    <2>1. i < step' \/ status' = "finished" \/ (i = step' /\ at' > Place(x))
      BY <1>2, <1>4 DEF Passed
    <2>2. CASE p < 11 /\ at' = p + 1 /\ step' = step /\ status' = "open"
      BY <1>1, <1>4, <2>1, <2>2 DEF Passed
    <2>3. CASE p = 11 /\ at' = 1 /\ step' = step + 1 /\ status' = "open"
      BY <1>1, <1>4, <2>1, <2>3 DEF Passed
    <2>4. CASE p = 11 /\ ~(step < Len(steps))
      BY <1>1, <1>4, <2>4 DEF Passed
    <2> QED
      BY <1>1, <2>2, <2>3, <2>4, ContinueFacts
  <1>6. CASE Passed(i, x)
    BY <1>2, <1>6 DEF IInv, NothingLeftOut
  <1>7. CASE i = step /\ Place(x) \in at..p
    BY <1>7 DEF Config
  <1> QED
    BY <1>5, <1>6, <1>7

\* Where a module is reached: its place, before or after the selection, and
\* nothing has been dropped.
LEMMA ReachedFacts ==
  ASSUME StepsAssumption, IInv, NEW x \in Module, Reached(x)
  PROVE  /\ status = "open" /\ at \in 1..11 /\ at = Place(x) /\ Order[at] = x
         /\ at # SelectAt /\ drop = FALSE
PROOF
  <1>1. /\ status = "open" /\ at \in 1..11 /\ Order[at] = x
    BY OrderFacts DEF Reached, IInv, TypeOK
  <1>2. at = Place(x) /\ at # SelectAt
    BY <1>1, PlaceFacts, PhaseFacts DEF Module
  <1> QED
    BY <1>1, <1>2 DEF IInv, TypeOK, DropAtSelect

-----------------------------------------------------------------------------
(* The inductive invariant.                                                *)

LEMMA InitInvariant ==
  ASSUME StepsAssumption, Init
  PROVE  IInv
PROOF
  <1>1. steps \in Seq(ProcessingStep) /\ SelectAt = 4
    BY PhaseFacts DEF Init, StepsAssumption
  <1>2. TypeOK
    <2>1. PICK F \in SUBSET SourceField : m = [f \in F |-> [step |-> 0, by |-> Source]]
      BY DEF Init
    <2>2. DOMAIN m = F /\ m \in [DOMAIN m -> [step : 0..step, by : Writer]] /\ DOMAIN m \subseteq Field
      BY <2>1 DEF Init, Field, Writer
    <2>3. status = "open" => step \in DOMAIN steps
      BY <1>1 DEF Init
    <2>4. /\ step \in Nat \ {0} /\ at \in 1..Len(Order)
          /\ status \in {"open", "filtered", "finished", "dead"}
      BY OrderFacts DEF Init
    <2>5. /\ arrived \subseteq SourceField /\ empty \subseteq {MessageText, TailCode}
          /\ drop \in BOOLEAN
          /\ calls = {} /\ made = 0 /\ errors = {} /\ answered = {}
          /\ steps \in StepConfigs
      BY <2>1, <2>2 DEF Init
    <2> QED
      BY <2>2, <2>3, <2>4, <2>5 DEF TypeOK
  <1>3. CallsBehind /\ DropAtSelect /\ FilteredIsNotSent
    BY DEF Init, CallsBehind, DropAtSelect, FilteredIsNotSent
  <1>4. \A i \in DOMAIN steps : ~Selected(i)
    BY <1>1 DEF Init, Selected
  <1>5. SelectionIsExact
    BY <1>4 DEF SelectionIsExact, Init
  <1>6. NothingLeftOut
    <2>1. CASE steps = <<>>
      BY <2>1 DEF NothingLeftOut
    <2>2. CASE steps # <<>>
      <3> SUFFICES ASSUME NEW i \in DOMAIN steps, NEW x \in steps[i].modules
                   PROVE  ~Passed(i, x)
        BY DEF NothingLeftOut
      <3>1. steps[i] \in ProcessingStep
        BY <1>1
      <3>2. Place(x) \in 1..11
        BY <3>1, PlaceFacts DEF ProcessingStep
      <3> QED
        BY <1>1, <2>2, <3>2 DEF Init, Passed
    <2> QED
      BY <2>1, <2>2
  <1> QED
    BY <1>2, <1>3, <1>5, <1>6 DEF IInv

LEMMA SkipKeeps ==
  ASSUME StepsAssumption, IInv, NEW x \in Module, Skip(x)
  PROVE  IInv'
PROOF
  <1>1. /\ Reached(x) /\ x \notin Config.modules /\ ContinueAfter(at)
        /\ UNCHANGED <<steps, m, arrived, empty, drop, calls, made, errors, answered>>
    BY DEF Skip
  <1>2. /\ status = "open" /\ at \in 1..11 /\ at = Place(x) /\ Order[at] = x
        /\ at # SelectAt /\ drop = FALSE /\ SelectAt = 4
    BY <1>1, ReachedFacts, PhaseFacts
  <1>3. TypeOK'
    BY <1>1, <1>2, StaysTyped DEF IInv, TypeOK
  <1>4. CallsBehind'
    BY <1>1, <1>2, StaysBehind
  <1>5. DropAtSelect' /\ FilteredIsNotSent'
    BY <1>1, <1>2 DEF DropAtSelect, FilteredIsNotSent
  <1>6. SelectionIsExact'
    <2>1. \A i \in DOMAIN steps : Selected(i)' <=> Selected(i)
      BY <1>1, <1>2, SelectedKept DEF IInv
    <2> QED
      BY <1>1, <2>1 DEF IInv, SelectionIsExact, Keeps
  <1>7. NothingLeftOut'
    <2>1. \A y \in Config.modules : Place(y) \in at..at => y = x
      <3>1. Config.modules \subseteq Module
        BY <1>2, ConfigFacts DEF IInv, ProcessingStep
      <3> QED
        BY <1>2, <3>1, PlaceFacts
    <2>2. \A y \in Config.modules : Place(y) \notin at..at
      BY <1>1, <2>1
    <2>3. at \in at..11 /\ steps' = steps /\ drop' = drop
          /\ calls \subseteq calls' /\ errors \subseteq errors'
      BY <1>1, <1>2
    <2>4. \A y \in Config.modules : Place(y) \in at..at =>
           \/ <<step, y>> \in calls'
           \/ y \in Receiver /\ \E z \in Receiver :
                Place(z) < Place(y) /\ <<step, z>> \in errors'
      BY <2>2
    <2> HIDE DEF Config
    <2> QED
      BY <1>1, <1>2, <2>3, <2>4, LeftOutKept, Zenon
  <1> QED
    BY <1>3, <1>4, <1>5, <1>6, <1>7 DEF IInv

LEMMA PanicKeeps ==
  ASSUME StepsAssumption, IInv, NEW x \in Module, Reached(x), Panic(x)
  PROVE  IInv'
PROOF
  <1>1. /\ status' = "dead" /\ calls' = calls \cup {<<step, x>>}
        /\ made' = made + 1
        /\ UNCHANGED <<steps, step, at, m, arrived, empty, drop, errors, answered>>
    BY DEF Panic, Called
  <1>2. /\ status = "open" /\ at \in 1..11 /\ at = Place(x) /\ drop = FALSE
    BY ReachedFacts
  <1>3. TypeOK'
    BY <1>1, <1>2, ConfigFacts DEF IInv, TypeOK
  <1>4. CallsBehind' /\ DropAtSelect' /\ FilteredIsNotSent'
    BY <1>1, <1>2 DEF CallsBehind, DropAtSelect, FilteredIsNotSent
  <1>5. SelectionIsExact'
    BY <1>1, <1>2 DEF IInv, SelectionIsExact, Selected, Keeps
  <1>6. NothingLeftOut'
    <2>1. SUFFICES ASSUME NEW i \in DOMAIN steps, NEW y \in steps[i].modules,
                          Passed(i, y)'
                   PROVE  \/ <<i, y>> \in calls'
                          \/ y \in Receiver /\ \E z \in Receiver :
                               Place(z) < Place(y) /\ <<i, z>> \in errors'
      BY <1>1 DEF NothingLeftOut, Place
    <2>2. Place(y)' = Place(y)
      BY DEF Place
    <2>3. Passed(i, y)
      BY <1>1, <2>1, <2>2 DEF Passed
    <2> QED
      BY <1>1, <1>2, <2>3 DEF IInv, NothingLeftOut
  <1> QED
    BY <1>3, <1>4, <1>5, <1>6 DEF IInv
-----------------------------------------------------------------------------

\* An error of a module is an error of a call just made.
LEMMA ErrorFacts ==
  ASSUME TypeOK, NEW x \in Module, NEW error \in BOOLEAN,
         Called(x), Failed(x, error)
  PROVE  errors \subseteq errors' /\ errors' \subseteq calls'
         /\ (error => <<step, x>> \in errors')
PROOF
  BY DEF TypeOK, Called, Failed

\* What a filter returns: two booleans.
LEMMA FilterResultFacts ==
  ASSUME NEW x \in Filterer, NEW r \in FilterResults(x)
  PROVE  r.drop \in BOOLEAN /\ r.error \in BOOLEAN
PROOF
  <1> DEFINE R == [drop : BOOLEAN, error : BOOLEAN]
  <1>1. \A d, e \in BOOLEAN : Result(d, e) \in R
    BY DEF Result
  <1>2. \A y \in Filterer : Failure(y) \in R
    <2> TAKE y \in Filterer
    <2>1. (y \in Config.onFailure) \in BOOLEAN
      OBVIOUS
    <2> QED
      BY <1>1, <2>1, Zenon DEF Failure
  <1>3. BuiltinResults \subseteq R
    BY <1>1, <1>2 DEF BuiltinResults, Decisions, Filterer
  <1>4. OllamaFilterResults \subseteq R
    BY <1>1, <1>2 DEF OllamaFilterResults, Decisions, Filterer
  <1>5. OpenAIResults \subseteq R
    BY <1>1, <1>2 DEF OpenAIResults, Decisions, Filterer
  <1>6. r \in R
    BY <1>3, <1>4, <1>5 DEF FilterResults, Filterer
  <1> QED
    BY <1>6

LEMMA CallFilterKeeps ==
  ASSUME StepsAssumption, IInv, NEW x \in Filterer, CallFilter(x)
  PROVE  IInv'
PROOF
  <1>1. PICK r \in FilterResults(x) :
          /\ drop' = r.drop
          /\ Failed(x, r.error)
          /\ at' = IF r.drop THEN SelectAt ELSE at + 1
    BY DEF CallFilter
  <1>2. /\ Reached(x) /\ x \in Config.modules /\ Called(x)
        /\ calls' = calls \cup {<<step, x>>} /\ made' = made + 1
        /\ UNCHANGED <<steps, step, status, m, arrived, empty, answered>>
    BY DEF CallFilter, Called
  <1>3. /\ x \in Module /\ status = "open" /\ at \in 1..3 /\ at = Place(x)
        /\ Order[at] = x /\ drop = FALSE /\ SelectAt = 4
    <2>1. x \in Module
      BY DEF Module
    <2>2. /\ status = "open" /\ at \in 1..11 /\ at = Place(x) /\ Order[at] = x
          /\ at # SelectAt /\ drop = FALSE
      BY <1>2, <2>1, ReachedFacts, Zenon
    <2>3. Place(x) \in 1..3 /\ SelectAt = 4
      BY PhaseFacts
    <2> QED
      BY <2>1, <2>2, <2>3
  <1>4. r.drop \in BOOLEAN /\ r.error \in BOOLEAN
    BY FilterResultFacts
  <1>5. /\ step \in StepNumber /\ step \in 1..Len(steps) /\ Len(steps) \in Nat
        /\ DOMAIN steps = 1..Len(steps)
    BY <1>3, ConfigFacts DEF IInv, TypeOK, StepsAssumption
  <1>6. at' \in 1..4 /\ (r.drop => at' = 4) /\ (~r.drop => at' = at + 1)
    BY <1>1, <1>3, <1>4
  <1>7. TypeOK'
    <2>1. errors' \subseteq calls' /\ answered' \subseteq calls'
      BY <1>1, <1>2, <1>3, <1>4, ErrorFacts DEF IInv, TypeOK
    <2>2. calls' \subseteq StepNumber \X Module /\ made' \in Nat
      BY <1>2, <1>3, <1>5 DEF IInv, TypeOK
    <2> QED
      BY <1>1, <1>2, <1>4, <1>6, <2>1, <2>2, OrderFacts DEF IInv, TypeOK, StepNumber
  <1>8. CallsBehind'
    <2>1. SUFFICES ASSUME NEW c \in calls'
                   PROVE  \/ c[1] < step
                          \/ c[1] = step /\ Place(c[2]) < at'
      BY <1>2 DEF CallsBehind, Place
    <2>2. CASE c = <<step, x>>
      BY <1>3, <1>6, <2>2
    <2>3. CASE c \in calls
      <3>1. c[2] \in Module
        BY <2>3 DEF IInv, TypeOK
      <3>2. Place(c[2]) \in 1..11
        BY <3>1, PlaceFacts
      <3> QED
        BY <1>3, <1>6, <2>3, <3>2 DEF IInv, CallsBehind
    <2> QED
      BY <1>2, <2>2, <2>3
  <1>9. DropAtSelect'
    BY <1>1, <1>2, <1>3, <1>6 DEF DropAtSelect, SelectAt, Place
  <1>10. SelectionIsExact'
    <2>1. SelectAt' = SelectAt
      BY DEF SelectAt, Place
    <2>2. \A i \in DOMAIN steps : Selected(i)' <=> Selected(i)
      BY <1>2, <1>3, <1>6, <2>1 DEF Selected
    <2> QED
      BY <1>2, <2>2 DEF IInv, SelectionIsExact, Keeps
  <1>11. NothingLeftOut'
    <2>1. SUFFICES ASSUME ~r.drop, NEW i \in DOMAIN steps,
                          NEW y \in steps[i].modules, Passed(i, y)'
                   PROVE  \/ <<i, y>> \in calls'
                          \/ y \in Receiver /\ \E z \in Receiver :
                               Place(z) < Place(y) /\ <<i, z>> \in errors'
      BY <1>1, <1>2 DEF NothingLeftOut, Place
    <2>2. y \in Module
      <3>1. steps[i] \in ProcessingStep
        BY DEF StepsAssumption, IInv, TypeOK
      <3> QED
        BY <3>1 DEF ProcessingStep
    <2>3. Place(y)' = Place(y) /\ Place(y) \in 1..11 /\ Order[Place(y)] = y
      BY <2>2, PlaceFacts DEF Place
    <2>4. Passed(i, y) \/ (i = step /\ Place(y) = at)
      BY <1>2, <1>3, <1>6, <2>1, <2>3 DEF Passed
    <2>5. CASE Passed(i, y)
      <3>1. errors \subseteq errors'
        BY <1>1, <1>2, <1>3, <1>4, ErrorFacts DEF IInv
      <3> QED
        BY <1>2, <1>3, <2>5, <3>1 DEF IInv, NothingLeftOut
    <2>6. CASE i = step /\ Place(y) = at
      BY <1>2, <1>3, <2>3, <2>6
    <2> QED
      BY <2>4, <2>5, <2>6
  <1>12. FilteredIsNotSent'
    <2>1. SUFFICES ASSUME NEW c \in calls', c[1] = step
                   PROVE  c[2] \in Filterer
      BY <1>2 DEF FilteredIsNotSent
    <2>2. CASE c \in calls
      <3>1. c[2] \in Module
        BY <2>2 DEF IInv, TypeOK
      <3>2. Place(c[2]) \in 1..11 /\ Order[Place(c[2])] = c[2]
        BY <3>1, PlaceFacts
      <3>3. Place(c[2]) < 4
        BY <1>3, <1>5, <2>1, <2>2, <3>2 DEF IInv, CallsBehind
      <3> QED
        BY <3>2, <3>3, PhaseFacts
    <2> QED
      BY <1>2, <2>2
  <1> QED
    BY <1>7, <1>8, <1>9, <1>10, <1>11, <1>12 DEF IInv
-----------------------------------------------------------------------------

LEMMA SelectKeeps ==
  ASSUME StepsAssumption, IInv, SelectFields
  PROVE  IInv'
PROOF
  <1> DEFINE kept == IF Config.selected = {} THEN DOMAIN m
                     ELSE Config.selected \cap DOMAIN m
  <1>1. /\ Reached("Select")
        /\ IF drop THEN status' = "filtered" /\ UNCHANGED <<step, at>>
                   ELSE ContinueAfter(at)
        /\ UNCHANGED <<steps, arrived, empty, drop, calls, made, errors, answered>>
    BY DEF SelectFields
  <1>2. /\ status = "open" /\ at = 4 /\ SelectAt = 4
    <2>1. status = "open" /\ Order[at] = "Select" /\ at \in 1..11
      BY <1>1, OrderFacts DEF Reached, IInv, TypeOK
    <2>2. Place("Select") = at
      BY <2>1, PlaceFacts
    <2> QED
      BY <2>1, <2>2, PhaseFacts DEF SelectAt
  <1>3. /\ step \in 1..Len(steps) /\ Len(steps) \in Nat
        /\ DOMAIN steps = 1..Len(steps) /\ Config \in ProcessingStep
    BY <1>2, ConfigFacts DEF IInv, TypeOK, StepsAssumption
  <1>4. m \in [DOMAIN m -> [step : 0..step, by : Writer]] /\ DOMAIN m \subseteq Field
    BY DEF IInv, TypeOK
  <1>5. /\ DOMAIN m' = kept /\ kept \subseteq DOMAIN m
        /\ \A f \in kept : m'[f] = m[f]
        /\ m' \in [kept -> [step : 0..step, by : Writer]]
    BY <1>4 DEF SelectFields, Restrict
  <1>6. /\ step' = step
        /\ \/ drop = TRUE /\ status' = "filtered" /\ at' = 4
           \/ drop = FALSE /\ status' = "open" /\ at' = 5
    BY <1>1, <1>2, ContinueFacts DEF IInv, TypeOK
  <1>7. TypeOK'
    BY <1>1, <1>3, <1>4, <1>5, <1>6, OrderFacts DEF IInv, TypeOK
  <1>8. CallsBehind'
    <2> SUFFICES ASSUME status' = "open", NEW c \in calls
                 PROVE  c[1] < step \/ (c[1] = step /\ Place(c[2]) < at')
      BY <1>1, <1>6 DEF CallsBehind, Place
    <2>1. c[1] < step \/ (c[1] = step /\ Place(c[2]) < 4)
      BY <1>2 DEF IInv, CallsBehind
    <2>2. Place(c[2]) \in 1..11
      BY PlaceFacts DEF IInv, TypeOK
    <2> QED
      BY <1>6, <2>1, <2>2
  <1>9. SelectAt' = SelectAt
    BY DEF SelectAt, Place
  <1>10. DropAtSelect' /\ FilteredIsNotSent'
    BY <1>1, <1>2, <1>6, <1>9 DEF IInv, DropAtSelect, FilteredIsNotSent
  <1>11. SelectionIsExact'
    <2>1. \A i \in DOMAIN steps : Selected(i)' <=> Selected(i) \/ i = step
      BY <1>2, <1>3, <1>6, <1>9 DEF Selected
    <2>2. \A f \in kept : Keeps(step, f)
      BY DEF Keeps, Config
    <2>3. \A f \in DOMAIN m : Keeps(step, f) => f \in kept
      BY DEF Keeps, Config
    <2>4. \A i \in DOMAIN steps, f \in DOMAIN m' :
            Selected(i)' => Keeps(i, f) \/ m'[f].step >= i
      BY <1>5, <2>1, <2>2 DEF IInv, SelectionIsExact
    <2>5. \A f \in arrived :
            (\A i \in DOMAIN steps : Selected(i)' => Keeps(i, f)) => f \in DOMAIN m'
      BY <1>3, <1>5, <2>1, <2>3 DEF IInv, SelectionIsExact
    <2> QED
      BY <1>1, <2>4, <2>5 DEF SelectionIsExact, Keeps
  <1>12. NothingLeftOut'
    <2>1. SUFFICES ASSUME ~drop, NEW i \in DOMAIN steps,
                          NEW y \in steps[i].modules, Passed(i, y)'
                   PROVE  Passed(i, y)
      BY <1>1 DEF IInv, NothingLeftOut, Place
    <2>2. y \in Module
      <3>1. steps[i] \in ProcessingStep
        BY DEF StepsAssumption, IInv, TypeOK
      <3> QED
        BY <3>1 DEF ProcessingStep
    <2>3. Place(y)' = Place(y) /\ Place(y) \in 1..11 /\ Place(y) # 4
      <3>1. Place(y) \in 1..11 /\ Place(y)' = Place(y)
        BY <2>2, PlaceFacts DEF Place
      <3>2. Place(y) # 4
        BY <2>2, PhaseFacts DEF Module
      <3> QED
        BY <3>1, <3>2
    <2> QED
      BY <1>2, <1>6, <2>1, <2>3 DEF Passed
  <1> QED
    BY <1>7, <1>8, <1>10, <1>11, <1>12 DEF IInv

-----------------------------------------------------------------------------
(* Answers.                                                                *)

\* A value that annotator x writes in the current step.
NewValue(value, x) ==
  /\ value = [step |-> step, by |-> value.by]
  /\ value.by = x \/ (x = "Tar1090" /\ value.by = Unknown)

LEMMA NewValueType ==
  ASSUME step \in Nat, NEW x \in Annotator, NEW value, NewValue(value, x)
  PROVE  /\ value \in [step : 0..step, by : Writer] /\ value.step = step
         /\ WrittenBy(value, x)
BY DEF NewValue, Writer, WrittenBy

\* What an annotator that answers does to the message: its wanted fields are
\* there afterwards, and nothing is lost; its values are new, except that
\* Ollama leaves those it meets, and the others stay as they were.
LEMMA MergedAnswer ==
  ASSUME StepsAssumption, IInv, status = "open", NEW x \in Annotator,
         NEW answer \in Answers(x), m' = Merge(m, answer)
  PROVE  /\ DOMAIN m \subseteq DOMAIN m' /\ DOMAIN m' \subseteq Field
         /\ Wanted(step, x) \subseteq DOMAIN m'
         /\ m' = [f \in DOMAIN m' |-> m'[f]]
         /\ \A f \in DOMAIN m' :
              \/ /\ f \in DOMAIN m /\ m'[f] = m[f]
                 /\ f \in Wanted(step, x) => x = "OllamaAnnotator"
              \/ /\ NewValue(m'[f], x)
                 /\ x = "OllamaAnnotator" => f \notin DOMAIN m
<1> DEFINE W == Wanted(step, x)
<1>1. m' = [f \in DOMAIN m \cup DOMAIN answer |->
              IF f \in DOMAIN answer THEN answer[f] ELSE m[f]]
  BY DEF Merge
<1>2. DOMAIN m \subseteq Field /\ W \subseteq FieldsOf(x) /\ FieldsOf(x) \subseteq Field
  BY DEF IInv, TypeOK, Wanted, FieldsOf, Field, Annotator
<1>3. CASE x = "ADSB"
  <2>1. answer = [f \in W |-> [step |-> step, by |-> x]]
    BY <1>3 DEF Answers, AdsbAnswer, Written, Wanted, FieldsOf, Config
  <2> QED
    BY <1>1, <1>2, <1>3, <2>1 DEF NewValue
<1>4. CASE x = "OllamaAnnotator"
  <2>1. answer = [f \in FieldsOf(x) \cup DOMAIN m |->
                    IF f \in DOMAIN m THEN m[f] ELSE [step |-> step, by |-> x]]
    BY <1>4 DEF Answers, OllamaAnswer, Merge, Written, FieldsOf
  <2> QED
    BY <1>1, <1>2, <1>4, <2>1 DEF NewValue
<1>5. CASE x = "Tar1090"
  <2>1. PICK by \in {"Tar1090", Unknown} : answer = Tar1090Answer(by)
    BY <1>5 DEF Answers
  <2>2. answer = [f \in DOMAIN m \cup FieldsOf(x) |->
                    IF f \in FieldsOf(x) THEN [step |-> step, by |-> by] ELSE m[f]]
    BY <1>5, <2>1 DEF Tar1090Answer, Merge, Written, FieldsOf
  <2> QED
    BY <1>1, <1>2, <1>5, <2>2 DEF NewValue
<1> QED
  BY <1>3, <1>4, <1>5 DEF Annotator

LEMMA CallAnnotatorKeeps ==
  ASSUME StepsAssumption, IInv, NEW x \in Annotator, CallAnnotator(x)
  PROVE  IInv'
PROOF
  <1>1. /\ Reached(x) /\ x \in Config.modules /\ ContinueAfter(at)
        /\ calls' = calls \cup {<<step, x>>} /\ made' = made + 1
        /\ UNCHANGED <<steps, arrived, empty, drop>>
    BY DEF CallAnnotator, Called
  <1>2. /\ x \in Module /\ status = "open" /\ at \in 1..11 /\ at = Place(x)
        /\ Order[at] = x /\ at > SelectAt /\ drop = FALSE /\ SelectAt = 4
    <2>1. x \in Module
      BY DEF Module
    <2>2. /\ status = "open" /\ at \in 1..11 /\ at = Place(x) /\ Order[at] = x
          /\ at # SelectAt /\ drop = FALSE
      BY <1>1, <2>1, ReachedFacts, Zenon
    <2>3. Place(x) \in 5..7 /\ SelectAt = 4
      BY PhaseFacts
    <2> QED
      BY <2>1, <2>2, <2>3
  <1>3. /\ step \in StepNumber /\ step \in 1..Len(steps) /\ Len(steps) \in Nat
        /\ DOMAIN steps = 1..Len(steps)
    BY <1>2, ConfigFacts DEF IInv, TypeOK, StepsAssumption
  <1>4. m \in [DOMAIN m -> [step : 0..step, by : Writer]] /\ DOMAIN m \subseteq Field
    BY DEF IInv, TypeOK
  <1>5. /\ DOMAIN m \subseteq DOMAIN m' /\ DOMAIN m' \subseteq Field
        /\ m' \in [DOMAIN m' -> [step : 0..step, by : Writer]]
        /\ \A f \in DOMAIN m' :
             (f \in DOMAIN m /\ m'[f] = m[f]) \/ m'[f].step = step
    <2>1. CASE m' = m
      BY <1>4, <2>1
    <2>2. ASSUME NEW answer \in Answers(x), m' = Merge(m, answer)
          PROVE  /\ DOMAIN m \subseteq DOMAIN m' /\ DOMAIN m' \subseteq Field
                 /\ m' \in [DOMAIN m' -> [step : 0..step, by : Writer]]
                 /\ \A f \in DOMAIN m' :
                      (f \in DOMAIN m /\ m'[f] = m[f]) \/ m'[f].step = step
      <3>1. /\ DOMAIN m \subseteq DOMAIN m' /\ DOMAIN m' \subseteq Field
            /\ m' = [f \in DOMAIN m' |-> m'[f]]
            /\ \A f \in DOMAIN m' :
                 (f \in DOMAIN m /\ m'[f] = m[f]) \/ NewValue(m'[f], x)
        BY <1>2, <2>2, MergedAnswer
      <3> QED
        BY <1>3, <1>4, <3>1, NewValueType
    <2> QED
      BY <2>1, <2>2 DEF CallAnnotator
  <1>6. /\ answered' \subseteq calls' /\ errors' \subseteq calls'
        /\ errors \subseteq errors'
    <2>1. answered' \subseteq answered \cup {<<step, x>>}
      BY DEF CallAnnotator
    <2>2. /\ errors' \subseteq errors \cup {<<step, x>>}
          /\ errors \subseteq errors'
      BY DEF CallAnnotator, Failed
    <2> QED
      BY <1>1, <2>1, <2>2 DEF IInv, TypeOK
  <1>7. TypeOK'
    <2>1. /\ at' \in 1..Len(Order) /\ step' \in Nat \ {0}
          /\ status' \in {"open", "finished"}
          /\ status' = "open" => step' \in DOMAIN steps'
          /\ 0..step \subseteq 0..step'
      BY <1>1, <1>2, StaysTyped DEF IInv
    <2>2. m' \in [DOMAIN m' -> [step : 0..step', by : Writer]]
      BY <1>5, <2>1
    <2>3. calls' \subseteq StepNumber \X Module /\ made' \in Nat
      BY <1>1, <1>2, <1>3 DEF IInv, TypeOK
    <2> QED
      BY <1>1, <1>5, <1>6, <2>1, <2>2, <2>3 DEF IInv, TypeOK, StepNumber
  <1>8. CallsBehind'
    BY <1>1, <1>2, StaysBehind
  <1>9. DropAtSelect' /\ FilteredIsNotSent'
    BY <1>1, <1>2 DEF DropAtSelect, FilteredIsNotSent
  <1>10. SelectionIsExact'
    <2>1. \A i \in DOMAIN steps : Selected(i)' <=> Selected(i)
      BY <1>1, <1>2, SelectedKept DEF IInv
    <2>2. \A i \in DOMAIN steps : Selected(i) => i <= step
      BY <1>3 DEF Selected
    <2>3. \A i \in DOMAIN steps, f \in DOMAIN m' :
            Selected(i) => Keeps(i, f) \/ m'[f].step >= i
      BY <1>3, <1>5, <2>2 DEF IInv, SelectionIsExact
    <2> QED
      BY <1>1, <1>5, <2>1, <2>3 DEF IInv, SelectionIsExact, Keeps
  <1>11. NothingLeftOut'
    <2>1. \A y \in Config.modules : Place(y) \in at..at => y = x
      <3>1. Config.modules \subseteq Module
        BY <1>2, ConfigFacts DEF IInv, ProcessingStep
      <3> QED
        BY <1>2, <3>1, PlaceFacts
    <2>2. at \in at..11 /\ steps' = steps /\ drop' = drop
          /\ calls \subseteq calls' /\ errors \subseteq errors'
      BY <1>1, <1>2, <1>6
    <2>3. \A y \in Config.modules : Place(y) \in at..at =>
           \/ <<step, y>> \in calls'
           \/ y \in Receiver /\ \E z \in Receiver :
                Place(z) < Place(y) /\ <<step, z>> \in errors'
      BY <1>1, <2>1
    <2> QED
      BY <1>1, <1>2, <2>2, <2>3, LeftOutKept, Zenon
  <1> QED
    BY <1>7, <1>8, <1>9, <1>10, <1>11 DEF IInv
-----------------------------------------------------------------------------

LEMMA CallReceiverKeeps ==
  ASSUME StepsAssumption, IInv, NEW x \in Receiver, CallReceiver(x)
  PROVE  IInv'
PROOF
  <1>1. PICK error \in BOOLEAN :
          /\ Failed(x, error)
          /\ ContinueAfter(IF error THEN Len(Order) ELSE at)
    <2>1. SendErrors(x) \subseteq BOOLEAN
      BY DEF SendErrors, DiscordErrors, NewRelicErrors, WebhookErrors,
             MastodonErrors, Receiver
    <2> QED
      BY <2>1 DEF CallReceiver
  <1> DEFINE p == IF error THEN 11 ELSE at
  <1>2. /\ Reached(x) /\ x \in Config.modules /\ Called(x)
        /\ calls' = calls \cup {<<step, x>>} /\ made' = made + 1
        /\ UNCHANGED <<steps, m, arrived, empty, drop, answered>>
    BY DEF CallReceiver, Called
  <1>3. /\ x \in Module /\ status = "open" /\ at \in 1..11 /\ at = Place(x)
        /\ Order[at] = x /\ at > SelectAt /\ drop = FALSE /\ SelectAt = 4
        /\ at \in 8..11
    <2>1. x \in Module
      BY DEF Module
    <2>2. /\ status = "open" /\ at \in 1..11 /\ at = Place(x) /\ Order[at] = x
          /\ at # SelectAt /\ drop = FALSE
      BY <1>2, <2>1, ReachedFacts, Zenon
    <2>3. Place(x) \in 8..11 /\ SelectAt = 4
      BY PhaseFacts
    <2> QED
      BY <2>1, <2>2, <2>3
  <1>4. ContinueAfter(p) /\ p \in at..11 /\ p \in 1..11
    BY <1>1, <1>3, OrderFacts
  <1>5. /\ step \in StepNumber /\ step \in 1..Len(steps) /\ Len(steps) \in Nat
    BY <1>3, ConfigFacts DEF IInv
  <1>6. /\ errors \subseteq errors' /\ errors' \subseteq calls'
        /\ error => <<step, x>> \in errors'
    BY <1>1, <1>2, <1>3, ErrorFacts DEF IInv
  <1> HIDE DEF p
  <1>7. TypeOK'
    <2>1. /\ at' \in 1..Len(Order) /\ step' \in Nat \ {0}
          /\ status' \in {"open", "finished"}
          /\ status' = "open" => step' \in DOMAIN steps'
          /\ 0..step \subseteq 0..step'
      BY <1>2, <1>3, <1>4, StaysTyped DEF IInv
    <2>2. m' \in [DOMAIN m' -> [step : 0..step', by : Writer]]
      BY <1>2, <2>1 DEF IInv, TypeOK
    <2>3. calls' \subseteq StepNumber \X Module /\ answered' \subseteq calls'
          /\ made' \in Nat
      BY <1>2, <1>3, <1>5 DEF IInv, TypeOK
    <2> QED
      BY <1>2, <1>6, <2>1, <2>2, <2>3 DEF IInv, TypeOK, StepNumber
  <1>8. CallsBehind'
    BY <1>2, <1>3, <1>4, StaysBehind
  <1>9. DropAtSelect' /\ FilteredIsNotSent'
    BY <1>2, <1>3 DEF DropAtSelect, FilteredIsNotSent
  <1>10. SelectionIsExact'
    <2>1. \A i \in DOMAIN steps : Selected(i)' <=> Selected(i)
      BY <1>2, <1>3, <1>4, SelectedKept DEF IInv
    <2> QED
      BY <1>2, <2>1 DEF IInv, SelectionIsExact, Keeps
  <1>11. NothingLeftOut'
    <2>1. \A y \in Config.modules : Place(y) \in at..p =>
           \/ <<step, y>> \in calls'
           \/ y \in Receiver /\ \E z \in Receiver :
                Place(z) < Place(y) /\ <<step, z>> \in errors'
      <3> SUFFICES ASSUME NEW y \in Config.modules, Place(y) \in at..p, y # x
                   PROVE  y \in Receiver /\ \E z \in Receiver :
                            Place(z) < Place(y) /\ <<step, z>> \in errors'
        BY <1>2
      <3>1. y \in Module
        BY <1>3, ConfigFacts DEF IInv, ProcessingStep
      <3>2. Place(y) \in 1..11 /\ Place(y) # at /\ Place(y) > at
        BY <1>3, <3>1, PlaceFacts
      <3>3. error
        BY <1>3, <3>2 DEF p
      <3>4. y \in Receiver
        BY <1>3, <3>1, <3>2, PhaseFacts DEF Module
      <3> QED
        BY <1>3, <1>6, <3>2, <3>3, <3>4
    <2>2. p \in at..11 /\ steps' = steps /\ drop' = drop
          /\ calls \subseteq calls' /\ errors \subseteq errors'
      BY <1>2, <1>4, <1>6
    <2> QED
      BY <1>3, <1>4, <2>1, <2>2, LeftOutKept, Zenon
  <1> QED
    BY <1>7, <1>8, <1>9, <1>10, <1>11 DEF IInv

LEMMA NextKeeps ==
  ASSUME StepsAssumption, IInv, Next
  PROVE  IInv'
PROOF
  <1>1. ASSUME NEW x \in Module, Skip(x)
        PROVE  IInv'
    BY <1>1, SkipKeeps
  <1>2. ASSUME NEW x \in Module, CallModule(x)
        PROVE  IInv'
    BY <1>2, CallFilterKeeps, CallAnnotatorKeeps, CallReceiverKeeps DEF CallModule
  <1>3. CASE SelectFields
    BY <1>3, SelectKeeps
  <1>4. CASE FatalBuiltin
    BY <1>4, PanicKeeps DEF FatalBuiltin, Module, Filterer
  <1>5. CASE PanicOpenAI
    BY <1>5, PanicKeeps DEF PanicOpenAI, Module, Filterer
  <1>6. CASE PanicAdsb
    BY <1>6, PanicKeeps DEF PanicAdsb, Module, Annotator
  <1>7. CASE PanicDiscord
    BY <1>7, PanicKeeps DEF PanicDiscord, Module, Receiver
  <1> QED
    BY <1>1, <1>2, <1>3, <1>4, <1>5, <1>6, <1>7 DEF Next

\* A step that changes nothing keeps everything.
LEMMA StutterKeeps ==
  ASSUME IInv, UNCHANGED vars
  PROVE  IInv'
PROOF
  <1>1. /\ UNCHANGED <<steps, step, at, status, m, arrived>>
        /\ UNCHANGED <<empty, drop, calls, made, errors, answered>>
    BY DEF vars
  <1>2. TypeOK'
    BY <1>1 DEF IInv, TypeOK
  <1>3. CallsBehind' /\ DropAtSelect' /\ FilteredIsNotSent'
    BY <1>1 DEF IInv, CallsBehind, DropAtSelect, FilteredIsNotSent, Place, SelectAt
  <1>4. SelectionIsExact'
    BY <1>1 DEF IInv, SelectionIsExact, Selected, Keeps, SelectAt, Place
  <1>5. NothingLeftOut'
    <2>1. \A i, x : Passed(i, x)' = Passed(i, x) /\ Place(x)' = Place(x)
      BY <1>1 DEF Passed, Place
    <2>2. \A x, y : (Place(y) < Place(x))' = (Place(y) < Place(x))
      BY DEF Place
    <2> SUFFICES ASSUME ~drop, NEW i \in DOMAIN steps, NEW x \in steps[i].modules,
                        Passed(i, x)
                 PROVE  \/ <<i, x>> \in calls
                        \/ x \in Receiver /\ \E y \in Receiver :
                             Place(y) < Place(x) /\ <<i, y>> \in errors
      BY <1>1, <2>1, <2>2 DEF NothingLeftOut
    <2> QED
      BY DEF IInv, NothingLeftOut
  <1> QED
    BY <1>2, <1>3, <1>4, <1>5 DEF IInv

\* IInv holds in every reachable state.
THEOREM Invariance == Spec => []IInv
PROOF
  <1>1. Init => IInv
    BY InitInvariant, StepsAssumption
  <1>2. IInv /\ [Next]_vars => IInv'
    <2>1. CASE Next
      BY <2>1, NextKeeps, StepsAssumption
    <2>2. CASE UNCHANGED vars
      BY <2>2, StutterKeeps
    <2> QED
      BY <2>1, <2>2
  <1> QED
    BY <1>1, <1>2, PTL DEF Spec

\* TypeOK holds for every configuration and every message.
THEOREM TypeCorrectness == Spec => []TypeOK
PROOF
  <1>1. IInv => TypeOK
    BY DEF IInv
  <1> QED
    BY <1>1, Invariance, PTL

\* The fields a module sees are those the SelectedFields of the steps passed
\* leave over, whatever annotators and filters did in between.
THEOREM FieldsAreThoseSelected == Spec => []SelectionIsExact
PROOF
  <1>1. IInv => SelectionIsExact
    BY DEF IInv
  <1> QED
    BY <1>1, Invariance, PTL

\* A message that is not dropped meets every configured module, except the
\* receivers of a step after one that failed.
THEOREM EveryModuleIsCalled == Spec => []NothingLeftOut
PROOF
  <1>1. IInv => NothingLeftOut
    BY DEF IInv
  <1> QED
    BY <1>1, Invariance, PTL

\* A step that filters the message does not annotate or send it.
THEOREM FilteredStaysUnsent == Spec => []FilteredIsNotSent
PROOF
  <1>1. IInv => FilteredIsNotSent
    BY DEF IInv
  <1> QED
    BY <1>1, Invariance, PTL
-----------------------------------------------------------------------------
(* Steps implements MessageRun.                                            *)

\* A call at the current place comes after all earlier ones, once.
LEMMA CallIsMake ==
  ASSUME StepsAssumption, IInv, NEW x \in Module, Reached(x), Called(x),
         status' \in {"open", "filtered", "finished", "dead"}
  PROVE  Run!Next
PROOF
  <1>1. /\ status = "open" /\ at = Place(x) /\ <<step, x>> \in AllCalls
    BY ReachedFacts, ConfigFacts DEF IInv, AllCalls
  <1>2. \A d \in calls : <<d, <<step, x>>>> \in CallOrder
    <2> SUFFICES ASSUME NEW d \in calls
                 PROVE  <<d, <<step, x>>>> \in CallOrder
      OBVIOUS
    <2>1. d \in AllCalls
      BY DEF IInv, TypeOK, AllCalls
    <2>2. d[1] < step \/ (d[1] = step /\ Place(d[2]) < Place(x))
      BY <1>1 DEF IInv, CallsBehind
    <2> QED
      BY <1>1, <2>1, <2>2 DEF CallOrder
  <1>3. Run!Make(<<step, x>>)
    BY <1>1, <1>2 DEF Run!Make, Run!Fate, Called
  <1> QED
    BY <1>1, <1>3 DEF Run!Next

\* Every behaviour of the steps is one of the abstract run: no module is
\* called twice in a step, out of order, or after the message was dropped.
THEOREM StepsImplementRun == Spec => ImplementsRun
PROOF
  <1>1. Init => Run!Init
    BY DEF Init, Run!Init
  <1>2. ASSUME StepsAssumption, IInv, IInv', Next
        PROVE  Run!Next \/ UNCHANGED Run!vars
    <2> status' \in {"open", "filtered", "finished", "dead"}
      BY <1>2 DEF IInv, TypeOK
    <2>1. ASSUME calls' = calls, made' = made, status = "open"
          PROVE  Run!Next \/ UNCHANGED Run!vars
      BY <2>1 DEF Run!Next, Run!End, Run!Fate, Run!vars
    <2>2. ASSUME NEW x \in Module, Skip(x)
          PROVE  Run!Next \/ UNCHANGED Run!vars
      BY <2>1, <2>2 DEF Skip, Reached
    <2>3. ASSUME NEW x \in Module, CallModule(x)
          PROVE  Run!Next
      BY <1>2, <2>3, CallIsMake
         DEF CallModule, CallFilter, CallAnnotator, CallReceiver
    <2>4. CASE SelectFields
      BY <2>1, <2>4 DEF SelectFields, Reached
    <2>5. CASE FatalBuiltin \/ PanicOpenAI \/ PanicAdsb \/ PanicDiscord
      BY <1>2, <2>5, CallIsMake
         DEF FatalBuiltin, PanicOpenAI, PanicAdsb, PanicDiscord, Panic,
             Module, Filterer, Annotator, Receiver
    <2> QED
      BY <1>2, <2>2, <2>3, <2>4, <2>5 DEF Next
  <1>3. IInv /\ IInv' /\ [Next]_vars => [Run!Next]_Run!vars
    BY <1>2, StepsAssumption DEF vars, Run!vars
  <1> QED
    BY <1>1, <1>3, Invariance, PTL DEF Spec, ImplementsRun, Run!Spec
-----------------------------------------------------------------------------
(* Errors and answers.                                                     *)

\* What a filter returns says to filter the message when it has
\* FilterOnFailure, unless it is the Ollama filter without its settings.
LEMMA FailedResult ==
  ASSUME NEW x \in Filterer, NEW r \in FilterResults(x), r.error, x \in Config.onFailure
  PROVE  r.drop \/ (x = "OllamaFilter" /\ x \in Config.broken)
<1>1. \A d, e \in BOOLEAN : Result(d, e).drop = d /\ Result(d, e).error = e
  BY DEF Result
<1>2. Failure(x).drop = TRUE
  BY <1>1 DEF Failure
<1>3. \A s \in Decisions : s.error = FALSE
  BY <1>1 DEF Decisions
<1>4. CASE x = "Builtin"
  BY <1>1, <1>2, <1>3, <1>4 DEF FilterResults, BuiltinResults
<1>5. CASE x = "OllamaFilter"
  BY <1>1, <1>2, <1>3, <1>5 DEF FilterResults, OllamaFilterResults
<1>6. CASE x = "OpenAI"
  BY <1>1, <1>2, <1>3, <1>6 DEF FilterResults, OpenAIResults
<1> QED
  BY <1>4, <1>5, <1>6 DEF Filterer

\* A step that adds no error of a filter and leaves drop alone, in its step,
\* keeps FailureFilters.
LEMMA NoFilterFailed ==
  ASSUME IInv, FailureFilters, steps' = steps, drop' = drop,
         drop => step' = step,
         \A c \in errors' \ errors : c[2] \notin steps[c[1]].onFailure
  PROVE  FailureFilters'
BY DEF FailureFilters

LEMMA FilterFailureKept ==
  ASSUME StepsAssumption, IInv, FailureFilters, NEW x \in Filterer, CallFilter(x)
  PROVE  FailureFilters'
<1>1. PICK r \in FilterResults(x) : drop' = r.drop /\ Failed(x, r.error)
  BY DEF CallFilter
<1>2. /\ steps' = steps /\ step' = step /\ Reached(x)
      /\ errors' \subseteq errors \cup {<<step, x>>}
      /\ <<step, x>> \in errors' => <<step, x>> \in errors \/ r.error
  BY <1>1 DEF CallFilter, Failed
<1>3. drop = FALSE
  BY <1>2, ReachedFacts DEF Module
<1>4. ASSUME NEW c \in errors', c[2] \in steps[c[1]].onFailure
      PROVE  (drop' /\ step' = c[1]) \/ (c[2] = "OllamaFilter" /\ c[2] \in steps[c[1]].broken)
  <2>1. CASE c \in errors
    BY <1>3, <1>4, <2>1 DEF FailureFilters
  <2>2. CASE c = <<step, x>> /\ r.error
    BY <1>1, <1>2, <1>4, <2>2, FailedResult DEF Config
  <2> QED
    BY <1>2, <1>4, <2>1, <2>2
<1> QED
  BY <1>2, <1>4 DEF FailureFilters

\* An error of an annotator or a receiver is none of a filter.
LEMMA OtherFailureKept ==
  ASSUME StepsAssumption, IInv, FailureFilters, NEW x \in Annotator \cup Receiver,
         Reached(x), UNCHANGED <<steps, drop>>,
         errors' \subseteq errors \cup {<<step, x>>}
  PROVE  FailureFilters'
<1>1. drop = FALSE /\ status = "open"
  BY ReachedFacts DEF Module
<1>2. x \notin Config.onFailure
  <2>1. Config.onFailure \subseteq Filterer
    BY <1>1, ConfigFacts DEF IInv, ProcessingStep
  <2> QED
    BY <2>1 DEF Filterer, Annotator, Receiver
<1> QED
  BY <1>1, <1>2, NoFilterFailed DEF Config

-----------------------------------------------------------------------------
\* A step that starts: nothing was asked in it, and nothing written.
LEMMA NewStepIsClean ==
  ASSUME StepsAssumption, IInv, status = "open",
         step' = step + 1, answered' \subseteq answered \cup {<<step, Order[at]>>},
         m' \in [DOMAIN m' -> [step : 0..step, by : Writer]]
  PROVE  AnswersKept' /\ NewIsAnswered'
<1>1. step \in Nat
  BY DEF IInv, TypeOK
<1>2. \A x : <<step + 1, x>> \notin answered'
  <2>1. ASSUME NEW x, <<step + 1, x>> \in answered PROVE FALSE
    <3>1. <<step + 1, x>> \in calls
      BY <2>1 DEF IInv, TypeOK
    <3>2. step + 1 < step \/ step + 1 = step
      BY <3>1 DEF IInv, CallsBehind
    <3> QED
      BY <1>1, <3>2
  <2> QED
    BY <1>1, <2>1
<1>3. \A f \in DOMAIN m' : m'[f].step # step + 1
  BY <1>1
<1> QED
  BY <1>2, <1>3 DEF AnswersKept, NewIsAnswered

\* Going on after a step that leaves the answers of the current step and the
\* fields it wrote as they should be.
LEMMA AnswersGoOn ==
  ASSUME StepsAssumption, IInv, status = "open", NEW p \in at..11, ContinueAfter(p),
         answered' \subseteq answered \cup {<<step, Order[at]>>},
         m' \in [DOMAIN m' -> [step : 0..step, by : Writer]],
         step' = step => AnswersKept' /\ NewIsAnswered'
  PROVE  status' = "open" => AnswersKept' /\ NewIsAnswered'
<1>1. p \in 1..11 /\ at \in 1..11
  BY OrderFacts DEF IInv, TypeOK
<1>2. step' = step \/ step' = step + 1
  BY <1>1, ContinueFacts DEF IInv
<1> QED
  BY <1>2, NewStepIsClean

\* A step that leaves message and answers alone.
LEMMA AnswersStand ==
  ASSUME AnswersKept, NewIsAnswered, UNCHANGED <<steps, step, m, answered>>
  PROVE  AnswersKept' /\ NewIsAnswered'
BY DEF AnswersKept, NewIsAnswered, WrittenBy, Wanted, FieldsOf

\* At the selection no annotator of the step was called yet.
LEMMA NoAnswerBeforeSelect ==
  ASSUME IInv, status = "open", at <= SelectAt, NEW x \in Annotator
  PROVE  <<step, x>> \notin answered
<1>1. SUFFICES ASSUME <<step, x>> \in calls PROVE FALSE
  BY DEF IInv, TypeOK
<1>2. step \in Nat /\ at \in 1..11 /\ Place(x) \in 5..7 /\ SelectAt = 4
  BY PhaseFacts, OrderFacts DEF IInv, TypeOK
<1>3. step < step \/ Place(x) < at
  BY <1>1 DEF IInv, CallsBehind
<1> QED
  BY <1>2, <1>3

LEMMA SelectKeepsAnswers ==
  ASSUME StepsAssumption, IInv, NewIsAnswered, SelectFields
  PROVE  status' = "open" => AnswersKept' /\ NewIsAnswered'
<1>1. /\ status = "open" /\ at = 4 /\ SelectAt = 4
  <2>1. status = "open" /\ Order[at] = "Select" /\ at \in 1..11
    BY OrderFacts DEF SelectFields, Reached, IInv, TypeOK
  <2>2. Place("Select") = at
    BY <2>1, PlaceFacts
  <2> QED
    BY <2>1, <2>2, PhaseFacts DEF SelectAt
<1>2. /\ UNCHANGED <<steps, answered>> /\ step' = step
      /\ DOMAIN m' \subseteq DOMAIN m /\ \A f \in DOMAIN m' : m'[f] = m[f]
  BY <1>1, ContinueFacts DEF SelectFields, IInv, Restrict
<1>3. \A x \in Annotator : <<step, x>> \notin answered
  BY <1>1, NoAnswerBeforeSelect
<1>4. AnswersKept'
  BY <1>2, <1>3 DEF AnswersKept
<1>5. NewIsAnswered'
  BY <1>2, <1>3 DEF NewIsAnswered
<1> QED
  BY <1>4, <1>5

\* The annotators that answered in this step lie before the current place.
LEMMA AskedBefore ==
  ASSUME IInv, status = "open", NEW y \in Annotator, <<step, y>> \in answered
  PROVE  Place(y) < at
<1>1. <<step, y>> \in calls
  BY DEF IInv, TypeOK
<1>2. step < step \/ Place(y) < at
  BY <1>1 DEF IInv, CallsBehind
<1> QED
  BY <1>2 DEF IInv, TypeOK

LEMMA AnnotatorOrder ==
  Place("ADSB") = 5 /\ Place("OllamaAnnotator") = 6 /\ Place("Tar1090") = 7
<1>1. Order[5] = "ADSB" /\ Order[6] = "OllamaAnnotator" /\ Order[7] = "Tar1090"
  BY DEF Order
<1> QED
  BY <1>1, PlaceFacts

LEMMA AnnotatorKeepsAnswers ==
  ASSUME StepsAssumption, IInv, AnswersKept, NewIsAnswered,
         NEW x \in Annotator, CallAnnotator(x)
  PROVE  status' = "open" => AnswersKept' /\ NewIsAnswered'
<1>1. /\ Reached(x) /\ ContinueAfter(at) /\ steps' = steps
      /\ answered' \subseteq answered \cup {<<step, x>>}
  BY DEF CallAnnotator
<1>2. status = "open" /\ at \in 1..11 /\ Order[at] = x
  BY <1>1, ReachedFacts DEF Module
<1>3. step \in Nat /\ m \in [DOMAIN m -> [step : 0..step, by : Writer]]
  BY DEF IInv, TypeOK
<1>4. CASE UNCHANGED <<m, answered>>
  <2>1. step' = step => AnswersKept' /\ NewIsAnswered'
    BY <1>1, <1>4, AnswersStand
  <2> QED
    BY <1>1, <1>2, <1>3, <1>4, <2>1, AnswersGoOn
<1>5. ASSUME NEW answer \in Answers(x), m' = Merge(m, answer),
             answered' = answered \cup {<<step, x>>}
      PROVE  status' = "open" => AnswersKept' /\ NewIsAnswered'
  <2>1. /\ DOMAIN m \subseteq DOMAIN m' /\ Wanted(step, x) \subseteq DOMAIN m'
        /\ m' = [f \in DOMAIN m' |-> m'[f]]
        /\ \A f \in DOMAIN m' :
              \/ /\ f \in DOMAIN m /\ m'[f] = m[f]
                 /\ f \in Wanted(step, x) => x = "OllamaAnnotator"
              \/ /\ NewValue(m'[f], x)
                 /\ x = "OllamaAnnotator" => f \notin DOMAIN m
    BY <1>2, <1>5, MergedAnswer
  <2>2. m' \in [DOMAIN m' -> [step : 0..step, by : Writer]]
    BY <1>3, <2>1, NewValueType
  <2>3. \A y : Wanted(step, y)' = Wanted(step', y)
    BY <1>1 DEF Wanted, FieldsOf
  <2>4. \A y \in Annotator : <<step, y>> \in answered => Place(y) < Place(x)
    BY <1>2, <1>3, AskedBefore, PlaceFacts
  <2>5. ASSUME step' = step PROVE AnswersKept'
    <3>1. ASSUME NEW y \in Annotator, <<step, y>> \in answered', NEW f \in Wanted(step, y)
          PROVE  /\ f \in DOMAIN m'
                 /\ \/ WrittenBy(m'[f], y)
                    \/ y = "OllamaAnnotator" /\ (m'[f].step < step \/ WrittenBy(m'[f], "ADSB"))
                    \/ <<step, "Tar1090">> \in answered' /\ WrittenBy(m'[f], "Tar1090")
      <4>1. CASE <<step, y>> \in answered
        <5>1. f \in DOMAIN m /\ f \in DOMAIN m'
          BY <2>1, <3>1, <4>1 DEF AnswersKept
        <5>2. CASE m'[f] = m[f]
          BY <1>5, <3>1, <4>1, <5>1, <5>2 DEF AnswersKept
        <5>3. CASE NewValue(m'[f], x) /\ (x = "OllamaAnnotator" => f \notin DOMAIN m)
          <6>1. x = "Tar1090"
            BY <2>4, <4>1, <5>1, <5>3, AnnotatorOrder DEF Annotator
          <6> QED
            BY <1>3, <1>5, <5>1, <5>3, <6>1, NewValueType
        <5> QED
          BY <2>1, <5>1, <5>2, <5>3
      <4>2. CASE y = x
        <5>1. f \in DOMAIN m'
          BY <2>1, <3>1, <4>2
        <5>2. CASE NewValue(m'[f], x)
          BY <1>3, <4>2, <5>1, <5>2, NewValueType
        <5>3. CASE f \in DOMAIN m /\ m'[f] = m[f] /\ x = "OllamaAnnotator"
          <6>1. m[f].step \in 0..step
            BY <1>3, <5>3
          <6>2. CASE m[f].step = step
            <7>1. PICK z \in Annotator : <<step, z>> \in answered /\ WrittenBy(m[f], z)
              BY <5>3, <6>2 DEF NewIsAnswered
            <7>2. z = "ADSB"
              BY <2>4, <5>3, <7>1, AnnotatorOrder DEF Annotator
            <7> QED
              BY <4>2, <5>1, <5>3, <7>1, <7>2
          <6> QED
            BY <1>3, <4>2, <5>1, <5>3, <6>1, <6>2
        <5> QED
          BY <2>1, <3>1, <4>2, <5>1, <5>2, <5>3
      <4> QED
        BY <1>5, <3>1, <4>1, <4>2
    <3> QED
      BY <2>3, <2>5, <3>1 DEF AnswersKept, WrittenBy
  <2>6. ASSUME step' = step PROVE NewIsAnswered'
    <3>1. ASSUME NEW f \in DOMAIN m', m'[f].step = step
          PROVE  \E y \in Annotator : <<step, y>> \in answered' /\ WrittenBy(m'[f], y)
      <4>1. CASE f \in DOMAIN m /\ m'[f] = m[f]
        BY <1>5, <3>1, <4>1 DEF NewIsAnswered
      <4>2. CASE NewValue(m'[f], x)
        BY <1>3, <1>5, <4>2, NewValueType
      <4> QED
        BY <2>1, <3>1, <4>1, <4>2
    <3> QED
      BY <2>6, <3>1 DEF NewIsAnswered, WrittenBy
  <2> QED
    BY <1>1, <1>2, <2>2, <2>5, <2>6, AnswersGoOn
<1> QED
  BY <1>4, <1>5 DEF CallAnnotator

-----------------------------------------------------------------------------
LEMMA AnswerStep == IInv /\ AnswerIInv /\ [Next]_vars => AnswerIInv'
<1> SUFFICES ASSUME IInv, AnswerIInv, [Next]_vars PROVE AnswerIInv'
  OBVIOUS
<1> USE StepsAssumption
<1>1. FailureFilters /\ (status = "open" => AnswersKept /\ NewIsAnswered)
  BY DEF AnswerIInv
<1>2. step \in Nat /\ m \in [DOMAIN m -> [step : 0..step, by : Writer]]
  BY DEF IInv, TypeOK
<1>3. ASSUME NEW x \in Module, Skip(x) PROVE AnswerIInv'
  <2>1. /\ Reached(x) /\ ContinueAfter(at)
        /\ UNCHANGED <<steps, m, drop, errors, answered>>
    BY <1>3 DEF Skip
  <2>2. status = "open" /\ at \in 1..11 /\ drop = FALSE
    BY <2>1, ReachedFacts
  <2>3. FailureFilters'
    BY <1>1, <2>1, <2>2, NoFilterFailed
  <2>4. step' = step => AnswersKept' /\ NewIsAnswered'
    BY <1>1, <2>1, <2>2, AnswersStand
  <2> QED
    BY <1>2, <2>1, <2>2, <2>3, <2>4, AnswersGoOn DEF AnswerIInv
<1>4. ASSUME NEW x \in Filterer, CallFilter(x) PROVE AnswerIInv'
  <2>1. UNCHANGED <<steps, step, m, answered>> /\ status = "open"
    BY <1>4 DEF CallFilter, Reached
  <2> QED
    BY <1>1, <1>4, <2>1, FilterFailureKept, AnswersStand DEF AnswerIInv
<1>5. ASSUME NEW x \in Annotator, CallAnnotator(x) PROVE AnswerIInv'
  <2>1. /\ Reached(x) /\ UNCHANGED <<steps, drop>> /\ status = "open"
        /\ errors' \subseteq errors \cup {<<step, x>>}
    BY <1>5 DEF CallAnnotator, Reached, Failed
  <2> QED
    BY <1>1, <1>5, <2>1, OtherFailureKept, AnnotatorKeepsAnswers DEF AnswerIInv
<1>6. ASSUME NEW x \in Receiver, CallReceiver(x) PROVE AnswerIInv'
  <2>1. PICK error \in SendErrors(x) :
          Failed(x, error) /\ ContinueAfter(IF error THEN Len(Order) ELSE at)
    BY <1>6 DEF CallReceiver
  <2>2. /\ Reached(x) /\ UNCHANGED <<steps, m, drop, answered>>
        /\ errors' \subseteq errors \cup {<<step, x>>}
    BY <1>6, <2>1 DEF CallReceiver, Failed
  <2>3. status = "open" /\ at \in 1..11
    BY <2>2, ReachedFacts DEF Module
  <2>4. PICK p \in at..11 : ContinueAfter(p)
    BY <2>1, <2>3, OrderFacts
  <2>5. step' = step => AnswersKept' /\ NewIsAnswered'
    BY <1>1, <2>2, <2>3, AnswersStand
  <2> QED
    BY <1>1, <1>2, <2>2, <2>3, <2>4, <2>5, OtherFailureKept, AnswersGoOn DEF AnswerIInv
<1>7. CASE SelectFields
  <2>1. UNCHANGED <<steps, drop, errors>> /\ status = "open" /\ (drop => step' = step)
    BY <1>7 DEF SelectFields, Reached
  <2> QED
    BY <1>1, <1>7, <2>1, NoFilterFailed, SelectKeepsAnswers DEF AnswerIInv
<1>8. CASE FatalBuiltin \/ PanicOpenAI \/ PanicAdsb \/ PanicDiscord
  <2>1. UNCHANGED <<steps, step, drop, errors>> /\ status' = "dead"
    BY <1>8 DEF FatalBuiltin, PanicOpenAI, PanicAdsb, PanicDiscord, Panic
  <2> QED
    BY <1>1, <2>1, NoFilterFailed DEF AnswerIInv
<1>9. CASE UNCHANGED vars
  <2>1. UNCHANGED <<steps, step, status, m, drop, errors, answered>>
    BY <1>9 DEF vars
  <2> QED
    BY <1>1, <2>1, NoFilterFailed, AnswersStand DEF AnswerIInv
<1> QED
  BY <1>3, <1>4, <1>5, <1>6, <1>7, <1>8, <1>9 DEF Next, CallModule

\* Errors of filters are taken into account, and the answers of a step are in
\* the message, from its first place on.
THEOREM AnswerInvariance == Spec => []AnswerIInv
<1>1. Init => AnswerIInv
  <2> SUFFICES ASSUME Init PROVE AnswerIInv
    OBVIOUS
  <2>1. PICK F \in SUBSET SourceField : m = [f \in F |-> [step |-> 0, by |-> Source]]
    BY DEF Init
  <2>2. NewIsAnswered
    BY <2>1 DEF Init, NewIsAnswered
  <2> QED
    BY <2>2 DEF Init, AnswerIInv, FailureFilters, AnswersKept
<1> QED
  BY <1>1, AnswerStep, Invariance, PTL DEF Spec

\* "The filters take FilterOnFailure into account" (filters.go): a filter that
\* returns an error and has it filters the message, except the Ollama filter
\* without a model or a prompt.
THEOREM FailuresFilter == Spec => []FailureFilters
<1>1. AnswerIInv => FailureFilters
  BY DEF AnswerIInv
<1> QED
  BY <1>1, AnswerInvariance, PTL

\* The answers of a step are in the message its receivers get.
THEOREM AnswersReachReceivers == Spec => []AnswersArrive
<1>1. AnswerIInv => AnswersArrive
  BY DEF AnswerIInv, AnswersArrive, AtReceivers
<1> QED
  BY <1>1, AnswerInvariance, PTL
=============================================================================
