--------------------------- MODULE BuiltinCallProofs ---------------------------
(* Proofs about one call of BuiltinFilter: every criterion the step sets is*)
(* decided once, in the order of the fields, and the decision of the call  *)
(* follows from theirs.  From that, for any configurations, messages and   *)
(* annotations: what the documents say of a filter, and of one that cannot *)
(* decide.                                                                 *)
EXTENDS BuiltinProofs

-----------------------------------------------------------------------------
(* The order of the criteria.                                              *)

\* A nonempty set of natural numbers has a least element.
LEMMA LeastOf ==
  ASSUME NEW T, T \subseteq Nat, T # {}
  PROVE  \E n \in T : \A k \in T : n <= k
<1> DEFINE Below == {1..n : n \in T}
           R == StrictSubsetOrdering(Nat)
<1>1. IsWellFoundedOn(R, FiniteSubsetsOf(Nat))
  BY FS_StrictSubsetOrderingWellFounded
<1>2. Below \subseteq FiniteSubsetsOf(Nat)
  <2>1. \A n \in T : IsFiniteSet(1..n)
    BY FS_Interval
  <2> QED
    BY <2>1 DEF FiniteSubsetsOf
<1>3. Below # {}
  OBVIOUS
<1> HIDE DEF Below, R
<1>4. PICK b \in Below : \A a \in Below : ~(<<a, b>> \in R)
  BY <1>1, <1>2, <1>3, WFMin
<1>5. PICK n \in T : b = 1..n
  BY <1>4 DEF Below
<1>6. ASSUME NEW k \in T, k < n PROVE FALSE
  <2>1. 1..k \in Below
    BY DEF Below
  <2>2. (1..k) \subseteq (1..n) /\ n \in 1..n /\ n \notin 1..k
    BY <1>6
  <2>3. (1..k) # (1..n) /\ (1..k) \in SUBSET Nat /\ (1..n) \in SUBSET Nat
    BY <2>2
  <2>4. <<1..k, b>> \in R
    BY <1>5, <2>2, <2>3 DEF R, StrictSubsetOrdering
  <2> QED
    BY <1>4, <2>1, <2>4
<1> QED BY <1>6

LEMMA FieldsFacts ==
  /\ Len(Fields) \in Nat /\ DOMAIN Fields = 1..Len(Fields)
  /\ {"RequireRegexMatches", "RequireAllRegexMatches"} \subseteq Range(Fields)
<1>1. Len(Fields) = 26 /\ DOMAIN Fields = 1..26
  BY DEF Fields
<1>2. 23 \in 1..26 /\ 24 \in 1..26
  OBVIOUS
<1>3. Fields[23] = "RequireAllRegexMatches" /\ Fields[24] = "RequireRegexMatches"
  BY DEF Fields
<1> QED
  BY <1>1, <1>2, <1>3 DEF Range

\* Every setting is a field of the struct.
LEMMA SettingsAreFields ==
  ASSUME NEW f, SettingsTyped(f)
  PROVE  NonZeroFields(f) \subseteq Range(Fields)
BY FieldsFacts DEF SettingsTyped, NonZeroFields

\* The next criterion is the first one the step sets, and none is left out.
LEMMA NextField ==
  ASSUME NEW f, NEW p \in 0..Len(Fields)
  PROVE  /\ FieldAfter(f, p) \in (p + 1)..(Len(Fields) + 1)
         /\ FieldAfter(f, p) <= Len(Fields) =>
              Fields[FieldAfter(f, p)] \in NonZeroFields(f)
         /\ \A k \in (p + 1)..(FieldAfter(f, p) - 1) :
              Fields[k] \notin NonZeroFields(f)
<1> DEFINE L == Len(Fields)
           N == NonZeroFields(f)
           First(q) == /\ q <= L => Fields[q] \in N
                       /\ \A k \in (p + 1)..(q - 1) : Fields[k] \notin N
           T == {q \in (p + 1)..(L + 1) : q <= L => Fields[q] \in N}
<1>1. L \in Nat /\ p \in Nat /\ p <= L
  BY FieldsFacts
<1> HIDE DEF L, N
<1>2. T \subseteq Nat /\ L + 1 \in T
  BY <1>1
<1>3. PICK q \in T : \A k \in T : q <= k
  BY <1>2, LeastOf
<1>4. q \in (p + 1)..(L + 1) /\ (q <= L => Fields[q] \in N)
  BY <1>3
<1>5. ASSUME NEW k \in (p + 1)..(q - 1) PROVE Fields[k] \notin N
  <2>1. k < q /\ k \in (p + 1)..(L + 1)
    BY <1>1, <1>4
  <2>2. k \notin T
    BY <1>1, <1>3, <1>4, <2>1
  <2> QED
    BY <2>1, <2>2
<1>6. \E x \in (p + 1)..(L + 1) : First(x)
  BY <1>4, <1>5
<1>7. FieldAfter(f, p) = CHOOSE x \in (p + 1)..(L + 1) : First(x)
  BY DEF FieldAfter, L, N
<1> HIDE DEF First
<1>8. FieldAfter(f, p) \in (p + 1)..(L + 1) /\ First(FieldAfter(f, p))
  BY <1>6, <1>7
<1> QED
  BY <1>8 DEF First, L, N

-----------------------------------------------------------------------------
(* The message a call works on.                                            *)

CommonNames == {"MessageText", "TailCode", "FlightNumber", "StationId", "Label",
                "FrequencyMHz", "FrequencyHz"}

LEMMA CommonFieldsFacts ==
  ASSUME NEW r
  PROVE  /\ DOMAIN CommonFields(r) = CommonNames
         /\ CommonFields(r)["MessageText"] = GoString(r.text)
         /\ CommonFields(r)["TailCode"] = TailCode(r)
         /\ CommonFields(r)["FlightNumber"] = GoString(r.flight)
         /\ CommonFields(r)["StationId"] = GoString(r.station)
         /\ CommonFields(r)["Label"] = GoString(r.label)
         /\ CommonFields(r)["FrequencyMHz"] = GoFloat(r.khz)
         /\ CommonFields(r)["FrequencyHz"] = GoInt(r.khz * 1000)
BY DEF CommonFields, CommonNames

\* Prepare and the annotators: a field of the received message is there when
\* it is selected, an annotation is there, and nothing else.
LEMMA MergedFields ==
  ASSUME NEW r, NEW a \in Annotations, NEW sel, NEW msg,
         msg = MergeAPMessages(Prepare(r, sel), a)
  PROVE  /\ DOMAIN msg \subseteq CommonNames \cup DOMAIN a
         /\ \A name \in CommonNames : name \in DOMAIN msg =>
              msg[name] = CommonFields(r)[name]
         /\ \A name \in CommonNames :
              sel["ACARS"] = {} \/ name \in sel["ACARS"] => name \in DOMAIN msg
         /\ \A name \in DOMAIN a : name \in DOMAIN msg /\ msg[name] = a[name]
<1> DEFINE p == Prepare(r, sel)
<1>1. /\ DOMAIN p \subseteq CommonNames
      /\ \A name \in DOMAIN p : p[name] = CommonFields(r)[name]
      /\ \A name \in CommonNames :
           sel["ACARS"] = {} \/ name \in sel["ACARS"] => name \in DOMAIN p
  <2>1. CASE sel["ACARS"] = {}
    <3>1. p = CommonFields(r)
      BY <2>1 DEF Prepare
    <3> QED
      BY <3>1, CommonFieldsFacts
  <2>2. CASE sel["ACARS"] # {}
    <3>1. p = Restrict(CommonFields(r), sel["ACARS"] \cap DOMAIN CommonFields(r))
      BY <2>2 DEF Prepare
    <3>2. p = [x \in sel["ACARS"] \cap CommonNames |-> CommonFields(r)[x]]
      BY <3>1, CommonFieldsFacts, Zenon DEF Restrict
    <3> QED
      BY <2>2, <3>2, Zenon
  <2> QED
    BY <2>1, <2>2
<1> HIDE DEF p
<1>2. msg = [f \in DOMAIN p \cup DOMAIN a |-> IF f \in DOMAIN a THEN a[f] ELSE p[f]]
  BY DEF MergeAPMessages, p
<1>3. \A name \in CommonNames : name \notin DOMAIN a
  BY BuiltinAssumption DEF CommonNames
<1>4. DOMAIN msg = DOMAIN p \cup DOMAIN a
  BY <1>2
<1>5. \A name \in DOMAIN a : msg[name] = a[name]
  BY <1>2
<1>6. \A name \in DOMAIN p : name \notin DOMAIN a => msg[name] = p[name]
  BY <1>2
<1> QED
  BY <1>1, <1>3, <1>4, <1>5, <1>6

LEMMA Values ==
  ASSUME NEW v
  PROVE  /\ GoString(v).type = "string" /\ GoString(v).v = v
         /\ GoInt(v).type = "int" /\ GoInt(v).v = v
         /\ GoFloat(v).type = "float64" /\ GoFloat(v).v = v
BY DEF GoString, GoInt, GoFloat, Typed

\* What the getters find in it: the fields the connection selects, and what the
\* annotators found out.
LEMMA ReadMessage ==
  ASSUME CallPlace
  PROVE  /\ Selected("MessageText") => AsText(m) = received.text
         /\ Selected("TailCode") => AsTail(m) = TailCode(received).v
         /\ Selected("FlightNumber") =>
              AsString(m, "FlightNumber") = received.flight
         /\ Selected("StationId") => AsString(m, "StationId") = received.station
         /\ Selected("Label") => AsString(m, "Label") = received.label
         /\ KnownDistance("AircraftDistanceMi") =>
              /\ AsFloat64(m, "AircraftDistanceMi") = m["AircraftDistanceMi"].v
              /\ m["AircraftDistanceMi"].v \in Int
         /\ HasNumber => AsInt(m, "LLMProcessedNumber") = m["LLMProcessedNumber"].v
<1>1. PICK a \in Annotations :
        m = MergeAPMessages(Prepare(received, selected), a)
  BY DEF CallPlace
<1>2. /\ DOMAIN m \subseteq CommonNames \cup DOMAIN a
      /\ \A name \in CommonNames : name \in DOMAIN m =>
           m[name] = CommonFields(received)[name]
      /\ \A name \in CommonNames : Selected(name) => name \in DOMAIN m
      /\ \A name \in DOMAIN a : name \in DOMAIN m /\ m[name] = a[name]
  <2>1. PICK msg : msg = MergeAPMessages(Prepare(received, selected), a)
    OBVIOUS
  <2>2. /\ DOMAIN msg \subseteq CommonNames \cup DOMAIN a
        /\ \A name \in CommonNames : name \in DOMAIN msg =>
             msg[name] = CommonFields(received)[name]
        /\ \A name \in CommonNames :
             selected["ACARS"] = {} \/ name \in selected["ACARS"] => name \in DOMAIN msg
        /\ \A name \in DOMAIN a : name \in DOMAIN msg /\ msg[name] = a[name]
    BY <2>1, MergedFields
  <2>3. m = msg
    BY <1>1, <2>1
  <2> QED
    BY <2>2, <2>3 DEF Selected
<1>3. /\ DOMAIN a \subseteq {"AircraftDistanceMi", "LLMProcessedNumber"}
      /\ "AircraftDistanceMi" \in DOMAIN a =>
           a["AircraftDistanceMi"].type = "float64" /\ a["AircraftDistanceMi"].v \in Int
      /\ "LLMProcessedNumber" \in DOMAIN a => a["LLMProcessedNumber"].type = "int"
  BY BuiltinAssumption
<1>4. /\ "AircraftDistanceMi" \in DOMAIN m =>
           m["AircraftDistanceMi"].type = "float64" /\ m["AircraftDistanceMi"].v \in Int
      /\ "LLMProcessedNumber" \in DOMAIN m => m["LLMProcessedNumber"].type = "int"
  BY <1>2, <1>3 DEF CommonNames
<1>5. ASSUME NEW name \in CommonNames, NEW v, NEW type, NEW zero,
             CommonFields(received)[name].type = type,
             CommonFields(received)[name].v = v
      PROVE  Selected(name) => CommonField(m, name, type, zero) = v
  BY <1>2, <1>5 DEF CommonField
<1>6. /\ Selected("MessageText") => AsText(m) = received.text
      /\ Selected("TailCode") => AsTail(m) = TailCode(received).v
      /\ Selected("FlightNumber") => AsString(m, "FlightNumber") = received.flight
      /\ Selected("StationId") => AsString(m, "StationId") = received.station
      /\ Selected("Label") => AsString(m, "Label") = received.label
  <2> DEFINE Is(name, type, v) == /\ name \in CommonNames
                                  /\ CommonFields(received)[name].type = type
                                  /\ CommonFields(received)[name].v = v
  <2>1. /\ Is("MessageText", "string", received.text)
        /\ Is("FlightNumber", "string", received.flight)
        /\ Is("StationId", "string", received.station)
        /\ Is("Label", "string", received.label)
        /\ Is("TailCode", "string", TailCode(received).v)
    <3>1. TailCode(received).type = "string"
      BY Values DEF TailCode
    <3>2. /\ Is("MessageText", "string", received.text)
          /\ Is("FlightNumber", "string", received.flight)
      <4>1. /\ CommonFields(received)["MessageText"] = GoString(received.text)
            /\ CommonFields(received)["FlightNumber"] = GoString(received.flight)
        BY CommonFieldsFacts
      <4> QED
        BY <4>1, Values DEF CommonNames
    <3>3. /\ Is("StationId", "string", received.station)
          /\ Is("Label", "string", received.label)
      <4>1. /\ CommonFields(received)["StationId"] = GoString(received.station)
            /\ CommonFields(received)["Label"] = GoString(received.label)
        BY CommonFieldsFacts
      <4> QED
        BY <4>1, Values DEF CommonNames
    <3>4. Is("TailCode", "string", TailCode(received).v)
      <4>1. CommonFields(received)["TailCode"] = TailCode(received)
        BY CommonFieldsFacts
      <4> QED
        BY <3>1, <4>1 DEF CommonNames
    <3> QED
      BY <3>2, <3>3, <3>4
  <2>2. ASSUME NEW name, NEW type, NEW v, Is(name, type, v), NEW zero
        PROVE  Selected(name) => CommonField(m, name, type, zero) = v
    BY <1>5, <2>2
  <2> HIDE DEF Is
  <2> QED
    BY <2>1, <2>2, Zenon DEF AsText, AsTail, AsString
<1>7. /\ KnownDistance("AircraftDistanceMi") =>
           /\ AsFloat64(m, "AircraftDistanceMi") = m["AircraftDistanceMi"].v
           /\ m["AircraftDistanceMi"].v \in Int
      /\ HasNumber => AsInt(m, "LLMProcessedNumber") = m["LLMProcessedNumber"].v
  BY <1>4 DEF KnownDistance, Has, HasNumber, AsFloat64, AsInt, CommonField
<1> QED
  BY <1>6, <1>7

-----------------------------------------------------------------------------
(* What a criterion decides.                                               *)

\* The loop over a list that is not empty stops with n hits exactly when n of
\* its entries are hits.
LEMMA RequireNIsAtLeast ==
  ASSUME NEW S, NEW l \in Seq(S), l # <<>>, NEW hits, NEW n \in Int
  PROVE  RequireN(l, hits, n) <=> AtLeast(n, l, hits)
<1> DEFINE Hits(i) == {k \in 1..i : l[k] \in hits}
<1>1. Len(l) \in DOMAIN l /\ DOMAIN l = 1..Len(l) /\ Len(l) \in Nat
  OBVIOUS
<1>2. ASSUME NEW i \in DOMAIN l
      PROVE  /\ Cardinality(Hits(i)) \in Nat
             /\ Cardinality(Hits(i)) <= Cardinality(Hits(Len(l)))
  <2>1. IsFiniteSet(1..Len(l))
    BY <1>1, FS_Interval
  <2>2. Hits(Len(l)) \subseteq 1..Len(l) /\ Hits(i) \subseteq Hits(Len(l))
    BY <1>1
  <2>3. IsFiniteSet(Hits(Len(l)))
    BY <2>1, <2>2, FS_Subset
  <2>4. IsFiniteSet(Hits(i)) /\ Cardinality(Hits(i)) <= Cardinality(Hits(Len(l)))
    BY <2>2, <2>3, FS_Subset
  <2> QED
    BY <2>4, FS_CardinalityType
<1>3. AtLeast(n, l, hits) <=> Cardinality(Hits(Len(l))) >= n
  BY <1>1 DEF AtLeast
<1>4. \A i : HitsIn(l, i, hits) = Cardinality(Hits(i))
  BY DEF HitsIn
<1>5. Cardinality(Hits(Len(l))) \in Nat
  BY <1>1, <1>2
<1> HIDE DEF Hits
<1> QED
  BY <1>1, <1>2, <1>3, <1>4, <1>5 DEF RequireN

LEMMA CountIsBoolean ==
  ASSUME NEW n, NEW l, NEW hits
  PROVE  AtLeast(n, l, hits) \in BOOLEAN /\ RequireN(l, hits, n) \in BOOLEAN
BY DEF AtLeast, RequireN

\* One hit is enough for a freetext term to be present.
LEMMA FreetextIsPresent ==
  ASSUME NEW t
  PROVE  FreetextTermPresent(t) <=> HasFreetext(t)
<1> DEFINE Hits == {i \in DOMAIN FreetextTerms : FreetextTerms[i] \in t.terms}
<1>1. FreetextTerms \in Seq(Range(FreetextTerms))
  BY BuiltinAssumption
<1>2. Hits # {} <=> Range(FreetextTerms) \cap t.terms # {}
  BY DEF Range
<1>3. AtLeast(1, FreetextTerms, t.terms) <=> Hits # {}
  <2>1. DOMAIN FreetextTerms = 1..Len(FreetextTerms) /\ Len(FreetextTerms) \in Nat
    BY <1>1
  <2>2. IsFiniteSet(DOMAIN FreetextTerms)
    BY <2>1, FS_Interval
  <2>3. IsFiniteSet(Hits)
    BY <2>2, FS_Subset
  <2>4. Cardinality(Hits) \in Nat /\ (Cardinality(Hits) = 0 <=> Hits = {})
    BY <2>3, FS_CardinalityType, FS_EmptySet
  <2>5. AtLeast(1, FreetextTerms, t.terms) <=> Cardinality(Hits) >= 1
    BY DEF AtLeast
  <2> HIDE DEF Hits
  <2> QED
    BY <2>4, <2>5
<1>4. RequireN(FreetextTerms, t.terms, 1) <=> Hits # {}
  <2>1. CASE FreetextTerms = <<>>
    BY <1>2, <2>1 DEF RequireN, Range
  <2>2. CASE FreetextTerms # <<>>
    BY <1>1, <1>3, <2>2, RequireNIsAtLeast
  <2> QED
    BY <2>1, <2>2
<1> HIDE DEF Hits
<1> QED
  BY <1>2, <1>4 DEF FreetextTermPresent, HasFreetext

\* A criterion on the text filters exactly what does not meet it.
LEMMA TextMeets ==
  ASSUME CallPlace, NEW f, SettingsTyped(f), f.terms \in Seq(Pattern),
         NEW c \in OfText \cap NonZeroFields(f), AsDocumented(f, c)
  PROVE  /\ TextFilters(f, c) <=> ~Meets(f, c)
         /\ TextFilters(f, c) \in BOOLEAN /\ Meets(f, c) \in BOOLEAN
<1> DEFINE t == received.text
<1>1. AsText(m) = t
  <2>1. Selected(Reads(c))
    BY DEF AsDocumented
  <2>2. Reads(c) = "MessageText"
    BY DEF Reads, OfText
  <2> QED
    BY <2>1, <2>2, ReadMessage
<1>2. t.blank \in BOOLEAN
  BY BuiltinAssumption DEF CallPlace
<1>3. CASE c = "HasText"
  <2>1. TextFilters(f, c) = t.blank /\ Meets(f, c) = ~t.blank
    BY <1>1, <1>3 DEF TextFilters, Meets
  <2> QED
    BY <1>2, <2>1
<1>4. CASE c = "FreetextTermPresent"
  <2>1. /\ TextFilters(f, c) = (f.set[c] # FreetextTermPresent(t))
        /\ Meets(f, c) = (f.set[c] = HasFreetext(t))
    BY <1>1, <1>4 DEF TextFilters, Meets
  <2>2. FreetextTermPresent(t) = HasFreetext(t)
    BY FreetextIsPresent DEF FreetextTermPresent, HasFreetext
  <2> QED
    BY <2>1, <2>2
<1>5. CASE c = "RequireAllTerms"
  <2>1. /\ TextFilters(f, c) = ~RequireAll(f.set[c], t.terms)
        /\ Meets(f, c) = (Range(f.set[c]) \subseteq t.terms)
    BY <1>1, <1>5 DEF TextFilters, Meets
  <2>2. RequireAll(f.set[c], t.terms) <=> Range(f.set[c]) \subseteq t.terms
    BY DEF RequireAll, Range
  <2> QED
    BY <2>1, <2>2
<1>6. CASE c = "RequireTerms"
  <2> DEFINE required == f.set["RequireTerms"]
  <2>1. /\ TextFilters(f, c) = ~RequireN(required.terms, t.terms, required.count)
        /\ Meets(f, c) = AtLeast(required.count, required.terms, t.terms)
    BY <1>1, <1>6 DEF TextFilters, Meets
  <2>2. "RequireTerms" \in DOMAIN f.set
    BY <1>6 DEF NonZeroFields
  <2>3. required.terms \in Seq(Range(required.terms)) /\ required.count \in Int
    BY <2>2 DEF SettingsTyped
  <2>4. required.terms # <<>>
    BY <1>6 DEF AsDocumented
  <2>5. RequireN(required.terms, t.terms, required.count)
          <=> AtLeast(required.count, required.terms, t.terms)
    BY <2>3, <2>4, RequireNIsAtLeast
  <2> QED
    BY <2>1, <2>5, CountIsBoolean
<1>7. CASE c = "RequireAllRegexMatches"
  <2>1. /\ TextFilters(f, c) = ~RequireAll(f.allTerms, t.hits)
        /\ Meets(f, c) = (Range(f.allTerms) \subseteq t.hits)
    BY <1>1, <1>7 DEF TextFilters, Meets
  <2>2. RequireAll(f.allTerms, t.hits) <=> Range(f.allTerms) \subseteq t.hits
    BY DEF RequireAll, Range
  <2> QED
    BY <2>1, <2>2
<1>8. CASE c = "RequireRegexMatches"
  <2>1. /\ TextFilters(f, c) = ~RequireN(f.terms, t.hits, f.count)
        /\ Meets(f, c) = AtLeast(f.count, f.terms, t.hits)
    BY <1>1, <1>8 DEF TextFilters, Meets
  <2>2. f.terms # <<>> /\ f.count \in Int
    BY <1>8 DEF AsDocumented, SettingsTyped
  <2>3. RequireN(f.terms, t.hits, f.count) <=> AtLeast(f.count, f.terms, t.hits)
    BY <2>2, RequireNIsAtLeast
  <2> QED
    BY <2>1, <2>3, CountIsBoolean
<1> QED
  BY <1>3, <1>4, <1>5, <1>6, <1>7, <1>8 DEF OfText

\* So does one on where the message is from.
LEMMA OriginMeets ==
  ASSUME CallPlace, NEW f, SettingsTyped(f),
         NEW c \in (OfOrigin \cap NonZeroFields(f)) \ {"ASSStatus", "More"}
  PROVE  /\ OriginFilters(f, c) \in BOOLEAN
         /\ AsDocumented(f, c) =>
              (OriginFilters(f, c) <=> ~Meets(f, c)) /\ Meets(f, c) \in BOOLEAN
<1>1. c \in DOMAIN f.set
  BY DEF NonZeroFields, OfOrigin
<1>2. AsDocumented(f, c) => Selected(Reads(c))
  BY DEF AsDocumented
<1>3. CASE c = "TailCode"
  <2>1. /\ OriginFilters(f, c) = (f.set[c] # AsTail(m))
        /\ Meets(f, c) = (f.set[c] = [dots |-> 0, code |-> received.tail.code])
    BY <1>3 DEF OriginFilters, Meets
  <2>2. AsDocumented(f, c) =>
          TailCode(received).v = [dots |-> 0, code |-> received.tail.code]
    BY <1>3, Values DEF AsDocumented, TailCode
  <2>3. AsDocumented(f, c) => AsTail(m) = TailCode(received).v
    BY <1>2, <1>3, ReadMessage DEF Reads, OfText
  <2> QED
    BY <1>3, <2>1, <2>2, <2>3
<1>4. CASE c = "FlightNumber"
  <2>1. /\ OriginFilters(f, c) = (f.set[c] # AsString(m, "FlightNumber"))
        /\ Meets(f, c) = (received.flight = f.set[c])
    BY <1>4 DEF OriginFilters, Meets
  <2>2. AsDocumented(f, c) => AsString(m, "FlightNumber") = received.flight
    BY <1>2, <1>4, ReadMessage DEF Reads, OfText
  <2> QED
    BY <1>4, <2>1, <2>2
<1>5. CASE c = "StationID"
  <2>1. /\ OriginFilters(f, c) = (f.set[c] # AsString(m, "StationId"))
        /\ Meets(f, c) = (received.station = f.set[c])
    BY <1>5 DEF OriginFilters, Meets
  <2>2. AsDocumented(f, c) => AsString(m, "StationId") = received.station
    BY <1>2, <1>5, ReadMessage DEF Reads, OfText
  <2> QED
    BY <1>5, <2>1, <2>2
<1>6. CASE c = "Labels"
  <2>1. /\ OriginFilters(f, c) = ~(AsString(m, "Label") \in f.set[c])
        /\ Meets(f, c) = (received.label \in f.set[c])
    BY <1>6 DEF OriginFilters, Meets
  <2>2. AsDocumented(f, c) => AsString(m, "Label") = received.label
    BY <1>2, <1>6, ReadMessage DEF Reads, OfText
  <2> DEFINE Met == received.label \in f.set[c]
             Read == AsString(m, "Label") \in f.set[c]
  <2>3. Met \in BOOLEAN /\ Read \in BOOLEAN /\ (AsDocumented(f, c) => (Met <=> Read))
    BY <2>2
  <2>4. OriginFilters(f, c) = ~Read /\ Meets(f, c) = Met
    BY <2>1
  <2> HIDE DEF Met, Read
  <2> QED
    BY <1>6, <2>3, <2>4
<1>7. CASE c = "FromTower"
  <2>1. /\ OriginFilters(f, c) = (f.set[c] # Blank(AsString(m, "FlightNumber")))
        /\ Meets(f, c) = (f.set[c] = Blank(received.flight))
    BY <1>7 DEF OriginFilters, Meets
  <2>2. AsDocumented(f, c) => AsString(m, "FlightNumber") = received.flight
    BY <1>2, <1>7, ReadMessage DEF Reads, OfText
  <2> QED
    BY <1>7, <2>1, <2>2
<1>8. CASE c = "FromAircraft"
  <2>1. /\ OriginFilters(f, c) = (f.set[c] # ~Blank(AsString(m, "FlightNumber")))
        /\ Meets(f, c) = (f.set[c] # Blank(received.flight))
    BY <1>8 DEF OriginFilters, Meets
  <2>2. AsDocumented(f, c) => AsString(m, "FlightNumber") = received.flight
    BY <1>2, <1>8, ReadMessage DEF Reads, OfText
  <2>3. f.set[c] \in BOOLEAN
    BY <1>1, <1>8 DEF SettingsTyped
  <2>4. \A s : Blank(s) \in BOOLEAN
    BY DEF Blank
  <2> QED
    BY <1>8, <2>1, <2>2, <2>3, <2>4
<1> QED
  BY <1>3, <1>4, <1>5, <1>6, <1>7, <1>8 DEF OfOrigin

\* So does one on the number a model gave.
LEMMA NumberMeets ==
  ASSUME CallPlace, NEW f, NEW c \in OfNumber \ {"Frequency"}
  PROVE  /\ NumberFilters(f, c) \in BOOLEAN
         /\ AsDocumented(f, c) =>
              (NumberFilters(f, c) <=> ~Meets(f, c)) /\ Meets(f, c) \in BOOLEAN
<1> DEFINE number == AsInt(m, "LLMProcessedNumber")
<1>1. AsDocumented(f, c) => number = m["LLMProcessedNumber"].v
  BY ReadMessage DEF AsDocumented, OfNumber
<1>2. CASE c = "LLMProcessedNumberAbove"
  <2> DEFINE Met(n) == n > f.set[c]
  <2>1. /\ NumberFilters(f, c) = ~Met(number)
        /\ Meets(f, c) = Met(m["LLMProcessedNumber"].v)
    BY <1>2 DEF NumberFilters, Meets
  <2>2. \A n : Met(n) \in BOOLEAN
    OBVIOUS
  <2> HIDE DEF Met, number
  <2> QED
    BY <1>1, <1>2, <2>1, <2>2
<1>3. CASE c = "LLMProcessedNumberBelow"
  <2> DEFINE Met(n) == n < f.set[c]
  <2>1. /\ NumberFilters(f, c) = ~Met(number)
        /\ Meets(f, c) = Met(m["LLMProcessedNumber"].v)
    BY <1>3 DEF NumberFilters, Meets
  <2>2. \A n : Met(n) \in BOOLEAN
    OBVIOUS
  <2> HIDE DEF Met, number
  <2> QED
    BY <1>1, <1>3, <2>1, <2>2
<1> QED
  BY <1>2, <1>3 DEF OfNumber

\* So does one on a distance in miles that is known and not the limit itself.
LEMMA DistanceMeets ==
  ASSUME CallPlace, NEW f, SettingsTyped(f),
         NEW c \in {"AboveDistanceMi", "BelowDistanceMi"} \cap NonZeroFields(f),
         AsDocumented(f, c)
  PROVE  /\ DistanceFilters(f, c) \in BOOLEAN /\ Meets(f, c) \in BOOLEAN
         /\ DistanceFilters(f, c) <=> ~Meets(f, c)
<1> DEFINE miles == m["AircraftDistanceMi"].v
<1>1. /\ DistanceOf(c) = miles /\ miles # 0 /\ miles \in Int
      /\ miles # f.set[c]
  BY ReadMessage DEF AsDocumented, DistanceOf, KnownDistance
<1>2. f.set[c] \in Int
  BY DEF SettingsTyped, NonZeroFields
<1> DEFINE limit == f.set[c]
<1>3. DistanceFilters(f, c) <=> ~Inside(f, c, miles)
  BY <1>1 DEF DistanceFilters
<1>4. CASE c = "AboveDistanceMi"
  <2>1. Inside(f, c, miles) = (miles >= limit) /\ Meets(f, c) = (miles > limit)
    BY <1>4 DEF Inside, Meets
  <2> HIDE DEF miles, limit
  <2>2. (miles >= limit) <=> (miles > limit)
    BY <1>1, <1>2 DEF limit
  <2> QED
    BY <1>3, <2>1, <2>2 DEF DistanceFilters
<1>5. CASE c = "BelowDistanceMi"
  <2>1. Inside(f, c, miles) = (miles <= limit) /\ Meets(f, c) = (miles < limit)
    BY <1>5 DEF Inside, Meets
  <2> HIDE DEF miles, limit
  <2>2. (miles <= limit) <=> (miles < limit)
    BY <1>1, <1>2 DEF limit
  <2> QED
    BY <1>3, <2>1, <2>2 DEF DistanceFilters
<1> QED
  BY <1>4, <1>5

\* A documented criterion has one result: the message does not meet it.
LEMMA ResultsSayMeets ==
  ASSUME CallPlace, NEW f, SettingsTyped(f), f.terms \in Seq(Pattern),
         NEW c \in Documented \cap NonZeroFields(f), AsDocumented(f, c)
  PROVE  Meets(f, c) \in BOOLEAN /\ Results(f, c) = {~Meets(f, c)}
<1>1. CASE c \in OfText
  <2>1. (TextFilters(f, c) <=> ~Meets(f, c))
        /\ TextFilters(f, c) \in BOOLEAN /\ Meets(f, c) \in BOOLEAN
    BY <1>1, TextMeets
  <2>2. TextFilters(f, c) = ~Meets(f, c)
    BY <2>1
  <2> QED
    BY <1>1, <2>1, <2>2 DEF Results
<1>2. CASE c \in OfOrigin
  <2>1. c \notin OfText /\ c \notin {"ASSStatus", "More"}
    BY <1>2 DEF OfOrigin, OfText, Documented
  <2>2. (OriginFilters(f, c) <=> ~Meets(f, c))
        /\ OriginFilters(f, c) \in BOOLEAN /\ Meets(f, c) \in BOOLEAN
    BY <1>2, <2>1, OriginMeets
  <2>3. OriginFilters(f, c) = ~Meets(f, c)
    BY <2>2
  <2> QED
    BY <1>2, <2>1, <2>2, <2>3 DEF Results
<1>3. CASE c \in OfNumber
  <2>1. c \notin OfText \cup OfOrigin /\ c # "Frequency"
    BY <1>3 DEF OfNumber, OfOrigin, OfText, Documented
  <2>2. (NumberFilters(f, c) <=> ~Meets(f, c))
        /\ NumberFilters(f, c) \in BOOLEAN /\ Meets(f, c) \in BOOLEAN
    BY <1>3, <2>1, NumberMeets
  <2>3. NumberFilters(f, c) = ~Meets(f, c)
    BY <2>2
  <2> QED
    BY <1>3, <2>1, <2>2, <2>3 DEF Results
<1>4. CASE c \in OfDistance
  <2>1. /\ c \notin OfText \cup OfOrigin \cup OfNumber
        /\ c \in {"AboveDistanceMi", "BelowDistanceMi"}
    BY <1>4 DEF OfDistance, OfNumber, OfOrigin, OfText, Documented
  <2>2. (DistanceFilters(f, c) <=> ~Meets(f, c))
        /\ DistanceFilters(f, c) \in BOOLEAN /\ Meets(f, c) \in BOOLEAN
    BY <1>4, <2>1, DistanceMeets
  <2>3. DistanceFilters(f, c) = ~Meets(f, c)
    BY <2>2
  <2> QED
    BY <1>4, <2>1, <2>2, <2>3 DEF Results
<1> QED
  BY <1>1, <1>2, <1>3, <1>4 DEF Documented

-----------------------------------------------------------------------------
(* The decision of the call.                                               *)

\* While the message and the step stay the same, so does what their criteria
\* decide.
LEMMA DecisionsStay ==
  ASSUME UNCHANGED <<config, stepNumber, m>>
  PROVE  /\ Filter' = Filter
         /\ NonZeroFields(Filter)' = NonZeroFields(Filter)
         /\ \A c : MayFilter(c)' = MayFilter(c)
         /\ \A c : MustFilter(c)' = MustFilter(c)
<1>1. Filter' = Filter
  BY DEF Filter
<1>2. NonZeroFields(Filter)' = NonZeroFields(Filter)
  BY <1>1 DEF NonZeroFields
<1>3. /\ AsText(m)' = AsText(m) /\ AsTail(m)' = AsTail(m)
      /\ \A n : AsString(m, n)' = AsString(m, n)
      /\ \A n : AsInt(m, n)' = AsInt(m, n)
      /\ \A n : AsFloat64(m, n)' = AsFloat64(m, n)
      /\ \A n : AsBoolean(m, n)' = AsBoolean(m, n)
  BY Zenon DEF AsText, AsTail, AsString, AsInt, AsFloat64, AsBoolean, CommonField
<1>4. ASSUME NEW c PROVE Results(Filter, c)' = Results(Filter, c)
  <2>1. TextFilters(Filter, c)' = TextFilters(Filter, c)
    BY <1>1, <1>3 DEF TextFilters
  <2>2. OriginFilters(Filter, c)' = OriginFilters(Filter, c)
    BY <1>1, <1>3 DEF OriginFilters
  <2>3. NumberFilters(Filter, c)' = NumberFilters(Filter, c)
    BY <1>1, <1>3 DEF NumberFilters, FrequencyFilters
  <2>4. DistanceFilters(Filter, c)' = DistanceFilters(Filter, c)
    BY <1>1, <1>3 DEF DistanceFilters, DistanceOf, Inside
  <2> QED
    BY <1>1, <2>1, <2>2, <2>3, <2>4 DEF Results
<1>5. ASSUME NEW c PROVE MayFilter(c)' = MayFilter(c) /\ MustFilter(c)' = MustFilter(c)
  BY <1>1, <1>4 DEF MayFilter, MustFilter
<1> QED
  BY <1>1, <1>2, <1>5

\* Proceed: the criterion at the place of the call has been passed, and no other.
LEMMA OneMorePassed ==
  ASSUME CallPlace, Proceed, field <= Len(Fields),
         UNCHANGED <<config, stepNumber, received, m, selected>>, call' = "criteria"
  PROVE  CallPlace' /\ Passed' = Passed \cup {Fields[field]}
<1> DEFINE N == NonZeroFields(Filter)
<1>1. N' = N /\ Filter' = Filter
  BY DecisionsStay
<1>2. field \in 1..Len(Fields) /\ Len(Fields) \in Nat /\ Fields[field] \in N
  BY FieldsFacts DEF CallPlace
<1>3. field' = FieldAfter(Filter, field)
  BY DEF Proceed
<1>4. /\ field' \in (field + 1)..(Len(Fields) + 1)
      /\ field' <= Len(Fields) => Fields[field'] \in N
      /\ \A k \in (field + 1)..(field' - 1) : Fields[k] \notin N
  BY <1>2, <1>3, NextField
<1>5. CallPlace'
  <2>1. field' \in 1..(Len(Fields) + 1)
    BY <1>2, <1>4
  <2>2. received \in Messages
        /\ \E a \in Annotations : m = MergeAPMessages(Prepare(received, selected), a)
    BY DEF CallPlace
  <2>3. \E a \in Annotations : m' = MergeAPMessages(Prepare(received', selected'), a)
    BY <2>2
  <2> QED
    BY <1>1, <1>4, <2>1, <2>2, <2>3, Zenon DEF CallPlace
<1>6. Passed' = Passed \cup {Fields[field]}
  <2>1. 1..(field' - 1) = (1..(field - 1)) \cup {field} \cup ((field + 1)..(field' - 1))
    BY <1>2, <1>4
  <2>2. {Fields[q] : q \in 1..(field' - 1)} \cap N =
          ({Fields[q] : q \in 1..(field - 1)} \cap N) \cup {Fields[field]}
    <3>1. ASSUME NEW q \in 1..(field' - 1), Fields[q] \in N
          PROVE  q \in 1..(field - 1) \/ q = field
      BY <1>4, <2>1, <3>1
    <3>2. 1..(field - 1) \subseteq 1..(field' - 1) /\ field \in 1..(field' - 1)
      BY <2>1
    <3> QED
      BY <1>2, <3>1, <3>2
  <2> QED
    BY <1>1, <2>2 DEF Passed
<1> QED
  BY <1>5, <1>6

\* One more decision: a result that the criterion may have, joined with the
\* ones before.
LEMMA OneMoreDecided ==
  ASSUME CallPlace, CallDecided, Proceed, field <= Len(Fields),
         UNCHANGED <<config, stepNumber, received, m, selected>>, call' = "criteria",
         NEW c, c = Fields[field], NEW decision,
         filterThisMessage' <=> filterThisMessage \/ decision,
         decision => MayFilter(c), MustFilter(c) => decision,
         errs' <=> errs \/ c \in Unknown
  PROVE  CallPlace' /\ CallDecided'
<1>1. CallPlace' /\ Passed' = Passed \cup {c}
  BY OneMorePassed
<1>2. \A d : MayFilter(d)' = MayFilter(d) /\ MustFilter(d)' = MustFilter(d)
  BY DecisionsStay
<1>3. errs' <=> Passed' \cap Unknown # {}
  BY <1>1 DEF CallDecided
<1>4. filterThisMessage' => \E d \in Passed' : MayFilter(d)'
  BY <1>1, <1>2 DEF CallDecided
<1>5. (\E d \in Passed' : MustFilter(d)') => filterThisMessage'
  BY <1>1, <1>2 DEF CallDecided
<1> QED
  BY <1>1, <1>3, <1>4, <1>5 DEF CallDecided

LEMMA StepTyped ==
  ASSUME CacheTypeOK, stepNumber \in DOMAIN config
  PROVE  /\ SettingsTyped(Filter) /\ Filter.terms \in Seq(Pattern)
         /\ Filter = config[stepNumber]
BY ConfigTypes, BuiltinAssumption DEF CacheTypeOK, Filter

\* A call starts at the first criterion the step sets, with nothing decided.
LEMMA BeginDecided ==
  ASSUME NEW s \in DOMAIN config, NEW r \in Messages, NEW a \in Annotations,
         Begin(s, r, a)
  PROVE  CallPlace' /\ CallDecided'
<1>1. /\ stepNumber' = s /\ received' = r /\ call' = "criteria"
      /\ m' = MergeAPMessages(Prepare(r, selected), a)
      /\ field' = FieldAfter(config[s], 0)
      /\ filterThisMessage' = FALSE /\ errs' = FALSE
      /\ config' = config /\ selected' = selected
  BY DEF Begin, cacheVars
<1>2. Filter' = config[s] /\ NonZeroFields(Filter)' = NonZeroFields(config[s])
  BY <1>1 DEF Filter, NonZeroFields
<1>3. /\ field' \in 1..(Len(Fields) + 1)
      /\ field' <= Len(Fields) => Fields[field'] \in NonZeroFields(config[s])
      /\ \A k \in 1..(field' - 1) : Fields[k] \notin NonZeroFields(config[s])
  BY <1>1, FieldsFacts, NextField
<1>4. CallPlace'
  <2>1. \E b \in Annotations : m' = MergeAPMessages(Prepare(received', selected'), b)
    BY <1>1
  <2> QED
    BY <1>1, <1>2, <1>3, <2>1, Zenon DEF CallPlace
<1>5. Passed' = {}
  BY <1>2, <1>3 DEF Passed
<1> QED
  BY <1>1, <1>4, <1>5 DEF CallDecided

LEMMA CriteriaStep ==
  CacheIInv /\ CallIInv /\ CriteriaIInv /\ [BuiltinNext]_builtinVars => CriteriaIInv'
<1> SUFFICES ASSUME CacheIInv, CallIInv, CriteriaIInv, [BuiltinNext]_builtinVars
             PROVE  CriteriaIInv'
  OBVIOUS
<1>1. CASE Load
  <2>1. call = "none" /\ call' = "none" /\ UNCHANGED callVars
    BY <1>1 DEF Load, LoadConfig, Compile, SkipRest, Continue, EndList, Loaded,
                AtTerm, InList, callVars, CallIInv
  <2> QED
    BY <2>1 DEF CriteriaIInv, callVars
<1>2. ASSUME NEW s \in DOMAIN config, NEW r \in Messages, NEW a \in Annotations,
             Begin(s, r, a)
      PROVE  CriteriaIInv'
  <2>1. call' = "criteria" /\ filterThisMessage' = FALSE /\ errs' = FALSE
    BY <1>2 DEF Begin
  <2> QED
    BY <1>2, <2>1, BeginDecided DEF CriteriaIInv
<1>3. ASSUME NEW c \in Range(Fields), TryUnknown(c)
      PROVE  CriteriaIInv'
  <2>1. /\ c \in Unknown /\ call = "criteria" /\ field <= Len(Fields) /\ c = Fields[field]
        /\ errs' = TRUE /\ filterThisMessage' = (filterThisMessage \/ Filter.onFailure)
        /\ Proceed /\ call' = "criteria"
        /\ UNCHANGED <<config, stepNumber, received, m, selected>>
    BY <1>3 DEF TryUnknown, AtField, cacheVars
  <2>2. /\ MayFilter(c) <=> Filter.onFailure
        /\ MustFilter(c) <=> Filter.onFailure
    BY <2>1 DEF MayFilter, MustFilter
  <2>3. CallPlace /\ CallDecided
    BY <2>1 DEF CriteriaIInv
  <2>4. PICK decision : decision = Filter.onFailure
    OBVIOUS
  <2>5. CallPlace' /\ CallDecided'
    BY <2>1, <2>2, <2>3, <2>4, OneMoreDecided
  <2>6. filterThisMessage' \in BOOLEAN /\ errs' \in BOOLEAN
    BY <2>1
  <2> QED
    BY <2>1, <2>5, <2>6 DEF CriteriaIInv
<1>4. ASSUME NEW c \in Range(Fields), Evaluate(c)
      PROVE  CriteriaIInv'
  <2>1. PICK result \in Results(Filter, c) : Join(result)
    BY <1>4 DEF Evaluate
  <2>2. /\ c \notin Unknown /\ c # "DictionaryPhraseLengthMinimum"
        /\ call = "criteria" /\ field <= Len(Fields) /\ c = Fields[field]
        /\ errs' = errs /\ Proceed /\ call' = "criteria"
        /\ UNCHANGED <<config, stepNumber, received, m, selected>>
    BY <1>4 DEF Evaluate, AtField, cacheVars
  <2> DEFINE decision == result # Filter.invert
  <2>3. filterThisMessage' = (filterThisMessage \/ decision)
    BY <2>1 DEF Join
  <2>4. (decision => MayFilter(c)) /\ (MustFilter(c) => decision)
    BY <2>1, <2>2 DEF MayFilter, MustFilter
  <2>5. CallPlace /\ CallDecided
    BY <2>2 DEF CriteriaIInv
  <2> HIDE DEF decision
  <2>6. CallPlace' /\ CallDecided'
    BY <2>2, <2>3, <2>4, <2>5, OneMoreDecided
  <2>7. filterThisMessage' \in BOOLEAN /\ errs' \in BOOLEAN
    BY <2>2, <2>3 DEF CriteriaIInv
  <2> QED
    BY <2>2, <2>6, <2>7 DEF CriteriaIInv
<1>5. CASE EndPhrase
  <2> DEFINE c == "DictionaryPhraseLengthMinimum"
             decision == PhraseFilters(Filter.set[c]) # Filter.invert
  <2>1. /\ call = "phrase" /\ errs' = errs /\ Proceed /\ call' = "criteria"
        /\ filterThisMessage' = (filterThisMessage \/ decision)
        /\ UNCHANGED <<config, stepNumber, received, m, selected>>
    BY <1>5 DEF EndPhrase, Join, cacheVars
  <2>2. CallPlace /\ CallDecided /\ field <= Len(Fields) /\ c = Fields[field]
    BY <2>1 DEF CriteriaIInv, CallPlace
  <2>3. c \notin Unknown
    BY DEF Unknown
  <2>4. MayFilter(c) /\ ~MustFilter(c)
    BY <2>3 DEF MayFilter, MustFilter
  <2> HIDE DEF decision, c
  <2>5. CallPlace' /\ CallDecided'
    BY <2>1, <2>2, <2>3, <2>4, OneMoreDecided
  <2>6. filterThisMessage' \in BOOLEAN /\ errs' \in BOOLEAN
    BY <2>1 DEF CriteriaIInv
  <2> QED
    BY <2>1, <2>5, <2>6 DEF CriteriaIInv
<1>6. CASE StartPhrase \/ NextWord \/ Return \/ UNCHANGED builtinVars
  <2>1. /\ UNCHANGED <<config, stepNumber, received, m, selected, field,
                       filterThisMessage, errs>>
        /\ \/ /\ call = "criteria" /\ call' = "phrase" /\ field <= Len(Fields)
              /\ Fields[field] = "DictionaryPhraseLengthMinimum"
           \/ call = "criteria" /\ call' = "done" /\ field > Len(Fields)
           \/ call' = call
    BY <1>6 DEF StartPhrase, NextWord, Return, AtField, builtinVars, cacheVars, callVars
  <2>2. /\ Filter' = Filter /\ NonZeroFields(Filter)' = NonZeroFields(Filter)
        /\ \A c : MayFilter(c)' = MayFilter(c) /\ MustFilter(c)' = MustFilter(c)
    BY <2>1, DecisionsStay
  <2>3. Passed' = Passed
    BY <2>1, <2>2 DEF Passed
  <2>4. CallDecided => CallDecided'
    BY <2>1, <2>2, <2>3, Zenon DEF CallDecided
  <2>5. (\E a \in Annotations : m = MergeAPMessages(Prepare(received, selected), a))
          => \E a \in Annotations : m' = MergeAPMessages(Prepare(received', selected'), a)
    BY <2>1
  <2>6. call' \in {"criteria", "phrase", "done"} /\ CallPlace => CallPlace'
    <3> SUFFICES ASSUME call' \in {"criteria", "phrase", "done"}, CallPlace
                 PROVE  CallPlace'
      OBVIOUS
    <3>1. /\ call' = "phrase" => /\ field <= Len(Fields)
                                 /\ Fields[field] = "DictionaryPhraseLengthMinimum"
          /\ call' = "done" => field > Len(Fields)
      BY <2>1 DEF CallPlace
    <3> QED
      BY <2>1, <2>2, <2>5, <3>1, Zenon DEF CallPlace
  <2> QED
    BY <2>1, <2>4, <2>6 DEF CriteriaIInv
<1>7. CASE Leave \/ \E c \in Range(Fields) : FatalLookup(c)
  BY <1>7 DEF Leave, FatalLookup, AtField, CriteriaIInv
<1> QED
  BY <1>1, <1>2, <1>3, <1>4, <1>5, <1>6, <1>7 DEF BuiltinNext, Progress

\* What a call has decided follows from the criteria it has passed.
THEOREM CriteriaInvariance == BuiltinSpec => [](CacheIInv /\ CallIInv /\ CriteriaIInv)
<1>1. BuiltinInit => CallIInv /\ CriteriaIInv
  BY DEF BuiltinInit, CallIInv, CriteriaIInv
<1>2. CallIInv /\ [BuiltinNext]_builtinVars => CallIInv'
  BY CallStep
<1> QED
  BY <1>1, <1>2, CacheInvariance, CriteriaStep, PTL DEF BuiltinSpec

-----------------------------------------------------------------------------
(* What a filter says.                                                     *)

\* A call that is done has decided every criterion the step sets, once.
LEMMA DoneDecided ==
  ASSUME CacheIInv, CallIInv, CriteriaIInv, Done
  PROVE  /\ CallPlace /\ CacheTypeOK /\ stepNumber \in DOMAIN config
         /\ Passed = NonZeroFields(Filter)
         /\ errs <=> NonZeroFields(Filter) \cap Unknown # {}
         /\ filterThisMessage => \E c \in NonZeroFields(Filter) : MayFilter(c)
         /\ (\E c \in NonZeroFields(Filter) : MustFilter(c)) => filterThisMessage
<1>1. /\ CallPlace /\ CallDecided /\ field > Len(Fields)
      /\ CacheTypeOK /\ stepNumber \in DOMAIN config
  BY DEF Done, CriteriaIInv, CallPlace, CallIInv, CacheIInv
<1>2. NonZeroFields(Filter) \subseteq Range(Fields)
  BY <1>1, StepTyped, SettingsAreFields
<1>3. 1..(field - 1) = DOMAIN Fields
  BY <1>1, FieldsFacts DEF CallPlace
<1>4. {Fields[q] : q \in 1..(field - 1)} = Range(Fields)
  BY <1>3 DEF Range
<1>5. Passed = NonZeroFields(Filter)
  BY <1>2, <1>4 DEF Passed
<1> QED
  BY <1>1, <1>5 DEF CallDecided

\* A message is filtered exactly when it misses one of the criteria, or meets
\* one of them if the filter is inverted (Filter of filter_builtin.go).
THEOREM BuiltinMeansWhatItSays == BuiltinSpec => []FilterMeansWhatItSays
<1>1. ASSUME CacheIInv, CallIInv, CriteriaIInv, Done,
             \A c \in NonZeroFields(Filter) : c \in Documented /\ AsDocumented(Filter, c)
      PROVE  filterThisMessage <=>
               \E c \in NonZeroFields(Filter) : Meets(Filter, c) = Filter.invert
  <2>1. CallPlace /\ SettingsTyped(Filter) /\ Filter.terms \in Seq(Pattern)
    BY <1>1, DoneDecided, StepTyped
  <2>2. Filter.invert \in BOOLEAN
    BY <2>1 DEF SettingsTyped
  <2>3. ASSUME NEW c \in NonZeroFields(Filter)
        PROVE  /\ MayFilter(c) <=> Meets(Filter, c) = Filter.invert
               /\ MustFilter(c) <=> Meets(Filter, c) = Filter.invert
    <3>1. c \notin Unknown /\ c # "DictionaryPhraseLengthMinimum"
      <4>1. c \in Documented
        BY <1>1
      <4> QED
        BY <4>1 DEF Documented, Unknown, OfText, OfOrigin, OfNumber, OfDistance
    <3>2. Meets(Filter, c) \in BOOLEAN /\ Results(Filter, c) = {~Meets(Filter, c)}
      BY <1>1, <2>1, ResultsSayMeets
    <3>3. (~Meets(Filter, c)) # Filter.invert <=> Meets(Filter, c) = Filter.invert
      BY <2>2, <3>2
    <3> QED
      BY <3>1, <3>2, <3>3 DEF MayFilter, MustFilter
  <2> QED
    BY <1>1, <2>3, DoneDecided
<1>2. CacheIInv /\ CallIInv /\ CriteriaIInv => FilterMeansWhatItSays
  BY <1>1 DEF FilterMeansWhatItSays
<1> QED
  BY <1>2, CriteriaInvariance, PTL

\* A criterion without a function is an error of the call, and FilterOnFailure
\* filters the message then (the lookup in BuiltinFilterFunctions).
THEOREM BuiltinUnknownFollowsFailure == BuiltinSpec => []UnknownFollowsFailure
<1>1. ASSUME CacheIInv, CallIInv, CriteriaIInv, Done,
             NonZeroFields(Filter) \cap Unknown # {}
      PROVE  /\ errs
             /\ Filter.onFailure => filterThisMessage
  <2>1. \A c \in Unknown : MustFilter(c) <=> Filter.onFailure
    BY DEF MustFilter
  <2> QED
    BY <1>1, <2>1, DoneDecided
<1>2. CacheIInv /\ CallIInv /\ CriteriaIInv => UnknownFollowsFailure
  BY <1>1 DEF UnknownFollowsFailure
<1> QED
  BY <1>2, CriteriaInvariance, PTL

\* Every variable of a call has its type; a call that ends the process leaves
\* them as they are.
THEOREM BuiltinTypeCorrectness == BuiltinSpec => []BuiltinTypeOK
<1> DEFINE TypedCall ==
             /\ selected \in Selections
             /\ call = "none" => stepNumber = 0
             /\ call = "fatal" => /\ stepNumber \in DOMAIN config
                                  /\ received \in Messages
                                  /\ field \in 1..(Len(Fields) + 1)
<1>1. BuiltinInit => TypedCall
  BY DEF BuiltinInit
<1>2. ASSUME CallIInv, CriteriaIInv, TypedCall, [BuiltinNext]_builtinVars
      PROVE  TypedCall'
  <2>1. CASE Load \/ UNCHANGED builtinVars
    <3>1. /\ UNCHANGED callVars
          /\ call = "fatal" => config' = config
      BY <1>2, <2>1 DEF Load, LoadConfig, Compile, SkipRest, Continue, EndList, Loaded,
                        builtinVars, cacheVars
    <3> QED
      BY <1>2, <3>1 DEF callVars
  <2>2. ASSUME NEW s \in DOMAIN config, NEW r \in Messages, NEW a \in Annotations,
               Begin(s, r, a)
        PROVE  TypedCall'
    BY <1>2, <2>2 DEF Begin
  <2>3. ASSUME NEW c \in Range(Fields), FatalLookup(c)
        PROVE  TypedCall'
    <3>1. /\ call = "criteria" /\ UNCHANGED <<config, selected, stepNumber, received, field>>
          /\ call' = "fatal"
      BY <2>3 DEF FatalLookup, AtField, cacheVars
    <3> QED
      BY <1>2, <3>1 DEF CriteriaIInv, CallPlace, CallIInv
  <2>4. CASE StartPhrase \/ NextWord \/ EndPhrase \/ Return \/ Leave
               \/ \E c \in Range(Fields) : TryUnknown(c) \/ Evaluate(c)
    BY <1>2, <2>4 DEF StartPhrase, NextWord, EndPhrase, Return, Leave, TryUnknown,
                      Evaluate, AtField, callVars
  <2> QED
    BY <1>2, <2>1, <2>2, <2>3, <2>4 DEF BuiltinNext, Progress
<1>3. CacheIInv /\ CallIInv /\ CriteriaIInv /\ PhraseCallIInv /\ TypedCall => BuiltinTypeOK
  BY DEF BuiltinTypeOK, CacheIInv, CallIInv, CriteriaIInv, CallPlace, PhraseCallIInv,
         PhraseIInv
<1>4. CallIInv /\ CriteriaIInv /\ TypedCall /\ [BuiltinNext]_builtinVars => TypedCall'
  BY <1>2
<1> HIDE DEF TypedCall
<1> QED
  BY <1>1, <1>3, <1>4, CriteriaInvariance, PhraseInvariance, PTL DEF BuiltinSpec
=============================================================================
