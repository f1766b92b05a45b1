----------------------------- MODULE PhraseProofs -----------------------------
(* Proofs about the loop of DictionaryPhrase, for texts of any length. *)
EXTENDS DictionaryPhrase, FiniteSetTheorems, TLAPS

\* How many words are known, one word further.
LEMMA KnownNext ==
  ASSUME NEW t \in Seq(BOOLEAN), NEW n \in Nat, n < Len(t)
  PROVE  /\ Known(t, n) \in Nat
         /\ Known(t, n + 1) = Known(t, n) + (IF t[n + 1] THEN 1 ELSE 0)
<1> DEFINE K(i) == {k \in 1..i : t[k]}
<1>1. IsFiniteSet(K(n)) /\ Cardinality(K(n)) \in Nat
  <2>1. IsFiniteSet(1..n)
    BY FS_Interval
  <2> QED
    BY <2>1, FS_Subset, FS_CardinalityType
<1>2. CASE t[n + 1]
  <2>1. K(n + 1) = K(n) \cup {n + 1} /\ n + 1 \notin K(n)
    BY <1>2
  <2>2. Cardinality(K(n + 1)) = Cardinality(K(n)) + 1
    BY <1>1, <2>1, FS_AddElement
  <2> QED
    BY <1>1, <1>2, <2>2 DEF Known
<1>3. CASE ~t[n + 1]
  <2>1. K(n + 1) = K(n)
    BY <1>3
  <2>2. Known(t, n + 1) = Known(t, n)
    BY <2>1, Zenon DEF Known
  <2> QED
    BY <1>1, <1>3, <2>2 DEF Known
<1> QED
  BY <1>2, <1>3

LEMMA KnownNone == ASSUME NEW t PROVE Known(t, 0) = 0
<1>1. {k \in 1..0 : t[k]} = {}
  OBVIOUS
<1> QED
  BY <1>1, FS_EmptySet DEF Known

\* How many chains have begun, one word further.
LEMMA StartsNext ==
  ASSUME NEW t \in Seq(BOOLEAN), NEW n \in Nat, n < Len(t)
  PROVE  /\ StartsIn(t, n) \in Nat
         /\ StartsIn(t, n + 1) = StartsIn(t, n)
              + (IF t[n + 1] /\ (n > 0 => ~t[n]) THEN 1 ELSE 0)
<1> DEFINE S(i) == {k \in ChainStarts(t) : k <= i}
           begins == t[n + 1] /\ (n > 0 => ~t[n])
<1>1. DOMAIN t = 1..Len(t) /\ Len(t) \in Nat
  OBVIOUS
<1>2. IsFiniteSet(S(n)) /\ Cardinality(S(n)) \in Nat
  <2>1. IsFiniteSet(1..n)
    BY FS_Interval
  <2>2. S(n) \in SUBSET (1..n)
    BY <1>1 DEF ChainStarts
  <2> QED
    BY <2>1, <2>2, FS_Subset, FS_CardinalityType
<1>3. n + 1 \in ChainStarts(t) <=> begins
  BY <1>1 DEF ChainStarts
<1>4. \A k \in ChainStarts(t) : k \in Nat
  BY <1>1 DEF ChainStarts
<1>5. CASE begins
  <2>1. S(n + 1) = S(n) \cup {n + 1} /\ n + 1 \notin S(n)
    BY <1>3, <1>4, <1>5
  <2>2. Cardinality(S(n + 1)) = Cardinality(S(n)) + 1
    BY <1>2, <2>1, FS_AddElement
  <2> QED
    BY <1>2, <1>5, <2>2 DEF StartsIn
<1>6. CASE ~begins
  <2>1. S(n + 1) = S(n)
    BY <1>3, <1>4, <1>6
  <2>2. StartsIn(t, n + 1) = StartsIn(t, n)
    BY <2>1, Zenon DEF StartsIn
  <2> QED
    BY <1>2, <1>6, <2>2 DEF StartsIn
<1> QED
  BY <1>5, <1>6

LEMMA StartsNone == ASSUME NEW t \in Seq(BOOLEAN) PROVE StartsIn(t, 0) = 0
<1>1. {k \in ChainStarts(t) : k <= 0} = {}
  BY DEF ChainStarts
<1> QED
  BY <1>1, FS_EmptySet DEF StartsIn

\* What is said of the two counters once the first n words of t are counted.
LEMMA PhraseStarts ==
  ASSUME NEW t \in Seq(BOOLEAN), PhraseStart(t)
  PROVE  PhraseIInv'
<1>1. PhraseTypeOK'
  BY DEF PhraseStart, PhraseTypeOK
<1>2. OpenChainCounted' /\ ChainsCovered'
  BY DEF PhraseStart, OpenChainCounted, ChainsCovered
<1>3. CountsKnown'
  BY KnownNone DEF PhraseStart, CountsKnown
<1>4. AtMostTwoChains'
  <2>1. Chain(t, 0, 0)
    BY DEF Chain
  <2>2. StartsIn(t, 0) = 0
    BY StartsNone
  <2> QED
    BY <2>1, <2>2 DEF PhraseStart, AtMostTwoChains
<1> QED
  BY <1>1, <1>2, <1>3, <1>4 DEF PhraseIInv

\* A chain that ends one word further.
LEMMA ChainNext ==
  ASSUME NEW t \in Seq(BOOLEAN), NEW n \in Nat, n < Len(t), NEW i \in 0..(n + 1)
  PROVE  Chain(t, i, n + 1) <=> i = n + 1 \/ (Chain(t, i, n) /\ t[n + 1])
<1>1. CASE i = n + 1
  BY <1>1 DEF Chain
<1>2. CASE i <= n
  <2>1. (i + 1)..(n + 1) = ((i + 1)..n) \cup {n + 1}
    BY <1>2
  <2> QED
    BY <1>2, <2>1 DEF Chain
<1> QED
  BY <1>1, <1>2

\* One word keeps the invariant.
LEMMA LookAtWordPreserves == PhraseIInv /\ LookAtWord => PhraseIInv'
<1> SUFFICES ASSUME PhraseIInv, LookAtWord PROVE PhraseIInv'
  OBVIOUS
<1> DEFINE t == wordSlice
           n == idx
           found == t[n + 1]
           last == n + 1 = Len(t)
           chain == consecutive + (IF found THEN 1 ELSE 0)
           longer == (~found \/ last) /\ chain > maxConsecutive
<1>1. /\ t \in Seq(BOOLEAN) /\ n \in Nat /\ n < Len(t) /\ Len(t) \in Nat
      /\ consecutive \in Nat /\ maxConsecutive \in Nat /\ found \in BOOLEAN
  BY DEF PhraseIInv, PhraseTypeOK, LookAtWord, PhraseDone
<1>2. /\ wordSlice' = t /\ idx' = n + 1
      /\ longer => maxConsecutive' = chain /\ consecutive' = 0
      /\ ~longer => consecutive' = chain /\ maxConsecutive' = maxConsecutive
  BY DEF LookAtWord
<1>3. chain \in Nat /\ chain >= consecutive /\ (found => chain = consecutive + 1)
  BY <1>1
<1>4. PhraseTypeOK'
  BY <1>1, <1>2, <1>3 DEF PhraseTypeOK
<1>5. PhraseDone' <=> last
  BY <1>1, <1>2 DEF PhraseDone
<1>6. \A i \in 0..n : Chain(t, i, n) => n - i <= consecutive
  BY <1>1 DEF PhraseIInv, OpenChainCounted, PhraseDone
<1>7. \A i \in 0..(n + 1) : Chain(t, i, n + 1) => n + 1 - i <= chain
  <2>1. ASSUME NEW i \in 0..(n + 1), Chain(t, i, n + 1)
        PROVE  n + 1 - i <= chain
    <3>1. CASE i = n + 1
      BY <1>1, <1>3, <3>1
    <3>2. CASE i # n + 1
      <4>1. Chain(t, i, n) /\ found /\ i \in 0..n
        BY <1>1, <2>1, <3>2, ChainNext
      <4> QED
        BY <1>1, <1>3, <1>6, <4>1
    <3> QED
      BY <3>1, <3>2
  <2> QED
    BY <2>1
<1>8. OpenChainCounted'
  <2>1. ASSUME ~PhraseDone', NEW i \in 0..(n + 1), Chain(t, i, n + 1)
        PROVE  n + 1 - i <= consecutive'
    <3>1. CASE longer
      BY <1>1, <1>2, <1>5, <2>1, <3>1, ChainNext
    <3>2. CASE ~longer
      BY <1>2, <1>7, <2>1, <3>2
    <3> QED
      BY <3>1, <3>2
  <2>2. idx' = n + 1 /\ wordSlice' = t
    BY <1>2
  <2> QED
    BY <1>1, <1>4, <2>1, <2>2 DEF OpenChainCounted, PhraseTypeOK
<1>9. ChainsCovered'
  <2>1. ASSUME NEW i \in 0..(n + 1), NEW j \in 0..(n + 1), Chain(t, i, j)
        PROVE  j - i <= maxConsecutive' \/ (~last /\ Chain(t, i, n + 1))
    <3>1. maxConsecutive' >= maxConsecutive /\ maxConsecutive' \in Nat
      BY <1>1, <1>2, <1>3
    <3>2. (~found \/ last) => maxConsecutive' >= chain
      BY <1>1, <1>2, <1>3
    <3>3. CASE j = n + 1
      <4>1. CASE last
        BY <1>1, <1>3, <1>7, <2>1, <3>1, <3>2, <3>3, <4>1
      <4>2. CASE ~last
        BY <2>1, <3>3, <4>2
      <4> QED
        BY <4>1, <4>2
    <3>4. CASE j # n + 1
      <4>1. i \in 0..n /\ j \in 0..n /\ i <= j
        BY <1>1, <2>1, <3>4 DEF Chain
      <4>2. j - i <= maxConsecutive \/ Chain(t, i, n)
        BY <2>1, <4>1 DEF PhraseIInv, ChainsCovered
      <4>3. CASE j - i <= maxConsecutive
        BY <1>1, <3>1, <4>1, <4>3
      <4>4. CASE Chain(t, i, n)
        <5>1. n - i <= consecutive
          BY <1>6, <4>1, <4>4
        <5>2. CASE ~found \/ last
          BY <1>1, <1>3, <3>1, <3>2, <4>1, <5>1, <5>2
        <5>3. CASE found /\ ~last
          BY <1>1, <4>4, <5>3, ChainNext
        <5> QED
          BY <1>1, <5>2, <5>3
      <4> QED
        BY <4>2, <4>3, <4>4
    <3> QED
      BY <3>3, <3>4
  <2> QED
    BY <1>2, <1>5, <2>1 DEF ChainsCovered
<1>10. CountsKnown'
  <2>1. Known(t, n) \in Nat /\ Known(t, n + 1) = Known(t, n) + (IF found THEN 1 ELSE 0)
    BY <1>1, KnownNext
  <2>2. maxConsecutive + consecutive <= Known(t, n)
    BY DEF PhraseIInv, CountsKnown
  <2> QED
    BY <1>1, <1>2, <2>1, <2>2 DEF CountsKnown
<1>11. AtMostTwoChains'
  <2> DEFINE b == StartsIn(t, n)
             b1 == StartsIn(t, n + 1)
             Longest(max, k) ==
               \E i, j \in 0..k : Chain(t, i, j) /\ j - i = max
             Open(c, k) == c <= k /\ Chain(t, k - c, k)
  <2>1. /\ b \in Nat
        /\ b1 = b + (IF found /\ (n > 0 => ~t[n]) THEN 1 ELSE 0)
    BY <1>1, StartsNext
  <2> HIDE DEF b, b1
  <2>2. SUFFICES ASSUME b1 <= 2
                 PROVE  /\ Longest(maxConsecutive', n + 1)
                        /\ ~last =>
                             \/ Open(consecutive', n + 1)
                             \/ /\ b1 = 2 /\ consecutive' <= maxConsecutive'
                                /\ ~found
                        /\ maxConsecutive' >= 1 \/ consecutive' >= 1 => b1 >= 1
                        /\ maxConsecutive' >= 1 /\ consecutive' >= 1 => b1 >= 2
    BY <1>1, <1>2, <1>5 DEF AtMostTwoChains, b1
  <2>3. /\ b <= 2
        /\ Longest(maxConsecutive, n)
        /\ \/ Open(consecutive, n)
           \/ b = 2 /\ consecutive <= maxConsecutive /\ n > 0 /\ ~t[n]
        /\ maxConsecutive >= 1 \/ consecutive >= 1 => b >= 1
        /\ maxConsecutive >= 1 /\ consecutive >= 1 => b >= 2
    <3>1. b <= 2
      BY <2>1, <2>2
    <3> QED
      BY <1>1, <3>1 DEF PhraseIInv, AtMostTwoChains, PhraseDone, b
  <2>4. Longest(maxConsecutive, n + 1)
    BY <1>1, <2>3
  <2>5. consecutive = 0 => n = 0 \/ ~t[n]
    <3>1. SUFFICES ASSUME consecutive = 0, n > 0, t[n] PROVE FALSE
      BY <1>1
    <3>2. Chain(t, n - 1, n) /\ n - 1 \in 0..n /\ n - (n - 1) = 1
      BY <1>1, <3>1 DEF Chain
    <3> QED
      BY <1>6, <3>1, <3>2
  <2>6. n = 0 => maxConsecutive = 0
    BY <1>1, KnownNone DEF PhraseIInv, CountsKnown
  <2>7. CASE found
    <3>1. Open(chain, n + 1)
      <4>1. Open(consecutive, n)
        BY <1>1, <2>1, <2>2, <2>3, <2>7
      <4>2. Chain(t, n - consecutive, n + 1)
        BY <1>1, <2>7, <4>1, ChainNext
      <4>3. (n + 1) - chain = n - consecutive
        BY <1>1, <2>7
      <4> QED
        BY <1>1, <2>7, <4>1, <4>2, <4>3
    <3>2. consecutive = 0 => b1 = b + 1
      BY <2>1, <2>5, <2>7
    <3>3. b1 >= 1 /\ (maxConsecutive >= 1 => b1 >= 2)
      BY <1>1, <2>1, <2>3, <3>2
    <3>4. CASE longer
      <4>1. Longest(chain, n + 1)
        <5>1. n + 1 - chain \in 0..(n + 1) /\ n + 1 \in 0..(n + 1)
              /\ (n + 1) - (n + 1 - chain) = chain
          BY <1>1, <1>3, <3>1
        <5> QED
          BY <3>1, <5>1
      <4> QED
        BY <1>2, <2>7, <3>3, <3>4, <4>1
    <3>5. CASE ~longer
      BY <1>1, <1>2, <2>4, <3>1, <3>3, <3>5
    <3> QED
      BY <3>4, <3>5
  <2>8. CASE ~found
    <3>1. b1 = b /\ chain = consecutive
      BY <1>1, <2>1, <2>8
    <3>2. Open(0, n + 1)
      BY <1>1 DEF Chain
    <3>3. CASE longer
      <4>1. Longest(chain, n + 1)
        <5>1. Open(consecutive, n)
          BY <1>1, <2>3, <3>1, <3>3
        <5>2. n - consecutive \in 0..(n + 1) /\ n \in 0..(n + 1)
              /\ n - (n - consecutive) = consecutive
          BY <1>1, <5>1
        <5> QED
          BY <3>1, <5>1, <5>2
      <4>2. maxConsecutive' = chain /\ consecutive' = 0
        BY <1>2, <3>3
      <4> QED
        BY <1>1, <2>3, <3>1, <3>2, <4>1, <4>2
    <3>4. CASE ~longer
      <4>1. /\ consecutive' = consecutive /\ maxConsecutive' = maxConsecutive
            /\ consecutive <= maxConsecutive
        BY <1>1, <1>2, <2>8, <3>1, <3>4
      <4>2. consecutive >= 1 => b = 2
        BY <1>1, <2>1, <2>3, <4>1
      <4>3. consecutive = 0 \/ consecutive >= 1
        BY <1>1
      <4> QED
        BY <1>1, <2>3, <2>4, <2>8, <3>1, <3>2, <4>1, <4>2, <4>3
    <3> QED
      BY <3>3, <3>4
  <2> QED
    BY <2>7, <2>8
<1> QED
  BY <1>4, <1>8, <1>9, <1>10, <1>11 DEF PhraseIInv

\* At the end the maximum covers every chain, counts known words only, and is
\* the length of a chain when there are no more than two.
LEMMA PhraseResult ==
  ASSUME PhraseIInv
  PROVE  NotTooShort /\ NotAboveKnown /\ ExactWithTwoChains
<1>1. NotTooShort
  BY DEF PhraseIInv, PhraseTypeOK, ChainsCovered, PhraseDone, NotTooShort
<1>2. ASSUME PhraseDone
      PROVE  maxConsecutive <= Known(wordSlice, Len(wordSlice))
  <2>1. maxConsecutive + consecutive <= Known(wordSlice, Len(wordSlice))
    BY <1>2 DEF PhraseIInv, CountsKnown, PhraseDone
  <2>2. IsFiniteSet({k \in 1..Len(wordSlice) : wordSlice[k]})
    <3>1. Len(wordSlice) \in Nat /\ IsFiniteSet(1..Len(wordSlice))
      BY FS_Interval DEF PhraseIInv, PhraseTypeOK
    <3> QED
      BY <3>1, FS_Subset
  <2>3. Known(wordSlice, Len(wordSlice)) \in Nat
    BY <2>2, FS_CardinalityType DEF Known
  <2> QED
    BY <2>1, <2>3 DEF PhraseIInv, PhraseTypeOK
<1>3. ASSUME PhraseDone, Cardinality(ChainStarts(wordSlice)) <= 2
      PROVE  \E i, j \in 0..Len(wordSlice) :
               Chain(wordSlice, i, j) /\ j - i = maxConsecutive
  <2>1. {k \in ChainStarts(wordSlice) : k <= Len(wordSlice)} = ChainStarts(wordSlice)
    BY DEF ChainStarts, PhraseIInv, PhraseTypeOK
  <2>2. StartsIn(wordSlice, idx) <= 2
    BY <1>3, <2>1, Zenon DEF StartsIn, PhraseDone
  <2> QED
    BY <1>3, <2>2 DEF PhraseIInv, AtMostTwoChains, PhraseDone
<1> QED
  BY <1>1, <1>2, <1>3 DEF NotAboveKnown, ExactWithTwoChains
=============================================================================
