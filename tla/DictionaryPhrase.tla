-------------------------- MODULE DictionaryPhrase --------------------------
(***************************************************************************)
(* LongestDictionaryWordPhraseLength of filter_builtin.go: one pass over   *)
(* the words of a text that looks for its longest unbroken chain of        *)
(* dictionary words.  A word matters only in that it is in the dictionary  *)
(* or not, so a text is a sequence of Booleans.                            *)
(***************************************************************************)
EXTENDS Integers, Sequences, FiniteSets

CONSTANT Texts  \* the texts considered

ASSUME PhraseAssumption == Texts \subseteq Seq(BOOLEAN)

VARIABLES
  wordSlice,       \* the words of the text: are they in the dictionary?
  idx,             \* the words looked at
  consecutive,     \* len(consecutiveWordSlice)
  maxConsecutive   \* len(maxConsecutiveWordSlice)

phraseVars == <<wordSlice, idx, consecutive, maxConsecutive>>

\* The start of a call with text t.
PhraseStart(t) ==
  /\ wordSlice' = t
  /\ idx' = 0 /\ consecutive' = 0 /\ maxConsecutive' = 0

PhraseInit ==
  /\ wordSlice \in Texts
  /\ idx = 0 /\ consecutive = 0 /\ maxConsecutive = 0

PhraseDone == idx = Len(wordSlice)

BugCompareAtUnknownOnly ==
  /\ ~PhraseDone
  /\ LET found == wordSlice[idx + 1]
         chain == consecutive + (IF found THEN 1 ELSE 0)
     IN IF ~found /\ chain > maxConsecutive
          THEN maxConsecutive' = chain /\ consecutive' = 0
          ELSE consecutive' = chain /\ UNCHANGED maxConsecutive
  /\ idx' = idx + 1
  /\ UNCHANGED wordSlice

BugNeverReset ==
  /\ ~PhraseDone
  /\ LET found == wordSlice[idx + 1]
         chain == consecutive + (IF found THEN 1 ELSE 0)
     IN /\ consecutive' = chain
        /\ maxConsecutive' = IF chain > maxConsecutive THEN chain ELSE maxConsecutive
  /\ idx' = idx + 1
  /\ UNCHANGED wordSlice

BugCountTwice ==
  /\ ~PhraseDone
  /\ LET found == wordSlice[idx + 1]
         chain == consecutive + (IF found THEN 1 ELSE 0)
     IN /\ consecutive' = chain
        /\ maxConsecutive' = IF (~found \/ idx + 1 = Len(wordSlice))
                                  /\ chain > maxConsecutive
                             THEN maxConsecutive + chain ELSE maxConsecutive
  /\ idx' = idx + 1
  /\ UNCHANGED wordSlice

\* One word.  At an unknown word, and at the last one, the chain is compared
\* with the longest so far; it is emptied only when it was longer.
LookAtWord ==
  /\ ~PhraseDone
  /\ LET found == wordSlice[idx + 1]
         last  == idx + 1 = Len(wordSlice)
         chain == consecutive + (IF found THEN 1 ELSE 0)
     IN IF (~found \/ last) /\ chain > maxConsecutive
          THEN maxConsecutive' = chain /\ consecutive' = 0
          ELSE consecutive' = chain /\ UNCHANGED maxConsecutive
  /\ idx' = idx + 1
  /\ UNCHANGED wordSlice

-----------------------------------------------------------------------------
(* What the text really holds.                                             *)

\* The words i+1..j of t are an unbroken chain of dictionary words.
Chain(t, i, j) == i <= j /\ \A k \in (i + 1)..j : t[k]

Known(t, n) == Cardinality({k \in 1..n : t[k]})

\* The words at which a chain of t begins.
ChainStarts(t) == {k \in DOMAIN t : t[k] /\ (k > 1 => ~t[k - 1])}

-----------------------------------------------------------------------------
(* Properties.                                                             *)

\* The result is never shorter than a chain of dictionary words in the text:
\* a message with a long enough phrase is never missed.
NotTooShort ==
  PhraseDone => \A i, j \in 0..Len(wordSlice) :
    Chain(wordSlice, i, j) => j - i <= maxConsecutive

\* It counts no word twice and no unknown word: however the chains are added
\* up, the result is at most the number of dictionary words in the text.
NotAboveKnown ==
  PhraseDone => maxConsecutive <= Known(wordSlice, Len(wordSlice))

\* A chain that was no new maximum is added to the next one, so the result
\* may be longer than any chain of the text.  For that the text needs three
\* chains: with at most two, the result is the length of one of them.
ExactWithTwoChains ==
  PhraseDone /\ Cardinality(ChainStarts(wordSlice)) <= 2 =>
    \E i, j \in 0..Len(wordSlice) :
      Chain(wordSlice, i, j) /\ j - i = maxConsecutive

-----------------------------------------------------------------------------
(* Inductive invariants.                                                   *)

PhraseTypeOK ==
  /\ wordSlice \in Seq(BOOLEAN)
  /\ idx \in 0..Len(wordSlice)
  /\ consecutive \in Nat /\ maxConsecutive \in Nat

\* Before the end, the chain that is still open has been counted in full.
OpenChainCounted ==
  ~PhraseDone => \A i \in 0..idx : Chain(wordSlice, i, idx) => idx - i <= consecutive

\* Every chain among the words looked at is covered by the maximum, or it is
\* a part of the chain that is still open.
ChainsCovered ==
  \A i, j \in 0..idx : Chain(wordSlice, i, j) =>
    j - i <= maxConsecutive \/ (~PhraseDone /\ Chain(wordSlice, i, idx))

\* The two counters never count a word twice.
CountsKnown == maxConsecutive + consecutive <= Known(wordSlice, idx)

\* How many chains of t begin among its first n words.
StartsIn(t, n) == Cardinality({k \in ChainStarts(t) : k <= n})

\* With at most two chains so far the maximum is the length of one of them,
\* and the counter is that of the open chain, unless it still holds the first
\* or the second one, which was not longer.
AtMostTwoChains ==
  StartsIn(wordSlice, idx) <= 2 =>
    /\ \E i, j \in 0..idx : Chain(wordSlice, i, j) /\ j - i = maxConsecutive
    /\ ~PhraseDone =>
         \/ consecutive <= idx /\ Chain(wordSlice, idx - consecutive, idx)
         \/ /\ StartsIn(wordSlice, idx) = 2 /\ consecutive <= maxConsecutive
            /\ idx > 0 /\ ~wordSlice[idx]
    /\ maxConsecutive >= 1 \/ consecutive >= 1 => StartsIn(wordSlice, idx) >= 1
    /\ maxConsecutive >= 1 /\ consecutive >= 1 => StartsIn(wordSlice, idx) >= 2

PhraseIInv ==
  /\ PhraseTypeOK /\ OpenChainCounted /\ ChainsCovered /\ CountsKnown
  /\ AtMostTwoChains
=============================================================================
