---------------------------- MODULE MCSimilarity ----------------------------
(* Texts, filters and model values for the run of SimilarityFilter.        *)
EXTENDS SimilarityFilter, TLC

CONSTANTS a1, a2, v1, w1, w2

Filters(n, longer) == [lookBehind |-> n, dontFilterIfLonger |-> longer]

\* One filter that sees every row; two with limits of their own, the first of
\* which forgives; one without a limit after one that has set a small one.
MCFilterLists ==
  {<<Filters(3, FALSE)>>,
   <<Filters(1, TRUE), Filters(2, FALSE)>>,
   <<Filters(1, FALSE), Filters(0, FALSE)>>}

Both(S) == S \cup {<<p[2], p[1]>> : p \in S}

\* Every text is similar to itself; all three alike, or a chain of two.
MCSimilarities ==
  {Both({<<m, m>> : m \in Msg} \cup {<<a1, a2>>, <<a2, v1>>, <<a1, v1>>}),
   Both({<<m, m>> : m \in Msg} \cup {<<a1, a2>>, <<a2, v1>>})}

MCLonger == {<<a2, a1>>}
=============================================================================
