\* The configurations and messages of Builtin_filter; those that matter ask for a
\* frequency, an ASS status, the More flag or a signal level.
CONSTANTS
  Configs <- MCConfigs
  Pattern <- MCPattern
  Malformed <- MCMalformed
  Texts = {}
  Messages <- MCMessages
  Annotations <- MCAnnotations
  Selections <- MCSelections
  FreetextTerms <- MCFreetext
SPECIFICATION BuiltinSpec
INVARIANT CriteriaAreApplied
CHECK_DEADLOCK FALSE
