\* The configurations and messages of Builtin_filter; one has a list that repeats a pattern.
CONSTANTS
  Configs <- MCConfigs
  Pattern <- MCPattern
  Malformed <- MCMalformed
  Texts = {}
  Messages <- MCMessages
  Annotations <- MCAnnotations
  Selections <- MCSelections
  FreetextTerms <- MCFreetext
SPECIFICATION BuiltinSpec
INVARIANT EveryRegexCompiled
CHECK_DEADLOCK FALSE
