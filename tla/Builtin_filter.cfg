\* A criterion of each sort, alone and combined, inverted or not; messages of
\* both formats; lists that repeat a pattern.
CONSTANTS
  Configs <- MCConfigs
  Pattern <- MCPattern
  Malformed <- MCMalformed
  Texts = {}
  Messages <- MCMessages
  Annotations <- MCAnnotations
  Selections <- MCSelections
  FreetextTerms <- MCFreetext
SPECIFICATION BuiltinSpec
INVARIANTS
  MissingOnlyAfterRepeat FatalOnlyAfterRepeat NotTooShort NotAboveKnown ExactWithTwoChains
  FilterMeansWhatItSays UnknownFollowsFailure
PROPERTY FilterReturns
CHECK_DEADLOCK FALSE
