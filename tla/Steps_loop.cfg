\* Five configurations, any message fields, empty or not; calls to OpenAI,
\* tar1090 and Discord may never return.
CONSTANTS
  StepConfigs <- MCStepConfigs
  SourceField <- MCSource
  MessageText = "text"
  TailCode = "tail"
  AdsbField <- MCAdsb
  LlmField <- MCLlm
  Tar1090Field <- MCTar1090
  NoField = "none"
  Hanging = {"OpenAI", "Tar1090", "Discord"}
SPECIFICATION FairSpec
INVARIANTS
  SelectionIsExact NothingLeftOut FilteredIsNotSent FailureFilters AnswersArrive
PROPERTIES ImplementsRun RunEnds
CHECK_DEADLOCK FALSE
