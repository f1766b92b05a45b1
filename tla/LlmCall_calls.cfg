\* Two workers, two Ollama filters, an annotator and OpenAI; at most two attempts.
CONSTANTS
  w1 = w1  w2 = w2
  Worker = {w1, w2}
  Step <- MCStep
  kind <- MCKind
  conf <- MCConf
  Default <- MCDefault
SPECIFICATION FairSpec
INVARIANTS UniformSettingsAreOwn AttemptsAreCounted SavedOnce
PROPERTY CallReturns
