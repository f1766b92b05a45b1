\* The steps of LlmCall_calls; the Ollama filters differ in the number of attempts.
CONSTANTS
  w1 = w1  w2 = w2
  Worker = {w1, w2}
  Step <- MCStep
  kind <- MCKind
  conf <- MCConf
  Default <- MCDefault
SPECIFICATION Spec
INVARIANT SettingsAreOwn
