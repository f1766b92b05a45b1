\* Three messages, two workers, any of three configurations, restarts and
\* failing updates at any point.
CONSTANTS
  a1 = a1  a2 = a2  v1 = v1  w1 = w1  w2 = w2
  AcarsMsg = {a1, a2}
  Vdlm2Msg = {v1}
  Worker = {w1, w2}
  FilterLists <- MCFilterLists
  Similarities <- MCSimilarities
  Longer <- MCLonger
  Default = 2
  NoMsg = NoMsg
SPECIFICATION SimSpec
INVARIANTS
  DropHasWitness NoCircularDrops AtMostOnePerWorker SeenOrCutOff
