\* Three messages, two workers, both hub readers, a channel of two; a worker
\* and a reader may hang.  No symmetry, because of the liveness.
CONSTANTS
  a1 = a1  a2 = a2  a3 = a3  a4 = a4  v1 = v1  w1 = w1  w2 = w2
  AcarsMsg = {a1, a2}
  Vdlm2Msg = {v1}
  Worker = {w1, w2}
  Hung = {w2, "ACARS"}
  Cap = 2
  Configured = {"ACARS", "VDLM2"}
  Interactive = FALSE
  DatabaseEnabled = TRUE
  DatabaseType = "sqlite"
  SQLiteDatabasePath = "./messages.db"
  DBFails = {"Create", "Updates"}
  NoMsg = NoMsg
SPECIFICATION FairSpec
INVARIANTS OneCopy HandledOnce Accounted ProcessedWasHandled
PROPERTIES ProcessedIsFinal ImplementsLedger ReceivedIsHandled BacklogIsHandled
