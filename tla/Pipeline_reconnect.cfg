\* A failed dial ends the VDLM2 reader.
CONSTANTS
  a1 = a1  a2 = a2  a3 = a3  a4 = a4  v1 = v1  w1 = w1  w2 = w2
  AcarsMsg = {a1}
  Vdlm2Msg = {v1}
  Worker = {w1}
  Hung = {}
  Cap = 1
  Configured = {"ACARS", "VDLM2"}
  Interactive = FALSE
  DatabaseEnabled = TRUE
  DatabaseType = "sqlite"
  SQLiteDatabasePath = "./messages.db"
  DBFails = {}
  NoMsg = NoMsg
SPECIFICATION HubSpec
PROPERTIES ReadersReconnect
