\* Standard input and MariaDB; five messages for a worker, a reader and two
\* channels of one each.
CONSTANTS
  a1 = a1  a2 = a2  a3 = a3  a4 = a4  v1 = v1  w1 = w1  w2 = w2
  AcarsMsg = {a1, a2, a3, a4}
  Vdlm2Msg = {v1}
  Worker = {w1}
  Hung = {}
  Cap = 1
  Configured = {"ACARS"}
  Interactive = TRUE
  DatabaseEnabled = TRUE
  DatabaseType = "mariadb"
  SQLiteDatabasePath = ""
  DBFails = {"Create", "Updates"}
  NoMsg = NoMsg
SPECIFICATION Spec
SYMMETRY Symmetry
INVARIANTS IInv BacklogBound
PROPERTIES ImplementsLedger
