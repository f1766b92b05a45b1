----------------------------- MODULE SchemaProofs -----------------------------
(* Proofs about SchemaGen, for any contents and any number of disturbances. *)
EXTENDS SchemaGen, TLAPS

\* Which files a run has passed, by the file that is next.
LEMMA PastFiles ==
  /\ Past("schema.json") <=> writing \notin {"idle", "schema.json"}
  /\ Past("config_all_options.yaml") <=> writing \in {"default_fields.md", "exit"}
  /\ Past("default_fields.md") <=> writing = "exit"
BY DEF Past

LEMMA PastFilesNext ==
  /\ Past("schema.json")' <=> writing' \notin {"idle", "schema.json"}
  /\ Past("config_all_options.yaml")' <=> writing' \in {"default_fields.md", "exit"}
  /\ Past("default_fields.md")' <=> writing' = "exit"
BY DEF Past

\* The invariant holds at the start.
LEMMA SchemaInitial == SchemaInit => SchemaIInv
<1> SUFFICES ASSUME SchemaInit PROVE SchemaIInv
  OBVIOUS
<1>1. SchemaTypeOK
  <2>1. disturbed \in 0..Disturbances /\ dirtyRuns \in Nat
    BY SchemaAssumption DEF SchemaInit
  <2>2. writing \in SchemaFiles \cup {"idle", "exit"} /\ hung \in BOOLEAN
    BY DEF SchemaInit
  <2> QED
    BY <2>1, <2>2, Zenon DEF SchemaInit, SchemaTypeOK
<1>2. FilesOfRun /\ FlagsOfRun
  BY PastFiles DEF SchemaInit, FilesOfRun, FlagsOfRun, Running
<1>3. RunsBefore /\ StatusIsHonest /\ OneFileLeft
  BY DEF SchemaInit, RunsBefore, StatusIsHonest, OneFileLeft
<1> QED
  BY <1>1, <1>2, <1>3 DEF SchemaIInv

\* What a write leaves: the content generated for its file, or a failure.
LEMMA WrittenLeaves ==
  ASSUME SchemaTypeOK, NEW f \in SchemaFiles, Written(f)
  PROVE  /\ disk' \in [SchemaFiles -> Content]
         /\ \A g \in SchemaFiles : g # f => disk'[g] = disk[g]
         /\ failed' \in BOOLEAN /\ (failed => failed')
         /\ ~failed' => disk'[f] = code[f]
         /\ disturbed' \in 0..Disturbances
<1>1. code[f] \in Content /\ Other \in Content
  BY DEF SchemaTypeOK, Content
<1>2. CASE disk' = [disk EXCEPT ![f] = code[f]] /\ UNCHANGED <<failed, disturbed>>
  BY <1>1, <1>2 DEF SchemaTypeOK
<1>3. CASE disk' \in FailedWrites(f) /\ failed' = TRUE /\ Disturb
  BY <1>1, <1>3, SchemaAssumption DEF SchemaTypeOK, FailedWrites, Disturb
<1> QED
  BY <1>2, <1>3 DEF Written

\* An edit between two runs, and the start of a run.
LEMMA EditPreserves == SchemaIInv /\ Edit => SchemaIInv'
<1> SUFFICES ASSUME SchemaIInv, Edit PROVE SchemaIInv'
  OBVIOUS
<1>1. SchemaTypeOK'
  BY SchemaAssumption DEF SchemaIInv, SchemaTypeOK, Edit, Disturb
<1>2. (FilesOfRun /\ FlagsOfRun)'
  BY PastFilesNext DEF Edit, FilesOfRun, FlagsOfRun, Running
<1>3. (RunsBefore /\ StatusIsHonest /\ OneFileLeft)'
  BY DEF Edit, RunsBefore, StatusIsHonest, OneFileLeft
<1> QED
  BY <1>1, <1>2, <1>3 DEF SchemaIInv

LEMMA GeneratePreserves == SchemaIInv /\ Generate => SchemaIInv'
<1> SUFFICES ASSUME SchemaIInv, Generate PROVE SchemaIInv'
  OBVIOUS
<1>1. SchemaTypeOK'
  BY DEF SchemaIInv, SchemaTypeOK, Generate, SchemaFiles
<1>2. (FilesOfRun /\ FlagsOfRun)'
  BY PastFilesNext DEF Generate, FilesOfRun, FlagsOfRun, Running, Kept, SchemaFiles
<1>3. RunsBefore'
  BY DEF SchemaIInv, Generate, RunsBefore, Running
<1>4. (StatusIsHonest /\ OneFileLeft)'
  BY DEF Generate, StatusIsHonest, OneFileLeft
<1> QED
  BY <1>1, <1>2, <1>3, <1>4 DEF SchemaIInv

\* A run that hangs leaves everything else as it is.
LEMMA HangPreserves == SchemaIInv /\ Hang => SchemaIInv'
<1> SUFFICES ASSUME SchemaIInv, Hang PROVE SchemaIInv'
  OBVIOUS
<1>1. SchemaTypeOK'
  BY DEF SchemaIInv, SchemaTypeOK, Hang
<1>2. (FilesOfRun /\ FlagsOfRun)'
  BY PastFiles, PastFilesNext DEF SchemaIInv, Hang, FilesOfRun, FlagsOfRun, Running,
     Kept, Fresh, Found, SchemaFiles
<1>3. (RunsBefore /\ StatusIsHonest /\ OneFileLeft)'
  BY DEF SchemaIInv, Hang, RunsBefore, StatusIsHonest, OneFileLeft, Running
<1> QED
  BY <1>1, <1>2, <1>3 DEF SchemaIInv

\* A run writes a file and goes on: what RunsBefore says about the files it
\* found stays true.
LEMMA RunsBeforeStays ==
  ASSUME SchemaIInv, Running, Running', UNCHANGED <<code, before, dirtyRuns>>
  PROVE  RunsBefore'
BY DEF SchemaIInv, RunsBefore

LEMMA GenerateSchemaPreserves == SchemaIInv /\ GenerateSchema => SchemaIInv'
<1> SUFFICES ASSUME SchemaIInv, GenerateSchema PROVE SchemaIInv'
  OBVIOUS
<1> DEFINE f == "schema.json"
<1>1. f \in SchemaFiles /\ SchemaTypeOK
  BY DEF SchemaFiles, SchemaIInv
<1>2. /\ disk' \in [SchemaFiles -> Content]
      /\ \A g \in SchemaFiles : g # f => disk'[g] = disk[g]
      /\ failed' \in BOOLEAN /\ (failed => failed')
      /\ ~failed' => disk'[f] = code[f]
      /\ disturbed' \in 0..Disturbances
  BY <1>1, WrittenLeaves DEF GenerateSchema
<1>3. writing = f /\ writing' = "config_all_options.yaml" /\ status = "none"
        /\ UNCHANGED <<code, hung, docsUpdated, status, before, dirtyRuns>>
        /\ schemaUpdated' = (disk[f] # code[f]) /\ Kept(f)
  BY <1>1, PastFiles DEF SchemaIInv, GenerateSchema, FlagsOfRun, Running, FilesOfRun, Changed
<1>4. SchemaTypeOK'
  BY <1>1, <1>2, <1>3 DEF SchemaTypeOK, SchemaFiles
<1>5. FilesOfRun'
  <2>1. \A g \in SchemaFiles : g # f => Kept(g)
    BY <1>3, PastFiles DEF SchemaIInv, FilesOfRun, Running, SchemaFiles
  <2> QED
    BY <1>2, <1>3, <2>1, PastFilesNext DEF FilesOfRun, Kept, Fresh, SchemaFiles
<1>6. FlagsOfRun'
  BY <1>3, PastFilesNext DEF FlagsOfRun, Kept, Found, Running
<1>7. RunsBefore'
  BY <1>3, RunsBeforeStays DEF Running
<1>8. (StatusIsHonest /\ OneFileLeft)'
  BY <1>3 DEF StatusIsHonest, OneFileLeft
<1> QED
  BY <1>4, <1>5, <1>6, <1>7, <1>8 DEF SchemaIInv

LEMMA GenerateConfigPreserves == SchemaIInv /\ GenerateConfig => SchemaIInv'
<1> SUFFICES ASSUME SchemaIInv, GenerateConfig PROVE SchemaIInv'
  OBVIOUS
<1> DEFINE f == "config_all_options.yaml"
<1>1. f \in SchemaFiles /\ SchemaTypeOK
  BY DEF SchemaFiles, SchemaIInv
<1>2. /\ disk' \in [SchemaFiles -> Content]
      /\ \A g \in SchemaFiles : g # f => disk'[g] = disk[g]
      /\ failed' \in BOOLEAN /\ (failed => failed')
      /\ ~failed' => disk'[f] = code[f]
      /\ disturbed' \in 0..Disturbances
  BY <1>1, WrittenLeaves DEF GenerateConfig
<1>3. writing = f /\ writing' = "default_fields.md" /\ status = "none"
        /\ UNCHANGED <<code, hung, schemaUpdated, status, before, dirtyRuns>>
        /\ docsUpdated' = (disk[f] # code[f]) /\ Kept(f)
  BY <1>1, PastFiles DEF SchemaIInv, GenerateConfig, FlagsOfRun, Running, FilesOfRun, Changed
<1>4. SchemaTypeOK'
  BY <1>1, <1>2, <1>3 DEF SchemaTypeOK, SchemaFiles
<1>5. FilesOfRun'
  <2>1. Kept("default_fields.md") /\ (~failed => Fresh("schema.json"))
    BY <1>3, PastFiles DEF SchemaIInv, FilesOfRun, Running, SchemaFiles
  <2> QED
    BY <1>2, <1>3, <2>1, PastFilesNext DEF FilesOfRun, Kept, Fresh, SchemaFiles
<1>6. FlagsOfRun'
  <2>1. schemaUpdated = ~Found("schema.json")
    BY <1>3, PastFiles DEF SchemaIInv, FlagsOfRun
  <2> QED
    BY <1>3, <2>1, PastFilesNext DEF FlagsOfRun, Kept, Found, Running
<1>7. RunsBefore'
  BY <1>3, RunsBeforeStays DEF Running
<1>8. (StatusIsHonest /\ OneFileLeft)'
  BY <1>3 DEF StatusIsHonest, OneFileLeft
<1> QED
  BY <1>4, <1>5, <1>6, <1>7, <1>8 DEF SchemaIInv

\* The second document is written, or skipped because the first has changed.
LEMMA GenerateFieldsPreserves == SchemaIInv /\ GenerateFields => SchemaIInv'
<1> SUFFICES ASSUME SchemaIInv, GenerateFields PROVE SchemaIInv'
  OBVIOUS
<1> DEFINE f == "default_fields.md"
           c == "config_all_options.yaml"
<1>1. f \in SchemaFiles /\ SchemaTypeOK
  BY DEF SchemaFiles, SchemaIInv
<1>2. writing = f /\ writing' = "exit" /\ status = "none"
        /\ UNCHANGED <<code, hung, schemaUpdated, status, before, dirtyRuns>>
        /\ Kept(f) /\ docsUpdated = ~Found(c) /\ schemaUpdated = ~Found("schema.json")
  BY <1>1, PastFiles DEF SchemaIInv, GenerateFields, FlagsOfRun, Running, FilesOfRun
<1>3. ~failed => Fresh("schema.json") /\ Fresh(c)
  BY <1>2, PastFiles DEF SchemaIInv, FilesOfRun, Running, SchemaFiles
<1>4. /\ disk' \in [SchemaFiles -> Content]
      /\ \A g \in SchemaFiles : g # f => disk'[g] = disk[g]
      /\ failed' \in BOOLEAN /\ (failed => failed')
      /\ disturbed' \in 0..Disturbances
      /\ ~failed' => disk'[f] = code[f] \/ ~Found(c)
      /\ docsUpdated' \in BOOLEAN
      /\ docsUpdated' = ~(Found(c) /\ Found(f))
  <2>1. CASE SkipsFields
    BY <1>1, <1>2, <2>1 DEF GenerateFields, SkipsFields, SchemaTypeOK
  <2>2. CASE ~SkipsFields
    <3>1. Written(f) /\ docsUpdated' = (disk[f] # code[f])
      BY <2>2 DEF GenerateFields, Changed
    <3>2. Found(c) /\ docsUpdated' = ~Found(f)
      BY <1>2, <2>2, <3>1 DEF SkipsFields, Kept, Found
    <3> QED
      BY <1>1, <3>1, <3>2, WrittenLeaves
  <2> QED
    BY <2>1, <2>2
<1>5. SchemaTypeOK'
  BY <1>1, <1>2, <1>4 DEF SchemaTypeOK
<1>6. FilesOfRun'
  BY <1>2, <1>3, <1>4, PastFilesNext DEF FilesOfRun, Fresh, Found, SchemaFiles
<1>7. FlagsOfRun'
  BY <1>2, <1>4, PastFilesNext DEF FlagsOfRun, Found
<1>8. RunsBefore'
  BY <1>2, RunsBeforeStays DEF Running
<1>9. (StatusIsHonest /\ OneFileLeft)'
  BY <1>2 DEF StatusIsHonest, OneFileLeft
<1> QED
  BY <1>5, <1>6, <1>7, <1>8, <1>9 DEF SchemaIInv

\* The exit status: what the flags say about the files is what it says.
LEMMA ExitPreserves == SchemaIInv /\ Exit => SchemaIInv'
<1> SUFFICES ASSUME SchemaIInv, Exit PROVE SchemaIInv'
  OBVIOUS
<1> DEFINE s == "schema.json"
           c == "config_all_options.yaml"
           f == "default_fields.md"
<1>1. SchemaTypeOK /\ SchemaFiles = {s, c, f}
  BY DEF SchemaIInv, SchemaFiles
<1>2. /\ writing = "exit" /\ writing' = "idle"
      /\ UNCHANGED <<code, disk, hung, schemaUpdated, docsUpdated, before, failed, disturbed>>
      /\ status' = IF AnyUpdated THEN "100" ELSE "0"
      /\ dirtyRuns' = IF AnyUpdated /\ ~failed THEN dirtyRuns + 1 ELSE 0
  BY DEF Exit
<1>3. AnyUpdated <=> ~(Found(s) /\ Found(c) /\ Found(f))
  BY <1>2, PastFiles DEF SchemaIInv, FlagsOfRun, AnyUpdated
<1>4. AnyUpdated <=> before # code
  <2>1. before = code <=> \A g \in SchemaFiles : before[g] = code[g]
    BY <1>1 DEF SchemaTypeOK
  <2> QED
    BY <1>1, <1>3, <2>1 DEF Found
<1>5. ~failed => disk[s] = code[s] /\ disk[c] = code[c] /\ (disk[f] = code[f] \/ ~Found(c))
  BY <1>1, <1>2, PastFiles DEF SchemaIInv, FilesOfRun, Running, Fresh
<1>6. SchemaTypeOK'
  BY <1>1, <1>2 DEF SchemaTypeOK
<1>7. (FilesOfRun /\ FlagsOfRun)'
  BY <1>2, PastFilesNext DEF FilesOfRun, FlagsOfRun, Running
<1>8. RunsBefore'
  <2>1. CASE AnyUpdated /\ ~failed
    <3>1. dirtyRuns' = dirtyRuns + 1 /\ dirtyRuns \in Nat /\ dirtyRuns <= 2
      BY <1>1, <1>2, <2>1 DEF SchemaIInv, RunsBefore, SchemaTypeOK
    <3>2. dirtyRuns >= 1 => Found(s) /\ Found(c) /\ (dirtyRuns = 2 => Found(f))
      BY <1>2, <3>1 DEF SchemaIInv, RunsBefore, Running, Found
    <3>3. dirtyRuns # 2
      BY <1>3, <2>1, <3>2
    <3>4. dirtyRuns = 1 => disk[f] = code[f]
      BY <1>5, <2>1, <3>2
    <3> QED
      BY <1>2, <1>5, <2>1, <3>1, <3>3, <3>4 DEF RunsBefore, Running
  <2>2. CASE ~(AnyUpdated /\ ~failed)
    BY <1>2, <2>2 DEF RunsBefore
  <2> QED
    BY <2>1, <2>2
<1>9. StatusIsHonest'
  BY <1>2, <1>4 DEF StatusIsHonest
<1>10. OneFileLeft'
  BY <1>1, <1>2, <1>5 DEF OneFileLeft, Found
<1> QED
  BY <1>6, <1>7, <1>8, <1>9, <1>10 DEF SchemaIInv

LEMMA AbortPreserves == SchemaIInv /\ Abort => SchemaIInv'
<1> SUFFICES ASSUME SchemaIInv, Abort PROVE SchemaIInv'
  OBVIOUS
<1>1. disk' \in [SchemaFiles -> Content]
  <2>1. writing \in SchemaFiles /\ Other \in Content /\ disk \in [SchemaFiles -> Content]
    BY DEF Abort, Content, SchemaIInv, SchemaTypeOK
  <2> QED
    BY <2>1 DEF Abort, FailedWrites
<1>2. SchemaTypeOK'
  <2>1. disturbed' \in 0..Disturbances
    BY SchemaAssumption DEF SchemaIInv, SchemaTypeOK, Abort, Disturb
  <2> QED
    BY <1>1, <2>1 DEF SchemaIInv, SchemaTypeOK, Abort
<1>3. (FilesOfRun /\ FlagsOfRun)'
  BY PastFilesNext DEF Abort, FilesOfRun, FlagsOfRun, Running
<1>4. (RunsBefore /\ StatusIsHonest /\ OneFileLeft)'
  BY DEF Abort, RunsBefore, StatusIsHonest, OneFileLeft
<1> QED
  BY <1>2, <1>3, <1>4 DEF SchemaIInv

LEMMA SchemaStep == SchemaIInv /\ [SchemaNext]_schemaVars => SchemaIInv'
<1> SUFFICES ASSUME SchemaIInv, [SchemaNext]_schemaVars PROVE SchemaIInv'
  OBVIOUS
<1>1. CASE UNCHANGED schemaVars
  BY <1>1 DEF schemaVars, SchemaIInv, SchemaTypeOK, FilesOfRun, FlagsOfRun,
              RunsBefore, StatusIsHonest, OneFileLeft, Running, Past, Kept,
              Fresh, Found
<1> QED
  BY <1>1, EditPreserves, GeneratePreserves, HangPreserves, GenerateSchemaPreserves,
     GenerateConfigPreserves, GenerateFieldsPreserves, ExitPreserves,
     AbortPreserves DEF SchemaNext

\* In every reachable state the inductive invariant holds.
THEOREM SchemaInvariance == SchemaSpec => []SchemaIInv
BY SchemaInitial, SchemaStep, PTL DEF SchemaSpec

\* A run exits with 0 exactly when it found every file up to date, whatever
\* it wrote, skipped or failed to write (main.go, docs.go).
THEOREM ExitStatusIsHonest == SchemaSpec => []StatusIsHonest
<1>1. SchemaIInv => StatusIsHonest
  BY DEF SchemaIInv
<1> QED
  BY <1>1, SchemaInvariance, PTL

\* One run leaves at most default_fields.md behind; after two runs in a row
\* that changed something all files are up to date, and no third one does.
THEOREM TwoRunsSuffice == SchemaSpec => []TwoRunsAreEnough
<1>1. ASSUME SchemaIInv PROVE TwoRunsAreEnough
  <2>1. OneFileLeft /\ dirtyRuns <= 2
    BY <1>1 DEF SchemaIInv, RunsBefore
  <2>2. ASSUME dirtyRuns = 2, status = "100" PROVE disk = code
    <3>1. ~Running
      BY <1>1, <2>2 DEF SchemaIInv, FlagsOfRun
    <3>2. \A f \in SchemaFiles : disk[f] = code[f]
      BY <1>1, <2>2, <3>1 DEF SchemaIInv, RunsBefore, SchemaFiles
    <3> QED
      BY <1>1, <3>2 DEF SchemaIInv, SchemaTypeOK
  <2> QED
    BY <2>1, <2>2 DEF TwoRunsAreEnough
<1> QED
  BY <1>1, SchemaInvariance, PTL
=============================================================================
