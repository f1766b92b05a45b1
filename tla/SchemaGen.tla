------------------------------ MODULE SchemaGen ------------------------------
(***************************************************************************)
(* acars-processor -s, which the pre-commit hook runs: three files are     *)
(* generated from the code (main.go, schema.go, docs.go), each is written  *)
(* by UpdateFile of filesystem.go, and the exit status says whether one    *)
(* has changed.                                                            *)
(*                                                                         *)
(* A file holds what some version of the code generates, something else    *)
(* (an edit, or what a failed write left of it), or does not exist.  The   *)
(* developer changes the code and the files between two runs.              *)
(*                                                                         *)
(* Each file lists the fields of a message, so the run prepares an empty   *)
(* one before it writes the file, and Prepare asks the photo service       *)
(* through a client without a timeout (planespotter.go): the run may wait  *)
(* there for ever.  Only names of fields go into the files, never what the *)
(* service answers.                                                        *)
(***************************************************************************)
EXTENDS Naturals

CONSTANTS
  Generated,    \* what versions of the code generate for a file
  Other,        \* any other content
  Missing,      \* the file does not exist
  Disturbances  \* bound on edits, failing writes and aborted runs

SchemaFiles == {"schema.json", "config_all_options.yaml", "default_fields.md"}

Content == Generated \cup {Other, Missing}

ASSUME SchemaAssumption ==
  /\ Generated # {} /\ Other \notin Generated /\ Missing \notin Generated
  /\ Disturbances \in Nat

VARIABLES
  code,           \* what the code generates for each file
  disk,           \* what is in each file
  writing,        \* the file that is next, "exit", or "idle"
  hung,           \* the photo service does not answer the run
  schemaUpdated,  \* updated in main, after GenerateSchema
  docsUpdated,    \* updated in GenerateDocs
  status,         \* the exit status of the last run, "none" before
  before,         \* history: the files as the run found them, or an edit left them
  failed,         \* history: a write of the run has failed
  dirtyRuns,      \* history: runs in a row that exited with 100, undisturbed
  disturbed       \* history: how many disturbances there were

schemaVars == <<code, disk, writing, hung, schemaUpdated, docsUpdated, status,
                before, failed, dirtyRuns, disturbed>>

SchemaInit ==
  /\ code \in [SchemaFiles -> Generated]
  /\ disk \in [SchemaFiles -> Content]
  /\ writing = "idle" /\ hung = FALSE
  /\ schemaUpdated = FALSE /\ docsUpdated = FALSE
  /\ status = "none"
  /\ before = disk
  /\ failed = FALSE
  /\ dirtyRuns = 0 /\ disturbed = 0

Disturb == disturbed < Disturbances /\ disturbed' = disturbed + 1

-----------------------------------------------------------------------------
\* Code and files are edited between two runs.
Edit ==
  /\ writing = "idle" /\ Disturb
  /\ code' \in [SchemaFiles -> Generated]
  /\ disk' \in [SchemaFiles -> Content]
  /\ dirtyRuns' = 0 /\ status' = "none"
  /\ before' = disk'
  /\ UNCHANGED <<writing, hung, schemaUpdated, docsUpdated, failed>>

\* The -s flag: GenerateSchema is first.
Generate ==
  /\ writing = "idle"
  /\ writing' = "schema.json"
  /\ before' = disk
  /\ schemaUpdated' = FALSE /\ docsUpdated' = FALSE
  /\ failed' = FALSE /\ status' = "none"
  /\ UNCHANGED <<code, disk, hung, dirtyRuns, disturbed>>

\* Prepare, before a file is written: getImageByRegistration gets no answer.
Hang ==
  /\ writing \in SchemaFiles /\ ~hung
  /\ hung' = TRUE
  /\ UNCHANGED <<code, disk, writing, schemaUpdated, docsUpdated, status,
                 before, failed, dirtyRuns, disturbed>>

\* os.WriteFile truncates the file it opens: an error leaves it as it was, or
\* something else in it.
FailedWrites(f) == {disk, [disk EXCEPT ![f] = Other]}

\* UpdateFile writes in any case, and only logs an error.
Written(f) ==
  \/ disk' = [disk EXCEPT ![f] = code[f]] /\ UNCHANGED <<failed, disturbed>>
  \/ disk' \in FailedWrites(f) /\ failed' = TRUE /\ Disturb

Changed(f) == disk[f] # code[f]

GenerateSchema ==
  /\ writing = "schema.json" /\ ~hung
  /\ Written("schema.json")
  /\ schemaUpdated' = Changed("schema.json")
  /\ writing' = "config_all_options.yaml"
  /\ UNCHANGED <<code, hung, docsUpdated, status, before, dirtyRuns>>

GenerateConfig ==
  /\ writing = "config_all_options.yaml" /\ ~hung
  /\ Written("config_all_options.yaml")
  /\ docsUpdated' = Changed("config_all_options.yaml")
  /\ writing' = "default_fields.md"
  /\ UNCHANGED <<code, hung, schemaUpdated, status, before, dirtyRuns>>

BugSkipAfterAny == schemaUpdated \/ docsUpdated

BugAndForOr == ~docsUpdated

\* "updated || UpdateFile(...)": nothing is written once updated is set.
SkipsFields == docsUpdated

GenerateFields ==
  /\ writing = "default_fields.md" /\ ~hung
  /\ IF SkipsFields THEN UNCHANGED <<disk, docsUpdated, failed, disturbed>>
     ELSE Written("default_fields.md") /\ docsUpdated' = Changed("default_fields.md")
  /\ writing' = "exit"
  /\ UNCHANGED <<code, hung, schemaUpdated, status, before, dirtyRuns>>

BugDocsOnly == docsUpdated

\* "updated = GenerateDocs() || updated"
AnyUpdated == docsUpdated \/ schemaUpdated

Exit ==
  /\ writing = "exit"
  /\ status' = IF AnyUpdated THEN "100" ELSE "0"
  /\ dirtyRuns' = IF AnyUpdated /\ ~failed THEN dirtyRuns + 1 ELSE 0
  /\ writing' = "idle"
  /\ UNCHANGED <<code, disk, hung, schemaUpdated, docsUpdated, before, failed, disturbed>>

\* The process ends on the way: it is killed, a file cannot be read, or the
\* comments of the code cannot be.  The file it was at may be cut off, unless
\* the run still waited for the photo service.
Abort ==
  /\ writing \in SchemaFiles /\ Disturb
  /\ disk' \in IF hung THEN {disk} ELSE FailedWrites(writing)
  /\ status' = "aborted" /\ dirtyRuns' = 0
  /\ writing' = "idle" /\ hung' = FALSE
  /\ UNCHANGED <<code, schemaUpdated, docsUpdated, before, failed>>

SchemaNext ==
  \/ Edit \/ Generate \/ Hang \/ GenerateSchema \/ GenerateConfig
  \/ GenerateFields \/ Exit \/ Abort

\* The hook runs again until it succeeds, and a run that is neither aborted nor
\* hung goes on.  Nothing is assumed of the photo service: a run may hang at
\* each file, and nobody has to kill it.
SchemaSpec ==
  /\ SchemaInit /\ [][SchemaNext]_schemaVars
  /\ WF_schemaVars(Generate) /\ WF_schemaVars(Exit)
  /\ WF_schemaVars(GenerateSchema \/ GenerateConfig \/ GenerateFields)

-----------------------------------------------------------------------------
(* Properties.                                                             *)

\* "Files have changed, exiting with nonzero status": whatever is written,
\* skipped or fails to be written, a run exits with 0 exactly when it found
\* every file as the code generates it.
StatusIsHonest ==
  /\ status = "0" => before = code
  /\ status = "100" => before # code

\* A run whose writes succeed leaves every file as the code generates it,
\* except default_fields.md if it had to change config_all_options.yaml.
OneFileLeft ==
  status \in {"0", "100"} /\ ~failed =>
    \A f \in SchemaFiles :
      \/ disk[f] = code[f]
      \/ f = "default_fields.md"
           /\ before["config_all_options.yaml"] # code["config_all_options.yaml"]

\* One run may leave default_fields.md behind and no other file; the second
\* of two runs in a row has all files up to date, so the hook never fails
\* three times in a row for one edit.
TwoRunsAreEnough ==
  /\ OneFileLeft
  /\ dirtyRuns <= 2
  /\ dirtyRuns = 2 /\ status = "100" => disk = code

(***************************************************************************)
(* The inductive invariant: what the flags of a run, and the number of runs*)
(* before it, say about the files.                                         *)
(***************************************************************************)
Fresh(f)   == disk[f] = code[f]
Found(f)   == before[f] = code[f]
Kept(f)    == disk[f] = before[f]
Running    == writing # "idle"
Past(f)    == CASE f = "schema.json" -> writing \notin {"idle", f}
                [] f = "config_all_options.yaml" -> writing \in {"default_fields.md", "exit"}
                [] f = "default_fields.md" -> writing = "exit"

SchemaTypeOK ==
  /\ code \in [SchemaFiles -> Generated]
  /\ disk \in [SchemaFiles -> Content] /\ before \in [SchemaFiles -> Content]
  /\ writing \in SchemaFiles \cup {"idle", "exit"} /\ hung \in BOOLEAN
  /\ schemaUpdated \in BOOLEAN /\ docsUpdated \in BOOLEAN /\ failed \in BOOLEAN
  /\ status \in {"none", "0", "100", "aborted"}
  /\ dirtyRuns \in Nat /\ disturbed \in 0..Disturbances

\* A file that is still to come is as it was found; one that is past is
\* fresh, unless a write failed or default_fields.md was skipped.
FilesOfRun ==
  Running => \A f \in SchemaFiles :
    /\ ~Past(f) => Kept(f)
    /\ Past(f) /\ ~failed =>
         Fresh(f) \/ (f = "default_fields.md" /\ ~Found("config_all_options.yaml"))

FlagsOfRun ==
  /\ Past("schema.json") => schemaUpdated = ~Found("schema.json")
  /\ writing = "default_fields.md" => docsUpdated = ~Found("config_all_options.yaml")
  /\ writing = "exit" =>
       docsUpdated = ~(Found("config_all_options.yaml") /\ Found("default_fields.md"))
  /\ Running => status = "none"

\* What a run that changed something leaves to the next one.
RunsBefore ==
  /\ dirtyRuns <= 2
  /\ dirtyRuns >= 1 => LET S == IF Running THEN before ELSE disk IN
       /\ S["schema.json"] = code["schema.json"]
       /\ S["config_all_options.yaml"] = code["config_all_options.yaml"]
       /\ dirtyRuns = 2 => S["default_fields.md"] = code["default_fields.md"]

\* Everything above, and what the exit status says.
SchemaIInv ==
  /\ SchemaTypeOK /\ FilesOfRun /\ FlagsOfRun /\ RunsBefore
  /\ StatusIsHonest /\ OneFileLeft

\* Once disturbances are over, the hook comes to run without a change, unless
\* a run waits for ever for the photo service (planespotter.go has no timeout).
ComesToRest == <>[](disk = code) \/ <>[]hung
=============================================================================
