------------------------------ MODULE Pipeline ------------------------------
(***************************************************************************)
(* The life of a message in acars-processor: main.go starts the process,   *)
(* db.go reloads what an earlier life left unprocessed, the readers of     *)
(* source_acarshub.go and source_stdin.go save and enqueue what they       *)
(* decode, and the workers of processor.go run the configured steps on     *)
(* each message and mark its row.                                          *)
(*                                                                         *)
(* A message stands for one JSON object on the wire; equal texts received  *)
(* twice are two messages.  What the steps do to it is abstracted to "they *)
(* were run".  The gorm ID of an item is nonzero exactly when its row      *)
(* exists, so an item on a channel is just its message.                    *)
(***************************************************************************)
EXTENDS Naturals, Sequences, FiniteSets, Functions

CONSTANTS
  AcarsMsg, Vdlm2Msg,  \* the messages of each kind; they have a table each
  Worker,              \* worker goroutines: MaxConcurrentRequests, at least 1
  Hung,                \* goroutines whose remote call never returns (may be {})
  Cap,                 \* capacity of a message channel: 10000 in the code
  Configured,          \* the hub sources that have a host and a port
  Interactive,         \* the -i flag: read from standard input only
  DatabaseEnabled, DatabaseType, SQLiteDatabasePath,
  DBFails,             \* the gorm calls that may return an error
  NoMsg                \* held by an actor that has no message in hand

HubSource == {"ACARS", "VDLM2"}
Source    == HubSource \cup {"STDIN"}
Actor     == Source \cup Worker
Msg       == AcarsMsg \cup Vdlm2Msg
Channel   == {"hub", "stdin"}  \* APMessageQueue and STDINAPMessageQueue

ASSUME PipelineAssumption ==
  /\ AcarsMsg \cap Vdlm2Msg = {}
  /\ NoMsg \notin Msg
  /\ Worker # {} /\ IsFiniteSet(Worker) /\ Worker \cap Source = {}
  /\ Hung \subseteq Actor \cup {"main"}
  /\ Cap \in Nat \ {0}
  /\ Configured \subseteq HubSource
  /\ Interactive \in BOOLEAN
  /\ DatabaseEnabled \in BOOLEAN
  /\ DBFails \subseteq {"Find", "Create", "Updates"}

VARIABLES
  main,        \* where the main goroutine is, or "down"
  loading,     \* result rows of LoadSavedMessages' query, not enqueued yet
  db,          \* the row of each message
  queue,       \* the contents of the two channels
  pc, held,    \* where each reader and worker is, and its message in hand
  unsent,      \* messages no reader has decoded yet
  handledNow, handled  \* history: steps run in this life, and ever

vars == <<main, loading, db, queue, pc, held, unsent, handledNow, handled>>

-----------------------------------------------------------------------------
(* The database.                                                           *)

MemoryPath == "file::memory:?cache=shared"

\* InitSQLite: the path that is opened.
SqlitePath ==
  IF ~DatabaseEnabled THEN MemoryPath
  ELSE IF SQLiteDatabasePath # "" THEN SQLiteDatabasePath
  ELSE "./messages.db"

\* Do rows survive the process?  MariaDB is opened whether enabled or not.
Durable == DatabaseType = "mariadb" \/ SqlitePath # MemoryPath

BugReloadDone(K) == {{m \in K : db[m] # "none"}}

BugReloadAcarsTwice(K) == {{m \in AcarsMsg : db[m] = "unprocessed"}}

\* What LoadSavedMessages may find in table K.  The query has no ORDER BY, so
\* the rows are a set: any order of them may come out.  An error of Find is
\* ignored and looks like an empty table.
SavedRows(K) ==
  IF ~DatabaseEnabled THEN {{}}
  ELSE {{m \in K : db[m] = "unprocessed"}}
         \cup (IF "Find" \in DBFails THEN {{}} ELSE {})

\* The result of a Create or Updates whose error nobody looks at.
Outcomes(call, written) ==
  {written} \cup (IF call \in DBFails THEN {db} ELSE {})

-----------------------------------------------------------------------------
(* The channels.                                                           *)

Elems(c) == Range(queue[c])

BugAlwaysRoom(c) == TRUE

\* A send on a full channel blocks its goroutine.
HasRoom(c) == Len(queue[c]) < Cap

Push(c, m) == queue' = [queue EXCEPT ![c] = Append(@, m)]

\* The channel the workers of this life range over, and its readers.
Served == IF Interactive THEN "stdin" ELSE "hub"
Reader == IF Interactive THEN {"STDIN"} ELSE Configured

Feed(r) == CASE r = "ACARS" -> AcarsMsg
             [] r = "VDLM2" -> Vdlm2Msg
             [] r = "STDIN" -> Msg

Goto(a, at) == pc' = [pc EXCEPT ![a] = at]

-----------------------------------------------------------------------------
(* main: start, load, subscribe, stop.                                     *)

Init ==
  /\ main = "down"
  /\ loading = {}
  /\ db = [m \in Msg |-> "none"]
  /\ queue = [c \in Channel |-> <<>>]
  /\ pc = [a \in Actor |-> "off"]
  /\ held = [a \in Actor |-> NoMsg]
  /\ unsent = Msg
  /\ handledNow = {}
  /\ handled = {}

Start ==
  /\ main = "down"
  /\ main' = "loadACARS"
  /\ loading' \in SavedRows(AcarsMsg)
  /\ UNCHANGED <<db, queue, pc, held, unsent, handledNow, handled>>

BugSkipOnFull(m) ==
  /\ main \in {"loadACARS", "loadVDLM2"}
  /\ m \in loading
  /\ IF HasRoom("hub") THEN Push("hub", m) ELSE UNCHANGED queue
  /\ loading' = loading \ {m}
  /\ UNCHANGED <<main, db, pc, held, unsent, handledNow, handled>>

\* One iteration of a load loop.  Saved messages always go to APMessageQueue,
\* and nobody receives from it before Subscribe.
LoadRow(m) ==
  /\ main \in {"loadACARS", "loadVDLM2"}
  /\ m \in loading
  /\ HasRoom("hub")
  /\ Push("hub", m)
  /\ loading' = loading \ {m}
  /\ UNCHANGED <<main, db, pc, held, unsent, handledNow, handled>>

LoadVDLM2 ==
  /\ main = "loadACARS"
  /\ loading = {}
  /\ main' = "loadVDLM2"
  /\ loading' \in SavedRows(Vdlm2Msg)
  /\ UNCHANGED <<db, queue, pc, held, unsent, handledNow, handled>>

\* Launch the readers and the workers of SubscribeToACARSHub or
\* SubscribeToStandardIn; then main waits for a signal.
Subscribe ==
  /\ main = "loadVDLM2"
  /\ loading = {}
  /\ main' = "running"
  /\ pc' = [a \in Actor |->
       IF a \in Worker THEN "idle"
       ELSE IF a \notin Reader THEN "off"
       ELSE IF a = "STDIN" THEN "read" ELSE "dial"]
  /\ UNCHANGED <<loading, db, queue, held, unsent, handledNow, handled>>

\* The end of the process: memory is lost, the channels with it.
Halt ==
  /\ main # "down"
  /\ main' = "down"
  /\ loading' = {}
  /\ db' = IF Durable THEN db ELSE [m \in Msg |-> "none"]
  /\ queue' = [c \in Channel |-> <<>>]
  /\ pc' = [a \in Actor |-> "off"]
  /\ held' = [a \in Actor |-> NoMsg]
  /\ handledNow' = {}
  /\ UNCHANGED <<unsent, handled>>

\* A signal (main returns without draining anything), a kill, a log.Fatal
\* or a panic of any goroutine.
Stop == Halt

-----------------------------------------------------------------------------
(* The readers.                                                            *)

DialOk(r) ==
  /\ pc[r] = "dial"
  /\ Goto(r, "read")
  /\ UNCHANGED <<main, loading, db, queue, held, unsent, handledNow, handled>>

\* The ACARS loop continues after a failed dial, the VDLM2 loop breaks.
DialFail(r) ==
  /\ pc[r] = "dial"
  /\ Goto(r, IF r = "VDLM2" THEN "exited" ELSE "dial")
  /\ UNCHANGED <<main, loading, db, queue, held, unsent, handledNow, handled>>

\* A message that does not decode: the hub readers close and redial.
DecodeError(r) ==
  /\ r \in HubSource
  /\ pc[r] = "read"
  /\ Goto(r, "dial")
  /\ UNCHANGED <<main, loading, db, queue, held, unsent, handledNow, handled>>

\* The standard input reader calls log.Fatal instead.
BadLine ==
  /\ pc["STDIN"] = "read"
  /\ Halt

\* Decode a message that is not blank.
Decode(r, m) ==
  /\ pc[r] = "read"
  /\ m \in unsent \cap Feed(r)
  /\ unsent' = unsent \ {m}
  /\ held' = [held EXCEPT ![r] = m]
  /\ Goto(r, "create")
  /\ UNCHANGED <<main, loading, db, queue, handledNow, handled>>

\* Prepare asks for a photo of the aircraft; then db.Create, its error ignored.
Create(r) ==
  /\ pc[r] = "create"
  /\ db' \in Outcomes("Create", [db EXCEPT ![held[r]] = "unprocessed"])
  /\ Goto(r, "send")
  /\ UNCHANGED <<main, loading, queue, held, unsent, handledNow, handled>>

\* A blocking send on the channel, then the next message.
Enqueue(r) ==
  /\ pc[r] = "send"
  /\ HasRoom(Served)
  /\ Push(Served, held[r])
  /\ held' = [held EXCEPT ![r] = NoMsg]
  /\ Goto(r, "read")
  /\ UNCHANGED <<main, loading, db, unsent, handledNow, handled>>

-----------------------------------------------------------------------------
(* The workers of HandleAPMessageQueue.                                    *)

BugMarkFirst(w) ==
  /\ pc[w] = "idle"
  /\ queue[Served] # <<>>
  /\ held' = [held EXCEPT ![w] = Head(queue[Served])]
  /\ queue' = [queue EXCEPT ![Served] = Tail(@)]
  /\ db' = [db EXCEPT ![Head(queue[Served])] =
              IF @ = "unprocessed" THEN "processed" ELSE @]
  /\ Goto(w, "steps")
  /\ UNCHANGED <<main, loading, unsent, handledNow, handled>>

BugPeek(w) ==
  /\ pc[w] = "idle"
  /\ queue[Served] # <<>>
  /\ held' = [held EXCEPT ![w] = Head(queue[Served])]
  /\ Goto(w, "steps")
  /\ UNCHANGED <<main, loading, db, queue, unsent, handledNow, handled>>

\* Receive the next message from the channel.
Take(w) ==
  /\ pc[w] = "idle"
  /\ queue[Served] # <<>>
  /\ held' = [held EXCEPT ![w] = Head(queue[Served])]
  /\ queue' = [queue EXCEPT ![Served] = Tail(@)]
  /\ Goto(w, "steps")
  /\ UNCHANGED <<main, loading, db, unsent, handledNow, handled>>

\* The loop over config.Steps comes to its end, filtered or not, whatever
\* errors its filters, annotators and receivers returned.
RunSteps(w) ==
  /\ pc[w] = "steps"
  /\ handledNow' = handledNow \cup {held[w]}
  /\ handled' = handled \cup {held[w]}
  /\ Goto(w, "mark")
  /\ UNCHANGED <<main, loading, db, queue, held, unsent>>

\* The row that Updates writes: none without an ID.
Marked(m) ==
  [db EXCEPT ![m] = IF @ = "unprocessed" THEN "processed" ELSE @]

BugReturn(w) ==
  /\ pc[w] = "mark"
  /\ db' \in Outcomes("Updates", Marked(held[w]))
  /\ held' = [held EXCEPT ![w] = NoMsg]
  /\ Goto(w, "off")
  /\ UNCHANGED <<main, loading, queue, unsent, handledNow, handled>>

\* Processed = true and db.Updates, its error ignored; then the next message.
Mark(w) ==
  /\ pc[w] = "mark"
  /\ db' \in Outcomes("Updates", Marked(held[w]))
  /\ held' = [held EXCEPT ![w] = NoMsg]
  /\ Goto(w, "idle")
  /\ UNCHANGED <<main, loading, queue, unsent, handledNow, handled>>

-----------------------------------------------------------------------------
Load == \E m \in Msg : LoadRow(m)

Read(r) ==
  \/ DialOk(r) \/ DialFail(r) \/ DecodeError(r)
  \/ \E m \in Msg : Decode(r, m)
  \/ Create(r) \/ Enqueue(r)

Work(w) == Take(w) \/ RunSteps(w) \/ Mark(w)

Next ==
  \/ Start \/ Load \/ LoadVDLM2 \/ Subscribe \/ Stop \/ BadLine
  \/ \E r \in Source : Read(r)
  \/ \E w \in Worker : Work(w)

Spec == Init /\ [][Next]_vars

(***************************************************************************)
(* Fairness.  A goroutine that can run is eventually run: main while it    *)
(* loads, a reader with a message in hand, and a worker, except where the  *)
(* Hung ones wait for an answer: http.Client has no timeout by default, so *)
(* the steps of a worker end only if the services it calls answer or fail, *)
(* and so does the lookup of a photo in Prepare, which main calls while it *)
(* loads and a reader before it saves.  Nothing obliges the hub to send,   *)
(* the process to be started again, or a signal to come.                   *)
(***************************************************************************)
Fairness ==
  /\ "main" \notin Hung => WF_vars(Load)
  /\ WF_vars(LoadVDLM2) /\ WF_vars(Subscribe)
  /\ \A r \in Source : WF_vars(Enqueue(r))
  /\ \A r \in Source \ Hung : WF_vars(Create(r))
  /\ \A w \in Worker : WF_vars(Take(w)) /\ WF_vars(Mark(w))
  /\ \A w \in Worker \ Hung : WF_vars(RunSteps(w))

FairSpec == Spec /\ Fairness

(***************************************************************************)
(* An assumption on the hub, for the reconnection of the readers: a reader *)
(* that keeps dialling is accepted in the end.                             *)
(***************************************************************************)
HubSpec ==
  FairSpec /\ \A r \in HubSource : WF_vars(DialOk(r) \/ DialFail(r))
                                   /\ SF_vars(DialOk(r))

-----------------------------------------------------------------------------
(* Properties.                                                             *)

\* Every variable has its type, and a channel never exceeds its capacity.
TypeOK ==
  /\ main \in {"down", "loadACARS", "loadVDLM2", "running"}
  /\ loading \subseteq Msg
  /\ db \in [Msg -> {"none", "unprocessed", "processed"}]
  /\ queue \in [Channel -> Seq(Msg)]
  /\ \A c \in Channel : Len(queue[c]) <= Cap
  /\ pc \in [Actor -> {"off", "dial", "read", "create", "send", "exited",
                       "idle", "steps", "mark"}]
  /\ held \in [Actor -> Msg \cup {NoMsg}]
  /\ unsent \subseteq Msg
  /\ handledNow \subseteq Msg
  /\ handled \subseteq Msg

\* Some reader or worker has m in hand, or it waits on a channel.
InHand(m)   == \E a \in Actor : held[a] = m
Queued(m)   == \E c \in Channel : m \in Elems(c)
InMemory(m) == InHand(m) \/ Queued(m)

\* A message is in at most one place of the process: the rows being loaded,
\* one position of one channel, or one goroutine's hands.  Two copies would
\* run its steps, and send it to the receivers, twice.
OneCopy ==
  /\ \A a, b \in Actor : held[a] = held[b] /\ held[a] # NoMsg => a = b
  /\ \A c \in Channel : IsInjective(queue[c])
  /\ Elems("hub") \cap Elems("stdin") = {}
  /\ \A m \in Msg : ~ (InHand(m) /\ Queued(m))
  /\ \A m \in loading : ~ InMemory(m)

\* In one life of the process the steps of a message are run at most once:
\* no message that still has its steps before it has had them already.
HandledOnce ==
  /\ \A c \in Channel : Elems(c) \cap handledNow = {}
  /\ loading \cap handledNow = {}
  /\ \A a \in Actor : held[a] \in handledNow => pc[a] = "mark"

\* While the process runs, every unprocessed row is on its way to a worker,
\* or its steps were run and only the update of the row failed: no saved
\* message is forgotten until the next restart.  (The query of
\* LoadSavedMessages has to succeed: its error is not looked at.)
Accounted ==
  main = "running" /\ DatabaseEnabled /\ "Find" \notin DBFails =>
    \A m \in Msg :
      db[m] = "unprocessed" => InMemory(m) \/ m \in handledNow

\* A row is marked processed only after the steps of its message were run.
ProcessedWasHandled ==
  \A m \in Msg : db[m] = "processed" => m \in handled

\* The rows a running process still owes a run of their steps are never more
\* than the channels, the workers and the readers hold between them: a
\* blocked channel holds the readers back before they save more.  This is
\* also how large a backlog a crash can leave, and it exceeds the Cap that
\* LoadSavedMessages can put on a channel nobody receives from yet.
BacklogBound ==
  main = "running" /\ DatabaseEnabled /\ "Find" \notin DBFails =>
    Cardinality({m \in Msg : db[m] = "unprocessed" /\ m \notin handledNow})
      <= (IF Interactive THEN 2 ELSE 1) * Cap
           + Cardinality(Worker) + Cardinality(Reader)

\* A processed row stays processed, and the steps of its message are never
\* run again: not by a reload, not by a copy that was still on its way.
ProcessedStays ==
  \A m \in Msg : Durable /\ db[m] = "processed" =>
    /\ db'[m] = "processed"
    /\ m \notin handledNow => m \notin handledNow'

ProcessedIsFinal == [][ProcessedStays]_vars

(***************************************************************************)
(* The pipeline keeps the promise of the ledger.                           *)
(***************************************************************************)
StageOf(m) ==
  IF m \in unsent THEN "unseen"
  ELSE IF db[m] = "processed" THEN "done"
  ELSE IF db[m] = "unprocessed" THEN "saved"
  ELSE IF InMemory(m) THEN "volatile" ELSE "gone"

Stages == [m \in Msg |-> StageOf(m)]

Ledger == INSTANCE MessageLedger WITH stage <- Stages

\* Saved messages are handled at least once, and at most once in a life:
\* every step of the pipeline is a step of the ledger or changes nothing in it.
ImplementsLedger == Ledger!Spec

-----------------------------------------------------------------------------
(***************************************************************************)
(* The inductive invariant: what the states of a goroutine, of the main    *)
(* goroutine and of the database have to do with each other.               *)
(***************************************************************************)

\* A goroutine has a message in hand exactly at the places of its code where
\* a message is in scope.
HandsMatchPc ==
  /\ \A r \in Source :
       pc[r] \in {"off", "dial", "read", "create", "send", "exited"}
  /\ \A w \in Worker : pc[w] \in {"off", "idle", "steps", "mark"}
  /\ \A a \in Actor :
       held[a] # NoMsg <=> pc[a] \in {"create", "send", "steps", "mark"}

\* Before Subscribe there are no goroutines and only rows of the database on
\* the hub's channel: those of the table being loaded or loaded before it.
Phases ==
  /\ main # "running" =>
       /\ \A a \in Actor : pc[a] = "off"
       /\ queue["stdin"] = <<>>
       /\ handledNow = {}
  /\ main = "down" => queue["hub"] = <<>>
  /\ main \in {"down", "running"} => loading = {}
  /\ main = "loadACARS" =>
       loading \subseteq AcarsMsg /\ Elems("hub") \subseteq AcarsMsg
  /\ main = "loadVDLM2" => loading \subseteq Vdlm2Msg

\* A message nobody has decoded yet has left no trace.
Untouched ==
  \A m \in unsent : db[m] = "none" /\ ~InMemory(m) /\ m \notin handled

\* The row of a message that is in memory is not marked yet.
RowsOfMemory ==
  /\ \A m \in loading : db[m] = "unprocessed"
  /\ \A m \in Msg : InMemory(m) => db[m] # "processed"
  /\ \A a \in Actor : pc[a] = "create" => db[held[a]] = "none"

\* A worker about to mark a message has run its steps.
MarkedAfterSteps ==
  /\ \A a \in Actor : pc[a] = "mark" => held[a] \in handledNow
  /\ handledNow \subseteq handled

\* Accounted, while the rows are being loaded.
AccountedAtLoad ==
  DatabaseEnabled /\ "Find" \notin DBFails =>
    /\ main = "loadACARS" => \A m \in AcarsMsg :
         db[m] = "unprocessed" => m \in loading \cup Elems("hub")
    /\ main = "loadVDLM2" => \A m \in Msg :
         db[m] = "unprocessed" => m \in loading \cup Elems("hub")

\* Everything above holds in every reachable state, and is kept by every step
\* that starts in a state where it holds.
IInv ==
  /\ TypeOK /\ HandsMatchPc /\ Phases /\ OneCopy /\ Untouched
  /\ RowsOfMemory /\ MarkedAfterSteps /\ HandledOnce
  /\ ProcessedWasHandled /\ AccountedAtLoad /\ Accounted

\* Only the readers that were launched read, and only the channel they feed
\* ever fills: what BacklogBound needs beside IInv.
OnlyServed ==
  /\ \A r \in Source \ Reader : pc[r] = "off"
  /\ ~Interactive => queue["stdin"] = <<>>

-----------------------------------------------------------------------------
(* Liveness.                                                               *)

\* The goroutine that has m waits for an answer that never comes.
HungWith(m) ==
  \E a \in Hung \ {"main"} : held[a] = m /\ pc[a] \in {"create", "steps"}

\* A message some reader has decoded is handled in the end, saved or not,
\* unless the process ends or the reader or its worker hangs: a full channel
\* delays a reader and loses nothing, one responsive worker is enough, and a
\* reader that waits for a photo holds up nobody else's messages.
ReceivedIsHandled ==
  \A m \in Msg : (\E r \in Source : held[r] = m) ~>
    (m \in handledNow \/ main = "down" \/ HungWith(m))

\* LoadSavedMessages is blocked: the channel is full and no worker exists, or
\* the photo of the next row is never answered.
Stalled ==
  /\ main \in {"loadACARS", "loadVDLM2"} /\ loading # {}
  /\ ~HasRoom("hub") \/ "main" \in Hung

\* A row an earlier life left unprocessed is run again by the next life that
\* gets past its startup.
BacklogIsHandled ==
  \A m \in Msg : db[m] = "unprocessed" /\ main = "loadACARS" ~>
    (m \in handledNow \/ main = "down" \/ HungWith(m) \/ Stalled)

\* Startup ends and the workers are launched.
StartupCompletes ==
  main = "loadACARS" ~> main \in {"running", "down"}

\* A reader that lost its connection has one again in the end.
ReadersReconnect ==
  \A r \in HubSource : pc[r] = "dial" ~> pc[r] = "read" \/ main = "down"
=============================================================================
