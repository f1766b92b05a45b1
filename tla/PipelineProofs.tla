--------------------------- MODULE PipelineProofs ---------------------------
(***************************************************************************)
(* Proofs about Pipeline, for any sets of messages and workers, any        *)
(* capacity of the channels, any configuration and any database failures.  *)
(*                                                                         *)
(* The inductive invariant is Pipeline's IInv.  One lemma per action shows *)
(* that the action keeps it; TypeAndOrder below is what every one of them  *)
(* starts from.                                                            *)
(***************************************************************************)
EXTENDS Pipeline, SequenceTheorems, FiniteSetTheorems, TLAPS

-----------------------------------------------------------------------------
(* Sequences without repetition, as the channels are.                      *)

\* Sending an element that is not yet on a channel keeps its elements
\* distinct, and adds just this one.
LEMMA AppendDistinct ==
  ASSUME NEW S, NEW s \in Seq(S), NEW e \in S
  PROVE  /\ Append(s, e) \in Seq(S)
         /\ Len(Append(s, e)) = Len(s) + 1
         /\ Range(Append(s, e)) = Range(s) \cup {e}
         /\ e \notin Range(s) /\ IsInjective(s) => IsInjective(Append(s, e))
<1>1. Append(s, e) \in Seq(S) /\ Len(Append(s, e)) = Len(s) + 1
  BY AppendProperties
<1>2. /\ \A i \in 1..Len(s) : Append(s, e)[i] = s[i]
      /\ Append(s, e)[Len(s) + 1] = e
  BY AppendProperties
<1>3. DOMAIN s = 1..Len(s) /\ DOMAIN Append(s, e) = 1..(Len(s) + 1)
      /\ Len(s) \in Nat
  BY <1>1, LenProperties
<1>4. Range(Append(s, e)) = Range(s) \cup {e}
  BY <1>2, <1>3 DEF Range
<1>5. ASSUME e \notin Range(s), IsInjective(s) PROVE IsInjective(Append(s, e))
  BY <1>2, <1>3, <1>5 DEF Range, IsInjective
<1> QED BY <1>1, <1>4, <1>5

\* Receiving the oldest element of a channel removes it, and only it.
LEMMA TailDistinct ==
  ASSUME NEW S, NEW s \in Seq(S), s # <<>>, IsInjective(s)
  PROVE  /\ Head(s) \in S /\ Head(s) \in Range(s)
         /\ Tail(s) \in Seq(S)
         /\ Len(Tail(s)) = Len(s) - 1
         /\ Range(Tail(s)) = Range(s) \ {Head(s)}
         /\ IsInjective(Tail(s))
<1>1. /\ Head(s) \in S /\ Tail(s) \in Seq(S)
      /\ Len(Tail(s)) = Len(s) - 1
      /\ \A i \in 1..Len(Tail(s)) : Tail(s)[i] = s[i + 1]
  BY HeadTailProperties
<1>2. /\ Len(s) \in Nat \ {0} /\ Head(s) = s[1]
      /\ DOMAIN s = 1..Len(s) /\ DOMAIN Tail(s) = 1..(Len(s) - 1)
  BY <1>1, LenProperties, EmptySeq
<1>3. Head(s) \in Range(s)
  BY <1>2 DEF Range
<1>4. Range(Tail(s)) \subseteq Range(s) \ {Head(s)}
  BY <1>1, <1>2 DEF Range, IsInjective
<1>5. ASSUME NEW x \in Range(s), x # Head(s) PROVE x \in Range(Tail(s))
  <2>1. PICK i \in 1..Len(s) : s[i] = x
    BY <1>2 DEF Range
  <2>2. i - 1 \in 1..Len(Tail(s)) /\ (i - 1) + 1 = i
    BY <2>1, <1>1, <1>2, <1>5
  <2>3. Tail(s)[i - 1] = x
    BY <2>1, <2>2, <1>1
  <2> QED BY <2>2, <2>3, <1>1, <1>2 DEF Range
<1>6. IsInjective(Tail(s))
  BY <1>1, <1>2 DEF IsInjective
<1> QED BY <1>1, <1>3, <1>4, <1>5, <1>6

-----------------------------------------------------------------------------
(* The channels.                                                           *)

\* A message that is on no channel yet is put on one that has room.
LEMMA PushFacts ==
  ASSUME TypeOK, OneCopy, NEW c \in Channel, NEW m \in Msg,
         ~Queued(m), HasRoom(c), Push(c, m)
  PROVE  /\ queue' \in [Channel -> Seq(Msg)]
         /\ \A d \in Channel : Len(queue'[d]) <= Cap
         /\ \A d \in Channel : IsInjective(queue'[d])
         /\ \A d \in Channel \ {c} : queue'[d] = queue[d]
         /\ Elems(c)' = Elems(c) \cup {m}
         /\ \A d \in Channel \ {c} : Elems(d)' = Elems(d)
         /\ (Elems("hub") \cap Elems("stdin") = {})'
         /\ \A x \in Msg : Queued(x)' <=> Queued(x) \/ x = m
<1>1. /\ queue[c] \in Seq(Msg) /\ m \notin Range(queue[c])
      /\ IsInjective(queue[c]) /\ Len(queue[c]) < Cap
  BY DEF TypeOK, OneCopy, Queued, Elems, HasRoom
<1>2. /\ queue' \in [Channel -> Seq(Msg)]
      /\ queue'[c] = Append(queue[c], m)
      /\ \A d \in Channel \ {c} : queue'[d] = queue[d]
  BY <1>1, AppendDistinct DEF TypeOK, Push
<1>3. /\ Len(queue'[c]) = Len(queue[c]) + 1
      /\ Range(queue'[c]) = Range(queue[c]) \cup {m}
      /\ IsInjective(queue'[c])
  BY <1>1, <1>2, AppendDistinct
<1>4. \A d \in Channel : Len(queue'[d]) <= Cap /\ IsInjective(queue'[d])
  <2> TAKE d \in Channel
  <2>1. CASE d = c
    BY <2>1, <1>1, <1>3, LenProperties, PipelineAssumption
  <2>2. CASE d # c
    BY <2>2, <1>2 DEF TypeOK, OneCopy
  <2> QED BY <2>1, <2>2
<1>5. /\ Elems(c)' = Elems(c) \cup {m}
      /\ \A d \in Channel \ {c} : Elems(d)' = Elems(d)
  BY <1>2, <1>3 DEF Elems
<1>6. \A x \in Msg : Queued(x)' <=> Queued(x) \/ x = m
  BY <1>5 DEF Queued
<1>7. (Elems("hub") \cap Elems("stdin") = {})'
  BY <1>5 DEF OneCopy, Queued, Channel
<1> QED BY <1>2, <1>4, <1>5, <1>6, <1>7

\* The oldest message of a channel is taken off it.
LEMMA PopFacts ==
  ASSUME TypeOK, OneCopy, NEW c \in Channel, queue[c] # <<>>,
         queue' = [queue EXCEPT ![c] = Tail(@)]
  PROVE  /\ Head(queue[c]) \in Msg /\ Queued(Head(queue[c]))
         /\ Head(queue[c]) \in Elems(c)
         /\ queue' \in [Channel -> Seq(Msg)]
         /\ \A d \in Channel : Len(queue'[d]) <= Cap
         /\ \A d \in Channel : IsInjective(queue'[d])
         /\ \A d \in Channel : Elems(d)' \subseteq Elems(d)
         /\ \A x \in Msg : Queued(x)' <=> Queued(x) /\ x # Head(queue[c])
<1> DEFINE h == Head(queue[c])
<1>1. /\ queue[c] \in Seq(Msg) /\ IsInjective(queue[c])
      /\ Len(queue[c]) \in Nat /\ Len(queue[c]) <= Cap /\ Cap \in Nat
  BY LenProperties, PipelineAssumption DEF TypeOK, OneCopy
<1>2. /\ h \in Msg /\ h \in Elems(c)
      /\ Tail(queue[c]) \in Seq(Msg)
      /\ Len(Tail(queue[c])) = Len(queue[c]) - 1
      /\ Range(Tail(queue[c])) = Elems(c) \ {h}
      /\ IsInjective(Tail(queue[c]))
  BY <1>1, TailDistinct DEF Elems
<1>3. /\ queue' \in [Channel -> Seq(Msg)]
      /\ queue'[c] = Tail(queue[c])
      /\ \A d \in Channel \ {c} : queue'[d] = queue[d]
  BY <1>2 DEF TypeOK
<1>4. \A d \in Channel : Len(queue'[d]) <= Cap /\ IsInjective(queue'[d])
  <2> TAKE d \in Channel
  <2>1. CASE d = c
    BY <2>1, <1>1, <1>2, <1>3
  <2>2. CASE d # c
    BY <2>2, <1>3 DEF TypeOK, OneCopy
  <2> QED BY <2>1, <2>2
<1>5. /\ Elems(c)' = Elems(c) \ {h}
      /\ \A d \in Channel \ {c} : Elems(d)' = Elems(d) /\ h \notin Elems(d)
  BY <1>2, <1>3 DEF Elems, OneCopy, Channel
<1>6. \A x \in Msg : Queued(x)' <=> Queued(x) /\ x # h
  BY <1>5 DEF Queued
<1> QED BY <1>2, <1>3, <1>4, <1>5, <1>6 DEF Queued

-----------------------------------------------------------------------------
(* The initial state, and the actions of main.                             *)

LEMMA EmptyChannel ==
  ASSUME NEW S
  PROVE  /\ <<>> \in Seq(S) /\ Len(<<>>) = 0
         /\ Range(<<>>) = {} /\ IsInjective(<<>>)
BY EmptySeq, LenProperties DEF Range, IsInjective

LEMMA InitIInv == Init => IInv
<1> SUFFICES ASSUME Init PROVE IInv
  OBVIOUS
<1> USE DEF Init
<1>1. /\ \A c \in Channel : queue[c] = <<>>
      /\ \A c \in Channel : Elems(c) = {} /\ IsInjective(queue[c])
      /\ queue \in [Channel -> Seq(Msg)]
      /\ \A c \in Channel : Len(queue[c]) <= Cap
  BY EmptyChannel, PipelineAssumption DEF Elems
<1>2. \A m \in Msg : ~InMemory(m)
  BY <1>1, PipelineAssumption DEF InMemory, InHand, Queued
<1>3. TypeOK
  BY <1>1 DEF TypeOK
<1>4. HandsMatchPc /\ Phases
  BY <1>1 DEF HandsMatchPc, Phases, Actor, Channel
<1>5. OneCopy
  BY <1>1, <1>2 DEF OneCopy, InMemory, Channel
<1>6. Untouched /\ RowsOfMemory /\ MarkedAfterSteps /\ HandledOnce
  BY <1>1, <1>2 DEF Untouched, RowsOfMemory, MarkedAfterSteps, HandledOnce
<1>7. ProcessedWasHandled /\ AccountedAtLoad /\ Accounted
  BY DEF ProcessedWasHandled, AccountedAtLoad, Accounted
<1> QED BY <1>3, <1>4, <1>5, <1>6, <1>7 DEF IInv

\* The rows a query finds are unprocessed rows of its table, and all of them
\* when the query cannot fail.
LEMMA SavedRowsFacts ==
  ASSUME NEW K, NEW rows \in SavedRows(K)
  PROVE  /\ rows \subseteq {m \in K : db[m] = "unprocessed"}
         /\ DatabaseEnabled /\ "Find" \notin DBFails =>
              rows = {m \in K : db[m] = "unprocessed"}
BY PipelineAssumption DEF SavedRows

LEMMA StartKeeps == IInv /\ Start => IInv'
<1> SUFFICES ASSUME IInv, Start PROVE IInv'
  OBVIOUS
<1> USE DEF IInv, Start
<1>1. /\ loading' \subseteq {m \in AcarsMsg : db[m] = "unprocessed"}
      /\ DatabaseEnabled /\ "Find" \notin DBFails =>
           loading' = {m \in AcarsMsg : db[m] = "unprocessed"}
  BY SavedRowsFacts
<1>2. \A c \in Channel : queue[c] = <<>> /\ Elems(c) = {}
  BY EmptyChannel DEF Phases, Channel, Elems
<1>3. \A m \in Msg : ~InMemory(m)
  BY <1>2, PipelineAssumption
     DEF InMemory, InHand, Queued, HandsMatchPc, Phases
<1>4. (\A c \in Channel : Elems(c)' = Elems(c))
      /\ (\A m \in Msg : InMemory(m)' <=> InMemory(m))
  BY DEF Elems, InMemory, InHand, Queued
<1>5. TypeOK'
  BY <1>1 DEF TypeOK, Msg
<1>6. HandsMatchPc'
  BY DEF HandsMatchPc
<1>7. Phases'
  BY <1>1, <1>2, <1>4 DEF Phases, Channel
<1>8. OneCopy'
  BY <1>1, <1>3, <1>4 DEF OneCopy, InMemory, InHand, Queued, Msg, Channel
<1>9. Untouched' /\ RowsOfMemory'
  BY <1>1, <1>4 DEF Untouched, RowsOfMemory, TypeOK
<1>10. MarkedAfterSteps' /\ HandledOnce'
  BY <1>4 DEF MarkedAfterSteps, HandledOnce, Phases
<1>11. ProcessedWasHandled' /\ AccountedAtLoad' /\ Accounted'
  BY <1>1 DEF ProcessedWasHandled, AccountedAtLoad, Accounted
<1> QED BY <1>5, <1>6, <1>7, <1>8, <1>9, <1>10, <1>11

LEMMA LoadRowKeeps == ASSUME NEW m \in Msg PROVE IInv /\ LoadRow(m) => IInv'
<1> SUFFICES ASSUME IInv, LoadRow(m) PROVE IInv'
  OBVIOUS
<1> USE DEF IInv, LoadRow
<1>1. /\ "hub" \in Channel /\ "stdin" \in Channel
      /\ m \in loading /\ db[m] = "unprocessed" /\ ~InMemory(m) /\ ~Queued(m)
  BY DEF Channel, OneCopy, RowsOfMemory, InMemory
<1>2. /\ queue' \in [Channel -> Seq(Msg)]
      /\ \A d \in Channel : Len(queue'[d]) <= Cap /\ IsInjective(queue'[d])
      /\ queue'["stdin"] = queue["stdin"]
      /\ Elems("hub")' = Elems("hub") \cup {m}
      /\ Elems("stdin")' = Elems("stdin")
      /\ (Elems("hub") \cap Elems("stdin") = {})'
      /\ \A x \in Msg : Queued(x)' <=> Queued(x) \/ x = m
  BY <1>1, PushFacts DEF Channel
<1>3. \A x \in Msg : InHand(x)' <=> InHand(x)
  BY DEF InHand
<1>4. \A x \in Msg : InMemory(x)' <=> InMemory(x) \/ x = m
  BY <1>2, <1>3 DEF InMemory
<1>5. TypeOK'
  BY <1>2 DEF TypeOK
<1>6. HandsMatchPc'
  BY DEF HandsMatchPc
<1>7. Phases'
  BY <1>2 DEF Phases
<1>8. OneCopy'
  BY <1>1, <1>2, <1>3, <1>4 DEF OneCopy, TypeOK, InMemory
<1>9. Untouched' /\ RowsOfMemory'
  BY <1>1, <1>4 DEF Untouched, RowsOfMemory, TypeOK
<1>10. MarkedAfterSteps' /\ HandledOnce'
  BY <1>1, <1>2 DEF MarkedAfterSteps, HandledOnce, Channel
<1>11. ProcessedWasHandled' /\ AccountedAtLoad' /\ Accounted'
  BY <1>2 DEF ProcessedWasHandled, AccountedAtLoad, Accounted
<1> QED BY <1>5, <1>6, <1>7, <1>8, <1>9, <1>10, <1>11

LEMMA LoadVDLM2Keeps == IInv /\ LoadVDLM2 => IInv'
<1> SUFFICES ASSUME IInv, LoadVDLM2 PROVE IInv'
  OBVIOUS
<1> USE DEF IInv, LoadVDLM2
<1>1. /\ loading' \subseteq {m \in Vdlm2Msg : db[m] = "unprocessed"}
      /\ DatabaseEnabled /\ "Find" \notin DBFails =>
           loading' = {m \in Vdlm2Msg : db[m] = "unprocessed"}
  BY SavedRowsFacts
<1>2. /\ \A c \in Channel : Elems(c)' = Elems(c)
      /\ \A m \in Msg : InMemory(m)' <=> InMemory(m)
  BY DEF Elems, InMemory, InHand, Queued
<1>3. \A m \in Vdlm2Msg : ~InMemory(m)
  BY PipelineAssumption, EmptyChannel
     DEF InMemory, InHand, Queued, HandsMatchPc, Phases, Elems, Channel, Msg
<1>4. TypeOK'
  BY <1>1 DEF TypeOK, Msg
<1>5. HandsMatchPc'
  BY DEF HandsMatchPc
<1>6. Phases'
  BY <1>1 DEF Phases
<1>7. OneCopy'
  BY <1>1, <1>2, <1>3 DEF OneCopy, InMemory, InHand, Queued, Msg, Channel
<1>8. Untouched' /\ RowsOfMemory'
  BY <1>1, <1>2 DEF Untouched, RowsOfMemory, TypeOK, Msg
<1>9. MarkedAfterSteps' /\ HandledOnce'
  BY <1>2 DEF MarkedAfterSteps, HandledOnce, Phases
<1>10. AccountedAtLoad'
  <2> SUFFICES ASSUME DatabaseEnabled, "Find" \notin DBFails,
                      NEW m \in Msg, db[m] = "unprocessed"
               PROVE  m \in loading' \cup Elems("hub")'
    BY DEF AccountedAtLoad
  <2>1. CASE m \in AcarsMsg
    BY <2>1, <1>2 DEF AccountedAtLoad, Channel
  <2>2. CASE m \in Vdlm2Msg
    BY <2>2, <1>1
  <2> QED BY <2>1, <2>2 DEF Msg
<1>11. ProcessedWasHandled' /\ Accounted'
  BY DEF ProcessedWasHandled, Accounted
<1> QED BY <1>4, <1>5, <1>6, <1>7, <1>8, <1>9, <1>10, <1>11

LEMMA SubscribeKeeps == IInv /\ Subscribe => IInv'
<1> SUFFICES ASSUME IInv, Subscribe PROVE IInv'
  OBVIOUS
<1> USE DEF IInv, Subscribe
<1>1. /\ \A c \in Channel : Elems(c)' = Elems(c)
      /\ \A m \in Msg : InMemory(m)' <=> InMemory(m)
      /\ \A m \in Msg : InHand(m)' <=> InHand(m)
      /\ \A m \in Msg : Queued(m)' <=> Queued(m)
  BY DEF Elems, InMemory, InHand, Queued
<1>2. /\ pc' \in [Actor -> {"off", "idle", "read", "dial"}]
      /\ \A r \in Source : pc'[r] \in {"off", "read", "dial"}
      /\ \A w \in Worker : pc'[w] \in {"off", "idle"}
  BY PipelineAssumption DEF Actor
<1>3. TypeOK'
  BY <1>2 DEF TypeOK
<1>4. HandsMatchPc'
  BY <1>2 DEF HandsMatchPc, Phases
<1>5. Phases'
  BY DEF Phases
<1>6. OneCopy'
  BY <1>1 DEF OneCopy, Channel
<1>7. Untouched' /\ RowsOfMemory'
  BY <1>1, <1>2 DEF Untouched, RowsOfMemory, TypeOK
<1>8. MarkedAfterSteps' /\ HandledOnce'
  BY <1>1, <1>2, PipelineAssumption
     DEF MarkedAfterSteps, HandledOnce, Phases
<1>9. ProcessedWasHandled' /\ AccountedAtLoad' /\ Accounted'
  BY <1>1 DEF ProcessedWasHandled, AccountedAtLoad, Accounted, InMemory,
              Queued, Channel
<1> QED BY <1>3, <1>4, <1>5, <1>6, <1>7, <1>8, <1>9

LEMMA HaltKeeps == IInv /\ Halt => IInv'
<1> SUFFICES ASSUME IInv, Halt PROVE IInv'
  OBVIOUS
<1> USE DEF IInv, Halt
<1>1. /\ \A c \in Channel : queue'[c] = <<>>
      /\ \A c \in Channel : Elems(c)' = {} /\ IsInjective(queue'[c])
      /\ queue' \in [Channel -> Seq(Msg)]
      /\ \A c \in Channel : Len(queue'[c]) <= Cap
  BY EmptyChannel, PipelineAssumption DEF Elems
<1>2. \A m \in Msg : ~InMemory(m)'
  BY <1>1, PipelineAssumption DEF InMemory, InHand, Queued
<1>3. /\ db' \in [Msg -> {"none", "unprocessed", "processed"}]
      /\ \A m \in Msg : db'[m] = db[m] \/ db'[m] = "none"
  BY DEF TypeOK
<1>4. TypeOK'
  BY <1>1, <1>3 DEF TypeOK
<1>5. HandsMatchPc' /\ Phases'
  BY <1>1 DEF HandsMatchPc, Phases, Actor, Channel
<1>6. OneCopy'
  BY <1>1, <1>2 DEF OneCopy, InMemory, Channel
<1>7. Untouched' /\ RowsOfMemory' /\ MarkedAfterSteps' /\ HandledOnce'
  BY <1>1, <1>2, <1>3, PipelineAssumption
     DEF Untouched, RowsOfMemory, MarkedAfterSteps, HandledOnce, TypeOK
<1>8. ProcessedWasHandled' /\ AccountedAtLoad' /\ Accounted'
  BY <1>3 DEF ProcessedWasHandled, AccountedAtLoad, Accounted
<1> QED BY <1>4, <1>5, <1>6, <1>7, <1>8

-----------------------------------------------------------------------------
(* The readers.  Each of these steps is one of a running process.          *)

\* A goroutine exists only while the process runs.
LEMMA ActorRuns ==
  ASSUME IInv, NEW a \in Actor, pc[a] # "off"
  PROVE  main = "running" /\ loading = {}
BY DEF IInv, Phases, TypeOK

\* A step that only moves a goroutine without a message to another place
\* where it has none.
LEMMA MoveKeeps ==
  ASSUME NEW r \in Source, NEW at \in {"dial", "read", "exited"}, IInv,
         pc[r] \in {"dial", "read"}, Goto(r, at),
         UNCHANGED <<main, loading, db, queue, held, unsent,
                     handledNow, handled>>
  PROVE  IInv'
<1> USE DEF IInv, Goto
<1>1. /\ r \in Actor /\ r \notin Worker
      /\ main = "running" /\ loading = {}
  BY PipelineAssumption, ActorRuns DEF Actor
<1>2. /\ pc' \in [Actor -> {"off", "dial", "read", "create", "send", "exited",
                            "idle", "steps", "mark"}]
      /\ pc'[r] = at /\ \A a \in Actor \ {r} : pc'[a] = pc[a]
  BY <1>1 DEF TypeOK
<1>3. /\ \A c \in Channel : Elems(c)' = Elems(c)
      /\ \A m \in Msg : InMemory(m)' <=> InMemory(m)
      /\ \A m \in Msg : InHand(m)' <=> InHand(m)
      /\ \A m \in Msg : Queued(m)' <=> Queued(m)
  BY DEF Elems, InMemory, InHand, Queued
<1>4. TypeOK'
  BY <1>2 DEF TypeOK
<1>5. HandsMatchPc'
  BY <1>1, <1>2 DEF HandsMatchPc, Actor
<1>6. Phases'
  BY <1>1 DEF Phases
<1>7. OneCopy'
  BY <1>1, <1>3 DEF OneCopy, Channel
<1>8. Untouched' /\ RowsOfMemory' /\ MarkedAfterSteps'
  BY <1>2, <1>3 DEF Untouched, RowsOfMemory, TypeOK, MarkedAfterSteps
<1>9. HandledOnce'
  BY <1>1, <1>2, <1>3, PipelineAssumption
     DEF HandledOnce, HandsMatchPc, TypeOK
<1>10. ProcessedWasHandled' /\ AccountedAtLoad' /\ Accounted'
  BY <1>1, <1>3 DEF ProcessedWasHandled, AccountedAtLoad, Accounted
<1> QED BY <1>4, <1>5, <1>6, <1>7, <1>8, <1>9, <1>10

LEMMA DialsKeep ==
  ASSUME NEW r \in Source
  PROVE  IInv /\ (DialOk(r) \/ DialFail(r) \/ DecodeError(r)) => IInv'
BY MoveKeeps DEF DialOk, DialFail, DecodeError

LEMMA DecodeKeeps ==
  ASSUME NEW r \in Source, NEW m \in Msg
  PROVE  IInv /\ Decode(r, m) => IInv'
<1> SUFFICES ASSUME IInv, Decode(r, m) PROVE IInv'
  OBVIOUS
<1> USE DEF IInv, Decode, Goto
<1>1. /\ r \in Actor /\ r \notin Worker
      /\ main = "running" /\ held[r] = NoMsg /\ m # NoMsg
      /\ m \in unsent /\ db[m] = "none" /\ ~InMemory(m) /\ m \notin handled
  BY PipelineAssumption, ActorRuns DEF Actor, HandsMatchPc, Untouched
<1>2. /\ pc'[r] = "create" /\ \A a \in Actor \ {r} : pc'[a] = pc[a]
      /\ held'[r] = m /\ \A a \in Actor \ {r} : held'[a] = held[a]
  BY <1>1 DEF TypeOK
<1>3. /\ \A c \in Channel : Elems(c)' = Elems(c)
      /\ \A x \in Msg : Queued(x)' <=> Queued(x)
      /\ \A x \in Msg : InHand(x)' <=> InHand(x) \/ x = m
  BY <1>1, <1>2, PipelineAssumption DEF Elems, InHand, Queued
<1>4. \A x \in Msg : InMemory(x)' <=> InMemory(x) \/ x = m
  BY <1>3 DEF InMemory
<1>5. TypeOK'
  BY <1>1 DEF TypeOK
<1>6. HandsMatchPc'
  BY <1>1, <1>2 DEF HandsMatchPc, Actor
<1>7. Phases'
  BY <1>1 DEF Phases
<1>8. OneCopy'
  <2>1. \A a \in Actor \ {r} : held[a] # m
    BY <1>1 DEF InMemory, InHand
  <2>2. \A a, b \in Actor : held'[a] = held'[b] /\ held'[a] # NoMsg => a = b
    BY <1>2, <2>1 DEF OneCopy
  <2>3. \A x \in Msg : ~(InHand(x)' /\ Queued(x)')
    BY <1>1, <1>3 DEF OneCopy, InMemory
  <2>4. \A x \in loading : ~InMemory(x)'
    BY <1>1, ActorRuns
  <2> QED BY <1>3, <2>2, <2>3, <2>4 DEF OneCopy, Channel
<1>9. Untouched'
  BY <1>4 DEF Untouched, TypeOK
<1>10. RowsOfMemory' /\ MarkedAfterSteps'
  BY <1>1, <1>2, <1>4 DEF RowsOfMemory, MarkedAfterSteps
<1>11. HandledOnce'
  BY <1>1, <1>2, <1>3 DEF HandledOnce, MarkedAfterSteps
<1>12. ProcessedWasHandled' /\ AccountedAtLoad' /\ Accounted'
  BY <1>1, <1>4 DEF ProcessedWasHandled, AccountedAtLoad, Accounted
<1> QED BY <1>5, <1>6, <1>7, <1>8, <1>9, <1>10, <1>11, <1>12

LEMMA CreateKeeps == ASSUME NEW r \in Source PROVE IInv /\ Create(r) => IInv'
<1> SUFFICES ASSUME IInv, Create(r) PROVE IInv'
  OBVIOUS
<1> USE DEF IInv, Create, Goto
<1>1. /\ r \in Actor /\ r \notin Worker
      /\ main = "running" /\ loading = {}
      /\ held[r] \in Msg /\ InHand(held[r])
      /\ db[held[r]] = "none"
  BY PipelineAssumption, ActorRuns
     DEF Actor, HandsMatchPc, TypeOK, RowsOfMemory, InHand
<1>2. /\ pc'[r] = "send" /\ \A a \in Actor \ {r} : pc'[a] = pc[a]
  BY <1>1 DEF TypeOK
<1>3. /\ db' \in [Msg -> {"none", "unprocessed", "processed"}]
      /\ \A x \in Msg : x # held[r] => db'[x] = db[x]
      /\ db'[held[r]] \in {"none", "unprocessed"}
  BY <1>1 DEF Outcomes, TypeOK
<1>4. /\ \A c \in Channel : Elems(c)' = Elems(c)
      /\ \A m \in Msg : InMemory(m)' <=> InMemory(m)
      /\ \A m \in Msg : InHand(m)' <=> InHand(m)
      /\ \A m \in Msg : Queued(m)' <=> Queued(m)
  BY DEF Elems, InMemory, InHand, Queued
<1>5. TypeOK'
  BY <1>1, <1>3 DEF TypeOK
<1>6. HandsMatchPc'
  BY <1>1, <1>2 DEF HandsMatchPc, Actor
<1>7. Phases'
  BY <1>1 DEF Phases
<1>8. OneCopy'
  BY <1>1, <1>4 DEF OneCopy, Channel
<1>9. Untouched'
  BY <1>1, <1>3, <1>4 DEF Untouched, TypeOK, InMemory
<1>10. RowsOfMemory'
  <2>1. ASSUME NEW a \in Actor, pc'[a] = "create" PROVE db'[held[a]] = "none"
    <3>1. a # r /\ pc[a] = "create"
      BY <2>1, <1>2
    <3>2. held[a] \in Msg /\ held[a] # held[r] /\ db[held[a]] = "none"
      BY <3>1, <1>1, PipelineAssumption
         DEF HandsMatchPc, OneCopy, RowsOfMemory, TypeOK
    <3> QED BY <3>2, <1>3
  <2> QED BY <2>1, <1>1, <1>3, <1>4 DEF RowsOfMemory
<1>11. MarkedAfterSteps' /\ HandledOnce'
  BY <1>1, <1>2, <1>4 DEF MarkedAfterSteps, HandledOnce
<1>12. ProcessedWasHandled'
  BY <1>1, <1>3 DEF ProcessedWasHandled
<1>13. AccountedAtLoad' /\ Accounted'
  BY <1>1, <1>3, <1>4 DEF AccountedAtLoad, Accounted, InMemory
<1> QED BY <1>5, <1>6, <1>7, <1>8, <1>9, <1>10, <1>11, <1>12, <1>13

LEMMA EnqueueKeeps == ASSUME NEW r \in Source PROVE IInv /\ Enqueue(r) => IInv'
<1> SUFFICES ASSUME IInv, Enqueue(r) PROVE IInv'
  OBVIOUS
<1> DEFINE m == held[r]
<1> USE DEF IInv, Enqueue, Goto
<1>1. /\ r \in Actor /\ r \notin Worker
      /\ main = "running" /\ loading = {}
      /\ m \in Msg /\ m # NoMsg /\ InHand(m) /\ ~Queued(m)
      /\ m \notin handledNow
      /\ Served \in Channel
  BY PipelineAssumption, ActorRuns
     DEF Actor, HandsMatchPc, TypeOK, OneCopy, InHand, HandledOnce,
         Served, Channel
<1>2. /\ pc'[r] = "read" /\ \A a \in Actor \ {r} : pc'[a] = pc[a]
      /\ held'[r] = NoMsg /\ \A a \in Actor \ {r} : held'[a] = held[a]
  BY <1>1 DEF TypeOK
<1>3. /\ queue' \in [Channel -> Seq(Msg)]
      /\ \A d \in Channel : Len(queue'[d]) <= Cap /\ IsInjective(queue'[d])
      /\ Elems(Served)' = Elems(Served) \cup {m}
      /\ \A d \in Channel \ {Served} : Elems(d)' = Elems(d)
      /\ (Elems("hub") \cap Elems("stdin") = {})'
      /\ \A x \in Msg : Queued(x)' <=> Queued(x) \/ x = m
  BY <1>1, PushFacts
<1>4. \A x \in Msg : InHand(x)' <=> InHand(x) /\ x # m
  BY <1>1, <1>2, PipelineAssumption DEF InHand, OneCopy
<1>5. \A x \in Msg : InMemory(x)' <=> InMemory(x)
  BY <1>1, <1>3, <1>4 DEF InMemory
<1>6. TypeOK'
  BY <1>1, <1>3 DEF TypeOK
<1>7. HandsMatchPc'
  BY <1>1, <1>2 DEF HandsMatchPc, Actor
<1>8. Phases'
  BY <1>1 DEF Phases
<1>9. OneCopy'
  <2>1. \A a, b \in Actor : held'[a] = held'[b] /\ held'[a] # NoMsg => a = b
    BY <1>2 DEF OneCopy
  <2>2. \A x \in Msg : ~(InHand(x)' /\ Queued(x)')
    BY <1>3, <1>4 DEF OneCopy
  <2> QED BY <1>1, <1>3, <2>1, <2>2 DEF OneCopy
<1>10. Untouched'
  BY <1>5 DEF Untouched, TypeOK
<1>11. RowsOfMemory' /\ MarkedAfterSteps'
  BY <1>1, <1>2, <1>5 DEF RowsOfMemory, MarkedAfterSteps
<1>12. HandledOnce'
  <2>1. \A c \in Channel : Elems(c)' \cap handledNow = {}
    BY <1>1, <1>3 DEF HandledOnce
  <2>2. \A a \in Actor : held'[a] \in handledNow => pc'[a] = "mark"
    BY <1>2, PipelineAssumption DEF HandledOnce, TypeOK
  <2> QED BY <1>1, <2>1, <2>2 DEF HandledOnce
<1>13. ProcessedWasHandled' /\ AccountedAtLoad' /\ Accounted'
  BY <1>1, <1>5 DEF ProcessedWasHandled, AccountedAtLoad, Accounted
<1> QED BY <1>6, <1>7, <1>8, <1>9, <1>10, <1>11, <1>12, <1>13

-----------------------------------------------------------------------------
(* The workers.                                                            *)

LEMMA TakeKeeps == ASSUME NEW w \in Worker PROVE IInv /\ Take(w) => IInv'
<1> SUFFICES ASSUME IInv, Take(w) PROVE IInv'
  OBVIOUS
<1> DEFINE m == Head(queue[Served])
<1> USE DEF IInv, Take, Goto
<1>1. /\ w \in Actor /\ w \notin Source
      /\ main = "running" /\ loading = {} /\ held[w] = NoMsg
      /\ Served \in Channel
  BY PipelineAssumption, ActorRuns DEF Actor, HandsMatchPc, Served, Channel
<1>2. /\ m \in Msg /\ Queued(m) /\ m \in Elems(Served)
      /\ queue' \in [Channel -> Seq(Msg)]
      /\ \A d \in Channel : Len(queue'[d]) <= Cap /\ IsInjective(queue'[d])
      /\ \A d \in Channel : Elems(d)' \subseteq Elems(d)
      /\ \A x \in Msg : Queued(x)' <=> Queued(x) /\ x # m
  BY <1>1, PopFacts
<1>3. /\ pc'[w] = "steps" /\ \A a \in Actor \ {w} : pc'[a] = pc[a]
      /\ held'[w] = m /\ \A a \in Actor \ {w} : held'[a] = held[a]
      /\ m # NoMsg /\ ~InHand(m) /\ m \notin handledNow /\ InMemory(m)
  BY <1>1, <1>2, PipelineAssumption DEF TypeOK, OneCopy, HandledOnce, InMemory
<1>4. \A x \in Msg : InHand(x)' <=> InHand(x) \/ x = m
  BY <1>1, <1>3, PipelineAssumption DEF InHand
<1>5. \A x \in Msg : InMemory(x)' <=> InMemory(x)
  BY <1>2, <1>3, <1>4 DEF InMemory
<1>6. TypeOK'
  BY <1>1, <1>2 DEF TypeOK
<1>7. HandsMatchPc'
  BY <1>1, <1>3 DEF HandsMatchPc, Actor
<1>8. Phases'
  BY <1>1 DEF Phases
<1>9. OneCopy'
  <2>1. \A a, b \in Actor : held'[a] = held'[b] /\ held'[a] # NoMsg => a = b
    BY <1>3 DEF OneCopy, InHand
  <2>2. \A x \in Msg : ~(InHand(x)' /\ Queued(x)')
    BY <1>2, <1>4 DEF OneCopy
  <2>3. (Elems("hub") \cap Elems("stdin") = {})'
    BY <1>2 DEF OneCopy, Channel
  <2> QED BY <1>1, <1>2, <2>1, <2>2, <2>3 DEF OneCopy
<1>10. Untouched'
  BY <1>5 DEF Untouched, TypeOK
<1>11. RowsOfMemory' /\ MarkedAfterSteps'
  BY <1>1, <1>3, <1>5 DEF RowsOfMemory, MarkedAfterSteps
<1>12. HandledOnce'
  BY <1>1, <1>2, <1>3 DEF HandledOnce
<1>13. ProcessedWasHandled' /\ AccountedAtLoad' /\ Accounted'
  BY <1>1, <1>5 DEF ProcessedWasHandled, AccountedAtLoad, Accounted
<1> QED BY <1>6, <1>7, <1>8, <1>9, <1>10, <1>11, <1>12, <1>13

LEMMA RunStepsKeeps ==
  ASSUME NEW w \in Worker PROVE IInv /\ RunSteps(w) => IInv'
<1> SUFFICES ASSUME IInv, RunSteps(w) PROVE IInv'
  OBVIOUS
<1> DEFINE m == held[w]
<1> USE DEF IInv, RunSteps, Goto
<1>1. /\ w \in Actor /\ w \notin Source
      /\ main = "running" /\ loading = {}
      /\ m \in Msg /\ m # NoMsg /\ InHand(m) /\ InMemory(m) /\ ~Queued(m)
      /\ m \notin unsent
  BY PipelineAssumption, ActorRuns
     DEF Actor, HandsMatchPc, TypeOK, OneCopy, InHand, InMemory, Untouched
<1>2. pc'[w] = "mark" /\ \A a \in Actor \ {w} : pc'[a] = pc[a]
  BY <1>1 DEF TypeOK
<1>3. /\ \A c \in Channel : Elems(c)' = Elems(c)
      /\ \A x \in Msg : InMemory(x)' <=> InMemory(x)
      /\ \A x \in Msg : InHand(x)' <=> InHand(x)
      /\ \A x \in Msg : Queued(x)' <=> Queued(x)
  BY DEF Elems, InMemory, InHand, Queued
<1>4. TypeOK'
  BY <1>1 DEF TypeOK
<1>5. HandsMatchPc'
  BY <1>1, <1>2 DEF HandsMatchPc, Actor
<1>6. Phases'
  BY <1>1 DEF Phases
<1>7. OneCopy'
  BY <1>1, <1>3 DEF OneCopy, Channel
<1>8. Untouched' /\ RowsOfMemory'
  BY <1>1, <1>2, <1>3 DEF Untouched, RowsOfMemory, TypeOK
<1>9. MarkedAfterSteps'
  BY <1>1, <1>2 DEF MarkedAfterSteps
<1>10. HandledOnce'
  <2>1. \A c \in Channel : Elems(c)' \cap handledNow' = {}
    BY <1>1, <1>3 DEF HandledOnce, Queued
  <2>2. \A a \in Actor : held[a] \in handledNow' => pc'[a] = "mark"
    BY <1>1, <1>2 DEF HandledOnce, OneCopy
  <2> QED BY <1>1, <2>1, <2>2 DEF HandledOnce
<1>11. ProcessedWasHandled' /\ AccountedAtLoad' /\ Accounted'
  BY <1>1, <1>3 DEF ProcessedWasHandled, AccountedAtLoad, Accounted
<1> QED BY <1>4, <1>5, <1>6, <1>7, <1>8, <1>9, <1>10, <1>11

LEMMA MarkKeeps == ASSUME NEW w \in Worker PROVE IInv /\ Mark(w) => IInv'
<1> SUFFICES ASSUME IInv, Mark(w) PROVE IInv'
  OBVIOUS
<1> DEFINE m == held[w]
<1> USE DEF IInv, Mark, Goto
<1>1. /\ w \in Actor /\ w \notin Source
      /\ main = "running" /\ loading = {}
      /\ m \in Msg /\ m # NoMsg /\ InHand(m) /\ ~Queued(m)
      /\ m \in handledNow /\ m \in handled
  BY PipelineAssumption, ActorRuns
     DEF Actor, HandsMatchPc, TypeOK, OneCopy, InHand, MarkedAfterSteps
<1>2. /\ pc'[w] = "idle" /\ \A a \in Actor \ {w} : pc'[a] = pc[a]
      /\ held'[w] = NoMsg /\ \A a \in Actor \ {w} : held'[a] = held[a]
  BY <1>1 DEF TypeOK
<1>3. /\ db' \in [Msg -> {"none", "unprocessed", "processed"}]
      /\ \A x \in Msg : x # m => db'[x] = db[x]
      /\ db'[m] = "unprocessed" => db[m] = "unprocessed"
  BY <1>1 DEF Outcomes, Marked, TypeOK
<1>4. /\ \A c \in Channel : Elems(c)' = Elems(c)
      /\ \A x \in Msg : Queued(x)' <=> Queued(x)
      /\ \A x \in Msg : InHand(x)' <=> InHand(x) /\ x # m
  BY <1>1, <1>2, PipelineAssumption DEF Elems, InHand, Queued, OneCopy
<1>5. \A x \in Msg : InMemory(x)' <=> InMemory(x) /\ x # m
  BY <1>1, <1>4 DEF InMemory
<1>6. TypeOK'
  BY <1>1, <1>3 DEF TypeOK
<1>7. HandsMatchPc'
  BY <1>1, <1>2 DEF HandsMatchPc, Actor
<1>8. Phases'
  BY <1>1 DEF Phases
<1>9. OneCopy'
  <2>1. \A a, b \in Actor : held'[a] = held'[b] /\ held'[a] # NoMsg => a = b
    BY <1>2 DEF OneCopy
  <2>2. \A x \in Msg : ~(InHand(x)' /\ Queued(x)')
    BY <1>4 DEF OneCopy
  <2> QED BY <1>1, <1>4, <2>1, <2>2 DEF OneCopy, Channel
<1>10. Untouched'
  BY <1>1, <1>3, <1>5 DEF Untouched, TypeOK
<1>11. RowsOfMemory'
  <2>1. ASSUME NEW a \in Actor, pc'[a] = "create" PROVE db'[held'[a]] = "none"
    <3>1. a # w /\ pc[a] = "create"
      BY <2>1, <1>2
    <3>2. held[a] \in Msg /\ held[a] # m /\ db[held[a]] = "none"
      BY <3>1, <1>1, PipelineAssumption
         DEF HandsMatchPc, OneCopy, RowsOfMemory, TypeOK
    <3> QED BY <3>1, <3>2, <1>2, <1>3
  <2> QED BY <2>1, <1>1, <1>3, <1>5 DEF RowsOfMemory
<1>12. MarkedAfterSteps'
  BY <1>1, <1>2 DEF MarkedAfterSteps
<1>13. HandledOnce'
  BY <1>1, <1>2, <1>4, PipelineAssumption DEF HandledOnce, TypeOK
<1>14. ProcessedWasHandled'
  BY <1>1, <1>3 DEF ProcessedWasHandled
<1>15. AccountedAtLoad' /\ Accounted'
  BY <1>1, <1>3, <1>5 DEF AccountedAtLoad, Accounted
<1> QED BY <1>6, <1>7, <1>8, <1>9, <1>10, <1>11, <1>12, <1>13, <1>14, <1>15

-----------------------------------------------------------------------------
(* The theorems.                                                           *)

LEMMA StepKeepsIInv == IInv /\ [Next]_vars => IInv'
<1> SUFFICES ASSUME IInv, [Next]_vars PROVE IInv'
  OBVIOUS
<1>1. CASE Start
  BY <1>1, StartKeeps
<1>2. CASE Load
  BY <1>2, LoadRowKeeps DEF Load
<1>3. CASE LoadVDLM2
  BY <1>3, LoadVDLM2Keeps
<1>4. CASE Subscribe
  BY <1>4, SubscribeKeeps
<1>5. CASE Stop \/ BadLine
  BY <1>5, HaltKeeps DEF Stop, BadLine
<1>6. ASSUME NEW r \in Source, Read(r) PROVE IInv'
  BY <1>6, DialsKeep, DecodeKeeps, CreateKeeps, EnqueueKeeps DEF Read
<1>7. ASSUME NEW w \in Worker, Work(w) PROVE IInv'
  BY <1>7, TakeKeeps, RunStepsKeeps, MarkKeeps DEF Work
<1>8. CASE UNCHANGED vars
  BY <1>8
     DEF vars, IInv, TypeOK, HandsMatchPc, Phases, OneCopy, Untouched,
         RowsOfMemory, MarkedAfterSteps, HandledOnce, ProcessedWasHandled,
         AccountedAtLoad, Accounted, InMemory, InHand, Queued, Elems
<1> QED BY <1>1, <1>2, <1>3, <1>4, <1>5, <1>6, <1>7, <1>8 DEF Next

\* The inductive invariant holds in every reachable state.
THEOREM Invariance == Spec => []IInv
BY InitIInv, StepKeepsIInv, PTL DEF Spec

\* Every variable keeps its type and no channel exceeds its capacity,
\* whatever the readers, the workers and the crashes do.
THEOREM TypeCorrectness == Spec => []TypeOK
<1>1. IInv => TypeOK
  BY DEF IInv
<1> QED BY <1>1, Invariance, PTL

\* No message is ever twice in the memory of the process, even when a restart
\* reloads what another life had on its way: APMessageQueue and the hands of
\* readers and workers hold each message at most once.
THEOREM NoSecondCopy == Spec => []OneCopy
<1>1. IInv => OneCopy
  BY DEF IInv
<1> QED BY <1>1, Invariance, PTL

\* In one life of the process the steps of a message are run at most once.
THEOREM StepsRunOnce == Spec => []HandledOnce
<1>1. IInv => HandledOnce
  BY DEF IInv
<1> QED BY <1>1, Invariance, PTL

\* No row is marked processed before the steps of its message were run.
THEOREM MarkedRowsWereHandled == Spec => []ProcessedWasHandled
<1>1. IInv => ProcessedWasHandled
  BY DEF IInv
<1> QED BY <1>1, Invariance, PTL

\* While the process runs, no unprocessed row is forgotten: it is on its way
\* to a worker, or it was handled and its update failed.
THEOREM NoRowForgotten == Spec => []Accounted
<1>1. IInv => Accounted
  BY DEF IInv
<1> QED BY <1>1, Invariance, PTL

\* The step that would break ProcessedIsFinal is not among the program's.
LEMMA StepKeepsProcessed == IInv /\ [Next]_vars => ProcessedStays
<1> SUFFICES ASSUME IInv, [Next]_vars,
                    NEW m \in Msg, Durable, db[m] = "processed"
             PROVE  /\ db'[m] = "processed"
                    /\ m \notin handledNow => m \notin handledNow'
  BY DEF ProcessedStays
<1> USE DEF IInv
<1>1. CASE \/ Start \/ Load \/ LoadVDLM2 \/ Subscribe \/ UNCHANGED vars
  BY <1>1 DEF Start, Load, LoadRow, LoadVDLM2, Subscribe, vars
<1>2. CASE Stop \/ BadLine
  BY <1>2 DEF Stop, BadLine, Halt
<1>3. ASSUME NEW r \in Source, Read(r)
      PROVE  db'[m] = "processed" /\ handledNow' = handledNow
  <2>1. CASE Create(r)
    <3>1. r \in Actor /\ db[held[r]] = "none"
      BY <2>1 DEF Create, RowsOfMemory, Actor
    <3> QED BY <2>1, <3>1 DEF Create, Outcomes, TypeOK
  <2>2. CASE ~Create(r)
    BY <1>3, <2>2
       DEF Read, DialOk, DialFail, DecodeError, Decode, Enqueue
  <2> QED BY <2>1, <2>2
<1>4. ASSUME NEW w \in Worker, Work(w)
      PROVE  /\ db'[m] = "processed"
             /\ m \notin handledNow => m \notin handledNow'
  <2>1. CASE Take(w)
    BY <2>1 DEF Take
  <2>2. CASE RunSteps(w)
    <3>1. w \in Actor /\ held[w] \in Msg /\ InMemory(held[w])
      BY <2>2 DEF RunSteps, HandsMatchPc, TypeOK, Actor, InMemory, InHand
    <3>2. held[w] # m
      BY <3>1 DEF RowsOfMemory
    <3> QED BY <2>2, <3>2 DEF RunSteps
  <2>3. CASE Mark(w)
    BY <2>3 DEF Mark, Outcomes, Marked, TypeOK
  <2> QED BY <1>4, <2>1, <2>2, <2>3 DEF Work
<1> QED BY <1>1, <1>2, <1>3, <1>4 DEF Next

\* A row marked processed stays so, and its steps are not run again, in this
\* life or in a later one.
THEOREM ProcessedRowsAreFinal == Spec => ProcessedIsFinal
<1>1. IInv /\ [Next]_vars => [ProcessedStays]_vars
  BY StepKeepsProcessed
<1> QED BY <1>1, Invariance, PTL DEF Spec, ProcessedIsFinal

-----------------------------------------------------------------------------
(* How many rows wait for their steps.                                     *)

LEMMA InitOnlyServed == Init => OnlyServed
BY DEF Init, OnlyServed, Actor, Channel

\* A step of an actor that was not launched is impossible, and the channel
\* that nobody feeds stays empty.
LEMMA StepKeepsOnlyServed == IInv /\ OnlyServed /\ [Next]_vars => OnlyServed'
<1> SUFFICES ASSUME IInv, OnlyServed, [Next]_vars PROVE OnlyServed'
  OBVIOUS
<1> USE DEF IInv, OnlyServed
<1>1. CASE Start \/ LoadVDLM2 \/ UNCHANGED vars
  BY <1>1 DEF Start, LoadVDLM2, vars
<1>2. ASSUME NEW m \in Msg, LoadRow(m) PROVE OnlyServed'
  BY <1>2 DEF LoadRow, Push, TypeOK, Channel
<1>3. CASE Subscribe
  BY <1>3, PipelineAssumption DEF Subscribe, Actor
<1>4. CASE Stop \/ BadLine
  BY <1>4 DEF Stop, BadLine, Halt, Actor, Channel
<1>5. ASSUME NEW r \in Source, Read(r) PROVE OnlyServed'
  <2>1. pc[r] # "off" /\ r \in Reader
    BY <1>5 DEF Read, DialOk, DialFail, DecodeError, Decode, Create, Enqueue
  <2>2. \A q \in Source \ Reader : pc'[q] = pc[q]
    BY <1>5, <2>1 DEF TypeOK, Actor, Goto, Read, DialOk, DialFail, DecodeError,
                      Decode, Create, Enqueue
  <2>3. ~Interactive => queue'["stdin"] = queue["stdin"]
    BY <1>5 DEF TypeOK, Channel, Push, Served, Read, DialOk, DialFail,
                DecodeError, Decode, Create, Enqueue
  <2> QED BY <2>2, <2>3
<1>6. ASSUME NEW w \in Worker, Work(w) PROVE OnlyServed'
  <2>1. \A q \in Source \ Reader : pc'[q] = pc[q]
    BY <1>6, PipelineAssumption
       DEF TypeOK, Actor, Goto, Work, Take, RunSteps, Mark
  <2>2. ~Interactive => queue'["stdin"] = queue["stdin"]
    BY <1>6 DEF TypeOK, Channel, Served, Work, Take, RunSteps, Mark
  <2> QED BY <2>1, <2>2
<1> QED BY <1>1, <1>2, <1>3, <1>4, <1>5, <1>6 DEF Next, Load

\* A channel holds at most Cap messages.
LEMMA ChannelHoldsFew ==
  ASSUME TypeOK, NEW c \in Channel
  PROVE  /\ IsFiniteSet(Elems(c)) /\ Cardinality(Elems(c)) \in Nat
         /\ Cardinality(Elems(c)) <= Cap
         /\ queue[c] = <<>> => Cardinality(Elems(c)) = 0
<1>1. queue[c] \in Seq(Msg) /\ Len(queue[c]) \in Nat /\ Len(queue[c]) <= Cap
  BY LenProperties DEF TypeOK
<1>2. DOMAIN queue[c] = 1..Len(queue[c]) /\ queue[c] = [i \in DOMAIN queue[c] |-> queue[c][i]]
  BY <1>1, LenProperties
<1>3. queue[c] \in Surjection(1..Len(queue[c]), Elems(c))
  BY <1>2 DEF Surjection, Elems, Range
<1>4. /\ IsFiniteSet(1..Len(queue[c]))
      /\ Cardinality(1..Len(queue[c])) = Len(queue[c])
  <2>1. PICK n \in Nat : n = Len(queue[c])
    BY <1>1
  <2>2. /\ IsFiniteSet(1..n)
        /\ Cardinality(1..n) = IF 1 > n THEN 0 ELSE n - 1 + 1
    BY FS_Interval
  <2>3. Cardinality(1..n) = n
    BY <2>2
  <2> QED BY <2>1, <2>2, <2>3
<1>5. IsFiniteSet(Elems(c)) /\ Cardinality(Elems(c)) <= Len(queue[c])
  BY <1>3, <1>4, FS_Surjection
<1>6. Cardinality(Elems(c)) \in Nat
  BY <1>5, FS_CardinalityType
<1>7. queue[c] = <<>> => Cardinality(Elems(c)) = 0
  BY EmptyChannel, FS_EmptySet DEF Elems
<1> QED BY <1>1, <1>5, <1>6, <1>7, PipelineAssumption

\* A group of goroutines has at most one message each in hand.
LEMMA HandsHoldFew ==
  ASSUME NEW G, G \subseteq Actor, IsFiniteSet(G), TypeOK
  PROVE  LET K == {m \in Msg : \E a \in G : held[a] = m}
         IN  /\ IsFiniteSet(K) /\ Cardinality(K) \in Nat
             /\ Cardinality(K) <= Cardinality(G)
<1> DEFINE K == {m \in Msg : \E a \in G : held[a] = m}
           S == {a \in G : held[a] \in Msg}
           f == [a \in S |-> held[a]]
<1>1. f \in Surjection(S, K)
  BY DEF Surjection
<1>2. IsFiniteSet(S) /\ Cardinality(S) <= Cardinality(G)
  BY FS_Subset
<1>3. IsFiniteSet(K) /\ Cardinality(K) <= Cardinality(S)
  BY <1>1, <1>2, FS_Surjection
<1>4. /\ Cardinality(K) \in Nat /\ Cardinality(S) \in Nat
      /\ Cardinality(G) \in Nat
  BY <1>2, <1>3, FS_CardinalityType
<1> QED BY <1>2, <1>3, <1>4

\* Two finite sets hold together at most what each of them holds.
LEMMA UnionHoldsFew ==
  ASSUME NEW S, NEW T, IsFiniteSet(S), IsFiniteSet(T)
  PROVE  /\ IsFiniteSet(S \cup T) /\ Cardinality(S \cup T) \in Nat
         /\ Cardinality(S) \in Nat /\ Cardinality(T) \in Nat
         /\ Cardinality(S \cup T) <= Cardinality(S) + Cardinality(T)
<1>1. /\ IsFiniteSet(S \cup T) /\ IsFiniteSet(S \cap T)
      /\ Cardinality(S \cup T) =
           Cardinality(S) + Cardinality(T) - Cardinality(S \cap T)
  BY FS_Union, FS_Intersection
<1>2. /\ Cardinality(S \cup T) \in Nat /\ Cardinality(S \cap T) \in Nat
      /\ Cardinality(S) \in Nat /\ Cardinality(T) \in Nat
  BY <1>1, FS_CardinalityType
<1> QED BY <1>1, <1>2

LEMMA BoundFollows == IInv /\ OnlyServed => BacklogBound
<1> SUFFICES ASSUME IInv, OnlyServed, main = "running", DatabaseEnabled,
                    "Find" \notin DBFails
             PROVE  Cardinality({m \in Msg : db[m] = "unprocessed"
                                             /\ m \notin handledNow})
                      <= (IF Interactive THEN 2 ELSE 1) * Cap
                           + Cardinality(Worker) + Cardinality(Reader)
  BY DEF BacklogBound
<1> DEFINE Owed == {m \in Msg : db[m] = "unprocessed" /\ m \notin handledNow}
           InHands(G) == {m \in Msg : \E a \in G : held[a] = m}
           Q == Elems("hub") \cup Elems("stdin")
           H == InHands(Worker) \cup InHands(Reader)
<1>1. TypeOK /\ Reader \subseteq Actor /\ Worker \subseteq Actor
  BY PipelineAssumption DEF IInv, Reader, Actor, Source, HubSource
<1>2. IsFiniteSet(Worker) /\ IsFiniteSet(Reader)
  <2>1. IsFiniteSet(HubSource)
    <3>1. IsFiniteSet({"ACARS"} \cup {"VDLM2"})
      BY FS_Singleton, FS_AddElement
    <3>2. HubSource = {"ACARS"} \cup {"VDLM2"}
      BY DEF HubSource
    <3> QED BY <3>1, <3>2
  <2>2. Configured \in SUBSET HubSource
    BY PipelineAssumption
  <2>3. IsFiniteSet(Configured)
    BY <2>1, <2>2, FS_Subset
  <2> QED BY <2>3, FS_Singleton, PipelineAssumption DEF Reader
<1>3. Owed \subseteq Q \cup H
  <2> SUFFICES ASSUME NEW m \in Owed PROVE m \in Q \cup H
    OBVIOUS
  <2>1. InMemory(m)
    BY DEF IInv, Accounted
  <2>2. CASE Queued(m)
    BY <2>2 DEF Queued, Channel
  <2>3. ASSUME NEW a \in Actor, held[a] = m PROVE m \in H
    <3>1. pc[a] # "off"
      BY <2>3, PipelineAssumption DEF IInv, HandsMatchPc
    <3> QED BY <2>3, <3>1 DEF OnlyServed, Actor
  <2> QED BY <2>1, <2>2, <2>3 DEF InMemory, InHand
<1>4. /\ IsFiniteSet(Q) /\ Cardinality(Q) \in Nat
      /\ Cardinality(Q) <= (IF Interactive THEN 2 ELSE 1) * Cap
  <2>1. "hub" \in Channel /\ "stdin" \in Channel
    BY DEF Channel
  <2>2. /\ IsFiniteSet(Elems("hub")) /\ Cardinality(Elems("hub")) <= Cap
        /\ IsFiniteSet(Elems("stdin")) /\ Cardinality(Elems("stdin")) <= Cap
        /\ ~Interactive => Cardinality(Elems("stdin")) = 0
    BY <1>1, <2>1, ChannelHoldsFew DEF OnlyServed
  <2>3. /\ IsFiniteSet(Q) /\ Cardinality(Q) \in Nat
        /\ Cardinality(Elems("hub")) \in Nat
        /\ Cardinality(Elems("stdin")) \in Nat
        /\ Cardinality(Q) <= Cardinality(Elems("hub"))
                               + Cardinality(Elems("stdin"))
    BY <2>2, UnionHoldsFew
  <2> QED BY <2>2, <2>3, PipelineAssumption
<1>5. /\ IsFiniteSet(H) /\ Cardinality(H) \in Nat
      /\ Cardinality(H) <= Cardinality(Worker) + Cardinality(Reader)
  <2>1. /\ IsFiniteSet(InHands(Worker)) /\ IsFiniteSet(InHands(Reader))
        /\ Cardinality(InHands(Worker)) <= Cardinality(Worker)
        /\ Cardinality(InHands(Reader)) <= Cardinality(Reader)
    BY <1>1, <1>2, HandsHoldFew
  <2>2. /\ IsFiniteSet(H) /\ Cardinality(H) \in Nat
        /\ Cardinality(InHands(Worker)) \in Nat
        /\ Cardinality(InHands(Reader)) \in Nat
        /\ Cardinality(H) <= Cardinality(InHands(Worker))
                               + Cardinality(InHands(Reader))
    BY <2>1, UnionHoldsFew
  <2>3. Cardinality(Worker) \in Nat /\ Cardinality(Reader) \in Nat
    BY <1>2, FS_CardinalityType
  <2> QED BY <2>1, <2>2, <2>3
<1>6. /\ IsFiniteSet(Q \cup H) /\ Cardinality(Q \cup H) \in Nat
      /\ Cardinality(Q \cup H) <= Cardinality(Q) + Cardinality(H)
  BY <1>4, <1>5, UnionHoldsFew
<1>7. Owed \in SUBSET (Q \cup H)
  BY <1>3
<1>8. IsFiniteSet(Owed) /\ Cardinality(Owed) <= Cardinality(Q \cup H)
  BY <1>6, <1>7, FS_Subset
<1>9. /\ Cardinality(Owed) \in Nat
      /\ Cardinality(Worker) \in Nat /\ Cardinality(Reader) \in Nat
      /\ (IF Interactive THEN 2 ELSE 1) * Cap \in Nat
  BY <1>2, <1>8, FS_CardinalityType, PipelineAssumption
<1> QED BY <1>4, <1>5, <1>6, <1>8, <1>9

\* The rows a running process still owes a run of their steps never exceed
\* what its channels, its workers and its readers can hold: the bound on the
\* backlog a crash leaves to LoadSavedMessages.
THEOREM BacklogIsBounded == Spec => []BacklogBound
<1>1. Spec => []OnlyServed
  BY InitOnlyServed, StepKeepsOnlyServed, Invariance, PTL DEF Spec
<1> QED BY <1>1, BoundFollows, Invariance, PTL

-----------------------------------------------------------------------------
(* The pipeline implements the ledger.                                     *)

\* The stages, one by one.
LEMMA StageFacts ==
  ASSUME IInv, NEW m \in Msg
  PROVE  /\ m \in unsent => StageOf(m) = "unseen"
         /\ m \notin unsent =>
              /\ db[m] = "processed" => StageOf(m) = "done"
              /\ db[m] = "unprocessed" => StageOf(m) = "saved"
              /\ db[m] = "none" /\ InMemory(m) => StageOf(m) = "volatile"
              /\ db[m] = "none" /\ ~InMemory(m) => StageOf(m) = "gone"
         /\ db[m] \in {"none", "unprocessed", "processed"}
BY DEF StageOf, IInv, TypeOK

\* A step that changes the stage of m at most, and handles nothing.
LEMMA LedgerMove ==
  ASSUME NEW m \in Msg, NEW from, NEW to,
         StageOf(m) = from, StageOf(m)' = to,
         \A x \in Msg \ {m} : StageOf(x)' = StageOf(x),
         UNCHANGED <<handledNow, handled>>
  PROVE  Ledger!Move(m, from, to)
BY DEF Ledger!Move, Stages

LEMMA LedgerStutter ==
  ASSUME \A x \in Msg : StageOf(x)' = StageOf(x),
         UNCHANGED <<handledNow, handled>>
  PROVE  UNCHANGED Ledger!vars
BY DEF Ledger!vars, Stages

\* A message keeps its stage when its row is left alone and it stays where it
\* is: not decoded, in memory, or neither.
LEMMA SameStage ==
  ASSUME IInv, NEW x \in Msg,
         x \in unsent' <=> x \in unsent, db'[x] = db[x],
         x \notin unsent /\ db[x] = "none" =>
           (InMemory(x)' <=> InMemory(x))
  PROVE  StageOf(x)' = StageOf(x)
BY DEF StageOf, IInv, TypeOK

\* Where a message is after each of the steps that move one.
LEMMA LoadRowMemory ==
  ASSUME IInv, NEW m \in Msg, LoadRow(m)
  PROVE  /\ db[m] = "unprocessed"
         /\ \A x \in Msg : x # m => (InMemory(x)' <=> InMemory(x))
<1>1. "hub" \in Channel /\ ~Queued(m) /\ m \in loading
  BY DEF IInv, LoadRow, OneCopy, InMemory, Channel
<1>2. \A x \in Msg : Queued(x)' <=> Queued(x) \/ x = m
  BY <1>1, PushFacts DEF IInv, LoadRow
<1> QED BY <1>1, <1>2 DEF IInv, RowsOfMemory, LoadRow, InMemory, InHand

LEMMA DecodeMemory ==
  ASSUME IInv, NEW r \in Source, NEW m \in Msg, Decode(r, m)
  PROVE  \A x \in Msg : InMemory(x)' <=> InMemory(x) \/ x = m
<1>1. r \in Actor /\ held[r] = NoMsg
  BY DEF IInv, Decode, HandsMatchPc, Actor
<1>2. \A x \in Msg : InHand(x)' <=> InHand(x) \/ x = m
  BY <1>1, PipelineAssumption DEF IInv, TypeOK, InHand, Decode
<1> QED BY <1>2 DEF InMemory, Queued, Elems, Decode

LEMMA EnqueueMemory ==
  ASSUME IInv, NEW r \in Source, Enqueue(r)
  PROVE  \A x \in Msg : InMemory(x)' <=> InMemory(x)
<1>1. /\ r \in Actor /\ held[r] \in Msg /\ held[r] # NoMsg
      /\ InHand(held[r]) /\ ~Queued(held[r]) /\ Served \in Channel
  BY DEF IInv, Enqueue, HandsMatchPc, Actor, TypeOK, OneCopy, InHand,
         Served, Channel
<1>2. \A x \in Msg : Queued(x)' <=> Queued(x) \/ x = held[r]
  BY <1>1, PushFacts DEF IInv, Enqueue
<1>3. \A x \in Msg : InHand(x)' <=> InHand(x) /\ x # held[r]
  BY <1>1, PipelineAssumption DEF IInv, TypeOK, OneCopy, InHand, Enqueue
<1> QED BY <1>1, <1>2, <1>3 DEF InMemory

LEMMA TakeMemory ==
  ASSUME IInv, NEW w \in Worker, Take(w)
  PROVE  \A x \in Msg : InMemory(x)' <=> InMemory(x)
<1>1. w \in Actor /\ held[w] = NoMsg /\ Served \in Channel
  BY DEF IInv, Take, HandsMatchPc, Actor, Served, Channel
<1>2. /\ Head(queue[Served]) \in Msg /\ Queued(Head(queue[Served]))
      /\ \A x \in Msg : Queued(x)' <=> Queued(x) /\ x # Head(queue[Served])
  BY <1>1, PopFacts DEF IInv, Take
<1>3. \A x \in Msg : InHand(x)' <=> InHand(x) \/ x = Head(queue[Served])
  BY <1>1, <1>2, PipelineAssumption DEF IInv, TypeOK, InHand, Take
<1> QED BY <1>2, <1>3 DEF InMemory

LEMMA MarkMemory ==
  ASSUME IInv, NEW w \in Worker, Mark(w)
  PROVE  /\ held[w] \in Msg /\ InMemory(held[w])
         /\ held[w] \in handledNow /\ held[w] \notin unsent
         /\ db[held[w]] # "processed"
         /\ \A x \in Msg : InMemory(x)' <=> InMemory(x) /\ x # held[w]
<1>1. /\ w \in Actor /\ held[w] \in Msg /\ held[w] # NoMsg
      /\ held[w] \in handledNow /\ InHand(held[w]) /\ InMemory(held[w])
  BY DEF IInv, Mark, HandsMatchPc, Actor, TypeOK, MarkedAfterSteps, InHand,
         InMemory
<1>2. \A x \in Msg : InHand(x)' <=> InHand(x) /\ x # held[w]
  BY <1>1, PipelineAssumption DEF IInv, TypeOK, OneCopy, InHand, Mark
<1>3. \A x \in Msg : Queued(x)' <=> Queued(x)
  BY DEF Queued, Elems, Mark
<1>4. held[w] \notin unsent /\ db[held[w]] # "processed"
  BY <1>1 DEF IInv, Untouched, RowsOfMemory
<1> QED BY <1>1, <1>2, <1>3, <1>4 DEF IInv, OneCopy, InMemory

\* The initial state of the pipeline is one of the ledger.
LEMMA InitIsLedgerInit == Init => Ledger!Init
BY DEF Init, Ledger!Init, Stages, StageOf

\* A crash of the pipeline is a crash of the ledger.
LEMMA HaltIsCrash == IInv /\ Halt => Ledger!Crash
<1> SUFFICES ASSUME IInv, Halt PROVE Ledger!Crash
  OBVIOUS
<1>1. \A x \in Msg : ~InMemory(x)'
  BY PipelineAssumption, EmptyChannel
     DEF Halt, InMemory, InHand, Queued, Elems, Actor, Channel
<1>2. \A x \in Msg : StageOf(x)' =
        IF \/ StageOf(x) = "unseen"
           \/ Durable /\ StageOf(x) \in {"saved", "done"}
        THEN StageOf(x) ELSE "gone"
  <2> TAKE x \in Msg
  <2>1. unsent' = unsent /\ (Durable => db'[x] = db[x])
        /\ (~Durable => db'[x] = "none")
    BY DEF Halt
  <2> QED BY <1>1, <2>1 DEF StageOf, IInv, TypeOK
<1>3. UNCHANGED handled /\ handledNow' = {}
  BY DEF Halt
<1> QED BY <1>2, <1>3 DEF Ledger!Crash, Stages

\* A step of a reader.
LEMMA ReadIsLedgerStep ==
  ASSUME IInv, NEW r \in Source, Read(r)
  PROVE  Ledger!Next \/ UNCHANGED Ledger!vars
<1>1. CASE DialOk(r) \/ DialFail(r) \/ DecodeError(r)
  <2>1. \A x \in Msg : StageOf(x)' = StageOf(x)
    BY <1>1, SameStage
       DEF DialOk, DialFail, DecodeError, InMemory, InHand, Queued, Elems
  <2> QED BY <1>1, <2>1, LedgerStutter DEF DialOk, DialFail, DecodeError
<1>2. ASSUME NEW m \in Msg, Decode(r, m) PROVE Ledger!Receive(m)
  <2>1. /\ m \in unsent /\ m \notin unsent'
        /\ db' = db /\ db[m] = "none" /\ InMemory(m)'
    BY <1>2, DecodeMemory DEF Decode, IInv, Untouched
  <2>2. StageOf(m) = "unseen" /\ StageOf(m)' = "volatile"
    BY <2>1 DEF StageOf
  <2>3. ASSUME NEW x \in Msg \ {m} PROVE StageOf(x)' = StageOf(x)
    BY <1>2, <2>3, DecodeMemory, SameStage DEF Decode
  <2> QED BY <1>2, <2>2, <2>3, LedgerMove DEF Decode, Ledger!Receive
<1>3. CASE Create(r)
  <2> DEFINE m == held[r]
  <2>1. r \in Actor /\ m \in Msg /\ InMemory(m) /\ db[m] = "none"
    BY <1>3 DEF Create, IInv, HandsMatchPc, TypeOK, Actor, InMemory, InHand,
                RowsOfMemory
  <2>2. m \notin unsent
    BY <2>1 DEF IInv, Untouched
  <2>3. \A x \in Msg : InMemory(x)' <=> InMemory(x)
    BY <1>3 DEF Create, InMemory, InHand, Queued, Elems
  <2>4. \A x \in Msg \ {m} : db'[x] = db[x]
    BY <1>3 DEF Create, Outcomes, IInv, TypeOK
  <2>5. \A x \in Msg \ {m} : StageOf(x)' = StageOf(x)
    BY <1>3, <2>3, <2>4, SameStage DEF Create
  <2>6. CASE db' = db
    <3>1. StageOf(m)' = StageOf(m)
      BY <1>3, <2>1, <2>3, <2>6, SameStage DEF Create
    <3> QED BY <1>3, <2>5, <3>1, LedgerStutter DEF Create
  <2>7. CASE db'[m] = "unprocessed"
    <3>1. StageOf(m) = "volatile" /\ StageOf(m)' = "saved"
      BY <1>3, <2>1, <2>2, <2>7 DEF StageOf, Create
    <3>2. Ledger!Save(m)
      BY <1>3, <2>1, <2>5, <3>1, LedgerMove DEF Create, Ledger!Save
    <3> QED BY <2>1, <3>2 DEF Ledger!Next
  <2>8. db' = db \/ db'[m] = "unprocessed"
    BY <1>3, <2>1 DEF Create, Outcomes, IInv, TypeOK
  <2> QED BY <2>6, <2>7, <2>8
<1>4. CASE Enqueue(r)
  <2>1. \A x \in Msg : StageOf(x)' = StageOf(x)
    BY <1>4, EnqueueMemory, SameStage DEF Enqueue
  <2> QED BY <1>4, <2>1, LedgerStutter DEF Enqueue
<1> QED BY <1>1, <1>2, <1>3, <1>4 DEF Read, Ledger!Next

\* A step of a worker.
LEMMA WorkIsLedgerStep ==
  ASSUME IInv, NEW w \in Worker, Work(w)
  PROVE  Ledger!Next \/ UNCHANGED Ledger!vars
<1>1. CASE Take(w)
  <2>1. \A x \in Msg : StageOf(x)' = StageOf(x)
    BY <1>1, TakeMemory, SameStage DEF Take
  <2> QED BY <1>1, <2>1, LedgerStutter DEF Take
<1>2. CASE RunSteps(w)
  <2> DEFINE m == held[w]
  <2>1. /\ w \in Actor /\ m \in Msg /\ InMemory(m)
        /\ m \notin handledNow /\ m \notin unsent /\ db[m] # "processed"
    BY <1>2 DEF RunSteps, IInv, HandsMatchPc, TypeOK, Actor, InMemory, InHand,
                HandledOnce, Untouched, RowsOfMemory
  <2>2. StageOf(m) \in {"volatile", "saved"}
    BY <2>1 DEF StageOf
  <2>3. \A x \in Msg : StageOf(x)' = StageOf(x)
    BY <1>2, SameStage DEF RunSteps, InMemory, InHand, Queued, Elems
  <2>4. Ledger!Handle(m)
    BY <1>2, <2>1, <2>2, <2>3 DEF RunSteps, Ledger!Handle, Stages
  <2> QED BY <2>1, <2>4 DEF Ledger!Next
<1>3. CASE Mark(w)
  <2>0. PICK m \in Msg : m = held[w]
    BY <1>3, MarkMemory
  <2>1. /\ m \in Msg /\ InMemory(m) /\ m \in handledNow /\ m \notin unsent
        /\ db[m] \in {"none", "unprocessed"}
        /\ \A x \in Msg : InMemory(x)' <=> InMemory(x) /\ x # m
    BY <1>3, <2>0, MarkMemory DEF IInv, TypeOK
  <2>2. /\ unsent' = unsent
        /\ \A x \in Msg \ {m} : db'[x] = db[x]
        /\ db[m] = "none" => db'[m] = "none"
        /\ db[m] = "unprocessed" => db' = db \/ db'[m] = "processed"
    BY <1>3, <2>0, <2>1 DEF Mark, Outcomes, Marked, IInv, TypeOK
  <2>3. \A x \in Msg \ {m} : StageOf(x)' = StageOf(x)
    BY <2>1, <2>2, SameStage
  <2>4. CASE db[m] = "none"
    <3>1. StageOf(m) = "volatile" /\ StageOf(m)' = "gone"
      BY <2>1, <2>2, <2>4 DEF StageOf
    <3>2. Ledger!Forget(m)
      BY <1>3, <2>1, <2>3, <3>1, LedgerMove DEF Mark, Ledger!Forget
    <3> QED BY <2>1, <3>2 DEF Ledger!Next
  <2>5. CASE db[m] = "unprocessed" /\ db'[m] = "processed"
    <3>1. StageOf(m) = "saved" /\ StageOf(m)' = "done"
      BY <2>1, <2>2, <2>5 DEF StageOf
    <3>2. Ledger!Settle(m)
      BY <1>3, <2>1, <2>3, <3>1, LedgerMove DEF Mark, Ledger!Settle
    <3> QED BY <2>1, <3>2 DEF Ledger!Next
  <2>6. CASE db[m] = "unprocessed" /\ db' = db
    <3>1. StageOf(m)' = StageOf(m)
      BY <2>2, <2>6 DEF StageOf
    <3> QED BY <1>3, <2>3, <3>1, LedgerStutter DEF Mark
  <2> QED BY <2>1, <2>2, <2>4, <2>5, <2>6
<1> QED BY <1>1, <1>2, <1>3 DEF Work

LEMMA StepIsLedgerStep == IInv /\ [Next]_vars => [Ledger!Next]_(Ledger!vars)
<1> SUFFICES ASSUME IInv, [Next]_vars
             PROVE  Ledger!Next \/ UNCHANGED Ledger!vars
  OBVIOUS
<1>1. CASE Start \/ LoadVDLM2 \/ Subscribe \/ UNCHANGED vars
  <2>1. \A x \in Msg : StageOf(x)' = StageOf(x)
    BY <1>1, SameStage
       DEF Start, LoadVDLM2, Subscribe, vars, InMemory, InHand, Queued, Elems
  <2> QED BY <1>1, <2>1, LedgerStutter DEF Start, LoadVDLM2, Subscribe, vars
<1>2. ASSUME NEW m \in Msg, LoadRow(m) PROVE UNCHANGED Ledger!vars
  <2>1. \A x \in Msg : StageOf(x)' = StageOf(x)
    BY <1>2, LoadRowMemory, SameStage DEF LoadRow
  <2> QED BY <1>2, <2>1, LedgerStutter DEF LoadRow
<1>3. CASE Stop \/ BadLine
  BY <1>3, HaltIsCrash DEF Stop, BadLine, Ledger!Next
<1>4. ASSUME NEW r \in Source, Read(r)
      PROVE  Ledger!Next \/ UNCHANGED Ledger!vars
  BY <1>4, ReadIsLedgerStep
<1>5. ASSUME NEW w \in Worker, Work(w)
      PROVE  Ledger!Next \/ UNCHANGED Ledger!vars
  BY <1>5, WorkIsLedgerStep
<1> QED BY <1>1, <1>2, <1>3, <1>4, <1>5 DEF Next, Load

\* The pipeline implements the ledger: a saved message is handled at least
\* once and one life handles a message at most once, for any number of
\* readers' messages and workers, any interleaving and any crashes.
THEOREM PipelineImplementsLedger == Spec => ImplementsLedger
BY InitIsLedgerInit, StepIsLedgerStep, Invariance, PTL
   DEF Spec, ImplementsLedger, Ledger!Spec
=============================================================================
