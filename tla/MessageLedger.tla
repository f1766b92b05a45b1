--------------------------- MODULE MessageLedger ---------------------------
(***************************************************************************)
(* What acars-processor promises about a message, whatever readers,        *)
(* channels and workers it is built from.                                  *)
(*                                                                         *)
(* A message goes through these stages:                                    *)
(*   "unseen"   no reader of this program has decoded it yet               *)
(*   "volatile" it lives in the memory of the process and nowhere else     *)
(*   "saved"    the database has a row for it, not marked processed        *)
(*   "done"     its row is marked processed                                *)
(*   "gone"     neither memory nor database knows it any more              *)
(*                                                                         *)
(* The promise: a saved message leaves that stage only after its steps     *)
(* have been run (at-least-once handling, across any number of restarts),  *)
(* and one life of the process runs the steps of a message at most once.   *)
(***************************************************************************)
CONSTANTS
  Msg,       \* the messages
  Durable    \* do the rows of the database survive the process?

VARIABLES
  stage,       \* the stage of each message
  handledNow,  \* the messages whose steps were run in this life
  handled      \* the messages whose steps were ever run

vars == <<stage, handledNow, handled>>

Stage == {"unseen", "volatile", "saved", "done", "gone"}

TypeOK ==
  /\ stage \in [Msg -> Stage]
  /\ handledNow \subseteq Msg
  /\ handled \subseteq Msg

Init ==
  /\ stage = [m \in Msg |-> "unseen"]
  /\ handledNow = {}
  /\ handled = {}

Move(m, from, to) ==
  /\ stage[m] = from
  /\ stage' = [stage EXCEPT ![m] = to]
  /\ UNCHANGED <<handledNow, handled>>

Receive(m) == Move(m, "unseen", "volatile")

Save(m) == Move(m, "volatile", "saved")

\* All the steps of m have been executed: only for a message that is still
\* of interest, and only once in a life of the process.
Handle(m) ==
  /\ stage[m] \in {"volatile", "saved"}
  /\ m \notin handledNow
  /\ handledNow' = handledNow \cup {m}
  /\ handled' = handled \cup {m}
  /\ UNCHANGED stage

Settle(m) == m \in handledNow /\ Move(m, "saved", "done")

\* A message that never got a row is dropped once it has been handled.
Forget(m) == m \in handledNow /\ Move(m, "volatile", "gone")

\* The process ends: memory is lost, and a database in memory with it.
Crash ==
  /\ stage' = [m \in Msg |->
       IF \/ stage[m] = "unseen"
          \/ Durable /\ stage[m] \in {"saved", "done"}
       THEN stage[m] ELSE "gone"]
  /\ handledNow' = {}
  /\ UNCHANGED handled

Next ==
  \/ \E m \in Msg : \/ Receive(m) \/ Save(m) \/ Handle(m)
                    \/ Settle(m) \/ Forget(m)
  \/ Crash

Spec == Init /\ [][Next]_vars
=============================================================================
