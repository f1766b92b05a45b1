----------------------------- MODULE MessageRun -----------------------------
(***************************************************************************)
(* What one run of the configured steps on one message promises, whatever  *)
(* filters, annotators and receivers the steps consist of.                 *)
(*                                                                         *)
(* The steps are visited in order, and in a step the modules in a fixed    *)
(* order.  A module is called at most once for each step, and never after  *)
(* a later one or after the message was dropped.                           *)
(***************************************************************************)
EXTENDS Naturals

CONSTANTS
  Call,      \* the module calls a configuration may lead to
  Precedes   \* their order, as a set of pairs

VARIABLES
  calls, made, \* the calls made so far, and how many
  fate         \* "open" until the run ends

vars == <<calls, made, fate>>

\* "filtered" by a filter, "finished" by the last step, or lost with the
\* process when a module panics.
Fate == {"open", "filtered", "finished", "dead"}

Init == calls = {} /\ made = 0 /\ fate \in {"open", "finished"}

\* The next call comes after all that were made (Precedes is a strict order,
\* so it is a new one), and nothing is called once the fate of the message is
\* known.
Make(c) ==
  /\ fate = "open"
  /\ \A d \in calls : <<d, c>> \in Precedes
  /\ calls' = calls \cup {c}
  /\ made' = made + 1
  /\ fate' \in Fate

End ==
  /\ fate = "open"
  /\ fate' \in Fate \ {"open"}
  /\ UNCHANGED <<calls, made>>

Next == End \/ \E c \in Call : Make(c)

Spec == Init /\ [][Next]_vars
=============================================================================
