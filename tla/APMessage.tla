------------------------------ MODULE APMessage ------------------------------
(***************************************************************************)
(* The flat message of apmessage.go, and how Prepare of message_acars.go   *)
(* and message_vdlm2.go makes one of what the hub sent.  Of its keys only  *)
(* the common ones, "ACARSProcessor.<name>", are modelled, by their name:  *)
(* they are the keys the filters, the annotators and the worker read.  A   *)
(* value keeps its Go type, because the getters look at it.                *)
(*                                                                         *)
(* A received message is a record: its kind, text, tail code (the dots in  *)
(* front of it and the rest), flight, station, label, frequency in kHz,    *)
(* signal level, ASS status (ACARS only) and "more" flag (VDLM2 only).     *)
(* Left out are the links, the photo and the fields no filter reads.       *)
(***************************************************************************)
EXTENDS Integers, Sequences, FiniteSets, Functions

Typed(type, v) == [type |-> type, v |-> v]
GoString(v) == Typed("string", v)
GoInt(v)    == Typed("int", v)
GoFloat(v)  == Typed("float64", v)

\* A string that matches ^\s*$.
Blank(s) == s \in {"", " "}

-----------------------------------------------------------------------------
(* Prepare.                                                                *)

\* The dots that are left in front of a tail code: the ACARS format cuts one
\* and then all of them, the VDLM2 format one and then one more.
TailCode(r) ==
  LET left == IF r.kind = "ACARS" \/ r.tail.dots <= 2 THEN 0 ELSE r.tail.dots - 2
  IN GoString([dots |-> left, code |-> r.tail.code])

\* FormatAsAPMessage and the fields Prepare adds.  Both formats end up with
\* the frequency in MHz as a float64 (here in thousandths) and in Hz as an
\* int.  The ASS status and the "more" flag have no common name, and nothing
\* reads the one of the signal level.
CommonFields(r) ==
  [MessageText  |-> GoString(r.text),
   TailCode     |-> TailCode(r),
   FlightNumber |-> GoString(r.flight),
   StationId    |-> GoString(r.station),
   Label        |-> GoString(r.label),
   FrequencyMHz |-> GoFloat(r.khz),
   FrequencyHz  |-> GoInt(r.khz * 1000)]

\* Both formats keep the SelectedFields of the ACARS connection.
Prepare(r, selected) ==
  LET keep == selected["ACARS"] IN
  IF keep = {} THEN CommonFields(r)
  ELSE Restrict(CommonFields(r), keep \cap DOMAIN CommonFields(r))

-----------------------------------------------------------------------------
(* Merging and reading.                                                    *)

\* The values of the second message overwrite those of the first.
MergeAPMessages(m1, m2) ==
  [f \in DOMAIN m1 \cup DOMAIN m2 |-> IF f \in DOMAIN m2 THEN m2[f] ELSE m1[f]]

\* A field that is missing, or has another type, reads as the zero value.
CommonField(m, f, type, zero) ==
  IF f \in DOMAIN m /\ m[f].type = type THEN m[f].v ELSE zero

AsString(m, f)  == CommonField(m, f, "string", "")
AsInt(m, f)     == CommonField(m, f, "int", 0)
AsFloat64(m, f) == CommonField(m, f, "float64", 0)
AsBoolean(m, f) == CommonField(m, f, "bool", FALSE)

\* Strings with a structure of their own.
NoText == [blank |-> TRUE, disp |-> FALSE, terms |-> {}, hits |-> {}, words |-> <<>>]
AsText(m) == CommonField(m, "MessageText", "string", NoText)
AsTail(m) == CommonField(m, "TailCode", "string", [dots |-> 0, code |-> ""])
=============================================================================
