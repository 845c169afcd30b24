------------------------------ MODULE Formatter ------------------------------
(***************************************************************************)
(* format.Format: format once, take the baseline, verify, then repeat the  *)
(* pass until it changes nothing or MaxPasses passes did not settle it.    *)
(* The variables in, out, next, pass are the Go locals; verifiable and     *)
(* before are functions of in, as they are in the code (derived once).     *)
(***************************************************************************)
EXTENDS FormatLibrary, Naturals

CONSTANT MaxPasses

ASSUME MaxPassesAssumption == MaxPasses \in Nat \ {0}

VARIABLES pc, in, out, next, pass, verdict

(***************************************************************************)
(* Observation only: every stream a pass of this call produced, and the    *)
(* stream the previous call returned (the caller formats it once more).    *)
(***************************************************************************)
VARIABLES produced, accepted

library == <<reading, emit>>
vars == <<reading, emit, pc, in, out, next, pass, verdict, produced, accepted>>

Init ==
  /\ LibraryInit
  /\ pc = "first"
  /\ in \in Streams
  /\ out = NoStream
  /\ next = NoStream
  /\ pass = 1
  /\ verdict = Running
  /\ produced = {}
  /\ accepted = NoStream

Return(v) ==
  /\ pc' = "done"
  /\ verdict' = v

Unsettled == IF Verifiable(in) THEN "not converged"
                               ELSE "not converged, not verifiable"

-----------------------------------------------------------------------------
FirstPass ==
  /\ pc = "first"
  /\ out' = FormatOnce(in)
  /\ IF out' = NoStream
       THEN Return("pass failed") /\ produced' = produced
       ELSE pc' = "verify" /\ verdict' = verdict /\ produced' = {out'}
  /\ UNCHANGED <<library, in, next, pass, accepted>>

(***************************************************************************)
(* verifySemantics(before, verifiable, s): nothing to do for an input that *)
(* has no values, an error when s does not decode or decodes differently.  *)
(***************************************************************************)
VerifySemantics(s, continue) ==
  \/ /\ Verifiable(in) => SameValues(in, s)
     /\ pc' = continue /\ verdict' = verdict
  \/ /\ Verifiable(in) /\ ~Verifiable(s)
     /\ Return("unreadable output")
  \/ /\ Verifiable(in) /\ Verifiable(s) /\ ~SameValues(in, s)
     /\ Return("semantics changed")

\* A defect: only the first pass is verified.
VerifyFirstPassOnly ==
  /\ pc = "verify next"
  /\ pc' = "compare"
  /\ UNCHANGED <<library, in, out, next, pass, verdict, produced, accepted>>

VerifyFirst ==
  /\ pc = "verify"
  /\ VerifySemantics(out, "pass")
  /\ UNCHANGED <<library, in, out, next, pass, produced, accepted>>

NextPass ==
  /\ pc = "pass"
  /\ next' = FormatOnce(out)
  /\ IF next' = NoStream
       THEN Return("pass failed") /\ produced' = produced
       ELSE /\ pc' = "verify next"
            /\ verdict' = verdict
            /\ produced' = produced \cup {next'}
  /\ UNCHANGED <<library, in, out, pass, accepted>>

VerifyNext ==
  /\ pc = "verify next"
  /\ VerifySemantics(next, "compare")
  /\ UNCHANGED <<library, in, out, next, pass, produced, accepted>>

Continue ==
  /\ out' = next
  /\ pass' = pass + 1
  /\ pc' = "pass"
  /\ UNCHANGED verdict

\* A defect: the last pass is returned even if it did not settle.
CompareGivesIn ==
  /\ pc = "compare"
  /\ \/ (next = out \/ pass >= MaxPasses) /\ Return("accepted") /\ UNCHANGED <<out, pass>>
     \/ next # out /\ pass < MaxPasses /\ Continue
  /\ UNCHANGED <<library, in, next, produced, accepted>>

\* A defect: the loop has no limit.
CompareUnbounded ==
  /\ pc = "compare"
  /\ \/ next = out /\ Return("accepted") /\ UNCHANGED <<out, pass>>
     \/ next # out /\ Continue
  /\ UNCHANGED <<library, in, next, produced, accepted>>

\* A defect: a pass that changed something is not counted.
CompareForever ==
  /\ pc = "compare"
  /\ \/ next = out /\ Return("accepted") /\ UNCHANGED out
     \/ next # out /\ out' = next /\ pc' = "pass" /\ UNCHANGED verdict
  /\ UNCHANGED <<library, in, next, pass, produced, accepted>>

\* A defect: the unsettled error does not say that nothing was verified.
CompareForgetsUnverified ==
  /\ pc = "compare"
  /\ \/ next = out /\ Return("accepted") /\ UNCHANGED <<out, pass>>
     \/ next # out /\ pass >= MaxPasses /\ Return("not converged") /\ UNCHANGED <<out, pass>>
     \/ next # out /\ pass < MaxPasses /\ Continue
  /\ UNCHANGED <<library, in, next, produced, accepted>>

Compare ==
  /\ pc = "compare"
  /\ \/ next = out /\ Return("accepted") /\ UNCHANGED <<out, pass>>
     \/ next # out /\ pass >= MaxPasses /\ Return(Unsettled) /\ UNCHANGED <<out, pass>>
     \/ next # out /\ pass < MaxPasses /\ Continue
  /\ UNCHANGED <<library, in, next, produced, accepted>>

(***************************************************************************)
(* The caller formats what it was given once more, as a second -w run, the *)
(* -l of a hook and the idempotence tests do.                              *)
(***************************************************************************)
Reformat ==
  /\ pc = "done" /\ verdict = "accepted" /\ accepted = NoStream
  /\ in' = out
  /\ accepted' = out
  /\ pc' = "first"
  /\ out' = NoStream /\ next' = NoStream /\ pass' = 1
  /\ verdict' = Running
  /\ produced' = {}
  /\ UNCHANGED library

Format == FirstPass \/ VerifyFirst \/ NextPass \/ VerifyNext \/ Compare

Next == Format \/ Reformat

Spec == Init /\ [][Next]_vars

\* Format is a sequential function: once called it runs until it returns.
Fairness == WF_vars(Format)

-----------------------------------------------------------------------------
TypeOK ==
  /\ reading \in [Streams -> Readings]
  /\ emit \in [Streams -> Streams \cup {NoStream}]
  /\ pc \in {"first", "verify", "pass", "verify next", "compare", "done"}
  /\ in \in Streams
  /\ out \in Streams \cup {NoStream}
  /\ next \in Streams \cup {NoStream}
  /\ pass \in 1..MaxPasses
  /\ verdict \in Errors \cup {Running, "accepted"}
  /\ produced \subseteq Streams
  /\ accepted \in Streams \cup {NoStream}

(***************************************************************************)
(* Whatever the emitter does, an accepted stream is one the pass leaves    *)
(* alone: -w never writes a file that -l would list again.                 *)
(***************************************************************************)
AcceptedIsFixedPoint == verdict = "accepted" => FormatOnce(out) = out

(***************************************************************************)
(* An accepted stream decodes to the values of the stream Format was given *)
(* (not of an intermediate pass), whenever those values can be compared.   *)
(***************************************************************************)
MeaningKept == verdict = "accepted" /\ Verifiable(in) => SameValues(in, out)

(***************************************************************************)
(* fmt(fmt(x)) = fmt(x): formatting an accepted stream never gives other   *)
(* bytes, and can be refused only if its values do not equal themselves,   *)
(* which takes an input whose own values could not be read.                *)
(***************************************************************************)
Idempotent ==
  accepted # NoStream /\ pc = "done" =>
    \/ verdict = "accepted" /\ out = accepted
    \/ verdict = "semantics changed" /\ ~SameValues(accepted, accepted)

(***************************************************************************)
(* Meaning is checked before stability: a stream reported as unsettled has *)
(* kept its meaning in every pass that was made.                           *)
(***************************************************************************)
UnsettledKeptMeaning ==
  verdict = "not converged" => \A s \in produced : SameValues(in, s)

(***************************************************************************)
(* Every call of Format returns, whatever the emitter does.                 *)
(***************************************************************************)
Returns == pc = "first" ~> pc = "done"

(***************************************************************************)
(* The error for a document whose meaning changed is returned only if some *)
(* pass produced a stream that reads differently from the input, as its    *)
(* comment says ("when formatting would alter what the document means").   *)
(***************************************************************************)
SemanticsErrorIsTrue ==
  verdict = "semantics changed" => \E s \in produced : reading[s] # reading[in]

-----------------------------------------------------------------------------
(***************************************************************************)
(* The inductive strengthening of the invariants above, by program point.  *)
(***************************************************************************)
Looping == pc \in {"pass", "verify next", "compare"}

Control ==
  /\ verdict = Running <=> pc # "done"
  /\ pc = "first" => produced = {}
  /\ pc = "verify" => out \in Streams /\ produced = {out} /\ out = FormatOnce(in)
  /\ Looping => out \in Streams
  /\ pc \in {"verify next", "compare"}
       => next \in Streams /\ next \in produced /\ next = FormatOnce(out)

\* Every pass verified so far decodes to the values of the input.
Verified ==
  /\ Looping /\ Verifiable(in) => SameValues(in, out)
  /\ pc \in {"pass", "compare"} /\ Verifiable(in)
       => \A s \in produced : SameValues(in, s)
  /\ pc = "verify next" /\ Verifiable(in)
       => \A s \in produced \ {next} : SameValues(in, s)
  /\ verdict \in {"not converged", "semantics changed", "unreadable output"}
       => Verifiable(in)
  /\ verdict = "not converged, not verifiable" => ~Verifiable(in)

\* An input that the pass leaves alone stays the only stream in sight.
SettledInput ==
  FormatOnce(in) = in =>
    /\ Looping \/ pc = "verify" => out = in
    /\ pc \in {"verify next", "compare"} => next = in
    /\ pc = "done" => \/ verdict = "accepted" /\ out = in
                      \/ verdict = "semantics changed" /\ ~SameValues(in, in)

SecondCall == accepted # NoStream => in = accepted /\ FormatOnce(in) = in

IInv ==
  /\ TypeOK
  /\ Control
  /\ Verified
  /\ SettledInput
  /\ SecondCall
  /\ verdict = "accepted" => out \in Streams
  /\ AcceptedIsFixedPoint
  /\ MeaningKept
  /\ UnsettledKeptMeaning

-----------------------------------------------------------------------------
Contract == INSTANCE FormatContract WITH
  request <- in,
  answer <- IF verdict = "accepted" THEN out ELSE NoStream

(***************************************************************************)
(* Format implements its contract: all steps but the last are invisible.   *)
(***************************************************************************)
ImplementsContract == Contract!ContractSpec
=============================================================================
