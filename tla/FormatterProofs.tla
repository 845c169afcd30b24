--------------------------- MODULE FormatterProofs ---------------------------
(***************************************************************************)
(* Proofs about Formatter, for every set of streams and values, every      *)
(* reading and emitter over them, and every number of passes.              *)
(***************************************************************************)
EXTENDS Formatter, TLAPS

(***************************************************************************)
(* What a verification step can do: go on with the same verdict, having    *)
(* established that s keeps the meaning of in, or return a true complaint. *)
(***************************************************************************)
LEMMA VerifyOutcome ==
  ASSUME NEW s, NEW continue, VerifySemantics(s, continue)
  PROVE  \/ /\ pc' = continue /\ verdict' = verdict
            /\ Verifiable(in) => SameValues(in, s)
         \/ /\ pc' = "done" /\ verdict' \in {"unreadable output", "semantics changed"}
            /\ Verifiable(in) /\ ~SameValues(in, s)
            /\ verdict' = "unreadable output" => ~Verifiable(s)
BY DEF VerifySemantics, Return, SameValues, Verifiable

(***************************************************************************)
(* A pass gives a stream or fails.                                         *)
(***************************************************************************)
LEMMA FormatOnceType ==
  ASSUME NEW s \in Streams, TypeOK
  PROVE  FormatOnce(s) \in Streams \cup {NoStream}
BY DEF FormatOnce, TypeOK


-----------------------------------------------------------------------------
(***************************************************************************)
(* The inductive invariant of Format's loop holds initially ...            *)
(***************************************************************************)
LEMMA InitIInv == Init => IInv
BY StreamsAssumption, MaxPassesAssumption
   DEF Init, LibraryInit, IInv, TypeOK, Control, Verified, SettledInput, SecondCall,
       Looping, Running, Errors, AcceptedIsFixedPoint, MeaningKept, UnsettledKeptMeaning

(***************************************************************************)
(* ... and every step of Format and of its caller keeps it.                *)
(***************************************************************************)
LEMMA NextIInv == IInv /\ [Next]_vars => IInv'
<1> SUFFICES ASSUME IInv, [Next]_vars PROVE IInv'
  OBVIOUS
<1> USE StreamsAssumption, MaxPassesAssumption
<1> USE DEF IInv, TypeOK, Control, Verified, SettledInput, SecondCall, Looping,
            Running, Errors, AcceptedIsFixedPoint, MeaningKept, UnsettledKeptMeaning
<1>1. CASE FirstPass
  <2>1. FormatOnce(in) \in Streams \cup {NoStream}
    BY FormatOnceType
  <2>2. /\ reading' = reading /\ emit' = emit /\ in' = in
        /\ FormatOnce(in)' = FormatOnce(in)
    BY <1>1 DEF FirstPass, library, FormatOnce
  <2> QED
    BY <1>1, <2>1, <2>2 DEF FirstPass, Return, FormatOnce, Verifiable, SameValues
<1>2. CASE VerifyFirst
  <2>1. CASE /\ pc' = "pass" /\ verdict' = verdict
             /\ Verifiable(in) => SameValues(in, out)
    BY <1>2, <2>1 DEF VerifyFirst, library, FormatOnce, Verifiable, SameValues
  <2>2. CASE /\ pc' = "done" /\ verdict' \in {"unreadable output", "semantics changed"}
             /\ Verifiable(in) /\ ~SameValues(in, out)
             /\ verdict' = "unreadable output" => ~Verifiable(out)
    BY <1>2, <2>2 DEF VerifyFirst, library, FormatOnce, Verifiable, SameValues
  <2> QED
    BY <1>2, <2>1, <2>2, VerifyOutcome DEF VerifyFirst
<1>3. CASE NextPass
  <2>1. FormatOnce(out) \in Streams \cup {NoStream}
    BY <1>3, FormatOnceType DEF NextPass
  <2> QED
    BY <1>3, <2>1 DEF NextPass, Return, library, FormatOnce, Verifiable, SameValues
<1>4. CASE VerifyNext
  <2>1. CASE /\ pc' = "compare" /\ verdict' = verdict
             /\ Verifiable(in) => SameValues(in, next)
    BY <1>4, <2>1 DEF VerifyNext, library, FormatOnce, Verifiable, SameValues
  <2>2. CASE /\ pc' = "done" /\ verdict' \in {"unreadable output", "semantics changed"}
             /\ Verifiable(in) /\ ~SameValues(in, next)
             /\ verdict' = "unreadable output" => ~Verifiable(next)
    BY <1>4, <2>2 DEF VerifyNext, library, FormatOnce, Verifiable, SameValues
  <2> QED
    BY <1>4, <2>1, <2>2, VerifyOutcome DEF VerifyNext
<1>5. CASE Compare
  <2> USE DEF library, FormatOnce, Verifiable, SameValues, Return
  <2>1. /\ pc = "compare"
        /\ UNCHANGED <<reading, emit, in, next, produced, accepted>>
    BY <1>5 DEF Compare
  <2>2. CASE next = out /\ Return("accepted") /\ UNCHANGED <<out, pass>>
    <3>1. TypeOK' /\ Control' /\ Verified'
      BY <2>1, <2>2
    <3>2. SettledInput' /\ SecondCall' /\ out' \in Streams
      BY <2>1, <2>2
    <3>3. AcceptedIsFixedPoint' /\ MeaningKept' /\ UnsettledKeptMeaning'
      BY <2>1, <2>2
    <3> QED
      BY <3>1, <3>2, <3>3
  <2>3. CASE next # out /\ Return(Unsettled) /\ UNCHANGED <<out, pass>>
    <3>1. TypeOK' /\ Control'
      BY <2>1, <2>3 DEF Unsettled
    <3>2. Verified' /\ UnsettledKeptMeaning'
      BY <2>1, <2>3 DEF Unsettled
    <3>3. SettledInput' /\ SecondCall'
      BY <2>1, <2>3
    <3>4. verdict' # "accepted"
      BY <2>3 DEF Unsettled
    <3> QED
      BY <3>1, <3>2, <3>3, <3>4
  <2>4. CASE next # out /\ pass < MaxPasses /\ Continue
    <3>1. /\ out' = next /\ pc' = "pass"
          /\ verdict' = verdict /\ verdict = Running
          /\ pass' \in 1..MaxPasses
      BY <2>1, <2>4 DEF Continue
    <3> HIDE MaxPassesAssumption
    <3>2. TypeOK' /\ Control'
      BY <2>1, <3>1
    <3>3. Verified' /\ SettledInput'
      BY <2>1, <3>1
    <3>4. SecondCall'
      BY <2>1, <3>1
    <3> QED
      BY <3>1, <3>2, <3>3, <3>4
  <2> QED
    BY <1>5, <2>2, <2>3, <2>4 DEF Compare
<1>6. CASE Reformat
  BY <1>6 DEF Reformat, library, FormatOnce, Verifiable, SameValues
<1>7. CASE UNCHANGED vars
  <2>1. UNCHANGED <<reading, emit, pc, in, out, next, pass, verdict, produced, accepted>>
    BY <1>7 DEF vars
  <2>2. TypeOK' /\ Control'
    BY <2>1 DEF FormatOnce, Verifiable, SameValues
  <2>3. Verified'
    BY <2>1 DEF FormatOnce, Verifiable, SameValues
  <2>4. SettledInput' /\ SecondCall' /\ (verdict = "accepted" => out \in Streams)'
    BY <2>1 DEF FormatOnce, SameValues
  <2>5. AcceptedIsFixedPoint' /\ MeaningKept' /\ UnsettledKeptMeaning'
    BY <2>1 DEF FormatOnce, Verifiable, SameValues
  <2> QED
    BY <2>2, <2>3, <2>4, <2>5
<1> QED
  BY <1>1, <1>2, <1>3, <1>4, <1>5, <1>6, <1>7 DEF Next, Format

\* The inductive invariant holds in every reachable state of Format and its caller.
THEOREM Inductive == Spec => []IInv
BY InitIInv, NextIInv, PTL DEF Spec

-----------------------------------------------------------------------------
(***************************************************************************)
(* The variables of Format keep their types.                               *)
(***************************************************************************)
THEOREM TypeCorrect == Spec => []TypeOK
BY Inductive, PTL DEF IInv

(***************************************************************************)
(* Format never hands back a stream that a pass would still change.        *)
(***************************************************************************)
THEOREM FixedPoint == Spec => []AcceptedIsFixedPoint
BY Inductive, PTL DEF IInv

(***************************************************************************)
(* Format never hands back a stream whose values differ from the input's.  *)
(***************************************************************************)
THEOREM MeaningIsKept == Spec => []MeaningKept
BY Inductive, PTL DEF IInv

(***************************************************************************)
(* Format reports "not converged" only if no pass changed the meaning.     *)
(***************************************************************************)
THEOREM MeaningBeforeStability == Spec => []UnsettledKeptMeaning
BY Inductive, PTL DEF IInv

(***************************************************************************)
(* fmt(fmt(x)) = fmt(x).                                                   *)
(***************************************************************************)
THEOREM FormatIsIdempotent == Spec => []Idempotent
<1>1. IInv => Idempotent
  BY DEF IInv, Idempotent, SecondCall, SettledInput
<1> QED
  BY <1>1, Inductive, PTL

-----------------------------------------------------------------------------
(***************************************************************************)
(* The refinement: the initial states map to initial states of the         *)
(* contract, and each step of Format is a step of the contract or none.    *)
(***************************************************************************)
LEMMA InitContract == Init => Contract!ContractInit
BY DEF Init, LibraryInit, Contract!ContractInit, Contract!LibraryInit, Contract!Readings,
       Readings, Running, Contract!Running

\* Returning a stream is an Accept of the contract.
LEMMA AcceptStep ==
  ASSUME IInv, Compare, next = out
  PROVE  Contract!Accept(out)
BY DEF IInv, Control, Verified, Looping, Compare, Return, library, Contract!Accept,
       FormatOnce, Contract!FormatOnce, Verifiable, Contract!Verifiable,
       SameValues, Contract!SameValues, Running, Contract!Running

(***************************************************************************)
(* Every return with an error is a refusal the contract allows.            *)
(***************************************************************************)
LEMMA RefuseStep ==
  ASSUME IInv, IInv', NEW error \in Errors,
         Running = verdict, verdict' = error, UNCHANGED <<reading, emit, in, accepted>>,
         pc' = "done"
  PROVE  Contract!Refuse(error)
<1>1. FormatOnce(in) = in => Verifiable(in) /\ ~SameValues(in, in)
  BY DEF IInv, SettledInput, Verified, Control, TypeOK, Errors, Running,
         FormatOnce, Verifiable, SameValues
<1>2. /\ error \in {"semantics changed", "unreadable output", "not converged"} => Verifiable(in)
      /\ error = "not converged, not verifiable" => ~Verifiable(in)
  BY DEF IInv, Verified, Verifiable
<1>3. verdict # "accepted" /\ verdict' # "accepted"
  BY DEF Errors, Running
<1> QED
  BY <1>1, <1>2, <1>3
     DEF Contract!Refuse, FormatOnce, Contract!FormatOnce, Verifiable, Contract!Verifiable,
         SameValues, Contract!SameValues, Running, Contract!Running

\* Every step of Format is one of the contract or a stutter.
LEMMA NextContract ==
  IInv /\ IInv' /\ [Next]_vars => [Contract!ContractNext]_(Contract!contractVars)
<1> SUFFICES ASSUME IInv, IInv', [Next]_vars
             PROVE  [Contract!ContractNext]_(Contract!contractVars)
  OBVIOUS
<1> DEFINE Silent == /\ UNCHANGED <<reading, emit, in, verdict, accepted>>
                     /\ verdict = Running
           Fails == /\ UNCHANGED <<reading, emit, in, accepted>>
                    /\ verdict = Running /\ verdict' \in Errors /\ pc' = "done"
<1>1. ASSUME Silent PROVE UNCHANGED Contract!contractVars
  BY <1>1 DEF Contract!contractVars, Running
<1>2. ASSUME Fails PROVE Contract!ContractNext
  <2>1. Contract!Refuse(verdict')
    BY <1>2, RefuseStep
  <2> QED
    BY <1>2, <2>1 DEF Contract!ContractNext, Errors, Contract!Errors
<1>3. CASE FirstPass
  <2>1. Silent \/ Fails
    BY <1>3 DEF FirstPass, Return, library, IInv, Control, Errors
  <2> QED
    BY <2>1, <1>1, <1>2
<1>4. CASE VerifyFirst
  <2>1. Silent \/ Fails
    BY <1>4, VerifyOutcome DEF VerifyFirst, library, IInv, Control, Errors
  <2> QED
    BY <2>1, <1>1, <1>2
<1>5. CASE NextPass
  <2>1. Silent \/ Fails
    BY <1>5 DEF NextPass, Return, library, IInv, Control, Errors
  <2> QED
    BY <2>1, <1>1, <1>2
<1>6. CASE VerifyNext
  <2>1. Silent \/ Fails
    BY <1>6, VerifyOutcome DEF VerifyNext, library, IInv, Control, Errors
  <2> QED
    BY <2>1, <1>1, <1>2
<1>7. CASE Compare
  <2>1. CASE next = out
    <3>1. Contract!Accept(out) /\ out \in Streams
      BY <1>7, <2>1, AcceptStep DEF Compare, IInv, Control, Looping
    <3> QED
      BY <3>1 DEF Contract!ContractNext
  <2>2. CASE next # out
    <3>1. Silent \/ Fails
      BY <1>7, <2>2 DEF Compare, Return, Continue, Unsettled, library, IInv, Control, Errors
    <3> QED
      BY <3>1, <1>1, <1>2
  <2> QED
    BY <2>1, <2>2
<1>8. CASE Reformat
  BY <1>8 DEF Reformat, library, Contract!ContractNext, Contract!Again, Running,
              Contract!Running
<1>9. CASE UNCHANGED vars
  BY <1>9 DEF vars, Contract!contractVars
<1> QED
  BY <1>3, <1>4, <1>5, <1>6, <1>7, <1>8, <1>9 DEF Next, Format

(***************************************************************************)
(* Format implements its contract.                                         *)
(***************************************************************************)
THEOREM Implements == Spec => ImplementsContract
BY InitContract, NextContract, Inductive, PTL
   DEF Spec, ImplementsContract, Contract!ContractSpec
=============================================================================
