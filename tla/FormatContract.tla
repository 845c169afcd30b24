--------------------------- MODULE FormatContract ---------------------------
(***************************************************************************)
(* What format.Format promises its callers, with the number of passes, the *)
(* order of the checks and every intermediate stream left out: one call is *)
(* one step.  A request is either accepted, with a stream that the pass    *)
(* leaves alone and that still decodes to the request's values, or it is   *)
(* refused and no stream is handed back.  Formatter implements this.       *)
(***************************************************************************)
EXTENDS FormatLibrary

VARIABLES request,    \* the stream of the call in progress or just answered
          verdict,    \* Running, or the answer to it
          answer,     \* the stream returned with "accepted"
          accepted    \* the stream the previous call returned, if any

contractVars == <<reading, emit, request, verdict, answer, accepted>>

ContractInit ==
  /\ LibraryInit
  /\ request \in Streams
  /\ verdict = Running
  /\ answer = NoStream
  /\ accepted = NoStream

Accept(s) ==
  /\ verdict = Running
  /\ FormatOnce(s) = s
  /\ Verifiable(request) => SameValues(request, s)
  /\ verdict' = "accepted"
  /\ answer' = s
  /\ UNCHANGED <<reading, emit, request, accepted>>

(***************************************************************************)
(* A stream the pass leaves alone, and whose values equal themselves, is   *)
(* never refused; a stream without documents is left alone by the pass.    *)
(* Only a verifiable request can be refused over its meaning, and only an  *)
(* unverifiable one is told so.                                            *)
(***************************************************************************)
Refuse(error) ==
  /\ verdict = Running
  /\ FormatOnce(request) = request
       => Verifiable(request) /\ ~SameValues(request, request)
  /\ error \in {"semantics changed", "unreadable output", "not converged"}
       => Verifiable(request)
  /\ error = "not converged, not verifiable" => ~Verifiable(request)
  /\ verdict' = error
  /\ UNCHANGED <<reading, emit, request, answer, accepted>>

Again ==
  /\ verdict = "accepted"
  /\ accepted = NoStream
  /\ request' = answer
  /\ accepted' = answer
  /\ verdict' = Running
  /\ answer' = NoStream
  /\ UNCHANGED <<reading, emit>>

ContractNext ==
  \/ \E s \in Streams : Accept(s)
  \/ \E error \in Errors : Refuse(error)
  \/ Again

ContractSpec == ContractInit /\ [][ContractNext]_contractVars
=============================================================================
