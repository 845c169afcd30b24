--------------------------- MODULE FormatLibrary ----------------------------
(***************************************************************************)
(* The YAML library under format.Format, reduced to what Format can tell   *)
(* apart.  A stream of bytes is an element of Streams.  Reading it gives   *)
(* one of                                                                  *)
(*   Malformed  the parser fails on it;                                    *)
(*   NoDocs     it holds no document (empty, or only comments);            *)
(*   NoValues   it parses, but does not decode to plain values (duplicate  *)
(*              keys, aliasing past the decoder's budget);                 *)
(*   a value    what it decodes to.                                        *)
(* The emitter may do anything to the streams it is given, which is the    *)
(* assumption Format is written against ("defects in the underlying YAML   *)
(* emitter, which are not hypothetical"): both functions are arbitrary and *)
(* never change while the program runs.                                    *)
(***************************************************************************)
CONSTANTS Streams, NoStream,       \* byte streams; the result of a failed pass
          Values, Incomparable,    \* values; those that hold a NaN
          Malformed, NoDocs, NoValues

ASSUME StreamsAssumption == NoStream \notin Streams
ASSUME ValuesAssumption ==
  /\ Incomparable \subseteq Values
  /\ {Malformed, NoDocs, NoValues} \cap Values = {}
  /\ Malformed # NoDocs /\ Malformed # NoValues /\ NoDocs # NoValues

VARIABLES reading, emit

Readings == Values \cup {Malformed, NoDocs, NoValues}

LibraryInit ==
  /\ reading \in [Streams -> Readings]
  /\ emit \in [Streams -> Streams \cup {NoStream}]

(***************************************************************************)
(* One formatting pass: a stream that does not parse fails, one without    *)
(* documents is returned as it is, any other is restyled and re-emitted.   *)
(***************************************************************************)
FormatOnce(s) ==
  IF reading[s] = Malformed THEN NoStream
  ELSE IF reading[s] = NoDocs THEN s
  ELSE emit[s]

Verifiable(s) == reading[s] \notin {Malformed, NoValues}

(***************************************************************************)
(* reflect.DeepEqual over what two streams decode to.  A NaN is unequal to *)
(* itself, so a value that holds one never compares equal.                 *)
(***************************************************************************)
SameValues(s, t) == reading[s] = reading[t] /\ reading[s] \notin Incomparable

Running == "running"
Errors == {"pass failed", "semantics changed", "unreadable output",
           "not converged", "not converged, not verifiable"}
=============================================================================
