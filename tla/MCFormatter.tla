----------------------------- MODULE MCFormatter -----------------------------
(***************************************************************************)
(* Three streams, every reading and every emitter over them.  Two passes   *)
(* are enough for a stream to settle on the last one (a, b, c, c) and to   *)
(* be refused there (a, b, a, b).                                          *)
(***************************************************************************)
EXTENDS Formatter, TLC

CONSTANTS a, b, c, plain, other, nan

MCStreams == {a, b, c}
MCValues == {plain, other, nan}
MCIncomparable == {nan}

(***************************************************************************)
(* What the emitter makes of a stream that never reaches it is not used,   *)
(* so one representative is enough.                                        *)
(***************************************************************************)
Canonical == \A s \in Streams : reading[s] \in {Malformed, NoDocs} => emit[s] = s

MCInit == Init /\ Canonical
MCSpec == MCInit /\ [][Next]_vars /\ Fairness
=============================================================================
