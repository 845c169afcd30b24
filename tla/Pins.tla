-------------------------------- MODULE Pins --------------------------------
(***************************************************************************)
(* What the compatibility table promises to someone who pins a kustofmt:   *)
(* each recorded kustomize release has one kustofmt version, for good, and *)
(* the binary published under that version links the kyaml that kustomize  *)
(* release ships.  Release implements this.                                *)
(***************************************************************************)
CONSTANTS Kustomizes, Kyamls

VARIABLES ships,       \* the kyaml of each kustomize release
          pins,        \* what is recorded: [kustomize, kustofmt]
          binaries     \* what is published: [kustofmt, kyaml]

pinVars == <<ships, pins, binaries>>

\* One version per kustomize release, and one kyaml per version.
Unambiguous(table) ==
  \A p, q \in table :
    /\ p.kustomize = q.kustomize => p = q
    /\ p.kustofmt = q.kustofmt <=> ships[p.kustomize] = ships[q.kustomize]

Right(table, out) ==
  \A p \in table, b \in out : p.kustofmt = b.kustofmt => b.kyaml = ships[p.kustomize]

PinsInit ==
  /\ ships \in [Kustomizes -> Kyamls]
  /\ Unambiguous(pins)
  /\ Right(pins, binaries)

Promise ==
  /\ pins \subseteq pins' /\ binaries \subseteq binaries'
  /\ Unambiguous(pins') /\ Right(pins', binaries')
  /\ UNCHANGED ships

PinsSpec == PinsInit /\ [][Promise]_pinVars
=============================================================================
