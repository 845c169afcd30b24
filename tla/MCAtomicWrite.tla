---------------------------- MODULE MCAtomicWrite ----------------------------
(***************************************************************************)
(* A file of alice's that is not formatted, with a save of the editor and  *)
(* a power loss.  Two runs race on it when both are hers, under its own    *)
(* name, and its mode is private; whoever else runs, under either name, on *)
(* a file of any mode, runs alone.                                         *)
(***************************************************************************)
EXTENDS AtomicWrite, TLC

CONSTANTS p1, p2, v1, alice, bob

MCEdits == {v1}
MCUsers == {alice, bob, Root}
MCSymmetry == Permutations(Procs)

Race ==
  /\ file[Original].mode = "private"
  /\ \A p \in Procs : user[p] = alice /\ path[p] = "manifest"

MCInit ==
  /\ Init
  /\ file[Original].owner = alice /\ ~file[Original].data.formatted
  /\ \A p, q \in Procs : user[p] = user[q] /\ path[p] = path[q]

Started == {p \in Procs : pc[p] # "start"}
MCNext == Next /\ (Race \/ \A p, q \in Started' : p = q)

MCSpec == MCInit /\ [][MCNext]_vars
=============================================================================
