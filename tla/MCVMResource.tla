---------------------------- MODULE MCVMResource ----------------------------
(***************************************************************************)
(* Values for checking VMResource with TLC.  Types t1 and t2 share a       *)
(* product family, t3 has one of its own.                                  *)
(***************************************************************************)
EXTENDS VMResource, TLC

CONSTANTS t1, t2, t3

MCTypes  == {t1, t2, t3}
MCFamily == [t \in MCTypes |-> IF t = t3 THEN "a100" ELSE "c1a"]

\* Instances, disks, access modes and the sizes of one family are interchangeable.
MCSymmetry == Permutations(VMs) \cup Permutations(Modes) \cup Permutations(Disks)
    \cup Permutations({t1, t2})
=============================================================================
