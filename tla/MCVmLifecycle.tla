--------------------------- MODULE MCVmLifecycle ---------------------------
(* VmLifecycle with interchangeable process identities.                    *)
EXTENDS VmLifecycle, TLC

ProcSymmetry == Permutations(Procs)
===========================================================================
