------------------------ MODULE MCUpdateTransaction ------------------------
(* Values for UpdateTransaction are in the .cfg files.                     *)
EXTENDS UpdateTransaction, TLC

(* HOMEs are alike.                                                        *)
HomeSymmetry == Permutations(Homes)
===========================================================================
