---------------------------- MODULE MCAdmission ----------------------------
(* Admission for TLC: its configuration gives the profiles, the sizes and  *)
(* the host's memory; nothing is replaced and no symmetry is used, because *)
(* the run checks liveness too.                                            *)
EXTENDS Admission
===========================================================================
