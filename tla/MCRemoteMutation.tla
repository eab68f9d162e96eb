-------------------------- MODULE MCRemoteMutation --------------------------
(* RemoteMutation for TLC: its configuration gives three writers. Without  *)
(* symmetry, because the run checks liveness and a refinement too.         *)
EXTENDS RemoteMutation
=============================================================================
