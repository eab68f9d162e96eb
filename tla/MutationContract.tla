-------------------------- MODULE MutationContract --------------------------
(***************************************************************************)
(* What a caller of remote_mutation_run (host/core/remote_mutation.c)      *)
(* relies on, without locks, markers or messages: guest commands execute   *)
(* one at a time, each at most once, and a command the caller has been     *)
(* told is closed does not execute from then on.                           *)
(***************************************************************************)
CONSTANT Writers

VARIABLES status,  \* status[w] \in {"new", "open", "running", "ended"}
          closed   \* the commands whose unsuccessful call has been settled

vars == <<status, closed>>

Init ==
    /\ status = [w \in Writers |-> "new"]
    /\ closed = {}

Open(w) ==
    /\ status[w] = "new"
    /\ status' = [status EXCEPT ![w] = "open"]
    /\ UNCHANGED closed

Begin(w) ==
    /\ status[w] = "open"
    /\ w \notin closed
    /\ \A v \in Writers : status[v] # "running"
    /\ status' = [status EXCEPT ![w] = "running"]
    /\ UNCHANGED closed

(* The command ends, or is given up before it began. *)
End(w) ==
    /\ status[w] \in {"open", "running"}
    /\ status' = [status EXCEPT ![w] = "ended"]
    /\ UNCHANGED closed

Close(w) ==
    /\ status[w] \in {"open", "ended"}
    /\ closed' = closed \cup {w}
    /\ UNCHANGED status

(* The guest reboots. *)
EndAll ==
    /\ status' = [w \in Writers |-> IF status[w] = "new" THEN "new" ELSE "ended"]
    /\ UNCHANGED closed

Next ==
    \/ \E w \in Writers : Open(w) \/ Begin(w) \/ End(w) \/ Close(w)
    \/ EndAll

Spec == Init /\ [][Next]_vars
=============================================================================
