------------------------- MODULE MCGuestDeployment -------------------------
(* GuestDeployment for TLC: two configurations, so that a profile can be      *)
(* changed and changed back, and tokens for two transactions at a time.       *)
EXTENDS GuestDeployment, TLC

(* What the transaction's control depends on: of every item and backup, only  *)
(* whether it is cleared and whether it is there.  Every step that two states *)
(* with this view can take leads to states with the same view again.  Once a  *)
(* command came late, which stays so, the properties are about no more than   *)
(* it; before, a state is seen whole.                                         *)
ItemShape(v) == v = Partial
BackupShape(b) == IF b = Gone THEN {"gone"} ELSE {i \in Items : ItemShape(b[i])}
ControlView ==
    <<[i \in Items |-> ItemShape(runtime[i])],
      [i \in Items |-> {ItemShape(v) : v \in runtimeDisk[i]}],
      [t \in Tokens |-> BackupShape(data[t])],
      [t \in Tokens |-> {BackupShape(b) : b \in dataDisk[t]}],
      root, rootDisk, phase, phaseDisk, record, recordDisk,
      up, script, inbox, op, reply, marker, want>>

View == IF "late" \in owed THEN <<"late", ControlView>> ELSE <<"whole", vars>>

(* Bound: the profile is not edited any more once a command came late. *)
LateEdits == "late" \in owed => UNCHANGED want

Symmetry == Permutations(Tokens) \cup Permutations(Configs)
=============================================================================
