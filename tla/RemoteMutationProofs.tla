------------------------ MODULE RemoteMutationProofs ------------------------
(***************************************************************************)
(* Proofs about the fence of host/core/remote_mutation.c, for every set of *)
(* writers.                                                                *)
(***************************************************************************)
EXTENDS RemoteMutation, TLAPS

(* The guest lock is held by exactly the writer that has passed flock. *)
LockInv == \A w \in Writers : guest[w] \in LockStates <=> lockHolder = w

(* The call under way, if any, is of a token the process has drawn; past the *)
(* publication it can only still run, or is harmless.                        *)
CallInv ==
    /\ pc = "idle" <=> cur = NoWriter
    /\ pc # "idle" => cur \in mine /\ guest[cur] # "unsent"
    /\ pc = "barrier" => guest[cur] = "running" \/ Harmless(cur)

(* The inductive invariant: what the fence promises is not inductive without *)
(* the meaning of the lock and of the marker published before the barrier.   *)
IInv ==
    /\ TypeOK
    /\ LockInv
    /\ CallInv
    /\ FencedNeverRuns
    /\ NoRaceWithOwnWriter

(* A harmless writer stays harmless in every step: only the writer itself    *)
(* removes its marker, and then it is over; a reboot ends it.                *)
LEMMA HarmlessStable ==
    ASSUME TypeOK, Next, NEW w \in Writers, Harmless(w)
    PROVE  Harmless(w)'
<1>1. CASE HostStep
  BY <1>1 DEF HostStep, Run, ExecOk, ExecUnsuccessful, PublishOk, PublishFailed,
     BarrierOk, BarrierFailed, GiveUp, guestSide, Harmless, TypeOK, Over, Pending
<1>2. CASE HostCrash
  BY <1>2 DEF HostCrash, guestSide, Harmless
<1>3. CASE GuestStep
  BY <1>3 DEF GuestStep, Arrive, Lose, Acquire, Refuse, Execute, Finish, host,
     Harmless, TypeOK, Over, Pending
<1>4. CASE Reboot
  BY <1>4 DEF Reboot, Harmless, TypeOK, Over, Pending
<1>5. QED BY <1>1, <1>2, <1>3, <1>4 DEF Next

(* Every step keeps the variables in their types. *)
LEMMA TypeStep == TypeOK /\ CallInv /\ [Next]_vars => TypeOK'
<1> SUFFICES ASSUME TypeOK, CallInv, [Next]_vars PROVE TypeOK'
  OBVIOUS
<1> USE DEF TypeOK, GuestStates
<1>1. CASE HostStep
  BY <1>1, NoWriterAssumption DEF HostStep, Run, ExecOk, ExecUnsuccessful, PublishOk,
     PublishFailed, BarrierOk, BarrierFailed, GiveUp, guestSide, CallInv
<1>2. CASE HostCrash
  BY <1>2 DEF HostCrash, guestSide
<1>3. CASE GuestStep
  BY <1>3 DEF GuestStep, Arrive, Lose, Acquire, Refuse, Execute, Finish, host
<1>4. CASE Reboot
  <2>1. guest' \in [Writers -> GuestStates]
    BY <1>4 DEF Reboot
  <2>2. QED BY <1>4, <2>1 DEF Reboot, host
<1>5. CASE UNCHANGED vars
  BY <1>5 DEF vars
<1>6. QED BY <1>1, <1>2, <1>3, <1>4, <1>5 DEF Next

(* Every step keeps the lock and its holder in agreement. *)
LEMMA LockStep == TypeOK /\ LockInv /\ [Next]_vars => LockInv'
<1> SUFFICES ASSUME TypeOK, LockInv, [Next]_vars PROVE LockInv'
  OBVIOUS
<1> USE NoWriterAssumption DEF TypeOK, LockInv, LockStates
<1>1. CASE HostStep
  BY <1>1 DEF HostStep, Run, ExecOk, ExecUnsuccessful, PublishOk, PublishFailed,
     BarrierOk, BarrierFailed, GiveUp, guestSide
<1>2. CASE HostCrash
  BY <1>2 DEF HostCrash, guestSide
<1>3. CASE GuestStep
  <2> PICK w \in Writers :
        Arrive(w) \/ Lose(w) \/ Acquire(w) \/ Refuse(w) \/ Execute(w) \/ Finish(w)
    BY <1>3 DEF GuestStep
  <2>1. CASE Arrive(w) BY <2>1 DEF Arrive
  <2>2. CASE Lose(w) BY <2>2 DEF Lose
  <2>3. CASE Acquire(w) BY <2>3 DEF Acquire
  <2>4. CASE Refuse(w) BY <2>4 DEF Refuse
  <2>5. CASE Execute(w) BY <2>5 DEF Execute
  <2>6. CASE Finish(w) BY <2>6 DEF Finish
  <2>7. QED BY <2>1, <2>2, <2>3, <2>4, <2>5, <2>6
<1>4. CASE Reboot
  BY <1>4 DEF Reboot
<1>5. CASE UNCHANGED vars
  BY <1>5 DEF vars
<1>6. QED BY <1>1, <1>2, <1>3, <1>4, <1>5 DEF Next

(* Every step keeps what is known of the call under way. *)
LEMMA CallStep == IInv /\ [Next]_vars => CallInv'
<1> SUFFICES ASSUME IInv, [Next]_vars PROVE CallInv'
  OBVIOUS
<1> USE NoWriterAssumption DEF IInv, TypeOK, CallInv
<1>1. CASE HostStep
  <2>1. CASE \E w \in Writers : Run(w)
    BY <2>1 DEF Run
  <2>2. CASE ExecOk \/ ExecUnsuccessful
    BY <2>2 DEF ExecOk, ExecUnsuccessful, guestSide
  <2>3. CASE PublishOk
    BY <2>3 DEF PublishOk, Harmless, Over, Pending, GuestStates
  <2>4. CASE PublishFailed \/ BarrierOk \/ BarrierFailed
    BY <2>4 DEF PublishFailed, BarrierOk, BarrierFailed, GiveUp
  <2>5. QED BY <1>1, <2>1, <2>2, <2>3, <2>4 DEF HostStep
<1>2. CASE HostCrash
  BY <1>2 DEF HostCrash
<1>3. CASE GuestStep
  <2>1. UNCHANGED host /\ \A w \in Writers : guest[w] # "unsent" => guest'[w] # "unsent"
    BY <1>3 DEF GuestStep, Arrive, Lose, Acquire, Refuse, Execute, Finish
  <2>2. \A w \in Writers : guest[w] = "running" => guest'[w] \in {"running"} \cup Over
    BY <1>3 DEF GuestStep, Arrive, Lose, Acquire, Refuse, Execute, Finish, Over
  <2>3. \A w \in Writers : Harmless(w) => Harmless(w)'
    BY <1>3, HarmlessStable DEF Next
  <2>4. QED BY <2>1, <2>2, <2>3 DEF host, Harmless
<1>4. CASE Reboot
  <2>1. UNCHANGED host /\ \A w \in Writers : guest[w] # "unsent" => guest'[w] \in Over
    BY <1>4 DEF Reboot, Over, GuestStates
  <2>2. QED BY <2>1 DEF host, Harmless, Over
<1>5. CASE UNCHANGED vars
  BY <1>5 DEF vars, Harmless
<1>6. QED BY <1>1, <1>2, <1>3, <1>4, <1>5 DEF Next

(* Every step keeps the fence's promises to the process.  The barrier is the *)
(* step that matters: it finds the lock free, so the writer it settles is    *)
(* not running and, by CallInv, harmless.                                    *)
LEMMA FenceStep == IInv /\ [Next]_vars => FencedNeverRuns' /\ NoRaceWithOwnWriter'
<1> SUFFICES ASSUME IInv, [Next]_vars PROVE FencedNeverRuns' /\ NoRaceWithOwnWriter'
  OBVIOUS
<1> USE DEF IInv, TypeOK, CallInv, FencedNeverRuns, NoRaceWithOwnWriter
<1>0. CASE UNCHANGED vars
  BY <1>0 DEF vars, Harmless
<1>h. ASSUME Next PROVE \A w \in Writers : Harmless(w) => Harmless(w)'
  BY <1>h, HarmlessStable
<1>1. CASE \E w \in Writers : Run(w)
  <2>1. /\ ~cleanupPending' /\ settled' = settled
        /\ mine' \ {cur'} \subseteq mine \ {cur}
    BY <1>1, NoWriterAssumption DEF Run
  <2>2. QED BY <1>1, <1>h, <2>1 DEF Run, Next, HostStep
<1>2. CASE ExecOk
  BY <1>2 DEF ExecOk, guestSide, Harmless, Over
<1>3. CASE ExecUnsuccessful
  BY <1>3, <1>h DEF ExecUnsuccessful, Next, HostStep
<1>4. CASE PublishOk
  BY <1>4, <1>h DEF PublishOk, Next, HostStep
<1>5. CASE PublishFailed \/ BarrierFailed
  BY <1>5, <1>h DEF PublishFailed, BarrierFailed, GiveUp, Next, HostStep
<1>6. CASE BarrierOk
  <2>1. Harmless(cur)
    BY <1>6, NoWriterAssumption DEF BarrierOk, LockInv, LockStates
  <2>2. QED BY <1>6, <2>1, NoWriterAssumption DEF BarrierOk, guestSide, Harmless
<1>7. CASE HostCrash
  BY <1>7, <1>h DEF HostCrash, Next
<1>8. CASE GuestStep
  <2>1. UNCHANGED host
    BY <1>8 DEF GuestStep, Arrive, Lose, Acquire, Refuse, Execute, Finish
  <2>2. QED BY <1>8, <1>h, <2>1 DEF host, Next
<1>9. CASE Reboot
  BY <1>9, <1>h DEF Reboot, host, Next
<1>10. QED
  BY <1>0, <1>1, <1>2, <1>3, <1>4, <1>5, <1>6, <1>7, <1>8, <1>9 DEF Next, HostStep

(* The inductive invariant holds in every behaviour. *)
LEMMA Invariance == Spec => []IInv
<1>1. Init => IInv
  BY NoWriterAssumption DEF Init, IInv, TypeOK, GuestStates, LockInv, LockStates,
     CallInv, FencedNeverRuns, NoRaceWithOwnWriter
<1>2. IInv /\ [Next]_vars => IInv'
  BY TypeStep, LockStep, CallStep, FenceStep DEF IInv
<1>3. QED BY <1>1, <1>2, PTL DEF Spec

(* remote_mutation.c keeps its variables in their types. *)
THEOREM TypeCorrect == Spec => []TypeOK
<1>1. IInv => TypeOK BY DEF IInv
<1>2. QED BY Invariance, <1>1, PTL

(* Guest commands exclude each other, whatever hosts die and writers linger. *)
THEOREM MutualExclusion == Spec => []OneWriterAtATime
<1>1. IInv => OneWriterAtATime BY DEF IInv, LockInv, OneWriterAtATime
<1>2. QED BY Invariance, <1>1, PTL

(* A settled fence is final: the writer is over or finds its marker. *)
THEOREM FenceIsFinal == Spec => []FencedNeverRuns
<1>1. IInv => FencedNeverRuns BY DEF IInv
<1>2. QED BY Invariance, <1>1, PTL

(* The whole of remote_mutation_run implements what its callers rely on.  A  *)
(* writer begins in Execute alone, where it owns the lock and has no marker: *)
(* so it is not fenced, and nobody else runs.                                *)
THEOREM Refinement == Spec => ImplementsContract
<1> USE DEF Contract!Init, Contract!Next, Contract!vars
<1>1. Init => Contract!Init
  BY Zenon DEF Init, Status, Pending
<1>2. IInv /\ [Next]_vars => [Contract!Next]_(Contract!vars)
  <2> SUFFICES ASSUME IInv, [Next]_vars PROVE [Contract!Next]_(Contract!vars)
    OBVIOUS
  <2> USE DEF IInv, TypeOK, GuestStates, Pending
  <2>1. CASE UNCHANGED vars
    BY <2>1 DEF vars, Status
  <2>2. CASE \E w \in Writers : Run(w)
    <3> PICK w \in Writers : Run(w) BY <2>2
    <3>1. Contract!Open(w) BY DEF Contract!Open, Run, Status
    <3>2. QED BY <3>1
  <2>3. CASE ExecOk \/ ExecUnsuccessful \/ PublishOk \/ PublishFailed \/ BarrierFailed \/ HostCrash
    BY <2>3 DEF ExecOk, ExecUnsuccessful, PublishOk, PublishFailed, BarrierFailed,
       GiveUp, HostCrash, guestSide, Status
  <2>4. CASE BarrierOk
    <3>1. cur \in Writers /\ Status[cur] \in {"open", "ended"}
      BY <2>4, NoWriterAssumption DEF BarrierOk, CallInv, LockInv, LockStates, Harmless, Over, Status
    <3>2. Contract!Close(cur)
      BY <2>4, <3>1 DEF BarrierOk, Contract!Close, guestSide, Status
    <3>3. QED BY <3>1, <3>2
  <2>5. ASSUME NEW w \in Writers, Arrive(w) \/ Acquire(w)
        PROVE  UNCHANGED Contract!vars
    BY <2>5 DEF Arrive, Acquire, host, Status
  <2>6. ASSUME NEW w \in Writers, Lose(w) \/ Refuse(w) \/ Finish(w)
        PROVE  Contract!Next
    <3>1. Contract!End(w)
      BY <2>6 DEF Lose, Refuse, Finish, host, Status, Contract!End
    <3>2. QED BY <3>1
  <2>7. ASSUME NEW w \in Writers, Execute(w)
        PROVE  Contract!Next
    <3>1. w \notin settled
      BY <2>7 DEF Execute, FencedNeverRuns, Harmless, Over
    <3>2. \A v \in Writers : Status[v] # "running"
      BY <2>7 DEF Execute, LockInv, LockStates, Status
    <3>3. Contract!Begin(w)
      BY <2>7, <3>1, <3>2 DEF Execute, host, Status, Contract!Begin
    <3>4. QED BY <3>3
  <2>8. CASE Reboot
    <3>1. Contract!EndAll
      BY <2>8 DEF Reboot, host, Status, Contract!EndAll
    <3>2. QED BY <3>1
  <2>9. QED
    BY <2>1, <2>2, <2>3, <2>4, <2>5, <2>6, <2>7, <2>8 DEF Next, HostStep, GuestStep
<1>3. QED BY <1>1, <1>2, Invariance, PTL DEF Spec, ImplementsContract, Contract!Spec

(* A host process that may go on has no earlier writer left to race with. *)
THEOREM NoRace == Spec => []NoRaceWithOwnWriter
<1>1. IInv => NoRaceWithOwnWriter BY DEF IInv
<1>2. QED BY Invariance, <1>1, PTL
=============================================================================
