------------------------- MODULE VmLifecycleProofs -------------------------
(***************************************************************************)
(* Proofs about VmLifecycle for any set of process identities and any set  *)
(* of observers that probe without the lifecycle flock, as long as no      *)
(* observer is about to write over the name of another living vmrun        *)
(* (AdoptionSparesOthers).                                                 *)
(*                                                                         *)
(* The argument.  Call a vmrun present while it may still start or run a   *)
(* VM, or can still touch the files on its way out.  A present vmrun holds *)
(* the spawn guard or is the one vmrun.identity names; there is only one;  *)
(* and what the host operation has learnt so far is true of it: once its   *)
(* probe has passed the guard no guard is held, once it has an answer the  *)
(* only present process is the one it answered, and where it cleans up,    *)
(* deletes or spawns there is none.  An observer that adopts a vmrun on    *)
(* its way out writes what the file says already, or the name of one that  *)
(* nobody looks for any more: it makes none present.                       *)
(*                                                                         *)
(* The last part is about Admission, where the starts of any finite set of *)
(* profiles share the host's memory: see AdmInv.                           *)
(***************************************************************************)
EXTENDS VmLifecycle, FiniteSetTheorems, TLAPS

PreHandoff == {"spawned", "valid", "named", "numbered"}
Naming == {"named", "numbered", "handed", "created", "bound", "serving",
           "unlinking"}

(* The vmruns the next operation must not overlook.                        *)
Present(p) ==
    \/ stage[p] \in Active
    \/ stage[p] \in {"leaving", "unlinking"} /\ identity = p
    \/ stage[p] \in Leaving \ {"closed"} /\ guard = p

NonePresent == \A p \in Procs : ~Present(p)
OnlyPresent(q) == \A p \in Procs : Present(p) => p = q

ProbeWait == {"probe", "reprobe", "stopprobe", "awaitprobe", "recheck"}
Quiet == CleanPcs \cup {"prepare", "save", "guard", "spawn", "remove"}
Owning == {"owned", "poweroff", "term", "termwait", "kill", "killwait"}

(* What the files say of every vmrun.                                      *)
Files ==
    /\ \A p \in Procs : stage[p] \in PreHandoff => guard = p
    /\ \A p \in Procs : stage[p] \in Naming => identity = p
    /\ \A p, q \in Procs : Present(p) /\ Present(q) => p = q

(* What the host operation knows from its own position.                    *)
OpKnows ==
    /\ op.pc \in Quiet => NonePresent
    /\ op.pc = "spawn" => /\ op.child \in Procs /\ guard = op.child
                          /\ stage[op.child] = "dead"
    /\ op.pc \in Owning => OnlyPresent(op.id)
    /\ op.pc \in {"guard", "spawn"} => state = "starting"
    /\ op.pc \in {"save", "guard", "spawn"} => disk

(* What it knows from its probe.                                           *)
ProbeKnows ==
    /\ probe[Host].pc # "off" => op.pc \in ProbeWait
    /\ probe[Host].pc \in {"ctl", "files"} =>
           \A p \in Procs : guard = p => stage[p] \in {"dead", "closed"}
    /\ probe[Host].pc \in {"adopt", "persist", "persistpid", "verified"} =>
           OnlyPresent(probe[Host].who)
    /\ probe[Host].pc = "stale" => NonePresent

Disks == \A p \in vm : stage[p] \in Active => disk

(* The vmrun an observer adopts served when it was asked: it will not      *)
(* start again, and keeps its name until its exit handler gives it up.     *)
ObserversKnow ==
    \A a \in Observers : probe[a].pc \in {"adopt", "persist"} =>
        /\ probe[a].who \in Procs
        /\ stage[probe[a].who] \notin Starting
        /\ stage[probe[a].who] \in {"serving", "leaving"} => identity = probe[a].who
        /\ op.pc = "spawn" => op.child # probe[a].who

IInv == TypeOK /\ Files /\ OpKnows /\ ProbeKnows /\ Disks
            /\ StoppedIsStopped /\ ObserversKnow

---------------------------------------------------------------------------
(* How the operation, the probes and the stages are moved keeps their type *)
LEMMA MoveTypes ==
    ASSUME TypeOK
    PROVE  /\ \A pc \in OpPcs : Goto(pc) => op' \in Ops
           /\ EndOp => op' \in Ops
           /\ \A t \in Thens : StopVm(t) => /\ op' \in Ops
                                           /\ probe' \in [Probers -> Probes]
           /\ \A pc \in OpPcs : GotoProbe(pc) =>
                                    /\ op' \in Ops
                                    /\ probe' \in [Probers -> Probes]
           /\ Forget => probe' \in [Probers -> Probes]
           /\ \A a \in Probers, pc \in ProbePcs, w \in ProcOrNone :
                 /\ SetProbe(a, pc, w) => probe' \in [Probers -> Probes]
                 /\ Answer(a, pc, w) => probe' \in [Probers -> Probes]
           /\ \A p \in ProcOrNone, t \in Stages :
                 To(p, t) => stage' \in [Procs -> Stages]
<1>1. \A pc \in OpPcs : Goto(pc) => op' \in Ops
      BY DEF TypeOK, Goto, Ops
<1>2. EndOp => op' \in Ops
      BY DEF EndOp, NoOp, Ops, OpPcs, ProcOrNone, Thens
<1>3. \A a \in Probers, pc \in ProbePcs, w \in ProcOrNone :
         SetProbe(a, pc, w) => probe' \in [Probers -> Probes]
      BY DEF TypeOK, SetProbe, Probes
<1>4. NoProbe \in Probes
      BY DEF NoProbe, Probes, ProbePcs, ProcOrNone
<1>5. \A a \in Probers, pc \in ProbePcs, w \in ProcOrNone :
         Answer(a, pc, w) => probe' \in [Probers -> Probes]
      BY <1>3, <1>4 DEF TypeOK, Answer
<1>6. Forget => probe' \in [Probers -> Probes]
      BY <1>4 DEF TypeOK, Forget
<1>7. \A p \in ProcOrNone, t \in Stages : To(p, t) => stage' \in [Procs -> Stages]
      BY DEF TypeOK, To
<1>8. Host \in Probers /\ None \in ProcOrNone /\ "guard" \in ProbePcs
      /\ "stopprobe" \in OpPcs
      BY DEF Probers, ProcOrNone, ProbePcs, OpPcs, StopPcs
<1>9. \A t \in Thens : StopVm(t) => op' \in Ops
      BY <1>8 DEF TypeOK, StopVm, Ops
<1> QED BY <1>1, <1>2, <1>3, <1>5, <1>6, <1>7, <1>8, <1>9
        DEF GotoProbe, StopVm

(* The type invariant is inductive by itself, observers or not.            *)
LEMMA TypeStep == TypeOK /\ [Next]_vars => TypeOK'
<1> SUFFICES ASSUME TypeOK, [Next]_vars PROVE TypeOK'
    OBVIOUS
<1>a. Host \in Probers /\ None \in ProcOrNone /\ Procs \subseteq ProcOrNone
      BY DEF Probers, ProcOrNone
<1>b. op.id \in ProcOrNone /\ op.child \in ProcOrNone
      BY DEF TypeOK, Ops
<1>c. \A a \in Probers : probe[a].who \in ProcOrNone
      BY DEF TypeOK, Probes
<1> USE MoveTypes, <1>a, <1>b, <1>c DEF TypeOK, files
<1>1. ASSUME NEW a \in Probers, ProbeStep(a) PROVE TypeOK'
  <2> USE DEF ProbePcs
  <2>1. CASE ObserverProbes(a)
       BY <2>1 DEF ObserverProbes
  <2>2. CASE ProbeGuard(a)
       BY <2>2 DEF ProbeGuard
  <2>3. CASE ProbeCtl(a)
       BY <2>3 DEF ProbeCtl, CtlValid
  <2>4. CASE Adopt(a)
       BY <2>4 DEF Adopt
  <2>5. CASE AdoptIdentity(a)
       BY <2>5 DEF AdoptIdentity
  <2>6. CASE AdoptPid(a)
       BY <2>6 DEF AdoptPid
  <2>7. CASE ProbeFiles(a)
       BY <2>7 DEF ProbeFiles
  <2> QED BY <1>1, <2>1, <2>2, <2>3, <2>4, <2>5, <2>6, <2>7 DEF ProbeStep
<1>2. ASSUME NEW p \in Procs, VmrunStep(p) PROVE TypeOK'
  <2> USE DEF Starting, Active, Leaving, Stages
  <2>1. CASE Validate(p)
       BY <2>1 DEF Validate
  <2>2. CASE WriteIdentity(p)
       BY <2>2 DEF WriteIdentity
  <2>3. CASE WritePid(p)
       BY <2>3 DEF WritePid
  <2>4. CASE CompleteHandoff(p)
       BY <2>4 DEF CompleteHandoff
  <2>5. CASE StartVm(p)
       BY <2>5 DEF StartVm
  <2>6. CASE BindCtl(p)
       BY <2>6 DEF BindCtl
  <2>7. CASE ServeCtl(p)
       BY <2>7 DEF ServeCtl
  <2>8. CASE Die(p)
       BY <2>8 DEF Die
  <2>9. CASE DieBound(p)
       BY <2>9 DEF DieBound
  <2>10. CASE StopServing(p)
       BY <2>10 DEF StopServing
  <2>11. CASE CompareIdentity(p)
       BY <2>11 DEF CompareIdentity
  <2>12. CASE UnlinkIdentity(p)
       BY <2>12 DEF UnlinkIdentity
  <2>13. CASE UnlinkSock(p)
       BY <2>13 DEF UnlinkSock
  <2>14. CASE UnlinkGuard(p)
       BY <2>14 DEF UnlinkGuard
  <2>15. CASE Gone(p)
       BY <2>15 DEF Gone
  <2> QED BY <1>2, <2>1, <2>2, <2>3, <2>4, <2>5, <2>6, <2>7, <2>8, <2>9, <2>10, <2>11, <2>12, <2>13, <2>14, <2>15 DEF VmrunStep
<1>3. "dead" \in Stages /\ "spawned" \in Stages
      BY DEF Stages, Active, Starting
<1>4. {"owned", "poweroff", "term", "termwait", "kill", "killwait", "revoke",
       "unlinkpid", "unlinkidentity", "unlinkguard", "unlinksock",
       "savestopped", "prepare", "recheck", "remove", "wait", "probe",
       "running", "stopped", "reprobe", "save", "guard", "spawn", "release",
       "capture", "ready", "abort", "abortwait", "await", "awaitprobe", "ip",
       "boot"} \subseteq OpPcs
      BY DEF OpPcs, StopPcs, CleanPcs, ResetPcs, StartPcs
<1>5. {"end", "prepare", "recheck"} \subseteq Thens
      BY DEF Thens
<1> USE <1>3, <1>4, <1>5
<1>6. CASE StopStep
  <2> USE DEF FailStop, EndStop
  <2>1. CASE StopProbed
       BY <2>1 DEF StopProbed, Ops
  <2>2. CASE StopOwned
       BY <2>2 DEF StopOwned
  <2>3. CASE StopPoweroff
       BY <2>3 DEF StopPoweroff
  <2>4. CASE StopTerm
       BY <2>4 DEF StopTerm, StopSignal, Sigterm
  <2>5. CASE StopTermWait
       BY <2>5 DEF StopTermWait
  <2>6. CASE StopKill
       BY <2>6 DEF StopKill, StopSignal, Sigkill
  <2>7. CASE StopKillWait
       BY <2>7 DEF StopKillWait
  <2>8. CASE CleanRevoke
       BY <2>8 DEF CleanRevoke, Ops
  <2>9. CASE CleanPid
       BY <2>9 DEF CleanPid
  <2>10. CASE CleanIdentity
       BY <2>10 DEF CleanIdentity
  <2>11. CASE CleanGuard
       BY <2>11 DEF CleanGuard
  <2>12. CASE CleanSock
       BY <2>12 DEF CleanSock
  <2>13. CASE CleanState
       BY <2>13 DEF CleanState
  <2> QED BY <1>6, <2>1, <2>2, <2>3, <2>4, <2>5, <2>6, <2>7, <2>8, <2>9, <2>10, <2>11, <2>12, <2>13 DEF StopStep
<1>7. CASE StartStep
  <2>1. CASE BeginStart
       BY <2>1 DEF BeginStart
  <2>2. CASE StartWait
       BY <2>2 DEF StartWait
  <2>3. CASE StartProbed
       BY <2>3 DEF StartProbed
  <2>4. CASE StartRunning
       BY <2>4 DEF StartRunning
  <2>5. CASE StartStopped
       BY <2>5 DEF StartStopped
  <2>6. CASE StartReprobed
       BY <2>6 DEF StartReprobed, Ops
  <2>7. CASE StartPrepare
       BY <2>7 DEF StartPrepare
  <2>8. CASE StartSave
       BY <2>8 DEF StartSave
  <2>9. CASE StartGuard
       BY <2>9 DEF StartGuard, Fresh, Ops
  <2>10. CASE StartSpawn
       BY <2>10 DEF StartSpawn
  <2>11. CASE StartRelease
       BY <2>11 DEF StartRelease
  <2>12. CASE StartCapture
       BY <2>12 DEF StartCapture
  <2>13. CASE StartReady
       BY <2>13 DEF StartReady
  <2>14. CASE StartAbort
       BY <2>14 DEF StartAbort, Sigterm
  <2>15. CASE StartAbortWait
       BY <2>15 DEF StartAbortWait, Sigkill
  <2>16. CASE StartAwait
       BY <2>16 DEF StartAwait
  <2>17. CASE StartAwaitProbed
       BY <2>17 DEF StartAwaitProbed
  <2>18. CASE StartIp
       BY <2>18 DEF StartIp
  <2>19. CASE StartBoot
       BY <2>19 DEF StartBoot
  <2> QED BY <1>7, <2>1, <2>2, <2>3, <2>4, <2>5, <2>6, <2>7, <2>8, <2>9, <2>10, <2>11, <2>12, <2>13, <2>14, <2>15, <2>16, <2>17, <2>18, <2>19 DEF StartStep
<1>8. CASE BeginStop \/ BeginReset
      BY <1>8 DEF BeginStop, BeginReset
<1>9. CASE ResetRechecked \/ ResetRemove
      BY <1>9 DEF ResetRechecked, ResetRemove
<1>10. CASE HostDies
      BY <1>10 DEF HostDies
<1>11. CASE PowerLoss
      BY <1>11 DEF PowerLoss, NoOp, Ops, OpPcs, NoProbe, Probes, ProbePcs
<1>12. CASE UNCHANGED vars
      BY <1>12 DEF vars
<1> QED BY <1>1, <1>2, <1>6, <1>7, <1>8, <1>9, <1>10, <1>11, <1>12 DEF Next

---------------------------------------------------------------------------
(* What a move does to the fields the invariant speaks of.                 *)
LEMMA Moves ==
    ASSUME TypeOK
    PROVE  /\ \A pc \in OpPcs : Goto(pc) => /\ op'.pc = pc
                                            /\ op'.child = op.child
                                            /\ op'.id = op.id
           /\ EndOp => op'.pc = "idle"
           /\ \A t \in Thens : StopVm(t) => /\ op'.pc = "stopprobe"
                                           /\ probe'[Host].pc = "guard"
           /\ \A pc \in OpPcs : GotoProbe(pc) => /\ op'.pc = pc
                                                 /\ probe'[Host].pc = "guard"
           /\ Forget => probe'[Host].pc = "off"
           /\ \A pc \in ProbePcs, w \in ProcOrNone :
                 SetProbe(Host, pc, w) \/ Answer(Host, pc, w) =>
                     probe'[Host].pc = pc /\ probe'[Host].who = w
           /\ \A p \in Procs, t \in Stages : To(p, t) =>
                 /\ stage'[p] = t
                 /\ \A q \in Procs \ {p} : stage'[q] = stage[q]
<1>1. \A pc \in OpPcs : Goto(pc) => /\ op'.pc = pc /\ op'.child = op.child
                                    /\ op'.id = op.id
      BY DEF TypeOK, Goto, Ops
<1>2. EndOp => op'.pc = "idle"
      BY DEF EndOp, NoOp
<1>3. Host \in Probers /\ None \in ProcOrNone /\ "guard" \in ProbePcs
      BY DEF Probers, ProcOrNone, ProbePcs
<1>4. \A t \in Thens : StopVm(t) => op'.pc = "stopprobe"
      BY DEF TypeOK, StopVm, Ops
<1>5. \A pc \in ProbePcs, w \in ProcOrNone :
         SetProbe(Host, pc, w) => probe'[Host].pc = pc /\ probe'[Host].who = w
      BY <1>3 DEF TypeOK, SetProbe
<1>6. \A pc \in ProbePcs, w \in ProcOrNone :
         Answer(Host, pc, w) => SetProbe(Host, pc, w)
      BY DEF Answer
<1>7. Forget => probe'[Host].pc = "off"
      BY <1>3 DEF TypeOK, Forget, NoProbe
<1>8. \A p \in Procs, t \in Stages : To(p, t) =>
         /\ stage'[p] = t
         /\ \A q \in Procs \ {p} : stage'[q] = stage[q]
      BY DEF TypeOK, To
<1> QED BY <1>1, <1>2, <1>3, <1>4, <1>5, <1>6, <1>7, <1>8
        DEF GotoProbe, StopVm

(* A step that leaves the files and the stages alone changes no presence.  *)
LEMMA Frame ==
    ASSUME UNCHANGED <<files, stage>>
    PROVE  /\ \A p \in Procs : Present(p)' <=> Present(p)
           /\ Files => Files'
BY DEF Present, Files, files

(* A vmrun by itself never becomes present again, never takes the guard    *)
(* back, and keeps what the files say of it true.                          *)
LEMMA VmrunKeeps ==
    ASSUME TypeOK, Files, NEW p \in Procs, VmrunStep(p)
    PROVE  /\ \A q \in Procs : Present(q)' => Present(q)
           /\ Files'
           /\ \A q \in Procs : stage[q] \in {"dead", "closed"} =>
                                   stage'[q] \in {stage[q], "dead"}
           /\ \A q \in Procs : stage'[q] \in Active => stage[q] \in Active
           /\ \/ guard' = guard
              \/ guard' = None /\ guard = p
                    /\ stage[p] \notin {"dead", "closed"}
           /\ \A q \in vm' : stage'[q] \in Active => q \in vm \/ disk
           /\ UNCHANGED <<state, disk, op, probe>>
<1>a. \A t \in Stages : To(p, t) =>
         /\ stage'[p] = t
         /\ \A q \in Procs \ {p} : stage'[q] = stage[q]
      BY Moves
<1>b. None \notin Procs
      BY NamesDistinct
<1> USE <1>a, <1>b DEF Files, Present, At, Starting, Active, Leaving, Stages,
        PreHandoff, Naming, files, Alive
<1>1. CASE Validate(p)
      BY <1>1 DEF Validate, TypeOK
<1>2. CASE WriteIdentity(p)
      BY <1>2 DEF WriteIdentity, TypeOK
<1>3. CASE WritePid(p)
      BY <1>3 DEF WritePid, TypeOK
<1>4. CASE CompleteHandoff(p)
      BY <1>4 DEF CompleteHandoff, TypeOK
<1>5. CASE StartVm(p)
      BY <1>5 DEF StartVm, TypeOK
<1>6. CASE BindCtl(p)
      BY <1>6 DEF BindCtl, TypeOK
<1>7. CASE ServeCtl(p)
      BY <1>7 DEF ServeCtl, TypeOK
<1>8. CASE Die(p)
      BY <1>8 DEF Die, TypeOK
<1>9. CASE DieBound(p)
      BY <1>9 DEF DieBound, TypeOK
<1>10. CASE StopServing(p)
      BY <1>10 DEF StopServing, TypeOK
<1>11. CASE CompareIdentity(p)
      BY <1>11 DEF CompareIdentity, TypeOK
<1>12. CASE UnlinkIdentity(p)
      BY <1>12 DEF UnlinkIdentity, TypeOK
<1>13. CASE UnlinkSock(p)
      BY <1>13 DEF UnlinkSock, TypeOK
<1>14. CASE UnlinkGuard(p)
      BY <1>14 DEF UnlinkGuard, TypeOK
<1>15. CASE Gone(p)
      BY <1>15 DEF Gone, TypeOK
<1> QED BY VmrunStep(p), <1>1, <1>2, <1>3, <1>4, <1>5, <1>6, <1>7, <1>8, <1>9, <1>10, <1>11, <1>12, <1>13, <1>14, <1>15 DEF VmrunStep

---------------------------------------------------------------------------
(* The parts of the inductive invariant besides the types.                 *)
Know == Files /\ OpKnows /\ ProbeKnows /\ Disks /\ StoppedIsStopped

LEMMA VmrunStepKnows ==
    ASSUME IInv, NEW p \in Procs, VmrunStep(p) PROVE Know'
<1>1. TypeOK /\ Files
      BY DEF IInv
<1>a. \A q \in Procs : Present(q)' => Present(q)
      BY <1>1, VmrunKeeps
<1>b. NonePresent => NonePresent'
      BY <1>a DEF NonePresent
<1>c. \A r : OnlyPresent(r) => \A q \in Procs : Present(q)' => q = r
      BY <1>a DEF OnlyPresent
<1>d. UNCHANGED <<state, disk, op, probe>>
      BY <1>1, VmrunKeeps
<1>e. \A q \in Procs : stage[q] \in {"dead", "closed"} =>
                           stage'[q] \in {stage[q], "dead"}
      BY <1>1, VmrunKeeps
<1>f. \/ guard' = guard
      \/ /\ guard' = None /\ guard = p /\ guard' \notin Procs
         /\ stage[p] \notin {"dead", "closed"}
      BY <1>1, VmrunKeeps, NamesDistinct
<1>2. OpKnows'
  <2>1. op.pc = "spawn" => /\ guard' = op.child /\ op.child \in Procs
                           /\ stage'[op.child] = "dead"
        BY <1>e, <1>f DEF IInv, OpKnows
  <2> QED BY <1>b, <1>c, <1>d, <2>1 DEF IInv, OpKnows, OnlyPresent
<1>3. ProbeKnows'
  <2>1. probe[Host].pc \in {"ctl", "files"} =>
            \A q \in Procs : guard' = q => stage'[q] \in {"dead", "closed"}
        BY <1>e, <1>f DEF IInv, ProbeKnows
  <2> QED BY <1>b, <1>c, <1>d, <2>1 DEF IInv, ProbeKnows, OnlyPresent
<1>4. Disks' /\ StoppedIsStopped'
  <2>1. vm \subseteq Procs
        BY <1>1 DEF TypeOK
  <2>2. \A q \in Procs : stage'[q] \in Active => stage[q] \in Active
        BY <1>1, VmrunKeeps
  <2>3. \A q \in vm' : stage'[q] \in Active => q \in vm \/ disk
        BY <1>1, VmrunKeeps
  <2>4. Disks'
        BY <1>d, <2>1, <2>2, <2>3 DEF IInv, Disks, Active
  <2>5. StoppedIsStopped'
        BY <1>d, <2>2 DEF IInv, StoppedIsStopped, Active
  <2> QED BY <2>4, <2>5
<1> QED BY <1>1, <1>2, <1>3, <1>4, VmrunKeeps DEF Know

(* A step of the host that touches neither files nor stages has only to    *)
(* say what the operation and its probe know afterwards.                   *)
LEMMA HostMove ==
    ASSUME IInv, UNCHANGED <<files, stage, vm, disk, state>>,
           \/ op' = op
           \/ /\ op'.pc \in Quiet => NonePresent
              /\ op'.pc \in Owning => OnlyPresent(op'.id)
              /\ op'.pc \notin {"save", "guard", "spawn"},
           probe'[Host].pc # "off" => op'.pc \in ProbeWait,
           probe'[Host].pc \in {"ctl", "files"} =>
               \A p \in Procs : guard = p => stage[p] \in {"dead", "closed"},
           probe'[Host].pc \in {"adopt", "persist", "persistpid", "verified"} =>
               OnlyPresent(probe'[Host].who),
           probe'[Host].pc = "stale" => NonePresent
    PROVE  Know'
<1>1. UNCHANGED <<files, stage>> /\ UNCHANGED <<guard, stage, vm, disk, state>>
      BY DEF files
<1>2. (\A p \in Procs : Present(p)' <=> Present(p)) /\ Files'
      BY <1>1, Frame DEF IInv
<1>3. NonePresent => NonePresent'
      BY <1>2 DEF NonePresent
<1>4. \A q : OnlyPresent(q) => \A p \in Procs : Present(p)' => p = q
      BY <1>2 DEF OnlyPresent
<1>5. OpKnows'
  <2>1. CASE op' = op
        BY <1>1, <1>3, <1>4, <2>1 DEF IInv, OpKnows, OnlyPresent
  <2>2. CASE op' # op
        BY <1>3, <1>4, <2>2 DEF OpKnows, OnlyPresent
  <2> QED BY <2>1, <2>2
<1>6. ProbeKnows'
      BY <1>1, <1>3, <1>4 DEF ProbeKnows, OnlyPresent
<1>7. Disks' /\ StoppedIsStopped'
      BY <1>1 DEF IInv, Disks, StoppedIsStopped
<1> QED BY <1>2, <1>5, <1>6, <1>7 DEF Know

(* The probe, made by the host operation.                                  *)
LEMMA ProbeStepKnows ==
    ASSUME IInv, ProbeStep(Host) PROVE Know'
<1>a. Host \in Probers /\ Host \notin Observers
      BY NamesDistinct DEF Probers
<1>b. TypeOK /\ Files /\ OpKnows /\ ProbeKnows
      BY DEF IInv
<1>c. None \in ProcOrNone /\ Procs \subseteq ProcOrNone /\ None \notin Procs
      /\ {guard, identity, pidfile, sock, probe[Host].who} \subseteq ProcOrNone
      BY <1>a, <1>b, NamesDistinct DEF TypeOK, Probes, ProcOrNone
<1>d. \A pc \in ProbePcs, w \in ProcOrNone :
         SetProbe(Host, pc, w) \/ Answer(Host, pc, w) =>
             probe'[Host].pc = pc /\ probe'[Host].who = w
      BY <1>b, Moves
<1>e. {"ctl", "adopt", "persist", "persistpid", "files", "stale", "verified",
       "unverified"} \subseteq ProbePcs
      BY DEF ProbePcs
<1>f. probe[Host].pc # "off" => op.pc \in ProbeWait
      BY <1>b DEF ProbeKnows
<1> USE <1>a, <1>c, <1>d, <1>e
<1>1. CASE ProbeGuard(Host)
  <2>1. op.pc \in ProbeWait
        BY <1>1, <1>f DEF ProbeGuard
  <2>2. UNCHANGED <<files, stage, vm, disk, state, op>>
        BY <1>1 DEF ProbeGuard
  <2>3. GuardLocked \/ \A p \in Procs : guard = p => stage[p] \in {"dead", "closed"}
        BY DEF GuardLocked
  <2>4. \/ probe'[Host].pc = "unverified"
        \/ ~GuardLocked /\ probe'[Host].pc = "ctl"
        BY <1>1 DEF ProbeGuard
  <2> QED BY <2>1, <2>2, <2>3, <2>4, HostMove
<1>2. CASE ProbeCtl(Host)
  <2>1. CtlValid => OnlyPresent(sock)
        BY <1>b DEF CtlValid, Files, OnlyPresent, Present, Active, ProcOrNone
  <2>2. UNCHANGED <<files, stage, vm, disk, state, op>> /\ op.pc \in ProbeWait
        BY <1>2, <1>f DEF ProbeCtl
  <2>3. \A p \in Procs : guard = p => stage[p] \in {"dead", "closed"}
        BY <1>2, <1>b DEF ProbeCtl, ProbeKnows
  <2>4. \/ CtlValid /\ probe'[Host].pc = "adopt" /\ probe'[Host].who = sock
        \/ probe'[Host].pc \in {"unverified", "files"}
        BY <1>2 DEF ProbeCtl
  <2> QED BY <2>1, <2>2, <2>3, <2>4, HostMove
<1>3. CASE Adopt(Host)
  <2>1. OnlyPresent(probe[Host].who)
        BY <1>3, <1>b DEF Adopt, ProbeKnows
  <2>2. UNCHANGED <<files, stage, vm, disk, state, op>> /\ op.pc \in ProbeWait
        BY <1>3, <1>f DEF Adopt
  <2>3. \/ probe'[Host].pc = "unverified"
        \/ /\ probe'[Host].pc \in {"verified", "persist"}
           /\ probe'[Host].who = probe[Host].who
        BY <1>3 DEF Adopt
  <2> QED BY <2>1, <2>2, <2>3, HostMove
<1>4. CASE AdoptIdentity(Host)
  <2>1. OnlyPresent(probe[Host].who) /\ op.pc \in ProbeWait
        BY <1>4, <1>b, <1>f DEF AdoptIdentity, ProbeKnows
  <2>2. \A p \in Procs : Present(p)' => p = probe[Host].who
        BY <1>4, <2>1 DEF AdoptIdentity, OnlyPresent, Present
  <2>3. Files'
        BY <1>4, <1>b, <2>1, <2>2
        DEF AdoptIdentity, Files, OnlyPresent, Present, Active, Starting, Naming
  <2> QED BY <1>4, <2>1, <2>2, <2>3, <1>b
          DEF IInv, Know, AdoptIdentity, OpKnows, ProbeKnows, NonePresent,
              OnlyPresent, ProbeWait, Quiet, CleanPcs, Owning, Disks,
              StoppedIsStopped
<1>5. CASE AdoptPid(Host)
  <2>1. \A p \in Procs : Present(p)' <=> Present(p)
        BY <1>5 DEF AdoptPid, Present
  <2>2. Files'
        BY <1>5, <1>b, <2>1 DEF AdoptPid, Files
  <2> QED BY <1>5, <2>1, <2>2, <1>b
          DEF IInv, Know, AdoptPid, OpKnows, ProbeKnows, NonePresent,
              OnlyPresent, Disks, StoppedIsStopped
<1>6. CASE ProbeFiles(Host)
  <2>1. ASSUME NEW p \in Procs, Present(p) PROVE identity = p /\ Alive(p)
        BY <1>6, <1>b, <2>1
        DEF ProbeFiles, Files, ProbeKnows, Present, Active, Starting, Leaving,
            PreHandoff, Naming, Alive
  <2>2. OnlyPresent(identity)
        BY <2>1 DEF OnlyPresent
  <2>3. ~Alive(identity) => NonePresent
        BY <2>1 DEF NonePresent
  <2>4. UNCHANGED <<files, stage, vm, disk, state, op>> /\ op.pc \in ProbeWait
        BY <1>6, <1>f DEF ProbeFiles
  <2>5. \/ probe'[Host].pc = "unverified"
        \/ probe'[Host].pc = "verified" /\ probe'[Host].who = identity
        \/ probe'[Host].pc = "stale" /\ ~Alive(identity)
        BY <1>6 DEF ProbeFiles
  <2> QED BY <2>2, <2>3, <2>4, <2>5, HostMove
<1>7. CASE ObserverProbes(Host)
      BY <1>7 DEF ObserverProbes
<1> QED BY <1>1, <1>2, <1>3, <1>4, <1>5, <1>6, <1>7 DEF ProbeStep

(* The probe, made by an observer.                                         *)
LEMMA ObserverStepKnows ==
    ASSUME IInv, AdoptionSparesOthers, NEW a \in Observers, ProbeStep(a) PROVE Know'
<1>1. TypeOK /\ Files /\ OpKnows /\ ProbeKnows /\ ObserversKnow
      BY DEF IInv
<1>2. /\ UNCHANGED <<guard, sock, state, disk, stage, vm, op>>
      /\ identity' = identity \/ (probe[a].pc = "persist" /\ identity' = probe[a].who)
      BY DEF ProbeStep, ObserverProbes, ProbeGuard, ProbeCtl, Adopt, AdoptIdentity,
             AdoptPid, ProbeFiles, files
<1>3. probe'[Host] = probe[Host]
  <2>1. a # Host /\ Host \in Probers /\ probe \in [Probers -> Probes]
        BY <1>1, NamesDistinct DEF TypeOK, Probers
  <2>2. \A pc, w : SetProbe(a, pc, w) \/ Answer(a, pc, w) => probe'[Host] = probe[Host]
        BY <2>1 DEF SetProbe, Answer
  <2> QED BY <2>2 DEF ProbeStep, ObserverProbes, ProbeGuard, ProbeCtl, Adopt,
                      AdoptIdentity, AdoptPid, ProbeFiles
<1>4. /\ \A p \in Procs : Present(p)' <=> Present(p)
      /\ Files'
  <2>1. CASE identity' = identity
        BY <1>1, <1>2, <2>1 DEF Present, Files
  <2>2. CASE probe[a].pc = "persist" /\ identity' = probe[a].who
    <3> DEFINE w == probe[a].who
    <3>1. w \in Procs /\ stage[w] \notin Starting
          /\ (stage[w] \in {"serving", "leaving", "unlinking"} => identity = w)
          BY <1>1, <2>2 DEF ObserversKnow, Files, Naming
    <3>2. identity = w \/ ~Alive(identity)
          BY <2>2 DEF AdoptionSparesOthers
    <3> HIDE DEF w
    <3>3. identity' = w
          BY <2>2 DEF w
    <3>4. \A p \in Procs : stage[p] \in Naming \cup {"leaving"} /\ identity = p => p = w
          BY <3>2 DEF Alive, Naming
    <3>5. \A p \in Procs : Present(p)' <=> Present(p)
      <4>1. \A p \in Procs : stage[p] \in {"leaving", "unlinking"} =>
                               (identity' = p <=> identity = p)
            BY <3>1, <3>3, <3>4 DEF Naming
      <4> QED BY <1>2, <4>1 DEF Present
    <3>6. \A p \in Procs : stage[p] \in Naming => identity' = p
          BY <1>1, <3>3, <3>4 DEF Files
    <3> QED BY <1>1, <1>2, <3>5, <3>6 DEF Files
  <2> QED BY <1>2, <2>1, <2>2
<1>5. NonePresent <=> NonePresent'
      BY <1>4 DEF NonePresent
<1>6. \A q : OnlyPresent(q) => \A p \in Procs : Present(p)' => p = q
      BY <1>4 DEF OnlyPresent
<1>7. OpKnows'
      BY <1>1, <1>2, <1>5, <1>6 DEF OpKnows, OnlyPresent
<1>8. ProbeKnows'
      BY <1>1, <1>2, <1>3, <1>5, <1>6 DEF ProbeKnows, OnlyPresent
<1>9. Disks' /\ StoppedIsStopped'
      BY <1>2 DEF IInv, Disks, StoppedIsStopped
<1> QED BY <1>4, <1>7, <1>8, <1>9 DEF Know

---------------------------------------------------------------------------
(* A step of the host operation after which its probe is off or beginning. *)
LEMMA HostStep ==
    ASSUME IInv,
           \A p \in Procs : Present(p)' => Present(p),
           Files', Disks', StoppedIsStopped',
           op'.pc \in Quiet => NonePresent,
           op'.pc \in Owning => OnlyPresent(op'.id),
           op'.pc \in {"guard", "spawn"} => state' = "starting",
           op'.pc \in {"save", "guard", "spawn"} => disk',
           op'.pc = "spawn" => /\ op'.child \in Procs /\ guard' = op'.child
                               /\ stage'[op'.child] = "dead",
           \/ probe'[Host].pc = "off"
           \/ probe'[Host].pc = "guard" /\ op'.pc \in ProbeWait
    PROVE  Know'
<1>1. NonePresent => NonePresent'
      BY DEF NonePresent
<1>2. \A q : OnlyPresent(q) => \A p \in Procs : Present(p)' => p = q
      BY DEF OnlyPresent
<1>3. OpKnows'
      BY <1>1, <1>2 DEF OpKnows, OnlyPresent
<1>4. ProbeKnows'
      BY DEF ProbeKnows
<1> QED BY <1>3, <1>4 DEF Know

(* The same when only the operation and its probe move.                    *)
LEMMA HostGoes ==
    ASSUME IInv, UNCHANGED <<files, stage, vm, disk, state>>,
           op'.pc \in Quiet => NonePresent,
           op'.pc \in Owning => OnlyPresent(op'.id),
           op'.pc \notin {"save", "guard", "spawn"},
           \/ probe'[Host].pc = "off"
           \/ probe'[Host].pc = "guard" /\ op'.pc \in ProbeWait
    PROVE  Know'
BY HostMove

(* What every host step may assume.                                        *)
LEMMA HostFacts ==
    ASSUME IInv
    PROVE  /\ op.pc \notin ProbeWait => probe[Host].pc = "off"
           /\ \A q \in ProcOrNone :
                 OnlyPresent(q) /\ ~Alive(q) => NonePresent
           /\ NonePresent => \A p \in Procs :
                 /\ stage[p] \notin Active
                 /\ stage[p] \notin PreHandoff \cup Naming
           /\ op.id \in ProcOrNone /\ op.child \in ProcOrNone
           /\ probe[Host].who \in ProcOrNone
<1>1. op.pc \notin ProbeWait => probe[Host].pc = "off"
      BY DEF IInv, ProbeKnows
<1>2. \A p \in Procs : Present(p) => Alive(p)
      BY DEF Present, Alive, Active, Starting, Leaving
<1>3. \A q \in ProcOrNone : OnlyPresent(q) /\ ~Alive(q) => NonePresent
      BY <1>2 DEF OnlyPresent, NonePresent
<1>4. NonePresent => \A p \in Procs :
          stage[p] \notin Active /\ stage[p] \notin PreHandoff \cup Naming
      BY DEF IInv, Files, NonePresent, Present, Active, Starting, PreHandoff,
             Naming
<1>5. op.id \in ProcOrNone /\ op.child \in ProcOrNone
      BY DEF IInv, TypeOK, Ops
<1>6. probe[Host].who \in ProcOrNone
      BY DEF IInv, TypeOK, Probes, Probers
<1> QED BY <1>1, <1>3, <1>4, <1>5, <1>6

(* Steps that keep a vmrun's stage, or end it, and only shrink its files.  *)
LEMMA Signalled ==
    ASSUME IInv, NEW q \in Procs, Sigterm(q) \/ Sigkill(q),
           UNCHANGED <<files, state, disk>>
    PROVE  /\ \A p \in Procs : Present(p)' => Present(p)
           /\ Files' /\ Disks' /\ StoppedIsStopped'
<1>1. \A p \in Procs : stage'[p] = stage[p] \/ stage'[p] = "dead"
      BY Moves DEF IInv, Sigterm, Sigkill, Stages
<1>2. vm' \subseteq vm /\ vm \subseteq Procs
      BY DEF Sigterm, Sigkill, IInv, TypeOK
<1>3. \A p \in Procs : Present(p)' => Present(p)
      BY <1>1 DEF Present, Active, Starting, Leaving, files
<1>4. Files'
      BY <1>1, <1>3 DEF IInv, Files, PreHandoff, Naming, files
<1>5. Disks' /\ StoppedIsStopped'
      BY <1>1, <1>2 DEF IInv, Disks, StoppedIsStopped, Active, Starting
<1> QED BY <1>3, <1>4, <1>5

(* Unlinking files when no vmrun is present.                               *)
LEMMA Unlinked ==
    ASSUME IInv, NonePresent, UNCHANGED <<stage, vm, disk, state>>,
           guard' \in {guard, None}, identity' \in {identity, None}
    PROVE  /\ \A p \in Procs : Present(p)' => Present(p)
           /\ Files' /\ Disks' /\ StoppedIsStopped'
<1>1. \A p \in Procs : Present(p)' => Present(p)
      BY NamesDistinct DEF Present
<1>2. Files'
      BY <1>1, HostFacts DEF Files, NonePresent
<1>3. Disks' /\ StoppedIsStopped'
      BY DEF IInv, Disks, StoppedIsStopped
<1> QED BY <1>1, <1>2, <1>3

(* vm_stop, to the end of its cleanup.                                     *)
LEMMA StopStepKnows ==
    ASSUME IInv, StopStep PROVE Know'
<1>a. TypeOK /\ Files /\ OpKnows /\ ProbeKnows /\ Disks /\ StoppedIsStopped
      BY DEF IInv
<1>b. /\ \A pc \in OpPcs : Goto(pc) => op'.pc = pc /\ op'.id = op.id
      /\ EndOp => op'.pc = "idle"
      /\ Forget => probe'[Host].pc = "off"
      /\ \A pc \in OpPcs : GotoProbe(pc) => /\ op'.pc = pc
                                            /\ probe'[Host].pc = "guard"
      BY <1>a, Moves
<1>c. {"owned", "poweroff", "term", "termwait", "kill", "killwait", "revoke",
       "unlinkpid", "unlinkidentity", "unlinkguard", "unlinksock",
       "savestopped", "prepare", "recheck"} \subseteq OpPcs
      BY DEF OpPcs, StopPcs, CleanPcs, ResetPcs, StartPcs
<1>d. op.pc \in Owning /\ ~Alive(op.id) => NonePresent
      BY <1>a, HostFacts DEF OpKnows
<1>e. op.pc \in Owning => OnlyPresent(op.id)
      BY <1>a DEF OpKnows
<1>f. op.pc \in Quiet => NonePresent
      BY <1>a DEF OpKnows
<1>g. op.pc \notin ProbeWait => probe[Host].pc = "off"
      BY HostFacts
<1>h. Alive(op.id) => op.id \in Procs
      BY DEF Alive
<1> USE <1>b, <1>c DEF Quiet, CleanPcs, Owning, ProbeWait, FailStop
<1>1. CASE StopProbed
  <2>1. UNCHANGED <<files, stage, vm, disk, state>> /\ probe'[Host].pc = "off"
        BY <1>1 DEF StopProbed
  <2>2. \/ op'.pc = "idle"
        \/ op'.pc = "revoke" /\ NonePresent
        \/ op'.pc = "owned" /\ OnlyPresent(op'.id)
        BY <1>1, <1>a DEF StopProbed, Says, ProbeKnows, TypeOK, Ops
  <2> QED BY <2>1, <2>2, HostGoes
<1>2. CASE StopOwned
  <2>1. UNCHANGED <<files, stage, vm, disk, state>> /\ probe'[Host].pc = "off"
        BY <1>2, <1>g DEF StopOwned
  <2>2. \/ op'.pc = "idle"
        \/ op'.pc = "poweroff" /\ OnlyPresent(op'.id)
        BY <1>2, <1>e DEF StopOwned
  <2> QED BY <2>1, <2>2, HostGoes
<1>3. CASE StopPoweroff \/ StopTermWait \/ StopKillWait
  <2>1. UNCHANGED <<files, stage, vm, disk, state>> /\ probe'[Host].pc = "off"
        BY <1>3, <1>g DEF StopPoweroff, StopTermWait, StopKillWait
  <2>2. \/ op'.pc = "idle"
        \/ op'.pc = "revoke" /\ NonePresent
        \/ op'.pc \in {"term", "kill"} /\ OnlyPresent(op'.id)
        BY <1>3, <1>d, <1>e DEF StopPoweroff, StopTermWait, StopKillWait
  <2> QED BY <2>1, <2>2, HostGoes
<1>4. CASE StopTerm \/ StopKill
  <2>1. UNCHANGED <<files, disk, state>> /\ probe'[Host].pc = "off"
        BY <1>4, <1>g DEF StopTerm, StopKill, StopSignal
  <2>2. CASE UNCHANGED <<stage, vm>>
    <3>1. \/ op'.pc = "idle"
          \/ op'.pc = "revoke" /\ NonePresent
          \/ op'.pc \in {"termwait", "killwait"} /\ OnlyPresent(op'.id)
          BY <1>4, <1>d, <1>e DEF StopTerm, StopKill, StopSignal
    <3> QED BY <2>1, <2>2, <3>1, HostGoes
  <2>3. CASE ~UNCHANGED <<stage, vm>>
    <3>1. Sigterm(op.id) \/ Sigkill(op.id)
          BY <1>4, <2>3 DEF StopTerm, StopKill, StopSignal
    <3>2. op.id \in Procs
          BY <1>4, <1>h, <2>3 DEF StopTerm, StopKill, StopSignal, StillVerified
    <3>3. op'.pc \in {"termwait", "killwait"} /\ OnlyPresent(op'.id)
          BY <1>4, <1>e, <2>3 DEF StopTerm, StopKill, StopSignal
    <3>4. /\ \A p \in Procs : Present(p)' => Present(p)
          /\ Files' /\ Disks' /\ StoppedIsStopped'
          BY <2>1, <3>1, <3>2, Signalled
    <3> QED BY <2>1, <3>3, <3>4, HostStep
  <2> QED BY <2>2, <2>3
<1>5. CASE CleanRevoke
  <2>1. UNCHANGED <<files, stage, vm, disk, state>> /\ probe'[Host].pc = "off"
        BY <1>5, <1>g DEF CleanRevoke
  <2>2. \/ op'.pc = "idle"
        \/ op'.pc = "unlinkpid" /\ NonePresent
        BY <1>5, <1>a, <1>f DEF CleanRevoke, TypeOK, Ops
  <2> QED BY <2>1, <2>2, HostGoes
<1>6. CASE CleanPid \/ CleanIdentity \/ CleanGuard \/ CleanSock
  <2>1. UNCHANGED <<stage, vm, disk, state>> /\ probe'[Host].pc = "off"
        BY <1>6, <1>g DEF CleanPid, CleanIdentity, CleanGuard, CleanSock
  <2>2. guard' \in {guard, None} /\ identity' \in {identity, None}
        BY <1>6 DEF CleanPid, CleanIdentity, CleanGuard, CleanSock
  <2>3. NonePresent /\ op'.pc \in {"unlinkidentity", "unlinkguard",
                                   "unlinksock", "savestopped"}
        BY <1>6, <1>f DEF CleanPid, CleanIdentity, CleanGuard, CleanSock
  <2>4. /\ \A p \in Procs : Present(p)' => Present(p)
        /\ Files' /\ Disks' /\ StoppedIsStopped'
        BY <2>1, <2>2, <2>3, Unlinked
  <2> QED BY <2>1, <2>3, <2>4, HostStep
<1>7. CASE CleanState
  <2>1. UNCHANGED <<files, stage>> /\ UNCHANGED <<disk, vm, stage>>
        BY <1>7 DEF CleanState
  <2>2. NonePresent /\ probe[Host].pc = "off"
        BY <1>7, <1>f, <1>g DEF CleanState
  <2>3. (\A p \in Procs : Present(p)' => Present(p)) /\ Files'
        BY <1>a, <2>1, Frame
  <2>4. Disks' /\ StoppedIsStopped'
        BY <1>a, <2>1, <2>2, HostFacts DEF Disks, StoppedIsStopped
  <2>5. \/ op'.pc \in {"idle", "prepare"} /\ probe'[Host].pc = "off"
        \/ op'.pc = "recheck" /\ probe'[Host].pc = "guard"
        BY <1>7, <2>2 DEF CleanState, EndStop
  <2> QED BY <2>2, <2>3, <2>4, <2>5, HostStep
<1> QED BY <1>1, <1>2, <1>3, <1>4, <1>5, <1>6, <1>7 DEF StopStep

(* cmd_start_execute.                                                      *)
LEMMA StartStepKnows ==
    ASSUME IInv, StartStep PROVE Know'
<1>a. TypeOK /\ Files /\ OpKnows /\ ProbeKnows /\ Disks /\ StoppedIsStopped
      BY DEF IInv
<1>b. /\ \A pc \in OpPcs : Goto(pc) => op'.pc = pc /\ op'.id = op.id
      /\ EndOp => op'.pc = "idle"
      /\ Forget => probe'[Host].pc = "off"
      /\ \A pc \in OpPcs : GotoProbe(pc) => /\ op'.pc = pc
                                            /\ probe'[Host].pc = "guard"
      /\ \A t \in Thens : StopVm(t) => /\ op'.pc = "stopprobe"
                                       /\ probe'[Host].pc = "guard"
      BY <1>a, Moves
<1>c. {"wait", "probe", "running", "stopped", "reprobe", "prepare", "save",
       "guard", "spawn", "release", "capture", "ready", "abort", "abortwait",
       "await", "awaitprobe", "ip", "boot", "revoke"} \subseteq OpPcs
      BY DEF OpPcs, StopPcs, CleanPcs, ResetPcs, StartPcs
<1>d. {"end", "prepare"} \subseteq Thens
      BY DEF Thens
<1>f. op.pc \in Quiet => NonePresent
      BY <1>a DEF OpKnows
<1>g. op.pc \notin ProbeWait => probe[Host].pc = "off"
      BY HostFacts
<1>h. Alive(op.child) => op.child \in Procs
      BY DEF Alive
<1> USE <1>b, <1>c, <1>d DEF Quiet, CleanPcs, Owning, ProbeWait
<1>1. CASE \/ BeginStart \/ StartWait \/ StartRunning \/ StartStopped
           \/ StartRelease \/ StartCapture \/ StartReady \/ StartAwait
           \/ StartBoot
  <2>1. UNCHANGED <<files, stage, vm, disk, state>>
        BY <1>1 DEF BeginStart, StartWait, StartRunning, StartStopped,
                    StartRelease, StartCapture, StartReady, StartAwait, StartBoot
  <2>2. probe[Host].pc = "off"
        BY <1>1, <1>g DEF BeginStart, StartWait, StartRunning, StartStopped,
                    StartRelease, StartCapture, StartReady, StartAwait, StartBoot
  <2>3. \/ /\ op'.pc \in {"idle", "wait", "capture", "ready", "await", "abort"}
           /\ probe'[Host].pc = "off"
        \/ /\ op'.pc \in {"probe", "reprobe", "stopprobe", "awaitprobe"}
           /\ probe'[Host].pc = "guard"
        BY <1>1, <2>2
        DEF BeginStart, StartWait, StartRunning, StartStopped, StartRelease,
            StartCapture, StartReady, StartAwait, StartBoot
  <2> QED BY <2>1, <2>3, HostGoes
<1>2. CASE StartProbed \/ StartAwaitProbed
  <2>1. UNCHANGED <<files, stage, vm, disk, state>> /\ probe'[Host].pc = "off"
        BY <1>2 DEF StartProbed, StartAwaitProbed
  <2>2. op'.pc \in {"idle", "running", "stopped", "ip", "await"}
        BY <1>2 DEF StartProbed, StartAwaitProbed
  <2> QED BY <2>1, <2>2, HostGoes
<1>3. CASE StartReprobed
  <2>1. UNCHANGED <<files, stage, vm, disk, state>> /\ probe'[Host].pc = "off"
        BY <1>3 DEF StartReprobed
  <2>2. \/ op'.pc = "idle"
        \/ op'.pc = "revoke" /\ NonePresent
        BY <1>3, <1>a DEF StartReprobed, Says, ProbeKnows, TypeOK, Ops
  <2> QED BY <2>1, <2>2, HostGoes
<1>4. CASE StartPrepare
  <2>1. UNCHANGED <<files, stage>> /\ UNCHANGED <<vm, stage, state>>
        BY <1>4 DEF StartPrepare
  <2>2. NonePresent /\ probe'[Host].pc = "off"
        BY <1>4, <1>f, <1>g DEF StartPrepare
  <2>3. \/ op'.pc = "idle" /\ disk' = disk
        \/ op'.pc = "save" /\ disk'
        BY <1>4 DEF StartPrepare
  <2>4. (\A p \in Procs : Present(p)' => Present(p)) /\ Files'
        BY <1>a, <2>1, Frame
  <2>5. Disks' /\ StoppedIsStopped'
        BY <1>a, <2>1, <2>3 DEF Disks, StoppedIsStopped
  <2> QED BY <2>2, <2>3, <2>4, <2>5, HostStep
<1>5. CASE StartSave
  <2>1. UNCHANGED <<files, stage>> /\ UNCHANGED <<vm, stage, disk>>
        BY <1>5 DEF StartSave
  <2>2. NonePresent /\ probe'[Host].pc = "off" /\ disk
        BY <1>5, <1>a, <1>f, <1>g DEF StartSave, OpKnows
  <2>3. op'.pc = "idle" \/ (op'.pc = "guard" /\ state' = "starting")
        BY <1>5 DEF StartSave
  <2>4. (\A p \in Procs : Present(p)' => Present(p)) /\ Files'
        BY <1>a, <2>1, Frame
  <2>5. Disks' /\ StoppedIsStopped'
        BY <1>a, <2>1, <2>2, HostFacts DEF Disks, StoppedIsStopped
  <2> QED BY <2>1, <2>2, <2>3, <2>4, <2>5, HostStep
<1>6. CASE StartGuard
  <2>1. UNCHANGED <<identity, stage, vm, disk, state>>
        BY <1>6 DEF StartGuard
  <2>2. NonePresent /\ probe'[Host].pc = "off" /\ state = "starting" /\ disk
        BY <1>6, <1>a, <1>f, <1>g DEF StartGuard, OpKnows
  <2>3. CASE op'.pc = "idle" /\ guard' = guard
    <3>1. /\ \A p \in Procs : Present(p)' => Present(p)
          /\ Files' /\ Disks' /\ StoppedIsStopped'
          BY <2>1, <2>2, <2>3, Unlinked
    <3> QED BY <2>2, <2>3, <3>1, HostStep
  <2>4. CASE \E p \in Fresh : guard' = p /\ op' = [op EXCEPT !.pc = "spawn",
                                                         !.child = p]
    <3>1. PICK p \in Fresh : guard' = p /\ op' = [op EXCEPT !.pc = "spawn",
                                                          !.child = p]
          BY <2>4
    <3>2. p \in Procs /\ stage[p] = "dead"
          BY DEF Fresh
    <3>3. op'.pc = "spawn" /\ op'.child = p
          BY <1>a, <3>1 DEF TypeOK, Ops
    <3>4. \A q \in Procs : Present(q)' => Present(q)
          BY <2>1, <3>1, <3>2 DEF Present, Leaving
    <3>5. Files'
          BY <1>a, <2>1, <2>2, <3>4, HostFacts DEF Files, NonePresent
    <3>6. Disks' /\ StoppedIsStopped'
          BY <1>a, <2>1 DEF Disks, StoppedIsStopped
    <3> QED BY <2>1, <2>2, <3>1, <3>2, <3>3, <3>4, <3>5, <3>6, HostStep
  <2> QED BY <1>6, <2>3, <2>4 DEF StartGuard
<1>7. CASE StartSpawn
  <2>1. UNCHANGED <<identity, vm, disk, state>> /\ probe'[Host].pc = "off"
        BY <1>7, <1>g DEF StartSpawn
  <2>2. /\ NonePresent /\ op.child \in Procs /\ guard = op.child
        /\ stage[op.child] = "dead" /\ state = "starting" /\ disk
        BY <1>7, <1>a, <1>f DEF StartSpawn, OpKnows
  <2>3. CASE op'.pc = "idle" /\ stage' = stage
    <3>1. guard' \in {guard, None}
          BY <1>7 DEF StartSpawn
    <3>2. /\ \A p \in Procs : Present(p)' => Present(p)
          /\ Files' /\ Disks' /\ StoppedIsStopped'
          BY <2>1, <2>2, <2>3, <3>1, Unlinked
    <3> QED BY <2>1, <2>3, <3>2, HostStep
  <2>4. CASE op'.pc = "release" /\ To(op.child, "spawned") /\ guard' = guard
    <3>1. /\ stage'[op.child] = "spawned"
          /\ \A q \in Procs \ {op.child} : stage'[q] = stage[q]
          BY <1>a, <2>2, <2>4, Moves DEF Stages, Active, Starting
    <3>2. \A q \in Procs : Present(q)' => q = op.child
          BY <2>1, <2>2, <2>4, <3>1 DEF NonePresent, Present
    <3>3. Files'
          BY <1>a, <2>1, <2>2, <2>4, <3>1, <3>2, HostFacts
          DEF Files, PreHandoff, Naming
    <3>4. OpKnows' /\ ProbeKnows'
          BY <2>1, <2>4 DEF OpKnows, ProbeKnows
    <3>5. Disks' /\ StoppedIsStopped'
          BY <2>1, <2>2 DEF Disks, StoppedIsStopped
    <3> QED BY <3>3, <3>4, <3>5 DEF Know
  <2> QED BY <1>7, <2>3, <2>4 DEF StartSpawn
<1>8. CASE StartAbort \/ StartAbortWait
  <2>1. UNCHANGED <<files, disk, state>> /\ probe[Host].pc = "off"
        BY <1>8, <1>g DEF StartAbort, StartAbortWait
  <2>2. \/ op'.pc \in {"idle", "abortwait"} /\ probe'[Host].pc = "off"
        \/ op'.pc = "stopprobe" /\ probe'[Host].pc = "guard"
        BY <1>8, <2>1 DEF StartAbort, StartAbortWait
  <2>3. CASE UNCHANGED <<stage, vm>>
        BY <2>1, <2>2, <2>3, HostGoes
  <2>4. CASE ~UNCHANGED <<stage, vm>>
    <3>1. op.child \in Procs /\ (Sigterm(op.child) \/ Sigkill(op.child))
          BY <1>8, <1>h, <2>4 DEF StartAbort, StartAbortWait
    <3>2. /\ \A p \in Procs : Present(p)' => Present(p)
          /\ Files' /\ Disks' /\ StoppedIsStopped'
          BY <2>1, <3>1, Signalled
    <3> QED BY <2>2, <3>2, HostStep
  <2> QED BY <2>3, <2>4
<1>9. CASE StartIp
  <2>1. UNCHANGED <<files, stage>> /\ UNCHANGED <<vm, stage, disk>>
        BY <1>9 DEF StartIp
  <2>2. probe[Host].pc = "off" /\ state' \in {state, "running"}
        BY <1>9, <1>g DEF StartIp
  <2>3. \/ op'.pc = "boot" /\ probe'[Host].pc = "off"
        \/ op'.pc = "stopprobe" /\ probe'[Host].pc = "guard"
        BY <1>9, <2>2 DEF StartIp
  <2>4. (\A p \in Procs : Present(p)' => Present(p)) /\ Files'
        BY <1>a, <2>1, Frame
  <2>5. Disks' /\ StoppedIsStopped'
        BY <1>a, <2>1, <2>2 DEF Disks, StoppedIsStopped
  <2> QED BY <2>3, <2>4, <2>5, HostStep
<1> QED BY <1>1, <1>2, <1>3, <1>4, <1>5, <1>6, <1>7, <1>8, <1>9 DEF StartStep

---------------------------------------------------------------------------
(* What a step of the host operation can do to a vmrun an observer adopts. *)
HostStepOf == \/ StopStep \/ StartStep \/ BeginStop \/ BeginReset \/ ResetRechecked
              \/ ResetRemove \/ HostDies

LEMMA HostTouches ==
    ASSUME TypeOK, HostStepOf
    PROVE  /\ \A a \in Observers : probe'[a] = probe[a]
           /\ \A p \in Procs : \/ stage'[p] \in {stage[p], "dead"}
                               \/ op.pc = "spawn" /\ p = op.child
           /\ identity' = identity \/ op.pc = "unlinkidentity"
           /\ op'.pc = "spawn" => op'.child \in Fresh
<1>1. \A a \in Observers : a # Host
      BY NamesDistinct
<1>2. /\ \A pc : GotoProbe(pc) => \A a \in Observers : probe'[a] = probe[a]
      /\ \A t : StopVm(t) => \A a \in Observers : probe'[a] = probe[a]
      /\ Forget => \A a \in Observers : probe'[a] = probe[a]
      BY <1>1 DEF TypeOK, Probers, GotoProbe, StopVm, SetProbe, Forget
<1>3. /\ \A pc : Goto(pc) => op'.pc = pc
      /\ EndOp => op'.pc = "idle"
      /\ \A pc : GotoProbe(pc) => op'.pc = pc
      /\ \A t : StopVm(t) => op'.pc = "stopprobe"
      /\ FailStop => op'.pc = "idle"
  <2>1. \A pc : op' = [op EXCEPT !.pc = pc] => op'.pc = pc
        BY DEF TypeOK, Ops
  <2>2. \A t : op' = [op EXCEPT !.pc = "stopprobe", !.then = t] => op'.pc = "stopprobe"
        BY DEF TypeOK, Ops
  <2>3. \A pc : Goto(pc) => op'.pc = pc
        BY <2>1 DEF Goto
  <2>4. EndOp => op'.pc = "idle"
        BY DEF EndOp, NoOp
  <2> QED BY <2>2, <2>3, <2>4 DEF GotoProbe, StopVm, FailStop
<1>4. /\ \A q : To(q, "dead") => \A p \in Procs : stage'[p] \in {stage[p], "dead"}
      /\ \A q : To(q, "spawned") => \A p \in Procs : stage'[p] = stage[p] \/ p = q
      /\ UNCHANGED stage => \A p \in Procs : stage'[p] \in {stage[p], "dead"}
      BY DEF TypeOK, To
<1> USE <1>2, <1>3, <1>4 DEF files
<1>5. CASE StopStep
  <2>1. CASE StopProbed \/ StopOwned \/ StopPoweroff \/ StopTermWait \/ StopKillWait
             \/ CleanRevoke
        BY <2>1 DEF StopProbed, StopOwned, StopPoweroff, StopTermWait, StopKillWait,
                    CleanRevoke, TypeOK, Ops
  <2>2. CASE StopTerm
        BY <2>2 DEF StopTerm, StopSignal, Sigterm
  <2>3. CASE StopKill
        BY <2>3 DEF StopKill, StopSignal, Sigkill
  <2>4. CASE CleanPid \/ CleanIdentity \/ CleanGuard \/ CleanSock
        BY <2>4 DEF CleanPid, CleanIdentity, CleanGuard, CleanSock
  <2>5. CASE CleanState
        BY <2>5 DEF CleanState, EndStop
  <2> QED BY <1>5, <2>1, <2>2, <2>3, <2>4, <2>5 DEF StopStep
<1>6. CASE StartStep
  <2>1. CASE BeginStart \/ StartWait \/ StartProbed \/ StartRunning \/ StartStopped
             \/ StartReprobed \/ StartPrepare \/ StartSave
        BY <2>1 DEF BeginStart, StartWait, StartProbed, StartRunning, StartStopped,
                    StartReprobed, StartPrepare, StartSave, TypeOK, Ops
  <2>2. CASE StartGuard
        BY <2>2 DEF StartGuard, TypeOK, Ops
  <2>3. CASE StartSpawn
        BY <2>3 DEF StartSpawn
  <2>4. CASE StartRelease \/ StartCapture \/ StartReady
        BY <2>4 DEF StartRelease, StartCapture, StartReady
  <2>5. CASE StartAbort
        BY <2>5 DEF StartAbort, Sigterm
  <2>6. CASE StartAbortWait
        BY <2>6 DEF StartAbortWait, Sigkill
  <2>7. CASE StartAwait \/ StartAwaitProbed \/ StartIp \/ StartBoot
        BY <2>7 DEF StartAwait, StartAwaitProbed, StartIp, StartBoot
  <2> QED BY <1>6, <2>1, <2>2, <2>3, <2>4, <2>5, <2>6, <2>7 DEF StartStep
<1>7. CASE BeginStop \/ BeginReset \/ ResetRechecked \/ ResetRemove \/ HostDies
      BY <1>7 DEF BeginStop, BeginReset, ResetRechecked, ResetRemove, HostDies
<1> QED BY <1>5, <1>6, <1>7 DEF HostStepOf

LEMMA ObserversKnowStep ==
    ASSUME IInv, AdoptionSparesOthers, [Next]_vars PROVE ObserversKnow'
<1>1. TypeOK /\ Files /\ OpKnows /\ ProbeKnows /\ ObserversKnow
      BY DEF IInv
<1> DEFINE Held(p) == /\ p \in Procs /\ stage[p] \notin Starting
                      /\ stage[p] \in {"serving", "leaving"} => identity = p
<1>2. \A p : Held(p) /\ stage[p] \in {"serving", "leaving"} => Present(p)
      BY DEF Present, Active
<1>3. ASSUME NEW p \in Procs, VmrunStep(p) PROVE ObserversKnow'
  <2>1. UNCHANGED <<op, probe>>
        BY <1>1, <1>3, VmrunKeeps
  <2>2. ASSUME NEW q, Held(q)
        PROVE  /\ stage'[q] \notin Starting
               /\ stage'[q] \in {"serving", "leaving"} => identity' = q
    <3>1. \/ stage'[q] = stage[q]
          \/ stage[q] = "serving" /\ stage'[q] = "leaving" /\ identity' = identity
          \/ stage'[q] \in {"unlinking", "unnamed", "unbound", "closed", "dead"}
      <4>1. \A t \in Stages : To(p, t) =>
               stage'[p] = t /\ \A r \in Procs \ {p} : stage'[r] = stage[r]
            BY <1>1, Moves
      <4>2. p # q => stage'[q] = stage[q]
        <5>1. \E t \in Stages : To(p, t)
              BY <1>3 DEF VmrunStep, Validate, WriteIdentity, WritePid, CompleteHandoff,
                   StartVm, BindCtl, ServeCtl, Die, DieBound, StopServing,
                   CompareIdentity, UnlinkIdentity, UnlinkSock, UnlinkGuard, Gone,
                   Stages, Active, Starting, Leaving
        <5> QED BY <2>2, <4>1, <5>1
      <4>3. CASE p = q
            BY <1>3, <2>2, <4>1, <4>3
            DEF VmrunStep, Validate, WriteIdentity, WritePid, CompleteHandoff,
                StartVm, BindCtl, ServeCtl, Die, DieBound, StopServing,
                CompareIdentity, UnlinkIdentity, UnlinkSock, UnlinkGuard, Gone,
                Stages, Active, Starting, Leaving, At, files
      <4> QED BY <4>2, <4>3
    <3>2. \/ identity' = identity
          \/ stage[p] \in {"valid", "unlinking"} /\ stage'[p] # stage[p]
      <4>1. \A t \in Stages : To(p, t) => stage'[p] = t
            BY <1>1, Moves
      <4> QED BY <1>3, <4>1
              DEF VmrunStep, Validate, WriteIdentity, WritePid, CompleteHandoff,
                StartVm, BindCtl, ServeCtl, Die, DieBound, StopServing,
                CompareIdentity, UnlinkIdentity, UnlinkSock, UnlinkGuard, Gone,
                Stages, Active, Starting, Leaving, At, files
    <3>3. stage[p] \in {"valid", "unlinking"} /\ stage[q] \in {"serving", "leaving"} => FALSE
      <4>1. stage[p] = "valid" => Present(p)
            BY DEF Present, Active, Starting
      <4>2. stage[p] = "unlinking" => Present(p)
            BY <1>1 DEF Present, Files, Naming
      <4> QED BY <1>1, <1>2, <2>2, <4>1, <4>2 DEF Files, Starting
    <3>4. stage'[q] \in {"serving", "leaving"} => stage[q] \in {"serving", "leaving"}
          BY <2>2, <3>1 DEF Starting
    <3> QED BY <2>2, <3>1, <3>2, <3>3, <3>4 DEF Starting
  <2> QED BY <1>1, <2>1, <2>2 DEF ObserversKnow
<1>4. ASSUME NEW a \in Probers, ProbeStep(a) PROVE ObserversKnow'
  <2>1. /\ UNCHANGED <<stage, op>>
        /\ identity' = identity \/ (probe[a].pc = "persist" /\ identity' = probe[a].who)
        BY <1>4 DEF ProbeStep, ObserverProbes, ProbeGuard, ProbeCtl, Adopt, AdoptIdentity,
                    AdoptPid, ProbeFiles, files
  <2>2. /\ \A b \in Probers \ {a} : probe'[b] = probe[b]
        /\ probe'[a].pc = "adopt" => CtlValid /\ probe'[a].who = sock
        /\ probe'[a].pc = "persist" => probe[a].pc = "adopt" /\ probe'[a].who = probe[a].who
    <3>1. \A pc, w : SetProbe(a, pc, w) => /\ probe'[a].pc = pc /\ probe'[a].who = w
                                           /\ \A b \in Probers \ {a} : probe'[b] = probe[b]
          BY <1>1 DEF TypeOK, SetProbe
    <3>2. \A pc, w : Answer(a, pc, w) => /\ probe'[a].pc \in {pc, "off"}
                                         /\ \A b \in Probers \ {a} : probe'[b] = probe[b]
      <4>1. \A b \in Probers : probe' = [probe EXCEPT ![a] = NoProbe] =>
               probe'[a].pc = "off" /\ (b # a => probe'[b] = probe[b])
            BY <1>1 DEF TypeOK, NoProbe
      <4> QED BY <3>1, <4>1 DEF Answer
    <3>3. CASE ObserverProbes(a) \/ ProbeGuard(a) \/ ProbeFiles(a)
          BY <3>1, <3>2, <3>3 DEF ObserverProbes, ProbeGuard, ProbeFiles
    <3>4. CASE ProbeCtl(a)
          BY <3>1, <3>2, <3>4 DEF ProbeCtl
    <3>5. CASE Adopt(a)
          BY <3>1, <3>2, <3>5 DEF Adopt
    <3>6. CASE AdoptIdentity(a) \/ AdoptPid(a)
          BY <3>1, <3>2, <3>6 DEF AdoptIdentity, AdoptPid
    <3> QED BY <1>4, <3>3, <3>4, <3>5, <3>6 DEF ProbeStep
  <2>3. ASSUME NEW q, Held(q), stage[q] \in {"serving", "leaving"} PROVE identity' = q
    <3>1. Present(q) /\ identity = q /\ Alive(q)
          BY <1>2, <2>3 DEF Alive
    <3>2. CASE a = Host /\ probe[a].pc = "persist"
          BY <1>1, <2>1, <2>3, <3>1, <3>2 DEF ProbeKnows, OnlyPresent
    <3>3. CASE a \in Observers /\ probe[a].pc = "persist"
          BY <2>1, <3>1, <3>3 DEF AdoptionSparesOthers
    <3> QED BY <2>1, <3>1, <3>2, <3>3 DEF Probers
  <2>4. CtlValid => Held(sock) /\ (op.pc = "spawn" => op.child # sock)
    <3>1. CtlValid => sock \in Procs /\ stage[sock] = "serving" /\ identity = sock
          BY <1>1 DEF TypeOK, ProcOrNone, CtlValid, Files, Naming
    <3>2. op.pc = "spawn" => stage[op.child] = "dead"
          BY <1>1 DEF OpKnows
    <3> QED BY <3>1, <3>2 DEF Starting
  <2>5. ASSUME NEW b \in Observers, probe'[b].pc \in {"adopt", "persist"}
        PROVE  Held(probe'[b].who) /\ (op.pc = "spawn" => op.child # probe'[b].who)
    <3>1. CASE b = a /\ probe'[b].pc = "adopt"
          BY <2>2, <2>4, <3>1
    <3>2. CASE b # a \/ probe'[b].pc = "persist"
          BY <1>1, <2>2, <2>5, <3>2 DEF ObserversKnow, Probers
    <3> QED BY <2>5, <3>1, <3>2
  <2> QED BY <2>1, <2>3, <2>5 DEF ObserversKnow
<1>5. CASE HostStepOf
  <2>1. ASSUME NEW a \in Observers, probe'[a].pc \in {"adopt", "persist"}
        PROVE  LET w == probe'[a].who IN
               /\ w \in Procs /\ stage'[w] \notin Starting
               /\ stage'[w] \in {"serving", "leaving"} => identity' = w
               /\ op'.pc = "spawn" => op'.child # w
    <3> DEFINE w == probe[a].who
    <3>1. probe'[a] = probe[a] /\ Held(w) /\ (op.pc = "spawn" => op.child # w)
          BY <1>1, <1>5, <2>1, HostTouches DEF ObserversKnow
    <3>2. w \in Named
          BY DEF Named, Probers
    <3> HIDE DEF w
    <3>3. op'.pc = "spawn" => op'.child # w
          BY <1>1, <1>5, <3>2, HostTouches DEF Fresh
    <3>4. stage'[w] \in {stage[w], "dead"}
          BY <1>1, <1>5, <3>1, HostTouches
    <3>5. op.pc = "unlinkidentity" => ~Present(w)
          BY <1>1, <3>1 DEF OpKnows, Quiet, CleanPcs, NonePresent
    <3>6. stage'[w] \in {"serving", "leaving"} => identity' = w
          BY <1>1, <1>2, <1>5, <3>1, <3>4, <3>5, HostTouches
    <3> QED BY <3>1, <3>3, <3>4, <3>6 DEF w, Starting
  <2> QED BY <2>1 DEF ObserversKnow
<1>6. CASE PowerLoss
      BY <1>6 DEF PowerLoss, ObserversKnow, Probers, NoProbe
<1>7. CASE UNCHANGED vars
      BY <1>1, <1>7 DEF vars, ObserversKnow
<1> QED BY <1>3, <1>4, <1>5, <1>6, <1>7 DEF Next, HostStepOf

---------------------------------------------------------------------------
(* The inductive step.                                                     *)
LEMMA InvStep ==
    ASSUME IInv, AdoptionSparesOthers, [Next]_vars PROVE IInv'
<1> SUFFICES Know'
    BY TypeStep, ObserversKnowStep DEF IInv, Know
<1>b. TypeOK /\ Files /\ OpKnows /\ ProbeKnows /\ Disks /\ StoppedIsStopped
      BY DEF IInv
<1>c. /\ \A pc \in OpPcs : Goto(pc) => op'.pc = pc
      /\ EndOp => op'.pc = "idle"
      /\ Forget => probe'[Host].pc = "off"
      /\ \A t \in Thens : StopVm(t) => /\ op'.pc = "stopprobe"
                                       /\ probe'[Host].pc = "guard"
      BY <1>b, Moves
<1>d. "remove" \in OpPcs /\ {"end", "recheck"} \subseteq Thens
      BY DEF OpPcs, ResetPcs, Thens
<1> USE <1>c, <1>d DEF Quiet, CleanPcs, Owning, ProbeWait
<1>1. ASSUME NEW a \in Probers, ProbeStep(a) PROVE Know'
      BY <1>1, ProbeStepKnows, ObserverStepKnows DEF Probers
<1>2. ASSUME NEW p \in Procs, VmrunStep(p) PROVE Know'
      BY <1>2, VmrunStepKnows
<1>3. CASE StopStep \/ StartStep
      BY <1>3, StopStepKnows, StartStepKnows
<1>4. CASE BeginStop \/ BeginReset \/ HostDies
  <2>1. UNCHANGED <<files, stage, vm, disk, state>>
        BY <1>4 DEF BeginStop, BeginReset, HostDies
  <2>2. \/ op'.pc = "idle" /\ probe'[Host].pc = "off"
        \/ op'.pc = "stopprobe" /\ probe'[Host].pc = "guard"
        BY <1>4 DEF BeginStop, BeginReset, HostDies
  <2> QED BY <2>1, <2>2, HostGoes
<1>5. CASE ResetRechecked
  <2>1. UNCHANGED <<files, stage, vm, disk, state>> /\ probe'[Host].pc = "off"
        BY <1>5 DEF ResetRechecked
  <2>2. \/ op'.pc = "idle"
        \/ op'.pc = "remove" /\ NonePresent
        BY <1>5, <1>b DEF ResetRechecked, Says, ProbeKnows
  <2> QED BY <2>1, <2>2, HostGoes
<1>6. CASE ResetRemove
  <2>1. UNCHANGED <<files, stage>> /\ UNCHANGED <<vm, stage, state>>
        BY <1>6 DEF ResetRemove
  <2>2. op'.pc = "idle" /\ NonePresent /\ probe'[Host].pc = "off"
        BY <1>6, <1>b, HostFacts DEF ResetRemove, OpKnows
  <2>3. (\A p \in Procs : Present(p)' => Present(p)) /\ Files'
        BY <1>b, <2>1, Frame
  <2>4. vm \subseteq Procs
        BY <1>b DEF TypeOK
  <2>5. Disks' /\ StoppedIsStopped'
        BY <1>b, <2>1, <2>2, <2>4, HostFacts DEF Disks, StoppedIsStopped
  <2> QED BY <2>2, <2>3, <2>5, HostStep
<1>7. CASE PowerLoss
  <2>1. \A p \in Procs : stage'[p] = "dead"
        BY <1>7 DEF PowerLoss
  <2>2. op'.pc = "idle" /\ probe'[Host].pc = "off" /\ vm' = {}
        BY <1>7 DEF PowerLoss, NoOp, NoProbe, Probers
  <2>3. OpKnows' /\ ProbeKnows'
        BY <2>2 DEF OpKnows, ProbeKnows
  <2>4. Files' /\ Disks' /\ StoppedIsStopped'
        BY <2>1, <2>2 DEF Files, Present, Disks, StoppedIsStopped, PreHandoff,
                          Naming, Active, Starting, Leaving
  <2> QED BY <2>3, <2>4 DEF Know
<1>8. CASE UNCHANGED vars
  <2>1. UNCHANGED <<files, stage, vm, disk, state, op, probe>>
        BY <1>8 DEF vars, files
  <2> QED BY <1>b, <2>1, HostMove DEF ProbeKnows
<1> QED BY <1>1, <1>2, <1>3, <1>4, <1>5, <1>6, <1>7, <1>8 DEF Next

(* A profile that was never started satisfies the invariant.               *)
LEMMA InitInv == Init => IInv
<1> SUFFICES ASSUME Init PROVE IInv
    OBVIOUS
<1>1. TypeOK
      BY DEF Init, TypeOK, NoOp, Ops, OpPcs, Thens, NoProbe, Probes, ProbePcs,
             ProcOrNone, Stages
<1>2. \A p \in Procs : stage[p] = "dead"
      BY DEF Init
<1>3. op.pc = "idle" /\ probe[Host].pc = "off"
      BY DEF Init, NoOp, NoProbe, Probers
<1>4. Files /\ StoppedIsStopped
      BY <1>2 DEF Files, StoppedIsStopped, Present, PreHandoff, Naming, Active,
                  Starting, Leaving
<1>5. OpKnows
      BY <1>3 DEF OpKnows, Quiet, CleanPcs, Owning
<1>6. ProbeKnows /\ Disks
      BY <1>3 DEF ProbeKnows, Disks, Init
<1>7. ObserversKnow
      BY DEF Init, ObserversKnow, Probers, NoProbe
<1> QED BY <1>1, <1>4, <1>5, <1>6, <1>7 DEF IInv

---------------------------------------------------------------------------
(* Every reachable state is well typed, whoever probes.                    *)
THEOREM TypeCorrect == Spec => []TypeOK
<1>1. Init => TypeOK
      BY InitInv DEF IInv
<1> QED BY <1>1, TypeStep, PTL DEF Spec

(* The invariant holds as long as no observer is about to write over the   *)
(* name of another living vmrun.                                           *)
THEOREM Invariant == Spec /\ []AdoptionSparesOthers => []IInv
<1>1. IInv /\ AdoptionSparesOthers /\ [Next]_vars => IInv'
      BY InvStep
<1> QED BY <1>1, InitInv, PTL DEF Spec

(* At most one supervisor that is not on its way out has a VM started, as  *)
(* long as no observer writes over the name of a living one.               *)
THEOREM OneVmAlways == Spec /\ []AdoptionSparesOthers => []OneVm
<1>1. IInv => OneVm
      BY DEF IInv, TypeOK, Files, Present, OneVm
<1> QED BY <1>1, Invariant, PTL

(* A supervisor that may still start a VM holds the guard or is named, as  *)
(* long as no observer writes over the name of a living one.               *)
THEOREM VisibleAlways == Spec /\ []AdoptionSparesOthers => []Visible
<1>1. IInv => Visible
      BY DEF IInv, Files, Visible, Active, Starting, PreHandoff, Naming
<1> QED BY <1>1, Invariant, PTL

(* Files and disk are removed only when no supervisor may run a VM, as     *)
(* long as no observer writes over the name of a living one; without that  *)
(* the run vm_lifecycle_observer refutes it.                               *)
THEOREM CleanupAlways == Spec /\ []AdoptionSparesOthers => []CleanupOnlyWhenStopped
<1>1. IInv => CleanupOnlyWhenStopped
      BY DEF IInv, OpKnows, Quiet, NonePresent, Present, CleanupOnlyWhenStopped
<1> QED BY <1>1, Invariant, PTL

(* No VM loses its disk while its supervisor starts or serves it, as long  *)
(* as no observer writes over the name of a living one.                    *)
THEOREM DiskAlways == Spec /\ []AdoptionSparesOthers => []VmHasDisk
<1>1. IInv => VmHasDisk
      BY DEF IInv, Disks, VmHasDisk
<1> QED BY <1>1, Invariant, PTL

(* A profile recorded as stopped has no vmrun but one inside exit(), as    *)
(* long as no observer writes over the name of a living one.               *)
THEOREM StoppedAlways == Spec /\ []AdoptionSparesOthers => []StoppedIsStopped
<1>1. IInv => StoppedIsStopped
      BY DEF IInv
<1> QED BY <1>1, Invariant, PTL

(* The exit handlers never unlink the identity of a younger supervisor, as *)
(* long as no observer writes over the name of a living one.               *)
THEOREM UnlinksOwnAlways == Spec /\ []AdoptionSparesOthers => UnlinksOwnIdentity
<1>1. IInv => \A p \in Procs : stage[p] = "unlinking" => identity = p
      BY DEF IInv, Files, Naming
<1>2. IInv => [\A p \in Procs :
                  stage[p] = "unlinking" /\ stage'[p] = "unnamed"
                      => identity \in {p, None}]_vars
      BY <1>1
<1> QED BY <1>2, Invariant, PTL DEF UnlinksOwnIdentity

-----------------------------------------------------------------------------
(* Admission: the starts of several profiles, each with a lifecycle of its  *)
(* own, share the host's memory.                                            *)
CONSTANTS Profiles, Sizes, Reserves, Total, NoProfile
VARIABLES config, memory, start, lock

Adm == INSTANCE Admission WITH vm <- memory

(* Every set of naturals that is not empty has a least element.           *)
LEMMA Least ==
    ASSUME NEW T, T \subseteq Nat, T # {}
    PROVE  \E n \in T : \A m \in T : n <= m
<1> DEFINE R == OpToRel(<, Nat)
<1>1. \E x \in T : \A y \in T : ~ (<<y, x>> \in R)
  <2>1. IsWellFoundedOn(R, Nat)
    BY NatLessThanWellFounded
  <2> HIDE DEF R
  <2> QED BY <2>1, WFMin
<1>2. PICK x \in T : \A y \in T : ~ (<<y, x>> \in R)
  BY <1>1
<1>3. \A y \in T : ~(y < x)
  BY <1>2 DEF OpToRel
<1> QED BY <1>3

(* Of the subsets of a finite set with some property one is smallest. *)
LEMMA Smallest ==
    ASSUME NEW S, IsFiniteSet(S), NEW B, B \subseteq SUBSET S, B # {}
    PROVE  \E s \in B : \A x \in s : s \ {x} \notin B
<1> DEFINE T == {Cardinality(s) : s \in B}
<1>1. \A s \in B : IsFiniteSet(s) /\ Cardinality(s) \in Nat
  BY FS_Subset, FS_CardinalityType
<1>2. PICK n \in T : \A m \in T : n <= m
  <2>1. T \subseteq Nat /\ T # {}
    BY <1>1
  <2> HIDE DEF T
  <2> QED BY <2>1, Least
<1>3. PICK s \in B : Cardinality(s) = n
  BY <1>2
<1>4. ASSUME NEW x \in s, s \ {x} \in B PROVE FALSE
  <2>1. Cardinality(s \ {x}) = Cardinality(s) - 1
    BY <1>1, FS_RemoveElement
  <2>2. Cardinality(s \ {x}) \in T
    BY <1>4
  <2> HIDE DEF T
  <2>3. n <= Cardinality(s \ {x})
    BY <1>2, <2>2
  <2> QED BY <1>1, <1>3, <2>1, <2>3
<1> QED BY <1>4

(* The sum of f over each subset of its domain, however they are added up. *)
IsSum(h, f, S) ==
    /\ h \in [SUBSET S -> Nat]
    /\ h[{}] = 0
    /\ \A s \in SUBSET S : \A x \in s : h[s] = f[x] + h[s \ {x}]

(* What SumFunction adds up, one element chosen after the other, is such a sum. *)
LEMMA SumIsSum ==
    ASSUME NEW S, IsFiniteSet(S), NEW f \in [S -> Nat]
    PROVE  \E h : IsSum(h, f, S) /\ Adm!SumFunction(f) = h[S]
<1> DEFINE Any(s) == CHOOSE x \in s : TRUE
           Body(g, s) == IF s = {} THEN 0 ELSE f[Any(s)] + g[s \ {Any(s)}]
           D(k) == {s \in SUBSET S : Cardinality(s) <= k}
           Kept(g, k) == g \in [D(k) -> Nat] /\ \A s \in D(k) : g[s] = Body(g, s)
           N == Cardinality(S)
           T == {k \in 0..N : ~ \E g : Kept(g, k)}
<1>1. N \in Nat /\ \A s \in SUBSET S : /\ IsFiniteSet(s) /\ Cardinality(s) \in 0..N
                                       /\ (Cardinality(s) = 0 <=> s = {})
                                       /\ \A x \in s : Cardinality(s \ {x}) = Cardinality(s) - 1
  <2>1. N \in Nat
    BY FS_CardinalityType
  <2>2. ASSUME NEW s \in SUBSET S
        PROVE  /\ IsFiniteSet(s) /\ Cardinality(s) \in 0..N /\ (Cardinality(s) = 0 <=> s = {})
               /\ \A x \in s : Cardinality(s \ {x}) = Cardinality(s) - 1
    <3>1. IsFiniteSet(s) /\ Cardinality(s) <= N
      BY FS_Subset
    <3>2. Cardinality(s) \in Nat
      BY <3>1, FS_CardinalityType
    <3>3. Cardinality(s) = 0 <=> s = {}
      BY <3>1, FS_EmptySet
    <3>4. \A x \in s : Cardinality(s \ {x}) = Cardinality(s) - 1
      BY <3>1, FS_RemoveElement
    <3> QED BY <2>1, <3>1, <3>2, <3>3, <3>4
  <2> QED BY <2>1, <2>2
<1>2. \A s \in SUBSET S : s # {} => Any(s) \in s /\ Any(s) \in S
  OBVIOUS
<1> HIDE DEF Any, N
<1>3. T = {}
  <2> SUFFICES ASSUME T # {} PROVE FALSE
    OBVIOUS
  <2>1. PICK m \in T : \A k \in T : m <= k
    <3>1. T \subseteq Nat
      BY <1>1
    <3> QED BY <3>1, Least
  <2>2. m \in 0..N /\ ~ \E g : Kept(g, m)
    BY <2>1
  <2>3. m # 0
    <3> DEFINE z == [s \in D(0) |-> 0]
    <3>1. \A s \in D(0) : s = {}
      BY <1>1
    <3>2. Kept(z, 0)
      BY <3>1
    <3> HIDE DEF z, Kept
    <3> QED BY <2>2, <3>2
  <2>4. m - 1 \in 0..N /\ m - 1 \notin T
    <3>1. T \subseteq 0..N
      OBVIOUS
    <3> HIDE DEF T
    <3> QED BY <1>1, <2>1, <2>2, <2>3, <3>1
  <2>5. PICK g : Kept(g, m - 1)
    BY <2>4
  <2> HIDE DEF T
  <2> DEFINE e == [s \in D(m) |-> IF s \in D(m - 1) THEN g[s] ELSE Body(g, s)]
  <2>6. \A s \in D(m) : s # {} => s \ {Any(s)} \in D(m - 1)
    BY <1>1, <1>2, <2>2
  <2>7. \A s \in D(m) : Body(g, s) \in Nat
    BY <1>2, <2>5, <2>6
  <2>8. e \in [D(m) -> Nat]
    <3> HIDE DEF Body, D
    <3> QED BY <2>5, <2>7
  <2>9. \A s \in D(m) : e[s] = Body(g, s)
    <3> HIDE DEF Body, D
    <3> QED BY <2>5
  <2>10. \A s \in D(m) : s \in D(m - 1) => e[s] = g[s]
    <3> HIDE DEF Body, D
    <3> QED OBVIOUS
  <2>11. D(m - 1) \subseteq D(m)
    BY <1>1, <2>2
  <2> HIDE DEF e, D
  <2>12. \A s \in D(m) : Body(e, s) = Body(g, s)
    BY <2>6, <2>10, <2>11
  <2>13. Kept(e, m)
    BY <2>8, <2>9, <2>12
  <2> QED BY <2>2, <2>13
<1>4. PICK g : Kept(g, N)
  <2> HIDE DEF Kept
  <2> QED BY <1>1, <1>3
<1>5. D(N) = SUBSET S
  BY <1>1
<1> HIDE DEF D
<1>6. g = [s \in SUBSET S |-> Body(g, s)]
  BY <1>4, <1>5
<1> DEFINE h == CHOOSE q : q = [s \in SUBSET S |-> Body(q, s)]
<1>7. h = [s \in SUBSET S |-> Body(h, s)]
  BY <1>6
<1>8. Adm!SumFunction(f) = h[S]
  BY DEF Any, Adm!SumFunction, Adm!SumFunctionOnSet, Adm!FoldFunctionOnSet, Adm!MapThenFoldSet
<1> HIDE DEF h
<1>9. \A s \in SUBSET S : h[s] = Body(h, s)
  BY <1>7
<1>10. \A s \in SUBSET S : h[s] \in Nat
  <2> DEFINE B == {s \in SUBSET S : h[s] \notin Nat}
  <2> SUFFICES ASSUME B # {} PROVE FALSE
    OBVIOUS
  <2>1. PICK s \in B : \A x \in s : s \ {x} \notin B
    BY Smallest
  <2>2. s \in SUBSET S /\ h[s] \notin Nat /\ s # {} /\ h[s] = f[Any(s)] + h[s \ {Any(s)}]
    <3>1. s \in SUBSET S /\ h[s] \notin Nat
      BY <2>1
    <3>2. h[s] = Body(h, s)
      BY <1>9, <3>1
    <3> QED BY <3>1, <3>2
  <2>3. h[s \ {Any(s)}] \in Nat /\ f[Any(s)] \in Nat
    BY <1>2, <2>1, <2>2
  <2> QED BY <2>2, <2>3
<1>11. \A s \in SUBSET S : \A x \in s : h[s] = f[x] + h[s \ {x}]
  <2> DEFINE B == {s \in SUBSET S : \E x \in s : h[s] # f[x] + h[s \ {x}]}
  <2> SUFFICES ASSUME B # {} PROVE FALSE
    OBVIOUS
  <2>1. PICK s \in B : \A x \in s : s \ {x} \notin B
    BY Smallest
  <2>2. PICK x \in s : h[s] # f[x] + h[s \ {x}]
    BY <2>1
  <2>3. PICK c \in s : h[s] = f[c] + h[s \ {c}]
    BY <1>2, <1>9, <2>1, <2>2
  <2>4. x # c /\ s \in SUBSET S
    BY <2>1, <2>2, <2>3
  <2>5. h[s \ {c}] = f[x] + h[(s \ {c}) \ {x}]
    BY <2>1, <2>3, <2>4
  <2>6. h[s \ {x}] = f[c] + h[(s \ {x}) \ {c}]
    BY <2>1, <2>2, <2>4
  <2>7. (s \ {c}) \ {x} = (s \ {x}) \ {c} /\ (s \ {c}) \ {x} \in SUBSET S
    BY <2>4
  <2>8. f[x] \in Nat /\ f[c] \in Nat /\ h[(s \ {c}) \ {x}] \in Nat
    BY <1>10, <2>4, <2>7
  <2> HIDE DEF Body, B
  <2>9. PICK a \in Nat, b \in Nat, d \in Nat : a = f[x] /\ b = f[c] /\ d = h[(s \ {c}) \ {x}]
    BY <2>8
  <2>10. h[s] = b + (a + d) /\ h[s] # a + (b + d)
    BY <2>2, <2>3, <2>5, <2>6, <2>7, <2>9
  <2> QED BY <2>10
<1>12. IsSum(h, f, S)
  BY <1>7, <1>9, <1>10, <1>11 DEF IsSum
<1> QED BY <1>8, <1>12

(* Profiles without a VM use nothing.                                     *)
LEMMA SumOfNothing ==
    ASSUME NEW S, IsFiniteSet(S)
    PROVE  Adm!SumFunction([x \in S |-> 0]) = 0
<1> DEFINE f == [x \in S |-> 0]
<1>1. PICK h : IsSum(h, f, S) /\ Adm!SumFunction(f) = h[S]
  BY SumIsSum
<1>2. \A s \in SUBSET S : h[s] = 0
  <2> DEFINE B == {s \in SUBSET S : h[s] # 0}
  <2> SUFFICES ASSUME B # {} PROVE FALSE
    OBVIOUS
  <2>1. PICK s \in B : \A x \in s : s \ {x} \notin B
    BY Smallest
  <2>2. s # {} /\ s \in SUBSET S /\ h[s] # 0
    BY <1>1, <2>1 DEF IsSum
  <2>3. PICK x \in s : TRUE
    BY <2>2
  <2>4. h[s] = f[x] + h[s \ {x}] /\ h[s \ {x}] = 0
    BY <1>1, <2>1, <2>2 DEF IsSum
  <2> QED BY <2>2, <2>4
<1> QED BY <1>1, <1>2

(* Changing one addend changes the sum by as much.                        *)
LEMMA SumUpdate ==
    ASSUME NEW S, IsFiniteSet(S), NEW f \in [S -> Nat], NEW p \in S, NEW v \in Nat
    PROVE  /\ Adm!SumFunction(f) \in Nat
           /\ Adm!SumFunction([f EXCEPT ![p] = v]) \in Nat
           /\ Adm!SumFunction([f EXCEPT ![p] = v]) + f[p] = Adm!SumFunction(f) + v
<1>1. PICK e \in [S -> Nat] : e = [f EXCEPT ![p] = v]
  OBVIOUS
<1>2. e[p] = v /\ \A x \in S : x # p => e[x] = f[x]
  BY <1>1
<1>3. PICK h : IsSum(h, f, S) /\ Adm!SumFunction(f) = h[S]
  BY SumIsSum
<1>4. PICK k : IsSum(k, e, S) /\ Adm!SumFunction(e) = k[S]
  BY SumIsSum
<1>5. \A s \in SUBSET (S \ {p}) : h[s] = k[s]
  <2> DEFINE B == {s \in SUBSET (S \ {p}) : h[s] # k[s]}
  <2> SUFFICES ASSUME B # {} PROVE FALSE
    OBVIOUS
  <2>1. PICK s \in B : \A x \in s : s \ {x} \notin B
    <3>1. B \subseteq SUBSET S
      OBVIOUS
    <3> HIDE DEF B
    <3> QED BY <3>1, Smallest
  <2>2. s # {} /\ s \in SUBSET (S \ {p}) /\ s \in SUBSET S /\ h[s] # k[s]
    BY <1>3, <1>4, <2>1 DEF IsSum
  <2>3. PICK x \in s : TRUE
    BY <2>2
  <2>4. h[s] = f[x] + h[s \ {x}] /\ k[s] = e[x] + k[s \ {x}] /\ h[s \ {x}] = k[s \ {x}]
    BY <1>3, <1>4, <2>1, <2>2 DEF IsSum
  <2>5. e[x] = f[x]
    BY <1>2, <2>2
  <2> QED BY <2>2, <2>4, <2>5
<1>6. h[S] = f[p] + h[S \ {p}] /\ k[S] = v + k[S \ {p}] /\ h[S \ {p}] = k[S \ {p}]
  BY <1>2, <1>3, <1>4, <1>5 DEF IsSum
<1>7. h[S] \in Nat /\ k[S] \in Nat /\ h[S \ {p}] \in Nat /\ f[p] \in Nat
  BY <1>3, <1>4 DEF IsSum
<1> QED BY <1>1, <1>3, <1>4, <1>6, <1>7

(* The same, for every change of one function.                              *)
LEMMA SumUpdates ==
    ASSUME NEW S, IsFiniteSet(S), NEW f \in [S -> Nat]
    PROVE  \A p \in S : \A v \in Nat :
              /\ Adm!SumFunction(f) \in Nat /\ Adm!SumFunction([f EXCEPT ![p] = v]) \in Nat
              /\ Adm!SumFunction([f EXCEPT ![p] = v]) + f[p] = Adm!SumFunction(f) + v
<1> TAKE p \in S
<1> TAKE v \in Nat
<1> QED BY SumUpdate

(* From its measurement to its VM a start holds the flock.                  *)
Locking == {"measure", "probe", "clear", "save", "spawn", "spawned"}

(* What p has counted so far, and what there is once its VM runs.           *)
Counted(p) ==
    [q \in Profiles |-> IF q \in start[p].todo \cup {p, start[p].about} THEN 0 ELSE memory[q]]
Given(p) == [memory EXCEPT ![p] = start[p].ask]

(* What a start knows, and relies on, at its stage.                         *)
Claims(p) ==
    LET s == start[p] IN
    /\ s.pc \in Locking => lock = p
    /\ s.pc \in {"lock", "measure", "probe"} => s.reserve \in Reserves
    /\ s.pc \in {"lock", "measure", "probe", "clear", "save", "spawn"} => s.ask \in Sizes
    /\ s.pc \in {"lock", "measure"} => s.about = NoProfile
    /\ s.pc \in {"measure", "probe"} => p \notin s.todo
    /\ s.pc = "probe" => /\ s.about \in Profiles \ (s.todo \cup {p})
                         /\ memory[s.about] <= s.size
    /\ s.pc \in {"measure", "probe"} => Adm!SumFunction(Counted(p)) <= s.sum
    /\ s.pc \in {"clear", "save", "spawn"} =>
          \E r \in Reserves : Adm!SumFunction(Given(p)) <= Adm!Available(r)
    /\ s.pc \in {"save", "spawn"} => memory[p] = 0
    /\ s.pc = "spawn" => config[p] = s.ask
    /\ memory[p] > 0 => memory[p] = config[p]

AdmInv == Adm!TypeOK /\ (\A p \in Profiles : Claims(p)) /\ Adm!NoOvercommit

(* The assumptions, and the memory there is for VMs under a reserve.      *)
LEMMA AdmConstants ==
    ASSUME Adm!AdmissionConstants
    PROVE  /\ IsFiniteSet(Profiles) /\ NoProfile \notin Profiles /\ Sizes \subseteq Nat \ {0}
           /\ Reserves \subseteq Nat /\ Reserves # {} /\ Total \in Nat
           /\ \A r \in Nat : Adm!Available(r) \in Nat
BY DEF Adm!AdmissionConstants, IsFiniteSet, Adm!IsFiniteSet, Adm!Available

(* An addend that shrinks shrinks the sum.                                *)
LEMMA Fewer ==
    ASSUME NEW S, IsFiniteSet(S), NEW f \in [S -> Nat], NEW p \in S, NEW v \in Nat, v <= f[p]
    PROVE  Adm!SumFunction([f EXCEPT ![p] = v]) <= Adm!SumFunction(f)
<1>1. /\ Adm!SumFunction(f) \in Nat /\ Adm!SumFunction([f EXCEPT ![p] = v]) \in Nat
      /\ Adm!SumFunction([f EXCEPT ![p] = v]) + f[p] = Adm!SumFunction(f) + v
  BY SumUpdate
<1>2. f[p] \in Nat
  OBVIOUS
<1> QED BY <1>1, <1>2

(* The types of a start's record and of its VM.                             *)
LEMMA AdmFields ==
    ASSUME Adm!AdmissionConstants, AdmInv, NEW p \in Profiles
    PROVE  /\ memory \in [Profiles -> Sizes \cup {0}] /\ memory \in [Profiles -> Nat]
           /\ start[p] \in Adm!Starts /\ start[p].todo \subseteq Profiles
           /\ start[p].ask \in Sizes \cup {0} /\ start[p].ask \in Nat
           /\ start[p].sum \in Nat /\ start[p].size \in Nat
           /\ start[p].about \in Profiles \cup {NoProfile}
<1>1. Sizes \cup {0} \subseteq Nat
  BY AdmConstants
<1>2. memory \in [Profiles -> Sizes \cup {0}] /\ start[p] \in Adm!Starts
  BY DEF AdmInv, Adm!TypeOK
<1>3. memory \in [Profiles -> Nat]
  BY <1>1, <1>2
<1>4. /\ start[p].todo \subseteq Profiles /\ start[p].ask \in Sizes \cup {0} /\ start[p].sum \in Nat
      /\ start[p].size \in Sizes \cup {0} /\ start[p].about \in Profiles \cup {NoProfile}
  BY <1>2 DEF Adm!Starts
<1> QED BY <1>1, <1>2, <1>3, <1>4

(* What a start of p does leaves the other starts what they know: VMs only  *)
(* end, unless p holds the flock.                                           *)
LEMMA OthersClaim ==
    ASSUME Adm!AdmissionConstants, AdmInv, NEW p \in Profiles, NEW q \in Profiles, q # p,
           start'[q] = start[q], config'[q] = config[q],
           NEW v \in Nat, memory' = [memory EXCEPT ![p] = v], v <= memory[p] \/ lock = p,
           lock' = lock \/ lock \in {NoProfile, p}
    PROVE  Claims(q)'
<1>1. memory \in [Profiles -> Nat] /\ start[q].todo \subseteq Profiles
      /\ start[q].ask \in Nat /\ start[q].sum \in Nat /\ start[q].size \in Nat
      /\ start[q].about \in Profiles \cup {NoProfile}
  BY AdmFields
<1>2. Claims(q)
  BY DEF AdmInv
<1>3. IsFiniteSet(Profiles) /\ NoProfile \notin Profiles /\ Reserves \subseteq Nat
      /\ \A r \in Nat : Adm!Available(r) \in Nat
  BY AdmConstants
<1>4. memory'[q] = memory[q]
  BY <1>1
<1>5. CASE start[q].pc \in Locking
  <2>1. lock = q /\ lock' = q /\ v <= memory[p]
    BY <1>2, <1>3, <1>5 DEF Claims
  <2>2. start[q].pc \in {"measure", "probe"} => Adm!SumFunction(Counted(q)') <= start[q].sum
    <3> DEFINE b == IF p \in start[q].todo \cup {q, start[q].about} THEN 0 ELSE v
    <3>1. Counted(q) \in [Profiles -> Nat]
      BY <1>1 DEF Counted
    <3>2. b \in Nat /\ b <= Counted(q)[p]
      BY <1>1, <2>1 DEF Counted
    <3>3. Counted(q)' = [Counted(q) EXCEPT ![p] = b]
      BY <1>1 DEF Counted
    <3>4. PICK f \in [Profiles -> Nat] : f = Counted(q)
      BY <3>1
    <3>5. PICK c \in Nat : c = b /\ c <= f[p]
      BY <3>2, <3>4
    <3>6. Adm!SumFunction([f EXCEPT ![p] = c]) <= Adm!SumFunction(f)
          /\ Adm!SumFunction(f) \in Nat /\ Adm!SumFunction([f EXCEPT ![p] = c]) \in Nat
      BY <1>3, <3>5, Fewer, SumUpdate
    <3>7. Counted(q)' = [f EXCEPT ![p] = c]
      BY <3>3, <3>4, <3>5
    <3>8. start[q].pc \in {"measure", "probe"} => Adm!SumFunction(f) <= start[q].sum
      BY <1>2, <3>4 DEF Claims
    <3> HIDE DEF b
    <3>9. start[q].pc \in {"measure", "probe"} => Adm!SumFunction([f EXCEPT ![p] = c]) <= start[q].sum
      BY <1>1, <3>6, <3>8
    <3> QED BY <3>7, <3>9
  <2>3. start[q].pc \in {"clear", "save", "spawn"} =>
           \E r \in Reserves : Adm!SumFunction(Given(q)') <= Adm!Available(r)
    <3> SUFFICES ASSUME start[q].pc \in {"clear", "save", "spawn"}
                 PROVE  \E r \in Reserves : Adm!SumFunction(Given(q)') <= Adm!Available(r)
      OBVIOUS
    <3>1. PICK r \in Reserves : Adm!SumFunction(Given(q)) <= Adm!Available(r)
      BY <1>2 DEF Claims
    <3>2. PICK f \in [Profiles -> Nat] : f = Given(q)
      BY <1>1 DEF Given
    <3>3. f[p] = memory[p] /\ Given(q)' = [f EXCEPT ![p] = v]
      BY <1>1, <3>2 DEF Given
    <3>4. Adm!SumFunction([f EXCEPT ![p] = v]) <= Adm!SumFunction(f)
          /\ Adm!SumFunction(f) \in Nat /\ Adm!SumFunction([f EXCEPT ![p] = v]) \in Nat
      BY <1>3, <2>1, <3>3, Fewer, SumUpdate
    <3>5. Adm!Available(r) \in Nat /\ Adm!SumFunction(f) <= Adm!Available(r)
      BY <1>3, <3>1, <3>2
    <3>6. Adm!SumFunction([f EXCEPT ![p] = v]) <= Adm!Available(r)
      BY <3>4, <3>5
    <3> QED BY <3>3, <3>6
  <2>4. start[q].pc = "probe" => memory'[start[q].about] <= start[q].size
    <3> SUFFICES ASSUME start[q].pc = "probe" PROVE memory'[start[q].about] <= start[q].size
      OBVIOUS
    <3>1. start[q].about \in Profiles /\ memory[start[q].about] <= start[q].size
      BY <1>2 DEF Claims
    <3> QED BY <1>1, <2>1, <3>1
  <2> QED BY <1>2, <1>4, <2>1, <2>2, <2>3, <2>4 DEF Claims
<1>6. CASE start[q].pc \notin Locking
  BY <1>2, <1>4, <1>6 DEF Claims, Locking
<1> QED BY <1>5, <1>6

(* A step of p's start or VM.                                               *)
LEMMA AdmStep ==
    ASSUME Adm!AdmissionConstants, AdmInv, NEW p \in Profiles, Adm!TypeOK',
           \A q \in Profiles : q # p => start'[q] = start[q] /\ config'[q] = config[q],
           NEW v \in Nat, memory' = [memory EXCEPT ![p] = v], v <= memory[p] \/ lock = p,
           lock' = lock \/ lock \in {NoProfile, p},
           Claims(p)', v <= memory[p] \/ Adm!NoOvercommit'
    PROVE  AdmInv'
<1>1. ASSUME NEW q \in Profiles PROVE Claims(q)'
  <2>1. CASE q = p
    BY <2>1
  <2>2. CASE q # p
    BY <2>2, OthersClaim
  <2> QED BY <2>1, <2>2
<1>2. CASE v <= memory[p]
  <2>1. PICK f \in [Profiles -> Nat] : f = memory
    BY AdmFields
  <2>2. PICK r \in Reserves : Adm!SumFunction(f) <= Adm!Available(r)
    BY <2>1 DEF AdmInv, Adm!NoOvercommit
  <2>3. Adm!SumFunction([f EXCEPT ![p] = v]) <= Adm!SumFunction(f)
        /\ Adm!SumFunction(f) \in Nat /\ Adm!SumFunction([f EXCEPT ![p] = v]) \in Nat
    BY <1>2, <2>1, AdmConstants, Fewer, SumUpdate
  <2>4. Adm!SumFunction(memory') <= Adm!Available(r)
    BY <2>1, <2>2, <2>3, AdmConstants
  <2>5. Adm!NoOvercommit'
    BY <2>4 DEF Adm!NoOvercommit
  <2> QED BY <1>1, <2>5 DEF AdmInv
<1> QED BY <1>1, <1>2 DEF AdmInv

(* A start that measures nothing and has not been admitted.                 *)
LEMMA EndClaims ==
    ASSUME NEW p \in Profiles, start'[p].pc \in {"idle", "failed", "boot"},
           memory'[p] \in Nat, memory'[p] > 0 => memory'[p] = config'[p]
    PROVE  Claims(p)'
BY DEF Claims, Locking

(* Every action of p, by what it leaves of p's own record and VM.           *)
LEMMA AdmTypes ==
    ASSUME Adm!AdmissionConstants, AdmInv, NEW p \in Profiles
    PROVE  /\ IsFiniteSet(Profiles) /\ NoProfile \notin Profiles
           /\ memory \in [Profiles -> Nat] /\ start[p] \in Adm!Starts
           /\ start[p].sum \in Nat /\ start[p].ask \in Sizes \cup {0} /\ start[p].ask \in Nat
           /\ start[p].size \in Nat /\ start[p].todo \subseteq Profiles
           /\ start \in [Profiles -> Adm!Starts] /\ config \in [Profiles -> Sizes]
           /\ memory \in [Profiles -> Sizes \cup {0}]
           /\ Claims(p) /\ memory = [memory EXCEPT ![p] = memory[p]]
           /\ Adm!Idle \in Adm!Starts /\ Adm!Idle.pc = "idle" /\ lock \in Profiles \cup {NoProfile}
<1>1. Adm!Idle \in Adm!Starts /\ Adm!Idle.pc = "idle"
  BY DEF Adm!Idle, Adm!Starts, Adm!StartPcs
<1>2. /\ start \in [Profiles -> Adm!Starts] /\ config \in [Profiles -> Sizes] /\ Claims(p)
      /\ lock \in Profiles \cup {NoProfile}
  BY DEF AdmInv, Adm!TypeOK
<1>3. IsFiniteSet(Profiles) /\ NoProfile \notin Profiles
  BY AdmConstants
<1>4. memory = [memory EXCEPT ![p] = memory[p]]
  BY AdmFields
<1> QED BY <1>1, <1>2, <1>3, <1>4, AdmFields

(* A start ends, fails or boots its VM; settings change without a VM.       *)
LEMMA AdmEnds ==
    ASSUME Adm!AdmissionConstants, AdmInv, NEW p \in Profiles,
           NEW s \in Adm!Starts, s.pc \in {"idle", "failed", "boot"}, start' = [start EXCEPT ![p] = s],
           NEW v \in {0, memory[p]}, memory' = [memory EXCEPT ![p] = v],
           NEW m \in Sizes, config' = [config EXCEPT ![p] = m], v > 0 => m = config[p],
           lock' = lock \/ (lock = p /\ lock' = NoProfile)
    PROVE  AdmInv'
<1>1. /\ memory \in [Profiles -> Nat] /\ start \in [Profiles -> Adm!Starts]
      /\ config \in [Profiles -> Sizes] /\ memory \in [Profiles -> Sizes \cup {0}]
      /\ lock \in Profiles \cup {NoProfile} /\ Claims(p)
  BY AdmTypes
<1>2. v \in Nat /\ v <= memory[p] /\ v \in Sizes \cup {0}
  BY <1>1
<1>3. Adm!TypeOK'
  BY <1>1, <1>2 DEF Adm!TypeOK
<1>4. start'[p] = s /\ memory'[p] = v /\ config'[p] = m
  BY <1>1
<1>5. v > 0 => v = m
  BY <1>1, <1>2 DEF Claims
<1>6. Claims(p)'
  BY <1>2, <1>4, <1>5, EndClaims
<1>7. \A q \in Profiles : q # p => start'[q] = start[q] /\ config'[q] = config[q]
  BY <1>1
<1> QED BY <1>2, <1>3, <1>6, <1>7, AdmStep

(* A start goes on: of the VMs none changes.                                *)
LEMMA AdmGoes ==
    ASSUME Adm!AdmissionConstants, AdmInv, NEW p \in Profiles,
           NEW s \in Adm!Starts, start' = [start EXCEPT ![p] = s], UNCHANGED <<config, memory>>,
           lock' = lock \/ (lock = NoProfile /\ lock' = p), Claims(p)'
    PROVE  AdmInv'
<1>1. /\ memory \in [Profiles -> Nat] /\ start \in [Profiles -> Adm!Starts]
      /\ memory = [memory EXCEPT ![p] = memory[p]] /\ lock \in Profiles \cup {NoProfile}
  BY AdmTypes
<1>2. Adm!TypeOK'
  BY <1>1 DEF AdmInv, Adm!TypeOK
<1>3. memory[p] \in Nat /\ memory[p] <= memory[p] /\ memory' = [memory EXCEPT ![p] = memory[p]]
  BY <1>1
<1>4. \A q \in Profiles : q # p => start'[q] = start[q] /\ config'[q] = config[q]
  BY <1>1
<1> QED BY <1>2, <1>3, <1>4, AdmStep

(* A start begins: it has counted nothing and waits for the flock.        *)
LEMMA BeginAdmits ==
    ASSUME Adm!AdmissionConstants, AdmInv, NEW p \in Profiles, NEW m \in Sizes, NEW r \in Reserves,
           Adm!Begin(p, m, r)
    PROVE  AdmInv'
<1> DEFINE s == [Adm!Idle EXCEPT !.pc = "lock", !.ask = m, !.reserve = r]
<1>1. start' = [start EXCEPT ![p] = s] /\ UNCHANGED <<config, memory, lock>>
  BY DEF Adm!Begin
<1>2. s \in Adm!Starts /\ s.pc = "lock" /\ s.ask = m /\ s.reserve = r /\ s.about = NoProfile
  BY DEF Adm!Idle, Adm!Starts, Adm!StartPcs
<1> HIDE DEF s
<1>3. start \in [Profiles -> Adm!Starts] /\ Claims(p)
  BY AdmTypes
<1>4. start'[p] = s
  BY <1>1, <1>3
<1>5. Claims(p)'
  BY <1>1, <1>2, <1>3, <1>4 DEF Claims, Locking
<1> QED BY <1>1, <1>2, <1>5, AdmGoes

(* A start takes the flock, with every other profile still to be counted. *)
LEMMA AcquireAdmits ==
    ASSUME Adm!AdmissionConstants, AdmInv, NEW p \in Profiles, Adm!Acquire(p)
    PROVE  AdmInv'
<1>1. /\ start[p].pc = "lock" /\ lock = NoProfile /\ lock' = p /\ UNCHANGED <<config, memory>>
      /\ start' = [start EXCEPT ![p].pc = "measure", ![p].todo = Profiles \ {p}]
  BY DEF Adm!Acquire, Adm!At
<1>2. /\ start[p] \in Adm!Starts /\ start \in [Profiles -> Adm!Starts] /\ Claims(p)
      /\ IsFiniteSet(Profiles) /\ start[p].sum \in Nat
  BY AdmTypes
<1> DEFINE s == [start[p] EXCEPT !.pc = "measure", !.todo = Profiles \ {p}]
<1>3. start' = [start EXCEPT ![p] = s]
  BY <1>1, <1>2
<1>4. /\ s \in Adm!Starts /\ s.pc = "measure" /\ s.todo = Profiles \ {p}
      /\ s.reserve = start[p].reserve /\ s.about = start[p].about /\ s.sum = start[p].sum
      /\ s.ask = start[p].ask
  BY <1>2 DEF Adm!Starts, Adm!StartPcs
<1> HIDE DEF s
<1>5. start'[p] = s
  BY <1>2, <1>3
<1>6. Counted(p)' = [x \in Profiles |-> 0]
  BY <1>4, <1>5 DEF Counted
<1>7. Adm!SumFunction(Counted(p)') <= s.sum
  BY <1>2, <1>4, <1>6, SumOfNothing
<1>8. Claims(p)'
  BY <1>1, <1>2, <1>4, <1>5, <1>7 DEF Claims, Locking
<1> QED BY <1>1, <1>3, <1>4, <1>8, AdmGoes

(* The settings of q are read; they are what q's VM has, if there is one. *)
LEMMA ReadAdmits ==
    ASSUME Adm!AdmissionConstants, AdmInv, NEW p \in Profiles, NEW q \in start[p].todo,
           start[p].pc = "measure", UNCHANGED <<config, memory, lock>>,
           start' = [start EXCEPT ![p].pc = "probe", ![p].about = q, ![p].size = config[q],
                                  ![p].todo = start[p].todo \ {q}]
    PROVE  AdmInv'
<1>1. /\ start[p] \in Adm!Starts /\ start \in [Profiles -> Adm!Starts] /\ Claims(p)
      /\ start[p].sum \in Nat /\ start[p].todo \subseteq Profiles /\ NoProfile \notin Profiles
      /\ config \in [Profiles -> Sizes]
  BY AdmTypes
<1>2. q \in Profiles /\ config[q] \in Sizes
  BY <1>1
<1>3. memory \in [Profiles -> Nat] /\ Claims(q)
  BY <1>2, AdmTypes
<1> DEFINE s == [start[p] EXCEPT !.pc = "probe", !.about = q, !.size = config[q],
                                 !.todo = start[p].todo \ {q}]
<1>4. start' = [start EXCEPT ![p] = s]
  BY <1>1
<1>5. /\ s \in Adm!Starts /\ s.pc = "probe" /\ s.todo = start[p].todo \ {q} /\ s.about = q
      /\ s.size = config[q] /\ s.reserve = start[p].reserve /\ s.sum = start[p].sum
      /\ s.ask = start[p].ask
  BY <1>1, <1>2 DEF Adm!Starts, Adm!StartPcs
<1> HIDE DEF s
<1>6. start'[p] = s
  BY <1>1, <1>4
<1>7. p \notin start[p].todo /\ start[p].about = NoProfile
  BY <1>1 DEF Claims
<1>8. Counted(p)' = Counted(p)
  BY <1>1, <1>2, <1>5, <1>6, <1>7 DEF Counted
<1>9. Adm!SumFunction(Counted(p)') <= s.sum
  BY <1>1, <1>5, <1>8 DEF Claims
<1>10. memory[q] <= config[q]
  <2>1. config[q] \in Nat /\ memory[q] \in Nat
    BY <1>2, <1>3, AdmConstants
  <2> QED BY <1>3, <2>1 DEF Claims
<1>11. Claims(p)'
  <2>1. lock = p /\ s.reserve \in Reserves /\ s.ask \in Sizes /\ p \notin s.todo /\ q \notin s.todo /\ q # p
    BY <1>1, <1>5, <1>7 DEF Claims, Locking
  <2>2. memory[p] > 0 => memory[p] = config[p]
    BY <1>1 DEF Claims
  <2> QED BY <1>2, <1>5, <1>6, <1>9, <1>10, <2>1, <2>2 DEF Claims, Locking
<1> QED BY <1>4, <1>5, <1>11, AdmGoes

(* q is probed: what is counted for it covers its VM.                     *)
LEMMA ProbeAdmits ==
    ASSUME Adm!AdmissionConstants, AdmInv, NEW p \in Profiles, Adm!MeasureProbe(p)
    PROVE  AdmInv'
<1>1. start[p].pc = "probe" /\ UNCHANGED <<config, memory, lock>>
  BY DEF Adm!MeasureProbe, Adm!At
<1>2. PICK answer \in Adm!ProbeAnswers(start[p].about) :
        start' = [start EXCEPT ![p].pc = "measure", ![p].about = NoProfile, ![p].size = 0,
                     ![p].sum = IF answer = "stale" THEN @ ELSE @ + start[p].size]
  BY DEF Adm!MeasureProbe
<1>3. /\ start[p] \in Adm!Starts /\ start \in [Profiles -> Adm!Starts] /\ Claims(p)
      /\ start[p].sum \in Nat /\ start[p].size \in Nat /\ NoProfile \notin Profiles
      /\ memory \in [Profiles -> Nat] /\ IsFiniteSet(Profiles)
  BY AdmTypes
<1>4. PICK n \in Nat : n = IF answer = "stale" THEN start[p].sum ELSE start[p].sum + start[p].size
  BY <1>3
<1> DEFINE s == [start[p] EXCEPT !.pc = "measure", !.about = NoProfile, !.size = 0, !.sum = n]
<1>5. start' = [start EXCEPT ![p] = s]
  BY <1>2, <1>3, <1>4
<1>6. /\ s \in Adm!Starts /\ s.pc = "measure" /\ s.todo = start[p].todo /\ s.about = NoProfile
      /\ s.reserve = start[p].reserve /\ s.sum = n /\ s.ask = start[p].ask
  BY <1>3 DEF Adm!Starts, Adm!StartPcs
<1> HIDE DEF s
<1>7. start'[p] = s
  BY <1>3, <1>5
<1>8. PICK q \in Profiles : q = start[p].about /\ q \notin start[p].todo \cup {p}
                            /\ memory[q] <= start[p].size
  BY <1>1, <1>3 DEF Claims
<1>9. PICK c \in Nat : c = memory[q] /\ c <= start[p].size /\ (answer = "stale" => c = 0)
  BY <1>2, <1>3, <1>8 DEF Adm!ProbeAnswers
<1>10. PICK f \in [Profiles -> Nat] : f = Counted(p)
  BY <1>3 DEF Counted
<1>11. f[q] = 0
  BY <1>8, <1>10 DEF Counted
<1>12. Counted(p)' = [f EXCEPT ![q] = c]
  BY <1>1, <1>3, <1>6, <1>7, <1>8, <1>9, <1>10 DEF Counted
<1>13. /\ Adm!SumFunction(f) \in Nat /\ Adm!SumFunction([f EXCEPT ![q] = c]) \in Nat
       /\ Adm!SumFunction([f EXCEPT ![q] = c]) + f[q] = Adm!SumFunction(f) + c
  <2>1. IsFiniteSet(Profiles)
    BY <1>3
  <2>2. \A x \in Profiles : \A w \in Nat :
           /\ Adm!SumFunction(f) \in Nat /\ Adm!SumFunction([f EXCEPT ![x] = w]) \in Nat
           /\ Adm!SumFunction([f EXCEPT ![x] = w]) + f[x] = Adm!SumFunction(f) + w
    BY <2>1, SumUpdates, Zenon
  <2> QED BY <2>2, Zenon
<1>14. Adm!SumFunction(f) <= start[p].sum
  BY <1>1, <1>3, <1>10 DEF Claims
<1>15. Adm!SumFunction(Counted(p)') <= n
  <2>1. Adm!SumFunction([f EXCEPT ![q] = c]) <= n
    BY <1>3, <1>4, <1>9, <1>11, <1>13, <1>14
  <2> QED BY <1>12, <2>1
<1>16. Claims(p)'
  <2>1. lock = p /\ s.reserve \in Reserves /\ s.ask \in Sizes /\ p \notin s.todo
    BY <1>1, <1>3, <1>6 DEF Claims, Locking
  <2>2. memory[p] > 0 => memory[p] = config[p]
    BY <1>3 DEF Claims
  <2> QED BY <1>1, <1>6, <1>7, <1>15, <2>1, <2>2 DEF Claims, Locking
<1> QED BY <1>1, <1>5, <1>6, <1>16, AdmGoes

(* What a start was admitted for fits together with all VMs there are.      *)
LEMMA DecideAdmits ==
    ASSUME Adm!AdmissionConstants, AdmInv, NEW p \in Profiles, start[p].pc = "measure",
           start[p].todo = {}, start[p].sum + start[p].ask =< Adm!Available(start[p].reserve),
           Adm!Admitted(p), UNCHANGED <<config, memory, lock>>
    PROVE  AdmInv'
<1>1. /\ start[p] \in Adm!Starts /\ start \in [Profiles -> Adm!Starts] /\ Claims(p)
      /\ start[p].sum \in Nat /\ start[p].ask \in Nat /\ start[p].ask \in Sizes \cup {0}
      /\ NoProfile \notin Profiles /\ memory \in [Profiles -> Nat] /\ IsFiniteSet(Profiles)
  BY AdmTypes
<1> DEFINE s == [Adm!Idle EXCEPT !.pc = "clear", !.ask = start[p].ask]
<1>2. start' = [start EXCEPT ![p] = s]
  BY DEF Adm!Admitted
<1>3. s \in Adm!Starts /\ s.pc = "clear" /\ s.ask = start[p].ask
  BY <1>1 DEF Adm!Idle, Adm!Starts, Adm!StartPcs
<1> HIDE DEF s
<1>4. start'[p] = s
  BY <1>1, <1>2
<1>5. PICK r \in Reserves : r = start[p].reserve
  BY <1>1 DEF Claims
<1>6. Adm!Available(r) \in Nat
  BY AdmConstants
<1>7. PICK a \in Nat : a = start[p].ask
  BY <1>1
<1>8. PICK f \in [Profiles -> Nat] : f = Counted(p)
  BY <1>1 DEF Counted
<1>9. f[p] = 0 /\ start[p].about = NoProfile
  BY <1>1, <1>8 DEF Counted, Claims
<1>10. Given(p)' = [f EXCEPT ![p] = a]
  BY <1>1, <1>3, <1>4, <1>7, <1>8, <1>9 DEF Counted, Given
<1>11. /\ Adm!SumFunction(f) \in Nat /\ Adm!SumFunction([f EXCEPT ![p] = a]) \in Nat
       /\ Adm!SumFunction([f EXCEPT ![p] = a]) + f[p] = Adm!SumFunction(f) + a
  <2>1. IsFiniteSet(Profiles)
    BY <1>1
  <2>2. \A x \in Profiles : \A w \in Nat :
           /\ Adm!SumFunction(f) \in Nat /\ Adm!SumFunction([f EXCEPT ![x] = w]) \in Nat
           /\ Adm!SumFunction([f EXCEPT ![x] = w]) + f[x] = Adm!SumFunction(f) + w
    BY <2>1, SumUpdates, Zenon
  <2> QED BY <2>2, Zenon
<1>12. Adm!SumFunction(f) <= start[p].sum /\ start[p].sum + a <= Adm!Available(r)
  BY <1>1, <1>5, <1>7, <1>8 DEF Claims
<1>13. Adm!SumFunction([f EXCEPT ![p] = a]) <= Adm!Available(r)
  BY <1>1, <1>6, <1>9, <1>11, <1>12
<1>14. \E b \in Reserves : Adm!SumFunction(Given(p)') <= Adm!Available(b)
  BY <1>10, <1>13
<1>15. Claims(p)'
  <2>1. lock = p /\ s.ask \in Sizes /\ (memory[p] > 0 => memory[p] = config[p])
    BY <1>1, <1>3 DEF Claims, Locking
  <2> QED BY <1>3, <1>4, <1>14, <2>1 DEF Claims, Locking
<1> QED BY <1>2, <1>3, <1>15, AdmGoes

(* The VM of p ends: what p counts is about the others.                     *)
LEMMA VmGoneAdmits ==
    ASSUME Adm!AdmissionConstants, AdmInv, NEW p \in Profiles,
           memory' = [memory EXCEPT ![p] = 0], UNCHANGED <<config, lock>>,
           \/ start' = start
           \/ start[p].pc = "clear" /\ start' = [start EXCEPT ![p].pc = "save"]
    PROVE  AdmInv'
<1>1. /\ start[p] \in Adm!Starts /\ start \in [Profiles -> Adm!Starts] /\ Claims(p)
      /\ config \in [Profiles -> Sizes] /\ NoProfile \notin Profiles
      /\ memory \in [Profiles -> Nat] /\ memory \in [Profiles -> Sizes \cup {0}]
      /\ lock \in Profiles \cup {NoProfile} /\ start[p].ask \in Nat
  BY AdmTypes
<1> DEFINE s == [start[p] EXCEPT !.pc = IF start' = start THEN start[p].pc ELSE "save"]
<1>2. start' = [start EXCEPT ![p] = s]
  BY <1>1 DEF Adm!Starts
<1>3. /\ s \in Adm!Starts /\ s.todo = start[p].todo /\ s.about = start[p].about
      /\ s.reserve = start[p].reserve /\ s.sum = start[p].sum /\ s.size = start[p].size
      /\ s.ask = start[p].ask /\ (s.pc = start[p].pc \/ (start[p].pc = "clear" /\ s.pc = "save"))
  BY <1>1 DEF Adm!Starts, Adm!StartPcs
<1> HIDE DEF s
<1>4. start'[p] = s /\ memory'[p] = 0 /\ \A q \in Profiles : q # p => start'[q] = start[q]
  BY <1>1, <1>2
<1>5. Adm!TypeOK'
  <2>1. start' \in [Profiles -> Adm!Starts]
    BY <1>1, <1>2, <1>3
  <2>2. memory' \in [Profiles -> Sizes \cup {0}]
    BY <1>1
  <2> QED BY <1>1, <2>1, <2>2 DEF Adm!TypeOK
<1>6. Counted(p)' = Counted(p)
  BY <1>1, <1>3, <1>4 DEF Counted
<1>7. Given(p)' = Given(p)
  BY <1>1, <1>3, <1>4 DEF Given
<1>8. Claims(p)'
  <2>1. s.pc = "probe" => memory'[s.about] = memory[s.about]
    BY <1>1, <1>3 DEF Claims
  <2>2. s.pc \in {"measure", "probe"} => Adm!SumFunction(Counted(p)') <= s.sum
    BY <1>1, <1>3, <1>6 DEF Claims
  <2>3. s.pc \in {"clear", "save", "spawn"} =>
           \E r \in Reserves : Adm!SumFunction(Given(p)') <= Adm!Available(r)
    BY <1>1, <1>3, <1>7 DEF Claims
  <2>4. /\ s.pc \in Locking => lock = p
        /\ s.pc \in {"lock", "measure", "probe"} => s.reserve \in Reserves
        /\ s.pc \in {"lock", "measure", "probe", "clear", "save", "spawn"} => s.ask \in Sizes
        /\ s.pc \in {"lock", "measure"} => s.about = NoProfile
        /\ s.pc \in {"measure", "probe"} => p \notin s.todo
        /\ s.pc = "probe" => /\ s.about \in Profiles \ (s.todo \cup {p})
                             /\ memory[s.about] <= s.size
        /\ s.pc = "spawn" => config[p] = s.ask
    BY <1>1, <1>3 DEF Claims, Locking
  <2> QED BY <1>4, <2>1, <2>2, <2>3, <2>4 DEF Claims
<1>9. 0 <= memory[p]
  BY <1>1
<1> QED BY <1>4, <1>5, <1>8, <1>9, AdmStep

(* The settings the VM will run with are saved.                           *)
LEMMA SaveAdmits ==
    ASSUME Adm!AdmissionConstants, AdmInv, NEW p \in Profiles, start[p].pc = "save",
           config' = [config EXCEPT ![p] = start[p].ask], start' = [start EXCEPT ![p].pc = "spawn"],
           UNCHANGED <<memory, lock>>
    PROVE  AdmInv'
<1>1. /\ start[p] \in Adm!Starts /\ start \in [Profiles -> Adm!Starts] /\ Claims(p)
      /\ config \in [Profiles -> Sizes] /\ memory \in [Profiles -> Nat]
      /\ memory \in [Profiles -> Sizes \cup {0}] /\ memory = [memory EXCEPT ![p] = memory[p]]
      /\ lock \in Profiles \cup {NoProfile}
  BY AdmTypes
<1>0. start[p].ask \in Sizes
  BY <1>1 DEF Claims
<1> DEFINE s == [start[p] EXCEPT !.pc = "spawn"]
<1>2. start' = [start EXCEPT ![p] = s]
  BY <1>1
<1>3. s \in Adm!Starts /\ s.pc = "spawn" /\ s.ask = start[p].ask
  BY <1>1 DEF Adm!Starts, Adm!StartPcs
<1> HIDE DEF s
<1>4. start'[p] = s /\ config'[p] = s.ask
      /\ \A q \in Profiles : q # p => start'[q] = start[q] /\ config'[q] = config[q]
  BY <1>1, <1>2, <1>3
<1>5. Adm!TypeOK'
  <2>1. start' \in [Profiles -> Adm!Starts]
    BY <1>1, <1>2, <1>3
  <2>2. config' \in [Profiles -> Sizes]
    BY <1>0, <1>1
  <2> QED BY <1>1, <2>1, <2>2 DEF Adm!TypeOK
<1>6. Given(p)' = Given(p)
  BY <1>3, <1>4 DEF Given
<1>7. Claims(p)'
  <2>1. \E r \in Reserves : Adm!SumFunction(Given(p)') <= Adm!Available(r)
    BY <1>1, <1>6 DEF Claims
  <2>2. lock = p /\ memory[p] = 0
    BY <1>1 DEF Claims, Locking
  <2> QED BY <1>0, <1>3, <1>4, <2>1, <2>2 DEF Claims, Locking
<1>8. memory[p] \in Nat /\ memory[p] <= memory[p] /\ memory' = [memory EXCEPT ![p] = memory[p]]
  BY <1>1
<1> QED BY <1>4, <1>5, <1>7, <1>8, AdmStep

(* The VM a start was admitted for is there.                                *)
LEMMA SpawnAdmits ==
    ASSUME Adm!AdmissionConstants, AdmInv, NEW p \in Profiles, start[p].pc = "spawn",
           memory' = [memory EXCEPT ![p] = start[p].ask],
           start' = [start EXCEPT ![p].pc = "spawned"], UNCHANGED <<config, lock>>
    PROVE  AdmInv'
<1>1. /\ start[p] \in Adm!Starts /\ start \in [Profiles -> Adm!Starts] /\ Claims(p)
      /\ config \in [Profiles -> Sizes] /\ memory \in [Profiles -> Nat]
      /\ memory \in [Profiles -> Sizes \cup {0}] /\ lock \in Profiles \cup {NoProfile}
      /\ start[p].ask \in Sizes \cup {0} /\ start[p].ask \in Nat
  BY AdmTypes
<1> DEFINE s == [start[p] EXCEPT !.pc = "spawned"]
<1>2. start' = [start EXCEPT ![p] = s]
  BY <1>1
<1>3. s \in Adm!Starts /\ s.pc = "spawned"
  BY <1>1 DEF Adm!Starts, Adm!StartPcs
<1> HIDE DEF s
<1>4. start'[p] = s /\ memory'[p] = start[p].ask
      /\ \A q \in Profiles : q # p => start'[q] = start[q]
  BY <1>1, <1>2, <1>3
<1>5. Adm!TypeOK'
  <2>1. start' \in [Profiles -> Adm!Starts]
    BY <1>1, <1>2, <1>3
  <2>2. memory' \in [Profiles -> Sizes \cup {0}]
    BY <1>1
  <2> QED BY <1>1, <2>1, <2>2 DEF Adm!TypeOK
<1>6. lock = p /\ config[p] = start[p].ask
  BY <1>1 DEF Claims, Locking
<1>7. Claims(p)'
  BY <1>3, <1>4, <1>6 DEF Claims, Locking
<1>8. Adm!NoOvercommit'
  <2>1. memory' = Given(p)
    BY DEF Given
  <2>2. \E r \in Reserves : Adm!SumFunction(memory') <= Adm!Available(r)
    BY <1>1, <2>1 DEF Claims
  <2> QED BY <2>2 DEF Adm!NoOvercommit
<1> QED BY <1>1, <1>4, <1>5, <1>6, <1>7, <1>8, AdmStep

(* What a start does by itself.                                           *)
LEMMA WorksAdmit ==
    ASSUME Adm!AdmissionConstants, AdmInv, NEW p \in Profiles, Adm!Works(p)
    PROVE  AdmInv'
<1>1. /\ start[p] \in Adm!Starts /\ start \in [Profiles -> Adm!Starts] /\ Claims(p)
      /\ config \in [Profiles -> Sizes] /\ memory \in [Profiles -> Nat]
      /\ memory = [memory EXCEPT ![p] = memory[p]] /\ Adm!Idle \in Adm!Starts
      /\ Adm!Idle.pc = "idle"
  BY AdmTypes
<1>2. config = [config EXCEPT ![p] = config[p]] /\ config[p] \in Sizes
  BY <1>1
<1>3. ASSUME NEW s \in Adm!Starts, s.pc \in {"idle", "failed", "boot"}, start' = [start EXCEPT ![p] = s],
             UNCHANGED <<config, memory>>, lock' = lock \/ Adm!Release(p)
      PROVE  AdmInv'
  BY <1>1, <1>2, <1>3, AdmEnds DEF Adm!Release, Adm!Held
<1>4. ASSUME Adm!End(p), UNCHANGED <<config, memory>>, lock' = lock \/ Adm!Release(p) PROVE AdmInv'
  BY <1>1, <1>3, <1>4 DEF Adm!End
<1>5. ASSUME NEW a \in {"failed", "boot"}, Adm!Goto(p, a), UNCHANGED <<config, memory>>,
             lock' = lock \/ Adm!Release(p)
      PROVE  AdmInv'
  <2>1. PICK s : s = [start[p] EXCEPT !.pc = a]
    OBVIOUS
  <2>2. s \in Adm!Starts /\ s.pc = a /\ start' = [start EXCEPT ![p] = s]
    BY <1>1, <1>5, <2>1 DEF Adm!Goto, Adm!Starts, Adm!StartPcs
  <2> QED BY <1>3, <1>5, <2>2
<1>6. CASE \E q \in Profiles : Adm!MeasureRead(p, q)
  BY <1>4, <1>6, ReadAdmits DEF Adm!MeasureRead, Adm!At
<1>7. CASE Adm!MeasureProbe(p)
  BY <1>7, ProbeAdmits
<1>8. CASE Adm!Decide(p)
  BY <1>4, <1>8, DecideAdmits DEF Adm!Decide, Adm!At
<1>9. CASE Adm!ClearOld(p)
  BY <1>4, <1>9, VmGoneAdmits DEF Adm!ClearOld, Adm!At, Adm!Goto
<1>10. CASE Adm!SaveConfig(p)
  <2>1. CASE config' = [config EXCEPT ![p] = start[p].ask] /\ Adm!Goto(p, "spawn") /\ UNCHANGED <<lock, memory>>
    BY <1>10, <2>1, SaveAdmits DEF Adm!SaveConfig, Adm!At, Adm!Goto
  <2>2. CASE /\ config' \in {config, [config EXCEPT ![p] = start[p].ask]}
             /\ Adm!End(p) /\ Adm!Release(p) /\ UNCHANGED memory
    <3>1. memory[p] = 0 /\ start[p].ask \in Sizes
      BY <1>1, <1>10 DEF Claims, Adm!SaveConfig, Adm!At
    <3>2. PICK m \in Sizes : config' = [config EXCEPT ![p] = m]
      BY <1>2, <2>2, <3>1
    <3>3. start' = [start EXCEPT ![p] = Adm!Idle] /\ (lock' = lock \/ (lock = p /\ lock' = NoProfile))
      BY <2>2 DEF Adm!End, Adm!Release, Adm!Held
    <3>4. memory' = [memory EXCEPT ![p] = 0]
      BY <1>1, <2>2, <3>1
    <3>5. PICK v \in {0, memory[p]} : v = 0
      OBVIOUS
    <3>6. memory' = [memory EXCEPT ![p] = v] /\ (v > 0 => m = config[p])
      BY <3>4, <3>5
    <3> QED BY <1>1, <3>2, <3>3, <3>6, AdmEnds
  <2> QED BY <1>10, <2>1, <2>2 DEF Adm!SaveConfig
<1>11. CASE Adm!Spawn(p)
  <2>1. CASE Adm!Goto(p, "failed") /\ UNCHANGED memory
    BY <1>5, <1>11, <2>1 DEF Adm!Spawn
  <2>2. CASE memory' = [memory EXCEPT ![p] = start[p].ask] /\ Adm!Goto(p, "spawned")
    BY <1>11, <2>2, SpawnAdmits DEF Adm!Spawn, Adm!At, Adm!Goto
  <2> QED BY <1>11, <2>1, <2>2 DEF Adm!Spawn
<1>12. CASE Adm!BecomesVisible(p)
  BY <1>5, <1>12 DEF Adm!BecomesVisible
<1>13. CASE Adm!RollBack(p)
  <2>1. CASE Adm!Held(p)
    <3>1. start[p].pc = "failed" /\ start' = start /\ Adm!Release(p) /\ UNCHANGED <<config, memory>>
      BY <1>13, <2>1 DEF Adm!RollBack, Adm!At
    <3>2. start' = [start EXCEPT ![p] = start[p]]
      BY <1>1, <3>1
    <3> QED BY <1>1, <1>3, <3>1, <3>2
  <2>2. CASE ~Adm!Held(p)
    <3>1. start' = [start EXCEPT ![p] = Adm!Idle] /\ UNCHANGED <<config, lock>>
          /\ memory' \in {memory, [memory EXCEPT ![p] = 0]}
      BY <1>13, <2>2 DEF Adm!RollBack, Adm!End
    <3>2. PICK v \in {0, memory[p]} : memory' = [memory EXCEPT ![p] = v]
      BY <1>1, <3>1
    <3>3. config' = [config EXCEPT ![p] = config[p]]
      BY <1>2, <3>1
    <3> QED BY <1>1, <1>2, <3>1, <3>2, <3>3, AdmEnds
  <2> QED BY <2>1, <2>2
<1>14. CASE Adm!Booted(p)
  BY <1>4, <1>5, <1>14 DEF Adm!Booted
<1> QED BY <1>6, <1>7, <1>8, <1>9, <1>10, <1>11, <1>12, <1>13, <1>14 DEF Adm!Works

(* The invariant is inductive.                                            *)
LEMMA AdmNext ==
    ASSUME Adm!AdmissionConstants, AdmInv, [Adm!Next]_(Adm!vars)
    PROVE  AdmInv'
<1>1. ASSUME NEW p \in Profiles, NEW m \in Sizes, Adm!Configure(p, m) PROVE AdmInv'
  <2>1. /\ start[p] \in Adm!Starts /\ start \in [Profiles -> Adm!Starts]
        /\ memory \in [Profiles -> Nat] /\ memory = [memory EXCEPT ![p] = memory[p]]
    BY AdmTypes
  <2>2. /\ start[p].pc = "idle" /\ memory[p] = 0 /\ config' = [config EXCEPT ![p] = m]
        /\ UNCHANGED <<memory, start, lock>>
    BY <1>1 DEF Adm!Configure, Adm!At
  <2>3. start' = [start EXCEPT ![p] = start[p]] /\ memory' = [memory EXCEPT ![p] = 0]
    BY <2>1, <2>2
  <2>4. PICK v \in {0, memory[p]} : v = 0
    OBVIOUS
  <2>5. memory' = [memory EXCEPT ![p] = v] /\ (v > 0 => m = config[p])
    BY <2>3, <2>4
  <2> QED BY <2>1, <2>2, <2>3, <2>5, AdmEnds
<1>2. ASSUME NEW p \in Profiles, Adm!Cancel(p) \/ Adm!HostDies(p) PROVE AdmInv'
  <2>1. /\ Adm!Idle \in Adm!Starts /\ Adm!Idle.pc = "idle" /\ config \in [Profiles -> Sizes]
        /\ memory = [memory EXCEPT ![p] = memory[p]]
    BY AdmTypes
  <2>2. /\ start' = [start EXCEPT ![p] = Adm!Idle] /\ UNCHANGED <<config, memory>>
        /\ lock' = lock \/ (lock = p /\ lock' = NoProfile)
    BY <1>2 DEF Adm!Cancel, Adm!HostDies, Adm!End, Adm!Release, Adm!Held
  <2>3. memory' = [memory EXCEPT ![p] = memory[p]] /\ config' = [config EXCEPT ![p] = config[p]]
        /\ config[p] \in Sizes
    BY <2>1, <2>2
  <2> QED BY <2>1, <2>2, <2>3, AdmEnds
<1>3. ASSUME NEW p \in Profiles, Adm!VmEnds(p) PROVE AdmInv'
  BY <1>3, VmGoneAdmits DEF Adm!VmEnds
<1>4. CASE UNCHANGED Adm!vars
  <2>1. UNCHANGED <<config, memory, start, lock>>
    BY <1>4 DEF Adm!vars
  <2>2. Adm!TypeOK' /\ Adm!NoOvercommit'
    BY <2>1 DEF AdmInv, Adm!TypeOK, Adm!NoOvercommit
  <2>3. \A p \in Profiles : Claims(p)'
    BY <2>1 DEF AdmInv, Claims, Counted, Given
  <2> QED BY <2>2, <2>3 DEF AdmInv
<1> QED BY <1>1, <1>2, <1>3, <1>4, BeginAdmits, AcquireAdmits, WorksAdmit DEF Adm!Next

(* It holds while no profile has been started.                            *)
LEMMA AdmInit ==
    ASSUME Adm!AdmissionConstants, Adm!Init
    PROVE  AdmInv
<1>1. Adm!Idle \in Adm!Starts /\ Adm!Idle.pc = "idle"
  BY DEF Adm!Idle, Adm!Starts, Adm!StartPcs
<1>2. Adm!TypeOK
  BY <1>1, AdmConstants DEF Adm!Init, Adm!TypeOK
<1>3. \A p \in Profiles : Claims(p)
  BY <1>1 DEF Adm!Init, Claims, Locking
<1>4. Adm!NoOvercommit
  <2>1. Adm!SumFunction(memory) = 0
    BY AdmConstants, SumOfNothing DEF Adm!Init
  <2>2. PICK r \in Reserves : Adm!Available(r) \in Nat
    BY AdmConstants
  <2> QED BY <2>1, <2>2 DEF Adm!NoOvercommit
<1> QED BY <1>2, <1>3, <1>4 DEF AdmInv

(* Whatever starts, ends, dies and is reconfigured while others measure,    *)
(* the VMs of any number of profiles together fit into the host's memory    *)
(* less a reserve.                                                          *)
THEOREM NeverOvercommitted ==
    ASSUME Adm!AdmissionConstants PROVE Adm!Spec => []Adm!NoOvercommit
<1>1. Adm!Init => AdmInv
  BY AdmInit
<1>2. AdmInv /\ [Adm!Next]_(Adm!vars) => AdmInv'
  BY AdmNext
<1>3. AdmInv => Adm!NoOvercommit
  BY DEF AdmInv
<1> QED BY <1>1, <1>2, <1>3, PTL DEF Adm!Spec

(* What a measurement counts for a profile, its configured memory, is what  *)
(* its VM was started with.                                                 *)
THEOREM AlwaysCountsWhatRuns ==
    ASSUME Adm!AdmissionConstants PROVE Adm!Spec => []Adm!CountsWhatRuns
<1>1. Adm!Init => AdmInv
  BY AdmInit
<1>2. AdmInv /\ [Adm!Next]_(Adm!vars) => AdmInv'
  BY AdmNext
<1>3. AdmInv => Adm!CountsWhatRuns
  BY DEF AdmInv, Claims, Adm!CountsWhatRuns
<1> QED BY <1>1, <1>2, <1>3, PTL DEF Adm!Spec
============================================================================
