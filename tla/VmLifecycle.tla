---------------------------- MODULE VmLifecycle ----------------------------
(***************************************************************************)
(* The life of one profile's VM: the host operations start, stop and reset *)
(* (host/cmd/cmd_start.c, cmd_stop.c, cmd_reset.c), the process probe and  *)
(* the stop sequence they share (host/core/lifecycle.c), and the vmrun     *)
(* supervisor that owns the VM (host/cmd/cmd_vmrun.c).                     *)
(*                                                                         *)
(* A host operation holds the profile's lifecycle flock from its begin to  *)
(* its end, so at most one runs; the flock falls with its holder.  vmrun   *)
(* is a process of its own that outlives the operation that spawned it, so *)
(* the next operation must recognise it from what it left on disk: the     *)
(* spawn guard (a file locked through an inherited descriptor), the        *)
(* identity and pid files, and the control socket.  Probes made without    *)
(* the lifecycle flock (vm list, another profile's admission) are the      *)
(* Observers: ctl_identity_adopt makes even those write.                   *)
(*                                                                         *)
(* A member of Procs is a process identity (pid, start token, executable), *)
(* so a recycled pid is a different member.  A dead one that nothing names *)
(* any more stands for an identity not used yet.                           *)
(***************************************************************************)
EXTENDS FiniteSets

CONSTANTS Procs,      \* identities of vmrun processes
          Observers,  \* probes running without the lifecycle flock
          Host,       \* the prober that is the host operation itself
          None        \* no process

ASSUME NamesDistinct == /\ None \notin Procs
                        /\ Host \notin Observers

VARIABLES
    guard,     \* whose spawn guard the path vmrun.spawning names, or None
    identity,  \* the process vmrun.identity names, or None
    pidfile,   \* the process vmrun.pid names, or None
    sock,      \* the process that bound vmrun.sock, or None
    state,     \* the state field of state.json
    disk,      \* whether disk.img exists
    stage,     \* how far each vmrun is
    vm,        \* the vmruns whose virtual machine is started
    op,        \* the host operation under way
    probe      \* one vm_process_probe per prober

files == <<guard, identity, pidfile, sock>>
vars == <<guard, identity, pidfile, sock, state, disk, stage, vm, op, probe>>

Probers == {Host} \cup Observers
ProcOrNone == Procs \cup {None}

(* What a vmrun goes through (cmd_vmrun): each stage names the last step   *)
(* done.  Leaving stages are inside exit(), with the atexit handlers.      *)
Starting == {"spawned", "valid", "named", "numbered", "handed", "created",
             "bound"}
Active == Starting \cup {"serving"}
Leaving == {"leaving", "unlinking", "unnamed", "unbound", "closed"}
Alive(p) == p \in Procs /\ stage[p] # "dead"

(* What a host operation goes through.  "probe", "reprobe", "stopprobe",   *)
(* "awaitprobe" and "recheck" wait for the answer of the host's probe.     *)
StartPcs == {"wait", "probe", "running", "stopped", "reprobe", "prepare",
             "save", "guard", "spawn", "release", "capture", "ready",
             "abort", "abortwait", "await", "awaitprobe", "ip", "boot"}
StopPcs == {"stopprobe", "owned", "poweroff", "term", "termwait", "kill",
            "killwait"}
CleanPcs == {"revoke", "unlinkpid", "unlinkidentity", "unlinkguard",
             "unlinksock", "savestopped"}
ResetPcs == {"recheck", "remove"}
(* then: where the end of vm_stop or of a stale cleanup leads.             *)
Thens == {"end", "prepare", "recheck"}
OpPcs == {"idle"} \cup StartPcs \cup StopPcs \cup CleanPcs \cup ResetPcs
Ops == [pc : OpPcs, child : ProcOrNone, id : ProcOrNone, then : Thens]
NoOp == [pc |-> "idle", child |-> None, id |-> None, then |-> "end"]

ProbePcs == {"off", "guard", "ctl", "adopt", "persist", "persistpid",
             "files", "stale", "verified", "unverified"}
Probes == [pc : ProbePcs, who : ProcOrNone]
NoProbe == [pc |-> "off", who |-> None]
Stages == Active \cup Leaving \cup {"dead"}

TypeOK ==
    /\ {guard, identity, pidfile, sock} \subseteq ProcOrNone
    /\ state \in {"stopped", "starting", "running"}
    /\ disk \in BOOLEAN
    /\ stage \in [Procs -> Stages]
    /\ vm \subseteq Procs
    /\ op \in Ops
    /\ probe \in [Probers -> Probes]

(* A profile that was never started: no file, no process.                  *)
Init ==
    /\ guard = None /\ identity = None /\ pidfile = None /\ sock = None
    /\ state = "stopped"
    /\ disk = FALSE
    /\ stage = [p \in Procs |-> "dead"]
    /\ vm = {}
    /\ op = NoOp
    /\ probe = [a \in Probers |-> NoProbe]

(* The identities a spawn may give its child: used by no process and named *)
(* by no file and no prober.                                               *)
Named == {guard, identity, pidfile, sock, op.child, op.id}
             \cup {probe[a].who : a \in Probers}
Fresh == {p \in Procs : stage[p] = "dead"} \ Named

---------------------------------------------------------------------------
(* spawn_guard_probe: the flock on the guard is held while the operation   *)
(* that created it or the vmrun that inherited it has the descriptor open. *)
HostHoldsGuard == op.pc \in {"spawn", "release"}
GuardLocked == /\ guard # None
               /\ \/ HostHoldsGuard /\ op.child = guard
                  \/ stage[guard] \notin {"dead", "closed"}

(* ctl_status_read.  A served socket answers or is too slow, and nobody    *)
(* answers inside exit().  The query is unavailable when the path is       *)
(* absent, left by a dead process or not listening yet; and always, since  *)
(* a full backlog also refuses the connection.                             *)
CtlValid == sock # None /\ stage[sock] = "serving"
CtlUncertain == sock # None /\ stage[sock] \in {"serving"} \cup Leaving
CtlUnavailable == TRUE

(* pre_ctl_state_allows_identity                                           *)
PreCtlState == state \in {"starting", "stopped"}

Goto(pc) == op' = [op EXCEPT !.pc = pc]
EndOp == op' = NoOp
SetProbe(a, pc, who) == probe' = [probe EXCEPT ![a] =
                                      [pc |-> pc, who |-> who]]
(* The host operation uses its answer; an observer only reports it.        *)
Answer(a, result, who) ==
    IF a = Host THEN SetProbe(a, result, who)
                ELSE probe' = [probe EXCEPT ![a] = NoProbe]
(* The host operation goes to pc and starts vm_process_probe there.        *)
GotoProbe(pc) == Goto(pc) /\ SetProbe(Host, "guard", None)
(* The host operation uses the answer of its probe and forgets it.         *)
Forget == probe' = [probe EXCEPT ![Host] = NoProbe]
Answered(pc) == op.pc = pc /\ probe[Host].pc \in
                                 {"stale", "verified", "unverified"}
Says(result) == probe[Host].pc = result

---------------------------------------------------------------------------
(* vm_process_probe, one step per resource it looks at.                    *)

(* An observer starts a probe at any time, without the lifecycle flock.    *)
ObserverProbes(a) ==
    /\ a \in Observers
    /\ probe[a].pc = "off"
    /\ SetProbe(a, "guard", None)
    /\ UNCHANGED <<files, state, disk, stage, vm, op>>

(* Fault: the probe does not look at the spawn guard.                      *)
ProbeGuardIgnored(a) ==
    /\ probe[a].pc = "guard"
    /\ SetProbe(a, "ctl", None)
    /\ UNCHANGED <<files, state, disk, stage, vm, op>>

ProbeGuard(a) ==
    /\ probe[a].pc = "guard"
    /\ IF GuardLocked THEN Answer(a, "unverified", None)
                      ELSE SetProbe(a, "ctl", None)
    /\ UNCHANGED <<files, state, disk, stage, vm, op>>

ProbeCtl(a) ==
    /\ probe[a].pc = "ctl"
    /\ \/ CtlValid /\ SetProbe(a, "adopt", sock)
       \/ CtlUncertain /\ Answer(a, "unverified", None)
       \/ CtlUnavailable /\ SetProbe(a, "files", None)
    /\ UNCHANGED <<files, state, disk, stage, vm, op>>

(* ctl_identity_adopt: the process that answered must still exist; what    *)
(* the files do not say of it yet is written to them, the identity first.  *)
Adopt(a) ==
    /\ probe[a].pc = "adopt"
    /\ LET p == probe[a].who
       IN  CASE ~Alive(p) -> Answer(a, "unverified", None)
             [] Alive(p) /\ pidfile = p /\ identity = p ->
                    Answer(a, "verified", p)
             [] OTHER -> SetProbe(a, "persist", p)
    /\ UNCHANGED <<files, state, disk, stage, vm, op>>

AdoptIdentity(a) ==
    /\ probe[a].pc = "persist"
    /\ \/ /\ identity' = probe[a].who
          /\ SetProbe(a, "persistpid", probe[a].who)
       \/ /\ Answer(a, "unverified", None)    \* the write fails
          /\ UNCHANGED identity
    /\ UNCHANGED <<guard, pidfile, sock, state, disk, stage, vm, op>>

AdoptPid(a) ==
    /\ probe[a].pc = "persistpid"
    /\ \/ /\ pidfile' = probe[a].who
          /\ IF Alive(probe[a].who) THEN Answer(a, "verified", probe[a].who)
                                    ELSE Answer(a, "unverified", None)
       \/ /\ Answer(a, "unverified", None)
          /\ UNCHANGED pidfile
    /\ UNCHANGED <<guard, identity, sock, state, disk, stage, vm, op>>

(* No control socket: the identity file decides, then the pid file.  The   *)
(* pid of a dead process may be in use again by another hamn process,      *)
(* which makes the answer unverified.                                      *)
ProbeFiles(a) ==
    /\ probe[a].pc = "files"
    /\ CASE Alive(identity) ->
              IF PreCtlState /\ ~(pidfile # identity /\ Alive(pidfile))
              THEN Answer(a, "verified", identity)
              ELSE Answer(a, "unverified", None)
         [] ~Alive(identity) /\ Alive(pidfile) ->
              Answer(a, "unverified", None)
         [] OTHER ->
              \/ Answer(a, "stale", None)
              \/ /\ {identity, pidfile} # {None}
                 /\ Answer(a, "unverified", None)
    /\ UNCHANGED <<files, state, disk, stage, vm, op>>

ProbeStep(a) ==
    \/ ObserverProbes(a) \/ ProbeGuard(a) \/ ProbeCtl(a) \/ Adopt(a)
    \/ AdoptIdentity(a) \/ AdoptPid(a) \/ ProbeFiles(a)

---------------------------------------------------------------------------
(* vmrun                                                                   *)

At(p, s) == stage[p] = s
To(p, s) == stage' = [stage EXCEPT ![p] = s]

(* spawn_guard_validate: the path still names the inherited descriptor's   *)
(* inode; its flock is shared with the spawner and never refused.          *)
Validate(p) ==
    /\ At(p, "spawned") /\ guard = p
    /\ To(p, "valid")
    /\ UNCHANGED <<files, state, disk, vm, op, probe>>

(* identity_files_write: two atomic replacements.                          *)
WriteIdentity(p) ==
    /\ At(p, "valid")
    /\ identity' = p
    /\ To(p, "named")
    /\ UNCHANGED <<guard, pidfile, sock, state, disk, vm, op, probe>>

WritePid(p) ==
    /\ At(p, "named")
    /\ pidfile' = p
    /\ To(p, "numbered")
    /\ UNCHANGED <<guard, identity, sock, state, disk, vm, op, probe>>

(* Fault: the guard is given up before the identity is on disk.            *)
HandoffBeforeNames(p) ==
    /\ At(p, "valid") /\ guard = p
    /\ guard' = None
    /\ To(p, "handed")
    /\ UNCHANGED <<identity, pidfile, sock, state, disk, vm, op, probe>>

(* spawn_guard_complete: unlinked by path, then closed; once the path is   *)
(* gone nobody can tell whether the descriptor is still open.              *)
CompleteHandoff(p) ==
    /\ At(p, "numbered") /\ guard = p
    /\ guard' = None
    /\ To(p, "handed")
    /\ UNCHANGED <<identity, pidfile, sock, state, disk, vm, op, probe>>

(* vz_vm_create and vz_vm_start need the disk.                             *)
StartVm(p) ==
    /\ At(p, "handed") /\ disk
    /\ vm' = vm \cup {p}
    /\ To(p, "created")
    /\ UNCHANGED <<files, state, disk, op, probe>>

(* ctlsock_serve: bind refuses a path that exists.                         *)
BindCtl(p) ==
    /\ At(p, "created") /\ sock = None
    /\ sock' = p
    /\ To(p, "bound")
    /\ UNCHANGED <<guard, identity, pidfile, state, disk, vm, op, probe>>

ServeCtl(p) ==
    /\ At(p, "bound")
    /\ To(p, "serving")
    /\ UNCHANGED <<files, state, disk, vm, op, probe>>

(* die() before the control socket is bound: exit() with whatever the      *)
(* handlers find owned; before the validation nothing is.                  *)
Die(p) ==
    /\ stage[p] \in Starting \ {"bound"}
    /\ To(p, IF At(p, "spawned") THEN "closed" ELSE "leaving")
    /\ UNCHANGED <<files, state, disk, vm, op, probe>>

(* ctlsock_serve fails after its bind: it unlinks its own socket.          *)
DieBound(p) ==
    /\ At(p, "bound")
    /\ sock' = IF sock = p THEN None ELSE sock
    /\ To(p, "leaving")
    /\ UNCHANGED <<guard, identity, pidfile, state, disk, vm, op, probe>>

(* A served vmrun ends: the guest stopped by itself, a stop signal was     *)
(* served by the guest or by force, the guest panicked, the workspace went *)
(* away.  A force stop that fails exits all the same, with the VM on.      *)
StopServing(p) ==
    /\ At(p, "serving")
    /\ vm' \in {vm, vm \ {p}}
    /\ To(p, "leaving")
    /\ UNCHANGED <<files, state, disk, op, probe>>

(* cleanup_files, in its order: compare, unlink, socket, guard, close.     *)
CompareIdentity(p) ==
    /\ At(p, "leaving")
    /\ To(p, IF identity = p THEN "unlinking" ELSE "unnamed")
    /\ UNCHANGED <<files, state, disk, vm, op, probe>>

UnlinkIdentity(p) ==
    /\ At(p, "unlinking")
    /\ pidfile' = IF pidfile = p THEN None ELSE pidfile
    /\ identity' = None
    /\ To(p, "unnamed")
    /\ UNCHANGED <<guard, sock, state, disk, vm, op, probe>>

UnlinkSock(p) ==
    /\ At(p, "unnamed")
    /\ sock' = IF sock = p THEN None ELSE sock
    /\ To(p, "unbound")
    /\ UNCHANGED <<guard, identity, pidfile, state, disk, vm, op, probe>>

UnlinkGuard(p) ==
    /\ At(p, "unbound")
    /\ guard' = IF guard = p THEN None ELSE guard
    /\ To(p, "closed")
    /\ UNCHANGED <<identity, pidfile, sock, state, disk, vm, op, probe>>

(* The process ends, at the end of exit() or killed anywhere: its VM goes  *)
(* with it and its files stay as they are.                                 *)
Gone(p) ==
    /\ Alive(p)
    /\ To(p, "dead")
    /\ vm' = vm \ {p}
    /\ UNCHANGED <<files, state, disk, op, probe>>

VmrunStep(p) ==
    \/ Validate(p) \/ WriteIdentity(p) \/ WritePid(p) \/ CompleteHandoff(p)
    \/ StartVm(p) \/ BindCtl(p) \/ ServeCtl(p) \/ Die(p) \/ DieBound(p)
    \/ StopServing(p) \/ CompareIdentity(p) \/ UnlinkIdentity(p)
    \/ UnlinkSock(p) \/ UnlinkGuard(p) \/ Gone(p)

---------------------------------------------------------------------------
(* A signal to a process whose identity was just verified.  SIGTERM ends a *)
(* vmrun at once until watch_signal has replaced the default action; after *)
(* that it asks for a stop, which StopServing performs.                    *)
Sigterm(p) ==
    \/ To(p, "dead") /\ vm' = vm \ {p}
    \/ stage[p] \in {"serving"} \cup Leaving /\ UNCHANGED <<stage, vm>>
Sigkill(p) == To(p, "dead") /\ vm' = vm \ {p}

(* verified_identity_is, asked again before every signal.                  *)
StillVerified(p) ==
    /\ Alive(p)
    /\ \/ CtlValid /\ sock = p
       \/ CtlUnavailable /\ PreCtlState
(* It may as well find the control socket uncertain or another's.          *)
MaybeUnverified(p) ==
    \/ ~Alive(p)
    \/ CtlUncertain
    \/ ~PreCtlState

---------------------------------------------------------------------------
(* vm_stop.  StopVm(then) begins it; it ends in EndStop.                   *)
StopVm(then) ==
    /\ op' = [op EXCEPT !.pc = "stopprobe", !.then = then]
    /\ SetProbe(Host, "guard", None)

(* The stop failed, with nothing known: every caller gives up.             *)
FailStop == EndOp
EndStop ==
    \/ op.then = "end" /\ EndOp /\ UNCHANGED probe
    \/ op.then = "prepare" /\ Goto("prepare") /\ UNCHANGED probe
    \/ op.then = "recheck" /\ GotoProbe("recheck")

(* Fault: a process that cannot be verified is taken for a stopped one.    *)
StopProbedAnyway ==
    /\ Answered("stopprobe")
    /\ \/ ~Says("verified") /\ Goto("revoke")
       \/ Says("verified") /\ op' = [op EXCEPT !.pc = "owned",
                                              !.id = probe[Host].who]
    /\ Forget
    /\ UNCHANGED <<files, state, disk, stage, vm>>

StopProbed ==
    /\ Answered("stopprobe")
    /\ \/ Says("unverified") /\ FailStop
       \/ Says("stale") /\ Goto("revoke")
       \/ Says("verified") /\ op' = [op EXCEPT !.pc = "owned",
                                              !.id = probe[Host].who]
    /\ Forget
    /\ UNCHANGED <<files, state, disk, stage, vm>>

(* The stored identity is read again and must be the verified process.     *)
StopOwned ==
    /\ op.pc = "owned"
    /\ IF identity = op.id /\ Alive(op.id) THEN Goto("poweroff")
                                          ELSE FailStop
    /\ UNCHANGED <<files, state, disk, stage, vm, probe>>

(* wait_owned_pid_gone, after the guest was asked to power off over ssh.   *)
(* The guest may stop at any time (StopServing), so the request itself     *)
(* adds nothing; the wait ends early or runs out.                          *)
StopPoweroff ==
    /\ op.pc = "poweroff"
    /\ IF Alive(op.id) THEN Goto("term") ELSE Goto("revoke")
    /\ UNCHANGED <<files, state, disk, stage, vm, probe>>

StopSignal(pc, signal(_), next) ==
    /\ op.pc = pc
    /\ \/ /\ ~Alive(op.id)
          /\ Goto("revoke")
          /\ UNCHANGED <<stage, vm>>
       \/ /\ Alive(op.id) /\ MaybeUnverified(op.id)
          /\ FailStop
          /\ UNCHANGED <<stage, vm>>
       \/ /\ StillVerified(op.id)
          /\ signal(op.id)
          /\ Goto(next)
    /\ UNCHANGED <<files, state, disk, probe>>

StopTerm == StopSignal("term", Sigterm, "termwait")
(* Fault: a wait that runs out is taken for the end of the process.        *)
StopTermNoWait ==
    /\ op.pc = "termwait"
    /\ Goto("revoke")
    /\ UNCHANGED <<files, state, disk, stage, vm, probe>>

StopTermWait ==
    /\ op.pc = "termwait"
    /\ IF Alive(op.id) THEN Goto("kill") ELSE Goto("revoke")
    /\ UNCHANGED <<files, state, disk, stage, vm, probe>>
StopKill == StopSignal("kill", Sigkill, "killwait")
StopKillWait ==
    /\ op.pc = "killwait"
    /\ IF Alive(op.id) THEN FailStop ELSE Goto("revoke")
    /\ UNCHANGED <<files, state, disk, stage, vm, probe>>

(* cleanup_stopped_state.  A Docker observer that cannot be revoked ends   *)
(* it before its first change; any other failure still removes everything. *)
CleanRevoke ==
    /\ op.pc = "revoke"
    /\ FailStop \/ op' = [op EXCEPT !.pc = "unlinkpid", !.id = None]
    /\ UNCHANGED <<files, state, disk, stage, vm, probe>>

CleanPid ==
    /\ op.pc = "unlinkpid"
    /\ pidfile' = None
    /\ Goto("unlinkidentity")
    /\ UNCHANGED <<guard, identity, sock, state, disk, stage, vm, probe>>
CleanIdentity ==
    /\ op.pc = "unlinkidentity"
    /\ identity' = None
    /\ Goto("unlinkguard")
    /\ UNCHANGED <<guard, pidfile, sock, state, disk, stage, vm, probe>>
CleanGuard ==
    /\ op.pc = "unlinkguard"
    /\ guard' = None
    /\ Goto("unlinksock")
    /\ UNCHANGED <<identity, pidfile, sock, state, disk, stage, vm, probe>>
CleanSock ==
    /\ op.pc = "unlinksock"
    /\ sock' = None
    /\ Goto("savestopped")
    /\ UNCHANGED <<guard, identity, pidfile, state, disk, stage, vm, probe>>
CleanState ==
    /\ op.pc = "savestopped"
    /\ \/ /\ state' = "stopped"
          /\ EndStop
       \/ /\ state' \in {state, "stopped"}   \* the save or a revocation failed
          /\ FailStop /\ UNCHANGED probe
    /\ UNCHANGED <<files, disk, stage, vm>>

StopStep ==
    \/ StopProbed \/ StopOwned \/ StopPoweroff \/ StopTerm \/ StopTermWait
    \/ StopKill \/ StopKillWait
    \/ CleanRevoke \/ CleanPid \/ CleanIdentity \/ CleanGuard \/ CleanSock
    \/ CleanState

---------------------------------------------------------------------------
(* cmd_start_execute.  Rollback stops the VM when one was spawned.         *)
BeginStart ==
    /\ op.pc = "idle"
    /\ Goto("wait")
    /\ UNCHANGED <<files, state, disk, stage, vm, probe>>

(* vm_process_wait_spawn_transition, then the probe.                       *)
StartWait ==
    /\ op.pc = "wait"
    /\ \/ GuardLocked /\ EndOp /\ UNCHANGED probe
       \/ ~GuardLocked /\ GotoProbe("probe")
    /\ UNCHANGED <<files, state, disk, stage, vm>>

StartProbed ==
    /\ Answered("probe")
    /\ \/ Says("unverified") /\ EndOp
       \/ Says("verified") /\ Goto("running")
       \/ Says("stale") /\ Goto("stopped")
    /\ Forget
    /\ UNCHANGED <<files, state, disk, stage, vm>>

(* Already running: healthy or refused (nothing to do here), or incomplete *)
(* and stopped before it is started again.                                 *)
StartRunning ==
    /\ op.pc = "running"
    /\ \/ EndOp /\ UNCHANGED probe
       \/ StopVm("prepare")
    /\ UNCHANGED <<files, state, disk, stage, vm>>

(* Stopped: shares and admission may refuse; vm_cleanup_stale probes again *)
(* before it removes anything.                                             *)
StartStopped ==
    /\ op.pc = "stopped"
    /\ \/ EndOp /\ UNCHANGED probe
       \/ GotoProbe("reprobe")
    /\ UNCHANGED <<files, state, disk, stage, vm>>

StartReprobed ==
    /\ Answered("reprobe")
    /\ IF Says("stale")
       THEN op' = [op EXCEPT !.pc = "revoke", !.then = "prepare"]
       ELSE EndOp
    /\ Forget
    /\ UNCHANGED <<files, state, disk, stage, vm>>

(* disk_prepare: the disk is made aside and renamed into place.            *)
StartPrepare ==
    /\ op.pc = "prepare"
    /\ \/ disk' = TRUE /\ Goto("save")
       \/ EndOp /\ UNCHANGED disk
    /\ UNCHANGED <<files, state, stage, vm, probe>>

(* Fault: the start does not record that it is starting.                   *)
StartSaveNothing ==
    /\ op.pc = "save"
    /\ Goto("guard")
    /\ UNCHANGED <<files, state, disk, stage, vm, probe>>

(* Fault: it records a state that no reader knows.                         *)
StartSaveOther ==
    /\ op.pc = "save"
    /\ state' = "booting" /\ Goto("guard")
    /\ UNCHANGED <<files, disk, stage, vm, probe>>

StartSave ==
    /\ op.pc = "save"
    /\ \/ state' = "starting" /\ Goto("guard")
       \/ state' \in {state, "starting"} /\ EndOp
    /\ UNCHANGED <<files, disk, stage, vm, probe>>

(* vm_spawn_guard_create: O_EXCL, so a guard that is there refuses it.     *)
StartGuard ==
    /\ op.pc = "guard"
    /\ \/ /\ guard = None
          /\ \E p \in Fresh :
                /\ guard' = p
                /\ op' = [op EXCEPT !.pc = "spawn", !.child = p]
       \/ EndOp /\ UNCHANGED guard
    /\ UNCHANGED <<identity, pidfile, sock, state, disk, stage, vm, probe>>

(* A spawn that fails removes its guard; nothing was spawned to roll back. *)
StartSpawn ==
    /\ op.pc = "spawn"
    /\ \/ /\ To(op.child, "spawned")
          /\ Goto("release")
          /\ UNCHANGED guard
       \/ /\ guard' = IF guard = op.child THEN None ELSE guard
          /\ EndOp
          /\ UNCHANGED stage
    /\ UNCHANGED <<identity, pidfile, sock, state, disk, vm, probe>>

(* The parent's descriptor is closed; the child keeps the flock.           *)
StartRelease ==
    /\ op.pc = "release"
    /\ Goto("capture") \/ EndOp
    /\ UNCHANGED <<files, state, disk, stage, vm, probe>>

(* vm_process_capture_spawned: EXITED rolls back, ERROR keeps everything.  *)
StartCapture ==
    /\ op.pc = "capture"
    /\ \/ Alive(op.child) /\ Goto("ready") /\ UNCHANGED probe
       \/ EndOp /\ UNCHANGED probe
       \/ ~Alive(op.child) /\ StopVm("end")
    /\ UNCHANGED <<files, state, disk, stage, vm>>

(* vm_process_wait_spawned: both files name the child and no guard is left *)
StartReady ==
    /\ op.pc = "ready"
    /\ \/ /\ identity = op.child /\ pidfile = op.child /\ guard = None
          /\ Alive(op.child)
          /\ Goto("await")
          /\ UNCHANGED probe
       \/ ~Alive(op.child) /\ StopVm("end")
       \/ Goto("abort") /\ UNCHANGED probe
    /\ UNCHANGED <<files, state, disk, stage, vm>>

(* vm_process_abort_spawned: SIGTERM, then SIGKILL, of the exact child.    *)
StartAbort ==
    /\ op.pc = "abort"
    /\ \/ /\ ~Alive(op.child)
          /\ StopVm("end")
          /\ UNCHANGED <<stage, vm>>
       \/ /\ Alive(op.child)
          /\ Sigterm(op.child)
          /\ Goto("abortwait")
          /\ UNCHANGED probe
    /\ UNCHANGED <<files, state, disk>>

StartAbortWait ==
    /\ op.pc = "abortwait"
    /\ \/ /\ ~Alive(op.child)
          /\ StopVm("end")
          /\ UNCHANGED <<stage, vm>>
       \/ /\ Alive(op.child)
          /\ Sigkill(op.child)
          /\ UNCHANGED <<op, probe>>
       \/ /\ EndOp      \* the end of the child cannot be confirmed
          /\ UNCHANGED <<stage, vm, probe>>
    /\ UNCHANGED <<files, state, disk>>

(* wait_vmrun_running: a served socket, then a verified process.           *)
StartAwait ==
    /\ op.pc = "await"
    /\ \/ CtlValid /\ GotoProbe("awaitprobe")
       \/ StopVm("end")
    /\ UNCHANGED <<files, state, disk, stage, vm>>

StartAwaitProbed ==
    /\ Answered("awaitprobe")
    /\ IF Says("verified") THEN Goto("ip") ELSE Goto("await")
    /\ Forget
    /\ UNCHANGED <<files, state, disk, stage, vm>>

(* The guest has an address: the running state is saved.                   *)
StartIp ==
    /\ op.pc = "ip"
    /\ \/ state' = "running" /\ Goto("boot") /\ UNCHANGED probe
       \/ state' \in {state, "running"} /\ StopVm("end")
    /\ UNCHANGED <<files, disk, stage, vm>>

(* ssh, provisioning and the guest deployment: success, a failure that     *)
(* rolls back, or one whose guest cleanup is pending and keeps the VM.     *)
StartBoot ==
    /\ op.pc = "boot"
    /\ \/ EndOp /\ UNCHANGED probe
       \/ StopVm("end")
    /\ UNCHANGED <<files, state, disk, stage, vm>>

StartStep ==
    \/ BeginStart \/ StartWait \/ StartProbed \/ StartRunning
    \/ StartStopped \/ StartReprobed \/ StartPrepare \/ StartSave
    \/ StartGuard \/ StartSpawn \/ StartRelease \/ StartCapture
    \/ StartReady \/ StartAbort \/ StartAbortWait \/ StartAwait
    \/ StartAwaitProbed \/ StartIp \/ StartBoot

---------------------------------------------------------------------------
(* control_stop_locked and reset_locked: the latter removes the disk after *)
(* a stop that succeeded and a probe that finds the VM stopped.            *)
BeginStop ==
    /\ op.pc = "idle"
    /\ StopVm("end")
    /\ UNCHANGED <<files, state, disk, stage, vm>>

BeginReset ==
    /\ op.pc = "idle"
    /\ StopVm("recheck")
    /\ UNCHANGED <<files, state, disk, stage, vm>>

ResetRechecked ==
    /\ Answered("recheck")
    /\ IF Says("stale") THEN Goto("remove") ELSE EndOp
    /\ Forget
    /\ UNCHANGED <<files, state, disk, stage, vm>>

ResetRemove ==
    /\ op.pc = "remove"
    /\ disk' \in {disk, FALSE}
    /\ EndOp
    /\ UNCHANGED <<files, state, stage, vm, probe>>

(* The operation's process is killed anywhere: the flock falls with it.    *)
HostDies ==
    /\ op.pc # "idle"
    /\ EndOp
    /\ Forget
    /\ UNCHANGED <<files, state, disk, stage, vm>>

(* The machine loses power: only the files stay.                           *)
PowerLoss ==
    /\ \E p \in Procs : Alive(p)
    /\ stage' = [p \in Procs |-> "dead"]
    /\ vm' = {}
    /\ op' = NoOp
    /\ probe' = [a \in Probers |-> NoProbe]
    /\ UNCHANGED <<files, state, disk>>

Next ==
    \/ \E a \in Probers : ProbeStep(a)
    \/ \E p \in Procs : VmrunStep(p)
    \/ StopStep \/ StartStep
    \/ BeginStop \/ BeginReset \/ ResetRechecked \/ ResetRemove
    \/ HostDies \/ PowerLoss

Spec == Init /\ [][Next]_vars

(* A late adoption: an observer asked a vmrun that was serving, and writes *)
(* its name when a younger one may have taken its place (lifecycle.c:713;  *)
(* nothing locks the probe).  The properties below hold as long as no      *)
(* observer is about to write over the name of another living vmrun;       *)
(* VmLifecycleObserver.cfg shows what happens when one does.               *)
AdoptionSparesOthers ==
    \A a \in Observers : probe[a].pc = "persist" =>
                             identity = probe[a].who \/ ~Alive(identity)

---------------------------------------------------------------------------
(* At most one supervisor that is not on its way out has a VM started: two *)
(* VMs would write one disk.                                               *)
OneVm == \A p, q \in {r \in vm : stage[r] \in Active} : p = q

(* A supervisor that may still start its VM, or has, can be found by the   *)
(* next operation: it holds the spawn guard, or vmrun.identity names it.   *)
Visible == \A p \in Procs : stage[p] \in Active => p \in {guard, identity}

(* Files are cleaned up, and a disk removed, only when no vmrun is alive   *)
(* that is not already inside exit(): lifecycle.h promises it of the stale *)
(* cleanup, cmd_reset.c of the disk.                                       *)
CleanupOnlyWhenStopped ==
    op.pc \in CleanPcs \cup {"remove"} =>
        \A p \in Procs : stage[p] \notin Active

(* No VM loses its disk while its supervisor starts or serves it.  One     *)
(* that is inside exit() with its VM still on may: the probe does not see  *)
(* it any more (DiskRemovedUnderStoppedVm).                                *)
VmHasDisk == \A p \in vm : stage[p] \in Active => disk

(* A profile recorded as stopped has no vmrun but one inside exit().       *)
StoppedIsStopped ==
    state = "stopped" => \A p \in Procs : stage[p] \notin Active

(* The exit handlers compare vmrun.identity and unlink it in two steps;    *)
(* what they unlink is never the identity of a younger vmrun.              *)
UnlinksOwnIdentity ==
    [][\A p \in Procs :
          stage[p] = "unlinking" /\ stage'[p] = "unnamed"
              => identity \in {p, None}]_vars

(* cmd_reset.c: "The disk is deleted only under a VM known to be stopped." *)
(* Taken at its word, of every VM, a supervisor inside exit() included.    *)
DiskRemovedUnderStoppedVm == [][disk /\ ~disk' => vm = {}]_vars
===========================================================================
