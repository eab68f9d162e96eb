--------------------------- MODULE GuestDeployment ---------------------------
(***************************************************************************)
(* The guest deployment transaction: host/core/guest_deployment.c drives   *)
(* guest/scripts/guest-deployment-transaction.sh (begin, commit, rollback) *)
(* and the script of host/core/deployment_recovery.h, each as one guest    *)
(* command that remote_mutation_run executes under the guest lock.         *)
(*                                                                         *)
(* The guest's file system is modelled with what a power loss may leave:   *)
(* every object has its current value and the set of values that may be    *)
(* on the disk.  A write adds a value to that set, fsync reduces it to the *)
(* current one, and a crash picks any member of it.                        *)
(*                                                                         *)
(* The remote calls follow MutationContract: a command whose call was      *)
(* settled does not run any more.  A dead host settles nothing.            *)
(***************************************************************************)
EXTENDS Naturals, FiniteSets

CONSTANTS Configs,     \* values of the profile's Docker daemon JSON
          Tokens,      \* transaction tokens, taken afresh for every transaction
          None,        \* no deployment marker, no token
          MaxLate      \* commands of a dead host that may begin after later ones

ASSUME ConstantsAssumption ==
    /\ None \notin Configs \cup Tokens
    /\ MaxLate \in Nat
    /\ Configs \cap {"image", "applied", "partial", "missing"} = {}

Items == {"containerd", "docker"}

(* An item is what it was written as, and whether it fits the current boot:  *)
(* configure-docker writes the addresses of the boot it runs in.  "image": as *)
(* the signed image has it.  "partial": half written, or cleared and not yet  *)
(* restored.                                                                  *)
ItemValues == (Configs \cup {"image", "applied", "partial"}) \X BOOLEAN
Image == <<"image", TRUE>>
Partial == <<"partial", TRUE>>

(* What configure-containerd and configure-docker leave for a profile. *)
Configured(c) == [containerd |-> <<"applied", TRUE>>, docker |-> <<c, TRUE>>]

Gone == [i \in Items |-> <<"missing", TRUE>>]    \* a backup without all of its data
Backups == [Items -> ItemValues] \cup {Gone}
Phases == {"absent", "ready", "zero"}

VARIABLES
    runtime, runtimeDisk,   \* the protected items
    root, rootDisk,         \* the entries of deployment-transactions
    phase, phaseDisk,       \* the phase file of each entry
    data, dataDisk,         \* the backup of each entry
    record, recordDisk,     \* whether deployment-reapply exists
    up,                     \* the guest runs; a crashed one is booted by a start
    script,                 \* the guest command that holds the lock
    inbox,                  \* guest commands sent and not begun
    op,                     \* the host's operation
    reply,                  \* the answer to its call
    marker,                 \* the host's guest deployment marker
    want,                   \* the profile's configuration
    owed                    \* history: what no evidence in the guest reminds of, and
                            \* "late" once a start overtook a dead host's command

fs == <<runtime, runtimeDisk, root, rootDisk, phase, phaseDisk, data, dataDisk,
        record, recordDisk>>
vars == <<fs, up, script, inbox, op, reply, marker, want, owed>>

Commands == {"recover", "begin", "containerd", "docker", "commit", "rollback", "settle"}
Command == [cmd : Commands, tok : Tokens \cup {None}, cfg : Configs, own : BOOLEAN]

Steps == {"enter", "copy", "syncData", "publish", "syncPublish",
          "cleanPhase", "cleanSync", "cleanRemove", "write", "remember",
          "rememberSync", "restore", "syncItems", "removePhase", "syncEntry",
          "removeData", "removeEntry", "syncRoot", "syncRecord"}
NoScript == [step |-> "none", cmd |-> "none", tok |-> None, cfg |-> None,
             own |-> FALSE, todo |-> {}]
Script == [step : Steps, cmd : Commands, tok : Tokens \cup {None}, cfg : Configs,
           own : BOOLEAN, todo : SUBSET Items]

Stages == Commands \cup {"ready", "mark", "stop"}
(* "cancel": the recovery that a cancelled operation still runs.  reapply is   *)
(* whole_runtime of a reconciliation and record_pending of a refresh.          *)
Kinds == {"running", "refresh", "reconcile", "reapply", "cancel"}
NoOp == [at |-> "idle", kind |-> "none", reapply |-> FALSE, tok |-> None,
         cfg |-> None, current |-> FALSE, cold |-> FALSE, called |-> FALSE]
Op == [at : Stages, kind : Kinds, reapply : BOOLEAN, tok : Tokens \cup {None},
       cfg : Configs, current : BOOLEAN, cold : BOOLEAN, called : BOOLEAN]

TypeOK ==
    /\ runtime \in [Items -> ItemValues]
    /\ runtimeDisk \in [Items -> SUBSET ItemValues]
    /\ root \subseteq Tokens
    /\ rootDisk \subseteq SUBSET Tokens
    /\ phase \in [Tokens -> Phases]
    /\ phaseDisk \in [Tokens -> SUBSET Phases]
    /\ data \in [Tokens -> Backups]
    /\ dataDisk \in [Tokens -> SUBSET Backups]
    /\ record \in BOOLEAN
    /\ recordDisk \subseteq BOOLEAN
    /\ up \in BOOLEAN
    /\ script \in Script \cup {NoScript}
    /\ inbox \subseteq Command
    /\ op \in Op \cup {NoOp}
    /\ reply \in {"none", "silent", "reported", "failed"}
    /\ marker \in Configs \cup {None}
    /\ want \in Configs
    /\ owed \subseteq {"marker", "boot", "late"}

Init ==
    /\ runtime = [i \in Items |-> Image]
    /\ runtimeDisk = [i \in Items |-> {Image}]
    /\ root = {} /\ rootDisk = {{}}
    /\ phase = [t \in Tokens |-> "absent"]
    /\ phaseDisk = [t \in Tokens |-> {"absent"}]
    /\ data = [t \in Tokens |-> Gone]
    /\ dataDisk = [t \in Tokens |-> {Gone}]
    /\ record = FALSE /\ recordDisk = {FALSE}
    /\ up = FALSE
    /\ script = NoScript
    /\ inbox = {}
    /\ op = NoOp
    /\ reply = "none"
    /\ marker = None
    /\ want \in Configs
    /\ owed = {}

-----------------------------------------------------------------------------
(* File system primitives.  Each names every object of the file system. *)

WriteItem(i, v) ==
    /\ runtime' = [runtime EXCEPT ![i] = v]
    /\ runtimeDisk' = [runtimeDisk EXCEPT ![i] = @ \cup {v}]
    /\ UNCHANGED <<root, rootDisk, phase, phaseDisk, data, dataDisk, record, recordDisk>>

WriteRecord(b) ==
    /\ record' = b
    /\ recordDisk' = recordDisk \cup {b}
    /\ UNCHANGED <<runtime, runtimeDisk, root, rootDisk, phase, phaseDisk, data, dataDisk>>

MakeEntry(t) ==
    /\ root' = root \cup {t}
    /\ rootDisk' = rootDisk \cup {root'}
    /\ UNCHANGED <<runtime, runtimeDisk, phase, phaseDisk, data, dataDisk, record, recordDisk>>

RemoveEntry(t) ==
    /\ root' = root \ {t}
    /\ rootDisk' = rootDisk \cup {root'}
    /\ UNCHANGED <<runtime, runtimeDisk, phase, phaseDisk, data, dataDisk, record, recordDisk>>

WriteData(t, b) ==
    /\ data' = [data EXCEPT ![t] = b]
    /\ dataDisk' = [dataDisk EXCEPT ![t] = @ \cup {b}]
    /\ UNCHANGED <<runtime, runtimeDisk, root, rootDisk, phase, phaseDisk, record, recordDisk>>

(* A removal that a crash loses may leave the file with its block discarded. *)
WritePhase(t, p) ==
    /\ phase' = [phase EXCEPT ![t] = p]
    /\ phaseDisk' = [phaseDisk EXCEPT ![t] =
                        @ \cup {p} \cup (IF p = "absent" /\ "ready" \in @ THEN {"zero"} ELSE {})]
    /\ UNCHANGED <<runtime, runtimeDisk, root, rootDisk, data, dataDisk, record, recordDisk>>

(* fsync: the journal commits every earlier change of a directory, so the    *)
(* entries, the phases and the record are durable; of file contents only     *)
(* those named are.  An entry that is gone is forgotten.                     *)
Sync(itemsDisk, backupsDisk) ==
    /\ rootDisk' = {root}
    /\ recordDisk' = {record}
    /\ phase' = [t \in Tokens |-> IF t \in root THEN phase[t] ELSE "absent"]
    /\ phaseDisk' = [t \in Tokens |-> {phase'[t]}]
    /\ data' = [t \in Tokens |-> IF t \in root THEN data[t] ELSE Gone]
    /\ dataDisk' = [t \in Tokens |-> IF t \in root THEN backupsDisk[t] ELSE {Gone}]
    /\ runtimeDisk' = itemsDisk
    /\ UNCHANGED <<runtime, root, record>>

SyncMeta == Sync(runtimeDisk, dataDisk)
SyncData(t) == Sync(runtimeDisk, [dataDisk EXCEPT ![t] = {data[t]}])

(* sync of every item, followed by syncfs of the root file system. *)
SyncAll == Sync([i \in Items |-> {runtime[i]}], [t \in Tokens |-> {data[t]}])

-----------------------------------------------------------------------------
(* The guest script that holds the lock. *)

host == <<up, op, marker, want>>

(* The commands that wait for the lock are taken in any order. *)
Begin(c) ==
    /\ script = NoScript
    /\ c \in inbox
    /\ inbox' = inbox \ {c}
    /\ script' = [step |-> "enter", cmd |-> c.cmd, tok |-> c.tok, cfg |-> c.cfg,
                  own |-> c.own, todo |-> Items]
    /\ UNCHANGED <<fs, host, reply, owed>>

Goto(s) == script' = [script EXCEPT !.step = s] /\ UNCHANGED <<inbox, host, reply, owed>>

Exit(r) ==
    /\ script' = NoScript
    /\ reply' = IF script.own THEN r ELSE reply
    /\ UNCHANGED <<inbox, host>>

At(s) == script.step = s
Enter(c) == At("enter") /\ script.cmd = c

(* A script that fails, or is killed by its deadline, stops where it is. *)
Stop ==
    /\ script # NoScript
    /\ Exit("failed")
    /\ UNCHANGED <<fs, owed>>

(* begin_transaction *)

BeginRefuse ==
    /\ Enter("begin")
    /\ root # {}
    /\ Exit("failed")
    /\ UNCHANGED <<fs, owed>>

(* Fault: a pending entry is no reason to refuse. *)
BeginMkdirUnchecked ==
    /\ Enter("begin")
    /\ MakeEntry(script.tok)
    /\ Goto("copy")

BeginMkdir ==
    /\ Enter("begin")
    /\ root = {}
    /\ MakeEntry(script.tok)
    /\ Goto("copy")

BeginCopy ==
    /\ At("copy")
    /\ WriteData(script.tok, runtime)
    /\ Goto("syncData")

(* Fault: the backup is published before it is durable. *)
BeginSyncDataSkipped ==
    /\ At("syncData")
    /\ UNCHANGED fs
    /\ Goto("publish")

BeginSyncData ==
    /\ At("syncData")
    /\ SyncData(script.tok)
    /\ Goto("publish")

BeginPublish ==
    /\ At("publish")
    /\ WritePhase(script.tok, "ready")
    /\ Goto("syncPublish")

(* Fault: the published phase is not made durable. *)
BeginSyncPublishSkipped ==
    /\ At("syncPublish")
    /\ Exit("silent")
    /\ UNCHANGED <<fs, owed>>

BeginSyncPublish ==
    /\ At("syncPublish")
    /\ SyncMeta
    /\ Exit("silent")
    /\ owed' = owed \ {"boot"}

(* cleanup_begin, the EXIT trap of a begin that failed after mkdir. *)
BeginFails ==
    /\ script.step \in {"copy", "syncData", "publish", "syncPublish"}
    /\ UNCHANGED fs
    /\ Goto("cleanPhase")

CleanPhase ==
    /\ At("cleanPhase")
    /\ WritePhase(script.tok, "absent")
    /\ Goto("cleanSync")

CleanSync ==
    /\ At("cleanSync")
    /\ SyncMeta
    /\ Goto("cleanRemove")

CleanRemove ==
    /\ At("cleanRemove")
    /\ RemoveEntry(script.tok)
    /\ Exit("failed")
    /\ UNCHANGED owed

(* configure-containerd, configure-docker *)

ConfigureEnter ==
    /\ script.step = "enter"
    /\ script.cmd \in Items
    /\ WriteItem(script.cmd, Partial)
    /\ Goto("write")

ConfigureWrite ==
    /\ At("write")
    /\ WriteItem(script.cmd, Configured(script.cfg)[script.cmd])
    /\ Exit("silent")
    /\ UNCHANGED owed

(* load_transaction *)
Loaded(t) == t \in root /\ phase[t] = "ready"

LoadFails ==
    /\ script.step = "enter"
    /\ script.cmd \in {"commit", "rollback"}
    /\ ~Loaded(script.tok)
    /\ Exit("failed")
    /\ UNCHANGED <<fs, owed>>

CommitEnter ==
    /\ Enter("commit")
    /\ Loaded(script.tok)
    /\ UNCHANGED fs
    /\ Goto("syncItems")

RollbackEnter ==
    /\ Enter("rollback")
    /\ Loaded(script.tok)
    /\ UNCHANGED fs
    /\ Goto("restore")

(* restore_item: the destination is cleared, then copied from the backup. A   *)
(* backup without its data is an error and changes nothing: Stop.             *)
RestoreClear(i) ==
    /\ At("restore")
    /\ data[script.tok] # Gone
    /\ i \in script.todo
    /\ runtime[i] # Partial
    /\ WriteItem(i, Partial)
    /\ Goto("restore")

RestoreCopy(i) ==
    /\ At("restore")
    /\ data[script.tok] # Gone
    /\ i \in script.todo
    /\ runtime[i] = Partial
    /\ WriteItem(i, data[script.tok][i])
    /\ script' = [script EXCEPT !.todo = @ \ {i}]
    /\ UNCHANGED <<inbox, host, reply, owed>>

RestoreDone ==
    /\ At("restore")
    /\ script.todo = {}
    /\ UNCHANGED fs
    /\ Goto("syncItems")

(* retire_transaction *)

RetireSyncItems ==
    /\ At("syncItems")
    /\ SyncAll
    /\ Goto("removePhase")

(* From here on the outcome of a commit is decided. *)
RetireRemovePhase ==
    /\ At("removePhase")
    /\ WritePhase(script.tok, "absent")
    /\ script' = [script EXCEPT !.step = "syncEntry"]
    /\ owed' = owed
         \cup (IF script.cmd = "commit" /\ script.cfg # marker THEN {"marker"} ELSE {})
         \cup (IF script.cmd = "rollback" /\ ~runtime["docker"][2] THEN {"boot"} ELSE {})
    /\ UNCHANGED <<inbox, host, reply>>

RetireSyncEntry ==
    /\ At("syncEntry")
    /\ SyncMeta
    /\ Goto("removeData")

RetireRemoveData ==
    /\ At("removeData")
    /\ WriteData(script.tok, Gone)
    /\ Goto("removeEntry")

RetireRemoveEntry ==
    /\ At("removeEntry")
    /\ RemoveEntry(script.tok)
    /\ Goto("syncRoot")

RetireSyncRoot ==
    /\ At("syncRoot")
    /\ SyncMeta
    /\ Exit(IF script.cmd = "recover" THEN "reported" ELSE "silent")
    /\ UNCHANGED owed

(* DEPLOYMENT_RECOVERY_SCRIPT *)

RecoverNothing ==
    /\ Enter("recover")
    /\ root = {}
    /\ Exit(IF record THEN "reported" ELSE "silent")
    /\ UNCHANGED <<fs, owed>>

(* More than one entry would be refused; AtMostOneBackup: there never is.   *)
RecoverInspect ==
    /\ Enter("recover")
    /\ \E t \in root :
        /\ root = {t}
        /\ script' = [script EXCEPT !.step = "remember", !.tok = t]
    /\ UNCHANGED <<fs, inbox, host, reply, owed>>

(* Fault: the record is not written before the evidence is removed. *)
RecoverRememberSkipped ==
    /\ At("remember")
    /\ UNCHANGED fs
    /\ Goto("rememberSync")

RecoverRemember ==
    /\ At("remember")
    /\ WriteRecord(TRUE)
    /\ Goto("rememberSync")

RecoverRememberSync ==
    /\ At("rememberSync")
    /\ SyncMeta
    /\ Goto(IF phase[script.tok] = "ready" THEN "restore" ELSE "removeData")

(* deployment_settle_reapply *)

SettleRemove ==
    /\ Enter("settle")
    /\ WriteRecord(FALSE)
    /\ Goto("syncRecord")

SettleSync ==
    /\ At("syncRecord")
    /\ SyncMeta
    /\ Exit("silent")
    /\ UNCHANGED owed

-----------------------------------------------------------------------------
(* The host's operation. *)

guestSide == <<fs, up, script>>

Move(stage) == op' = [op EXCEPT !.at = stage, !.called = FALSE]
Done == op' = NoOp

(* Fault: the deployment is configured as the marker says, not the profile. *)
NewOpFromMarker(kind, cold) ==
    [at |-> "recover", kind |-> kind, reapply |-> FALSE, tok |-> None,
     cfg |-> marker, current |-> marker = want, cold |-> cold, called |-> FALSE]

(* An operation works with the profile and the marker as it found them. *)
NewOp(kind, cold) ==
    [at |-> "recover", kind |-> kind, reapply |-> FALSE, tok |-> None,
     cfg |-> want, current |-> marker = want, cold |-> cold, called |-> FALSE]

(* vm start of a running VM.  Commands of a dead host that are still in      *)
(* flight, at most MaxLate of them, then come late.                          *)
StartRunning ==
    /\ op = NoOp
    /\ up
    /\ Cardinality(inbox) <= MaxLate
    /\ op' = NewOp("running", FALSE)
    /\ owed' = owed \cup (IF inbox = {} THEN {} ELSE {"late"})
    /\ UNCHANGED <<guestSide, inbox, reply, marker, want>>

(* A boot makes the Docker settings stale, those of the backups too. *)
Stale(v) == <<v[1], FALSE>>
StaleItems(f) == [f EXCEPT !["docker"] = Stale(@)]
StaleDocker(d) == [d EXCEPT !["docker"] = {Stale(v) : v \in @}]

Boot ==
    /\ ~up
    /\ up' = TRUE
    /\ runtime' = StaleItems(runtime)
    /\ runtimeDisk' = StaleDocker(runtimeDisk)
    /\ data' = [t \in Tokens |-> IF data[t] = Gone THEN Gone ELSE StaleItems(data[t])]
    /\ dataDisk' = [t \in Tokens |-> {IF b = Gone THEN Gone ELSE StaleItems(b) : b \in dataDisk[t]}]
    /\ owed' = owed \cup {"boot"}
    /\ UNCHANGED <<root, rootDisk, phase, phaseDisk, record, recordDisk, script, inbox,
                   reply, marker, want>>

(* vm start of a stopped VM. *)
StartCold ==
    /\ op = NoOp
    /\ op' = NewOp(IF marker = want THEN "reconcile" ELSE "refresh", TRUE)
    /\ Boot

(* A start that refreshed a running VM and then finds it not ready stops it   *)
(* and boots it again ("stop" of an operation that is not cold).  It keeps    *)
(* deployment_current as it was before the refresh, and the refresh it calls  *)
(* returns at once because the marker is current: nothing is reconciled.      *)
Restarts == op.at = "stop" /\ ~op.cold

BootAgain ==
    /\ Restarts
    /\ Done
    /\ Boot

(* A clean shutdown of the guest: by a user, of the VM a failed start         *)
(* launched, or to boot it again.                                             *)
Shutdown ==
    /\ op = NoOp \/ op.at = "stop"
    /\ up
    /\ IF Restarts THEN UNCHANGED op ELSE Done
    /\ SyncAll
    /\ up' = FALSE
    /\ script' = NoScript
    /\ inbox' = {}
    /\ UNCHANGED <<reply, marker, want, owed>>

(* The guest call of the current stage is sent. *)
Call ==
    /\ op.at \in Commands
    /\ ~op.called
    /\ up
    /\ op' = [op EXCEPT !.called = TRUE]
    /\ inbox' = inbox \cup {[cmd |-> op.at, tok |-> op.tok, cfg |-> op.cfg, own |-> TRUE]}
    /\ reply' = "none"
    /\ UNCHANGED <<guestSide, marker, want, owed>>

(* The next stage; a new transaction takes a token nobody has seen. *)
Fresh(t) ==
    /\ \A r \in rootDisk : t \notin r
    /\ t \notin root
    /\ \A c \in inbox : c.tok # t
    /\ script.tok # t

(* recover, under another kind of operation. *)
RecoverAs(kind) ==
    op' = [op EXCEPT !.at = "recover", !.kind = kind, !.reapply = kind = "reapply",
                     !.tok = None, !.called = FALSE]

(* An unsuccessful reconciliation is repaired by a forced refresh; otherwise *)
(* a start that launched the VM stops it, and one that found it running does *)
(* not.                                                                      *)
Fail ==
    IF op.kind = "reconcile" THEN RecoverAs("refresh")
    ELSE IF op.cold THEN Move("stop") ELSE Done

(* A refresh that succeeded ends the start, unless the running VM turns out   *)
(* not to be ready.                                                           *)
Succeed == Done \/ (op.kind = "refresh" /\ ~op.cold /\ Move("stop"))

Answered == op.at \in Commands /\ op.called /\ reply \in {"silent", "reported"}
recovered == reply = "reported"

RecoverOk ==
    /\ Answered
    /\ op.at = "recover"
    /\ CASE op.kind = "running" /\ ~op.current -> RecoverAs("refresh")
         [] op.kind = "running" /\ op.current /\ recovered -> RecoverAs("reapply")
         [] op.kind = "running" /\ op.current /\ ~recovered -> Done
         [] op.kind = "cancel" -> Fail
         [] OTHER ->
              \E t \in Tokens :
                /\ Fresh(t)
                /\ op' = [op EXCEPT !.at = "begin", !.tok = t, !.called = FALSE,
                                    !.reapply = @ \/ recovered]
    /\ reply' = "none"
    /\ UNCHANGED <<guestSide, inbox, marker, want, owed>>

BeginOk ==
    /\ Answered
    /\ op.at = "begin"
    /\ Move(IF op.kind = "refresh" \/ op.reapply THEN "containerd" ELSE "docker")
    /\ reply' = "none"
    /\ UNCHANGED <<guestSide, inbox, marker, want, owed>>

ConfigureOk ==
    /\ Answered
    /\ op.at \in Items
    /\ Move(IF op.at = "containerd" THEN "docker" ELSE "ready")
    /\ reply' = "none"
    /\ UNCHANGED <<guestSide, inbox, marker, want, owed>>

(* Forwards and readiness probes: they change nothing in the guest. *)
Ready ==
    /\ op.at = "ready"
    /\ Move("commit") \/ Move("rollback")
    /\ reply' = "none"
    /\ UNCHANGED <<guestSide, inbox, marker, want, owed>>

CommitOk ==
    /\ Answered
    /\ op.at = "commit"
    /\ CASE op.kind = "refresh" -> Move("mark")
         [] op.kind # "refresh" /\ op.reapply -> Move("settle")
         [] OTHER -> Done
    /\ reply' = "none"
    /\ UNCHANGED <<guestSide, inbox, marker, want, owed>>

(* The marker is written, or cannot be. *)
Mark ==
    /\ op.at = "mark"
    /\ \/ /\ marker' = op.cfg
          /\ owed' = owed \ {"marker"}
          /\ IF op.reapply THEN Move("settle") ELSE Succeed
       \/ /\ UNCHANGED <<marker, owed>>
          /\ Fail
    /\ UNCHANGED <<guestSide, inbox, reply, want>>

RollbackOk ==
    /\ Answered
    /\ op.at = "rollback"
    /\ Fail
    /\ reply' = "none"
    /\ UNCHANGED <<guestSide, inbox, marker, want, owed>>

SettleOk ==
    /\ Answered
    /\ op.at = "settle"
    /\ Succeed
    /\ reply' = "none"
    /\ UNCHANGED <<guestSide, inbox, marker, want, owed>>

(* Fault: an unsuccessful commit is taken for a successful one. *)
SettledIgnoringCommit ==
    /\ op.called
    /\ up
    /\ ~script.own
    /\ inbox' = {c \in inbox : ~c.own}
    /\ reply' = "none"
    /\ IF op.at \in Items THEN Move("rollback")
       ELSE IF op.at = "commit" /\ op.kind = "refresh" THEN Move("mark")
       ELSE IF op.at = "settle" THEN Done
       ELSE Fail
    /\ UNCHANGED <<guestSide, marker, want, owed>>

(* An unsuccessful call.  Settled: the command is over, and if it had not    *)
(* begun it never will.  A cancelled operation recovers once more            *)
(* (deployment_cancel_recover).  A rollback or a last recovery that failed   *)
(* leaves cleanup_pending set, and the VM running.                           *)
Settled ==
    /\ op.called
    /\ up
    /\ ~script.own
    /\ inbox' = {c \in inbox : ~c.own}
    /\ reply' = "none"
    /\ IF op.at \in Items THEN Move("rollback")
       ELSE IF op.at = "settle" THEN Succeed
       ELSE IF op.kind = "cancel" THEN Done
       ELSE IF op.at = "rollback" THEN IF op.kind = "reconcile" THEN Fail ELSE Done
       ELSE Fail \/ RecoverAs("cancel")
    /\ UNCHANGED <<guestSide, marker, want, owed>>

(* Not settled: cleanup_pending refuses every later call of the process, so   *)
(* that the operation ends.  The same happens when the process dies.  Its     *)
(* command is then nobody's.                                                  *)
Abandoned ==
    /\ op # NoOp
    /\ Done
    /\ reply' = "none"
    /\ inbox' = {[c EXCEPT !.own = FALSE] : c \in inbox}
    /\ script' = [script EXCEPT !.own = FALSE]
    /\ UNCHANGED <<fs, up, marker, want, owed>>

EditConfig ==
    /\ want' \in Configs \ {want}
    /\ UNCHANGED <<guestSide, inbox, op, reply, marker, owed>>

-----------------------------------------------------------------------------
(* The VM dies (a guest panic, the death of vmrun or of the Mac): sessions    *)
(* end, and each object is one of the values that may be on its disk.  Only   *)
(* another start, which waits for this operation's lock, boots it again.      *)
Crash ==
    /\ \E r \in rootDisk :
        /\ root' = r
        /\ rootDisk' = {r}
        /\ phase' \in {p \in [Tokens -> Phases] :
                        \A t \in Tokens : p[t] \in (IF t \in r THEN phaseDisk[t] ELSE {"absent"})}
        /\ data' \in {d \in [Tokens -> UNION {dataDisk[t] : t \in Tokens} \cup {Gone}] :
                        \A t \in Tokens : d[t] \in (IF t \in r THEN dataDisk[t] ELSE {Gone})}
    /\ runtime' \in {f \in [Items -> UNION {runtimeDisk[i] : i \in Items}] :
                        \A i \in Items : f[i] \in runtimeDisk[i]}
    /\ record' \in recordDisk
    /\ runtimeDisk' = [i \in Items |-> {runtime'[i]}]
    /\ phaseDisk' = [t \in Tokens |-> {phase'[t]}]
    /\ dataDisk' = [t \in Tokens |-> {data'[t]}]
    /\ recordDisk' = {record'}
    /\ up' = FALSE
    /\ script' = NoScript
    /\ inbox' = {}
    /\ UNCHANGED <<op, reply, marker, want, owed>>

-----------------------------------------------------------------------------
ScriptStep ==
    \/ \E c \in inbox : Begin(c)
    \/ Stop
    \/ BeginRefuse \/ BeginMkdir \/ BeginCopy \/ BeginSyncData
    \/ BeginPublish \/ BeginSyncPublish
    \/ BeginFails \/ CleanPhase \/ CleanSync \/ CleanRemove
    \/ ConfigureEnter \/ ConfigureWrite
    \/ LoadFails \/ CommitEnter \/ RollbackEnter
    \/ (\E i \in Items : RestoreClear(i) \/ RestoreCopy(i))
    \/ RestoreDone
    \/ RetireSyncItems \/ RetireRemovePhase \/ RetireSyncEntry
    \/ RetireRemoveData \/ RetireRemoveEntry \/ RetireSyncRoot
    \/ RecoverNothing \/ RecoverInspect
    \/ RecoverRemember \/ RecoverRememberSync
    \/ SettleRemove \/ SettleSync

HostStep ==
    \/ StartRunning \/ StartCold \/ BootAgain \/ Shutdown
    \/ Call \/ RecoverOk \/ BeginOk \/ ConfigureOk \/ Ready \/ CommitOk \/ Mark
    \/ RollbackOk \/ SettleOk \/ Settled \/ Abandoned \/ EditConfig

Next == ScriptStep \/ HostStep \/ Crash

Spec == Init /\ [][Next]_vars

-----------------------------------------------------------------------------
(* Properties. *)

(* "an incomplete backup is never restored": whatever survives a crash, an   *)
(* entry whose phase reads ready has all of its data.                        *)
ReadyIsComplete ==
    \A t \in root : phase[t] = "ready" => data[t] # Gone

(* Recovery and begin can always tell what to do: never two entries. *)
AtMostOneBackup == \A r \in rootDisk \cup {root} : Cardinality(r) <= 1

(* "the host changes the guest only after begin publishes ready durably":    *)
(* while the host configures, every disk a crash may leave holds the         *)
(* complete backup; unless a dead host's command came late and ended it.     *)
ChangesUnderBackup ==
    (op.at \in Items \cup {"ready"} /\ "late" \notin owed) =>
        /\ \A r \in rootDisk : op.tok \in r
        /\ phaseDisk[op.tok] = {"ready"}
        /\ Gone \notin dataDisk[op.tok]

(* A commit the host was told of is final: its backup never comes back ready, *)
(* so no recovery undoes the deployment whose marker is written next.         *)
CommitIsFinal ==
    (op.at \in {"mark", "settle"} /\ op.tok # None) =>
        \A r \in rootDisk : op.tok \in r => "ready" \notin phaseDisk[op.tok]

(* The runtime is what the host marker records, for this boot, or the guest  *)
(* holds evidence (a backup or the reapply record) that makes the next start *)
(* apply it; except while a refresh has committed and its marker is not yet  *)
(* written, between a boot and the transaction that reconciles it (which a   *)
(* start that was killed, or that booted a refreshed VM again, leaves to a   *)
(* later one), and after a dead host's command came late.                    *)
MarkerVouches ==
    marker # None =>
        \/ runtime = Configured(marker)
        \/ root # {}
        \/ record
        \/ owed # {}

(* The start of a running VM reports success at once when its marker is      *)
(* current and the recovery had nothing to report (cmd_start.c:557-622).     *)
EarlySuccess ==
    op.at = "recover" /\ op.kind = "running" /\ op.current /\ op.called /\ reply = "silent"

(* Then the guest runs the configuration that the marker records. *)
EarlySuccessRunsConfig == EarlySuccess => runtime["docker"][1] = op.cfg

(* Then Docker does not keep the settings of an earlier boot. *)
EarlySuccessFitsBoot == EarlySuccess => runtime["docker"][2]
=============================================================================
