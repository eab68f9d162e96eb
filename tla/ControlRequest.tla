--------------------------- MODULE ControlRequest ---------------------------
(***************************************************************************)
(* One headless hamn process after another (control/headless.rs): a        *)
(* request is validated, routed (service.rs) and carried out by            *)
(*   - a worker process that calls the C core (core.rs, operation.c),      *)
(*   - the Docker Engine, over a profile's socket or over a Docker CLI     *)
(*     that is a process group of this request (docker.rs,                 *)
(*     docker_context.rs, query_process.rs), or                            *)
(*   - a Kubernetes API server (kubernetes.rs, kubeconfig.rs, exec_auth.rs).*)
(* The caller may interrupt it, its deadline may pass and the reader of    *)
(* its output may leave at any time.  What the C core does to a VM is one  *)
(* step here (VmLifecycle and GuestDeployment have the detail); the point  *)
(* is which answer the caller gets for it.  The Engine and the API server  *)
(* are one resource [uid, rv] that others replace or change.               *)
(***************************************************************************)
EXTENDS Integers, FiniteSets, Requests

CONSTANTS RequestSet,  \* the requests callers make
          MaxCalls,    \* calls made one after another
          EventCap,    \* capacity of the event channel (32 in the code)
          PipeCap,     \* log chunks a worker's stderr pipe holds
          MaxChanges   \* changes others make to the resource

ASSUME CallsAssumption == MaxCalls \in Nat /\ EventCap \in Nat \ {0}
                          /\ PipeCap \in Nat /\ MaxChanges \in Nat
ASSUME RequestsAssumption == RequestSet # {} /\ RequestSet \subseteq Request

VARIABLES
    call, req, pc,   \* the call under way (0 before the first) and its stage
    code,            \* what execute_stream returned, once it has
    cancel,          \* the cancellation token
    queued,          \* events in the channel to the output
    reader,          \* whether somebody reads the output
    worker,          \* the worker process of this call
    pipe, tail,      \* log chunks in its stderr pipe; those left to drain, -1
                     \* while the worker has not been reaped
    image,           \* "stale" until a start has refreshed the signed image
    record,          \* operation.json of the profile
    group,           \* the CLI's or plugin's process group
    responded,       \* the transport has relayed a byte of the Engine
    object,          \* the resource as the server has it
    flights,         \* mutations sent and not decided by the server
    reply,           \* the server's answer to this call's mutation
    answers,         \* history: the answer of each call
    applied,         \* history: calls whose mutation took effect
    seen, target,    \* history: uid a call read, uid its mutation changed
    ledger           \* history: what the calls did to the VM, as sets of calls

core    == <<image, record, ledger, pipe, tail>>
remote  == <<object, flights, reply, applied, seen, target>>
vars    == <<call, req, pc, code, cancel, queued, reader, worker, group,
             responded, answers, core, remote>>

Calls == 1..MaxCalls
NoWorker == [st |-> "none", input |-> FALSE, term |-> FALSE, cancelled |-> FALSE,
             result |-> "none", ok |-> FALSE, id |-> 0, attempt |-> 1,
             unknown |-> FALSE]
NoGroup  == [leader |-> "none", helper |-> FALSE]
Alive    == worker.st \notin {"none", "exited", "cut"}

(* open: the call's change of the VM was neither completed nor undone;      *)
(* covered: of those, the ones a failed operation has recorded over;        *)
(* partly: the call changed something on the way to what it was asked for.  *)
NoLedger == [open |-> {}, covered |-> {}, partly |-> {}]
Unsettled == ledger.open \ ledger.covered

Init ==
    /\ call = 0 /\ pc = "idle" /\ code = "none" /\ cancel = FALSE
    /\ req = CHOOSE r \in RequestSet : TRUE
    /\ queued = 0 /\ reader = TRUE /\ worker = NoWorker /\ group = NoGroup
    /\ pipe = 0 /\ tail = -1
    /\ image = "stale"
    /\ record = [status |-> "none", owner |-> 0, recovery |-> FALSE]
    /\ responded = FALSE /\ object = [uid |-> 1, rv |-> 1]
    /\ flights = {} /\ reply = "none"
    /\ answers = [c \in Calls |-> "none"] /\ applied = {}
    /\ seen = [c \in Calls |-> [uid |-> 0, rv |-> 0]] /\ target = [c \in Calls |-> 0]
    /\ ledger = NoLedger
-----------------------------------------------------------------------------
(* headless.rs: the request comes in, its events and its result go out.    *)

Accept ==
    /\ pc = "idle" /\ call < MaxCalls
    /\ call' = call + 1 /\ req' \in RequestSet
    /\ pc' = "parsed" /\ code' = "none" /\ cancel' = FALSE
    /\ queued' = 0 /\ reader' = TRUE
    /\ worker' = NoWorker
    /\ group' = NoGroup /\ responded' = FALSE /\ reply' = "none"
    /\ pipe' = 0 /\ tail' = -1
    /\ UNCHANGED <<answers, image, record, ledger, object, flights, applied, seen, target>>

TerminateLeader(g) ==
    IF g.leader \in {"alive", "zombie"} THEN [g EXCEPT !.leader = "reaped"] ELSE g

(* SIGKILL for every member, then waitpid for the leader. *)
TerminateGroup(g) ==
    IF g.leader \in {"alive", "zombie"} THEN [leader |-> "reaped", helper |-> FALSE] ELSE g

(* execute_stream returns: what it owned is dropped with it. *)
Finish(c) ==
    /\ pc' = "draining" /\ code' = c
    /\ group' = TerminateGroup(group)

Cancel ==
    /\ pc # "idle" /\ ~cancel /\ cancel' = TRUE
    /\ UNCHANGED <<call, req, pc, code, queued, reader, worker, group, responded,
                   answers, core, remote>>

(* Noticed only when something is written. *)
ReaderLeaves ==
    /\ (queued > 0 \/ pc = "draining") /\ reader /\ reader' = FALSE
    /\ UNCHANGED <<call, req, pc, code, cancel, queued, worker, group, responded,
                   answers, core, remote>>

(* An event is written; nobody to read it cancels the execution, which is  *)
(* still waited for.                                                       *)
Deliver ==
    /\ queued > 0
    /\ IF reader THEN queued' = queued - 1 /\ UNCHANGED cancel
                 ELSE queued' = 0 /\ cancel' = TRUE
    /\ UNCHANGED <<call, req, pc, code, reader, worker, group, responded,
                   answers, core, remote>>

WriteResult ==
    /\ pc = "draining" /\ queued = 0
    /\ answers' = [answers EXCEPT ![call] = IF reader THEN code ELSE "unread"]
    /\ pc' = IF reader /\ code = "ok" /\ Has(req, "watch") THEN "sleep" ELSE "idle"
    /\ UNCHANGED <<call, req, code, cancel, queued, reader, worker, group, responded,
                   core, remote>>

WatchAgain ==
    /\ pc = "sleep"
    /\ IF cancel
         THEN pc' = "idle" /\ answers' = [answers EXCEPT ![call] = "cancelled"]
         ELSE pc' = "parsed" /\ UNCHANGED answers
    /\ worker' = NoWorker
    /\ group' = NoGroup /\ responded' = FALSE /\ reply' = "none"
    /\ UNCHANGED <<call, req, code, cancel, queued, reader, core,
                   object, flights, applied, seen, target>>
-----------------------------------------------------------------------------
(* service.rs: validation and routing.                                     *)

Local(r) == r.op \in {"capabilities", "k8s contexts list"}

Route ==
    /\ pc = "parsed"
    /\ CASE req.op = "capabilities" -> Finish("ok")
         [] req.op # "capabilities" /\ ~Valid(req) -> Finish("invalidRequest")
         [] Valid(req) /\ Local(req) ->
              \E c \in {"ok", "configurationInvalid"} : Finish(c)
         [] Valid(req) /\ ~Local(req) /\ cancel -> Finish("cancelled")
         [] OTHER ->
              /\ pc' = CASE req.op \in Docker /\ Has(req, "context") -> "dial"
                         [] req.op \in K8s -> "auth"
                         [] OTHER -> "spawn"
              /\ UNCHANGED <<code, group>>
    /\ UNCHANGED <<call, req, cancel, queued, reader, worker, responded,
                   answers, core, remote>>

(* The select around an unmanaged run: the run is dropped where it stands,  *)
(* which kills its worker and its process group and leaves what it sent.    *)
Running == pc \in {"spawn", "write", "waiting", "stopping", "dial", "auth",
                   "credential", "read", "logs", "send", "sent", "confirm"}

Dropped(c) ==
    /\ Running /\ ~Managed(req)
    /\ Finish(IF Mutates(req) THEN "outcomeUnknown" ELSE c)
    /\ worker' = IF Alive THEN [worker EXCEPT !.st = "exited"] ELSE worker
    /\ UNCHANGED <<call, req, cancel, queued, reader, responded, answers, core, remote>>

Interrupted == cancel /\ Dropped("cancelled")
Deadline    == Dropped("timeout")
-----------------------------------------------------------------------------
(* core.rs: the frontend's side of a worker.                               *)

(* The second attempt of call_control runs the command as it was invoked.  *)
SpawnWorker ==
    /\ pc = "spawn"
    /\ \/ /\ pc' = "write"
          /\ worker' = [NoWorker EXCEPT !.st = "boot", !.id = 2 * call + worker.attempt,
                                        !.attempt = worker.attempt]
          /\ pipe' = 0 /\ tail' = -1
          /\ UNCHANGED <<code, group>>
       \/ Finish("coreUnavailable") /\ UNCHANGED <<worker, pipe, tail>>
    /\ UNCHANGED <<call, req, cancel, queued, reader, responded, answers,
                   image, record, ledger, remote>>

WriteRequest ==
    /\ pc = "write"
    /\ IF Alive THEN /\ pc' = "waiting"
                     /\ worker' = [worker EXCEPT !.input = TRUE]
                     /\ UNCHANGED <<code, group>>
                ELSE Finish("coreProtocol") /\ UNCHANGED worker
    /\ UNCHANGED <<call, req, cancel, queued, reader, responded, answers, core, remote>>

(* Cancellation or the deadline: one SIGTERM to the exact, unreaped worker. *)
(* Until worker() has installed its handler the signal stays pending.       *)
StopWorker ==
    /\ pc = "waiting" /\ Managed(req) /\ Alive
    /\ pc' = "stopping"
    /\ worker' = IF worker.st = "boot" THEN [worker EXCEPT !.term = TRUE]
                                       ELSE [worker EXCEPT !.cancelled = TRUE]
    /\ UNCHANGED <<call, req, code, cancel, queued, reader, group, responded,
                   answers, core, remote>>

(* A VM's SSH master inherits the worker's stderr and outlives it. *)
LogWritten ==
    /\ pipe < PipeCap /\ req.op \in Starting
    /\ worker.st \in {"changed", "reply", "exited"} /\ pc \in {"waiting", "stopping"}
    /\ pipe' = pipe + 1
    /\ UNCHANGED <<call, req, pc, code, cancel, queued, reader, worker, group, responded,
                   answers, image, record, ledger, tail, remote>>

(* live_error: the end of the pipe may never come, so that once the worker *)
(* is reaped exactly the bytes then queued are drained.                    *)
live_error_until_eof ==
    /\ pc \in {"waiting", "stopping"} /\ pipe > 0
    /\ pipe' = pipe - 1
    /\ tail' = IF pipe = 1 /\ worker.st = "exited" THEN 0 ELSE -1
    /\ UNCHANGED <<call, req, pc, code, cancel, queued, reader, worker, group, responded,
                   answers, image, record, ledger, remote>>

live_error ==
    /\ pc \in {"waiting", "stopping"}
    /\ \/ tail = -1 /\ worker.st = "exited" /\ tail' = pipe /\ UNCHANGED pipe
       \/ tail = -1 /\ worker.st # "exited" /\ pipe > 0 /\ pipe' = pipe - 1 /\ UNCHANGED tail
       \/ tail > 0 /\ tail' = tail - 1 /\ pipe' = pipe - 1
    /\ UNCHANGED <<call, req, pc, code, cancel, queued, reader, worker, group, responded,
                   answers, image, record, ledger, remote>>

(* try_join: a reply too large for capture answers at once.  A worker that  *)
(* is not killed with its handle has nothing left to do but to exit, which  *)
(* nobody waits for: "cut".                                                 *)
ReplyCut ==
    /\ pc \in {"waiting", "stopping"} /\ worker.st = "reply"
    /\ Finish("coreProtocol")
    /\ worker' = IF Managed(req) THEN [NoWorker EXCEPT !.st = "cut"] ELSE NoWorker
    /\ UNCHANGED <<call, req, cancel, queued, reader, responded, answers, core, remote>>

(* The worker was reaped and its output read to the end. *)
WorkerDone ==
    /\ pc \in {"waiting", "stopping"} /\ worker.st = "exited" /\ tail = 0
    /\ CASE ~worker.ok ->
              Finish("outcomeUnknown") /\ worker' = NoWorker
         [] worker.ok /\ worker.result = "restartRequired"
              /\ req.op \in Starting /\ worker.attempt = 1 /\ ~cancel ->
              /\ pc' = "spawn" /\ worker' = [worker EXCEPT !.attempt = 2]
              /\ UNCHANGED <<code, group>>
         [] worker.ok /\ worker.result = "ok" /\ req.op \in Docker ->
              pc' = "dial" /\ UNCHANGED <<code, group, worker>>
         [] OTHER ->
              /\ Finish(worker.result) \/ Finish("coreProtocol")
              /\ worker' = NoWorker
    /\ UNCHANGED <<call, req, cancel, queued, reader, responded, answers, core, remote>>
-----------------------------------------------------------------------------
(* core.rs, the worker's side, and the operation record it keeps.          *)

(* worker() unblocks the signals once its handler exists. *)
WorkerReady ==
    /\ worker.st = "boot"
    /\ worker' = [worker EXCEPT !.st = "ready", !.cancelled = worker.term,
                                 !.term = FALSE]
    /\ UNCHANGED <<call, req, pc, code, cancel, queued, reader, group, responded,
                   answers, core, remote>>

WorkerDies ==
    /\ Alive /\ worker' = [worker EXCEPT !.st = "exited", !.result = "none"]
    /\ UNCHANGED <<call, req, pc, code, cancel, queued, reader, group, responded,
                   answers, core, remote>>

WorkerExits ==
    /\ worker.st = "reply"
    /\ worker' = [worker EXCEPT !.st = "exited", !.ok = TRUE]
    /\ UNCHANGED <<call, req, pc, code, cancel, queued, reader, group, responded,
                   answers, core, remote>>

(* The record as operation_snapshot reads it: "running" counts only while  *)
(* the process that wrote it lives, whoever has its pid by now.            *)
Snapshot ==
    IF record.status = "running" /\ ~(Alive /\ worker.id = record.owner)
      THEN [record EXCEPT !.status = "outcomeUnknown", !.recovery = TRUE]
      ELSE record

(* The failure codes of a return value of the C core.                      *)
apply_failure_code(rc) ==
    CASE rc = "invalid"   -> "invalidRequest"
      [] rc = "conflict"  -> "conflict"
      [] rc = "uncertain" -> "outcomeUnknown"
      [] rc = "cancelled" -> "cancelled"
      [] OTHER            -> "operationFailed"

(* The first that fits. *)
control_failure_code(op, rc, unknown) ==
    IF rc = "invalid" /\ op \in Workspaced THEN "invalidRequest"
    ELSE IF rc = "damaged" /\ op \in Starting THEN "guestFilesystemDamaged"
    ELSE IF rc = "refused" /\ op \in Starting THEN "admissionRefused"
    ELSE IF rc = "uncertain" /\ op \in {"vm delete", "vm down"} THEN "outcomeUnknown"
    ELSE IF unknown THEN "outcomeUnknown"
    ELSE IF rc = "cancelled" THEN "cancelled"
    ELSE IF rc = "restart" THEN "restartRequired"
    ELSE IF rc = "conflict" THEN "conflict"
    ELSE "operationFailed"

(* execute: a failure is classified with the record as it is now, a success *)
(* of a VM operation answers with a status query, which may fail by itself. *)
Replies(rc, rec) ==
    \E ans \in IF rc = "ok"
                 THEN {"ok"} \cup (IF req.op \in VmConfigs \cup VmRecorded
                                     THEN {"profileUnavailable"} ELSE {})
                 ELSE {IF req.op = "vm apply" THEN apply_failure_code(rc)
                       ELSE control_failure_code(req.op, rc,
                              req.op \in Vm /\ rec.status = "outcomeUnknown")} :
        worker' = [worker EXCEPT !.st = "reply", !.result = ans]

Executes == worker.st = "ready" /\ worker.input

(* vm list, status, env, and the status call of a Docker request. *)
CoreQuery ==
    /\ Executes /\ (req.op \in VmReads \cup Docker)
    /\ \E ans \in {"ok", "profileUnavailable"} :
           worker' = [worker EXCEPT !.st = "reply", !.result = ans]
    /\ UNCHANGED <<call, req, pc, code, cancel, queued, reader, group, responded,
                   answers, core, remote>>

(* Operations that keep no record; `uncertain' and a plain failure do not  *)
(* say whether the change stands.  A dry run and a check change nothing.   *)
CoreUnrecorded ==
    /\ Executes
    /\ req.op \in VmConfigs \cup {"vm down", "system upgrade", "system uninstall"}
    /\ \E rc \in {"ok", "fail", "invalid", "conflict", "uncertain", "cancelled"} :
         /\ rc = "cancelled" => worker.cancelled
         /\ Replies(rc, Snapshot)
         /\ \/ (rc = "ok" => ~Mutates(req)) /\ UNCHANGED applied
            \/ /\ rc \in {"ok", "fail", "uncertain"} /\ Mutates(req)
               /\ applied' = applied \cup {call}
    /\ UNCHANGED <<call, req, pc, code, cancel, queued, reader, group, responded,
                   answers, core, object, flights, reply, seen, target>>

(* operation_begin: refuses beside a live operation; a record that cannot  *)
(* be saved fails the operation before it changes anything.                *)
operation_begin ==
    /\ Executes /\ req.op \in VmRecorded
    /\ IF Snapshot.status = "running"
         THEN Replies("fail", Snapshot) /\ UNCHANGED record
         ELSE \/ /\ record' = [status |-> "running", owner |-> worker.id, recovery |-> FALSE]
                 /\ worker' = [worker EXCEPT !.st = "begun",
                       !.unknown = Snapshot.status = "outcomeUnknown" \/ Snapshot.recovery]
              \/ Replies("fail", Snapshot) /\ UNCHANGED record
              \/ /\ req.op \in Starting
                 /\ record' = [status |-> "outcomeUnknown", owner |-> worker.id,
                               recovery |-> FALSE]
                 /\ Replies("fail", record')
    /\ UNCHANGED <<call, req, pc, code, cancel, queued, reader, group, responded,
                   answers, image, ledger, pipe, tail, remote>>

(* finish_record: a record that cannot be saved stays "running" and the    *)
(* operation fails, as it does when a phase could not be saved before.     *)
finish_record(rc, status, recovery) ==
    \/ LET rec == [record EXCEPT !.status = status, !.recovery = recovery]
       IN record' = rec /\ (Replies(rc, rec) \/ Replies("fail", rec))
    \/ UNCHANGED record /\ Replies("fail", record)

operation_finish(result, restored) ==
    LET rc == IF result # "ok" /\ restored /\ worker.cancelled THEN "cancelled" ELSE result
    IN finish_record(rc, CASE rc = "ok"        -> "completed"
                           [] rc # "ok" /\ ~restored -> "outcomeUnknown"
                           [] rc = "cancelled" /\ restored -> "cancelled"
                           [] OTHER            -> "failed", FALSE)

operation_finish_unchanged(result) == operation_finish(result, ~worker.unknown)

restart_required_forgetting == finish_record("restart", "restartRequired", FALSE)

operation_restart_required ==
    finish_record("restart", "restartRequired", worker.unknown)

(* start_unchanged: a start that found its input refused, the guest of a    *)
(* running VM damaged, or the host too full for a stopped one.             *)
CoreRefuse ==
    /\ worker.st = "begun" /\ req.op \in Starting
    /\ \E rc \in {"fail", "refused", "damaged"} : operation_finish_unchanged(rc)
    /\ UNCHANGED <<call, req, pc, code, cancel, queued, reader, group, responded,
                   answers, image, ledger, pipe, tail, remote>>

(* A start that finds the VM running recovers, refreshes and repairs its    *)
(* guest, and stops a VM that is not ready all the same.                    *)
CoreMend ==
    /\ worker.st = "begun" /\ req.op \in Starting
    /\ worker' = [worker EXCEPT !.st = "mended"]
    /\ ledger' = [ledger EXCEPT !.open = @ \cup {call}, !.partly = @ \cup {call}]
    /\ UNCHANGED <<call, req, pc, code, cancel, queued, reader, group, responded,
                   answers, image, record, pipe, tail, remote>>

(* A start that installed a newer signed image and must run again; a VM     *)
(* that it found running is stopped by then.                                *)
CoreRestart ==
    /\ worker.st \in {"begun", "mended"} /\ req.op \in Starting /\ image = "stale"
    /\ image' = "fresh" /\ operation_restart_required
    /\ ledger' = [ledger EXCEPT !.open = @ \ {call}]
    /\ UNCHANGED <<call, req, pc, code, cancel, queued, reader, group, responded,
                   answers, pipe, tail, remote>>

(* The VM is being changed: spawned, reconfigured, stopped or erased. *)
CoreChange ==
    /\ worker.st \in {"begun", "mended"}
    /\ worker' = [worker EXCEPT !.st = "changed"]
    /\ applied' = applied \cup {call}
    /\ ledger' = [ledger EXCEPT !.open = @ \cup {call}]
    /\ UNCHANGED <<call, req, pc, code, cancel, queued, reader, group, responded,
                   answers, image, record, pipe, tail, object, flights, reply, seen, target>>

(* The VM is as it was asked for, whatever was unknown about it before; a   *)
(* running VM that is ready needs nothing else.                             *)
CoreSucceed ==
    /\ worker.st \in {"mended", "changed"}
    /\ operation_finish("ok", TRUE)
    /\ applied' = applied \cup {call}
    /\ ledger' = [ledger EXCEPT !.open = {}, !.covered = {}]
    /\ UNCHANGED <<call, req, pc, code, cancel, queued, reader, group, responded,
                   answers, image, pipe, tail, object, flights, reply, seen, target>>

(* Whether a failing operation may know what it leaves: a start has stopped *)
(* again the VM it spawned or has recovered the guest of a running one, a   *)
(* reset has stopped the VM and knows which files are left.                 *)
Restorable ==
    \/ req.op \in Starting /\ worker.st \in {"mended", "changed"}
    \/ req.op = "vm reset" /\ worker.st = "changed"

(* A failure that ends in a known state is recorded as "failed" or          *)
(* "cancelled", over an earlier unknown outcome too; any other leaves the   *)
(* outcome unknown, an admission refused to a VM found running included.    *)
CoreFail ==
    /\ worker.st \in {"begun", "mended", "changed"}
    /\ \E restored \in {FALSE, Restorable}, rc \in {"fail", "damaged", "refused"} :
         /\ rc = "damaged" => restored /\ req.op \in Starting /\ worker.st = "changed"
         /\ rc = "refused" => ~restored /\ req.op \in Starting /\ worker.st # "changed"
         /\ operation_finish(rc, restored)
         /\ IF restored
              THEN /\ applied' = applied \ {call}
                   /\ ledger' = [open |-> ledger.open \ {call},
                                 covered |-> ledger.covered \cup (ledger.open \ {call}),
                                 partly |-> ledger.partly
                                    \cup (IF req.op = "vm reset" THEN {call} ELSE {})]
              ELSE UNCHANGED <<ledger, applied>>
    /\ UNCHANGED <<call, req, pc, code, cancel, queued, reader, group, responded,
                   answers, image, pipe, tail, object, flights, reply, seen, target>>
-----------------------------------------------------------------------------
(* The process group of a Docker CLI or of an authentication plugin.        *)

Helper ==
    /\ group.leader = "alive" /\ ~group.helper
    /\ group' = [group EXCEPT !.helper = TRUE]
    /\ UNCHANGED <<call, req, pc, code, cancel, queued, reader, worker, responded,
                   answers, core, remote>>

LeaderExits ==
    /\ group.leader = "alive"
    /\ group' = [group EXCEPT !.leader = "zombie"]
    /\ UNCHANGED <<call, req, pc, code, cancel, queued, reader, worker, responded,
                   answers, core, remote>>

(* bridge: an unsuccessful CLI ends the request.  A mutation is written only *)
(* after the Engine has answered, so without a byte of it nothing was sent.  *)
TransportFailed ==
    /\ group.leader = "zombie" /\ req.op \in Docker
    /\ pc \in {"dial", "read", "logs", "send", "sent", "confirm"}
    /\ Finish(IF Mutates(req) /\ responded THEN "outcomeUnknown" ELSE "dockerUnavailable")
    /\ UNCHANGED <<call, req, cancel, queued, reader, worker, responded,
                   answers, core, remote>>
-----------------------------------------------------------------------------
(* docker.rs and docker_context.rs: connect, negotiate the API version.    *)

ReadFailures == {"notFound", "permissionDenied", "dockerUnavailable"}

DialContext ==
    /\ pc = "dial" /\ Has(req, "context") /\ group.leader = "none"
    /\ \/ Finish("dockerUnavailable")
       \/ group' = [leader |-> "alive", helper |-> FALSE] /\ UNCHANGED <<pc, code>>
    /\ UNCHANGED <<call, req, cancel, queued, reader, worker, responded,
                   answers, core, remote>>

Negotiate ==
    /\ pc = "dial" /\ (Has(req, "context") => group.leader \in {"alive", "zombie"})
    /\ \/ pc' = "read" /\ responded' = Has(req, "context") /\ UNCHANGED <<code, group>>
       \/ Finish("dockerUnavailable") /\ UNCHANGED responded
    /\ UNCHANGED <<call, req, cancel, queued, reader, worker, answers, core, remote>>

(* kubeconfig.rs client: the selected context and its user. *)
LoadClient ==
    /\ pc = "auth"
    /\ \/ \E c \in {"configurationInvalid", "contextNotFound", "authenticationRequired"} :
              Finish(c)
       \/ pc' = "credential" /\ UNCHANGED <<code, group>>
    /\ UNCHANGED <<call, req, cancel, queued, reader, worker, responded,
                   answers, core, remote>>

(* exec_auth.rs: credentials are static, or of a plugin that runs in a      *)
(* process group of its own and whose answer counts once it has exited.     *)
ResolveCredential ==
    /\ pc = "credential"
    /\ \/ group.leader = "none" /\ pc' = "read" /\ UNCHANGED <<code, group>>
       \/ /\ group.leader = "none"
          /\ group' = [leader |-> "alive", helper |-> FALSE] /\ UNCHANGED <<pc, code>>
       \/ /\ group.leader = "zombie" /\ pc' = "read"
          /\ group' = [group EXCEPT !.leader = "reaped"] /\ UNCHANGED code
       \/ Finish("authenticationFailed")
    /\ UNCHANGED <<call, req, cancel, queued, reader, worker, responded,
                   answers, core, remote>>

(* docker.rs: a list is complete with one read; a name is resolved to the   *)
(* immutable container ID that every later step uses.                       *)
ReadContainer ==
    /\ pc = "read" /\ req.op \in Docker
    /\ \/ /\ req.op \in Named /\ seen' = [seen EXCEPT ![call] = object]
          /\ \/ Mutates(req) /\ pc' = "send" /\ UNCHANGED <<code, group>>
             \/ req.op \in Logs /\ pc' = "logs" /\ UNCHANGED <<code, group>>
             \/ ~Mutates(req) /\ req.op \notin Logs /\ Finish("ok")
       \/ req.op \notin Named /\ Finish("ok") /\ UNCHANGED seen
       \/ \E c \in ReadFailures : Finish(c) /\ UNCHANGED seen
    /\ UNCHANGED <<call, req, cancel, queued, reader, worker, responded, answers,
                   core, object, flights, reply, applied, target>>

(* kubernetes.rs: the pages of a list are collected up to a bound.          *)
ListObjects ==
    /\ pc = "read" /\ req.op \in K8s \ Named
    /\ \E c \in ReadFailures \cup {"ok", "responseTooLarge", "invalidResponse"} : Finish(c)
    /\ UNCHANGED <<call, req, cancel, queued, reader, worker, responded,
                   answers, core, remote>>

(* A uid the caller gave must be the object's; a mutation needs the uid and *)
(* the version of what it read.                                             *)
ReadObject ==
    /\ pc = "read" /\ req.op \in K8s \cap Named
    /\ \/ /\ seen' = [seen EXCEPT ![call] = object]
          /\ IF Has(req, "uid") /\ object.uid # 1 THEN Finish("conflict")
             ELSE \/ Mutates(req) /\ pc' = "send" /\ UNCHANGED <<code, group>>
                  \/ Mutates(req) /\ Finish("invalidResponse")
                  \/ req.op \in Logs /\ pc' = "logs" /\ UNCHANGED <<code, group>>
                  \/ ~Mutates(req) /\ req.op \notin Logs /\ Finish("ok")
       \/ \E c \in ReadFailures : Finish(c) /\ UNCHANGED seen
    /\ UNCHANGED <<call, req, cancel, queued, reader, worker, responded, answers,
                   core, object, flights, reply, applied, target>>

(* stream.rs: a line waits while the channel is full. *)
(* TextStream feeds one event per line into the bounded channel.            *)
HasRoom == queued < EventCap

LogLine ==
    /\ pc = "logs" /\ HasRoom
    /\ queued' = queued + 1
    /\ UNCHANGED <<call, req, pc, code, cancel, reader, worker, group, responded,
                   answers, core, remote>>

LogEnd ==
    /\ pc = "logs"
    /\ \E c \in {"ok", "responseTooLarge", "streamDisconnected"} : Finish(c)
    /\ UNCHANGED <<call, req, cancel, queued, reader, worker, responded,
                   answers, core, remote>>

ByName(id) == [by |-> call, uid |-> 0, rv |-> 0]

(* The Engine is addressed by container ID; the API server also compares    *)
(* the resource version.  0 stands for a name, whatever has it by then.     *)
ContainerCall(id) == [by |-> call, uid |-> id.uid, rv |-> 0]
ObjectPatch(id) == [by |-> call, uid |-> id.uid, rv |-> id.rv]

Send ==
    /\ pc = "send" /\ pc' = "sent"
    /\ flights' = flights \cup {IF req.op \in Docker THEN ContainerCall(seen[call])
                                                     ELSE ObjectPatch(seen[call])}
    /\ UNCHANGED <<call, req, code, cancel, queued, reader, worker, group, responded,
                   answers, core, object, reply, applied, seen, target>>

(* mutation_failure: a 4xx answer means the server changed nothing; any     *)
(* other failure leaves the outcome unknown.                                *)
Rejections == {"conflict", "notFound", "permissionDenied"}

mutation_failure_as_read(answer) ==
    IF answer \in Rejections THEN answer ELSE "dockerUnavailable"

mutation_failure(answer) == IF answer \in Rejections THEN answer ELSE "outcomeUnknown"

Answered ==
    /\ pc = "sent" /\ reply # "none"
    /\ IF reply # "done" THEN Finish(mutation_failure(reply))
       ELSE IF req.op \in Confirmed
         THEN pc' = "confirm" /\ UNCHANGED <<code, group>>
         ELSE Finish("ok")
    /\ UNCHANGED <<call, req, cancel, queued, reader, worker, responded,
                   answers, core, remote>>

(* confirmed: the accepted mutation is read back. *)
Confirm ==
    /\ pc = "confirm"
    /\ Finish("ok") \/ Finish("outcomeUnknown")
    /\ UNCHANGED <<call, req, cancel, queued, reader, worker, responded,
                   answers, core, remote>>
-----------------------------------------------------------------------------
(* The Engine or the API server, and whoever else uses it (external).       *)

Decide(f, answer) ==
    /\ flights' = flights \ {f}
    /\ reply' = IF f.by = call /\ pc = "sent" THEN answer ELSE reply
    /\ UNCHANGED <<call, req, pc, code, cancel, queued, reader, worker, group,
                   responded, answers, core, seen>>

ServerApplies ==
    \E f \in flights : \E answer \in {"done", "broken"} :
        /\ f.uid \in {0, object.uid} /\ f.rv \in {0, object.rv}
        /\ object' = [object EXCEPT !.rv = @ + 1]
        /\ applied' = applied \cup {f.by}
        /\ target' = [target EXCEPT ![f.by] = object.uid]
        /\ Decide(f, answer)

ServerRefuses ==
    \E f \in flights : \E answer \in Rejections \cup {"broken"} :
        /\ UNCHANGED <<object, applied, target>>
        /\ Decide(f, answer)

(* A change that no request has read before and none will meet is no step. *)
Others ==
    /\ object.rv <= MaxChanges
    /\ flights # {} \/ (pc \in {"read", "send"} /\ req.op \in Named)
    /\ \E replaced \in BOOLEAN :
         object' = [uid |-> object.uid + (IF replaced THEN 1 ELSE 0), rv |-> object.rv + 1]
    /\ UNCHANGED <<call, req, pc, code, cancel, queued, reader, worker, group,
                   responded, answers, core, flights, reply, applied, seen, target>>
-----------------------------------------------------------------------------
Front == Accept \/ Route \/ WriteResult \/ WatchAgain \/ SpawnWorker \/ WriteRequest
         \/ WorkerDone \/ ReplyCut \/ DialContext \/ Negotiate \/ LoadClient \/ ResolveCredential
         \/ ReadContainer \/ ListObjects \/ ReadObject \/ LogEnd
         \/ Send \/ Answered \/ Confirm \/ TransportFailed
Core  == CoreQuery \/ CoreUnrecorded \/ operation_begin \/ CoreRefuse \/ CoreMend
         \/ CoreRestart \/ CoreChange \/ CoreSucceed \/ CoreFail
Next  == Front \/ Core \/ Cancel \/ ReaderLeaves \/ Deliver \/ Interrupted \/ Deadline
         \/ StopWorker \/ WorkerReady \/ WorkerDies \/ WorkerExits \/ Helper \/ LeaderExits
         \/ LogLine \/ LogWritten \/ live_error \/ ServerApplies \/ ServerRefuses \/ Others

Spec == Init /\ [][Next]_vars

(* The runtime polls every ready future, the deadline of a request passes   *)
(* (timeout is at most 3600 s), the reader of the output reads or leaves,   *)
(* and a worker goes on.  Nothing is assumed of servers, plugins or CLIs.   *)
Fairness ==
    /\ WF_vars(Route \/ WriteResult \/ WatchAgain \/ SpawnWorker \/ WriteRequest \/ WorkerDone
               \/ live_error)
    /\ WF_vars(Deliver) /\ WF_vars(Interrupted \/ Deadline) /\ WF_vars(StopWorker)
    /\ WF_vars(WorkerReady \/ Core \/ WorkerExits)

FairSpec == Spec /\ Fairness
-----------------------------------------------------------------------------
(* The answers that say: what was asked for did not happen.                 *)
NoEffect == {"invalidRequest", "cancelled", "conflict", "notFound", "permissionDenied",
             "dockerUnavailable", "authenticationFailed", "configurationInvalid",
             "contextNotFound", "authenticationRequired", "invalidResponse",
             "coreUnavailable", "restartRequired", "responseTooLarge",
             "admissionRefused", "guestFilesystemDamaged"}

(* Those that say that nothing at all was changed: the others are also given *)
(* by a start or a reset that failed half way, knowing what it left.        *)
Untouched == NoEffect \ {"cancelled", "restartRequired", "coreUnavailable",
                         "admissionRefused", "guestFilesystemDamaged"}

Codes == NoEffect \cup {"none", "ok", "outcomeUnknown", "timeout", "coreProtocol",
                        "profileUnavailable", "operationFailed", "streamDisconnected"}
Workers == [st : {"none", "boot", "ready", "begun", "mended", "changed", "reply", "exited", "cut"},
            input : BOOLEAN, term : BOOLEAN, cancelled : BOOLEAN, result : Codes,
            ok : BOOLEAN, id : Nat, attempt : 1..2, unknown : BOOLEAN]
Records == [status : {"none", "running", "completed", "outcomeUnknown", "cancelled",
                      "failed", "restartRequired"},
            owner : Nat, recovery : BOOLEAN]
Resources == [uid : Nat, rv : Nat]

TypeOK ==
    /\ call \in 0..MaxCalls /\ req \in RequestSet
    /\ pc \in {"idle", "parsed", "spawn", "write", "waiting", "stopping", "dial", "auth",
               "credential", "read", "logs", "send", "sent", "confirm", "draining", "sleep"}
    /\ code \in Codes /\ cancel \in BOOLEAN /\ reader \in BOOLEAN
    /\ queued \in 0..EventCap /\ worker \in Workers
    /\ pipe \in 0..PipeCap /\ tail \in -1..PipeCap
    /\ image \in {"stale", "fresh"} /\ record \in Records
    /\ ledger \in [open : SUBSET Calls, covered : SUBSET Calls, partly : SUBSET Calls]
    /\ group \in [leader : {"none", "alive", "zombie", "reaped"}, helper : BOOLEAN]
    /\ responded \in BOOLEAN /\ object \in Resources
    /\ flights \subseteq [by : Calls, uid : Nat, rv : Nat]
    /\ reply \in {"none", "done", "broken"} \cup Rejections
    /\ answers \in [Calls -> Codes \cup {"unread"}] /\ applied \subseteq Calls
    /\ seen \in [Calls -> Resources] /\ target \in [Calls -> Nat]

(* An answer that says that what was asked for did not happen stays true:   *)
(* no VM that the call launched is left, and no later delivery of what it   *)
(* had sent changes anything.  Most of these answers say that nothing at    *)
(* all was changed; a start or a reset, and nothing else, may have changed  *)
(* the guest of a running VM, stopped a VM that was not ready or deleted    *)
(* files before it says cancelled, refused, damaged or to run again.        *)
(* Success of a mutation means that it took effect.  (core.rs               *)
(* control_failure_code, cmd_start.c start_finish, cmd_reset.c:105-106,     *)
(* docker.rs mutation_failure, docker_context.rs possibly_sent)             *)
HonestAnswer ==
    /\ \A c \in Calls : answers[c] \in NoEffect =>
           c \notin applied /\ \A f \in flights : f.by # c
    /\ \A c \in Calls : answers[c] \in Untouched => c \notin ledger.partly
    /\ call \in ledger.partly => req.op \in Starting \cup {"vm reset"}
    /\ pc = "idle" /\ call > 0 /\ Mutates(req) =>
           (answers[call] = "ok" => call \in applied)

(* As core.rs:281-282 has it of a start that admission refused: it changed  *)
(* nothing.  It does not hold: cmd_start.c:626 asks admission after         *)
(* guest_deployment_recover and the refresh of a running VM's guest.        *)
RefusedChangedNothing ==
    \A c \in Calls : answers[c] = "admissionRefused" => c \notin ledger.partly

(* A mutation changes the container or object the request resolved its name *)
(* to, never one that took over the name since.  (docker.rs:142-150,         *)
(* kubernetes.rs preconditions)                                             *)
ChangesWhatItRead == \A c \in applied : target[c] \in {0, seen[c].uid}

(* A VM change that was neither completed nor undone reads as an unknown    *)
(* outcome until an operation completes, or fails knowing the state it      *)
(* leaves the VM in: not hidden by the death of its worker, the reuse of    *)
(* its pid, a refusal, a failure of unknown extent or a restart.  (operation.c, *)
(* cmd_start.c start_finish, cmd_reset.c)                                   *)
UnknownStays ==
    Unsettled # {} /\ ~(Alive /\ worker.id = record.owner) =>
        Snapshot.status = "outcomeUnknown" \/ Snapshot.recovery

(* As control.h:49-51 has it of a start: an earlier unknown outcome stays   *)
(* unknown after any failure.  It does not hold: a start that stopped its   *)
(* VM again, or recovered its guest, writes "failed" over it                *)
(* (cmd_start.c:989-991).                                                   *)
UnknownStaysAfterFailure ==
    ledger.open # {} /\ ~(Alive /\ worker.id = record.owner) =>
        Snapshot.status = "outcomeUnknown" \/ Snapshot.recovery

(* A request is answered only after the worker it started is reaped and the *)
(* CLI group it owned is killed and reaped, whether it succeeded, failed or *)
(* was interrupted; a worker whose reply was cut off can only exit.         *)
(* (core.rs call_executable, query_process.rs Drop)                         *)
NothingLeftBehind ==
    pc \in {"idle", "draining", "sleep"} =>
        /\ ~Alive /\ group.leader \notin {"alive", "zombie"}
        /\ req.op \in Docker => ~group.helper

(* A cancelled request ends, whatever its servers, plugins and CLIs do.     *)
CancelledEnds == cancel ~> pc = "idle"
=============================================================================
