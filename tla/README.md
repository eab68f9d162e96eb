# Hamn in TLA+

Hamn runs Linux virtual machines with Docker on macOS. A C host program starts,
supervises and stops one VM for each profile, changes the guest over SSH, and
forwards what containers publish. A Rust program installs and updates Hamn and
draws its terminal interface. C and shell programs in the guest configure
Docker and containerd and answer the host.

This directory models the parts of Hamn in which several processes, a crash or
a lost message can leave something wrong behind: files, flocks, supervisors,
guest writers, journals, listeners, partial downloads, and what a caller or a
user is told about them. Every definition is translated from the
source; `PROJECT.json` ("map") names the lines of each.

## Contents

1. [Inventory](#inventory)
2. [Modules](#modules)
3. [Runs](#runs)
4. [Findings](#findings)
5. [Fairness](#fairness)
6. [Proofs](#proofs)
7. [Assumptions and what is left out](#assumptions-and-what-is-left-out)
8. [Plan](#plan)
9. [Working with the project](#working-with-the-project)

## Inventory

| Part | State it keeps | Operations | Why it is hard | What makes it correct |
|---|---|---|---|---|
| Guest mutation fence, `host/core/remote_mutation.c` | guest flock, cancellation markers, `cleanup_pending` | run a guest command, fence it when it did not succeed | SSH sessions that are delayed, lost or time out; the host's death; a guest reboot | a command that was fenced never runs afterwards; two never run at once |
| Guest deployment, `host/core/guest_deployment.c`, `deployment_recovery.h`, `guest/scripts/*` | guest backup with its phase, reapply record, runtime files; marker on the host | begin, configure, commit, roll back, recover, reapply, refresh, reconcile | power loss between any two writes, cancelled starts, a late command of a dead host | a ready backup is complete; nothing changes without one; a reported commit is not undone; what runs is what the marker says, or there is evidence |
| VM lifecycle, `host/core/lifecycle.c`, `state.c`, `host/cmd/cmd_{start,stop,reset,status}.c` | lifecycle flock, `vmrun.spawning`, `vmrun.identity`, `vmrun.pid`, `vmrun.sock`, `state.json`, `disk.img` | start, stop, reset, probe, adopt, clean up | operations that die and leave a supervisor behind; recycled pids; probes without the lock | one VM for a disk; a supervisor can be found again; nothing is removed under one |
| VM supervisor, `host/cmd/cmd_vmrun.c`, `host/vmrun/ctlsock.c` | its stage, its VM, the control socket | hand-off, serve, stop, exit handlers | it outlives its parent; its exit takes several steps | its exit removes only what is its own |
| Admission, `host/core/admission.c` | admission flock, configured memory of each profile | measure, decide, start | profiles are measured one after the other while VMs come and go | the admitted VMs fit into the host's memory |
| Release transaction, `control/install_support/*.rs`, `host/image/fetch.c` | command link, generations, image selection, images, journal, retired journals | install, update, recover, collect, VM start | a process killed between any two renames; several HOMEs with one installation; VM starts that take no lock | host and guest image change together or not at all; what recovery needs is kept |
| Port forwarding and Docker observer, `host/fwd/{ports,docker_observer,udp_proxy}.c`, `host/sshmgr/*` | `port-forwards.tsv`, failure list, lease, operation flock, the master's listeners, relays and their pidfiles | one pass of an observer; start and stop of the VM | control requests that outlive the observer, lost answers, a replaced SSH master, relays that die | every listener has a record; a stop leaves nothing; a port that is not forwarded is listed |
| Operation record, `host/core/operation.c`, `mutation_lock.c` | the profile's last operation | begin, end, read | the death of its process, a reused pid | an unknown outcome is never shown as another |
| Profile retirement, `host/core/purge.c`, `host/cmd/cmd_delete.c` | hidden trees of deleted profiles | rename, remove, sweep | interrupted removals beside new profiles of the same name | a live profile is never swept; what was hidden is removed in the end |
| Raw base cache, `host/image/raw_cache.c` | published bundles, digest locks | stage, publish, clone, retire | a crash before the data is durable; collection beside a clone | what is cloned is what was verified |
| Workspace files, `host/core/{workspace,apply}.c` | plan and configuration | plan, apply | a plan that is evaluated before the locks | what is applied is what was evaluated |
| Headless requests and the control worker, `control/{headless,service,model,core}.rs` | the request under way, the worker process, its log pipe, the event channel | validate, route, spawn, cancel, reap, answer | a cancellation, a deadline or a leaving reader that races the result; a worker that dies | the answer tells the truth about the effect; nothing that was started outlives it |
| Docker and Kubernetes requests, `control/{docker,docker_context,query_process,kubernetes,kubeconfig,exec_auth}.rs` | a CLI or plugin process group, a mutation under way to a server | resolve, read, send, confirm | an answer that is lost after the mutation was sent; a name that another resource took over | only what was read is changed; a change that may have happened is not called a failure |
| Terminal interface, `control/{tui,tui_state,native,native_actions,environments,cluster_kinds,terminal_session}.rs` | a state for each workspace, the read under way, the change, sessions, overlays | keys, answers, ends of changes and sessions, signals, exit | answers that arrive late, after a swap, a new target or another list; an exit during a change | keys act on rows of the target on the screen; every unknown outcome is told; an exit ends |
| Downloads, `control/install_support/download.rs` | artifact lock, partial file with its validator, published file | look up, resume, verify, publish, retry | broken connections, a replaced file, kills and power loss, collection beside it | only the declared bytes are published; no fault keeps a later attempt from succeeding |
| Update notice, `control/install_support/upgrade.rs` | cached answer of the release server, notice shown | check, back off, show | several consoles at once, a clock that moves back | a notice is shown once for a release |
| Guest agent, `guest/agent/*` | connections and their buffers | accept, read, dispatch, close | requests in pieces, pipelining, closing inside a handler | each request is answered once and nothing is used after its close |
| Mount change relay, `host/fwd/mount_inotify.c` | batches of events, lease | batch, send, overflow | bursts and lost connections | a change is sent or an overflow is |
| Parsers, seeds, images, shims, logs, diagnostics, build tools | none that outlives a call | | | |

How the parts meet. A start or stop holds the profile's lifecycle flock and
then its mutation flock. A start takes the host-wide admission flock, prepares
the disk from the selected guest image, spawns vmrun with an inherited
spawn-guard descriptor, waits for its hand-off, opens an SSH master, reconciles
the guest (deployment transaction, each command through the mutation fence),
and starts the observer. A stop probes and ends the supervisor, revokes the
lease, stops the forwards under the operation flock, ends the master and
removes the files. The updater takes its own transaction locks, then each
HOME's cache lock, then the installation locks in byte order, and no profile
lock; a VM start sees it only through the journal and the image selection. Its
artifacts come from the download cache, each under the lock of its digest.

A headless request runs one worker process, which calls the C core and keeps
the operation record around the call; the console runs the same requests as
reads and changes, at most one change at a time, and the native CLIs as
terminal sessions.

`PROJECT.json` ("components") lists every part with its status, and "hazards"
what can go wrong at which line, with the properties that would catch it.

## Modules

| Module | Models | State and actions beside the code |
|---|---|---|
| `MutationContract` | what `remote_mutation_run` promises | a command is idle, may run, runs or is over; a closed one does not run |
| `RemoteMutation` | `remote_mutation.c` and the script it sends | `guest[w]` is where a writer is; `Run`, `Publish`, `Barrier...` are the host's calls; `Arrive` to `Finish` the guest's; `HostCrash`, `Reboot` |
| `GuestDeployment` | `guest_deployment.c`, the recovery script and the guest's transaction script | each object has a value and the set of values a power loss may leave; a write adds to the set, `Sync` reduces it, `Crash` picks from it. The host's start is `op`, the script that runs in the guest `script`, and what a dead host sent `inbox` |
| `VmLifecycle` | start, stop, reset, probe, vmrun | the files as the process they name; `op` the operation under the lifecycle flock; `probe` one probe for each prober; `stage` and `vm` the supervisors. Each file operation is one action |
| `Admission` | admission and the starts around it | `config`, `vm`, the flock, and one start for each profile that reads and probes the others one by one |
| `UpdateTransaction` | update, journal, generations, collection, the look of a start at them | `up` is the one process under the transaction locks, killed between any two of its renames; generations carry their previous target, receipt and recovery roots |
| `Requests` | the request registry and `validate` of `control/model.rs` | an operation with the options it was given; which requests mutate, and which are valid |
| `ControlRequest` | one headless process after another, with its worker, its CLI group and its servers | `pc` is the stage of the call, `worker` the worker with what it has answered, `record` the operation record, `pipe`, `tail` and `queued` the logs and events on their way, `flights` the mutations a server has not decided. `Interrupted`, `Deadline` and the departure of the reader may come at any stage |
| `Console` | the select loop of the terminal interface | `st` has the state of each workspace and `shown` the one on the screen; `job` is the read under way with its answer, `change` the running change, `cli` and `sessions` the terminal sessions, `overlay` what is drawn over the view, `kinds` the lookup of a cluster's kinds. One action for each key of the handler and for each branch of the loop |
| `ReleaseDownload` | the acquisition of an artifact | `dir` is the cache directory, `disk` and `synced` what of it survives a power loss, `run` each process with its counters, `server` the version behind the URL. A file is its blocks, each with the version it came from |
| `PortForwarding` | records, observers, master, relays, and the start and stop around them | `file` is `port-forwards.tsv`, `obs` the passes with their locals, `op` the start or stop, `held` the master's listeners, `relay` and `pidfile` the UDP side. A request that lost its observer is the pc "orphan", which still holds the flock |

The theorems of a component are in a module `...Proofs`:
`RemoteMutationProofs`, `GuestDeploymentProofs`, `VmLifecycleProofs` (with those
of `Admission`), `UpdateTransactionProofs`, `PortForwardingProofs`,
`ControlRequestProofs`, `ConsoleProofs` and `ReleaseDownloadProofs`.

`MC*` modules add symmetry, a view or a constraint for TLC. Definitions whose
comment begins with "Fault:" are plausible mistakes in the definition after
them; no specification uses them. Replacing the definition by its fault makes
the property that "mutants" names fail, which shows that the property depends
on that code.

`GuestDeployment` takes its remote calls as `MutationContract` allows them, and
`RemoteMutation` is proved to implement that contract. `Admission` takes the
process probe as one step; `VmLifecycle` has its steps. `GuestDeployment` needs
one operation at a time, which is what the lifecycle flock of `VmLifecycle`
gives. `ControlRequest` uses `Requests` and takes the C core's work on a VM as one
step with the outcomes `VmLifecycle` and `GuestDeployment` have; `Console` takes
the end of a change as an outcome that `ControlRequest` may answer.
`UpdateTransaction` takes an artifact as there or not, which is what
`ReleaseDownload` publishes.

## Runs

| Run | Instance | What it shows |
|---|---|---|
| `remote_mutation` | 3 writers | a settled fence is final, writers exclude each other, no writer is started beside one that may still run, the fence implements `MutationContract`, and a writer that reached the guest ends |
| `guest_deployment` | 2 configurations, 2 tokens, 1 late command | every crash, kill and cancellation: a ready backup is complete, changes are made only under one, a runtime that is not the marker's leaves evidence; a ready backup stays complete and a reported commit is not undone even when a dead host's command comes among those of the next start |
| `vm_lifecycle` | 3 process identities, one observer that probes without the lock and may adopt late, but not over the name of another living vmrun | one VM, always findable, nothing cleaned, deleted or called stopped under a supervisor that is not inside exit(); exit handlers remove only their own identity |
| `vm_lifecycle_observer` | the same without that restriction | a violation: see the findings |
| `admission` | 3 profiles, sizes 1 and 2, host 4, reserve 1 | no overcommitment; the admission flock is given up on every path |
| `update` | 1 HOME, 3 generations, 2 releases, VM starts | an update is seen whole or not at all, and the selected image is there |
| `update_homes` | 2 HOMEs, 3 generations | no journal loses what it needs, and a committed release is not undone, by a recovery in another HOME either |
| `ports_tcp` | 1 port, 2 observers, 2 masters; every command may go unanswered and every write may fail | a listener loses its record in one way only, when its stop was not answered at all; a stop that reported success leaves nothing else and keeps it so; an unlisted port is forwarded unless its cancel went unrecorded |
| `ports_udp` | 1 port on 2 addresses, 2 relays, room for 1 record | no relay starts beside one that lives, the failure list fits at the limit |
| `control_request` | 2 calls out of 13 requests, 1 event and 1 log chunk of room, 1 change by others | an answer that says that what was asked for did not happen stays true, one that says nothing was changed too, and a success is one; a mutation changes what was read; an unknown outcome of a VM stays visible until an operation completes or knows what it leaves; worker and CLI group are gone before the answer; a cancelled request ends |
| `console` | 15 users, 2 identities, 1 change, 1 session, at most 2 lookups | the rows a key can act on, and the kinds, are those of the target on the screen, the cursor stays with its row, every unknown outcome is told, a confirmed exit ends |
| `release_download` | 2 processes, 2 blocks, 1 retry, 2 faults, 1 replacement | only the declared bytes are published and survive a power loss, named versions are not joined, the reported counts exceed the truth by no more than what a failed write left, every process has the artifact in the end |

These are the runs of `PROJECT.json`. More configurations are kept beside them
and run by hand: those of "Further disagreements" below, which end in a
counterexample, and four that pass:

- `GuestDeploymentLate.cfg`: one configuration and a late command, without the
  bound on later edits: there is at most one backup, and a reported commit stays.
- `UpdateTransactionLive.cfg`: an interrupted update is recovered.
- `PortForwardingLive.cfg`: a published port is forwarded or listed again and
  again.
- `PortForwardingBound.cfg`: a TCP port on two addresses with room for one
  record: at the limit too a listener loses its record only by silence, and the
  failure list names every port left without an answer.

Some properties are stated in the modules and are in no run, because another
one says more or a theorem has them: `TypeOK` everywhere, and, with theorems,
`DetailIsOfSelectedRow`, `CountsWhatRuns`, `CommandExists`, `TrustIsEarned` and
`AtMostOneBackup`. They hold in the instances above and can be added to a
configuration.

Why the bounds are enough.

- *Writers 3*: one that is fenced, one of a dead host process and one of the
  present one. A fourth meets only states that one of these was in.
- *Configurations 2* let a profile change and change back. *Tokens 2* are a
  transaction and the one that finds its remains; a token that nothing names is
  used again. *MaxLate 1*: a start overtakes one command of a dead host. Once it
  did, a view drops what backups contain, which is sound because control and the
  properties look only at whether they are there and complete, and the profile
  is not edited any more.
- *Procs 3*: an old supervisor inside exit(), a dead one that a file names and a
  new one. An identity that is dead and named by nothing stands for a fresh one,
  so runs are of any length.
- *Profiles 3*: one start that measures, one that is missed, one that runs.
  Sizes, total and reserve are chosen so that two VMs may fit and three may not.
- *MaxGen 3*: the generation in use, its predecessor (which rollback needs), and
  the one an update makes; the collection has something to remove. The runs are
  bounded by the generations ever made. `update_homes` has one release, so the
  part of `CommittedStays` about a newer one is idle there; the theorem
  `CommittedAlwaysStays` has it for any releases.
- *Observers 2*: the one with the lease and a revoked one. *Masters 2*: one is
  replaced; a name nobody remembers is used again. *Relays 2*: a relay and its
  successor. *MaxRecords 1* puts a port on two addresses at the limit.
- *MaxCalls 2*: a call that leaves something behind (a record, a mutation under
  way, a group) and one that meets it. The 13 requests have each route, each
  class of answer and a request that is refused. *EventCap 1* and *PipeCap 1*
  make a full channel and a full pipe common. *MaxChanges 1*: the resource is
  replaced, or changed, once, between any two steps of a call.
- *Hands*: all keys together are out of reach, so a behaviour has one user who
  presses the keys of one part of the console, three to five of them; answers,
  ends, signals and ticks come at any time beside them. A hand pairs the keys
  whose handlers touch the same state. *Ids 2* and the lists <<a,b>>, <<b,a>>,
  <<b,b>> tell an identity from a position. The user `Targets` may start two
  lookups of kinds, that of a context that was left and that of the present one,
  and `Reads` one; the others start none.
- *Size 2*: a partial file is empty, half or whole. *Attempts 1* is one retry,
  after which a failure is reported and the process begins again. *MaxFaults 2*:
  a fault and one during the recovery from it. *MaxChanges 1*: a partial of the
  other version.

## Findings

Each is a configuration that ends in a counterexample to what a comment, a
message or a header of the code says.

- `vm_lifecycle_observer` (quoted in `PROJECT.json`): a probe without the
  lifecycle flock that writes its adoption late overwrites the identity of a
  younger vmrun; a stop then cleans up under it. It takes a prober delayed across
  a stop and a start. `vm_lifecycle` and the theorems leave out exactly this
  write: `AdoptionSparesOthers` says that no observer is about to write over the
  name of another living vmrun.

Further disagreements, each with its configuration:

- `GuestDeploymentRevert.cfg`, `guest_deployment.c:588`: a refresh that committed
  in the guest and lost its host marker is forgotten when the configuration is
  changed back; the next start reports success with Docker on the other
  configuration.
- `GuestDeploymentKilled.cfg`, `cmd_start.c:594`: a cold start killed before its
  reconciliation begins leaves a running VM whose Docker keeps the previous
  boot's addresses, and the next start does not repair it. The same is left by a
  start that refreshes a running VM, finds it not ready and boots it again:
  `deployment_current` is the one of `cmd_start.c:545`, and the refresh it leads
  to returns at once (`guest_deployment.c:538`).
- `VmLifecycleExit.cfg`, `cmd_vmrun.c:155`: a vmrun inside exit() has removed its
  identity while its VM is on; a reset in that window deletes the disk
  (`DiskRemovedUnderStoppedVm`), against `cmd_reset.c:88`. `VmHasDisk` and
  `StoppedIsStopped` therefore speak of supervisors that are not inside exit().
- `UpdateTransactionStage.cfg`, `journal.rs:248`: a process killed in
  `journal::prepare` leaves a stage that no later run removes and that defers
  every collection.
- `UpdateTransactionStart.cfg`, `fetch.c:167`: a VM start that looked for a
  journal just before it appeared reads the selection of an unfinished update.
- `PortForwardingUnanswered.cfg`, `ports.c:789`: `stop_record` takes a control
  command that was not run, or passed its deadline, for a dead master and drops
  the record of a listener that is still held (`NoOrphan`). A stop that meets
  this reports success with the listener held, because `lifecycle.c:857` ignores
  what `ssh_master_exit` returns. `OrphanOnlyBySilence` and `CleanStopReleases`
  say that there is no other way.
- `PortForwardingHalf.cfg`, `ports.c:1489`: a pass that cancelled a forward and
  could not save leaves a committed record; when the port is published again it
  is neither forwarded nor listed, until the observer or the master is replaced
  (`UnlistedIsForwarded`). `UnlistedOnlyIfUndone` says that there is no other way.
- `ControlRequestRefused.cfg`, `cmd_start.c:626`: admission is asked after
  `guest_deployment_recover` and the refresh changed the guest of a running VM;
  the answer is `admissionRefused`, of which `core.rs:281` says that nothing was
  changed (`RefusedChangedNothing`). A reset that is cancelled after it deleted
  the disk (`cmd_reset.c:106`), and a start that finds the guest's file system
  damaged after it stopped a VM that was not ready, answer after a change as well.
- `ControlRequestFailed.cfg`, `cmd_start.c:989`: a start that stopped its VM again
  records "failed" also over an earlier unknown outcome, which `control.h:49`
  says stays unknown after any failure (`UnknownStaysAfterFailure`); so does a
  cancelled reset.
- `CountsAreExact` of `ReleaseDownload`, put into `ReleaseDownload.cfg`: a run
  whose write failed in the middle of a chunk (`download.rs:635`) keeps the bytes
  and does not count them; its next attempt reports them as reused (`:809`) and
  not as downloaded, which `:770` calls the payload bytes received. `CountsAreTrue`
  bounds the difference by what was lost in this way.
- `ConsoleConfirm.cfg`, `tui.rs:1081`: a question on the screen is not always the
  one that the next key answers (`ConfirmsWhatIsShown`): with a native action to
  confirm and the question whether to quit both open, the action is drawn and
  `y` confirms the exit.
- `ConsoleReload.cfg`, `environments.rs:82`: a session of one workspace that is
  resumed and left while the other is on the screen is reloaded into that other
  one; the assertion of `Selection::apply` fails (`ReloadFitsTheScreen`).
- The picker of contexts is opened over the rows of the list before it and shows
  them until its own are read. No key acts on them (`RowsAreOfTheView` quantifies over the keys that can act).
- `ConsoleMenu.cfg`: rows that are dropped under an open menu (the VM was not
  ready) and read again after a change ended select the first row; the menu then
  acts on a row it was not opened for (`MenuActsOnItsRow`).
- `ConsoleLoading.cfg`: Enter in the settings swaps the workspace without ending
  the read under way; the hidden state stays "loading" (`HiddenIsNotLoading`).
- `ConsoleQuit.cfg`: the question whether to quit stays on the state that was
  swapped out; answered later, with no change under way, it leaves the console
  waiting for a change that does not exist (`ExitHappens`).

Seen while reading, without a run: `state.runtime` is not reset when the target
changes; `exec_auth.rs` may signal the group of a plugin whose leader it has
already reaped; an operation whose last record cannot be saved is answered
`operationFailed` while its record reads "running" until the worker exits.

One difference between comment and code has no run: `guest_deployment.h:8`
speaks of a marker of the host release, and the fingerprint in it covers
`docker_daemon_json` only; the model follows the code.

## Fairness

- `RemoteMutation`: each stage of a writer that reached the guest ends, by
  `flock --wait` and the guest's `timeout`. Nothing is assumed of a session that
  is still under way to the guest.
- `Admission`: a start that has the flock works on (`Works`): downloads, probes
  and boots all have deadlines. A start that polls for the flock is not assumed
  to get it, so the run does not claim that every start is served.
- `UpdateTransaction`: a process that runs takes a step or fails; updates are
  run again; each recovery step, tried again and again, succeeds in the end
  (strong fairness of the single steps). Failures and kills may occur any number
  of times.
- `ControlRequest`: the process goes on, the output thread delivers while it is
  read, a cancellation or a deadline that is due is seen, a worker that is told
  to stop is reaped (TERM, then KILL), and the worker itself goes on. Nothing is
  assumed of servers, CLIs, plugins, users or readers.
- `Console`: a cancelled change ends, which is `CancelledEnds` of
  `ControlRequest`, and the loop after the console finishes. Users, reads and
  sessions may stop for good.
- `ReleaseDownload`: a process goes on, and a user whose attempt failed runs it
  again; a process that asks for the artifact lock again and again gets it
  (strong fairness: the holder's work ends); the server returns to the declared
  version. Faults are bounded.
- `PortForwarding`: an observer that lives goes on, because every command and
  wait has a deadline; Docker's answer and each write succeed again and again
  (strong fairness); a stop under the flock ends. Answers of the master are not
  assumed: without them the port must be listed.

## Proofs

Eight modules hold theorems, checked by TLAPS for every value of the constants:
any numbers of processes, files, masters, requests, lists and faults. Each
module states an inductive invariant, proves that `Init` gives it and that every
action keeps it, one lemma for each action or group of actions, and derives the
properties from it.

**`RemoteMutationProofs`** assumes only that `NoWriter` is not a writer. The
inductive invariant adds to the properties that the flock is held by exactly
the writer past it (`LockInv`), and what is known of the call under way: once
the marker is published and the barrier is next, the writer runs, or is
harmless (`CallInv`). A harmless writer stays so in every step
(`HarmlessStable`), because only the writer removes its marker. From it:
`TypeCorrect`, `MutualExclusion`, `FenceIsFinal`, `NoRace`, and `Refinement`,
which maps every step to a step of `MutationContract` or to a stutter.

**`GuestDeploymentProofs`** assumes that the names differ
(`ConstantsAssumption`), and bounds neither edits nor late commands. The
invariant has three parts. *The disk* (`FsInv`): what is current is among what a
crash may leave, a disk that may read "ready" has all of its data, and no disk
holds two entries. *The script* under the guest lock (`ScriptKnows`): what it has
already made durable at each of its steps. *Who acts* (`Control`): the host's
own command is the one it waits for, the operation is alone after its recovery
was answered unless a command came late, and nobody else begins its token. What
the host relies on follows: while it configures, its backup is on every disk
(`Backed`); a commit it was told of is off every disk (`Finals`). The file
system primitives have one lemma each (`WriteItemFs` to `CrashFs`), so that a
step of the script is an application of one of them. From it: `TypeCorrect`,
`ReadyAlwaysComplete`, `AlwaysAtMostOneBackup`, `AlwaysUnderBackup`,
`CommitAlwaysFinal`.

`MarkerAlwaysVouches` needs a second invariant on top of it, `VInv`, about what a
power loss may leave and not only about what is current: where a disk may hold no
entry (`Entries`), every disk has the marker's configuration (`SoundDisk`), or the
reapply record is durable (`Recorded`), or nothing vouches because there is no
marker or its commit waits to be recorded (`Excused`). What carries this through
a transaction is what each command relies on when it begins (`Due`), on its way
(`InboxVouches`) and at each of its steps (`ScriptVouches`): a rollback has a
backup of what the marker says or a record that outlives it, a commit of another
configuration is excused, a recovery that retires an entry has made the record
durable first. On the host's side, what it counts on at each stage (`OpVouches`),
what must be on every disk before it writes its marker (`OpDurable`) and which
kinds of operation reach which stage (`OpKinds`). All but the last hold until a
dead host's command comes late. The power loss is the reason for the
quantification over disks: `CrashVouches` lets it pick any of them.

**`VmLifecycleProofs`** assumes that the names differ. `TypeCorrect` needs nothing
else. The others hold for any observers, which probe and adopt without the
lifecycle flock, and have the hypothesis `[]AdoptionSparesOthers`: no observer is
about to write over the name of another living vmrun. Without it they are false
(`vm_lifecycle_observer`). What an observer may do under it is write what the
file says already, or the name of a process that is on its way out or dead, and
that makes no process present (`ObserversKnow`). The argument is about which supervisors are *present*:
active, leaving with their identity still in the file, or leaving with the spawn
guard still held. The invariant says that at most one is present and that the
files name it (`Files`), that the operation's position tells which
(`OpKnows`: none when it prepares or cleans up, only the one it signals when it
stops), that a probe's position does (`ProbeKnows`: "stale" means none, a
verified answer means only that one), and what follows for the disk and the
state file (`Disks`, `StoppedIsStopped`). `VmrunStepKnows`, `ProbeStepKnows`,
`StopStepKnows` and `StartStepKnows` prove it step by step. From it come
`OneVmAlways`, `VisibleAlways`, `CleanupAlways`, `DiskAlways`, `StoppedAlways`
and the action property `UnlinksOwnAlways`.

Its last part is about `Admission`, instantiated as `Adm` with any finite set of
profiles (`AdmissionConstants`). The invariant `AdmInv` says what each start knows
at its place (`Claims`): from the measurement to the spawned VM it holds the
flock; what it has summed up so far covers the VMs of the profiles it has
finished with, and the size it has read covers the VM it is about to probe, while
any of them may end meanwhile; once admitted, its own memory fits together with
all VMs there are; and it saves what it asked for before its VM runs with it.
`OthersClaim` shows that no step of one profile spoils what another knows: without
the flock VMs only end. The sums need facts about `SumFunction` over any finite
set, for which there is no induction here: that a set of subsets has a smallest
member (`Smallest`, from cardinalities and the lemma `Least`) replaces it. By it
the recursive function behind `SumFunction` exists, has natural values and does
not depend on the order of the summands (`SumIsSum`), so that changing one
summand changes the sum by as much (`SumUpdate`). From it: `NeverOvercommitted`
and `AlwaysCountsWhatRuns`.

**`UpdateTransactionProofs`** assumes that `None` is no journal
(`NoneIsNoJournal`). The invariant is about the disk (`Disk`: the generations a
journal names keep its HOME among their recovery roots, an attempted generation
belongs to one journal and is not committed) and about what the process under
the locks knows at its place (`Knows`: its plan still fits the command, its
journal names what it made, a rollback owns the command). It holds for any number
of HOMEs and gives `TypeCorrect`, `JournalsAlwaysValid`, `CommandAlwaysExists`,
`SelectionAlwaysHasImage` and the action property `CommittedAlwaysStays`.
`PairAlwaysWhole` has the hypothesis that there is one HOME: with several, host
and image of another HOME may differ by design.

**`PortForwardingProofs`** assumes that the names differ (`PortConstants`) and
that there are finitely many ports and addresses (`SpecsAssumption`).
Its invariant relates each position of a pass, and of a stop, to the records:
`Fit` says that every listener has a record, and that a living relay is the one
its record names or can still be found by its pidfile; it holds of the file, and
of the copy in memory of whoever is inside the flock (`Passes`, `Stops`).
`Lists` counts the failures of a pass, each port once; `Leases` and `Trust` say
when an observer may take the records' word for what its master holds. From it:
`TypeCorrect`, `AlwaysOneRelayPerPort`, `FailuresAlwaysFit`,
`OrphansOnlyBySilence`, `CleanStopAlwaysReleases`, `TrustAlwaysEarned` and
`UnlistedOnlyEverUndone`, without further hypotheses: every command may go
unanswered and every write may fail. Two history variables hold the ports of
those failures: `silent` those whose record was dropped without an answer, `undone`
those whose cancel did not get into the records. The disagreements of
`PortForwardingUnanswered.cfg` and `PortForwardingHalf.cfg` show that neither is
empty.

**`ControlRequestProofs`** assumes of the requests only their form
(`RequestsAssumption`). Its invariant follows the call under way: which requests
reach which stage (`Lanes`), whose processes live (`Owned`), what it can have
changed by then (`Effects`), what the calls before and after it have
(`Answers`), that a mutation on its way is about what its call read (`Flights`),
how the record of the operation goes with the worker (`Recorded`), and which calls
may have changed something on the way to an answer that denies what was asked for
(`Parts`: starts and resets only, and none that is told that nothing was changed).
From it:
`TypeCorrect`, `AnswersAlwaysHonest`, `AlwaysChangesWhatItRead`,
`UnknownAlwaysStays` and `NothingEverLeftBehind`.

**`ConsoleProofs`** assumes of a user only that the workspaces they are in are
the two there are, and of identities that none is called as the absence of a row
or a plain text is (`ConsoleAssumption`); keys may be any in any number, and lists
have any length. The invariant says of each workspace that its rows, and those it may
go back to, were read for the view and target they are shown under, and of the
read under way that its answer will be applied only there (`Views`, `ReadFor`);
what of a
change is still to be told (`Changes`, `Ends`); which overlays can be open
(`Ui`); and that no answer waits under the number of the lookup that runs
(`Lookups`). `CursorAlwaysStays` also needs what filtering a list of any length
returns: `Without` is a recursive function, and the lemma `Least`, that a set of
natural numbers has a least element, replaces the induction. From it:
`TypeCorrect`, `RowsAlwaysOfTheView`, `OutcomesAlwaysTold`,
`KindsAlwaysOfTheContext` and the action property `CursorAlwaysStays`.
`DetailAlwaysOfSelectedRow` needs a second invariant on top of it, `Tracks`: a
detail that follows its row is over a list whose rows have details, also in the
snapshots that may be gone back to, and while the configuration is read again
none follows. Without the snapshots, Esc could bring back a detail over another
row; without the kind of list, `a` would move the cursor under one.

**`ReleaseDownloadProofs`** assumes that the names differ
(`NamesAssumption`, `DownloadAssumption`). The invariant: only the holder of the
lock is at work (`LockInv`) and its stage says what the partial file is
(`StageInv`), what is synchronised is there (`SyncInv`), kept bytes belong to the
validator that is kept, in the directory and on the disk (`TagInv`), and a
published file is exact in both (`ExactInv`). A power loss may tear the published
file like a partial one; that it never does comes from the fsync before the
rename: where a process publishes, everything is synchronised (`StageInv`), and
there are never a partial and a published file at once (`OneFile`). `HolderKeeps` reduces each step of
the holder to the files it leaves. From it: `TypeCorrect`,
`PublishedAlwaysExact`, `PartialOfOneVersion`. `CountsAlwaysTrue` needs a second
invariant on top of it, `CountInv`: by stage, how the counters of a run add up to
what it received (`Tally`), and that no file holds more blocks of a process than
its run retained, lost or wrote (`Own`, `Wrote`). What it says of a run's own
blocks: those called reused are no more than those a failed write left uncounted.

Only model-checked:

- `WriterEnds`, `LockIsFreed`, `CancelledEnds`, `QuitEnds` and
  `AcquiredInTheEnd`, because TLAPS does not handle fairness;
- what the disagreements above show, each by a counterexample.

## Assumptions and what is left out

- *File systems.* In the guest, a power loss may keep or lose each write since
  its last fsync, in any order, except that a rename reaches the disk after the
  data that was synced before it. On the host, processes die; the machine loses
  power only in `ReleaseDownload`, elsewhere a rename is seen at once and stays.
- *Locks.* flocks are dropped by the kernel with the last descriptor. A
  supervisor of a control command inherits the operation flock.
- *Identities* (pid with start time, random tokens, inode with creation time)
  are never equal for two things that exist, or are remembered, at once.
- *SSH.* A cancel that exits 0 was answered by the master; a failed one may have
  been applied. Any command may fail without reaching a live master (a deadline,
  a cancellation), the check and the exit included, and any save may fail after
  the stops before it.
- *UpdateTransaction* has one installation; journals of versions 1 and 2 and
  files that another program put in the way appear only as failures, and raw
  bases are not among the files it collects. HOMEs that
  share a command may differ in their images by design, so `PairIsWhole` is
  checked for one HOME.
- *Admission* leaves the limits on pressure, load and battery as refusals at any
  time.
- *ControlRequest* has one profile and one resource. What the C core does to a VM
  is a change on the way (`CoreMend`: a guest recovered or refreshed, a VM stopped,
  files deleted), if any, and then one step that is done, undone, half done or
  refused. Texts, the fields of a result and the phases of a record between begin
  and end are left out. So are errors of the worker's pipes other than a cut-off
  reply (`ReplyCut`), and a worker that `kill_on_drop` reaps by best effort after
  such an error.
- *Console* leaves out texts and drawing, the scrolling of help and logs, the
  refresh interval (the tick may come at any time), completion, history,
  favourites and preferences, typed commands that name another target
  (`--context`, `--host`, `--kubeconfig`, of Docker and of Kubernetes), an end by
  a panic, and the bytes and process groups of the sessions.
- *ReleaseDownload* takes manifests as accepted by `decode`; archive extraction,
  progress lines, local test artifacts and temporary header files are left out.
  So is the installer's bootstrap (`packaging/release/install.sh.in:117-269`), which
  shares partial file, validator and lock but saves the validator of a response
  only after the transfer: `OneVersion` is about `download.rs` alone.
  `PublishedIsExact` does not depend on it, because the digest of the whole file is
  checked before it is published.
- *VmLifecycle* leaves out delete (planned) and the
  table of waiting control connections: a full one is an answer that does not
  come.
- *PortForwarding* leaves out datagrams and flows, the state flock (always
  inside the operation flock), the reasons of failures and the phases that older
  versions wrote.

Not modelled, and not planned: parsers of JSON, YAML and qcow2 clusters, the
cloud-init seed, the Virtualization.framework shim, console and log I/O,
diagnostics, drawing, build and release tools, vendored libraries. They keep no
state that outlives a call, or are outside the program.

## Plan

Done: the fence and its contract, deployment, lifecycle, admission, update,
forwarding, headless requests with worker and operation record, the console, the
download. Next, in this order:

1. `ProfileRetirement`: delete, purge and sweep beside creation, with the locks
   of a retired directory. No live profile is swept; a hidden tree is removed in
   the end.
2. `RawBaseCache`: staging, marker, publication, clone and retirement, with
   crashes; it composes with the collection of `UpdateTransaction`.
3. `UpdateNotice`: the automatic check with its time limits, lock and notice.
4. `AgentConnection`: buffer, pipelining and closing in the guest's loop.
5. `WorkspaceApply`: plan, re-evaluation under the lock, configuration and
   deployment.
6. `MountRelay`: batches, overflow and reconnection; the process groups of
   terminal sessions.

Theorems to add: those of the modules above.

## Working with the project

    tlc -workers 2 -config PortForwardingTcp.cfg MCPortForwarding
    tlapm VmLifecycleProofs.tla

Each run of `PROJECT.json` names its module and configuration. To try a mutant,
replace the body of its "of" by its "as" and run the configuration again.
