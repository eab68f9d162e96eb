---------------------------- MODULE PortForwarding ----------------------------
(***************************************************************************)
(* Published ports on the host: the records of port-forwards.tsv           *)
(* (host/fwd/ports.c), the observers that follow Docker                    *)
(* (host/fwd/docker_observer.c), the SSH master that holds the TCP         *)
(* listeners (host/sshmgr), the relays that hold the UDP ones              *)
(* (host/fwd/udp_proxy.c), and the start and stop of the VM that replace   *)
(* and revoke an observer (host/cmd/cmd_start.c, host/core/lifecycle.c).   *)
(*                                                                         *)
(* Every change is made under the operation flock, which the supervisor of *)
(* a running control command keeps when its owner dies.  Observers, the    *)
(* start or stop, the master and the relays may die at any step, a control *)
(* command may fail without having reached a master that lives, and a      *)
(* write of the records may fail, before or after the new file is in its   *)
(* place.  The state flock is only taken under the operation flock and is  *)
(* left out.                                                               *)
(***************************************************************************)
EXTENDS Naturals, FiniteSets, Sequences, Functions

CONSTANTS TcpPorts, UdpPorts,  \* host ports that containers publish
          Addresses,           \* host addresses they publish them on
          Observers,           \* port observers, named by their lease
          Masters,             \* SSH masters, named by their control socket
          Relays,              \* UDP relay processes
          MaxRecords,          \* MAX_FORWARD_RECORDS, DOCKER_OBSERVER_MAX_PORTS
          Op, None

ASSUME PortConstants ==
    /\ None \notin Observers \cup Masters \cup Relays \cup {Op}
    /\ Op \notin Observers /\ MaxRecords \in Nat

(* struct port_spec: protocol, host port and host address.                 *)
Tcp == {"tcp"} \X TcpPorts \X Addresses
Udp == {"udp"} \X UdpPorts \X Addresses
Specs == Tcp \cup Udp
same_listener(s, t) == s[1] = t[1] /\ s[2] = t[2]
spec_forwardable(s) == s \in Udp => s[3] = "any"

(* A host has finitely many ports and addresses.                           *)
ASSUME SpecsAssumption == IsFiniteSet(Specs)

(* What Docker can list: one publication of a listener (append_spec).      *)
Snapshots == {S \in SUBSET Specs : \A s, t \in S : same_listener(s, t) => s = t}

(* A record: "pending" is reserved or answered, "locked" has a control     *)
(* request whose outcome is open.  pid: the relay, for UDP.                *)
Records == [own : {"none", "pending", "locked", "committed"}, pid : Relays \cup {None}]
NoRecord == [own |-> "none", pid |-> None]
Pending == {"pending", "locked"}
NoRecords == [s \in Specs |-> NoRecord]
In(f) == {s \in Specs : f[s].own # "none"}

VARIABLES
    published,  \* the ports Docker publishes
    file,       \* port-forwards.tsv
    failures,   \* port-forward-failures.json
    lease,      \* port-observer.lease
    lock,       \* who holds port-forward-operations.lock
    obs,        \* the observers
    op,         \* the start or stop that holds the lifecycle flock
    clean,      \* the last of them was a stop that succeeded
    master,     \* the SSH master that lives, and that ssh.sock reaches
    sock,       \* the master that made ssh.sock
    held,       \* the forwards the master holds
    stray,      \* those of masters that live on without their ssh.sock
    relay,      \* the UDP relays
    pidfile,    \* the relay each UDP pidfile names
    silent,     \* history: listeners whose record was dropped on silence
    undone      \* history: forwards cancelled, which the records do not say

history == <<silent, undone>>
files == <<file, failures, lease>>
masters == <<master, sock, stray>>
hosts == <<masters, held, relay, pidfile, history>>
vars == <<published, files, lock, obs, op, clean, hosts>>

(* pc, and the locals of a pass: the snapshot, what is known of the        *)
(* master, the records in memory, the specs still to do, those recorded as *)
(* forwarded, the failures found, the spec at hand and its relay.          *)
ObsPcs == {"off", "lease", "snapshot", "wait", "recheck", "socket", "mark",
           "load", "sort", "next", "reserve", "phase", "request", "refused",
           "spawn", "started", "commit", "published", "orphan"}
NoObs == [pc |-> "off", specs |-> {}, known |-> FALSE, control |-> None,
          seen |-> None, mem |-> NoRecords, todo |-> {}, forwarded |-> {},
          fails |-> <<>>, at |-> None, relay |-> None]
OpPcs == {"idle", "master", "clear", "lease", "spawn",
          "revoke", "lock", "clean", "exit"}
NoOp == [pc |-> "idle", who |-> None, mem |-> NoRecords, todo |-> {}, ok |-> FALSE]
RelayStates == {"dead", "spawned", "running", "closing"}
NoRelay == [st |-> "dead", spec |-> None]

TypeOK ==
    /\ published \in Snapshots
    /\ file \in [Specs -> Records]
    /\ failures \subseteq Specs
    /\ lease \in Observers \cup {None}
    /\ lock \in Observers \cup {Op, None}
    /\ obs \in [Observers ->
          [pc : ObsPcs, specs : Snapshots, known : BOOLEAN,
           control : Masters \cup {None}, seen : Masters \cup {None},
           mem : [Specs -> Records], todo : SUBSET Specs,
           forwarded : SUBSET Specs, fails : Seq(Specs),
           at : Specs \cup {None}, relay : Relays \cup {None}]]
    /\ op \in [pc : OpPcs, who : Observers \cup {None}, mem : [Specs -> Records],
               todo : SUBSET Specs, ok : BOOLEAN]
    /\ clean \in BOOLEAN
    /\ master \in Masters \cup {None} /\ sock \in Masters \cup {None}
    /\ held \subseteq Tcp /\ stray \subseteq Tcp
    /\ silent \subseteq Tcp /\ undone \subseteq Tcp
    /\ relay \in [Relays -> [st : RelayStates, spec : Udp \cup {None}]]
    /\ pidfile \in [Udp -> Relays \cup {None}]

(* A stopped VM without records.                                           *)
Init ==
    /\ published = {} /\ file = NoRecords /\ failures = {}
    /\ lease = None /\ lock = None
    /\ obs = [o \in Observers |-> NoObs] /\ op = NoOp /\ clean = TRUE
    /\ master = None /\ sock = None /\ held = {} /\ stray = {}
    /\ silent = {} /\ undone = {}
    /\ relay = [r \in Relays |-> NoRelay] /\ pidfile = [s \in Udp |-> None]

---------------------------------------------------------------------------
(* The SSH master and the relays, as the control commands see them.        *)

(* ssh_master_alive: a live master answers, unless the command is not run  *)
(* (the process was cancelled) or passes its deadline.                     *)
Says == {master # None, FALSE}

(* Somebody's listener is on the port.                                     *)
Listening(s, h) == s \in h \cup stray

(* tcp_listener_available: nobody listens; another process may.            *)
MayBeFree(s, h) == IF Listening(s, h) THEN {FALSE} ELSE BOOLEAN

(* A forward that was applied: an address in use refuses it.               *)
Forwards(s) == master # None /\ s \notin stray /\ held' = held \cup {s}

(* A cancel that was answered, and one that was not: it may have been      *)
(* applied all the same.  A master refuses to cancel what it does not hold.*)
Cancelled(s) == s \in held /\ held' = held \ {s}
CancelLost(s) == held' \in {held} \cup (IF master # None THEN {held \ {s}} ELSE {})

(* stop_record for TCP: an answer to the cancel, a master that does not    *)
(* answer the check, or a free port lets the record go.                    *)
StopTcp(s, ok) ==
    /\ \/ Cancelled(s) /\ ok /\ UNCHANGED history
       \/ /\ CancelLost(s)
          /\ \E alive \in Says, free \in MayBeFree(s, held') : ok = ~(alive /\ ~free)
          /\ silent' = IF ok /\ Listening(s, held') THEN silent \cup {s} ELSE silent
          /\ undone' = IF ~ok THEN undone \cup (held \ held') ELSE undone
    /\ UNCHANGED <<relay, pidfile>>

Lives(r) == r # None /\ relay[r].st # "dead"
Bound(s) == \E r \in Relays : relay[r].spec = s /\ relay[r].st \in {"spawned", "running"}
Ends(r) == relay' = [relay EXCEPT ![r] = NoRelay]

(* The relay a record is judged by: the one it names, else its pidfile's.  *)
RelayOf(s, rec) == IF rec.pid # None THEN rec.pid ELSE pidfile[s]

(* udp_relay_state: what it may answer.                                    *)
udp_relay_state(s, rec) ==
    LET r == RelayOf(s, rec) IN
    CASE Lives(r) -> {"running", "unverified"}
      [] ~Lives(r) /\ r # None -> {"gone"}
      [] r = None /\ Bound(s) -> {"unverified"}
      [] OTHER -> {"gone", "unverified"}

(* Fault: terminate_udp_process does not wait for the relay to be gone.    *)
StopUdpNoWait(s, rec, ok) ==
    LET r == RelayOf(s, rec) IN
    /\ UNCHANGED <<held, history>>
    /\ \E j \in udp_relay_state(s, rec) :
        IF j = "unverified" THEN ~ok /\ UNCHANGED <<relay, pidfile>>
        ELSE /\ ok
             /\ pidfile' = [pidfile EXCEPT ![s] = None]
             /\ relay' = IF j = "running" THEN [relay EXCEPT ![r].st = "closing"] ELSE relay

(* stop_record for UDP: terminate_udp_process ends the relay, by TERM or   *)
(* KILL, or gives up; the pidfile goes after it.                           *)
StopUdp(s, rec, ok) ==
    LET r == RelayOf(s, rec) IN
    /\ UNCHANGED <<held, history>>
    /\ \E j \in udp_relay_state(s, rec) :
        \/ j = "unverified" /\ ~ok /\ UNCHANGED <<relay, pidfile>>
        \/ j = "gone" /\ ~ok /\ UNCHANGED <<relay, pidfile>>
        \/ j = "gone" /\ ok /\ pidfile' = [pidfile EXCEPT ![s] = None] /\ UNCHANGED relay
        \/ j = "running" /\ ok /\ pidfile' = [pidfile EXCEPT ![s] = None] /\ Ends(r)
        \/ /\ j = "running" /\ ~ok /\ UNCHANGED pidfile
           /\ Ends(r) \/ relay' = [relay EXCEPT ![r].st = "closing"] \/ UNCHANGED relay

StopRecord(s, rec, ok) == IF s \in Tcp THEN StopTcp(s, ok) ELSE StopUdp(s, rec, ok)

(* complete_tcp_control, run by the supervisor after the master's success. *)
complete_tcp_control(s) == file' = [file EXCEPT ![s].own = "pending"]

(* A write that fails: the new file may be in its place all the same.      *)
MayWrite(f) == file' \in {file, f}

---------------------------------------------------------------------------
(* One pass of an observer.                                                *)

At(o, pc) == obs[o].pc = pc
Goto(o, pc) == obs' = [obs EXCEPT ![o].pc = pc]
(* The pass ends and the watch loop begins another.                        *)
Again(o) == obs' = [obs EXCEPT ![o] = [NoObs EXCEPT !.pc = "lease", !.known = obs[o].known,
                                                    !.control = obs[o].control]]
Exit(o) == obs' = [obs EXCEPT ![o] = NoObs]
Unlock == lock' = None

CheckLease(o) ==
    /\ At(o, "lease")
    /\ IF lease = o THEN Goto(o, "snapshot") ELSE Exit(o)
    /\ UNCHANGED <<published, files, lock, op, clean, hosts>>

(* docker_observer_read_snapshot: no usable list, or one over the limit,   *)
(* ends the pass.                                                          *)
ReadSnapshot(o, read) ==
    /\ At(o, "snapshot")
    /\ IF read /\ Cardinality(published) <= MaxRecords
       THEN obs' = [obs EXCEPT ![o].pc = "wait", ![o].specs = published]
       ELSE Again(o)
    /\ UNCHANGED <<published, files, lock, op, clean, hosts>>

Lock(o) ==
    /\ At(o, "wait") /\ lock = None
    /\ lock' = o /\ Goto(o, "recheck")
    /\ UNCHANGED <<published, files, op, clean, hosts>>

(* Fault: the lease is not looked at again under the lock.                 *)
RecheckSkipped(o) ==
    /\ At(o, "recheck")
    /\ Goto(o, "socket")
    /\ UNCHANGED <<published, files, lock, op, clean, hosts>>

Recheck(o) ==
    /\ At(o, "recheck")
    /\ IF lease = o THEN Goto(o, "socket") /\ UNCHANGED lock ELSE Exit(o) /\ Unlock
    /\ UNCHANGED <<published, files, op, clean, hosts>>

ReadSocket(o) ==
    /\ At(o, "socket")
    /\ obs' = [obs EXCEPT ![o].seen = sock,
                          ![o].pc = IF obs[o].known /\ obs[o].control = sock
                                    THEN "load" ELSE "mark"]
    /\ UNCHANGED <<published, files, lock, op, clean, hosts>>

Unconfirmed(f) == [s \in Specs |-> IF s \in Tcp /\ f[s].own = "committed"
                                   THEN [f[s] EXCEPT !.own = "locked"] ELSE f[s]]

(* port_forward_unconfirm_tcp_serialized; the master is known afterwards   *)
(* by the socket that was read before.                                     *)
Unconfirm(o, saved) ==
    /\ At(o, "mark")
    /\ IF saved
       THEN /\ file' = Unconfirmed(file) /\ undone' = {} /\ UNCHANGED lock
            /\ obs' = [obs EXCEPT ![o].pc = "load", ![o].known = TRUE,
                                  ![o].control = obs[o].seen]
       ELSE Again(o) /\ Unlock /\ MayWrite(Unconfirmed(file)) /\ UNCHANGED undone
    /\ UNCHANGED <<published, failures, lease, op, clean, masters, held, relay, pidfile, silent>>

(* port_forward_sync_docker_serialized reads the records ...               *)
Load(o) ==
    /\ At(o, "load")
    /\ obs' = [obs EXCEPT ![o].pc = "sort", ![o].mem = file, ![o].todo = In(file)]
    /\ UNCHANGED <<published, files, lock, op, clean, hosts>>

(* or cannot, and the pass ends;                                           *)
LoadFails(o) ==
    /\ At(o, "load")
    /\ Again(o) /\ Unlock
    /\ UNCHANGED <<published, files, op, clean, hosts>>

Desired(o, s) == s \in obs[o].specs /\ spec_forwardable(s)
Keep(o, s, rec, forwarded, fails) ==
    obs' = [obs EXCEPT ![o].todo = @ \ {s}, ![o].mem[s] = rec,
                       ![o].forwarded = @ \cup forwarded, ![o].fails = @ \o fails]

(* it decides about each: a UDP record by its relay,                       *)
SortUdp(o, s) ==
    LET rec == obs[o].mem[s] IN
    /\ At(o, "sort") /\ s \in obs[o].todo /\ s \in Udp /\ Desired(o, s)
    /\ \/ /\ "running" \in udp_relay_state(s, rec)
          /\ Keep(o, s, [own |-> "committed", pid |-> RelayOf(s, rec)], {s}, <<>>)
          /\ UNCHANGED hosts
       \/ /\ "unverified" \in udp_relay_state(s, rec)
          /\ Keep(o, s, rec, {s}, <<s>>)
          /\ UNCHANGED hosts
       \/ /\ "gone" \in udp_relay_state(s, rec)
          /\ \E ok \in BOOLEAN :
              /\ StopUdp(s, rec, ok)
              /\ IF ok THEN Keep(o, s, NoRecord, {}, <<>>) ELSE Keep(o, s, rec, {s}, <<s>>)
          /\ UNCHANGED masters
    /\ UNCHANGED <<published, files, lock, op, clean>>

(* Fault: a pending record of a published port counts as forwarded.        *)
SortTcpCommitting(o, s) ==
    /\ At(o, "sort") /\ s \in obs[o].todo /\ s \in Tcp /\ Desired(o, s)
    /\ Keep(o, s, [own |-> "committed", pid |-> None], {s}, <<>>)
    /\ UNCHANGED <<published, files, lock, op, clean, hosts>>

(* a TCP record by whether the master answered its request,                *)
SortTcp(o, s) ==
    LET rec == obs[o].mem[s] IN
    /\ At(o, "sort") /\ s \in obs[o].todo /\ s \in Tcp /\ Desired(o, s)
    /\ Keep(o, s, rec, IF rec.own = "committed" THEN {s} ELSE {}, <<>>)
    /\ UNCHANGED <<published, files, lock, op, clean, hosts>>

(* and stops what is not published any more.                               *)
SortStop(o, s) ==
    LET rec == obs[o].mem[s] IN
    /\ At(o, "sort") /\ s \in obs[o].todo /\ ~Desired(o, s)
    /\ \E ok \in BOOLEAN :
        StopRecord(s, rec, ok) /\ Keep(o, s, IF ok THEN NoRecord ELSE rec, {}, <<>>)
    /\ UNCHANGED <<published, files, lock, op, clean, masters>>

(* The records are written once, after the stops.                          *)
SaveSorted(o, saved) ==
    /\ At(o, "sort") /\ obs[o].todo = {}
    /\ IF saved
       THEN /\ file' = obs[o].mem /\ UNCHANGED <<lock, undone>>
            /\ obs' = [obs EXCEPT ![o].pc = "next", ![o].todo = obs[o].specs,
                                  ![o].mem = NoRecords]
       ELSE /\ Again(o) /\ Unlock /\ MayWrite(obs[o].mem)
            /\ undone' = undone \cup ((In(file') \ In(obs[o].mem)) \cap Tcp)
    /\ UNCHANGED <<published, failures, lease, op, clean, masters, held, relay, pidfile, silent>>

---------------------------------------------------------------------------
(* The second loop: add_forward_under_operation_lock for each published    *)
(* port that is not forwarded.                                             *)

Taken(s) == \E t \in In(file) \ {s} : same_listener(s, t)
Full(s) == s \notin In(file) /\ Cardinality(In(file)) >= MaxRecords
(* Fault: a refused port is not listed.                                    *)
PickUnlisted(o, s) ==
    /\ At(o, "next") /\ s \in obs[o].todo
    /\ obs' = [obs EXCEPT
          ![o].todo = @ \ {s}, ![o].at = s,
          ![o].pc = CASE ~spec_forwardable(s) \/ s \in obs[o].forwarded \/ Taken(s) \/ Full(s) -> "next"
                      [] file[s].own \in Pending -> "phase"
                      [] OTHER -> "reserve"]
    /\ UNCHANGED <<published, files, lock, op, clean, hosts>>

(* Fault: a port that was judged is asked for again.                       *)
PickAgain(o, s) ==
    /\ At(o, "next") /\ s \in obs[o].todo
    /\ obs' = [obs EXCEPT
          ![o].todo = @ \ {s}, ![o].at = s,
          ![o].fails = IF ~spec_forwardable(s) \/ s \in obs[o].forwarded \/ Taken(s) \/ Full(s)
                       THEN Append(@, s) ELSE @,
          ![o].pc = CASE ~spec_forwardable(s) \/ s \in obs[o].forwarded \/ Taken(s) \/ Full(s) -> "next"
                      [] file[s].own \in Pending -> "phase"
                      [] OTHER -> "reserve"]
    /\ UNCHANGED <<published, files, lock, op, clean, hosts>>

(* A port that cannot be carried, one whose listener another record        *)
(* claims and one over the limit are listed; a pending TCP record is       *)
(* adopted, which leaves its phase until the next write.                   *)
Pick(o, s) ==
    LET listed == ~spec_forwardable(s) \/ (s \notin obs[o].forwarded /\ (Taken(s) \/ Full(s)))
        skipped == listed \/ s \in obs[o].forwarded
    IN
    /\ At(o, "next") /\ s \in obs[o].todo
    /\ obs' = [obs EXCEPT
          ![o].todo = @ \ {s}, ![o].at = IF skipped THEN None ELSE s,
          ![o].fails = IF listed THEN Append(@, s) ELSE @,
          ![o].pc = CASE skipped -> "next"
                      [] ~skipped /\ file[s].own \in Pending -> "phase"
                      [] OTHER -> "reserve"]
    /\ UNCHANGED <<published, files, lock, op, clean, hosts>>

Failed(o, fails) ==
    obs' = [obs EXCEPT ![o].pc = "next", ![o].fails = @ \o fails,
                       ![o].at = None, ![o].relay = None]
Without(s) == [file EXCEPT ![s] = NoRecord]

(* The reservation, before any listener.                                   *)
Reserve(o, saved) ==
    LET s == obs[o].at
        Reserved == [file EXCEPT ![s] = [own |-> "pending", pid |-> None]]
    IN
    /\ At(o, "reserve")
    /\ IF saved THEN file' = Reserved /\ Goto(o, IF s \in Tcp THEN "phase" ELSE "spawn")
                ELSE MayWrite(Reserved) /\ Failed(o, <<s>>)
    /\ silent' = silent \ In(file')
    /\ UNCHANGED <<published, failures, lease, lock, op, clean, masters, held, relay, pidfile, undone>>

(* The phase of an uncertain request, before the request.                  *)
Phase(o, saved) ==
    LET s == obs[o].at
        Locked == [file EXCEPT ![s] = [own |-> "locked", pid |-> None]]
    IN
    /\ At(o, "phase")
    /\ IF saved THEN file' = Locked /\ Goto(o, "request")
                ELSE MayWrite(Locked) /\ Failed(o, <<s>>)
    /\ UNCHANGED <<published, failures, lease, lock, op, clean, hosts>>

(* ssh_forward_add_tcp_observed: success, with the record confirmed by the *)
(* supervisor;                                                             *)
Answer(o) ==
    LET s == obs[o].at IN
    /\ At(o, "request")
    /\ Forwards(s) /\ complete_tcp_control(s) /\ Goto(o, "commit")
    /\ undone' = undone \ {s}
    /\ UNCHANGED <<published, failures, lease, lock, op, clean, masters, relay, pidfile, silent>>

(* or a failure, which may hide a success, and its confirmation.           *)
NoAnswer(o) ==
    LET s == obs[o].at IN
    /\ At(o, "request")
    /\ \/ Forwards(s) /\ (complete_tcp_control(s) \/ UNCHANGED file)
       \/ UNCHANGED <<held, file>>
    /\ Goto(o, "refused")
    /\ UNCHANGED <<published, failures, lease, lock, op, clean, masters, relay, pidfile, history>>

(* The failed request is cancelled; only the answer to the cancel, or the  *)
(* absence of master and listener, lets the record go.                     *)
Refused(o) ==
    LET s == obs[o].at
        Locked == [file EXCEPT ![s] = [own |-> "locked", pid |-> None]]
    IN
    /\ At(o, "refused")
    /\ \/ Cancelled(s) /\ MayWrite(Without(s))
       \/ /\ CancelLost(s)
          /\ \E alive \in Says, free \in MayBeFree(s, held') :
                MayWrite(IF ~alive /\ free THEN Without(s) ELSE Locked)
    /\ Failed(o, <<s>>)
    /\ UNCHANGED <<published, failures, lease, lock, op, clean, masters, relay, pidfile, history>>

Unused(r) == /\ relay[r].st = "dead" /\ r \notin Range(pidfile)
             /\ \A s \in Specs : r # file[s].pid /\ r # op.mem[s].pid
             /\ \A o \in Observers : r # obs[o].relay /\ \A s \in Specs : r # obs[o].mem[s].pid

(* start_udp up to the spawn: a live pidfile refuses, a dead one goes, the *)
(* port is bound and handed to the child.                                  *)
SpawnRelay(o, r) ==
    LET s == obs[o].at IN
    /\ At(o, "spawn")
    /\ ~Lives(pidfile[s]) /\ ~Bound(s) /\ Unused(r)
    /\ pidfile' = [pidfile EXCEPT ![s] = None]
    /\ relay' = [relay EXCEPT ![r] = [st |-> "spawned", spec |-> s]]
    /\ obs' = [obs EXCEPT ![o].pc = "started", ![o].relay = r]
    /\ UNCHANGED <<published, files, lock, op, clean, masters, held, history>>

SpawnFails(o) ==
    LET s == obs[o].at IN
    /\ At(o, "spawn")
    /\ pidfile' \in {pidfile} \cup (IF Lives(pidfile[s]) THEN {}
                                    ELSE {[pidfile EXCEPT ![s] = None]})
    /\ MayWrite(Without(s)) /\ Failed(o, <<s>>)
    /\ UNCHANGED <<published, failures, lease, lock, op, clean, masters, held, relay, history>>

(* wait_udp_started saw the child's pidfile, and its identity is recorded. *)
Started(o, saved) ==
    LET s == obs[o].at
        r == obs[o].relay
        rec == [own |-> "pending", pid |-> r]
    IN
    /\ At(o, "started") /\ Lives(r) /\ pidfile[s] = r
    /\ \/ /\ saved /\ file' = [file EXCEPT ![s] = rec]
          /\ obs' = [obs EXCEPT ![o].pc = "commit", ![o].relay = None]
          /\ UNCHANGED <<held, relay, pidfile, history>>
       \/ /\ ~saved /\ Failed(o, <<s>>)
          /\ \E ok \in BOOLEAN :
              StopUdp(s, rec, ok) /\ (IF ok THEN MayWrite(Without(s)) ELSE UNCHANGED file)
    /\ UNCHANGED <<published, failures, lease, lock, op, clean, masters>>

(* It did not in time: the child is ended, or its record kept (UNSAFE).    *)
NotStarted(o) ==
    LET s == obs[o].at
        r == obs[o].relay
    IN
    /\ At(o, "started") /\ Failed(o, <<s>>)
    /\ \/ /\ IF Lives(r) THEN Ends(r) ELSE UNCHANGED relay
          /\ pidfile' = [pidfile EXCEPT ![s] = None]
          /\ MayWrite(Without(s))
       \/ /\ Lives(r)
          /\ \E pid \in {r, None} :
                MayWrite([file EXCEPT ![s] = [own |-> "pending", pid |-> pid]])
          /\ UNCHANGED <<relay, pidfile>>
    /\ UNCHANGED <<published, failures, lease, lock, op, clean, masters, held, history>>

(* commit_forward; a failed write may leave the record pending.            *)
Commit(o, saved) ==
    LET s == obs[o].at IN
    /\ At(o, "commit")
    /\ LET Committed == [file EXCEPT ![s].own = "committed"] IN
       IF saved THEN file' = Committed ELSE MayWrite(Committed)
    /\ obs' = [obs EXCEPT ![o].pc = "next", ![o].at = None]
    /\ UNCHANGED <<published, failures, lease, lock, op, clean, hosts>>

(* failures_publish, and the end of the pass.                              *)
Publish(o, saved) ==
    /\ At(o, "next") /\ obs[o].todo = {}
    /\ IF saved THEN failures' = Range(obs[o].fails) /\ Goto(o, "published") /\ UNCHANGED lock
                ELSE Again(o) /\ Unlock /\ UNCHANGED failures
    /\ UNCHANGED <<published, file, lease, op, clean, hosts>>

EndPass(o) ==
    /\ At(o, "published")
    /\ Again(o) /\ Unlock
    /\ UNCHANGED <<published, files, op, clean, hosts>>

(* Fault: the flock goes with the observer, also during a control command. *)
ObserverDiesUnlocking(o) ==
    /\ obs[o].pc \notin {"off", "orphan"}
    /\ IF At(o, "request") THEN Goto(o, "orphan") ELSE Exit(o)
    /\ lock' = IF lock = o THEN None ELSE lock
    /\ UNCHANGED <<published, files, op, clean, hosts>>

(* The observer is killed.  The supervisor of a control request keeps the  *)
(* flock until the request has ended.                                      *)
ObserverDies(o) ==
    /\ obs[o].pc \notin {"off", "orphan"}
    /\ IF At(o, "request") THEN Goto(o, "orphan") /\ UNCHANGED lock
       ELSE Exit(o) /\ lock' = IF lock = o THEN None ELSE lock
    /\ UNCHANGED <<published, files, op, clean, hosts>>

(* run_supervised without its owner: the request ends and is recorded.     *)
OrphanEnds(o) ==
    LET s == obs[o].at IN
    /\ At(o, "orphan")
    /\ \/ Forwards(s) /\ (complete_tcp_control(s) \/ UNCHANGED file)
       \/ UNCHANGED <<held, file>>
    /\ Exit(o)
    /\ lock' = IF lock = o THEN None ELSE lock
    /\ UNCHANGED <<published, failures, lease, op, clean, masters, relay, pidfile, history>>

---------------------------------------------------------------------------
(* The start and the stop of the VM, as far as ports are concerned.        *)

OpAt(pc) == op.pc = pc
OpGoto(pc) == op' = [op EXCEPT !.pc = pc]
EndOp == op' = NoOp

BeginStart ==
    /\ OpAt("idle")
    /\ OpGoto("master") /\ clean' = FALSE
    /\ UNCHANGED <<published, files, lock, obs, hosts>>

FreshMaster(m) == m \notin {master, sock} /\ \A o \in Observers : m \notin {obs[o].control, obs[o].seen}

(* ssh_master_start: a live master stays.                                  *)
StartMaster ==
    /\ OpAt("master")
    /\ \/ master # None /\ OpGoto("clear") /\ UNCHANGED <<masters, held>>
       \/ /\ master = None /\ OpGoto("clear")
          /\ \E m \in Masters : FreshMaster(m) /\ master' = m /\ sock' = m
          /\ held' = {} /\ UNCHANGED stray
       \/ EndOp /\ UNCHANGED <<masters, held>>
    /\ UNCHANGED <<published, files, lock, obs, clean, relay, pidfile, history>>

(* docker_observer_start: the failures of another observer go, a lease is  *)
(* written, an observer spawned.  What fails revokes the lease.            *)
StartClear ==
    /\ OpAt("clear")
    /\ \/ failures' = {} /\ OpGoto("lease") /\ UNCHANGED lease
       \/ lease' = None /\ EndOp /\ UNCHANGED failures
    /\ UNCHANGED <<published, file, lock, obs, clean, hosts>>

StartLease ==
    /\ OpAt("lease")
    /\ \/ \E o \in Observers :
            /\ At(o, "off") /\ lease # o
            /\ lease' = o /\ op' = [op EXCEPT !.pc = "spawn", !.who = o]
       \/ lease' = None /\ EndOp
    /\ UNCHANGED <<published, file, failures, lock, obs, clean, hosts>>

StartObserver ==
    /\ OpAt("spawn") /\ EndOp
    /\ \/ obs' = [obs EXCEPT ![op.who] = [NoObs EXCEPT !.pc = "lease"]] /\ UNCHANGED lease
       \/ lease' = None /\ UNCHANGED obs
    /\ UNCHANGED <<published, file, failures, lock, clean, hosts>>

BeginStop ==
    /\ OpAt("idle")
    /\ OpGoto("revoke") /\ clean' = FALSE
    /\ UNCHANGED <<published, files, lock, obs, hosts>>

(* cleanup_stopped_state: the lease first,                                 *)
StopRevoke ==
    /\ OpAt("revoke")
    /\ \/ lease' = None /\ OpGoto("lock")
       \/ EndOp /\ UNCHANGED lease
    /\ UNCHANGED <<published, file, failures, lock, obs, clean, hosts>>

(* then port_forward_cleanup, under the operation flock, unless that or    *)
(* the records are out of reach,                                           *)
StopLock ==
    /\ OpAt("lock")
    /\ \/ /\ lock = None /\ lock' = Op
          /\ op' = [op EXCEPT !.pc = "clean", !.mem = file, !.todo = In(file), !.ok = TRUE]
       \/ OpGoto("exit") /\ UNCHANGED lock
    /\ UNCHANGED <<published, files, obs, clean, hosts>>

StopEach(s) ==
    /\ OpAt("clean") /\ s \in op.todo
    /\ \E ok \in BOOLEAN :
        /\ StopRecord(s, op.mem[s], ok)
        /\ op' = [op EXCEPT !.todo = @ \ {s}, !.ok = @ /\ ok,
                            !.mem[s] = IF ok THEN NoRecord ELSE @]
    /\ UNCHANGED <<published, files, lock, obs, clean, masters>>

StopSave ==
    /\ OpAt("clean") /\ op.todo = {}
    /\ \/ file' = op.mem /\ OpGoto("exit")
       \/ op' = [op EXCEPT !.pc = "exit", !.ok = FALSE] /\ MayWrite(op.mem)
    /\ Unlock
    /\ UNCHANGED <<published, failures, lease, obs, clean, hosts>>

(* then the master, whose answer is not looked at: one that was not        *)
(* reached lives on, and its socket goes with the other files.             *)
StopExit ==
    /\ OpAt("exit") /\ EndOp
    /\ master' = None /\ sock' = None /\ held' = {}
    /\ stray' \in {stray, stray \cup held}
    /\ failures' = {} /\ clean' \in {op.ok, FALSE}
    /\ silent' = silent \cap stray' /\ undone' = {}
    /\ UNCHANGED <<published, file, lease, lock, obs, relay, pidfile>>

OpDies ==
    /\ ~OpAt("idle") /\ EndOp
    /\ lock' = IF lock = Op THEN None ELSE lock
    /\ UNCHANGED <<published, files, obs, clean, hosts>>

---------------------------------------------------------------------------
(* Docker, the master's death and the relays.                              *)

DockerChanges ==
    /\ published' \in Snapshots \ {published}
    /\ UNCHANGED <<files, lock, obs, op, clean, hosts>>

MasterDies ==
    /\ master # None
    /\ master' = None /\ held' = {} /\ sock' \in {sock, None}
    /\ silent' = silent \cap stray /\ undone' = {}
    /\ UNCHANGED <<published, files, lock, obs, op, clean, stray, relay, pidfile>>

(* So does one that lost its socket.                                       *)
StrayDies ==
    /\ stray # {} /\ stray' \in SUBSET stray
    /\ silent' = silent \cap (held \cup stray')
    /\ UNCHANGED <<published, files, lock, obs, op, clean, master, sock, held, relay, pidfile, undone>>

(* cmd_udp_forward: the pidfile is written once the listener is checked;   *)
RelayWrites(r) ==
    /\ relay[r].st = "spawned"
    /\ relay' = [relay EXCEPT ![r].st = "running"]
    /\ pidfile' = [pidfile EXCEPT ![relay[r].spec] = r]
    /\ UNCHANGED <<published, files, lock, obs, op, clean, masters, held, history>>

(* the relay ends by closing its listener and then unlinking its pidfile,  *)
RelayCloses(r) ==
    /\ relay[r].st = "running"
    /\ relay' = [relay EXCEPT ![r].st = "closing"]
    /\ UNCHANGED <<published, files, lock, obs, op, clean, masters, held, pidfile, history>>

RelayUnlinks(r) ==
    /\ relay[r].st = "closing"
    /\ pidfile' = [pidfile EXCEPT ![relay[r].spec] = None] /\ Ends(r)
    /\ UNCHANGED <<published, files, lock, obs, op, clean, masters, held, history>>

(* or is killed.                                                           *)
RelayDies(r) ==
    /\ Lives(r) /\ Ends(r)
    /\ UNCHANGED <<published, files, lock, obs, op, clean, masters, held, pidfile, history>>

---------------------------------------------------------------------------
Writes(o, saved) ==
    \/ Unconfirm(o, saved) \/ SaveSorted(o, saved) \/ Reserve(o, saved) \/ Phase(o, saved)
    \/ Started(o, saved) \/ Commit(o, saved) \/ Publish(o, saved)
Sorts(o, s) == SortUdp(o, s) \/ SortTcp(o, s) \/ SortStop(o, s)
ObserverStep(o) ==
    \/ CheckLease(o) \/ Lock(o) \/ Recheck(o) \/ ReadSocket(o) \/ Load(o) \/ LoadFails(o)
    \/ \E ok \in BOOLEAN : ReadSnapshot(o, ok) \/ Writes(o, ok)
    \/ \E s \in Specs : Sorts(o, s) \/ Pick(o, s)
    \/ Answer(o) \/ NoAnswer(o) \/ Refused(o)
    \/ (\E r \in Relays : SpawnRelay(o, r)) \/ SpawnFails(o) \/ NotStarted(o)
    \/ EndPass(o) \/ ObserverDies(o) \/ OrphanEnds(o)
OpStep ==
    \/ BeginStart \/ StartMaster \/ StartClear \/ StartLease \/ StartObserver
    \/ BeginStop \/ StopRevoke \/ StopLock \/ (\E s \in Specs : StopEach(s))
    \/ StopSave \/ StopExit \/ OpDies
RelayStep(r) == RelayWrites(r) \/ RelayCloses(r) \/ RelayUnlinks(r) \/ RelayDies(r)
Next ==
    \/ \E o \in Observers : ObserverStep(o)
    \/ OpStep \/ DockerChanges \/ MasterDies \/ StrayDies
    \/ \E r \in Relays : RelayStep(r)

Spec == Init /\ [][Next]_vars

(* An observer that lives goes on, a control command and a relay's start   *)
(* have deadlines, and Docker's answer, each read and each write succeed   *)
(* again and again.                                                        *)
Goes(o) ==
    \/ CheckLease(o) \/ Lock(o) \/ Recheck(o) \/ ReadSocket(o) \/ Load(o) \/ LoadFails(o)
    \/ \E s \in Specs : Sorts(o, s) \/ Pick(o, s)
    \/ Answer(o) \/ NoAnswer(o) \/ Refused(o)
    \/ SpawnFails(o) \/ NotStarted(o) \/ EndPass(o) \/ OrphanEnds(o)
    \/ \E ok \in BOOLEAN : ReadSnapshot(o, ok) \/ Writes(o, ok)
FairSpec ==
    /\ Spec
    /\ \A o \in Observers :
        /\ WF_vars(Goes(o)) /\ SF_vars(Lock(o))
        /\ SF_vars(ReadSnapshot(o, TRUE)) /\ SF_vars(Unconfirm(o, TRUE))
        /\ SF_vars(Load(o))
        /\ SF_vars(SaveSorted(o, TRUE)) /\ SF_vars(Publish(o, TRUE))
    /\ WF_vars(StopLock \/ (\E s \in Specs : StopEach(s)) \/ StopSave)

---------------------------------------------------------------------------
(* Properties.                                                             *)

Listeners == held \cup stray

(* Every listener that Hamn made, the forwards of its masters and the      *)
(* relays that live, has a record in the state file, so that a later pass  *)
(* or stop finds it (ports.h:40, "A forward that cannot be stopped ...     *)
(* keeps its record").                                                     *)
NoOrphan ==
    /\ Listeners \subseteq In(file)
    /\ \A r \in Relays : Lives(r) => relay[r].spec \in In(file)

(* Whatever dies or fails at whatever step, there is one way for a         *)
(* listener to lose its record: stop_record drops it when neither the      *)
(* cancel nor the check is answered, without a look at the port            *)
(* (ports.c:789).  Relays never lose theirs.                               *)
OrphanOnlyBySilence ==
    /\ Listeners \subseteq In(file) \cup silent
    /\ \A r \in Relays : Lives(r) => relay[r].spec \in In(file)

(* A pass that takes the records' word for what the present master holds   *)
(* is right about each committed TCP record: this master confirmed it, and *)
(* unless its cancel went unrecorded since, holds it                       *)
(* (docker_observer.c:653-671).                                            *)
TrustIsEarned ==
    \A o \in Observers :
        At(o, "load") /\ lease = o /\ obs[o].control = master /\ master # None
        => \A s \in Tcp : file[s].own = "committed" => s \in held \cup undone

(* After a stop that reported success no record, failure or relay is left, *)
(* no observer of the VM brings anything back until the next start, and    *)
(* the only listeners are those whose record was dropped on silence        *)
(* (lifecycle.c:841-876).                                                  *)
CleanStopReleases ==
    clean => /\ In(file) = {} /\ failures = {} /\ Listeners \subseteq silent
             /\ \A r \in Relays : ~Lives(r)

(* A pass lists every published port that it leaves without an answer of   *)
(* the master or a started relay (port_forward_failures, ports.h).         *)
UnlistedIsConfirmed ==
    \A o \in Observers : At(o, "published") =>
        \A s \in obs[o].specs \ Range(obs[o].fails) :
            file[s].own \in {"pending", "committed"}

(* The same for the listener itself, as long as the master is the one the  *)
(* pass has seen (ports.h:60, "port_forward_failures() lists the port").   *)
UnlistedIsForwarded ==
    \A o \in Observers : At(o, "published") /\ obs[o].control = master /\ master # None =>
        \A s \in obs[o].specs \ Range(obs[o].fails) : s \in Tcp => s \in held

(* There is one way for a published port to be neither forwarded nor       *)
(* listed: an earlier pass cancelled its forward and did not get that into *)
(* the records, which still say committed (ports.c:1484-1492).             *)
UnlistedOnlyIfUndone ==
    \A o \in Observers : At(o, "published") /\ obs[o].control = master /\ master # None =>
        \A s \in obs[o].specs \ Range(obs[o].fails) : s \in Tcp => s \in held \cup undone

(* A TCP port that stays published, with the lease's observer and the      *)
(* master alive and no start or stop, is forwarded or listed again and     *)
(* again, unless its cancel went unrecorded: no other failure ends its     *)
(* retries unseen (docker_observer.c, the watch loop; ports.h:55-61).      *)
ForwardedOrListed ==
    \A s \in Tcp, o \in Observers, m \in Masters :
        <>[](/\ s \in published /\ lease = o /\ obs[o].pc # "off"
            /\ master = m /\ op = NoOp)
        => []<>(s \in held \cup failures \cup undone)

(* failures[MAX_FORWARD_RECORDS] is never indexed past its end: not when a *)
(* port is listed, and not for the detail of a request under way.          *)
FailuresFit ==
    \A o \in Observers :
        /\ Len(obs[o].fails) <= MaxRecords
        /\ obs[o].pc \in {"reserve", "phase", "request", "refused", "spawn", "started"}
           => Len(obs[o].fails) < MaxRecords

(* No relay is started for a port whose relay still lives, the one that is *)
(* only about to unlink its pidfile included: it would unlink its          *)
(* successor's (udp_proxy.c: the last steps of cmd_udp_forward).           *)
OneRelayPerPort ==
    \A r, q \in Relays : Lives(r) /\ Lives(q) /\ relay[r].spec = relay[q].spec => r = q

===============================================================================
