----------------------------- MODULE Admission -----------------------------
(***************************************************************************)
(* Admission: whether the host has memory for one more VM                  *)
(* (host/core/admission.c), with the starts of several profiles at once    *)
(* (host/cmd/cmd_start.c) and the settings they run with                   *)
(* (host/core/control.c, apply.c).                                         *)
(*                                                                         *)
(* Each profile has one host operation at a time, which holds the          *)
(* profile's lifecycle and mutation flocks; the starts of different        *)
(* profiles meet only at the admission flock.  Nothing is reserved: a      *)
(* start adds up the configured memory of every other profile whose VM the *)
(* process probe does not find gone, one profile after the other, while    *)
(* VMs end and settings change.  VmLifecycle is about the probe; here it   *)
(* counts a VM from its spawn guard on, and not once it is inside exit().  *)
(***************************************************************************)
EXTENDS Integers, FiniteSets, Functions

CONSTANTS Profiles,  \* profile names
          Sizes,     \* the memory a VM may be configured with
          Reserves,  \* HAMN_ADMISSION_MEMORY_RESERVE_MIB of a start
          Total,     \* hw.memsize
          NoProfile  \* nobody

ASSUME AdmissionConstants ==
    /\ IsFiniteSet(Profiles) /\ NoProfile \notin Profiles
    /\ Sizes \subseteq Nat \ {0} /\ Reserves \subseteq Nat /\ Reserves # {} /\ Total \in Nat

VARIABLES
    config,  \* memoryMiB in each profile's config.yaml
    vm,      \* the memory of each profile's VM, 0 without one
    start,   \* the host operation of each profile
    lock     \* the start that holds the admission flock

vars == <<config, vm, start, lock>>

StartPcs == {"idle", "lock", "measure", "probe", "decide", "clear", "save",
             "spawn", "spawned", "failed", "boot"}
(* ask: the memory the VM shall have.  reserve: its limit.  todo: profiles *)
(* not measured yet.  about, size: the one being measured, and its         *)
(* configured memory.  sum: running_memory_mib so far.                     *)
Starts == [pc : StartPcs, ask : Sizes \cup {0}, reserve : Reserves \cup {0},
           todo : SUBSET Profiles, about : Profiles \cup {NoProfile},
           size : Sizes \cup {0}, sum : Nat]
Idle == [pc |-> "idle", ask |-> 0, reserve |-> 0, todo |-> {},
         about |-> NoProfile, size |-> 0, sum |-> 0]

TypeOK ==
    /\ config \in [Profiles -> Sizes]
    /\ vm \in [Profiles -> Sizes \cup {0}]
    /\ start \in [Profiles -> Starts]
    /\ lock \in Profiles \cup {NoProfile}

(* Profiles that were created and not started.                             *)
Init ==
    /\ config \in [Profiles -> Sizes]
    /\ vm = [p \in Profiles |-> 0]
    /\ start = [p \in Profiles |-> Idle]
    /\ lock = NoProfile

At(p, pc) == start[p].pc = pc
Goto(p, pc) == start' = [start EXCEPT ![p].pc = pc]
End(p) == start' = [start EXCEPT ![p] = Idle]
Held(p) == lock = p
Release(p) == lock' = IF Held(p) THEN NoProfile ELSE lock

---------------------------------------------------------------------------
(* Fault: settings change whether or not a VM runs with them.              *)
ConfigureAnyway(p, m) ==
    /\ At(p, "idle")
    /\ config' = [config EXCEPT ![p] = m]
    /\ UNCHANGED <<vm, start, lock>>

(* hamn_control_configure, apply_configure: under the profile's locks, and *)
(* only when the probe finds its VM gone.                                  *)
Configure(p, m) ==
    /\ At(p, "idle") /\ vm[p] = 0
    /\ config' = [config EXCEPT ![p] = m]
    /\ UNCHANGED <<vm, start, lock>>

(* Fault: a start that asks for no memory asks for none.                   *)
BeginUnset(p, m, r) ==
    /\ At(p, "idle")
    /\ vm[p] > 0 => m = config[p]
    /\ start' = [start EXCEPT ![p] =
                     [Idle EXCEPT !.pc = "lock", !.reserve = r]]
    /\ UNCHANGED <<config, vm, lock>>

(* cmd_start_execute up to start_admit.  A stopped VM is started with the  *)
(* memory asked for; one that runs and is not ready is started again with  *)
(* what it has, and any other request is refused.                          *)
Begin(p, m, r) ==
    /\ At(p, "idle")
    /\ vm[p] > 0 => m = config[p]
    /\ start' = [start EXCEPT ![p] =
                     [Idle EXCEPT !.pc = "lock", !.ask = m, !.reserve = r]]
    /\ UNCHANGED <<config, vm, lock>>

(* admission_lock_acquire polls, so a cancellation ends the wait.          *)
Acquire(p) ==
    /\ At(p, "lock") /\ lock = NoProfile
    /\ lock' = p
    /\ start' = [start EXCEPT ![p].pc = "measure",
                              ![p].todo = Profiles \ {p}]
    /\ UNCHANGED <<config, vm>>
Cancel(p) ==
    /\ At(p, "lock")
    /\ End(p)
    /\ UNCHANGED <<config, vm, lock>>

(* measure_profile: the settings are read, then the process is probed.     *)
(* Settings that cannot be read make the running memory unread, which      *)
(* refuses the start.                                                      *)
MeasureRead(p, q) ==
    /\ At(p, "measure") /\ q \in start[p].todo
    /\ \/ start' = [start EXCEPT ![p].pc = "probe", ![p].about = q,
                                 ![p].size = config[q],
                                 ![p].todo = start[p].todo \ {q}]
          /\ UNCHANGED lock
       \/ End(p) /\ Release(p)
    /\ UNCHANGED <<config, vm>>

ProbeAnswers(q) == IF vm[q] > 0 THEN {"verified", "unverified"}
                                ELSE {"stale", "unverified"}

MeasureProbe(p) ==
    /\ At(p, "probe")
    /\ \E answer \in ProbeAnswers(start[p].about) :
          start' = [start EXCEPT ![p].pc = "measure", ![p].about = NoProfile,
                        ![p].size = 0,
                        ![p].sum = IF answer = "stale"
                                   THEN @ ELSE @ + start[p].size]
    /\ UNCHANGED <<config, vm, lock>>

(* What the start still needs of the measurement: the memory it asks for.  *)
Admitted(p) == start' = [start EXCEPT ![p] =
                   [Idle EXCEPT !.pc = "clear", !.ask = start[p].ask]]
Available(r) == IF Total > r THEN Total - r ELSE 0

(* Fault: the flock covers the decision only.                              *)
DecideAndRelease(p) ==
    /\ At(p, "measure") /\ start[p].todo = {}
    /\ \/ /\ start[p].sum + start[p].ask =< Available(start[p].reserve)
          /\ Admitted(p)
       \/ End(p)
    /\ Release(p)
    /\ UNCHANGED <<config, vm>>

(* Fault: a refusal keeps the flock.                                       *)
DecideKeepsLock(p) ==
    /\ At(p, "measure") /\ start[p].todo = {}
    /\ \/ /\ start[p].sum + start[p].ask =< Available(start[p].reserve)
          /\ Admitted(p)
       \/ End(p)
    /\ UNCHANGED <<config, vm, lock>>

(* admission_decide.  The limits on memory pressure, load and battery may  *)
(* refuse any start.                                                       *)
Decide(p) ==
    /\ At(p, "measure") /\ start[p].todo = {}
    /\ \/ /\ start[p].sum + start[p].ask =< Available(start[p].reserve)
          /\ Admitted(p)
          /\ UNCHANGED lock
       \/ End(p) /\ Release(p)
    /\ UNCHANGED <<config, vm>>

(* The incomplete VM is stopped, or what a gone one left is cleaned up.    *)
ClearOld(p) ==
    /\ At(p, "clear")
    /\ \/ vm' = [vm EXCEPT ![p] = 0] /\ Goto(p, "save") /\ UNCHANGED lock
       \/ End(p) /\ Release(p) /\ UNCHANGED vm
    /\ UNCHANGED config

(* profile_save; a write that fails may have replaced the file.            *)
SaveConfig(p) ==
    /\ At(p, "save")
    /\ \/ /\ config' = [config EXCEPT ![p] = start[p].ask]
          /\ Goto(p, "spawn")
          /\ UNCHANGED lock
       \/ /\ config' \in {config, [config EXCEPT ![p] = start[p].ask]}
          /\ End(p) /\ Release(p)
    /\ UNCHANGED vm

(* Image, disk and seed come first, and each may fail.                     *)
Spawn(p) ==
    /\ At(p, "spawn")
    /\ \/ vm' = [vm EXCEPT ![p] = start[p].ask] /\ Goto(p, "spawned")
       \/ Goto(p, "failed") /\ UNCHANGED vm
    /\ UNCHANGED <<config, lock>>

(* vm_process_wait_spawned: the VM can be found by every probe from here.  *)
BecomesVisible(p) ==
    /\ At(p, "spawned")
    /\ \/ Goto(p, "boot") /\ Release(p)
       \/ Goto(p, "failed") /\ UNCHANGED lock
    /\ UNCHANGED <<config, vm>>

(* The rollback of a failed start: the flock first, then the VM.  A stop   *)
(* that fails, or an outcome that is not known, leaves the VM.             *)
RollBack(p) ==
    /\ At(p, "failed")
    /\ IF Held(p) THEN Release(p) /\ UNCHANGED <<vm, start>>
                  ELSE /\ End(p)
                       /\ vm' \in {vm, [vm EXCEPT ![p] = 0]}
                       /\ UNCHANGED lock
    /\ UNCHANGED config

Booted(p) ==
    /\ At(p, "boot")
    /\ End(p) \/ Goto(p, "failed")
    /\ UNCHANGED <<config, vm, lock>>

(* The start's process is killed; its flocks fall with it.                 *)
HostDies(p) ==
    /\ ~At(p, "idle")
    /\ End(p) /\ Release(p)
    /\ UNCHANGED <<config, vm>>

(* The guest powers off, the supervisor dies, or a stop succeeds.          *)
VmEnds(p) ==
    /\ vm[p] > 0
    /\ vm' = [vm EXCEPT ![p] = 0]
    /\ UNCHANGED <<config, start, lock>>

(* What a start does by itself once it is under way.                       *)
Works(p) ==
    \/ \E q \in Profiles : MeasureRead(p, q)
    \/ MeasureProbe(p) \/ Decide(p) \/ ClearOld(p) \/ SaveConfig(p)
    \/ Spawn(p) \/ BecomesVisible(p) \/ RollBack(p) \/ Booted(p)

Next == \E p \in Profiles :
    \/ \E m \in Sizes : Configure(p, m) \/ \E r \in Reserves : Begin(p, m, r)
    \/ Acquire(p) \/ Cancel(p)
    \/ Works(p)
    \/ HostDies(p) \/ VmEnds(p)

Spec == Init /\ [][Next]_vars

(* Every wait of a start under way has a timeout or ends with what it      *)
(* waits for; a start that polls for the flock is not assumed to get it.   *)
FairSpec == Spec /\ \A p \in Profiles : WF_vars(Works(p))

---------------------------------------------------------------------------
(* Two starts never pass on the same headroom: together the VMs never use  *)
(* more than the host's memory less the smallest reserve, whatever starts, *)
(* dies and is reconfigured while others are measuring (admission.h,       *)
(* cmd_start.c).                                                           *)
NoOvercommit == \E r \in Reserves : SumFunction(vm) =< Available(r)

(* What a measurement counts for a VM, its profile's configured memory, is *)
(* what the VM was started with.                                           *)
CountsWhatRuns == \A p \in Profiles : vm[p] > 0 => vm[p] = config[p]

(* A start that holds the flock gives it up: no refusal, failure or boot   *)
(* keeps every other start of the host waiting.                            *)
LockIsFreed == \A p \in Profiles : Held(p) ~> ~Held(p)
===========================================================================
