--------------------------- MODULE RemoteMutation ---------------------------
(***************************************************************************)
(* host/core/remote_mutation.c: how the host process runs a command that   *)
(* changes the guest.  The command is sent over SSH, wrapped in a script   *)
(* (`writer') that takes one guest-wide flock, looks for a cancellation    *)
(* marker with its own random token and only then executes.  An            *)
(* unsuccessful call is fenced: the marker is published outside the lock   *)
(* and the lock is taken once (`barrier'), so that the caller may roll     *)
(* back knowing that the command is over or will never begin.              *)
(*                                                                         *)
(* A writer is named by its token.  The network, the SSH client and the    *)
(* guest are free to delay a writer, to lose it, and to lose its answer.   *)
(***************************************************************************)
EXTENDS FiniteSets

CONSTANTS Writers,   \* the tokens remote_mutation_run draws
          NoWriter   \* nobody holds the guest lock / no call is under way

ASSUME NoWriterAssumption == NoWriter \notin Writers

VARIABLES
    guest,          \* guest[w]: where writer w is, seen from the guest
    lockHolder,     \* holder of /run/hamn-deployment.lock
    markers,        \* tokens in /run/hamn-cancelled-mutations
    pc,             \* where remote_mutation_run is in the host process
    cur,            \* the token of the call under way
    cleanupPending, \* the static of remote_mutation.c
    mine,           \* history: tokens drawn by the current host process
    settled         \* history: tokens whose fence succeeded

vars == <<guest, lockHolder, markers, pc, cur, cleanupPending, mine, settled>>

(* "unsent": not drawn yet.  "sent": given to ssh, not yet a guest process. *)
(* "queued": waiting in flock.  "locked": owns the lock, marker not looked   *)
(* at.  "running": found no marker and executes the command.  "ok", "failed" *)
(* (nonzero exit or killed by timeout), "refused" (exit 130) and "lost"      *)
(* (never ran: flock's wait expired, the session or the guest went away).    *)
GuestStates == {"unsent", "sent", "queued", "locked", "running",
                "ok", "failed", "refused", "lost"}
LockStates == {"locked", "running"}

TypeOK ==
    /\ guest \in [Writers -> GuestStates]
    /\ lockHolder \in Writers \cup {NoWriter}
    /\ markers \subseteq Writers
    /\ pc \in {"idle", "exec", "publish", "barrier"}
    /\ cur \in Writers \cup {NoWriter}
    /\ cleanupPending \in BOOLEAN
    /\ mine \subseteq Writers
    /\ settled \subseteq Writers

Init ==
    /\ guest = [w \in Writers |-> "unsent"]
    /\ lockHolder = NoWriter
    /\ markers = {}
    /\ pc = "idle"
    /\ cur = NoWriter
    /\ cleanupPending = FALSE
    /\ mine = {}
    /\ settled = {}

-----------------------------------------------------------------------------
(* The host process. *)

host == <<pc, cur, cleanupPending, mine, settled>>
guestSide == <<guest, lockHolder, markers>>

(* remote_mutation_run is entered: refused while a fence is unsettled. *)
Run(w) ==
    /\ pc = "idle"
    /\ ~cleanupPending
    /\ guest[w] = "unsent"
    /\ pc' = "exec"
    /\ cur' = w
    /\ mine' = mine \cup {w}
    /\ guest' = [guest EXCEPT ![w] = "sent"]
    /\ UNCHANGED <<lockHolder, markers, cleanupPending, settled>>

(* The SSH client returned 0: the guest command exited 0. *)
ExecOk ==
    /\ pc = "exec"
    /\ guest[cur] = "ok"
    /\ pc' = "idle"
    /\ cur' = NoWriter
    /\ UNCHANGED <<guestSide, cleanupPending, mine, settled>>

(* rc # 0: the guest's own failure, a lost session, the client's deadline or *)
(* a cancellation.  Nothing is known of the writer.                          *)
ExecUnsuccessful ==
    /\ pc = "exec"
    /\ pc' = "publish"
    /\ UNCHANGED <<guestSide, cur, cleanupPending, mine, settled>>

(* Fault: a failed publication or barrier is forgotten. *)
GiveUpSilently ==
    /\ pc' = "idle"
    /\ cur' = NoWriter
    /\ UNCHANGED <<cleanupPending, mine, settled>>

(* Fault: the call goes on fencing after it gave up. *)
GiveUpWithoutReturn ==
    /\ cleanupPending' = TRUE
    /\ cur' = NoWriter
    /\ UNCHANGED <<pc, mine, settled>>

(* The marker is written, outside the lock. *)
PublishOk ==
    /\ pc = "publish"
    /\ markers' = markers \cup {cur}
    /\ pc' = "barrier"
    /\ UNCHANGED <<guest, lockHolder, cur, cleanupPending, mine, settled>>

GiveUp ==
    /\ cleanupPending' = TRUE
    /\ pc' = "idle"
    /\ cur' = NoWriter
    /\ UNCHANGED <<mine, settled>>

(* ssh reports a failure of the publication; the guest may have done it. *)
PublishFailed ==
    /\ pc = "publish"
    /\ GiveUp
    /\ \/ markers' = markers \cup {cur}
       \/ markers' = markers
    /\ UNCHANGED <<guest, lockHolder>>

(* Fault: publishing the marker is thought to be enough. *)
BarrierSkipped ==
    /\ pc = "barrier"
    /\ settled' = settled \cup {cur}
    /\ pc' = "idle"
    /\ cur' = NoWriter
    /\ UNCHANGED <<guestSide, cleanupPending, mine>>

(* `flock lock true': the lock was free at some moment after the marker. *)
BarrierOk ==
    /\ pc = "barrier"
    /\ lockHolder = NoWriter
    /\ settled' = settled \cup {cur}
    /\ pc' = "idle"
    /\ cur' = NoWriter
    /\ UNCHANGED <<guestSide, cleanupPending, mine>>

(* flock's wait, the guest's deadline or the SSH client's deadline expired. *)
BarrierFailed ==
    /\ pc = "barrier"
    /\ GiveUp
    /\ UNCHANGED guestSide

(* The host process dies; the next operation is a new process. *)
HostCrash ==
    /\ pc' = "idle"
    /\ cur' = NoWriter
    /\ cleanupPending' = FALSE
    /\ mine' = {}
    /\ UNCHANGED <<guestSide, settled>>

-----------------------------------------------------------------------------
(* The guest. *)

Arrive(w) ==
    /\ guest[w] = "sent"
    /\ guest' = [guest EXCEPT ![w] = "queued"]
    /\ UNCHANGED <<host, lockHolder, markers>>

(* Fault: a shared flock. *)
AcquireShared(w) ==
    /\ guest[w] = "queued"
    /\ lockHolder' = w
    /\ guest' = [guest EXCEPT ![w] = "locked"]
    /\ UNCHANGED <<host, markers>>

(* A session that never started, flock --wait that expired, or the guest's   *)
(* `timeout' that killed the script before the command began.                *)
Lose(w) ==
    /\ guest[w] \in {"sent", "queued", "locked"}
    /\ guest' = [guest EXCEPT ![w] = "lost"]
    /\ lockHolder' = IF lockHolder = w THEN NoWriter ELSE lockHolder
    /\ UNCHANGED <<host, markers>>

Acquire(w) ==
    /\ guest[w] = "queued"
    /\ lockHolder = NoWriter
    /\ lockHolder' = w
    /\ guest' = [guest EXCEPT ![w] = "locked"]
    /\ UNCHANGED <<host, markers>>

(* if test -e "$marker"; then rm -- "$marker"; exit 130; fi *)
Refuse(w) ==
    /\ guest[w] = "locked"
    /\ w \in markers
    /\ markers' = markers \ {w}
    /\ guest' = [guest EXCEPT ![w] = "refused"]
    /\ lockHolder' = NoWriter
    /\ UNCHANGED host

(* Fault: the script does not look for its marker. *)
ExecuteUnchecked(w) ==
    /\ guest[w] = "locked"
    /\ guest' = [guest EXCEPT ![w] = "running"]
    /\ UNCHANGED <<host, lockHolder, markers>>

(* exec timeout ... "$@" *)
Execute(w) ==
    /\ guest[w] = "locked"
    /\ w \notin markers
    /\ guest' = [guest EXCEPT ![w] = "running"]
    /\ UNCHANGED <<host, lockHolder, markers>>

(* Fault: no deadline in the guest; only a waiting client ends a command. *)
FinishAttached(w) ==
    /\ guest[w] = "running"
    /\ cur = w
    /\ \E result \in {"ok", "failed"} : guest' = [guest EXCEPT ![w] = result]
    /\ lockHolder' = NoWriter
    /\ UNCHANGED <<host, markers>>

(* The command ends, or timeout kills it: its last process releases the lock. *)
Finish(w) ==
    /\ guest[w] = "running"
    /\ \E result \in {"ok", "failed"} : guest' = [guest EXCEPT ![w] = result]
    /\ lockHolder' = NoWriter
    /\ UNCHANGED <<host, markers>>

(* /run is a tmpfs: a reboot ends every writer and forgets every marker. *)
Reboot ==
    /\ guest' = [w \in Writers |->
                    CASE guest[w] \in {"sent", "queued", "locked"} -> "lost"
                      [] guest[w] = "running" -> "failed"
                      [] OTHER -> guest[w]]
    /\ markers' = {}
    /\ lockHolder' = NoWriter
    /\ UNCHANGED host

-----------------------------------------------------------------------------
HostStep ==
    \/ \E w \in Writers : Run(w)
    \/ ExecOk \/ ExecUnsuccessful
    \/ PublishOk \/ PublishFailed
    \/ BarrierOk \/ BarrierFailed

GuestStep ==
    \E w \in Writers :
        Arrive(w) \/ Lose(w) \/ Acquire(w) \/ Refuse(w) \/ Execute(w) \/ Finish(w)

Next == HostStep \/ HostCrash \/ GuestStep \/ Reboot

Spec == Init /\ [][Next]_vars

(* flock --wait and the two `timeout's bound every stage of a writer that    *)
(* has reached the guest; nothing bounds the stages before.                  *)
StageEnds(w) ==
    \/ guest[w] # "sent" /\ Lose(w)
    \/ Refuse(w) \/ Execute(w) \/ Finish(w)

FairSpec == Spec /\ \A w \in Writers : WF_vars(StageEnds(w))

-----------------------------------------------------------------------------
(* Properties. *)

Over == {"ok", "failed", "refused", "lost"}
Pending == {"sent", "queued", "locked"}

(* Writer w is over, or will find its marker if it ever gets the lock. *)
Harmless(w) == guest[w] \in Over \/ (guest[w] \in Pending /\ w \in markers)

(* One guest lock serialises every writer, of this host process and of one   *)
(* that died: two guest commands never change the guest at the same time.    *)
OneWriterAtATime ==
    \A v, w \in Writers :
        guest[v] \in LockStates /\ guest[w] \in LockStates => v = w

(* A writer whose fence succeeded (remote_mutation_run returned nonzero with *)
(* cleanup_pending clear) is over or finds its marker, however late it       *)
(* reaches the guest.                                                        *)
FencedNeverRuns == \A w \in settled : Harmless(w)

(* "No subsequent rollback may race a writer we could not settle"            *)
(* (remote_mutation.c:47): while nothing is pending, every earlier writer of *)
(* this host process is over or fenced, whatever the process does next; once *)
(* something is pending, the process starts no further writer.               *)
NoRaceWithOwnWriter ==
    /\ ~cleanupPending => \A w \in mine \ {cur} : Harmless(w)
    /\ cleanupPending => pc = "idle"

(* Every writer that reached the guest is over sooner or later: neither a    *)
(* dead host nor a writer stuck in its command wedges the guest lock.        *)
WriterEnds == \A w \in Writers : guest[w] \in {"queued", "locked", "running"} ~> guest[w] \in Over

(* The fence implements the contract its callers rely on.  A writer that is  *)
(* on its way, queued or has only the lock has not begun.                    *)
Status ==
    [w \in Writers |-> CASE guest[w] = "unsent" -> "new"
                         [] guest[w] \in Pending -> "open"
                         [] guest[w] = "running" -> "running"
                         [] OTHER -> "ended"]
Contract == INSTANCE MutationContract WITH status <- Status, closed <- settled

(* Fenced writers never begin, one at a time, each at most once: the whole   *)
(* of remote_mutation_run is a MutationContract.                             *)
ImplementsContract == Contract!Spec

=============================================================================
