--------------------------- MODULE ReleaseDownload ---------------------------
(***************************************************************************)
(* Acquisition of one release artifact into the private download cache:    *)
(* lookup, resumed transfer, verification and publication under the lock   *)
(* of its digest, by several processes that may be killed at every step,   *)
(* over a connection that breaks and a server that replaces the file, on a *)
(* disk that may lose what was not synchronised.                           *)
(*                                                                         *)
(* A file is a sequence of blocks; a block is the version it was served    *)
(* from and the process that wrote it (history).  The digest the manifest  *)
(* declares is that of version Good, Size blocks long.                     *)
(***************************************************************************)
EXTENDS Naturals, Sequences, FiniteSets

CONSTANTS Procs,        \* processes that acquire the artifact
          Good, Bad,    \* versions a server may hold under the URL
          Size,         \* the declared size in blocks
          Attempts,     \* RESUME_ATTEMPTS
          MaxFaults,    \* bound: interruptions, failed writes, crashes, removals
          MaxChanges,   \* bound: times the server replaces the good version
          None          \* no file, no process, no version

ASSUME DownloadAssumption ==
    Good # Bad /\ Size \in Nat \ {0} /\ {Attempts, MaxFaults, MaxChanges} \subseteq Nat

VARIABLES lock,     \* holder of .<digest>.lock
          dir,      \* downloads/: [partial, meta, final], None for a missing file
          synced,   \* leading blocks on the disk of the partial, or of the
                    \* artifact it was renamed to: there is never both
          disk,     \* the directory as of its last synchronisation
          staged,   \* the cache holds a verified hamn-guest-<digest>.img
          server,   \* the version the server holds
          tagged,   \* its answers carry an ETag or a Last-Modified
          run,      \* the state of each process
          faults, changes

cacheVars == <<lock, dir, synced, disk>>
vars == <<cacheVars, staged, server, tagged, run, faults, changes>>

Versions == {Good, Bad}
Torn == "torn"
Block(v, p) == [v |-> v, by |-> p]

Blocks == [v : Versions \cup {Torn}, by : Procs \cup {None}]
Files == {None} \cup Seq(Blocks)
Validators == {None, "untagged"} \cup Versions
Dirs == [partial : Files, meta : Validators, final : Files]
Stages == {"idle", "lock", "lookup", "save", "request", "headers", "body", "rejected",
           "interrupted", "invalid", "verify", "publish", "sync", "clean", "done",
           "failed", "used"}
Runs == [pc : Stages, offset : Nat, saved : Validators, answer : {None} \cup Versions,
         status : Nat, received : Nat, written : Nat, discarded : Nat, attempt : Nat,
         downloaded : Nat, resumed : Nat, retained : Nat, reused : Nat, net : Nat, lost : Nat]

ASSUME NamesAssumption ==
    None \notin Procs \cup Versions \cup Seq(Blocks) /\ "untagged" \notin Versions

(* The checks every acquisition starts with (validate_url, the digest's     *)
(* form, 0 < size <= the kind's limit) hold for an artifact that            *)
(* manifest::decode accepted; it refuses every other.                       *)
Idle == [pc |-> "idle", offset |-> 0, saved |-> None, answer |-> None, status |-> 0,
         received |-> 0, written |-> 0, discarded |-> 0, attempt |-> 0,
         downloaded |-> 0, resumed |-> 0, retained |-> 0, reused |-> 0,
         net |-> 0, lost |-> 0]

(* One attempt's own counters start at zero; the run's stay.                *)
Attempt(r) == [r EXCEPT !.pc = "lock", !.offset = 0, !.saved = None, !.answer = None,
                        !.status = 0, !.received = 0, !.written = 0, !.discarded = 0]

Become(p, r) == run' = [run EXCEPT ![p] = r]
At(p, pc) == run[p].pc = pc
Unchanged == UNCHANGED <<staged, server, tagged, changes>>
Calm == Unchanged /\ UNCHANGED faults
Fault == faults < MaxFaults /\ faults' = faults + 1 /\ Unchanged

(* verified: exact size and digest.                                         *)
Verified(f) == f # None /\ Len(f) = Size /\ \A i \in DOMAIN f : f[i].v = Good

(* The directory reaches the disk with the synchronised part of its files.  *)
Cut(f, n) == IF f = None THEN None ELSE SubSeq(f, 1, n)
Durable(d, n) == [d EXCEPT !.partial = Cut(@, n), !.final = Cut(@, n)]

(* atomic_bytes of the validator file ends with a directory sync.           *)
SaveMetadata(validator) ==
    /\ dir' = [dir EXCEPT !.meta = validator]
    /\ disk' = Durable(dir', synced)

Init ==
    /\ lock = None /\ dir = [partial |-> None, meta |-> None, final |-> None]
    /\ disk = dir /\ synced = 0 /\ staged \in BOOLEAN
    /\ server \in Versions /\ tagged \in BOOLEAN
    /\ run = [p \in Procs |-> Idle] /\ faults = 0 /\ changes = 0

----------------------------------------------------------------------------
(* One attempt *)

(* A run begins; blocks an earlier run of p wrote are no longer its own.    *)
Disown(f, p) == IF f = None THEN None
                ELSE [i \in DOMAIN f |-> IF f[i].by = p THEN Block(f[i].v, None) ELSE f[i]]

Begin(p) ==
    /\ run[p].pc \in {"idle", "failed"} /\ Become(p, Attempt(Idle))
    /\ dir' = [dir EXCEPT !.partial = Disown(@, p), !.final = Disown(@, p)]
    /\ UNCHANGED <<lock, synced, disk>> /\ Calm

ArtifactLock(p) ==
    /\ At(p, "lock") /\ lock = None /\ lock' = p
    /\ Become(p, [run[p] EXCEPT !.pc = "lookup"])
    /\ UNCHANGED <<dir, synced, disk>> /\ Calm

(* The attempt succeeded: what earlier attempts of this run left in the     *)
(* partial was counted as reused, and is not.                               *)
Minus(a, b) == IF a > b THEN a - b ELSE 0
KeepingRetained(r) == [r EXCEPT !.pc = "done"]
Succeeded(r) == [r EXCEPT !.pc = "done", !.reused = Minus(@, r.retained)]

Reused(r) == [r EXCEPT !.reused = Size]

(* A verified artifact or staged guest image ends the attempt.  An artifact *)
(* that does not verify is removed.                                         *)
LookupHit(p) ==
    /\ At(p, "lookup") /\ (Verified(dir.final) \/ staged)
    /\ dir' = [dir EXCEPT !.final = IF Verified(@) THEN @ ELSE None]
    /\ synced' = IF dir' = dir THEN synced ELSE 0
    /\ Become(p, Succeeded(Reused(run[p]))) /\ lock' = None
    /\ UNCHANGED disk /\ Calm

Resumable == /\ dir.partial # None /\ dir.meta # None
             /\ 0 < Len(dir.partial) /\ Len(dir.partial) < Size

LookupPartial(p) ==
    LET r == run[p] IN
    /\ At(p, "lookup") /\ ~Verified(dir.final) /\ ~staged
    /\ IF Verified(dir.partial)
       THEN /\ Become(p, Reused([r EXCEPT !.pc = "publish"]))
            /\ synced' = Size /\ dir' = [dir EXCEPT !.final = None]
       ELSE IF Resumable
       THEN /\ Become(p, [r EXCEPT !.pc = "save", !.offset = Len(dir.partial), !.saved = dir.meta])
            /\ dir' = [dir EXCEPT !.final = None] /\ UNCHANGED synced
       ELSE /\ Become(p, [r EXCEPT !.pc = "save", !.saved = "untagged"])
            /\ dir' = [dir EXCEPT !.final = None, !.partial = None] /\ synced' = 0
    /\ UNCHANGED <<lock, disk>> /\ Calm

Save(p) ==
    /\ At(p, "save") /\ SaveMetadata(run[p].saved)
    /\ Become(p, [run[p] EXCEPT !.pc = "request"])
    /\ UNCHANGED <<lock, synced>> /\ Calm

----------------------------------------------------------------------------
(* The transfer *)

(* A server honours a Range only for the version that If-Range names; it    *)
(* may ignore it, and answers 416 to a range it does not have.              *)
Statuses(r) == IF r.offset = 0 THEN {200}
               ELSE {200, 416} \cup (IF r.saved \in {"untagged", server} THEN {206} ELSE {})

(* The destination is opened, truncated unless it is resumed, and curl is   *)
(* started; the server answers with the version it holds.                   *)
Request(p) ==
    LET r == run[p] IN
    /\ At(p, "request")
    /\ dir' = [dir EXCEPT !.partial = IF r.offset = 0 THEN <<>> ELSE @]
    /\ synced' = IF r.offset = 0 THEN 0 ELSE synced
    /\ \E status \in Statuses(r) :
        Become(p, [r EXCEPT !.status = status, !.answer = server, !.pc =
            IF r.offset = 0 \/ status = 206 THEN "headers" ELSE "rejected"])
    /\ UNCHANGED <<lock, disk>> /\ Calm

HeadersKeepingTag(p) ==
    /\ At(p, "headers")
    /\ IF tagged /\ dir.meta = "untagged"
       THEN SaveMetadata(run[p].answer) ELSE UNCHANGED <<dir, disk>>
    /\ Become(p, [run[p] EXCEPT !.pc = "body"])
    /\ UNCHANGED <<lock, synced>> /\ Calm

(* on_headers, before the first block is written.                           *)
Headers(p) ==
    /\ At(p, "headers")
    /\ IF tagged THEN SaveMetadata(run[p].answer) ELSE UNCHANGED <<dir, disk>>
    /\ Become(p, [run[p] EXCEPT !.pc = "body"])
    /\ UNCHANGED <<lock, synced>> /\ Calm

Received(r) == [r EXCEPT !.received = @ + 1, !.net = @ + 1]

Receive(p) ==
    LET r == run[p] IN
    /\ At(p, "body") /\ r.offset + r.received < Size
    /\ dir' = [dir EXCEPT !.partial = Append(@, Block(r.answer, p))]
    /\ Become(p, [Received(r) EXCEPT !.written = @ + 1])
    /\ UNCHANGED <<lock, synced, disk>> /\ Calm

(* Another version may be longer than declared, unless its range said not.  *)
Oversized(p) ==
    /\ At(p, "body") /\ run[p].offset + run[p].received = Size
    /\ run[p].answer = Bad /\ run[p].status = 200
    /\ Become(p, [Received(run[p]) EXCEPT !.pc = "invalid"])
    /\ UNCHANGED cacheVars /\ Calm

(* The body of an answer that ignored the range is read and dropped.        *)
Discard(p) ==
    /\ At(p, "rejected") /\ run[p].status = 200
    /\ Become(p, [Received(run[p]) EXCEPT
           !.pc = IF run[p].received + 1 > Size THEN "invalid" ELSE "rejected"])
    /\ run[p].received + 1 > Size => run[p].answer = Bad
    /\ UNCHANGED cacheVars /\ Calm

TransferUnsynced(p) ==
    LET r == run[p] IN
    /\ At(p, "body")
    /\ r.offset + r.received = Size \/ (r.answer = Bad /\ r.status = 200)
    /\ Become(p, [r EXCEPT !.pc = "verify"])
    /\ UNCHANGED cacheVars /\ Calm

(* The answer ends with what the server holds: all of the good version, or  *)
(* a part of another.  The file is synchronised.                            *)
TransferEnds(p) ==
    LET r == run[p] IN
    /\ At(p, "body")
    /\ r.offset + r.received = Size \/ (r.answer = Bad /\ r.status = 200)
    /\ synced' = Len(dir.partial)
    /\ Become(p, [r EXCEPT !.pc = "verify"])
    /\ UNCHANGED <<lock, dir, disk>> /\ Calm

(* curl fails: no answer, a broken connection, a stall or the deadline.     *)
(* The file is synchronised before that is known, unless its pipe cannot be *)
(* read or the synchronisation fails.                                       *)
Interrupted(p) ==
    /\ run[p].pc \in {"request", "headers", "body"} /\ Fault
    /\ dir' = [dir EXCEPT !.partial = IF At(p, "request") /\ run[p].offset = 0 THEN <<>> ELSE @]
    /\ synced' \in {Len(dir'.partial), IF dir'.partial = <<>> THEN 0 ELSE synced}
    /\ Become(p, [run[p] EXCEPT !.pc = "interrupted"])
    /\ UNCHANGED <<lock, disk>>

(* A block cannot be written, or only in part.                              *)
WriteFails(p) ==
    LET r == run[p] IN
    /\ At(p, "body") /\ r.offset + r.received < Size /\ Fault
    /\ dir' \in {dir, [dir EXCEPT !.partial = Append(@, Block(r.answer, p))]}
    /\ Become(p, [Received(r) EXCEPT !.pc = "interrupted", !.lost = @ + 1])
    /\ UNCHANGED <<lock, synced, disk>>

(* The validator cannot be saved, or the answer's header cannot be read:    *)
(* the transfer is invalid before its first block is written.               *)
HeadersFail(p) ==
    /\ At(p, "headers") /\ Fault /\ Become(p, [run[p] EXCEPT !.pc = "invalid"])
    /\ UNCHANGED cacheVars

RangeRejectedKeeping(p) ==
    /\ At(p, "rejected")
    /\ Become(p, [run[p] EXCEPT !.pc = "interrupted"])
    /\ UNCHANGED cacheVars /\ Calm

(* RangeRejected: the partial is dropped and the whole file is asked for    *)
(* once, without a range.                                                   *)
RangeRejected(p) ==
    LET r == run[p] IN
    /\ At(p, "rejected")
    /\ dir' = [dir EXCEPT !.partial = None] /\ synced' = 0
    /\ Become(p, [r EXCEPT !.pc = "request", !.offset = 0, !.discarded = r.received,
                           !.received = 0, !.written = 0])
    /\ UNCHANGED <<lock, disk>> /\ Calm

----------------------------------------------------------------------------
(* The end of an attempt *)

(* The bytes of failed attempts count as downloaded.  An attempt that kept  *)
(* new bytes is followed by another.                                        *)
Failed(r, retained) ==
    LET sum == [r EXCEPT !.downloaded = @ + r.discarded + r.written,
                         !.resumed = @ + (IF r.offset # 0 THEN r.written ELSE 0)]
    IN  IF retained = 0 \/ r.attempt >= Attempts THEN [Idle EXCEPT !.pc = "failed"]
        ELSE Attempt([sum EXCEPT !.attempt = @ + 1, !.retained = @ + retained])

EndInterrupted(p) ==
    /\ At(p, "interrupted") /\ lock' = None
    /\ Become(p, Failed(run[p], run[p].written))
    /\ UNCHANGED <<dir, synced, disk>> /\ Calm

(* The size or the digest is wrong: the partial and its validator go.       *)
EndInvalid(p) ==
    /\ \/ At(p, "invalid")
       \/ At(p, "verify") /\ ~Verified(dir.partial)
    /\ lock' = None /\ Become(p, Failed(run[p], 0))
    /\ dir' = [dir EXCEPT !.partial = None, !.meta = None] /\ synced' = 0
    /\ UNCHANGED disk /\ Calm

Counted(r) ==
    [r EXCEPT !.downloaded = @ + r.received + r.discarded,
              !.resumed = @ + (IF r.offset # 0 THEN r.received ELSE 0),
              !.reused = r.offset]

Accept(p) ==
    /\ At(p, "verify") /\ Verified(dir.partial)
    /\ Become(p, Counted([run[p] EXCEPT !.pc = "publish"]))
    /\ UNCHANGED cacheVars /\ Calm

Publish(p) ==
    /\ At(p, "publish")
    /\ dir' = [dir EXCEPT !.final = dir.partial, !.partial = None]
    /\ Become(p, [run[p] EXCEPT !.pc = "sync"])
    /\ UNCHANGED <<lock, synced, disk>> /\ Calm

SyncDirectory(p) ==
    /\ At(p, "sync") /\ disk' = Durable(dir, synced)
    /\ Become(p, [run[p] EXCEPT !.pc = "clean"])
    /\ UNCHANGED <<lock, dir, synced>> /\ Calm

Clean(p) ==
    /\ At(p, "clean") /\ lock' = None /\ dir' = [dir EXCEPT !.meta = None]
    /\ Become(p, Succeeded(run[p]))
    /\ UNCHANGED <<synced, disk>> /\ Calm

(* The rename or a synchronisation fails; the verified bytes stay.          *)
PublishFails(p) ==
    /\ run[p].pc \in {"publish", "sync"} /\ Fault
    /\ lock' = None /\ Become(p, [Idle EXCEPT !.pc = "failed"])
    /\ UNCHANGED <<dir, synced, disk>>

(* The updater checks the digest of the path it was given before it uses    *)
(* it: the lock is free by then and the artifact may have been collected.   *)
Use(p) ==
    /\ At(p, "done")
    /\ Become(p, [Idle EXCEPT !.pc = IF staged \/ Verified(dir.final) THEN "used" ELSE "failed"])
    /\ UNCHANGED cacheVars /\ Calm

----------------------------------------------------------------------------
(* The rest of the world *)

(* remove_artifact of another update, under the lock it does not wait for.  *)
RemoveArtifact ==
    /\ lock = None /\ dir.final # None /\ Fault
    /\ dir' = [dir EXCEPT !.final = None] /\ synced' = 0
    /\ UNCHANGED <<lock, disk, run>>

(* A kill releases the lock and leaves the files.                           *)
Crash(p) ==
    /\ run[p].pc \notin {"idle", "failed", "used"} /\ Fault /\ Become(p, Idle)
    /\ lock' = IF lock = p THEN None ELSE lock
    /\ UNCHANGED <<dir, synced, disk>>

(* What was not synchronised may be lost: blocks of the partial, or of the  *)
(* artifact that was renamed from it, are missing or torn, and the          *)
(* directory may be the last synchronised one.                              *)
AfterLoss(f, n) ==
    IF f = None THEN {None}
    ELSE (IF n = 0 THEN {<<>>} ELSE {}) \cup
         UNION {{[i \in 1..k |-> IF i <= n THEN f[i] ELSE Block(v, None)] : v \in {f[k].v, Torn}} :
                k \in (IF n > 0 THEN n ELSE 1)..Len(f)}

(* The blocks of the one file that there is.                                *)
Blocked(d) == IF d.partial # None THEN Len(d.partial)
              ELSE IF d.final # None THEN Len(d.final) ELSE 0

PowerLoss ==
    /\ Fault /\ lock' = None /\ run' = [p \in Procs |-> Idle]
    /\ \/ \E f \in AfterLoss(dir.partial, synced), g \in AfterLoss(dir.final, synced) :
              dir' = [dir EXCEPT !.partial = f, !.final = g]
       \/ dir' = disk
    /\ synced' = Blocked(dir') /\ disk' = dir'

(* The file under the URL is replaced, and put back.                        *)
Replace ==
    /\ server = Good /\ changes < MaxChanges /\ server' = Bad /\ changes' = changes + 1
    /\ UNCHANGED <<cacheVars, staged, tagged, run, faults>>
Restore ==
    /\ server = Bad /\ server' = Good
    /\ UNCHANGED <<cacheVars, staged, tagged, run, faults, changes>>

Step(p) ==
    \/ Begin(p) \/ ArtifactLock(p) \/ LookupHit(p) \/ LookupPartial(p) \/ Save(p)
    \/ Request(p) \/ Headers(p) \/ Receive(p) \/ Oversized(p) \/ Discard(p)
    \/ TransferEnds(p) \/ RangeRejected(p) \/ EndInterrupted(p) \/ EndInvalid(p)
    \/ Accept(p) \/ Publish(p) \/ SyncDirectory(p) \/ Clean(p) \/ Use(p)

Trouble(p) == Interrupted(p) \/ HeadersFail(p) \/ WriteFails(p) \/ PublishFails(p) \/ Crash(p)

Settled == \A p \in Procs : At(p, "used")

Next == \/ \E p \in Procs : Step(p) \/ Trouble(p)
        \/ RemoveArtifact \/ PowerLoss \/ Replace \/ Restore
        \/ Settled /\ UNCHANGED vars

(* A process goes on and its user runs it again after a failure; a lock     *)
(* that is free again and again is taken; the release is put back.          *)
Fairness ==
    /\ \A p \in Procs : WF_vars(Step(p)) /\ SF_vars(ArtifactLock(p))
    /\ WF_vars(Restore)

Spec == Init /\ [][Next]_vars /\ Fairness

----------------------------------------------------------------------------
(* The type of the cache and of each acquisition (Acquired and its locals). *)
TypeOK ==
    /\ lock \in Procs \cup {None} /\ synced \in Nat
    /\ dir \in Dirs /\ disk \in Dirs
    /\ server \in Versions /\ tagged \in BOOLEAN /\ staged \in BOOLEAN
    /\ faults \in 0..MaxFaults /\ changes \in 0..MaxChanges
    /\ run \in [Procs -> Runs]

(* Only the exact declared bytes are ever published, whatever mixture of    *)
(* versions, torn blocks and processes the partial was made of, also after  *)
(* a power loss: the file is synchronised before it is verified and renamed *)
(* (sync_all, verified, rename, sync_directory of acquire_observed).        *)
PublishedIsExact ==
    dir.final # None => Len(dir.final) = Size /\ \A i \in DOMAIN dir.final : dir.final[i].v = Good

(* A server that names its versions never has two of them joined: the       *)
(* validator that is kept belongs to the bytes that are kept (on_headers,   *)
(* save_metadata, RangeRejected).                                           *)
OneVersion ==
    tagged /\ dir.partial # None
    => Cardinality({dir.partial[i].v : i \in DOMAIN dir.partial} \ {Torn}) <= 1

(* What a run reports agrees with what it did, but for the blocks whose     *)
(* write failed: it downloaded all that it received without those, resumed  *)
(* no more than that, and what it calls reused is neither negative nor,     *)
(* without those, a block it wrote itself.  A block whose write failed half *)
(* way is not reported as downloaded and, when it is resumed over, is       *)
(* reported as reused (acquire_resuming, acquire_observed).                 *)
CountsAreTrue ==
    \A p \in Procs : LET r == run[p] IN
        At(p, "done") =>
            /\ r.downloaded = r.net - r.lost /\ r.resumed <= r.downloaded
            /\ 0 <= r.reused
            /\ dir.final # None /\ ~staged => r.reused <=
                   Cardinality({i \in DOMAIN dir.final : dir.final[i].by # p}) + r.lost

(* The same without that exception, as AttemptStats says of its fields: the *)
(* payload that was received is downloaded, and no block of it is reused.   *)
CountsAreExact ==
    \A p \in Procs : LET r == run[p] IN
        At(p, "done") =>
            /\ r.downloaded = r.net /\ r.resumed <= r.downloaded
            /\ dir.final # None /\ ~staged => r.reused <=
                   Cardinality({i \in DOMAIN dir.final : dir.final[i].by # p})

(* Every process has the artifact in the end: no partial, validator or lock *)
(* that a fault leaves behind keeps later attempts from succeeding.         *)
AcquiredInTheEnd == <>Settled

=============================================================================
