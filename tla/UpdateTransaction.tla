------------------------- MODULE UpdateTransaction -------------------------
(***************************************************************************)
(* The release transaction (control/install_support/update.rs) with its    *)
(* durable journal (journal.rs), the host generations (generation.rs),     *)
(* their collection (retention.rs), and the check by which a VM start      *)
(* stays away from a half-made update (host/image/fetch.c).                *)
(*                                                                         *)
(* One installation: a command link and its generations, shared by the     *)
(* HOMEs that use it.  Each HOME has its own image cache, with the guest   *)
(* image selection and the journal.  The transaction locks admit one       *)
(* process at a time: up is that process, and it may be killed between any *)
(* two of its steps.  VM starts take none of these locks.                  *)
(***************************************************************************)
EXTENDS Naturals, FiniteSets

CONSTANTS Homes,     \* HOME directories
          Starters,  \* those in which VM starts are looked at
          Releases,  \* release versions, in order
          MaxGen,    \* generations ever made (bound)
          None       \* no generation, no selection, no journal

Gens == 1..MaxGen

ASSUME UpdateConstants ==
    /\ Starters \subseteq Homes /\ Releases \subseteq Nat \ {0}
    /\ MaxGen \in Nat /\ None \notin Nat

VARIABLES
    link,     \* the generation BINDIR/hamn names
    gens,     \* the generation directories
    sel,      \* guest-image.json of each HOME: the release it selects
    images,   \* verified guest images in each HOME's cache
    journal,  \* .hamn-update-transaction
    stage,    \* a journal stage, .hamn-update-transaction.<suffix>, exists
    retired,  \* .hamn-update-{completed,recovered}.<attempt>
    cleanup,  \* .hamn-update-cleanup.<outcome>.<attempt> exists
    up,       \* the process that holds the transaction locks
    start,    \* the VM start of a HOME, in fetch_image_ensure
    committed \* generations whose update was committed (history)

vars == <<link, gens, sel, images, journal, stage, retired, cleanup, up, start,
          committed>>
cacheVars == <<sel, images, journal, stage, retired, cleanup>>
hostVars == <<link, gens, committed>>

(* A generation: its release, .hamn-previous-target, the release receipt,  *)
(* whether `make install' built it, and the HOMEs recorded as its recovery *)
(* roots.  Retired: renamed .retired-<name>, to be erased.                 *)
GenStates == {"none", "live", "retired", "gone"}
Generations ==
    [state : GenStates, rel : Releases \cup {0}, prev : Gens \cup {None},
     receipt : BOOLEAN, source : BOOLEAN, roots : SUBSET Homes]
NoGeneration == [state |-> "none", rel |-> 0, prev |-> None,
                 receipt |-> FALSE, source |-> FALSE, roots |-> {}]

(* old, new: old-target, new-target.  old = None is a bootstrap.  Of a     *)
(* retired journal only these are looked at again.                         *)
Targets == [old : Gens \cup {None}, new : Gens \cup {None}]
Journals == [host : BOOLEAN, old : Gens \cup {None}, new : Gens \cup {None},
             prevSel : Releases \cup {None}, newSel : Releases]

ASSUME NoneIsNoJournal == None \notin Journals

Pcs == {"idle", "deferred", "retired", "erase", "pending", "rollback",
        "restoreSel", "restoreLink", "recovered", "refresh", "stage",
        "journalStage", "journalRoot", "publish", "generation", "rootNew",
        "record", "link", "receipt", "commit", "complete", "collect",
        "eraseGen", "cache"}
(* after: where cleaning or a rollback goes on.                            *)
Processes ==
    [pc : Pcs, kind : {"update", "install", "prune"}, home : Homes \cup {None},
     want : Releases \cup {0}, host : BOOLEAN, old : Gens \cup {None},
     gen : Gens \cup {None}, after : {"pending", "refresh", "prune", "stop"}]
Idle == [pc |-> "idle", kind |-> "update", home |-> None, want |-> 0,
         host |-> FALSE, old |-> None, gen |-> None, after |-> "pending"]

TypeOK ==
    /\ link \in Gens \cup {None}
    /\ gens \in [Gens -> Generations]
    /\ sel \in [Homes -> Releases \cup {None}]
    /\ images \in [Homes -> SUBSET Releases]
    /\ journal \in [Homes -> Journals \cup {None}]
    /\ stage \in [Homes -> BOOLEAN]
    /\ retired \in [Homes -> Targets \cup {None}]
    /\ cleanup \in [Homes -> BOOLEAN]
    /\ up \in Processes
    /\ start \in [Homes -> {"idle", "checked", "half"}]
    /\ committed \subseteq Gens

(* Nothing is installed.                                                   *)
Init ==
    /\ link = None
    /\ gens = [g \in Gens |-> NoGeneration]
    /\ sel = [h \in Homes |-> None]
    /\ images = [h \in Homes |-> {}]
    /\ journal = [h \in Homes |-> None]
    /\ stage = [h \in Homes |-> FALSE]
    /\ retired = [h \in Homes |-> None]
    /\ cleanup = [h \in Homes |-> FALSE]
    /\ up = Idle
    /\ start = [h \in Homes |-> "idle"]
    /\ committed = {}

At(pc) == up.pc = pc
Goto(pc) == up' = [up EXCEPT !.pc = pc]
End == up' = Idle
Live(g) == g # None /\ gens[g].state = "live"

(* load: a journal is valid while the targets it names are generations.    *)
Valid(j) == j # None /\ (j.old = None \/ Live(j.old))
                     /\ (j.new = None \/ Live(j.new))

(* pending: any .hamn-update- entry in the cache of h.                     *)
Pending(h) == journal[h] # None \/ stage[h] \/ retired[h] # None \/ cleanup[h]

---------------------------------------------------------------------------
(* A process takes the transaction locks of both roots, in byte order, and *)
(* its HOME's or the install locks after them; they are let go when it     *)
(* ends or dies.                                                           *)
TakeLocks(process) == At("idle") /\ up' = process

(* update::transaction.  Without a command it is the installer that runs   *)
(* it, with --bootstrap.                                                   *)
BeginUpdate(h) ==
    /\ TakeLocks([Idle EXCEPT !.pc = "deferred", !.home = h])
    /\ UNCHANGED <<hostVars, cacheVars, start>>

(* install of a source build (make install), which has no journal.         *)
BeginInstall(h, rel) ==
    /\ TakeLocks([Idle EXCEPT !.pc = "generation", !.kind = "install",
                              !.home = h, !.want = rel, !.old = link])
    /\ UNCHANGED <<hostVars, cacheVars, start>>

(* prune: collection alone.                                                *)
BeginPrune(h) ==
    /\ TakeLocks([Idle EXCEPT !.pc = "collect", !.kind = "prune", !.home = h])
    /\ UNCHANGED <<hostVars, cacheVars, start>>

---------------------------------------------------------------------------
(* Finishing what an earlier process left (h is the HOME of up).           *)

(* Where cleanup_deferred and cleanup_retired go on: deferred is cleaned   *)
(* before retired on entry, and after it later.                            *)
AfterDeferred == CASE up.after = "pending" -> "retired"
                   [] up.after = "refresh" -> "refresh"
                   [] OTHER -> "collect"
AfterRetired == IF up.after = "pending" THEN "pending" ELSE "deferred"

CleanupDeferred ==
    /\ At("deferred")
    /\ cleanup' = [cleanup EXCEPT ![up.home] = FALSE]
    /\ Goto(AfterDeferred)
    /\ UNCHANGED <<hostVars, sel, images, journal, stage, retired, start>>

(* cleanup_retired: a valid retired journal takes its cleanup name, and is *)
(* removed.                                                                *)
NothingRetired ==
    /\ At("retired") /\ retired[up.home] = None
    /\ Goto(AfterRetired)
    /\ UNCHANGED <<hostVars, cacheVars, start>>

RenameRetired ==
    /\ At("retired") /\ Valid(retired[up.home]) /\ ~cleanup[up.home]
    /\ retired' = [retired EXCEPT ![up.home] = None]
    /\ cleanup' = [cleanup EXCEPT ![up.home] = TRUE]
    /\ Goto("erase")
    /\ UNCHANGED <<hostVars, sel, images, journal, stage, start>>

EraseRetired ==
    /\ At("erase")
    /\ cleanup' = [cleanup EXCEPT ![up.home] = FALSE]
    /\ Goto(AfterRetired)
    /\ UNCHANGED <<hostVars, sel, images, journal, stage, retired, start>>

NoJournal ==
    /\ At("pending") /\ journal[up.home] = None
    /\ up' = [up EXCEPT !.pc = "retired", !.after = "refresh"]
    /\ UNCHANGED <<hostVars, cacheVars, start>>

RecoverJournal ==
    /\ At("pending") /\ journal[up.home] # None
    /\ up' = [up EXCEPT !.pc = "rollback", !.after = "refresh"]
    /\ UNCHANGED <<hostVars, cacheVars, start>>

---------------------------------------------------------------------------
(* journal::rollback.                                                      *)

(* owns_active: the command names the journal's previous or attempted      *)
(* generation; a bootstrap may have no command yet.                        *)
OwnsActive(j) ==
    IF link = None THEN j.old = None
    ELSE Live(link) /\ (link = j.old \/ (j.host /\ link = j.new))

(* Fault: the command is not looked at.                                    *)
RollbackUnowned ==
    /\ At("rollback") /\ Valid(journal[up.home])
    /\ Goto("restoreSel")
    /\ UNCHANGED <<hostVars, cacheVars, start>>

Rollback ==
    /\ At("rollback") /\ Valid(journal[up.home]) /\ OwnsActive(journal[up.home])
    /\ Goto("restoreSel")
    /\ UNCHANGED <<hostVars, cacheVars, start>>

(* Fault: the command is left as it is.                                    *)
RestoreSelectionOnly ==
    /\ At("restoreSel")
    /\ sel' = [sel EXCEPT ![up.home] = journal[up.home].prevSel]
    /\ Goto("recovered")
    /\ UNCHANGED <<hostVars, images, journal, stage, retired, cleanup, start>>

RestoreSelection ==
    /\ At("restoreSel")
    /\ sel' = [sel EXCEPT ![up.home] = journal[up.home].prevSel]
    /\ Goto("restoreLink")
    /\ UNCHANGED <<hostVars, images, journal, stage, retired, cleanup, start>>

(* Nothing to restore for a bootstrap or a selection-only repair.          *)
RestoreLink ==
    /\ At("restoreLink")
    /\ LET j == journal[up.home] IN
         link' = IF j.host /\ j.old # None THEN j.old ELSE link
    /\ Goto("recovered")
    /\ UNCHANGED <<gens, committed, cacheVars, start>>

(* retire(outcome): the valid journal takes its retired name.              *)
Retire ==
    /\ Valid(journal[up.home]) /\ retired[up.home] = None
    /\ retired' = [retired EXCEPT ![up.home] =
                     [old |-> journal[up.home].old, new |-> journal[up.home].new]]
    /\ journal' = [journal EXCEPT ![up.home] = None]
    /\ UNCHANGED <<sel, images, stage, cleanup>>

RetireRecovered ==
    /\ At("recovered") /\ Retire
    /\ IF up.after = "stop" THEN End ELSE Goto("retired")
    /\ UNCHANGED <<hostVars, start>>

---------------------------------------------------------------------------
(* What is to be done.                                                     *)

(* receipt host-check, and guest_healthy, for the release rel.             *)
HostChecked(rel) == link # None /\ gens[link].receipt /\ gens[link].rel = rel
GuestHealthy(rel) == sel[up.home] = rel /\ rel \in images[up.home]

(* Nothing is done, only the selection is repaired, or the host is         *)
(* installed too.                                                          *)
Plan(rel, force) ==
    /\ At("refresh") /\ (link # None => Live(link))
    /\ IF ~force /\ HostChecked(rel) /\ GuestHealthy(rel)
       THEN up' = [up EXCEPT !.pc = "collect", !.old = link]
       ELSE up' = [up EXCEPT !.pc = "stage", !.old = link, !.want = rel,
                             !.host = force \/ ~HostChecked(rel)]
    /\ UNCHANGED <<hostVars, cacheVars, start>>

(* refresh, version_status and the receipt.  rel is the manifest's         *)
(* release; one older than the active one is refused.                      *)
Refresh(rel, force) ==
    Plan(rel, force) /\ (link # None => rel >= gens[link].rel)

(* stage_guest: the verified image is in the cache before it is selected.  *)
StageGuest ==
    /\ At("stage")
    /\ images' = [images EXCEPT ![up.home] = @ \cup {up.want}]
    /\ Goto("journalStage")
    /\ UNCHANGED <<hostVars, sel, journal, stage, retired, cleanup, start>>

---------------------------------------------------------------------------
(* journal::prepare: a complete journal appears by one rename.             *)

JournalStage ==
    /\ At("journalStage") /\ journal[up.home] = None
    /\ stage' = [stage EXCEPT ![up.home] = TRUE]
    /\ Goto("journalRoot")
    /\ UNCHANGED <<hostVars, sel, images, journal, retired, cleanup, start>>

AddRoot(g) == gens' = [gens EXCEPT ![g].roots = @ \cup {up.home}]

(* Fault: the previous generation does not learn of the journal.           *)
JournalNoRoot ==
    /\ At("journalRoot")
    /\ Goto("publish")
    /\ UNCHANGED <<hostVars, cacheVars, start>>

JournalRoot ==
    /\ At("journalRoot")
    /\ IF up.old = None THEN UNCHANGED gens ELSE AddRoot(up.old)
    /\ Goto("publish")
    /\ UNCHANGED <<link, committed, cacheVars, start>>

(* Fault: the selection of now is recorded as the one to commit.           *)
PublishJournalOfNow ==
    /\ At("publish")
    /\ stage' = [stage EXCEPT ![up.home] = FALSE]
    /\ journal' = [journal EXCEPT ![up.home] =
                     [host |-> up.host, old |-> up.old, new |-> None,
                      prevSel |-> sel[up.home], newSel |-> sel[up.home]]]
    /\ Goto(IF up.host THEN "generation" ELSE "commit")
    /\ UNCHANGED <<hostVars, sel, images, retired, cleanup, start>>

PublishJournal ==
    /\ At("publish")
    /\ stage' = [stage EXCEPT ![up.home] = FALSE]
    /\ journal' = [journal EXCEPT ![up.home] =
                     [host |-> up.host, old |-> up.old, new |-> None,
                      prevSel |-> sel[up.home], newSel |-> up.want]]
    /\ Goto(IF up.host THEN "generation" ELSE "commit")
    /\ UNCHANGED <<hostVars, sel, images, retired, cleanup, start>>

---------------------------------------------------------------------------
(* generation::install.                                                    *)

(* The generation is complete when it gets its name.  handoff: the journal *)
(* is the one prepared for this command.                                   *)
InstallGeneration(g) ==
    /\ At("generation") /\ gens[g].state = "none"
    /\ \A f \in Gens : gens[f].state = "none" => g <= f
    /\ up.kind = "update" =>
         journal[up.home].new = None /\ journal[up.home].old = link
    /\ gens' = [gens EXCEPT ![g] =
                  [NoGeneration EXCEPT !.state = "live", !.rel = up.want,
                                       !.prev = link,
                                       !.source = (up.kind = "install")]]
    /\ up' = [up EXCEPT !.gen = g,
                !.pc = IF up.kind = "update" THEN "rootNew" ELSE "link"]
    /\ UNCHANGED <<link, committed, cacheVars, start>>

(* record_target: the recovery root, then new-target.                      *)
RootNew ==
    /\ At("rootNew")
    /\ AddRoot(up.gen)
    /\ Goto("record")
    /\ UNCHANGED <<link, committed, cacheVars, start>>

(* Fault: the journal does not learn of the attempted generation.          *)
RecordNothing ==
    /\ At("record")
    /\ Goto("link")
    /\ UNCHANGED <<hostVars, cacheVars, start>>

RecordTarget ==
    /\ At("record")
    /\ journal' = [journal EXCEPT ![up.home].new = up.gen]
    /\ Goto("link")
    /\ UNCHANGED <<hostVars, sel, images, stage, retired, cleanup, start>>

(* publish_link: one rename over the command found under the locks.        *)
PublishLink ==
    /\ At("link") /\ link = up.old
    /\ link' = up.gen
    /\ Goto(IF up.kind = "update" THEN "receipt" ELSE "collect")
    /\ UNCHANGED <<gens, committed, cacheVars, start>>

(* The command is verified against the journal; the receipt is written.    *)
WriteReceipt ==
    /\ At("receipt")
    /\ Valid(journal[up.home]) /\ link = journal[up.home].new
    /\ gens' = [gens EXCEPT ![link].receipt = TRUE]
    /\ Goto("commit")
    /\ UNCHANGED <<link, committed, cacheVars, start>>

CommitSelection ==
    /\ At("commit") /\ Valid(journal[up.home])
    /\ sel' = [sel EXCEPT ![up.home] = journal[up.home].newSel]
    /\ Goto("complete")
    /\ UNCHANGED <<hostVars, images, journal, stage, retired, cleanup, start>>

RetireCompleted ==
    /\ At("complete") /\ Retire
    /\ committed' = IF up.host THEN committed \cup {up.gen} ELSE committed
    /\ up' = [Idle EXCEPT !.pc = "retired", !.after = "prune",
                          !.home = up.home, !.old = up.old]
    /\ UNCHANGED <<link, gens, start>>

---------------------------------------------------------------------------
(* retention::collect, collect_cache.                                      *)

(* Fault: the active generation is taken for kept by its predecessor.      *)
KeepPrevious == {gens[link].prev, up.old}

(* The active generation, its predecessor and the one of the caller.       *)
Keep == {link, gens[link].prev, up.old}

(* Obsolete: not kept, and no recovery root of it is pending.  A file a    *)
(* process has open, or an error, leaves any of them where it is.          *)
Obsolete(g) ==
    /\ \/ gens[g].state = "live" /\ g \notin Keep
       \/ gens[g].state = "retired"
    /\ \A h \in gens[g].roots : ~Pending(h)

RetireGeneration(g) ==
    /\ At("collect") /\ link # None /\ ~Pending(up.home) /\ Obsolete(g)
    /\ gens' = [gens EXCEPT ![g].state = "retired"]
    /\ up' = [up EXCEPT !.pc = "eraseGen", !.gen = g]
    /\ UNCHANGED <<link, committed, cacheVars, start>>

EraseGeneration ==
    /\ At("eraseGen")
    /\ gens' = [gens EXCEPT ![up.gen] = [NoGeneration EXCEPT !.state = "gone"]]
    /\ up' = [up EXCEPT !.pc = "collect", !.gen = None]
    /\ UNCHANGED <<link, committed, cacheVars, start>>

(* Images are collected only where generations could be.                   *)
CollectDone ==
    /\ At("collect")
    /\ IF up.kind = "update" /\ link # None /\ ~Pending(up.home)
       THEN Goto("cache") ELSE End
    /\ UNCHANGED <<hostVars, cacheVars, start>>

Retained == Keep \ {None}
(* Fault: the images in use before the update.                             *)
GuestsBefore == {gens[g].rel : g \in {up.old} \ {None}}

Guests == {gens[g].rel : g \in Retained} \cup {sel[up.home]}

(* The inventory of the cache, without what is in use.                     *)
Unused == images[up.home] \ Guests

(* What a process has open, or a scan cannot tell to be closed, stays.     *)
Removable(files) == SUBSET files

(* Of what goes, only the images are state here.                            *)
RemoveImages(unused) == images' = [images EXCEPT ![up.home] = @ \ unused]

(* Without a selection, or a kept generation's receipt, nothing is known   *)
(* to be unused.                                                           *)
CollectCache(unused) ==
    /\ At("cache") /\ unused \in Removable(Unused)
    /\ unused # {} => /\ sel[up.home] # None
                      /\ \A g \in Retained : Live(g) /\ gens[g].receipt
    /\ RemoveImages(unused) /\ End
    /\ UNCHANGED <<hostVars, sel, journal, stage, retired, cleanup, start>>

---------------------------------------------------------------------------
(* Failures.                                                               *)

(* A failed cleanup ends the update, unless it is already committed.       *)
FailCleaning ==
    /\ up.pc \in {"deferred", "retired", "erase"}
    /\ IF up.after # "prune" THEN End
       ELSE Goto(IF At("deferred") THEN AfterDeferred ELSE AfterRetired)
    /\ UNCHANGED <<hostVars, cacheVars, start>>

(* Before the journal there is nothing to undo; a failed rollback keeps    *)
(* it; a source install has none.                                          *)
FailPlain ==
    /\ \/ up.pc \in {"rollback", "restoreSel", "restoreLink", "recovered",
                     "refresh", "stage", "journalStage", "cache"}
       \/ up.kind = "install" /\ up.pc \in {"generation", "link"}
    /\ End
    /\ UNCHANGED <<hostVars, cacheVars, start>>

(* discard_stage.                                                          *)
FailPrepare ==
    /\ At("journalRoot") \/ At("publish")
    /\ stage' = [stage EXCEPT ![up.home] = FALSE]
    /\ End
    /\ UNCHANGED <<hostVars, sel, images, journal, retired, cleanup, start>>

(* roll_back_and_fail, interrupted: HUP, INT and TERM are armed here.      *)
FailJournaled ==
    /\ up.kind = "update"
    /\ up.pc \in {"generation", "rootNew", "record", "link", "receipt",
                  "commit", "complete"}
    /\ up' = [up EXCEPT !.pc = "rollback", !.after = "stop"]
    /\ UNCHANGED <<hostVars, cacheVars, start>>

FailErase ==
    /\ At("eraseGen")
    /\ up' = [up EXCEPT !.pc = "collect", !.gen = None]
    /\ UNCHANGED <<hostVars, cacheVars, start>>

(* SIGKILL anywhere; HUP, INT and TERM while they are not armed.           *)
Die ==
    /\ ~At("idle") /\ End
    /\ UNCHANGED <<hostVars, cacheVars, start>>

---------------------------------------------------------------------------
(* fetch_image_ensure, in a VM start.                                      *)

StartChecks(h) ==
    /\ start[h] = "idle" /\ journal[h] = None
    /\ start' = [start EXCEPT ![h] = "checked"]
    /\ UNCHANGED <<hostVars, cacheVars, up>>

(* managed_image_ensure reads the selection.                               *)
StartReads(h) ==
    /\ start[h] = "checked" /\ sel[h] # None
    /\ start' = [start EXCEPT ![h] = IF journal[h] = None THEN "idle" ELSE "half"]
    /\ UNCHANGED <<hostVars, cacheVars, up>>

(* The start ends, or finds no selection.                                  *)
StartEnds(h) ==
    /\ start[h] # "idle"
    /\ start' = [start EXCEPT ![h] = "idle"]
    /\ UNCHANGED <<hostVars, cacheVars, up>>

---------------------------------------------------------------------------
Update ==
    \/ CleanupDeferred \/ NothingRetired \/ RenameRetired \/ EraseRetired
    \/ NoJournal \/ RecoverJournal
    \/ Rollback \/ RestoreSelection \/ RestoreLink \/ RetireRecovered
    \/ \E rel \in Releases, force \in BOOLEAN : Refresh(rel, force)
    \/ StageGuest \/ JournalStage \/ JournalRoot \/ PublishJournal
    \/ \E g \in Gens : InstallGeneration(g)
    \/ RootNew \/ RecordTarget \/ PublishLink \/ WriteReceipt
    \/ CommitSelection \/ RetireCompleted
    \/ \E g \in Gens : RetireGeneration(g)
    \/ EraseGeneration \/ CollectDone
    \/ \E unused \in SUBSET Releases : CollectCache(unused)

Failure == FailCleaning \/ FailPlain \/ FailPrepare
           \/ FailJournaled \/ FailErase \/ Die

Begin ==
    \E h \in Homes :
        \/ BeginUpdate(h)
        \/ \E rel \in Releases : BeginInstall(h, rel)
        \/ BeginPrune(h)

Start == \E h \in Starters : StartChecks(h) \/ StartReads(h) \/ StartEnds(h)

Next == Begin \/ Update \/ Failure \/ Start
Spec == Init /\ [][Next]_vars

(* Updates and collections alone.  No step waits for ever: a process goes  *)
(* on, fails or is killed.  Somebody runs the update again after every     *)
(* failure; a step that is retried again and again succeeds at some time   *)
(* (journal.rs: each step is retryable).                                   *)
NextOwn ==
    \/ \E h \in Homes : BeginUpdate(h) \/ BeginPrune(h)
    \/ Update \/ Failure
FairSpec ==
    /\ Init /\ [][NextOwn]_vars
    /\ WF_vars(Update \/ Failure)
    /\ \A h \in Homes : SF_vars(BeginUpdate(h))
    /\ SF_vars(CleanupDeferred) /\ SF_vars(NothingRetired)
    /\ SF_vars(RenameRetired) /\ SF_vars(EraseRetired)
    /\ SF_vars(RecoverJournal) /\ SF_vars(Rollback)
    /\ SF_vars(RestoreSelection) /\ SF_vars(RestoreLink)
    /\ SF_vars(RetireRecovered)

---------------------------------------------------------------------------
(* The generations a journal names outlive it, whatever other HOMEs        *)
(* install, collect or leave behind: a pending journal can be rolled back  *)
(* (journal.rs load, rollback), and a retired one can be cleaned, without  *)
(* which every later update of that HOME would fail.                       *)
JournalsStayValid ==
    \A h \in Homes : /\ journal[h] # None => Valid(journal[h])
                     /\ retired[h] # None => Valid(retired[h])

(* The installed command names a complete generation in every state, also  *)
(* after kills, rollbacks and collections (generation.rs publish_link,     *)
(* retention.rs collect).                                                  *)
CommandExists == link # None => Live(link)

(* The image of the selection, and of the selection a rollback would       *)
(* restore, is in the cache: collect_cache and stage_guest never leave a   *)
(* HOME with a selection it cannot start from.                             *)
SelectionHasImage ==
    \A h \in Homes :
        /\ sel[h] # None => sel[h] \in images[h]
        /\ journal[h] # None =>
              /\ journal[h].newSel \in images[h]
              /\ journal[h].prevSel # None => journal[h].prevSel \in images[h]

(* With one HOME, whenever no journal is pending, and a VM start is        *)
(* allowed, the released command and the guest image selection are of the  *)
(* same release: an update is seen whole or not at all, across failures    *)
(* and kills (update.rs transaction, journal.rs rollback).                 *)
PairIsWhole ==
    \A h \in Homes :
        (journal[h] = None /\ link # None /\ sel[h] # None)
            => gens[link].source \/ gens[link].rel = sel[h]

(* A committed generation is replaced only by installing another, of a     *)
(* release at least as new unless it is a source build: no recovery of a   *)
(* journal that another HOME left takes it back (journal.rs owns_active).  *)
CommittedStays ==
    [][(link \in committed /\ link' # link) =>
           /\ At("link")
           /\ gens[link'].source \/ gens[link'].rel >= gens[link].rel]_vars

(* An interrupted update of the only HOME is recovered: updates that are   *)
(* run again retire the journal, whatever was killed before                *)
(* (update.rs transaction).                                                *)
RecoveryHappens == \A h \in Homes : journal[h] # None ~> journal[h] = None

(* interrupt.rs: "a process killed before the journal exists changed       *)
(* nothing".  Then a HOME with no journal of any kind has no recovery      *)
(* metadata that would defer collection.                                   *)
NothingLeftBehind ==
    \A h \in Homes :
        (At("idle") /\ journal[h] = None /\ retired[h] = None /\ ~cleanup[h])
            => ~Pending(h)

(* fetch.c: "do not let start use either half of that transaction".        *)
StartUsesNoHalf == \A h \in Homes : start[h] # "half"

===========================================================================
