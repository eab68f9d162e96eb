---------------------- MODULE UpdateTransactionProofs ----------------------
(***************************************************************************)
(* Proofs about the release transaction, for any number of HOMEs, releases *)
(* and generations.                                                        *)
(***************************************************************************)
EXTENDS UpdateTransaction, TLAPS

Preparing == {"stage", "journalStage", "journalRoot", "publish"}
Journaled == {"generation", "rootNew", "record", "link", "receipt", "commit",
              "complete"}
Rolling == {"rollback", "restoreSel", "restoreLink", "recovered"}
Made == Journaled \ {"generation"}

(* A process has a HOME, and its place fits its kind.                      *)
Kinds ==
    /\ up.pc # "idle" => up.home \in Homes
    /\ up.pc \notin {"generation", "link", "collect", "eraseGen"}
          => up.kind = "update"
    /\ up.pc \in {"generation", "link"} => up.kind \in {"update", "install"}

(* What was planned still fits the command, which nobody else replaces.    *)
Fits(rel) == link # None => rel >= gens[link].rel
Planned ==
    up.pc \in Preparing =>
        /\ up.old = link /\ up.want \in Releases /\ Fits(up.want)
        /\ ~up.host => link # None /\ gens[link].rel = up.want
        /\ up.pc # "stage" => up.want \in images[up.home]
        /\ up.pc \in {"journalRoot", "publish"} => journal[up.home] = None
        /\ up.pc = "publish" /\ link # None => up.home \in gens[link].roots

(* A source install, before its command is published.                      *)
Installing ==
    /\ up.pc = "link" => up.gen \in Gens /\ gens[up.gen].state = "live"
    /\ up.pc = "link" /\ up.kind = "install" => gens[up.gen].source

(* The journal of the transaction that is being made.                      *)
Transaction ==
    up.kind = "update" /\ up.pc \in Journaled =>
        /\ journal[up.home] # None
        /\ journal[up.home].old = up.old
        /\ journal[up.home].newSel = up.want
        /\ journal[up.home].host = up.host
        /\ up.pc \notin {"commit", "complete"} => up.host
        /\ up.pc \in {"generation", "rootNew", "record", "link"} =>
              link = up.old /\ Fits(up.want)
        /\ up.pc \in {"generation", "rootNew", "record"} =>
              journal[up.home].new = None
        /\ up.pc \in {"commit", "complete"} /\ ~up.host =>
              link # None /\ gens[link].rel = up.want
        /\ up.pc = "complete" => sel[up.home] = up.want

(* The generation it made.                                                 *)
Attempt ==
    up.kind = "update" /\ up.pc \in Made /\ up.host =>
        /\ up.gen \in Gens /\ gens[up.gen].state = "live"
        /\ gens[up.gen].rel = up.want
        /\ up.gen \notin committed
        /\ up.pc \in {"rootNew", "record"} =>
              \A h \in Homes : journal[h] # None => journal[h].new # up.gen
        /\ up.pc = "record" => up.home \in gens[up.gen].roots
        /\ up.pc \notin {"rootNew", "record"} => journal[up.home].new = up.gen
        /\ up.pc \in {"receipt", "commit", "complete"} => link = up.gen

(* A rollback has a journal, that owns the command.                        *)
Undoing ==
    /\ up.pc \in Rolling => journal[up.home] # None
    /\ up.pc \in Rolling \ {"rollback"} => OwnsActive(journal[up.home])
    /\ up.pc \in {"restoreLink", "recovered"} =>
          sel[up.home] = journal[up.home].prevSel
    /\ up.pc = "recovered" /\ journal[up.home].host
          /\ journal[up.home].old # None => link = journal[up.home].old

Collecting ==
    /\ up.pc = "eraseGen" => up.gen \in Gens /\ gens[up.gen].state = "retired"
    /\ up.pc = "cache" => journal[up.home] = None

Knows == Kinds /\ Planned /\ Installing /\ Transaction /\ Attempt /\ Undoing
         /\ Collecting

(* The generations a journal names have its HOME among their roots.        *)
Rooted(g, h) == g # None => gens[g].state = "live" /\ h \in gens[g].roots
Roots ==
    \A h \in Homes :
        /\ journal[h] # None => Rooted(journal[h].old, h) /\ Rooted(journal[h].new, h)
        /\ retired[h] # None => Rooted(retired[h].old, h) /\ Rooted(retired[h].new, h)

(* An attempted generation is of one journal, and not committed.           *)
Attempted ==
    \A h \in Homes : journal[h] # None /\ journal[h].new # None =>
        /\ journal[h].new \notin committed
        /\ \A k \in Homes \ {h} :
              journal[k] # None => journal[k].new # journal[h].new

(* What was committed was made.                                            *)
Existing == \A g \in committed : gens[g].state # "none"

Disk == CommandExists /\ Roots /\ Attempted /\ Existing /\ SelectionHasImage

IInv == TypeOK /\ Disk /\ Knows

---------------------------------------------------------------------------
(* Types.                                                                  *)

LEMMA UpTypes ==
    ASSUME TypeOK
    PROVE  /\ \A pc \in Pcs : Goto(pc) => up' \in Processes
           /\ End => up' \in Processes
           /\ Idle \in Processes
           /\ AfterDeferred \in Pcs /\ AfterRetired \in Pcs
<1>1. \A pc \in Pcs : Goto(pc) => up' \in Processes
      BY DEF TypeOK, Goto, Processes
<1>2. Idle \in Processes
      BY DEF Idle, Processes, Pcs
<1>3. AfterDeferred \in Pcs /\ AfterRetired \in Pcs
      BY DEF TypeOK, AfterDeferred, AfterRetired, Processes, Pcs
<1> QED BY <1>1, <1>2, <1>3 DEF End

LEMMA BeginTypes ==
    ASSUME IInv, Begin PROVE TypeOK'
<1> USE DEF IInv, hostVars, cacheVars, TakeLocks
<1>1. ASSUME NEW h \in Homes, BeginUpdate(h) PROVE TypeOK'
      BY <1>1 DEF TypeOK, BeginUpdate, Idle, Processes, Pcs
<1>2. ASSUME NEW h \in Homes, NEW rel \in Releases, BeginInstall(h, rel)
      PROVE TypeOK'
      BY <1>2 DEF TypeOK, BeginInstall, Idle, Processes, Pcs
<1>3. ASSUME NEW h \in Homes, BeginPrune(h) PROVE TypeOK'
      BY <1>3 DEF TypeOK, BeginPrune, Idle, Processes, Pcs
<1> QED BY <1>1, <1>2, <1>3 DEF Begin

LEMMA FailureTypes ==
    ASSUME IInv, Failure PROVE TypeOK'
<1> USE DEF IInv, hostVars, cacheVars
<1>1. CASE FailCleaning
      BY <1>1, UpTypes DEF TypeOK, FailCleaning
<1>2. CASE FailPlain
      BY <1>2, UpTypes DEF TypeOK, FailPlain
<1>3. CASE FailPrepare
      BY <1>3, UpTypes DEF TypeOK, FailPrepare
<1>4. CASE FailJournaled
      BY <1>4 DEF TypeOK, FailJournaled, Processes, Pcs
<1>5. CASE FailErase
      BY <1>5 DEF TypeOK, FailErase, Processes, Pcs
<1>6. CASE Die
      BY <1>6, UpTypes DEF TypeOK, Die
<1> QED BY <1>1, <1>2, <1>3, <1>4, <1>5, <1>6 DEF Failure

LEMMA StartTypes ==
    ASSUME IInv, Start PROVE TypeOK' /\ UNCHANGED <<hostVars, cacheVars, up>>
<1> USE DEF IInv, hostVars, cacheVars
<1> PICK h \in Starters : StartChecks(h) \/ StartReads(h) \/ StartEnds(h)
    BY DEF Start
<1> h \in Homes
    BY UpdateConstants
<1>1. CASE StartChecks(h)
      BY <1>1 DEF TypeOK, StartChecks
<1>2. CASE StartReads(h)
      BY <1>2 DEF TypeOK, StartReads
<1>3. CASE StartEnds(h)
      BY <1>3 DEF TypeOK, StartEnds
<1> QED BY <1>1, <1>2, <1>3

(* Each journal, generation and record is written whole.                   *)
LEMMA UpdateTypes ==
    ASSUME IInv, Update PROVE TypeOK'
<1> USE DEF IInv, hostVars, cacheVars, At
<1>a. TypeOK /\ (up.pc # "idle" => up.home \in Homes)
      BY DEF Knows, Kinds
<1>b. \A pc \in Pcs : Goto(pc) => up' \in Processes
      BY UpTypes
<1>c. AfterDeferred \in Pcs /\ AfterRetired \in Pcs
      BY UpTypes
<1>d. {"erase", "restoreSel", "restoreLink", "recovered", "retired", "publish",
       "journalStage", "journalRoot", "generation", "commit", "record", "link",
       "receipt", "collect", "complete", "cache", "stage"} \subseteq Pcs
      BY DEF Pcs
<1>e. Idle \in Processes
      BY UpTypes
<1>1. CASE CleanupDeferred
      BY <1>1, <1>a, <1>b, <1>c DEF TypeOK, CleanupDeferred
<1>2. CASE NothingRetired
      BY <1>2, <1>a, <1>b, <1>c DEF TypeOK, NothingRetired
<1>3. CASE RenameRetired
      BY <1>3, <1>a, <1>b, <1>d DEF TypeOK, RenameRetired
<1>4. CASE EraseRetired
      BY <1>4, <1>a, <1>b, <1>c DEF TypeOK, EraseRetired
<1>5. CASE NoJournal
      BY <1>5, <1>a, <1>d DEF TypeOK, NoJournal, Processes
<1>6. CASE RecoverJournal
      BY <1>6, <1>a DEF TypeOK, RecoverJournal, Processes, Pcs
<1>7. CASE Rollback
      BY <1>7, <1>a, <1>b, <1>d DEF TypeOK, Rollback
<1>8. CASE RestoreSelection
  <2>1. journal[up.home] \in Journals
        BY <1>8, <1>a DEF RestoreSelection, Knows, Undoing, Rolling, TypeOK
  <2> QED BY <1>8, <1>a, <1>b, <1>d, <2>1 DEF TypeOK, RestoreSelection, Journals
<1>9. CASE RestoreLink
  <2>1. journal[up.home] \in Journals
        BY <1>9, <1>a DEF RestoreLink, Knows, Undoing, Rolling, TypeOK
  <2> QED BY <1>9, <1>a, <1>b, <1>d, <2>1 DEF TypeOK, RestoreLink, Journals
<1>r. ASSUME Retire, up.pc # "idle"
      PROVE  /\ retired' \in [Homes -> Targets \cup {None}]
             /\ journal' \in [Homes -> Journals \cup {None}]
  <2>1. journal[up.home] \in Journals
        BY <1>r, <1>a DEF Retire, Valid, TypeOK
  <2>2. [old |-> journal[up.home].old, new |-> journal[up.home].new] \in Targets
        BY <2>1 DEF Journals, Targets
  <2> QED BY <1>r, <1>a, <2>2 DEF Retire, TypeOK
<1>10. CASE RetireRecovered
      BY <1>10, <1>r, <1>a, <1>b, <1>d, UpTypes DEF TypeOK, RetireRecovered, Retire
<1>11. ASSUME NEW rel \in Releases, NEW force \in BOOLEAN, Refresh(rel, force)
       PROVE  TypeOK'
  <2>0. PICK b \in BOOLEAN :
           \/ up' = [up EXCEPT !.pc = "collect", !.old = link]
           \/ up' = [up EXCEPT !.pc = "stage", !.old = link, !.want = rel,
                               !.host = b]
    <3>1. (force \/ ~HostChecked(rel)) \in BOOLEAN
          OBVIOUS
    <3> QED BY <1>11, <3>1, Zenon DEF Refresh, Plan
  <2>1. up' \in Processes
        BY <1>a, <1>d, <2>0 DEF TypeOK, Processes
  <2> QED BY <1>11, <1>a, <2>1 DEF TypeOK, Refresh, Plan
<1>12. CASE StageGuest
  <2>1. up.want \in Releases
        BY <1>12 DEF StageGuest, Knows, Planned, Preparing
  <2> QED BY <1>12, <1>a, <1>b, <1>d, <2>1 DEF TypeOK, StageGuest
<1>13. CASE JournalStage
      BY <1>13, <1>a, <1>b, <1>d DEF TypeOK, JournalStage
<1>f. ASSUME NEW g \in Gens, AddRoot(g), up.home \in Homes
      PROVE  gens' \in [Gens -> Generations]
      BY <1>f, <1>a DEF AddRoot, TypeOK, Generations
<1>14. CASE JournalRoot
  <2>1. up.old \in Gens \cup {None}
        BY <1>a DEF TypeOK, Processes
  <2>2. gens' \in [Gens -> Generations]
        BY <1>14, <1>a, <1>f, <2>1 DEF JournalRoot, TypeOK
  <2> QED BY <1>14, <1>a, <1>b, <1>d, <2>2 DEF TypeOK, JournalRoot
<1>15. CASE PublishJournal
  <2>1. up.want \in Releases
        BY <1>15 DEF PublishJournal, Knows, Planned, Preparing
  <2>2. [host |-> up.host, old |-> up.old, new |-> None,
         prevSel |-> sel[up.home], newSel |-> up.want] \in Journals
        BY <1>15, <1>a, <2>1 DEF PublishJournal, TypeOK, Processes, Journals
  <2> QED BY <1>15, <1>a, <1>b, <1>d, <2>2 DEF TypeOK, PublishJournal
<1>16. ASSUME NEW g \in Gens, InstallGeneration(g) PROVE TypeOK'
  <2>1. [NoGeneration EXCEPT !.state = "live", !.rel = up.want, !.prev = link,
                             !.source = (up.kind = "install")] \in Generations
        BY <1>a DEF TypeOK, Processes, NoGeneration, Generations, GenStates
  <2>2. up' \in Processes
        BY <1>16, <1>a DEF InstallGeneration, TypeOK, Processes, Pcs
  <2> QED BY <1>16, <1>a, <2>1, <2>2 DEF TypeOK, InstallGeneration
<1>17. CASE RootNew
  <2>1. up.gen \in Gens
        BY <1>17 DEF RootNew, Knows, Attempt, Made, Journaled, Kinds, Transaction
  <2> QED BY <1>17, <1>a, <1>b, <1>d, <1>f, <2>1 DEF TypeOK, RootNew
<1>18. CASE RecordTarget
  <2>1. up.gen \in Gens /\ journal[up.home] \in Journals
        BY <1>18, <1>a
        DEF RecordTarget, Knows, Attempt, Made, Journaled, Kinds, Transaction, TypeOK
  <2>2. [journal[up.home] EXCEPT !.new = up.gen] \in Journals
        BY <2>1 DEF Journals
  <2> QED BY <1>18, <1>a, <1>b, <1>d, <2>2 DEF TypeOK, RecordTarget
<1>19. CASE PublishLink
      BY <1>19, <1>a, <1>b, <1>d DEF TypeOK, PublishLink, Knows, Installing
<1>20. CASE WriteReceipt
  <2>1. link \in Gens
    <3>1. up.kind = "update" /\ up.host
          BY <1>20 DEF WriteReceipt, Knows, Preparing, Journaled, Kinds, Transaction
    <3> QED BY <1>20, <3>1 DEF WriteReceipt, Knows, Attempt, Made, Journaled
  <2>a. gens[link] \in Generations
        BY <1>a, <2>1 DEF TypeOK
  <2>b. [gens[link] EXCEPT !.receipt = TRUE] \in Generations
        BY <2>a DEF Generations
  <2>2. gens' \in [Gens -> Generations]
        BY <1>20, <1>a, <2>1, <2>b DEF WriteReceipt, TypeOK
  <2> QED BY <1>20, <1>a, <1>b, <1>d, <2>2 DEF TypeOK, WriteReceipt
<1>21. CASE CommitSelection
  <2>1. journal[up.home] \in Journals
        BY <1>21, <1>a DEF CommitSelection, Valid, TypeOK
  <2> QED BY <1>21, <1>a, <1>b, <1>d, <2>1 DEF TypeOK, CommitSelection, Journals
<1>22. CASE RetireCompleted
  <2>1. up' \in Processes
        BY <1>22, <1>a DEF RetireCompleted, Idle, TypeOK, Processes, Pcs
  <2>2. committed' \subseteq Gens
        BY <1>22, <1>a
        DEF RetireCompleted, TypeOK, Knows, Attempt, Made, Journaled, Kinds
  <2> QED BY <1>22, <1>r, <1>a, <2>1, <2>2 DEF TypeOK, RetireCompleted, Retire
<1>23. ASSUME NEW g \in Gens, RetireGeneration(g) PROVE TypeOK'
  <2>1. gens' \in [Gens -> Generations]
        BY <1>23, <1>a DEF RetireGeneration, TypeOK, Generations, GenStates
  <2>2. up' \in Processes
        BY <1>23, <1>a DEF RetireGeneration, TypeOK, Processes, Pcs
  <2> QED BY <1>23, <1>a, <2>1, <2>2 DEF TypeOK, RetireGeneration
<1>24. CASE EraseGeneration
  <2>1. [NoGeneration EXCEPT !.state = "gone"] \in Generations
        BY DEF NoGeneration, Generations, GenStates
  <2>2. up' \in Processes
        BY <1>24, <1>a DEF EraseGeneration, TypeOK, Processes, Pcs
  <2> QED BY <1>24, <1>a, <2>1, <2>2 DEF TypeOK, EraseGeneration
<1>25. CASE CollectDone
      BY <1>25, <1>a, <1>b, <1>d, UpTypes DEF TypeOK, CollectDone
<1>26. ASSUME NEW unused \in SUBSET Releases, CollectCache(unused) PROVE TypeOK'
      BY <1>26, <1>a, UpTypes DEF TypeOK, CollectCache, RemoveImages
<1> QED
    BY <1>1, <1>2, <1>3, <1>4, <1>5, <1>6, <1>7, <1>8, <1>9, <1>10, <1>11,
       <1>12, <1>13, <1>14, <1>15, <1>16, <1>17, <1>18, <1>19, <1>20, <1>21,
       <1>22, <1>23, <1>24, <1>25, <1>26 DEF Update

---------------------------------------------------------------------------
(* What is on disk.                                                        *)

(* The stage and the cleanup entries say nothing about the rest.           *)
LEMMA DiskFrame ==
    ASSUME Disk, UNCHANGED <<link, gens, committed, sel, images, journal, retired>>
    PROVE  Disk'
BY DEF Disk, CommandExists, Live, Roots, Rooted, Attempted, Existing,
       SelectionHasImage

(* No live generation goes, and none loses a root: journals stay rooted.   *)
LEMMA RootsGrow ==
    ASSUME TypeOK, Roots, UNCHANGED <<journal, retired>>,
           \A g \in Gens : gens[g].state = "live" =>
               gens'[g].state = "live" /\ gens[g].roots \subseteq gens'[g].roots
    PROVE  Roots'
<1>1. ASSUME NEW g \in Gens \cup {None}, NEW h \in Homes, Rooted(g, h)
      PROVE  Rooted(g, h)'
      BY <1>1 DEF Rooted
<1>2. ASSUME NEW h \in Homes, journal[h] # None
      PROVE  Rooted(journal[h].old, h)' /\ Rooted(journal[h].new, h)'
  <2>1. journal[h] \in Journals /\ journal'[h] = journal[h]
        BY <1>2 DEF TypeOK
  <2>2. PICK t \in Gens \cup {None} : t = journal[h].old
        BY <2>1 DEF Journals
  <2>3. PICK n \in Gens \cup {None} : n = journal[h].new
        BY <2>1 DEF Journals
  <2> QED BY <1>1, <1>2, <2>1, <2>2, <2>3 DEF Roots, Rooted
<1>3. ASSUME NEW h \in Homes, retired[h] # None
      PROVE  Rooted(retired[h].old, h)' /\ Rooted(retired[h].new, h)'
  <2>1. retired[h] \in Targets /\ retired'[h] = retired[h]
        BY <1>3 DEF TypeOK
  <2>2. PICK t \in Gens \cup {None} : t = retired[h].old
        BY <2>1 DEF Targets
  <2>3. PICK n \in Gens \cup {None} : n = retired[h].new
        BY <2>1 DEF Targets
  <2> QED BY <1>1, <1>3, <2>1, <2>2, <2>3 DEF Roots, Rooted
<1> QED BY <1>2, <1>3 DEF Roots

LEMMA UpdateDisk ==
    ASSUME IInv, Update PROVE Disk'
<1> USE DEF IInv, hostVars, cacheVars, At
<1>a. /\ TypeOK /\ CommandExists /\ Roots /\ Attempted /\ Existing
      /\ SelectionHasImage /\ None \notin Gens
      BY UpdateConstants DEF Disk, Gens
<1>b. up.pc # "idle" => up.home \in Homes
      BY DEF Knows, Kinds
<1>c. None \notin Journals /\ None \notin Releases
      BY UpdateConstants, NoneIsNoJournal
<1>1. CASE CleanupDeferred \/ NothingRetired \/ EraseRetired \/ NoJournal
           \/ RecoverJournal \/ Rollback \/ JournalStage \/ CollectDone
      BY <1>1, DiskFrame
      DEF CleanupDeferred, NothingRetired, EraseRetired, NoJournal,
          RecoverJournal, Rollback, JournalStage, CollectDone
<1>2. CASE RenameRetired
      BY <1>2, <1>a, <1>b
      DEF RenameRetired, Disk, CommandExists, Live, Roots, Rooted, Attempted,
          Existing, SelectionHasImage, TypeOK
<1>3. CASE RestoreSelection
  <2>1. journal[up.home] # None
        BY <1>3 DEF RestoreSelection, Knows, Undoing, Rolling
  <2>2. SelectionHasImage'
        BY <1>3, <1>a, <1>b, <2>1 DEF RestoreSelection, SelectionHasImage, TypeOK
  <2> QED BY <1>3, <1>a, <2>2
          DEF RestoreSelection, Disk, CommandExists, Live, Roots, Rooted,
              Attempted, Existing
<1>4. CASE RestoreLink
  <2>1. journal[up.home] # None
        BY <1>4 DEF RestoreLink, Knows, Undoing, Rolling
  <2>2. CommandExists'
        BY <1>4, <1>a, <1>b, <2>1 DEF RestoreLink, CommandExists, Live, Roots, Rooted
  <2> QED BY <1>4, <1>a, <2>2
          DEF RestoreLink, Disk, Roots, Rooted, Attempted, Existing,
              SelectionHasImage
<1>r. ASSUME Retire, up.pc # "idle", UNCHANGED <<link, gens>>
      PROVE  CommandExists' /\ Roots' /\ SelectionHasImage'
  <2>1. CommandExists' /\ SelectionHasImage'
        BY <1>r, <1>a, <1>b
        DEF Retire, CommandExists, Live, SelectionHasImage, TypeOK
  <2>2. ASSUME NEW h \in Homes, journal'[h] # None
        PROVE  (Rooted(journal[h].old, h) /\ Rooted(journal[h].new, h))'
        BY <1>r, <1>a, <1>b, <2>2 DEF Retire, Roots, Rooted, TypeOK
  <2>3. ASSUME NEW h \in Homes, retired'[h] # None
        PROVE  (Rooted(retired[h].old, h) /\ Rooted(retired[h].new, h))'
        BY <1>r, <1>a, <1>b, <2>3 DEF Retire, Valid, Roots, Rooted, TypeOK
  <2> QED BY <2>1, <2>2, <2>3 DEF Roots
<1>5. CASE RetireRecovered
      BY <1>5, <1>r, <1>a, <1>b
      DEF RetireRecovered, Retire, Disk, Attempted, Existing, TypeOK
<1>6. ASSUME NEW rel \in Releases, NEW force \in BOOLEAN, Refresh(rel, force)
      PROVE  Disk'
      BY <1>6, DiskFrame DEF Refresh, Plan
<1>7. CASE StageGuest
  <2>1. SelectionHasImage'
        BY <1>7, <1>a, <1>b DEF StageGuest, SelectionHasImage, TypeOK
  <2> QED BY <1>7, <1>a, <2>1
          DEF StageGuest, Disk, CommandExists, Live, Roots, Rooted, Attempted,
              Existing
<1>f. ASSUME NEW g \in Gens, AddRoot(g),
             UNCHANGED <<link, committed, cacheVars>>
      PROVE  Disk'
  <2>1. \A f \in Gens : /\ gens'[f].state = gens[f].state
                       /\ gens[f].roots \subseteq gens'[f].roots
        BY <1>f, <1>a DEF AddRoot, TypeOK, Generations
  <2>2. Roots'
        BY <1>f, <1>a, <2>1, RootsGrow
  <2>3. CommandExists' /\ Existing'
        BY <1>f, <1>a, <2>1 DEF CommandExists, Existing, Live, TypeOK
  <2> QED BY <1>f, <1>a, <2>2, <2>3 DEF Disk, Attempted, SelectionHasImage
<1>8. CASE JournalRoot
  <2>1. up.old \in Gens \cup {None}
        BY <1>a DEF TypeOK, Processes
  <2>2. CASE up.old = None
        BY <1>8, <2>2, DiskFrame DEF JournalRoot
  <2>3. CASE up.old \in Gens
        BY <1>8, <1>a, <2>3, <1>f DEF JournalRoot
  <2> QED BY <2>1, <2>2, <2>3
<1>9. CASE PublishJournal
  <2>1. /\ up.old = link /\ up.want \in images[up.home]
        /\ link # None => up.home \in gens[link].roots
        BY <1>9 DEF PublishJournal, Knows, Planned, Preparing
  <2>2. /\ journal'[up.home].old = link /\ journal'[up.home].new = None
        /\ journal'[up.home].prevSel = sel[up.home]
        /\ journal'[up.home].newSel = up.want
        /\ \A h \in Homes \ {up.home} : journal'[h] = journal[h]
        BY <1>9, <1>a, <1>b, <2>1 DEF PublishJournal, TypeOK
  <2>3. UNCHANGED <<link, gens, committed, sel, images, retired>>
        BY <1>9 DEF PublishJournal
  <2>4. Roots'
        BY <1>9, <1>a, <1>b, <2>1, <2>2, <2>3
        DEF PublishJournal, Roots, Rooted, CommandExists, Live
  <2>5. Attempted'
        BY <1>9, <1>a, <1>b, <2>2, <2>3 DEF PublishJournal, Attempted
  <2>6. SelectionHasImage'
        BY <1>9, <1>a, <1>b, <2>1, <2>2, <2>3 DEF PublishJournal, SelectionHasImage
  <2> QED BY <1>a, <2>3, <2>4, <2>5, <2>6 DEF Disk, CommandExists, Live, Existing
<1>10. ASSUME NEW g \in Gens, InstallGeneration(g) PROVE Disk'
  <2>1. /\ \A f \in Gens \ {g} : gens'[f] = gens[f]
        /\ gens[g].state = "none" /\ gens'[g].state = "live"
        BY <1>10, <1>a DEF InstallGeneration, TypeOK, NoGeneration
  <2>2. UNCHANGED <<link, committed, cacheVars>>
        BY <1>10 DEF InstallGeneration
  <2>3. Roots'
        BY <1>a, <2>1, <2>2, RootsGrow
  <2>4. CommandExists' /\ Existing'
        BY <1>a, <2>1, <2>2 DEF CommandExists, Live, Existing, TypeOK
  <2> QED BY <1>a, <2>2, <2>3, <2>4 DEF Disk, Attempted, SelectionHasImage
<1>11. CASE RootNew
  <2>1. up.gen \in Gens
        BY <1>11 DEF RootNew, Knows, Attempt, Made, Journaled, Kinds, Transaction
  <2> QED BY <1>11, <1>f, <2>1 DEF RootNew
<1>12. CASE RecordTarget
  <2>1. /\ up.gen \in Gens /\ gens[up.gen].state = "live"
        /\ up.home \in gens[up.gen].roots /\ journal[up.home] # None
        /\ up.gen \notin committed
        /\ \A h \in Homes : journal[h] # None => journal[h].new # up.gen
        BY <1>12, <1>b
        DEF RecordTarget, Knows, Attempt, Made, Journaled, Kinds, Transaction
  <2>2. journal[up.home] \in Journals
        BY <1>12, <1>a, <1>b, <2>1 DEF RecordTarget, TypeOK
  <2>3. /\ journal'[up.home].old = journal[up.home].old
        /\ journal'[up.home].new = up.gen
        /\ journal'[up.home].prevSel = journal[up.home].prevSel
        /\ journal'[up.home].newSel = journal[up.home].newSel
        /\ \A h \in Homes \ {up.home} : journal'[h] = journal[h]
        BY <1>12, <1>a, <1>b, <2>2 DEF RecordTarget, TypeOK, Journals
  <2>4. UNCHANGED <<link, gens, committed, sel, images, retired>>
        BY <1>12 DEF RecordTarget
  <2>5. Roots'
        BY <1>a, <1>b, <2>1, <2>3, <2>4 DEF Roots, Rooted
  <2>6. Attempted'
        BY <1>a, <1>b, <2>1, <2>3, <2>4 DEF Attempted
  <2>7. SelectionHasImage'
        BY <1>a, <1>b, <2>1, <2>3, <2>4 DEF SelectionHasImage
  <2> QED BY <1>a, <2>4, <2>5, <2>6, <2>7 DEF Disk, CommandExists, Live, Existing
<1>13. CASE PublishLink
  <2>1. up.gen \in Gens /\ gens[up.gen].state = "live"
        BY <1>13 DEF PublishLink, Knows, Installing
  <2> QED BY <1>13, <1>a, <2>1
          DEF PublishLink, Disk, CommandExists, Live, Roots, Rooted, Attempted,
              Existing, SelectionHasImage
<1>14. CASE WriteReceipt
  <2>1. \A f \in Gens : /\ gens'[f].state = gens[f].state
                       /\ gens'[f].roots = gens[f].roots
        BY <1>14, <1>a DEF WriteReceipt, TypeOK, Generations
  <2>2. UNCHANGED <<link, committed, cacheVars>>
        BY <1>14 DEF WriteReceipt
  <2>3. Roots'
        BY <1>a, <2>1, <2>2, RootsGrow
  <2>4. CommandExists' /\ Existing'
        BY <1>a, <2>1, <2>2 DEF CommandExists, Live, Existing, TypeOK
  <2> QED BY <1>a, <2>2, <2>3, <2>4 DEF Disk, Attempted, SelectionHasImage
<1>15. CASE CommitSelection
  <2>1. SelectionHasImage'
        BY <1>15, <1>a, <1>b DEF CommitSelection, Valid, SelectionHasImage, TypeOK
  <2> QED BY <1>15, <1>a, <2>1
          DEF CommitSelection, Disk, CommandExists, Live, Roots, Rooted,
              Attempted, Existing
<1>16. CASE RetireCompleted
  <2>1. /\ up.host => /\ up.gen \in Gens /\ gens[up.gen].state = "live"
                      /\ journal[up.home].new = up.gen
        /\ journal[up.home] # None
        BY <1>16
        DEF RetireCompleted, Knows, Attempt, Made, Journaled, Kinds, Transaction
  <2>2. /\ \A h \in Homes \ {up.home} : journal'[h] = journal[h]
        /\ journal'[up.home] = None
        BY <1>16, <1>a, <1>b DEF RetireCompleted, Retire, TypeOK
  <2>3. Attempted'
        BY <1>16, <1>a, <1>b, <2>1, <2>2 DEF RetireCompleted, Attempted
  <2>4. Existing'
        BY <1>16, <1>a, <2>1 DEF RetireCompleted, Existing
  <2> QED BY <1>16, <1>r, <2>3, <2>4 DEF RetireCompleted, Disk
<1>17. ASSUME NEW g \in Gens, RetireGeneration(g) PROVE Disk'
  <2>1. /\ gens'[g].state = "retired"
        /\ \A f \in Gens \ {g} : gens'[f] = gens[f]
        /\ gens[g].state # "none"
        BY <1>17, <1>a DEF RetireGeneration, Obsolete, TypeOK, Generations
  <2>2. UNCHANGED <<link, committed, cacheVars>>
        BY <1>17 DEF RetireGeneration
  <2>3. gens[g].state = "live" => g # link
        BY <1>17 DEF RetireGeneration, Obsolete, Keep
  <2>4. \A h \in Homes : journal[h] # None \/ retired[h] # None => ~Rooted(g, h)
        BY <1>17, <1>a
        DEF RetireGeneration, Obsolete, Rooted, Pending, TypeOK
  <2>5. Roots'
    <3>1. ASSUME NEW h \in Homes, journal[h] # None
          PROVE  Rooted(journal[h].old, h)' /\ Rooted(journal[h].new, h)'
      <4>1. journal[h] \in Journals /\ journal'[h] = journal[h]
            BY <1>a, <3>1, <2>2 DEF TypeOK
      <4>2. journal[h].old # g /\ journal[h].new # g
            BY <1>a, <3>1, <2>4 DEF Roots
      <4> QED BY <1>a, <3>1, <4>1, <4>2, <2>1 DEF Roots, Rooted, Journals
    <3>2. ASSUME NEW h \in Homes, retired[h] # None
          PROVE  Rooted(retired[h].old, h)' /\ Rooted(retired[h].new, h)'
      <4>1. retired[h] \in Targets /\ retired'[h] = retired[h]
            BY <1>a, <3>2, <2>2 DEF TypeOK
      <4>2. retired[h].old # g /\ retired[h].new # g
            BY <1>a, <3>2, <2>4 DEF Roots
      <4> QED BY <1>a, <3>2, <4>1, <4>2, <2>1 DEF Roots, Rooted, Targets
    <3> QED BY <2>2, <3>1, <3>2 DEF Roots
  <2>6. CommandExists' /\ Existing'
        BY <1>a, <2>1, <2>2, <2>3 DEF CommandExists, Live, Existing, TypeOK
  <2> QED BY <1>a, <2>2, <2>5, <2>6 DEF Disk, Attempted, SelectionHasImage
<1>18. CASE EraseGeneration
  <2>1. /\ up.gen \in Gens /\ gens[up.gen].state = "retired"
        /\ gens'[up.gen].state = "gone"
        /\ \A f \in Gens \ {up.gen} : gens'[f] = gens[f]
        BY <1>18, <1>a
        DEF EraseGeneration, Knows, Collecting, TypeOK, NoGeneration
  <2>2. UNCHANGED <<link, committed, cacheVars>>
        BY <1>18 DEF EraseGeneration
  <2>3. Roots'
        BY <1>a, <2>1, <2>2, RootsGrow
  <2>4. CommandExists' /\ Existing'
        BY <1>a, <2>1, <2>2 DEF CommandExists, Live, Existing, TypeOK
  <2> QED BY <1>a, <2>2, <2>3, <2>4 DEF Disk, Attempted, SelectionHasImage
<1>19. ASSUME NEW unused \in SUBSET Releases, CollectCache(unused) PROVE Disk'
  <2>1. journal[up.home] = None
        BY <1>19 DEF CollectCache, Knows, Collecting
  <2>2. sel[up.home] \notin unused
        BY <1>19 DEF CollectCache, Removable, Unused, Guests
  <2>3. SelectionHasImage'
        BY <1>19, <1>a, <1>b, <2>1, <2>2
        DEF CollectCache, RemoveImages, SelectionHasImage, TypeOK
  <2> QED BY <1>19, <1>a, <2>3
          DEF CollectCache, Disk, CommandExists, Live, Roots, Rooted, Attempted,
              Existing
<1> QED
    BY <1>1, <1>2, <1>3, <1>4, <1>5, <1>6, <1>7, <1>8, <1>9, <1>10, <1>11,
       <1>12, <1>13, <1>14, <1>15, <1>16, <1>17, <1>18, <1>19 DEF Update

---------------------------------------------------------------------------
(* What the process knows.                                                 *)

(* Goto moves the process and nothing else of it.                          *)
LEMMA GotoMoves ==
    ASSUME TypeOK, NEW pc \in Pcs, Goto(pc)
    PROVE  /\ up'.pc = pc /\ up'.kind = up.kind /\ up'.home = up.home
           /\ up'.want = up.want /\ up'.host = up.host /\ up'.old = up.old
           /\ up'.gen = up.gen /\ up'.after = up.after
BY DEF TypeOK, Goto, Processes

(* A process that ended knows nothing.                                     *)
LEMMA EndKnows ==
    ASSUME End PROVE Knows'
BY DEF End, Idle, Knows, Kinds, Planned, Installing, Transaction, Attempt,
       Undoing, Collecting, Preparing, Journaled, Rolling, Made

(* Neither does one that only cleans.                                      *)
Cleaning == {"deferred", "retired", "erase", "pending", "refresh", "collect"}
LEMMA CleaningKnows ==
    ASSUME up'.home \in Homes, up'.pc \in Cleaning,
           up'.kind = "update" \/ up'.pc = "collect"
    PROVE  Knows'
BY DEF Cleaning, Knows, Kinds, Planned, Installing, Transaction, Attempt,
       Undoing, Collecting, Preparing, Journaled, Rolling, Made

LEMMA AfterCleaning ==
    ASSUME TypeOK
    PROVE  {AfterDeferred, AfterRetired} \subseteq Cleaning \cap Pcs
BY DEF TypeOK, AfterDeferred, AfterRetired, Cleaning, Pcs, Processes

LEMMA BeginKnows ==
    ASSUME IInv, Begin PROVE Knows'
<1>1. ASSUME NEW h \in Homes, BeginUpdate(h) PROVE Knows'
      BY <1>1, CleaningKnows DEF BeginUpdate, TakeLocks, Idle, Cleaning
<1>2. ASSUME NEW h \in Homes, NEW rel \in Releases, BeginInstall(h, rel)
      PROVE Knows'
      BY <1>2
      DEF BeginInstall, TakeLocks, Idle, Knows, Kinds, Planned, Installing,
          Transaction, Attempt, Undoing, Collecting, Preparing, Journaled,
          Rolling, Made
<1>3. ASSUME NEW h \in Homes, BeginPrune(h) PROVE Knows'
      BY <1>3, CleaningKnows DEF BeginPrune, TakeLocks, Idle, Cleaning
<1> QED BY <1>1, <1>2, <1>3 DEF Begin

LEMMA FailureKnows ==
    ASSUME IInv, Failure PROVE Knows'
<1>a. /\ TypeOK /\ (up.pc # "idle" => up.home \in Homes)
      /\ up.pc \in Cleaning \ {"collect"} => up.kind = "update"
      BY DEF IInv, Knows, Kinds, Cleaning
<1>1. CASE FailCleaning
      BY <1>1, <1>a, EndKnows, CleaningKnows, AfterCleaning, GotoMoves
      DEF FailCleaning, At, Cleaning
<1>2. CASE FailPlain
      BY <1>2, EndKnows DEF FailPlain
<1>3. CASE FailPrepare
      BY <1>3, EndKnows DEF FailPrepare
<1>4. CASE FailJournaled
  <2>1. up'.pc = "rollback" /\ up'.home = up.home /\ up'.kind = "update"
        BY <1>4, <1>a DEF FailJournaled, TypeOK, Processes
  <2>2. journal'[up'.home] # None /\ up'.home \in Homes
        BY <1>4, <1>a, <2>1
        DEF FailJournaled, cacheVars, IInv, Knows, Transaction, Journaled
  <2> QED BY <2>1, <2>2
          DEF Knows, Kinds, Planned, Installing, Transaction, Attempt, Undoing,
              Collecting, Preparing, Journaled, Rolling, Made
<1>5. CASE FailErase
      BY <1>5, <1>a, CleaningKnows DEF FailErase, At, TypeOK, Processes, Cleaning
<1>6. CASE Die
      BY <1>6, EndKnows DEF Die
<1> QED BY <1>1, <1>2, <1>3, <1>4, <1>5, <1>6 DEF Failure

LEMMA UpdateKnows ==
    ASSUME IInv, Update PROVE Knows'
<1> USE DEF hostVars, cacheVars, At
<1>a. /\ TypeOK /\ CommandExists /\ Roots /\ Existing /\ Knows
      /\ None \notin Gens /\ None \notin Journals
      BY UpdateConstants, NoneIsNoJournal DEF IInv, Disk, Gens
<1>b. /\ up.pc # "idle" => up.home \in Homes
      /\ up.pc \notin {"generation", "link", "collect", "eraseGen"}
            => up.kind = "update"
      BY <1>a DEF Knows, Kinds
<1>c. Cleaning \subseteq Pcs /\ "idle" \notin Cleaning
      BY DEF Cleaning, Pcs
<1>d. Preparing \cup Journaled \cup Rolling \cup {"cache", "erase", "eraseGen"}
          \subseteq Pcs
      BY DEF Preparing, Journaled, Rolling, Pcs
<1>1. CASE CleanupDeferred \/ NothingRetired \/ EraseRetired
      BY <1>1, <1>a, <1>b, <1>c, CleaningKnows, AfterCleaning, GotoMoves
      DEF CleanupDeferred, NothingRetired, EraseRetired
<1>2. CASE RenameRetired
      BY <1>2, <1>a, <1>b, <1>d, CleaningKnows, GotoMoves
      DEF RenameRetired, Cleaning
<1>3. CASE NoJournal
      BY <1>3, <1>a, <1>b, CleaningKnows
      DEF NoJournal, Cleaning, TypeOK, Processes
<1>4. CASE RecoverJournal
  <2>1. up'.pc = "rollback" /\ up'.home = up.home
        BY <1>4, <1>a DEF RecoverJournal, TypeOK, Processes
  <2> QED BY <1>4, <1>b, <2>1
          DEF RecoverJournal, Knows, Kinds, Planned, Installing, Transaction,
              Attempt, Undoing, Collecting, Preparing, Journaled, Rolling, Made
<1> DEFINE Held == /\ up'.home = up.home /\ up'.kind = up.kind
                   /\ up'.want = up.want /\ up'.host = up.host
                   /\ up'.old = up.old /\ up'.gen = up.gen
<1>e. \A pc \in Pcs : Goto(pc) => up'.pc = pc /\ Held
      BY <1>a, GotoMoves
<1> HIDE DEF Held
<1>5. CASE Rollback
  <2>1. up'.pc = "restoreSel" /\ Held
        BY <1>5, <1>d, <1>e DEF Rollback, Rolling
  <2> QED BY <1>5, <1>b, <2>1
          DEF Rollback, Valid, OwnsActive, Live, Held, Knows, Kinds, Planned,
              Installing, Transaction, Attempt, Undoing, Collecting, Preparing,
              Journaled, Rolling, Made
<1>6. CASE RestoreSelection
  <2>1. up'.pc = "restoreLink" /\ Held
        BY <1>6, <1>d, <1>e DEF RestoreSelection, Rolling
  <2>2. sel'[up.home] = journal[up.home].prevSel
        BY <1>6, <1>a, <1>b DEF RestoreSelection, TypeOK
  <2> QED BY <1>6, <1>a, <1>b, <2>1, <2>2
          DEF RestoreSelection, OwnsActive, Live, Held, Knows, Kinds, Planned,
              Installing, Transaction, Attempt, Undoing, Collecting, Preparing,
              Journaled, Rolling, Made
<1>7. CASE RestoreLink
  <2>1. up'.pc = "recovered" /\ Held
        BY <1>7, <1>d, <1>e DEF RestoreLink, Rolling
  <2>2. /\ journal[up.home] # None /\ OwnsActive(journal[up.home])
        /\ sel[up.home] = journal[up.home].prevSel
        BY <1>7, <1>a DEF RestoreLink, Knows, Undoing, Rolling
  <2>3. journal[up.home].old # None =>
            gens[journal[up.home].old].state = "live"
        BY <1>7, <1>a, <1>b, <2>2 DEF RestoreLink, Roots, Rooted
  <2>4. UNCHANGED <<gens, journal, sel>>
        BY <1>7 DEF RestoreLink
  <2>5. OwnsActive(journal[up.home])'
        BY <1>7, <2>1, <2>2, <2>3, <2>4 DEF RestoreLink, OwnsActive, Live, Held
  <2> QED BY <1>7, <1>b, <2>1, <2>2, <2>4, <2>5
          DEF RestoreLink, Held, Knows, Kinds, Planned, Installing,
              Transaction, Attempt, Undoing, Collecting, Preparing, Journaled,
              Rolling, Made
<1>8. CASE RetireRecovered
      BY <1>8, <1>a, <1>b, <1>c, <1>e, EndKnows, CleaningKnows
      DEF RetireRecovered, Held, Cleaning
<1>9. ASSUME NEW rel \in Releases, NEW force \in BOOLEAN, Refresh(rel, force)
      PROVE  Knows'
  <2>1. CASE up' = [up EXCEPT !.pc = "collect", !.old = link]
        BY <1>9, <2>1, <1>a, <1>b, CleaningKnows
        DEF Refresh, Plan, Cleaning, TypeOK, Processes
  <2>2. CASE up' # [up EXCEPT !.pc = "collect", !.old = link]
    <3>1. /\ up'.pc = "stage" /\ up'.home = up.home /\ up'.kind = up.kind
          /\ up'.old = link /\ up'.want = rel
          /\ ~up'.host => HostChecked(rel)
          BY <1>9, <2>2, <1>a DEF Refresh, Plan, TypeOK, Processes
    <3>2. up.kind = "update"
          BY <1>9, <1>a DEF Refresh, Plan, Knows, Kinds
    <3> QED BY <1>9, <1>a, <1>b, <3>1, <3>2
            DEF Refresh, Plan, HostChecked, Fits, Knows, Kinds, Planned,
                Installing, Transaction, Attempt, Undoing, Collecting,
                Preparing, Journaled, Rolling, Made
  <2> QED BY <2>1, <2>2
<1>10. CASE StageGuest
  <2>1. up'.pc = "journalStage" /\ Held
        BY <1>10, <1>d, <1>e DEF StageGuest, Preparing
  <2>2. up.want \in images'[up.home]
        BY <1>10, <1>a, <1>b DEF StageGuest, TypeOK
  <2> QED BY <1>10, <1>a, <1>b, <2>1, <2>2
          DEF StageGuest, Fits, Held, Knows, Kinds, Planned, Installing,
              Transaction, Attempt, Undoing, Collecting, Preparing, Journaled,
              Rolling, Made
<1>11. CASE JournalStage
  <2>1. up'.pc = "journalRoot" /\ Held
        BY <1>11, <1>d, <1>e DEF JournalStage, Preparing
  <2> QED BY <1>11, <1>a, <1>b, <2>1
          DEF JournalStage, Fits, Held, Knows, Kinds, Planned, Installing,
              Transaction, Attempt, Undoing, Collecting, Preparing, Journaled,
              Rolling, Made
<1>f. ASSUME NEW g \in Gens, AddRoot(g), up.home \in Homes
      PROVE  /\ \A f \in Gens : /\ gens'[f].state = gens[f].state
                               /\ gens'[f].rel = gens[f].rel
             /\ up.home \in gens'[g].roots
      BY <1>f, <1>a DEF AddRoot, TypeOK, Generations
<1>12. CASE JournalRoot
  <2>1. up'.pc = "publish" /\ Held
        BY <1>12, <1>d, <1>e DEF JournalRoot, Preparing
  <2>2. /\ up.old = link /\ up.want \in Releases /\ Fits(up.want)
        /\ ~up.host => link # None /\ gens[link].rel = up.want
        /\ up.want \in images[up.home] /\ journal[up.home] = None
        BY <1>12, <1>a DEF JournalRoot, Knows, Planned, Preparing
  <2>3. link # None => /\ gens'[link].rel = gens[link].rel
                       /\ up.home \in gens'[link].roots
        BY <1>12, <1>a, <1>b, <1>f, <2>2 DEF JournalRoot, TypeOK
  <2> QED BY <1>12, <1>b, <2>1, <2>2, <2>3
          DEF JournalRoot, Fits, Held, Knows, Kinds, Planned, Installing,
              Transaction, Attempt, Undoing, Collecting, Preparing, Journaled,
              Rolling, Made
<1>13. CASE PublishJournal
  <2>1. up'.pc = (IF up.host THEN "generation" ELSE "commit") /\ Held
        BY <1>13, <1>d, <1>e DEF PublishJournal, Journaled
  <2>2. journal'[up.home] =
            [host |-> up.host, old |-> up.old, new |-> None,
             prevSel |-> sel[up.home], newSel |-> up.want]
        BY <1>13, <1>a, <1>b DEF PublishJournal, TypeOK
  <2>3. /\ up.old = link /\ up.want \in Releases /\ Fits(up.want)
        /\ ~up.host => link # None /\ gens[link].rel = up.want
        BY <1>13, <1>a DEF PublishJournal, Knows, Planned, Preparing
  <2>4. journal'[up.home] # None
    <3>1. [host |-> up.host, old |-> up.old, new |-> None,
           prevSel |-> sel[up.home], newSel |-> up.want] \in Journals
          BY <1>13, <1>a, <1>b, <2>3
          DEF PublishJournal, TypeOK, Processes, Journals
    <3> QED BY <1>a, <2>2, <3>1
  <2>5. /\ journal'[up.home].host = up.host /\ journal'[up.home].old = link
        /\ journal'[up.home].new = None /\ journal'[up.home].newSel = up.want
        BY <2>2, <2>3
  <2>6. UNCHANGED <<link, gens>>
        BY <1>13 DEF PublishJournal
  <2> HIDE <2>2
  <2> QED BY <1>13, <1>b, <2>1, <2>3, <2>4, <2>5, <2>6
          DEF PublishJournal, Fits, Held, Knows, Kinds, Planned, Installing,
              Transaction, Attempt, Undoing, Collecting, Preparing, Journaled,
              Rolling, Made
<1>14. ASSUME NEW g \in Gens, InstallGeneration(g) PROVE Knows'
  <2>1. /\ up'.pc = IF up.kind = "update" THEN "rootNew" ELSE "link"
        /\ up'.home = up.home /\ up'.kind = up.kind /\ up'.want = up.want
        /\ up'.host = up.host /\ up'.old = up.old /\ up'.gen = g
        BY <1>14, <1>a DEF InstallGeneration, TypeOK, Processes
  <2>2. /\ gens[g].state = "none" /\ gens'[g].state = "live"
        /\ gens'[g].rel = up.want /\ gens'[g].source = (up.kind = "install")
        /\ \A f \in Gens \ {g} : gens'[f] = gens[f]
        BY <1>14, <1>a DEF InstallGeneration, TypeOK, NoGeneration
  <2>3. UNCHANGED <<link, committed, sel, images, journal>>
        BY <1>14 DEF InstallGeneration
  <2>4. up.kind \in {"update", "install"} /\ up.home \in Homes
        BY <1>14, <1>a, <1>b DEF InstallGeneration, Knows, Kinds
  <2>5. CASE up.kind = "install"
        BY <1>a, <2>1, <2>2, <2>3, <2>4, <2>5
        DEF Knows, Kinds, Planned, Installing, Transaction, Attempt, Undoing,
            Collecting, Preparing, Journaled, Rolling, Made
  <2>6. CASE up.kind = "update"
    <3>1. g \notin committed /\ link # g
          BY <1>a, <2>2 DEF Existing, CommandExists, Live
    <3>2. \A h \in Homes : journal[h] # None => journal[h].new # g
          BY <1>a, <2>2 DEF Roots, Rooted
    <3>3. link # None => gens'[link].rel = gens[link].rel
          BY <1>a, <2>2, <3>1 DEF TypeOK
    <3>4. /\ journal[up.home] # None /\ journal[up.home].old = up.old
          /\ journal[up.home].newSel = up.want
          /\ journal[up.home].host = up.host /\ up.host /\ link = up.old
          /\ Fits(up.want) /\ journal[up.home].new = None
          BY <1>14, <1>a, <2>6
          DEF InstallGeneration, Knows, Transaction, Journaled
    <3> QED BY <2>1, <2>2, <2>3, <2>4, <2>6, <3>1, <3>2, <3>3, <3>4
            DEF Fits, Knows, Kinds, Planned, Installing, Transaction, Attempt,
                Undoing, Collecting, Preparing, Journaled, Rolling, Made
  <2> QED BY <2>4, <2>5, <2>6
<1>15. CASE RootNew
  <2>1. up'.pc = "record" /\ Held
        BY <1>15, <1>d, <1>e DEF RootNew, Journaled
  <2>2. /\ journal[up.home] # None /\ journal[up.home].old = up.old
        /\ journal[up.home].newSel = up.want
        /\ journal[up.home].host = up.host /\ up.host /\ link = up.old
        /\ Fits(up.want) /\ journal[up.home].new = None
        BY <1>15, <1>a, <1>b DEF RootNew, Knows, Transaction, Journaled
  <2>3. /\ up.gen \in Gens /\ gens[up.gen].state = "live"
        /\ gens[up.gen].rel = up.want /\ up.gen \notin committed
        /\ \A h \in Homes : journal[h] # None => journal[h].new # up.gen
        BY <1>15, <1>a, <1>b, <2>2 DEF RootNew, Knows, Attempt, Made, Journaled
  <2>4. /\ gens'[up.gen].state = "live" /\ gens'[up.gen].rel = up.want
        /\ up.home \in gens'[up.gen].roots
        /\ link # None => gens'[link].rel = gens[link].rel
        BY <1>15, <1>a, <1>b, <1>f, <2>3 DEF RootNew, TypeOK
  <2>5. UNCHANGED <<link, committed, sel, images, journal>>
        BY <1>15 DEF RootNew
  <2> QED BY <1>15, <1>b, <2>1, <2>2, <2>3, <2>4, <2>5
          DEF RootNew, Fits, Held, Knows, Kinds, Planned, Installing,
              Transaction, Attempt, Undoing, Collecting, Preparing, Journaled,
              Rolling, Made
<1>16. CASE RecordTarget
  <2>1. up'.pc = "link" /\ Held
        BY <1>16, <1>d, <1>e DEF RecordTarget, Journaled
  <2>2. /\ journal[up.home] # None /\ journal[up.home].old = up.old
        /\ journal[up.home].newSel = up.want
        /\ journal[up.home].host = up.host /\ up.host /\ link = up.old
        /\ Fits(up.want)
        BY <1>16, <1>a, <1>b DEF RecordTarget, Knows, Transaction, Journaled
  <2>3. /\ up.gen \in Gens /\ gens[up.gen].state = "live"
        /\ gens[up.gen].rel = up.want /\ up.gen \notin committed
        BY <1>16, <1>a, <1>b, <2>2
        DEF RecordTarget, Knows, Attempt, Made, Journaled
  <2>4. journal[up.home] \in Journals
        BY <1>16, <1>a, <1>b, <2>2 DEF RecordTarget, TypeOK
  <2>5. /\ journal'[up.home] \in Journals
        /\ journal'[up.home].old = up.old /\ journal'[up.home].new = up.gen
        /\ journal'[up.home].newSel = up.want
        /\ journal'[up.home].host = up.host
        BY <1>16, <1>a, <1>b, <2>2, <2>3, <2>4 DEF RecordTarget, TypeOK, Journals
  <2>6. UNCHANGED <<link, gens, committed, sel, images>>
        BY <1>16 DEF RecordTarget
  <2> QED BY <1>16, <1>a, <1>b, <2>1, <2>2, <2>3, <2>5, <2>6
          DEF RecordTarget, Fits, Held, Knows, Kinds, Planned, Installing,
              Transaction, Attempt, Undoing, Collecting, Preparing, Journaled,
              Rolling, Made
<1>17. CASE PublishLink
  <2>1. /\ up'.pc = (IF up.kind = "update" THEN "receipt" ELSE "collect")
        /\ Held
        BY <1>17, <1>c, <1>d, <1>e DEF PublishLink, Journaled, Cleaning
  <2>2. CASE up.kind # "update"
        BY <1>17, <1>b, <2>1, <2>2, CleaningKnows DEF PublishLink, Held, Cleaning
  <2>3. CASE up.kind = "update"
        BY <1>17, <1>a, <1>b, <2>1, <2>3
        DEF PublishLink, Held, Knows, Kinds, Planned, Installing,
            Transaction, Attempt, Undoing, Collecting, Preparing, Journaled,
            Rolling, Made
  <2> QED BY <2>2, <2>3
<1>18. CASE WriteReceipt
  <2>1. up'.pc = "commit" /\ Held
        BY <1>18, <1>d, <1>e DEF WriteReceipt, Journaled
  <2>2. \A f \in Gens : gens'[f].state = gens[f].state /\ gens'[f].rel = gens[f].rel
        BY <1>18, <1>a DEF WriteReceipt, TypeOK, Generations
  <2> QED BY <1>18, <1>a, <1>b, <2>1, <2>2
          DEF WriteReceipt, Held, Knows, Kinds, Planned, Installing,
              Transaction, Attempt, Undoing, Collecting, Preparing, Journaled,
              Rolling, Made
<1>19. CASE CommitSelection
  <2>1. up'.pc = "complete" /\ Held
        BY <1>19, <1>d, <1>e DEF CommitSelection, Journaled
  <2>2. sel'[up.home] = journal[up.home].newSel
        BY <1>19, <1>a, <1>b DEF CommitSelection, TypeOK
  <2> QED BY <1>19, <1>a, <1>b, <2>1, <2>2
          DEF CommitSelection, Held, Knows, Kinds, Planned, Installing,
              Transaction, Attempt, Undoing, Collecting, Preparing, Journaled,
              Rolling, Made
<1>20. CASE RetireCompleted
      BY <1>20, <1>b, CleaningKnows DEF RetireCompleted, Idle, Cleaning
<1>21. ASSUME NEW g \in Gens, RetireGeneration(g) PROVE Knows'
  <2>1. up'.pc = "eraseGen" /\ up'.gen = g /\ up'.home \in Homes
        BY <1>21, <1>a, <1>b DEF RetireGeneration, TypeOK, Processes
  <2>2. gens'[g].state = "retired"
        BY <1>21, <1>a DEF RetireGeneration, TypeOK, Generations
  <2> QED BY <2>1, <2>2
          DEF Knows, Kinds, Planned, Installing, Transaction, Attempt, Undoing,
              Collecting, Preparing, Journaled, Rolling, Made
<1>22. CASE EraseGeneration
      BY <1>22, <1>a, <1>b, CleaningKnows
      DEF EraseGeneration, Cleaning, TypeOK, Processes
<1>23. CASE CollectDone
  <2>1. CASE up' = Idle
        BY <2>1, EndKnows DEF End
  <2>2. CASE up' # Idle
    <3>1. up'.pc = "cache" /\ Held /\ up.kind = "update"
          BY <1>23, <2>2, <1>d, <1>e DEF CollectDone, End
    <3>2. journal'[up'.home] = None
          BY <1>23, <2>2, <3>1 DEF CollectDone, End, Pending, Held
    <3> QED BY <1>23, <1>b, <3>1, <3>2
            DEF CollectDone, Held, Knows, Kinds, Planned, Installing,
                Transaction, Attempt, Undoing, Collecting, Preparing, Journaled,
                Rolling, Made
  <2> QED BY <2>1, <2>2
<1>24. ASSUME NEW unused \in SUBSET Releases, CollectCache(unused) PROVE Knows'
      BY <1>24, EndKnows DEF CollectCache
<1> QED
    BY <1>1, <1>2, <1>3, <1>4, <1>5, <1>6, <1>7, <1>8, <1>9, <1>10, <1>11,
       <1>12, <1>13, <1>14, <1>15, <1>16, <1>17, <1>18, <1>19, <1>20, <1>21,
       <1>22, <1>23, <1>24 DEF Update

---------------------------------------------------------------------------
(* The theorems.                                                           *)

(* Nothing installed satisfies the invariant.                              *)
LEMMA InitInvariant == Init => IInv
<1> SUFFICES ASSUME Init PROVE IInv
    OBVIOUS
<1>1. TypeOK
      BY UpTypes, UpdateConstants
      DEF Init, TypeOK, Idle, Processes, Pcs, NoGeneration, Generations, GenStates
<1>2. Disk
      BY DEF Init, Disk, CommandExists, Roots, Attempted, Existing,
             SelectionHasImage
<1>3. Knows
      BY DEF Init, Idle, Knows, Kinds, Planned, Installing, Transaction, Attempt,
             Undoing, Collecting, Preparing, Journaled, Rolling, Made
<1> QED BY <1>1, <1>2, <1>3 DEF IInv

(* Every step keeps it.                                                    *)
LEMMA StepInvariant == IInv /\ [Next]_vars => IInv'
<1> SUFFICES ASSUME IInv, [Next]_vars PROVE IInv'
    OBVIOUS
<1> USE DEF hostVars, cacheVars
<1>d. Disk /\ Knows
      BY DEF IInv
<1>k. ASSUME UNCHANGED <<hostVars, cacheVars, up>> PROVE Knows'
      BY <1>d, <1>k
      DEF Knows, Kinds, Planned, Fits, Installing, Transaction, Attempt, Undoing,
          OwnsActive, Live, Collecting
<1>1. CASE Begin
  <2>1. UNCHANGED <<hostVars, cacheVars>>
        BY <1>1 DEF Begin, BeginUpdate, BeginInstall, BeginPrune
  <2> QED BY <1>1, <1>d, <2>1, BeginTypes, BeginKnows, DiskFrame DEF IInv
<1>2. CASE Update
      BY <1>2, UpdateTypes, UpdateDisk, UpdateKnows DEF IInv
<1>3. CASE Failure
  <2>1. UNCHANGED <<link, gens, committed, sel, images, journal, retired>>
        BY <1>3
        DEF Failure, FailCleaning, FailPlain, FailPrepare, FailJournaled,
            FailErase, Die
  <2> QED BY <1>3, <1>d, <2>1, FailureTypes, FailureKnows, DiskFrame DEF IInv
<1>4. CASE Start
      BY <1>4, <1>d, <1>k, StartTypes, DiskFrame DEF IInv
<1>5. CASE UNCHANGED vars
  <2>1. TypeOK'
        BY <1>5 DEF IInv, TypeOK, vars
  <2> QED BY <1>5, <1>d, <1>k, <2>1, DiskFrame DEF IInv, vars
<1> QED BY <1>1, <1>2, <1>3, <1>4, <1>5 DEF Next

(* The inductive invariant holds throughout.                               *)
THEOREM Invariant == Spec => []IInv
BY InitInvariant, StepInvariant, PTL DEF Spec

(* The files, journals and processes keep their types.                     *)
THEOREM TypeCorrect == Spec => []TypeOK
<1>1. IInv => TypeOK
      BY DEF IInv
<1> QED BY <1>1, Invariant, PTL

(* Journals stay valid, whatever the HOMEs install, collect or leave       *)
(* behind: rollback and cleanup always find the generations they name.     *)
THEOREM JournalsAlwaysValid == Spec => []JournalsStayValid
<1>1. IInv => JournalsStayValid
      BY DEF IInv, Disk, Roots, Rooted, JournalsStayValid, Valid, Live
<1> QED BY <1>1, Invariant, PTL

(* The command always names a complete generation.                         *)
THEOREM CommandAlwaysExists == Spec => []CommandExists
<1>1. IInv => CommandExists
      BY DEF IInv, Disk
<1> QED BY <1>1, Invariant, PTL

(* The selection, and the one a rollback would restore, has its image.     *)
THEOREM SelectionAlwaysHasImage == Spec => []SelectionHasImage
<1>1. IInv => SelectionHasImage
      BY DEF IInv, Disk
<1> QED BY <1>1, Invariant, PTL

(* No recovery takes a committed generation back, and only a newer release *)
(* or a source build replaces it.                                          *)
THEOREM CommittedAlwaysStays == Spec => CommittedStays
<1> DEFINE Step == (link \in committed /\ link' # link) =>
                       /\ At("link")
                       /\ gens[link'].source \/ gens[link'].rel >= gens[link].rel
<1>1. ASSUME IInv, [Next]_vars, link \in committed, link' # link PROVE Step
  <2>1. TypeOK /\ Attempted /\ Knows /\ link # None
        BY <1>1, UpdateConstants DEF IInv, Disk, TypeOK, Gens
  <2>2. RestoreLink \/ PublishLink
        BY <1>1
        DEF vars, hostVars, cacheVars, Next, Begin, BeginUpdate, BeginInstall,
            BeginPrune, Failure, FailCleaning, FailPlain, FailPrepare,
            FailJournaled, FailErase, Die, Start, StartChecks, StartReads,
            StartEnds, Update, CleanupDeferred, NothingRetired, RenameRetired,
            EraseRetired, NoJournal, RecoverJournal, Rollback, RestoreSelection,
            RetireRecovered, Refresh, Plan, StageGuest, JournalStage,
            JournalRoot, PublishJournal, InstallGeneration, RootNew,
            RecordTarget, WriteReceipt, CommitSelection, RetireCompleted,
            RetireGeneration, EraseGeneration, CollectDone, CollectCache
  <2>3. CASE RestoreLink
    <3>1. journal[up.home] # None /\ OwnsActive(journal[up.home])
          /\ up.home \in Homes
          BY <2>1, <2>3 DEF RestoreLink, At, Knows, Undoing, Rolling, Kinds
    <3>2. journal[up.home].new = link
          BY <1>1, <2>1, <2>3, <3>1 DEF RestoreLink, OwnsActive
    <3> QED BY <1>1, <2>1, <3>1, <3>2 DEF Attempted
  <2>4. CASE PublishLink
    <3>1. CASE up.kind = "install"
          BY <2>1, <2>4, <3>1 DEF PublishLink, At, Knows, Installing
    <3>2. CASE up.kind = "update"
          BY <2>1, <2>4, <3>2
          DEF PublishLink, At, Knows, Transaction, Attempt, Fits, Made, Journaled
    <3> QED BY <2>1, <2>4, <3>1, <3>2 DEF PublishLink, At, Knows, Kinds
  <2> QED BY <2>2, <2>3, <2>4
<1>2. IInv /\ [Next]_vars => [Step]_vars
      BY <1>1
<1> QED BY <1>2, Invariant, PTL DEF Spec, CommittedStays

---------------------------------------------------------------------------
(* One HOME: the command and the selection are of one release.             *)

Whole(g, s) == (g # None /\ s # None) => gens[g].source \/ gens[g].rel = s
(* So they are without a journal, and a journal holds such a pair; a       *)
(* bootstrap had neither.                                                  *)
Pairs ==
    \A h \in Homes :
        /\ link = None => sel[h] = None
        /\ journal[h] # None =>
              /\ Whole(journal[h].old, journal[h].prevSel)
              /\ journal[h].old = None => journal[h].prevSel = None
        /\ journal[h] = None => Whole(link, sel[h])

(* Live generations keep their release.                                    *)
LEMMA PairsFrame ==
    ASSUME IInv, Pairs, UNCHANGED <<link, sel, journal>>,
           \A g \in Gens : gens[g].state = "live" =>
               gens'[g].rel = gens[g].rel /\ gens'[g].source = gens[g].source
    PROVE  Pairs'
<1>1. TypeOK /\ CommandExists /\ Roots
      BY DEF IInv, Disk
<1>2. link # None => /\ gens'[link].rel = gens[link].rel
                     /\ gens'[link].source = gens[link].source
      BY <1>1 DEF TypeOK, CommandExists, Live
<1>3. ASSUME NEW h \in Homes, journal[h] # None, journal[h].old # None
      PROVE  /\ gens'[journal[h].old].rel = gens[journal[h].old].rel
             /\ gens'[journal[h].old].source = gens[journal[h].old].source
  <2>1. journal[h] \in Journals /\ gens[journal[h].old].state = "live"
        BY <1>1, <1>3 DEF TypeOK, Roots, Rooted
  <2> QED BY <1>3, <2>1 DEF Journals
<1> QED BY <1>2, <1>3 DEF Pairs, Whole

LEMMA StepPairs ==
    ASSUME \A h, k \in Homes : h = k, IInv, Pairs, [Next]_vars
    PROVE  Pairs'
<1> USE DEF hostVars, cacheVars, At
<1>a. /\ TypeOK /\ CommandExists /\ Roots /\ Knows
      /\ None \notin Gens /\ None \notin Journals
      BY UpdateConstants, NoneIsNoJournal DEF IInv, Disk, Gens
<1>b. /\ up.pc # "idle" => up.home \in Homes
      /\ up.pc \notin {"generation", "link", "collect", "eraseGen"}
            => up.kind = "update"
      BY <1>a DEF Knows, Kinds
<1>c. UNCHANGED <<link, gens, sel, journal>> => Pairs'
      BY PairsFrame
<1>1. CASE Begin \/ Failure \/ Start \/ UNCHANGED vars
      BY <1>1, <1>c
      DEF vars, Begin, BeginUpdate, BeginInstall, BeginPrune, Failure,
          FailCleaning, FailPlain, FailPrepare, FailJournaled, FailErase, Die,
          Start, StartChecks, StartReads, StartEnds
<1>2. CASE CleanupDeferred \/ NothingRetired \/ RenameRetired \/ EraseRetired
           \/ NoJournal \/ RecoverJournal \/ Rollback \/ StageGuest
           \/ JournalStage \/ CollectDone
      BY <1>2, <1>c
      DEF CleanupDeferred, NothingRetired, RenameRetired, EraseRetired,
          NoJournal, RecoverJournal, Rollback, StageGuest, JournalStage,
          CollectDone
<1>3. ASSUME NEW rel \in Releases, NEW force \in BOOLEAN, Refresh(rel, force)
      PROVE  Pairs'
      BY <1>3, <1>c DEF Refresh, Plan
<1>4. ASSUME NEW unused \in SUBSET Releases, CollectCache(unused) PROVE Pairs'
      BY <1>4, <1>c DEF CollectCache
<1>5. CASE RestoreSelection
  <2>1. journal[up.home] # None /\ OwnsActive(journal[up.home])
        BY <1>5, <1>a DEF RestoreSelection, Knows, Undoing, Rolling
  <2>2. sel'[up.home] = journal[up.home].prevSel
        BY <1>5, <1>a, <1>b DEF RestoreSelection, TypeOK
  <2> QED BY <1>5, <1>b, <2>1, <2>2 DEF RestoreSelection, OwnsActive, Pairs, Whole
<1>6. CASE RestoreLink
  <2>1. journal[up.home] # None
        BY <1>6, <1>a DEF RestoreLink, Knows, Undoing, Rolling
  <2> QED BY <1>6, <1>b, <2>1 DEF RestoreLink, Pairs, Whole
<1>7. CASE RetireRecovered
  <2>1. /\ OwnsActive(journal[up.home]) /\ journal[up.home] # None
        /\ sel[up.home] = journal[up.home].prevSel
        /\ journal[up.home].host /\ journal[up.home].old # None
              => link = journal[up.home].old
        BY <1>7, <1>a DEF RetireRecovered, Knows, Undoing, Rolling
  <2>2. Whole(link, sel[up.home])
        BY <1>7, <1>b, <2>1 DEF RetireRecovered, OwnsActive, Pairs, Whole
  <2>3. journal'[up.home] = None /\ UNCHANGED <<link, gens, sel>>
        BY <1>7, <1>a, <1>b DEF RetireRecovered, Retire, TypeOK
  <2> QED BY <1>7, <1>b, <2>2, <2>3 DEF RetireRecovered, Pairs, Whole
<1>f. ASSUME NEW g \in Gens, AddRoot(g) PROVE
        \A f \in Gens : gens'[f].rel = gens[f].rel /\ gens'[f].source = gens[f].source
      BY <1>f, <1>a DEF AddRoot, TypeOK, Generations
<1>8. CASE JournalRoot
  <2>1. up.old \in Gens \cup {None}
        BY <1>a DEF TypeOK, Processes
  <2> QED BY <1>8, <1>f, <2>1, PairsFrame DEF JournalRoot
<1>9. CASE PublishJournal
  <2>1. up.old = link /\ journal[up.home] = None
        BY <1>9, <1>a DEF PublishJournal, Knows, Planned, Preparing
  <2>2. /\ journal'[up.home].old = link
        /\ journal'[up.home].prevSel = sel[up.home]
        BY <1>9, <1>a, <1>b, <2>1 DEF PublishJournal, TypeOK
  <2>3. UNCHANGED <<link, gens, sel>>
        BY <1>9 DEF PublishJournal
  <2> QED BY <1>9, <1>b, <2>1, <2>2, <2>3 DEF PublishJournal, Pairs, Whole
<1>10. ASSUME NEW g \in Gens, InstallGeneration(g) PROVE Pairs'
  <2>1. /\ \A f \in Gens \ {g} : gens'[f] = gens[f]
        /\ gens[g].state = "none"
        BY <1>10, <1>a DEF InstallGeneration, TypeOK
  <2> QED BY <1>10, <2>1, PairsFrame DEF InstallGeneration
<1>11. CASE RootNew
  <2>1. up.gen \in Gens
        BY <1>11, <1>a
        DEF RootNew, Knows, Attempt, Made, Journaled, Kinds, Transaction
  <2> QED BY <1>11, <1>f, <2>1, PairsFrame DEF RootNew
<1>12. CASE RecordTarget
  <2>1. journal[up.home] # None
        BY <1>12, <1>a, <1>b DEF RecordTarget, Knows, Transaction, Journaled
  <2>2. journal[up.home] \in Journals
        BY <1>12, <1>a, <1>b, <2>1 DEF RecordTarget, TypeOK
  <2>3. /\ journal'[up.home] \in Journals
        /\ journal'[up.home].old = journal[up.home].old
        /\ journal'[up.home].prevSel = journal[up.home].prevSel
        BY <1>12, <1>a, <1>b, <2>2
        DEF RecordTarget, TypeOK, Journals, Processes
  <2>4. UNCHANGED <<link, gens, sel>>
        BY <1>12 DEF RecordTarget
  <2> QED BY <1>12, <1>a, <1>b, <2>1, <2>3, <2>4 DEF RecordTarget, Pairs, Whole
<1>13. CASE PublishLink
  <2>1. /\ up.kind = "install" => gens[up.gen].source
        /\ up.kind = "update" => journal[up.home] # None
        BY <1>13, <1>a DEF PublishLink, Knows, Installing, Transaction, Journaled
  <2>2. up.gen # None /\ up.kind \in {"update", "install"}
        BY <1>13, <1>a DEF PublishLink, Knows, Installing, Kinds
  <2> QED BY <1>13, <1>b, <2>1, <2>2 DEF PublishLink, Pairs, Whole
<1>14. CASE WriteReceipt
  <2>1. \A f \in Gens : /\ gens'[f].rel = gens[f].rel
                       /\ gens'[f].source = gens[f].source
        BY <1>14, <1>a DEF WriteReceipt, TypeOK, Generations
  <2> QED BY <1>14, <2>1, PairsFrame DEF WriteReceipt
<1>15. CASE CommitSelection
  <2>1. journal[up.home] # None /\ (~up.host => link # None)
        BY <1>15, <1>a, <1>b DEF CommitSelection, Knows, Transaction, Journaled
  <2>2. up.host => link # None
        BY <1>15, <1>a, <1>b DEF CommitSelection, Knows, Attempt, Made, Journaled
  <2> QED BY <1>15, <1>b, <2>1, <2>2 DEF CommitSelection, Pairs, Whole
<1>16. CASE RetireCompleted
  <2>1. sel[up.home] = up.want /\ link # None /\ gens[link].rel = up.want
        BY <1>16, <1>a, <1>b
        DEF RetireCompleted, Knows, Transaction, Attempt, Made, Journaled
  <2>2. journal'[up.home] = None /\ UNCHANGED <<link, gens, sel>>
        BY <1>16, <1>a, <1>b DEF RetireCompleted, Retire, TypeOK
  <2> QED BY <1>16, <1>b, <2>1, <2>2 DEF RetireCompleted, Pairs, Whole
<1>17. ASSUME NEW g \in Gens, RetireGeneration(g) PROVE Pairs'
  <2>1. \A f \in Gens : /\ gens'[f].rel = gens[f].rel
                       /\ gens'[f].source = gens[f].source
        BY <1>17, <1>a DEF RetireGeneration, TypeOK, Generations
  <2> QED BY <1>17, <2>1, PairsFrame DEF RetireGeneration
<1>18. CASE EraseGeneration
  <2>1. /\ up.gen \in Gens /\ gens[up.gen].state = "retired"
        /\ \A f \in Gens \ {up.gen} : gens'[f] = gens[f]
        BY <1>18, <1>a DEF EraseGeneration, Knows, Collecting, TypeOK
  <2> QED BY <1>18, <2>1, PairsFrame DEF EraseGeneration
<1> QED
    BY <1>1, <1>2, <1>3, <1>4, <1>5, <1>6, <1>7, <1>8, <1>9, <1>10, <1>11,
       <1>12, <1>13, <1>14, <1>15, <1>16, <1>17, <1>18 DEF Next, Update

(* With one HOME an update is seen whole or not at all.                    *)
THEOREM PairAlwaysWhole ==
    ASSUME \A h, k \in Homes : h = k PROVE Spec => []PairIsWhole
<1>1. Init => IInv /\ Pairs
      BY InitInvariant DEF Init, Pairs, Whole
<1>2. (IInv /\ Pairs) /\ [Next]_vars => (IInv /\ Pairs)'
      BY StepInvariant, StepPairs
<1>3. IInv /\ Pairs => PairIsWhole
      BY DEF Pairs, Whole, PairIsWhole
<1> QED BY <1>1, <1>2, <1>3, PTL DEF Spec
============================================================================
