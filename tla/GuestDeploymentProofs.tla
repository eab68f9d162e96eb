----------------------- MODULE GuestDeploymentProofs -----------------------
(***************************************************************************)
(* Proofs about the guest deployment transaction for any configurations,   *)
(* any tokens and any number of late commands.                             *)
(***************************************************************************)
EXTENDS GuestDeployment, TLAPS, FiniteSetTheorems

(* The current value of every object is one its disk may hold.             *)
Current ==
    /\ root \in rootDisk /\ record \in recordDisk
    /\ \A t \in Tokens : phase[t] \in phaseDisk[t] /\ data[t] \in dataDisk[t]

(* Whatever a crash leaves of a backup that may read ready is complete.    *)
Complete == \A t \in Tokens : "ready" \in phaseDisk[t] => Gone \notin dataDisk[t]

(* No disk holds two entries.                                              *)
Single == \A r \in rootDisk : \A t, u \in r : t = u

(* Every disk holds the backup, published and complete.                    *)
BackedUp(t) ==
    /\ \A r \in rootDisk : t \in r
    /\ phaseDisk[t] = {"ready"} /\ Gone \notin dataDisk[t]

(* No disk holds the backup as one to restore.                             *)
Final(t) == \A r \in rootDisk : t \in r => "ready" \notin phaseDisk[t]

Beginning == {"copy", "syncData", "publish", "syncPublish"}
Cleaning == {"cleanPhase", "cleanSync", "cleanRemove"}
Retiring == {"restore", "syncItems", "removePhase", "syncEntry", "removeData", "removeEntry",
             "syncRoot"}
Transactional == {"begin", "commit", "rollback"}

(* What the script that holds the lock has done so far.                    *)
ScriptKnows ==
    LET t == script.tok IN
    /\ At("copy") \/ At("syncData") \/ At("publish") \/ At("syncPublish") => t \in root
    /\ At("syncData") => data[t] # Gone
    /\ At("publish") \/ At("syncPublish") => Gone \notin dataDisk[t]
    /\ At("syncPublish") => phase[t] = "ready"
    /\ At("syncEntry") => phase[t] = "absent"
    /\ At("removeData") => "ready" \notin phaseDisk[t]
    /\ At("syncRoot") => t \notin root

(* Which command takes which steps, and with which token.                  *)
ScriptPath ==
    /\ script.step \in Beginning \cup Cleaning => script.cmd = "begin"
    /\ At("write") => script.cmd \in Items
    /\ script.step \in {"remember", "rememberSync"} => script.cmd = "recover"
    /\ script.step \in Retiring => script.cmd \in {"commit", "rollback", "recover"}
    /\ At("syncRecord") => script.cmd = "settle"
    /\ script.cmd \in Transactional => script.tok \in Tokens
    /\ script.step \in Retiring \cup {"remember", "rememberSync"} => script.tok \in Tokens
Paths ==
    /\ ScriptPath
    /\ \A c \in inbox : c.cmd \in Transactional => c.tok \in Tokens
    /\ op.at \in Transactional \cup Items \cup {"ready", "mark", "settle"} => op.tok \in Tokens
    /\ op.called => op.at \in Commands

(* The host's own command is the one call it waits for.                    *)
Mine ==
    /\ script.own => /\ op.called /\ reply = "none" /\ script.cmd = op.at /\ script.cfg = op.cfg
                     /\ script.cmd # "recover" => script.tok = op.tok
    /\ \A c \in inbox : c.own => /\ op.called /\ reply = "none" /\ c.cmd = op.at /\ c.tok = op.tok
                                 /\ c.cfg = op.cfg /\ ~script.own
    /\ ~up => inbox = {} /\ script = NoScript

(* Unless a command came late the operation is alone once its recovery has *)
(* been answered.                                                          *)
Alone ==
    op # NoOp /\ "late" \notin owed =>
        /\ \A c \in inbox : c.own
        /\ op.at \notin {"recover", "stop"} \/ (op.called /\ reply # "none") =>
               script = NoScript \/ script.own

(* A transaction's token is begun by nobody else.                          *)
Begins ==
    /\ \A c \in inbox : c.cmd = "begin" /\ c.tok = op.tok => c.own
    /\ script.cmd = "begin" /\ script.tok = op.tok => script.own

Told == op.called /\ reply \in {"silent", "reported"}
Backed ==
    "late" \notin owed /\ (op.at \in Items \cup {"ready"} \/ (op.at = "begin" /\ Told))
        => BackedUp(op.tok)
Finals == op.at \in {"mark", "settle"} \/ (op.at = "commit" /\ Told) => Final(op.tok)

(* TypeOK by what it is about: the file system, and who does what to it.   *)
FsType ==
    /\ runtime \in [Items -> ItemValues]
    /\ runtimeDisk \in [Items -> SUBSET ItemValues]
    /\ root \subseteq Tokens /\ rootDisk \subseteq SUBSET Tokens
    /\ phase \in [Tokens -> Phases] /\ phaseDisk \in [Tokens -> SUBSET Phases]
    /\ data \in [Tokens -> Backups] /\ dataDisk \in [Tokens -> SUBSET Backups]
    /\ record \in BOOLEAN /\ recordDisk \subseteq BOOLEAN
CtlType ==
    /\ up \in BOOLEAN /\ script \in Script \cup {NoScript} /\ inbox \subseteq Command
    /\ op \in Op \cup {NoOp} /\ reply \in {"none", "silent", "reported", "failed"}
    /\ marker \in Configs \cup {None} /\ want \in Configs
    /\ owed \subseteq {"marker", "boot", "late"}

FsInv == FsType /\ Current /\ Complete /\ Single
Control == CtlType /\ Paths /\ Mine /\ Alone /\ Begins
IInv == FsInv /\ ScriptKnows /\ Control /\ Backed /\ Finals

-----------------------------------------------------------------------------
(* The file system primitives.                                              *)

(* A copy of the runtime is never taken for a backup without its data.      *)
LEMMA CopyIsData ==
    ASSUME NEW f \in [Items -> ItemValues]
    PROVE  f \in Backups /\ f # Gone
<1>1. f["docker"] \in ItemValues /\ Gone["docker"] = <<"missing", TRUE>>
  BY DEF Items, Gone
<1>2. <<"missing", TRUE>> \notin ItemValues
  BY ConstantsAssumption DEF ItemValues
<1>3. QED BY <1>1, <1>2 DEF Backups

LEMMA WriteItemFs ==
    ASSUME FsInv, NEW i \in Items, NEW v \in ItemValues, WriteItem(i, v)
    PROVE  FsInv' /\ \A t \in Tokens : (BackedUp(t) => BackedUp(t)') /\ (Final(t) => Final(t)')
BY DEF FsInv, FsType, Current, Complete, Single, WriteItem, BackedUp, Final

LEMMA WriteRecordFs ==
    ASSUME FsInv, NEW b \in BOOLEAN, WriteRecord(b)
    PROVE  FsInv' /\ \A t \in Tokens : (BackedUp(t) => BackedUp(t)') /\ (Final(t) => Final(t)')
BY DEF FsInv, FsType, Current, Complete, Single, WriteRecord, BackedUp, Final

LEMMA MakeEntryFs ==
    ASSUME FsInv, NEW t \in Tokens, root = {}, MakeEntry(t)
    PROVE  FsInv' /\ t \in root' /\ \A u \in Tokens \ {t} : Final(u) => Final(u)'
<1>1. root' = {t} /\ rootDisk' = rootDisk \cup {{t}}
      /\ UNCHANGED <<runtime, runtimeDisk, phase, phaseDisk, data, dataDisk, record, recordDisk>>
  BY DEF MakeEntry
<1>2. QED BY <1>1 DEF FsInv, FsType, Current, Complete, Single, Final

LEMMA RemoveEntryFs ==
    ASSUME FsInv, NEW t \in Tokens, RemoveEntry(t)
    PROVE  FsInv' /\ t \notin root' /\ \A u \in Tokens : Final(u) => Final(u)'
<1>1. root' = root \ {t} /\ rootDisk' = rootDisk \cup {root \ {t}}
      /\ UNCHANGED <<runtime, runtimeDisk, phase, phaseDisk, data, dataDisk, record, recordDisk>>
  BY DEF RemoveEntry
<1>2. root \in rootDisk /\ root \subseteq Tokens
  BY DEF FsInv, FsType, Current
<1>3. FsType'
  BY <1>1, <1>2 DEF FsInv, FsType
<1>4. Current' /\ Complete' /\ Single'
  BY <1>1, <1>2 DEF FsInv, Current, Complete, Single
<1>5. \A u \in Tokens : Final(u) => Final(u)'
  BY <1>1, <1>2 DEF Final
<1>6. QED BY <1>1, <1>3, <1>4, <1>5 DEF FsInv

LEMMA WriteDataFs ==
    ASSUME FsInv, NEW t \in Tokens, NEW b \in Backups, WriteData(t, b),
           b = Gone => "ready" \notin phaseDisk[t]
    PROVE  FsInv' /\ data'[t] = b /\ \A u \in Tokens : Final(u) => Final(u)'
BY DEF FsInv, FsType, Current, Complete, Single, WriteData, Final

LEMMA WritePhaseFs ==
    ASSUME FsInv, NEW t \in Tokens, NEW p \in {"absent", "ready"}, WritePhase(t, p),
           p = "ready" => Gone \notin dataDisk[t]
    PROVE  /\ FsInv' /\ phase'[t] = p
           /\ \A u \in Tokens : (p = "absent" \/ u # t) /\ Final(u) => Final(u)'
<1> DEFINE new == phaseDisk[t] \cup {p} \cup
                  (IF p = "absent" /\ "ready" \in phaseDisk[t] THEN {"zero"} ELSE {})
<1>1. phase' = [phase EXCEPT ![t] = p] /\ phaseDisk' = [phaseDisk EXCEPT ![t] = new]
      /\ UNCHANGED <<runtime, runtimeDisk, root, rootDisk, data, dataDisk, record, recordDisk>>
  BY DEF WritePhase, FsInv, FsType
<1>2. /\ new \subseteq Phases /\ p \in new /\ phaseDisk[t] \subseteq new
      /\ "ready" \in new => p = "ready" \/ "ready" \in phaseDisk[t]
  BY DEF FsInv, FsType, Phases
<1> HIDE DEF new
<1>3. FsType' /\ phase'[t] = p
  BY <1>1, <1>2 DEF FsInv, FsType, Phases
<1>4. Current' /\ Complete' /\ Single'
  BY <1>1, <1>2 DEF FsInv, FsType, Current, Complete, Single
<1>5. \A u \in Tokens : (p = "absent" \/ u # t) /\ Final(u) => Final(u)'
  BY <1>1, <1>2 DEF Final, FsInv, FsType
<1>6. QED BY <1>3, <1>4, <1>5 DEF FsInv

(* fsync keeps the current values and forgets the others.                   *)
LEMMA SyncFs ==
    ASSUME FsInv, NEW a \in [Items -> SUBSET ItemValues], NEW b \in [Tokens -> SUBSET Backups],
           \A t \in Tokens : data[t] \in b[t] /\ b[t] \subseteq dataDisk[t], Sync(a, b)
    PROVE  /\ FsInv' /\ runtimeDisk' = a /\ UNCHANGED <<runtime, root, record>>
           /\ rootDisk' = {root}
           /\ \A t \in Tokens : /\ phaseDisk'[t] = {phase'[t]}
                                /\ phase'[t] = IF t \in root THEN phase[t] ELSE "absent"
                                /\ t \in root => data'[t] = data[t] /\ dataDisk'[t] = b[t]
                                /\ Final(t) => Final(t)'
<1>1. /\ rootDisk' = {root} /\ recordDisk' = {record} /\ UNCHANGED <<runtime, root, record>>
      /\ runtimeDisk' = a
      /\ phase' = [t \in Tokens |-> IF t \in root THEN phase[t] ELSE "absent"]
      /\ phaseDisk' = [t \in Tokens |-> {phase'[t]}]
      /\ data' = [t \in Tokens |-> IF t \in root THEN data[t] ELSE Gone]
      /\ dataDisk' = [t \in Tokens |-> IF t \in root THEN b[t] ELSE {Gone}]
  BY DEF Sync
<1>2. FsType'
  BY <1>1 DEF FsInv, FsType, Backups, Phases
<1>3. Current'
  BY <1>1 DEF FsInv, Current
<1>4. Complete' /\ Single'
  BY <1>1 DEF FsInv, Current, Complete, Single
<1>5. \A t \in Tokens : Final(t) => Final(t)'
  BY <1>1 DEF Final, FsInv, Current
<1>6. QED BY <1>1, <1>2, <1>3, <1>4, <1>5 DEF FsInv

LEMMA SyncMetaFs ==
    ASSUME FsInv, SyncMeta
    PROVE  /\ FsInv' /\ runtimeDisk' = runtimeDisk /\ UNCHANGED <<runtime, root, record>>
           /\ rootDisk' = {root}
           /\ \A t \in Tokens : /\ phaseDisk'[t] = {phase'[t]}
                                /\ phase'[t] = IF t \in root THEN phase[t] ELSE "absent"
                                /\ t \in root => data'[t] = data[t] /\ dataDisk'[t] = dataDisk[t]
                                /\ Final(t) => Final(t)'
<1>1. runtimeDisk \in [Items -> SUBSET ItemValues] /\ dataDisk \in [Tokens -> SUBSET Backups]
      /\ \A t \in Tokens : data[t] \in dataDisk[t]
  BY DEF FsInv, FsType, Current
<1>2. Sync(runtimeDisk, dataDisk)
  BY DEF SyncMeta
<1>3. QED BY <1>1, <1>2, SyncFs

LEMMA SyncDataFs ==
    ASSUME FsInv, NEW t \in Tokens, t \in root, SyncData(t)
    PROVE  FsInv' /\ UNCHANGED root /\ dataDisk'[t] = {data[t]}
           /\ \A u \in Tokens : Final(u) => Final(u)'
<1> DEFINE b == [dataDisk EXCEPT ![t] = {data[t]}]
<1>1. /\ runtimeDisk \in [Items -> SUBSET ItemValues] /\ b \in [Tokens -> SUBSET Backups]
      /\ \A u \in Tokens : data[u] \in b[u] /\ b[u] \subseteq dataDisk[u]
      /\ b[t] = {data[t]}
  BY DEF FsInv, FsType, Current
<1>2. Sync(runtimeDisk, b)
  BY DEF SyncData
<1> HIDE DEF b
<1>3. QED BY <1>1, <1>2, SyncFs

LEMMA SyncAllFs ==
    ASSUME FsInv, SyncAll
    PROVE  /\ FsInv' /\ runtimeDisk' = [i \in Items |-> {runtime[i]}]
           /\ UNCHANGED <<runtime, root, record>> /\ rootDisk' = {root}
           /\ \A t \in Tokens : /\ t \in root => phase'[t] = phase[t]
                                /\ Final(t) => Final(t)'
<1> DEFINE a == [i \in Items |-> {runtime[i]}]
           b == [t \in Tokens |-> {data[t]}]
<1>1. /\ a \in [Items -> SUBSET ItemValues] /\ b \in [Tokens -> SUBSET Backups]
      /\ \A u \in Tokens : data[u] \in b[u] /\ b[u] \subseteq dataDisk[u]
  BY DEF FsInv, FsType, Current
<1>2. Sync(a, b)
  BY DEF SyncAll
<1> HIDE DEF a, b
<1>3. FsInv' /\ runtimeDisk' = a /\ UNCHANGED <<runtime, root, record>> /\ rootDisk' = {root}
      /\ \A t \in Tokens : /\ t \in root => phase'[t] = phase[t]
                           /\ Final(t) => Final(t)'
  BY <1>1, <1>2, SyncFs
<1>4. QED BY <1>3 DEF a

(* A crash leaves one of the values each disk may hold.                     *)
LEMMA CrashFs ==
    ASSUME FsInv, Crash
    PROVE  FsInv' /\ \A t \in Tokens : (BackedUp(t) => BackedUp(t)') /\ (Final(t) => Final(t)')
<1>1. PICK r \in rootDisk :
        /\ root' = r /\ rootDisk' = {r}
        /\ phase' \in [Tokens -> Phases]
        /\ \A t \in Tokens : phase'[t] \in (IF t \in r THEN phaseDisk[t] ELSE {"absent"})
        /\ data' \in [Tokens -> UNION {dataDisk[t] : t \in Tokens} \cup {Gone}]
        /\ \A t \in Tokens : data'[t] \in (IF t \in r THEN dataDisk[t] ELSE {Gone})
  BY DEF Crash
<1>2. /\ runtime' \in [Items -> UNION {runtimeDisk[i] : i \in Items}]
      /\ \A i \in Items : runtime'[i] \in runtimeDisk[i]
      /\ record' \in recordDisk
      /\ runtimeDisk' = [i \in Items |-> {runtime'[i]}]
      /\ phaseDisk' = [t \in Tokens |-> {phase'[t]}]
      /\ dataDisk' = [t \in Tokens |-> {data'[t]}]
      /\ recordDisk' = {record'}
  BY DEF Crash
<1>3. \A t \in Tokens : data'[t] \in Backups
  BY <1>1 DEF FsInv, FsType, Backups
<1>4. data' \in [Tokens -> Backups]
  BY <1>1, <1>3
<1>5. \A i \in Items : runtime'[i] \in ItemValues
  BY <1>2 DEF FsInv, FsType
<1>6. runtime' \in [Items -> ItemValues]
  BY <1>2, <1>5
<1>7. root' \subseteq Tokens /\ rootDisk' \subseteq SUBSET Tokens
  BY <1>1 DEF FsInv, FsType
<1>8. FsType'
  BY <1>1, <1>2, <1>4, <1>6, <1>7 DEF FsInv, FsType
<1>9. Current'
  BY <1>1, <1>2 DEF Current
<1>10. Complete' /\ Single'
  BY <1>1, <1>2 DEF FsInv, Complete, Single
<1>11. ASSUME NEW t \in Tokens PROVE (BackedUp(t) => BackedUp(t)') /\ (Final(t) => Final(t)')
  BY <1>1, <1>2 DEF BackedUp, Final
<1>12. QED BY <1>8, <1>9, <1>10, <1>11 DEF FsInv

-----------------------------------------------------------------------------
(* Who does what.                                                           *)

LEMMA ScriptShape ==
    ASSUME CtlType, script.step \in Steps
    PROVE  /\ script # NoScript /\ script \in Script
           /\ \A s \in Steps : LET n == [script EXCEPT !.step = s] IN
                 /\ n \in Script /\ n.step = s /\ n.cmd = script.cmd /\ n.tok = script.tok
                 /\ n.cfg = script.cfg /\ n.own = script.own /\ n # NoScript
<1>1. NoScript.step \notin Steps
  BY DEF NoScript, Steps
<1>2. script \in Script
  BY <1>1 DEF CtlType
<1>3. QED BY <1>1, <1>2 DEF Script

(* The script goes on to its next step.                                     *)
LEMMA StepControl ==
    ASSUME Control, NEW s \in Steps, script.step \in Steps,
           script' = [script EXCEPT !.step = s], UNCHANGED <<inbox, host, reply>>,
           owed' \subseteq owed \cup {"marker", "boot"}, "late" \in owed' <=> "late" \in owed,
           ScriptPath'
    PROVE  Control'
<1>1. /\ script' \in Script /\ script'.step = s /\ script'.cmd = script.cmd
      /\ script'.tok = script.tok /\ script'.cfg = script.cfg /\ script'.own = script.own /\ script' # NoScript
      /\ script # NoScript
  BY ScriptShape DEF Control
<1>2. CtlType'
  BY <1>1 DEF Control, CtlType, host
<1>3. Paths'
  BY DEF Control, Paths, host
<1>4. Mine'
  BY <1>1 DEF Control, Mine, host
<1>5. Alone'
  BY <1>1 DEF Control, Alone, host
<1>6. Begins'
  BY <1>1 DEF Control, Begins, host
<1>7. QED BY <1>2, <1>3, <1>4, <1>5, <1>6 DEF Control

(* The script ends.                                                         *)
LEMMA ExitControl ==
    ASSUME Control, script # NoScript, NEW r \in {"silent", "reported", "failed"}, Exit(r),
           owed' \subseteq owed, "late" \in owed' <=> "late" \in owed
    PROVE  Control' /\ script' = NoScript
<1>1. script' = NoScript /\ UNCHANGED <<inbox, up, op, marker, want>>
      /\ reply' = IF script.own THEN r ELSE reply
  BY DEF Exit, host
<1>2. script \in Script /\ script.own \in BOOLEAN
  BY DEF Control, CtlType, Script
<1>3. /\ NoScript.own = FALSE /\ NoScript.cmd = "none" /\ NoScript.step = "none"
  BY DEF NoScript
<1>4. CtlType'
  BY <1>1 DEF Control, CtlType
<1>5. Paths'
  BY <1>1, <1>3 DEF Control, Paths, ScriptPath, At, Beginning, Cleaning, Retiring, Transactional, Items
<1>6. Mine'
  BY <1>1, <1>2, <1>3 DEF Control, Mine
<1>7. Alone'
  BY <1>1 DEF Control, Alone
<1>8. Begins'
  BY <1>1, <1>3 DEF Control, Begins
<1>9. QED BY <1>1, <1>4, <1>5, <1>6, <1>7, <1>8 DEF Control

(* While the host relies on its backup only its own configuration runs.     *)
LEMMA OnlyConfigures ==
    ASSUME Control, script # NoScript, "late" \notin owed,
           op.at \in Items \cup {"ready"} \/ (op.at = "begin" /\ Told)
    PROVE  script.own /\ script.cmd = op.at /\ op.at \in Items
<1>1. op # NoOp
  BY DEF NoOp, Items
<1>2. script.own
  BY <1>1 DEF Control, Alone, Items
<1>3. op.called /\ reply = "none" /\ script.cmd = op.at
  BY <1>2 DEF Control, Mine
<1>4. QED BY <1>2, <1>3 DEF Told, Control, Paths, Commands

(* A script that does not configure keeps what the host relies on.          *)
LEMMA ScriptRelies ==
    ASSUME IInv, script # NoScript, script.cmd \notin Items, UNCHANGED <<op, reply>>,
           "late" \in owed' <=> "late" \in owed,
           \A t \in Tokens : (script.cmd = "begin" => t # script.tok) /\ Final(t) => Final(t)'
    PROVE  Backed' /\ Finals'
<1>1. Backed'
  BY OnlyConfigures DEF IInv, Backed, Told
<1>2. Finals'
  <2> SUFFICES ASSUME op.at \in {"mark", "settle"} \/ (op.at = "commit" /\ Told)
               PROVE  Final(op.tok)'
    BY DEF Finals, Told
  <2>1. Final(op.tok) /\ op.tok \in Tokens
    BY DEF IInv, Finals, Control, Paths, Transactional
  <2>2. script.cmd = "begin" => op.tok # script.tok
    BY DEF IInv, Control, Begins, Mine
  <2>3. QED BY <2>1, <2>2
<1>3. QED BY <1>1, <1>2

(* So does one that ends without a success of its own.                      *)
LEMMA EndRelies ==
    ASSUME IInv, script # NoScript, NEW r \in {"silent", "reported", "failed"}, Exit(r),
           "late" \in owed' <=> "late" \in owed,
           script.own => r = "failed" \/ script.cmd \notin {"begin", "commit"},
           \A t \in Tokens : (script.cmd = "begin" => t # script.tok) /\ Final(t) => Final(t)',
           script.cmd \in Items => \A t \in Tokens : BackedUp(t) => BackedUp(t)'
    PROVE  Backed' /\ Finals'
<1>1. op' = op /\ (reply' = reply \/ (script.own /\ reply' = r))
  BY DEF Exit, host
<1>2. script.own => op.called /\ reply = "none" /\ script.cmd = op.at
  BY DEF IInv, Control, Mine
<1>3. Backed'
  <2> SUFFICES ASSUME "late" \notin owed,
                      op.at \in Items \cup {"ready"} \/ (op.at = "begin" /\ Told')
               PROVE  BackedUp(op.tok)'
    BY <1>1 DEF Backed, Told
  <2>1. op.at = "begin" /\ Told' => Told
    BY <1>1, <1>2 DEF Told
  <2>2. script.cmd \in Items /\ op.at \in Items
    BY <2>1, OnlyConfigures DEF IInv
  <2>3. BackedUp(op.tok) /\ op.tok \in Tokens
    BY <2>2 DEF IInv, Backed, Control, Paths
  <2>4. QED BY <1>1, <2>2, <2>3
<1>4. Finals'
  <2> SUFFICES ASSUME op.at \in {"mark", "settle"} \/ (op.at = "commit" /\ Told')
               PROVE  Final(op.tok)'
    BY <1>1 DEF Finals, Told
  <2>1. op.at = "commit" /\ Told' => Told
    BY <1>1, <1>2 DEF Told
  <2>2. Final(op.tok) /\ op.tok \in Tokens
    BY <2>1 DEF IInv, Finals, Control, Paths, Transactional
  <2>3. script.cmd = "begin" => op.tok # script.tok
    BY DEF IInv, Control, Begins, Mine
  <2>4. QED BY <1>1, <2>2, <2>3
<1>5. QED BY <1>3, <1>4

(* No script, nothing it knows.                                             *)
LEMMA EndKnows ==
    ASSUME script' = NoScript
    PROVE  ScriptKnows'
BY DEF ScriptKnows, At, NoScript

(* A step of a script that does not configure keeps the invariant, and so   *)
(* does the end of one.                                                     *)
LEMMA GoOn ==
    ASSUME IInv, NEW s \in Steps, script.step \in Steps,
           script' = [script EXCEPT !.step = s], UNCHANGED <<inbox, host, reply>>,
           owed' \subseteq owed \cup {"marker", "boot"}, "late" \in owed' <=> "late" \in owed,
           script.cmd \notin Items, ScriptPath', FsInv', ScriptKnows',
           \A t \in Tokens : (script.cmd = "begin" => t # script.tok) /\ Final(t) => Final(t)'
    PROVE  IInv'
<1>1. script # NoScript
  BY ScriptShape DEF IInv, Control
<1>2. Control'
  BY StepControl DEF IInv
<1>3. Backed' /\ Finals'
  BY <1>1, ScriptRelies DEF host
<1>4. QED BY <1>2, <1>3 DEF IInv

LEMMA GoEnd ==
    ASSUME IInv, script.step \in Steps, NEW r \in {"silent", "reported", "failed"}, Exit(r),
           owed' \subseteq owed, "late" \in owed' <=> "late" \in owed,
           script.own => r = "failed" \/ script.cmd \notin {"begin", "commit"}, FsInv',
           \A t \in Tokens : (script.cmd = "begin" => t # script.tok) /\ Final(t) => Final(t)',
           script.cmd \in Items => \A t \in Tokens : BackedUp(t) => BackedUp(t)'
    PROVE  IInv'
<1>1. script # NoScript
  BY ScriptShape DEF IInv, Control
<1>2. Control' /\ script' = NoScript
  BY <1>1, ExitControl DEF IInv
<1>3. Backed' /\ Finals'
  BY <1>1, EndRelies
<1>4. ScriptKnows'
  BY <1>2, EndKnows
<1>5. QED BY <1>2, <1>3, <1>4 DEF IInv

(* Nothing changes in the files.                                            *)
LEMMA SameFs ==
    ASSUME FsInv, UNCHANGED fs
    PROVE  FsInv' /\ \A t \in Tokens : (BackedUp(t) => BackedUp(t)') /\ (Final(t) => Final(t)')
BY DEF FsInv, FsType, Current, Complete, Single, fs, BackedUp, Final

(* The facts about the running script that every step below needs.          *)
LEMMA Running ==
    ASSUME IInv, script.step \in Steps
    PROVE  /\ script \in Script /\ script # NoScript /\ script.cmd \in Commands
           /\ FsInv /\ ScriptKnows /\ ScriptPath
           /\ \A s \in Steps : LET n == [script EXCEPT !.step = s] IN
                 n.step = s /\ n.cmd = script.cmd /\ n.tok = script.tok
BY ScriptShape DEF IInv, Control, Paths, Script

USE DEF Steps

(* begin_transaction *)

LEMMA BeginMkdirStep ==
    ASSUME IInv, BeginMkdir
    PROVE  IInv'
<1>1. /\ script.step = "enter" /\ script.cmd = "begin" /\ root = {} /\ MakeEntry(script.tok)
      /\ script' = [script EXCEPT !.step = "copy"] /\ UNCHANGED <<inbox, host, reply, owed>>
  BY DEF BeginMkdir, Enter, At, Goto
<1>2. script.tok \in Tokens /\ script'.step = "copy" /\ script'.cmd = "begin"
      /\ script'.tok = script.tok
  BY <1>1, Running DEF ScriptPath, Transactional
<1>3. FsInv' /\ script.tok \in root' /\ \A u \in Tokens \ {script.tok} : Final(u) => Final(u)'
  BY <1>1, <1>2, Running, MakeEntryFs
<1>4. ScriptPath' /\ ScriptKnows'
  BY <1>2, <1>3 DEF ScriptPath, ScriptKnows, At, Beginning, Cleaning, Retiring, Transactional
<1>5. QED BY <1>1, <1>2, <1>3, <1>4, GoOn DEF Items

LEMMA BeginCopyStep ==
    ASSUME IInv, BeginCopy
    PROVE  IInv'
<1>1. /\ script.step = "copy" /\ WriteData(script.tok, runtime)
      /\ script' = [script EXCEPT !.step = "syncData"] /\ UNCHANGED <<inbox, host, reply, owed>>
  BY DEF BeginCopy, At, Goto
<1>2. script.tok \in Tokens /\ script.cmd = "begin" /\ script.tok \in root
      /\ script'.step = "syncData" /\ script'.cmd = "begin" /\ script'.tok = script.tok
  BY <1>1, Running DEF ScriptPath, Transactional, Beginning, ScriptKnows, At
<1>3. runtime \in Backups /\ runtime # Gone
  BY CopyIsData DEF IInv, FsInv, FsType
<1>4. FsInv' /\ data'[script.tok] = runtime /\ root' = root
      /\ \A u \in Tokens : Final(u) => Final(u)'
  BY <1>1, <1>2, <1>3, Running, WriteDataFs DEF WriteData
<1>5. ScriptPath' /\ ScriptKnows'
  BY <1>2, <1>3, <1>4 DEF ScriptPath, ScriptKnows, At, Beginning, Cleaning, Retiring, Transactional
<1>6. QED BY <1>1, <1>2, <1>4, <1>5, GoOn DEF Items

LEMMA BeginSyncDataStep ==
    ASSUME IInv, BeginSyncData
    PROVE  IInv'
<1>1. /\ script.step = "syncData" /\ SyncData(script.tok)
      /\ script' = [script EXCEPT !.step = "publish"] /\ UNCHANGED <<inbox, host, reply, owed>>
  BY DEF BeginSyncData, At, Goto
<1>2. script.tok \in Tokens /\ script.cmd = "begin" /\ script.tok \in root
      /\ data[script.tok] # Gone
      /\ script'.step = "publish" /\ script'.cmd = "begin" /\ script'.tok = script.tok
  BY <1>1, Running DEF ScriptPath, Transactional, Beginning, ScriptKnows, At
<1>3. FsInv' /\ dataDisk'[script.tok] = {data[script.tok]} /\ root' = root
      /\ \A u \in Tokens : Final(u) => Final(u)'
  BY <1>1, <1>2, Running, SyncDataFs
<1>4. ScriptPath' /\ ScriptKnows'
  BY <1>2, <1>3 DEF ScriptPath, ScriptKnows, At, Beginning, Cleaning, Retiring, Transactional
<1>5. QED BY <1>1, <1>2, <1>3, <1>4, GoOn DEF Items

LEMMA BeginPublishStep ==
    ASSUME IInv, BeginPublish
    PROVE  IInv'
<1>1. /\ script.step = "publish" /\ WritePhase(script.tok, "ready")
      /\ script' = [script EXCEPT !.step = "syncPublish"] /\ UNCHANGED <<inbox, host, reply, owed>>
  BY DEF BeginPublish, At, Goto
<1>2. script.tok \in Tokens /\ script.cmd = "begin" /\ script.tok \in root
      /\ Gone \notin dataDisk[script.tok]
      /\ script'.step = "syncPublish" /\ script'.cmd = script.cmd /\ script'.tok = script.tok
  BY <1>1, Running DEF ScriptPath, ScriptKnows, At, Beginning, Cleaning, Retiring, Transactional
<1>3. FsInv' /\ phase'[script.tok] = "ready" /\ UNCHANGED <<root, dataDisk>>
      /\ \A u \in Tokens : (script.cmd = "begin" => u # script.tok) /\ Final(u) => Final(u)'
  BY <1>1, <1>2, Running, WritePhaseFs DEF WritePhase
<1>4. ScriptPath' /\ ScriptKnows'
  BY <1>1, <1>2, <1>3 DEF ScriptPath, ScriptKnows, At, Beginning, Cleaning, Retiring, Transactional
<1>5. QED BY <1>1, <1>2, <1>3, <1>4, GoOn DEF Items

(* The backup is published: every disk holds it from now on.                *)
LEMMA BeginSyncPublishStep ==
    ASSUME IInv, BeginSyncPublish
    PROVE  IInv'
<1>1. script.step = "syncPublish" /\ SyncMeta /\ Exit("silent") /\ owed' = owed \ {"boot"}
  BY DEF BeginSyncPublish, At
<1>2. script # NoScript /\ script.tok \in Tokens /\ script.cmd = "begin" /\ script.tok \in root
      /\ Gone \notin dataDisk[script.tok] /\ phase[script.tok] = "ready"
  BY <1>1, Running DEF ScriptPath, ScriptKnows, At, Beginning, Cleaning, Retiring, Transactional
<1>0. PICK t \in Tokens : t = script.tok
  BY <1>2
<1>3. FsInv' /\ rootDisk' = {root} /\ BackedUp(t)' /\ \A u \in Tokens : Final(u) => Final(u)'
  <2>1. FsInv
    BY DEF IInv
  <2>2. FsInv' /\ rootDisk' = {root} /\ phaseDisk'[script.tok] = {"ready"}
        /\ dataDisk'[script.tok] = dataDisk[script.tok] /\ \A u \in Tokens : Final(u) => Final(u)'
    BY <1>1, <1>2, <2>1, SyncMetaFs
  <2>3. QED BY <1>0, <1>2, <2>2 DEF BackedUp
<1>4. CASE ~script.own
  BY <1>1, <1>2, <1>3, <1>4, GoEnd DEF Items
<1>5. CASE script.own
  <2>1. Control' /\ script' = NoScript /\ op' = op
    BY <1>1, <1>2, ExitControl DEF IInv, Exit, host
  <2>2. op.at = "begin" /\ op.tok = script.tok
    BY <1>2, <1>5 DEF IInv, Control, Mine
  <2>3. Backed'
    BY <1>0, <1>3, <2>1, <2>2 DEF Backed
  <2>4. Finals'
    BY <2>1, <2>2 DEF Finals
  <2>5. QED BY <1>3, <2>1, <2>3, <2>4, EndKnows DEF IInv
<1>6. QED BY <1>4, <1>5

(* cleanup_begin *)
LEMMA BeginFailsStep ==
    ASSUME IInv, BeginFails
    PROVE  IInv'
<1>1. /\ script.step \in Beginning /\ UNCHANGED fs
      /\ script' = [script EXCEPT !.step = "cleanPhase"] /\ UNCHANGED <<inbox, host, reply, owed>>
  BY DEF BeginFails, Beginning, Goto
<1>2. script.step \in Steps
  BY <1>1 DEF Beginning
<1>3. script.tok \in Tokens /\ script.cmd = "begin"
      /\ script'.step = "cleanPhase" /\ script'.cmd = script.cmd /\ script'.tok = script.tok
  BY <1>1, <1>2, Running DEF ScriptPath, Transactional
<1>4. FsInv' /\ \A u \in Tokens : Final(u) => Final(u)'
  BY <1>1, <1>2, Running, SameFs
<1>5. ScriptPath' /\ ScriptKnows'
  BY <1>3 DEF ScriptPath, ScriptKnows, At, Beginning, Cleaning, Retiring, Transactional
<1>6. QED BY <1>1, <1>2, <1>3, <1>4, <1>5, GoOn DEF Items

LEMMA CleanPhaseStep ==
    ASSUME IInv, CleanPhase
    PROVE  IInv'
<1>1. /\ script.step = "cleanPhase" /\ WritePhase(script.tok, "absent")
      /\ script' = [script EXCEPT !.step = "cleanSync"] /\ UNCHANGED <<inbox, host, reply, owed>>
  BY DEF CleanPhase, At, Goto
<1>2. script.tok \in Tokens /\ script.cmd = "begin"
      /\ script'.step = "cleanSync" /\ script'.cmd = script.cmd /\ script'.tok = script.tok
  BY <1>1, Running DEF ScriptPath, ScriptKnows, At, Beginning, Cleaning, Retiring, Transactional
<1>3. FsInv' /\ \A u \in Tokens : (script.cmd = "begin" => u # script.tok) /\ Final(u) => Final(u)'
  BY <1>1, <1>2, Running, WritePhaseFs
<1>4. ScriptPath' /\ ScriptKnows'
  BY <1>1, <1>2, <1>3 DEF ScriptPath, ScriptKnows, At, Beginning, Cleaning, Retiring, Transactional
<1>5. QED BY <1>1, <1>2, <1>3, <1>4, GoOn DEF Items

LEMMA CleanSyncStep ==
    ASSUME IInv, CleanSync
    PROVE  IInv'
<1>1. /\ script.step = "cleanSync" /\ SyncMeta
      /\ script' = [script EXCEPT !.step = "cleanRemove"] /\ UNCHANGED <<inbox, host, reply, owed>>
  BY DEF CleanSync, At, Goto
<1>2. script.tok \in Tokens /\ script.cmd = "begin"
      /\ script'.step = "cleanRemove" /\ script'.cmd = script.cmd /\ script'.tok = script.tok
  BY <1>1, Running DEF ScriptPath, ScriptKnows, At, Beginning, Cleaning, Retiring, Transactional
<1>3. FsInv' /\ \A u \in Tokens : (script.cmd = "begin" => u # script.tok) /\ Final(u) => Final(u)'
  BY <1>1, <1>2, Running, SyncMetaFs
<1>4. ScriptPath' /\ ScriptKnows'
  BY <1>1, <1>2, <1>3 DEF ScriptPath, ScriptKnows, At, Beginning, Cleaning, Retiring, Transactional
<1>5. QED BY <1>1, <1>2, <1>3, <1>4, GoOn DEF Items

LEMMA CleanRemoveStep ==
    ASSUME IInv, CleanRemove
    PROVE  IInv'
<1>1. script.step = "cleanRemove" /\ RemoveEntry(script.tok) /\ Exit("failed") /\ owed' = owed
  BY DEF CleanRemove, At
<1>2. script.tok \in Tokens /\ script.cmd = "begin"
  BY <1>1, Running DEF ScriptPath, Transactional, Cleaning
<1>3. FsInv' /\ \A u \in Tokens : Final(u) => Final(u)'
  BY <1>1, <1>2, Running, RemoveEntryFs
<1>4. QED BY <1>1, <1>2, <1>3, GoEnd DEF Items

(* The ends that change no file.                                            *)
LEMMA PlainEnds ==
    ASSUME IInv, Stop \/ BeginRefuse \/ LoadFails \/ RecoverNothing
    PROVE  IInv'
<1>1. script.step \in Steps
  <2>1. script # NoScript
    BY DEF Stop, BeginRefuse, LoadFails, RecoverNothing, Enter, At, NoScript
  <2>2. QED BY <2>1 DEF IInv, Control, CtlType, Script
<1>2. UNCHANGED fs /\ owed' = owed
  BY DEF Stop, BeginRefuse, LoadFails, RecoverNothing
<1>3. PICK r \in {"silent", "reported", "failed"} :
         Exit(r) /\ (r = "failed" \/ script.cmd = "recover")
  BY DEF Stop, BeginRefuse, LoadFails, RecoverNothing, Enter
<1>4. FsInv' /\ \A t \in Tokens : (BackedUp(t) => BackedUp(t)') /\ (Final(t) => Final(t)')
  BY <1>1, <1>2, Running, SameFs
<1>5. QED BY <1>1, <1>2, <1>3, <1>4, GoEnd

(* configure-containerd, configure-docker *)
LEMMA ConfigureEnterStep ==
    ASSUME IInv, ConfigureEnter
    PROVE  IInv'
<1>1. /\ script.step = "enter" /\ script.cmd \in Items /\ WriteItem(script.cmd, Partial)
      /\ script' = [script EXCEPT !.step = "write"] /\ UNCHANGED <<inbox, host, reply, owed>>
  BY DEF ConfigureEnter, Goto
<1>2. script'.step = "write" /\ script'.cmd = script.cmd /\ script'.tok = script.tok
      /\ script # NoScript
  BY <1>1, Running
<1>3. Partial \in ItemValues
  BY DEF Partial, ItemValues
<1>4. FsInv' /\ \A t \in Tokens : (BackedUp(t) => BackedUp(t)') /\ (Final(t) => Final(t)')
  BY <1>1, <1>3, Running, WriteItemFs
<1>5. ScriptPath' /\ ScriptKnows'
  BY <1>1, <1>2, Running DEF ScriptPath, ScriptKnows, At, Beginning, Cleaning, Retiring, Transactional, Items
<1>6. Control'
  BY <1>1, <1>5, StepControl DEF IInv
<1>7. op' = op /\ Told' = Told
  BY <1>1 DEF Told, host
<1>8. Backed'
  BY <1>1, <1>2, <1>4, <1>7, OnlyConfigures DEF IInv, Backed, Control, Paths
<1>9. Finals'
  BY <1>4, <1>7 DEF IInv, Finals, Control, Paths, Transactional
<1>10. QED BY <1>4, <1>5, <1>6, <1>8, <1>9 DEF IInv

LEMMA ConfigureWriteStep ==
    ASSUME IInv, ConfigureWrite
    PROVE  IInv'
<1>1. /\ script.step = "write" /\ WriteItem(script.cmd, Configured(script.cfg)[script.cmd])
      /\ Exit("silent") /\ owed' = owed
  BY DEF ConfigureWrite, At
<1>2. script.cmd \in Items /\ script.cfg \in Configs
  BY <1>1, Running DEF ScriptPath, At, Script
<1>3. Configured(script.cfg)[script.cmd] \in ItemValues
  <2>1. <<"applied", TRUE>> \in ItemValues /\ <<script.cfg, TRUE>> \in ItemValues
    BY <1>2 DEF ItemValues
  <2>2. Configured(script.cfg)["containerd"] = <<"applied", TRUE>>
        /\ Configured(script.cfg)["docker"] = <<script.cfg, TRUE>>
    BY DEF Configured
  <2>3. QED BY <1>2, <2>1, <2>2 DEF Items
<1>4. FsInv' /\ \A t \in Tokens : (BackedUp(t) => BackedUp(t)') /\ (Final(t) => Final(t)')
  BY <1>1, <1>2, <1>3, Running, WriteItemFs
<1>5. QED BY <1>1, <1>2, <1>4, GoEnd DEF Items

(* rollback, commit and the restoration of a recovery *)

LEMMA CommitEnterStep ==
    ASSUME IInv, CommitEnter
    PROVE  IInv'
<1>1. /\ script.step = "enter" /\ script.cmd = "commit" /\ UNCHANGED fs
      /\ script' = [script EXCEPT !.step = "syncItems"] /\ UNCHANGED <<inbox, host, reply, owed>>
  BY DEF CommitEnter, At, Goto, Enter
<1>2. script.tok \in Tokens /\ script.cmd \in {"commit", "rollback", "recover"}
      /\ script'.step = "syncItems" /\ script'.cmd = script.cmd /\ script'.tok = script.tok
  BY <1>1, Running DEF ScriptPath, ScriptKnows, At, Beginning, Cleaning, Retiring, Transactional
<1>3. FsInv' /\ \A u \in Tokens : Final(u) => Final(u)'
  BY <1>1, <1>2, Running, SameFs
<1>4. ScriptPath' /\ ScriptKnows'
  BY <1>1, <1>2, <1>3 DEF ScriptPath, ScriptKnows, At, Beginning, Cleaning, Retiring, Transactional
<1>5. QED BY <1>1, <1>2, <1>3, <1>4, GoOn DEF Items

LEMMA RollbackEnterStep ==
    ASSUME IInv, RollbackEnter
    PROVE  IInv'
<1>1. /\ script.step = "enter" /\ script.cmd = "rollback" /\ UNCHANGED fs
      /\ script' = [script EXCEPT !.step = "restore"] /\ UNCHANGED <<inbox, host, reply, owed>>
  BY DEF RollbackEnter, At, Goto, Enter
<1>2. script.tok \in Tokens /\ script.cmd \in {"commit", "rollback", "recover"}
      /\ script'.step = "restore" /\ script'.cmd = script.cmd /\ script'.tok = script.tok
  BY <1>1, Running DEF ScriptPath, ScriptKnows, At, Beginning, Cleaning, Retiring, Transactional
<1>3. FsInv' /\ \A u \in Tokens : Final(u) => Final(u)'
  BY <1>1, <1>2, Running, SameFs
<1>4. ScriptPath' /\ ScriptKnows'
  BY <1>1, <1>2, <1>3 DEF ScriptPath, ScriptKnows, At, Beginning, Cleaning, Retiring, Transactional
<1>5. QED BY <1>1, <1>2, <1>3, <1>4, GoOn DEF Items

LEMMA RestoreDoneStep ==
    ASSUME IInv, RestoreDone
    PROVE  IInv'
<1>1. /\ script.step = "restore" /\ UNCHANGED fs
      /\ script' = [script EXCEPT !.step = "syncItems"] /\ UNCHANGED <<inbox, host, reply, owed>>
  BY DEF RestoreDone, At, Goto
<1>2. script.tok \in Tokens /\ script.cmd \in {"commit", "rollback", "recover"}
      /\ script'.step = "syncItems" /\ script'.cmd = script.cmd /\ script'.tok = script.tok
  BY <1>1, Running DEF ScriptPath, ScriptKnows, At, Beginning, Cleaning, Retiring, Transactional
<1>3. FsInv' /\ \A u \in Tokens : Final(u) => Final(u)'
  BY <1>1, <1>2, Running, SameFs
<1>4. ScriptPath' /\ ScriptKnows'
  BY <1>1, <1>2, <1>3 DEF ScriptPath, ScriptKnows, At, Beginning, Cleaning, Retiring, Transactional
<1>5. QED BY <1>1, <1>2, <1>3, <1>4, GoOn DEF Items

LEMMA RestoreClearStep ==
    ASSUME IInv, NEW i \in Items, RestoreClear(i)
    PROVE  IInv'
<1>1. /\ script.step = "restore" /\ WriteItem(i, Partial)
      /\ script' = [script EXCEPT !.step = "restore"] /\ UNCHANGED <<inbox, host, reply, owed>>
  BY DEF RestoreClear, At, Goto
<1>2. script.tok \in Tokens /\ script.cmd \in {"commit", "rollback", "recover"}
      /\ script'.step = "restore" /\ script'.cmd = script.cmd /\ script'.tok = script.tok
  BY <1>1, Running DEF ScriptPath, ScriptKnows, At, Beginning, Cleaning, Retiring, Transactional
<1>3. Partial \in ItemValues
  BY DEF Partial, ItemValues
<1>4. FsInv' /\ \A u \in Tokens : Final(u) => Final(u)'
  BY <1>1, <1>3, Running, WriteItemFs
<1>5. ScriptPath' /\ ScriptKnows'
  BY <1>1, <1>2 DEF ScriptPath, ScriptKnows, At, Beginning, Cleaning, Retiring, Transactional
<1>6. QED BY <1>1, <1>2, <1>4, <1>5, GoOn DEF Items

LEMMA RestoreCopyStep ==
    ASSUME IInv, NEW i \in Items, RestoreCopy(i)
    PROVE  IInv'
<1>1. /\ script.step = "restore" /\ data[script.tok] # Gone /\ WriteItem(i, data[script.tok][i])
      /\ script' = [script EXCEPT !.todo = @ \ {i}] /\ UNCHANGED <<inbox, host, reply, owed>>
  BY DEF RestoreCopy, At
<1>2. /\ script.tok \in Tokens /\ script.cmd \in {"commit", "rollback", "recover"}
      /\ script \in Script /\ script # NoScript /\ FsInv /\ ScriptPath
  BY <1>1, Running DEF ScriptPath, ScriptKnows, At, Beginning, Cleaning, Retiring, Transactional
<1>3. /\ script'.step = "restore" /\ script'.cmd = script.cmd /\ script'.tok = script.tok
      /\ script'.own = script.own /\ script'.cfg = script.cfg
      /\ script' \in Script /\ script' # NoScript
  BY <1>1, <1>2 DEF Script, NoScript
<1>4. data[script.tok][i] \in ItemValues
  BY <1>1, <1>2 DEF FsInv, FsType, Backups
<1>5. FsInv' /\ \A u \in Tokens : Final(u) => Final(u)'
  BY <1>1, <1>2, <1>4, WriteItemFs
<1>6. ScriptPath' /\ ScriptKnows'
  BY <1>2, <1>3 DEF ScriptPath, ScriptKnows, At, Beginning, Cleaning, Retiring, Transactional
<1>7. Control'
  <2>1. CtlType'
    BY <1>1, <1>3 DEF IInv, Control, CtlType, host
  <2>2. Paths'
    BY <1>1, <1>6 DEF IInv, Control, Paths, host
  <2>3. Mine'
    BY <1>1, <1>2, <1>3 DEF IInv, Control, Mine, host
  <2>4. Alone'
    BY <1>1, <1>2, <1>3 DEF IInv, Control, Alone, host
  <2>5. Begins'
    BY <1>1, <1>3 DEF IInv, Control, Begins, host
  <2>6. QED BY <2>1, <2>2, <2>3, <2>4, <2>5 DEF Control
<1>8. Backed' /\ Finals'
  BY <1>1, <1>2, <1>5, ScriptRelies DEF host, Items
<1>9. QED BY <1>5, <1>6, <1>7, <1>8 DEF IInv

(* retire_transaction *)

LEMMA RetireSyncItemsStep ==
    ASSUME IInv, RetireSyncItems
    PROVE  IInv'
<1>1. /\ script.step = "syncItems" /\ SyncAll
      /\ script' = [script EXCEPT !.step = "removePhase"] /\ UNCHANGED <<inbox, host, reply, owed>>
  BY DEF RetireSyncItems, At, Goto
<1>2. script.tok \in Tokens /\ script.cmd \in {"commit", "rollback", "recover"}
      /\ script'.step = "removePhase" /\ script'.cmd = script.cmd /\ script'.tok = script.tok
  BY <1>1, Running DEF ScriptPath, ScriptKnows, At, Beginning, Cleaning, Retiring, Transactional
<1>3. FsInv' /\ \A u \in Tokens : Final(u) => Final(u)'
  BY <1>1, <1>2, Running, SyncAllFs
<1>4. ScriptPath' /\ ScriptKnows'
  BY <1>1, <1>2, <1>3 DEF ScriptPath, ScriptKnows, At, Beginning, Cleaning, Retiring, Transactional
<1>5. QED BY <1>1, <1>2, <1>3, <1>4, GoOn DEF Items

LEMMA RetireRemovePhaseStep ==
    ASSUME IInv, RetireRemovePhase
    PROVE  IInv'
<1>1. /\ script.step = "removePhase" /\ WritePhase(script.tok, "absent")
      /\ script' = [script EXCEPT !.step = "syncEntry"] /\ UNCHANGED <<inbox, host, reply>>
      /\ owed' \subseteq owed \cup {"marker", "boot"} /\ ("late" \in owed' <=> "late" \in owed)
  BY DEF RetireRemovePhase, At
<1>2. script.tok \in Tokens /\ script.cmd \in {"commit", "rollback", "recover"}
      /\ script'.step = "syncEntry" /\ script'.cmd = script.cmd /\ script'.tok = script.tok
  BY <1>1, Running DEF ScriptPath, ScriptKnows, At, Beginning, Cleaning, Retiring, Transactional
<1>3. FsInv' /\ phase'[script.tok] = "absent" /\ \A u \in Tokens : Final(u) => Final(u)'
  BY <1>1, <1>2, Running, WritePhaseFs
<1>4. ScriptPath' /\ ScriptKnows'
  BY <1>2, <1>3 DEF ScriptPath, ScriptKnows, At, Beginning, Cleaning, Retiring, Transactional
<1>5. QED BY <1>1, <1>2, <1>3, <1>4, GoOn DEF Items

LEMMA RetireSyncEntryStep ==
    ASSUME IInv, RetireSyncEntry
    PROVE  IInv'
<1>1. /\ script.step = "syncEntry" /\ SyncMeta
      /\ script' = [script EXCEPT !.step = "removeData"] /\ UNCHANGED <<inbox, host, reply, owed>>
  BY DEF RetireSyncEntry, At, Goto
<1>2. script.tok \in Tokens /\ script.cmd \in {"commit", "rollback", "recover"} /\ phase[script.tok] = "absent"
      /\ script'.step = "removeData" /\ script'.cmd = script.cmd /\ script'.tok = script.tok
  BY <1>1, Running DEF ScriptPath, ScriptKnows, At, Beginning, Cleaning, Retiring, Transactional
<1>3. FsInv' /\ phaseDisk'[script.tok] = {"absent"} /\ \A u \in Tokens : Final(u) => Final(u)'
  BY <1>1, <1>2, Running, SyncMetaFs
<1>4. ScriptPath' /\ ScriptKnows'
  BY <1>1, <1>2, <1>3 DEF ScriptPath, ScriptKnows, At, Beginning, Cleaning, Retiring, Transactional
<1>5. QED BY <1>1, <1>2, <1>3, <1>4, GoOn DEF Items

LEMMA RetireRemoveDataStep ==
    ASSUME IInv, RetireRemoveData
    PROVE  IInv'
<1>1. /\ script.step = "removeData" /\ WriteData(script.tok, Gone)
      /\ script' = [script EXCEPT !.step = "removeEntry"] /\ UNCHANGED <<inbox, host, reply, owed>>
  BY DEF RetireRemoveData, At, Goto
<1>2. script.tok \in Tokens /\ script.cmd \in {"commit", "rollback", "recover"} /\ "ready" \notin phaseDisk[script.tok]
      /\ Gone \in Backups
      /\ script'.step = "removeEntry" /\ script'.cmd = script.cmd /\ script'.tok = script.tok
  BY <1>1, Running DEF Backups, ScriptPath, ScriptKnows, At, Beginning, Cleaning, Retiring, Transactional
<1>3. FsInv' /\ \A u \in Tokens : Final(u) => Final(u)'
  BY <1>1, <1>2, Running, WriteDataFs
<1>4. ScriptPath' /\ ScriptKnows'
  BY <1>1, <1>2, <1>3 DEF ScriptPath, ScriptKnows, At, Beginning, Cleaning, Retiring, Transactional
<1>5. QED BY <1>1, <1>2, <1>3, <1>4, GoOn DEF Items

LEMMA RetireRemoveEntryStep ==
    ASSUME IInv, RetireRemoveEntry
    PROVE  IInv'
<1>1. /\ script.step = "removeEntry" /\ RemoveEntry(script.tok)
      /\ script' = [script EXCEPT !.step = "syncRoot"] /\ UNCHANGED <<inbox, host, reply, owed>>
  BY DEF RetireRemoveEntry, At, Goto
<1>2. script.tok \in Tokens /\ script.cmd \in {"commit", "rollback", "recover"}
      /\ script'.step = "syncRoot" /\ script'.cmd = script.cmd /\ script'.tok = script.tok
  BY <1>1, Running DEF ScriptPath, ScriptKnows, At, Beginning, Cleaning, Retiring, Transactional
<1>3. FsInv' /\ script.tok \notin root' /\ \A u \in Tokens : Final(u) => Final(u)'
  BY <1>1, <1>2, Running, RemoveEntryFs
<1>4. ScriptPath' /\ ScriptKnows'
  BY <1>1, <1>2, <1>3 DEF ScriptPath, ScriptKnows, At, Beginning, Cleaning, Retiring, Transactional
<1>5. QED BY <1>1, <1>2, <1>3, <1>4, GoOn DEF Items

(* The transaction is over: no disk has its backup any more.                *)
LEMMA RetireSyncRootStep ==
    ASSUME IInv, RetireSyncRoot
    PROVE  IInv'
<1>1. script.step = "syncRoot" /\ SyncMeta /\ owed' = owed
      /\ Exit(IF script.cmd = "recover" THEN "reported" ELSE "silent")
  BY DEF RetireSyncRoot, At
<1>2. /\ script # NoScript /\ script.tok \in Tokens /\ script.tok \notin root /\ FsInv
      /\ script.cmd \in {"commit", "rollback", "recover"}
  BY <1>1, Running DEF ScriptPath, ScriptKnows, At, Beginning, Cleaning, Retiring, Transactional
<1>3. PICK t \in Tokens : t = script.tok
  BY <1>2
<1>4. FsInv' /\ Final(t)' /\ \A u \in Tokens : Final(u) => Final(u)'
  <2>1. FsInv' /\ rootDisk' = {root} /\ \A u \in Tokens : Final(u) => Final(u)'
    BY <1>1, <1>2, SyncMetaFs
  <2>2. QED BY <1>2, <1>3, <2>1 DEF Final
<1>5. CASE ~script.own \/ script.cmd # "commit"
  BY <1>1, <1>2, <1>4, <1>5, GoEnd DEF Items
<1>6. CASE script.own /\ script.cmd = "commit"
  <2>1. Control' /\ script' = NoScript /\ op' = op
    BY <1>1, <1>2, ExitControl DEF IInv, Exit, host
  <2>2. op.at = "commit" /\ op.tok = script.tok
    BY <1>2, <1>6 DEF IInv, Control, Mine
  <2>3. Backed'
    BY <2>1, <2>2 DEF Backed, Items
  <2>4. Finals'
    BY <1>3, <1>4, <2>1, <2>2 DEF Finals
  <2>5. QED BY <1>4, <2>1, <2>3, <2>4, EndKnows DEF IInv
<1>7. QED BY <1>5, <1>6

(* DEPLOYMENT_RECOVERY_SCRIPT and the settlement of its record *)
LEMMA RecoverInspectStep ==
    ASSUME IInv, RecoverInspect
    PROVE  IInv'
<1>1. PICK t \in root : script' = [script EXCEPT !.step = "remember", !.tok = t]
  BY DEF RecoverInspect
<1>2. script.step = "enter" /\ script.cmd = "recover" /\ UNCHANGED <<fs, inbox, host, reply, owed>>
  BY DEF RecoverInspect, Enter, At
<1>3. script \in Script /\ script # NoScript /\ FsInv /\ t \in Tokens
  BY <1>2, Running DEF FsInv, FsType
<1>4. /\ script'.step = "remember" /\ script'.cmd = "recover" /\ script'.tok = t
      /\ script'.own = script.own /\ script'.cfg = script.cfg
      /\ script' \in Script /\ script' # NoScript
  BY <1>1, <1>2, <1>3 DEF Script, NoScript
<1>5. FsInv' /\ \A u \in Tokens : Final(u) => Final(u)'
  BY <1>2, <1>3, SameFs
<1>6. ScriptPath' /\ ScriptKnows'
  BY <1>3, <1>4 DEF ScriptPath, ScriptKnows, At, Beginning, Cleaning, Retiring, Transactional
<1>7. Control'
  <2>1. CtlType'
    BY <1>2, <1>4 DEF IInv, Control, CtlType, host
  <2>2. Paths'
    BY <1>2, <1>6 DEF IInv, Control, Paths, host
  <2>3. Mine'
    BY <1>2, <1>3, <1>4 DEF IInv, Control, Mine, host
  <2>4. Alone'
    BY <1>2, <1>3, <1>4 DEF IInv, Control, Alone, host
  <2>5. Begins'
    BY <1>2, <1>4 DEF IInv, Control, Begins, host
  <2>6. QED BY <2>1, <2>2, <2>3, <2>4, <2>5 DEF Control
<1>8. Backed' /\ Finals'
  BY <1>2, <1>3, <1>5, ScriptRelies DEF host, Items
<1>9. QED BY <1>5, <1>6, <1>7, <1>8 DEF IInv

LEMMA RecoverRememberStep ==
    ASSUME IInv, RecoverRemember
    PROVE  IInv'
<1>1. /\ script.step = "remember" /\ WriteRecord(TRUE)
      /\ script' = [script EXCEPT !.step = "rememberSync"] /\ UNCHANGED <<inbox, host, reply, owed>>
  BY DEF RecoverRemember, At, Goto
<1>2. script.tok \in Tokens /\ script.cmd = "recover"
      /\ script'.step = "rememberSync" /\ script'.cmd = script.cmd /\ script'.tok = script.tok
  BY <1>1, Running DEF ScriptPath, ScriptKnows, At, Beginning, Cleaning, Retiring, Transactional
<1>3. FsInv' /\ \A u \in Tokens : Final(u) => Final(u)'
  BY <1>1, <1>2, Running, WriteRecordFs
<1>4. ScriptPath' /\ ScriptKnows'
  BY <1>1, <1>2, <1>3 DEF ScriptPath, ScriptKnows, At, Beginning, Cleaning, Retiring, Transactional
<1>5. QED BY <1>1, <1>2, <1>3, <1>4, GoOn DEF Items

LEMMA RecoverRememberSyncStep ==
    ASSUME IInv, RecoverRememberSync
    PROVE  IInv'
<1> DEFINE s == IF phase[script.tok] = "ready" THEN "restore" ELSE "removeData"
<1>1. /\ script.step = "rememberSync" /\ SyncMeta
      /\ script' = [script EXCEPT !.step = s] /\ UNCHANGED <<inbox, host, reply, owed>>
  BY DEF RecoverRememberSync, At, Goto
<1>2. script.tok \in Tokens /\ script.cmd = "recover"
      /\ script'.step = s /\ script'.cmd = script.cmd /\ script'.tok = script.tok
  BY <1>1, Running DEF ScriptPath, ScriptKnows, At, Beginning, Cleaning, Retiring, Transactional
<1>3. FsInv' /\ phaseDisk'[script.tok] \in {{phase[script.tok]}, {"absent"}}
      /\ \A u \in Tokens : Final(u) => Final(u)'
  BY <1>1, <1>2, Running, SyncMetaFs
<1>4. ScriptPath' /\ ScriptKnows'
  BY <1>1, <1>2, <1>3 DEF ScriptPath, ScriptKnows, At, Beginning, Cleaning, Retiring, Transactional
<1>5. QED BY <1>1, <1>2, <1>3, <1>4, GoOn DEF Items

LEMMA SettleRemoveStep ==
    ASSUME IInv, SettleRemove
    PROVE  IInv'
<1>1. /\ script.step = "enter" /\ WriteRecord(FALSE) /\ script.cmd = "settle"
      /\ script' = [script EXCEPT !.step = "syncRecord"] /\ UNCHANGED <<inbox, host, reply, owed>>
  BY DEF SettleRemove, At, Goto, Enter
<1>2. script.cmd = "settle"
      /\ script'.step = "syncRecord" /\ script'.cmd = script.cmd /\ script'.tok = script.tok
  BY <1>1, Running DEF ScriptPath, ScriptKnows, At, Beginning, Cleaning, Retiring, Transactional
<1>3. FsInv' /\ \A u \in Tokens : Final(u) => Final(u)'
  BY <1>1, <1>2, Running, WriteRecordFs
<1>4. ScriptPath' /\ ScriptKnows'
  BY <1>1, <1>2, <1>3 DEF ScriptPath, ScriptKnows, At, Beginning, Cleaning, Retiring, Transactional
<1>5. QED BY <1>1, <1>2, <1>3, <1>4, GoOn DEF Items

LEMMA SettleSyncStep ==
    ASSUME IInv, SettleSync
    PROVE  IInv'
<1>1. script.step = "syncRecord" /\ SyncMeta /\ Exit("silent") /\ owed' = owed
  BY DEF SettleSync, At
<1>2. script.cmd = "settle"
  BY <1>1, Running DEF ScriptPath, At
<1>3. FsInv' /\ \A u \in Tokens : Final(u) => Final(u)'
  BY <1>1, Running, SyncMetaFs
<1>4. QED BY <1>1, <1>2, <1>3, GoEnd DEF Items

(* A command that waits takes the lock.                                     *)
LEMMA BeginStep ==
    ASSUME IInv, NEW c \in inbox, Begin(c)
    PROVE  IInv'
<1>1. /\ script = NoScript /\ inbox' = inbox \ {c} /\ UNCHANGED <<fs, host, reply, owed>>
      /\ script' = [step |-> "enter", cmd |-> c.cmd, tok |-> c.tok, cfg |-> c.cfg,
                    own |-> c.own, todo |-> Items]
  BY DEF Begin
<1>2. c \in Command
  BY DEF IInv, Control, CtlType
<1>3. /\ script' \in Script /\ script' # NoScript /\ script'.step = "enter" /\ script'.cmd = c.cmd
      /\ script'.tok = c.tok /\ script'.own = c.own /\ script'.cfg = c.cfg /\ c.cmd \in Commands
  BY <1>1, <1>2 DEF Script, Command, NoScript
<1>4. FsInv' /\ \A t \in Tokens : (BackedUp(t) => BackedUp(t)') /\ (Final(t) => Final(t)')
  BY <1>1, SameFs DEF IInv
<1>5. ScriptPath' /\ ScriptKnows'
  BY <1>3 DEF ScriptPath, ScriptKnows, At, Beginning, Cleaning, Retiring, Transactional, IInv, Control, Paths
<1>6. Control'
  <2>1. CtlType'
    BY <1>1, <1>3 DEF IInv, Control, CtlType, host
  <2>2. Paths'
    BY <1>1, <1>5 DEF IInv, Control, Paths, host
  <2>3. Mine'
    <3>1. c.own => \A d \in inbox \ {c} : ~d.own
      <4> SUFFICES ASSUME c.own, NEW d \in inbox, d.own PROVE d = c
        OBVIOUS
      <4>1. d \in Command /\ d.cmd = c.cmd /\ d.tok = c.tok /\ d.cfg = c.cfg
        BY DEF IInv, Control, Mine, CtlType
      <4>2. c.own = TRUE /\ d.own = TRUE
        BY <1>2, <4>1 DEF Command
      <4>3. QED BY <1>2, <4>1, <4>2 DEF Command
    <3>2. QED BY <1>1, <1>3, <3>1 DEF IInv, Control, Mine, host
  <2>4. Alone'
    BY <1>1, <1>3 DEF IInv, Control, Alone, host
  <2>5. Begins'
    BY <1>1, <1>3 DEF IInv, Control, Begins, host
  <2>6. QED BY <2>1, <2>2, <2>3, <2>4, <2>5 DEF Control
<1>7. op' = op /\ Told' = Told /\ owed' = owed
  BY <1>1 DEF Told, host
<1>8. Backed'
  BY <1>4, <1>7 DEF IInv, Backed, Control, Paths, Transactional
<1>9. Finals'
  BY <1>4, <1>7 DEF IInv, Finals, Control, Paths, Transactional
<1>10. QED BY <1>4, <1>5, <1>6, <1>8, <1>9 DEF IInv

-----------------------------------------------------------------------------
(* The host.                                                                *)

(* An operation whose call is over goes on, or ends.                        *)
LEMMA HostMoves ==
    ASSUME IInv, op # NoOp, NEW o \in Op \cup {NoOp}, op' = o, ~o.called,
           UNCHANGED <<fs, up, script, want>>, inbox' \subseteq inbox,
           \A c \in inbox' : ~c.own, ~script.own,
           reply' \in {"none", "silent", "reported", "failed"},
           marker' \in Configs \cup {None},
           owed' \subseteq owed, "late" \in owed' <=> "late" \in owed,
           o.at \in Transactional \cup Items \cup {"ready", "mark", "settle"} => o.tok \in Tokens,
           o.at \in {"recover", "stop", "idle"} \/ op.at \notin {"recover", "stop"} \/ Told,
           o.tok \in {None, op.tok} \/ Fresh(o.tok),
           o.at \in Items \cup {"ready"} => /\ o.tok = op.tok
                                            /\ \/ op.at \in Items \cup {"ready"}
                                               \/ op.at = "begin" /\ Told,
           o.at \in {"mark", "settle"} => /\ o.tok = op.tok
                                          /\ \/ op.at \in {"mark", "settle"}
                                             \/ op.at = "commit" /\ Told
    PROVE  IInv'
<1>1. FsInv' /\ \A t \in Tokens : (BackedUp(t) => BackedUp(t)') /\ (Final(t) => Final(t)')
  BY SameFs DEF IInv
<1>2. ScriptKnows'
  BY DEF IInv, ScriptKnows, At, fs
<1>3. CtlType'
  BY DEF IInv, Control, CtlType
<1>4. Paths'
  BY DEF IInv, Control, Paths, ScriptPath, At
<1>5. Mine'
  BY DEF IInv, Control, Mine
<1>6. Alone'
  <2> SUFFICES ASSUME o # NoOp, "late" \notin owed
               PROVE  /\ \A c \in inbox' : c.own
                      /\ o.at \notin {"recover", "stop"} => script = NoScript
    BY DEF Alone
  <2>1. \A c \in inbox : c.own
    BY DEF IInv, Control, Alone
  <2>2. o.at = "idle" => o = NoOp
    BY DEF Op, Stages, Commands
  <2>3. o.at \notin {"recover", "stop"} => script = NoScript \/ script.own
    BY <2>2 DEF IInv, Control, Alone, Told
  <2>4. QED BY <2>1, <2>3
<1>7. Begins'
  <2>1. \A c \in inbox : c.cmd = "begin" => c.tok # None /\ (c.tok = op.tok => c.own)
    BY ConstantsAssumption DEF IInv, Control, Begins, Paths, Transactional
  <2>2. script.cmd = "begin" => script.tok # None /\ (script.tok = op.tok => script.own)
    BY ConstantsAssumption DEF IInv, Control, Begins, Paths, ScriptPath, Transactional
  <2>3. QED BY <2>1, <2>2 DEF Begins, Fresh
<1>8. Backed'
  BY <1>1 DEF IInv, Backed, Told
<1>9. Finals'
  BY <1>1 DEF IInv, Finals, Told
<1>10. QED BY <1>1, <1>2, <1>3, <1>4, <1>5, <1>6, <1>7, <1>8, <1>9 DEF IInv, Control

(* What an operation may become.                                            *)
LEMMA OpShape ==
    ASSUME CtlType, op # NoOp
    PROVE  /\ op \in Op /\ NoOp.at = "idle" /\ ~NoOp.called /\ NoOp.tok = None
           /\ \A a \in Stages : LET o == [op EXCEPT !.at = a, !.called = FALSE] IN
                 o \in Op /\ o.at = a /\ o.tok = op.tok /\ ~o.called
<1>1. op \in Op /\ NoOp.at = "idle" /\ ~NoOp.called /\ NoOp.tok = None
  BY DEF CtlType, NoOp
<1>2. \A a \in Stages : LET o == [op EXCEPT !.at = a, !.called = FALSE] IN
         o \in Op /\ o.at = a /\ o.tok = op.tok /\ ~o.called
  BY <1>1 DEF Op
<1>3. QED BY <1>1, <1>2

(* Failing, it ends, stops its VM or recovers under another kind.           *)
LEMMA FailShape ==
    ASSUME CtlType, op # NoOp, Fail \/ Succeed \/ Done \/ \E k \in Kinds : RecoverAs(k)
    PROVE  /\ op' \in Op \cup {NoOp} /\ ~op'.called /\ op'.at \in {"recover", "stop", "idle"}
           /\ op'.tok \in {None, op.tok}
<1>1. "stop" \in Stages /\ "refresh" \in Kinds
  BY DEF Stages, Kinds
<1>2. Done \/ Move("stop") \/ \E k \in Kinds : RecoverAs(k)
  BY <1>1 DEF Fail, Succeed
<1>3. op \in Op /\ NoOp.at = "idle" /\ ~NoOp.called /\ NoOp.tok = None
  BY OpShape
<1>4. CASE Done
  BY <1>3, <1>4 DEF Done
<1>5. CASE Move("stop")
  BY <1>1, <1>3, <1>5 DEF Move, Op
<1>6. CASE \E k \in Kinds : RecoverAs(k)
  <2>1. PICK k \in Kinds : RecoverAs(k)
    BY <1>6
  <2>2. QED BY <1>3, <2>1 DEF RecoverAs, Op, Stages, Commands
<1>7. QED BY <1>2, <1>4, <1>5, <1>6

(* No command of its own is left once a call is answered.                   *)
LEMMA AnsweredShape ==
    ASSUME IInv, Answered
    PROVE  op # NoOp /\ CtlType /\ Told /\ ~script.own /\ \A c \in inbox : ~c.own
<1>1. op # NoOp
  BY DEF Answered, NoOp
<1>2. QED BY <1>1 DEF Answered, IInv, Control, Mine, Told

LEMMA RecoverOkStep ==
    ASSUME IInv, RecoverOk
    PROVE  IInv'
<1>1. /\ op.at = "recover" /\ Answered /\ reply' = "none"
      /\ UNCHANGED <<fs, up, script, inbox, marker, want, owed>>
  BY DEF RecoverOk, guestSide
<1>2. op # NoOp /\ CtlType /\ Told /\ ~script.own /\ \A c \in inbox : ~c.own
  BY <1>1, AnsweredShape
<1>3. op \in Op /\ marker \in Configs \cup {None}
  BY <1>2, OpShape DEF CtlType
<1>4. CASE Fail \/ Done \/ \E k \in Kinds : RecoverAs(k)
  <2>1. /\ op' \in Op \cup {NoOp} /\ ~op'.called /\ op'.at \in {"recover", "stop", "idle"}
        /\ op'.tok \in {None, op.tok}
    BY <1>2, <1>4, FailShape
  <2>2. PICK o \in Op \cup {NoOp} : op' = o
    BY <2>1
  <2>3. QED BY <1>1, <1>2, <1>3, <2>1, <2>2, HostMoves DEF Transactional, Items
<1>5. ASSUME NEW t \in Tokens, Fresh(t),
             op' = [op EXCEPT !.at = "begin", !.tok = t, !.called = FALSE,
                              !.reapply = @ \/ recovered]
      PROVE  IInv'
  <2>1. op' \in Op /\ op'.at = "begin" /\ op'.tok = t /\ ~op'.called
    BY <1>3, <1>5 DEF Op, Stages, Commands, recovered
  <2>2. PICK o \in Op \cup {NoOp} : op' = o
    BY <2>1
  <2>3. QED BY <1>1, <1>2, <1>3, <1>5, <2>1, <2>2, HostMoves DEF Items
<1>6. \/ Fail \/ Done \/ \E k \in Kinds : RecoverAs(k)
      \/ \E t \in Tokens : /\ Fresh(t)
                           /\ op' = [op EXCEPT !.at = "begin", !.tok = t, !.called = FALSE,
                                               !.reapply = @ \/ recovered]
  BY DEF RecoverOk, Kinds
<1>7. QED BY <1>4, <1>5, <1>6

(* The stage that follows a call that succeeded, on the same transaction.   *)
LEMMA NextStages ==
    ASSUME IInv, BeginOk \/ ConfigureOk \/ CommitOk \/ RollbackOk \/ SettleOk
    PROVE  IInv'
<1>1. /\ Answered /\ reply' = "none" /\ UNCHANGED <<fs, up, script, inbox, marker, want, owed>>
  BY DEF BeginOk, ConfigureOk, CommitOk, RollbackOk, SettleOk, guestSide
<1>2. op # NoOp /\ CtlType /\ Told /\ ~script.own /\ \A c \in inbox : ~c.own
  BY <1>1, AnsweredShape
<1>3. marker \in Configs \cup {None} /\ op \in Op
  BY <1>2, OpShape DEF CtlType
<1>4. CASE Fail \/ Succeed \/ Done
  <2>1. /\ op' \in Op \cup {NoOp} /\ ~op'.called /\ op'.at \in {"recover", "stop", "idle"}
        /\ op'.tok \in {None, op.tok}
    BY <1>2, <1>4, FailShape
  <2>2. PICK o \in Op \cup {NoOp} : op' = o
    BY <2>1
  <2>3. QED BY <1>1, <1>2, <1>3, <2>1, <2>2, HostMoves DEF Transactional, Items
<1>5. ASSUME NEW a \in {"containerd", "docker", "ready", "mark", "settle"}, Move(a),
             a \in {"mark", "settle"} => op.at = "commit",
             a \notin {"mark", "settle"} => op.at \in {"begin", "containerd", "docker"}
      PROVE  IInv'
  <2>1. op' = [op EXCEPT !.at = a, !.called = FALSE] /\ a \in Stages
    BY <1>5 DEF Move, Stages, Commands
  <2>2. op' \in Op /\ op'.at = a /\ op'.tok = op.tok /\ ~op'.called
    BY <1>3, <2>1 DEF Op
  <2>3. op.tok \in Tokens
    BY <1>5 DEF IInv, Control, Paths, Transactional, Items
  <2>4. PICK o \in Op \cup {NoOp} : op' = o
    BY <2>2
  <2>5. QED BY <1>1, <1>2, <1>3, <1>5, <2>2, <2>3, <2>4, HostMoves DEF Items
<1>6. CASE BeginOk
  BY <1>5, <1>6 DEF BeginOk
<1>7. CASE ConfigureOk
  BY <1>5, <1>7 DEF ConfigureOk, Items
<1>8. CASE CommitOk
  BY <1>4, <1>5, <1>8 DEF CommitOk
<1>9. QED BY <1>4, <1>6, <1>7, <1>8 DEF RollbackOk, SettleOk

(* The stages without a call.                                               *)
LEMMA UncalledStages ==
    ASSUME IInv, Ready \/ Mark
    PROVE  IInv'
<1>1. /\ op.at \in {"ready", "mark"} /\ UNCHANGED <<fs, up, script, inbox, want>>
  BY DEF Ready, Mark, guestSide
<1>2. op # NoOp /\ CtlType /\ op \in Op /\ op.tok \in Tokens
  <2>1. op # NoOp
    BY <1>1 DEF NoOp
  <2>2. CtlType /\ op.tok \in Tokens
    BY <1>1 DEF IInv, Control, Paths
  <2>3. QED BY <2>1, <2>2, OpShape
<1>3. ~op.called
  BY <1>1 DEF IInv, Control, Paths, Commands
<1>4. ~script.own /\ \A c \in inbox : ~c.own
  BY <1>3 DEF IInv, Control, Mine
<1>5. ASSUME NEW a \in {"commit", "rollback", "settle"}, Move(a), a = "settle" => op.at = "mark",
             reply' \in {"none", reply}, marker' \in {marker, op.cfg}, owed' \subseteq owed,
             "late" \in owed' <=> "late" \in owed
      PROVE  IInv'
  <2>1. op' = [op EXCEPT !.at = a, !.called = FALSE] /\ a \in Stages
    BY <1>5 DEF Move, Stages, Commands
  <2>2. op' \in Op /\ op'.at = a /\ op'.tok = op.tok /\ ~op'.called
    BY <1>2, <2>1 DEF Op
  <2>3. PICK o \in Op \cup {NoOp} : op' = o
    BY <2>2
  <2>4. marker' \in Configs \cup {None} /\ reply' \in {"none", "silent", "reported", "failed"}
    BY <1>2, <1>5 DEF CtlType, Op
  <2>5. QED BY <1>1, <1>2, <1>4, <1>5, <2>2, <2>3, <2>4, HostMoves DEF Items
<1>6. CASE Ready
  BY <1>5, <1>6 DEF Ready
<1>7. CASE Mark
  <2>1. reply' = reply /\ marker' \in {marker, op.cfg} /\ owed' \subseteq owed
        /\ ("late" \in owed' <=> "late" \in owed) /\ op.at = "mark"
    BY <1>7 DEF Mark
  <2>2. CASE Fail \/ Succeed \/ Done
    <3>1. /\ op' \in Op \cup {NoOp} /\ ~op'.called /\ op'.at \in {"recover", "stop", "idle"}
          /\ op'.tok \in {None, op.tok}
      BY <1>2, <2>2, FailShape
    <3>2. PICK o \in Op \cup {NoOp} : op' = o
      BY <3>1
    <3>3. marker' \in Configs \cup {None} /\ reply' \in {"none", "silent", "reported", "failed"}
      BY <1>2, <2>1 DEF CtlType, Op
    <3>4. QED BY <1>1, <1>2, <1>4, <2>1, <3>1, <3>2, <3>3, HostMoves DEF Transactional, Items
  <2>3. CASE Move("settle")
    BY <1>5, <2>1, <2>3
  <2>4. QED BY <1>7, <2>2, <2>3 DEF Mark
<1>8. QED BY <1>6, <1>7

LEMMA SettledStep ==
    ASSUME IInv, Settled
    PROVE  IInv'
<1>1. /\ op.called /\ ~script.own /\ inbox' = {c \in inbox : ~c.own} /\ reply' = "none"
      /\ UNCHANGED <<fs, up, script, marker, want, owed>>
  BY DEF Settled, guestSide
<1>2. op # NoOp /\ CtlType /\ op.at \in Commands
  BY <1>1 DEF NoOp, IInv, Control, Paths
<1>3. op \in Op /\ marker \in Configs \cup {None}
  BY <1>2, OpShape DEF CtlType
<1>4. inbox' \subseteq inbox /\ \A c \in inbox' : ~c.own
  BY <1>1
<1>5. CASE op.at \in Items
  <2>1. op' = [op EXCEPT !.at = "rollback", !.called = FALSE]
    BY <1>5 DEF Settled, Move
  <2>2. op' \in Op /\ op'.at = "rollback" /\ op'.tok = op.tok /\ ~op'.called /\ op.tok \in Tokens
    BY <1>3, <1>5, <2>1 DEF Op, Stages, Commands, IInv, Control, Paths
  <2>3. PICK o \in Op \cup {NoOp} : op' = o
    BY <2>2
  <2>4. QED BY <1>1, <1>2, <1>3, <1>4, <1>5, <2>2, <2>3, HostMoves DEF Items
<1>6. CASE op.at \notin Items
  <2>1. Fail \/ Succeed \/ Done \/ \E k \in Kinds : RecoverAs(k)
    BY <1>6 DEF Settled, Kinds
  <2>2. /\ op' \in Op \cup {NoOp} /\ ~op'.called /\ op'.at \in {"recover", "stop", "idle"}
        /\ op'.tok \in {None, op.tok}
    BY <1>2, <2>1, FailShape
  <2>3. PICK o \in Op \cup {NoOp} : op' = o
    BY <2>2
  <2>4. QED BY <1>1, <1>2, <1>3, <1>4, <2>2, <2>3, HostMoves DEF Transactional, Items
<1>7. QED BY <1>5, <1>6

LEMMA CallStep ==
    ASSUME IInv, Call
    PROVE  IInv'
<1> DEFINE c == [cmd |-> op.at, tok |-> op.tok, cfg |-> op.cfg, own |-> TRUE]
<1>1. /\ op.at \in Commands /\ ~op.called /\ up /\ op' = [op EXCEPT !.called = TRUE]
      /\ inbox' = inbox \cup {c} /\ reply' = "none"
      /\ UNCHANGED <<fs, up, script, marker, want, owed>>
  BY DEF Call, guestSide
<1>2. op # NoOp
  BY <1>1 DEF NoOp, Commands
<1>3. op \in Op
  BY <1>2, OpShape DEF IInv, Control
<1>4. op' \in Op /\ op'.at = op.at /\ op'.tok = op.tok /\ op'.cfg = op.cfg /\ op'.called
      /\ op' # NoOp
  BY <1>1, <1>2, <1>3 DEF Op, NoOp, Commands
<1>5. c \in Command /\ c.cmd = op.at /\ c.tok = op.tok /\ c.cfg = op.cfg /\ c.own
  BY <1>1, <1>3 DEF Command, Op
<1> HIDE DEF c
<1>6. ~script.own /\ \A d \in inbox : ~d.own
  BY <1>1 DEF IInv, Control, Mine
<1>7. FsInv' /\ \A t \in Tokens : (BackedUp(t) => BackedUp(t)') /\ (Final(t) => Final(t)')
  BY <1>1, SameFs DEF IInv
<1>8. ScriptKnows'
  BY <1>1 DEF IInv, ScriptKnows, At, fs
<1>9. CtlType'
  BY <1>1, <1>4, <1>5 DEF IInv, Control, CtlType
<1>10. Paths'
  BY <1>1, <1>4, <1>5 DEF IInv, Control, Paths, ScriptPath, At, Transactional
<1>11. Mine'
  BY <1>1, <1>4, <1>5, <1>6 DEF IInv, Control, Mine
<1>12. Alone'
  BY <1>1, <1>2, <1>4, <1>5 DEF IInv, Control, Alone
<1>13. Begins'
  BY <1>1, <1>4, <1>5 DEF IInv, Control, Begins
<1>14. Backed'
  BY <1>1, <1>4, <1>7 DEF IInv, Backed, Told, Control, Paths
<1>15. Finals'
  BY <1>1, <1>4, <1>7 DEF IInv, Finals, Told, Control, Paths
<1>16. QED BY <1>7, <1>8, <1>9, <1>10, <1>11, <1>12, <1>13, <1>14, <1>15 DEF IInv, Control

(* The host dies or gives up: its commands are nobody's.                    *)
LEMMA AbandonedStep ==
    ASSUME IInv, Abandoned
    PROVE  IInv'
<1>1. /\ op' = NoOp /\ reply' = "none" /\ inbox' = {[c EXCEPT !.own = FALSE] : c \in inbox}
      /\ script' = [script EXCEPT !.own = FALSE] /\ UNCHANGED <<fs, up, marker, want, owed>>
  BY DEF Abandoned, Done
<1>2. NoOp.at = "idle" /\ ~NoOp.called /\ NoOp.tok = None
  BY DEF NoOp
<1>3. \A d \in inbox' : /\ d \in Command /\ ~d.own
                        /\ \E c \in inbox : d.cmd = c.cmd /\ d.tok = c.tok
  <2> SUFFICES ASSUME NEW d \in inbox'
               PROVE  d \in Command /\ ~d.own /\ \E c \in inbox : d.cmd = c.cmd /\ d.tok = c.tok
    OBVIOUS
  <2>1. PICK c \in inbox : d = [c EXCEPT !.own = FALSE]
    BY <1>1
  <2>2. c \in Command
    BY DEF IInv, Control, CtlType
  <2>3. QED BY <2>1, <2>2 DEF Command
<1>4. /\ script' \in Script \cup {NoScript} /\ ~script'.own /\ script'.cmd = script.cmd
      /\ script'.tok = script.tok /\ script'.step = script.step
      /\ (script = NoScript => script' = NoScript)
  <2>1. CASE script = NoScript
    BY <1>1, <2>1 DEF NoScript
  <2>2. CASE script \in Script
    <3>1. script.step \in Steps /\ NoScript.step = "none"
      BY <2>2 DEF Script, NoScript
    <3>2. script # NoScript
      BY <3>1
    <3>3. QED BY <1>1, <2>2, <3>2 DEF Script
  <2>3. QED BY <2>1, <2>2 DEF IInv, Control, CtlType
<1>5. FsInv'
  BY <1>1, SameFs DEF IInv
<1>6. ScriptKnows'
  BY <1>1, <1>4 DEF IInv, ScriptKnows, At, fs
<1>7. CtlType'
  BY <1>1, <1>3, <1>4 DEF IInv, Control, CtlType
<1>8. Paths'
  BY <1>1, <1>2, <1>3, <1>4 DEF IInv, Control, Paths, ScriptPath, At, Transactional, Items
<1>9. Mine'
  BY <1>1, <1>3, <1>4 DEF IInv, Control, Mine
<1>10. Alone'
  BY <1>1 DEF Alone
<1>11. Begins'
  BY <1>1, <1>2, <1>3, <1>4, ConstantsAssumption
  DEF IInv, Control, Paths, ScriptPath, Begins, Transactional
<1>12. Backed' /\ Finals'
  BY <1>1, <1>2 DEF Backed, Finals, Items
<1>13. QED BY <1>5, <1>6, <1>7, <1>8, <1>9, <1>10, <1>11, <1>12 DEF IInv, Control

LEMMA EditConfigStep ==
    ASSUME IInv, EditConfig
    PROVE  IInv'
<1>1. want' \in Configs /\ UNCHANGED <<fs, up, script, inbox, op, reply, marker, owed>>
  BY DEF EditConfig, guestSide
<1>2. FsInv' /\ \A t \in Tokens : (BackedUp(t) => BackedUp(t)') /\ (Final(t) => Final(t)')
  BY <1>1, SameFs DEF IInv
<1>3. ScriptKnows'
  BY <1>1 DEF IInv, ScriptKnows, At, fs
<1>4. CtlType' /\ Paths'
  BY <1>1 DEF IInv, Control, CtlType, Paths, ScriptPath, At
<1>5. Mine' /\ Alone' /\ Begins'
  BY <1>1 DEF IInv, Control, Mine, Alone, Begins
<1>6. Backed' /\ Finals'
  BY <1>1, <1>2 DEF IInv, Backed, Finals, Told, Control, Paths, Transactional
<1>7. QED BY <1>2, <1>3, <1>4, <1>5, <1>6 DEF IInv, Control

(* A start: nothing but a script that still holds the lock is left of       *)
(* earlier operations, or the start is marked as overtaking a command.      *)
LEMMA NewOpShape ==
    ASSUME CtlType, NEW k \in Kinds, NEW b \in BOOLEAN
    PROVE  /\ NewOp(k, b) \in Op /\ NewOp(k, b).at = "recover" /\ ~NewOp(k, b).called
           /\ NewOp(k, b).tok = None
<1>1. want \in Configs
  BY DEF CtlType
<1>2. QED BY <1>1 DEF NewOp, Op, Stages, Commands

LEMMA StartControl ==
    ASSUME Control, op = NoOp, NEW o \in Op, op' = o, o.at = "recover", ~o.called, o.tok = None,
           up' \in BOOLEAN, ~up' => ~up,
           owed \subseteq owed', owed' \subseteq {"marker", "boot", "late"},
           "late" \notin owed' => inbox = {},
           UNCHANGED <<script, inbox, reply, marker, want>>
    PROVE  Control' /\ Backed' /\ Finals'
<1>1. NoOp.at = "idle" /\ ~NoOp.called
  BY DEF NoOp
<1>2. CtlType'
  BY DEF Control, CtlType
<1>3. Paths'
  BY DEF Control, Paths, ScriptPath, At, Transactional, Items
<1>4. Mine'
  BY <1>1 DEF Control, Mine
<1>5. Alone'
  BY DEF Alone
<1>6. Begins'
  BY ConstantsAssumption DEF Control, Paths, ScriptPath, Begins, Transactional
<1>7. Backed' /\ Finals'
  BY DEF Backed, Finals, Items
<1>8. QED BY <1>2, <1>3, <1>4, <1>5, <1>6, <1>7 DEF Control

LEMMA StartRunningStep ==
    ASSUME IInv, StartRunning
    PROVE  IInv'
<1>1. /\ op = NoOp /\ up /\ op' = NewOp("running", FALSE)
      /\ owed' = owed \cup (IF inbox = {} THEN {} ELSE {"late"})
      /\ UNCHANGED <<fs, up, script, inbox, reply, marker, want>>
  BY DEF StartRunning, guestSide
<1>2. PICK o \in Op : op' = o /\ o.at = "recover" /\ ~o.called /\ o.tok = None
  BY <1>1, NewOpShape DEF IInv, Control, Kinds
<1>3. /\ up' \in BOOLEAN /\ (~up' => ~up) /\ owed \subseteq owed'
      /\ owed' \subseteq {"marker", "boot", "late"} /\ ("late" \notin owed' => inbox = {})
  BY <1>1 DEF IInv, Control, CtlType
<1>4. Control' /\ Backed' /\ Finals'
  BY <1>1, <1>2, <1>3, StartControl DEF IInv
<1>5. FsInv'
  BY <1>1, SameFs DEF IInv
<1>6. ScriptKnows'
  BY <1>1 DEF IInv, ScriptKnows, At, fs
<1>7. QED BY <1>4, <1>5, <1>6 DEF IInv

(* A boot makes the Docker settings stale and loses no backup.              *)
LEMMA StaleKeeps ==
    ASSUME NEW f \in [Items -> ItemValues]
    PROVE  StaleItems(f) \in [Items -> ItemValues]
<1>1. Stale(f["docker"]) \in ItemValues
  BY DEF Stale, ItemValues, Items
<1>2. StaleItems(f) = [f EXCEPT !["docker"] = Stale(f["docker"])]
  BY DEF StaleItems, Items
<1>3. QED BY <1>1, <1>2

LEMMA BootFs ==
    ASSUME FsInv, Boot
    PROVE  FsInv'
<1> DEFINE st(b) == IF b = Gone THEN Gone ELSE StaleItems(b)
<1>1. /\ runtime' = StaleItems(runtime) /\ runtimeDisk' = StaleDocker(runtimeDisk)
      /\ data' = [t \in Tokens |-> st(data[t])]
      /\ dataDisk' = [t \in Tokens |-> {st(b) : b \in dataDisk[t]}]
      /\ UNCHANGED <<root, rootDisk, phase, phaseDisk, record, recordDisk>>
  BY DEF Boot
<1>2. \A b \in Backups : st(b) \in Backups /\ (st(b) = Gone <=> b = Gone)
  <2> SUFFICES ASSUME NEW b \in Backups PROVE st(b) \in Backups /\ (st(b) = Gone <=> b = Gone)
    OBVIOUS
  <2>1. CASE b = Gone
    BY <2>1
  <2>2. CASE b # Gone
    <3>1. b \in [Items -> ItemValues]
      BY <2>2 DEF Backups
    <3>2. StaleItems(b) \in Backups /\ StaleItems(b) # Gone
      BY <3>1, StaleKeeps, CopyIsData
    <3>3. QED BY <2>2, <3>2
  <2>3. QED BY <2>1, <2>2
<1> HIDE DEF st
<1>3. runtime' \in [Items -> ItemValues]
  BY <1>1, StaleKeeps DEF FsInv, FsType
<1>4. runtimeDisk' \in [Items -> SUBSET ItemValues]
  <2>1. {Stale(v) : v \in runtimeDisk["docker"]} \subseteq ItemValues
    <3>1. \A v \in ItemValues : Stale(v) \in ItemValues
      BY DEF Stale, ItemValues
    <3>2. runtimeDisk["docker"] \subseteq ItemValues
      BY DEF FsInv, FsType, Items
    <3>3. QED BY <3>1, <3>2
  <2>2. runtimeDisk' = [runtimeDisk EXCEPT !["docker"] = {Stale(v) : v \in runtimeDisk["docker"]}]
    BY <1>1 DEF StaleDocker, FsInv, FsType, Items
  <2>3. QED BY <2>1, <2>2 DEF FsInv, FsType
<1>5. data' \in [Tokens -> Backups] /\ dataDisk' \in [Tokens -> SUBSET Backups]
  BY <1>1, <1>2 DEF FsInv, FsType
<1>6. FsType'
  BY <1>1, <1>3, <1>4, <1>5 DEF FsInv, FsType
<1>7. Current' /\ Single'
  BY <1>1 DEF FsInv, Current, Single
<1>8. Complete'
  <2> SUFFICES ASSUME NEW t \in Tokens, "ready" \in phaseDisk[t] PROVE Gone \notin dataDisk'[t]
    BY <1>1 DEF Complete
  <2>1. Gone \notin dataDisk[t] /\ dataDisk[t] \subseteq Backups
    BY DEF FsInv, FsType, Complete
  <2>2. \A b \in dataDisk[t] : st(b) # Gone
    BY <1>2, <2>1
  <2>3. QED BY <1>1, <2>2
<1>9. QED BY <1>6, <1>7, <1>8 DEF FsInv

LEMMA StartColdStep ==
    ASSUME IInv, StartCold
    PROVE  IInv'
<1>1. /\ op = NoOp /\ ~up /\ up' = TRUE /\ owed' = owed \cup {"boot"}
      /\ op' = NewOp(IF marker = want THEN "reconcile" ELSE "refresh", TRUE)
      /\ UNCHANGED <<script, inbox, reply, marker, want>>
  BY DEF StartCold, Boot
<1>2. PICK o \in Op : op' = o /\ o.at = "recover" /\ ~o.called /\ o.tok = None
  BY <1>1, NewOpShape DEF IInv, Control, Kinds
<1>3. inbox = {} /\ script = NoScript
  BY <1>1 DEF IInv, Control, Mine
<1>4. Control' /\ Backed' /\ Finals'
  BY <1>1, <1>2, <1>3, StartControl DEF IInv, Control, CtlType
<1>5. FsInv'
  BY BootFs DEF IInv, StartCold
<1>6. ScriptKnows'
  BY <1>1, <1>3, EndKnows
<1>7. QED BY <1>4, <1>5, <1>6 DEF IInv

(* No operation, and no command of one.                                     *)
LEMMA NothingRuns ==
    ASSUME IInv, op' = NoOp, script' = NoScript, inbox' = {}, up' \in BOOLEAN,
           FsInv', UNCHANGED <<reply, marker, want>>, owed' \subseteq owed \cup {"boot"}
    PROVE  IInv'
<1>1. NoOp.at = "idle" /\ ~NoOp.called /\ NoScript.own = FALSE /\ NoScript.cmd = "none"
      /\ NoScript.step = "none"
  BY DEF NoOp, NoScript
<1>2. CtlType'
  BY DEF IInv, Control, CtlType
<1>3. Paths'
  BY <1>1 DEF Paths, ScriptPath, At, Beginning, Cleaning, Retiring, Transactional, Items
<1>4. Mine' /\ Alone' /\ Begins' /\ Backed' /\ Finals'
  BY <1>1 DEF Mine, Alone, Begins, Backed, Finals, Items
<1>5. QED BY <1>2, <1>3, <1>4, EndKnows DEF IInv, Control

LEMMA BootAgainStep ==
    ASSUME IInv, BootAgain
    PROVE  IInv'
<1>1. /\ op' = NoOp /\ ~up /\ up' = TRUE /\ owed' = owed \cup {"boot"}
      /\ UNCHANGED <<script, inbox, reply, marker, want>>
  BY DEF BootAgain, Boot, Done
<1>2. inbox = {} /\ script = NoScript
  BY <1>1 DEF IInv, Control, Mine
<1>3. FsInv'
  BY BootFs DEF IInv, BootAgain
<1>4. QED BY <1>1, <1>2, <1>3, NothingRuns

(* A shutdown or a crash ends every command.                                *)
LEMMA ShutdownStep ==
    ASSUME IInv, Shutdown
    PROVE  IInv'
<1>1. /\ op' = NoOp \/ (op' = op /\ op.at = "stop")
      /\ SyncAll /\ up' = FALSE /\ script' = NoScript /\ inbox' = {}
      /\ UNCHANGED <<reply, marker, want, owed>>
  BY DEF Shutdown, Done, Restarts
<1>2. FsInv'
  BY <1>1, SyncAllFs DEF IInv
<1>3. CASE op' = NoOp
  BY <1>1, <1>2, <1>3, NothingRuns
<1>4. CASE op' = op /\ op.at = "stop"
  <2>1. NoScript.own = FALSE /\ NoScript.cmd = "none" /\ NoScript.step = "none"
    BY DEF NoScript
  <2>2. CtlType'
    BY <1>1, <1>4 DEF IInv, Control, CtlType
  <2>3. Paths'
    BY <1>1, <1>4, <2>1 DEF IInv, Control, Paths, ScriptPath, At, Beginning, Cleaning, Retiring,
                            Transactional, Items
  <2>4. Mine' /\ Alone' /\ Begins' /\ Backed' /\ Finals'
    BY <1>1, <1>4, <2>1 DEF Mine, Alone, Begins, Backed, Finals, Items
  <2>5. QED BY <1>1, <1>2, <2>2, <2>3, <2>4, EndKnows DEF IInv, Control
<1>5. QED BY <1>1, <1>3, <1>4

LEMMA CrashStep ==
    ASSUME IInv, Crash
    PROVE  IInv'
<1>1. up' = FALSE /\ script' = NoScript /\ inbox' = {} /\ UNCHANGED <<op, reply, marker, want, owed>>
  BY DEF Crash
<1>2. FsInv' /\ \A t \in Tokens : (BackedUp(t) => BackedUp(t)') /\ (Final(t) => Final(t)')
  BY CrashFs DEF IInv
<1>3. NoScript.own = FALSE /\ NoScript.cmd = "none" /\ NoScript.step = "none"
  BY DEF NoScript
<1>4. CtlType'
  BY <1>1 DEF IInv, Control, CtlType
<1>5. Paths'
  BY <1>1, <1>3 DEF IInv, Control, Paths, ScriptPath, At, Beginning, Cleaning, Retiring, Transactional, Items
<1>6. Mine' /\ Alone' /\ Begins'
  BY <1>1, <1>3 DEF IInv, Control, Mine, Alone, Begins
<1>7. Backed' /\ Finals'
  BY <1>1, <1>2 DEF IInv, Backed, Finals, Told, Control, Paths, Transactional
<1>8. QED BY <1>1, <1>2, <1>4, <1>5, <1>6, <1>7, EndKnows DEF IInv, Control

-----------------------------------------------------------------------------
(* IInv is an inductive invariant of the transaction.                       *)
THEOREM Invariant == Spec => []IInv
<1>1. Init => IInv
  <2> SUFFICES ASSUME Init PROVE IInv
    OBVIOUS
  <2>1. Image \in ItemValues /\ Gone \in Backups
    BY DEF Image, ItemValues, Backups
  <2>2. FsInv
    <3>1. FsType /\ Current /\ Complete
      BY <2>1 DEF Init, FsType, Current, Complete, Phases
    <3>2. Single
      BY DEF Init, Single
    <3>3. QED BY <3>1, <3>2 DEF FsInv
  <2>3. NoOp.at = "idle" /\ ~NoOp.called /\ NoScript.own = FALSE /\ NoScript.cmd = "none"
        /\ NoScript.step = "none"
    BY DEF NoOp, NoScript
  <2>4. CtlType
    BY DEF Init, CtlType
  <2>5. Paths /\ ScriptKnows
    BY <2>3 DEF Init, Paths, ScriptPath, ScriptKnows, At, Beginning, Cleaning, Retiring,
                Transactional, Items
  <2>6. Mine /\ Alone /\ Begins /\ Backed /\ Finals
    BY <2>3 DEF Init, Mine, Alone, Begins, Backed, Finals, Items
  <2>7. QED BY <2>2, <2>4, <2>5, <2>6 DEF IInv, Control
<1>2. IInv /\ [Next]_vars => IInv'
  <2> SUFFICES ASSUME IInv, [Next]_vars PROVE IInv'
    OBVIOUS
  <2>1. CASE ScriptStep
    BY <2>1, BeginStep, PlainEnds, BeginMkdirStep, BeginCopyStep, BeginSyncDataStep,
       BeginPublishStep, BeginSyncPublishStep, BeginFailsStep, CleanPhaseStep, CleanSyncStep,
       CleanRemoveStep, ConfigureEnterStep, ConfigureWriteStep, CommitEnterStep,
       RollbackEnterStep, RestoreClearStep, RestoreCopyStep, RestoreDoneStep,
       RetireSyncItemsStep, RetireRemovePhaseStep, RetireSyncEntryStep, RetireRemoveDataStep,
       RetireRemoveEntryStep, RetireSyncRootStep, RecoverInspectStep, RecoverRememberStep,
       RecoverRememberSyncStep, SettleRemoveStep, SettleSyncStep DEF ScriptStep
  <2>2. CASE HostStep
    BY <2>2, StartRunningStep, StartColdStep, BootAgainStep, ShutdownStep, CallStep, RecoverOkStep, NextStages,
       UncalledStages, SettledStep, AbandonedStep, EditConfigStep DEF HostStep
  <2>3. CASE UNCHANGED vars
    <3>1. UNCHANGED fs
      BY <2>3 DEF vars
    <3>2. FsInv' /\ \A t \in Tokens : (BackedUp(t) => BackedUp(t)') /\ (Final(t) => Final(t)')
      BY <3>1, SameFs DEF IInv
    <3>3. ScriptKnows' /\ CtlType' /\ Paths'
      BY <2>3 DEF vars, fs, IInv, Control, ScriptKnows, At, CtlType, Paths, ScriptPath
    <3>4. Mine' /\ Alone' /\ Begins'
      BY <2>3 DEF vars, fs, IInv, Control, Mine, Alone, Begins
    <3>5. Backed' /\ Finals'
      BY <2>3, <3>2 DEF vars, IInv, Backed, Finals, Told, Control, Paths, Transactional
    <3>6. QED BY <3>2, <3>3, <3>4, <3>5 DEF IInv, Control
  <2>4. QED BY <2>1, <2>2, <2>3, CrashStep DEF Next
<1>3. QED BY <1>1, <1>2, PTL DEF Spec

(* The guest's files and everybody's position keep their types.             *)
THEOREM TypeCorrect == Spec => []TypeOK
<1>1. IInv => TypeOK
  BY DEF IInv, FsInv, FsType, Control, CtlType, TypeOK
<1>2. QED BY <1>1, Invariant, PTL

(* A backup that reads ready is complete, whatever a crash left of it.      *)
THEOREM ReadyAlwaysComplete == Spec => []ReadyIsComplete
<1>1. IInv => ReadyIsComplete
  BY DEF IInv, FsInv, FsType, Current, Complete, ReadyIsComplete
<1>2. QED BY <1>1, Invariant, PTL

(* There are never two entries, on any disk a crash may leave.              *)
THEOREM AlwaysAtMostOneBackup == Spec => []AtMostOneBackup
<1>1. ASSUME IInv PROVE AtMostOneBackup
  <2> SUFFICES ASSUME NEW r \in rootDisk PROVE Cardinality(r) <= 1
    BY <1>1 DEF IInv, FsInv, Current, AtMostOneBackup
  <2>1. CASE r = {}
    BY <2>1, FS_EmptySet
  <2>2. CASE r # {}
    <3>1. PICK t : r = {t}
      BY <1>1, <2>2 DEF IInv, FsInv, Single
    <3>2. Cardinality({t}) = 1
      BY FS_Singleton
    <3>3. QED BY <3>1, <3>2
  <2>3. QED BY <2>1, <2>2
<1>2. QED BY <1>1, Invariant, PTL

(* The host configures only while every disk holds the complete backup.     *)
THEOREM AlwaysUnderBackup == Spec => []ChangesUnderBackup
<1>1. IInv => ChangesUnderBackup
  BY DEF IInv, Backed, BackedUp, ChangesUnderBackup
<1>2. QED BY <1>1, Invariant, PTL

(* A commit that the host was told of is never undone by a recovery.        *)
THEOREM CommitAlwaysFinal == Spec => []CommitIsFinal
<1>1. IInv => CommitIsFinal
  BY DEF IInv, Finals, Final, CommitIsFinal
<1>2. QED BY <1>1, Invariant, PTL
-----------------------------------------------------------------------------
(* What the marker vouches for.  The claims of each command and stage hold   *)
(* until a dead host's command comes late.                                   *)

(* Nothing vouches for the runtime: there is no marker, or the one there is *)
(* waits for a commit that was not recorded.                                *)
Excused == marker = None \/ "marker" \in owed
Recorded == recordDisk = {TRUE}
Applied == runtime["containerd"] = <<"applied", TRUE>>

(* What the marker says is on every disk, but for the boot that is owed.    *)
Fits(v) == v = <<marker, TRUE>> \/ ("boot" \in owed /\ ~v[2])
SoundDisk ==
    /\ \A v \in runtimeDisk["containerd"] : v = <<"applied", TRUE>>
    /\ \A v \in runtimeDisk["docker"] : Fits(v)
Sound == Excused \/ SoundDisk
Vouched == Sound \/ Recorded

(* What a rollback may bring back: a stale Docker is owed again then.       *)
Kept(f) ==
    /\ f["containerd"] = <<"applied", TRUE>>
    /\ f["docker"] = <<marker, TRUE>> \/ ~f["docker"][2]
BackupKept(t) == Excused \/ Recorded \/ Kept(data[t])
Entered == {} \notin rootDisk
Durable == \A i \in Items : runtimeDisk[i] = {runtime[i]}

(* What a command relies on when it begins.                                 *)
Due(cmd, t, c) ==
    /\ cmd \in Items \cup {"rollback"} => Entered
    /\ cmd = "rollback" => BackupKept(t)
    /\ cmd = "commit" => Excused \/ c # marker \/ runtime = Configured(marker)
    /\ cmd = "settle" => Sound

Decided == {"syncEntry", "removeData", "removeEntry", "syncRoot"}
ScriptVouches ==
    LET t == script.tok
        cmd == script.cmd IN
    /\ script.step \in {"enter", "write"} => Due(cmd, t, script.cfg)
    /\ At("enter") => script.todo = Items
    /\ At("restore") => cmd # "commit"
    /\ At("syncRecord") => Sound
    /\ script.step \in Beginning \cup Cleaning => Vouched
    /\ script.step \in {"syncData", "publish", "syncPublish"} => BackupKept(t)
    /\ At("rememberSync") => record
    /\ cmd = "recover" /\ script.step \in Retiring => Recorded
    /\ cmd = "commit" /\ script.step \in {"syncItems", "removePhase"} => Due(cmd, t, script.cfg)
    /\ cmd = "rollback" /\ At("restore") =>
          Due(cmd, t, script.cfg) /\ \A i \in Items \ script.todo : runtime[i] = data[t][i]
    /\ cmd = "rollback" /\ script.step \in {"syncItems", "removePhase"} =>
          Excused \/ Recorded \/ Kept(runtime)
    /\ cmd # "recover" /\ script.step \in Decided \cup {"removePhase"} => Durable
    /\ cmd # "recover" /\ script.step \in Decided => Vouched
InboxVouches ==
    \A c \in inbox : /\ inbox = {c} /\ (c.cmd # "recover" => script = NoScript)
                     /\ Due(c.cmd, c.tok, c.cfg)

(* An operation that configures both items.                                 *)
Whole == op.kind = "refresh" \/ op.reapply
(* When it counts on its backup, on what it found, on what it configured.   *)
OnBackup ==
    \/ op.at \in Items \cup {"ready"}
    \/ op.at = "begin" /\ Told
    \/ op.at = "rollback" /\ ~op.called
OnFound ==
    \/ op.at = "recover" /\ Told /\ reply = "silent"
    \/ op.at \in {"begin", "docker", "ready", "commit"} /\ ~Whole
OnContainerd ==
    \/ op.at = "containerd" /\ Told
    \/ op.at \in {"docker", "ready", "commit"} /\ Whole
OnDocker ==
    \/ op.at = "docker" /\ Told
    \/ op.at \in {"ready", "commit"}
OpVouches ==
    /\ OnBackup => BackupKept(op.tok) /\ Entered
    /\ OnFound => Excused \/ Applied
    /\ OnContainerd => Applied
    /\ OnDocker => runtime["docker"] = <<op.cfg, TRUE>>
OpDurable ==
    /\ op.at \in {"mark", "settle"} \/ (op.at = "commit" /\ Told) => Durable
    /\ op.at \in {"mark", "settle"} \/ (op.at = "commit" /\ Told /\ Whole) => runtime = Configured(op.cfg)

OpKinds ==
    /\ op.current => op.cfg = marker
    /\ op.kind \in {"reconcile", "reapply"} => op.current
    /\ op.kind = "reapply" => op.reapply
    /\ op.at \in Transactional \cup Items \cup {"ready"} => op.kind \in {"refresh", "reconcile", "reapply"}
    /\ op.at = "containerd" => Whole
    /\ op.at = "mark" => op.kind = "refresh"
    /\ op.at = "settle" => op.reapply /\ op.cfg = marker

(* Evidence that the next start applies the marker's configuration, where a  *)
(* crash may leave no entry.                                                 *)
Entries == {} \in rootDisk => Vouched
CurrentItems == \A i \in Items : runtime[i] \in runtimeDisk[i]
VInv ==
    /\ CurrentItems /\ OpKinds
    /\ "late" \notin owed => /\ Entries /\ ScriptVouches /\ InboxVouches
                             /\ up => OpVouches
                             /\ OpDurable

(* A step that writes neither an item nor the record, durable or not.        *)
LEMMA KeepsVouching ==
    ASSUME UNCHANGED marker, owed \subseteq owed',
           \A i \in Items : runtimeDisk'[i] \subseteq runtimeDisk[i],
           recordDisk' \subseteq recordDisk, record' \in recordDisk'
    PROVE  /\ Excused => Excused'
           /\ Recorded => Recorded'
           /\ Sound => Sound'
           /\ Vouched => Vouched'
<1>1. Excused => Excused'
  BY DEF Excused
<1>2. Recorded => Recorded'
  BY DEF Recorded
<1>3. SoundDisk => SoundDisk'
  BY DEF SoundDisk, Fits, Items
<1>4. QED BY <1>1, <1>2, <1>3 DEF Sound, Vouched

LEMMA QuietFs ==
    ASSUME IInv, VInv, UNCHANGED <<marker, runtime, record>>, owed \subseteq owed',
           \A i \in Items : runtimeDisk'[i] \in {runtimeDisk[i], {runtime[i]}},
           recordDisk' \in {recordDisk, {record}}
    PROVE  /\ CurrentItems'
           /\ Excused => Excused'
           /\ Recorded => Recorded'
           /\ Sound => Sound'
           /\ Vouched => Vouched'
           /\ Durable => Durable'
           /\ rootDisk' \subseteq rootDisk /\ Entries => Entries'
<1>1. record \in recordDisk /\ CurrentItems
  BY DEF IInv, FsInv, Current, VInv
<1>2. CurrentItems' /\ (Durable => Durable')
  BY <1>1 DEF CurrentItems, Durable
<1>3. \A i \in Items : runtimeDisk'[i] \subseteq runtimeDisk[i]
  BY <1>1 DEF CurrentItems
<1>4. /\ Excused => Excused'
      /\ Recorded => Recorded'
      /\ Sound => Sound'
      /\ Vouched => Vouched'
  BY <1>1, <1>3, KeepsVouching
<1>5. rootDisk' \subseteq rootDisk /\ Entries => Entries'
  BY <1>4 DEF Entries
<1>6. QED BY <1>2, <1>4, <1>5

(* What the operation and the script are to each other, until a command     *)
(* comes late.                                                              *)
LEMMA Owner ==
    ASSUME IInv, "late" \notin owed, script # NoScript
    PROVE  /\ script.own => op.called /\ reply = "none" /\ op.at = script.cmd
           /\ ~script.own => op.at \in {"idle", "recover", "stop"} /\ ~Told
<1>1. NoOp.at = "idle" /\ ~NoOp.called
  BY DEF NoOp
<1>2. QED BY <1>1 DEF IInv, Control, Mine, Alone, Told

(* A step of a script keeps what the operation counts on, unless it ends    *)
(* with an answer that the operation takes as done.                         *)
LEMMA OpStays ==
    ASSUME IInv, VInv, "late" \notin owed, script # NoScript, UNCHANGED <<op, marker, up>>,
           Excused => Excused',
           \/ reply' = reply
           \/ script.own /\ reply' = "failed"
           \/ script.own /\ script.cmd \in {"rollback", "settle"}
           \/ script.own /\ script.cmd = "recover" /\ reply' = "reported",
           script.cmd \in {"begin", "commit", "settle"} => runtime' = runtime,
           \A i \in Items : script.cmd \in Items /\ i # script.cmd => runtime'[i] = runtime[i],
           script.cmd \in Items => UNCHANGED <<data, recordDisk, rootDisk>>,
           script.cmd = "settle" => runtimeDisk' = runtimeDisk
    PROVE  (up' => OpVouches') /\ OpDurable'
<1>1. /\ script.own => op.called /\ reply = "none" /\ op.at = script.cmd
      /\ ~script.own => op.at \in {"idle", "recover", "stop"} /\ ~Told
  BY Owner
<1>2. (up => OpVouches) /\ OpDurable
  BY DEF VInv
<1>3. CASE ~script.own
  <2>1. reply' = reply
    BY <1>3
  <2>2. ~Told'
    BY <1>1, <1>3, <2>1 DEF Told
  <2>3. QED BY <1>1, <1>3, <2>2
        DEF OpVouches, OnBackup, OnFound, OnContainerd, OnDocker, OpDurable, Items
<1>4. CASE script.own
  <2>1. Told' => op.at \in {"rollback", "settle"} \/ (op.at = "recover" /\ reply' = "reported")
    BY <1>1, <1>4 DEF Told
  <2>2. up => OpVouches'
    <3> SUFFICES ASSUME up PROVE OpVouches'
      OBVIOUS
    <3>1. OpVouches
      BY <1>2
    <3>2. OnBackup' => op.at \in Items /\ BackupKept(op.tok)' /\ Entered'
      <4> SUFFICES ASSUME OnBackup' PROVE op.at \in Items /\ BackupKept(op.tok)' /\ Entered'
        OBVIOUS
      <4>1. op.at \in Items
        BY <1>1, <1>4, <2>1 DEF OnBackup, IInv, Control, Paths, Commands
      <4>2. BackupKept(op.tok) /\ Entered
        BY <3>1, <4>1 DEF OpVouches, OnBackup
      <4>3. UNCHANGED <<data, recordDisk, rootDisk, op, marker>>
        BY <1>1, <1>4, <4>1
      <4>4. QED BY <4>1, <4>2, <4>3 DEF BackupKept, Kept, Recorded, Entered
    <3>3. OnFound' => Excused' \/ Applied'
      <4> SUFFICES ASSUME OnFound' PROVE Excused' \/ Applied'
        OBVIOUS
      <4>1. op.at \in {"begin", "docker", "commit"} /\ OnFound
        BY <1>1, <1>4, <2>1 DEF OnFound, Whole, IInv, Control, Paths, Commands
      <4>2. Excused \/ Applied
        BY <3>1, <4>1 DEF OpVouches
      <4>3. runtime'["containerd"] = runtime["containerd"]
        BY <1>1, <1>4, <4>1 DEF Items
      <4>4. QED BY <4>2, <4>3 DEF Applied
    <3>4. OnContainerd' => Applied'
      <4> SUFFICES ASSUME OnContainerd' PROVE Applied'
        OBVIOUS
      <4>1. op.at \in {"docker", "commit"} /\ OnContainerd
        BY <1>1, <1>4, <2>1 DEF OnContainerd, Whole, IInv, Control, Paths, Commands
      <4>2. Applied
        BY <3>1, <4>1 DEF OpVouches
      <4>3. runtime'["containerd"] = runtime["containerd"]
        BY <1>1, <1>4, <4>1 DEF Items
      <4>4. QED BY <4>2, <4>3 DEF Applied
    <3>5. OnDocker' => runtime'["docker"] = <<op'.cfg, TRUE>>
      <4> SUFFICES ASSUME OnDocker' PROVE runtime'["docker"] = <<op'.cfg, TRUE>>
        OBVIOUS
      <4>1. op.at = "commit" /\ OnDocker
        BY <1>1, <1>4, <2>1 DEF OnDocker, IInv, Control, Paths, Commands
      <4>2. QED BY <1>1, <1>4, <3>1, <4>1 DEF OpVouches
    <3>6. QED BY <3>2, <3>3, <3>4, <3>5 DEF OpVouches, BackupKept
  <2>3. OpDurable'
    <3>1. op.at \in {"mark", "settle"} \/ (op.at = "commit" /\ Told') => op.at = "settle"
      BY <1>1, <1>4, <2>1 DEF IInv, Control, Paths, Commands
    <3>2. op.at = "settle" => UNCHANGED <<runtime, runtimeDisk>>
      BY <1>1, <1>4
    <3>3. QED BY <1>2, <3>1, <3>2 DEF OpDurable, Durable
  <2>4. QED BY <2>2, <2>3
<1>5. QED BY <1>3, <1>4

(* The commands that wait while a script runs are recoveries.               *)
LEMMA InboxStays ==
    ASSUME VInv, "late" \notin owed, script # NoScript, inbox' = inbox
    PROVE  InboxVouches'
<1>1. \A c \in inbox : inbox = {c} /\ c.cmd = "recover"
  BY DEF VInv, InboxVouches
<1>2. QED BY <1>1 DEF InboxVouches, Due, Items

(* Once a command came late no more than the operation's kind is claimed.   *)
LEMMA LateStays ==
    ASSUME VInv, UNCHANGED host, CurrentItems', "late" \in owed'
    PROVE  VInv'
BY DEF VInv, OpKinds, Whole, host

LEMMA ScriptStays ==
    ASSUME IInv, VInv, script.step \in Steps, UNCHANGED <<inbox, host>>, CurrentItems',
           "late" \in owed' <=> "late" \in owed, Excused => Excused',
           \/ reply' = reply
           \/ script.own /\ reply' = "failed"
           \/ script.own /\ script.cmd \in {"rollback", "settle"}
           \/ script.own /\ script.cmd = "recover" /\ reply' = "reported",
           script.cmd \in {"begin", "commit", "settle"} => runtime' = runtime,
           \A i \in Items : script.cmd \in Items /\ i # script.cmd => runtime'[i] = runtime[i],
           script.cmd \in Items => UNCHANGED <<data, recordDisk, rootDisk>>,
           script.cmd = "settle" => runtimeDisk' = runtimeDisk,
           "late" \notin owed => Entries' /\ ScriptVouches'
    PROVE  VInv'
<1>1. UNCHANGED <<op, marker, up>>
  BY DEF host
<1>2. OpKinds'
  BY <1>1 DEF VInv, OpKinds, Whole
<1>3. script # NoScript
  BY ScriptShape DEF IInv, Control
<1>4. CASE "late" \in owed
  BY <1>4, LateStays
<1>5. CASE "late" \notin owed
  <2>1. (up' => OpVouches') /\ OpDurable'
    BY <1>1, <1>3, <1>5, OpStays
  <2>2. InboxVouches'
    BY <1>3, <1>5, InboxStays
  <2>3. QED BY <1>2, <1>5, <2>1, <2>2 DEF VInv
<1>6. QED BY <1>4, <1>5

(* What a step of a script starts from.                                     *)
LEMMA Vouching ==
    ASSUME IInv, VInv, script.step \in Steps
    PROVE  /\ script \in Script /\ script # NoScript /\ ScriptPath /\ FsInv
           /\ "late" \notin owed => Entries /\ ScriptVouches
           /\ \A s \in Steps : LET n == [script EXCEPT !.step = s] IN
                 /\ n.step = s /\ n.cmd = script.cmd /\ n.tok = script.tok
                 /\ n.cfg = script.cfg /\ n.todo = script.todo
<1>1. script \in Script /\ script # NoScript /\ ScriptPath /\ FsInv
  BY ScriptShape DEF IInv, Control, Paths
<1>2. \A s \in Steps : LET n == [script EXCEPT !.step = s] IN
         /\ n.step = s /\ n.cmd = script.cmd /\ n.tok = script.tok
         /\ n.cfg = script.cfg /\ n.todo = script.todo
  BY <1>1 DEF Script
<1>3. QED BY <1>1, <1>2 DEF VInv

(* The end of a script vouches for no more than the files.                  *)
LEMMA EndVouches ==
    ASSUME script' = NoScript
    PROVE  ScriptVouches'
<1>1. script'.step = "none" /\ script'.cmd = "none"
  BY DEF NoScript
<1>2. QED BY <1>1 DEF ScriptVouches, At, Beginning, Cleaning, Retiring, Decided

LEMMA ExitAnswers ==
    ASSUME CtlType, script # NoScript, NEW r \in {"silent", "reported", "failed"}, Exit(r)
    PROVE  /\ script' = NoScript /\ UNCHANGED <<inbox, host>>
           /\ reply' = reply \/ (script.own /\ reply' = r)
<1>1. script.own \in BOOLEAN
  BY DEF CtlType, Script
<1>2. QED BY <1>1 DEF Exit

(* begin_transaction, vouched for by what it found. *)

LEMMA BeginMkdirVouches ==
    ASSUME IInv, VInv, BeginMkdir
    PROVE  VInv'
<1>1. /\ script.step = "enter" /\ script.cmd = "begin" /\ root = {} /\ MakeEntry(script.tok)
      /\ script' = [script EXCEPT !.step = "copy"] /\ UNCHANGED <<inbox, host, reply, owed>>
  BY DEF BeginMkdir, Enter, At, Goto
<1>2. script'.step = "copy" /\ script'.cmd = "begin"
  BY <1>1, Vouching
<1>3. UNCHANGED <<marker, runtime, runtimeDisk, record, recordDisk>>
  BY <1>1 DEF MakeEntry, host
<1>4. CurrentItems' /\ (Excused => Excused') /\ (Vouched => Vouched')
  BY <1>1, <1>3, QuietFs
<1>5. ASSUME "late" \notin owed PROVE Entries' /\ ScriptVouches'
  <2>1. Vouched
    BY <1>1, <1>5, Vouching DEF Entries, FsInv, Current
  <2>2. QED BY <1>2, <1>4, <2>1 DEF Entries, ScriptVouches, At, Beginning, Cleaning, Retiring, Decided
<1>6. QED BY <1>1, <1>3, <1>4, <1>5, ScriptStays DEF Items

LEMMA BeginCopyVouches ==
    ASSUME IInv, VInv, BeginCopy
    PROVE  VInv'
<1>1. /\ script.step = "copy" /\ WriteData(script.tok, runtime)
      /\ script' = [script EXCEPT !.step = "syncData"] /\ UNCHANGED <<inbox, host, reply, owed>>
  BY DEF BeginCopy, At, Goto
<1>2. script'.step = "syncData" /\ script'.cmd = "begin" /\ script.cmd = "begin"
      /\ script'.tok = script.tok /\ script.tok \in Tokens
  BY <1>1, Vouching DEF ScriptPath, Beginning, Transactional
<1>3. UNCHANGED <<marker, runtime, runtimeDisk, record, recordDisk, rootDisk>>
      /\ data'[script.tok] = runtime
  BY <1>1, <1>2, Vouching DEF WriteData, host, FsInv, FsType
<1>4. CurrentItems' /\ (Excused => Excused') /\ (Vouched => Vouched') /\ (Recorded => Recorded')
      /\ (Entries => Entries')
  BY <1>1, <1>3, QuietFs
<1>5. ASSUME "late" \notin owed PROVE Entries' /\ ScriptVouches'
  <2>1. Vouched /\ Entries
    BY <1>1, <1>5, Vouching DEF ScriptVouches, Beginning
  <2>2. Excused \/ Recorded \/ Kept(runtime)
    BY <2>1 DEF Vouched, Sound, SoundDisk, Fits, Kept, VInv, CurrentItems, Items
  <2>3. Excused' \/ Recorded' \/ Kept(data[script.tok])'
    BY <1>2, <1>3, <1>4, <2>2 DEF Kept
  <2>4. QED BY <1>2, <1>4, <2>1, <2>3
        DEF Kept, ScriptVouches, BackupKept, At, Beginning, Cleaning, Retiring, Decided
<1>6. QED BY <1>1, <1>2, <1>3, <1>4, <1>5, ScriptStays DEF Items

(* Making the backup and its publication durable.                           *)
LEMMA BeginSyncDataVouches ==
    ASSUME IInv, VInv, BeginSyncData
    PROVE  VInv'
<1>1. /\ script.step = "syncData" /\ SyncData(script.tok)
      /\ script' = [script EXCEPT !.step = "publish"] /\ UNCHANGED <<inbox, host, reply, owed>>
  BY DEF BeginSyncData, At, Goto
<1>2. script'.step = "publish" /\ script'.cmd = "begin" /\ script.cmd = "begin"
      /\ script'.tok = script.tok /\ script.tok \in Tokens /\ script.tok \in root
  BY <1>1, Vouching DEF ScriptPath, Beginning, Transactional, IInv, ScriptKnows, At
<1>3. UNCHANGED <<marker, runtime, runtimeDisk, record>> /\ recordDisk' = {record}
      /\ rootDisk' = {root} /\ data'[script.tok] = data[script.tok]
  BY <1>1, <1>2 DEF SyncData, Sync, host
<1>4. CurrentItems' /\ (Excused => Excused') /\ (Vouched => Vouched') /\ (Recorded => Recorded')
  BY <1>1, <1>3, QuietFs
<1>5. ASSUME "late" \notin owed PROVE Entries' /\ ScriptVouches'
  <2>1. Vouched /\ BackupKept(script.tok)
    BY <1>1, <1>5, Vouching DEF ScriptVouches, Beginning
  <2>2. QED BY <1>2, <1>3, <1>4, <2>1
        DEF Entries, Kept, ScriptVouches, BackupKept, At, Beginning, Cleaning, Retiring, Decided, host
<1>6. QED BY <1>1, <1>2, <1>3, <1>4, <1>5, ScriptStays DEF Items

LEMMA BeginPublishVouches ==
    ASSUME IInv, VInv, BeginPublish
    PROVE  VInv'
<1>1. /\ script.step = "publish" /\ WritePhase(script.tok, "ready")
      /\ script' = [script EXCEPT !.step = "syncPublish"] /\ UNCHANGED <<inbox, host, reply, owed>>
  BY DEF BeginPublish, At, Goto
<1>2. script'.step = "syncPublish" /\ script'.cmd = "begin" /\ script.cmd = "begin"
      /\ script'.tok = script.tok
  BY <1>1, Vouching DEF ScriptPath, Beginning
<1>3. UNCHANGED <<marker, runtime, runtimeDisk, record, recordDisk, rootDisk, data>>
  BY <1>1 DEF WritePhase, host
<1>4. CurrentItems' /\ (Excused => Excused') /\ (Vouched => Vouched') /\ (Recorded => Recorded')
      /\ (Entries => Entries')
  BY <1>1, <1>3, QuietFs
<1>5. ASSUME "late" \notin owed PROVE Entries' /\ ScriptVouches'
  <2>1. Vouched /\ Entries /\ BackupKept(script.tok)
    BY <1>1, <1>5, Vouching DEF ScriptVouches, Beginning
  <2>2. QED BY <1>2, <1>3, <1>4, <2>1
        DEF Kept, ScriptVouches, BackupKept, At, Beginning, Cleaning, Retiring, Decided
<1>6. QED BY <1>1, <1>2, <1>3, <1>4, <1>5, ScriptStays DEF Items

(* From here on the backup is the evidence, and no boot is owed.            *)
LEMMA BeginSyncPublishVouches ==
    ASSUME IInv, VInv, BeginSyncPublish
    PROVE  VInv'
<1>1. script.step = "syncPublish" /\ SyncMeta /\ Exit("silent") /\ owed' = owed \ {"boot"}
  BY DEF BeginSyncPublish, At
<1>2. script.cmd = "begin" /\ script.tok \in Tokens /\ script.tok \in root /\ script # NoScript
  BY <1>1, Vouching DEF ScriptPath, Beginning, Transactional, IInv, ScriptKnows, At
<1>3. UNCHANGED <<inbox, host>> /\ script' = NoScript
      /\ (reply' = reply \/ (script.own /\ reply' = "silent"))
  BY <1>1, <1>2, ExitAnswers DEF IInv, Control
<1>4. UNCHANGED <<marker, runtime, runtimeDisk, record>> /\ recordDisk' = {record}
      /\ rootDisk' = {root} /\ data'[script.tok] = data[script.tok]
  BY <1>1, <1>2, <1>3 DEF SyncMeta, Sync, host
<1>5. CurrentItems' /\ (Excused => Excused') /\ (Recorded => Recorded') /\ Entered'
  BY <1>1, <1>2, <1>4 DEF VInv, CurrentItems, Excused, Recorded, IInv, FsInv, Current, Entered
<1>6. Entries' /\ ScriptVouches'
  BY <1>3, <1>5, EndVouches DEF Entries, Entered
<1>7. CASE reply' = reply \/ "late" \in owed
  <2>1. CASE reply' = reply
    BY <1>1, <1>2, <1>3, <1>4, <1>5, <1>6, <2>1, ScriptStays DEF Items
  <2>2. CASE "late" \in owed
    BY <1>1, <1>3, <1>5, <2>2, LateStays
  <2>3. QED BY <1>7, <2>1, <2>2
<1>8. CASE script.own /\ reply' = "silent" /\ "late" \notin owed
  <2>1. op.at = "begin" /\ op.tok = script.tok /\ UNCHANGED <<op, up>>
    BY <1>2, <1>3, <1>8 DEF IInv, Control, Mine, host
  <2>2. BackupKept(script.tok)
    BY <1>1, <1>8, Vouching DEF ScriptVouches
  <2>3. OpKinds'
    BY <1>3 DEF VInv, OpKinds, Whole, host
  <2>4. up' => OpVouches'
    <3> SUFFICES ASSUME up PROVE OpVouches'
      BY <2>1
    <3>1. OpVouches
      BY <1>8 DEF VInv
    <3>2. Excused' \/ Recorded' \/ Kept(data[op.tok])'
      BY <1>4, <1>5, <2>1, <2>2 DEF BackupKept, Kept
    <3>3. OnFound' => Excused' \/ Applied'
      BY <1>4, <1>5, <2>1, <3>1 DEF OpVouches, OnFound, Whole, Applied
    <3>4. QED BY <1>5, <2>1, <3>2, <3>3
          DEF OpVouches, OnContainerd, OnDocker, BackupKept
  <2>5. OpDurable'
    BY <2>1 DEF OpDurable
  <2>6. InboxVouches'
    BY <1>2, <1>3, <1>8, InboxStays
  <2>7. QED BY <1>5, <1>6, <2>3, <2>4, <2>5, <2>6 DEF VInv
<1>9. QED BY <1>3, <1>7, <1>8

(* cleanup_begin: the evidence goes, and what it was for was not changed.   *)
LEMMA BeginFailsVouches ==
    ASSUME IInv, VInv, BeginFails
    PROVE  VInv'
<1>1. /\ script.step \in Beginning /\ UNCHANGED fs
      /\ script' = [script EXCEPT !.step = "cleanPhase"] /\ UNCHANGED <<inbox, host, reply, owed>>
  BY DEF BeginFails, Beginning, Goto
<1>2. script.step \in Steps
  BY <1>1 DEF Beginning
<1>3. script'.step = "cleanPhase" /\ script'.cmd = "begin" /\ script.cmd = "begin"
  BY <1>1, <1>2, Vouching DEF ScriptPath
<1>4. UNCHANGED <<marker, runtime, runtimeDisk, record, recordDisk, rootDisk>>
  BY <1>1 DEF fs, host
<1>5. CurrentItems' /\ (Excused => Excused') /\ (Vouched => Vouched') /\ (Entries => Entries')
  BY <1>1, <1>4, QuietFs
<1>6. ASSUME "late" \notin owed PROVE Entries' /\ ScriptVouches'
  <2>1. Vouched /\ Entries
    BY <1>1, <1>2, <1>6, Vouching DEF ScriptVouches
  <2>2. QED BY <1>3, <1>5, <2>1 DEF ScriptVouches, At, Beginning, Cleaning, Retiring, Decided
<1>7. QED BY <1>1, <1>2, <1>3, <1>4, <1>5, <1>6, ScriptStays DEF Items

LEMMA CleanPhaseVouches ==
    ASSUME IInv, VInv, CleanPhase
    PROVE  VInv'
<1>1. /\ script.step = "cleanPhase" /\ WritePhase(script.tok, "absent")
      /\ script' = [script EXCEPT !.step = "cleanSync"] /\ UNCHANGED <<inbox, host, reply, owed>>
  BY DEF CleanPhase, At, Goto
<1>2. script'.step = "cleanSync" /\ script'.cmd = "begin" /\ script.cmd = "begin"
  BY <1>1, Vouching DEF ScriptPath, Cleaning
<1>3. UNCHANGED <<marker, runtime, runtimeDisk, record, recordDisk, rootDisk>>
  BY <1>1 DEF WritePhase, host
<1>4. CurrentItems' /\ (Excused => Excused') /\ (Vouched => Vouched') /\ (Entries => Entries')
  BY <1>1, <1>3, QuietFs
<1>5. ASSUME "late" \notin owed PROVE Entries' /\ ScriptVouches'
  <2>1. Vouched /\ Entries
    BY <1>1, <1>5, Vouching DEF ScriptVouches, Cleaning
  <2>2. QED BY <1>2, <1>4, <2>1 DEF ScriptVouches, At, Beginning, Cleaning, Retiring, Decided
<1>6. QED BY <1>1, <1>2, <1>3, <1>4, <1>5, ScriptStays DEF Items

LEMMA CleanSyncVouches ==
    ASSUME IInv, VInv, CleanSync
    PROVE  VInv'
<1>1. /\ script.step = "cleanSync" /\ SyncMeta
      /\ script' = [script EXCEPT !.step = "cleanRemove"] /\ UNCHANGED <<inbox, host, reply, owed>>
  BY DEF CleanSync, At, Goto
<1>2. script'.step = "cleanRemove" /\ script'.cmd = "begin" /\ script.cmd = "begin"
  BY <1>1, Vouching DEF ScriptPath, Cleaning
<1>3. UNCHANGED <<marker, runtime, runtimeDisk, record>> /\ recordDisk' = {record}
  BY <1>1 DEF SyncMeta, Sync, host
<1>4. CurrentItems' /\ (Excused => Excused') /\ (Vouched => Vouched')
  BY <1>1, <1>3, QuietFs
<1>5. ASSUME "late" \notin owed PROVE Entries' /\ ScriptVouches'
  <2>1. Vouched
    BY <1>1, <1>5, Vouching DEF ScriptVouches, Cleaning
  <2>2. QED BY <1>2, <1>4, <2>1
        DEF Entries, ScriptVouches, At, Beginning, Cleaning, Retiring, Decided
<1>6. QED BY <1>1, <1>2, <1>3, <1>4, <1>5, ScriptStays DEF Items

LEMMA CleanRemoveVouches ==
    ASSUME IInv, VInv, CleanRemove
    PROVE  VInv'
<1>1. script.step = "cleanRemove" /\ RemoveEntry(script.tok) /\ Exit("failed") /\ owed' = owed
  BY DEF CleanRemove, At
<1>2. script.cmd = "begin" /\ script # NoScript
  BY <1>1, Vouching DEF ScriptPath, Cleaning
<1>3. UNCHANGED <<inbox, host>> /\ script' = NoScript
      /\ (reply' = reply \/ (script.own /\ reply' = "failed"))
  BY <1>1, <1>2, ExitAnswers DEF IInv, Control
<1>4. UNCHANGED <<marker, runtime, runtimeDisk, record, recordDisk>>
  BY <1>1, <1>3 DEF RemoveEntry, host
<1>5. CurrentItems' /\ (Excused => Excused') /\ (Vouched => Vouched')
  BY <1>1, <1>4, QuietFs
<1>6. ASSUME "late" \notin owed PROVE Entries' /\ ScriptVouches'
  <2>1. Vouched
    BY <1>1, <1>6, Vouching DEF ScriptVouches, Cleaning
  <2>2. QED BY <1>3, <1>5, <2>1, EndVouches DEF Entries
<1>7. QED BY <1>1, <1>2, <1>3, <1>4, <1>5, <1>6, ScriptStays DEF Items

(* The ends that change no file; a silent recovery found what the marker    *)
(* says.                                                                    *)
LEMMA PlainEndsVouch ==
    ASSUME IInv, VInv, Stop \/ BeginRefuse \/ LoadFails \/ RecoverNothing
    PROVE  VInv'
<1>1. script.step \in Steps
  <2>1. script # NoScript
    BY DEF Stop, BeginRefuse, LoadFails, RecoverNothing, Enter, At, NoScript
  <2>2. QED BY <2>1 DEF IInv, Control, CtlType, Script
<1>2. UNCHANGED fs /\ owed' = owed
  BY DEF Stop, BeginRefuse, LoadFails, RecoverNothing
<1>3. script # NoScript
  BY <1>1, Vouching
<1>4. /\ script' = NoScript /\ UNCHANGED <<inbox, host>>
      /\ \/ reply' = reply
         \/ script.own /\ reply' = "failed"
         \/ script.own /\ script.cmd = "recover" /\ reply' = "reported"
         \/ script.own /\ script.cmd = "recover" /\ reply' = "silent" /\ root = {} /\ ~record
  <2>1. CASE Stop \/ BeginRefuse \/ LoadFails
    <3>1. Exit("failed")
      BY <2>1 DEF Stop, BeginRefuse, LoadFails
    <3>2. QED BY <1>3, <3>1, ExitAnswers DEF IInv, Control
  <2>2. CASE RecoverNothing
    <3>1. PICK r \in {"silent", "reported"} : Exit(r) /\ (r = "silent" => ~record)
      BY <2>2 DEF RecoverNothing
    <3>2. script' = NoScript /\ UNCHANGED <<inbox, host>>
          /\ (reply' = reply \/ (script.own /\ reply' = r))
      BY <1>3, <3>1, ExitAnswers DEF IInv, Control
    <3>3. QED BY <2>2, <3>1, <3>2 DEF RecoverNothing, Enter
  <2>3. QED BY <2>1, <2>2
<1>5. UNCHANGED <<marker, runtime, runtimeDisk, record, recordDisk, rootDisk, root, data>>
  BY <1>2, <1>4 DEF fs, host
<1>6. CurrentItems' /\ (Excused => Excused') /\ (Entries => Entries')
  BY <1>2, <1>5, QuietFs
<1>7. ASSUME "late" \notin owed PROVE Entries' /\ ScriptVouches'
  BY <1>1, <1>4, <1>6, <1>7, Vouching, EndVouches
<1>8. CASE \/ reply' = reply
           \/ script.own /\ reply' = "failed"
           \/ script.own /\ script.cmd = "recover" /\ reply' = "reported"
           \/ "late" \in owed
  <2>1. CASE "late" \in owed
    BY <1>2, <1>4, <1>6, <2>1, LateStays
  <2>2. CASE "late" \notin owed
    BY <1>1, <1>2, <1>4, <1>5, <1>6, <1>7, <1>8, <2>2, ScriptStays
  <2>3. QED BY <2>1, <2>2
<1>9. CASE /\ script.own /\ script.cmd = "recover" /\ reply' = "silent" /\ root = {} /\ ~record
           /\ "late" \notin owed
  <2>1. op.at = "recover" /\ UNCHANGED <<op, up>>
    BY <1>4, <1>9 DEF IInv, Control, Mine, host
  <2>2. Entries /\ root \in rootDisk /\ record \in recordDisk /\ CurrentItems
    BY <1>9 DEF VInv, IInv, FsInv, Current
  <2>3. Excused \/ Applied
    <3>1. Vouched /\ ~Recorded
      <4>1. {} \in rootDisk
        BY <1>9, <2>2
      <4>2. ASSUME Recorded PROVE FALSE
        <5>1. record \in {TRUE}
          BY <2>2, <4>2 DEF Recorded
        <5>2. QED BY <1>9, <5>1
      <4>3. QED BY <2>2, <4>1, <4>2 DEF Entries
    <3>2. runtime["containerd"] \in runtimeDisk["containerd"]
      BY <2>2 DEF CurrentItems, Items
    <3>3. SoundDisk => Applied
      BY <3>2 DEF SoundDisk, Applied
    <3>4. QED BY <3>1, <3>3 DEF Vouched, Sound
  <2>4. OpVouches' /\ OpDurable'
    BY <1>5, <1>6, <2>1, <2>3
    DEF OpVouches, OpDurable, OnBackup, OnContainerd, OnDocker, Applied, Items
  <2>5. OpKinds'
    BY <1>4 DEF VInv, OpKinds, Whole, host
  <2>6. InboxVouches'
    BY <1>3, <1>4, <1>9, InboxStays
  <2>7. QED BY <1>6, <1>7, <1>9, <2>4, <2>5, <2>6 DEF VInv
<1>10. QED BY <1>4, <1>8, <1>9

LEMMA ConfiguredItems ==
    ASSUME NEW c
    PROVE  /\ Configured(c)["containerd"] = <<"applied", TRUE>>
           /\ Configured(c)["docker"] = <<c, TRUE>>
BY DEF Configured

(* configure-containerd, configure-docker: under the backup.                *)
LEMMA ConfigureEnterVouches ==
    ASSUME IInv, VInv, ConfigureEnter
    PROVE  VInv'
<1>1. /\ script.step = "enter" /\ script.cmd \in Items /\ WriteItem(script.cmd, Partial)
      /\ script' = [script EXCEPT !.step = "write"] /\ UNCHANGED <<inbox, host, reply, owed>>
  BY DEF ConfigureEnter, Goto
<1>2. script'.step = "write" /\ script'.cmd = script.cmd
  BY <1>1, Vouching
<1>3. /\ UNCHANGED <<marker, data, recordDisk, rootDisk>>
      /\ \A i \in Items : /\ i # script.cmd => runtime'[i] = runtime[i]
                          /\ runtime'[i] \in runtimeDisk'[i]
  BY <1>1, Vouching DEF WriteItem, host, FsInv, FsType, VInv, CurrentItems
<1>4. CurrentItems' /\ (Excused => Excused')
  BY <1>1, <1>3 DEF CurrentItems, Excused
<1>5. ASSUME "late" \notin owed PROVE Entries' /\ ScriptVouches'
  <2>1. Entered
    BY <1>1, <1>5, Vouching DEF ScriptVouches, Due
  <2>2. Entered'
    BY <1>3, <2>1 DEF Entered
  <2>3. QED BY <1>1, <1>2, <2>2
        DEF Entries, Entered, ScriptVouches, Due, At, Beginning, Cleaning, Retiring, Decided, Items
<1>6. QED BY <1>1, <1>3, <1>4, <1>5, ScriptStays DEF Items

LEMMA ConfigureWriteVouches ==
    ASSUME IInv, VInv, ConfigureWrite
    PROVE  VInv'
<1>1. /\ script.step = "write" /\ WriteItem(script.cmd, Configured(script.cfg)[script.cmd])
      /\ Exit("silent") /\ owed' = owed
  BY DEF ConfigureWrite, At
<1>2. script.cmd \in Items /\ script # NoScript
  BY <1>1, Vouching DEF ScriptPath, At
<1>3. UNCHANGED <<inbox, host>> /\ script' = NoScript
      /\ (reply' = reply \/ (script.own /\ reply' = "silent"))
  BY <1>1, <1>2, ExitAnswers DEF IInv, Control
<1>4. /\ UNCHANGED <<marker, data, recordDisk, rootDisk>>
      /\ runtime'[script.cmd] = Configured(script.cfg)[script.cmd]
      /\ \A i \in Items : /\ i # script.cmd => runtime'[i] = runtime[i]
                          /\ runtime'[i] \in runtimeDisk'[i]
  BY <1>1, <1>2, <1>3, Vouching DEF WriteItem, host, FsInv, FsType, VInv, CurrentItems
<1>5. CurrentItems' /\ (Excused => Excused')
  BY <1>1, <1>4 DEF CurrentItems, Excused
<1>6. ASSUME "late" \notin owed PROVE Entries' /\ ScriptVouches'
  <2>1. Entered
    BY <1>1, <1>2, <1>6, Vouching DEF ScriptVouches, Due
  <2>2. QED BY <1>3, <1>4, <2>1, EndVouches DEF Entries, Entered
<1>7. CASE reply' = reply
  BY <1>1, <1>2, <1>3, <1>4, <1>5, <1>6, <1>7, ScriptStays DEF Items
<1>8. CASE "late" \in owed
  BY <1>1, <1>3, <1>5, <1>8, LateStays
<1>9. CASE script.own /\ reply' = "silent" /\ "late" \notin owed
  <2>1. op.at = script.cmd /\ op.cfg = script.cfg /\ UNCHANGED <<op, up>>
    BY <1>2, <1>3, <1>9 DEF IInv, Control, Mine, host
  <2>2. OpKinds'
    BY <1>3 DEF VInv, OpKinds, Whole, host
  <2>3. InboxVouches'
    BY <1>2, <1>3, <1>9, InboxStays
  <2>4. OpDurable'
    BY <1>2, <2>1 DEF OpDurable, Items
  <2>5. up' => OpVouches'
    <3> SUFFICES ASSUME up PROVE OpVouches'
      BY <2>1
    <3>1. OpVouches
      BY <1>9 DEF VInv
    <3>2. BackupKept(op.tok) /\ Entered
      BY <1>2, <2>1, <3>1 DEF OpVouches, OnBackup
    <3>3. (Excused' \/ Recorded' \/ Kept(data[op.tok])') /\ Entered'
      BY <1>4, <1>5, <2>1, <3>2 DEF BackupKept, Kept, Recorded, Entered
    <3>4. CASE script.cmd = "containerd"
      <4>1. runtime'["containerd"] = Configured(script.cfg)["containerd"]
        BY <1>4, <3>4
      <4>3. Applied'
        BY <4>1, ConfiguredItems DEF Applied
      <4>4. QED BY <2>1, <3>3, <3>4, <4>3 DEF OpVouches, OnDocker, BackupKept
    <3>5. CASE script.cmd = "docker"
      <4>1. runtime'["containerd"] = runtime["containerd"]
        BY <1>4, <3>5 DEF Items
      <4>2. runtime'["docker"] = <<op.cfg, TRUE>>
        <5>1. runtime'["docker"] = Configured(script.cfg)["docker"]
          BY <1>4, <3>5
        <5>2. QED BY <2>1, <5>1, ConfiguredItems
      <4>3. (OnFound' => Excused' \/ Applied') /\ (OnContainerd' => Applied')
        BY <1>5, <2>1, <3>1, <3>5, <4>1 DEF OpVouches, OnFound, OnContainerd, Whole, Applied
      <4>4. QED BY <2>1, <3>3, <4>2, <4>3 DEF OpVouches, BackupKept
    <3>6. QED BY <1>2, <3>4, <3>5 DEF Items
  <2>6. QED BY <1>1, <1>5, <1>6, <1>9, <2>2, <2>3, <2>4, <2>5 DEF VInv
<1>10. QED BY <1>3, <1>7, <1>8, <1>9

(* rollback, commit and the restoration of a recovery *)

LEMMA CommitEnterVouches ==
    ASSUME IInv, VInv, CommitEnter
    PROVE  VInv'
<1>1. /\ script.step = "enter" /\ script.cmd = "commit" /\ UNCHANGED fs
      /\ script' = [script EXCEPT !.step = "syncItems"] /\ UNCHANGED <<inbox, host, reply, owed>>
  BY DEF CommitEnter, At, Goto, Enter
<1>2. script'.step = "syncItems" /\ script'.cmd = "commit" /\ script'.cfg = script.cfg
  BY <1>1, Vouching
<1>3. UNCHANGED <<marker, runtime, runtimeDisk, record, recordDisk, rootDisk>>
  BY <1>1 DEF fs, host
<1>4. CurrentItems' /\ (Excused => Excused') /\ (Entries => Entries')
  BY <1>1, <1>3, QuietFs
<1>5. ASSUME "late" \notin owed PROVE Entries' /\ ScriptVouches'
  <2>1. Entries /\ (Excused \/ script.cfg # marker \/ runtime = Configured(marker))
    BY <1>1, <1>5, Vouching DEF ScriptVouches, Due
  <2>2. Excused' \/ script'.cfg # marker' \/ runtime' = Configured(marker')
    BY <1>2, <1>3, <1>4, <2>1
  <2>3. QED BY <1>2, <1>4, <2>1, <2>2
        DEF ScriptVouches, Due, At, Beginning, Cleaning, Retiring, Decided, Items
<1>6. QED BY <1>1, <1>3, <1>4, <1>5, ScriptStays DEF Items

LEMMA RollbackEnterVouches ==
    ASSUME IInv, VInv, RollbackEnter
    PROVE  VInv'
<1>1. /\ script.step = "enter" /\ script.cmd = "rollback" /\ UNCHANGED fs
      /\ script' = [script EXCEPT !.step = "restore"] /\ UNCHANGED <<inbox, host, reply, owed>>
  BY DEF RollbackEnter, At, Goto, Enter
<1>2. script'.step = "restore" /\ script'.cmd = "rollback" /\ script'.tok = script.tok
      /\ script'.todo = script.todo
  BY <1>1, Vouching
<1>3. UNCHANGED <<marker, runtime, runtimeDisk, record, recordDisk, rootDisk, data>>
  BY <1>1 DEF fs, host
<1>4. CurrentItems' /\ (Excused => Excused') /\ (Entries => Entries') /\ (Recorded => Recorded')
  BY <1>1, <1>3, QuietFs
<1>5. ASSUME "late" \notin owed PROVE Entries' /\ ScriptVouches'
  <2>1. Entries /\ Entered /\ BackupKept(script.tok) /\ script.todo = Items
    BY <1>1, <1>5, Vouching DEF ScriptVouches, Due, At
  <2>2. Entered' /\ (Excused' \/ Recorded' \/ Kept(data[script.tok])')
    BY <1>2, <1>3, <1>4, <2>1 DEF Entered, BackupKept, Kept
  <2>3. QED BY <1>2, <1>4, <2>1, <2>2
        DEF ScriptVouches, Due, BackupKept, Kept, At, Beginning, Cleaning, Retiring, Decided, Items
<1>6. QED BY <1>1, <1>3, <1>4, <1>5, ScriptStays DEF Items

(* An item is cleared or copied back: under the backup or the record.       *)
LEMMA RestoreWrites ==
    ASSUME IInv, VInv, script.step = "restore", NEW i \in Items, i \in script.todo,
           NEW v, WriteItem(i, v), UNCHANGED <<inbox, host, reply, owed>>,
           script'.step = "restore", script'.cmd = script.cmd, script'.tok = script.tok,
           \/ script'.todo = script.todo
           \/ script'.todo = script.todo \ {i} /\ v = data[script.tok][i]
    PROVE  VInv'
<1>1. /\ script.cmd \in {"commit", "rollback", "recover"}
      /\ \A j \in Items : /\ j # i => runtime'[j] = runtime[j]
                          /\ runtime'[j] \in runtimeDisk'[j]
      /\ runtime'[i] = v
      /\ UNCHANGED <<marker, recordDisk, rootDisk, data>>
  BY Vouching DEF ScriptPath, Retiring, WriteItem, FsInv, FsType, VInv, CurrentItems, host
<1>2. CurrentItems' /\ (Excused => Excused') /\ (Recorded => Recorded')
  BY <1>1 DEF CurrentItems, Excused, Recorded
<1>3. CASE "late" \in owed
  BY <1>2, <1>3, LateStays
<1>4. CASE "late" \notin owed
  <2>1. script.cmd \in {"rollback", "recover"} /\ ScriptVouches
    BY <1>1, <1>4, Vouching DEF ScriptVouches, At
  <2>2. CASE script.cmd = "recover"
    <3>1. Recorded
      BY <2>1, <2>2 DEF ScriptVouches, Retiring
    <3>2. Entries' /\ ScriptVouches'
      BY <1>2, <2>2, <3>1
      DEF Entries, Vouched, ScriptVouches, At, Beginning, Cleaning, Retiring, Decided
    <3>3. QED BY <1>2, <2>2, <3>2, ScriptStays DEF Items
  <2>3. CASE script.cmd = "rollback"
    <3>1. /\ Entered /\ BackupKept(script.tok)
          /\ \A j \in Items \ script.todo : runtime[j] = data[script.tok][j]
      BY <2>1, <2>3 DEF ScriptVouches, Due, At
    <3>2. Entered' /\ (Excused' \/ Recorded' \/ Kept(data[script.tok])')
      BY <1>1, <1>2, <3>1 DEF Entered, BackupKept, Kept
    <3>3. \A j \in Items \ script'.todo : runtime'[j] = data'[script'.tok][j]
      BY <1>1, <3>1
    <3>4. Entries' /\ ScriptVouches'
      BY <2>3, <3>2, <3>3
      DEF Entries, Entered, ScriptVouches, Due, BackupKept, Kept, At, Beginning, Cleaning,
          Retiring, Decided, Items
    <3>5. QED BY <1>2, <2>3, <3>4, ScriptStays DEF Items
  <2>4. QED BY <2>1, <2>2, <2>3
<1>5. QED BY <1>3, <1>4

LEMMA RestoreVouches ==
    ASSUME IInv, VInv, NEW i \in Items, RestoreClear(i) \/ RestoreCopy(i)
    PROVE  VInv'
<1>1. script.step = "restore" /\ i \in script.todo /\ UNCHANGED <<inbox, host, reply, owed>>
  BY DEF RestoreClear, RestoreCopy, At, Goto
<1>2. CASE RestoreClear(i)
  <2>1. WriteItem(i, Partial) /\ script' = [script EXCEPT !.step = "restore"]
    BY <1>2 DEF RestoreClear, Goto
  <2>2. script'.step = "restore" /\ script'.cmd = script.cmd /\ script'.tok = script.tok
        /\ script'.todo = script.todo
    BY <1>1, <2>1, Vouching
  <2>3. QED BY <1>1, <2>1, <2>2, RestoreWrites
<1>3. CASE RestoreCopy(i)
  <2>1. WriteItem(i, data[script.tok][i]) /\ script' = [script EXCEPT !.todo = @ \ {i}]
    BY <1>3 DEF RestoreCopy
  <2>2. script \in Script
    BY <1>1, Vouching
  <2>3. script'.step = "restore" /\ script'.cmd = script.cmd /\ script'.tok = script.tok
        /\ script'.todo = script.todo \ {i}
    BY <1>1, <2>1, <2>2 DEF Script
  <2>4. PICK v : v = data[script.tok][i]
    OBVIOUS
  <2>5. QED BY <1>1, <2>1, <2>3, <2>4, RestoreWrites
<1>4. QED BY <1>2, <1>3

LEMMA RestoreDoneVouches ==
    ASSUME IInv, VInv, RestoreDone
    PROVE  VInv'
<1>1. /\ script.step = "restore" /\ script.todo = {} /\ UNCHANGED fs
      /\ script' = [script EXCEPT !.step = "syncItems"] /\ UNCHANGED <<inbox, host, reply, owed>>
  BY DEF RestoreDone, At, Goto
<1>2. script'.step = "syncItems" /\ script'.cmd = script.cmd
      /\ script.cmd \in {"commit", "rollback", "recover"}
  BY <1>1, Vouching DEF ScriptPath, Retiring
<1>3. UNCHANGED <<marker, runtime, runtimeDisk, record, recordDisk, rootDisk, data>>
  BY <1>1 DEF fs, host
<1>4. CurrentItems' /\ (Excused => Excused') /\ (Entries => Entries') /\ (Recorded => Recorded')
  BY <1>1, <1>3, QuietFs
<1>5. ASSUME "late" \notin owed PROVE Entries' /\ ScriptVouches'
  <2>1. Entries /\ ScriptVouches /\ script.cmd # "commit"
    BY <1>1, <1>5, Vouching DEF ScriptVouches, At
  <2>2. CASE script.cmd = "recover"
    BY <1>1, <1>2, <1>4, <2>1, <2>2
    DEF ScriptVouches, At, Beginning, Cleaning, Retiring, Decided
  <2>3. CASE script.cmd = "rollback"
    <3>1. BackupKept(script.tok) /\ \A j \in Items : runtime[j] = data[script.tok][j]
      BY <1>1, <2>1, <2>3 DEF ScriptVouches, Due, At
    <3>2. Excused \/ Recorded \/ Kept(runtime)
      BY <3>1 DEF BackupKept, Kept, Items
    <3>3. Excused' \/ Recorded' \/ Kept(runtime)'
      BY <1>3, <1>4, <3>2 DEF Kept
    <3>4. QED BY <1>2, <1>4, <2>1, <2>3, <3>3
          DEF ScriptVouches, Kept, At, Beginning, Cleaning, Retiring, Decided
  <2>4. QED BY <1>2, <2>1, <2>2, <2>3
<1>6. QED BY <1>1, <1>2, <1>3, <1>4, <1>5, ScriptStays DEF Items

(* retire_transaction: everything is durable before the evidence goes.      *)

LEMMA RetireSyncItemsVouches ==
    ASSUME IInv, VInv, RetireSyncItems
    PROVE  VInv'
<1>1. /\ script.step = "syncItems" /\ SyncAll
      /\ script' = [script EXCEPT !.step = "removePhase"] /\ UNCHANGED <<inbox, host, reply, owed>>
  BY DEF RetireSyncItems, At, Goto
<1>2. script'.step = "removePhase" /\ script'.cmd = script.cmd /\ script'.cfg = script.cfg
      /\ script.cmd \in {"commit", "rollback", "recover"}
  BY <1>1, Vouching DEF ScriptPath, Retiring
<1>3. UNCHANGED <<marker, runtime, record>> /\ recordDisk' = {record} /\ rootDisk' = {root}
      /\ \A i \in Items : runtimeDisk'[i] = {runtime[i]}
  BY <1>1 DEF SyncAll, Sync, host
<1>4. rootDisk' \subseteq rootDisk
  BY <1>3 DEF IInv, FsInv, Current
<1>5. CurrentItems' /\ (Excused => Excused') /\ (Entries => Entries') /\ (Recorded => Recorded')
  BY <1>1, <1>3, <1>4, QuietFs
<1>6. Durable'
  BY <1>3 DEF Durable
<1>7. ASSUME "late" \notin owed PROVE Entries' /\ ScriptVouches'
  <2>1. Entries /\ ScriptVouches
    BY <1>1, <1>7, Vouching
  <2>2. CASE script.cmd = "recover"
    BY <1>1, <1>2, <1>5, <2>1, <2>2
    DEF ScriptVouches, At, Beginning, Cleaning, Retiring, Decided
  <2>3. CASE script.cmd = "commit"
    <3>1. Excused \/ script.cfg # marker \/ runtime = Configured(marker)
      BY <1>1, <2>1, <2>3 DEF ScriptVouches, Due
    <3>2. Excused' \/ script'.cfg # marker' \/ runtime' = Configured(marker')
      BY <1>2, <1>3, <1>5, <3>1
    <3>3. QED BY <1>2, <1>5, <1>6, <2>1, <2>3, <3>2
          DEF ScriptVouches, Due, At, Beginning, Cleaning, Retiring, Decided, Items
  <2>4. CASE script.cmd = "rollback"
    <3>1. Excused \/ Recorded \/ Kept(runtime)
      BY <1>1, <2>1, <2>4 DEF ScriptVouches
    <3>2. Excused' \/ Recorded' \/ Kept(runtime)'
      BY <1>3, <1>5, <3>1 DEF Kept
    <3>3. QED BY <1>2, <1>5, <1>6, <2>1, <2>4, <3>2
          DEF ScriptVouches, Kept, At, Beginning, Cleaning, Retiring, Decided
  <2>5. QED BY <1>2, <2>2, <2>3, <2>4
<1>8. QED BY <1>1, <1>2, <1>3, <1>5, <1>7, ScriptStays DEF Items

(* The outcome is decided: what it leaves is what the marker says, or owed. *)
LEMMA RetireRemovePhaseVouches ==
    ASSUME IInv, VInv, RetireRemovePhase
    PROVE  VInv'
<1>1. /\ script.step = "removePhase" /\ WritePhase(script.tok, "absent")
      /\ script' = [script EXCEPT !.step = "syncEntry"] /\ UNCHANGED <<inbox, host, reply>>
      /\ owed \subseteq owed' /\ ("late" \in owed' <=> "late" \in owed)
      /\ script.cmd = "commit" /\ script.cfg # marker => "marker" \in owed'
      /\ script.cmd = "rollback" /\ ~runtime["docker"][2] => "boot" \in owed'
  BY DEF RetireRemovePhase, At
<1>2. script'.step = "syncEntry" /\ script'.cmd = script.cmd
      /\ script.cmd \in {"commit", "rollback", "recover"}
  BY <1>1, Vouching DEF ScriptPath, Retiring
<1>3. UNCHANGED <<marker, runtime, runtimeDisk, record, recordDisk, rootDisk>>
  BY <1>1 DEF WritePhase, host
<1>4. CurrentItems' /\ (Excused => Excused') /\ (Entries => Entries') /\ (Recorded => Recorded')
      /\ (Durable => Durable')
  BY <1>1, <1>3, QuietFs
<1>5. ASSUME "late" \notin owed PROVE Entries' /\ ScriptVouches'
  <2>1. Entries /\ ScriptVouches
    BY <1>1, <1>5, Vouching
  <2>2. CASE script.cmd = "recover"
    BY <1>1, <1>2, <1>4, <2>1, <2>2
    DEF ScriptVouches, At, Beginning, Cleaning, Retiring, Decided
  <2>3. CASE script.cmd = "commit"
    <3>1. Durable /\ (Excused \/ script.cfg # marker \/ runtime = Configured(marker))
      BY <1>1, <2>1, <2>3 DEF ScriptVouches, Due
    <3>2. CASE runtime = Configured(marker)
      <4>1. runtimeDisk["containerd"] = {<<"applied", TRUE>>}
            /\ runtimeDisk["docker"] = {<<marker, TRUE>>}
        BY <3>1, <3>2, ConfiguredItems DEF Durable, Items
      <4>2. SoundDisk'
        BY <1>3, <4>1 DEF SoundDisk, Fits
      <4>3. Vouched'
        BY <4>2 DEF Vouched, Sound
      <4>4. QED BY <1>2, <1>4, <2>1, <2>3, <3>1, <4>3
            DEF ScriptVouches, At, Beginning, Cleaning, Retiring, Decided
    <3>3. CASE Excused \/ script.cfg # marker
      <4>1. Excused'
        BY <1>1, <1>4, <2>3, <3>3 DEF Excused
      <4>2. Vouched'
        BY <4>1 DEF Vouched, Sound
      <4>3. QED BY <1>2, <1>4, <2>1, <2>3, <3>1, <4>2
            DEF ScriptVouches, At, Beginning, Cleaning, Retiring, Decided
    <3>4. QED BY <3>1, <3>2, <3>3
  <2>4. CASE script.cmd = "rollback"
    <3>1. Durable /\ (Excused \/ Recorded \/ Kept(runtime))
      BY <1>1, <2>1, <2>4 DEF ScriptVouches
    <3>2. Kept(runtime) => SoundDisk'
      BY <1>1, <1>3, <2>4, <3>1 DEF Kept, SoundDisk, Fits, Durable, Items
    <3>3. Vouched'
      BY <1>4, <3>1, <3>2 DEF Vouched, Sound
    <3>4. QED BY <1>2, <1>4, <2>1, <2>4, <3>1, <3>3
          DEF ScriptVouches, At, Beginning, Cleaning, Retiring, Decided
  <2>5. QED BY <1>2, <2>2, <2>3, <2>4
<1>6. QED BY <1>1, <1>2, <1>3, <1>4, <1>5, ScriptStays DEF Items

(* The steps after it change neither an item nor the record.                *)
LEMMA DecidedVouches ==
    ASSUME IInv, VInv, script.step \in Decided, NEW s \in Decided,
           script' = [script EXCEPT !.step = s], UNCHANGED <<inbox, host, reply, owed>>,
           UNCHANGED <<runtime, runtimeDisk, record>>, recordDisk' \in {recordDisk, {record}}
    PROVE  VInv'
<1>1. script.step \in Steps /\ s \in Steps
  BY DEF Decided
<1>2. script'.step = s /\ script'.cmd = script.cmd
      /\ script.cmd \in {"commit", "rollback", "recover"}
  BY <1>1, Vouching DEF ScriptPath, Retiring, Decided
<1>3. CurrentItems' /\ (Excused => Excused') /\ (Recorded => Recorded') /\ (Durable => Durable')
      /\ (Vouched => Vouched')
  BY QuietFs DEF host
<1>4. ASSUME "late" \notin owed PROVE Entries' /\ ScriptVouches'
  <2>1. ScriptVouches
    BY <1>1, <1>4, Vouching
  <2>2. CASE script.cmd = "recover"
    <3>1. Recorded
      BY <2>1, <2>2 DEF ScriptVouches, Retiring, Decided
    <3>2. QED BY <1>2, <1>3, <2>2, <3>1
          DEF Entries, Vouched, ScriptVouches, At, Beginning, Cleaning, Retiring, Decided
  <2>3. CASE script.cmd \in {"commit", "rollback"}
    <3>1. Durable /\ Vouched
      BY <2>1, <2>3 DEF ScriptVouches
    <3>2. QED BY <1>2, <1>3, <2>3, <3>1
          DEF Entries, ScriptVouches, At, Beginning, Cleaning, Retiring, Decided
  <2>4. QED BY <1>2, <2>2, <2>3
<1>5. QED BY <1>1, <1>2, <1>3, <1>4, ScriptStays DEF Items

LEMMA RetireVouches ==
    ASSUME IInv, VInv, RetireSyncEntry \/ RetireRemoveData \/ RetireRemoveEntry
    PROVE  VInv'
<1>1. CASE RetireSyncEntry
  <2>1. /\ script.step = "syncEntry" /\ SyncMeta
        /\ script' = [script EXCEPT !.step = "removeData"] /\ UNCHANGED <<inbox, host, reply, owed>>
    BY <1>1 DEF RetireSyncEntry, At, Goto
  <2>2. QED BY <2>1, DecidedVouches DEF SyncMeta, Sync, Decided
<1>2. CASE RetireRemoveData
  <2>1. /\ script.step = "removeData" /\ WriteData(script.tok, Gone)
        /\ script' = [script EXCEPT !.step = "removeEntry"] /\ UNCHANGED <<inbox, host, reply, owed>>
    BY <1>2 DEF RetireRemoveData, At, Goto
  <2>2. QED BY <2>1, DecidedVouches DEF WriteData, Decided
<1>3. CASE RetireRemoveEntry
  <2>1. /\ script.step = "removeEntry" /\ RemoveEntry(script.tok)
        /\ script' = [script EXCEPT !.step = "syncRoot"] /\ UNCHANGED <<inbox, host, reply, owed>>
    BY <1>3 DEF RetireRemoveEntry, At, Goto
  <2>2. QED BY <2>1, DecidedVouches DEF RemoveEntry, Decided
<1>4. QED BY <1>1, <1>2, <1>3

LEMMA IsConfigured ==
    ASSUME NEW f \in [Items -> ItemValues], NEW c,
           f["containerd"] = <<"applied", TRUE>>, f["docker"] = <<c, TRUE>>
    PROVE  f = Configured(c)
<1>1. DOMAIN f = {"containerd", "docker"} /\ f = [i \in {"containerd", "docker"} |-> f[i]]
  BY DEF Items
<1>2. Configured(c) = [i \in {"containerd", "docker"} |-> Configured(c)[i]]
  BY DEF Configured
<1>3. QED BY <1>1, <1>2, ConfiguredItems

(* The transaction is over; a commit that is told has left its deployment.  *)
LEMMA RetireSyncRootVouches ==
    ASSUME IInv, VInv, RetireSyncRoot
    PROVE  VInv'
<1>1. script.step = "syncRoot" /\ SyncMeta /\ owed' = owed
      /\ Exit(IF script.cmd = "recover" THEN "reported" ELSE "silent")
  BY DEF RetireSyncRoot, At
<1>2. script # NoScript /\ script.cmd \in {"commit", "rollback", "recover"}
  BY <1>1, Vouching DEF ScriptPath, Retiring
<1>3. UNCHANGED <<inbox, host>> /\ script' = NoScript
      /\ \/ reply' = reply
         \/ script.own /\ script.cmd = "recover" /\ reply' = "reported"
         \/ script.own /\ script.cmd # "recover" /\ reply' = "silent"
  BY <1>1, <1>2, ExitAnswers DEF IInv, Control
<1>4. UNCHANGED <<marker, runtime, runtimeDisk, record>> /\ recordDisk' = {record}
      /\ rootDisk' = {root}
  BY <1>1, <1>3 DEF SyncMeta, Sync, host
<1>5. rootDisk' \subseteq rootDisk
  BY <1>4 DEF IInv, FsInv, Current
<1>6. CurrentItems' /\ (Excused => Excused') /\ (Entries => Entries') /\ (Durable => Durable')
  BY <1>1, <1>4, <1>5, QuietFs
<1>7. ASSUME "late" \notin owed PROVE Entries' /\ ScriptVouches'
  BY <1>1, <1>3, <1>6, <1>7, Vouching, EndVouches
<1>8. CASE reply' = reply \/ script.cmd # "commit"
  BY <1>1, <1>2, <1>3, <1>4, <1>6, <1>7, <1>8, ScriptStays DEF Items
<1>9. CASE "late" \in owed
  BY <1>1, <1>3, <1>6, <1>9, LateStays
<1>10. CASE script.own /\ script.cmd = "commit" /\ reply' = "silent" /\ "late" \notin owed
  <2>1. op.at = "commit" /\ UNCHANGED <<op, up>>
    BY <1>3, <1>10 DEF IInv, Control, Mine, host
  <2>2. up
    BY <1>2 DEF IInv, Control, Mine
  <2>3. OpVouches
    BY <1>10, <2>2 DEF VInv
  <2>4. Durable
    BY <1>1, <1>10, Vouching DEF ScriptVouches, Decided
  <2>5. Whole => runtime = Configured(op.cfg)
    <3>1. ASSUME Whole PROVE runtime = Configured(op.cfg)
      <4>1. Applied /\ runtime["docker"] = <<op.cfg, TRUE>>
        BY <2>1, <2>3, <3>1 DEF OpVouches, OnContainerd, OnDocker
      <4>2. runtime \in [Items -> ItemValues]
        BY DEF IInv, FsInv, FsType
      <4>3. QED BY <4>1, <4>2, IsConfigured DEF Applied
    <3>2. QED BY <3>1
  <2>6. OpDurable'
    BY <1>4, <1>6, <2>1, <2>4, <2>5 DEF OpDurable, Whole
  <2>7. OpVouches'
    BY <1>4, <1>6, <2>1, <2>3
    DEF OpVouches, OnBackup, OnFound, OnContainerd, OnDocker, Whole, Applied, Items
  <2>8. OpKinds'
    BY <1>3 DEF VInv, OpKinds, Whole, host
  <2>9. InboxVouches'
    BY <1>2, <1>3, <1>10, InboxStays
  <2>10. QED BY <1>6, <1>7, <1>10, <2>6, <2>7, <2>8, <2>9 DEF VInv
<1>11. QED BY <1>2, <1>3, <1>8, <1>9, <1>10

(* DEPLOYMENT_RECOVERY_SCRIPT: the record is durable before a change.       *)
LEMMA RecoverInspectVouches ==
    ASSUME IInv, VInv, RecoverInspect
    PROVE  VInv'
<1>1. PICK t \in root : script' = [script EXCEPT !.step = "remember", !.tok = t]
  BY DEF RecoverInspect
<1>2. script.step = "enter" /\ script.cmd = "recover" /\ UNCHANGED <<fs, inbox, host, reply, owed>>
  BY DEF RecoverInspect, Enter, At
<1>3. script \in Script
  BY <1>2, Vouching
<1>4. script'.step = "remember" /\ script'.cmd = "recover"
  BY <1>1, <1>2, <1>3 DEF Script
<1>5. UNCHANGED <<marker, runtime, runtimeDisk, record, recordDisk, rootDisk>>
  BY <1>2 DEF fs, host
<1>6. CurrentItems' /\ (Excused => Excused') /\ (Entries => Entries')
  BY <1>2, <1>5, QuietFs
<1>7. ASSUME "late" \notin owed PROVE Entries' /\ ScriptVouches'
  BY <1>2, <1>4, <1>6, <1>7, Vouching
  DEF ScriptVouches, At, Beginning, Cleaning, Retiring, Decided
<1>8. QED BY <1>2, <1>5, <1>6, <1>7, ScriptStays DEF Items

LEMMA RecoverRememberVouches ==
    ASSUME IInv, VInv, RecoverRemember
    PROVE  VInv'
<1>1. /\ script.step = "remember" /\ WriteRecord(TRUE)
      /\ script' = [script EXCEPT !.step = "rememberSync"] /\ UNCHANGED <<inbox, host, reply, owed>>
  BY DEF RecoverRemember, At, Goto
<1>2. script'.step = "rememberSync" /\ script'.cmd = "recover" /\ script.cmd = "recover"
  BY <1>1, Vouching DEF ScriptPath
<1>3. UNCHANGED <<marker, owed, runtime, runtimeDisk, rootDisk>> /\ record' = TRUE
      /\ recordDisk' = recordDisk \cup {TRUE}
  BY <1>1 DEF WriteRecord, host
<1>4. CurrentItems' /\ (Excused => Excused') /\ (Entries => Entries')
  <2>1. (Excused => Excused') /\ (Sound => Sound')
    BY <1>3 DEF Excused, Sound, SoundDisk, Fits
  <2>2. Recorded => Recorded'
    BY <1>3 DEF Recorded
  <2>3. CurrentItems'
    BY <1>3 DEF CurrentItems, VInv
  <2>4. QED BY <1>3, <2>1, <2>2, <2>3 DEF Entries, Vouched
<1>5. ASSUME "late" \notin owed PROVE Entries' /\ ScriptVouches'
  BY <1>1, <1>2, <1>3, <1>4, <1>5, Vouching
  DEF ScriptVouches, At, Beginning, Cleaning, Retiring, Decided
<1>6. QED BY <1>1, <1>2, <1>4, <1>5, ScriptStays DEF Items

LEMMA RecoverRememberSyncVouches ==
    ASSUME IInv, VInv, RecoverRememberSync
    PROVE  VInv'
<1> DEFINE s == IF phase[script.tok] = "ready" THEN "restore" ELSE "removeData"
<1>1. /\ script.step = "rememberSync" /\ SyncMeta
      /\ script' = [script EXCEPT !.step = s] /\ UNCHANGED <<inbox, host, reply, owed>>
  BY DEF RecoverRememberSync, At, Goto
<1>2. s \in {"restore", "removeData"}
  OBVIOUS
<1> HIDE DEF s
<1>3. script'.step = s /\ script'.cmd = "recover" /\ script.cmd = "recover"
  BY <1>1, <1>2, Vouching DEF ScriptPath
<1>4. UNCHANGED <<marker, runtime, runtimeDisk, record>> /\ recordDisk' = {record}
      /\ rootDisk' = {root}
  BY <1>1 DEF SyncMeta, Sync, host
<1>5. CurrentItems' /\ (Excused => Excused')
  BY <1>1, <1>4, QuietFs
<1>6. ASSUME "late" \notin owed PROVE Entries' /\ ScriptVouches'
  <2>1. record
    BY <1>1, <1>6, Vouching DEF ScriptVouches, At
  <2>2. Recorded'
    <3>1. record = TRUE
      BY <2>1 DEF IInv, FsInv, FsType
    <3>2. QED BY <1>4, <3>1 DEF Recorded
  <2>3. QED BY <1>2, <1>3, <2>2
        DEF Entries, Vouched, ScriptVouches, At, Beginning, Cleaning, Retiring, Decided
<1>7. QED BY <1>1, <1>3, <1>5, <1>6, ScriptStays DEF Items

(* deployment_settle_reapply: the runtime is what the marker says.          *)
LEMMA SettleRemoveVouches ==
    ASSUME IInv, VInv, SettleRemove
    PROVE  VInv'
<1>1. /\ script.step = "enter" /\ WriteRecord(FALSE) /\ script.cmd = "settle"
      /\ script' = [script EXCEPT !.step = "syncRecord"] /\ UNCHANGED <<inbox, host, reply, owed>>
  BY DEF SettleRemove, At, Goto, Enter
<1>2. script'.step = "syncRecord" /\ script'.cmd = "settle"
  BY <1>1, Vouching
<1>3. UNCHANGED <<marker, owed, runtime, runtimeDisk>>
  BY <1>1 DEF WriteRecord, host
<1>4. CurrentItems' /\ (Excused => Excused') /\ (Sound => Sound')
  BY <1>3 DEF VInv, CurrentItems, Excused, Sound, SoundDisk, Fits
<1>5. ASSUME "late" \notin owed PROVE Entries' /\ ScriptVouches'
  <2>1. Sound
    BY <1>1, <1>5, Vouching DEF ScriptVouches, Due
  <2>2. QED BY <1>2, <1>4, <2>1
        DEF Entries, Vouched, ScriptVouches, At, Beginning, Cleaning, Retiring, Decided
<1>6. QED BY <1>1, <1>3, <1>4, <1>5, ScriptStays DEF Items

LEMMA SettleSyncVouches ==
    ASSUME IInv, VInv, SettleSync
    PROVE  VInv'
<1>1. script.step = "syncRecord" /\ SyncMeta /\ Exit("silent") /\ owed' = owed
  BY DEF SettleSync, At
<1>2. script # NoScript /\ script.cmd = "settle"
  BY <1>1, Vouching DEF ScriptPath, At
<1>3. UNCHANGED <<inbox, host>> /\ script' = NoScript
      /\ (reply' = reply \/ (script.own /\ reply' = "silent"))
  BY <1>1, <1>2, ExitAnswers DEF IInv, Control
<1>4. UNCHANGED <<marker, runtime, runtimeDisk, record>> /\ recordDisk' = {record}
  BY <1>1, <1>3 DEF SyncMeta, Sync, host
<1>5. CurrentItems' /\ (Excused => Excused') /\ (Sound => Sound')
  BY <1>1, <1>4, QuietFs
<1>6. ASSUME "late" \notin owed PROVE Entries' /\ ScriptVouches'
  <2>1. Sound
    BY <1>1, <1>6, Vouching DEF ScriptVouches, At
  <2>2. QED BY <1>3, <1>5, <2>1, EndVouches DEF Entries, Vouched
<1>7. QED BY <1>1, <1>2, <1>3, <1>4, <1>5, <1>6, ScriptStays DEF Items

(* A command begins with what it was sent with, and alone.                  *)
LEMMA BeginVouches ==
    ASSUME IInv, VInv, NEW c \in inbox, Begin(c)
    PROVE  VInv'
<1>1. /\ script = NoScript /\ inbox' = inbox \ {c} /\ UNCHANGED <<fs, host, reply, owed>>
      /\ script' = [step |-> "enter", cmd |-> c.cmd, tok |-> c.tok, cfg |-> c.cfg,
                    own |-> c.own, todo |-> Items]
  BY DEF Begin
<1>2. script'.step = "enter" /\ script'.cmd = c.cmd /\ script'.tok = c.tok /\ script'.cfg = c.cfg
      /\ script'.todo = Items
  BY <1>1
<1>3. UNCHANGED <<marker, op, up, runtime, runtimeDisk, record, recordDisk, rootDisk, data>>
  BY <1>1 DEF fs, host
<1>4. CurrentItems' /\ (Excused => Excused') /\ (Entries => Entries') /\ (Recorded => Recorded')
      /\ (Sound => Sound') /\ (Durable => Durable')
  BY <1>1, <1>3, QuietFs
<1>5. CASE "late" \in owed
  BY <1>1, <1>4, <1>5, LateStays
<1>6. CASE "late" \notin owed
  <2>1. Entries /\ InboxVouches /\ (up => OpVouches) /\ OpDurable
    BY <1>6 DEF VInv
  <2>2. inbox' = {} /\ Due(c.cmd, c.tok, c.cfg)
    BY <1>1, <2>1 DEF InboxVouches
  <2>3. InboxVouches'
    BY <2>2 DEF InboxVouches
  <2>4. ScriptVouches'
    <3>1. c.cmd \in Items \cup {"rollback"} => Entered'
      BY <1>3, <2>2 DEF Due, Entered
    <3>2. c.cmd = "rollback" => Excused' \/ Recorded' \/ Kept(data[c.tok])'
      BY <1>3, <1>4, <2>2 DEF Due, BackupKept, Kept
    <3>3. c.cmd = "commit" => Excused' \/ c.cfg # marker' \/ runtime' = Configured(marker')
      BY <1>3, <1>4, <2>2 DEF Due
    <3>4. c.cmd = "settle" => Sound'
      BY <1>4, <2>2 DEF Due
    <3>5. QED BY <1>2, <3>1, <3>2, <3>3, <3>4
          DEF ScriptVouches, Due, BackupKept, Kept, At, Beginning, Cleaning, Retiring, Decided
  <2>5. (up' => OpVouches') /\ OpDurable'
    BY <1>1, <1>3, <1>4, <2>1 DEF OpVouches, OpDurable, OnBackup, OnFound, OnContainerd, OnDocker,
       Whole, Told, Applied, BackupKept, Kept, Entered
  <2>6. OpKinds'
    BY <1>3 DEF VInv, OpKinds, Whole
  <2>7. QED BY <1>4, <2>1, <2>3, <2>4, <2>5, <2>6 DEF VInv
<1>7. QED BY <1>5, <1>6

-----------------------------------------------------------------------------
(* The host and what it counts on.                                          *)

(* A script that does not move vouches for what it did.                     *)
LEMMA ScriptWaits ==
    ASSUME IInv, VInv, UNCHANGED <<fs, marker, owed>>, ScriptVouches,
           script'.step = script.step, script'.cmd = script.cmd, script'.tok = script.tok,
           script'.cfg = script.cfg, script'.todo = script.todo
    PROVE  ScriptVouches'
<1>1. UNCHANGED <<runtime, runtimeDisk, record, recordDisk, rootDisk, data>>
  BY DEF fs
<1>2. (Excused => Excused') /\ (Recorded => Recorded') /\ (Sound => Sound')
      /\ (Vouched => Vouched') /\ (Durable => Durable')
  BY <1>1, QuietFs
<1>3. Entered => Entered'
  BY <1>1 DEF Entered
<1>4. Excused \/ Recorded \/ Kept(runtime) => Excused' \/ Recorded' \/ Kept(runtime)'
  BY <1>1, <1>2 DEF Kept
<1>5. PICK t : t = script.tok
  OBVIOUS
<1>6. BackupKept(t) => BackupKept(t)'
  BY <1>1, <1>2 DEF BackupKept, Kept
<1>7. PICK c : c = script.cfg
  OBVIOUS
<1>8. PICK d : d = script.cmd
  OBVIOUS
<1>9. Due(d, t, c) => Due(d, t, c)'
  BY <1>1, <1>2, <1>3, <1>6 DEF Due
<1>10. QED BY <1>1, <1>2, <1>4, <1>5, <1>6, <1>7, <1>8, <1>9 DEF ScriptVouches, At

(* Nothing changes in the guest: only the operation's own claims are new.   *)
LEMMA HostVouches ==
    ASSUME IInv, VInv, UNCHANGED <<fs, up, script, marker, owed>>, inbox' \subseteq inbox,
           OpKinds', "late" \notin owed => (up => OpVouches') /\ OpDurable'
    PROVE  VInv'
<1>1. UNCHANGED <<runtime, runtimeDisk, record, recordDisk, rootDisk, data>>
  BY DEF fs
<1>2. CurrentItems' /\ (Excused => Excused') /\ (Entries => Entries') /\ (Recorded => Recorded')
      /\ (Sound => Sound') /\ (Vouched => Vouched') /\ (Durable => Durable')
  BY <1>1, QuietFs
<1>3. ASSUME "late" \notin owed PROVE ScriptVouches' /\ InboxVouches' /\ Entries'
  <2>1. ScriptVouches /\ InboxVouches /\ Entries
    BY <1>3 DEF VInv
  <2>2. ScriptVouches'
    BY <2>1, ScriptWaits
  <2>3. InboxVouches'
    <3> SUFFICES ASSUME NEW c \in inbox'
                 PROVE  /\ inbox' = {c} /\ (c.cmd # "recover" => script' = NoScript)
                        /\ Due(c.cmd, c.tok, c.cfg)'
      BY DEF InboxVouches
    <3>1. inbox = {c} /\ (c.cmd # "recover" => script = NoScript) /\ Due(c.cmd, c.tok, c.cfg)
      BY <2>1 DEF InboxVouches
    <3>2. Due(c.cmd, c.tok, c.cfg)'
      BY <1>1, <1>2, <3>1 DEF Due, BackupKept, Kept, Entered
    <3>3. QED BY <3>1, <3>2
  <2>4. QED BY <1>2, <2>1, <2>2, <2>3
<1>4. QED BY <1>2, <1>3 DEF VInv

(* An operation that ends, stops its VM or recovers claims nothing.         *)
LEMMA FailVouches ==
    ASSUME IInv, VInv, op # NoOp,
           Fail \/ Succeed \/ Done \/ RecoverAs("refresh") \/ RecoverAs("cancel")
                \/ (op.current /\ RecoverAs("reapply"))
    PROVE  OpKinds' \/ marker' # marker
<1>1. op \in Op
  BY OpShape DEF IInv, Control
<1>2. Done \/ Move("stop") \/ RecoverAs("refresh") \/ RecoverAs("cancel")
      \/ (op.current /\ RecoverAs("reapply"))
  BY DEF Fail, Succeed
<1> SUFFICES ASSUME marker' = marker PROVE OpKinds'
  OBVIOUS
<1>3. OpKinds
  BY DEF VInv
<1>4. CASE Done
  BY <1>4 DEF Done, NoOp, OpKinds, Transactional, Items
<1>5. CASE Move("stop")
  <2>1. op'.at = "stop" /\ op'.kind = op.kind /\ op'.reapply = op.reapply /\ op'.cfg = op.cfg
        /\ op'.current = op.current
    BY <1>1, <1>5 DEF Move, Op
  <2>2. QED BY <1>3, <2>1 DEF OpKinds, Transactional, Items
<1>6. ASSUME NEW k \in Kinds, RecoverAs(k), k \in {"refresh", "cancel"} \/ (k = "reapply" /\ op.current)
      PROVE  OpKinds'
  <2>1. op'.at = "recover" /\ op'.kind = k /\ op'.reapply = (k = "reapply") /\ op'.cfg = op.cfg
        /\ op'.current = op.current
    BY <1>1, <1>6 DEF RecoverAs, Op
  <2>2. QED BY <1>3, <1>6, <2>1 DEF OpKinds, Transactional, Items
<1>7. QED BY <1>2, <1>4, <1>5, <1>6 DEF Kinds

LEMMA IdleVouches ==
    ASSUME op'.at \in {"recover", "stop", "idle"}, ~op'.called
    PROVE  OpVouches' /\ OpDurable'
BY DEF OpVouches, OpDurable, OnBackup, OnFound, OnContainerd, OnDocker, Told, Items

LEMMA FailingVouches ==
    ASSUME IInv, VInv, op # NoOp, UNCHANGED <<fs, up, script, marker, owed>>, inbox' \subseteq inbox,
           Fail \/ Succeed \/ Done \/ RecoverAs("refresh") \/ RecoverAs("cancel")
                \/ (op.current /\ RecoverAs("reapply"))
    PROVE  VInv'
<1>1. OpKinds'
  BY FailVouches
<1>2. ~op'.called /\ op'.at \in {"recover", "stop", "idle"}
  BY FailShape DEF IInv, Control, Kinds
<1>3. OpVouches' /\ OpDurable'
  BY <1>2, IdleVouches
<1>4. QED BY <1>1, <1>3, HostVouches

(* The next stage of the same transaction.                                  *)
LEMMA MoveShape ==
    ASSUME CtlType, op # NoOp, NEW a \in Stages, Move(a)
    PROVE  /\ op'.at = a /\ ~op'.called /\ op'.kind = op.kind /\ op'.reapply = op.reapply
           /\ op'.tok = op.tok /\ op'.cfg = op.cfg /\ op'.current = op.current
<1>1. op \in Op
  BY OpShape
<1>2. QED BY <1>1 DEF Move, Op

LEMMA MoveVouches ==
    ASSUME IInv, VInv, op # NoOp, UNCHANGED <<fs, up, script, marker, owed>>, inbox' \subseteq inbox,
           NEW a \in Items \cup {"ready", "commit", "rollback", "mark", "settle"}, Move(a),
           \/ op.at = "begin" /\ Told /\ a = IF Whole THEN "containerd" ELSE "docker"
           \/ op.at = "containerd" /\ Told /\ a = "docker"
           \/ op.at = "docker" /\ Told /\ a = "ready"
           \/ op.at = "ready" /\ a \in {"commit", "rollback"}
           \/ op.at \in Items /\ a = "rollback"
           \/ op.at = "commit" /\ Told /\ op.kind = "refresh" /\ a = "mark"
           \/ op.at = "commit" /\ Told /\ op.kind # "refresh" /\ op.reapply /\ a = "settle"
    PROVE  VInv'
<1>1. /\ op'.at = a /\ ~op'.called /\ op'.kind = op.kind /\ op'.reapply = op.reapply
      /\ op'.tok = op.tok /\ op'.cfg = op.cfg /\ op'.current = op.current
  BY MoveShape DEF IInv, Control, Stages, Commands, Items
<1>2. (Whole' <=> Whole) /\ ~Told'
  BY <1>1 DEF Whole, Told
<1>3. OpKinds
  BY DEF VInv
<1>4. OpKinds'
  BY <1>1, <1>2, <1>3 DEF OpKinds, Whole, Transactional, Items
<1>5. UNCHANGED <<runtime, runtimeDisk, recordDisk, rootDisk, data>>
  BY DEF fs
<1>6. (Excused => Excused') /\ (Recorded => Recorded') /\ (Applied => Applied')
      /\ (Durable => Durable') /\ (Entered => Entered')
  BY <1>5 DEF Excused, Recorded, Applied, Durable, Entered
<1>7. ASSUME "late" \notin owed PROVE (up => OpVouches') /\ OpDurable'
  <2>1. (up => OpVouches) /\ OpDurable
    BY <1>7 DEF VInv
  <2>2. OpDurable'
    BY <1>1, <1>2, <1>5, <1>6, <2>1 DEF OpDurable, Whole, Items
  <2>3. ASSUME up PROVE OpVouches'
    <3>1. OpVouches
      BY <2>1, <2>3
    <3>2. ASSUME OnBackup' PROVE OnBackup
      BY <1>1, <1>2, <3>2 DEF OnBackup, Items
    <3>3. ASSUME OnFound' PROVE OnFound
      BY <1>1, <1>2, <1>3, <3>3 DEF OnFound, OpKinds, Items
    <3>4. ASSUME OnContainerd' PROVE OnContainerd
      BY <1>1, <1>2, <1>3, <3>4 DEF OnContainerd, Items
    <3>5. ASSUME OnDocker' PROVE OnDocker
      BY <1>1, <1>2, <3>5 DEF OnDocker, Items
    <3>6. OnBackup' => (Excused' \/ Recorded' \/ Kept(data[op.tok])') /\ Entered'
      BY <1>1, <1>5, <1>6, <3>1, <3>2 DEF OpVouches, BackupKept, Kept
    <3>7. QED BY <1>1, <1>5, <1>6, <3>1, <3>3, <3>4, <3>5, <3>6 DEF OpVouches, BackupKept, Kept
  <2>4. QED BY <2>2, <2>3
<1>8. QED BY <1>4, <1>7, HostVouches

LEMMA RecoverOkVouches ==
    ASSUME IInv, VInv, RecoverOk
    PROVE  VInv'
<1>1. /\ op.at = "recover" /\ Answered /\ reply' = "none"
      /\ UNCHANGED <<fs, up, script, inbox, marker, owed>>
  BY DEF RecoverOk, guestSide
<1>2. op # NoOp /\ CtlType /\ Told
  BY <1>1, AnsweredShape
<1>3. op \in Op
  BY <1>2, OpShape
<1>4. CASE Fail \/ Done \/ RecoverAs("refresh") \/ (op.current /\ RecoverAs("reapply"))
  BY <1>1, <1>2, <1>4, FailingVouches
<1>5. ASSUME NEW t \in Tokens, op.kind \notin {"running", "cancel"},
             op' = [op EXCEPT !.at = "begin", !.tok = t, !.called = FALSE,
                              !.reapply = @ \/ recovered]
      PROVE  VInv'
  <2>1. PICK b \in BOOLEAN : b = (op.reapply \/ recovered)
    BY Zenon
  <2>2. op' = [op EXCEPT !.at = "begin", !.tok = t, !.called = FALSE, !.reapply = b]
    BY <1>5, <2>1
  <2>3. op'.at = "begin" /\ ~op'.called /\ op'.kind = op.kind /\ op'.reapply = b
        /\ op'.cfg = op.cfg /\ op'.current = op.current
    BY <1>3, <2>2 DEF Op
  <2>4. (op.reapply => b) /\ (recovered => b) /\ op.kind \in Kinds
    BY <1>3, <2>1 DEF Op
  <2>5. OpKinds'
    BY <1>1, <1>5, <2>3, <2>4 DEF VInv, OpKinds, Kinds, Transactional, Items
  <2>6. ASSUME "late" \notin owed PROVE (up => OpVouches') /\ OpDurable'
    <3>1. OpDurable'
      BY <2>3 DEF OpDurable
    <3>2. ASSUME up PROVE OpVouches'
      <4>1. OpVouches
        BY <2>6, <3>2 DEF VInv
      <4>2. ASSUME OnFound' PROVE OnFound
        <5>1. ~b
          BY <2>3, <4>2 DEF OnFound, Whole
        <5>2. reply = "silent"
          BY <1>2, <2>4, <5>1 DEF Told, recovered
        <5>3. QED BY <1>1, <1>2, <5>2 DEF OnFound
      <4>3. OnFound' => Excused' \/ Applied'
        BY <1>1, <4>1, <4>2 DEF OpVouches, Excused, Applied, fs
      <4>4. QED BY <2>3, <4>3 DEF OpVouches, OnBackup, OnContainerd, OnDocker, Told, Items
    <3>3. QED BY <3>1, <3>2
  <2>7. QED BY <1>1, <2>5, <2>6, HostVouches
<1>6. CASE op.kind = "running" \/ op.kind = "cancel"
  BY <1>4, <1>6 DEF RecoverOk
<1>7. CASE op.kind \notin {"running", "cancel"}
  <2>1. PICK t \in Tokens : op' = [op EXCEPT !.at = "begin", !.tok = t, !.called = FALSE,
                                             !.reapply = @ \/ recovered]
    BY <1>7 DEF RecoverOk
  <2>2. QED BY <1>5, <1>7, <2>1
<1>8. QED BY <1>6, <1>7

LEMMA NextStagesVouch ==
    ASSUME IInv, VInv, BeginOk \/ ConfigureOk \/ CommitOk \/ RollbackOk \/ SettleOk
    PROVE  VInv'
<1>1. /\ Answered /\ reply' = "none" /\ UNCHANGED <<fs, up, script, inbox, marker, owed>>
  BY DEF BeginOk, ConfigureOk, CommitOk, RollbackOk, SettleOk, guestSide
<1>2. op # NoOp /\ Told
  BY <1>1, AnsweredShape
<1>3. CASE Fail \/ Succeed \/ Done
  BY <1>1, <1>2, <1>3, FailingVouches
<1>4. CASE BeginOk
  BY <1>1, <1>2, <1>4, MoveVouches DEF BeginOk, Whole, Items
<1>5. CASE ConfigureOk
  BY <1>1, <1>2, <1>5, MoveVouches DEF ConfigureOk, Items
<1>6. CASE CommitOk
  BY <1>1, <1>2, <1>3, <1>6, MoveVouches DEF CommitOk, Items
<1>7. QED BY <1>3, <1>4, <1>5, <1>6 DEF RollbackOk, SettleOk

LEMMA ReadyVouches ==
    ASSUME IInv, VInv, Ready
    PROVE  VInv'
<1>1. op.at = "ready" /\ UNCHANGED <<fs, up, script, inbox, marker, owed>>
      /\ (Move("commit") \/ Move("rollback"))
  BY DEF Ready, guestSide
<1>2. op # NoOp
  BY <1>1 DEF NoOp
<1>3. QED BY <1>1, <1>2, MoveVouches DEF Items

(* An unsuccessful call is over: the operation rolls back or fails.         *)
LEMMA SettledVouches ==
    ASSUME IInv, VInv, Settled
    PROVE  VInv'
<1>1. /\ op.called /\ UNCHANGED <<fs, up, script, marker, owed>> /\ inbox' \subseteq inbox
  BY DEF Settled, guestSide
<1>2. op # NoOp
  BY <1>1 DEF NoOp
<1>3. CASE op.at \in Items
  <2>1. Move("rollback")
    BY <1>3 DEF Settled
  <2>2. QED BY <1>1, <1>2, <1>3, <2>1, MoveVouches
<1>4. CASE op.at \notin Items
  <2>1. Fail \/ Succeed \/ Done \/ RecoverAs("cancel")
    BY <1>4 DEF Settled
  <2>2. QED BY <1>1, <1>2, <2>1, FailingVouches
<1>5. QED BY <1>3, <1>4

(* No command of the operation is left between its calls.                   *)
LEMMA BetweenCalls ==
    ASSUME IInv, "late" \notin owed, op # NoOp, ~op.called
    PROVE  inbox = {} /\ (op.at \notin {"recover", "stop"} => script = NoScript)
<1>1. ~script.own /\ \A c \in inbox : ~c.own
  BY DEF IInv, Control, Mine
<1>2. QED BY <1>1 DEF IInv, Control, Alone

(* The marker is written for what the commit made durable.                  *)
LEMMA MarkVouches ==
    ASSUME IInv, VInv, Mark
    PROVE  VInv'
<1>1. op.at = "mark" /\ UNCHANGED <<fs, up, script, inbox>>
  BY DEF Mark, guestSide
<1>2. op # NoOp /\ CtlType /\ ~op.called
  BY <1>1 DEF NoOp, IInv, Control, Paths, Commands
<1>3. CASE UNCHANGED <<marker, owed>> /\ Fail
  BY <1>1, <1>2, <1>3, FailingVouches
<1>4. CASE /\ marker' = op.cfg /\ owed' = owed \ {"marker"}
           /\ IF op.reapply THEN Move("settle") ELSE Succeed
  <2>1. UNCHANGED <<runtime, runtimeDisk, recordDisk, rootDisk>>
    BY <1>1 DEF fs
  <2>2. CurrentItems'
    BY <2>1 DEF VInv, CurrentItems
  <2>3. \/ op' = NoOp
        \/ /\ op.reapply /\ op'.at = "settle" /\ ~op'.called /\ op'.kind = op.kind
           /\ op'.reapply = op.reapply /\ op'.cfg = op.cfg
        \/ op'.at = "stop" /\ ~op'.called /\ op'.kind = op.kind /\ op'.cfg = op.cfg
    BY <1>2, <1>4, MoveShape DEF Done, Succeed, Stages, Commands
  <2>4. NoOp.at = "idle" /\ ~NoOp.called /\ ~NoOp.current /\ NoOp.kind = "none"
    BY DEF NoOp
  <2>5. OpKinds
    BY DEF VInv
  <2>6. op.kind = "refresh"
    BY <1>1, <2>5 DEF OpKinds
  <2>7. OpKinds'
    BY <1>4, <2>3, <2>4, <2>6 DEF OpKinds, Transactional, Items
  <2>8. CASE "late" \in owed
    BY <1>4, <2>2, <2>7, <2>8 DEF VInv
  <2>9. CASE "late" \notin owed
    <3>1. inbox = {} /\ script = NoScript
      BY <1>1, <1>2, <2>9, BetweenCalls
    <3>2. ScriptVouches' /\ InboxVouches'
      BY <1>1, <3>1, EndVouches DEF InboxVouches
    <3>3. Durable /\ runtime = Configured(op.cfg)
      BY <1>1, <2>9 DEF VInv, OpDurable
    <3>4. runtime["containerd"] = <<"applied", TRUE>> /\ runtime["docker"] = <<op.cfg, TRUE>>
      BY <3>3, ConfiguredItems
    <3>5. SoundDisk'
      BY <1>4, <2>1, <3>3, <3>4 DEF SoundDisk, Fits, Durable, Items
    <3>6. Entries'
      BY <3>5 DEF Entries, Vouched, Sound
    <3>7. OpVouches' /\ OpDurable'
      <4>1. op'.at \in {"idle", "stop", "settle"} /\ ~op'.called
        BY <2>3, <2>4
      <4>2. OpVouches'
        BY <4>1 DEF OpVouches, OnBackup, OnFound, OnContainerd, OnDocker, Told, Items
      <4>3. op'.at = "settle" => op'.cfg = op.cfg
        BY <2>3, <2>4
      <4>4. OpDurable'
        BY <2>1, <3>3, <4>1, <4>3 DEF OpDurable, Durable, Told
      <4>5. QED BY <4>2, <4>4
    <3>8. QED BY <2>2, <2>7, <3>2, <3>6, <3>7 DEF VInv
  <2>10. QED BY <2>8, <2>9
<1>5. QED BY <1>3, <1>4 DEF Mark

(* A command is sent with what its stage counts on.                         *)
LEMMA CallVouches ==
    ASSUME IInv, VInv, Call
    PROVE  VInv'
<1>0. PICK c : c = [cmd |-> op.at, tok |-> op.tok, cfg |-> op.cfg, own |-> TRUE]
  OBVIOUS
<1>1. /\ op.at \in Commands /\ ~op.called /\ up /\ op' = [op EXCEPT !.called = TRUE]
      /\ inbox' = inbox \cup {c} /\ reply' = "none"
      /\ UNCHANGED <<fs, up, script, marker, owed>>
  BY <1>0 DEF Call, guestSide
<1>2. op # NoOp
  BY <1>1 DEF NoOp, Commands
<1>3. op \in Op /\ FsType
  BY <1>2, OpShape DEF IInv, Control, FsInv
<1>4. /\ op'.at = op.at /\ op'.tok = op.tok /\ op'.cfg = op.cfg /\ op'.called /\ op'.kind = op.kind
      /\ op'.reapply = op.reapply /\ op'.current = op.current
  BY <1>1, <1>3 DEF Op
<1>5. c.cmd = op.at /\ c.tok = op.tok /\ c.cfg = op.cfg
  BY <1>0
<1>6. UNCHANGED <<runtime, runtimeDisk, record, recordDisk, rootDisk, data>>
  BY <1>1 DEF fs
<1>7. CurrentItems' /\ (Excused => Excused') /\ (Entries => Entries') /\ (Recorded => Recorded')
      /\ (Sound => Sound') /\ (Durable => Durable') /\ (Applied => Applied') /\ (Entered => Entered')
  BY <1>1, <1>6, QuietFs DEF Applied, Entered
<1>8. OpKinds /\ OpKinds'
  BY <1>1, <1>4 DEF VInv, OpKinds, Whole
<1>9. CASE "late" \in owed
  BY <1>1, <1>7, <1>8, <1>9 DEF VInv
<1>10. CASE "late" \notin owed
  <2>1. Entries /\ OpVouches /\ OpDurable
    BY <1>1, <1>10 DEF VInv
  <2>2. inbox' = {c} /\ (c.cmd # "recover" => script' = NoScript)
    BY <1>1, <1>2, <1>5, <1>10, BetweenCalls DEF Commands
  <2>3. op.at \in Items \cup {"rollback"} => Entered'
    BY <1>1, <1>7, <2>1 DEF OpVouches, OnBackup
  <2>4. op.at = "rollback" => Excused' \/ Recorded' \/ Kept(data[op.tok])'
    <3> SUFFICES ASSUME op.at = "rollback" PROVE Excused' \/ Recorded' \/ Kept(data[op.tok])'
      OBVIOUS
    <3>1. BackupKept(op.tok)
      BY <1>1, <2>1 DEF OpVouches, OnBackup
    <3>2. QED BY <1>1, <1>4, <1>6, <1>7, <3>1 DEF BackupKept, Kept
  <2>5. op.at = "commit" => Excused' \/ op.cfg # marker' \/ runtime' = Configured(marker')
    <3> SUFFICES ASSUME op.at = "commit", ~Excused, op.cfg = marker
                 PROVE  runtime = Configured(marker)
      BY <1>1, <1>6, <1>7
    <3>1. OnDocker /\ (OnFound \/ OnContainerd)
      BY DEF OnDocker, OnFound, OnContainerd
    <3>2. runtime["docker"] = <<marker, TRUE>> /\ Applied
      BY <2>1, <3>1 DEF OpVouches
    <3>3. QED BY <1>3, <3>2, IsConfigured DEF Applied, FsType
  <2>6. op.at = "settle" => Sound'
    <3> SUFFICES ASSUME op.at = "settle" PROVE Sound'
      OBVIOUS
    <3>1. Durable /\ runtime = Configured(marker)
      BY <1>8, <2>1 DEF OpDurable, OpKinds
    <3>2. runtime["containerd"] = <<"applied", TRUE>> /\ runtime["docker"] = <<marker, TRUE>>
      BY <3>1, ConfiguredItems
    <3>3. SoundDisk
      BY <3>1, <3>2 DEF SoundDisk, Fits, Durable, Items
    <3>4. QED BY <1>7, <3>3 DEF Sound
  <2>7. Due(c.cmd, c.tok, c.cfg)'
    BY <1>4, <1>5, <2>3, <2>4, <2>5, <2>6 DEF Due, BackupKept, Kept
  <2>8. InboxVouches'
    BY <2>2, <2>7 DEF InboxVouches
  <2>9. ScriptVouches'
    BY <1>1, <1>10, ScriptWaits DEF VInv
  <2>10. OpVouches' /\ OpDurable'
    BY <1>1, <1>4, <1>6, <1>7, <2>1 DEF OpVouches, OpDurable, OnBackup, OnFound, OnContainerd, OnDocker,
       Whole, Told, Applied, BackupKept, Kept, Commands, Items
  <2>11. QED BY <1>7, <1>8, <2>1, <2>8, <2>9, <2>10 DEF VInv
<1>11. QED BY <1>9, <1>10

(* A start counts on nothing yet.                                           *)
LEMMA NewOpKinds ==
    ASSUME NEW k \in Kinds, NEW b \in BOOLEAN, op' = NewOp(k, b), UNCHANGED marker,
           k \in {"running", "refresh"} \/ (k = "reconcile" /\ marker = want)
    PROVE  OpKinds' /\ OpVouches' /\ OpDurable'
<1>1. /\ op'.at = "recover" /\ op'.kind = k /\ op'.cfg = want /\ ~op'.called
      /\ (op'.current <=> marker = want)
  BY DEF NewOp
<1>2. OpKinds'
  BY <1>1 DEF OpKinds, Transactional, Items
<1>3. QED BY <1>1, <1>2, IdleVouches

LEMMA StartRunningVouches ==
    ASSUME IInv, VInv, StartRunning
    PROVE  VInv'
<1>1. /\ op' = NewOp("running", FALSE)
      /\ owed' = owed \cup (IF inbox = {} THEN {} ELSE {"late"})
      /\ UNCHANGED <<fs, up, script, inbox, reply, marker, want>>
  BY DEF StartRunning, guestSide
<1>2. OpKinds' /\ OpVouches' /\ OpDurable'
  BY <1>1, NewOpKinds DEF Kinds
<1>3. CASE inbox = {}
  <2>1. owed' = owed
    BY <1>1, <1>3
  <2>2. QED BY <1>1, <1>2, <2>1, HostVouches
<1>4. CASE inbox # {}
  <2>1. CurrentItems'
    BY <1>1 DEF VInv, CurrentItems, fs
  <2>2. QED BY <1>1, <1>2, <1>4, <2>1 DEF VInv
<1>5. QED BY <1>3, <1>4

(* A boot: the Docker settings are stale on every disk, and that is owed.   *)
LEMMA BootVouches ==
    ASSUME IInv, VInv, Boot, OpKinds', OpVouches', OpDurable'
    PROVE  VInv'
<1>1. /\ ~up /\ owed' = owed \cup {"boot"}
      /\ runtime' = StaleItems(runtime) /\ runtimeDisk' = StaleDocker(runtimeDisk)
      /\ UNCHANGED <<rootDisk, recordDisk, script, inbox, marker>>
  BY DEF Boot
<1>2. script = NoScript /\ inbox = {} /\ FsType
  BY <1>1 DEF IInv, Control, Mine, FsInv
<1>3. /\ runtime'["containerd"] = runtime["containerd"]
      /\ runtime'["docker"] = Stale(runtime["docker"])
      /\ runtimeDisk'["containerd"] = runtimeDisk["containerd"]
      /\ runtimeDisk'["docker"] = {Stale(v) : v \in runtimeDisk["docker"]}
  BY <1>1, <1>2 DEF StaleItems, StaleDocker, FsType, Items
<1>4. CurrentItems'
  BY <1>3 DEF VInv, CurrentItems, Items
<1>5. ScriptVouches' /\ InboxVouches'
  BY <1>1, <1>2, EndVouches DEF InboxVouches
<1>6. Vouched => Vouched'
  <2>1. \A v : Stale(v)[2] = FALSE
    BY DEF Stale
  <2>2. SoundDisk => SoundDisk'
    BY <1>1, <1>3, <2>1 DEF SoundDisk, Fits
  <2>3. QED BY <1>1, <2>2 DEF Vouched, Sound, Excused, Recorded
<1>7. "late" \notin owed => Entries'
  BY <1>1, <1>6 DEF VInv, Entries
<1>8. QED BY <1>1, <1>4, <1>5, <1>7 DEF VInv

LEMMA StartColdVouches ==
    ASSUME IInv, VInv, StartCold
    PROVE  VInv'
<1>1. op' = NewOp(IF marker = want THEN "reconcile" ELSE "refresh", TRUE) /\ Boot /\ UNCHANGED marker
  BY DEF StartCold, Boot
<1>2. OpKinds' /\ OpVouches' /\ OpDurable'
  BY <1>1, NewOpKinds DEF Kinds
<1>3. QED BY <1>1, <1>2, BootVouches

LEMMA BootAgainVouches ==
    ASSUME IInv, VInv, BootAgain
    PROVE  VInv'
<1>1. op'.at = "idle" /\ ~op'.called /\ ~op'.current /\ op'.kind = "none" /\ Boot
  BY DEF BootAgain, Done, NoOp
<1>2. OpKinds' /\ OpVouches' /\ OpDurable'
  BY <1>1, IdleVouches DEF OpKinds, Transactional, Items
<1>3. QED BY <1>1, <1>2, BootVouches

(* A clean shutdown makes everything durable as it is.                      *)
LEMMA ShutdownVouches ==
    ASSUME IInv, VInv, Shutdown
    PROVE  VInv'
<1>1. /\ op' = NoOp \/ (op' = op /\ op.at = "stop")
      /\ SyncAll /\ script' = NoScript /\ inbox' = {} /\ UNCHANGED <<marker, owed>>
  BY DEF Shutdown, Done, Restarts
<1>2. /\ UNCHANGED <<runtime, record>> /\ rootDisk' = {root} /\ recordDisk' = {record}
      /\ \A i \in Items : runtimeDisk'[i] = {runtime[i]}
  BY <1>1 DEF SyncAll, Sync
<1>3. rootDisk' \subseteq rootDisk
  BY <1>2 DEF IInv, FsInv, Current
<1>4. CurrentItems' /\ (Entries => Entries')
  BY <1>1, <1>2, <1>3, QuietFs
<1>5. ScriptVouches' /\ InboxVouches'
  BY <1>1, EndVouches DEF InboxVouches
<1>6. op'.at \in {"stop", "idle"} /\ ~op'.called
  BY <1>1 DEF NoOp, IInv, Control, Paths, Commands
<1>7. OpKinds'
  BY <1>1 DEF NoOp, VInv, OpKinds, Transactional, Items
<1>8. OpVouches' /\ OpDurable'
  BY <1>6, IdleVouches
<1>9. QED BY <1>1, <1>4, <1>5, <1>7, <1>8 DEF VInv

(* A crash picks from the disks: what every disk holds is what it leaves.   *)
LEMMA CrashVouches ==
    ASSUME IInv, VInv, Crash
    PROVE  VInv'
<1>1. /\ up' = FALSE /\ script' = NoScript /\ inbox' = {} /\ UNCHANGED <<op, reply, marker, owed>>
      /\ \E r \in rootDisk : rootDisk' = {r}
      /\ \A i \in Items : runtime'[i] \in runtimeDisk[i]
      /\ record' \in recordDisk /\ recordDisk' = {record'}
      /\ runtimeDisk' = [i \in Items |-> {runtime'[i]}]
  BY DEF Crash
<1>2. FsType /\ FsType'
  BY CrashFs DEF IInv, FsInv
<1>3. \A i \in Items : runtimeDisk'[i] = {runtime'[i]}
  BY <1>1
<1>4. CurrentItems' /\ rootDisk' \subseteq rootDisk
  BY <1>1, <1>3 DEF CurrentItems
<1>5. Vouched => Vouched'
  BY <1>1, <1>3, KeepsVouching
<1>6. Entries => Entries'
  BY <1>4, <1>5 DEF Entries
<1>7. Durable => runtime' = runtime /\ Durable'
  <2> SUFFICES ASSUME Durable PROVE runtime' = runtime /\ Durable'
    OBVIOUS
  <2>1. \A i \in Items : runtime'[i] = runtime[i]
    BY <1>1 DEF Durable
  <2>2. runtime' = runtime
    BY <1>2, <2>1 DEF FsType
  <2>3. QED BY <1>3, <2>2 DEF Durable
<1>8. OpDurable => OpDurable'
  BY <1>1, <1>7 DEF OpDurable, Told, Whole
<1>9. ScriptVouches' /\ InboxVouches'
  BY <1>1, EndVouches DEF InboxVouches
<1>10. OpKinds'
  BY <1>1 DEF VInv, OpKinds, Whole
<1>11. QED BY <1>1, <1>4, <1>6, <1>8, <1>9, <1>10 DEF VInv

(* A dead host's command keeps what it was sent with.                       *)
LEMMA AbandonedVouches ==
    ASSUME IInv, VInv, Abandoned
    PROVE  VInv'
<1>1. /\ op' = NoOp /\ inbox' = {[c EXCEPT !.own = FALSE] : c \in inbox}
      /\ script' = [script EXCEPT !.own = FALSE] /\ UNCHANGED <<fs, up, marker, owed>>
  BY DEF Abandoned, Done
<1>2. op'.at = "idle" /\ ~op'.called /\ ~op'.current /\ op'.kind = "none"
  BY <1>1 DEF NoOp
<1>3. OpKinds' /\ OpVouches' /\ OpDurable'
  BY <1>2, IdleVouches DEF OpKinds, Transactional, Items
<1>4. /\ script'.step = script.step /\ script'.cmd = script.cmd /\ script'.tok = script.tok
      /\ script'.cfg = script.cfg /\ script'.todo = script.todo
      /\ (script = NoScript => script' = NoScript)
  <2>1. CASE script = NoScript
    BY <1>1, <2>1 DEF NoScript
  <2>2. CASE script \in Script
    <3>1. script.step \in Steps /\ NoScript.step = "none"
      BY <2>2 DEF Script, NoScript
    <3>2. script # NoScript
      BY <3>1 DEF Steps
    <3>3. QED BY <1>1, <2>2, <3>2 DEF Script
  <2>3. QED BY <2>1, <2>2 DEF IInv, Control, CtlType
<1>5. UNCHANGED <<runtime, runtimeDisk, record, recordDisk, rootDisk, data>>
  BY <1>1 DEF fs
<1>6. CurrentItems' /\ (Excused => Excused') /\ (Entries => Entries') /\ (Recorded => Recorded')
      /\ (Sound => Sound') /\ (Entered => Entered')
  BY <1>1, <1>5, QuietFs DEF Entered
<1>7. ASSUME "late" \notin owed PROVE ScriptVouches' /\ InboxVouches' /\ Entries'
  <2>1. ScriptVouches /\ InboxVouches /\ Entries
    BY <1>7 DEF VInv
  <2>2. ScriptVouches'
    BY <1>1, <1>4, <2>1, ScriptWaits
  <2>3. InboxVouches'
    <3> SUFFICES ASSUME NEW d \in inbox'
                 PROVE  /\ inbox' = {d} /\ (d.cmd # "recover" => script' = NoScript)
                        /\ Due(d.cmd, d.tok, d.cfg)'
      BY DEF InboxVouches
    <3>1. PICK c \in inbox : d = [c EXCEPT !.own = FALSE]
      BY <1>1
    <3>2. inbox = {c} /\ (c.cmd # "recover" => script = NoScript) /\ Due(c.cmd, c.tok, c.cfg)
      BY <2>1 DEF InboxVouches
    <3>3. c \in Command
      BY DEF IInv, Control, CtlType
    <3>4. d.cmd = c.cmd /\ d.tok = c.tok /\ d.cfg = c.cfg
      BY <3>1, <3>3 DEF Command
    <3>5. inbox' = {d}
      BY <1>1, <3>1, <3>2
    <3>6. Due(d.cmd, d.tok, d.cfg)'
      BY <1>1, <1>5, <1>6, <3>2, <3>4 DEF Due, BackupKept, Kept
    <3>7. QED BY <1>4, <3>2, <3>4, <3>5, <3>6
  <2>4. QED BY <1>6, <2>1, <2>2, <2>3
<1>8. QED BY <1>1, <1>3, <1>6, <1>7 DEF VInv

(* Neither an edit of the profile nor a stuttering step counts.             *)
LEMMA QuietVouches ==
    ASSUME IInv, VInv, UNCHANGED <<fs, up, script, inbox, op, reply, marker, owed>>
    PROVE  VInv'
<1>1. UNCHANGED <<runtime, runtimeDisk, recordDisk, rootDisk, data>>
  BY DEF fs
<1>2. OpKinds'
  BY DEF VInv, OpKinds, Whole
<1>3. (OnBackup' => OnBackup) /\ (OnFound' => OnFound) /\ (OnContainerd' => OnContainerd)
      /\ (OnDocker' => OnDocker)
  BY DEF OnBackup, OnFound, OnContainerd, OnDocker, Told, Whole
<1>4. (BackupKept(op.tok) => BackupKept(op.tok)') /\ (Entered => Entered') /\ (Excused => Excused')
      /\ (Applied => Applied')
  BY <1>1 DEF BackupKept, Kept, Entered, Excused, Recorded, Applied
<1>5. OpVouches => OpVouches'
  BY <1>1, <1>3, <1>4 DEF OpVouches
<1>6. OpDurable => OpDurable'
  BY <1>1 DEF OpDurable, Durable, Told, Whole
<1>7. QED BY <1>2, <1>5, <1>6, HostVouches DEF VInv

-----------------------------------------------------------------------------
(* With IInv, VInv is an inductive invariant of the transaction.            *)
THEOREM VouchInvariant == Spec => []VInv
<1>1. Init => VInv
  <2> SUFFICES ASSUME Init PROVE VInv
    OBVIOUS
  <2>1. op.at = "idle" /\ ~op.called /\ ~op.current /\ op.kind = "none" /\ ~up
    BY DEF Init, NoOp
  <2>2. script.step = "none" /\ script.cmd = "none" /\ inbox = {}
    BY DEF Init, NoScript
  <2>3. CurrentItems
    BY DEF Init, CurrentItems
  <2>4. OpKinds /\ OpDurable
    BY <2>1 DEF OpKinds, OpDurable, Transactional, Items, Told
  <2>5. ScriptVouches /\ InboxVouches
    BY <2>2 DEF ScriptVouches, InboxVouches, At, Beginning, Cleaning, Retiring, Decided
  <2>6. Entries
    BY DEF Init, Entries, Vouched, Sound, Excused
  <2>7. QED BY <2>1, <2>3, <2>4, <2>5, <2>6 DEF VInv
<1>2. IInv /\ VInv /\ [Next]_vars => VInv'
  <2> SUFFICES ASSUME IInv, VInv, [Next]_vars PROVE VInv'
    OBVIOUS
  <2>1. CASE ScriptStep
    BY <2>1, BeginVouches, PlainEndsVouch, BeginMkdirVouches, BeginCopyVouches,
       BeginSyncDataVouches, BeginPublishVouches, BeginSyncPublishVouches, BeginFailsVouches,
       CleanPhaseVouches, CleanSyncVouches, CleanRemoveVouches, ConfigureEnterVouches,
       ConfigureWriteVouches, CommitEnterVouches, RollbackEnterVouches, RestoreVouches,
       RestoreDoneVouches, RetireSyncItemsVouches, RetireRemovePhaseVouches, RetireVouches,
       RetireSyncRootVouches, RecoverInspectVouches, RecoverRememberVouches,
       RecoverRememberSyncVouches, SettleRemoveVouches, SettleSyncVouches DEF ScriptStep
  <2>2. CASE HostStep
    <3>1. EditConfig => VInv'
      BY QuietVouches DEF EditConfig, guestSide
    <3>2. QED BY <2>2, <3>1, StartRunningVouches, StartColdVouches, BootAgainVouches, ShutdownVouches, CallVouches,
       RecoverOkVouches, NextStagesVouch, ReadyVouches, MarkVouches, SettledVouches,
       AbandonedVouches DEF HostStep
  <2>3. CASE UNCHANGED vars
    BY <2>3, QuietVouches DEF vars
  <2>4. QED BY <2>1, <2>2, <2>3, CrashVouches DEF Next
<1>3. QED BY <1>1, <1>2, Invariant, PTL DEF Spec

(* The runtime is what the marker records, or the guest holds evidence that  *)
(* makes the next start apply it, or something is owed.                      *)
THEOREM MarkerAlwaysVouches == Spec => []MarkerVouches
<1>1. IInv /\ VInv => MarkerVouches
  <2> SUFFICES ASSUME IInv, VInv, marker # None, root = {}, owed = {}, ~record
               PROVE  runtime = Configured(marker)
    BY DEF MarkerVouches
  <2>1. root \in rootDisk /\ record \in recordDisk /\ FsType
    BY DEF IInv, FsInv, Current
  <2>2. Vouched /\ CurrentItems
    BY <2>1 DEF VInv, Entries
  <2>3. ~Excused /\ ~Recorded
    <3>1. ~Excused
      BY DEF Excused
    <3>2. Recorded => record \in {TRUE}
      BY <2>1, Zenon DEF Recorded
    <3>3. Recorded => record
      BY <3>2, Zenon
    <3>4. QED BY <3>1, <3>3
  <2>4. SoundDisk
    BY <2>2, <2>3 DEF Vouched, Sound
  <2>5. runtime["containerd"] = <<"applied", TRUE>> /\ runtime["docker"] = <<marker, TRUE>>
    BY <2>2, <2>4 DEF SoundDisk, Fits, CurrentItems, Items
  <2>6. QED BY <2>1, <2>5, IsConfigured DEF FsType
<1>2. QED BY <1>1, Invariant, VouchInvariant, PTL
=============================================================================
