----------------------- MODULE ReleaseDownloadProofs -----------------------
(***************************************************************************)
(* Proofs about the acquisition of an artifact, for any number of          *)
(* processes, blocks, attempts and faults.                                 *)
(***************************************************************************)
EXTENDS ReleaseDownload, TLAPS, SequenceTheorems, FiniteSetTheorems

(* The stages in which a process has the lock of the digest.               *)
Working == {"lookup", "save", "request", "headers", "body", "rejected", "interrupted",
            "invalid", "verify", "publish", "sync", "clean"}
LockInv == \A p \in Procs : run[p].pc \in Working => lock = p

(* The stages from the lookup that found no artifact to the rename.        *)
Fetching == {"save", "request", "headers", "body", "rejected", "interrupted", "invalid",
             "verify", "publish"}

(* The partial file as the stage of its only writer knows it.              *)
Knows(p) ==
    LET r == run[p] IN
    /\ r.pc \in {"lock", "lookup"} => r.offset = 0
    /\ r.pc = "save" => IF r.offset = 0 THEN dir.partial = None
                        ELSE dir.partial # None /\ Len(dir.partial) = r.offset
                             /\ r.saved = dir.meta
    /\ r.pc = "request" /\ r.offset # 0 =>
           dir.partial # None /\ Len(dir.partial) = r.offset /\ r.saved = dir.meta
    /\ r.pc \in {"headers", "body"} => dir.partial # None /\ r.answer \in Versions
    /\ r.pc = "headers" => /\ r.offset = 0 => dir.partial = <<>>
                           /\ tagged /\ r.offset # 0 => r.answer = dir.meta
    /\ r.pc = "body" => (tagged => r.answer = dir.meta)
    /\ r.pc = "verify" => dir.partial # None /\ synced = Len(dir.partial)
    /\ r.pc = "publish" => Verified(dir.partial) /\ synced = Size
    /\ r.pc \in {"sync", "clean"} => dir.partial = None
    /\ r.pc \in Fetching => dir.final = None
StageInv == \A p \in Procs : Knows(p)
Knowing == Working \cup {"lock"}

(* Bytes that are kept belong to the validator that is kept.               *)
Consistent(d) ==
    d.partial # None => \A i \in DOMAIN d.partial :
                            d.meta \in Versions /\ d.partial[i].v \in {d.meta, Torn}
TagInv == tagged => Consistent(dir) /\ Consistent(disk)

Exact(f) == f # None => Verified(f)
ExactInv == Exact(dir.final) /\ Exact(disk.final)

(* What is synchronised is there; an artifact was synchronised in full     *)
(* under the name of the partial, and there is never both.                 *)
OneFile(d) == d.partial = None \/ d.final = None
Sound(d, n) ==
    /\ OneFile(d)
    /\ d.partial # None => n <= Len(d.partial)
    /\ d.final # None => n = Len(d.final)
    /\ d.partial = None /\ d.final = None => n = 0
SyncInv == Sound(dir, synced) /\ OneFile(disk)

IInv == TypeOK /\ LockInv /\ StageInv /\ SyncInv /\ TagInv /\ ExactInv

----------------------------------------------------------------------------
(* Lemmas about the operators on files.                                     *)

(* The history of who wrote a block changes neither length nor versions.    *)
LEMMA DisownKeeps ==
    ASSUME NEW f \in Files, NEW p \in Procs
    PROVE  /\ Disown(f, p) \in Files
           /\ Disown(f, p) = None <=> f = None
           /\ f # None => /\ Len(Disown(f, p)) = Len(f)
                          /\ DOMAIN Disown(f, p) = DOMAIN f
                          /\ \A i \in DOMAIN f : Disown(f, p)[i].v = f[i].v
<1>1. CASE f = None
  BY <1>1 DEF Disown, Files
<1>2. CASE f # None
  <2> DEFINE g == [i \in 1..Len(f) |-> IF f[i].by = p THEN Block(f[i].v, None) ELSE f[i]]
  <2>1. f \in Seq(Blocks) /\ DOMAIN f = 1..Len(f) /\ Len(f) \in Nat
    BY <1>2, LenProperties DEF Files
  <2>2. \A i \in 1..Len(f) : f[i] \in Blocks
    BY <2>1
  <2>3. \A i \in 1..Len(f) : g[i] \in Blocks /\ g[i].v = f[i].v
    BY <2>2 DEF Blocks, Block
  <2>4. g \in Seq(Blocks) /\ Len(g) = Len(f) /\ DOMAIN g = 1..Len(f)
    <3>1. g \in [1..Len(f) -> Blocks]
      BY <2>3
    <3>2. QED BY <2>1, <3>1
  <2>5. Disown(f, p) = g
    BY <1>2, <2>1 DEF Disown
  <2>6. QED BY <1>2, <2>1, <2>3, <2>4, <2>5, NamesAssumption DEF Files
<1>3. QED BY <1>1, <1>2

(* What a synchronisation of the directory leaves on the disk.              *)
LEMMA DurableKeeps ==
    ASSUME NEW d \in Dirs, NEW n \in Nat, Sound(d, n)
    PROVE  /\ Durable(d, n) \in Dirs
           /\ Durable(d, n).final = d.final
           /\ OneFile(Durable(d, n))
           /\ Consistent(d) => Consistent(Durable(d, n))
<1> DEFINE f == Cut(d.partial, n)
           g == Cut(d.final, n)
<1>1. d.partial \in Files /\ d.final \in Files
  BY DEF Dirs
<1>2. g = d.final
  <2>1. CASE d.final = None
    BY <2>1 DEF Cut
  <2>2. CASE d.final # None
    <3>1. d.final \in Seq(Blocks) /\ n = Len(d.final)
      BY <1>1, <2>2 DEF Files, Sound
    <3>2. SubSeq(d.final, 1, n) = d.final
      BY <3>1
    <3>3. QED BY <2>2, <3>2 DEF Cut
  <2>3. QED BY <2>1, <2>2
<1>3. f \in Files /\ (f = None <=> d.partial = None)
      /\ (f # None => /\ DOMAIN f \subseteq DOMAIN d.partial
                      /\ \A i \in DOMAIN f : f[i] = d.partial[i])
  <2>1. CASE d.partial = None
    BY <1>1, <2>1 DEF Cut
  <2>2. CASE d.partial # None
    <3>1. d.partial \in Seq(Blocks) /\ n <= Len(d.partial)
      BY <1>1, <2>2 DEF Files, Sound
    <3>2. f = SubSeq(d.partial, 1, n)
      BY <2>2 DEF Cut
    <3>3. f \in Seq(Blocks) /\ DOMAIN f = 1..n /\ \A i \in 1..n : f[i] = d.partial[i]
      <4>1. LET t == SubSeq(d.partial, 1, n) IN
               t \in Seq(Blocks) /\ DOMAIN t = 1..n /\ \A i \in 1..n : t[i] = d.partial[i]
        BY <3>1
      <4>2. QED BY <3>2, <4>1
    <3>4. 1..n \subseteq DOMAIN d.partial
      BY <3>1
    <3>5. QED BY <2>2, <3>3, <3>4, NamesAssumption DEF Files
  <2>3. QED BY <2>1, <2>2
<1> HIDE DEF f, g
<1>4. Durable(d, n) = [d EXCEPT !.partial = f, !.final = g]
  BY DEF Durable, Dirs, f, g
<1>5. Durable(d, n) \in Dirs /\ Durable(d, n).final = d.final
      /\ Durable(d, n).meta = d.meta /\ Durable(d, n).partial = f
  BY <1>1, <1>2, <1>3, <1>4 DEF Dirs
<1>6. Consistent(d) => Consistent(Durable(d, n))
  BY <1>3, <1>5 DEF Consistent
<1>7. OneFile(Durable(d, n))
  BY <1>3, <1>5 DEF Sound, OneFile
<1>8. QED BY <1>5, <1>6, <1>7

(* What a power loss leaves of a file: versions it had, or torn blocks.     *)
LEMMA LossKeeps ==
    ASSUME NEW f \in Files, NEW n \in Nat, f # None => n <= Len(f),
           NEW g \in AfterLoss(f, n)
    PROVE  /\ g \in Files /\ (g = None <=> f = None)
           /\ f # None => \A i \in DOMAIN g : \E j \in DOMAIN f : g[i].v \in {f[j].v, Torn}
           /\ f # None /\ n = Len(f) => g = f
<1>1. CASE f = None
  BY <1>1 DEF AfterLoss, Files
<1>2. CASE f # None
  <2>1. f \in Seq(Blocks) /\ DOMAIN f = 1..Len(f) /\ Len(f) \in Nat /\ n <= Len(f)
        /\ \A i \in 1..Len(f) : f[i] \in Blocks
    BY <1>2 DEF Files
  <2>2. CASE g = <<>>
    <3>1. <<>> \in Seq(Blocks) /\ DOMAIN <<>> = {}
      OBVIOUS
    <3>2. n = Len(f) => g = f
      <4>1. ASSUME n = Len(f) PROVE n = 0
        <5>1. CASE n = 0
          BY <5>1
        <5>2. CASE n > 0
          <6>1. PICK k \in n..Len(f) : \E v \in {f[k].v, Torn} :
                   g = [i \in 1..k |-> IF i <= n THEN f[i] ELSE Block(v, None)]
            BY <1>2, <5>2 DEF AfterLoss
          <6>2. k = n /\ DOMAIN g = 1..n
            BY <2>1, <4>1, <6>1
          <6>3. QED BY <2>2, <3>1, <5>2, <6>2
        <5>3. QED BY <5>1, <5>2
      <4>2. QED BY <2>1, <2>2, <4>1
    <3>3. QED BY <1>2, <2>2, <3>1, <3>2, NamesAssumption DEF Files
  <2>3. CASE g # <<>>
    <3>1. PICK k \in (IF n > 0 THEN n ELSE 1)..Len(f) : \E v \in {f[k].v, Torn} :
             g = [i \in 1..k |-> IF i <= n THEN f[i] ELSE Block(v, None)]
      BY <1>2, <2>3 DEF AfterLoss
    <3>2. PICK v \in {f[k].v, Torn} :
             g = [i \in 1..k |-> IF i <= n THEN f[i] ELSE Block(v, None)]
      BY <3>1
    <3>3. k \in 1..Len(f) /\ k \in Nat
      BY <2>1, <3>1
    <3>4. \A i \in 1..k : g[i] \in Blocks
      BY <2>1, <3>2, <3>3 DEF Blocks, Block
    <3>5. g \in Seq(Blocks) /\ DOMAIN g = 1..k
      <4>1. g \in [1..k -> Blocks]
        BY <3>2, <3>4
      <4>2. QED BY <3>3, <4>1
    <3>6. \A i \in 1..k : g[i].v \in {f[i].v, f[k].v, Torn}
      BY <3>2 DEF Block
    <3>7. 1..k \subseteq DOMAIN f
      BY <2>1, <3>3
    <3>8. ASSUME n = Len(f) PROVE g = f
      <4>1. k = n /\ n > 0
        BY <2>1, <3>1, <3>3, <3>8
      <4>2. g = [i \in 1..Len(f) |-> f[i]]
        BY <3>2, <3>8, <4>1
      <4>3. QED BY <2>1, <4>2
    <3>9. QED BY <1>2, <3>3, <3>5, <3>6, <3>7, <3>8, NamesAssumption DEF Files
  <2>4. QED BY <2>2, <2>3
<1>3. QED BY <1>1, <1>2

(* What an attempt makes of the record of its run.                          *)
LEMMA RecordTypes ==
    ASSUME NEW r \in Runs, NEW n \in Nat
    PROVE  /\ Idle \in Runs /\ [Idle EXCEPT !.pc = "failed"] \in Runs
           /\ Attempt(r) \in Runs /\ Attempt(r).pc = "lock" /\ Attempt(r).offset = 0
           /\ Reused(r) \in Runs /\ Reused(r).pc = r.pc
           /\ Received(r) \in Runs /\ Received(r).pc = r.pc
           /\ Received(r).offset = r.offset /\ Received(r).answer = r.answer
           /\ Counted(r) \in Runs /\ Counted(r).pc = r.pc
           /\ Succeeded(r) \in Runs /\ Succeeded(r).pc = "done"
           /\ Failed(r, n) \in Runs /\ Failed(r, n).pc \in {"failed", "lock"}
           /\ (Failed(r, n).pc = "lock" => Failed(r, n).offset = 0)
<1>1. Size \in Nat /\ Attempts \in Nat
  BY DownloadAssumption
<1>0. /\ r.received \in Nat /\ r.net \in Nat /\ r.downloaded \in Nat /\ r.discarded \in Nat
      /\ r.resumed \in Nat /\ r.offset \in Nat /\ r.written \in Nat /\ r.reused \in Nat
      /\ r.retained \in Nat /\ r.attempt \in Nat
  BY DEF Runs
<1>2. Idle \in Runs
  BY DEF Idle, Runs, Stages, Validators
<1>3. [Idle EXCEPT !.pc = "failed"] \in Runs /\ [Idle EXCEPT !.pc = "failed"].pc = "failed"
  BY <1>2 DEF Runs, Stages
<1>4. \A s \in Runs : Attempt(s) \in Runs /\ Attempt(s).pc = "lock" /\ Attempt(s).offset = 0
  BY DEF Attempt, Runs, Stages, Validators
<1>5. Reused(r) \in Runs /\ Reused(r).pc = r.pc
  BY <1>1 DEF Reused, Runs
<1>6. Received(r) \in Runs /\ Received(r).pc = r.pc
      /\ Received(r).offset = r.offset /\ Received(r).answer = r.answer
  <2>2. Received(r) = [r EXCEPT !.received = r.received + 1, !.net = r.net + 1]
    BY DEF Received, Runs
  <2>3. r.received + 1 \in Nat /\ r.net + 1 \in Nat
    BY <1>0
  <2>4. PICK a \in Nat, b \in Nat : Received(r) = [r EXCEPT !.received = a, !.net = b]
    BY <2>2, <2>3, Zenon
  <2>5. QED BY <2>4 DEF Runs
<1>7. Counted(r) \in Runs /\ Counted(r).pc = r.pc
  <2>2. Counted(r) = [r EXCEPT !.downloaded = r.downloaded + r.received + r.discarded,
                               !.resumed = r.resumed + (IF r.offset # 0 THEN r.received ELSE 0),
                               !.reused = r.offset]
    BY DEF Counted, Runs
  <2>3. /\ r.downloaded + r.received + r.discarded \in Nat
        /\ r.resumed + (IF r.offset # 0 THEN r.received ELSE 0) \in Nat
    BY <1>0
  <2>4. PICK a \in Nat, b \in Nat, c \in Nat :
           Counted(r) = [r EXCEPT !.downloaded = a, !.resumed = b, !.reused = c]
    BY <1>0, <2>2, <2>3, Zenon
  <2>5. QED BY <2>4 DEF Runs
<1>8. Succeeded(r) \in Runs /\ Succeeded(r).pc = "done"
  <2>1. \A a \in Nat : LET s == [r EXCEPT !.pc = "done", !.reused = a] IN
           s \in Runs /\ s.pc = "done"
    BY DEF Runs, Stages
  <2>2. Succeeded(r) = [r EXCEPT !.pc = "done", !.reused = Minus(r.reused, r.retained)]
    BY DEF Succeeded, Runs
  <2>3. Minus(r.reused, r.retained) \in Nat
    BY <1>0 DEF Minus
  <2>4. QED BY <2>1, <2>2, <2>3
<1>9. Failed(r, n) \in Runs /\ Failed(r, n).pc \in {"failed", "lock"}
           /\ (Failed(r, n).pc = "lock" => Failed(r, n).offset = 0)
  <2> DEFINE a == r.downloaded + r.discarded + r.written
             b == r.resumed + (IF r.offset # 0 THEN r.written ELSE 0)
             s == [r EXCEPT !.downloaded = a, !.resumed = b]
  <2>1. \A c, d \in Nat : [r EXCEPT !.downloaded = c, !.resumed = d] \in Runs
    BY DEF Runs
  <2>2. s \in Runs /\ s.attempt = r.attempt /\ s.retained = r.retained
    <3>1. s.attempt = r.attempt /\ s.retained = r.retained
      BY DEF Runs
    <3>2. a \in Nat /\ b \in Nat
      BY <1>0
    <3>3. QED BY <2>1, <3>1, <3>2, Zenon
  <2> HIDE DEF s
  <2>3. \A c, d \in Nat : [s EXCEPT !.attempt = c, !.retained = d] \in Runs
    BY <2>2 DEF Runs
  <2> DEFINE t == [s EXCEPT !.attempt = s.attempt + 1, !.retained = s.retained + n]
  <2>4. t \in Runs
    <3>1. s.attempt + 1 \in Nat /\ s.retained + n \in Nat
      BY <1>0, <2>2
    <3>2. QED BY <2>3, <3>1, Zenon
  <2>5. Failed(r, n) \in {[Idle EXCEPT !.pc = "failed"], Attempt(t)}
    BY DEF Failed, s
  <2>6. CASE Failed(r, n) = [Idle EXCEPT !.pc = "failed"]
    BY <1>3, <2>6
  <2> HIDE DEF t
  <2>7. CASE Failed(r, n) = Attempt(t)
    BY <1>4, <2>4, <2>7
  <2>8. QED BY <2>5, <2>6, <2>7
<1>10. QED BY <1>2, <1>3, <1>4, <1>5, <1>6, <1>7, <1>8, <1>9

(* The parts of a state that satisfies the invariant.                       *)
LEMMA Parts ==
    ASSUME IInv
    PROVE  /\ lock \in Procs \cup {None} /\ synced \in Nat
           /\ dir.partial \in Files /\ dir.meta \in Validators /\ dir.final \in Files
           /\ \A q \in Procs : run[q] \in Runs /\ Knows(q) /\ (run[q].pc \in Working => lock = q)
           /\ None \in Files /\ <<>> \in Files /\ <<>> # None
<1>1. lock \in Procs \cup {None} /\ synced \in Nat /\ dir \in Dirs /\ run \in [Procs -> Runs]
  BY DEF IInv, TypeOK
<1>2. <<>> \in Seq(Blocks)
  OBVIOUS
<1>4. dir.partial \in Files /\ dir.meta \in Validators /\ dir.final \in Files
  BY <1>1 DEF Dirs
<1>5. QED BY <1>1, <1>2, <1>4, NamesAssumption DEF IInv, LockInv, StageInv, Files

(* A step of the holder of the lock keeps the invariant when the files it   *)
(* leaves are sound and agree with what it knows afterwards: nobody else is *)
(* at work.                                                                 *)
LEMMA HolderKeeps ==
    ASSUME IInv, NEW p \in Procs, run[p].pc \in Working,
           NEW r \in Runs, Become(p, r),
           IF r.pc \in Working THEN lock' = p ELSE lock' \in {None, p},
           dir' \in Dirs, disk' \in Dirs, synced' \in Nat, SyncInv',
           tagged => Consistent(dir') /\ Consistent(disk'),
           Exact(dir'.final), Exact(disk'.final), Calm \/ Fault,
           r.pc \in Knowing => Knows(p)'
    PROVE  IInv'
<1> USE DEF IInv
<1>1. run \in [Procs -> Runs] /\ lock = p
  BY DEF TypeOK, LockInv
<1>2. run'[p] = r /\ \A q \in Procs \ {p} : run'[q] = run[q] /\ run[q].pc \notin Working
  BY <1>1 DEF Become, LockInv
<1>3. \A q \in Procs : Knows(q)'
  <2>1. Knows(p)'
    <3>1. CASE r.pc \in Knowing
      BY <3>1
    <3>2. CASE r.pc \notin Knowing
      BY <1>2, <3>2 DEF Knows, Knowing, Working, Fetching
    <3>3. QED BY <3>1, <3>2
  <2>2. ASSUME NEW q \in Procs \ {p} PROVE Knows(q)'
    <3>1. Knows(q) /\ run'[q] = run[q] /\ run[q].pc \notin Working
      BY <1>2 DEF StageInv
    <3>2. QED BY <3>1 DEF Knows, Working, Fetching
  <2>3. QED BY <2>1, <2>2
<1>4. LockInv' /\ StageInv' /\ run' \in [Procs -> Runs]
  BY <1>1, <1>2, <1>3 DEF Become, LockInv, StageInv
<1>5. TagInv' /\ ExactInv'
  BY DEF Calm, Fault, Unchanged, TagInv, ExactInv
<1>6. faults' \in 0..MaxFaults
  BY DownloadAssumption DEF TypeOK, Calm, Fault
<1>7. TypeOK'
  BY <1>4, <1>6 DEF TypeOK, Calm, Fault, Unchanged
<1>8. QED BY <1>4, <1>5, <1>7

(* The same for a step that leaves the cache alone.                         *)
LEMMA HolderMoves ==
    ASSUME IInv, NEW p \in Procs, run[p].pc \in Working,
           NEW r \in Runs, Become(p, r),
           IF r.pc \in Working THEN lock' = p ELSE lock' \in {None, p},
           UNCHANGED <<dir, synced, disk>>, Calm \/ Fault,
           r.pc \in Knowing => Knows(p)'
    PROVE  IInv'
<1>1. dir' \in Dirs /\ disk' \in Dirs /\ synced' \in Nat /\ SyncInv'
      /\ (tagged => Consistent(dir') /\ Consistent(disk'))
      /\ Exact(dir'.final) /\ Exact(disk'.final)
  BY DEF IInv, TypeOK, SyncInv, TagInv, ExactInv
<1>2. QED BY <1>1, HolderKeeps

(* The same for a step that saves a validator and the directory.            *)
LEMMA SaveKeeps ==
    ASSUME IInv, NEW p \in Procs, run[p].pc \in Working, NEW v \in Validators,
           NEW r \in Runs, r.pc \in Working, Become(p, r), UNCHANGED <<lock, synced>>, Calm,
           SaveMetadata(v), tagged => Consistent([dir EXCEPT !.meta = v]), Knows(p)'
    PROVE  IInv'
<1>1. lock = p
  BY Parts
<1>2. dir' = [dir EXCEPT !.meta = v] /\ disk' = Durable(dir', synced)
  BY DEF SaveMetadata
<1>3. dir' \in Dirs /\ dir'.partial = dir.partial /\ dir'.final = dir.final
  BY <1>2 DEF IInv, TypeOK, Dirs
<1>4. synced' \in Nat /\ synced' = synced /\ Sound(dir', synced)
  BY <1>3 DEF IInv, TypeOK, SyncInv, Sound, OneFile
<1>5. disk' \in Dirs /\ disk'.final = dir'.final /\ (tagged => Consistent(disk'))
      /\ OneFile(disk')
  BY <1>2, <1>3, <1>4, DurableKeeps
<1>8. SyncInv'
  BY <1>4, <1>5 DEF SyncInv
<1>6. Exact(dir'.final) /\ Exact(disk'.final)
  BY <1>3, <1>5 DEF IInv, ExactInv
<1>7. QED BY <1>1, <1>2, <1>3, <1>4, <1>5, <1>6, <1>8, HolderKeeps

----------------------------------------------------------------------------
(* Each action keeps the invariant.                                         *)

LEMMA SaveStep ==
    ASSUME IInv, NEW p \in Procs, Save(p)
    PROVE  IInv'
<1> DEFINE r == [run[p] EXCEPT !.pc = "request"]
<1>1. run[p] \in Runs /\ run[p].saved \in Validators /\ run[p].pc = "save" /\ Knows(p)
  BY Parts DEF At, Runs, Save
<1>2. tagged => Consistent([dir EXCEPT !.meta = run[p].saved])
  <2>1. CASE run[p].offset = 0
    BY <1>1, <2>1 DEF Knows, Consistent, IInv, TypeOK, Dirs
  <2>2. CASE run[p].offset # 0
    BY <1>1, <2>2 DEF Knows, Consistent, IInv, TagInv, TypeOK, Dirs
  <2>3. QED BY <2>1, <2>2
<1>3. r \in Runs /\ r.pc = "request" /\ r.offset = run[p].offset /\ r.saved = run[p].saved
  BY <1>1 DEF Runs, Stages
<1>4. run'[p] = r /\ dir'.meta = run[p].saved /\ dir'.partial = dir.partial
      /\ dir'.final = dir.final
  BY DEF Save, SaveMetadata, Become, IInv, TypeOK, Dirs
<1>5. Knows(p)'
  BY <1>1, <1>3, <1>4 DEF Knows, Fetching
<1>6. QED BY <1>1, <1>2, <1>3, <1>5, SaveKeeps DEF Save, Working

LEMMA LockStep ==
    ASSUME IInv, NEW p \in Procs, ArtifactLock(p)
    PROVE  IInv'
<1> DEFINE r == [run[p] EXCEPT !.pc = "lookup"]
<1>1. run[p] \in Runs /\ r \in Runs /\ r.pc = "lookup" /\ lock = None /\ lock' = p
  BY Parts DEF ArtifactLock, Runs, Stages
<1>2. run'[p] = r /\ \A q \in Procs \ {p} : run'[q] = run[q]
  BY DEF ArtifactLock, Become, IInv, TypeOK
<1>3. \A q \in Procs \ {p} : run'[q].pc \notin Working
  BY <1>1, <1>2, NamesAssumption DEF IInv, LockInv
<1>4. Knows(p)' /\ \A q \in Procs \ {p} : Knows(q)'
  <2>1. r.offset = 0
    BY <1>1, Parts DEF Knows, Runs, ArtifactLock, At
  <2>2. Knows(p)'
    BY <1>1, <1>2, <2>1 DEF Knows, Fetching
  <2>3. ASSUME NEW q \in Procs \ {p} PROVE Knows(q)'
    <3>1. Knows(q) /\ run'[q] = run[q] /\ run'[q].pc \notin Working
      BY <1>2, <1>3, Parts
    <3>2. QED BY <3>1 DEF Knows, Working, Fetching
  <2>4. QED BY <2>2, <2>3
<1>6. LockInv' /\ StageInv'
  BY <1>1, <1>2, <1>3, <1>4 DEF LockInv, StageInv
<1>5. QED BY <1>1, <1>6 DEF ArtifactLock, Become, IInv, TypeOK, SyncInv, TagInv, ExactInv, Calm, Unchanged

LEMMA LookupHitStep ==
    ASSUME IInv, NEW p \in Procs, LookupHit(p)
    PROVE  IInv'
<1> DEFINE r == Succeeded(Reused(run[p]))
<1>1. run[p].pc = "lookup" /\ r \in Runs /\ r.pc = "done"
  BY Parts, RecordTypes DEF LookupHit, At
<1>2. dir' \in Dirs /\ dir'.partial = dir.partial /\ dir'.meta = dir.meta /\ Exact(dir'.final)
  BY Parts DEF LookupHit, IInv, TypeOK, Dirs, Exact
<1>5. dir' = dir
  BY DEF LookupHit, IInv, TypeOK, Dirs, ExactInv, Exact
<1>3. SyncInv' /\ disk' \in Dirs /\ synced' \in Nat /\ Exact(disk'.final)
      /\ (tagged => Consistent(dir') /\ Consistent(disk'))
  BY <1>5 DEF LookupHit, IInv, TypeOK, SyncInv, TagInv, ExactInv
<1>4. QED BY <1>1, <1>2, <1>3, HolderKeeps DEF LookupHit, Working, Knowing

LEMMA LookupPartialStep ==
    ASSUME IInv, NEW p \in Procs, LookupPartial(p)
    PROVE  IInv'
<1>1. run[p].pc = "lookup" /\ run[p] \in Runs /\ lock' = p /\ disk' = disk /\ Calm
  BY Parts DEF LookupPartial, At, Working
<1>2. disk' \in Dirs /\ Exact(disk'.final) /\ (tagged => Consistent(disk'))
  BY <1>1 DEF IInv, TypeOK, TagInv, ExactInv
<1>3. CASE Verified(dir.partial)
  <2> DEFINE r == Reused([run[p] EXCEPT !.pc = "publish"])
  <2>1. [run[p] EXCEPT !.pc = "publish"] \in Runs /\ [run[p] EXCEPT !.pc = "publish"].pc = "publish"
    BY <1>1 DEF Runs, Stages
  <2>2. r \in Runs /\ r.pc = "publish"
    BY <2>1, RecordTypes
  <2>3. Become(p, r) /\ synced' = Size /\ dir' = [dir EXCEPT !.final = None]
    BY <1>3 DEF LookupPartial
  <2>4. dir' \in Dirs /\ dir'.partial = dir.partial /\ dir'.meta = dir.meta /\ dir'.final = None
    BY <2>3, Parts DEF IInv, TypeOK, Dirs
  <2>5. SyncInv' /\ synced' \in Nat /\ Exact(dir'.final) /\ (tagged => Consistent(dir'))
    BY <1>1, <1>3, <2>3, <2>4, DownloadAssumption
       DEF IInv, TagInv, Verified, SyncInv, Sound, OneFile, Exact, Consistent
  <2>6. Knows(p)'
    BY <1>3, <2>2, <2>3, <2>4 DEF Knows, Become, IInv, TypeOK, Fetching
  <2>7. QED BY <1>1, <1>2, <2>2, <2>3, <2>4, <2>5, <2>6, HolderKeeps DEF Working
<1>4. CASE ~Verified(dir.partial) /\ Resumable
  <2> DEFINE r == [run[p] EXCEPT !.pc = "save", !.offset = Len(dir.partial), !.saved = dir.meta]
  <2>1. dir.partial # None /\ dir.partial \in Seq(Blocks) /\ Len(dir.partial) \in Nat
        /\ Len(dir.partial) # 0 /\ dir.meta \in Validators
    BY <1>4, Parts DEF Resumable, Files
  <2>2. r \in Runs /\ r.pc = "save" /\ r.offset = Len(dir.partial) /\ r.saved = dir.meta
    BY <1>1, <2>1 DEF Runs, Stages
  <2>3. Become(p, r) /\ synced' = synced /\ dir' = [dir EXCEPT !.final = None]
    BY <1>4 DEF LookupPartial
  <2>4. dir' \in Dirs /\ dir'.partial = dir.partial /\ dir'.meta = dir.meta /\ dir'.final = None
    BY <2>3, Parts DEF IInv, TypeOK, Dirs
  <2>5. SyncInv' /\ synced' \in Nat /\ Exact(dir'.final) /\ (tagged => Consistent(dir'))
    BY <1>1, <2>1, <2>3, <2>4 DEF IInv, TypeOK, TagInv, SyncInv, Sound, OneFile, Exact, Consistent
  <2>6. Knows(p)'
    BY <2>1, <2>2, <2>3, <2>4 DEF Knows, Become, IInv, TypeOK, Fetching
  <2>7. QED BY <1>1, <1>2, <2>2, <2>3, <2>4, <2>5, <2>6, HolderKeeps DEF Working
<1>5. CASE ~Verified(dir.partial) /\ ~Resumable
  <2> DEFINE r == [run[p] EXCEPT !.pc = "save", !.saved = "untagged"]
  <2>1. r \in Runs /\ r.pc = "save"
    BY <1>1 DEF Runs, Stages, Validators
  <2>2. Become(p, r) /\ synced' = 0 /\ dir' = [dir EXCEPT !.final = None, !.partial = None]
    BY <1>5 DEF LookupPartial
  <2>3. dir' \in Dirs /\ dir'.partial = None /\ dir'.final = None
    BY <2>2, Parts DEF IInv, TypeOK, Dirs
  <2>4. SyncInv' /\ synced' \in Nat /\ Exact(dir'.final) /\ Consistent(dir')
    BY <1>1, <2>2, <2>3 DEF IInv, SyncInv, Sound, OneFile, Exact, Consistent
  <2>5. run'[p] = r /\ r.offset = 0
    BY <1>1, <2>2, Parts DEF Become, IInv, TypeOK, Runs, Knows
  <2>6. Knows(p)'
    BY <2>1, <2>3, <2>5 DEF Knows, Fetching
  <2>7. QED BY <1>1, <1>2, <2>1, <2>2, <2>3, <2>4, <2>6, HolderKeeps DEF Working
<1>6. QED BY <1>3, <1>4, <1>5

LEMMA RequestStep ==
    ASSUME IInv, NEW p \in Procs, Request(p)
    PROVE  IInv'
<1>1. run[p].pc = "request" /\ run[p] \in Runs /\ lock' = p /\ disk' = disk /\ Calm /\ Knows(p)
  BY Parts DEF Request, At, Working
<1>2. disk' \in Dirs /\ Exact(disk'.final) /\ (tagged => Consistent(disk'))
  BY <1>1 DEF IInv, TypeOK, TagInv, ExactInv
<1>3. dir' \in Dirs /\ dir'.meta = dir.meta /\ dir'.final = dir.final
      /\ dir'.partial = IF run[p].offset = 0 THEN <<>> ELSE dir.partial
  BY Parts DEF Request, IInv, TypeOK, Dirs
<1>4. Exact(dir'.final)
  BY <1>3 DEF IInv, ExactInv
<1>5. tagged => Consistent(dir')
  <2>1. DOMAIN <<>> = {}
    OBVIOUS
  <2>2. QED BY <1>3, <2>1 DEF IInv, TagInv, Consistent
<1>16. dir.final = None
  BY <1>1 DEF Knows, Fetching
<1>6. SyncInv' /\ synced' \in Nat
  BY <1>1, <1>3, <1>16, Parts DEF Request, IInv, SyncInv, Sound, OneFile, TypeOK, Knows
<1>7. PICK status \in Statuses(run[p]) :
         Become(p, [run[p] EXCEPT !.status = status, !.answer = server, !.pc =
             IF run[p].offset = 0 \/ status = 206 THEN "headers" ELSE "rejected"])
  BY DEF Request
<1> DEFINE pc == IF run[p].offset = 0 \/ status = 206 THEN "headers" ELSE "rejected"
           r == [run[p] EXCEPT !.status = status, !.answer = server, !.pc = pc]
<1>8. status \in Nat /\ server \in Versions /\ pc \in {"headers", "rejected"}
  BY DEF Statuses, IInv, TypeOK
<1>9. r \in Runs /\ r.pc = pc /\ r.offset = run[p].offset /\ r.answer = server
  <2> HIDE DEF pc
  <2>1. QED BY <1>1, <1>8 DEF Runs, Stages
<1>10. run'[p] = r
  BY <1>7 DEF Become, IInv, TypeOK
<1>11. ASSUME pc = "headers" PROVE Knows(p)'
  <2>1. CASE run[p].offset = 0
    BY <1>3, <1>8, <1>9, <1>10, <1>11, <1>16, <2>1, Parts DEF Knows
  <2>2. CASE run[p].offset # 0
    <3>1. dir.partial # None /\ Len(dir.partial) = run[p].offset /\ run[p].saved = dir.meta
      BY <1>1, <2>2 DEF Knows
    <3>2. status = 206 /\ run[p].saved \in {"untagged", server}
      BY <1>11, <2>2 DEF Statuses
    <3>3. dir.partial \in Seq(Blocks) /\ 1 \in DOMAIN dir.partial
      BY <1>1, <2>2, <3>1, Parts DEF Files, Runs
    <3>4. tagged => dir.meta \in Versions
      BY <3>1, <3>3 DEF IInv, TagInv, Consistent
    <3>5. tagged => server = dir.meta
      BY <3>1, <3>2, <3>4, NamesAssumption
    <3>6. tagged' = tagged
      BY <1>1 DEF Calm, Unchanged
    <3>7. QED BY <1>3, <1>8, <1>9, <1>10, <1>11, <1>16, <2>2, <3>1, <3>5, <3>6 DEF Knows
  <2>3. QED BY <2>1, <2>2
<1> HIDE DEF r, pc
<1>12. Knows(p)'
  <2>1. CASE pc = "rejected"
    BY <1>3, <1>9, <1>10, <1>16, <2>1 DEF Knows
  <2>2. QED BY <1>8, <1>11, <2>1
<1>13. Become(p, r)
  BY <1>7 DEF r, pc
<1>14. r.pc \in Working
  BY <1>8, <1>9 DEF Working
<1>15. QED BY <1>1, <1>2, <1>3, <1>4, <1>5, <1>6, <1>9, <1>12, <1>13, <1>14, HolderKeeps DEF Working

LEMMA HeadersStep ==
    ASSUME IInv, NEW p \in Procs, Headers(p)
    PROVE  IInv'
<1> DEFINE r == [run[p] EXCEPT !.pc = "body"]
<1>1. run[p].pc = "headers" /\ run[p] \in Runs /\ Knows(p) /\ Become(p, r) /\ Calm
      /\ lock' = p /\ lock = p /\ synced' = synced
  BY Parts DEF Headers, At, Working
<1>2. r \in Runs /\ r.pc = "body" /\ r.answer = run[p].answer /\ run'[p] = r
  BY <1>1 DEF Runs, Stages, Become, IInv, TypeOK
<1>3. dir.partial # None /\ dir.final = None /\ r.answer \in Versions
  BY <1>1, <1>2 DEF Knows, Fetching
<1>4. CASE tagged
  <2>1. SaveMetadata(r.answer)
    BY <1>2, <1>4 DEF Headers
  <2>2. Consistent([dir EXCEPT !.meta = r.answer])
    <3>1. CASE run[p].offset = 0
      <4>1. dir.partial = <<>> /\ DOMAIN <<>> = {}
        BY <1>1, <3>1 DEF Knows
      <4>2. QED BY <4>1 DEF Consistent, IInv, TypeOK, Dirs
    <3>2. CASE run[p].offset # 0
      BY <1>1, <1>2, <1>4, <3>2 DEF Knows, Consistent, IInv, TagInv, TypeOK, Dirs
    <3>3. QED BY <3>1, <3>2
  <2>3. dir'.meta = r.answer /\ dir'.partial = dir.partial /\ dir'.final = dir.final
    BY <2>1 DEF SaveMetadata, IInv, TypeOK, Dirs
  <2>4. Knows(p)'
    BY <1>2, <1>3, <2>3 DEF Knows, Fetching
  <2>5. QED BY <1>1, <1>2, <1>3, <2>1, <2>2, <2>4, SaveKeeps DEF Working, Validators
<1>5. CASE ~tagged
  <2>1. UNCHANGED <<dir, synced, disk>>
    BY <1>1, <1>5 DEF Headers
  <2>2. Knows(p)'
    BY <1>1, <1>2, <1>3, <1>5, <2>1 DEF Knows, Calm, Unchanged
  <2>3. QED BY <1>1, <1>2, <2>1, <2>2, HolderMoves DEF Working
<1>6. QED BY <1>4, <1>5

(* A block of the answer that the saved validator names may be added.       *)
LEMMA AppendKeeps ==
    ASSUME IInv, NEW p \in Procs, At(p, "body"),
           NEW d, d = [dir EXCEPT !.partial = Append(dir.partial, Block(run[p].answer, p))]
    PROVE  /\ d \in Dirs /\ d.partial # None /\ d.meta = dir.meta /\ d.final = dir.final
           /\ d.final = None /\ Sound(d, synced) /\ (tagged => Consistent(d))
<1> DEFINE b == Block(run[p].answer, p)
           g == Append(dir.partial, b)
<1>1. Knows(p) /\ run[p].pc = "body"
  BY Parts DEF At
<1>2. dir.partial # None /\ run[p].answer \in Versions /\ dir.final = None
  BY <1>1 DEF Knows, Fetching
<1>3. dir.partial \in Seq(Blocks) /\ b \in Blocks /\ b.v = run[p].answer
  BY <1>2, Parts DEF Files, Block, Blocks
<1> HIDE DEF b
<1>4. g \in Seq(Blocks) /\ Len(g) = Len(dir.partial) + 1 /\ DOMAIN g = 1..Len(dir.partial) + 1
      /\ g[Len(dir.partial) + 1] = b
      /\ \A i \in 1..Len(dir.partial) : g[i] = dir.partial[i]
      /\ DOMAIN dir.partial = 1..Len(dir.partial) /\ Len(dir.partial) \in Nat
  BY <1>3
<1> HIDE DEF g
<1>5. d = [dir EXCEPT !.partial = g]
  BY DEF g, b
<1>6. d \in Dirs /\ d.partial = g /\ d.meta = dir.meta /\ d.final = dir.final /\ g # None
  BY <1>4, <1>5, NamesAssumption DEF IInv, TypeOK, Dirs, Files
<1>7. Sound(d, synced)
  <2>1. synced \in Nat /\ synced <= Len(dir.partial)
    BY <1>2, Parts DEF IInv, SyncInv, Sound
  <2>2. synced <= Len(g)
    BY <1>4, <2>1
  <2>3. QED BY <1>2, <1>6, <2>2 DEF Sound, OneFile
<1>8. ASSUME tagged, NEW i \in DOMAIN g
      PROVE  d.meta \in Versions /\ g[i].v \in {d.meta, Torn}
  <2>1. run[p].answer = dir.meta
    BY <1>1, <1>8 DEF Knows
  <2>2. CASE i = Len(dir.partial) + 1
    BY <1>2, <1>3, <1>4, <1>6, <2>1, <2>2
  <2>3. CASE i # Len(dir.partial) + 1
    <3>1. i \in DOMAIN dir.partial /\ g[i] = dir.partial[i]
      BY <1>4, <1>8, <2>3
    <3>2. QED BY <1>2, <1>6, <1>8, <3>1 DEF IInv, TagInv, Consistent
  <2>4. QED BY <2>2, <2>3
<1>9. QED BY <1>2, <1>6, <1>7, <1>8 DEF Consistent

LEMMA ReceiveStep ==
    ASSUME IInv, NEW p \in Procs, Receive(p)
    PROVE  IInv'
<1> DEFINE r == [Received(run[p]) EXCEPT !.written = @ + 1]
<1>1. run[p].pc = "body" /\ run[p] \in Runs /\ Knows(p) /\ Become(p, r) /\ Calm
      /\ lock' = p /\ synced' = synced /\ disk' = disk
      /\ dir' = [dir EXCEPT !.partial = Append(dir.partial, Block(run[p].answer, p))]
  BY Parts DEF Receive, At, Working, IInv, TypeOK, Dirs
<1>2. /\ dir' \in Dirs /\ dir'.partial # None /\ dir'.meta = dir.meta /\ dir'.final = dir.final
      /\ dir'.final = None /\ Sound(dir', synced) /\ (tagged => Consistent(dir'))
  BY <1>1, AppendKeeps DEF At
<1>3. Received(run[p]) \in Runs /\ Received(run[p]).pc = "body"
      /\ Received(run[p]).answer = run[p].answer
  BY <1>1, RecordTypes
<1>4. r \in Runs /\ r.pc = "body" /\ r.answer = run[p].answer
  BY <1>3 DEF Runs
<1>5. run'[p] = r /\ tagged' = tagged
  BY <1>1 DEF Become, IInv, TypeOK, Calm, Unchanged
<1>6. Knows(p)'
  BY <1>1, <1>2, <1>4, <1>5 DEF Knows, Fetching
<1>7. SyncInv' /\ synced' \in Nat /\ Exact(dir'.final)
      /\ disk' \in Dirs /\ Exact(disk'.final) /\ (tagged => Consistent(disk'))
  BY <1>1, <1>2 DEF SyncInv, IInv, TypeOK, TagInv, ExactInv
<1> HIDE DEF r
<1>8. QED BY <1>1, <1>2, <1>4, <1>6, <1>7, HolderKeeps DEF Working

LEMMA WriteFailsStep ==
    ASSUME IInv, NEW p \in Procs, WriteFails(p)
    PROVE  IInv'
<1> DEFINE r == [Received(run[p]) EXCEPT !.pc = "interrupted", !.lost = @ + 1]
<1>1. run[p].pc = "body" /\ run[p] \in Runs /\ Knows(p) /\ Become(p, r) /\ Fault
      /\ lock' = p /\ synced' = synced /\ disk' = disk
      /\ dir' \in {dir, [dir EXCEPT !.partial = Append(dir.partial, Block(run[p].answer, p))]}
  BY Parts DEF WriteFails, At, Working, IInv, TypeOK, Dirs
<1>2. Received(run[p]) \in Runs
  BY <1>1, RecordTypes
<1>3. r \in Runs /\ r.pc = "interrupted"
  <2>1. Received(run[p]).lost + 1 \in Nat
    BY <1>2 DEF Runs
  <2>2. PICK n \in Nat : r = [Received(run[p]) EXCEPT !.pc = "interrupted", !.lost = n]
    BY <1>2, <2>1, Zenon DEF Runs
  <2>3. QED BY <1>2, <2>2 DEF Runs, Stages
<1> HIDE DEF r
<1>7. dir.final = None /\ run'[p] = r
  BY <1>1 DEF Knows, Fetching, Become, IInv, TypeOK
<1>4. CASE dir' = dir
  <2>1. Knows(p)'
    BY <1>3, <1>4, <1>7 DEF Knows
  <2>2. QED BY <1>1, <1>3, <1>4, <2>1, HolderMoves DEF Working
<1>5. CASE dir' # dir
  <2>1. /\ dir' \in Dirs /\ dir'.partial # None /\ dir'.meta = dir.meta /\ dir'.final = dir.final
        /\ dir'.final = None /\ Sound(dir', synced) /\ (tagged => Consistent(dir'))
    BY <1>1, <1>5, AppendKeeps DEF At
  <2>2. SyncInv' /\ synced' \in Nat /\ Exact(dir'.final)
        /\ disk' \in Dirs /\ Exact(disk'.final) /\ (tagged => Consistent(disk'))
    BY <1>1, <2>1 DEF SyncInv, IInv, TypeOK, TagInv, ExactInv
  <2>3. Knows(p)'
    BY <1>3, <1>7, <2>1 DEF Knows
  <2>4. QED BY <1>1, <1>3, <2>1, <2>2, <2>3, HolderKeeps DEF Working
<1>6. QED BY <1>4, <1>5

(* A process that leaves the files alone still knows that there is no       *)
(* artifact.                                                                *)
LEMMA HolderStays ==
    ASSUME IInv, NEW p \in Procs, run[p].pc \in Fetching, NEW r \in Runs, Become(p, r),
           r.pc \in {"invalid", "rejected", "interrupted"}, dir'.final = dir.final
    PROVE  Knows(p)'
<1>1. dir.final = None /\ run'[p] = r
  BY Parts DEF Knows, Become, IInv, TypeOK
<1>2. QED BY <1>1 DEF Knows

(* The steps that only move a process along.                                *)
LEMMA MoveSteps ==
    ASSUME IInv, NEW p \in Procs,
           \/ Oversized(p) \/ Discard(p) \/ HeadersFail(p) \/ EndInterrupted(p)
           \/ PublishFails(p) \/ Accept(p)
    PROVE  IInv'
<1>1. run[p] \in Runs /\ (run[p].pc \in Working => lock = p)
  BY Parts
<1>2. Received(run[p]) \in Runs
  BY <1>1, RecordTypes
<1>3. CASE Oversized(p)
  <2> DEFINE r == [Received(run[p]) EXCEPT !.pc = "invalid"]
  <2>1. r \in Runs /\ r.pc = "invalid"
    BY <1>2 DEF Runs, Stages
  <2>2. Become(p, r) /\ Calm /\ run[p].pc = "body" /\ UNCHANGED cacheVars
    BY <1>3 DEF Oversized, At
  <2> HIDE DEF r
  <2>3. Knows(p)'
    BY <1>1, <2>1, <2>2, HolderStays DEF cacheVars, Fetching
  <2>4. QED BY <1>1, <2>1, <2>2, <2>3, HolderMoves DEF Working, cacheVars
<1>4. CASE Discard(p)
  <2> DEFINE pc == IF run[p].received + 1 > Size THEN "invalid" ELSE "rejected"
             r == [Received(run[p]) EXCEPT !.pc = pc]
  <2>1. r \in Runs /\ r.pc \in {"invalid", "rejected"}
    BY <1>2 DEF Runs, Stages
  <2>2. Become(p, r) /\ Calm /\ run[p].pc = "rejected" /\ UNCHANGED cacheVars
    BY <1>4 DEF Discard, At
  <2> HIDE DEF r
  <2>3. Knows(p)'
    BY <1>1, <2>1, <2>2, HolderStays DEF cacheVars, Fetching
  <2>4. QED BY <1>1, <2>1, <2>2, <2>3, HolderMoves DEF Working, cacheVars
<1>5. CASE HeadersFail(p)
  <2> DEFINE r == [run[p] EXCEPT !.pc = "invalid"]
  <2>1. r \in Runs /\ r.pc = "invalid"
    BY <1>1 DEF Runs, Stages
  <2>2. Become(p, r) /\ Fault /\ run[p].pc = "headers" /\ UNCHANGED cacheVars
    BY <1>5 DEF HeadersFail, At
  <2> HIDE DEF r
  <2>3. Knows(p)'
    BY <1>1, <2>1, <2>2, HolderStays DEF cacheVars, Fetching
  <2>4. QED BY <1>1, <2>1, <2>2, <2>3, HolderMoves DEF Working, cacheVars
<1>6. CASE EndInterrupted(p)
  <2> DEFINE r == Failed(run[p], run[p].written)
  <2>1. run[p].written \in Nat
    BY <1>1 DEF Runs
  <2>2. r \in Runs /\ r.pc \in {"failed", "lock"} /\ (r.pc = "lock" => r.offset = 0)
    BY <1>1, <2>1, RecordTypes
  <2>3. Become(p, r) /\ Calm /\ run[p].pc = "interrupted" /\ lock' = None
        /\ UNCHANGED <<dir, synced, disk>>
    BY <1>6 DEF EndInterrupted, At
  <2> HIDE DEF r
  <2>4. r.pc \in Knowing => Knows(p)'
    <3>1. run'[p] = r
      BY <2>3 DEF Become, IInv, TypeOK
    <3>2. QED BY <2>2, <3>1 DEF Knows, Knowing, Working, Fetching
  <2>5. QED BY <1>1, <2>2, <2>3, <2>4, HolderMoves DEF Working
<1>7. CASE PublishFails(p)
  <2> DEFINE r == [Idle EXCEPT !.pc = "failed"]
  <2>1. r \in Runs /\ r.pc = "failed"
    BY DEF Runs, Stages, Idle, Validators
  <2>2. Become(p, r) /\ Fault /\ run[p].pc \in {"publish", "sync"} /\ lock' = None
        /\ UNCHANGED <<dir, synced, disk>>
    BY <1>7 DEF PublishFails
  <2> HIDE DEF r
  <2>3. QED BY <1>1, <2>1, <2>2, HolderMoves DEF Working, Knowing
<1>8. CASE Accept(p)
  <2> DEFINE s == [run[p] EXCEPT !.pc = "publish"]
  <2>1. s \in Runs /\ s.pc = "publish"
    BY <1>1 DEF Runs, Stages
  <2>2. Become(p, Counted(s)) /\ Calm /\ run[p].pc = "verify" /\ UNCHANGED cacheVars
        /\ Verified(dir.partial)
    BY <1>8 DEF Accept, At
  <2> HIDE DEF s
  <2>3. Counted(s) \in Runs /\ Counted(s).pc = "publish"
    BY <2>1, RecordTypes
  <2>4. Knows(p)'
    <3>1. run'[p] = Counted(s)
      BY <2>2 DEF Become, IInv, TypeOK
    <3>2. Verified(dir.partial)' /\ dir' = dir /\ synced' = synced
      BY <2>2 DEF Verified, cacheVars
    <3>3. dir.final = None /\ synced = Size
      BY <2>2, Parts DEF Knows, Fetching, Verified
    <3>4. QED BY <2>3, <3>1, <3>2, <3>3 DEF Knows
  <2>5. QED BY <1>1, <2>2, <2>3, <2>4, HolderMoves DEF Working, cacheVars
<1>9. QED BY <1>3, <1>4, <1>5, <1>6, <1>7, <1>8

(* The steps that synchronise or shorten the partial file.                  *)
LEMMA TransferEndsStep ==
    ASSUME IInv, NEW p \in Procs, TransferEnds(p)
    PROVE  IInv'
<1> DEFINE r == [run[p] EXCEPT !.pc = "verify"]
<1>1. run[p].pc = "body" /\ run[p] \in Runs /\ Knows(p) /\ Become(p, r) /\ Calm
      /\ lock' = p /\ UNCHANGED <<dir, disk>> /\ synced' = Len(dir.partial)
  BY Parts DEF TransferEnds, At, Working
<1>2. r \in Runs /\ r.pc = "verify"
  BY <1>1 DEF Runs, Stages
<1>3. dir.partial # None /\ Len(dir.partial) \in Nat /\ dir.final = None
  BY <1>1, Parts DEF Knows, Files, Fetching
<1>4. /\ SyncInv' /\ synced' \in Nat /\ dir' \in Dirs /\ disk' \in Dirs
      /\ Exact(dir'.final) /\ Exact(disk'.final) /\ (tagged => Consistent(dir') /\ Consistent(disk'))
  BY <1>1, <1>3 DEF SyncInv, Sound, OneFile, IInv, TypeOK, TagInv, ExactInv
<1> HIDE DEF r
<1>5. Knows(p)'
  <2>1. run'[p] = r
    BY <1>1 DEF Become, IInv, TypeOK
  <2>2. QED BY <1>1, <1>2, <1>3, <2>1 DEF Knows
<1>6. QED BY <1>1, <1>2, <1>4, <1>5, HolderKeeps DEF Working

LEMMA InterruptedStep ==
    ASSUME IInv, NEW p \in Procs, Interrupted(p)
    PROVE  IInv'
<1> DEFINE r == [run[p] EXCEPT !.pc = "interrupted"]
<1>1. run[p].pc \in {"request", "headers", "body"} /\ run[p] \in Runs /\ Knows(p)
      /\ Become(p, r) /\ Fault /\ lock' = p /\ disk' = disk
      /\ synced' \in {Len(dir'.partial), IF dir'.partial = <<>> THEN 0 ELSE synced}
  BY Parts DEF Interrupted, Working
<1>2. r \in Runs /\ r.pc = "interrupted"
  BY <1>1 DEF Runs, Stages
<1>3. dir' \in Dirs /\ dir'.meta = dir.meta /\ dir'.final = dir.final
      /\ dir'.partial = IF At(p, "request") /\ run[p].offset = 0 THEN <<>> ELSE dir.partial
  BY Parts DEF Interrupted, IInv, TypeOK, Dirs
<1>4. dir'.partial \in Seq(Blocks) /\ dir'.partial # None /\ Len(dir'.partial) \in Nat
  <2>1. CASE At(p, "request") /\ run[p].offset = 0
    BY <1>3, <2>1, Parts, NamesAssumption DEF Files
  <2>2. CASE ~(At(p, "request") /\ run[p].offset = 0)
    BY <1>1, <1>3, <2>2, Parts DEF Knows, Files, At
  <2>3. QED BY <2>1, <2>2
<1>5. tagged => Consistent(dir')
  <2>1. DOMAIN <<>> = {}
    OBVIOUS
  <2>2. QED BY <1>3, <2>1 DEF IInv, TagInv, Consistent
<1>6. /\ SyncInv' /\ synced' \in Nat /\ disk' \in Dirs
      /\ Exact(dir'.final) /\ Exact(disk'.final) /\ (tagged => Consistent(disk'))
  <2>1. dir.final = None
    BY <1>1 DEF Knows, Fetching
  <2>2. synced' \in Nat /\ synced' <= Len(dir'.partial)
    <3>1. CASE synced' = Len(dir'.partial)
      BY <1>4, <3>1
    <3>2. CASE dir'.partial = <<>> /\ synced' = 0
      BY <3>2
    <3>3. CASE dir'.partial # <<>> /\ synced' = synced
      BY <1>3, <1>4, <3>3, Parts DEF IInv, SyncInv, Sound
    <3>4. QED BY <1>1, <3>1, <3>2, <3>3
  <2>3. QED BY <1>1, <1>3, <1>4, <2>1, <2>2
             DEF SyncInv, Sound, OneFile, IInv, TypeOK, TagInv, ExactInv
<1>8. Knows(p)'
  BY <1>1, <1>2, <1>3, HolderStays DEF Fetching
<1> HIDE DEF r
<1>7. QED BY <1>1, <1>2, <1>3, <1>5, <1>6, <1>8, HolderKeeps DEF Working

(* The steps after which there is no file.                                  *)
LEMMA NoPartialKeeps ==
    ASSUME IInv, NEW p \in Procs, run[p].pc \in Working, NEW r \in Runs, Become(p, r), Calm,
           IF r.pc \in Working THEN lock' = p ELSE lock' \in {None, p},
           dir' \in Dirs, dir'.partial = None, dir'.final = None, synced' = 0, disk' = disk,
           r.pc \in Knowing => Knows(p)'
    PROVE  IInv'
<1>1. /\ SyncInv' /\ synced' \in Nat /\ disk' \in Dirs /\ Exact(dir'.final)
      /\ Exact(disk'.final) /\ (tagged => Consistent(dir') /\ Consistent(disk'))
  BY DEF SyncInv, Sound, OneFile, IInv, TypeOK, TagInv, ExactInv, Exact, Consistent
<1>2. QED BY <1>1, HolderKeeps

LEMMA RangeRejectedStep ==
    ASSUME IInv, NEW p \in Procs, RangeRejected(p)
    PROVE  IInv'
<1> DEFINE r == [run[p] EXCEPT !.pc = "request", !.offset = 0, !.discarded = run[p].received,
                               !.received = 0, !.written = 0]
<1>1. run[p].pc = "rejected" /\ run[p] \in Runs /\ Become(p, r) /\ Calm
      /\ lock' = p /\ disk' = disk /\ synced' = 0 /\ dir' = [dir EXCEPT !.partial = None]
  BY Parts DEF RangeRejected, At, Working
<1>2. r \in Runs /\ r.pc = "request" /\ r.offset = 0
  BY <1>1 DEF Runs, Stages
<1>3. dir' \in Dirs /\ dir'.partial = None /\ dir'.final = dir.final
  BY <1>1, Parts DEF IInv, TypeOK, Dirs
<1>4. dir.final = None
  BY <1>1, Parts DEF Knows, Fetching
<1>5. run'[p] = r
  BY <1>1 DEF Become, IInv, TypeOK
<1> HIDE DEF r
<1>6. Knows(p)'
  BY <1>2, <1>3, <1>4, <1>5 DEF Knows
<1>7. QED BY <1>1, <1>2, <1>3, <1>4, <1>6, NoPartialKeeps DEF Working

LEMMA EndInvalidStep ==
    ASSUME IInv, NEW p \in Procs, EndInvalid(p)
    PROVE  IInv'
<1> DEFINE r == Failed(run[p], 0)
<1>1. run[p].pc \in {"invalid", "verify"} /\ run[p] \in Runs /\ Become(p, r) /\ Calm
      /\ lock' = None /\ disk' = disk /\ synced' = 0
      /\ dir' = [dir EXCEPT !.partial = None, !.meta = None]
  BY Parts DEF EndInvalid, At
<1>2. r \in Runs /\ r.pc \in {"failed", "lock"} /\ (r.pc = "lock" => r.offset = 0)
  BY <1>1, RecordTypes
<1>3. dir' \in Dirs /\ dir'.partial = None /\ dir'.final = dir.final
  BY <1>1, Parts DEF IInv, TypeOK, Dirs, Validators
<1>4. dir.final = None
  BY <1>1, Parts DEF Knows, Fetching
<1>5. run'[p] = r
  BY <1>1 DEF Become, IInv, TypeOK
<1> HIDE DEF r
<1>6. r.pc \in Knowing => Knows(p)'
  BY <1>2, <1>5 DEF Knows, Knowing, Working, Fetching
<1>7. QED BY <1>1, <1>2, <1>3, <1>4, <1>6, NoPartialKeeps DEF Working

LEMMA PublishStep ==
    ASSUME IInv, NEW p \in Procs, Publish(p)
    PROVE  IInv'
<1> DEFINE r == [run[p] EXCEPT !.pc = "sync"]
<1>1. run[p].pc = "publish" /\ run[p] \in Runs /\ Knows(p) /\ Become(p, r) /\ Calm
      /\ lock' = p /\ disk' = disk /\ synced' = synced
      /\ dir' = [dir EXCEPT !.final = dir.partial, !.partial = None]
  BY Parts DEF Publish, At, Working
<1>2. r \in Runs /\ r.pc = "sync"
  BY <1>1 DEF Runs, Stages
<1>3. dir' \in Dirs /\ dir'.partial = None /\ dir'.final = dir.partial
  BY <1>1, Parts DEF IInv, TypeOK, Dirs
<1>4. Exact(dir'.final)
  BY <1>1, <1>3 DEF Knows, Exact
<1> HIDE DEF r
<1>5. Knows(p)'
  <2>1. run'[p] = r
    BY <1>1 DEF Become, IInv, TypeOK
  <2>2. QED BY <1>2, <1>3, <2>1 DEF Knows, Fetching
<1>6. SyncInv'
  <2>1. Verified(dir.partial) /\ synced = Size
    BY <1>1 DEF Knows
  <2>2. QED BY <1>1, <1>3, <2>1 DEF IInv, SyncInv, Sound, OneFile, Verified
<1>7. /\ synced' \in Nat /\ disk' \in Dirs /\ Exact(disk'.final)
      /\ (tagged => Consistent(dir') /\ Consistent(disk'))
  BY <1>1, <1>3 DEF IInv, TypeOK, TagInv, ExactInv, Consistent
<1>8. QED BY <1>1, <1>2, <1>3, <1>4, <1>5, <1>6, <1>7, HolderKeeps DEF Working

(* The directory reaches the disk, and the validator goes.                  *)
LEMMA SyncDirectoryStep ==
    ASSUME IInv, NEW p \in Procs, SyncDirectory(p)
    PROVE  IInv'
<1> DEFINE r == [run[p] EXCEPT !.pc = "clean"]
<1>1. run[p].pc = "sync" /\ run[p] \in Runs /\ Knows(p) /\ Become(p, r) /\ Calm
      /\ lock' = p /\ UNCHANGED <<dir, synced>> /\ disk' = Durable(dir, synced)
  BY Parts DEF SyncDirectory, At, Working
<1>2. r \in Runs /\ r.pc = "clean"
  BY <1>1 DEF Runs, Stages
<1>3. dir \in Dirs /\ synced \in Nat /\ Sound(dir, synced)
      /\ Exact(dir.final) /\ (tagged => Consistent(dir))
  BY DEF IInv, TypeOK, SyncInv, TagInv, ExactInv
<1>4. disk' \in Dirs /\ disk'.final = dir.final /\ (tagged => Consistent(disk'))
      /\ OneFile(disk')
  BY <1>1, <1>3, DurableKeeps
<1>5. SyncInv'
  BY <1>1, <1>3, <1>4 DEF SyncInv
<1> HIDE DEF r
<1>6. Knows(p)'
  <2>1. run'[p] = r
    BY <1>1 DEF Become, IInv, TypeOK
  <2>2. QED BY <1>1, <1>2, <2>1 DEF Knows, Fetching
<1>7. QED BY <1>1, <1>2, <1>3, <1>4, <1>5, <1>6, HolderKeeps DEF Working

LEMMA CleanStep ==
    ASSUME IInv, NEW p \in Procs, Clean(p)
    PROVE  IInv'
<1> DEFINE r == Succeeded(run[p])
<1>1. run[p].pc = "clean" /\ run[p] \in Runs /\ Knows(p) /\ Become(p, r) /\ Calm
      /\ lock' = None /\ UNCHANGED <<disk, synced>> /\ dir' = [dir EXCEPT !.meta = None]
  BY Parts DEF Clean, At
<1>2. r \in Runs /\ r.pc = "done"
  BY <1>1, RecordTypes
<1>3. dir' \in Dirs /\ dir'.partial = None /\ dir.partial = None /\ dir'.final = dir.final
  BY <1>1 DEF IInv, TypeOK, Dirs, Validators, Knows
<1>4. /\ SyncInv' /\ synced' \in Nat /\ disk' \in Dirs
      /\ Exact(dir'.final) /\ Exact(disk'.final)
      /\ (tagged => Consistent(dir') /\ Consistent(disk'))
  BY <1>1, <1>3 DEF IInv, TypeOK, SyncInv, Sound, OneFile, ExactInv, TagInv, Consistent
<1> HIDE DEF r
<1>5. QED BY <1>1, <1>2, <1>3, <1>4, HolderKeeps DEF Working, Knowing

(* A run begins beside the holder of the lock, whose file keeps its length  *)
(* and its versions.                                                        *)
LEMMA BeginStep ==
    ASSUME IInv, NEW p \in Procs, Begin(p)
    PROVE  IInv'
<1> DEFINE r == Attempt(Idle)
<1>1. Idle \in Runs
  BY DEF Idle, Runs, Stages, Validators
<1>2. r \in Runs /\ r.pc = "lock" /\ r.offset = 0
  BY <1>1, RecordTypes
<1> HIDE DEF r
<1>3. run'[p] = r /\ run' \in [Procs -> Runs] /\ \A q \in Procs \ {p} : run'[q] = run[q]
  BY <1>2 DEF Begin, Become, IInv, TypeOK, r
<1>4. /\ dir' = [dir EXCEPT !.partial = Disown(dir.partial, p), !.final = Disown(dir.final, p)]
      /\ UNCHANGED <<lock, synced, disk>> /\ Calm
  BY DEF Begin, IInv, TypeOK, Dirs
<1> DEFINE f == dir.partial
           g == Disown(f, p)
           h == Disown(dir.final, p)
<1>5. /\ g \in Files /\ (g = None <=> f = None)
      /\ f # None => Len(g) = Len(f) /\ DOMAIN g = DOMAIN f /\ \A i \in DOMAIN f : g[i].v = f[i].v
  BY Parts, DisownKeeps
<1>6. /\ h \in Files /\ (h = None <=> dir.final = None)
      /\ dir.final # None => /\ Len(h) = Len(dir.final) /\ DOMAIN h = DOMAIN dir.final
                             /\ \A i \in DOMAIN dir.final : h[i].v = dir.final[i].v
  BY Parts, DisownKeeps
<1>7. f = <<>> => g = <<>>
  BY <1>5, Parts, NamesAssumption DEF Files
<1>8. Verified(f) => Verified(g)
  BY <1>5 DEF Verified
<1> HIDE DEF g, h
<1>9. dir' \in Dirs /\ dir'.partial = g /\ dir'.final = h /\ dir'.meta = dir.meta
  BY <1>4, <1>5, <1>6 DEF IInv, TypeOK, Dirs, g, h
<1>10. SyncInv'
  BY <1>4, <1>5, <1>6, <1>9 DEF IInv, SyncInv, Sound, OneFile
<1>11. TagInv'
  <2>1. Consistent(dir) => Consistent(dir')
    BY <1>5, <1>9 DEF Consistent
  <2>2. QED BY <1>4, <2>1 DEF IInv, TagInv, Calm, Unchanged
<1>12. ExactInv'
  BY <1>4, <1>6, <1>9 DEF IInv, ExactInv, Exact, Verified
<1>13. LockInv'
  BY <1>2, <1>3, <1>4 DEF IInv, LockInv, Working
<1>14. StageInv'
  <2>1. Knows(p)'
    BY <1>2, <1>3 DEF Knows, Fetching
  <2>2. ASSUME NEW q \in Procs \ {p} PROVE Knows(q)'
    <3>1. Knows(q) /\ run'[q] = run[q] /\ tagged' = tagged /\ synced' = synced
      BY <1>3, <1>4, Parts DEF Calm, Unchanged
    <3>2. QED BY <1>5, <1>6, <1>7, <1>8, <1>9, <3>1 DEF Knows
  <2>3. QED BY <2>1, <2>2 DEF StageInv
<1>15. TypeOK'
  BY <1>3, <1>4, <1>9 DEF IInv, TypeOK, Calm, Unchanged
<1>16. QED BY <1>10, <1>11, <1>12, <1>13, <1>14, <1>15 DEF IInv

(* A process that dies or uses its artifact leaves the cache alone.         *)
LEMMA LeaveSteps ==
    ASSUME IInv, NEW p \in Procs, Crash(p) \/ Use(p)
    PROVE  IInv'
<1>1. Idle \in Runs /\ Idle.pc = "idle"
      /\ \A c \in {"used", "failed"} : [Idle EXCEPT !.pc = c] \in Runs /\ [Idle EXCEPT !.pc = c].pc = c
  BY DEF Idle, Runs, Stages, Validators
<1>2. PICK r \in Runs : r.pc \in {"idle", "failed", "used"} /\ Become(p, r)
  BY <1>1 DEF Crash, Use
<1>3. UNCHANGED <<dir, synced, disk>> /\ Unchanged /\ faults' \in 0..MaxFaults
      /\ lock' \in {None, lock} /\ (lock # p => lock' = lock)
  BY DownloadAssumption DEF Crash, Use, Fault, Calm, cacheVars, At, IInv, TypeOK
<1>4. run'[p] = r /\ run' \in [Procs -> Runs] /\ \A q \in Procs \ {p} : run'[q] = run[q]
  BY <1>2 DEF Become, IInv, TypeOK
<1>5. LockInv'
  BY <1>2, <1>3, <1>4 DEF IInv, LockInv, Working
<1>6. StageInv'
  <2>1. Knows(p)'
    BY <1>2, <1>4 DEF Knows, Fetching
  <2>2. ASSUME NEW q \in Procs \ {p} PROVE Knows(q)'
    BY <1>3, <1>4, Parts DEF Knows, Unchanged
  <2>3. QED BY <2>1, <2>2 DEF StageInv
<1>7. QED BY <1>3, <1>4, <1>5, <1>6 DEF IInv, TypeOK, SyncInv, TagInv, ExactInv, Unchanged

LEMMA RemoveArtifactStep ==
    ASSUME IInv, RemoveArtifact
    PROVE  IInv'
<1>1. dir' = [dir EXCEPT !.final = None] /\ UNCHANGED <<lock, disk, run>> /\ Unchanged
      /\ faults' \in 0..MaxFaults /\ synced' = 0 /\ lock = None /\ dir.final # None
  BY DownloadAssumption DEF RemoveArtifact, Fault, IInv, TypeOK
<1>2. dir' \in Dirs /\ dir'.partial = dir.partial /\ dir'.meta = dir.meta /\ dir'.final = None
  BY <1>1, Parts DEF IInv, TypeOK, Dirs
<1>3. StageInv'
  <2>1. ASSUME NEW q \in Procs PROVE Knows(q)'
    <3>1. Knows(q) /\ run'[q] = run[q] /\ run[q].pc \notin Working
      BY <1>1, Parts, NamesAssumption
    <3>2. QED BY <3>1 DEF Knows, Working, Fetching
  <2>2. QED BY <2>1 DEF StageInv
<1>4. TagInv' /\ ExactInv' /\ SyncInv' /\ LockInv'
  BY <1>1, <1>2 DEF IInv, TagInv, ExactInv, Exact, SyncInv, Sound, OneFile, LockInv, Consistent,
                    Unchanged
<1>5. TypeOK'
  BY <1>1, <1>2 DEF IInv, TypeOK, Unchanged
<1>6. QED BY <1>3, <1>4, <1>5 DEF IInv

LEMMA PowerLossStep ==
    ASSUME IInv, PowerLoss
    PROVE  IInv'
<1>1. lock' = None /\ run' = [q \in Procs |-> Idle] /\ disk' = dir' /\ Unchanged
      /\ synced' = Blocked(dir') /\ faults' \in 0..MaxFaults
  <2>1. Fault
    BY Zenon DEF PowerLoss
  <2>2. faults' \in 0..MaxFaults
    BY <2>1, DownloadAssumption DEF Fault, IInv, TypeOK
  <2>3. QED BY <2>1, <2>2, Zenon DEF PowerLoss, Fault
<1>2. dir' \in Dirs /\ Exact(dir'.final) /\ (tagged => Consistent(dir')) /\ OneFile(dir')
  <2>1. CASE dir' = disk
    BY <2>1 DEF IInv, TypeOK, ExactInv, TagInv, SyncInv
  <2>2. ASSUME NEW f \in AfterLoss(dir.partial, synced), NEW g \in AfterLoss(dir.final, synced),
               dir' = [dir EXCEPT !.partial = f, !.final = g]
        PROVE  dir' \in Dirs /\ Exact(dir'.final) /\ (tagged => Consistent(dir')) /\ OneFile(dir')
    <3>1. /\ dir.partial \in Files /\ dir.final \in Files /\ synced \in Nat
          /\ Sound(dir, synced)
      BY Parts DEF IInv, SyncInv
    <3>2. /\ f \in Files /\ (f = None <=> dir.partial = None)
          /\ dir.partial # None => \A i \in DOMAIN f : \E j \in DOMAIN dir.partial :
                                       f[i].v \in {dir.partial[j].v, Torn}
      BY <3>1, LossKeeps DEF Sound
    <3>6. g = dir.final
      <4>1. CASE dir.final = None
        BY <4>1 DEF AfterLoss
      <4>2. CASE dir.final # None
        <5>1. synced = Len(dir.final) /\ synced <= Len(dir.final)
          BY <3>1, <4>2 DEF Sound
        <5>2. QED BY <3>1, <4>2, <5>1, LossKeeps
      <4>3. QED BY <4>1, <4>2
    <3>3. dir' \in Dirs /\ dir'.partial = f /\ dir'.final = dir.final /\ dir'.meta = dir.meta
      BY <2>2, <3>1, <3>2, <3>6 DEF IInv, TypeOK, Dirs
    <3>4. Consistent(dir) => Consistent(dir')
      BY <3>2, <3>3 DEF Consistent
    <3>5. OneFile(dir')
      BY <3>1, <3>2, <3>3 DEF Sound, OneFile
    <3>7. QED BY <3>3, <3>4, <3>5 DEF IInv, ExactInv, TagInv
  <2>3. QED BY <2>1, <2>2 DEF PowerLoss
<1>3. SyncInv' /\ synced' \in Nat
  <2>1. /\ dir'.partial # None => Len(dir'.partial) \in Nat
        /\ dir'.final # None => Len(dir'.final) \in Nat
    BY <1>2 DEF Dirs, Files
  <2>2. QED BY <1>1, <1>2, <2>1 DEF SyncInv, Sound, OneFile, Blocked
<1>4. Idle \in Runs /\ Idle.pc = "idle"
  BY DEF Idle, Runs, Stages, Validators
<1>5. run' \in [Procs -> Runs] /\ \A q \in Procs : run'[q].pc = "idle"
  BY <1>1, <1>4
<1>6. LockInv' /\ StageInv'
  BY <1>5 DEF LockInv, StageInv, Knows, Working, Fetching
<1>7. TagInv' /\ ExactInv'
  BY <1>1, <1>2 DEF TagInv, ExactInv, Unchanged
<1>8. TypeOK'
  BY <1>1, <1>2, <1>3, <1>5 DEF IInv, TypeOK, Unchanged
<1>9. QED BY <1>3, <1>6, <1>7, <1>8 DEF IInv

LEMMA ServerSteps ==
    ASSUME IInv, Replace \/ Restore \/ UNCHANGED vars
    PROVE  IInv'
<1>1. UNCHANGED <<lock, dir, synced, disk, staged, tagged, run, faults>>
      /\ server' \in Versions /\ changes' \in 0..MaxChanges
  BY DownloadAssumption DEF Replace, Restore, vars, cacheVars, Versions, IInv, TypeOK
<1>2. StageInv'
  BY <1>1 DEF IInv, StageInv, Knows, Verified
<1>3. QED BY <1>1, <1>2 DEF IInv, TypeOK, LockInv, SyncInv, TagInv, ExactInv

----------------------------------------------------------------------------
(* IInv is an inductive invariant of the acquisition, for any processes,    *)
(* sizes, attempts and bounds.                                              *)
THEOREM Inductive == Spec => []IInv
<1>1. Init => IInv
  <2> SUFFICES ASSUME Init PROVE IInv
    OBVIOUS
  <2>1. Idle \in Runs /\ Idle.pc = "idle"
    BY DEF Idle, Runs, Stages, Validators
  <2>2. run \in [Procs -> Runs] /\ \A q \in Procs : run[q].pc = "idle"
    BY <2>1 DEF Init
  <2>3. LockInv /\ StageInv
    BY <2>2 DEF LockInv, StageInv, Knows, Working, Fetching
  <2>4. dir.partial = None /\ dir.final = None /\ dir.meta = None /\ dir \in Dirs /\ disk = dir
    BY DEF Init, Dirs, Files, Validators
  <2>5. SyncInv /\ TagInv /\ ExactInv
    BY <2>4 DEF Init, SyncInv, Sound, OneFile, TagInv, ExactInv, Exact, Consistent
  <2>6. TypeOK
    BY <2>2, <2>4, DownloadAssumption DEF Init, TypeOK
  <2>7. QED BY <2>3, <2>5, <2>6 DEF IInv
<1>2. IInv /\ [Next]_vars => IInv'
  <2> SUFFICES ASSUME IInv, [Next]_vars PROVE IInv'
    OBVIOUS
  <2>1. ASSUME NEW p \in Procs, Step(p) PROVE IInv'
    BY <2>1, BeginStep, LockStep, LookupHitStep, LookupPartialStep, SaveStep, RequestStep,
       HeadersStep, ReceiveStep, MoveSteps, TransferEndsStep, RangeRejectedStep, EndInvalidStep,
       PublishStep, SyncDirectoryStep, CleanStep, LeaveSteps DEF Step
  <2>2. ASSUME NEW p \in Procs, Trouble(p) PROVE IInv'
    BY <2>2, InterruptedStep, WriteFailsStep, MoveSteps, LeaveSteps DEF Trouble
  <2>3. QED BY <2>1, <2>2, RemoveArtifactStep, PowerLossStep, ServerSteps DEF Next
<1>3. QED BY <1>1, <1>2, PTL DEF Spec

(* The files of the cache and the record of every acquisition keep their    *)
(* types.                                                                   *)
THEOREM TypeCorrect == Spec => []TypeOK
<1>1. IInv => TypeOK
  BY DEF IInv
<1>2. QED BY <1>1, Inductive, PTL

(* What is published under the digest is exactly the declared file, also    *)
(* after a kill, a failed write or a power loss at any step of any process. *)
THEOREM PublishedAlwaysExact == Spec => []PublishedIsExact
<1>1. IInv => PublishedIsExact
  BY DEF IInv, ExactInv, Exact, Verified, PublishedIsExact
<1>2. QED BY <1>1, Inductive, PTL

(* With a server that names its versions the partial file never joins two.  *)
THEOREM PartialOfOneVersion == Spec => []OneVersion
<1>1. ASSUME IInv PROVE OneVersion
  <2> DEFINE S == {dir.partial[i].v : i \in DOMAIN dir.partial} \ {Torn}
  <2>1. ASSUME tagged, dir.partial # None PROVE Cardinality(S) <= 1
    <3>1. S \subseteq {dir.meta}
      BY <1>1, <2>1 DEF IInv, TagInv, Consistent
    <3>2. IsFiniteSet({dir.meta}) /\ Cardinality({dir.meta}) = 1
      BY FS_Singleton
    <3> HIDE DEF S
    <3>3. QED BY <3>1, <3>2, FS_Subset
  <2>2. QED BY <2>1 DEF OneVersion
<1>2. QED BY <1>1, Inductive, PTL

----------------------------------------------------------------------------
(* What a run counts *)

Resting == {"idle", "failed", "used"}
Asking == {"lock", "lookup", "save", "request", "headers"}
Taking == Asking \cup {"body", "verify"}
Ending == {"publish", "sync", "clean"}

(* The counters of a run, by its stage: what it received is counted once.   *)
Tally(r) ==
    /\ r.pc \notin Resting => r.resumed <= r.downloaded
    /\ r.pc \in Asking => r.received = 0
    /\ r.pc \in {"lock", "lookup", "save", "rejected"} => r.discarded = 0
    /\ r.pc = "request" /\ r.offset # 0 => r.discarded = 0
    /\ r.pc = "rejected" => r.written = 0
    /\ r.pc \in Taking => r.written = r.received /\ r.offset + r.received <= Size
    /\ r.pc \in Taking \cup {"rejected"} =>
           r.downloaded + r.discarded + r.received + r.lost = r.net
    /\ r.pc = "interrupted" => r.downloaded + r.discarded + r.written + r.lost = r.net
    /\ r.pc \in Ending \cup {"done"} => r.downloaded + r.lost = r.net
    /\ r.pc \in Ending => r.reused + r.written <= Size
    /\ r.pc = "done" => r.reused = 0 \/ r.reused + r.retained + r.written <= Size

(* The blocks of a file that are a process's own, and how many its present  *)
(* run can have written.                                                    *)
Own(f, p) == {i \in DOMAIN f : f[i].by = p}
Wrote(r) == r.retained + r.lost + r.written
CountInv ==
    \A p \in Procs : /\ Tally(run[p])
                     /\ run[p].pc \notin Resting =>
                            \A f \in {dir.partial, dir.final} :
                                f # None => Cardinality(Own(f, p)) <= Wrote(run[p])

(* Each field of a record of a run.                                         *)
LEMMA Fields ==
    ASSUME NEW r \in Runs
    PROVE  /\ r.offset \in Nat /\ r.received \in Nat /\ r.written \in Nat /\ r.discarded \in Nat
           /\ r.downloaded \in Nat /\ r.resumed \in Nat /\ r.retained \in Nat
           /\ r.reused \in Nat /\ r.net \in Nat /\ r.lost \in Nat /\ r.pc \in Stages
BY DEF Runs

(* The blocks of a process in a file: there are finitely many, one more     *)
(* after it appended one, none after a new run disowned them.               *)
LEMMA OwnCounts ==
    ASSUME NEW f \in Seq(Blocks), NEW p \in Procs
    PROVE  /\ IsFiniteSet(Own(f, p)) /\ Cardinality(Own(f, p)) \in Nat
           /\ Cardinality({i \in DOMAIN f : f[i].by # p}) = Len(f) - Cardinality(Own(f, p))
<1> DEFINE D == 1..Len(f)
           T == {i \in DOMAIN f : f[i].by # p}
<1>1. DOMAIN f = D /\ Len(f) \in Nat
  OBVIOUS
<1>2. IsFiniteSet(D) /\ Cardinality(D) = Len(f)
  <2>1. 1 \in Int /\ Len(f) \in Int
    BY <1>1
  <2>2. IsFiniteSet(1..Len(f)) /\ Cardinality(1..Len(f)) = IF 1 > Len(f) THEN 0 ELSE Len(f)-1+1
    BY <2>1, FS_Interval
  <2>3. QED BY <1>1, <2>2
<1>3. Own(f, p) \subseteq D /\ T = D \ Own(f, p) /\ D \cap Own(f, p) = Own(f, p)
  BY <1>1 DEF Own
<1> HIDE DEF D, T
<1>4. IsFiniteSet(Own(f, p)) /\ Cardinality(Own(f, p)) \in Nat
  BY <1>2, <1>3, FS_Subset, FS_CardinalityType
<1>5. Cardinality(D \ Own(f, p)) = Cardinality(D) - Cardinality(D \cap Own(f, p))
  BY <1>2, FS_Difference
<1>6. QED BY <1>2, <1>3, <1>4, <1>5 DEF T

LEMMA OwnAppend ==
    ASSUME NEW f \in Seq(Blocks), NEW b \in Blocks, NEW p \in Procs
    PROVE  /\ b.by # p => Cardinality(Own(Append(f, b), p)) = Cardinality(Own(f, p))
           /\ Cardinality(Own(Append(f, b), p)) <= Cardinality(Own(f, p)) + 1
<1> DEFINE g == Append(f, b)
<1>1. DOMAIN f = 1..Len(f) /\ Len(f) \in Nat /\ DOMAIN g = 1..(Len(f) + 1) /\ g[Len(f) + 1] = b
      /\ \A i \in 1..Len(f) : g[i] = f[i]
  OBVIOUS
<1> HIDE DEF g
<1>2. IsFiniteSet(Own(f, p)) /\ Cardinality(Own(f, p)) \in Nat
  BY OwnCounts
<1>3. CASE b.by # p
  <2>1. Own(g, p) = Own(f, p)
    BY <1>1, <1>3 DEF Own
  <2>2. QED BY <1>2, <2>1 DEF g
<1>4. CASE b.by = p
  <2>1. Own(g, p) = Own(f, p) \cup {Len(f) + 1}
    BY <1>1, <1>4 DEF Own
  <2>2. Cardinality(Own(f, p) \cup {Len(f) + 1}) =
           IF Len(f) + 1 \in Own(f, p) THEN Cardinality(Own(f, p)) ELSE Cardinality(Own(f, p)) + 1
    BY <1>2, FS_AddElement
  <2>3. QED BY <1>2, <1>4, <2>1, <2>2 DEF g
<1>5. QED BY <1>3, <1>4

LEMMA OwnDisown ==
    ASSUME NEW f \in Files, NEW p \in Procs, f # None
    PROVE  /\ Cardinality(Own(Disown(f, p), p)) = 0
           /\ \A q \in Procs \ {p} : Own(Disown(f, p), q) = Own(f, q)
<1> DEFINE g == Disown(f, p)
<1>1. g = [i \in DOMAIN f |-> IF f[i].by = p THEN Block(f[i].v, None) ELSE f[i]]
  BY DEF Disown
<1>2. DOMAIN g = DOMAIN f
      /\ \A i \in DOMAIN f : g[i] = IF f[i].by = p THEN Block(f[i].v, None) ELSE f[i]
  BY <1>1
<1> HIDE DEF g
<1>3. \A i \in DOMAIN f : g[i].by = IF f[i].by = p THEN None ELSE f[i].by
  BY <1>2 DEF Block
<1>4. p # None
  BY NamesAssumption
<1>5. Own(g, p) = {}
  BY <1>2, <1>3, <1>4 DEF Own
<1>6. \A q \in Procs \ {p} : q # None
  BY NamesAssumption
<1>7. \A q \in Procs \ {p} : Own(g, q) = Own(f, q)
  BY <1>2, <1>3, <1>6 DEF Own
<1>8. QED BY <1>5, <1>7, FS_EmptySet DEF g

(* What a process may own of the files the cache holds.                     *)
LEMMA OwnBound ==
    ASSUME IInv, CountInv, NEW q \in Procs, run[q].pc \notin Resting,
           NEW f \in {None, <<>>, dir.partial, dir.final}, f # None
    PROVE  Cardinality(Own(f, q)) \in Nat /\ Cardinality(Own(f, q)) <= Wrote(run[q])
<1>1. f \in Seq(Blocks)
  BY Parts DEF Files
<1>2. Cardinality(Own(f, q)) \in Nat
  BY <1>1, OwnCounts
<1>3. run[q].retained + run[q].lost + run[q].written >= 0
  BY Parts, Fields
<1>4. CASE f = <<>>
  <2>1. Own(f, q) = {}
    BY <1>4 DEF Own
  <2>2. QED BY <1>2, <1>3, <2>1, FS_EmptySet DEF Wrote
<1>5. CASE f # <<>>
  BY <1>2, <1>5 DEF CountInv
<1>6. QED BY <1>4, <1>5

(* A step that writes no block keeps the counts when its own still add up.  *)
LEMMA KeepsCounts ==
    ASSUME IInv, CountInv, NEW p \in Procs, NEW r \in Runs, Become(p, r), Tally(r),
           dir'.partial \in {None, <<>>, dir.partial, dir.final},
           dir'.final \in {None, <<>>, dir.partial, dir.final},
           r.pc \in Resting \/ (run[p].pc \notin Resting /\ Wrote(run[p]) <= Wrote(r))
    PROVE  CountInv'
<1>1. run'[p] = r /\ \A q \in Procs \ {p} : run'[q] = run[q]
  BY DEF Become, IInv, TypeOK
<1>2. ASSUME NEW q \in Procs PROVE Tally(run'[q])
  BY <1>1 DEF CountInv
<1>3. ASSUME NEW q \in Procs, run'[q].pc \notin Resting,
             NEW f \in {dir'.partial, dir'.final}, f # None
      PROVE  Cardinality(Own(f, q)) <= Wrote(run'[q])
  <2>1. run[q].pc \notin Resting /\ f \in {None, <<>>, dir.partial, dir.final}
    BY <1>1, <1>3
  <2>2. Cardinality(Own(f, q)) \in Nat /\ Cardinality(Own(f, q)) <= Wrote(run[q])
    BY <1>3, <2>1, OwnBound
  <2>3. CASE q = p
    <3>1. Wrote(run[p]) \in Nat /\ Wrote(r) \in Nat /\ Wrote(run[p]) <= Wrote(r)
      BY <1>1, <1>3, <2>3, Parts, Fields DEF Wrote
    <3>2. QED BY <1>1, <2>2, <2>3, <3>1
  <2>4. QED BY <1>1, <2>2, <2>3
<1>4. QED BY <1>2, <1>3 DEF CountInv, Tally, Own, Wrote

(* A stage that only follows the one before it.                             *)
Follows(a, c) ==
    \/ a = "lock" /\ c = "lookup"
    \/ a = "save" /\ c = "request"
    \/ a = "headers" /\ c = "body"
    \/ a = "body" /\ c = "verify"
    \/ a \in {"request", "headers", "body"} /\ c = "interrupted"
    \/ a = "headers" /\ c = "invalid"
    \/ a = "publish" /\ c = "sync"
    \/ a = "sync" /\ c = "clean"

LEMMA FollowsTally ==
    ASSUME NEW s \in Runs, NEW c, Follows(s.pc, c), Tally(s)
    PROVE  LET r == [s EXCEPT !.pc = c] IN
           r \in Runs /\ Tally(r) /\ s.pc \notin Resting /\ Wrote(s) <= Wrote(r)
<1> DEFINE r == [s EXCEPT !.pc = c]
<1>1. c \in Stages
  BY DEF Follows, Stages
<1>2. /\ r \in Runs /\ r.pc = c /\ r.offset = s.offset /\ r.received = s.received
      /\ r.written = s.written /\ r.discarded = s.discarded /\ r.downloaded = s.downloaded
      /\ r.resumed = s.resumed /\ r.retained = s.retained /\ r.reused = s.reused
      /\ r.net = s.net /\ r.lost = s.lost
  BY <1>1 DEF Runs
<1> HIDE DEF r
<1>3. /\ s.offset \in Nat /\ s.received \in Nat /\ s.written \in Nat /\ s.discarded \in Nat
      /\ s.downloaded \in Nat /\ s.resumed \in Nat /\ s.retained \in Nat
      /\ s.reused \in Nat /\ s.net \in Nat /\ s.lost \in Nat /\ Size \in Nat
  BY Fields, DownloadAssumption
<1>4. s.pc \notin Resting /\ Wrote(s) <= Wrote(r)
  BY <1>2, <1>3 DEF Follows, Resting, Wrote
<1>5. Tally(r)
  BY <1>2, <1>3 DEF Follows, Tally, Resting, Asking, Taking, Ending
<1>6. QED BY <1>2, <1>4, <1>5 DEF r

(* The stages that change no counter.                                       *)
LEMMA FollowingCounts ==
    ASSUME IInv, CountInv, NEW p \in Procs,
           \/ ArtifactLock(p) \/ Save(p) \/ Headers(p) \/ TransferEnds(p)
           \/ Publish(p) \/ SyncDirectory(p) \/ Interrupted(p) \/ HeadersFail(p)
    PROVE  CountInv'
<1>1. \E c \in Stages : Follows(run[p].pc, c) /\ Become(p, [run[p] EXCEPT !.pc = c])
  <2> DEFINE Go(c) == Follows(run[p].pc, c) /\ Become(p, [run[p] EXCEPT !.pc = c])
  <2>1. ArtifactLock(p) => Go("lookup")
    BY DEF ArtifactLock, At, Follows
  <2>2. Save(p) => Go("request")
    BY DEF Save, At, Follows
  <2>3. Headers(p) => Go("body")
    BY DEF Headers, At, Follows
  <2>4. TransferEnds(p) => Go("verify")
    BY DEF TransferEnds, At, Follows
  <2>5. Publish(p) => Go("sync")
    BY DEF Publish, At, Follows
  <2>6. SyncDirectory(p) => Go("clean")
    BY DEF SyncDirectory, At, Follows
  <2>7. Interrupted(p) => Go("interrupted")
    BY DEF Interrupted, At, Follows
  <2>8. HeadersFail(p) => Go("invalid")
    BY DEF HeadersFail, At, Follows
  <2> HIDE DEF Go
  <2>9. \E c \in Stages : Go(c)
    BY <2>1, <2>2, <2>3, <2>4, <2>5, <2>6, <2>7, <2>8 DEF Stages
  <2>10. QED BY <2>9 DEF Go
<1>2. PICK c \in Stages : Follows(run[p].pc, c) /\ Become(p, [run[p] EXCEPT !.pc = c])
  BY <1>1
<1>3. /\ dir'.partial \in {None, <<>>, dir.partial, dir.final}
      /\ dir'.final \in {None, <<>>, dir.partial, dir.final}
  BY DEF ArtifactLock, Save, Headers, TransferEnds, Publish, SyncDirectory, Interrupted,
         HeadersFail, SaveMetadata, cacheVars, IInv, TypeOK, Dirs
<1>4. run[p] \in Runs /\ Tally(run[p])
  BY Parts DEF CountInv
<1> DEFINE r == [run[p] EXCEPT !.pc = c]
<1>5. r \in Runs /\ Tally(r) /\ run[p].pc \notin Resting /\ Wrote(run[p]) <= Wrote(r)
  BY <1>2, <1>4, FollowsTally
<1> HIDE DEF r
<1>6. QED BY <1>2, <1>3, <1>5, KeepsCounts DEF r

(* The ends of a run that reports nothing, and the use of the artifact.     *)
LEMMA EndingCounts ==
    ASSUME IInv, CountInv, NEW p \in Procs,
           EndInvalid(p) \/ PublishFails(p) \/ Crash(p) \/ Use(p)
    PROVE  CountInv'
<1>1. Idle \in Runs /\ Idle.pc = "idle"
      /\ \A c \in {"used", "failed"} : [Idle EXCEPT !.pc = c] \in Runs /\ [Idle EXCEPT !.pc = c].pc = c
  BY DEF Idle, Runs, Stages, Validators
<1>2. Failed(run[p], 0) = [Idle EXCEPT !.pc = "failed"]
  BY DEF Failed
<1>3. PICK r \in Runs : r.pc \in Resting /\ Become(p, r)
  <2>1. EndInvalid(p) => Become(p, [Idle EXCEPT !.pc = "failed"])
    BY <1>2 DEF EndInvalid
  <2>2. PublishFails(p) => Become(p, [Idle EXCEPT !.pc = "failed"])
    BY DEF PublishFails
  <2>3. Crash(p) => Become(p, Idle)
    BY DEF Crash
  <2>4. Use(p) => \E c \in {"used", "failed"} : Become(p, [Idle EXCEPT !.pc = c])
    BY DEF Use
  <2>5. QED BY <1>1, <2>1, <2>2, <2>3, <2>4 DEF Resting
<1>4. Tally(r)
  BY <1>3 DEF Tally, Resting, Asking, Taking, Ending
<1>5. /\ dir'.partial \in {None, <<>>, dir.partial, dir.final}
      /\ dir'.final \in {None, <<>>, dir.partial, dir.final}
  BY DEF EndInvalid, PublishFails, Crash, Use, cacheVars, IInv, TypeOK, Dirs
<1>6. QED BY <1>3, <1>4, <1>5, KeepsCounts

(* What earlier attempts retained is taken from what is counted as reused.  *)
LEMMA SucceededTally ==
    ASSUME NEW s \in Runs, s.pc \notin Resting, s.resumed <= s.downloaded,
           s.downloaded + s.lost = s.net, s.reused + s.written <= Size
    PROVE  LET r == Succeeded(s) IN
           r \in Runs /\ r.pc = "done" /\ Tally(r) /\ Wrote(s) <= Wrote(r)
<1> DEFINE m == Minus(s.reused, s.retained)
           r == [s EXCEPT !.pc = "done", !.reused = m]
<1>1. /\ s.offset \in Nat /\ s.received \in Nat /\ s.written \in Nat /\ s.discarded \in Nat
      /\ s.downloaded \in Nat /\ s.resumed \in Nat /\ s.retained \in Nat
      /\ s.reused \in Nat /\ s.net \in Nat /\ s.lost \in Nat /\ Size \in Nat
  BY Fields, DownloadAssumption
<1>2. m \in Nat /\ (m = 0 \/ m + s.retained = s.reused)
  BY <1>1 DEF Minus
<1> HIDE DEF m
<1>3. /\ r \in Runs /\ r.pc = "done" /\ r.written = s.written /\ r.downloaded = s.downloaded
      /\ r.resumed = s.resumed /\ r.retained = s.retained /\ r.reused = m
      /\ r.net = s.net /\ r.lost = s.lost
  BY <1>2 DEF Runs, Stages
<1>4. Succeeded(s) = r
  BY DEF Succeeded, m, Runs
<1> HIDE DEF r
<1>5. Tally(r) /\ Wrote(s) <= Wrote(r)
  BY <1>1, <1>2, <1>3 DEF Tally, Wrote, Resting, Asking, Taking, Ending
<1>6. QED BY <1>3, <1>4, <1>5

LEMMA CleanCounts ==
    ASSUME IInv, CountInv, NEW p \in Procs, Clean(p)
    PROVE  CountInv'
<1> DEFINE r == Succeeded(run[p])
<1>1. run[p] \in Runs /\ Tally(run[p]) /\ run[p].pc = "clean" /\ Become(p, r)
  BY Parts DEF Clean, At, CountInv
<1>2. run[p].pc \notin Resting /\ run[p].resumed <= run[p].downloaded
      /\ run[p].downloaded + run[p].lost = run[p].net /\ run[p].reused + run[p].written <= Size
  BY <1>1 DEF Tally, Resting, Ending
<1>3. r \in Runs /\ Tally(r) /\ Wrote(run[p]) <= Wrote(r)
  BY <1>1, <1>2, SucceededTally
<1>4. dir'.partial = dir.partial /\ dir'.final = dir.final
  BY DEF Clean, IInv, TypeOK, Dirs
<1> HIDE DEF r
<1>5. QED BY <1>1, <1>2, <1>3, <1>4, KeepsCounts

(* A verified artifact counts as reused, but for what this run retained.    *)
LEMMA HitCounts ==
    ASSUME IInv, CountInv, NEW p \in Procs, LookupHit(p)
    PROVE  CountInv'
<1> DEFINE s == Reused(run[p])
           r == Succeeded(s)
<1>1. run[p] \in Runs /\ Tally(run[p]) /\ run[p].pc = "lookup" /\ Become(p, r)
  BY Parts DEF LookupHit, At, CountInv
<1>2. Size \in Nat
  BY DownloadAssumption
<1>3. /\ s \in Runs /\ s.pc = run[p].pc /\ s.written = run[p].written
      /\ s.downloaded = run[p].downloaded /\ s.resumed = run[p].resumed
      /\ s.retained = run[p].retained /\ s.reused = Size
      /\ s.net = run[p].net /\ s.lost = run[p].lost
  BY <1>1, <1>2 DEF Reused, Runs
<1>4. /\ run[p].written = 0 /\ run[p].resumed <= run[p].downloaded
      /\ run[p].downloaded + run[p].lost = run[p].net
  BY <1>1, Fields DEF Tally, Resting, Asking, Taking
<1> HIDE DEF s
<1>5. r \in Runs /\ Tally(r) /\ Wrote(s) <= Wrote(r)
  BY <1>1, <1>2, <1>3, <1>4, SucceededTally DEF Resting
<1>6. Wrote(s) = Wrote(run[p]) /\ run[p].pc \notin Resting
  BY <1>1, <1>3 DEF Wrote, Resting
<1>7. dir'.partial = dir.partial /\ dir'.final \in {None, dir.final}
  BY DEF LookupHit, IInv, TypeOK, Dirs
<1> HIDE DEF r
<1>8. QED BY <1>1, <1>5, <1>6, <1>7, KeepsCounts

LEMMA PartialCounts ==
    ASSUME IInv, CountInv, NEW p \in Procs, LookupPartial(p)
    PROVE  CountInv'
<1>1. run[p] \in Runs /\ Tally(run[p]) /\ run[p].pc = "lookup" /\ run[p].offset = 0
  BY Parts DEF LookupPartial, At, CountInv, Knows
<1>2. Size \in Nat /\ dir.meta \in Validators /\ "untagged" \in Validators
  BY DownloadAssumption, Parts DEF Validators
<1>3. /\ dir'.partial \in {None, <<>>, dir.partial, dir.final}
      /\ dir'.final \in {None, <<>>, dir.partial, dir.final}
  BY DEF LookupPartial, IInv, TypeOK, Dirs
<1>4. run[p].pc \notin Resting
  BY <1>1 DEF Resting
<1>5. ASSUME NEW n \in Nat, n <= Size, NEW v \in Validators,
             Become(p, [run[p] EXCEPT !.pc = "save", !.offset = n, !.saved = v])
      PROVE  CountInv'
  <2> DEFINE r == [run[p] EXCEPT !.pc = "save", !.offset = n, !.saved = v]
  <2>1. /\ r \in Runs /\ r.pc = "save" /\ r.offset = n /\ r.received = run[p].received
        /\ r.written = run[p].written /\ r.discarded = run[p].discarded
        /\ r.downloaded = run[p].downloaded /\ r.resumed = run[p].resumed
        /\ r.retained = run[p].retained /\ r.net = run[p].net /\ r.lost = run[p].lost
    BY <1>1, <1>5 DEF Runs, Stages
  <2> HIDE DEF r
  <2>2. Tally(r) /\ Wrote(run[p]) <= Wrote(r)
    BY <1>1, <1>2, <1>5, <2>1, Fields DEF Tally, Wrote, Resting, Asking, Taking, Ending
  <2>3. QED BY <1>3, <1>4, <1>5, <2>1, <2>2, KeepsCounts DEF r
<1>6. ASSUME Become(p, Reused([run[p] EXCEPT !.pc = "publish"]))
      PROVE  CountInv'
  <2> DEFINE r == [run[p] EXCEPT !.pc = "publish", !.reused = Size]
  <2>1. /\ r \in Runs /\ r.pc = "publish" /\ r.received = run[p].received
        /\ r.written = run[p].written /\ r.discarded = run[p].discarded
        /\ r.downloaded = run[p].downloaded /\ r.resumed = run[p].resumed
        /\ r.retained = run[p].retained /\ r.net = run[p].net /\ r.lost = run[p].lost
        /\ r.reused = Size
    BY <1>1, <1>2 DEF Runs, Stages
  <2>2. Reused([run[p] EXCEPT !.pc = "publish"]) = r
    BY <1>1 DEF Reused, Runs
  <2> HIDE DEF r
  <2>3. Tally(r) /\ Wrote(run[p]) <= Wrote(r)
    BY <1>1, <1>2, <2>1, Fields DEF Tally, Wrote, Resting, Asking, Taking, Ending
  <2>4. QED BY <1>3, <1>4, <1>6, <2>1, <2>2, <2>3, KeepsCounts
<1>7. CASE Verified(dir.partial)
  BY <1>6, <1>7 DEF LookupPartial
<1>8. CASE ~Verified(dir.partial) /\ Resumable
  <2>1. Len(dir.partial) \in Nat /\ Len(dir.partial) <= Size
    BY <1>2, <1>8, Parts DEF Resumable, Files
  <2>2. QED BY <1>2, <1>5, <1>8, <2>1 DEF LookupPartial
<1>9. CASE ~Verified(dir.partial) /\ ~Resumable
  <2>1. Become(p, [run[p] EXCEPT !.pc = "save", !.saved = "untagged"])
    BY <1>9 DEF LookupPartial
  <2>2. [run[p] EXCEPT !.pc = "save", !.saved = "untagged"] =
        [run[p] EXCEPT !.pc = "save", !.offset = 0, !.saved = "untagged"]
    BY <1>1 DEF Runs
  <2>3. Become(p, [run[p] EXCEPT !.pc = "save", !.offset = 0, !.saved = "untagged"])
    BY <2>1, <2>2
  <2>4. 0 \in Nat /\ 0 <= Size
    BY <1>2
  <2>5. QED BY <1>2, <1>5, <2>3, <2>4
<1>10. QED BY <1>7, <1>8, <1>9

LEMMA RequestCounts ==
    ASSUME IInv, CountInv, NEW p \in Procs, Request(p)
    PROVE  CountInv'
<1>1. run[p] \in Runs /\ Tally(run[p]) /\ run[p].pc = "request" /\ server \in Versions
  BY Parts DEF Request, At, CountInv, IInv, TypeOK
<1>2. PICK status \in Statuses(run[p]) :
         Become(p, [run[p] EXCEPT !.status = status, !.answer = server, !.pc =
            IF run[p].offset = 0 \/ status = 206 THEN "headers" ELSE "rejected"])
  BY DEF Request
<1>3. status \in Nat
  BY DEF Statuses
<1>4. PICK c \in {"headers", "rejected"} :
         /\ Become(p, [run[p] EXCEPT !.status = status, !.answer = server, !.pc = c])
         /\ c = "rejected" => run[p].offset # 0
  BY <1>2
<1> DEFINE r == [run[p] EXCEPT !.status = status, !.answer = server, !.pc = c]
<1>5. /\ r \in Runs /\ r.pc = c /\ r.offset = run[p].offset /\ r.received = run[p].received
      /\ r.written = run[p].written /\ r.discarded = run[p].discarded
      /\ r.downloaded = run[p].downloaded /\ r.resumed = run[p].resumed
      /\ r.retained = run[p].retained /\ r.net = run[p].net /\ r.lost = run[p].lost
  BY <1>1, <1>3, <1>4 DEF Runs, Stages
<1> HIDE DEF r
<1>6. Tally(r) /\ Wrote(run[p]) <= Wrote(r) /\ run[p].pc \notin Resting
  BY <1>1, <1>4, <1>5, Fields, DownloadAssumption
     DEF Tally, Wrote, Resting, Asking, Taking, Ending
<1>7. dir'.partial \in {<<>>, dir.partial} /\ dir'.final = dir.final
  BY DEF Request, IInv, TypeOK, Dirs
<1>8. QED BY <1>4, <1>5, <1>6, <1>7, KeepsCounts DEF r

(* A block that was received, in the counters.                              *)
Got(s, c, w, l) == [Received(s) EXCEPT !.pc = c, !.written = w, !.lost = l]

LEMMA GotFields ==
    ASSUME NEW s \in Runs, NEW c \in Stages, NEW w \in Nat, NEW l \in Nat,
           NEW a \in Nat, NEW b \in Nat, a = s.received + 1, b = s.net + 1
    PROVE  \E r \in Runs :
           /\ r = Got(s, c, w, l) /\ r.pc = c /\ r.offset = s.offset /\ r.received = a
           /\ r.written = w /\ r.discarded = s.discarded /\ r.downloaded = s.downloaded
           /\ r.resumed = s.resumed /\ r.retained = s.retained /\ r.reused = s.reused
           /\ r.net = b /\ r.lost = l
<1> DEFINE r == [s EXCEPT !.received = a, !.net = b, !.pc = c, !.written = w, !.lost = l]
<1>1. /\ r \in Runs /\ r.pc = c /\ r.offset = s.offset /\ r.received = a
      /\ r.written = w /\ r.discarded = s.discarded /\ r.downloaded = s.downloaded
      /\ r.resumed = s.resumed /\ r.retained = s.retained /\ r.reused = s.reused
      /\ r.net = b /\ r.lost = l
  BY DEF Runs
<1>2. Received(s) = [s EXCEPT !.received = a, !.net = b]
  BY DEF Received, Runs
<1>3. Got(s, c, w, l) = r
  BY <1>2 DEF Runs, Got
<1> HIDE DEF r
<1>4. QED BY <1>1, <1>3

(* Blocks that are received and not written.                                *)
LEMMA DroppedCounts ==
    ASSUME IInv, CountInv, NEW p \in Procs, Oversized(p) \/ Discard(p)
    PROVE  CountInv'
<1>1. run[p] \in Runs /\ Tally(run[p]) /\ run[p].pc \in {"body", "rejected"}
  BY Parts DEF Oversized, Discard, At, CountInv
<1>2. PICK c \in {"invalid", "rejected"} :
         /\ Become(p, [Received(run[p]) EXCEPT !.pc = c])
         /\ c = "rejected" => run[p].pc = "rejected"
  <2>1. CASE Oversized(p)
    BY <2>1 DEF Oversized
  <2>2. CASE Discard(p)
    <3>1. run[p].pc = "rejected"
      BY <2>2 DEF Discard, At
    <3>2. CASE run[p].received + 1 > Size
      BY <2>2, <3>2 DEF Discard
    <3>3. CASE ~(run[p].received + 1 > Size)
      BY <2>2, <3>1, <3>3 DEF Discard
    <3>4. QED BY <3>2, <3>3
  <2>3. QED BY <2>1, <2>2
<1>3. PICK s \in Runs : s = run[p]
  BY <1>1
<1>4. PICK a \in Nat, b \in Nat : a = s.received + 1 /\ b = s.net + 1
  BY Fields
<1>5. PICK w \in Nat, l \in Nat : w = s.written /\ l = s.lost
  BY Fields
<1>6. PICK r \in Runs :
         /\ r = Got(s, c, w, l) /\ r.pc = c /\ r.offset = s.offset
         /\ r.received = a /\ r.written = w /\ r.discarded = s.discarded
         /\ r.downloaded = s.downloaded /\ r.resumed = s.resumed /\ r.retained = s.retained
         /\ r.net = b /\ r.lost = l
  <2>1. c \in Stages
    BY <1>2 DEF Stages
  <2>2. QED BY <1>4, <2>1, GotFields
<1>7. [Received(s) EXCEPT !.pc = c] = r
  <2>1. Received(s) \in Runs /\ Received(s).written = w /\ Received(s).lost = l
    BY <1>5, RecordTypes DEF Received, Runs
  <2>2. PICK q \in Runs : q = Received(s)
    BY <2>1
  <2>3. [q EXCEPT !.pc = c] = [q EXCEPT !.pc = c, !.written = w, !.lost = l]
    BY <2>1, <2>2 DEF Runs
  <2>4. QED BY <1>6, <2>2, <2>3 DEF Got
<1>8. Tally(r) /\ Wrote(s) <= Wrote(r) /\ s.pc \notin Resting
  BY <1>1, <1>2, <1>3, <1>4, <1>5, <1>6, Fields, DownloadAssumption
     DEF Tally, Wrote, Resting, Asking, Taking, Ending
<1>9. dir' = dir
  BY DEF Oversized, Discard, cacheVars
<1>10. QED BY <1>2, <1>3, <1>7, <1>8, <1>9, KeepsCounts

LEMMA RejectedCounts ==
    ASSUME IInv, CountInv, NEW p \in Procs, RangeRejected(p)
    PROVE  CountInv'
<1> DEFINE r == [run[p] EXCEPT !.pc = "request", !.offset = 0, !.discarded = run[p].received,
                               !.received = 0, !.written = 0]
<1>1. run[p] \in Runs /\ Tally(run[p]) /\ run[p].pc = "rejected" /\ Become(p, r)
  BY Parts DEF RangeRejected, At, CountInv
<1>2. /\ r \in Runs /\ r.pc = "request" /\ r.offset = 0 /\ r.received = 0
      /\ r.written = 0 /\ r.discarded = run[p].received
      /\ r.downloaded = run[p].downloaded /\ r.resumed = run[p].resumed
      /\ r.retained = run[p].retained /\ r.net = run[p].net /\ r.lost = run[p].lost
  BY <1>1 DEF Runs, Stages
<1> HIDE DEF r
<1>3. Tally(r) /\ Wrote(run[p]) <= Wrote(r) /\ run[p].pc \notin Resting
  BY <1>1, <1>2, Fields, DownloadAssumption
     DEF Tally, Wrote, Resting, Asking, Taking, Ending
<1>4. dir'.partial = None /\ dir'.final = dir.final
  BY DEF RangeRejected, IInv, TypeOK, Dirs
<1>5. QED BY <1>1, <1>2, <1>3, <1>4, KeepsCounts

LEMMA InterruptedCounts ==
    ASSUME IInv, CountInv, NEW p \in Procs, EndInterrupted(p)
    PROVE  CountInv'
<1> DEFINE s == run[p]
<1>1. s \in Runs /\ Tally(s) /\ s.pc = "interrupted" /\ Become(p, Failed(s, s.written))
      /\ dir' = dir
  BY Parts DEF EndInterrupted, At, CountInv
<1>2. /\ s.offset \in Nat /\ s.received \in Nat /\ s.written \in Nat /\ s.discarded \in Nat
      /\ s.downloaded \in Nat /\ s.resumed \in Nat /\ s.retained \in Nat
      /\ s.reused \in Nat /\ s.net \in Nat /\ s.lost \in Nat /\ s.attempt \in Nat
  BY <1>1, Fields DEF Runs
<1> DEFINE d == s.downloaded + s.discarded + s.written
           u == s.resumed + (IF s.offset # 0 THEN s.written ELSE 0)
           n == s.attempt + 1
           k == s.retained + s.written
           t == [s EXCEPT !.downloaded = d, !.resumed = u, !.attempt = n, !.retained = k]
           r == Attempt(t)
<1>3. d \in Nat /\ u \in Nat /\ n \in Nat /\ k \in Nat
  BY <1>2
<1>4. /\ Failed(s, s.written) \in Runs
      /\ Failed(s, s.written) = [Idle EXCEPT !.pc = "failed"] \/ Failed(s, s.written) = r
  <2>1. Failed(s, s.written) \in Runs
    BY <1>1, <1>2, RecordTypes
  <2>2. [[s EXCEPT !.downloaded = @ + s.discarded + s.written,
                   !.resumed = @ + (IF s.offset # 0 THEN s.written ELSE 0)]
          EXCEPT !.attempt = @ + 1, !.retained = @ + s.written] = t
    BY <1>1 DEF Runs
  <2> HIDE DEF t
  <2>3. QED BY <2>1, <2>2 DEF Failed
<1>5. CASE Failed(s, s.written) = [Idle EXCEPT !.pc = "failed"]
  <2> DEFINE e == [Idle EXCEPT !.pc = "failed"]
  <2>1. e \in Runs /\ e.pc = "failed"
    BY <1>4, <1>5 DEF Idle
  <2>2. Tally(e) /\ e.pc \in Resting
    BY <2>1 DEF Tally, Resting, Asking, Taking, Ending
  <2> HIDE DEF e
  <2>3. QED BY <1>1, <1>5, <2>1, <2>2, KeepsCounts DEF e
<1>6. CASE Failed(s, s.written) = r
  <2> HIDE DEF d, u, n, k
  <2>1. /\ t \in Runs /\ t.downloaded = d /\ t.resumed = u /\ t.retained = k
        /\ t.net = s.net /\ t.lost = s.lost
    BY <1>1, <1>3 DEF Runs
  <2> HIDE DEF t
  <2>2. /\ r \in Runs /\ r.pc = "lock" /\ r.offset = 0 /\ r.received = 0 /\ r.written = 0
        /\ r.discarded = 0 /\ r.downloaded = d /\ r.resumed = u /\ r.retained = k
        /\ r.net = s.net /\ r.lost = s.lost
    BY <2>1 DEF Attempt, Runs, Stages, Validators
  <2> HIDE DEF r
  <2>3. u <= d /\ d + s.lost = s.net
    BY <1>1, <1>2 DEF Tally, Resting, d, u
  <2>4. Wrote(s) <= Wrote(r) /\ s.pc \notin Resting
    BY <1>1, <1>2, <2>2 DEF Wrote, Resting, k
  <2>5. Tally(r)
    BY <1>2, <1>3, <2>2, <2>3, DownloadAssumption DEF Tally, Resting, Asking, Taking, Ending
  <2>6. QED BY <1>1, <1>6, <2>2, <2>4, <2>5, KeepsCounts
<1>7. QED BY <1>4, <1>5, <1>6

LEMMA AcceptCounts ==
    ASSUME IInv, CountInv, NEW p \in Procs, Accept(p)
    PROVE  CountInv'
<1> DEFINE s == run[p]
           d == s.downloaded + s.received + s.discarded
           u == s.resumed + (IF s.offset # 0 THEN s.received ELSE 0)
           r == [s EXCEPT !.pc = "publish", !.downloaded = d, !.resumed = u, !.reused = s.offset]
<1>1. s \in Runs /\ Tally(s) /\ s.pc = "verify" /\ dir' = dir
      /\ Become(p, Counted([s EXCEPT !.pc = "publish"]))
  BY Parts DEF Accept, At, CountInv, cacheVars
<1>2. /\ s.offset \in Nat /\ s.received \in Nat /\ s.written \in Nat /\ s.discarded \in Nat
      /\ s.downloaded \in Nat /\ s.resumed \in Nat /\ s.retained \in Nat
      /\ s.reused \in Nat /\ s.net \in Nat /\ s.lost \in Nat
  BY <1>1, Fields DEF Runs
<1>3. Counted([s EXCEPT !.pc = "publish"]) = r
  BY <1>1 DEF Counted, Runs
<1>4. d \in Nat /\ u \in Nat /\ u <= d /\ d + s.lost = s.net /\ s.offset + s.written <= Size
  BY <1>1, <1>2, DownloadAssumption DEF Tally, Resting, Taking, Asking
<1> HIDE DEF d, u
<1>5. /\ r \in Runs /\ r.pc = "publish" /\ r.written = s.written /\ r.downloaded = d
      /\ r.resumed = u /\ r.retained = s.retained /\ r.reused = s.offset
      /\ r.net = s.net /\ r.lost = s.lost
  BY <1>1, <1>2, <1>4 DEF Runs, Stages
<1> HIDE DEF r
<1>6. Tally(r) /\ Wrote(s) <= Wrote(r) /\ s.pc \notin Resting
  BY <1>1, <1>2, <1>4, <1>5 DEF Tally, Wrote, Resting, Asking, Taking, Ending
<1>7. QED BY <1>1, <1>3, <1>5, <1>6, KeepsCounts

(* A block that is written, or whose write fails half way: only its writer  *)
(* owns one more.                                                           *)
LEMMA WritingCounts ==
    ASSUME IInv, CountInv, NEW p \in Procs, Receive(p) \/ WriteFails(p)
    PROVE  CountInv'
<1>0. run[p] \in Runs
  BY Parts
<1> PICK s \in Runs : s = run[p]
  BY <1>0
<1> DEFINE b == Block(s.answer, p)
<1>1. s \in Runs /\ Tally(s) /\ s.pc = "body" /\ Knows(p) /\ s.offset + s.received < Size
      /\ dir'.final = dir.final /\ dir'.partial \in {dir.partial, Append(dir.partial, b)}
  BY Parts DEF Receive, WriteFails, At, CountInv, IInv, TypeOK, Dirs
<1>2. /\ s.offset \in Nat /\ s.received \in Nat /\ s.written \in Nat /\ s.discarded \in Nat
      /\ s.downloaded \in Nat /\ s.resumed \in Nat /\ s.retained \in Nat
      /\ s.reused \in Nat /\ s.net \in Nat /\ s.lost \in Nat /\ Size \in Nat
  BY <1>1, Fields, DownloadAssumption DEF Runs
<1>3. dir.partial \in Seq(Blocks) /\ dir.partial # None /\ b \in Blocks /\ b.by = p
  BY <1>1, Parts DEF Knows, Files, Blocks, Block
<1> HIDE DEF b
<1>4. PICK r \in Runs : Become(p, r) /\ Tally(r) /\ Wrote(r) = Wrote(s) + 1
  <2>1. ASSUME NEW c \in {"body", "interrupted"}, NEW w \in Nat, NEW l \in Nat,
               w + l = s.written + s.lost + 1, c = "body" => l = s.lost,
               c = "interrupted" => w = s.written,
               Become(p, Got(s, c, w, l))
        PROVE  \E r \in Runs : Become(p, r) /\ Tally(r) /\ Wrote(r) = Wrote(s) + 1
    <3>0. PICK a \in Nat, e \in Nat : a = s.received + 1 /\ e = s.net + 1
      <4>1. s.received \in Nat /\ s.net \in Nat
        BY <1>2
      <4>2. s.received + 1 \in Nat /\ s.net + 1 \in Nat
        BY <4>1
      <4>3. QED BY <4>2, Zenon
    <3>1. PICK r \in Runs :
             /\ r = Got(s, c, w, l) /\ r.pc = c /\ r.offset = s.offset /\ r.received = a
             /\ r.written = w /\ r.discarded = s.discarded /\ r.downloaded = s.downloaded
             /\ r.resumed = s.resumed /\ r.retained = s.retained /\ r.reused = s.reused
             /\ r.net = e /\ r.lost = l
      <4>1. c \in Stages
        BY <2>1 DEF Stages
      <4>2. QED BY <2>1, <3>0, <4>1, GotFields
    <3>2. Tally(r)
      <4>1. /\ s.resumed <= s.downloaded /\ s.written = s.received /\ s.offset + a <= Size
            /\ s.downloaded + s.discarded + s.received + s.lost = s.net
        BY <1>1, <1>2, <3>0 DEF Tally, Resting, Taking
      <4>2. s.downloaded + s.discarded + w + l = e /\ (c = "body" => w = a)
        <5>1. w + l = s.written + s.lost + 1 /\ (c = "body" => l = s.lost)
          BY <2>1
        <5>2. s.written \in Nat /\ s.lost \in Nat /\ s.received \in Nat /\ s.net \in Nat
              /\ s.downloaded \in Nat /\ s.discarded \in Nat
          BY <1>2
        <5>3. w + l = s.received + s.lost + 1
              /\ s.downloaded + s.discarded + s.received + s.lost = s.net
          BY <4>1, <5>1
        <5>4. s.downloaded + s.discarded + w + l = e
          <6>1. PICK x \in Nat, y \in Nat, z \in Nat, k \in Nat, n \in Nat :
                   /\ x = s.downloaded /\ y = s.discarded /\ z = s.received
                   /\ k = s.lost /\ n = s.net
            BY <5>2, Zenon
          <6>2. w + l = z + k + 1 /\ x + y + z + k = n /\ e = n + 1
            BY <3>0, <5>3, <6>1
          <6>3. x + y + w + l = e
            BY <6>2
          <6>4. QED BY <6>1, <6>3
        <5>5. ASSUME c = "body" PROVE w = a
          <6>1. l = s.lost
            BY <5>1, <5>5
          <6>2. w + l = s.received + l + 1
            BY <5>3, <6>1
          <6>3. QED BY <3>0, <5>2, <6>2
        <5>6. QED BY <5>4, <5>5
      <4>3. CASE c = "body"
        BY <1>2, <3>1, <4>1, <4>2, <4>3 DEF Tally, Resting, Asking, Taking, Ending
      <4>4. CASE c = "interrupted"
        BY <1>2, <3>1, <4>1, <4>2, <4>4 DEF Tally, Resting, Asking, Taking, Ending
      <4>5. QED BY <2>1, <4>3, <4>4
    <3>3. Wrote(r) = Wrote(s) + 1
      BY <1>2, <2>1, <3>1 DEF Wrote
    <3>4. QED BY <2>1, <3>1, <3>2, <3>3
  <2> DEFINE q == Received(s)
  <2>2. q \in Runs /\ q.pc = s.pc /\ q.written = s.written /\ q.lost = s.lost
    BY <1>1, RecordTypes DEF Received, Runs
  <2>3. CASE Receive(p)
    <3>1. Become(p, [q EXCEPT !.written = @ + 1])
      BY <2>3 DEF Receive
    <3> HIDE DEF q
    <3>2. [q EXCEPT !.written = @ + 1] =
          [q EXCEPT !.pc = "body", !.written = s.written + 1, !.lost = s.lost]
      BY <1>1, <2>2 DEF Runs
    <3>3. s.written + 1 \in Nat /\ (s.written + 1) + s.lost = s.written + s.lost + 1
      BY <1>2
    <3>4. Become(p, Got(s, "body", s.written + 1, s.lost))
      BY <3>1, <3>2 DEF q, Got
    <3>5. QED BY <1>2, <2>1, <3>3, <3>4
  <2>4. CASE WriteFails(p)
    <3>1. Become(p, [q EXCEPT !.pc = "interrupted", !.lost = @ + 1])
      BY <2>4 DEF WriteFails
    <3> HIDE DEF q
    <3>2. [q EXCEPT !.pc = "interrupted", !.lost = @ + 1] =
          [q EXCEPT !.pc = "interrupted", !.written = s.written, !.lost = s.lost + 1]
      BY <1>1, <2>2 DEF Runs
    <3>3. s.lost + 1 \in Nat /\ s.written + (s.lost + 1) = s.written + s.lost + 1
      BY <1>2
    <3>4. Become(p, Got(s, "interrupted", s.written, s.lost + 1))
      BY <3>1, <3>2 DEF q, Got
    <3>5. QED BY <1>2, <2>1, <3>3, <3>4
  <2>5. QED BY <2>3, <2>4
<1>5. run'[p] = r /\ \A q \in Procs \ {p} : run'[q] = run[q]
  BY <1>4 DEF Become, IInv, TypeOK
<1>6. ASSUME NEW q \in Procs PROVE Tally(run'[q])
  BY <1>4, <1>5 DEF CountInv
<1>7. ASSUME NEW q \in Procs, run'[q].pc \notin Resting,
             NEW f \in {dir'.partial, dir'.final}, f # None
      PROVE  Cardinality(Own(f, q)) <= Wrote(run'[q])
  <2>1. run[q].pc \notin Resting
    BY <1>1, <1>5, <1>7 DEF Resting
  <2>2. Wrote(run[q]) \in Nat /\ (q = p => Wrote(run'[q]) = Wrote(run[q]) + 1)
        /\ (q # p => Wrote(run'[q]) = Wrote(run[q]))
    <3>1. run[q] \in Runs
      BY Parts
    <3>2. Wrote(run[q]) \in Nat
      BY <3>1, Fields DEF Wrote
    <3>3. QED BY <1>4, <1>5, <3>2
  <2>3. CASE f \in {dir.partial, dir.final}
    <3>1. Cardinality(Own(f, q)) \in Nat /\ Cardinality(Own(f, q)) <= Wrote(run[q])
      BY <1>7, <2>1, <2>3, OwnBound
    <3>2. QED BY <2>2, <3>1
  <2>4. CASE f = Append(dir.partial, b)
    <3>1. Cardinality(Own(dir.partial, q)) \in Nat /\ Cardinality(Own(dir.partial, q)) <= Wrote(run[q])
      BY <1>3, <2>1, OwnBound
    <3>2. /\ b.by # q => Cardinality(Own(f, q)) = Cardinality(Own(dir.partial, q))
          /\ Cardinality(Own(f, q)) <= Cardinality(Own(dir.partial, q)) + 1
      BY <1>3, <2>4, OwnAppend
    <3>3. f \in Seq(Blocks)
      BY <1>3, <2>4
    <3>4. Cardinality(Own(f, q)) \in Nat
      BY <3>3, OwnCounts
    <3>5. QED BY <1>3, <2>2, <3>1, <3>2, <3>4
  <2>5. QED BY <1>1, <1>7, <2>3, <2>4
<1>8. QED BY <1>6, <1>7 DEF CountInv, Tally, Own, Wrote

(* A new run owns none of the blocks that an earlier one of its process     *)
(* wrote.                                                                   *)
LEMMA BeginCounts ==
    ASSUME IInv, CountInv, NEW p \in Procs, Begin(p)
    PROVE  CountInv'
<1> DEFINE r == Attempt(Idle)
<1>1. /\ r \in Runs /\ r.pc = "lock" /\ r.offset = 0 /\ r.received = 0 /\ r.written = 0
      /\ r.discarded = 0 /\ r.downloaded = 0 /\ r.resumed = 0 /\ r.retained = 0
      /\ r.net = 0 /\ r.lost = 0
  BY DEF Attempt, Idle, Runs, Stages, Validators
<1>2. run'[p] = r /\ \A q \in Procs \ {p} : run'[q] = run[q]
  BY DEF Begin, Become, IInv, TypeOK
<1> HIDE DEF r
<1>3. Tally(r) /\ Wrote(r) = 0
  BY <1>1, DownloadAssumption DEF Tally, Wrote, Resting, Asking, Taking, Ending
<1>4. dir'.partial = Disown(dir.partial, p) /\ dir'.final = Disown(dir.final, p)
  BY DEF Begin, IInv, TypeOK, Dirs
<1>5. ASSUME NEW q \in Procs PROVE Tally(run'[q])
  BY <1>2, <1>3 DEF CountInv
<1>6. ASSUME NEW q \in Procs, run'[q].pc \notin Resting,
             NEW f \in {dir'.partial, dir'.final}, f # None
      PROVE  Cardinality(Own(f, q)) <= Wrote(run'[q])
  <2>1. PICK g \in {dir.partial, dir.final} : f = Disown(g, p)
    BY <1>4
  <2>2. g \in Files /\ g # None
    BY <1>6, <2>1, Parts DEF Disown
  <2>3. Cardinality(Own(f, p)) = 0 /\ \A o \in Procs \ {p} : Own(f, o) = Own(g, o)
    BY <2>1, <2>2, OwnDisown
  <2>4. CASE q = p
    BY <1>2, <1>3, <2>3, <2>4
  <2>5. CASE q # p
    <3>1. run'[q] = run[q] /\ run[q].pc \notin Resting /\ Own(f, q) = Own(g, q)
      BY <1>2, <1>6, <2>3, <2>5
    <3>2. Cardinality(Own(g, q)) <= Wrote(run[q])
      BY <2>1, <2>2, <3>1, OwnBound
    <3>3. QED BY <3>1, <3>2
  <2>6. QED BY <2>4, <2>5
<1>7. QED BY <1>5, <1>6 DEF CountInv, Tally, Own, Wrote

(* Removals, a power loss, which ends every run, and the server.            *)
LEMMA WorldCounts ==
    ASSUME IInv, CountInv,
           RemoveArtifact \/ PowerLoss \/ Replace \/ Restore \/ UNCHANGED vars
    PROVE  CountInv'
<1>1. CASE PowerLoss
  <2>1. Idle.pc = "idle"
    BY DEF Idle
  <2>2. \A q \in Procs : run'[q].pc = "idle"
    BY <1>1, <2>1 DEF PowerLoss
  <2>3. ASSUME NEW r, r.pc = "idle" PROVE Tally(r)
    BY <2>3 DEF Tally, Resting, Asking, Taking, Ending
  <2>4. \A q \in Procs : Tally(run'[q]) /\ run'[q].pc \in Resting
    BY <2>2, <2>3 DEF Resting
  <2>5. QED BY <2>4 DEF CountInv, Tally, Own, Wrote
<1>2. CASE RemoveArtifact
  <2>1. run' = run /\ dir'.partial = dir.partial /\ dir'.final = None
    BY <1>2 DEF RemoveArtifact, IInv, TypeOK, Dirs
  <2>2. ASSUME NEW q \in Procs, run'[q].pc \notin Resting,
               NEW f \in {dir'.partial, dir'.final}, f # None
        PROVE  Cardinality(Own(f, q)) <= Wrote(run'[q])
    BY <2>1, <2>2 DEF CountInv
  <2>3. ASSUME NEW q \in Procs PROVE Tally(run'[q])
    BY <2>1 DEF CountInv
  <2>4. QED BY <2>2, <2>3 DEF CountInv, Tally, Own, Wrote
<1>3. CASE Replace \/ Restore \/ UNCHANGED vars
  <2>1. run' = run /\ dir' = dir
    BY <1>3 DEF Replace, Restore, vars, cacheVars
  <2>2. QED BY <2>1 DEF CountInv, Tally, Own, Wrote
<1>4. QED BY <1>1, <1>2, <1>3

(* What the counters of a finished run say, with the exact file they count. *)
LEMMA CountsFollow ==
    ASSUME IInv, CountInv
    PROVE  CountsAreTrue
<1> SUFFICES ASSUME NEW p \in Procs, run[p].pc = "done"
             PROVE  /\ run[p].downloaded = run[p].net - run[p].lost
                    /\ run[p].resumed <= run[p].downloaded
                    /\ 0 <= run[p].reused
                    /\ dir.final # None /\ ~staged => run[p].reused <=
                           Cardinality({i \in DOMAIN dir.final : dir.final[i].by # p}) + run[p].lost
  BY DEF CountsAreTrue, At
<1> DEFINE s == run[p]
<1>1. s \in Runs /\ Tally(s) /\ Size \in Nat
  BY Parts, DownloadAssumption DEF CountInv
<1>2. /\ s.written \in Nat /\ s.downloaded \in Nat /\ s.resumed \in Nat /\ s.retained \in Nat
      /\ s.reused \in Nat /\ s.net \in Nat /\ s.lost \in Nat
  BY <1>1, Fields
<1>3. s.downloaded + s.lost = s.net /\ s.resumed <= s.downloaded
      /\ (s.reused = 0 \/ s.reused + s.retained + s.written <= Size)
  BY <1>1 DEF Tally, Resting
<1>4. ASSUME dir.final # None
      PROVE  s.reused <= Cardinality({i \in DOMAIN dir.final : dir.final[i].by # p}) + s.lost
  <2> DEFINE o == Cardinality(Own(dir.final, p))
             c == Cardinality({i \in DOMAIN dir.final : dir.final[i].by # p})
  <2>1. dir.final \in Seq(Blocks) /\ Len(dir.final) = Size
    BY <1>4, Parts DEF Files, IInv, ExactInv, Exact, Verified
  <2>2. o \in Nat /\ c = Size - o
    BY <2>1, OwnCounts
  <2>3. o <= s.retained + s.lost + s.written
    BY <1>4 DEF CountInv, Wrote, Resting
  <2>4. Own(dir.final, p) \subseteq 1..Size
    BY <2>1 DEF Own
  <2>5. o <= Size
    <3>1. IsFiniteSet(1..Size) /\ Cardinality(1..Size) = Size
      <4>1. 1 \in Int /\ Size \in Int
        BY <1>1
      <4>2. IsFiniteSet(1..Size) /\ Cardinality(1..Size) = IF 1 > Size THEN 0 ELSE Size-1+1
        BY <4>1, FS_Interval
      <4>3. QED BY <1>1, <4>2
    <3>2. QED BY <2>4, <3>1, FS_Subset
  <2> HIDE DEF o, c
  <2>6. s.reused <= c + s.lost
    BY <1>1, <1>2, <1>3, <2>2, <2>3, <2>5
  <2>7. QED BY <2>6 DEF c
<1>5. s.downloaded = s.net - s.lost
  BY <1>2, <1>3
<1>6. 0 <= s.reused
  BY <1>2
<1>7. QED BY <1>3, <1>4, <1>5, <1>6

(* A run reports what it downloaded, resumed and reused truly but for the   *)
(* blocks whose write failed, whatever was interrupted, retained or         *)
(* rejected on the way; the difference is at most those blocks, which the   *)
(* code neither counts as downloaded nor takes from what it calls reused    *)
(* (acquire_resuming, transfer_observed).                                   *)
THEOREM CountsAlwaysTrue == Spec => []CountsAreTrue
<1>1. Init => CountInv
  <2> SUFFICES ASSUME Init PROVE CountInv
    OBVIOUS
  <2>1. Idle.pc = "idle" /\ \A q \in Procs : run[q] = Idle
    BY DEF Idle, Init
  <2>2. Tally(Idle) /\ Idle.pc \in Resting
    BY <2>1 DEF Tally, Resting, Asking, Taking, Ending
  <2>3. QED BY <2>1, <2>2 DEF CountInv
<1>2. IInv /\ CountInv /\ [Next]_vars => CountInv'
  <2> SUFFICES ASSUME IInv, CountInv, [Next]_vars PROVE CountInv'
    OBVIOUS
  <2>1. ASSUME NEW p \in Procs, Step(p) PROVE CountInv'
    BY <2>1, BeginCounts, FollowingCounts, EndingCounts, CleanCounts, HitCounts, PartialCounts,
       RequestCounts, DroppedCounts, RejectedCounts, InterruptedCounts, AcceptCounts,
       WritingCounts DEF Step
  <2>2. ASSUME NEW p \in Procs, Trouble(p) PROVE CountInv'
    BY <2>2, FollowingCounts, EndingCounts, WritingCounts DEF Trouble
  <2>3. QED BY <2>1, <2>2, WorldCounts DEF Next
<1>3. IInv /\ CountInv => CountsAreTrue
  BY CountsFollow
<1>4. QED BY <1>1, <1>2, <1>3, Inductive, PTL DEF Spec
=============================================================================
