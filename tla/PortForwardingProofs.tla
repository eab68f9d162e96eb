------------------------ MODULE PortForwardingProofs ------------------------
(***************************************************************************)
(* Proofs about published ports, for any sets of ports, addresses,         *)
(* observers, masters and relays and any limit of records.                 *)
(***************************************************************************)
EXTENDS PortForwarding, FiniteSetTheorems, TLAPS

(* The stages of a pass that hold the operation flock; those after the     *)
(* lease was seen under it; the loop over the published ports; and the     *)
(* steps of the port at hand.                                              *)
AtPcs    == {"reserve", "phase", "request", "refused", "spawn", "started",
             "commit", "orphan"}
Loop     == AtPcs \cup {"next", "published"}
Inside   == {"socket", "mark", "load", "sort"} \cup Loop
Critical == Inside \cup {"recheck"}

(* The flock has one owner, and its owner is in its critical section.      *)
Locks ==
    /\ \A o \in Observers : obs[o].pc \in Critical <=> lock = o
    /\ op.pc = "clean" <=> lock = Op

(* The listeners that must have a record, and the forwards the records may *)
(* count on: held, or cancelled without a word in the records.             *)
Owned   == (held \cup stray) \ silent
Counted == held \cup undone

(* What records f say fits the listeners h and the relays: each has a      *)
(* record, a relay that lives is the one its record names or the only one  *)
(* of its port, and one that closes can still be found.                    *)
Fit(f, h, rl, pf) ==
    /\ h \subseteq In(f)
    /\ \A r \in Relays : rl[r].st # "dead" =>
          /\ rl[r].spec \in In(f) /\ f[rl[r].spec].pid \in {None, r}
          /\ rl[r].st = "closing" => r \in {pf[rl[r].spec], f[rl[r].spec].pid}
    /\ \A s \in Specs, r \in Relays : f[s].pid = r /\ rl[r].st # "dead" => rl[r].spec = s

(* The relays and their pidfiles.                                          *)
RelaysFit(rl, pf) ==
    /\ \A r \in Relays : rl[r].st # "dead" =>
          /\ rl[r].spec \in Udp /\ pf[rl[r].spec] \in {None, r}
          /\ rl[r].st = "running" => pf[rl[r].spec] = r
    /\ \A r, q \in Relays :
          rl[r].st # "dead" /\ rl[q].st # "dead" /\ rl[r].spec = rl[q].spec => r = q
    /\ \A s \in Udp, r \in Relays : pf[s] = r /\ rl[r].st # "dead" => rl[r].spec = s

Hosts ==
    /\ held \cap stray = {}
    /\ RelaysFit(relay, pidfile) /\ Fit(file, Owned, relay, pidfile)

(* A published port that is neither forwarded nor listed has no record     *)
(* that anybody relies on.                                                 *)
Free(f, s) == f[s].own # "committed" /\ (s \in Udp => f[s].own = "none")

(* The port at hand, its record and its relay, by the step of a pass b.    *)
AtHand(b, f, rl) ==
    /\ b.pc = "reserve" => f[b.at].own = "none"
    /\ b.pc \in {"phase", "request", "refused", "orphan"} => b.at \in Tcp
    /\ b.pc = "phase" => f[b.at].own \in Pending
    /\ b.pc \in {"request", "orphan"} => f[b.at].own = "locked"
    /\ b.pc = "refused" => f[b.at].own \in Pending
    /\ b.pc = "commit" => f[b.at].own = "pending"
    /\ b.pc \in {"spawn", "started"} =>
          b.at \in Udp /\ f[b.at] = [own |-> "pending", pid |-> None]
    /\ b.pc = "spawn" => \A r \in Relays : rl[r].st # "dead" => rl[r].spec # b.at
    /\ b.pc = "started" =>
          /\ b.relay \in Relays
          /\ rl[b.relay].st # "dead" => rl[b.relay].spec = b.at
          /\ \A r \in Relays : rl[r].st # "dead" /\ rl[r].spec = b.at => r = b.relay

(* The records, in memory and in the file, by the stage of a pass b.       *)
Pass(b, f, h, rl, pf) ==
    /\ b.pc \in {"load", "sort"} \cup Loop => b.known
    /\ b.pc = "off" => ~b.known
    /\ b.pc \notin {"sort"} \cup Loop => b.forwarded = {}
    /\ b.pc = "sort" =>
          /\ Fit(b.mem, h, rl, pf)
          /\ \A s \in b.todo : b.mem[s] = f[s] /\ s \notin b.forwarded
          /\ \A s \in Tcp : b.mem[s].own = "none" \/ b.mem[s] = f[s]
          /\ \A s \in b.specs \ b.todo :
                spec_forwardable(s) /\ s \notin b.forwarded => Free(b.mem, s)
    /\ b.pc \in Loop =>
          /\ b.todo \subseteq b.specs /\ (b.pc = "published" => b.todo = {})
          /\ \A s \in b.todo : spec_forwardable(s) /\ s \notin b.forwarded => Free(f, s)
    /\ b.pc \in AtPcs =>
          b.at \in b.specs \ b.todo /\ spec_forwardable(b.at) /\ b.at \notin b.forwarded
    /\ AtHand(b, f, rl)

Passes == \A o \in Observers : Pass(obs[o], file, Owned, relay, pidfile)

(* The failures a pass has found, each port once.                          *)
Listed(b) ==
    /\ Cardinality(b.specs) <= MaxRecords
    /\ Range(b.fails) \subseteq b.specs /\ Len(b.fails) = Cardinality(Range(b.fails))
    /\ b.pc \notin {"sort"} \cup Loop => b.fails = <<>>
    /\ b.pc = "sort" => \A s \in Range(b.fails) :
          s \in b.forwarded /\ s \notin b.todo /\ spec_forwardable(s)
    /\ b.pc \in Loop => \A s \in Range(b.fails) \cap b.todo :
          s \in b.forwarded /\ spec_forwardable(s)
    /\ b.pc \in AtPcs => b.at \notin Range(b.fails)

Lists == \A o \in Observers : Listed(obs[o])

(* The start and the stop of a VM, and what a clean stop leaves.           *)
Stops ==
    /\ op.pc \notin {"clean", "exit"} => ~op.ok
    /\ op.pc \in {"lock", "clean", "exit"} => lease = None
    /\ op.pc = "spawn" => op.who \in Observers /\ obs[op.who].pc = "off"
    /\ op.pc = "clean" =>
          /\ Fit(op.mem, Owned, relay, pidfile)
          /\ \A s \in op.todo : op.mem[s] = file[s]
          /\ op.ok => In(op.mem) \subseteq op.todo
    /\ op.pc = "exit" /\ op.ok =>
          In(file) = {} /\ \A o \in Observers : obs[o].pc \notin Inside
    /\ clean => /\ op.pc = "idle" /\ lease = None /\ In(file) = {} /\ failures = {}
                /\ \A o \in Observers : obs[o].pc \notin Inside

(* The observer with the lease knows a master only by passes of its own.   *)
Leases ==
    \A o, p \in Observers : lease = o /\ obs[o].known /\ p # o => obs[p].pc \notin Inside

(* An observer that takes the records' word for what its master holds.     *)
Trusting(o) ==
    /\ obs[o].known /\ obs[o].control = master /\ master # None
    /\ lease = o \/ obs[o].pc \in Inside

Earned(b, f, h) ==
    /\ b.pc # "sort" => \A s \in Tcp : f[s].own = "committed" => s \in h
    /\ b.pc = "sort" =>
          /\ \A s \in Tcp : b.mem[s].own = "committed" => s \in h
          /\ \A s \in Tcp \cap b.forwarded : b.mem[s].own = "committed"
    /\ b.pc \in Loop =>
          /\ Tcp \cap b.forwarded \subseteq h
          /\ \A s \in Tcp \cap b.specs :
                s \in b.todo \cup Range(b.fails) \cup h \/ (b.pc \in AtPcs /\ s = b.at)
    /\ b.pc = "commit" /\ b.at \in Tcp => b.at \in h

Trust == \A o \in Observers : Trusting(o) => Earned(obs[o], file, Counted)

IInv == TypeOK /\ Locks /\ Hosts /\ Passes /\ Lists /\ Stops /\ Leases /\ Trust

-----------------------------------------------------------------------------
(* Sets and sequences.                                                     *)
LEMMA Apart == /\ Specs = Tcp \cup Udp /\ Tcp \cap Udp = {}
               /\ \A s \in Tcp : spec_forwardable(s)
               /\ \A r \in Relays : r # None
               /\ \A o \in Observers : o # None /\ o # Op
               /\ Op # None
<1>1. Tcp \cap Udp = {}
      BY DEF Tcp, Udp
<1> QED BY <1>1, PortConstants DEF Specs, spec_forwardable

(* Hosts that are left alone.                                              *)
LEMMA Alone ==
    ASSUME UNCHANGED <<held, stray, silent, undone>>
    PROVE  Owned' = Owned /\ Counted' = Counted
BY DEF Owned, Counted

LEMMA ListAdd ==
    ASSUME NEW fails \in Seq(Specs), Len(fails) = Cardinality(Range(fails)),
           NEW s \in Specs, s \notin Range(fails)
    PROVE  /\ fails \o <<s>> \in Seq(Specs) /\ Append(fails, s) = fails \o <<s>>
           /\ Range(fails \o <<s>>) = Range(fails) \cup {s}
           /\ Len(fails \o <<s>>) = Cardinality(Range(fails \o <<s>>))
<1>1. /\ fails \o <<s>> \in Seq(Specs) /\ Append(fails, s) = fails \o <<s>>
      /\ Len(fails \o <<s>>) = Len(fails) + 1
      OBVIOUS
<1>2. Range(fails \o <<s>>) = Range(fails) \cup {s}
  <2>1. \A i \in 1..Len(fails) : (fails \o <<s>>)[i] = fails[i]
        OBVIOUS
  <2>2. (fails \o <<s>>)[Len(fails) + 1] = s
        OBVIOUS
  <2>3. /\ DOMAIN fails = 1..Len(fails)
        /\ DOMAIN (fails \o <<s>>) = 1..Len(fails) \cup {Len(fails) + 1}
        OBVIOUS
  <2> QED BY <2>1, <2>2, <2>3 DEF Range
<1>3. IsFiniteSet(Range(fails))
  <2>1. Range(fails) \subseteq Specs
        BY DEF Range
  <2> QED BY <2>1, SpecsAssumption, FS_Subset
<1>4. Cardinality(Range(fails) \cup {s}) = Cardinality(Range(fails)) + 1
      BY <1>3, FS_AddElement
<1> QED BY <1>1, <1>2, <1>4

LEMMA ListNone ==
    ASSUME NEW fails \in Seq(Specs)
    PROVE  fails \o <<>> = fails
OBVIOUS

-----------------------------------------------------------------------------
(* Records and relays.                                                     *)
Files == [Specs -> Records]
RelayTypes == [Relays -> [st : RelayStates, spec : Udp \cup {None}]]
Pidfiles == [Udp -> Relays \cup {None}]

(* Relays only end, start to close, or write the pidfile of their own.     *)
Calmed(f, rl, pf, rl2, pf2) ==
    /\ \A r \in Relays : rl2[r].st # "dead" =>
          /\ rl[r].st # "dead" /\ rl2[r].spec = rl[r].spec
          /\ pf2[rl[r].spec] \in {None, r}
          /\ pf[rl[r].spec] = r => pf2[rl[r].spec] = r
          /\ rl2[r].st = "running" => pf2[rl[r].spec] = r
          /\ rl2[r].st = "closing" /\ rl[r].st # "closing" =>
                r \in {pf2[rl[r].spec], f[rl[r].spec].pid}
    /\ \A s \in Udp, r \in Relays : pf2[s] = r => pf[s] = r \/ rl2[r].spec = s

LEMMA CalmedRelays ==
    ASSUME NEW f, NEW rl, NEW pf, NEW rl2, NEW pf2,
           RelaysFit(rl, pf), Calmed(f, rl, pf, rl2, pf2)
    PROVE  RelaysFit(rl2, pf2)
BY DEF RelaysFit, Calmed

LEMMA CalmedFit ==
    ASSUME NEW f, NEW rl, NEW pf, NEW rl2, NEW pf2, NEW h, NEW h2 \in SUBSET h,
           Fit(f, h, rl, pf), Calmed(f, rl, pf, rl2, pf2)
    PROVE  Fit(f, h2, rl2, pf2)
BY DEF Fit, Calmed

LEMMA CalmedPass ==
    ASSUME NEW f, NEW rl, NEW pf, NEW rl2, NEW pf2, NEW h, NEW h2 \in SUBSET h, NEW b,
           Pass(b, f, h, rl, pf), Calmed(b.mem, rl, pf, rl2, pf2)
    PROVE  Pass(b, f, h2, rl2, pf2)
<1>1. b.pc = "sort" => Fit(b.mem, h2, rl2, pf2)
      BY CalmedFit DEF Pass, AtHand
<1>2. \A r \in Relays : rl2[r].st # "dead" => rl[r].st # "dead" /\ rl2[r].spec = rl[r].spec
      BY DEF Calmed
<1> QED BY <1>1, <1>2 DEF Pass, AtHand

(* One record is written.                                                  *)
LEMMA FitUpdate ==
    ASSUME NEW f, NEW g, NEW h, NEW rl, NEW pf, NEW s \in Specs, Fit(f, h, rl, pf),
           \A t \in Specs \ {s} : g[t] = f[t],
           g[s].own # "none" \/ s \notin h,
           \A r \in Relays : rl[r].st # "dead" /\ rl[r].spec = s =>
              /\ g[s].own # "none" /\ g[s].pid \in {None, r}
              /\ rl[r].st = "closing" => r \in {pf[s], g[s].pid},
           \A r \in Relays : rl[r].st # "dead" /\ g[s].pid = r => rl[r].spec = s
    PROVE  Fit(g, h, rl, pf)
<1>1. \A t \in Specs : t \in In(f) /\ (t = s => g[s].own # "none") => t \in In(g)
      BY DEF In
<1>2. h \subseteq In(g)
      BY <1>1 DEF Fit, In
<1>3. ASSUME NEW r \in Relays, rl[r].st # "dead"
      PROVE  /\ rl[r].spec \in In(g) /\ g[rl[r].spec].pid \in {None, r}
             /\ rl[r].st = "closing" => r \in {pf[rl[r].spec], g[rl[r].spec].pid}
  <2>1. rl[r].spec \in In(f) /\ rl[r].spec \in Specs
        BY <1>3 DEF Fit, In
  <2> QED BY <1>1, <1>3, <2>1 DEF Fit
<1>4. \A t \in Specs, r \in Relays : g[t].pid = r /\ rl[r].st # "dead" => rl[r].spec = t
      BY DEF Fit
<1> QED BY <1>2, <1>3, <1>4 DEF Fit

(* Fewer listeners, or more that have a record.                            *)
LEMMA FitListeners ==
    ASSUME NEW f, NEW h, NEW rl, NEW pf, Fit(f, h, rl, pf), NEW h2 \in SUBSET (h \cup In(f))
    PROVE  Fit(f, h2, rl, pf)
BY DEF Fit

(* stop_record for UDP keeps the records right; its success means that no  *)
(* relay of the port is left.                                              *)
LEMMA StopUdpCalms ==
    ASSUME relay \in RelayTypes, pidfile \in Pidfiles, RelaysFit(relay, pidfile),
           NEW f \in Files, NEW h, Fit(f, h, relay, pidfile),
           NEW s \in Udp, NEW rec \in Records, rec.pid = f[s].pid,
           NEW ok \in BOOLEAN, StopUdp(s, rec, ok)
    PROVE  /\ relay' \in RelayTypes /\ pidfile' \in Pidfiles
           /\ UNCHANGED <<held, silent, undone>>
           /\ \A g : g[s].pid = rec.pid => Calmed(g, relay, pidfile, relay', pidfile')
           /\ ok => \A r \in Relays : relay'[r].st # "dead" => relay'[r].spec # s
<1> DEFINE r == RelayOf(s, rec)
<1>1. r \in Relays \cup {None} /\ r \in {rec.pid, pidfile[s]}
      /\ (rec.pid # None => r = rec.pid) /\ (rec.pid = None => r = pidfile[s])
      BY DEF RelayOf, Records, Pidfiles
<1>2. Lives(r) <=> r \in Relays /\ relay[r].st # "dead"
      BY <1>1, Apart DEF Lives
<1> HIDE DEF r
<1>3. Lives(r) => relay[r].spec = s
      BY <1>1, <1>2, Apart DEF Fit, RelaysFit
<1>4. PICK j \in udp_relay_state(s, rec) :
        \/ ~ok /\ UNCHANGED <<relay, pidfile>>
        \/ j = "gone" /\ ok /\ pidfile' = [pidfile EXCEPT ![s] = None] /\ UNCHANGED relay
        \/ j = "running" /\ ok /\ pidfile' = [pidfile EXCEPT ![s] = None] /\ Ends(r)
        \/ /\ j = "running" /\ ~ok /\ UNCHANGED pidfile
           /\ Ends(r) \/ relay' = [relay EXCEPT ![r].st = "closing"]
      BY DEF StopUdp, r
<1>5. /\ j = "running" => Lives(r)
      /\ j = "gone" => ~Lives(r) /\ (r # None \/ ~Bound(s))
  <2>1. CASE Lives(r)
        BY <2>1 DEF udp_relay_state, r
  <2>2. CASE ~Lives(r) /\ r # None
        BY <2>2 DEF udp_relay_state, r
  <2>3. CASE ~Lives(r) /\ r = None /\ Bound(s)
        BY <2>3 DEF udp_relay_state, r
  <2>4. CASE ~Lives(r) /\ r = None /\ ~Bound(s)
        BY <2>4 DEF udp_relay_state, r
  <2> QED BY <2>1, <2>2, <2>3, <2>4
<1>6. UNCHANGED <<held, silent, undone>>
      BY DEF StopUdp, history
<1>7. CASE ~ok /\ UNCHANGED <<relay, pidfile>>
      BY <1>6, <1>7 DEF Calmed, RelaysFit
<1>8. CASE j = "gone" /\ ok /\ pidfile' = [pidfile EXCEPT ![s] = None] /\ UNCHANGED relay
  <2>1. ASSUME NEW q \in Relays, relay[q].st # "dead", relay[q].spec = s PROVE FALSE
    <3>1. f[s].pid \in {None, q} /\ pidfile[s] \in {None, q}
          BY <2>1 DEF Fit, RelaysFit
    <3>2. rec.pid = None /\ pidfile[s] = None /\ r = None
          BY <1>1, <1>2, <1>5, <1>8, <2>1, <3>1
    <3>3. relay[q].st = "closing"
      <4>1. relay[q].st \in RelayStates
            BY DEF RelayTypes
      <4> QED BY <1>5, <1>8, <2>1, <3>2, <4>1 DEF Bound, RelayStates
    <3> QED BY <2>1, <3>2, <3>3, Apart DEF Fit
  <2>2. pidfile' \in Pidfiles /\ \A t \in Udp \ {s} : pidfile'[t] = pidfile[t]
        BY <1>8 DEF Pidfiles
  <2>3. pidfile'[s] = None
        BY <1>8 DEF Pidfiles
  <2> QED BY <1>6, <1>8, <2>1, <2>2, <2>3, Apart DEF Calmed, RelaysFit
<1>9. CASE j = "running" /\ ok /\ pidfile' = [pidfile EXCEPT ![s] = None] /\ Ends(r)
  <2>1. /\ relay' \in RelayTypes /\ relay'[r].st = "dead"
        /\ \A q \in Relays \ {r} : relay'[q] = relay[q]
        BY <1>2, <1>5, <1>9 DEF Ends, NoRelay, RelayTypes, RelayStates
  <2>2. /\ pidfile' \in Pidfiles /\ pidfile'[s] = None
        /\ \A t \in Udp \ {s} : pidfile'[t] = pidfile[t]
        BY <1>9 DEF Pidfiles
  <2>3. \A q \in Relays \ {r} : relay[q].st # "dead" => relay[q].spec # s
        BY <1>2, <1>3, <1>5, <1>9 DEF RelaysFit
  <2> QED BY <1>6, <1>9, <2>1, <2>2, <2>3, Apart DEF Calmed, RelaysFit
<1>10. CASE /\ j = "running" /\ ~ok /\ UNCHANGED pidfile
            /\ Ends(r) \/ relay' = [relay EXCEPT ![r].st = "closing"]
  <2>1. r \in Relays /\ relay[r].st # "dead" /\ relay[r].spec = s
        BY <1>2, <1>3, <1>5, <1>10
  <2>2. /\ relay' \in RelayTypes /\ relay'[r].st \in {"dead", "closing"}
        /\ relay'[r].st = "closing" => relay'[r].spec = s
        /\ \A q \in Relays \ {r} : relay'[q] = relay[q]
    <3>1. CASE Ends(r)
          BY <2>1, <3>1 DEF Ends, NoRelay, RelayTypes, RelayStates
    <3>2. CASE relay' = [relay EXCEPT ![r].st = "closing"]
          BY <2>1, <3>2 DEF RelayTypes, RelayStates
    <3> QED BY <1>10, <3>1, <3>2
  <2> QED BY <1>1, <1>6, <1>10, <2>1, <2>2, Apart DEF Calmed, RelaysFit
<1> QED BY <1>4, <1>7, <1>8, <1>9, <1>10

(* stop_record for TCP: success means that no listener that counts is left *)
(* at the port, failure that what the records count on is left.            *)
LEMMA StopTcpFits ==
    ASSUME held \subseteq Tcp, silent \subseteq Tcp, undone \subseteq Tcp,
           held \cap stray = {}, UNCHANGED stray,
           NEW s \in Tcp, NEW ok \in BOOLEAN, StopTcp(s, ok)
    PROVE  /\ UNCHANGED <<relay, pidfile>> /\ held' \subseteq held
           /\ silent' \subseteq Tcp /\ undone' \subseteq Tcp
           /\ Owned' \subseteq Owned /\ (ok => s \notin Owned')
           /\ \A t \in Counted \ {s} : t \in Counted'
           /\ ~ok => Counted \subseteq Counted'
<1>1. CASE Cancelled(s) /\ ok /\ UNCHANGED history
      BY <1>1 DEF StopTcp, Cancelled, history, Owned, Counted
<1>2. CASE /\ CancelLost(s)
           /\ silent' = IF ok /\ Listening(s, held') THEN silent \cup {s} ELSE silent
           /\ undone' = IF ~ok THEN undone \cup (held \ held') ELSE undone
  <2>1. held' \subseteq held /\ \A t \in held \ {s} : t \in held'
        BY <1>2 DEF CancelLost
  <2>2. silent \subseteq silent' /\ undone \subseteq undone'
        /\ (~ok => held \ held' \subseteq undone')
        /\ (ok /\ s \in held' \cup stray => s \in silent')
        BY <1>2 DEF Listening
  <2>3. silent' \subseteq Tcp /\ undone' \subseteq Tcp
        BY <1>2
  <2> QED BY <2>1, <2>2, <2>3 DEF StopTcp, Owned, Counted
<1> QED BY <1>1, <1>2 DEF StopTcp

HostTypes == /\ relay \in RelayTypes /\ pidfile \in Pidfiles /\ held \subseteq Tcp
             /\ stray \subseteq Tcp /\ silent \subseteq Tcp /\ undone \subseteq Tcp

(* stop_record.                                                            *)
LEMMA StopRecordFits ==
    ASSUME HostTypes, Hosts, NEW s \in Specs, NEW f \in Files, UNCHANGED stray,
           Fit(f, Owned, relay, pidfile), NEW ok \in BOOLEAN, StopRecord(s, f[s], ok)
    PROVE  /\ HostTypes' /\ held' \subseteq held /\ Owned' \subseteq Owned
           /\ \A t \in Counted \ {s} : t \in Counted'
           /\ \A g : g[s].pid = f[s].pid => Calmed(g, relay, pidfile, relay', pidfile')
           /\ ok => /\ s \notin Owned'
                    /\ \A r \in Relays : relay'[r].st # "dead" => relay'[r].spec # s
           /\ ~ok => Counted \subseteq Counted'
<1>1. CASE s \in Tcp
  <2>1. StopTcp(s, ok)
        BY <1>1 DEF StopRecord
  <2>2. /\ UNCHANGED <<relay, pidfile>> /\ held' \subseteq held
        /\ silent' \subseteq Tcp /\ undone' \subseteq Tcp
        /\ Owned' \subseteq Owned /\ (ok => s \notin Owned')
        /\ \A t \in Counted \ {s} : t \in Counted'
        /\ ~ok => Counted \subseteq Counted'
        BY <1>1, <2>1, StopTcpFits DEF Hosts, HostTypes
  <2>3. \A r \in Relays : relay[r].st # "dead" => relay[r].spec # s
        BY <1>1, Apart DEF Hosts, RelaysFit
  <2>4. \A g : Calmed(g, relay, pidfile, relay, pidfile)
        BY DEF Hosts, RelaysFit, Calmed
  <2> QED BY <2>2, <2>3, <2>4 DEF HostTypes
<1>2. CASE s \notin Tcp
  <2>1. s \in Udp /\ StopUdp(s, f[s], ok) /\ f[s] \in Records
        BY <1>2, Apart DEF StopRecord, Files
  <2>2. /\ relay' \in RelayTypes /\ pidfile' \in Pidfiles /\ UNCHANGED <<held, silent, undone>>
        /\ \A g : g[s].pid = f[s].pid => Calmed(g, relay, pidfile, relay', pidfile')
        /\ ok => \A r \in Relays : relay'[r].st # "dead" => relay'[r].spec # s
        BY <2>1, StopUdpCalms DEF Hosts, HostTypes
  <2>3. Owned' = Owned /\ Counted' = Counted
        BY <2>2, Alone
  <2>4. s \notin Owned
        BY <1>2 DEF HostTypes, Owned
  <2> QED BY <2>2, <2>3, <2>4 DEF HostTypes
<1> QED BY <1>1, <1>2

-----------------------------------------------------------------------------
(* What a step of one observer has to show.                                *)
ObsStates ==
    [pc : ObsPcs, specs : Snapshots, known : BOOLEAN,
     control : Masters \cup {None}, seen : Masters \cup {None},
     mem : Files, todo : SUBSET Specs, forwarded : SUBSET Specs, fails : Seq(Specs),
     at : Specs \cup {None}, relay : Relays \cup {None}]

LEMMA Turn ==
    ASSUME IInv, NEW o \in Observers, TypeOK', Hosts',
           \A p \in Observers \ {o} : obs'[p] = obs[p],
           UNCHANGED <<lease, op, clean, master>>,
           \/ obs[o].pc \in Inside
           \/ UNCHANGED <<file, failures, held, stray, silent, undone, relay, pidfile>>,
           obs'[o].pc \in Inside => obs[o].pc \in Inside \/ lease = o,
           \/ obs'[o].pc \in Critical /\ lock \in {o, None} /\ lock' = o
           \/ obs'[o].pc \notin Critical /\ lock = o /\ lock' = None
           \/ obs'[o].pc \notin Critical /\ lock # o /\ lock' = lock,
           obs'[o].known => obs[o].known \/ obs[o].pc \in Inside,
           obs[o].pc = "off" => obs'[o].pc = "off",
           Pass(obs'[o], file', Owned', relay', pidfile'), Listed(obs'[o]),
           Trusting(o)' => Earned(obs'[o], file', Counted')
    PROVE  IInv'
<1>a. TypeOK /\ Locks /\ Hosts /\ Passes /\ Lists /\ Stops /\ Leases /\ Trust
      BY DEF IInv
<1>b. obs[o].pc \in Inside => lock = o
      BY <1>a DEF Locks, Critical
<1>c. \A p \in Observers : obs[p].pc \in Critical /\ obs[o].pc \in Inside => p = o
      BY <1>a, <1>b DEF Locks
<1>d. Inside \subseteq Critical
      BY DEF Critical
<1>1. Locks'
      BY <1>a, Apart DEF Locks
<1>2. Passes'
  <2> SUFFICES ASSUME NEW p \in Observers, p # o
               PROVE  Pass(obs'[p], file', Owned', relay', pidfile')
      BY DEF Passes
  <2>1. CASE obs[o].pc \in Inside
    <3>1. obs[p].pc \notin Critical
          BY <1>c, <2>1
    <3> QED BY <1>a, <3>1 DEF Passes, Pass, AtHand, Critical, Inside, Loop, AtPcs
  <2>2. CASE obs[o].pc \notin Inside
        BY <1>a, <2>2, Alone DEF Passes
  <2> QED BY <2>1, <2>2
<1>3. Lists'
      BY <1>a DEF Lists
<1>4. Stops'
  <2>1. CASE obs[o].pc \in Inside
    <3>1. op.pc # "clean" /\ ~clean /\ ~(op.pc = "exit" /\ op.ok)
          BY <1>a, <1>b, <2>1, Apart DEF Locks, Stops
    <3>2. op.pc = "spawn" => op.who # o
          BY <1>a, <2>1 DEF Stops, Inside, Loop, AtPcs
    <3> QED BY <1>a, <3>1, <3>2 DEF Stops
  <2>2. CASE obs[o].pc \notin Inside
    <3>1. op.pc = "spawn" => obs'[op.who].pc = "off"
          BY <1>a DEF Stops
    <3>2. (clean \/ op.pc = "exit") => obs'[o].pc \notin Inside
          BY <1>a, <2>2, Apart DEF Stops
    <3> QED BY <1>a, <2>2, <3>1, <3>2, Alone DEF Stops
  <2> QED BY <2>1, <2>2
<1>5. Leases'
  <2> SUFFICES ASSUME NEW q \in Observers, NEW p \in Observers, lease = q,
                      obs'[q].known, p # q
               PROVE  obs'[p].pc \notin Inside
      BY DEF Leases
  <2>1. CASE q = o
        BY <1>a, <1>c, <1>d, <2>1 DEF Leases
  <2>2. CASE q # o /\ p = o
        BY <1>a, <2>2 DEF Leases
  <2>3. CASE q # o /\ p # o
        BY <1>a, <2>3 DEF Leases
  <2> QED BY <2>1, <2>2, <2>3
<1>6. Trust'
  <2> SUFFICES ASSUME NEW p \in Observers, p # o, Trusting(p)'
               PROVE  Earned(obs'[p], file', Counted')
      BY DEF Trust
  <2>1. Trusting(p)
        BY DEF Trusting
  <2>2. CASE obs[o].pc \in Inside
        BY <1>a, <1>c, <1>d, <2>1, <2>2 DEF Trusting, Leases
  <2>3. CASE obs[o].pc \notin Inside
        BY <1>a, <2>1, <2>3, Alone DEF Trust
  <2> QED BY <2>2, <2>3
<1> QED BY <1>1, <1>2, <1>3, <1>4, <1>5, <1>6 DEF IInv

LEMMA Parts ==
    ASSUME TypeOK
    PROVE  /\ obs \in [Observers -> ObsStates] /\ HostTypes /\ file \in Files
           /\ NoObs \in ObsStates /\ NoRecords \in Files /\ NoRecord \in Records
           /\ In(NoRecords) = {} /\ Range(<<>>) = {} /\ Cardinality({}) = 0
           /\ 0 <= MaxRecords
<1>1. obs \in [Observers -> ObsStates] /\ HostTypes /\ file \in Files
      BY DEF TypeOK, ObsStates, HostTypes, Files, RelayTypes, Pidfiles
<1>2. NoRecord \in Records /\ NoRecords \in Files
      BY DEF NoRecord, Records, NoRecords, Files
<1>3. {} \in Snapshots
      BY DEF Snapshots
<1>4. NoObs \in ObsStates
      BY <1>2, <1>3 DEF NoObs, ObsStates, ObsPcs
<1>5. In(NoRecords) = {}
      BY DEF In, NoRecords, NoRecord
<1>6. Range(<<>>) = {}
      BY DEF Range
<1>7. Cardinality({}) = 0 /\ 0 <= MaxRecords
      BY FS_EmptySet, PortConstants
<1> QED BY <1>1, <1>2, <1>4, <1>5, <1>6, <1>7

LEMMA TypeTurn ==
    ASSUME TypeOK, obs' \in [Observers -> ObsStates], file' \in Files, HostTypes',
           failures' \subseteq Specs, lock' \in Observers \cup {Op, None},
           UNCHANGED <<published, lease, op, clean, master, sock>>
    PROVE  TypeOK'
BY DEF TypeOK, ObsStates, HostTypes, Files, RelayTypes, Pidfiles

(* A pass ends, or its observer.                                           *)
LEMMA Ending ==
    ASSUME IInv, NEW o \in Observers, obs[o].pc # "off", Exit(o) \/ Again(o),
           \/ lock = o /\ lock' = None
           \/ lock # o /\ lock' = lock,
           UNCHANGED <<published, failures, lease, op, clean, master, sock>>,
           file' \in Files, HostTypes', Hosts',
           \/ obs[o].pc \in Inside
           \/ UNCHANGED <<file, held, stray, silent, undone, relay, pidfile>>,
           Again(o) /\ Trusting(o) =>
              \A s \in Tcp : file'[s].own = "committed" => s \in Counted'
    PROVE  IInv'
<1>1. TypeOK /\ Passes
      BY DEF IInv
<1>2. /\ obs \in [Observers -> ObsStates]
      /\ NoObs \in ObsStates /\ Range(<<>>) = {} /\ Cardinality({}) = 0
      /\ 0 <= MaxRecords
      BY <1>1, Parts
<1>3. PICK c \in ObsStates :
        /\ obs' = [obs EXCEPT ![o] = c]
        /\ c.pc \in {"off", "lease"} /\ c.specs = {} /\ c.fails = <<>>
        /\ c.forwarded = {}
        /\ c.known => c.pc = "lease" /\ obs[o].known /\ c.control = obs[o].control
        /\ c.pc = "lease" => Again(o)
  <2>1. CASE Exit(o)
        BY <1>2, <2>1 DEF Exit, NoObs
  <2>2. CASE Again(o)
    <3> DEFINE c == [NoObs EXCEPT !.pc = "lease", !.known = obs[o].known,
                                  !.control = obs[o].control]
    <3>1. /\ c \in ObsStates /\ c.pc = "lease" /\ c.specs = {} /\ c.fails = <<>>
          /\ c.known = obs[o].known /\ c.control = obs[o].control
          /\ c.forwarded = {}
          BY <1>2 DEF ObsStates, NoObs, ObsPcs
    <3>2. obs' = [obs EXCEPT ![o] = c]
          BY <2>2 DEF Again
    <3> HIDE DEF c
    <3> QED BY <2>2, <3>1, <3>2
  <2> QED BY <2>1, <2>2
<1>4. /\ obs' \in [Observers -> ObsStates] /\ obs'[o] = c
      /\ \A p \in Observers \ {o} : obs'[p] = obs[p]
      BY <1>2, <1>3
<1>5. TypeOK'
  <2>1. lock' \in Observers \cup {Op, None} /\ failures' \subseteq Specs
        BY <1>1 DEF TypeOK
  <2> QED BY <1>1, <1>4, <2>1, TypeTurn
<1>6. c.pc \notin Critical \cup {"load", "sort"} \cup Loop
      BY <1>3 DEF Critical, Inside, Loop, AtPcs
<1>7. Pass(obs'[o], file', Owned', relay', pidfile')
      BY <1>3, <1>4, <1>6 DEF Pass, AtHand, Critical, Inside, Loop, AtPcs
<1>8. Listed(obs'[o])
      BY <1>2, <1>3, <1>4, <1>6 DEF Listed, Loop
<1>9. ASSUME Trusting(o)' PROVE Earned(obs'[o], file', Counted')
  <2>1. c.known /\ c.pc = "lease" /\ Again(o)
        BY <1>3, <1>4, <1>9 DEF Trusting
  <2>2. Trusting(o)
        BY <1>3, <1>4, <1>6, <1>9, <2>1 DEF Trusting, Critical
  <2>3. \A s \in Tcp : file'[s].own = "committed" => s \in Counted'
        BY <2>1, <2>2
  <2> QED BY <1>4, <1>6, <2>1, <2>3 DEF Earned, Loop, AtPcs
<1> QED BY <1>3, <1>4, <1>5, <1>6, <1>7, <1>8, <1>9, Turn DEF Critical

LEMMA Quit ==
    ASSUME IInv, NEW o \in Observers, obs[o].pc # "off",
           \/ Exit(o)
           \/ Again(o) /\ obs[o].pc # "sort",
           \/ lock = o /\ lock' = None
           \/ lock # o /\ lock' = lock,
           UNCHANGED <<published, files, op, clean, hosts>>
    PROVE  IInv'
<1> USE DEF files, hosts, masters, history
<1>1. TypeOK /\ Hosts /\ Trust
      BY DEF IInv
<1>2. HostTypes /\ file \in Files
      BY <1>1, Parts
<1>3. Owned' = Owned /\ Counted' = Counted
      BY Alone
<1>4. HostTypes' /\ Hosts' /\ file' \in Files
      BY <1>1, <1>2, <1>3 DEF HostTypes, Hosts
<1>5. ~(Exit(o) /\ Again(o))
  <2>1. obs \in [Observers -> ObsStates]
        BY <1>1, Parts
  <2>2. Exit(o) => obs'[o].pc = "off"
        BY <2>1 DEF Exit, NoObs
  <2>3. Again(o) => obs'[o].pc = "lease"
        BY <2>1 DEF Again, NoObs
  <2> QED BY <2>2, <2>3
<1>6. ASSUME Again(o), Trusting(o), NEW s \in Tcp, file'[s].own = "committed"
      PROVE  s \in Counted'
  <2>1. Earned(obs[o], file, Counted) /\ obs[o].pc # "sort"
        BY <1>1, <1>5, <1>6 DEF Trust
  <2> QED BY <1>3, <1>6, <2>1 DEF Earned
<1> QED BY <1>4, <1>6, Ending

-----------------------------------------------------------------------------
(* The beginning of a pass.                                                *)

(* The observer moves on and changes nothing but its own state.            *)
LEMMA Moves ==
    ASSUME IInv, NEW o \in Observers, NEW c \in ObsStates, obs' = [obs EXCEPT ![o] = c],
           obs[o].pc # "off",
           \/ c.pc \in Critical /\ lock \in {o, None} /\ lock' = o
           \/ c.pc \notin Critical /\ lock # o /\ lock' = lock,
           UNCHANGED <<published, files, op, clean, hosts>>,
           c.pc \in Inside => obs[o].pc \in Inside \/ lease = o,
           c.known = obs[o].known, c.control = obs[o].control,
           Pass(c, file, Owned, relay, pidfile), Listed(c),
           Trusting(o) => Earned(c, file, Counted)
    PROVE  IInv'
<1> USE DEF files, hosts, masters, history
<1>1. TypeOK /\ Hosts /\ Locks
      BY DEF IInv
<1>2. obs \in [Observers -> ObsStates] /\ HostTypes /\ file \in Files
      BY <1>1, Parts
<1>3. /\ obs' \in [Observers -> ObsStates] /\ obs'[o] = c
      /\ \A p \in Observers \ {o} : obs'[p] = obs[p]
      BY <1>2
<1>4. TypeOK'
  <2>1. lock' \in Observers \cup {Op, None} /\ HostTypes' /\ failures' \subseteq Specs
        BY <1>1, <1>2 DEF TypeOK, HostTypes
  <2> QED BY <1>1, <1>2, <1>3, <2>1, TypeTurn
<1>5. Owned' = Owned /\ Counted' = Counted
      BY Alone
<1>6. Hosts'
      BY <1>1, <1>5 DEF Hosts
<1>7. Trusting(o)' => Earned(obs'[o], file', Counted')
      BY <1>3, <1>5 DEF Trusting
<1> QED BY <1>1, <1>3, <1>4, <1>5, <1>6, <1>7, Turn

LEMMA BeginPass ==
    ASSUME IInv, NEW o \in Observers,
           \/ CheckLease(o) \/ Lock(o) \/ Recheck(o) \/ ReadSocket(o) \/ Load(o)
           \/ \E read \in BOOLEAN : ReadSnapshot(o, read)
    PROVE  IInv'
<1>a. TypeOK /\ Locks /\ Hosts /\ Passes /\ Lists /\ Trust
      BY DEF IInv
<1>b. /\ obs \in [Observers -> ObsStates] /\ HostTypes /\ file \in Files
      /\ obs[o] \in ObsStates
      BY <1>a, Parts
<1>c. /\ obs[o].pc \in Critical <=> lock = o
      /\ Pass(obs[o], file, Owned, relay, pidfile) /\ Listed(obs[o])
      /\ (Trusting(o) => Earned(obs[o], file, Counted))
      BY <1>a DEF Locks, Passes, Lists, Trust
<1>d. o # None /\ o # Op
      BY Apart
(* Between the stages before the records are read.                         *)
<1>e. ASSUME NEW from \in {"lease", "snapshot", "wait", "recheck", "socket", "mark"},
             NEW to \in {"snapshot", "wait", "recheck", "socket", "mark", "load"},
             obs[o].pc = from, NEW c \in ObsStates, c.pc = to,
             obs' = [obs EXCEPT ![o] = c],
             c.known = obs[o].known, c.control = obs[o].control,
             to = "load" => c.known, c.fails = obs[o].fails,
             c.forwarded = obs[o].forwarded,
             Cardinality(c.specs) <= MaxRecords,
             to \in {"socket", "mark", "load"} =>
                from \in {"socket", "mark"} \/ lease = o,
             \/ c.pc \in Critical /\ lock \in {o, None} /\ lock' = o
             \/ c.pc \notin Critical /\ lock # o /\ lock' = lock,
             UNCHANGED <<published, files, op, clean, hosts>>
      PROVE  IInv'
  <2>0. from \notin {"sort"} \cup Loop /\ to \notin {"sort"} \cup Loop
        BY <1>e DEF Loop, AtPcs
  <2>1. /\ Pass(c, file, Owned, relay, pidfile)
    <3>1. obs[o].forwarded = {}
          BY <1>c, <1>e, <2>0 DEF Pass, AtHand
    <3> QED BY <1>e, <3>1 DEF Pass, AtHand, Loop, AtPcs
  <2>2. /\ obs[o].fails = <<>> /\ Range(<<>>) = {} /\ Cardinality({}) = 0
        /\ Len(<<>>) = 0
        BY <1>a, <1>c, <1>e, <2>0, Parts DEF Listed
  <2>3. Listed(c)
    <3>1. Range(c.fails) = {} /\ Len(c.fails) = Cardinality(Range(c.fails))
          BY <1>e, <2>2
    <3> QED BY <1>e, <2>0, <2>2, <3>1 DEF Listed, Loop
  <2>4. Trusting(o) => Earned(c, file, Counted)
        BY <1>c, <1>e DEF Earned, Loop, AtPcs
  <2>5. c.pc \in Inside => obs[o].pc \in Inside \/ lease = o
        BY <1>e DEF Inside, Loop, AtPcs
  <2>6. obs[o].pc # "off"
        BY <1>e
  <2> QED BY <1>e, <2>1, <2>3, <2>4, <2>5, <2>6, Moves
<1>g. ASSUME NEW to \in {"snapshot", "recheck", "socket"}, Goto(o, to)
      PROVE  \E c \in ObsStates :
                /\ obs' = [obs EXCEPT ![o] = c] /\ c.pc = to /\ c.known = obs[o].known
                /\ c.control = obs[o].control /\ c.fails = obs[o].fails
                /\ c.forwarded = obs[o].forwarded /\ c.specs = obs[o].specs
  <2> DEFINE c == [obs[o] EXCEPT !.pc = to]
  <2>1. /\ c \in ObsStates /\ c.pc = to /\ c.known = obs[o].known
        /\ c.control = obs[o].control /\ c.fails = obs[o].fails
        /\ c.forwarded = obs[o].forwarded /\ c.specs = obs[o].specs
        BY <1>b DEF ObsStates, ObsPcs
  <2>2. obs' = [obs EXCEPT ![o] = c]
        BY <1>g DEF Goto
  <2> HIDE DEF c
  <2> QED BY <2>1, <2>2
<1>h. Cardinality(obs[o].specs) <= MaxRecords
      BY <1>c DEF Listed
<1>1. CASE CheckLease(o)
  <2>1. obs[o].pc = "lease" /\ lock # o /\ UNCHANGED <<published, files, lock, op, clean, hosts>>
        BY <1>1, <1>c DEF CheckLease, At, Critical, Inside, Loop, AtPcs
  <2>2. CASE Goto(o, "snapshot")
    <3>1. PICK c \in ObsStates :
              /\ obs' = [obs EXCEPT ![o] = c] /\ c.pc = "snapshot" /\ c.known = obs[o].known
              /\ c.control = obs[o].control /\ c.fails = obs[o].fails
              /\ c.forwarded = obs[o].forwarded /\ c.specs = obs[o].specs
          BY <1>g, <2>2
    <3>2. c.pc \notin Critical
          BY <3>1 DEF Critical, Inside, Loop, AtPcs
    <3> QED BY <1>e, <1>h, <2>1, <3>1, <3>2
  <2>3. CASE Exit(o)
        BY <2>1, <2>3, Quit
  <2> QED BY <1>1, <2>2, <2>3 DEF CheckLease
<1>2. CASE Lock(o)
  <2>1. /\ obs[o].pc = "wait" /\ lock = None /\ lock' = o /\ Goto(o, "recheck")
        /\ UNCHANGED <<published, files, op, clean, hosts>>
        BY <1>2 DEF Lock, At
  <2>2. PICK c \in ObsStates :
              /\ obs' = [obs EXCEPT ![o] = c] /\ c.pc = "recheck" /\ c.known = obs[o].known
              /\ c.control = obs[o].control /\ c.fails = obs[o].fails
              /\ c.forwarded = obs[o].forwarded /\ c.specs = obs[o].specs
        BY <1>g, <2>1
  <2>3. c.pc \in Critical
        BY <2>2 DEF Critical
  <2> QED BY <1>e, <1>h, <2>1, <2>2, <2>3
<1>3. CASE Recheck(o)
  <2>1. /\ obs[o].pc = "recheck" /\ lock = o
        /\ UNCHANGED <<published, files, op, clean, hosts>>
        BY <1>3, <1>c DEF Recheck, At, Critical
  <2>2. CASE lease = o
    <3>1. Goto(o, "socket") /\ lock' = lock
          BY <1>3, <2>2 DEF Recheck
    <3>2. PICK c \in ObsStates :
              /\ obs' = [obs EXCEPT ![o] = c] /\ c.pc = "socket" /\ c.known = obs[o].known
              /\ c.control = obs[o].control /\ c.fails = obs[o].fails
              /\ c.forwarded = obs[o].forwarded /\ c.specs = obs[o].specs
          BY <1>g, <3>1
    <3>3. c.pc \in Critical
          BY <3>2 DEF Critical, Inside
    <3> QED BY <1>e, <1>h, <2>1, <2>2, <3>1, <3>2, <3>3
  <2>3. CASE lease # o
        BY <1>3, <2>1, <2>3, Quit DEF Recheck, Unlock
  <2> QED BY <2>2, <2>3
<1>4. CASE ReadSocket(o)
  <2>1. /\ obs[o].pc = "socket" /\ lock = o /\ lock' = o
        /\ UNCHANGED <<published, files, lock, op, clean, hosts>>
        BY <1>4, <1>c DEF ReadSocket, At, Critical, Inside
  <2> DEFINE to == IF obs[o].known /\ obs[o].control = sock THEN "load" ELSE "mark"
             c == [obs[o] EXCEPT !.seen = sock, !.pc = to]
  <2>2. to \in {"load", "mark"} /\ (to = "load" => obs[o].known)
        OBVIOUS
  <2> HIDE DEF to
  <2>3. /\ c \in ObsStates /\ c.pc = to /\ c.known = obs[o].known
        /\ c.control = obs[o].control /\ c.fails = obs[o].fails
        /\ c.specs = obs[o].specs /\ c.forwarded = obs[o].forwarded
        BY <1>a, <1>b, <2>2 DEF ObsStates, ObsPcs, TypeOK
  <2>4. obs' = [obs EXCEPT ![o] = c]
        BY <1>4, <1>b DEF ReadSocket, to
  <2> HIDE DEF c
  <2>5. c.pc \in Critical
        BY <2>2, <2>3 DEF Critical, Inside
  <2> QED BY <1>e, <1>h, <2>1, <2>2, <2>3, <2>4, <2>5
<1>5. CASE Load(o)
  <2>1. /\ obs[o].pc = "load" /\ lock = o /\ lock' = o
        /\ UNCHANGED <<published, files, lock, op, clean, hosts>>
        BY <1>5, <1>c DEF Load, At, Critical, Inside
  <2> DEFINE c == [obs[o] EXCEPT !.pc = "sort", !.mem = file, !.todo = In(file)]
  <2>2. /\ c \in ObsStates /\ c.pc = "sort" /\ c.known = obs[o].known
        /\ c.control = obs[o].control /\ c.fails = obs[o].fails
        /\ c.specs = obs[o].specs /\ c.mem = file /\ c.todo = In(file)
        /\ c.forwarded = obs[o].forwarded
        BY <1>b DEF ObsStates, ObsPcs, In
  <2>3. obs' = [obs EXCEPT ![o] = c]
        BY <1>5, <1>b DEF Load
  <2> HIDE DEF c
  <2>4. obs[o].forwarded = {} /\ obs[o].fails = <<>> /\ Range(<<>>) = {} /\ obs[o].known
        BY <1>a, <1>c, <2>1, Parts DEF Pass, AtHand, Listed, Loop, AtPcs
  <2>5. \A s \in Specs \ In(file) : file[s].own = "none"
        BY DEF In
  <2>6. obs[o].specs \subseteq Specs
        BY <1>b DEF ObsStates, Snapshots
  <2>7. Pass(c, file, Owned, relay, pidfile)
        BY <1>a, <2>2, <2>4, <2>5, <2>6 DEF Pass, AtHand, Hosts, Free, Loop, AtPcs
  <2>8. Listed(c)
        BY <1>c, <2>2, <2>4 DEF Listed, Loop, AtPcs
  <2>9. Trusting(o) => Earned(c, file, Counted)
        BY <1>c, <2>1, <2>2, <2>4 DEF Earned, Loop, AtPcs
  <2>10. c.pc \in Critical /\ obs[o].pc \in Inside /\ obs[o].pc # "off"
         BY <2>1, <2>2 DEF Critical, Inside
  <2> QED BY <2>1, <2>2, <2>3, <2>7, <2>8, <2>9, <2>10, Moves
<1>6. CASE \E read \in BOOLEAN : ReadSnapshot(o, read)
  <2>1. /\ obs[o].pc = "snapshot" /\ lock # o
        /\ UNCHANGED <<published, files, lock, op, clean, hosts>>
        BY <1>6, <1>c DEF ReadSnapshot, At, Critical, Inside, Loop, AtPcs
  <2>2. CASE Again(o)
        BY <2>1, <2>2, Quit
  <2>3. CASE ~Again(o)
    <3> DEFINE c == [obs[o] EXCEPT !.pc = "wait", !.specs = published]
    <3>1. /\ c \in ObsStates /\ c.pc = "wait" /\ c.known = obs[o].known
          /\ c.control = obs[o].control /\ c.fails = obs[o].fails
          /\ c.specs = published /\ c.forwarded = obs[o].forwarded
          BY <1>a, <1>b DEF ObsStates, ObsPcs, TypeOK
    <3>2. obs' = [obs EXCEPT ![o] = c] /\ Cardinality(published) <= MaxRecords
          BY <1>6, <1>b, <2>3 DEF ReadSnapshot
    <3> HIDE DEF c
    <3>3. c.pc \notin Critical
          BY <3>1 DEF Critical, Inside, Loop, AtPcs
    <3> QED BY <1>e, <2>1, <3>1, <3>2, <3>3
  <2> QED BY <2>2, <2>3
<1> QED BY <1>1, <1>2, <1>3, <1>4, <1>5, <1>6

-----------------------------------------------------------------------------
(* The stages under the operation flock.                                   *)
LEMMA Inner ==
    ASSUME IInv, NEW o \in Observers, NEW c \in ObsStates, obs' = [obs EXCEPT ![o] = c],
           obs[o].pc \in Inside, c.pc \in Inside, lock' = lock,
           file' \in Files, failures' \subseteq Specs, HostTypes', Hosts',
           UNCHANGED <<published, lease, op, clean, master, sock>>,
           Pass(c, file', Owned', relay', pidfile'), Listed(c),
           c.known /\ c.control = master /\ master # None => Earned(c, file', Counted')
    PROVE  IInv'
<1>1. TypeOK /\ Locks
      BY DEF IInv
<1>2. obs \in [Observers -> ObsStates]
      BY <1>1, Parts
<1>3. /\ obs' \in [Observers -> ObsStates] /\ obs'[o] = c
      /\ \A p \in Observers \ {o} : obs'[p] = obs[p]
      BY <1>2
<1>4. lock = o /\ lock' = o /\ c.pc \in Critical
      BY <1>1 DEF Locks, Critical
<1>5. TypeOK'
      BY <1>1, <1>3, <1>4, TypeTurn
<1>6. Trusting(o)' => Earned(obs'[o], file', Counted')
      BY <1>3 DEF Trusting
<1>7. obs[o].pc # "off"
      BY DEF Inside, Loop, AtPcs
<1> QED BY <1>3, <1>4, <1>5, <1>6, <1>7, Turn

(* What holds of an observer under the flock.                              *)
LEMMA Known ==
    ASSUME IInv, NEW o \in Observers
    PROVE  /\ obs \in [Observers -> ObsStates] /\ HostTypes /\ file \in Files
           /\ failures \subseteq Specs /\ obs[o] \in ObsStates
           /\ Hosts /\ Pass(obs[o], file, Owned, relay, pidfile) /\ Listed(obs[o])
           /\ obs[o].pc \in Inside /\ obs[o].known /\ obs[o].control = master
              /\ master # None => Earned(obs[o], file, Counted)
           /\ obs[o].pc \in Inside => lock = o
<1>1. TypeOK /\ Locks /\ Hosts /\ Passes /\ Lists /\ Trust
      BY DEF IInv
<1>2. /\ obs \in [Observers -> ObsStates] /\ HostTypes /\ file \in Files
      /\ obs[o] \in ObsStates
      BY <1>1, Parts
<1>3. failures \subseteq Specs
      BY <1>1 DEF TypeOK
<1> QED BY <1>1, <1>2, <1>3 DEF Locks, Passes, Lists, Trust, Trusting, Critical

LEMMA UnconfirmStep ==
    ASSUME IInv, NEW o \in Observers, NEW saved \in BOOLEAN, Unconfirm(o, saved)
    PROVE  IInv'
<1> USE DEF files, hosts, masters, history
<1> DEFINE b == obs[o]
           g == Unconfirmed(file)
<1>1. /\ obs \in [Observers -> ObsStates] /\ HostTypes /\ file \in Files
      /\ failures \subseteq Specs /\ b \in ObsStates
      /\ Hosts /\ Pass(b, file, Owned, relay, pidfile) /\ Listed(b)
      /\ b.pc \in Inside => lock = o
      BY Known
<1>2. /\ b.pc = "mark" /\ b.pc \in Inside
      /\ UNCHANGED <<published, failures, lease, op, clean, master, sock, stray, held,
                     relay, pidfile, silent>>
      BY DEF Unconfirm, At, Inside
<1>3. Owned' = Owned
      BY <1>2 DEF Owned
<1>4. /\ g \in Files /\ In(g) = In(file)
      /\ \A s \in Specs : g[s].pid = file[s].pid
      /\ \A s \in Tcp : g[s].own # "committed"
  <2>1. \A s \in Specs : g[s] = IF s \in Tcp /\ file[s].own = "committed"
                                THEN [file[s] EXCEPT !.own = "locked"] ELSE file[s]
        BY DEF Unconfirmed
  <2>2. \A s \in Specs : file[s] \in Records
        BY <1>1 DEF Files
  <2>3. ASSUME NEW s \in Specs
        PROVE  /\ g[s] \in Records /\ g[s].pid = file[s].pid
               /\ g[s].own = "none" <=> file[s].own = "none"
               /\ s \in Tcp => g[s].own # "committed"
        BY <2>1, <2>2 DEF Records
  <2>4. g \in Files
        BY <2>3 DEF Unconfirmed, Files
  <2> HIDE DEF g
  <2> QED BY <2>3, <2>4, Apart DEF In
<1> HIDE DEF g
<1>5. ASSUME file' \in {file, g} PROVE Hosts' /\ file' \in Files
  <2>1. Fit(g, Owned, relay, pidfile)
    <3>1. \A r \in Relays : relay[r].st # "dead" => relay[r].spec \in Specs
          BY <1>1, Apart DEF Hosts, RelaysFit
    <3> QED BY <1>1, <1>4, <3>1 DEF Hosts, Fit
  <2> QED BY <1>1, <1>2, <1>3, <1>4, <1>5, <2>1 DEF Hosts
<1>6. CASE saved
  <2>1. file' = g /\ lock' = lock /\ undone' = {}
        BY <1>6 DEF Unconfirm, g
  <2> DEFINE c == [b EXCEPT !.pc = "load", !.known = TRUE, !.control = b.seen]
  <2>2. /\ c \in ObsStates /\ c.pc = "load" /\ c.known /\ c.forwarded = b.forwarded
        /\ c.fails = b.fails /\ c.specs = b.specs
        BY <1>1 DEF ObsStates, ObsPcs
  <2>3. obs' = [obs EXCEPT ![o] = c]
        BY <1>1, <1>6 DEF Unconfirm
  <2> HIDE DEF c
  <2>4. Hosts' /\ file' \in Files
        BY <1>5, <2>1
  <2>5. Pass(c, file', Owned', relay', pidfile')
    <3>1. b.forwarded = {}
          BY <1>1, <1>2 DEF Pass, AtHand, Loop, AtPcs
    <3> QED BY <2>2, <3>1 DEF Pass, AtHand, Loop, AtPcs
  <2>6. Listed(c)
    <3>1. b.fails = <<>>
          BY <1>1, <1>2 DEF Listed, Loop, AtPcs
    <3> QED BY <1>1, <2>2, <3>1 DEF Listed, Loop, AtPcs
  <2>7. Earned(c, file', Counted')
        BY <1>4, <2>1, <2>2 DEF Earned, Loop, AtPcs
  <2>8. HostTypes' /\ c.pc \in Inside /\ failures' \subseteq Specs
        BY <1>1, <1>2, <2>1, <2>2 DEF HostTypes, Inside
  <2> QED BY <1>2, <2>1, <2>2, <2>3, <2>4, <2>5, <2>6, <2>7, <2>8, Inner
<1>7. CASE ~saved
  <2>1. Again(o) /\ lock' = None /\ file' \in {file, g} /\ undone' = undone
        BY <1>7 DEF Unconfirm, Unlock, MayWrite, g
  <2>2. HostTypes' /\ Counted' = Counted
        BY <1>1, <1>2, <2>1, Alone DEF HostTypes
  <2>3. ASSUME Trusting(o), NEW s \in Tcp, file'[s].own = "committed"
        PROVE  s \in Counted'
    <3>1. Earned(b, file, Counted)
          BY <1>2, <2>3, Known DEF Trusting
    <3>2. file[s].own = "committed"
          BY <1>4, <2>1, <2>3
    <3> QED BY <1>2, <2>2, <3>1, <3>2 DEF Earned
  <2>4. Hosts' /\ file' \in Files /\ lock = o /\ b.pc # "off"
        BY <1>1, <1>2, <1>5, <2>1
  <2> QED BY <1>2, <2>1, <2>2, <2>3, <2>4, Ending
<1> QED BY <1>6, <1>7

(* A record is judged: rec is kept of it.                                  *)
LEMMA Kept ==
    ASSUME IInv, NEW o \in Observers, obs[o].pc = "sort", NEW s \in obs[o].todo,
           NEW rec \in Records, NEW F \in SUBSET {s}, NEW L \in {<<>>, <<s>>},
           Keep(o, s, rec, F, L),
           L = <<s>> => F = {s} /\ Desired(o, s),
           Desired(o, s) /\ F = {} =>
              rec.own # "committed" /\ (s \in Udp => rec.own = "none"),
           HostTypes', Hosts',
           Fit([obs[o].mem EXCEPT ![s] = rec], Owned', relay', pidfile'),
           \A t \in Counted \ {s} : t \in Counted',
           s \in Tcp /\ F = {s} => rec.own = "committed",
           s \in Tcp => rec.own = "none"
                         \/ (rec = obs[o].mem[s] /\ Counted \subseteq Counted'),
           UNCHANGED <<published, files, lock, op, clean, master, sock>>
    PROVE  IInv'
<1> USE DEF files, hosts, masters, history
<1> DEFINE b == obs[o]
           m == [b.mem EXCEPT ![s] = rec]
           c == [b EXCEPT !.todo = @ \ {s}, !.mem = m, !.forwarded = @ \cup F,
                          !.fails = @ \o L]
<1>1. /\ obs \in [Observers -> ObsStates] /\ file \in Files
      /\ failures \subseteq Specs /\ b \in ObsStates
      /\ Pass(b, file, Owned, relay, pidfile) /\ Listed(b)
      /\ b.pc \in Inside /\ b.known /\ b.control = master /\ master # None
         => Earned(b, file, Counted)
      BY Known
<1>2. /\ s \in Specs /\ b.todo \subseteq Specs /\ b.fails \in Seq(Specs)
      /\ s \notin b.forwarded /\ b.pc \in Inside /\ b.known
      BY <1>1 DEF ObsStates, Pass, AtHand, Inside
<1>3. /\ m \in Files /\ m[s] = rec /\ \A t \in Specs \ {s} : m[t] = b.mem[t]
      BY <1>1, <1>2 DEF ObsStates, Files
<1>4. s \notin Range(b.fails)
      BY <1>1, <1>2 DEF Listed
<1>5. /\ b.fails \o L \in Seq(Specs)
      /\ Range(b.fails \o L) = IF L = <<>> THEN Range(b.fails) ELSE Range(b.fails) \cup {s}
      /\ Len(b.fails \o L) = Cardinality(Range(b.fails \o L))
  <2>1. Len(b.fails) = Cardinality(Range(b.fails))
        BY <1>1 DEF Listed
  <2>2. CASE L = <<>>
        BY <1>2, <2>1, <2>2, ListNone
  <2>3. CASE L = <<s>>
        BY <1>2, <1>4, <2>1, <2>3, ListAdd
  <2> QED BY <2>2, <2>3
<1>6. /\ c \in ObsStates /\ c.pc = "sort" /\ c.todo = b.todo \ {s} /\ c.mem = m
      /\ c.forwarded = b.forwarded \cup F /\ c.fails = b.fails \o L
      /\ c.specs = b.specs /\ c.known = b.known /\ c.control = b.control
      BY <1>1, <1>2, <1>3, <1>5 DEF ObsStates
<1>7. obs' = [obs EXCEPT ![o] = c]
      BY <1>1 DEF Keep
<1>8. Fit(m, Owned', relay', pidfile')
      OBVIOUS
<1> HIDE DEF c, m
<1>9. Pass(c, file', Owned', relay', pidfile')
  <2>1. \A t \in c.todo : c.mem[t] = file[t] /\ t \notin c.forwarded
        BY <1>1, <1>2, <1>3, <1>6 DEF Pass, AtHand
  <2>2. ASSUME NEW t \in c.specs \ c.todo, spec_forwardable(t), t \notin c.forwarded
        PROVE  Free(c.mem, t)
    <3>1. t \in Specs
          BY <1>1, <1>6 DEF ObsStates, Snapshots
    <3>2. CASE t = s
          BY <1>3, <1>6, <2>2, <3>2 DEF Free, Desired
    <3>3. CASE t # s
          BY <1>1, <1>2, <1>3, <1>6, <2>2, <3>1, <3>3 DEF Pass, AtHand, Free
    <3> QED BY <3>2, <3>3
  <2>3. ASSUME NEW t \in Tcp PROVE c.mem[t].own = "none" \/ c.mem[t] = file'[t]
    <3>1. t \in Specs
          BY Apart
    <3>2. CASE t = s
          BY <1>1, <1>3, <1>6, <3>2 DEF Pass
    <3>3. CASE t # s
          BY <1>1, <1>3, <1>6, <3>1, <3>3 DEF Pass
    <3> QED BY <3>2, <3>3
  <2> QED BY <1>2, <1>6, <1>8, <2>1, <2>2, <2>3 DEF Pass, AtHand, Loop, AtPcs
<1>10. Listed(c)
  <2>1. Range(c.fails) \subseteq c.specs
        BY <1>1, <1>5, <1>6 DEF Listed, Desired
  <2>2. \A t \in Range(c.fails) : t \in c.forwarded /\ t \notin c.todo /\ spec_forwardable(t)
        BY <1>1, <1>5, <1>6 DEF Listed, Desired
  <2> QED BY <1>1, <1>5, <1>6, <2>1, <2>2 DEF Listed, Loop, AtPcs
<1>11. ASSUME c.known, c.control = master, master # None
       PROVE  Earned(c, file', Counted')
  <2>1. Earned(b, file, Counted)
        BY <1>1, <1>2, <1>6, <1>11
  <2>2. ASSUME NEW t \in Tcp, m[t].own = "committed" PROVE t \in Counted'
    <3>1. t \in Specs
          BY Apart
    <3>2. CASE t = s
          BY <1>3, <1>11, <2>1, <2>2, <3>2 DEF Earned
    <3>3. CASE t # s
          BY <1>3, <2>1, <2>2, <3>1, <3>3 DEF Earned
    <3> QED BY <3>2, <3>3
  <2>3. ASSUME NEW t \in Tcp, t \in c.forwarded PROVE m[t].own = "committed"
    <3>1. t \in Specs
          BY Apart
    <3>2. CASE t = s
          BY <1>2, <1>3, <1>6, <2>3, <3>2
    <3>3. CASE t # s
          BY <1>3, <1>6, <2>1, <2>3, <3>1, <3>3 DEF Earned
    <3> QED BY <3>2, <3>3
  <2> QED BY <1>6, <2>2, <2>3 DEF Earned, Loop, AtPcs
<1>12. c.pc \in Inside
       BY <1>6 DEF Inside
<1> QED BY <1>1, <1>2, <1>6, <1>7, <1>9, <1>10, <1>11, <1>12, Inner

(* stop_record on records f that agree with the file about the port.       *)
LEMMA StopKeeps ==
    ASSUME HostTypes, Hosts, NEW f \in Files, Fit(f, Owned, relay, pidfile),
           NEW s \in Specs, f[s] = file[s], NEW ok \in BOOLEAN, StopRecord(s, f[s], ok),
           UNCHANGED stray
    PROVE  /\ HostTypes' /\ held' \cap stray' = {}
           /\ RelaysFit(relay', pidfile') /\ Fit(file, Owned', relay', pidfile')
           /\ \A t \in Counted \ {s} : t \in Counted'
           /\ ~ok => Counted \subseteq Counted'
           /\ ok => \A q \in Relays : relay'[q].st # "dead" => relay'[q].spec # s
           /\ Fit([f EXCEPT ![s] = IF ok THEN NoRecord ELSE f[s]], Owned', relay', pidfile')
<1>1. /\ HostTypes' /\ held' \subseteq held /\ Owned' \subseteq Owned
      /\ \A t \in Counted \ {s} : t \in Counted'
      /\ \A g : g[s].pid = f[s].pid => Calmed(g, relay, pidfile, relay', pidfile')
      /\ ok => /\ s \notin Owned'
               /\ \A r \in Relays : relay'[r].st # "dead" => relay'[r].spec # s
      /\ ~ok => Counted \subseteq Counted'
      BY StopRecordFits
<1>2. Calmed(f, relay, pidfile, relay', pidfile') /\ Calmed(file, relay, pidfile, relay', pidfile')
      BY <1>1
<1>3. /\ RelaysFit(relay', pidfile') /\ Fit(file, Owned', relay', pidfile')
      /\ held' \cap stray' = {}
  <2>1. RelaysFit(relay', pidfile')
        BY <1>2, CalmedRelays DEF Hosts
  <2>2. Fit(file, Owned', relay', pidfile')
        BY <1>1, <1>2, CalmedFit DEF Hosts
  <2> QED BY <1>1, <2>1, <2>2 DEF Hosts
<1>4. Fit(f, Owned', relay', pidfile')
      BY <1>1, <1>2, CalmedFit
<1>5. CASE ok
  <2> DEFINE g == [f EXCEPT ![s] = NoRecord]
  <2>1. g[s] = NoRecord /\ \A t \in Specs \ {s} : g[t] = f[t]
        BY DEF Files
  <2>2. \A r \in Relays : g[s].pid # r
        BY <2>1, Apart DEF NoRecord
  <2> HIDE DEF g
  <2>3. Fit(g, Owned', relay', pidfile')
        BY <1>1, <1>4, <1>5, <2>1, <2>2, FitUpdate
  <2> QED BY <1>1, <1>3, <1>5, <2>3 DEF g
<1>6. CASE ~ok
  <2>1. [f EXCEPT ![s] = f[s]] = f
        BY DEF Files
  <2> QED BY <1>1, <1>3, <1>4, <1>6, <2>1
<1> QED BY <1>5, <1>6

LEMMA SortStep ==
    ASSUME IInv, NEW o \in Observers, NEW s \in Specs, Sorts(o, s)
    PROVE  IInv'
<1> USE DEF files, hosts, masters, history
<1> DEFINE b == obs[o]
           rec == obs[o].mem[s]
<1>1. /\ HostTypes /\ file \in Files /\ b \in ObsStates
      /\ Hosts /\ Pass(b, file, Owned, relay, pidfile)
      BY Known
<1>2. /\ b.pc = "sort" /\ s \in b.todo
      /\ UNCHANGED <<published, files, lock, op, clean, master, sock, stray>>
      BY DEF Sorts, SortUdp, SortTcp, SortStop, At
<1>3. /\ b.mem \in Files /\ rec \in Records /\ rec = file[s]
      /\ Fit(b.mem, Owned, relay, pidfile) /\ [b.mem EXCEPT ![s] = rec] = b.mem
  <2>1. b.mem \in Files
        BY <1>1 DEF ObsStates
  <2>2. rec \in Records /\ [b.mem EXCEPT ![s] = rec] = b.mem
        BY <2>1 DEF Files
  <2> QED BY <1>1, <1>2, <2>1, <2>2 DEF Pass, AtHand
<1>4. NoRecord \in Records /\ NoRecord.own = "none"
      BY DEF NoRecord, Records
<1>5. CASE SortUdp(o, s)
  <2>1. s \in Udp /\ s \notin Tcp /\ Desired(o, s)
        BY <1>5, Apart DEF SortUdp
  <2> DEFINE q == RelayOf(s, rec)
  <2>2. CASE /\ "running" \in udp_relay_state(s, rec)
             /\ Keep(o, s, [own |-> "committed", pid |-> q], {s}, <<>>)
             /\ UNCHANGED hosts
    <3> DEFINE new == [own |-> "committed", pid |-> q]
               m == [b.mem EXCEPT ![s] = new]
    <3>1. q \in {rec.pid, pidfile[s]} /\ q \in Relays \cup {None}
          BY <1>1, <1>3, <2>1 DEF RelayOf, Records, HostTypes, Pidfiles
    <3>2. Lives(q)
      <4>1. CASE ~Lives(q) /\ q # None
            BY <2>2, <4>1 DEF udp_relay_state
      <4>2. CASE ~Lives(q) /\ q = None /\ Bound(s)
            BY <2>2, <4>2 DEF udp_relay_state
      <4>3. CASE ~Lives(q) /\ q = None /\ ~Bound(s)
            BY <2>2, <4>3 DEF udp_relay_state
      <4> QED BY <4>1, <4>2, <4>3
    <3>3. q \in Relays /\ relay[q].st # "dead"
          BY <3>1, <3>2, Apart DEF Lives
    <3> HIDE DEF q
    <3>4. relay[q].spec = s
          BY <1>1, <1>3, <2>1, <3>1, <3>3 DEF Hosts, Fit, RelaysFit
    <3>5. new \in Records /\ new.own = "committed" /\ new.pid = q
          BY <3>3 DEF Records
    <3> HIDE DEF new
    <3>6. m[s] = new /\ \A t \in Specs \ {s} : m[t] = b.mem[t]
          BY <1>3 DEF Files
    <3> HIDE DEF m
    <3>7. \A r \in Relays : relay[r].st # "dead" /\ relay[r].spec = s => r = q
          BY <1>1, <3>3, <3>4 DEF Hosts, RelaysFit
    <3>8. Fit(m, Owned, relay, pidfile)
      <4>1. m[s].own # "none" /\ m[s].pid = q
            BY <3>5, <3>6
      <4>2. \A r \in Relays : relay[r].st # "dead" /\ relay[r].spec = s =>
              /\ m[s].own # "none" /\ m[s].pid \in {None, r}
              /\ relay[r].st = "closing" => r \in {pidfile[s], m[s].pid}
            BY <3>7, <4>1
      <4>3. \A r \in Relays : relay[r].st # "dead" /\ m[s].pid = r => relay[r].spec = s
            BY <3>4, <4>1
      <4> DEFINE f == obs[o].mem
      <4>4. Fit(f, Owned, relay, pidfile) /\ \A t \in Specs \ {s} : m[t] = f[t]
            BY <1>3, <3>6
      <4> HIDE DEF f
      <4> QED BY <4>1, <4>2, <4>3, <4>4, FitUpdate
    <3>9. HostTypes' /\ Hosts'
          BY <1>1, <1>2, <2>2, Alone DEF HostTypes, Hosts
    <3>10. Keep(o, s, new, {s}, <<>>)
           BY <2>2 DEF new
    <3>11. Fit([obs[o].mem EXCEPT ![s] = new], Owned', relay', pidfile')
           BY <2>2, <3>8, Alone DEF m
    <3> QED BY <1>2, <2>1, <2>2, <3>5, <3>9, <3>10, <3>11, Alone, Kept
  <2>3. CASE Keep(o, s, rec, {s}, <<s>>) /\ UNCHANGED hosts
    <3>1. HostTypes' /\ Hosts'
          BY <1>1, <1>2, <2>3, Alone DEF HostTypes, Hosts
    <3>2. Fit([obs[o].mem EXCEPT ![s] = rec], Owned', relay', pidfile')
          BY <1>3, <2>3, Alone
    <3> QED BY <1>2, <1>3, <2>1, <2>3, <3>1, <3>2, Alone, Kept
  <2>4. ASSUME NEW ok \in BOOLEAN, StopUdp(s, rec, ok),
               IF ok THEN Keep(o, s, NoRecord, {}, <<>>) ELSE Keep(o, s, rec, {s}, <<s>>)
        PROVE  IInv'
    <3>1. StopRecord(s, b.mem[s], ok)
          BY <2>1, <2>4 DEF StopRecord
    <3>2. /\ HostTypes' /\ Hosts' /\ \A t \in Counted \ {s} : t \in Counted'
          /\ Fit([b.mem EXCEPT ![s] = IF ok THEN NoRecord ELSE b.mem[s]], Owned', relay', pidfile')
          BY <1>1, <1>2, <1>3, <3>1, StopKeeps DEF Hosts
    <3>3. CASE ok
          BY <1>2, <1>4, <2>1, <2>4, <3>2, <3>3, Kept
    <3>4. CASE ~ok
          BY <1>2, <1>3, <2>1, <2>4, <3>2, <3>4, Kept
    <3> QED BY <3>3, <3>4
  <2> QED BY <1>5, <2>2, <2>3, <2>4 DEF SortUdp
<1>6. CASE SortTcp(o, s)
  <2> DEFINE F == IF rec.own = "committed" THEN {s} ELSE {}
  <2>1. /\ s \in Tcp /\ s \notin Udp /\ Keep(o, s, rec, F, <<>>) /\ UNCHANGED hosts
        BY <1>6, Apart DEF SortTcp
  <2>2. HostTypes' /\ Hosts'
        BY <1>1, <1>2, <2>1, Alone DEF HostTypes, Hosts
  <2>3. Fit([obs[o].mem EXCEPT ![s] = rec], Owned', relay', pidfile')
        BY <1>3, <2>1, Alone
  <2>4. F \subseteq {s} /\ (F = {s} <=> rec.own = "committed")
        OBVIOUS
  <2> HIDE DEF F
  <2> QED BY <1>2, <1>3, <2>1, <2>2, <2>3, <2>4, Alone, Kept
<1>7. CASE SortStop(o, s)
  <2>1. PICK ok \in BOOLEAN :
          StopRecord(s, rec, ok) /\ Keep(o, s, IF ok THEN NoRecord ELSE rec, {}, <<>>)
        BY <1>7 DEF SortStop
  <2>2. ~Desired(o, s)
        BY <1>7 DEF SortStop
  <2>3. /\ HostTypes' /\ Hosts' /\ \A t \in Counted \ {s} : t \in Counted'
        /\ ~ok => Counted \subseteq Counted'
        /\ Fit([b.mem EXCEPT ![s] = IF ok THEN NoRecord ELSE b.mem[s]], Owned', relay', pidfile')
        BY <1>1, <1>2, <1>3, <2>1, StopKeeps DEF Hosts
  <2>4. CASE ok
        BY <1>2, <1>4, <2>1, <2>2, <2>3, <2>4, Kept
  <2>5. CASE ~ok
        BY <1>2, <1>3, <2>1, <2>2, <2>3, <2>5, Kept
  <2> QED BY <2>4, <2>5
<1> QED BY <1>5, <1>6, <1>7 DEF Sorts

LEMMA SaveStep ==
    ASSUME IInv, NEW o \in Observers, NEW saved \in BOOLEAN, SaveSorted(o, saved)
    PROVE  IInv'
<1> USE DEF files, hosts, masters, history
<1> DEFINE b == obs[o]
<1>1. /\ obs \in [Observers -> ObsStates] /\ HostTypes /\ file \in Files
      /\ failures \subseteq Specs /\ b \in ObsStates
      /\ Hosts /\ Pass(b, file, Owned, relay, pidfile) /\ Listed(b)
      /\ b.pc \in Inside /\ b.known /\ b.control = master /\ master # None
         => Earned(b, file, Counted)
      /\ b.pc \in Inside => lock = o
      BY Known
<1>2. /\ b.pc = "sort" /\ b.pc \in Inside /\ b.todo = {} /\ b.known
      /\ UNCHANGED <<published, failures, lease, op, clean, master, sock, stray, held,
                     relay, pidfile, silent>>
      BY <1>1 DEF SaveSorted, At, Inside, Pass, AtHand
<1>3. CASE saved
  <2>1. file' = b.mem /\ lock' = lock /\ undone' = undone
        BY <1>3 DEF SaveSorted
  <2> DEFINE c == [b EXCEPT !.pc = "next", !.todo = b.specs, !.mem = NoRecords]
  <2>2. /\ c \in ObsStates /\ c.pc = "next" /\ c.known = b.known
        /\ c.control = b.control /\ c.forwarded = b.forwarded
        /\ c.fails = b.fails /\ c.specs = b.specs /\ c.todo = b.specs
    <3>1. NoRecords \in Files
          BY DEF NoRecords, NoRecord, Records, Files
    <3>2. b.specs \subseteq Specs
          BY <1>1 DEF ObsStates, Snapshots
    <3> QED BY <1>1, <3>1, <3>2 DEF ObsStates, ObsPcs
  <2>3. obs' = [obs EXCEPT ![o] = c]
        BY <1>1, <1>3 DEF SaveSorted
  <2> HIDE DEF c
  <2>4. file' \in Files /\ Fit(file', Owned, relay, pidfile)
        BY <1>1, <1>2, <2>1 DEF Pass, AtHand, ObsStates
  <2>5. Hosts' /\ HostTypes' /\ failures' \subseteq Specs /\ c.pc \in Inside
        BY <1>1, <1>2, <2>1, <2>2, <2>4, Alone DEF Hosts, HostTypes, Inside, Loop
  <2>6. Pass(c, file', Owned', relay', pidfile')
        BY <1>1, <1>2, <2>1, <2>2 DEF Pass, AtHand, Loop, AtPcs
  <2>7. Listed(c)
        BY <1>1, <1>2, <2>2 DEF Listed, Loop, AtPcs
  <2>8. ASSUME c.known, c.control = master, master # None
        PROVE  Earned(c, file', Counted')
    <3>1. Earned(b, file, Counted)
          BY <1>1, <1>2, <2>2, <2>8
    <3>2. c.pc # "sort" /\ c.pc # "commit" /\ c.pc \notin AtPcs
          BY <2>2 DEF AtPcs
    <3> QED BY <1>2, <2>1, <2>2, <3>1, <3>2, Alone DEF Earned
  <2> QED BY <1>2, <2>1, <2>2, <2>3, <2>4, <2>5, <2>6, <2>7, <2>8, Inner
<1>4. CASE ~saved
  <2>1. /\ Again(o) /\ lock' = None /\ lock = o /\ b.pc # "off" /\ file' \in {file, b.mem}
        /\ undone' = undone \cup ((In(file') \ In(b.mem)) \cap Tcp)
        BY <1>1, <1>2, <1>4 DEF SaveSorted, Unlock, MayWrite
  <2>2. Hosts' /\ HostTypes' /\ file' \in Files
    <3>1. Owned' = Owned
          BY <1>2 DEF Owned
    <3>2. Fit(b.mem, Owned, relay, pidfile) /\ b.mem \in Files
          BY <1>1, <1>2 DEF Pass, ObsStates
    <3> QED BY <1>1, <1>2, <2>1, <3>1, <3>2 DEF Hosts, HostTypes
  <2>3. ASSUME Trusting(o), NEW s \in Tcp, file'[s].own = "committed"
        PROVE  s \in Counted'
    <3>1. Earned(b, file, Counted)
          BY <1>1, <1>2, <2>3 DEF Trusting
    <3>2. Counted \subseteq Counted'
          BY <1>2, <2>1 DEF Counted
    <3>3. CASE b.mem[s].own = "committed"
          BY <1>2, <3>1, <3>2, <3>3 DEF Earned
    <3>4. CASE b.mem[s].own # "committed"
      <4>1. file' = file /\ b.mem[s].own = "none" /\ s \in Specs
            BY <1>1, <1>2, <2>1, <2>3, <3>4, Apart DEF Pass
      <4>2. s \in In(file') \ In(b.mem)
            BY <2>3, <4>1 DEF In
      <4> QED BY <2>1, <4>2 DEF Counted
    <3> QED BY <3>3, <3>4
  <2> QED BY <1>2, <2>1, <2>2, <2>3, Ending
<1> QED BY <1>3, <1>4

-----------------------------------------------------------------------------
(* The loop over the published ports: s is at hand, and L is listed.       *)
LEMMA LoopStep ==
    ASSUME IInv, NEW o \in Observers, NEW c \in ObsStates, obs' = [obs EXCEPT ![o] = c],
           lock' = lock, file' \in Files, HostTypes', Hosts',
           UNCHANGED <<published, failures, lease, op, clean, master, sock>>,
           c.specs = obs[o].specs, c.known = obs[o].known, c.control = obs[o].control,
           c.forwarded = obs[o].forwarded,
           NEW s \in Specs, c.todo = obs[o].todo \ {s},
           \/ obs[o].pc \in AtPcs /\ s = obs[o].at
           \/ obs[o].pc = "next" /\ s \in obs[o].todo,
           NEW L \in {<<>>, <<s>>}, c.fails = obs[o].fails \o L,
           L = <<s>> => ~(s \in obs[o].forwarded /\ spec_forwardable(s)),
           \/ c.pc = "next"
           \/ /\ c.pc \in AtPcs /\ L = <<>> /\ c.at = s /\ spec_forwardable(s)
              /\ s \notin obs[o].forwarded,
           AtHand(c, file', relay'),
           \A t \in Specs \ {s} : file'[t] = file[t],
           \A t \in Counted \ {s} : t \in Counted',
           s \in Tcp =>
              /\ file'[s].own = "committed" =>
                    (obs[o].pc = "commit" \/ file[s].own = "committed") /\ Counted \subseteq Counted'
              /\ s \in obs[o].forwarded => Counted \subseteq Counted'
              /\ c.pc = "next" /\ L = <<>> =>
                    (s \in obs[o].forwarded \/ obs[o].pc = "commit") /\ Counted \subseteq Counted'
              /\ c.pc = "commit" => s \in Counted'
    PROVE  IInv'
<1> DEFINE b == obs[o]
<1>1. /\ obs \in [Observers -> ObsStates] /\ failures \subseteq Specs /\ b \in ObsStates
      /\ Pass(b, file, Owned, relay, pidfile) /\ Listed(b)
      /\ b.pc \in Inside /\ b.known /\ b.control = master /\ master # None
         => Earned(b, file, Counted)
      BY Known
<1>2. /\ b.pc \in Loop /\ b.pc \in Inside /\ c.pc \in Loop /\ c.pc \in Inside
      /\ b.pc # "sort" /\ c.pc # "sort" /\ c.pc # "published" /\ b.pc # "off" /\ c.pc # "off"
      /\ b.pc \in AtPcs => b.pc # "next"
      /\ c.pc \in AtPcs => c.pc # "next"
      BY DEF Loop, AtPcs, Inside
<1>3. /\ s \in b.specs /\ b.todo \subseteq b.specs /\ b.fails \in Seq(Specs)
      /\ b.known /\ b.specs \subseteq Specs
      BY <1>1, <1>2 DEF Pass, ObsStates, Snapshots
<1>4. c.pc \in AtPcs \/ L = <<s>> => s \notin Range(b.fails)
      BY <1>1, <1>2 DEF Listed
<1>5. /\ Range(c.fails) = IF L = <<>> THEN Range(b.fails) ELSE Range(b.fails) \cup {s}
      /\ Len(c.fails) = Cardinality(Range(c.fails))
  <2>1. Len(b.fails) = Cardinality(Range(b.fails))
        BY <1>1 DEF Listed
  <2>2. CASE L = <<>>
        BY <1>3, <2>1, <2>2, ListNone
  <2>3. CASE L = <<s>>
        BY <1>3, <1>4, <2>1, <2>3, ListAdd
  <2> QED BY <2>2, <2>3
<1>6. Pass(c, file', Owned', relay', pidfile')
  <2>1. \A t \in c.todo : spec_forwardable(t) /\ t \notin c.forwarded => Free(file', t)
        BY <1>1, <1>2, <1>3 DEF Pass, Free
  <2> QED BY <1>2, <1>3, <2>1 DEF Pass
<1>7. Listed(c)
  <2>1. Range(c.fails) \subseteq c.specs
        BY <1>1, <1>3, <1>5 DEF Listed
  <2>2. \A t \in Range(c.fails) \cap c.todo : t \in c.forwarded /\ spec_forwardable(t)
        BY <1>1, <1>2, <1>5 DEF Listed
  <2>3. c.pc \in AtPcs => c.at \notin Range(c.fails)
        BY <1>2, <1>4, <1>5
  <2> QED BY <1>1, <1>2, <1>5, <2>1, <2>2, <2>3 DEF Listed
<1>8. ASSUME c.known, c.control = master, master # None
      PROVE  Earned(c, file', Counted')
  <2>1. Earned(b, file, Counted)
        BY <1>1, <1>2, <1>8
  <2>2. \A t \in Tcp : t \in Specs
        BY Apart
  <2>3. ASSUME NEW t \in Tcp, file'[t].own = "committed" PROVE t \in Counted'
    <3>1. CASE t # s
          BY <1>2, <2>1, <2>2, <2>3, <3>1 DEF Earned
    <3>2. CASE t = s /\ obs[o].pc = "commit"
      <4>1. b.at = s
            BY <3>2
      <4> QED BY <2>1, <2>3, <3>2, <4>1 DEF Earned
    <3>3. CASE t = s /\ obs[o].pc # "commit"
          BY <1>2, <2>1, <2>3, <3>3 DEF Earned
    <3> QED BY <3>1, <3>2, <3>3
  <2>4. Tcp \cap c.forwarded \subseteq Counted'
        BY <1>2, <2>1 DEF Earned
  <2>5. ASSUME NEW t \in Tcp \cap c.specs, t \notin c.todo, t \notin Range(c.fails),
               ~(c.pc \in AtPcs /\ t = c.at)
        PROVE  t \in Counted'
    <3>1. CASE t # s
          BY <1>2, <1>5, <2>1, <2>5, <3>1 DEF Earned
    <3>2. CASE t = s
      <4>1. c.pc = "next" /\ L = <<>> /\ Counted \subseteq Counted'
            BY <1>5, <2>5, <3>2
      <4>2. CASE b.pc = "commit"
            BY <2>1, <2>5, <3>2, <4>1, <4>2 DEF Earned
      <4>3. CASE s \in b.forwarded
            BY <2>4, <2>5, <3>2, <4>3
      <4> QED BY <2>5, <3>2, <4>1, <4>2, <4>3
    <3> QED BY <3>1, <3>2
  <2>6. c.pc = "commit" /\ c.at \in Tcp => c.at \in Counted'
        BY DEF AtPcs
  <2> QED BY <1>2, <2>3, <2>4, <2>5, <2>6 DEF Earned
<1> QED BY <1>1, <1>2, <1>6, <1>7, <1>8, Inner

(* The request for the port at hand fails, and the port is listed.         *)
LEMMA FailedStep ==
    ASSUME IInv, NEW o \in Observers, NEW s, s = obs[o].at, obs[o].pc \in AtPcs,
           Failed(o, <<s>>), lock' = lock, file' \in Files, HostTypes', Hosts',
           UNCHANGED <<published, failures, lease, op, clean, master, sock>>,
           \A t \in Specs \ {s} : file'[t] = file[t],
           \A t \in Counted \ {s} : t \in Counted',
           s \in Tcp => file'[s].own # "committed"
    PROVE  IInv'
<1> DEFINE b == obs[o]
           c == [b EXCEPT !.pc = "next", !.fails = @ \o <<s>>, !.at = None, !.relay = None]
<1>1. /\ obs \in [Observers -> ObsStates] /\ b \in ObsStates
      /\ Pass(b, file, Owned, relay, pidfile)
      BY Known
<1>2. /\ s \in b.specs \ b.todo /\ s \notin b.forwarded /\ b.specs \subseteq Specs
      /\ b.fails \in Seq(Specs)
      BY <1>1 DEF Pass, Loop, ObsStates, Snapshots
<1>3. b.fails \o <<s>> \in Seq(Specs)
      BY <1>2
<1>4. /\ c \in ObsStates /\ c.pc = "next" /\ c.specs = b.specs /\ c.known = b.known
      /\ c.control = b.control /\ c.forwarded = b.forwarded /\ c.todo = b.todo
      /\ c.fails = b.fails \o <<s>>
      BY <1>1, <1>3 DEF ObsStates, ObsPcs
<1>5. obs' = [obs EXCEPT ![o] = c]
      BY <1>1 DEF Failed
<1> HIDE DEF c
<1>6. AtHand(c, file', relay')
      BY <1>4 DEF AtHand
<1>7. c.todo = b.todo \ {s}
      BY <1>2, <1>4
<1>8. c.pc # "commit" /\ <<s>> # <<>>
      BY <1>4
<1> QED BY <1>2, <1>4, <1>5, <1>6, <1>7, <1>8, LoopStep

(* The observer goes on with the port at hand.                             *)
LEMMA GotoStep ==
    ASSUME IInv, NEW o \in Observers, NEW s, s = obs[o].at, obs[o].pc \in AtPcs,
           NEW to \in AtPcs, Goto(o, to), lock' = lock, file' \in Files, HostTypes', Hosts',
           UNCHANGED <<published, failures, lease, op, clean, master, sock>>,
           \A c : c.pc = to /\ c.at = s /\ c.relay = obs[o].relay => AtHand(c, file', relay'),
           \A t \in Specs \ {s} : file'[t] = file[t],
           \A t \in Counted \ {s} : t \in Counted',
           s \in Tcp => file'[s].own # "committed" /\ (to = "commit" => s \in Counted')
    PROVE  IInv'
<1> DEFINE b == obs[o]
           c == [b EXCEPT !.pc = to]
<1>1. /\ obs \in [Observers -> ObsStates] /\ b \in ObsStates
      /\ Pass(b, file, Owned, relay, pidfile)
      BY Known
<1>2. /\ s \in b.specs \ b.todo /\ s \notin b.forwarded /\ b.specs \subseteq Specs
      /\ b.fails \in Seq(Specs) /\ spec_forwardable(s)
      BY <1>1 DEF Pass, Loop, ObsStates, Snapshots
<1>3. /\ c \in ObsStates /\ c.pc = to /\ c.specs = b.specs /\ c.known = b.known
      /\ c.control = b.control /\ c.forwarded = b.forwarded /\ c.todo = b.todo
      /\ c.fails = b.fails /\ c.at = s /\ c.relay = b.relay
      BY <1>1 DEF ObsStates, ObsPcs, AtPcs
<1>4. obs' = [obs EXCEPT ![o] = c]
      BY <1>1 DEF Goto
<1> HIDE DEF c
<1>5. AtHand(c, file', relay')
      BY <1>3
<1>6. c.todo = b.todo \ {s} /\ c.fails = b.fails \o <<>> /\ c.pc # "next"
      BY <1>2, <1>3, ListNone DEF AtPcs
<1> QED BY <1>2, <1>3, <1>4, <1>5, <1>6, LoopStep

LEMMA PickStep ==
    ASSUME IInv, NEW o \in Observers, NEW s \in Specs, Pick(o, s)
    PROVE  IInv'
<1> USE DEF files, hosts, masters, history
<1> DEFINE b == obs[o]
           listed == ~spec_forwardable(s) \/ (s \notin b.forwarded /\ (Taken(s) \/ Full(s)))
           skipped == listed \/ s \in b.forwarded
<1>1. /\ obs \in [Observers -> ObsStates] /\ HostTypes /\ file \in Files
      /\ b \in ObsStates /\ Hosts /\ Pass(b, file, Owned, relay, pidfile)
      BY Known
<1>2. /\ b.pc = "next" /\ s \in b.todo
      /\ UNCHANGED <<published, files, lock, op, clean, hosts>>
      BY DEF Pick, At
<1>3. file' \in Files /\ HostTypes' /\ Hosts'
      BY <1>1, <1>2, Alone DEF HostTypes, Hosts
<1>4. b.fails \in Seq(Specs) /\ b.todo \subseteq Specs
      BY <1>1 DEF ObsStates
<1>5. spec_forwardable(s) /\ s \notin b.forwarded => Free(file, s)
      BY <1>1, <1>2 DEF Pass, Loop
<1>6. s \in Tcp => s \notin Udp /\ spec_forwardable(s)
      BY Apart
<1>7. CASE listed
  <2> DEFINE c == [b EXCEPT !.todo = @ \ {s}, !.at = None, !.fails = @ \o <<s>>, !.pc = "next"]
  <2>1. b.fails \o <<s>> \in Seq(Specs) /\ Append(b.fails, s) = b.fails \o <<s>>
        BY <1>4
  <2>2. /\ c \in ObsStates /\ c.pc = "next" /\ c.specs = b.specs /\ c.known = b.known
        /\ c.control = b.control /\ c.forwarded = b.forwarded /\ c.todo = b.todo \ {s}
        /\ c.fails = b.fails \o <<s>>
        BY <1>1, <1>4, <2>1 DEF ObsStates, ObsPcs
  <2>3. obs' = [obs EXCEPT ![o] = c]
        BY <1>1, <1>7, <2>1 DEF Pick
  <2> HIDE DEF c
  <2>4. AtHand(c, file', relay')
        BY <2>2 DEF AtHand
  <2>5. s \in Tcp => file[s].own # "committed"
        BY <1>5, <1>6, <1>7 DEF Free
  <2>6. <<s>> # <<>> /\ c.pc # "commit" /\ ~(s \in b.forwarded /\ spec_forwardable(s))
        BY <1>7, <2>2
  <2> HIDE DEF listed, skipped
  <2> QED BY <1>2, <1>3, <2>2, <2>3, <2>4, <2>5, <2>6, LoopStep, Alone
<1>8. CASE ~listed /\ s \in b.forwarded
  <2> DEFINE c == [b EXCEPT !.todo = @ \ {s}, !.at = None, !.pc = "next"]
  <2>1. b.fails \o <<>> = b.fails
        BY <1>4
  <2>2. /\ c \in ObsStates /\ c.pc = "next" /\ c.specs = b.specs /\ c.known = b.known
        /\ c.control = b.control /\ c.forwarded = b.forwarded /\ c.todo = b.todo \ {s}
        /\ c.fails = b.fails
        BY <1>1, <1>4 DEF ObsStates, ObsPcs
  <2>3. obs' = [obs EXCEPT ![o] = c]
        BY <1>1, <1>8 DEF Pick
  <2> HIDE DEF c
  <2>4. AtHand(c, file', relay')
        BY <2>2 DEF AtHand
  <2> HIDE DEF listed, skipped
  <2> QED BY <1>2, <1>3, <1>8, <2>1, <2>2, <2>3, <2>4, LoopStep, Alone
<1>9. CASE ~skipped
  <2> DEFINE to == IF file[s].own \in Pending THEN "phase" ELSE "reserve"
             c == [b EXCEPT !.todo = @ \ {s}, !.at = s, !.pc = to]
  <2>1. b.fails \o <<>> = b.fails
        BY <1>4
  <2>2. to \in {"phase", "reserve"} /\ (to = "phase" <=> file[s].own \in Pending)
        OBVIOUS
  <2>3. obs' = [obs EXCEPT ![o] = c]
        BY <1>1, <1>9 DEF Pick
  <2> HIDE DEF to
  <2>4. /\ c \in ObsStates /\ c.pc = to /\ c.specs = b.specs /\ c.known = b.known
        /\ c.control = b.control /\ c.forwarded = b.forwarded /\ c.todo = b.todo \ {s}
        /\ c.fails = b.fails /\ c.at = s
        BY <1>1, <1>4, <2>2 DEF ObsStates, ObsPcs
  <2> HIDE DEF c
  <2>5. s \notin b.forwarded /\ spec_forwardable(s) /\ Free(file, s)
        BY <1>5, <1>9
  <2>6. file[s].own \in {"none", "pending", "locked", "committed"}
        BY <1>1 DEF Files, Records
  <2>7. /\ to = "reserve" => file[s].own = "none"
        /\ to = "phase" => s \in Tcp
        /\ s \in Tcp => file[s].own # "committed"
        BY <2>2, <2>5, <2>6, Apart DEF Free, Pending
  <2>8. AtHand(c, file', relay')
        BY <1>2, <2>2, <2>4, <2>7 DEF AtHand
  <2>9. c.pc \in AtPcs /\ c.pc # "next" /\ c.pc # "commit"
        BY <2>2, <2>4 DEF AtPcs
  <2> HIDE DEF listed, skipped
  <2> QED BY <1>2, <1>3, <2>1, <2>4, <2>3, <2>5, <2>7, <2>8, <2>9, LoopStep, Alone
<1> QED BY <1>7, <1>8, <1>9

(* The reservation and the phase of a request.                             *)
LEMMA ReserveStep ==
    ASSUME IInv, NEW o \in Observers, NEW saved \in BOOLEAN,
           Reserve(o, saved) \/ Phase(o, saved)
    PROVE  IInv'
<1> USE DEF files, hosts, masters, history
<1> DEFINE b == obs[o]
           s == obs[o].at
           rec == [own |-> IF b.pc = "reserve" THEN "pending" ELSE "locked", pid |-> None]
           g == [file EXCEPT ![s] = rec]
<1>1. /\ HostTypes /\ file \in Files /\ Hosts /\ Pass(b, file, Owned, relay, pidfile)
      /\ b \in ObsStates
      BY Known
<1>2. /\ b.pc \in {"reserve", "phase"} /\ b.pc \in AtPcs
      /\ UNCHANGED <<published, failures, lease, lock, op, clean, master, sock, stray, held,
                     relay, pidfile, undone>>
      /\ silent' = silent \/ silent' = silent \ In(file')
      BY DEF Reserve, Phase, At, AtPcs
<1>3. /\ s \in Specs /\ (b.pc = "phase" => s \in Tcp) /\ (s \in Tcp <=> s \notin Udp)
      /\ b.pc = "reserve" => file[s].own = "none"
      /\ file[s].own # "committed"
  <2>1. s \in b.specs /\ b.specs \subseteq Specs
        BY <1>1, <1>2 DEF Pass, ObsStates, Snapshots
  <2> QED BY <1>1, <1>2, <2>1, Apart DEF Pass, AtHand, Pending
<1>4. HostTypes' /\ Counted' = Counted /\ Owned' \subseteq Owned \cup In(file')
      BY <1>1, <1>2 DEF HostTypes, Counted, Owned
<1>5. \A r \in Relays : relay[r].st # "dead" => relay[r].spec # s
      BY <1>1, <1>2, <1>3, Apart DEF Hosts, Fit, RelaysFit, In
<1>6. /\ rec \in Records /\ rec.pid = None /\ rec.own \in {"pending", "locked"}
      /\ b.pc = "phase" => rec.own = "locked"
      /\ b.pc = "reserve" => rec = [own |-> "pending", pid |-> None]
      BY <1>2 DEF Records
<1>7. g \in Files /\ g[s] = rec /\ \A t \in Specs \ {s} : g[t] = file[t]
      BY <1>1, <1>3, <1>6 DEF Files
<1>8. CASE saved
  <2> DEFINE to == IF b.pc = "phase" THEN "request" ELSE IF s \in Tcp THEN "phase" ELSE "spawn"
  <2>1. file' = g /\ Goto(o, to)
        BY <1>2, <1>8 DEF Reserve, Phase, At
  <2>2. /\ to \in {"request", "phase", "spawn"} /\ to \in AtPcs
        /\ to = "request" => b.pc = "phase"
        /\ to = "phase" => s \in Tcp
        /\ to = "spawn" => s \in Udp /\ b.pc = "reserve"
        BY <1>2, <1>3 DEF AtPcs
  <2> HIDE DEF rec, to, g
  <2>3. Hosts'
    <3>0. Fit(file, Owned, relay, pidfile)
          BY <1>1 DEF Hosts
    <3>1. \A r \in Relays : rec.pid # r
          BY <1>6, Apart
    <3>2. rec.own # "none"
          BY <1>6
    <3>3. Fit(g, Owned, relay, pidfile)
          BY <1>3, <1>5, <1>7, <3>0, <3>1, <3>2, FitUpdate
    <3>4. Fit(g, Owned', relay, pidfile)
          BY <1>4, <2>1, <3>3, FitListeners
    <3> QED BY <1>1, <1>2, <2>1, <3>4 DEF Hosts
  <2>4. ASSUME NEW c, c.pc = to, c.at = s PROVE AtHand(c, file', relay')
        BY <1>2, <1>3, <1>5, <1>6, <1>7, <2>1, <2>2, <2>4 DEF AtHand, Pending
  <2>5. file'[s].own # "committed" /\ to # "commit"
        BY <1>6, <1>7, <2>1, <2>2
  <2>6. file' \in Files /\ \A t \in Specs \ {s} : file'[t] = file[t]
        BY <1>7, <2>1
  <2> QED BY <1>2, <1>4, <2>1, <2>2, <2>3, <2>4, <2>5, <2>6, GotoStep
<1>9. CASE ~saved
  <2>1. Failed(o, <<s>>) /\ file' \in {file, g}
        BY <1>2, <1>9 DEF Reserve, Phase, MayWrite, At
  <2> HIDE DEF rec, g
  <2>2. Fit(file', Owned, relay, pidfile)
    <3>0. Fit(file, Owned, relay, pidfile)
          BY <1>1 DEF Hosts
    <3>1. \A r \in Relays : rec.pid # r
          BY <1>6, Apart
    <3>2. rec.own # "none"
          BY <1>6
    <3>3. Fit(g, Owned, relay, pidfile)
          BY <1>3, <1>5, <1>7, <3>0, <3>1, <3>2, FitUpdate
    <3> QED BY <1>1, <2>1, <3>3 DEF Hosts
  <2>3. Hosts'
    <3>1. Fit(file', Owned', relay, pidfile)
          BY <1>4, <2>2, FitListeners
    <3> QED BY <1>1, <1>2, <3>1 DEF Hosts
  <2>4. /\ file' \in Files /\ \A t \in Specs \ {s} : file'[t] = file[t]
        /\ file'[s].own # "committed"
        BY <1>1, <1>3, <1>6, <1>7, <2>1
  <2> QED BY <1>2, <1>4, <2>1, <2>3, <2>4, FailedStep
<1> QED BY <1>8, <1>9

(* The request and its answer.                                             *)
LEMMA RequestStep ==
    ASSUME IInv, NEW o \in Observers, Answer(o) \/ NoAnswer(o) \/ Refused(o)
    PROVE  IInv'
<1> USE DEF files, hosts, masters, history
<1> DEFINE b == obs[o]
           s == obs[o].at
           done == [file EXCEPT ![s].own = "pending"]
<1>1. /\ HostTypes /\ file \in Files /\ Hosts /\ Pass(b, file, Owned, relay, pidfile)
      /\ b \in ObsStates
      BY Known
<1>2. /\ b.pc \in {"request", "refused"} /\ b.pc \in AtPcs
      /\ UNCHANGED <<published, failures, lease, lock, op, clean, master, sock, stray,
                     relay, pidfile, silent>>
      BY DEF Answer, NoAnswer, Refused, At, AtPcs
<1>3. s \in Specs /\ s \in Tcp /\ s \notin Udp /\ file[s].own \in Pending /\ s \in In(file)
  <2>1. s \in Tcp /\ file[s].own \in Pending
        BY <1>1, <1>2 DEF Pass, AtHand, Pending
  <2> QED BY <2>1, Apart DEF In, Pending
<1>4. \A r \in Relays : relay[r].st # "dead" => relay[r].spec # s /\ file[s].pid # r
  <2>1. \A r \in Relays : relay[r].st # "dead" => relay[r].spec # s
        BY <1>1, <1>3 DEF Hosts, RelaysFit
  <2> QED BY <1>1, <1>3, <2>1 DEF Hosts, Fit
<1>5. file[s] \in Records /\ held \subseteq Tcp
      BY <1>1, <1>3 DEF Files, HostTypes
(* The request was applied, and perhaps recorded.                          *)
<1>6. ASSUME Forwards(s) \/ held' = held, undone' \in {undone, undone \ {s}},
             undone' = undone \/ s \in held', file' \in {file, done}
      PROVE  /\ Hosts' /\ HostTypes' /\ file' \in Files /\ Counted \subseteq Counted'
             /\ \A t \in Specs \ {s} : file'[t] = file[t]
             /\ file'[s].own \in Pending /\ (file' = done => file'[s].own = "pending")
  <2>1. held' \subseteq held \cup {s} /\ held \subseteq held' /\ held' \cap stray = {}
        BY <1>1, <1>6 DEF Forwards, Hosts
  <2>2. /\ file' \in Files /\ file'[s].own \in Pending /\ file'[s].pid = file[s].pid
        /\ \A t \in Specs \ {s} : file'[t] = file[t]
        /\ file' = done => file'[s].own = "pending"
        BY <1>1, <1>3, <1>5, <1>6 DEF Files, Records, Pending
  <2>3. Owned' \subseteq Owned \cup In(file)
        BY <1>2, <1>3, <2>1 DEF Owned
  <2>4. Fit(file, Owned', relay, pidfile)
        BY <1>1, <2>3, FitListeners DEF Hosts
  <2>5. file'[s].own # "none"
        BY <2>2 DEF Pending
  <2> HIDE DEF done
  <2>6. Fit(file', Owned', relay, pidfile)
        BY <1>3, <1>4, <2>2, <2>4, <2>5, FitUpdate
  <2>7. Hosts' /\ HostTypes'
        BY <1>1, <1>2, <1>3, <1>5, <1>6, <2>1, <2>6 DEF Hosts, HostTypes
  <2>8. Counted \subseteq Counted'
        BY <1>6, <2>1 DEF Counted
  <2> QED BY <2>2, <2>7, <2>8
<1>7. CASE Answer(o)
  <2>1. Forwards(s) /\ Goto(o, "commit") /\ undone' = undone \ {s} /\ file' = done
        BY <1>7 DEF Answer, complete_tcp_control
  <2>2. s \in held'
        BY <2>1 DEF Forwards
  <2> HIDE DEF done
  <2>3. /\ Hosts' /\ HostTypes' /\ file' \in Files /\ Counted \subseteq Counted'
        /\ \A t \in Specs \ {s} : file'[t] = file[t]
        /\ file'[s].own = "pending"
        BY <1>6, <2>1, <2>2
  <2>4. ASSUME NEW c, c.pc = "commit", c.at = s PROVE AtHand(c, file', relay')
        BY <2>3, <2>4 DEF AtHand
  <2>5. "commit" \in AtPcs /\ s \in Counted'
        BY <2>2 DEF AtPcs, Counted
  <2> QED BY <1>2, <2>1, <2>3, <2>4, <2>5, GotoStep
<1>8. CASE NoAnswer(o)
  <2>1. /\ Forwards(s) \/ held' = held
        /\ Goto(o, "refused") /\ file' \in {file, done} /\ undone' = undone
        BY <1>8 DEF NoAnswer, complete_tcp_control
  <2> HIDE DEF done
  <2>2. /\ Hosts' /\ HostTypes' /\ file' \in Files /\ Counted \subseteq Counted'
        /\ \A t \in Specs \ {s} : file'[t] = file[t]
        /\ file'[s].own \in Pending
        BY <1>6, <2>1
  <2>3. ASSUME NEW c, c.pc = "refused", c.at = s PROVE AtHand(c, file', relay')
        BY <1>3, <2>2, <2>3 DEF AtHand
  <2>4. "refused" \in AtPcs /\ file'[s].own # "committed"
        BY <2>2 DEF AtPcs, Pending
  <2> QED BY <1>2, <2>1, <2>2, <2>3, <2>4, GotoStep
<1>9. CASE Refused(o)
  <2> DEFINE Locked == [file EXCEPT ![s] = [own |-> "locked", pid |-> None]]
  <2>1. Failed(o, <<s>>) /\ undone' = undone
        BY <1>9 DEF Refused
  <2>2. /\ held' \subseteq held /\ \A t \in held \ {s} : t \in held'
        /\ file' \in {file, Locked} \/ (file' = Without(s) /\ s \notin held' \cup stray)
    <3>1. CASE Cancelled(s) /\ MayWrite(Without(s))
          BY <1>1, <3>1 DEF Cancelled, MayWrite, Hosts
    <3>2. CASE /\ CancelLost(s)
               /\ \E alive \in Says, free \in MayBeFree(s, held') :
                     MayWrite(IF ~alive /\ free THEN Without(s) ELSE Locked)
      <4>1. PICK alive \in Says, free \in MayBeFree(s, held') :
                     MayWrite(IF ~alive /\ free THEN Without(s) ELSE Locked)
            BY <3>2
      <4>2. held' \subseteq held /\ \A t \in held \ {s} : t \in held'
            BY <3>2 DEF CancelLost
      <4>3. free => s \notin held' \cup stray
            BY DEF MayBeFree, Listening
      <4> QED BY <4>1, <4>2, <4>3 DEF MayWrite
    <3> QED BY <1>9, <3>1, <3>2 DEF Refused
  <2>3. /\ file' \in Files /\ \A t \in Specs \ {s} : file'[t] = file[t]
        /\ file'[s].own \in Pending \cup {"none"} /\ file'[s].pid \in {None, file[s].pid}
        /\ file'[s].own = "none" => s \notin held' \cup stray
    <3>1. CASE file' = file
          BY <1>1, <1>3, <3>1 DEF Pending
    <3>2. CASE file' = Locked
          BY <1>1, <1>3, <3>2 DEF Files, Records, Pending
    <3>3. CASE file' = Without(s) /\ s \notin held' \cup stray
          BY <1>1, <1>3, <3>3 DEF Files, Records, Without, NoRecord
    <3> QED BY <2>2, <3>1, <3>2, <3>3
  <2> HIDE DEF Locked
  <2>4. /\ Owned' \subseteq Owned /\ \A t \in Counted \ {s} : t \in Counted'
        /\ file'[s].own = "none" => s \notin Owned'
        BY <1>2, <2>1, <2>2, <2>3 DEF Owned, Counted
  <2>5. Hosts' /\ HostTypes'
    <3>1. \A r \in Relays : relay[r].st # "dead" => file'[s].pid # r
          BY <1>4, <2>3, Apart
    <3>2. Fit(file, Owned', relay, pidfile)
          BY <1>1, <2>4, FitListeners DEF Hosts
    <3>3. Fit(file', Owned', relay, pidfile)
          BY <1>3, <1>4, <2>3, <2>4, <3>1, <3>2, FitUpdate
    <3> QED BY <1>1, <1>2, <1>5, <2>1, <2>2, <3>3 DEF Hosts, HostTypes
  <2>6. file'[s].own # "committed"
        BY <2>3 DEF Pending
  <2> QED BY <1>2, <2>1, <2>3, <2>4, <2>5, <2>6, FailedStep
<1> QED BY <1>7, <1>8, <1>9

(* commit_forward.                                                         *)
LEMMA CommitStep ==
    ASSUME IInv, NEW o \in Observers, NEW saved \in BOOLEAN, Commit(o, saved)
    PROVE  IInv'
<1> USE DEF files, hosts, masters, history
<1> DEFINE b == obs[o]
           s == obs[o].at
           c == [b EXCEPT !.pc = "next", !.at = None]
<1>1. /\ HostTypes /\ file \in Files /\ Hosts /\ Pass(b, file, Owned, relay, pidfile)
      /\ obs \in [Observers -> ObsStates] /\ b \in ObsStates
      BY Known
<1>2. /\ b.pc = "commit" /\ b.pc \in AtPcs
      /\ UNCHANGED <<published, failures, lease, lock, op, clean, hosts>>
      BY DEF Commit, At, AtPcs
<1>3. /\ s \in Specs /\ file[s].own = "pending" /\ s \notin b.todo
      /\ file[s] \in Records /\ b.fails \in Seq(Specs)
  <2>1. s \in b.specs \ b.todo /\ b.specs \subseteq Specs /\ file[s].own = "pending"
        BY <1>1, <1>2 DEF Pass, AtHand, ObsStates, Snapshots
  <2> QED BY <1>1, <2>1 DEF Files, ObsStates
<1>4. /\ c \in ObsStates /\ c.pc = "next" /\ c.specs = b.specs /\ c.known = b.known
      /\ c.control = b.control /\ c.forwarded = b.forwarded /\ c.todo = b.todo
      /\ c.fails = b.fails
      BY <1>1 DEF ObsStates, ObsPcs
<1>5. obs' = [obs EXCEPT ![o] = c]
      BY <1>1 DEF Commit
<1> HIDE DEF c
<1>6. /\ file' \in Files /\ \A t \in Specs \ {s} : file'[t] = file[t]
      /\ file'[s].own # "none" /\ file'[s].pid = file[s].pid
  <2>1. CASE saved
    <3>1. file' = [file EXCEPT ![s].own = "committed"]
          BY <2>1 DEF Commit
    <3> QED BY <1>1, <1>3, <3>1 DEF Files, Records
  <2>2. CASE ~saved
    <3>1. file' \in {file, [file EXCEPT ![s].own = "committed"]}
          BY <2>2 DEF Commit, MayWrite
    <3> QED BY <1>1, <1>3, <3>1 DEF Files, Records
  <2> QED BY <2>1, <2>2
<1>7. Hosts' /\ HostTypes'
  <2>1. /\ \A r \in Relays : relay[r].st # "dead" /\ relay[r].spec = s =>
              /\ file'[s].own # "none" /\ file'[s].pid \in {None, r}
              /\ relay[r].st = "closing" => r \in {pidfile[s], file'[s].pid}
        /\ \A r \in Relays : relay[r].st # "dead" /\ file'[s].pid = r => relay[r].spec = s
        BY <1>1, <1>3, <1>6 DEF Hosts, Fit
  <2>2. Fit(file, Owned, relay, pidfile)
        BY <1>1 DEF Hosts
  <2>3. Fit(file', Owned, relay, pidfile)
        BY <1>3, <1>6, <2>1, <2>2, FitUpdate
  <2> QED BY <1>1, <1>2, <2>3, Alone DEF Hosts, HostTypes
<1>8. AtHand(c, file', relay')
      BY <1>4 DEF AtHand
<1>9. c.todo = b.todo \ {s} /\ c.fails = b.fails \o <<>> /\ c.pc # "commit" /\ <<>> # <<s>>
      BY <1>3, <1>4, ListNone
<1> QED BY <1>2, <1>3, <1>4, <1>5, <1>6, <1>7, <1>8, <1>9, LoopStep, Alone

(* The relay of the port at hand: a dead pidfile goes, the child is        *)
(* spawned.                                                                *)
LEMMA SpawnStep ==
    ASSUME IInv, NEW o \in Observers,
           SpawnFails(o) \/ (\E r \in Relays : SpawnRelay(o, r))
    PROVE  IInv'
<1> USE DEF files, hosts, masters, history
<1> DEFINE b == obs[o]
           s == obs[o].at
<1>1. /\ HostTypes /\ file \in Files /\ Hosts /\ Pass(b, file, Owned, relay, pidfile)
      /\ obs \in [Observers -> ObsStates] /\ b \in ObsStates
      BY Known
<1>2. /\ b.pc = "spawn" /\ b.pc \in AtPcs
      /\ UNCHANGED <<published, failures, lease, lock, op, clean, master, sock, stray, held,
                     silent, undone>>
      BY DEF SpawnFails, SpawnRelay, At, AtPcs
<1>3. /\ s \in Udp /\ s \in Specs /\ s \notin Tcp /\ s \in b.specs \ b.todo
      /\ spec_forwardable(s) /\ s \notin b.forwarded
      /\ file[s] = [own |-> "pending", pid |-> None]
      /\ \A r \in Relays : relay[r].st # "dead" => relay[r].spec # s
      BY <1>1, <1>2, Apart DEF Pass, AtHand
<1>4. /\ relay \in RelayTypes /\ pidfile \in Pidfiles /\ s \notin Owned
      /\ b.fails \in Seq(Specs)
      BY <1>1, <1>3 DEF HostTypes, ObsStates, Owned
<1>p. ASSUME NEW pf, pf \in {pidfile, [pidfile EXCEPT ![s] = None]}
      PROVE  /\ pf \in Pidfiles /\ \A t \in Udp \ {s} : pf[t] = pidfile[t]
             /\ pf[s] \in {pidfile[s], None}
             /\ Calmed(file, relay, pidfile, relay, pf)
  <2>1. /\ pf \in Pidfiles /\ \A t \in Udp \ {s} : pf[t] = pidfile[t]
        /\ pf[s] \in {pidfile[s], None}
        BY <1>3, <1>4, <1>p DEF Pidfiles
  <2> QED BY <1>1, <1>3, <2>1, Apart DEF Hosts, RelaysFit, Calmed
<1>5. CASE SpawnFails(o)
  <2>1. /\ pidfile' \in {pidfile, [pidfile EXCEPT ![s] = None]} /\ Failed(o, <<s>>)
        /\ file' \in {file, Without(s)} /\ relay' = relay
    <3>1. CASE Lives(pidfile[s])
          BY <1>5, <3>1 DEF SpawnFails, MayWrite
    <3>2. CASE ~Lives(pidfile[s])
          BY <1>5, <3>2 DEF SpawnFails, MayWrite
    <3> QED BY <3>1, <3>2
  <2>2. /\ pidfile' \in Pidfiles /\ Calmed(file, relay, pidfile, relay, pidfile')
        BY <1>p, <2>1
  <2>3. /\ file' \in Files /\ \A t \in Specs \ {s} : file'[t] = file[t]
        /\ file'[s].pid = None
        BY <1>1, <1>3, <2>1 DEF Files, Records, Without, NoRecord
  <2>4. Hosts' /\ HostTypes'
    <3>1. RelaysFit(relay, pidfile')
          BY <1>1, <2>2, CalmedRelays DEF Hosts
    <3>2. Fit(file, Owned, relay, pidfile')
          BY <1>1, <2>2, CalmedFit DEF Hosts
    <3>3. s \notin Owned /\ \A r \in Relays : file'[s].pid # r
          BY <1>3, <1>4, <2>3, Apart
    <3>4. Fit(file', Owned, relay, pidfile')
          BY <1>3, <2>3, <3>2, <3>3, FitUpdate
    <3> QED BY <1>1, <1>2, <1>4, <2>1, <2>2, <3>1, <3>4, Alone DEF Hosts, HostTypes
  <2> QED BY <1>2, <1>3, <2>1, <2>3, <2>4, Alone, FailedStep
<1>6. ASSUME NEW r \in Relays, SpawnRelay(o, r) PROVE IInv'
  <2>1. /\ pidfile' = [pidfile EXCEPT ![s] = None] /\ Unused(r) /\ file' = file
        /\ relay' = [relay EXCEPT ![r] = [st |-> "spawned", spec |-> s]]
        /\ obs' = [obs EXCEPT ![o].pc = "started", ![o].relay = r]
        BY <1>6 DEF SpawnRelay
  <2> DEFINE c == [b EXCEPT !.pc = "started", !.relay = r]
  <2>2. /\ c \in ObsStates /\ c.pc = "started" /\ c.specs = b.specs /\ c.known = b.known
        /\ c.control = b.control /\ c.forwarded = b.forwarded /\ c.todo = b.todo
        /\ c.fails = b.fails /\ c.at = s /\ c.relay = r
        BY <1>1 DEF ObsStates, ObsPcs
  <2>3. obs' = [obs EXCEPT ![o] = c]
        BY <1>1, <2>1
  <2> HIDE DEF c
  <2>4. /\ pidfile' \in Pidfiles /\ \A t \in Udp \ {s} : pidfile'[t] = pidfile[t]
        /\ pidfile'[s] = None
        BY <1>3, <1>4, <2>1 DEF Pidfiles
  <2>5. /\ relay' \in RelayTypes /\ relay'[r].st = "spawned" /\ relay'[r].spec = s
        /\ \A q \in Relays \ {r} : relay'[q] = relay[q]
        BY <1>3, <1>4, <2>1 DEF RelayTypes, RelayStates
  <2>6. /\ relay[r].st = "dead" /\ \A t \in Specs : file[t].pid # r
        /\ \A t \in Udp : pidfile[t] # r
        BY <1>4, <2>1 DEF Unused, Range, Pidfiles
  <2>7. RelaysFit(relay', pidfile')
    <3>1. ASSUME NEW q \in Relays, relay'[q].st # "dead"
          PROVE  /\ relay'[q].spec \in Udp /\ pidfile'[relay'[q].spec] \in {None, q}
                 /\ relay'[q].st = "running" => pidfile'[relay'[q].spec] = q
      <4>1. CASE q = r
            BY <1>3, <2>4, <2>5, <4>1
      <4>2. CASE q # r
            BY <1>1, <1>3, <2>4, <2>5, <3>1, <4>2 DEF Hosts, RelaysFit
      <4> QED BY <4>1, <4>2
    <3>2. ASSUME NEW p \in Relays, NEW q \in Relays, relay'[p].st # "dead",
                 relay'[q].st # "dead", relay'[p].spec = relay'[q].spec
          PROVE  p = q
          BY <1>1, <1>3, <2>5, <3>2 DEF Hosts, RelaysFit
    <3>3. ASSUME NEW t \in Udp, NEW q \in Relays, pidfile'[t] = q, relay'[q].st # "dead"
          PROVE  relay'[q].spec = t
          BY <1>1, <2>4, <2>5, <2>6, <3>3, Apart DEF Hosts, RelaysFit
    <3> QED BY <3>1, <3>2, <3>3 DEF RelaysFit
  <2>8. Fit(file, Owned, relay', pidfile')
    <3>1. Owned \subseteq In(file)
          BY <1>1 DEF Hosts, Fit
    <3>2. ASSUME NEW q \in Relays, relay'[q].st # "dead"
          PROVE  /\ relay'[q].spec \in In(file) /\ file[relay'[q].spec].pid \in {None, q}
                 /\ relay'[q].st = "closing" =>
                       q \in {pidfile'[relay'[q].spec], file[relay'[q].spec].pid}
      <4>1. CASE q = r
            BY <1>3, <2>5, <4>1 DEF In
      <4>2. CASE q # r
        <5>1. relay[q].st # "dead" /\ relay'[q] = relay[q]
              BY <2>5, <3>2, <4>2
        <5>2. relay[q].spec \in Udp \ {s}
              BY <1>1, <1>3, <5>1 DEF Hosts, RelaysFit
        <5> QED BY <1>1, <2>4, <5>1, <5>2 DEF Hosts, Fit
      <4> QED BY <4>1, <4>2
    <3>3. ASSUME NEW t \in Specs, NEW q \in Relays, file[t].pid = q, relay'[q].st # "dead"
          PROVE  relay'[q].spec = t
          BY <1>1, <2>5, <2>6, <3>3 DEF Hosts, Fit
    <3> QED BY <3>1, <3>2, <3>3 DEF Fit
  <2>9. Hosts' /\ HostTypes'
        BY <1>1, <1>2, <1>4, <2>1, <2>4, <2>5, <2>7, <2>8, Alone DEF Hosts, HostTypes
  <2>10. AtHand(c, file', relay')
    <3>1. \A q \in Relays : relay'[q].st # "dead" /\ relay'[q].spec = s => q = r
          BY <1>3, <2>5
    <3> QED BY <1>3, <2>1, <2>2, <2>5, <3>1 DEF AtHand
  <2>11. /\ c.todo = b.todo \ {s} /\ c.fails = b.fails \o <<>> /\ c.pc \in AtPcs
         /\ <<>> # <<s>>
         BY <1>3, <1>4, <2>2, ListNone DEF AtPcs
  <2>12. file' \in Files
         BY <1>1, <2>1
  <2> QED BY <1>2, <1>3, <2>1, <2>2, <2>3, <2>9, <2>10, <2>11, <2>12, LoopStep, Alone
<1> QED BY <1>5, <1>6

(* The child wrote its pidfile, or did not in time.                        *)
LEMMA StartedStep ==
    ASSUME IInv, NEW o \in Observers,
           NotStarted(o) \/ (\E saved \in BOOLEAN : Started(o, saved))
    PROVE  IInv'
<1> USE DEF files, hosts, masters, history
<1> DEFINE b == obs[o]
           s == obs[o].at
           r == obs[o].relay
<1>1. /\ HostTypes /\ file \in Files /\ Hosts /\ Pass(b, file, Owned, relay, pidfile)
      /\ obs \in [Observers -> ObsStates] /\ b \in ObsStates
      BY Known
<1>2. /\ b.pc = "started" /\ b.pc \in AtPcs
      /\ UNCHANGED <<published, failures, lease, lock, op, clean, master, sock, stray>>
      BY DEF NotStarted, Started, At, AtPcs
<1>3. /\ s \in Udp /\ s \in Specs /\ s \notin Tcp /\ s \in b.specs \ b.todo
      /\ spec_forwardable(s) /\ s \notin b.forwarded
      /\ file[s] = [own |-> "pending", pid |-> None]
      /\ r \in Relays /\ (relay[r].st # "dead" => relay[r].spec = s)
      /\ \A q \in Relays : relay[q].st # "dead" /\ relay[q].spec = s => q = r
      BY <1>1, <1>2, Apart DEF Pass, AtHand
<1>4. /\ relay \in RelayTypes /\ pidfile \in Pidfiles /\ s \notin Owned
      /\ b.fails \in Seq(Specs)
      BY <1>1, <1>3 DEF HostTypes, ObsStates, Owned
<1>5. Lives(r) => relay[r].st # "dead" /\ relay[r].spec = s
      BY <1>3 DEF Lives
<1>6. s \notin Owned /\ \A q \in Relays : None # q
      BY <1>3, <1>4, Apart
<1> HIDE DEF r
(* A record of the relay that lives fits.                                  *)
<1>f. ASSUME Lives(r), NEW f, f = [file EXCEPT ![s] = [own |-> "pending", pid |-> r]]
      PROVE  /\ f \in Files /\ f[s] = [own |-> "pending", pid |-> r]
             /\ \A t \in Specs \ {s} : f[t] = file[t]
             /\ Fit(f, Owned, relay, pidfile)
  <2>1. /\ f \in Files /\ f[s] = [own |-> "pending", pid |-> r]
        /\ \A t \in Specs \ {s} : f[t] = file[t]
        BY <1>1, <1>3, <1>f DEF Files, Records
  <2>2. f[s].own # "none" /\ f[s].pid = r
        BY <2>1
  <2>3. Fit(file, Owned, relay, pidfile)
        BY <1>1 DEF Hosts
  <2>4. \A q \in Relays : relay[q].st # "dead" /\ relay[q].spec = s =>
              /\ f[s].own # "none" /\ f[s].pid \in {None, q}
              /\ relay[q].st = "closing" => q \in {pidfile[s], f[s].pid}
        BY <1>3, <2>2
  <2>5. \A q \in Relays : relay[q].st # "dead" /\ f[s].pid = q => relay[q].spec = s
        BY <1>5, <1>f, <2>2
  <2>6. Fit(f, Owned, relay, pidfile)
        BY <1>3, <2>1, <2>2, <2>3, <2>4, <2>5, FitUpdate
  <2> QED BY <2>1, <2>6
(* So does no record, when no relay of the port is left.                   *)
<1>g. ASSUME NEW rl, NEW pf, Fit(file, Owned, rl, pf), NEW f \in {file, Without(s)},
             f = file \/ \A q \in Relays : rl[q].st # "dead" => rl[q].spec # s
      PROVE  /\ f \in Files /\ \A t \in Specs \ {s} : f[t] = file[t]
             /\ Fit(f, Owned, rl, pf)
  <2>1. CASE f = file
        BY <1>1, <1>g, <2>1
  <2>2. CASE f = Without(s) /\ \A q \in Relays : rl[q].st # "dead" => rl[q].spec # s
    <3>1. /\ f \in Files /\ f[s] = NoRecord /\ \A t \in Specs \ {s} : f[t] = file[t]
          BY <1>1, <1>3, <2>2 DEF Files, Records, Without, NoRecord
    <3>2. \A q \in Relays : f[s].pid # q
          BY <1>6, <3>1 DEF NoRecord
    <3>3. Fit(f, Owned, rl, pf)
          BY <1>3, <1>6, <1>g, <2>2, <3>1, <3>2, FitUpdate
    <3> QED BY <3>1, <3>3
  <2> QED BY <1>g, <2>1, <2>2
<1>7. CASE NotStarted(o)
  <2>1. Failed(o, <<s>>) /\ UNCHANGED <<held, silent, undone>>
        BY <1>7 DEF NotStarted
  <2>2. CASE /\ IF Lives(r) THEN Ends(r) ELSE UNCHANGED relay
             /\ pidfile' = [pidfile EXCEPT ![s] = None]
             /\ MayWrite(Without(s))
    <3>1. /\ relay' \in RelayTypes /\ relay'[r].st = "dead"
          /\ \A q \in Relays \ {r} : relay'[q] = relay[q]
      <4>1. CASE Lives(r)
            BY <1>3, <1>4, <2>2, <4>1 DEF Ends, NoRelay, RelayTypes, RelayStates
      <4>2. CASE ~Lives(r)
            BY <1>3, <1>4, <1>6, <2>2, <4>2 DEF Lives
      <4> QED BY <4>1, <4>2
    <3>2. /\ pidfile' \in Pidfiles /\ pidfile'[s] = None
          /\ \A t \in Udp \ {s} : pidfile'[t] = pidfile[t]
          BY <1>3, <1>4, <2>2 DEF Pidfiles
    <3>3. \A q \in Relays : relay'[q].st # "dead" => relay'[q].spec # s /\ q # r
          BY <1>3, <3>1
    <3>4. Calmed(file, relay, pidfile, relay', pidfile')
          BY <1>1, <1>6, <3>1, <3>2, <3>3 DEF Hosts, RelaysFit, Calmed
    <3>5. RelaysFit(relay', pidfile') /\ Fit(file, Owned, relay', pidfile')
          BY <1>1, <3>4, CalmedRelays, CalmedFit DEF Hosts
    <3>6. /\ file' \in Files /\ \A t \in Specs \ {s} : file'[t] = file[t]
          /\ Fit(file', Owned, relay', pidfile')
          BY <1>g, <2>2, <3>3, <3>5 DEF MayWrite
    <3>7. Hosts' /\ HostTypes'
          BY <1>1, <1>2, <1>4, <2>1, <3>1, <3>2, <3>5, <3>6, Alone DEF Hosts, HostTypes
    <3> QED BY <1>2, <1>3, <2>1, <3>6, <3>7, Alone, FailedStep
  <2>3. CASE /\ Lives(r) /\ UNCHANGED <<relay, pidfile>>
             /\ \E pid \in {r, None} :
                   MayWrite([file EXCEPT ![s] = [own |-> "pending", pid |-> pid]])
    <3>1. \/ file' = file
          \/ file' = [file EXCEPT ![s] = [own |-> "pending", pid |-> r]]
      <4>1. [file EXCEPT ![s] = [own |-> "pending", pid |-> None]] = file
            BY <1>1, <1>3 DEF Files
      <4> QED BY <2>3, <4>1 DEF MayWrite
    <3>2. /\ file' \in Files /\ \A t \in Specs \ {s} : file'[t] = file[t]
          /\ Fit(file', Owned, relay, pidfile)
          BY <1>1, <1>f, <2>3, <3>1 DEF Hosts
    <3>3. Hosts' /\ HostTypes'
          BY <1>1, <1>2, <1>4, <2>1, <2>3, <3>2, Alone DEF Hosts, HostTypes
    <3> QED BY <1>2, <1>3, <2>1, <3>2, <3>3, Alone, FailedStep
  <2> QED BY <1>7, <2>2, <2>3 DEF NotStarted, r
<1>8. ASSUME NEW saved \in BOOLEAN, Started(o, saved) PROVE IInv'
  <2> DEFINE rec == [own |-> "pending", pid |-> r]
  <2>1. Lives(r) /\ pidfile[s] = r
        BY <1>8 DEF Started, r
  <2>2. CASE /\ saved /\ file' = [file EXCEPT ![s] = rec]
             /\ obs' = [obs EXCEPT ![o].pc = "commit", ![o].relay = None]
             /\ UNCHANGED <<held, silent, undone, relay, pidfile>>
    <3> DEFINE c == [b EXCEPT !.pc = "commit", !.relay = None]
    <3>1. /\ c \in ObsStates /\ c.pc = "commit" /\ c.specs = b.specs /\ c.known = b.known
          /\ c.control = b.control /\ c.forwarded = b.forwarded /\ c.todo = b.todo
          /\ c.fails = b.fails /\ c.at = s
          BY <1>1 DEF ObsStates, ObsPcs
    <3>2. obs' = [obs EXCEPT ![o] = c]
          BY <1>1, <2>2
    <3> HIDE DEF c
    <3>3. /\ file' \in Files /\ file'[s] = rec /\ \A t \in Specs \ {s} : file'[t] = file[t]
          /\ Fit(file', Owned, relay, pidfile)
          BY <1>f, <2>1, <2>2
    <3>4. Hosts' /\ HostTypes'
          BY <1>1, <1>2, <1>4, <2>2, <3>3, Alone DEF Hosts, HostTypes
    <3>5. AtHand(c, file', relay')
          BY <3>1, <3>3 DEF AtHand
    <3>6. /\ c.todo = b.todo \ {s} /\ c.fails = b.fails \o <<>> /\ c.pc \in AtPcs
          /\ <<>> # <<s>>
          BY <1>3, <1>4, <3>1, ListNone DEF AtPcs
    <3> QED BY <1>2, <1>3, <2>2, <3>1, <3>2, <3>3, <3>4, <3>5, <3>6, LoopStep, Alone
  <2>3. ASSUME NEW ok \in BOOLEAN, Failed(o, <<s>>), StopUdp(s, rec, ok),
               IF ok THEN MayWrite(Without(s)) ELSE UNCHANGED file
        PROVE  IInv'
    <3>1. RelayOf(s, rec) = r /\ RelayOf(s, file[s]) = r
          BY <1>3, <1>6, <2>1 DEF RelayOf
    <3>2. StopUdp(s, file[s], ok)
      <4>1. udp_relay_state(s, rec) = udp_relay_state(s, file[s])
            BY <3>1 DEF udp_relay_state
      <4> QED BY <2>3, <3>1, <4>1 DEF StopUdp
    <3>3. StopRecord(s, file[s], ok)
          BY <1>3, <3>2 DEF StopRecord
    <3>4. /\ HostTypes' /\ RelaysFit(relay', pidfile') /\ Fit(file, Owned', relay', pidfile')
          /\ held' \cap stray' = {}
          /\ ok => \A q \in Relays : relay'[q].st # "dead" => relay'[q].spec # s
      <4>1. stray' = stray /\ Fit(file, Owned, relay, pidfile)
            BY <1>1, <1>2 DEF Hosts
      <4>2. ASSUME NEW t \in Specs, t = s
            PROVE  /\ HostTypes' /\ RelaysFit(relay', pidfile')
                   /\ Fit(file, Owned', relay', pidfile')
                   /\ held' \cap stray' = {}
                   /\ ok => \A q \in Relays : relay'[q].st # "dead" => relay'[q].spec # t
        <5>1. StopRecord(t, file[t], ok)
              BY <3>3, <4>2
        <5> HIDE DEF s
        <5>2. /\ HostTypes' /\ RelaysFit(relay', pidfile')
              /\ Fit(file, Owned', relay', pidfile')
              /\ held' \cap stray' = {}
              BY <1>1, <4>1, <5>1, StopKeeps
        <5>3. ASSUME ok, NEW q \in Relays, relay'[q].st # "dead" PROVE relay'[q].spec # t
          <6>1. stray' = stray /\ Fit(file, Owned, relay, pidfile) /\ file[t] = file[t]
                BY <4>1
          <6>2. ok = TRUE
                BY <5>3
          <6> QED BY <1>1, <5>1, <5>3, <6>1, <6>2, StopKeeps
        <5> QED BY <5>2, <5>3
      <4> QED BY <1>3, <4>2
    <3>6. UNCHANGED <<held, silent, undone>>
          BY <3>2 DEF StopUdp
    <3>9. Owned' = Owned /\ Counted' = Counted
          BY <1>2, <3>6, Alone
    <3>7. /\ file' \in Files /\ \A t \in Specs \ {s} : file'[t] = file[t]
          /\ Fit(file', Owned, relay', pidfile')
          BY <1>g, <2>3, <3>4, <3>9 DEF MayWrite
    <3>8. Hosts'
          BY <3>4, <3>7, <3>9 DEF Hosts
    <3> QED BY <1>2, <1>3, <2>3, <3>4, <3>6, <3>7, <3>8, <3>9, FailedStep
  <2> QED BY <1>8, <2>2, <2>3 DEF Started, r
<1> QED BY <1>7, <1>8

(* The end of a pass, and of an observer.                                  *)
LEMMA PublishStep ==
    ASSUME IInv, NEW o \in Observers, NEW saved \in BOOLEAN, Publish(o, saved)
    PROVE  IInv'
<1> USE DEF files, hosts, masters, history
<1> DEFINE b == obs[o]
<1>1. /\ obs \in [Observers -> ObsStates] /\ HostTypes /\ file \in Files
      /\ failures \subseteq Specs /\ b \in ObsStates
      /\ Hosts /\ Pass(b, file, Owned, relay, pidfile) /\ Listed(b)
      /\ b.pc \in Inside /\ b.known /\ b.control = master /\ master # None
         => Earned(b, file, Counted)
      /\ b.pc \in Inside => lock = o
      BY Known
<1>2. /\ b.pc = "next" /\ b.pc \in Inside /\ b.pc \in Loop /\ b.todo = {} /\ b.known
      /\ UNCHANGED <<published, file, lease, op, clean, hosts>>
      BY <1>1 DEF Publish, At, Inside, Loop, Pass
<1>3. CASE saved
  <2> DEFINE c == [b EXCEPT !.pc = "published"]
  <2>1. /\ c \in ObsStates /\ c.pc = "published" /\ c.specs = b.specs /\ c.known = b.known
        /\ c.control = b.control /\ c.forwarded = b.forwarded /\ c.todo = b.todo
        /\ c.fails = b.fails
        BY <1>1 DEF ObsStates, ObsPcs
  <2>2. obs' = [obs EXCEPT ![o] = c] /\ failures' = Range(b.fails) /\ lock' = lock
        BY <1>1, <1>3 DEF Publish, Goto
  <2> HIDE DEF c
  <2>3. Range(b.fails) \subseteq Specs
        BY <1>1 DEF Listed, ObsStates, Snapshots
  <2>4. /\ c.pc \in Loop /\ c.pc \notin AtPcs /\ b.pc \notin AtPcs
        /\ c.pc \in Inside
        BY <1>2, <2>1 DEF Loop, AtPcs, Inside
  <2>5. Hosts' /\ HostTypes'
        BY <1>1, <1>2, Alone DEF Hosts, HostTypes
  <2>6. Pass(c, file', Owned', relay', pidfile')
        BY <1>1, <1>2, <2>1, <2>4 DEF Pass, AtHand
  <2>7. Listed(c)
        BY <1>1, <1>2, <2>1, <2>4 DEF Listed
  <2>8. ASSUME c.known, c.control = master, master # None
        PROVE  Earned(c, file', Counted')
    <3>1. Earned(b, file, Counted)
          BY <1>1, <1>2, <2>1, <2>8
    <3> QED BY <1>2, <2>1, <2>4, <3>1, Alone DEF Earned
  <2> QED BY <1>1, <1>2, <2>1, <2>2, <2>3, <2>4, <2>5, <2>6, <2>7, <2>8, Inner
<1>4. CASE ~saved
  <2>1. Again(o) /\ lock' = None /\ lock = o /\ b.pc # "off" /\ b.pc # "sort"
        /\ UNCHANGED failures
        BY <1>1, <1>2, <1>4 DEF Publish, Unlock
  <2> QED BY <1>2, <2>1, Quit
<1> QED BY <1>3, <1>4

LEMMA EndPassStep ==
    ASSUME IInv, NEW o \in Observers, EndPass(o) \/ LoadFails(o)
    PROVE  IInv'
<1>1. /\ obs[o].pc \in {"published", "load"} /\ Again(o) /\ lock' = None
      /\ UNCHANGED <<published, files, op, clean, hosts>>
      BY DEF EndPass, LoadFails, At, Unlock
<1>2. lock = o
      BY <1>1, Known DEF Inside, Loop
<1> QED BY <1>1, <1>2, Quit

LEMMA ObserverDiesStep ==
    ASSUME IInv, NEW o \in Observers, ObserverDies(o)
    PROVE  IInv'
<1> USE DEF files, hosts, masters, history
<1> DEFINE b == obs[o]
           s == obs[o].at
<1>1. /\ obs[o].pc # "off" /\ UNCHANGED <<published, files, op, clean, hosts>>
      BY DEF ObserverDies
<1>2. CASE b.pc = "request"
  <2>1. Goto(o, "orphan") /\ lock' = lock
        BY <1>2 DEF ObserverDies, At
  <2>2. /\ HostTypes /\ file \in Files /\ Hosts /\ Pass(b, file, Owned, relay, pidfile)
        BY Known
  <2>3. s \in Tcp /\ file[s].own = "locked"
        BY <1>2, <2>2 DEF Pass, AtHand
  <2>4. ASSUME NEW c, c.pc = "orphan", c.at = s PROVE AtHand(c, file', relay')
        BY <1>1, <2>3, <2>4 DEF AtHand
  <2>5. "orphan" \in AtPcs /\ b.pc \in AtPcs
        BY <1>2 DEF AtPcs
  <2>6. Hosts' /\ HostTypes'
        BY <1>1, <2>2, Alone DEF Hosts, HostTypes
  <2> QED BY <1>1, <2>1, <2>2, <2>3, <2>4, <2>5, <2>6, Alone, GotoStep
<1>3. CASE b.pc # "request"
  <2>1. Exit(o) /\ lock' = IF lock = o THEN None ELSE lock
        BY <1>3 DEF ObserverDies, At
  <2> QED BY <1>1, <2>1, Quit
<1> QED BY <1>2, <1>3

LEMMA OrphanStep ==
    ASSUME IInv, NEW o \in Observers, OrphanEnds(o)
    PROVE  IInv'
<1> USE DEF files, hosts, masters, history
<1> DEFINE b == obs[o]
           s == obs[o].at
<1>1. /\ HostTypes /\ file \in Files /\ Hosts /\ Pass(b, file, Owned, relay, pidfile)
      /\ obs \in [Observers -> ObsStates]
      /\ b.pc \in Inside => lock = o
      BY Known
<1>2. /\ b.pc = "orphan" /\ b.pc \in Inside /\ b.pc # "off" /\ Exit(o)
      /\ UNCHANGED <<published, failures, lease, op, clean, master, sock, stray,
                     relay, pidfile, silent, undone>>
      BY DEF OrphanEnds, At, Inside, Loop, AtPcs
<1>3. /\ s \in Tcp /\ s \in Specs /\ s \in In(file)
      /\ file[s] \in Records /\ held \subseteq Tcp
  <2>1. s \in Tcp /\ file[s].own = "locked"
        BY <1>1, <1>2 DEF Pass, AtHand
  <2> QED BY <1>1, <2>1, Apart DEF In, Files, HostTypes
<1>4. lock = o /\ lock' = None
      BY <1>1, <1>2 DEF OrphanEnds
<1>5. /\ held' = held \/ (held' = held \cup {s} /\ s \notin stray)
      /\ file' = file \/ file' = [file EXCEPT ![s].own = "pending"]
      BY DEF OrphanEnds, Forwards, complete_tcp_control
<1>6. /\ file' \in Files /\ file'[s].pid = file[s].pid /\ file'[s].own # "none"
      /\ \A t \in Specs \ {s} : file'[t] = file[t]
      BY <1>1, <1>3, <1>5 DEF Files, Records, In
<1>7. Hosts' /\ HostTypes'
  <2>1. Owned' \subseteq Owned \cup In(file)
        BY <1>2, <1>3, <1>5 DEF Owned
  <2>2. Fit(file, Owned', relay, pidfile)
        BY <1>1, <2>1, FitListeners DEF Hosts
  <2>3. \A r \in Relays : relay[r].st # "dead" => relay[r].spec # s
        BY <1>1, <1>3, Apart DEF Hosts, RelaysFit
  <2>4. \A r \in Relays : relay[r].st # "dead" => file[s].pid # r
        BY <1>1, <1>3, <2>3 DEF Hosts, Fit
  <2>5. Fit(file', Owned', relay, pidfile)
        BY <1>3, <1>6, <2>2, <2>3, <2>4, FitUpdate
  <2> QED BY <1>1, <1>2, <1>3, <1>5, <2>5 DEF Hosts, HostTypes
<1>8. ~Again(o)
  <2>1. obs'[o].pc = "off"
        BY <1>1, <1>2 DEF Exit, NoObs
  <2>2. Again(o) => obs'[o].pc = "lease"
        BY <1>1 DEF Again, NoObs
  <2> QED BY <2>1, <2>2
<1> QED BY <1>2, <1>4, <1>6, <1>7, <1>8, Ending

LEMMA ObserverInvariant ==
    ASSUME IInv, NEW o \in Observers, ObserverStep(o)
    PROVE  IInv'
BY BeginPass, UnconfirmStep, SortStep, SaveStep, PickStep, ReserveStep, RequestStep,
   SpawnStep, StartedStep, CommitStep, PublishStep, EndPassStep, ObserverDiesStep,
   OrphanStep DEF ObserverStep, Writes

-----------------------------------------------------------------------------
(* The start and the stop, Docker, the master and the relays.              *)
OpStates == [pc : OpPcs, who : Observers \cup {None}, mem : Files, todo : SUBSET Specs,
             ok : BOOLEAN]

(* What a step of somebody else than an observer has to show.              *)
LEMMA Elsewhere ==
    ASSUME IInv, TypeOK', Locks', Stops', UNCHANGED <<file, obs>>,
           Owned' \subseteq Owned, held' \cap stray' = {},
           \A f : Calmed(f, relay, pidfile, relay', pidfile'),
           \A o \in Observers : lease' = o => lease = o \/ ~obs[o].known,
           \/ Counted' = Counted /\ master' = master
           \/ master' = None
           \/ \A o \in Observers : obs[o].control # master'
    PROVE  IInv'
<1>1. Hosts /\ Passes /\ Lists /\ Leases /\ Trust
      BY DEF IInv
<1>2. Hosts'
  <2>1. RelaysFit(relay', pidfile')
        BY <1>1, CalmedRelays DEF Hosts
  <2>2. Fit(file, Owned', relay', pidfile')
        BY <1>1, CalmedFit DEF Hosts
  <2> QED BY <2>1, <2>2 DEF Hosts
<1>3. Passes'
  <2> SUFFICES ASSUME NEW o \in Observers
               PROVE  Pass(obs[o], file, Owned', relay', pidfile')
      BY DEF Passes
  <2>1. Pass(obs[o], file, Owned, relay, pidfile) /\ Calmed(obs[o].mem, relay, pidfile, relay', pidfile')
        BY <1>1 DEF Passes
  <2> QED BY <2>1, CalmedPass
<1>4. Lists'
      BY <1>1 DEF Lists
<1>5. Leases'
      BY <1>1 DEF Leases
<1>6. Trust'
      BY <1>1 DEF Trust, Trusting
<1> QED BY <1>2, <1>3, <1>4, <1>5, <1>6 DEF IInv

(* Relays that are left alone.                                             *)
LEMMA AllCalm ==
    ASSUME IInv
    PROVE  \A f : Calmed(f, relay, pidfile, relay, pidfile)
BY DEF IInv, Hosts, RelaysFit, Calmed

(* The environment: what the start or stop knows stays true.               *)
LEMMA Around ==
    ASSUME IInv, TypeOK', UNCHANGED <<file, failures, lease, lock, obs, op, clean>>,
           Owned' \subseteq Owned, held' \cap stray' = {},
           \A f : Calmed(f, relay, pidfile, relay', pidfile'),
           (Counted' = Counted /\ master' = master) \/ master' = None
    PROVE  IInv'
<1>1. Locks /\ Stops
      BY DEF IInv
<1>2. Locks'
      BY <1>1 DEF Locks
<1>3. op.pc = "clean" => Fit(op.mem, Owned', relay', pidfile')
      BY <1>1, CalmedFit DEF Stops
<1>4. Stops'
      BY <1>1, <1>3 DEF Stops
<1> QED BY <1>2, <1>4, Elsewhere

LEMMA DockerStep ==
    ASSUME IInv, DockerChanges \/ MasterDies \/ StrayDies
    PROVE  IInv'
<1>1. \A f : Calmed(f, relay, pidfile, relay, pidfile)
      BY AllCalm
<1>2. TypeOK /\ Hosts
      BY DEF IInv
<1>3. CASE DockerChanges
  <2>1. TypeOK'
        BY <1>2, <1>3 DEF DockerChanges, TypeOK, files, hosts, masters, history
  <2>2. Owned' = Owned /\ Counted' = Counted
        BY <1>3, Alone DEF DockerChanges, hosts, masters, history
  <2> QED BY <1>1, <1>2, <1>3, <2>1, <2>2, Around
          DEF DockerChanges, files, hosts, masters, history, Hosts
<1>4. CASE MasterDies
  <2>1. TypeOK'
        BY <1>2, <1>4 DEF MasterDies, TypeOK, files
  <2>2. Owned' \subseteq Owned /\ held' \cap stray' = {}
        BY <1>4 DEF MasterDies, Owned
  <2> QED BY <1>1, <1>4, <2>1, <2>2, Around DEF MasterDies, files
<1>5. CASE StrayDies
  <2>1. TypeOK'
        BY <1>2, <1>5 DEF StrayDies, TypeOK, files
  <2>2. Owned' \subseteq Owned /\ held' \cap stray' = {} /\ Counted' = Counted
        BY <1>2, <1>5 DEF StrayDies, Owned, Counted, Hosts
  <2> QED BY <1>1, <1>5, <2>1, <2>2, Around DEF StrayDies, files
<1> QED BY <1>3, <1>4, <1>5

LEMMA RelaySteps ==
    ASSUME IInv, NEW r \in Relays, RelayStep(r)
    PROVE  IInv'
<1>1. TypeOK /\ Hosts
      BY DEF IInv
<1>2. relay \in RelayTypes /\ pidfile \in Pidfiles /\ RelaysFit(relay, pidfile)
      BY <1>1, Parts DEF HostTypes, Hosts
<1>3. UNCHANGED <<published, file, failures, lease, lock, obs, op, clean, master, sock,
               stray, held, silent, undone>>
      BY DEF RelayStep, RelayWrites, RelayCloses, RelayUnlinks, RelayDies, files, masters, history
<1>4. relay[r].st # "dead"
      BY DEF RelayStep, RelayWrites, RelayCloses, RelayUnlinks, RelayDies, Lives
<1> DEFINE s == relay[r].spec
<1>5. s \in Udp /\ pidfile[s] \in {None, r} /\ relay[r] = [st |-> relay[r].st, spec |-> s]
      BY <1>2, <1>4 DEF RelaysFit, RelayTypes
<1>6. \A q \in Relays \ {r} : relay[q].st # "dead" => relay[q].spec # s
      BY <1>2, <1>4 DEF RelaysFit
<1> HIDE DEF s
<1>7. /\ relay' \in RelayTypes /\ pidfile' \in Pidfiles
      /\ \A q \in Relays \ {r} : relay'[q] = relay[q]
      /\ \A t \in Udp \ {s} : pidfile'[t] = pidfile[t]
      /\ pidfile'[s] \in {pidfile[s], None, r}
      /\ \/ relay'[r].st = "dead"
         \/ relay'[r].spec = s /\ relay'[r].st = "running" /\ pidfile'[s] = r
         \/ relay'[r].spec = s /\ relay'[r].st = "closing" /\ pidfile'[s] = r
      /\ pidfile'[s] = r => pidfile[s] = r \/ relay'[r].spec = s
  <2>1. CASE RelayWrites(r)
        BY <1>2, <1>5, <2>1 DEF RelayWrites, RelayTypes, Pidfiles, RelayStates, s
  <2>2. CASE RelayCloses(r)
    <3>1. pidfile[s] = r
          BY <1>2, <2>2 DEF RelayCloses, RelaysFit, s
    <3> QED BY <1>2, <1>5, <2>2, <3>1 DEF RelayCloses, RelayTypes, Pidfiles, RelayStates, s
  <2>3. CASE RelayUnlinks(r)
        BY <1>2, <1>5, <2>3, Apart
        DEF RelayUnlinks, Ends, NoRelay, RelayTypes, Pidfiles, RelayStates, s
  <2>4. CASE RelayDies(r)
        BY <1>2, <1>5, <2>4 DEF RelayDies, Ends, NoRelay, RelayTypes, Pidfiles, RelayStates, s
  <2> QED BY <2>1, <2>2, <2>3, <2>4 DEF RelayStep
<1>8. ASSUME NEW f PROVE Calmed(f, relay, pidfile, relay', pidfile')
  <2>1. ASSUME NEW q \in Relays, relay'[q].st # "dead"
        PROVE  /\ relay[q].st # "dead" /\ relay'[q].spec = relay[q].spec
               /\ pidfile'[relay[q].spec] \in {None, q}
               /\ pidfile[relay[q].spec] = q => pidfile'[relay[q].spec] = q
               /\ relay'[q].st = "running" => pidfile'[relay[q].spec] = q
               /\ relay'[q].st = "closing" /\ relay[q].st # "closing" =>
                     q \in {pidfile'[relay[q].spec], f[relay[q].spec].pid}
    <3>1. CASE q = r
          BY <1>4, <1>7, <2>1, <3>1 DEF s
    <3>2. CASE q # r
      <4>1. relay'[q] = relay[q] /\ relay[q].spec \in Udp \ {s}
            BY <1>2, <1>6, <1>7, <2>1, <3>2 DEF RelaysFit
      <4> QED BY <1>2, <1>7, <2>1, <4>1 DEF RelaysFit
    <3> QED BY <3>1, <3>2
  <2>2. \A t \in Udp, q \in Relays : pidfile'[t] = q => pidfile[t] = q \/ relay'[q].spec = t
        BY <1>7, Apart
  <2> QED BY <2>1, <2>2 DEF Calmed
<1>9. TypeOK'
      BY <1>1, <1>3, <1>7 DEF TypeOK, RelayTypes, Pidfiles
<1> QED BY <1>1, <1>3, <1>8, <1>9, Alone, Around DEF Hosts

(* The steps of a start or a stop that change neither records nor          *)
(* observers.                                                              *)
LEMMA OpTurn ==
    ASSUME IInv, op' \in OpStates, lease' \in Observers \cup {None},
           failures' \subseteq Specs, clean' \in BOOLEAN, lock' \in Observers \cup {Op, None},
           UNCHANGED <<published, file, obs, hosts>>, Locks', Stops',
           \A o \in Observers : lease' = o => lease = o \/ ~obs[o].known
    PROVE  IInv'
<1>1. TypeOK /\ Hosts
      BY DEF IInv
<1>2. TypeOK'
      BY <1>1 DEF TypeOK, hosts, masters, history, OpStates, Files
<1>3. \A f : Calmed(f, relay, pidfile, relay, pidfile)
      BY AllCalm
<1>4. Owned' = Owned /\ Counted' = Counted
      BY Alone DEF hosts, masters, history
<1> QED BY <1>1, <1>2, <1>3, <1>4, Elsewhere DEF hosts, masters, history, Hosts

LEMMA OpKnown ==
    ASSUME IInv
    PROVE  /\ op \in OpStates /\ NoOp \in OpStates /\ NoOp.pc = "idle" /\ ~NoOp.ok
           /\ lease \in Observers \cup {None} /\ failures \subseteq Specs
           /\ clean \in BOOLEAN /\ lock \in Observers \cup {Op, None}
           /\ Locks /\ Stops /\ (clean => op.pc = "idle")
<1>1. TypeOK /\ Locks /\ Stops
      BY DEF IInv
<1>2. NoRecords \in Files
      BY <1>1, Parts
<1>3. NoOp \in OpStates /\ NoOp.pc = "idle" /\ ~NoOp.ok
      BY <1>2 DEF NoOp, OpStates, OpPcs
<1>4. op \in OpStates /\ lease \in Observers \cup {None} /\ failures \subseteq Specs
      /\ clean \in BOOLEAN /\ lock \in Observers \cup {Op, None}
      BY <1>1 DEF TypeOK, OpStates, Files
<1> QED BY <1>1, <1>3, <1>4 DEF Stops

LEMMA OpGoes ==
    ASSUME IInv, NEW pc \in OpPcs, OpGoto(pc)
    PROVE  op' \in OpStates /\ op'.pc = pc /\ op'.ok = op.ok /\ op'.who = op.who
BY OpKnown DEF OpGoto, OpStates

LEMMA StartStep ==
    ASSUME IInv, BeginStart \/ StartClear \/ StartLease \/ BeginStop \/ StopRevoke \/ OpDies
    PROVE  IInv'
<1> USE DEF files, hosts, masters, history
<1>1. /\ op \in OpStates /\ NoOp \in OpStates /\ NoOp.pc = "idle" /\ ~NoOp.ok
      /\ lease \in Observers \cup {None} /\ failures \subseteq Specs
      /\ clean \in BOOLEAN /\ lock \in Observers \cup {Op, None}
      /\ Locks /\ Stops /\ (clean => op.pc = "idle")
      BY OpKnown
<1>2. Op # None /\ \A o \in Observers : o # None /\ o # Op
      BY Apart
<1>3. CASE BeginStart \/ BeginStop
  <2>1. PICK pc \in {"master", "revoke"} : OpGoto(pc) /\ pc \in OpPcs
        BY <1>3 DEF BeginStart, BeginStop, OpPcs
  <2>2. /\ op.pc = "idle" /\ clean' = FALSE
        /\ UNCHANGED <<published, file, failures, lease, lock, obs, hosts>>
        BY <1>3 DEF BeginStart, BeginStop, OpAt
  <2>3. op' \in OpStates /\ op'.pc = pc /\ op'.ok = op.ok
        BY <2>1, OpGoes
  <2>4. Locks' /\ Stops'
        BY <1>1, <2>1, <2>2, <2>3 DEF Locks, Stops
  <2> QED BY <1>1, <2>2, <2>3, <2>4, OpTurn
<1>4. CASE StartClear
  <2>1. op.pc = "clear" /\ UNCHANGED <<published, file, lock, obs, clean, hosts>>
        BY <1>4 DEF StartClear, OpAt
  <2>2. CASE failures' = {} /\ OpGoto("lease") /\ UNCHANGED lease
    <3>1. "lease" \in OpPcs
          BY DEF OpPcs
    <3>2. op' \in OpStates /\ op'.pc = "lease" /\ op'.ok = op.ok
          BY <2>2, <3>1, OpGoes
    <3>3. Locks' /\ Stops'
          BY <1>1, <2>1, <2>2, <3>2 DEF Locks, Stops
    <3> QED BY <1>1, <2>1, <2>2, <3>2, <3>3, OpTurn
  <2>3. CASE lease' = None /\ EndOp /\ UNCHANGED failures
    <3>1. Locks' /\ Stops'
          BY <1>1, <2>1, <2>3 DEF Locks, Stops, EndOp
    <3> QED BY <1>1, <1>2, <2>1, <2>3, <3>1, OpTurn DEF EndOp
  <2> QED BY <1>4, <2>2, <2>3 DEF StartClear
<1>5. CASE StartLease
  <2>1. op.pc = "lease" /\ UNCHANGED <<published, file, failures, lock, obs, clean, hosts>>
        BY <1>5 DEF StartLease, OpAt
  <2>2. ASSUME NEW o \in Observers, At(o, "off"), lease' = o,
               op' = [op EXCEPT !.pc = "spawn", !.who = o]
        PROVE  IInv'
    <3>1. op' \in OpStates /\ op'.pc = "spawn" /\ op'.who = o /\ op'.ok = op.ok
          BY <1>1, <2>2 DEF OpStates, OpPcs
    <3>2. obs[o].pc = "off" /\ ~obs[o].known
          BY <2>2, Known DEF At, Pass
    <3>3. Locks' /\ Stops'
          BY <1>1, <2>1, <2>2, <3>1, <3>2 DEF Locks, Stops
    <3> QED BY <1>1, <2>1, <2>2, <3>1, <3>2, <3>3, OpTurn
  <2>3. CASE lease' = None /\ EndOp
    <3>1. Locks' /\ Stops'
          BY <1>1, <2>1, <2>3 DEF Locks, Stops, EndOp
    <3> QED BY <1>1, <1>2, <2>1, <2>3, <3>1, OpTurn DEF EndOp
  <2> QED BY <1>5, <2>2, <2>3 DEF StartLease
<1>6. CASE StopRevoke
  <2>1. op.pc = "revoke" /\ UNCHANGED <<published, file, failures, lock, obs, clean, hosts>>
        BY <1>6 DEF StopRevoke, OpAt
  <2>2. CASE lease' = None /\ OpGoto("lock")
    <3>1. "lock" \in OpPcs
          BY DEF OpPcs
    <3>2. op' \in OpStates /\ op'.pc = "lock" /\ op'.ok = op.ok
          BY <2>2, <3>1, OpGoes
    <3>3. Locks' /\ Stops'
          BY <1>1, <2>1, <2>2, <3>2 DEF Locks, Stops
    <3> QED BY <1>1, <1>2, <2>1, <2>2, <3>2, <3>3, OpTurn
  <2>3. CASE EndOp /\ UNCHANGED lease
    <3>1. Locks' /\ Stops'
          BY <1>1, <2>1, <2>3 DEF Locks, Stops, EndOp
    <3> QED BY <1>1, <2>1, <2>3, <3>1, OpTurn DEF EndOp
  <2> QED BY <1>6, <2>2, <2>3 DEF StopRevoke
<1>7. CASE OpDies
  <2>1. /\ op.pc # "idle" /\ op' = NoOp /\ lock' = IF lock = Op THEN None ELSE lock
        /\ UNCHANGED <<published, file, failures, lease, obs, clean, hosts>>
        BY <1>7 DEF OpDies, OpAt, EndOp
  <2>2. Locks' /\ Stops'
        BY <1>1, <1>2, <2>1 DEF Locks, Stops
  <2>3. lock' \in Observers \cup {Op, None}
        BY <1>1, <2>1
  <2> QED BY <1>1, <2>1, <2>2, <2>3, OpTurn
<1> QED BY <1>3, <1>4, <1>5, <1>6, <1>7

LEMMA MasterStep ==
    ASSUME IInv, StartMaster \/ StopExit
    PROVE  IInv'
<1> USE DEF files, hosts, masters, history
<1>1. /\ op \in OpStates /\ NoOp \in OpStates /\ NoOp.pc = "idle" /\ ~NoOp.ok
      /\ lease \in Observers \cup {None} /\ failures \subseteq Specs
      /\ clean \in BOOLEAN /\ lock \in Observers \cup {Op, None}
      /\ Locks /\ Stops /\ (clean => op.pc = "idle")
      BY OpKnown
<1>2. TypeOK /\ Hosts
      BY DEF IInv
<1>3. \A f : Calmed(f, relay, pidfile, relay, pidfile)
      BY AllCalm
<1>4. CASE StartMaster
  <2>1. op.pc = "master" /\ UNCHANGED <<published, file, failures, lease, lock, obs, clean, relay, pidfile>>
        BY <1>4 DEF StartMaster, OpAt
  <2>2. op' \in OpStates /\ op'.pc \in {"clear", "idle"} /\ ~op'.ok
    <3>1. "clear" \in OpPcs
          BY DEF OpPcs
    <3>2. CASE OpGoto("clear")
          BY <1>1, <2>1, <3>1, <3>2, OpGoes DEF Stops
    <3>3. CASE EndOp
          BY <1>1, <3>3 DEF EndOp
    <3> QED BY <1>4, <3>2, <3>3 DEF StartMaster
  <2>3. /\ UNCHANGED <<stray, silent, undone>>
        /\ \/ UNCHANGED <<master, sock, held>>
           \/ /\ held' = {} /\ master' \in Masters /\ sock' \in Masters
              /\ \A o \in Observers : obs[o].control # master'
        BY <1>4 DEF StartMaster, FreshMaster
  <2>4. TypeOK'
        BY <1>2, <2>1, <2>2, <2>3 DEF TypeOK, OpStates, Files
  <2>5. Locks' /\ Stops'
    <3>1. op.pc # "clean" /\ op'.pc # "clean"
          BY <2>1, <2>2
    <3> QED BY <1>1, <2>1, <2>2, <3>1 DEF Locks, Stops
  <2>6. Owned' \subseteq Owned /\ held' \cap stray' = {}
        BY <1>2, <2>3 DEF Owned, Hosts
  <2>7. UNCHANGED held => Counted' = Counted
        BY <2>3 DEF Counted
  <2> QED BY <1>3, <2>1, <2>3, <2>4, <2>5, <2>6, <2>7, Elsewhere
<1>5. CASE StopExit
  <2>1. /\ op.pc = "exit" /\ op' = NoOp /\ master' = None /\ sock' = None /\ failures' = {}
        /\ clean' \in {op.ok, FALSE} /\ held' = {} /\ undone' = {}
        /\ stray' \in {stray, stray \cup held} /\ silent' = silent \cap stray'
        /\ UNCHANGED <<published, file, lease, lock, obs, relay, pidfile>>
        BY <1>5 DEF StopExit, OpAt, EndOp
  <2>2. clean' \in BOOLEAN /\ (clean' => op.ok)
        BY <1>1, <2>1 DEF OpStates
  <2>3. TypeOK'
        BY <1>1, <1>2, <2>1, <2>2 DEF TypeOK, OpStates, Files
  <2>4. Locks' /\ Stops'
        BY <1>1, <2>1, <2>2 DEF Locks, Stops
  <2>5. Owned' \subseteq Owned /\ held' \cap stray' = {}
        BY <2>1 DEF Owned
  <2> QED BY <1>3, <2>1, <2>3, <2>4, <2>5, Elsewhere
<1> QED BY <1>4, <1>5

LEMMA StartObserverStep ==
    ASSUME IInv, StartObserver
    PROVE  IInv'
<1> USE DEF files, hosts, masters, history
<1>1. /\ op \in OpStates /\ NoOp \in OpStates /\ NoOp.pc = "idle" /\ ~NoOp.ok
      /\ lease \in Observers \cup {None} /\ failures \subseteq Specs
      /\ clean \in BOOLEAN /\ lock \in Observers \cup {Op, None}
      /\ Locks /\ Stops /\ (clean => op.pc = "idle")
      BY OpKnown
<1>2. TypeOK /\ Hosts /\ Passes /\ Lists /\ Leases /\ Trust
      BY DEF IInv
<1>3. op.pc = "spawn" /\ op' = NoOp
      /\ UNCHANGED <<published, file, failures, lock, clean, hosts>>
      BY DEF StartObserver, OpAt, EndOp
<1>4. CASE lease' = None /\ UNCHANGED obs
  <2>1. Locks' /\ Stops'
        BY <1>1, <1>3, <1>4 DEF Locks, Stops
  <2> QED BY <1>1, <1>3, <1>4, <2>1, Apart, OpTurn
<1>5. CASE obs' = [obs EXCEPT ![op.who] = [NoObs EXCEPT !.pc = "lease"]] /\ UNCHANGED lease
  <2> DEFINE o == op.who
             c == [NoObs EXCEPT !.pc = "lease"]
  <2>1. o \in Observers /\ obs[o].pc = "off" /\ ~clean /\ ~op.ok
        BY <1>1, <1>3 DEF Stops
  <2>2. /\ obs \in [Observers -> ObsStates] /\ NoObs \in ObsStates
        /\ Range(<<>>) = {} /\ Cardinality({}) = 0 /\ 0 <= MaxRecords
        BY <1>2, Parts
  <2>3. /\ c \in ObsStates /\ c.pc = "lease" /\ ~c.known /\ c.fails = <<>>
        /\ c.specs = {} /\ c.forwarded = {}
        BY <2>2 DEF NoObs, ObsStates, ObsPcs
  <2> HIDE DEF c
  <2>4. /\ obs' \in [Observers -> ObsStates] /\ obs'[o] = c
        /\ \A p \in Observers \ {o} : obs'[p] = obs[p]
        BY <1>5, <2>1, <2>2, <2>3 DEF c
  <2> HIDE DEF o
  <2>5. TypeOK'
        BY <1>1, <1>2, <1>3, <1>5, <2>4 DEF TypeOK, hosts, masters, history, OpStates, ObsStates, Files
  <2>6. "off" \notin Critical /\ "lease" \notin Critical /\ "lease" \notin Inside
        BY DEF Critical, Inside, Loop, AtPcs
  <2>7. Locks'
        BY <1>1, <1>3, <2>1, <2>3, <2>4, <2>6 DEF Locks
  <2>8. Pass(c, file, Owned, relay, pidfile)
        BY <2>3 DEF Pass, AtHand, Loop, AtPcs
  <2>9. Passes'
        BY <1>2, <1>3, <2>4, <2>8, Alone DEF Passes, hosts, masters, history
  <2>10. Listed(c)
    <3>1. Range(c.fails) = {} /\ Len(c.fails) = Cardinality(Range(c.fails))
          BY <2>2, <2>3
    <3> QED BY <2>2, <2>3, <3>1 DEF Listed, Loop, AtPcs
  <2>11. Lists'
         BY <1>2, <2>4, <2>10 DEF Lists
  <2>12. Stops'
         BY <1>1, <1>3, <2>1 DEF Stops
  <2>13. Leases'
         BY <1>2, <1>5, <2>3, <2>4, <2>6 DEF Leases
  <2>14. Trust'
         BY <1>2, <1>3, <1>5, <2>3, <2>4, Alone DEF Trust, Trusting, hosts, masters, history
  <2>15. Hosts'
         BY <1>2, <1>3, Alone DEF Hosts, hosts, masters, history
  <2> QED BY <2>5, <2>7, <2>9, <2>11, <2>12, <2>13, <2>14, <2>15 DEF IInv
<1> QED BY <1>4, <1>5 DEF StartObserver

(* port_forward_cleanup, under the operation flock.                        *)
LEMMA CleanStep ==
    ASSUME IInv, StopLock \/ StopSave \/ (\E s \in Specs : StopEach(s))
    PROVE  IInv'
<1> USE DEF files, hosts, masters, history
<1>1. /\ op \in OpStates /\ NoOp \in OpStates /\ NoOp.pc = "idle" /\ ~NoOp.ok
      /\ lease \in Observers \cup {None} /\ failures \subseteq Specs
      /\ clean \in BOOLEAN /\ lock \in Observers \cup {Op, None}
      /\ Locks /\ Stops /\ (clean => op.pc = "idle")
      BY OpKnown
<1>2. TypeOK /\ Hosts /\ Passes /\ Lists
      BY DEF IInv
<1>3. obs \in [Observers -> ObsStates] /\ HostTypes /\ file \in Files
      BY <1>2, Parts
<1>4. Op # None /\ \A o \in Observers : o # None /\ o # Op
      BY Apart
(* No observer is under way, none trusts the records.                      *)
<1>c. ASSUME op.pc = "clean", TypeOK', Locks', Hosts', Stops', UNCHANGED <<obs, lease>>
      PROVE  IInv'
  <2>1. \A o \in Observers : obs[o].pc \notin Critical
        BY <1>1, <1>4, <1>c DEF Locks
  <2>2. lease = None
        BY <1>1, <1>c DEF Stops
  <2>3. Passes'
    <3> SUFFICES ASSUME NEW o \in Observers
                 PROVE  Pass(obs[o], file', Owned', relay', pidfile')
        BY <1>c DEF Passes
    <3>1. Pass(obs[o], file, Owned, relay, pidfile) /\ obs[o].pc \notin Critical
          BY <1>2, <2>1 DEF Passes
    <3> QED BY <3>1 DEF Pass, AtHand, Critical, Inside, Loop, AtPcs
  <2>4. Lists'
        BY <1>2, <1>c DEF Lists
  <2>5. Leases' /\ Trust'
        BY <1>4, <1>c, <2>1, <2>2 DEF Leases, Trust, Trusting, Critical
  <2> QED BY <1>c, <2>3, <2>4, <2>5 DEF IInv
<1>5. CASE StopLock
  <2>1. op.pc = "lock" /\ UNCHANGED <<published, file, failures, lease, obs, clean, hosts>>
        BY <1>5 DEF StopLock, OpAt
  <2>2. CASE OpGoto("exit") /\ UNCHANGED lock
    <3>1. "exit" \in OpPcs
          BY DEF OpPcs
    <3>2. op' \in OpStates /\ op'.pc = "exit" /\ op'.ok = op.ok
          BY <2>2, <3>1, OpGoes
    <3>3. Locks' /\ Stops'
          BY <1>1, <2>1, <2>2, <3>2 DEF Locks, Stops
    <3> QED BY <1>1, <2>1, <2>2, <3>2, <3>3, OpTurn
  <2>3. CASE /\ lock = None /\ lock' = Op
             /\ op' = [op EXCEPT !.pc = "clean", !.mem = file, !.todo = In(file), !.ok = TRUE]
    <3>1. /\ op' \in OpStates /\ op'.pc = "clean" /\ op'.mem = file /\ op'.todo = In(file)
          BY <1>1, <1>3, <2>3 DEF OpStates, OpPcs, In
    <3>2. Locks'
          BY <1>1, <1>4, <2>1, <2>3, <3>1 DEF Locks
    <3>3. Fit(op'.mem, Owned', relay', pidfile')
          BY <1>2, <2>1, <3>1, Alone DEF Hosts, hosts, masters, history
    <3>4. Stops'
          BY <1>1, <2>1, <3>1, <3>3 DEF Stops
    <3> QED BY <1>1, <2>1, <2>3, <3>1, <3>2, <3>4, OpTurn
  <2> QED BY <1>5, <2>2, <2>3 DEF StopLock
<1>6. ASSUME NEW s \in Specs, StopEach(s) PROVE IInv'
  <2>1. /\ op.pc = "clean" /\ s \in op.todo
        /\ UNCHANGED <<published, file, failures, lease, lock, obs, clean, master, sock, stray>>
        BY <1>6 DEF StopEach, OpAt
  <2>2. PICK ok \in BOOLEAN :
          /\ StopRecord(s, op.mem[s], ok)
          /\ op' = [op EXCEPT !.todo = @ \ {s}, !.ok = @ /\ ok,
                              !.mem[s] = IF ok THEN NoRecord ELSE @]
        BY <1>6 DEF StopEach
  <2>3. /\ op.mem \in Files /\ Fit(op.mem, Owned, relay, pidfile) /\ op.mem[s] = file[s]
        /\ op.mem[s] \in Records /\ op.todo \subseteq Specs
        BY <1>1, <2>1 DEF Stops, OpStates, Files
  <2> DEFINE m == [op.mem EXCEPT ![s] = IF ok THEN NoRecord ELSE op.mem[s]]
  <2>4. /\ HostTypes' /\ RelaysFit(relay', pidfile') /\ Fit(file, Owned', relay', pidfile')
        /\ held' \cap stray' = {}
        /\ Fit(m, Owned', relay', pidfile')
        BY <1>2, <1>3, <2>1, <2>2, <2>3, StopKeeps
  <2>5. m \in Files /\ \A t \in Specs \ {s} : m[t] = op.mem[t]
        BY <2>3 DEF Files, Records, NoRecord
  <2>6. ok => m[s].own = "none"
        BY <2>3 DEF Files, NoRecord
  <2>7. PICK k \in BOOLEAN : k = (op.ok /\ ok)
        BY Zenon
  <2>8. op' = [op EXCEPT !.todo = op.todo \ {s}, !.ok = k, !.mem = m]
        BY <2>2, <2>7
  <2> HIDE DEF m
  <2>9. /\ op' \in OpStates /\ op'.pc = "clean" /\ op'.todo = op.todo \ {s}
        /\ op'.ok = k /\ op'.mem = m
        BY <1>1, <2>1, <2>3, <2>5, <2>8 DEF OpStates
  <2>10. Hosts'
         BY <2>1, <2>4 DEF Hosts
  <2>11. Locks'
         BY <1>1, <2>1, <2>9 DEF Locks
  <2>12. k => In(m) \subseteq op.todo \ {s}
    <3>1. k => op.ok /\ ok
          BY <2>7
    <3>2. op.ok => In(op.mem) \subseteq op.todo
          BY <1>1, <2>1 DEF Stops
    <3> QED BY <2>5, <2>6, <3>1, <3>2 DEF In
  <2>13. Stops'
    <3>1. \A t \in op'.todo : op'.mem[t] = file[t]
          BY <1>1, <2>1, <2>3, <2>5, <2>9 DEF Stops
    <3>2. Fit(op'.mem, Owned', relay', pidfile') /\ (op'.ok => In(op'.mem) \subseteq op'.todo)
          BY <2>4, <2>9, <2>12
    <3>3. ~clean
          BY <1>1, <2>1
    <3> QED BY <1>1, <2>1, <2>9, <3>1, <3>2, <3>3 DEF Stops
  <2>14. TypeOK'
         BY <1>2, <2>1, <2>4, <2>9 DEF TypeOK, OpStates, Files, HostTypes, RelayTypes, Pidfiles
  <2> QED BY <1>c, <2>1, <2>10, <2>11, <2>13, <2>14
<1>7. CASE StopSave
  <2>1. /\ op.pc = "clean" /\ op.todo = {} /\ lock' = None
        /\ UNCHANGED <<published, failures, lease, obs, clean, hosts>>
        BY <1>7 DEF StopSave, OpAt, Unlock
  <2>2. /\ op' \in OpStates /\ op'.pc = "exit"
        /\ \/ file' = op.mem /\ op'.ok = op.ok
           \/ file' \in {file, op.mem} /\ ~op'.ok
    <3>1. "exit" \in OpPcs
          BY DEF OpPcs
    <3>2. CASE file' = op.mem /\ OpGoto("exit")
          BY <3>1, <3>2, OpGoes
    <3>3. CASE op' = [op EXCEPT !.pc = "exit", !.ok = FALSE] /\ MayWrite(op.mem)
          BY <1>1, <3>1, <3>3 DEF OpStates, MayWrite
    <3> QED BY <1>7, <3>2, <3>3 DEF StopSave
  <2>3. /\ Fit(op.mem, Owned, relay, pidfile) /\ (op.ok => In(op.mem) = {})
        /\ op.mem \in Files
        BY <1>1, <2>1 DEF Stops, OpStates
  <2>4. Hosts' /\ file' \in Files
        BY <1>2, <1>3, <2>1, <2>2, <2>3, Alone DEF Hosts, hosts, masters, history
  <2>5. \A o \in Observers : obs[o].pc \notin Critical
        BY <1>1, <1>4, <2>1 DEF Locks
  <2>6. Locks'
        BY <1>4, <2>1, <2>2, <2>5 DEF Locks
  <2>7. Stops'
    <3>1. ~clean /\ lease = None
          BY <1>1, <2>1 DEF Stops
    <3>2. op'.ok => In(file') = {}
          BY <2>2, <2>3
    <3>3. \A o \in Observers : obs[o].pc \notin Inside
          BY <2>5 DEF Critical
    <3> QED BY <2>1, <2>2, <3>1, <3>2, <3>3 DEF Stops
  <2>8. TypeOK'
        BY <1>2, <2>1, <2>2, <2>4 DEF TypeOK, OpStates, Files, hosts, masters, history
  <2> QED BY <1>c, <2>1, <2>4, <2>6, <2>7, <2>8
<1> QED BY <1>5, <1>6, <1>7

-----------------------------------------------------------------------------
(* The invariant.                                                          *)
LEMMA InitInvariant == Init => IInv
<1> SUFFICES ASSUME Init PROVE IInv
    OBVIOUS
<1>1. /\ NoRecord \in Records /\ NoRecords \in Files
      /\ \A s \in Specs : NoRecords[s] = NoRecord
      BY DEF NoRecord, Records, NoRecords, Files
<1>2. In(NoRecords) = {} /\ {} \in Snapshots
      BY DEF In, NoRecords, NoRecord, Snapshots
<1>3. NoObs \in ObsStates /\ NoOp \in OpStates
      BY <1>1, <1>2 DEF NoObs, NoOp, ObsStates, OpStates, ObsPcs, OpPcs
<1>4. /\ NoObs.pc = "off" /\ ~NoObs.known /\ NoObs.fails = <<>> /\ NoObs.specs = {}
      /\ NoObs.forwarded = {} /\ NoOp.pc = "idle" /\ ~NoOp.ok
      BY DEF NoObs, NoOp
<1>5. \A o \in Observers : obs[o] = NoObs
      BY DEF Init
<1>6. relay \in RelayTypes /\ pidfile \in Pidfiles /\ \A r \in Relays : relay[r].st = "dead"
      BY DEF Init, RelayTypes, Pidfiles, NoRelay, RelayStates
<1>7. TypeOK
  <2>1. obs \in [Observers -> ObsStates]
        BY <1>3 DEF Init
  <2> QED BY <1>1, <1>2, <1>3, <1>6, <2>1
          DEF Init, TypeOK, ObsStates, OpStates, Files, RelayTypes, Pidfiles
<1>8. "off" \notin Critical /\ "off" \notin Inside /\ "off" \notin Loop
      BY DEF Critical, Inside, Loop, AtPcs
<1>9. Locks
      BY <1>4, <1>5, <1>8, Apart DEF Init, Locks
<1>10. Hosts
  <2>1. \A s \in Specs, r \in Relays : file[s].pid # r
        BY <1>1, Apart DEF Init, NoRecord
  <2>2. \A s \in Udp, r \in Relays : pidfile[s] # r
        BY Apart DEF Init
  <2>3. Owned = {} /\ held \cap stray = {}
        BY DEF Init, Owned
  <2> QED BY <1>6, <2>1, <2>2, <2>3 DEF Init, Hosts, Fit, RelaysFit
<1>11. Passes
       BY <1>4, <1>5, <1>8 DEF Passes, Pass, AtHand, Loop, AtPcs
<1>12. Listed(NoObs)
  <2>1. Range(<<>>) = {} /\ Len(<<>>) = 0 /\ Cardinality({}) = 0 /\ 0 <= MaxRecords
        BY <1>7, Parts
  <2> QED BY <1>4, <1>8, <2>1 DEF Listed, Loop, AtPcs
<1>13. Lists
       BY <1>5, <1>12 DEF Lists
<1>14. Stops
       BY <1>2, <1>4, <1>5, <1>8 DEF Init, Stops
<1>15. Leases /\ Trust
       BY <1>4, <1>5 DEF Leases, Trust, Trusting
<1> QED BY <1>7, <1>9, <1>10, <1>11, <1>13, <1>14, <1>15 DEF IInv

LEMMA StepInvariant == IInv /\ [Next]_vars => IInv'
<1> SUFFICES ASSUME IInv, [Next]_vars PROVE IInv'
    OBVIOUS
<1>1. CASE Next
  <2>1. CASE OpStep
        BY <2>1, StartStep, MasterStep, StartObserverStep, CleanStep DEF OpStep
  <2> QED BY <1>1, <2>1, ObserverInvariant, DockerStep, RelaySteps DEF Next
<1>2. CASE UNCHANGED vars
  <2>1. UNCHANGED <<published, file, failures, lease, lock, obs, op, clean,
                    master, sock, stray, held, silent, undone, relay, pidfile>>
        BY <1>2 DEF vars, files, hosts, masters, history
  <2>2. TypeOK'
        BY <2>1 DEF IInv, TypeOK
  <2>3. \A f : Calmed(f, relay, pidfile, relay, pidfile)
        BY AllCalm
  <2> QED BY <2>1, <2>2, <2>3, Alone, Around DEF IInv, Hosts
<1> QED BY <1>1, <1>2

(* The invariant of passes, starts and stops, whatever dies or fails       *)
(* (ports.c, docker_observer.c, lifecycle.c).                              *)
THEOREM Invariant == Spec => []IInv
BY InitInvariant, StepInvariant, PTL DEF Spec

(* Records, failures, passes and relays keep their types (ports.c).        *)
THEOREM TypeCorrect == Spec => []TypeOK
<1>1. IInv => TypeOK
      BY DEF IInv
<1> QED BY <1>1, Invariant, PTL

(* Whatever dies or fails at whatever step, each listener that Hamn made,  *)
(* the forwards of its masters and the relays that live, has a record in   *)
(* the state file, unless stop_record dropped it because neither the       *)
(* cancel nor the check was answered (ports.c:789).                        *)
THEOREM OrphansOnlyBySilence == Spec => []OrphanOnlyBySilence
<1>1. ASSUME IInv PROVE OrphanOnlyBySilence
  <2>1. Fit(file, Owned, relay, pidfile)
        BY <1>1 DEF IInv, Hosts
  <2> QED BY <2>1 DEF OrphanOnlyBySilence, Listeners, Owned, Fit, Lives
<1>2. IInv => OrphanOnlyBySilence
      BY <1>1
<1> QED BY <1>2, Invariant, PTL

(* A stop that reported success leaves no record, no failure and no relay  *)
(* until the next start, and no listener but those whose record was        *)
(* dropped on silence: no observer that was under way brings one back      *)
(* (lifecycle.c:841-876).                                                  *)
THEOREM CleanStopAlwaysReleases == Spec => []CleanStopReleases
<1>1. ASSUME IInv, clean
      PROVE  /\ In(file) = {} /\ failures = {} /\ Listeners \subseteq silent
             /\ \A r \in Relays : ~Lives(r)
  <2>1. Fit(file, Owned, relay, pidfile) /\ In(file) = {} /\ failures = {}
        BY <1>1 DEF IInv, Hosts, Stops
  <2> QED BY <2>1 DEF Fit, Lives, Listeners, Owned
<1>2. IInv => CleanStopReleases
      BY <1>1 DEF CleanStopReleases
<1> QED BY <1>2, Invariant, PTL

(* No relay is started for a port whose relay still lives, the one that is *)
(* only about to unlink its pidfile included (udp_proxy.c, start_udp).     *)
THEOREM AlwaysOneRelayPerPort == Spec => []OneRelayPerPort
<1>1. ASSUME IInv PROVE OneRelayPerPort
      BY <1>1 DEF IInv, Hosts, RelaysFit, OneRelayPerPort, Lives
<1>2. IInv => OneRelayPerPort
      BY <1>1
<1> QED BY <1>2, Invariant, PTL

(* The array of failures is never indexed past its end, for any number of  *)
(* published ports and any limit (ports.c, MAX_FORWARD_RECORDS).           *)
THEOREM FailuresAlwaysFit == Spec => []FailuresFit
<1>1. ASSUME IInv, NEW o \in Observers
      PROVE  /\ Len(obs[o].fails) <= MaxRecords
             /\ obs[o].pc \in AtPcs => Len(obs[o].fails) < MaxRecords
  <2> DEFINE b == obs[o]
             R == Range(b.fails)
  <2>1. b \in ObsStates /\ Listed(b) /\ Pass(b, file, Owned, relay, pidfile)
        BY <1>1, Known
  <2>2. /\ b.specs \subseteq Specs /\ R \subseteq b.specs /\ Len(b.fails) = Cardinality(R)
        /\ Cardinality(b.specs) <= MaxRecords
        BY <2>1 DEF ObsStates, Snapshots, Listed
  <2>3. IsFiniteSet(b.specs) /\ IsFiniteSet(R) /\ Cardinality(R) <= Cardinality(b.specs)
        BY <2>2, SpecsAssumption, FS_Subset
  <2>4. Cardinality(R) \in Nat /\ Cardinality(b.specs) \in Nat /\ MaxRecords \in Nat
        BY <2>3, FS_CardinalityType, PortConstants
  <2>5. CASE b.pc \in AtPcs
    <3>1. b.at \in b.specs /\ b.at \notin R
          BY <2>1, <2>5 DEF Pass, Listed
    <3>2. Cardinality(R \cup {b.at}) = Cardinality(R) + 1
          BY <2>3, <3>1, FS_AddElement
    <3>3. Cardinality(R \cup {b.at}) <= Cardinality(b.specs)
          BY <2>2, <2>3, <3>1, FS_Subset
    <3> HIDE DEF R
    <3> QED BY <2>2, <2>4, <3>2, <3>3
  <2>6. CASE b.pc \notin AtPcs
    <3> HIDE DEF R
    <3> QED BY <2>2, <2>3, <2>4, <2>6
  <2> QED BY <2>5, <2>6
<1>2. ASSUME IInv PROVE FailuresFit
  <2>1. {"reserve", "phase", "request", "refused", "spawn", "started"} \subseteq AtPcs
        BY DEF AtPcs
  <2> QED BY <1>1, <1>2, <2>1 DEF FailuresFit
<1>3. IInv => FailuresFit
      BY <1>2
<1> QED BY <1>3, Invariant, PTL

(* A pass that takes the records' word for what the present master holds   *)
(* is right about each forward, unless its cancel went unrecorded, whatever *)
(* fails (docker_observer.c:653-671).                                      *)
THEOREM TrustAlwaysEarned == Spec => []TrustIsEarned
<1>1. ASSUME IInv PROVE TrustIsEarned
  <2> SUFFICES ASSUME NEW o \in Observers, obs[o].pc = "load", obs[o].control = master,
                      master # None
               PROVE  \A s \in Tcp : file[s].own = "committed" => s \in Counted
      BY DEF TrustIsEarned, At, Counted
  <2>1. obs[o].pc \in Inside /\ obs[o].known
        BY <1>1, Known DEF Inside, Pass
  <2>2. Earned(obs[o], file, Counted)
        BY <1>1, <2>1 DEF IInv, Trust, Trusting
  <2> QED BY <2>2 DEF Earned
<1>2. IInv => TrustIsEarned
      BY <1>1
<1> QED BY <1>2, Invariant, PTL

(* A published TCP port that a pass does not list is a forward its master  *)
(* holds, if that master still lives, or one that an earlier pass cancelled *)
(* without getting that into the records (ports.h:60, ports.c:1484-1492).  *)
THEOREM UnlistedOnlyEverUndone == Spec => []UnlistedOnlyIfUndone
<1>1. ASSUME IInv PROVE UnlistedOnlyIfUndone
  <2> SUFFICES ASSUME NEW o \in Observers, obs[o].pc = "published",
                      obs[o].control = master, master # None,
                      NEW s \in obs[o].specs \ Range(obs[o].fails), s \in Tcp
               PROVE  s \in Counted
      BY DEF UnlistedOnlyIfUndone, At, Counted
  <2>1. obs[o].pc \in Inside /\ obs[o].pc \in Loop /\ obs[o].pc \notin AtPcs
        BY DEF Inside, Loop, AtPcs
  <2>2. obs[o].known /\ obs[o].todo = {}
        BY <1>1, <2>1, Known DEF Pass
  <2>3. Earned(obs[o], file, Counted)
        BY <1>1, <2>1, <2>2 DEF IInv, Trust, Trusting
  <2> QED BY <2>1, <2>2, <2>3 DEF Earned
<1>2. IInv => UnlistedOnlyIfUndone
      BY <1>1
<1> QED BY <1>2, Invariant, PTL
=============================================================================
