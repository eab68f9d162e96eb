--------------------------- MODULE ConsoleProofs ---------------------------
(***************************************************************************)
(* Proofs about the console, for any identities, lists, users and numbers  *)
(* of changes, sessions and lookups.                                       *)
(***************************************************************************)
EXTENDS Console, FiniteSetTheorems, WellFoundedInduction, TLAPS

Details   == SomeTarget \cup {"text"}
DataSet   == [of : ReadSet, rows : Seq(Ids)]
Snapshots == [view : ReadSet, target : SomeTarget, data : DataSet, sel : Nat,
              hidden : SUBSET Ids, detail : Details, stale : BOOLEAN]
States    == [view : ReadSet, target : SomeTarget, data : DataSet, sel : Nat,
              hidden : SUBSET Ids, stale : BOOLEAN, loading : BOOLEAN,
              refreshing : BOOLEAN, detail : Details, back : Snapshots,
              browser : Snapshots, pending : SomeTarget, native : SomeTarget,
              input : {None, "/", ":", "F"}, forward : SomeTarget, quit : BOOLEAN,
              uncertain : SUBSET (1..MaxChanges)]
Jobs      == [of : ReadSet, reload : WS \cup {None}, answer : ReadSet]

(* The rows that are kept are those of the view, or the view is a list of  *)
(* the CLI, which does not act on rows that another list left.  The        *)
(* contexts may hold the rows of a read that was left running.             *)
ReadFor(r, v) == r = v \/ v.kind = "contexts"
Matches(v, d) == \/ d = NoData
                 \/ ReadFor(d.of, v)
                 \/ v.kind \in {"list", "other"} /\ d.of.kind \notin {"list", "other"}
Fine(s) == /\ Matches(s.view, s.data) /\ Matches(s.back.view, s.back.data)
           /\ Matches(s.browser.view, s.browser.data)

(* A read is one of the view on the screen or of a detail; while the       *)
(* configuration is read again, there are no rows and there is no read.    *)
ReadFits(r, v) == r = NoRead \/ r.kind = "detail" \/ ReadFor(r, v)
JobFits(j, s) ==
    /\ ReadFits(j.of, s.view) /\ ReadFits(j.answer, s.view)
    /\ j.reload # None => j.of = NoRead /\ j.answer = NoRead /\ s.data = NoData

Views == /\ shown \in WS /\ st \in [WS -> States] /\ job \in Jobs
         /\ \A w \in WS : Fine(st[w])
         /\ JobFits(job, st[shown])

(* The unknown outcomes are those that the two workspaces keep.            *)
Changes ==
    /\ changes \in 0..MaxChanges /\ cancelled \in BOOLEAN
    /\ change = NoChange \/ change \in [no : 1..changes, ws : WS]
    /\ unknown \subseteq 1..changes
    /\ unknown = st["C"].uncertain \cup st["K"].uncertain

SessionSet == [ws : WS, reset : BOOLEAN, exit : BOOLEAN]
Overlays == [menu : [kind : {None, "actions", "logs", "targets"}, row : SomeTarget],
             choosing : {None, "first", "settings"} \cup hand.choosing, sessions : BOOLEAN]
Ui == /\ sessions \in Seq(SessionSet) /\ Len(sessions) <= MaxSessions
      /\ cli \in SessionSet \cup {NoSession}
      /\ cli # NoSession => Len(sessions) < MaxSessions
      /\ overlay \in Overlays /\ hand \in Hands /\ keys \in Nat

Ends == /\ phase \in {"run", "drain", "gone", "panic"} /\ exiting \in BOOLEAN
        /\ told \subseteq unknown
        /\ phase = "gone" => change = NoChange /\ unknown \subseteq told

(* Kinds are offered for the target they are of; so are the answers that   *)
(* the lookup under way, and no earlier one, may give.                     *)
Words(t) == {"-", t}
Names == SomeTarget \cup {"-"}
KindSet == [target : Names, running : Nat, words : Names, failed : BOOLEAN, known : BOOLEAN,
            task : [ticket : Nat, of : Names], tickets : Nat,
            answers : SUBSET [ticket : Nat, words : Names, failed : BOOLEAN]]
Lookup(k) ==
    /\ k \in KindSet /\ k.words \in Words(k.target)
    /\ k.task # NoLookup => /\ k.task = [ticket |-> k.running, of |-> k.target]
                            /\ k.running \in 1..k.tickets
                            /\ \A a \in k.answers : a.ticket # k.running
    /\ \A a \in k.answers : /\ a.ticket \in 1..k.tickets
                            /\ a.ticket = k.running => a.words \in Words(k.target)
Lookups == Lookup(kinds)

IInv == Views /\ Changes /\ Ui /\ Ends /\ Lookups

-----------------------------------------------------------------------------
(* Rows that are left out *)

(* A set of natural numbers has a least one: what induction rests on here. *)
LEMMA Least ==
    ASSUME NEW T, T \subseteq Nat, T # {}
    PROVE  \E n \in T : \A m \in T : n <= m
<1> DEFINE R == OpToRel(<, Nat)
<1>1. \E x \in T : \A y \in T : ~ (<<y, x>> \in R)
  <2>1. IsWellFoundedOn(R, Nat)
    BY NatLessThanWellFounded
  <2> HIDE DEF R
  <2> QED BY <2>1, WFMin
<1>2. PICK x \in T : \A y \in T : ~ (<<y, x>> \in R)
  BY <1>1
<1>3. \A y \in T : ~(y < x)
  BY <1>2 DEF OpToRel
<1> QED BY <1>3

(* What is left of a list are rows of it, and nothing is left of none.     *)
LEMMA WithoutRows ==
    ASSUME NEW rows \in Seq(Ids), NEW ids
    PROVE  /\ Without(rows, ids) \in Seq(Ids)
           /\ rows = <<>> => Without(rows, ids) = <<>>
<1> DEFINE N == Len(rows)
           Body(f, n) == IF n = 0 THEN <<>>
                         ELSE IF rows[n] \in ids THEN f[n - 1]
                         ELSE Append(f[n - 1], rows[n])
           Kept(f, k) == f \in [0..k -> Seq(Ids)] /\ \A n \in 0..k : f[n] = Body(f, n)
           T == {k \in 0..N : ~ \E f : Kept(f, k)}
<1>1. N \in Nat /\ \A n \in 1..N : rows[n] \in Ids
  OBVIOUS
<1>2. T = {}
  <2> SUFFICES ASSUME T # {} PROVE FALSE
    OBVIOUS
  <2>1. PICK m \in T : \A k \in T : m <= k
    <3>1. T \subseteq Nat
      BY <1>1
    <3> QED BY <3>1, Least
  <2>2. m # 0
    <3> DEFINE z == [n \in 0..0 |-> <<>>]
    <3>1. Kept(z, 0)
      OBVIOUS
    <3> QED BY <3>1
  <2>3. m - 1 \in 0..N /\ m - 1 \notin T
    <3>1. T \subseteq 0..N
      OBVIOUS
    <3> HIDE DEF T
    <3> QED BY <1>1, <2>1, <2>2, <3>1
  <2>4. PICK f : Kept(f, m - 1)
    BY <2>3
  <2> DEFINE g == [n \in 0..m |-> IF n = m THEN Body(f, m) ELSE f[n]]
  <2>5. g \in [0..m -> Seq(Ids)]
    <3>1. Body(f, m) \in Seq(Ids)
      BY <1>1, <2>1, <2>2, <2>4
    <3> QED BY <3>1, <2>4, <1>1, <2>1
  <2>6. ASSUME NEW n \in 0..m PROVE g[n] = Body(g, n)
    <3>1. m \in 1..N /\ n - 1 # m
      BY <1>1, <2>1, <2>2
    <3>2. n # 0 => n - 1 \in 0..m /\ g[n - 1] = f[n - 1]
      BY <3>1
    <3>3. n # m => n \in 0..(m - 1)
      BY <3>1
    <3>4. n # m => f[n] = Body(f, n)
      <4> HIDE DEF Body, g
      <4> QED BY <2>4, <3>3
    <3>5. g[n] = Body(f, n)
      <4> HIDE DEF Body
      <4> QED BY <3>4
    <3> QED BY <3>2, <3>5
  <2>7. Kept(g, m)
    BY <2>5, <2>6
  <2> QED BY <2>7, <2>1
<1>3. PICK f : Kept(f, N)
  BY <1>1, <1>2
<1>4. f = [n \in 0..N |-> Body(f, n)]
  BY <1>3
<1> DEFINE kept == CHOOSE g : g = [n \in 0..N |-> Body(g, n)]
<1>5. kept = [n \in 0..N |-> Body(kept, n)]
  BY <1>4
<1>6. Without(rows, ids) = kept[N]
  BY DEF Without
<1> HIDE DEF kept
<1>7. \A n \in 0..N : kept[n] = Body(kept, n)
  BY <1>5
<1> DEFINE U == {k \in 0..N : kept[k] \notin Seq(Ids)}
<1>8. U = {}
  <2> SUFFICES ASSUME U # {} PROVE FALSE
    OBVIOUS
  <2>1. PICK m \in U : \A k \in U : m <= k
    <3>1. U \subseteq Nat
      BY <1>1
    <3> QED BY <3>1, Least
  <2>2. m \in 0..N /\ kept[m] \notin Seq(Ids) /\ kept[m] = Body(kept, m)
    BY <1>7, <2>1
  <2>3. m # 0
    BY <2>2
  <2>4. m - 1 \in 0..N /\ m - 1 \notin U
    <3>1. U \subseteq 0..N
      OBVIOUS
    <3> HIDE DEF U
    <3> QED BY <1>1, <2>1, <2>2, <2>3, <3>1
  <2>5. kept[m - 1] \in Seq(Ids) /\ rows[m] \in Ids
    BY <1>1, <2>2, <2>3, <2>4
  <2> QED BY <2>2, <2>3, <2>5
<1>9. rows = <<>> => kept[N] = <<>>
  BY <1>7
<1> QED BY <1>1, <1>6, <1>8, <1>9

-----------------------------------------------------------------------------
(* Methods of a state *)

LEMMA SelectedRow ==
    ASSUME NEW s \in States
    PROVE  /\ Rows(s) \in Seq(Ids) /\ Selected(s) \in SomeTarget
           /\ Selected(s) # None => s.data # NoData
<1>1. s.data.rows \in Seq(Ids)
  BY DEF States, DataSet
<1>2. Rows(s) \in Seq(Ids) /\ (s.data.rows = <<>> => Rows(s) = <<>>)
  BY <1>1, WithoutRows DEF Rows
<1>3. Selected(s) \in SomeTarget
  BY <1>2 DEF Selected, SomeTarget
<1>4. Selected(s) # None => s.data.rows # <<>>
  BY <1>2 DEF Selected
<1> QED BY <1>2, <1>3, <1>4 DEF NoData

(* A row that is looked for is found or none is selected.                  *)
LEMMA FoundRow ==
    ASSUME NEW s \in States, NEW id
    PROVE  /\ FindIdentity(s, id) \in Nat
           /\ FindIdentity(s, id) \in 1..Len(Rows(s)) => Rows(s)[FindIdentity(s, id)] = id
<1> DEFINE at == {i \in 1..Len(Rows(s)) : Rows(s)[i] = id}
<1>1. Cardinality(at) = 1 => at # {}
  BY FS_EmptySet
<1>2. Len(Rows(s)) \in Nat
  BY SelectedRow
<1>3. FindIdentity(s, id) = IF Cardinality(at) = 1 THEN CHOOSE i \in at : TRUE ELSE 0
  BY DEF FindIdentity
<1>4. Cardinality(at) = 1 => FindIdentity(s, id) \in at
  BY <1>1, <1>3
<1> QED BY <1>2, <1>3, <1>4

(* What a state owes its callers: rows that match, and its outcomes.       *)
Kept(s, t) == t \in States /\ Fine(t) /\ t.uncertain = s.uncertain
Still(s, t) == Kept(s, t) /\ t.view = s.view /\ t.data = s.data

LEMMA ViewTypes ==
    ASSUME NEW kind \in {"list", "other", "typed", "vms", "pick", "contexts", "namespaces",
                        "detail"},
           NEW t \in SomeTarget
    PROVE  ViewOf(kind, t) \in ReadSet /\ ViewOf(kind, t).kind = kind
BY DEF ViewOf, ReadSet, SomeTarget

LEMMA NoneTypes ==
    /\ NoRead \in ReadSet /\ NoData \in DataSet /\ NoSnapshot \in Snapshots
    /\ None \in SomeTarget /\ Ids \subseteq SomeTarget
    /\ SomeTarget \subseteq Details /\ "text" \in Details
BY DEF NoRead, ReadSet, SomeTarget, NoData, DataSet, NoSnapshot, Snapshots, Details

LEMMA SnapshotTypes ==
    ASSUME NEW s \in States, Fine(s)
    PROVE  /\ Snapshot(s) \in Snapshots
           /\ Matches(Snapshot(s).view, Snapshot(s).data)
BY DEF States, Snapshot, Snapshots, Fine

LEMMA RestoreKeeps ==
    ASSUME NEW s \in States, Fine(s), NEW b \in Snapshots, Matches(b.view, b.data)
    PROVE  Kept(s, Restore(s, b))
BY DEF States, Snapshots, Restore, Kept, Fine

LEMMA OpenPickerKeeps ==
    ASSUME NEW s \in States, Fine(s), NEW kind \in {"pick", "contexts", "namespaces"}
    PROVE  /\ Kept(s, OpenPicker(s, kind))
           /\ OpenPicker(s, kind).data = NoData /\ OpenPicker(s, kind).view.kind = kind
<1>1. ViewOf(kind, s.target) \in ReadSet /\ ViewOf(kind, s.target).kind = kind
  BY ViewTypes DEF States
<1>2. Snapshot(s) \in Snapshots /\ Matches(Snapshot(s).view, Snapshot(s).data)
  BY SnapshotTypes
<1> DEFINE b == IF s.back = NoSnapshot THEN Snapshot(s) ELSE s.back
<1>3. b \in Snapshots /\ Matches(b.view, b.data)
  BY <1>2 DEF States, Fine
<1> DEFINE t == [s EXCEPT !.back = b, !.view = ViewOf(kind, s.target), !.detail = None,
                     !.data = NoData, !.sel = 1, !.hidden = {}, !.stale = TRUE]
<1>4. OpenPicker(s, kind) = t
  BY DEF OpenPicker
<1> HIDE DEF b
<1>5. t \in States
  BY <1>1, <1>3, NoneTypes DEF States
<1>6. Fine(t)
  BY <1>3 DEF States, Fine, Matches
<1>7. t.uncertain = s.uncertain /\ t.data = NoData /\ t.view = ViewOf(kind, s.target)
  BY DEF States
<1> HIDE DEF t
<1> QED BY <1>1, <1>4, <1>5, <1>6, <1>7 DEF Kept

LEMMA InvalidateKeeps ==
    ASSUME NEW s \in States, Fine(s)
    PROVE  Kept(s, InvalidateResults(s)) /\ InvalidateResults(s).data = NoData
<1> DEFINE i == IF s.forward # None THEN None ELSE s.input
<1>1. i \in {None, "/", ":", "F"}
  BY DEF States
<1> DEFINE t == [s EXCEPT !.browser = NoSnapshot, !.back = NoSnapshot,
              !.data = NoData, !.stale = TRUE, !.sel = 1, !.hidden = {}, !.detail = None,
              !.native = None, !.forward = None, !.input = i]
<1>2. InvalidateResults(s) = t
  BY DEF InvalidateResults
<1> HIDE DEF i
<1>3. t \in States
  BY <1>1, NoneTypes DEF States
<1>4. t.data = NoData /\ t.back = NoSnapshot /\ t.browser = NoSnapshot
      /\ t.uncertain = s.uncertain
  BY DEF States
<1> HIDE DEF t
<1> QED BY <1>2, <1>3, <1>4 DEF Kept, Fine, Matches, NoSnapshot

LEMMA StillKeeps ==
    ASSUME NEW s \in States, Fine(s), NEW t \in States, t.view = s.view, t.data = s.data,
           t.back = s.back, t.browser = s.browser, t.uncertain = s.uncertain
    PROVE  Still(s, t)
BY DEF Still, Kept, Fine

LEMMA ReturnKeeps ==
    ASSUME NEW s \in States, Fine(s), s.view.kind \in {"vms", "pick"}
    PROVE  Kept(s, ReturnToBrowser(s))
<1>1. CASE s.browser # NoSnapshot /\ s.browser.target = s.target
  <2> DEFINE u == [s EXCEPT !.browser = NoSnapshot]
  <2>1. u \in States
    BY NoneTypes DEF States
  <2>2. Fine(u) /\ u.uncertain = s.uncertain
    BY DEF States, Fine, Matches, NoSnapshot
  <2>3. s.browser \in Snapshots /\ Matches(s.browser.view, s.browser.data)
    BY DEF States, Fine
  <2>4. ReturnToBrowser(s) = Restore(u, s.browser)
    BY <1>1 DEF ReturnToBrowser
  <2> HIDE DEF u
  <2> QED BY <2>1, <2>2, <2>3, <2>4, RestoreKeeps DEF Kept
<1>2. CASE ~(s.browser # NoSnapshot /\ s.browser.target = s.target)
  <2> DEFINE v == Parse(s, "list")
             t == [s EXCEPT !.browser = NoSnapshot, !.view = v, !.detail = None,
                            !.sel = 1, !.hidden = {}]
  <2>1. v \in ReadSet /\ v.kind = "list"
    BY ViewTypes DEF Parse, States
  <2>2. ReturnToBrowser(s) = t
    BY <1>2 DEF ReturnToBrowser
  <2> HIDE DEF v
  <2>3. t \in States
    BY <2>1, NoneTypes DEF States
  <2>4. t.view = v /\ t.data = s.data /\ t.back = s.back /\ t.browser = NoSnapshot
        /\ t.uncertain = s.uncertain
    BY DEF States
  <2> HIDE DEF t
  <2>5. Matches(v, s.data)
    BY <2>1 DEF Fine, Matches, ReadFor, NoData, NoRead
  <2> QED BY <2>2, <2>3, <2>4, <2>5 DEF Kept, Fine, Matches, NoSnapshot
<1> QED BY <1>1, <1>2

LEMMA ShowViewKeeps ==
    ASSUME NEW s \in States, Fine(s), 
           NEW kind \in {"list", "other", "typed", "vms", "pick", "contexts", "namespaces"}
    PROVE  Kept(s, ShowView(s, kind))
<1> DEFINE v == ViewOf(kind, s.target)
           t == [s EXCEPT !.view = v, !.data = NoData, !.stale = FALSE,
                          !.sel = 1, !.hidden = {}, !.detail = None]
<1>1. v \in ReadSet
  BY ViewTypes DEF States
<1>2. ShowView(s, kind) = t
  BY DEF ShowView
<1> HIDE DEF v
<1>3. t \in States
  BY <1>1, NoneTypes DEF States
<1>4. t.data = NoData /\ t.back = s.back /\ t.browser = s.browser /\ t.uncertain = s.uncertain
  BY DEF States
<1> HIDE DEF t
<1> QED BY <1>2, <1>3, <1>4 DEF Kept, Fine, Matches

LEMMA TypedChangeKeeps ==
    ASSUME NEW s \in States, Fine(s), NEW row \in Ids
    PROVE  Still(s, TypedChange(s, row))
<1> DEFINE t == [s EXCEPT !.sel = 1, !.hidden = {}, !.detail = None, !.pending = row]
<1>1. t \in States
  BY NoneTypes DEF States
<1>2. Still(s, t)
  <2>1. t.view = s.view /\ t.data = s.data /\ t.back = s.back /\ t.browser = s.browser
        /\ t.uncertain = s.uncertain
    BY DEF States
  <2> HIDE DEF t
  <2> QED BY <1>1, <2>1, StillKeeps
<1> QED BY <1>2 DEF TypedChange

LEMMA SelKeeps ==
    ASSUME NEW s \in States, Fine(s), NEW n \in Nat, NEW hidden \in SUBSET Ids
    PROVE  Still(s, [s EXCEPT !.sel = n, !.hidden = hidden])
<1> DEFINE t == [s EXCEPT !.sel = n, !.hidden = hidden]
<1>1. t \in States
  BY DEF States
<1>2. t.view = s.view /\ t.data = s.data /\ t.back = s.back /\ t.browser = s.browser
      /\ t.uncertain = s.uncertain
  BY DEF States
<1> HIDE DEF t
<1>3. Still(s, t)
  BY <1>1, <1>2, StillKeeps
<1> QED BY <1>3 DEF t

LEMMA ClearFilterKeeps ==
    ASSUME NEW s \in States, Fine(s)
    PROVE  Still(s, ClearFilter(s))
<1> DEFINE open == [s EXCEPT !.hidden = {}]
           n == IF Selected(s) = None THEN 0 ELSE FindIdentity(open, Selected(s))
<1>1. open \in States
  BY DEF States
<1>2. n \in Nat
  BY <1>1, FoundRow
<1>3. ClearFilter(s) = [s EXCEPT !.sel = n, !.hidden = {}]
  BY DEF ClearFilter, States
<1> HIDE DEF n
<1>4. {} \in SUBSET Ids
  OBVIOUS
<1>5. Still(s, [s EXCEPT !.sel = n, !.hidden = {}])
  BY <1>2, <1>4, SelKeeps
<1> QED BY <1>3, <1>5

LEMMA MoveByKeeps ==
    ASSUME NEW s \in States, Fine(s), NEW d \in {"up", "down"}
    PROVE  Still(s, MoveBy(s, d))
<1>1. Len(Rows(s)) \in Nat /\ s.sel \in Nat
  BY SelectedRow DEF States
<1> DEFINE m == IF Rows(s) = <<>> THEN 0
                ELSE IF s.sel = 0 THEN (IF d = "up" THEN Len(Rows(s)) ELSE 1)
                ELSE IF d = "up" THEN (IF s.sel > 1 THEN s.sel - 1 ELSE 1)
                ELSE IF s.sel + 1 < Len(Rows(s)) THEN s.sel + 1 ELSE Len(Rows(s))
<1>2. m \in Nat
  BY <1>1
<1>3. PICK n \in Nat : MoveCursor(s, d) = [s EXCEPT !.sel = n]
  <2>1. MoveCursor(s, d) = [s EXCEPT !.sel = m]
    BY DEF MoveCursor
  <2> HIDE DEF m
  <2> QED BY <1>2, <2>1
<1>4. [s EXCEPT !.sel = n] = [s EXCEPT !.sel = n, !.hidden = s.hidden] /\ s.hidden \in SUBSET Ids
  BY DEF States
<1>5. Still(s, s)
  BY DEF Still, Kept
<1> QED BY <1>3, <1>4, <1>5, SelKeeps DEF MoveBy

LEMMA FollowKeeps ==
    ASSUME NEW s \in States, Fine(s)
    PROVE  Still(s, FollowRowDetail(s))
<1> DEFINE t == [s EXCEPT !.detail = "text"]
<1>1. t \in States
  BY NoneTypes DEF States
<1>2. t.view = s.view /\ t.data = s.data /\ t.back = s.back /\ t.browser = s.browser
      /\ t.uncertain = s.uncertain
  BY DEF States
<1>3. FollowRowDetail(s) \in {s, t}
  BY DEF FollowRowDetail
<1> HIDE DEF t
<1> QED BY <1>1, <1>2, <1>3, StillKeeps

LEMMA WaitKeeps ==
    ASSUME NEW s \in States, Fine(s)
    PROVE  Still(s, Cancel(s)) /\ Still(s, Loading(s))
<1> DEFINE t == [s EXCEPT !.loading = FALSE, !.refreshing = FALSE]
           u == [s EXCEPT !.loading = TRUE, !.refreshing = FALSE]
<1>1. t \in States /\ u \in States
  BY DEF States
<1>2. /\ t.view = s.view /\ t.data = s.data /\ t.back = s.back /\ t.browser = s.browser
      /\ t.uncertain = s.uncertain
      /\ u.view = s.view /\ u.data = s.data /\ u.back = s.back /\ u.browser = s.browser
      /\ u.uncertain = s.uncertain
  BY DEF States
<1>3. Cancel(s) = t /\ Loading(s) = u
  BY DEF Cancel, Loading
<1> HIDE DEF t, u
<1> QED BY <1>1, <1>2, <1>3, StillKeeps

LEMMA TargetedKeeps ==
    ASSUME NEW s \in States, Fine(s), NEW x \in SomeTarget
    PROVE  Kept(s, Targeted(s, x))
<1> DEFINE r == InvalidateResults(s)
           v == ViewOf("list", x)
           t == [r EXCEPT !.target = x, !.view = v]
<1>1. r \in States /\ Fine(r) /\ r.data = NoData /\ r.uncertain = s.uncertain
  BY InvalidateKeeps DEF Kept
<1>2. v \in ReadSet
  BY ViewTypes
<1>3. Targeted(s, x) = t
  BY DEF Targeted
<1> HIDE DEF r, v
<1>4. t \in States
  BY <1>1, <1>2 DEF States
<1>5. t.data = NoData /\ t.back = r.back /\ t.browser = r.browser /\ t.uncertain = s.uncertain
  BY <1>1 DEF States
<1> HIDE DEF t
<1> QED BY <1>1, <1>3, <1>4, <1>5 DEF Kept, Fine, Matches

(* The rows of an answer match the view they were read for.                *)
LEMMA AcceptRowsKeeps ==
    ASSUME NEW s \in States, Fine(s), NEW of \in ReadSet, ReadFor(of, s.view),
           NEW rows \in Seq(Ids)
    PROVE  Kept(s, AcceptRows(s, of, rows)) /\ AcceptRows(s, of, rows).view = s.view
<1> DEFINE d == [of |-> of, rows |-> rows]
           new == [s EXCEPT !.stale = FALSE, !.data = d]
           n == IF s.data = NoData THEN (IF Rows(new) = <<>> THEN 0 ELSE 1)
                ELSE IF Selected(s) = None THEN 0 ELSE FindIdentity(new, Selected(s))
           t == [new EXCEPT !.sel = n]
<1>1. d \in DataSet /\ ReadFor(d.of, s.view)
  BY DEF DataSet
<1>2. AcceptRows(s, of, rows) = FollowRowDetail(t)
  BY DEF AcceptRows
<1> HIDE DEF d
<1>3. new \in States
  BY <1>1 DEF States
<1>4. n \in Nat
  BY <1>3, FoundRow
<1> HIDE DEF n
<1>5. t \in States
  BY <1>1, <1>4 DEF States
<1>6. t.view = s.view /\ t.data = d /\ t.back = s.back /\ t.browser = s.browser
      /\ t.uncertain = s.uncertain
  BY DEF States
<1> HIDE DEF t
<1>7. Fine(t)
  BY <1>1, <1>6 DEF Fine, Matches
<1> QED BY <1>2, <1>5, <1>6, <1>7, FollowKeeps DEF Still, Kept

LEMMA AcceptKeeps ==
    ASSUME NEW s \in States, Fine(s), NEW a,
           a.what = "rows" => a.of \in ReadSet /\ ReadFor(a.of, s.view) /\ a.rows \in Seq(Ids)
    PROVE  /\ Kept(s, Accept(s, a)) /\ Accept(s, a).view = s.view
           /\ a.what # "rows" => Accept(s, a).data \in {s.data, NoData}
<1> DEFINE done == [s EXCEPT !.loading = FALSE, !.refreshing = FALSE]
<1>1. Still(s, done)
  BY WaitKeeps DEF Cancel
<1>2. CASE a.what = "rows"
  <2>1. Accept(s, a) = AcceptRows(done, a.of, a.rows)
    BY <1>2 DEF Accept
  <2> HIDE DEF done
  <2> QED BY <1>1, <1>2, <2>1, AcceptRowsKeeps DEF Still, Kept
<1>3. CASE a.what # "rows"
  <2> DEFINE t == [s EXCEPT !.detail = "text"]
             u == [done EXCEPT !.detail = "text"]
             x == [done EXCEPT !.data = NoData, !.stale = TRUE]
             y == [done EXCEPT !.stale = TRUE]
  <2>1. Accept(s, a) \in {t, u, x, y, done}
    BY <1>3 DEF Accept
  <2>2. t \in States /\ u \in States /\ x \in States /\ y \in States /\ done \in States
    BY NoneTypes DEF States
  <2>3. \A z \in {t, u, x, y, done} :
          /\ z.view = s.view /\ z.data \in {s.data, NoData} /\ z.back = s.back
          /\ z.browser = s.browser /\ z.uncertain = s.uncertain
    BY DEF States
  <2> HIDE DEF t, u, x, y, done
  <2>4. \A z \in {t, u, x, y, done} : z \in States /\ Fine(z)
    BY <2>2, <2>3 DEF Fine, Matches
  <2> QED BY <1>3, <2>1, <2>3, <2>4 DEF Kept
<1> QED BY <1>2, <1>3

-----------------------------------------------------------------------------
(* The states, the screen and the read *)

Untouched == \A w \in WS : st'[w].uncertain = st[w].uncertain

LEMMA JobTypes ==
    ASSUME NEW v \in ReadSet, NEW s \in States
    PROVE  /\ NoJob \in Jobs /\ Reading(v) \in Jobs /\ JobFits(NoJob, s)
           /\ v = s.view \/ v.kind = "detail" => JobFits(Reading(v), s)
<1>1. NoJob \in Jobs /\ Reading(v) \in Jobs
  BY NoneTypes DEF NoJob, Reading, Stop, Jobs
<1> QED BY <1>1 DEF NoJob, Reading, Stop, JobFits, ReadFits, ReadFor

(* What the parts of Views come to once the new values are known.          *)
LEMMA Arrive ==
    ASSUME Views, NEW w \in WS, NEW f, Kept(st[w], f[w]), shown' = w, job' \in Jobs,
           st' = [x \in WS |-> f[x]], \A x \in WS : Kept(st[x], f[x]), JobFits(job', f[w])
    PROVE  Views' /\ Untouched
BY DEF Views, Kept, Untouched

LEMMA ShowStep ==
    ASSUME Views, NEW w \in WS, NEW s, Kept(st[w], s), ShowRefreshed(w, s)
    PROVE  Views' /\ Untouched
<1> DEFINE f == [x \in WS |-> IF x = w THEN Loading(s)
                              ELSE IF x = shown THEN Cancel(st[x]) ELSE st[x]]
<1>1. shown \in WS /\ st \in [WS -> States] /\ \A x \in WS : Fine(st[x])
  BY DEF Views
<1>2. st' = f
  BY <1>1 DEF ShowRefreshed
<1>3. Kept(st[w], Loading(s)) /\ Loading(s).view = s.view
  BY WaitKeeps DEF Kept, Still
<1>4. \A x \in WS : Kept(st[x], Cancel(st[x])) /\ Kept(st[x], st[x])
  BY <1>1, WaitKeeps DEF Kept, Still
<1>5. \A x \in WS : Kept(st[x], f[x])
  BY <1>3, <1>4
<1>6. job' \in Jobs /\ JobFits(job', Loading(s))
  <2>1. s.view \in ReadSet
    BY DEF Kept, States
  <2>2. Loading(s) \in States
    BY <1>3 DEF Kept
  <2> QED BY <1>3, <2>1, <2>2, JobTypes DEF ShowRefreshed
<1>7. shown' = w
  BY DEF ShowRefreshed
<1>8. f = [x \in WS |-> f[x]] /\ f[w] = Loading(s)
  OBVIOUS
<1> HIDE DEF f
<1> QED BY <1>2, <1>5, <1>6, <1>7, <1>8, Arrive

LEMMA SetStep ==
    ASSUME Views, NEW s, Still(st[shown], s), Set(s)
    PROVE  Views' /\ Untouched
<1>1. shown \in WS /\ st \in [WS -> States] /\ \A x \in WS : Fine(st[x])
  BY DEF Views
<1>2. JobFits(job, s)
  BY DEF Views, JobFits, Still
<1>3. st' = [st EXCEPT ![shown] = s] /\ UNCHANGED <<shown, job>>
  BY DEF Set
<1>4. s \in States /\ Fine(s) /\ s.uncertain = st[shown].uncertain
  BY DEF Still, Kept
<1> QED BY <1>1, <1>2, <1>3, <1>4 DEF Views, Untouched

(* The contexts are shown without rows, whatever is being read.            *)
LEMMA ContextsStep ==
    ASSUME Views, NEW s, Kept(st[shown], s), s.view.kind = "contexts", s.data = NoData, Set(s)
    PROVE  Views' /\ Untouched
<1>1. shown \in WS /\ st \in [WS -> States] /\ \A x \in WS : Fine(st[x])
  BY DEF Views
<1>2. JobFits(job, s)
  BY DEF Views, JobFits, ReadFits, ReadFor
<1>3. st' = [st EXCEPT ![shown] = s] /\ UNCHANGED <<shown, job>>
  BY DEF Set
<1>4. s \in States /\ Fine(s) /\ s.uncertain = st[shown].uncertain
  BY DEF Kept
<1> QED BY <1>1, <1>2, <1>3, <1>4 DEF Views, Untouched

LEMMA StoppedStep ==
    ASSUME Views, NEW s, Kept(st[shown], s), SetStopped(s)
    PROVE  Views' /\ Untouched
<1>1. shown \in WS /\ st \in [WS -> States] /\ \A x \in WS : Fine(st[x])
  BY DEF Views
<1>2. Kept(st[shown], Cancel(s))
  BY WaitKeeps DEF Kept, Still
<1>3. NoJob \in Jobs /\ JobFits(NoJob, Cancel(s))
  BY <1>2, JobTypes, NoneTypes DEF Kept
<1>4. st' = [st EXCEPT ![shown] = Cancel(s)] /\ job' = NoJob /\ UNCHANGED shown
  BY DEF SetStopped, Stop
<1> HIDE DEF Cancel, NoJob
<1> QED BY <1>1, <1>2, <1>3, <1>4 DEF Views, Untouched, Kept

(* A command may swap the workspaces.                                      *)
LEMMA SwapStep ==
    ASSUME Views, NEW w \in WS, NEW s, Kept(st[w], s), st' = Swapped(w, s), shown' = w,
           job' \in Jobs, JobFits(job', s)
    PROVE  Views' /\ Untouched
<1> DEFINE c == Cancel(st[shown])
           t == [c EXCEPT !.input = None]
           f == [x \in WS |-> IF x = w THEN s ELSE IF x = shown THEN t ELSE st[x]]
<1>1. shown \in WS /\ st \in [WS -> States] /\ \A x \in WS : Fine(st[x])
  BY DEF Views
<1>2. Still(st[shown], c)
  BY <1>1, WaitKeeps
<1>3. c \in States /\ Fine(c) /\ c.uncertain = st[shown].uncertain
  BY <1>2 DEF Still, Kept
<1>4. st' = f
  BY <1>1 DEF Swapped
<1>5. Kept(st[shown], t)
  <2> HIDE DEF c
  <2>1. t \in States
    BY <1>3 DEF States
  <2>2. t.view = c.view /\ t.data = c.data /\ t.back = c.back /\ t.browser = c.browser
        /\ t.uncertain = c.uncertain
    BY <1>3 DEF States
  <2> HIDE DEF t
  <2> QED BY <1>3, <2>1, <2>2, StillKeeps DEF Still, Kept
<1> HIDE DEF t
<1>6. \A x \in WS : Kept(st[x], f[x])
  BY <1>1, <1>5 DEF Kept
<1>7. f = [x \in WS |-> f[x]] /\ f[w] = s
  OBVIOUS
<1> HIDE DEF f
<1> QED BY <1>4, <1>6, <1>7, Arrive

Inputs == {None, "/", ":", "F"}

(* Questions, prompts and details leave the rows and the view alone.       *)
LEMMA FieldsKeep ==
    ASSUME NEW s \in States, Fine(s)
    PROVE  /\ Still(s, s)
           /\ \A q \in BOOLEAN : /\ Still(s, [s EXCEPT !.quit = q])
                                 /\ Still(s, [s EXCEPT !.stale = q])
                                 /\ Still(s, [s EXCEPT !.refreshing = q])
           /\ \A r \in SomeTarget : Still(s, [s EXCEPT !.pending = r])
           /\ \A r \in SomeTarget : Still(s, [s EXCEPT !.native = r])
           /\ \A r, p \in SomeTarget : Still(s, [s EXCEPT !.native = r, !.pending = p])
           /\ \A i \in Inputs : Still(s, [s EXCEPT !.input = i])
           /\ \A i \in Inputs, r \in SomeTarget :
                 Still(s, [s EXCEPT !.input = i, !.forward = r])
           /\ \A i \in Inputs, q \in BOOLEAN : Still(s, [s EXCEPT !.input = i, !.quit = q])
           /\ \A d \in Details : Still(s, [s EXCEPT !.detail = d])
           /\ \A n \in Nat : Still(s, [s EXCEPT !.sel = n])
<1> DEFINE Same(t) == /\ t \in States /\ t.view = s.view /\ t.data = s.data
                      /\ t.back = s.back /\ t.browser = s.browser
                      /\ t.uncertain = s.uncertain
<1>1. \A t : Same(t) => Still(s, t)
  BY StillKeeps
<1>2. \A q \in BOOLEAN : /\ Same([s EXCEPT !.quit = q]) /\ Same([s EXCEPT !.stale = q])
                         /\ Same([s EXCEPT !.refreshing = q])
  BY DEF States
<1>3. \A r \in SomeTarget : Same([s EXCEPT !.pending = r]) /\ Same([s EXCEPT !.native = r])
  BY DEF States
<1>4. \A r, p \in SomeTarget : Same([s EXCEPT !.native = r, !.pending = p])
  BY DEF States
<1>5. \A i \in Inputs : Same([s EXCEPT !.input = i])
  BY DEF States, Inputs
<1>6. \A i \in Inputs, r \in SomeTarget : Same([s EXCEPT !.input = i, !.forward = r])
  BY DEF States, Inputs
<1>7. \A i \in Inputs, q \in BOOLEAN : Same([s EXCEPT !.input = i, !.quit = q])
  BY DEF States, Inputs
<1>8. \A d \in Details : Same([s EXCEPT !.detail = d])
  BY DEF States
<1>9. \A n \in Nat : Same([s EXCEPT !.sel = n])
  BY DEF States
<1>10. Same(s)
  OBVIOUS
<1> HIDE DEF Same
<1> QED BY <1>1, <1>2, <1>3, <1>4, <1>5, <1>6, <1>7, <1>8, <1>9, <1>10

(* The states on their own, as the steps below use them.                   *)
LEMMA Here ==
    ASSUME Views
    PROVE  /\ shown \in WS /\ st[shown] \in States /\ Fine(st[shown])
           /\ \A w \in WS : st[w] \in States /\ Fine(st[w]) /\ Still(st[w], st[w])
                            /\ Kept(st[w], st[w])
           /\ \A w \in WS : st[w].view \in ReadSet /\ st[w].target \in SomeTarget
<1>1. \A w \in WS : st[w] \in States /\ Fine(st[w])
  BY DEF Views
<1>2. \A w \in WS : st[w].view \in ReadSet /\ st[w].target \in SomeTarget
  BY <1>1 DEF States
<1> QED BY <1>1, <1>2 DEF Views, Still, Kept

LEMMA ExitViews ==
    ASSUME Views, Exit
    PROVE  Views' /\ Untouched
<1>1. SetStopped(st[shown])
  BY DEF Exit, SetStopped
<1> QED BY <1>1, Here, StoppedStep

LEMMA SetFieldSteps ==
    ASSUME Views
    PROVE  /\ \A q \in BOOLEAN : Set([st[shown] EXCEPT !.quit = q]) => Views' /\ Untouched
           /\ \A r \in SomeTarget : Set([st[shown] EXCEPT !.pending = r]) => Views' /\ Untouched
           /\ \A r \in SomeTarget : Set([st[shown] EXCEPT !.native = r]) => Views' /\ Untouched
           /\ \A r, p \in SomeTarget :
                 Set([st[shown] EXCEPT !.native = r, !.pending = p]) => Views' /\ Untouched
           /\ \A i \in Inputs : Set([st[shown] EXCEPT !.input = i]) => Views' /\ Untouched
           /\ \A i \in Inputs, r \in SomeTarget :
                 Set([st[shown] EXCEPT !.input = i, !.forward = r]) => Views' /\ Untouched
           /\ \A i \in Inputs, q \in BOOLEAN :
                 Set([st[shown] EXCEPT !.input = i, !.quit = q]) => Views' /\ Untouched
           /\ \A d \in Details : Set([st[shown] EXCEPT !.detail = d]) => Views' /\ Untouched
           /\ Set(st[shown]) => Views' /\ Untouched
<1>1. \A t : Still(st[shown], t) /\ Set(t) => Views' /\ Untouched
  BY SetStep
<1>2. st[shown] \in States /\ Fine(st[shown])
  BY Here
<1> QED BY <1>1, <1>2, FieldsKeep

LEMMA AskToQuitViews ==
    ASSUME Views, AskToQuit
    PROVE  Views' /\ Untouched
BY ExitViews, SetFieldSteps DEF AskToQuit

LEMMA ReadAnswersViews ==
    ASSUME Views, ReadAnswers
    PROVE  Views' /\ Untouched
<1>1. job \in Jobs /\ JobFits(job, st[shown])
  BY DEF Views
<1>2. job' = [job EXCEPT !.of = NoRead, !.answer = job.of] /\ UNCHANGED <<shown, st>>
  BY DEF ReadAnswers
<1>3. job' \in Jobs
  BY <1>1, <1>2, NoneTypes DEF Jobs
<1>4. job'.of = NoRead /\ job'.answer = job.of /\ job'.reload = job.reload
  BY <1>1, <1>2 DEF Jobs
<1>5. JobFits(job', st[shown])
  BY <1>1, <1>4 DEF JobFits, ReadFits, ReadAnswers
<1> QED BY <1>2, <1>3, <1>5 DEF Views, Untouched

LEMMA RowsOfRows ==
    ASSUME NEW v \in ReadSet, NEW l \in Lists
    PROVE  RowsOf(v, l) \in Seq(Ids)
<1>1. l \in Seq(Ids)
  BY ConsoleAssumption
<1> QED BY <1>1, WithoutRows DEF RowsOf

LEMMA ReceiveViews ==
    ASSUME Views, Receive
    PROVE  Views' /\ Untouched
<1>0. PICK what \in Answers(job.answer) :
        \E rows \in IF what = "rows" THEN {RowsOf(job.answer, l) : l \in Lists} ELSE {<<>>} :
           /\ st' = [st EXCEPT ![shown] =
                       Accept(@, [of |-> job.answer, what |-> what, rows |-> rows])]
           /\ job' = [job EXCEPT !.answer = NoRead,
                                 !.of = IF what = "log" THEN job.answer ELSE @]
  BY DEF Receive
<1>1. PICK rows \in IF what = "rows" THEN {RowsOf(job.answer, l) : l \in Lists} ELSE {<<>>} :
        /\ st' = [st EXCEPT ![shown] =
                    Accept(@, [of |-> job.answer, what |-> what, rows |-> rows])]
        /\ job' = [job EXCEPT !.answer = NoRead, !.of = IF what = "log" THEN job.answer ELSE @]
  BY <1>0
<1> DEFINE a == [of |-> job.answer, what |-> what, rows |-> rows]
           s == st[shown]
           t == Accept(s, a)
<1>2. job \in Jobs /\ JobFits(job, s) /\ job.answer # NoRead /\ job.answer \in ReadSet
  BY DEF Views, Jobs, Receive
<1>3. s \in States /\ Fine(s) /\ shown \in WS
  BY Here
<1>4. what = "rows" => ReadFor(job.answer, s.view)
  <2>1. job.answer.kind = "detail" => what # "rows"
    BY <1>0 DEF Answers
  <2> QED BY <1>2, <2>1 DEF JobFits, ReadFits
<1>5. what = "rows" => rows \in Seq(Ids)
  BY <1>1, <1>2, RowsOfRows
<1>6. Kept(s, t) /\ t.view = s.view
  <2>1. a.what = what /\ a.of = job.answer /\ a.rows = rows
    OBVIOUS
  <2> HIDE DEF a, s
  <2> QED BY <1>2, <1>3, <1>4, <1>5, <2>1, AcceptKeeps
<1>7. job' \in Jobs
  BY <1>1, <1>2, NoneTypes DEF Jobs
<1>8. job'.answer = NoRead /\ job'.of \in {job.of, job.answer} /\ job'.reload = job.reload
  BY <1>1, <1>2 DEF Jobs
<1>9. JobFits(job', t)
  BY <1>2, <1>6, <1>8 DEF JobFits, ReadFits
<1>10. st' = [st EXCEPT ![shown] = t] /\ UNCHANGED shown
  BY <1>1 DEF Receive
<1> HIDE DEF t
<1> QED BY <1>3, <1>6, <1>7, <1>9, <1>10 DEF Views, Untouched, Kept

LEMMA TickViews ==
    ASSUME Views, Tick
    PROVE  Views' /\ Untouched
<1> DEFINE s == st[shown]
           t == [s EXCEPT !.refreshing = TRUE]
<1>1. Still(s, t) /\ shown \in WS /\ s.view \in ReadSet
  BY Here, FieldsKeep
<1>2. st' = [st EXCEPT ![shown] = t] /\ job' = Reading(s.view) /\ UNCHANGED shown
  BY DEF Tick, Views
<1>3. t \in States /\ Fine(t) /\ t.view = s.view /\ t.uncertain = s.uncertain
  BY <1>1 DEF Still, Kept
<1> HIDE DEF t
<1>4. job' \in Jobs /\ JobFits(job', t)
  BY <1>1, <1>2, <1>3, JobTypes
<1> QED BY <1>1, <1>2, <1>3, <1>4 DEF Views, Untouched

LEMMA ReloadViews ==
    ASSUME Views, ReloadEnds
    PROVE  Views' /\ Untouched
<1> DEFINE s == st[shown]
<1>1. job \in Jobs /\ JobFits(job, s) /\ job.reload # None
  BY DEF Views, ReloadEnds
<1>2. s \in States /\ Fine(s) /\ shown \in WS
  BY Here
<1>3. s.data = NoData /\ job.of = NoRead /\ job.answer = NoRead
  BY <1>1 DEF JobFits
<1>4. CASE /\ st' = [st EXCEPT ![shown] = [Cancel(@) EXCEPT !.stale = TRUE]]
           /\ job' = [job EXCEPT !.reload = None] /\ UNCHANGED <<shown, endVars>>
  <2> DEFINE c == Cancel(s)
             t == [c EXCEPT !.stale = TRUE]
  <2>1. Still(s, c)
    BY <1>2, WaitKeeps
  <2>2. Still(c, t)
    <3>1. c \in States /\ Fine(c)
      BY <2>1 DEF Still, Kept
    <3> HIDE DEF c
    <3> QED BY <3>1, FieldsKeep
  <2>3. Still(s, t)
    BY <2>1, <2>2 DEF Still, Kept
  <2>4. st' = [st EXCEPT ![shown] = t]
    BY <1>4, <1>2
  <2> HIDE DEF t
  <2>5. job' \in Jobs /\ job'.reload = None /\ job'.of = NoRead /\ job'.answer = NoRead
    BY <1>1, <1>3, <1>4 DEF Jobs
  <2>6. JobFits(job', t)
    BY <2>5 DEF JobFits, ReadFits
  <2> QED BY <1>2, <1>4, <2>3, <2>4, <2>5, <2>6 DEF Views, Untouched, Still, Kept
<1>5. CASE \E t \in ReloadTargets :
             ShowRefreshed(shown, [st[shown] EXCEPT
                 !.target = t, !.view = ViewOf(IF t = None THEN "contexts" ELSE "list", t)])
  <2>1. PICK x \in ReloadTargets :
             ShowRefreshed(shown, [s EXCEPT
                 !.target = x, !.view = ViewOf(IF x = None THEN "contexts" ELSE "list", x)])
    BY <1>5
  <2> DEFINE v == ViewOf(IF x = None THEN "contexts" ELSE "list", x)
             t == [s EXCEPT !.target = x, !.view = v]
  <2>2. x \in SomeTarget
    BY DEF ReloadTargets, SomeTarget
  <2>3. v \in ReadSet
    BY <2>2, ViewTypes
  <2>4. ShowRefreshed(shown, t)
    BY <2>1
  <2> HIDE DEF v, s
  <2>5. t \in States
    BY <1>2, <2>2, <2>3 DEF States
  <2>6. t.data = NoData /\ t.back = s.back /\ t.browser = s.browser /\ t.uncertain = s.uncertain
    BY <1>2, <1>3 DEF States
  <2> HIDE DEF t
  <2>7. Kept(s, t)
    BY <1>2, <2>5, <2>6 DEF Kept, Fine, Matches
  <2> QED BY <1>2, <2>4, <2>7, ShowStep DEF s
<1>6. CASE UNCHANGED <<shown, st, job>>
  BY <1>6 DEF Views, Untouched
<1> QED BY <1>4, <1>5, <1>6 DEF ReloadEnds

LEMMA BackgroundViews ==
    ASSUME Views, Background, ~ChangeEnds
    PROVE  Views' /\ Untouched
<1>0. UNCHANGED <<shown, st, job>> => Views' /\ Untouched
  BY DEF Views, Untouched
<1>1. CASE ReadAnswers \/ Receive \/ Tick \/ ReloadEnds
  BY <1>1, ReadAnswersViews, ReceiveViews, TickViews, ReloadViews
<1>2. CASE CliExits
  BY <1>0, <1>2, ExitViews DEF CliExits
<1>3. CASE CliFails
  BY <1>3, Here, ShowStep DEF CliFails
<1>4. CASE BackgroundExits
  BY <1>0, <1>4 DEF BackgroundExits
<1>5. CASE Terminate
  BY <1>0, <1>5, ExitViews DEF Terminate
<1>6. CASE Interrupt \/ InputLost
  BY <1>6, AskToQuitViews, ExitViews DEF Interrupt, InputLost
<1> QED BY <1>1, <1>2, <1>3, <1>4, <1>5, <1>6 DEF Background

(* A read of a detail beside the view.                                     *)
LEMMA DetailStep ==
    ASSUME Views, UNCHANGED shown, st' = [st EXCEPT ![shown] = Loading(st[shown])],
           job' = Reading(ViewOf("detail", st[shown].target))
    PROVE  Views' /\ Untouched
<1> DEFINE s == st[shown]
           v == ViewOf("detail", s.target)
<1>1. shown \in WS /\ s \in States /\ Fine(s) /\ s.target \in SomeTarget
  BY Here
<1>2. Still(s, Loading(s))
  BY <1>1, WaitKeeps
<1>3. v \in ReadSet /\ v.kind = "detail"
  BY <1>1, ViewTypes
<1>4. job' \in Jobs /\ JobFits(job', Loading(s))
  <2>1. Loading(s) \in States
    BY <1>2 DEF Still, Kept
  <2> HIDE DEF v
  <2> QED BY <1>3, <2>1, JobTypes DEF v
<1> HIDE DEF Loading
<1> QED BY <1>1, <1>2, <1>4 DEF Views, Untouched, Still, Kept

LEMMA RunRowKeyViews ==
    ASSUME Views, RunRowKey
    PROVE  Views' /\ Untouched
<1> DEFINE s == st[shown]
<1>1. shown \in WS /\ s \in States /\ Fine(s) /\ s.view \in ReadSet /\ Kept(s, s)
  BY Here
<1>2. Selected(s) \in SomeTarget
  BY <1>1, SelectedRow
<1>3. CASE NativeChange
  BY <1>2, <1>3, SetFieldSteps DEF NativeChange
<1>4. CASE NativeCli
  BY <1>1, <1>4, StoppedStep DEF NativeCli
<1>5. CASE Related
  <2>1. PICK v \in RelatedViews(s) :
          ShowRefreshed(shown, [InvalidateResults(s) EXCEPT !.view = v])
    BY <1>5 DEF Related
  <2> DEFINE r == InvalidateResults(s)
             t == [r EXCEPT !.view = v]
  <2>2. v \in ReadSet
    <3>1. s.view.target \in SomeTarget
      BY <1>1 DEF ReadSet
    <3> QED BY <3>1, ViewTypes DEF RelatedViews
  <2>3. r \in States /\ Fine(r) /\ r.data = NoData /\ r.uncertain = s.uncertain
    BY <1>1, InvalidateKeeps DEF Kept
  <2>4. ShowRefreshed(shown, t)
    BY <2>1
  <2> HIDE DEF r
  <2>5. t \in States
    BY <2>2, <2>3 DEF States
  <2>6. t.data = NoData /\ t.back = r.back /\ t.browser = r.browser /\ t.uncertain = r.uncertain
    BY <2>3 DEF States
  <2> HIDE DEF t
  <2>7. Kept(s, t)
    BY <2>3, <2>5, <2>6 DEF Kept, Fine, Matches
  <2> QED BY <1>1, <2>4, <2>7, ShowStep
<1>6. CASE OpenPortForward
  <2> DEFINE t == [s EXCEPT !.input = "F", !.forward = Selected(s)]
  <2>1. Set([s EXCEPT !.forward = Selected(s), !.input = "F"])
    BY <1>6 DEF OpenPortForward
  <2>2. [s EXCEPT !.forward = Selected(s), !.input = "F"] = t
    BY <1>1 DEF States
  <2>3. Still(s, t)
    BY <1>1, <1>2, FieldsKeep DEF Inputs
  <2> HIDE DEF t
  <2> QED BY <2>1, <2>2, <2>3, SetStep
<1> QED BY <1>3, <1>4, <1>5, <1>6 DEF RunRowKey

LEMMA KeyVmsViews ==
    ASSUME Views, KeyVms
    PROVE  Views' /\ Untouched
<1> DEFINE s == st[shown]
           b == IF Native(s) THEN Snapshot(s) ELSE s.browser
           t == [s EXCEPT !.browser = b]
<1>1. shown \in WS /\ s \in States /\ Fine(s)
  BY Here
<1>2. b \in Snapshots /\ Matches(b.view, b.data)
  BY <1>1, SnapshotTypes DEF States, Fine
<1>3. ShowRefreshed(shown, ShowView(t, "vms"))
  BY DEF KeyVms
<1> HIDE DEF b, s
<1>4. t \in States
  BY <1>1, <1>2 DEF States
<1>5. Fine(t) /\ t.uncertain = s.uncertain
  BY <1>1, <1>2 DEF States, Fine
<1> HIDE DEF t
<1>6. Kept(s, ShowView(t, "vms"))
  BY <1>4, <1>5, ShowViewKeeps DEF Kept
<1> QED BY <1>1, <1>3, <1>6, ShowStep DEF s

LEMMA KeyPickViews ==
    ASSUME Views, KeyPick \/ KeyNamespaces
    PROVE  Views' /\ Untouched
<1> DEFINE s == st[shown]
<1>1. shown \in WS /\ s \in States /\ Fine(s)
  BY Here
<1>2. \A kind \in {"pick", "contexts", "namespaces"} :
         /\ Kept(s, OpenPicker(s, kind)) /\ Kept(s, ShowView(OpenPicker(s, kind), kind))
         /\ OpenPicker(s, kind).data = NoData /\ OpenPicker(s, kind).view.kind = kind
  <2> SUFFICES ASSUME NEW kind \in {"pick", "contexts", "namespaces"}
               PROVE  /\ Kept(s, OpenPicker(s, kind)) /\ Kept(s, ShowView(OpenPicker(s, kind), kind))
                      /\ OpenPicker(s, kind).data = NoData /\ OpenPicker(s, kind).view.kind = kind
    OBVIOUS
  <2> DEFINE t == OpenPicker(s, kind)
  <2>1. Kept(s, t) /\ t.data = NoData /\ t.view.kind = kind
    BY <1>1, OpenPickerKeeps
  <2> HIDE DEF t
  <2>2. Kept(t, ShowView(t, kind))
    BY <2>1, ShowViewKeeps DEF Kept
  <2> QED BY <2>1, <2>2 DEF Kept, t
<1>3. \/ \E kind \in {"pick", "contexts", "namespaces"} :
           \/ ShowRefreshed(shown, OpenPicker(s, kind))
           \/ ShowRefreshed(shown, ShowView(OpenPicker(s, kind), kind))
      \/ Set(OpenPicker(s, "contexts"))
  BY DEF KeyPick, KeyNamespaces
<1> QED BY <1>1, <1>2, <1>3, ShowStep, ContextsStep

LEMMA KeyEscViews ==
    ASSUME Views, KeyEsc
    PROVE  Views' /\ Untouched
<1> DEFINE o == st[shown]
           s == [o EXCEPT !.detail = None]
<1>1. shown \in WS /\ o \in States /\ Fine(o)
  BY Here
<1>2. Still(o, s)
  BY <1>1, FieldsKeep, NoneTypes
<1>3. s \in States /\ Fine(s) /\ s.uncertain = o.uncertain
  BY <1>2 DEF Still, Kept
<1>4. IF s.back # NoSnapshot
      THEN ShowRefreshed(shown, Restore([s EXCEPT !.back = NoSnapshot], s.back))
      ELSE IF s.view.kind = "vms" \/ (s.view.kind = "pick" /\ shown = "C")
      THEN ShowRefreshed(shown, ReturnToBrowser(s))
      ELSE SetStopped(ClearFilter(s))
  BY DEF KeyEsc
<1> HIDE DEF s
<1>5. CASE s.back # NoSnapshot
  <2> DEFINE u == [s EXCEPT !.back = NoSnapshot]
  <2>1. u \in States
    BY <1>3, NoneTypes DEF States
  <2>2. Fine(u) /\ u.uncertain = s.uncertain
    BY <1>3 DEF States, Fine, Matches, NoSnapshot
  <2>3. s.back \in Snapshots /\ Matches(s.back.view, s.back.data)
    BY <1>3 DEF States, Fine
  <2>4. ShowRefreshed(shown, Restore(u, s.back))
    BY <1>4, <1>5
  <2> HIDE DEF u
  <2>5. Kept(o, Restore(u, s.back))
    BY <1>3, <2>1, <2>2, <2>3, RestoreKeeps DEF Kept
  <2> QED BY <1>1, <2>4, <2>5, ShowStep
<1>6. CASE s.back = NoSnapshot /\ (s.view.kind = "vms" \/ (s.view.kind = "pick" /\ shown = "C"))
  <2>1. Kept(o, ReturnToBrowser(s))
    BY <1>3, <1>6, ReturnKeeps DEF Kept
  <2> QED BY <1>1, <1>4, <1>6, <2>1, ShowStep
<1>7. CASE s.back = NoSnapshot /\ ~(s.view.kind = "vms" \/ (s.view.kind = "pick" /\ shown = "C"))
  <2>1. Kept(o, ClearFilter(s))
    BY <1>3, ClearFilterKeeps DEF Kept, Still
  <2> QED BY <1>1, <1>4, <1>7, <2>1, StoppedStep
<1> QED BY <1>5, <1>6, <1>7

LEMMA EnterPickViews ==
    ASSUME Views, EnterPick
    PROVE  Views' /\ Untouched
<1> DEFINE s == st[shown]
           x == IF s.view.kind = "namespaces" THEN s.target ELSE Selected(s)
           e == [s EXCEPT !.target = None]
<1>1. shown \in WS /\ s \in States /\ Fine(s) /\ s.target \in SomeTarget
  BY Here
<1>2. \/ ShowRefreshed(shown, [Targeted(s, x) EXCEPT !.stale = (shown = "C")])
      \/ s.view.kind = "contexts" /\ Set(InvalidateResults(e))
  BY DEF EnterPick
<1>3. x \in SomeTarget
  BY <1>1, SelectedRow
<1>4. CASE ShowRefreshed(shown, [Targeted(s, x) EXCEPT !.stale = (shown = "C")])
  <2> HIDE DEF x
  <2>1. PICK k \in BOOLEAN : k = (shown = "C")
    BY Zenon
  <2> DEFINE r == Targeted(s, x)
             t == [r EXCEPT !.stale = k]
  <2>2. ShowRefreshed(shown, t)
    BY <1>4, <2>1
  <2>3. Kept(s, r)
    BY <1>1, <1>3, TargetedKeeps
  <2> HIDE DEF r
  <2>4. Kept(s, t)
    <3>1. r \in States /\ Fine(r) /\ k \in BOOLEAN
      BY <2>1, <2>3 DEF Kept
    <3>2. Still(r, t)
      BY <3>1, FieldsKeep
    <3> QED BY <2>3, <3>2 DEF Still, Kept
  <2> HIDE DEF t
  <2> QED BY <1>1, <2>2, <2>4, ShowStep
<1>5. CASE s.view.kind = "contexts" /\ Set(InvalidateResults(e))
  <2>1. e \in States
    BY <1>1, NoneTypes DEF States
  <2>2. e.view = s.view /\ e.data = s.data /\ e.back = s.back /\ e.browser = s.browser
        /\ e.uncertain = s.uncertain
    BY <1>1 DEF States
  <2> HIDE DEF e
  <2>3. Fine(e)
    BY <1>1, <2>2 DEF Fine
  <2>4. Kept(e, InvalidateResults(e)) /\ InvalidateResults(e).data = NoData
    BY <2>1, <2>3, InvalidateKeeps
  <2>5. InvalidateResults(e).view = e.view
    BY <2>1 DEF States, InvalidateResults
  <2>6. Kept(s, InvalidateResults(e))
    BY <2>2, <2>4 DEF Kept
  <2> QED BY <1>1, <1>5, <2>2, <2>4, <2>5, <2>6, ContextsStep
<1> QED BY <1>2, <1>4, <1>5

LEMMA EnterRowViews ==
    ASSUME Views, EnterRow
    PROVE  Views' /\ Untouched
<1> DEFINE s == st[shown]
           b == IF s.view.kind = "vms" THEN NoSnapshot ELSE s.back
           x == IF VmPanel(shown, s) THEN Selected(s) ELSE s.target
           t == [s EXCEPT !.detail = Selected(s), !.back = b, !.target = x]
<1>1. shown \in WS /\ s \in States /\ Fine(s) /\ s.target \in SomeTarget
  BY Here
<1>2. Selected(s) \in SomeTarget /\ Selected(s) \in Details
  BY <1>1, SelectedRow, NoneTypes
<1>3. b \in Snapshots /\ Matches(b.view, b.data) /\ x \in SomeTarget
  BY <1>1, <1>2, NoneTypes DEF States, Fine, Matches, NoSnapshot
<1>4. CASE Set(t)
  <2> HIDE DEF b, x, s
  <2>1. t \in States
    BY <1>1, <1>2, <1>3 DEF States
  <2>2. t.view = s.view /\ t.data = s.data /\ t.back = b /\ t.browser = s.browser
        /\ t.uncertain = s.uncertain
    BY <1>1 DEF States
  <2> HIDE DEF t
  <2>3. Still(s, t)
    BY <1>1, <1>3, <2>1, <2>2 DEF Still, Kept, Fine
  <2> QED BY <1>4, <2>3, SetStep DEF s
<1>5. CASE /\ st' = [st EXCEPT ![shown] = Loading(s)] /\ UNCHANGED shown
           /\ job' = Reading(ViewOf("detail", s.target))
  BY <1>5, DetailStep
<1> QED BY <1>4, <1>5 DEF EnterRow

LEMMA KeyOfViewViews ==
    ASSUME Views, KeyOfView
    PROVE  Views' /\ Untouched
<1> DEFINE s == st[shown]
<1>1. shown \in WS /\ s \in States /\ Fine(s) /\ s.view \in ReadSet /\ Kept(s, s)
  BY Here
<1>2. Selected(s) \in SomeTarget /\ Selected(s) \in Details
  BY <1>1, SelectedRow, NoneTypes
<1>3. CASE KeyQuit
  BY <1>3, AskToQuitViews DEF KeyQuit
<1>4. CASE KeyTab
  <2>1. Other(shown) \in WS
    BY <1>1 DEF Other, WS
  <2> QED BY <1>4, <2>1, Here, ShowStep DEF KeyTab
<1>5. CASE KeyRefresh
  BY <1>1, <1>5, ShowStep DEF KeyRefresh
<1>6. CASE KeyAll
  <2>1. Kept(s, [s EXCEPT !.sel = 1])
    BY <1>1, FieldsKeep DEF Still
  <2> QED BY <1>1, <1>6, <2>1, ShowStep DEF KeyAll
<1>7. CASE KeyVms \/ KeyPick \/ KeyNamespaces \/ KeyEsc \/ EnterPick \/ EnterRow
  BY <1>7, KeyVmsViews, KeyPickViews, KeyEscViews, EnterPickViews, EnterRowViews
<1>8. CASE KeyConfigure
  BY <1>2, <1>8, SetFieldSteps DEF KeyConfigure, Inputs
<1>9. CASE KeySlash
  BY <1>9, SetFieldSteps DEF KeySlash, Inputs
<1>10. CASE KeyMove
  BY <1>1, <1>10, MoveByKeeps, SetStep DEF KeyMove
<1>11. CASE KeySettings \/ KeyMenu \/ KeyTargets
  BY <1>11, SetFieldSteps DEF KeySettings, KeyMenu, KeyTargets, OpenMenu
<1>12. CASE KeyRow
  BY <1>12, RunRowKeyViews DEF KeyRow
<1>13. CASE KeyStartVm
  <2>1. s.view.target \in SomeTarget
    BY <1>1 DEF ReadSet
  <2> QED BY <1>13, <2>1, SetFieldSteps DEF KeyStartVm
<1>14. CASE KeyHamn
  BY <1>2, <1>14, SetFieldSteps, DetailStep DEF KeyHamn
<1> QED BY <1>3, <1>4, <1>5, <1>6, <1>7, <1>8, <1>9, <1>10, <1>11, <1>12, <1>13, <1>14
       DEF KeyOfView

LEMMA EditFilterViews ==
    ASSUME Views, EditFilter
    PROVE  Views' /\ Untouched
<1> DEFINE s == st[shown]
<1>1. s \in States /\ Fine(s)
  BY Here
<1>2. PICK hidden \in SUBSET Ids :
        Set([[s EXCEPT !.hidden = hidden] EXCEPT !.sel =
               IF Selected(s) = None THEN 0
               ELSE FindIdentity([s EXCEPT !.hidden = hidden], Selected(s))])
  BY DEF EditFilter
<1> DEFINE new == [s EXCEPT !.hidden = hidden]
           n == IF Selected(s) = None THEN 0 ELSE FindIdentity(new, Selected(s))
<1>3. new \in States
  BY <1>1 DEF States
<1>4. n \in Nat
  BY <1>3, FoundRow
<1>5. Set([new EXCEPT !.sel = n])
  BY <1>2
<1> HIDE DEF n
<1>6. [new EXCEPT !.sel = n] = [s EXCEPT !.sel = n, !.hidden = hidden]
  BY <1>1 DEF States
<1>7. Still(s, [s EXCEPT !.sel = n, !.hidden = hidden])
  BY <1>1, <1>4, SelKeeps
<1> QED BY <1>5, <1>6, <1>7, SetStep

LEMMA LeaveCliViews ==
    ASSUME Views, Ui, LeaveCli
    PROVE  Views' /\ Untouched
<1> DEFINE s == st[shown]
           r == InvalidateResults(s)
<1>1. shown \in WS /\ s \in States /\ Fine(s) /\ Kept(s, s)
  BY Here
<1>2. CASE cli.reset
  <2>1. /\ st' = [st EXCEPT ![shown] = Loading(InvalidateResults(@))]
        /\ job' = [Stop(job) EXCEPT !.reload = cli.ws] /\ UNCHANGED shown
    BY <1>2 DEF LeaveCli
  <2>2. cli.ws \in WS
    <3>1. cli # NoSession
      BY DEF LeaveCli, PressAt, Focus
    <3> QED BY <3>1 DEF Ui, SessionSet
  <2>3. job' \in Jobs /\ job'.of = NoRead /\ job'.answer = NoRead
    BY <2>1, <2>2, NoneTypes DEF Jobs, Stop, NoJob
  <2>4. Kept(s, r) /\ r.data = NoData
    BY <1>1, InvalidateKeeps
  <2>5. Still(r, Loading(r))
    BY <2>4, WaitKeeps DEF Kept
  <2>6. st' = [st EXCEPT ![shown] = Loading(r)]
    BY <1>1, <2>1
  <2> HIDE DEF r, Loading
  <2>7. JobFits(job', Loading(r))
    BY <2>3, <2>4, <2>5 DEF JobFits, ReadFits, Still
  <2> QED BY <1>1, <2>1, <2>3, <2>4, <2>5, <2>6, <2>7 DEF Views, Untouched, Still, Kept
<1>3. CASE ~cli.reset
  BY <1>1, <1>3, ShowStep DEF LeaveCli
<1> QED BY <1>2, <1>3

LEMMA EnteredKeeps ==
    ASSUME Views, NEW w \in WS
    PROVE  Still(st[w], Entered(w))
<1>1. st[w] \in States /\ Fine(st[w]) /\ Still(st[w], st[w])
  BY Here
<1>2. Still(st[w], [st[w] EXCEPT !.input = None])
  BY <1>1, FieldsKeep DEF Inputs
<1> QED BY <1>1, <1>2 DEF Entered

LEMMA CommandReadViews ==
    ASSUME Views, CommandRead
    PROVE  Views' /\ Untouched
<1>1. PICK w \in WS, kind \in {"vms", "typed", "contexts", "namespaces"},
            read \in {"view", "detail"} :
        LET s == ShowView([Entered(w) EXCEPT !.back = NoSnapshot], kind)
        IN /\ st' = Swapped(w, Loading(s)) /\ shown' = w
           /\ job' = Reading(IF read = "view" THEN s.view ELSE ViewOf("detail", s.target))
  BY DEF CommandRead
<1> DEFINE e == Entered(w)
           u == [e EXCEPT !.back = NoSnapshot]
           s == ShowView(u, kind)
           v == IF read = "view" THEN s.view ELSE ViewOf("detail", s.target)
<1>2. st' = Swapped(w, Loading(s)) /\ shown' = w /\ job' = Reading(v)
  BY <1>1
<1>3. Kept(st[w], e)
  BY EnteredKeeps DEF Still
<1> HIDE DEF e
<1>4. Kept(st[w], u)
  <2>1. e \in States /\ Fine(e)
    BY <1>3 DEF Kept
  <2>2. u \in States
    BY <2>1, NoneTypes DEF States
  <2>3. u.view = e.view /\ u.data = e.data /\ u.back = NoSnapshot /\ u.browser = e.browser
        /\ u.uncertain = e.uncertain
    BY <2>1 DEF States
  <2> HIDE DEF u
  <2> QED BY <1>3, <2>1, <2>2, <2>3 DEF Kept, Fine, Matches, NoSnapshot
<1> HIDE DEF u
<1>5. Kept(st[w], s)
  BY <1>4, ShowViewKeeps DEF Kept
<1> HIDE DEF s
<1>6. Kept(st[w], Loading(s)) /\ Loading(s).view = s.view /\ Loading(s) \in States
  BY <1>5, WaitKeeps DEF Kept, Still
<1>7. v \in ReadSet /\ (v = s.view \/ v.kind = "detail")
  <2>1. s.view \in ReadSet /\ s.target \in SomeTarget
    BY <1>5 DEF Kept, States
  <2> QED BY <2>1, ViewTypes
<1> HIDE DEF v
<1>8. job' \in Jobs /\ JobFits(job', Loading(s))
  BY <1>2, <1>6, <1>7, JobTypes
<1> QED BY <1>2, <1>6, <1>8, SwapStep

LEMMA CommandChangeViews ==
    ASSUME Views, CommandChange \/ CommandRefused
    PROVE  Views' /\ Untouched
<1>1. PICK w \in WS :
        /\ \/ \E row \in Ids : st' = Swapped(w, TypedChange(Entered(w), row))
           \/ st' = Swapped(w, Entered(w))
        /\ shown' = w /\ job' = IF w = shown THEN job ELSE Stop(job)
  BY DEF CommandChange, CommandRefused
<1>2. Still(st[w], Entered(w))
  BY EnteredKeeps
<1>3. PICK t : st' = Swapped(w, t) /\ Still(st[w], t)
  <2>1. CASE st' = Swapped(w, Entered(w))
    BY <1>2, <2>1
  <2>2. CASE \E row \in Ids : st' = Swapped(w, TypedChange(Entered(w), row))
    <3>1. PICK row \in Ids : st' = Swapped(w, TypedChange(Entered(w), row))
      BY <2>2
    <3>2. Still(Entered(w), TypedChange(Entered(w), row))
      BY <1>2, TypedChangeKeeps DEF Still, Kept
    <3>3. Still(st[w], TypedChange(Entered(w), row))
      BY <1>2, <3>2 DEF Still, Kept
    <3> QED BY <3>1, <3>3
  <2> QED BY <1>1, <2>1, <2>2
<1>4. job' \in Jobs /\ JobFits(job', t)
  <2>1. CASE w = shown
    BY <1>1, <1>3, <2>1 DEF Views, JobFits, Still
  <2>2. CASE w # shown
    <3>1. t \in States /\ job' = NoJob
      BY <1>1, <1>3, <2>2 DEF Still, Kept, Stop
    <3> QED BY <3>1, JobTypes, NoneTypes
  <2> QED BY <2>1, <2>2
<1> QED BY <1>1, <1>3, <1>4, SwapStep DEF Still

LEMMA CommandListViews ==
    ASSUME Views, CommandList
    PROVE  Views' /\ Untouched
<1>1. PICK w \in WS, kind \in {"list", "other"} :
        LET s == [InvalidateResults(Entered(w)) EXCEPT !.view = Parse(st[w], kind)]
        IN st' = Swapped(w, Loading(s)) /\ shown' = w /\ job' = Reading(s.view)
  BY DEF CommandList
<1> DEFINE e == Entered(w)
           r == InvalidateResults(e)
           v == Parse(st[w], kind)
           s == [r EXCEPT !.view = v]
<1>2. st' = Swapped(w, Loading(s)) /\ shown' = w /\ job' = Reading(s.view)
  BY <1>1
<1>3. Kept(st[w], e)
  BY EnteredKeeps DEF Still
<1>4. v \in ReadSet
  BY Here, ViewTypes DEF Parse
<1> HIDE DEF e, v
<1>5. Kept(st[w], r) /\ r.data = NoData
  BY <1>3, InvalidateKeeps DEF Kept
<1> HIDE DEF r
<1>6. s \in States
  BY <1>4, <1>5 DEF Kept, States
<1>7. s.view = v /\ s.data = NoData /\ s.back = r.back /\ s.browser = r.browser
      /\ s.uncertain = r.uncertain
  BY <1>5 DEF Kept, States
<1> HIDE DEF s
<1>8. Kept(st[w], s)
  BY <1>5, <1>6, <1>7 DEF Kept, Fine, Matches
<1>9. Kept(st[w], Loading(s)) /\ Loading(s).view = s.view /\ Loading(s) \in States
  BY <1>8, WaitKeeps DEF Kept, Still
<1>10. job' \in Jobs /\ JobFits(job', Loading(s))
  BY <1>2, <1>4, <1>7, <1>9, JobTypes
<1> QED BY <1>2, <1>9, <1>10, SwapStep

LEMMA CommandCliViews ==
    ASSUME Views, CommandCli
    PROVE  Views' /\ Untouched
<1>1. PICK w \in WS : st' = Swapped(w, Cancel(Entered(w))) /\ shown' = w /\ job' = NoJob
  BY DEF CommandCli, Stop
<1>2. Kept(st[w], Entered(w))
  BY EnteredKeeps DEF Still
<1>3. Kept(st[w], Cancel(Entered(w)))
  BY <1>2, WaitKeeps DEF Kept, Still
<1>4. job' \in Jobs /\ JobFits(job', Cancel(Entered(w)))
  BY <1>1, <1>3, JobTypes, NoneTypes DEF Kept
<1> QED BY <1>1, <1>3, <1>4, SwapStep

LEMMA ChooseViews ==
    ASSUME Views, Choose
    PROVE  Views' /\ Untouched
<1>1. PICK w \in WS : /\ shown' = w /\ st' = [st EXCEPT ![w] = Loading(@)]
                      /\ job' = Reading(st[w].view)
  BY DEF Choose
<1>2. Still(st[w], Loading(st[w])) /\ st[w].view \in ReadSet
  BY Here, WaitKeeps
<1>3. job' \in Jobs /\ JobFits(job', Loading(st[w]))
  BY <1>1, <1>2, JobTypes DEF Still, Kept
<1>4. st' = [st EXCEPT ![w] = Loading(st[w])]
  BY <1>1 DEF Views
<1> HIDE DEF Loading
<1> QED BY <1>1, <1>2, <1>3, <1>4 DEF Views, Untouched, Still, Kept

LEMMA KeyElsewhereViews ==
    ASSUME Views, Ui, KeyElsewhere
    PROVE  Views' /\ Untouched
<1> DEFINE s == st[shown]
<1>1. shown \in WS /\ s \in States /\ Fine(s) /\ s.view \in ReadSet /\ Kept(s, s)
  BY Here
<1>2. None \in SomeTarget /\ None \in Inputs
  BY NoneTypes DEF Inputs
<1>3. CASE KeyBackground \/ KeyInSessions
  BY <1>1, <1>3, SetFieldSteps, ShowStep DEF KeyBackground, KeyInSessions
<1>4. CASE LeaveCli \/ EditFilter \/ Choose
  BY <1>4, LeaveCliViews, EditFilterViews, ChooseViews
<1>5. CASE KeyCtrlC
  BY <1>5, AskToQuitViews DEF KeyCtrlC
<1>6. CASE ConfirmQuit \/ RefuseQuit
  BY <1>6, SetFieldSteps DEF ConfirmQuit, RefuseQuit
<1>7. CASE KeyInMenu
  <2>1. NativeCli => RunRowKey
    BY DEF RunRowKey
  <2> QED BY <1>7, <2>1, SetFieldSteps, RunRowKeyViews DEF KeyInMenu
<1>8. CASE ApplyTarget
  <2>1. PICK w \in WS, x \in Ids : ShowRefreshed(w, Targeted(st[w], x))
    BY <1>8 DEF ApplyTarget
  <2>2. Kept(st[w], Targeted(st[w], x))
    BY Here, NoneTypes, TargetedKeeps
  <2> QED BY <2>1, <2>2, ShowStep
<1>9. CASE ConfirmNative
  <2>1. Kept(s, [s EXCEPT !.native = None])
    BY <1>1, <1>2, FieldsKeep DEF Still
  <2> QED BY <1>9, <2>1, StoppedStep DEF ConfirmNative
<1>10. CASE Confirm
  BY <1>2, <1>10, SetFieldSteps DEF Confirm
<1>11. CASE Refuse
  <2> DEFINE p == IF s.native # None THEN s.pending ELSE None
  <2>1. p \in SomeTarget
    BY <1>1, <1>2 DEF States
  <2>2. Set([s EXCEPT !.native = None, !.pending = p])
    BY <1>11 DEF Refuse
  <2> HIDE DEF p
  <2> QED BY <1>2, <2>1, <2>2, SetFieldSteps
<1>12. CASE CloseInput \/ EnterFilter
  BY <1>2, <1>12, SetFieldSteps DEF CloseInput, EnterFilter
<1>13. CASE EnterPorts
  <2>1. Kept(s, [s EXCEPT !.input = None, !.forward = None])
    BY <1>1, <1>2, FieldsKeep DEF Still
  <2> QED BY <1>13, <2>1, StoppedStep DEF EnterPorts
<1>14. CASE CommandRead \/ CommandChange \/ CommandList \/ CommandCli \/ CommandRefused
  BY <1>14, CommandReadViews, CommandChangeViews, CommandListViews, CommandCliViews
<1>15. CASE CommandQuit
  BY <1>2, <1>15, ExitViews, SetFieldSteps DEF CommandQuit
<1>16. CASE LeaveChoosing
  BY <1>16, ExitViews, SetFieldSteps DEF LeaveChoosing
<1> QED BY <1>3, <1>4, <1>5, <1>6, <1>7, <1>8, <1>9, <1>10, <1>11, <1>12, <1>13, <1>14,
           <1>15, <1>16 DEF KeyElsewhere

(* The end of a change: its outcome is kept by the workspace it was for.   *)
LEMMA ToldStates ==
    ASSUME Views, Changes, change # NoChange, NEW r \in ChangeResults
    PROVE  /\ Told(r) \in [WS -> States] /\ Outcome(r) \subseteq 1..changes
           /\ \A w \in WS : /\ Fine(Told(r)[w]) /\ Told(r)[w].view = st[w].view
                            /\ Told(r)[w].data = st[w].data
           /\ Told(r)["C"].uncertain \cup Told(r)["K"].uncertain = unknown \cup Outcome(r)
<1>1. change.ws \in WS /\ change.no \in 1..changes /\ changes \in 0..MaxChanges
  BY DEF Changes
<1>2. Outcome(r) \subseteq 1..changes /\ Outcome(r) \subseteq 1..MaxChanges
  BY <1>1, ConsoleAssumption DEF Outcome
<1> DEFINE o == Outcome(r)
           q == [w \in WS |-> IF w = shown THEN [st[w] EXCEPT !.quit = FALSE] ELSE st[w]]
           f == [w \in WS |-> IF w = change.ws
                              THEN [q[w] EXCEPT !.uncertain = q[w].uncertain \cup o] ELSE q[w]]
<1>3. \A w \in WS : Still(st[w], q[w])
  BY Here, FieldsKeep
<1>4. Told(r) = f
  BY <1>1 DEF Told, Views
<1> HIDE DEF o, q
<1>5. \A w \in WS : f[w] \in States /\ Fine(f[w]) /\ f[w].view = st[w].view
                    /\ f[w].data = st[w].data
  <2> SUFFICES ASSUME NEW w \in WS
               PROVE  f[w] \in States /\ Fine(f[w]) /\ f[w].view = st[w].view
                      /\ f[w].data = st[w].data
    OBVIOUS
  <2> DEFINE s == q[w]
             t == [s EXCEPT !.uncertain = s.uncertain \cup o]
  <2>1. s \in States /\ Fine(s) /\ s.view = st[w].view /\ s.data = st[w].data
    BY <1>3 DEF Still, Kept
  <2>2. f[w] \in {s, t}
    OBVIOUS
  <2>3. s.uncertain \cup o \in SUBSET (1..MaxChanges)
    BY <1>2, <2>1 DEF o, States
  <2> HIDE DEF s
  <2>4. t \in States
    BY <2>1, <2>3 DEF States
  <2>5. t.view = s.view /\ t.data = s.data /\ t.back = s.back /\ t.browser = s.browser
    BY <2>1 DEF States
  <2> HIDE DEF t
  <2> QED BY <2>1, <2>2, <2>4, <2>5 DEF Fine
<1>6. \A w \in WS : f[w].uncertain = IF w = change.ws THEN st[w].uncertain \cup o
                                     ELSE st[w].uncertain
  <2> SUFFICES ASSUME NEW w \in WS
               PROVE  f[w].uncertain = IF w = change.ws THEN st[w].uncertain \cup o
                                       ELSE st[w].uncertain
    OBVIOUS
  <2>1. q[w] \in States /\ q[w].uncertain = st[w].uncertain
    BY <1>3 DEF Still, Kept
  <2>2. [q[w] EXCEPT !.uncertain = q[w].uncertain \cup o].uncertain = q[w].uncertain \cup o
    BY <2>1 DEF States
  <2> QED BY <2>1, <2>2
<1>7. f["C"].uncertain \cup f["K"].uncertain = unknown \cup o
  <2>1. "C" \in WS /\ "K" \in WS /\ change.ws \in {"C", "K"}
    BY <1>1 DEF WS
  <2> HIDE DEF f
  <2> QED BY <1>6, <2>1 DEF Changes
<1>8. f \in [WS -> States]
  BY <1>5
<1> HIDE DEF f
<1> QED BY <1>2, <1>4, <1>5, <1>7, <1>8 DEF o

LEMMA FinishChanges ==
    ASSUME Views, Changes, NEW r \in ChangeResults, FinishMutation(r),
           \A w \in WS : st'[w].uncertain = Told(r)[w].uncertain
    PROVE  Changes'
<1>1. change # NoChange
  BY DEF FinishMutation
<1>2. Outcome(r) \subseteq 1..changes
      /\ Told(r)["C"].uncertain \cup Told(r)["K"].uncertain = unknown \cup Outcome(r)
  BY <1>1, ToldStates
<1>3. st'["C"].uncertain \cup st'["K"].uncertain = unknown \cup Outcome(r)
  BY <1>2 DEF WS
<1> QED BY <1>2, <1>3 DEF Changes, FinishMutation

LEMMA ChangeEndsViews ==
    ASSUME Views, Changes, ChangeEnds \/ DrainEnds
    PROVE  Views' /\ Changes'
<1>1. PICK r \in ChangeResults :
        /\ FinishMutation(r)
        /\ \/ st' = [Told(r) EXCEPT ![shown] = Cancel(@)] /\ job' = Stop(job)
           \/ st' = [Told(r) EXCEPT ![shown] = Loading(@)] /\ job' = Reading(st[shown].view)
           \/ st' = Told(r) /\ UNCHANGED job
        /\ UNCHANGED shown
  BY DEF ChangeEnds, DrainEnds
<1> DEFINE f == Told(r)
<1>2. change # NoChange
  BY <1>1 DEF FinishMutation
<1>3. f \in [WS -> States] /\ \A w \in WS : Fine(f[w]) /\ f[w].view = st[w].view
                                           /\ f[w].data = st[w].data
  BY <1>2, ToldStates
<1>4. shown \in WS /\ job \in Jobs /\ JobFits(job, st[shown]) /\ st[shown].view \in ReadSet
  BY Here DEF Views
<1> HIDE DEF f
<1>5. Still(f[shown], Cancel(f[shown])) /\ Still(f[shown], Loading(f[shown]))
  BY <1>3, <1>4, WaitKeeps
<1>6. CASE st' = [f EXCEPT ![shown] = Cancel(@)] /\ job' = Stop(job)
  <2>1. st' = [f EXCEPT ![shown] = Cancel(f[shown])]
    BY <1>3, <1>4, <1>6
  <2>2. job' \in Jobs /\ JobFits(job', Cancel(f[shown]))
    BY <1>4, <1>5, <1>6, JobTypes DEF Stop, Still, Kept
  <2> QED BY <1>1, <1>3, <1>4, <1>5, <2>1, <2>2, FinishChanges DEF Views, Still, Kept, f
<1>7. CASE st' = [f EXCEPT ![shown] = Loading(@)] /\ job' = Reading(st[shown].view)
  <2>1. st' = [f EXCEPT ![shown] = Loading(f[shown])]
    BY <1>3, <1>4, <1>7
  <2>2. job' \in Jobs /\ JobFits(job', Loading(f[shown]))
    BY <1>3, <1>4, <1>5, <1>7, JobTypes DEF Still, Kept
  <2> QED BY <1>1, <1>3, <1>4, <1>5, <2>1, <2>2, FinishChanges DEF Views, Still, Kept, f
<1>8. CASE st' = f /\ UNCHANGED job
  <2>1. JobFits(job, f[shown])
    BY <1>3, <1>4 DEF JobFits
  <2> QED BY <1>1, <1>3, <1>4, <1>8, <2>1, FinishChanges DEF Views, f
<1> QED BY <1>1, <1>6, <1>7, <1>8 DEF f

-----------------------------------------------------------------------------
(* Changes, sessions and the end *)

Quiet == UNCHANGED <<change, unknown, changes>> /\ cancelled' \in BOOLEAN
Runs == phase' \in {"run", "drain", "panic"} /\ exiting' \in BOOLEAN /\ told' = told

LEMMA QuietChanges ==
    ASSUME Changes, Untouched, Quiet
    PROVE  Changes'
BY DEF Changes, Untouched, Quiet, WS

LEMMA Pressed ==
    ASSUME KeyOfView \/ KeyElsewhere \/ KeyColon
    PROVE  keys' = keys + 1
<1>1. ASSUME NEW key, Press(key) PROVE keys' = keys + 1
  BY <1>1 DEF Press
<1>2. ASSUME NEW focus, NEW key, PressAt(focus, key) PROVE keys' = keys + 1
  BY <1>1, <1>2 DEF PressAt
<1>3. ASSUME KeyOfView PROVE keys' = keys + 1
  BY <1>2, <1>3 DEF KeyOfView, KeyQuit, KeyTab, KeyRefresh, KeyAll, KeyVms, KeyPick,
     KeyNamespaces, KeyConfigure, KeySlash, KeyMove, KeyEsc, EnterPick, EnterRow, KeySettings, KeyRow,
     KeyStartVm, KeyHamn, KeyMenu, KeyTargets
<1>4. ASSUME KeyElsewhere PROVE keys' = keys + 1
  BY <1>1, <1>2, <1>4 DEF KeyElsewhere, KeyBackground, KeyInSessions, LeaveCli, KeyCtrlC,
     ConfirmQuit, RefuseQuit, KeyInMenu, ApplyTarget, ConfirmNative, Confirm, Refuse,
     CloseInput, EditFilter, EnterFilter, EnterPorts, CommandRead, CommandChange,
     CommandList, CommandCli, CommandRefused, CommandQuit, Prompt, Choose, LeaveChoosing
<1> QED BY <1>2, <1>3, <1>4 DEF KeyColon

LEMMA BackgroundPresses ==
    ASSUME Background
    PROVE  keys' = keys
BY DEF Background, ReadAnswers, Receive, Tick, ReloadEnds, ChangeEnds, CliExits, CliFails,
       BackgroundExits, Terminate, Interrupt, InputLost

(* The sessions while the prompts and the screen are left alone.           *)
SessionsFit ==
    /\ sessions' \in Seq(SessionSet) /\ Len(sessions') <= MaxSessions
    /\ cli' \in SessionSet \cup {NoSession}
    /\ cli' # NoSession => Len(sessions') < MaxSessions
    /\ overlay' \in Overlays

LEMMA SameSessions ==
    ASSUME Ui, UNCHANGED sessions, cli' \in {cli, NoSession}, overlay' \in Overlays
    PROVE  SessionsFit
BY DEF Ui, SessionsFit

LEMMA SameUi ==
    ASSUME Ui, UNCHANGED <<cli, sessions, overlay>>
    PROVE  SessionsFit
BY DEF Ui, SessionsFit

LEMMA ExitRest ==
    ASSUME Ui, Changes, Ends, Exit
    PROVE  Quiet /\ Runs /\ SessionsFit
<1>1. cancelled' \in BOOLEAN
  BY Zenon DEF Exit
<1>2. Quiet /\ Runs
  BY <1>1 DEF Exit, Quiet, Runs, Ends
<1>3. <<>> \in Seq(SessionSet) /\ Len(<<>>) = 0 /\ MaxSessions \in Nat
  BY ConsoleAssumption
<1> QED BY <1>2, <1>3 DEF Exit, SessionsFit, Ui

LEMMA KeepRest ==
    ASSUME Ui, Changes, Ends, UNCHANGED <<changeVars, endVars>>, phase = "run"
    PROVE  Quiet /\ Runs
BY DEF Changes, Ends, changeVars, endVars, Quiet, Runs

LEMMA OpenCliRest ==
    ASSUME Ui, NEW w \in WS, NEW reset \in BOOLEAN, OpenCli(w, reset), UNCHANGED overlay
    PROVE  SessionsFit
<1>1. Open(w, reset) \in SessionSet
  BY DEF Open, SessionSet
<1> QED BY <1>1 DEF OpenCli, Ui, SessionsFit

LEMMA AskToQuitRest ==
    ASSUME Ui, Changes, Ends, phase = "run", AskToQuit
    PROVE  Quiet /\ Runs /\ SessionsFit
BY ExitRest, KeepRest, SameUi DEF AskToQuit, uiVars

LEMMA RemoveSession ==
    ASSUME Ui, NEW i \in 1..Len(sessions)
    PROVE  /\ RemoveAt(sessions, i) \in Seq(SessionSet)
           /\ Len(RemoveAt(sessions, i)) = Len(sessions) - 1
           /\ sessions[i] \in SessionSet
<1>1. sessions \in Seq(SessionSet) /\ Len(sessions) \in Nat
  BY DEF Ui
<1> DEFINE a == SubSeq(sessions, 1, i - 1)
           b == SubSeq(sessions, i + 1, Len(sessions))
<1>2. a \in Seq(SessionSet) /\ Len(a) = i - 1
  BY <1>1
<1>3. b \in Seq(SessionSet) /\ Len(b) = Len(sessions) - i
  BY <1>1
<1>4. RemoveAt(sessions, i) = a \o b
  BY DEF RemoveAt
<1> HIDE DEF a, b
<1> QED BY <1>1, <1>2, <1>3, <1>4

LEMMA BackgroundRest ==
    ASSUME Ui, Changes, Ends, phase = "run", Background
    PROVE  (Quiet \/ ChangeEnds) /\ Runs /\ SessionsFit
<1>1. CASE ReadAnswers \/ Receive \/ Tick
  BY <1>1, KeepRest, SameUi DEF ReadAnswers, Receive, Tick, uiVars
<1>2. CASE ReloadEnds
  <2>1. Quiet
    BY <1>2 DEF ReloadEnds, Changes, Quiet, changeVars
  <2>2. Runs
    BY <1>2 DEF ReloadEnds, Ends, Runs, endVars
  <2> QED BY <1>2, <2>1, <2>2, SameUi DEF ReloadEnds, uiVars
<1>3. CASE ChangeEnds
  <2>1. Runs
    BY <1>3 DEF ChangeEnds, Ends, Runs
  <2>2. CASE exiting
    <3>1. <<>> \in Seq(SessionSet) /\ Len(<<>>) = 0 /\ MaxSessions \in Nat
      BY ConsoleAssumption
    <3> QED BY <1>3, <2>1, <2>2, <3>1 DEF ChangeEnds, SessionsFit, Ui
  <2>3. CASE ~exiting
    BY <1>3, <2>1, <2>3, SameUi DEF ChangeEnds
  <2> QED BY <1>3, <2>2, <2>3
<1>4. CASE CliExits
  <2>1. CASE exiting /\ change = NoChange
    BY <1>4, <2>1, ExitRest DEF CliExits
  <2>2. CASE ~(exiting /\ change = NoChange)
    <3>1. [cli EXCEPT !.exit = TRUE] \in SessionSet /\ UNCHANGED <<sessions, overlay>>
      BY <1>4, <2>2 DEF CliExits, Ui, SessionSet
    <3>2. cli' \in SessionSet \cup {NoSession} /\ cli # NoSession
      BY <1>4, <2>2, <3>1 DEF CliExits
    <3>3. SessionsFit
      BY <3>1, <3>2 DEF SessionsFit, Ui
    <3> QED BY <1>4, <2>2, <3>3, KeepRest DEF CliExits
  <2> QED BY <2>1, <2>2
<1>5. CASE CliFails
  BY <1>5, KeepRest, SameSessions DEF CliFails, Ui
<1>6. CASE BackgroundExits
  <2>1. PICK i \in 1..Len(sessions) :
          sessions' \in {[sessions EXCEPT ![i].exit = TRUE], RemoveAt(sessions, i)}
    BY <1>6 DEF BackgroundExits
  <2> DEFINE x == [sessions[i] EXCEPT !.exit = TRUE]
             y == [sessions EXCEPT ![i] = x]
             z == RemoveAt(sessions, i)
  <2>2. x \in SessionSet
    BY <2>1, RemoveSession DEF SessionSet
  <2>3. sessions' \in {y, z}
    BY <2>1 DEF Ui
  <2> HIDE DEF x
  <2>4. y \in Seq(SessionSet) /\ Len(y) = Len(sessions) /\ Len(sessions) \in Nat
    BY <2>1, <2>2 DEF Ui
  <2>5. sessions' \in Seq(SessionSet) /\ Len(sessions') <= Len(sessions) /\ Len(sessions') \in Nat
    <3>1. z \in Seq(SessionSet) /\ Len(z) = Len(sessions) - 1 /\ Len(z) \in Nat
      BY <2>1, RemoveSession
    <3> HIDE DEF y, z
    <3> QED BY <2>3, <2>4, <3>1
  <2>6. UNCHANGED <<cli, overlay>>
    BY <1>6 DEF BackgroundExits
  <2>7. SessionsFit
    BY <2>5, <2>6, ConsoleAssumption DEF SessionsFit, Ui
  <2> QED BY <1>6, <2>7, KeepRest DEF BackgroundExits
<1>7. CASE Terminate
  <2>1. CASE change = NoChange /\ (cli = NoSession \/ cli.exit)
    BY <1>7, <2>1, ExitRest DEF Terminate
  <2>2. CASE ~(change = NoChange /\ (cli = NoSession \/ cli.exit))
    <3>1. cancelled' \in BOOLEAN
      BY <1>7, <2>2, Zenon DEF Terminate
    <3>2. Quiet /\ Runs
      BY <1>7, <2>2, <3>1 DEF Terminate, Quiet, Runs, Proceed, Ends
    <3> QED BY <1>7, <2>2, <3>2, SameSessions DEF Terminate, Proceed, Ui
  <2> QED BY <2>1, <2>2
<1>8. CASE Interrupt \/ InputLost
  BY <1>8, AskToQuitRest, ExitRest DEF Interrupt, InputLost
<1> QED BY <1>1, <1>2, <1>3, <1>4, <1>5, <1>6, <1>7, <1>8 DEF Background

LEMMA OverlayFits ==
    ASSUME Ui, Views
    PROVE  /\ \A b \in BOOLEAN : [overlay EXCEPT !.sessions = b] \in Overlays
           /\ [overlay EXCEPT !.choosing = None] \in Overlays
           /\ [overlay EXCEPT !.choosing = "settings"] \in Overlays
           /\ [overlay EXCEPT !.menu = NoMenu] \in Overlays
           /\ \A kind \in {"actions", "logs", "targets"} :
                 [overlay EXCEPT !.menu = [kind |-> kind, row |-> Selected(st[shown])]] \in Overlays
<1>1. Selected(st[shown]) \in SomeTarget
  BY Here, SelectedRow
<1>2. None \in SomeTarget
  BY NoneTypes
<1> QED BY <1>1, <1>2 DEF Ui, Overlays, NoMenu

LEMMA RunRowKeyRest ==
    ASSUME Ui, Views, RunRowKey, overlay' \in Overlays
    PROVE  SessionsFit
<1>1. CASE NativeChange \/ Related \/ OpenPortForward
  BY <1>1, SameSessions DEF NativeChange, Related, OpenPortForward
<1>2. CASE NativeCli
  <2>1. Open(shown, FALSE) \in SessionSet
    BY DEF Open, SessionSet, Views
  <2> QED BY <1>2, <2>1 DEF NativeCli, OpenCli, Ui, SessionsFit
<1> QED BY <1>1, <1>2 DEF RunRowKey

LEMMA KeyOfViewRest ==
    ASSUME Ui, Changes, Ends, Views, phase = "run", KeyOfView \/ KeyColon
    PROVE  Quiet /\ Runs /\ SessionsFit
<1>1. CASE KeyQuit
  BY <1>1, AskToQuitRest DEF KeyQuit
<1>2. CASE KeyTab \/ KeyRefresh \/ KeyAll \/ KeyVms \/ KeyPick \/ KeyNamespaces
           \/ KeyConfigure \/ KeySlash \/ KeyMove \/ KeyEsc \/ EnterPick \/ EnterRow \/ KeyStartVm \/ KeyHamn \/ KeyColon
  <2>1. KeepUi
    BY <1>2 DEF KeyTab, KeyRefresh, KeyAll, KeyVms, KeyPick, KeyNamespaces, KeyConfigure, KeySlash,
        KeyMove, KeyEsc, EnterPick, EnterRow, KeyStartVm, KeyHamn, KeyColon
  <2> QED BY <2>1, KeepRest, SameUi DEF KeepUi, uiVars
<1>3. CASE KeySettings
  BY <1>3, KeepRest, OverlayFits, SameSessions DEF KeySettings
<1>4. CASE KeyMenu \/ KeyTargets
  BY <1>4, KeepRest, OverlayFits, SameSessions DEF KeyMenu, KeyTargets, OpenMenu
<1>5. CASE KeyRow
  BY <1>5, KeepRest, RunRowKeyRest DEF KeyRow, Ui
<1> QED BY <1>1, <1>2, <1>3, <1>4, <1>5 DEF KeyOfView

LEMMA KeyElsewhereRest ==
    ASSUME Ui, Changes, Ends, Views, phase = "run", KeyElsewhere
    PROVE  (Quiet \/ Confirm) /\ Runs /\ SessionsFit
<1>1. CASE KeyBackground
  <2>1. overlay' \in Overlays
    BY <1>1, OverlayFits DEF KeyBackground
  <2>2. CASE cli = NoSession
    BY <1>1, <2>1, <2>2, KeepRest, SameSessions DEF KeyBackground
  <2>3. CASE cli # NoSession
    <3>1. cli \in SessionSet /\ sessions \in Seq(SessionSet) /\ Len(sessions) < MaxSessions
      BY <2>3 DEF Ui
    <3>2. sessions' = Append(sessions, cli) /\ cli' = NoSession
      BY <1>1, <2>3 DEF KeyBackground
    <3>3. Len(sessions') = Len(sessions) + 1 /\ sessions' \in Seq(SessionSet)
      BY <3>1, <3>2
    <3>4. SessionsFit
      BY <2>1, <3>1, <3>2, <3>3, ConsoleAssumption DEF SessionsFit
    <3> QED BY <1>1, <3>4, KeepRest DEF KeyBackground
  <2> QED BY <2>2, <2>3
<1>2. CASE KeyInSessions
  <2>1. overlay' \in Overlays
    BY <1>2, OverlayFits DEF KeyInSessions, Ui
  <2>2. CASE UNCHANGED <<cli, sessions>>
    BY <1>2, <2>1, <2>2, KeepRest, SameSessions DEF KeyInSessions
  <2>3. CASE \E i \in 1..Len(sessions) :
               sessions' = RemoveAt(sessions, i) /\ cli' \in {sessions[i], cli}
    <3>1. PICK i \in 1..Len(sessions) :
             sessions' = RemoveAt(sessions, i) /\ cli' \in {sessions[i], cli}
      BY <2>3
    <3>2. sessions' \in Seq(SessionSet) /\ Len(sessions') = Len(sessions) - 1
          /\ cli' \in SessionSet \cup {NoSession}
      BY <3>1, RemoveSession DEF Ui
    <3>3. Len(sessions) \in Nat /\ Len(sessions) <= MaxSessions /\ MaxSessions \in Nat
      BY ConsoleAssumption DEF Ui
    <3>4. SessionsFit
      BY <2>1, <3>2, <3>3 DEF SessionsFit
    <3> QED BY <1>2, <3>4, KeepRest DEF KeyInSessions
  <2> QED BY <1>2, <2>2, <2>3 DEF KeyInSessions
<1>3. CASE LeaveCli
  BY <1>3, KeepRest, SameSessions DEF LeaveCli, Ui
<1>4. CASE KeyCtrlC
  BY <1>4, AskToQuitRest DEF KeyCtrlC
<1>5. CASE ConfirmQuit
  <2>1. cancelled' \in BOOLEAN
    BY <1>5, Zenon DEF ConfirmQuit
  <2>2. Quiet /\ Runs
    BY <1>5, <2>1 DEF ConfirmQuit, Quiet, Runs, Proceed, Ends
  <2> QED BY <1>5, <2>2, SameUi DEF ConfirmQuit, Proceed
<1>6. CASE RefuseQuit \/ Refuse \/ CloseInput \/ EditFilter \/ EnterFilter \/ CommandRead
           \/ CommandChange \/ CommandList \/ CommandRefused
  <2>1. KeepUi
    BY <1>6 DEF RefuseQuit, Refuse, CloseInput, EditFilter, EnterFilter, CommandRead,
        CommandChange, CommandList, CommandRefused
  <2> QED BY <2>1, KeepRest, SameUi DEF KeepUi, uiVars
<1>7. CASE KeyInMenu
  <2>1. overlay' \in Overlays
    BY <1>7, OverlayFits DEF KeyInMenu, CloseMenu
  <2>2. RunRowKey \/ NativeCli => RunRowKey
    BY DEF RunRowKey
  <2>3. UNCHANGED <<cli, sessions>> \/ RunRowKey
    BY <1>7, <2>2 DEF KeyInMenu
  <2>4. SessionsFit
    BY <2>1, <2>3, RunRowKeyRest, SameSessions
  <2> QED BY <1>7, <2>4, KeepRest DEF KeyInMenu
<1>8. CASE ApplyTarget
  BY <1>8, KeepRest, OverlayFits, SameSessions DEF ApplyTarget, CloseMenu
<1>9. CASE ConfirmNative \/ EnterPorts
  BY <1>9, KeepRest, OpenCliRest DEF ConfirmNative, EnterPorts, Views
<1>10. CASE Confirm
  <2>1. Runs
    BY <1>10 DEF Confirm, Ends, Runs, endVars
  <2> QED BY <1>10, <2>1, SameUi DEF Confirm, uiVars
<1>11. CASE CommandCli
  BY <1>11, KeepRest, OpenCliRest DEF CommandCli
<1>12. CASE CommandQuit
  BY <1>12, ExitRest, KeepRest, SameUi DEF CommandQuit, KeepUi, uiVars
<1>13. CASE Choose
  BY <1>13, KeepRest, OverlayFits, SameSessions DEF Choose
<1>14. CASE LeaveChoosing
  BY <1>14, ExitRest, KeepRest, OverlayFits, SameSessions DEF LeaveChoosing
<1> QED BY <1>1, <1>2, <1>3, <1>4, <1>5, <1>6, <1>7, <1>8, <1>9, <1>10, <1>11, <1>12, <1>13,
           <1>14 DEF KeyElsewhere

-----------------------------------------------------------------------------
(* The kinds of a cluster *)

LEMMA LookupTypes ==
    ASSUME NEW k, Lookup(k)
    PROVE  /\ k \in KindSet /\ k.target \in Names /\ k.running \in Nat /\ k.words \in Names
           /\ k.tickets \in Nat /\ "-" \in Names /\ NoLookup \in [ticket : Nat, of : Names]
           /\ \A a \in k.answers : /\ a.ticket \in 1..k.tickets /\ a.ticket # 0
                                   /\ a.words \in Names /\ a.failed \in BOOLEAN
<1>1. "-" \in Names
  BY DEF Names
<1>2. NoLookup \in [ticket : Nat, of : Names]
  BY <1>1 DEF NoLookup
<1>3. k \in KindSet
  BY DEF Lookup
<1>4. /\ k.target \in Names /\ k.running \in Nat /\ k.words \in Names /\ k.tickets \in Nat
      /\ \A a \in k.answers : a.words \in Names /\ a.failed \in BOOLEAN
  BY <1>3 DEF KindSet
<1>5. \A a \in k.answers : a.ticket \in 1..k.tickets
  BY DEF Lookup
<1> QED BY <1>1, <1>2, <1>3, <1>4, <1>5

LEMMA IdleLookup ==
    ASSUME NEW k, Lookup(k)
    PROVE  /\ Lookup(Idle(k)) /\ Idle(k).tickets = k.tickets
           /\ Idle(k).answers = k.answers /\ Idle(k).words = "-"
<1> DEFINE l == [k EXCEPT !.target = "-", !.running = 0, !.words = "-", !.failed = FALSE,
                          !.known = FALSE, !.task = NoLookup]
<1>0. k \in KindSet /\ "-" \in Names /\ NoLookup \in [ticket : Nat, of : Names]
  BY LookupTypes
<1>1. l \in KindSet
  BY <1>0 DEF KindSet
<1>2. /\ l.words = "-" /\ l.target = "-" /\ l.task = NoLookup /\ l.running = 0
      /\ l.tickets = k.tickets /\ l.answers = k.answers
  BY <1>0 DEF KindSet
<1>3. Idle(k) = l
  BY DEF Idle
<1> HIDE DEF l
<1>4. Lookup(l)
  BY <1>1, <1>2, LookupTypes DEF Lookup, Words
<1> QED BY <1>2, <1>3, <1>4

LEMMA BeginLookup ==
    ASSUME NEW k, Lookup(k), NEW t \in SomeTarget
    PROVE  Lookup(Begin(k, t))
<1> DEFINE n == k.tickets + 1
           base == IF k.target = t /\ k.known /\ k.failed THEN k ELSE Idle(k)
           task == [ticket |-> n, of |-> t]
           l == [base EXCEPT !.target = t, !.running = n, !.tickets = n, !.known = FALSE,
                             !.task = task]
<1>1. n \in Nat /\ t \in Names /\ task \in [ticket : Nat, of : Names] /\ n \in 1..n
  BY LookupTypes DEF Names
<1>2. Lookup(base) /\ base.answers = k.answers /\ base.words \in Words(t)
  BY IdleLookup DEF Lookup, Words
<1>3. Begin(k, t) = l
  BY DEF Begin
<1>4. \A a \in k.answers : a.ticket \in 1..n /\ a.ticket # n
  BY LookupTypes
<1>5. base \in KindSet
  BY <1>2 DEF Lookup
<1>6. task = [ticket |-> n, of |-> t]
  OBVIOUS
<1> HIDE DEF n, base, task
<1>7. l \in KindSet
  BY <1>1, <1>5 DEF KindSet
<1>8. l.target = t /\ l.running = n /\ l.tickets = n /\ l.task = task /\ l.words = base.words
      /\ l.answers = base.answers
  BY <1>5 DEF KindSet
<1> HIDE DEF l
<1> QED BY <1>1, <1>2, <1>3, <1>4, <1>6, <1>7, <1>8 DEF Lookup

LEMMA FinishLookups ==
    ASSUME NEW k, Lookup(k), NEW a \in k.answers
    PROVE  Lookup(FinishLookup(k, a)) /\ FinishLookup(k, a).answers = k.answers
<1>1. CASE k.running = a.ticket
  <2> DEFINE l == [k EXCEPT !.running = 0, !.known = TRUE, !.failed = a.failed, !.words = a.words]
  <2>1. FinishLookup(k, a) = l
    BY <1>1 DEF FinishLookup, FinishAnyTicket
  <2>2. a.words \in Words(k.target) /\ k.task = NoLookup
    BY <1>1 DEF Lookup
  <2>3. a.words \in Names /\ a.failed \in BOOLEAN /\ k \in KindSet
    BY LookupTypes
  <2>4. l \in KindSet
    BY <2>3 DEF KindSet
  <2>5. l.target = k.target /\ l.running = 0 /\ l.tickets = k.tickets /\ l.task = k.task
        /\ l.words = a.words /\ l.answers = k.answers
    BY <2>3 DEF KindSet
  <2> HIDE DEF l
  <2>6. Lookup(l)
    BY <2>2, <2>4, <2>5, LookupTypes DEF Lookup
  <2> QED BY <2>1, <2>5, <2>6
<1>2. CASE k.running # a.ticket
  BY <1>2 DEF FinishLookup
<1> QED BY <1>1, <1>2

LEMMA DropAnswer ==
    ASSUME NEW k, Lookup(k), NEW a
    PROVE  Lookup([k EXCEPT !.answers = @ \ {a}])
<1> DEFINE A == k.answers \ {a}
           l == [k EXCEPT !.answers = A]
<1>1. k.answers \subseteq [ticket : Nat, words : Names, failed : BOOLEAN] /\ k \in KindSet
  BY LookupTypes DEF KindSet
<1>2. A \in SUBSET [ticket : Nat, words : Names, failed : BOOLEAN] /\ A \subseteq k.answers
  BY <1>1
<1>3. [k EXCEPT !.answers = @ \ {a}] = l
  OBVIOUS
<1> HIDE DEF A
<1>4. l \in KindSet
  BY <1>1, <1>2 DEF KindSet
<1>5. l.target = k.target /\ l.running = k.running /\ l.tickets = k.tickets /\ l.task = k.task
      /\ l.words = k.words /\ l.answers = A
  BY <1>1 DEF KindSet
<1> HIDE DEF l
<1>6. Lookup(l)
  BY <1>2, <1>4, <1>5 DEF Lookup
<1> QED BY <1>3, <1>6

LEMMA LookupsStep ==
    ASSUME Lookups, Views, Views',
           \/ \E t \in SomeTarget : kinds' = Retarget(kinds, t)
           \/ KeyColon \/ LookupAnswers \/ ReceiveKinds \/ UNCHANGED kinds
    PROVE  Lookups'
<1>1. CASE \E t \in SomeTarget : kinds' = Retarget(kinds, t)
  BY <1>1, IdleLookup DEF Retarget, Lookups
<1>2. CASE KeyColon
  <2>1. st["K"].target \in SomeTarget
    BY DEF Views, States, WS
  <2> QED BY <1>2, <2>1, BeginLookup DEF KeyColon, Lookups
<1>3. CASE LookupAnswers
  <2>0. /\ kinds.task # NoLookup
        /\ \E l \in Listings(kinds.task.of) :
             kinds' = [kinds EXCEPT !.task = NoLookup, !.answers = kinds.answers \cup
                 {[ticket |-> kinds.task.ticket, words |-> l[1], failed |-> l[2]]}]
    BY <1>3, Zenon DEF LookupAnswers
  <2>1. PICK l \in Listings(kinds.task.of) :
          kinds' = [kinds EXCEPT !.task = NoLookup, !.answers = kinds.answers \cup
              {[ticket |-> kinds.task.ticket, words |-> l[1], failed |-> l[2]]}]
    BY <2>0, Zenon
  <2> DEFINE a == [ticket |-> kinds.task.ticket, words |-> l[1], failed |-> l[2]]
             A == kinds.answers \cup {a}
             m == [kinds EXCEPT !.task = NoLookup, !.answers = A]
  <2>2. kinds.task = [ticket |-> kinds.running, of |-> kinds.target]
        /\ kinds.running \in 1..kinds.tickets /\ kinds.task.of = kinds.target
    BY <2>0 DEF Lookups, Lookup
  <2>3. l[1] \in Words(kinds.target) /\ l[2] \in BOOLEAN
    <3>1. l = <<kinds.target, FALSE>> \/ l = <<kinds.target, TRUE>> \/ l = <<"-", TRUE>>
      BY <2>2, Zenon DEF Listings
    <3>2. (l[1] = kinds.target \/ l[1] = "-") /\ (l[2] = TRUE \/ l[2] = FALSE)
      <4>1. CASE l = <<kinds.target, FALSE>>
        BY <4>1
      <4>2. CASE l = <<kinds.target, TRUE>>
        BY <4>2
      <4>3. CASE l = <<"-", TRUE>>
        BY <4>3
      <4> QED BY <3>1, <4>1, <4>2, <4>3
    <3> QED BY <3>2, Zenon DEF Words
  <2>4. l[1] \in Names
    BY <2>3, LookupTypes DEF Words, Lookups
  <2>5. a.ticket = kinds.running /\ a.words = l[1]
        /\ a \in [ticket : Nat, words : Names, failed : BOOLEAN]
    BY <2>2, <2>3, <2>4
  <2>6. kinds' = m
    BY <2>1
  <2> HIDE DEF a
  <2>7. kinds \in KindSet /\ kinds.answers \subseteq [ticket : Nat, words : Names, failed : BOOLEAN]
    BY LookupTypes DEF KindSet, Lookups
  <2>8. A \in SUBSET [ticket : Nat, words : Names, failed : BOOLEAN]
    BY <2>5, <2>7
  <2>9. \A b \in A : b \in kinds.answers \/ b = a
    OBVIOUS
  <2> HIDE DEF A
  <2>10. m \in KindSet
    BY <2>7, <2>8, LookupTypes DEF KindSet, Lookups
  <2>11. m.target = kinds.target /\ m.running = kinds.running /\ m.tickets = kinds.tickets
         /\ m.task = NoLookup /\ m.words = kinds.words /\ m.answers = A
    BY <2>7 DEF KindSet
  <2> HIDE DEF m
  <2>12. Lookup(m)
    BY <2>2, <2>3, <2>5, <2>9, <2>10, <2>11 DEF Lookup, Lookups
  <2> QED BY <2>6, <2>12 DEF Lookups
<1>4. CASE ReceiveKinds
  <2>1. PICK a \in kinds.answers : kinds' = [FinishLookup(kinds, a) EXCEPT !.answers = @ \ {a}]
    BY <1>4 DEF ReceiveKinds
  <2> DEFINE k == FinishLookup(kinds, a)
  <2>2. Lookup(k)
    BY FinishLookups DEF Lookups
  <2>3. kinds' = [k EXCEPT !.answers = @ \ {a}]
    BY <2>1
  <2> HIDE DEF k
  <2> QED BY <2>2, <2>3, DropAnswer DEF Lookups
<1>5. CASE UNCHANGED kinds
  BY <1>5 DEF Lookups
<1> QED BY <1>1, <1>2, <1>3, <1>4, <1>5

-----------------------------------------------------------------------------
(* The invariant *)

LEMMA NewStates ==
    ASSUME NEW w \in WS, NEW s \in ForWorkspace(w)
    PROVE  /\ s \in States /\ Fine(s) /\ s.uncertain = {} /\ s.view \in ReadSet
           /\ [s EXCEPT !.loading = TRUE] \in States
           /\ Still(s, [s EXCEPT !.loading = TRUE])
<1>1. PICK t \in SomeTarget, kind \in {"list", "contexts"} : s = NewState(t, kind)
  BY ConsoleAssumption DEF ForWorkspace, SomeTarget, None
<1> DEFINE v == ViewOf(kind, t)
<1>2. v \in ReadSet
  BY <1>1, ViewTypes
<1>3. s = [view |-> v, target |-> t, data |-> NoData, sel |-> 1,
           hidden |-> {}, stale |-> FALSE, loading |-> FALSE, refreshing |-> FALSE,
           detail |-> None, back |-> NoSnapshot, browser |-> NoSnapshot,
           pending |-> None, native |-> None, input |-> None, forward |-> None,
           quit |-> FALSE, uncertain |-> {}]
  BY <1>1 DEF NewState
<1> HIDE DEF v
<1>4. None \in Details /\ None \in SomeTarget /\ NoData \in DataSet /\ NoSnapshot \in Snapshots
  BY NoneTypes
<1>5. s \in States
  BY <1>2, <1>3, <1>4 DEF States
<1>6. s.data = NoData /\ s.back = NoSnapshot /\ s.browser = NoSnapshot /\ s.uncertain = {}
      /\ s.view = v
  BY <1>3
<1>7. NoSnapshot.data = NoData
  BY DEF NoSnapshot
<1>8. Fine(s)
  BY <1>6, <1>7 DEF Fine, Matches
<1>9. [s EXCEPT !.loading = TRUE] \in States
  BY <1>5 DEF States
<1>10. /\ [s EXCEPT !.loading = TRUE].view = s.view /\ [s EXCEPT !.loading = TRUE].data = s.data
       /\ [s EXCEPT !.loading = TRUE].back = s.back
       /\ [s EXCEPT !.loading = TRUE].browser = s.browser
       /\ [s EXCEPT !.loading = TRUE].uncertain = s.uncertain
  BY <1>5 DEF States
<1>11. Fine([s EXCEPT !.loading = TRUE])
  BY <1>8, <1>10 DEF Fine
<1> QED BY <1>2, <1>5, <1>6, <1>8, <1>9, <1>10, <1>11 DEF Still, Kept

LEMMA InitViews ==
    ASSUME Init
    PROVE  Views /\ Changes
<1>1. hand \in Hands /\ shown \in WS
  BY ConsoleAssumption DEF Init, WS
<1>2. PICK c \in ForWorkspace("C") : \E k \in ForWorkspace("K") :
        LET new == [w \in WS |-> IF w = "C" THEN c ELSE k]
        IN  IF overlay.choosing = "first"
            THEN st = new /\ job = NoJob
            ELSE /\ st = [new EXCEPT ![shown].loading = TRUE]
                 /\ job = [NoJob EXCEPT !.of = new[shown].view]
  BY DEF Init
<1>3. PICK k \in ForWorkspace("K") :
        LET new == [w \in WS |-> IF w = "C" THEN c ELSE k]
        IN  IF overlay.choosing = "first"
            THEN st = new /\ job = NoJob
            ELSE /\ st = [new EXCEPT ![shown].loading = TRUE]
                 /\ job = [NoJob EXCEPT !.of = new[shown].view]
  BY <1>2
<1> DEFINE new == [w \in WS |-> IF w = "C" THEN c ELSE k]
<1> DEFINE Good(s) == /\ s \in States /\ Fine(s) /\ s.uncertain = {} /\ s.view \in ReadSet
                      /\ Still(s, [s EXCEPT !.loading = TRUE])
<1>4. \A w \in WS : Good(new[w])
  <2>1. Good(c) /\ Good(k)
    <3>1. "C" \in WS /\ "K" \in WS
      BY DEF WS
    <3> QED BY <3>1, NewStates
  <2> SUFFICES ASSUME NEW w \in WS PROVE Good(new[w])
    OBVIOUS
  <2>2. new[w] = c \/ new[w] = k
    OBVIOUS
  <2> HIDE DEF Good, new
  <2> QED BY <2>1, <2>2
<1>5. /\ changes \in 0..MaxChanges /\ cancelled \in BOOLEAN /\ change = NoChange
      /\ unknown = {}
  <2>1. changes = 0 /\ cancelled = FALSE /\ change = NoChange /\ unknown = {}
    BY Zenon DEF Init
  <2>2. changes \in 0..MaxChanges
    BY <2>1, ConsoleAssumption
  <2>3. cancelled \in BOOLEAN
    BY <2>1
  <2> QED BY <2>1, <2>2, <2>3
<1>6. CASE overlay.choosing = "first"
  <2>1. st = new /\ job = NoJob
    BY <1>3, <1>6
  <2>2. st \in [WS -> States] /\ \A w \in WS : st[w] = new[w]
    BY <1>4, <2>1
  <2> HIDE DEF new
  <2> QED BY <1>1, <1>4, <1>5, <2>1, <2>2, JobTypes DEF Views, Changes, WS
<1>7. CASE overlay.choosing # "first"
  <2> DEFINE r == Reading(new[shown].view)
  <2>1. st = [new EXCEPT ![shown].loading = TRUE] /\ job = r
    BY <1>3, <1>7 DEF Reading, Stop
  <2> DEFINE f == [w \in WS |-> IF w = shown THEN [new[w] EXCEPT !.loading = TRUE] ELSE new[w]]
  <2>2. st = f
    BY <1>1, <2>1
  <2> HIDE DEF new
  <2>3. \A w \in WS : /\ f[w] \in States /\ Fine(f[w]) /\ f[w].uncertain = {}
                      /\ f[w].view = new[w].view
    BY <1>4 DEF Still, Kept
  <2>4. f \in [WS -> States]
    BY <2>3
  <2> HIDE DEF f
  <2>5. r \in Jobs /\ JobFits(r, f[shown])
    BY <1>1, <1>4, <2>3, JobTypes
  <2> HIDE DEF r
  <2> QED BY <1>1, <1>5, <2>1, <2>2, <2>3, <2>4, <2>5 DEF Views, Changes, WS
<1> QED BY <1>6, <1>7

LEMMA InitInvariant ==
    ASSUME Init
    PROVE  IInv
<1>1. Views /\ Changes
  BY InitViews
<1>2. Ui
  <2>1. <<>> \in Seq(SessionSet) /\ Len(<<>>) = 0 /\ MaxSessions \in Nat
    BY ConsoleAssumption
  <2>2. NoMenu \in [kind : {None, "actions", "logs", "targets"}, row : SomeTarget]
    BY DEF NoMenu, SomeTarget
  <2>3. overlay \in Overlays
    BY <2>2 DEF Init, Overlays
  <2> QED BY <2>1, <2>3 DEF Init, Ui
<1>3. Ends
  BY DEF Init, Ends
<1>4. Lookups
  <2>1. "-" \in Names
    BY DEF Names
  <2>2. NoLookup \in [ticket : Nat, of : Names]
    BY <2>1 DEF NoLookup
  <2>3. kinds = [target |-> "-", running |-> 0, words |-> "-", failed |-> FALSE,
                 known |-> FALSE, task |-> NoLookup, tickets |-> 0, answers |-> {}]
    BY DEF Init
  <2>4. kinds \in KindSet
    BY <2>1, <2>2, <2>3 DEF KindSet
  <2> QED BY <2>3, <2>4 DEF Lookups, Lookup, Words
<1> QED BY <1>1, <1>2, <1>3, <1>4 DEF IInv

LEMMA KeyColonViews ==
    ASSUME Views, KeyColon
    PROVE  Views' /\ Untouched
BY SetFieldSteps DEF KeyColon, Inputs

LEMMA ConfirmChanges ==
    ASSUME Changes, Views, Untouched, Confirm
    PROVE  Changes'
<1>1. CASE change = NoChange
  <2>1. changes' = changes + 1 /\ changes < MaxChanges /\ changes \in Nat /\ MaxChanges \in Nat
    BY <1>1, ConsoleAssumption DEF Confirm, Changes
  <2>2. changes' \in 0..MaxChanges /\ 1..changes \subseteq 1..changes' /\ changes' \in 1..changes'
    BY <2>1
  <2>3. change' = [no |-> changes', ws |-> shown] /\ cancelled' = FALSE /\ unknown' = unknown
    BY <1>1 DEF Confirm
  <2>4. change' \in [no : 1..changes', ws : WS]
    BY <2>2, <2>3 DEF Views
  <2> QED BY <2>2, <2>3, <2>4 DEF Changes, Untouched, WS
<1>2. CASE change # NoChange
  <2>1. Quiet
    BY <1>2 DEF Confirm, Quiet, changeVars, Changes
  <2> QED BY <2>1, QuietChanges
<1> QED BY <1>1, <1>2

LEMMA KeepIInv ==
    ASSUME IInv, UNCHANGED <<shown, st, job, changeVars, uiVars, endVars>>, Lookups',
           keys' \in Nat, hand' = hand
    PROVE  IInv'
<1>1. Views' /\ Changes'
  BY DEF IInv, Views, Changes, changeVars
<1>2. Ui' /\ Ends'
  BY DEF IInv, Ui, Ends, uiVars, endVars, changeVars, Overlays
<1> QED BY <1>1, <1>2 DEF IInv

LEMMA EndsRun ==
    ASSUME Changes, Ends, phase = "run", Runs, Quiet \/ Confirm \/ ChangeEnds
    PROVE  Ends'
<1>1. unknown \subseteq unknown'
  BY DEF Quiet, Confirm, ChangeEnds, FinishMutation, changeVars
<1> QED BY <1>1 DEF Ends, Runs

LEMMA StepInvariant ==
    ASSUME IInv, Next
    PROVE  IInv'
<1> USE DEF IInv
<1>1. CASE Loop /\ (KeyOfView \/ KeyElsewhere \/ Background \/ KeyColon)
  <2>0. phase = "run" /\ hand' = hand
    BY <1>1 DEF Loop
  <2>1. Views' /\ Changes'
    <3>1. CASE KeyOfView \/ KeyColon
      BY <2>0, <3>1, KeyOfViewViews, KeyColonViews, KeyOfViewRest, QuietChanges
    <3>2. CASE KeyElsewhere
      BY <2>0, <3>2, KeyElsewhereViews, KeyElsewhereRest, QuietChanges, ConfirmChanges
    <3>3. CASE Background
      BY <2>0, <3>3, BackgroundViews, BackgroundRest, QuietChanges, ChangeEndsViews
    <3> QED BY <1>1, <3>1, <3>2, <3>3
  <2>2. (Quiet \/ Confirm \/ ChangeEnds) /\ Runs /\ SessionsFit
    BY <1>1, <2>0, KeyOfViewRest, KeyElsewhereRest, BackgroundRest
  <2>3. keys' \in Nat
    <3>1. keys' = keys + 1 \/ keys' = keys
      BY <1>1, Pressed, BackgroundPresses
    <3> QED BY <3>1 DEF Ui
  <2>4. Ui'
    BY <2>0, <2>2, <2>3 DEF SessionsFit, Ui, Overlays
  <2>5. Ends'
    BY <2>0, <2>2, EndsRun
  <2>6. Lookups'
    <3>1. st'["K"].target \in SomeTarget
      BY <2>1 DEF Views, States, WS
    <3>2. KeyColon \/ LookupAnswers \/ ReceiveKinds \/ kinds' = Retarget(kinds, st'["K"].target)
      BY <1>1 DEF Loop
    <3> QED BY <2>1, <3>1, <3>2, LookupsStep
  <2> QED BY <2>1, <2>4, <2>5, <2>6
<1>2. CASE Loop /\ (LookupAnswers \/ ReceiveKinds)
  <2>1. UNCHANGED <<shown, st, job, changeVars, uiVars, endVars>> /\ keys' = keys /\ hand' = hand
    <3>1. UNCHANGED <<shown, st, job, changeVars, uiVars, endVars, keys>>
      BY <1>2, Zenon DEF LookupAnswers, ReceiveKinds
    <3>2. hand' = hand
      BY <1>2, Zenon DEF Loop
    <3> QED BY <3>1, <3>2
  <2>2. Views'
    BY <2>1 DEF Views
  <2>3. Lookups'
    BY <1>2, <2>2, LookupsStep
  <2>4. keys' \in Nat
    BY <2>1 DEF Ui
  <2> QED BY <2>1, <2>3, <2>4, KeepIInv
<1>3. CASE phase = "drain" /\ DrainEnds /\ UNCHANGED <<kinds, hand>>
  <2>1. Views' /\ Changes'
    BY <1>3, ChangeEndsViews
  <2>2. Ui'
    BY <1>3 DEF DrainEnds, Ui, uiVars, Overlays
  <2>3. Ends'
    BY <1>3 DEF DrainEnds, Ends, endVars, FinishMutation
  <2>4. Lookups'
    BY <1>3 DEF Lookups
  <2> QED BY <2>1, <2>2, <2>3, <2>4
<1>4. CASE phase = "drain" /\ Gone /\ UNCHANGED <<kinds, hand>>
  <2>1. Views' /\ Changes'
    BY <1>4 DEF Gone, Views, Changes, changeVars
  <2>2. Ui'
    BY <1>4 DEF Gone, Ui, uiVars, Overlays
  <2>3. WriteOutcomes = unknown
    BY DEF WriteOutcomes, Changes, Views, WS, Other
  <2>4. Ends'
    BY <1>4, <2>3 DEF Gone, Ends, changeVars
  <2>5. Lookups'
    BY <1>4 DEF Lookups
  <2> QED BY <2>1, <2>2, <2>4, <2>5
<1> QED BY <1>1, <1>2, <1>3, <1>4 DEF Next, Loop

(* The invariant holds in every state of the console.                      *)
THEOREM Invariant == Spec => []IInv
<1>1. IInv /\ UNCHANGED vars => IInv'
  <2> SUFFICES ASSUME IInv, UNCHANGED vars PROVE IInv'
    OBVIOUS
  <2>1. UNCHANGED <<shown, st, job, changeVars, uiVars, endVars>> /\ UNCHANGED <<kinds, keys, hand>>
    BY DEF vars
  <2>2. Lookups' /\ keys' \in Nat
    BY <2>1 DEF IInv, Lookups, Ui
  <2> QED BY <2>1, <2>2, KeepIInv
<1>2. IInv /\ [Next]_vars => IInv'
  BY <1>1, StepInvariant
<1> QED BY <1>2, InitInvariant, PTL DEF Spec

(* The two states, the job of reads, the change and the sessions keep      *)
(* their types, whatever answers arrive and whatever is pressed.           *)
THEOREM TypeCorrect == Spec => []TypeOK
<1>1. ASSUME IInv PROVE TypeOK
  <2> USE <1>1
  <2>1. \A w \in WS : LET s == st[w] IN
        /\ {s.view, s.data.of} \subseteq ReadSet /\ s.target \in SomeTarget
        /\ s.data.rows \in Seq(Ids) /\ s.hidden \subseteq Ids
        /\ s.sel \in Nat /\ s.detail \in SomeTarget \cup {"text"}
        /\ {s.loading, s.refreshing, s.stale, s.quit} \subseteq BOOLEAN
        /\ s.uncertain \subseteq 1..MaxChanges
    <3> SUFFICES ASSUME NEW w \in WS, NEW s, s = st[w]
                 PROVE  /\ {s.view, s.data.of} \subseteq ReadSet /\ s.target \in SomeTarget
                        /\ s.data.rows \in Seq(Ids) /\ s.hidden \subseteq Ids
                        /\ s.sel \in Nat /\ s.detail \in SomeTarget \cup {"text"}
                        /\ {s.loading, s.refreshing, s.stale, s.quit} \subseteq BOOLEAN
                        /\ s.uncertain \subseteq 1..MaxChanges
      OBVIOUS
    <3>1. s \in States
      BY DEF IInv, Views
    <3>2. s.data \in DataSet
      BY <3>1 DEF States
    <3>3. s.data.of \in ReadSet /\ s.data.rows \in Seq(Ids)
      BY <3>2 DEF DataSet
    <3>4. /\ s.view \in ReadSet /\ s.target \in SomeTarget /\ s.hidden \subseteq Ids
          /\ s.sel \in Nat /\ s.detail \in SomeTarget \cup {"text"}
          /\ s.uncertain \subseteq 1..MaxChanges
      BY <3>1 DEF States, Details
    <3>5. /\ s.loading \in BOOLEAN /\ s.refreshing \in BOOLEAN /\ s.stale \in BOOLEAN
          /\ s.quit \in BOOLEAN
      BY <3>1 DEF States
    <3> QED BY <3>3, <3>4, <3>5
  <2>2. {job.of, job.answer} \subseteq ReadSet /\ job.reload \in WS \cup {None}
    BY DEF IInv, Views, Jobs
  <2>3. change.no \in 0..changes /\ changes \in 0..MaxChanges /\ unknown \subseteq 1..changes
        /\ cancelled \in BOOLEAN
    BY ConsoleAssumption DEF IInv, Changes, NoChange
  <2>4. overlay.sessions \in BOOLEAN /\ Len(sessions) <= MaxSessions /\ hand \in Hands
    BY DEF IInv, Ui, Overlays
  <2>5. phase \in {"run", "drain", "gone", "panic"} /\ exiting \in BOOLEAN /\ told \subseteq unknown
    BY DEF IInv, Ends
  <2>6. shown \in WS
    BY DEF IInv, Views
  <2> QED BY <2>1, <2>2, <2>3, <2>4, <2>5, <2>6 DEF TypeOK
<1> QED BY <1>1, Invariant, PTL

(* Whatever is on the screen, the rows that a key acts on were read for    *)
(* its view and its target: no late answer, swap, picker or return to an   *)
(* earlier list leaves the rows of another one there.                      *)
THEOREM RowsAlwaysOfTheView == Spec => []RowsAreOfTheView
<1>1. ASSUME IInv PROVE RowsAreOfTheView
  <2> SUFFICES ASSUME NEW w \in WS, NEW s, s = st[w],
                      CanActNative(s) \/ CanActHamn(s) \/ CanPick(s)
               PROVE  s.data.of = s.view
    BY DEF RowsAreOfTheView
  <2>1. s \in States /\ Matches(s.view, s.data)
    BY <1>1 DEF IInv, Views, Fine
  <2>2. s.data # NoData
    BY <2>1, SelectedRow DEF CanActNative, CanActHamn, CanPick
  <2>3. s.data.of \in ReadSet /\ s.view \in ReadSet
    BY <2>1 DEF States, DataSet
  <2>4. s.data.of.kind = "contexts" /\ s.view.kind = "contexts" => s.data.of = s.view
    BY <2>3 DEF ReadSet
  <2> QED BY <2>1, <2>2, <2>4
      DEF Matches, ReadFor, CanActNative, CanActHamn, CanPick, Native, HasCliIdentity
<1> QED BY <1>1, Invariant, PTL

(* The program is never gone with a change running, or without having told *)
(* every unknown outcome of either workspace.                              *)
THEOREM OutcomesAlwaysTold == Spec => []OutcomesTold
<1>1. IInv => OutcomesTold
  BY DEF IInv, Ends, OutcomesTold
<1> QED BY <1>1, Invariant, PTL

(* The kinds offered at the prompt are never those of another context,     *)
(* however many lookups were aborted and however late their answers come.  *)
THEOREM KindsAlwaysOfTheContext == Spec => []KindsOfTheContext
<1>1. IInv => KindsOfTheContext
  BY DEF IInv, Lookups, Lookup, Words, KindsOfTheContext
<1> QED BY <1>1, Invariant, PTL

-----------------------------------------------------------------------------
(* The cursor *)

(* What decides the selected row is as it was.                             *)
Steady(s, t) == t.data = s.data /\ t.sel = s.sel /\ t.hidden = s.hidden
Stays(s, t) == Selected(t) \in {Selected(s), None} \/ Selected(s) = None

LEMMA SteadyStays ==
    ASSUME NEW s, NEW t, Steady(s, t)
    PROVE  Stays(s, t)
BY DEF Steady, Stays, Selected, Rows

LEMMA WaitSteady ==
    ASSUME NEW s \in States
    PROVE  Steady(s, Cancel(s)) /\ Steady(s, Loading(s)) /\ Steady(s, Loading(Cancel(s)))
BY DEF States, Steady, Cancel, Loading

LEMMA FieldSteady ==
    ASSUME NEW s \in States
    PROVE  /\ Steady(s, [s EXCEPT !.refreshing = TRUE]) /\ Steady(s, [s EXCEPT !.quit = TRUE])
           /\ Steady(s, [s EXCEPT !.quit = FALSE]) /\ Steady(s, [Cancel(s) EXCEPT !.stale = TRUE])
BY DEF States, Steady, Cancel

LEMMA RetargetSteady ==
    ASSUME NEW s \in States, NEW t, NEW v
    PROVE  Steady(s, Loading([s EXCEPT !.target = t, !.view = v]))
BY DEF States, Steady, Loading

(* A row that is looked for by its identity is the one or none.            *)
LEMMA FoundStays ==
    ASSUME NEW s \in States, NEW new \in States, Selected(s) # None
    PROVE  Selected([new EXCEPT !.sel = FindIdentity(new, Selected(s))]) \in {Selected(s), None}
<1> DEFINE n == FindIdentity(new, Selected(s))
           t == [new EXCEPT !.sel = n]
<1>1. n \in 1..Len(Rows(new)) => Rows(new)[n] = Selected(s)
  BY FoundRow
<1> HIDE DEF n
<1>2. t.sel = n /\ t.data = new.data /\ t.hidden = new.hidden
  BY DEF States
<1>3. Rows(t) = Rows(new)
  BY <1>2 DEF Rows
<1> HIDE DEF t
<1>4. Selected(t) \in {Selected(s), None}
  <2>1. Selected(t) = IF n \in 1..Len(Rows(new)) THEN Rows(new)[n] ELSE None
    BY <1>2, <1>3 DEF Selected
  <2> QED BY <1>1, <2>1
<1> QED BY <1>4 DEF n, t

LEMMA ZeroStays ==
    ASSUME NEW s \in States
    PROVE  Selected([s EXCEPT !.sel = 0]) = None
<1>1. [s EXCEPT !.sel = 0] \in States /\ [s EXCEPT !.sel = 0].sel = 0
  BY DEF States
<1>2. Len(Rows([s EXCEPT !.sel = 0])) \in Nat
  BY <1>1, SelectedRow
<1> QED BY <1>1, <1>2 DEF Selected

LEMMA FollowSteady ==
    ASSUME NEW s \in States
    PROVE  Steady(s, FollowRowDetail(s))
BY DEF States, Steady, FollowRowDetail

LEMMA AcceptStays ==
    ASSUME NEW s \in States, Fine(s), NEW a,
           a.what = "rows" => a.of \in ReadSet /\ ReadFor(a.of, s.view) /\ a.rows \in Seq(Ids)
    PROVE  Stays(s, Accept(s, a))
<1> DEFINE done == [s EXCEPT !.loading = FALSE, !.refreshing = FALSE]
<1>1. done \in States /\ Steady(s, done)
  BY DEF States, Steady
<1>2. Selected(done) = Selected(s)
  BY <1>1 DEF Steady, Selected, Rows
<1>3. CASE a.what = "rows"
  <2> DEFINE d == [of |-> a.of, rows |-> a.rows]
             new == [done EXCEPT !.stale = FALSE, !.data = d]
             n == IF done.data = NoData THEN (IF Rows(new) = <<>> THEN 0 ELSE 1)
                  ELSE IF Selected(done) = None THEN 0 ELSE FindIdentity(new, Selected(done))
             t == [new EXCEPT !.sel = n]
  <2>1. Accept(s, a) = FollowRowDetail(t)
    BY <1>3 DEF Accept, AcceptRows
  <2> HIDE DEF done
  <2>2. d \in DataSet
    BY <1>3 DEF DataSet
  <2> HIDE DEF d
  <2>3. new \in States
    BY <1>1, <2>2 DEF States
  <2>4. n \in Nat
    BY <2>3, FoundRow
  <2>5. t \in States
    <3> HIDE DEF new, n
    <3> QED BY <2>3, <2>4 DEF States
  <2>6. Selected(FollowRowDetail(t)) = Selected(t)
    <3> HIDE DEF t
    <3> QED BY <2>5, FollowSteady DEF Steady, Selected, Rows
  <2>7. CASE Selected(done) = None
    BY <1>2, <2>7 DEF Stays
  <2>8. CASE Selected(done) # None
    <3>1. done.data # NoData
      BY <1>1, <2>8, SelectedRow
    <3>2. n = FindIdentity(new, Selected(done))
      BY <2>8, <3>1
    <3>3. Selected(t) \in {Selected(done), None}
      <4> HIDE DEF new
      <4> QED BY <1>1, <2>3, <2>8, <3>2, FoundStays
    <3> HIDE DEF t, n, new
    <3> QED BY <1>2, <2>1, <2>6, <3>3 DEF Stays
  <2> QED BY <2>7, <2>8
<1>4. CASE a.what # "rows"
  <2> DEFINE t == [s EXCEPT !.detail = "text"]
             u == [done EXCEPT !.detail = "text"]
             x == [done EXCEPT !.data = NoData, !.stale = TRUE]
             y == [done EXCEPT !.stale = TRUE]
  <2>1. Accept(s, a) \in {t, u, x, y, done}
    BY <1>4 DEF Accept
  <2>2. Steady(s, t) /\ Steady(s, u) /\ Steady(s, y) /\ Steady(s, done)
    BY DEF States, Steady
  <2>3. x \in States /\ x.data = NoData
    BY NoneTypes DEF States
  <2>4. Selected(x) = None
    <3> HIDE DEF x
    <3> QED BY <2>3, SelectedRow
  <2> HIDE DEF t, u, x, y, done
  <2> QED BY <2>1, <2>2, <2>4, SteadyStays DEF Stays
<1> QED BY <1>3, <1>4

(* The states change as each of the steps that press no key changes them.  *)
LEMMA StatesStay ==
    ASSUME Views, NEW w \in WS,
           \/ UNCHANGED st
           \/ \E s : Stays(st[shown], s) /\ st' = [st EXCEPT ![shown] = s]
    PROVE  Stays(st[w], st'[w])
<1>1. Stays(st[w], st[w]) /\ st \in [WS -> States] /\ shown \in WS
  BY DEF Stays, Views
<1>2. CASE UNCHANGED st
  BY <1>1, <1>2
<1>3. CASE \E s : Stays(st[shown], s) /\ st' = [st EXCEPT ![shown] = s]
  <2>1. PICK s : Stays(st[shown], s) /\ st' = [st EXCEPT ![shown] = s]
    BY <1>3
  <2>2. st'[w] = IF w = shown THEN s ELSE st[w]
    BY <1>1, <2>1
  <2> QED BY <1>1, <2>1, <2>2
<1> QED BY <1>2, <1>3

LEMMA RefreshStays ==
    ASSUME Views, NEW w \in WS, NEW s, ShowRefreshed(shown, s), Steady(st[shown], Loading(s))
    PROVE  Stays(st[w], st'[w])
<1>1. st' = [st EXCEPT ![shown] = Loading(s)]
  BY DEF ShowRefreshed, Views
<1> QED BY <1>1, SteadyStays, StatesStay

LEMMA ToldStays ==
    ASSUME Views, Changes, NEW w \in WS, ChangeEnds \/ DrainEnds
    PROVE  Stays(st[w], st'[w])
<1>1. PICK r \in ChangeResults :
        /\ FinishMutation(r)
        /\ \/ st' = [Told(r) EXCEPT ![shown] = Cancel(@)]
           \/ st' = [Told(r) EXCEPT ![shown] = Loading(@)]
           \/ st' = Told(r)
  BY DEF ChangeEnds, DrainEnds
<1> DEFINE f == Told(r)
<1>2. f \in [WS -> States] /\ shown \in WS
  BY <1>1, ToldStates DEF FinishMutation, Views
<1>3. Steady(st[w], f[w])
  <2>1. change.ws \in WS /\ st \in [WS -> States] /\ shown \in WS
    BY <1>1 DEF FinishMutation, Changes, Views
  <2> DEFINE q == [st EXCEPT ![shown].quit = FALSE]
  <2>2. f = [q EXCEPT ![change.ws].uncertain = q[change.ws].uncertain \cup Outcome(r)]
    BY <2>1 DEF Told
  <2>3. q = [st EXCEPT ![shown] = [st[shown] EXCEPT !.quit = FALSE]]
    BY <2>1
  <2>4. Steady(st[w], q[w]) /\ q[w] \in States /\ q \in [WS -> States]
    <3> DEFINE s == st[shown]
               t == [s EXCEPT !.quit = FALSE]
    <3>1. s \in States
      BY <2>1
    <3> HIDE DEF s
    <3>2. t \in States /\ Steady(s, t)
      BY <3>1 DEF States, Steady
    <3>3. q = [st EXCEPT ![shown] = t]
      BY <2>3 DEF s
    <3> HIDE DEF t, q
    <3>4. Steady(st[w], st[w])
      BY DEF Steady
    <3> QED BY <2>1, <3>2, <3>3, <3>4 DEF s
  <2> HIDE DEF q
  <2>5. f[w] = q[w] \/ f[w] = [q[w] EXCEPT !.uncertain = q[w].uncertain \cup Outcome(r)]
    BY <2>1, <2>2, <2>4
  <2>6. Steady(q[w], f[w])
    <3> HIDE DEF f
    <3> QED BY <2>4, <2>5 DEF States, Steady
  <2> QED BY <2>4, <2>6 DEF Steady
<1> HIDE DEF f
<1>4. Steady(f[w], st'[w])
  <2>1. Steady(f[w], f[w])
    BY DEF Steady
  <2>2. st'[w] \in {f[w], Cancel(f[w]), Loading(f[w])}
    BY <1>1, <1>2 DEF f
  <2>3. f[w] \in States
    BY <1>2
  <2> QED BY <2>1, <2>2, <2>3, WaitSteady
<1>5. Steady(st[w], st'[w])
  BY <1>3, <1>4 DEF Steady
<1> QED BY <1>5, SteadyStays

LEMMA ExitStays ==
    ASSUME Views, NEW w \in WS, Exit
    PROVE  Stays(st[w], st'[w])
<1>1. st' = [st EXCEPT ![shown] = Cancel(st[shown])] /\ st[shown] \in States
  BY DEF Exit, Views
<1>2. Stays(st[shown], Cancel(st[shown]))
  BY <1>1, WaitSteady, SteadyStays
<1> QED BY <1>1, <1>2, StatesStay

LEMMA AskToQuitStays ==
    ASSUME Views, NEW w \in WS, AskToQuit
    PROVE  Stays(st[w], st'[w])
<1>1. CASE change = NoChange
  BY <1>1, ExitStays DEF AskToQuit
<1>2. CASE change # NoChange
  <2>1. st' = [st EXCEPT ![shown] = [st[shown] EXCEPT !.quit = TRUE]] /\ st[shown] \in States
    BY <1>2 DEF AskToQuit, Set, Views
  <2>2. Stays(st[shown], [st[shown] EXCEPT !.quit = TRUE])
    BY <2>1, FieldSteady, SteadyStays
  <2> QED BY <2>1, <2>2, StatesStay
<1> QED BY <1>1, <1>2

LEMMA ReceiveStays ==
    ASSUME Views, NEW w \in WS, Receive
    PROVE  Stays(st[w], st'[w])
<1>0. PICK what \in Answers(job.answer) :
        \E rows \in IF what = "rows" THEN {RowsOf(job.answer, l) : l \in Lists} ELSE {<<>>} :
           st' = [st EXCEPT ![shown] =
                    Accept(@, [of |-> job.answer, what |-> what, rows |-> rows])]
  BY DEF Receive
<1>1. PICK rows \in IF what = "rows" THEN {RowsOf(job.answer, l) : l \in Lists} ELSE {<<>>} :
        st' = [st EXCEPT ![shown] =
                 Accept(@, [of |-> job.answer, what |-> what, rows |-> rows])]
  BY <1>0
<1> DEFINE a == [of |-> job.answer, what |-> what, rows |-> rows]
           s == st[shown]
           t == Accept(s, a)
<1>2. job \in Jobs /\ JobFits(job, s) /\ job.answer # NoRead /\ job.answer \in ReadSet
  BY DEF Views, Jobs, Receive
<1>3. s \in States /\ Fine(s) /\ shown \in WS
  BY Here
<1>4. what = "rows" => ReadFor(job.answer, s.view)
  <2>1. job.answer.kind = "detail" => what # "rows"
    BY <1>0 DEF Answers
  <2> QED BY <1>2, <2>1 DEF JobFits, ReadFits
<1>5. what = "rows" => rows \in Seq(Ids)
  BY <1>1, <1>2, RowsOfRows
<1>6. Stays(s, t)
  <2>1. a.what = what /\ a.of = job.answer /\ a.rows = rows
    OBVIOUS
  <2> HIDE DEF a, s
  <2> QED BY <1>2, <1>3, <1>4, <1>5, <2>1, AcceptStays
<1>7. st' = [st EXCEPT ![shown] = t]
  BY <1>1
<1> HIDE DEF t
<1> QED BY <1>6, <1>7, StatesStay

LEMMA ReloadStays ==
    ASSUME Views, NEW w \in WS, ReloadEnds
    PROVE  Stays(st[w], st'[w])
<1> DEFINE s == st[shown]
<1>1. s \in States /\ shown \in WS
  BY Here
<1>2. CASE UNCHANGED st
  BY <1>2, StatesStay
<1>3. CASE st' = [st EXCEPT ![shown] = [Cancel(@) EXCEPT !.stale = TRUE]]
  <2>1. st' = [st EXCEPT ![shown] = [Cancel(s) EXCEPT !.stale = TRUE]]
    BY <1>3
  <2>2. Stays(s, [Cancel(s) EXCEPT !.stale = TRUE])
    BY <1>1, FieldSteady, SteadyStays
  <2> QED BY <2>1, <2>2, StatesStay
<1>4. CASE \E t \in ReloadTargets :
             ShowRefreshed(shown, [st[shown] EXCEPT
                 !.target = t, !.view = ViewOf(IF t = None THEN "contexts" ELSE "list", t)])
  <2>1. PICK x \in ReloadTargets :
             ShowRefreshed(shown, [s EXCEPT
                 !.target = x, !.view = ViewOf(IF x = None THEN "contexts" ELSE "list", x)])
    BY <1>4
  <2> DEFINE v == ViewOf(IF x = None THEN "contexts" ELSE "list", x)
             t == [s EXCEPT !.target = x, !.view = v]
  <2>2. ShowRefreshed(shown, t)
    BY <2>1
  <2> HIDE DEF v
  <2>3. Steady(s, Loading(t))
    BY <1>1, RetargetSteady
  <2> HIDE DEF t
  <2> QED BY <2>2, <2>3, RefreshStays
<1> QED BY <1>2, <1>3, <1>4 DEF ReloadEnds

LEMMA BackgroundStays ==
    ASSUME Views, Changes, NEW w \in WS, Background
    PROVE  Stays(st[w], st'[w])
<1> DEFINE s == st[shown]
<1>1. s \in States /\ shown \in WS
  BY Here
<1>2. CASE ReadAnswers \/ BackgroundExits
  BY <1>2, StatesStay DEF ReadAnswers, BackgroundExits
<1>3. CASE Receive \/ ReloadEnds \/ ChangeEnds
  BY <1>3, ReceiveStays, ReloadStays, ToldStays
<1>4. CASE Tick
  <2>1. st' = [st EXCEPT ![shown] = [s EXCEPT !.refreshing = TRUE]]
    BY <1>4 DEF Tick, Views
  <2>2. Stays(s, [s EXCEPT !.refreshing = TRUE])
    BY <1>1, FieldSteady, SteadyStays
  <2> QED BY <2>1, <2>2, StatesStay
<1>5. CASE CliExits \/ Terminate
  BY <1>5, ExitStays, StatesStay DEF CliExits, Terminate
<1>6. CASE CliFails
  BY <1>1, <1>6, WaitSteady, RefreshStays DEF CliFails
<1>7. CASE Interrupt \/ InputLost
  BY <1>7, AskToQuitStays, ExitStays DEF Interrupt, InputLost
<1> QED BY <1>2, <1>3, <1>4, <1>5, <1>6, <1>7 DEF Background

LEMMA EditFilterStays ==
    ASSUME Views, NEW w \in WS, EditFilter
    PROVE  Stays(st[w], st'[w])
<1> DEFINE s == st[shown]
<1>1. s \in States /\ Fine(s)
  BY Here
<1>2. PICK hidden \in SUBSET Ids :
        Set([[s EXCEPT !.hidden = hidden] EXCEPT !.sel =
               IF Selected(s) = None THEN 0
               ELSE FindIdentity([s EXCEPT !.hidden = hidden], Selected(s))])
  BY DEF EditFilter
<1> DEFINE new == [s EXCEPT !.hidden = hidden]
           n == IF Selected(s) = None THEN 0 ELSE FindIdentity(new, Selected(s))
           t == [new EXCEPT !.sel = n]
<1>3. new \in States
  BY <1>1 DEF States
<1>4. st' = [st EXCEPT ![shown] = t]
  BY <1>2 DEF Set
<1> HIDE DEF new
<1>5. Stays(s, t)
  BY <1>1, <1>3, FoundStays DEF Stays
<1> HIDE DEF t
<1> QED BY <1>4, <1>5, StatesStay

(* However the lists change under it, the cursor is moved from one row to  *)
(* another by navigation keys alone: an answer, the end of a change, a     *)
(* reload and an edited filter keep the selected identity or select        *)
(* nothing.                                                                *)
THEOREM CursorAlwaysStays == Spec => CursorStays
<1>1. ASSUME IInv, [Next]_vars
      PROVE  [keys' = keys \/ EditFilter =>
                \A w \in WS : \/ Selected(st[w])' \in {Selected(st[w]), None}
                              \/ Selected(st[w]) = None]_vars
  <2> SUFFICES ASSUME Next, keys' = keys \/ EditFilter, NEW w \in WS
               PROVE  Stays(st[w], st'[w])
    BY <1>1 DEF Stays
  <2>1. Views /\ Changes /\ keys \in Nat
    BY <1>1 DEF IInv, Ui
  <2>2. CASE EditFilter
    BY <2>1, <2>2, EditFilterStays
  <2>3. CASE ~EditFilter
    <3>1. ~(KeyOfView \/ KeyElsewhere \/ KeyColon)
      BY <2>1, <2>3, Pressed
    <3>2. Background \/ LookupAnswers \/ ReceiveKinds \/ DrainEnds \/ Gone
      BY <3>1 DEF Next, Loop
    <3>3. CASE LookupAnswers \/ ReceiveKinds \/ Gone
      <4>1. UNCHANGED st
        BY <3>3, Zenon DEF LookupAnswers, ReceiveKinds, Gone
      <4> QED BY <2>1, <4>1, StatesStay
    <3> QED BY <2>1, <3>2, <3>3, BackgroundStays, ToldStays
  <2> QED BY <2>2, <2>3
<1>2. IInv /\ [Next]_vars
      => [keys' = keys \/ EditFilter =>
            \A w \in WS : \/ Selected(st[w])' \in {Selected(st[w]), None}
                          \/ Selected(st[w]) = None]_vars
  BY <1>1
<1> QED BY <1>2, Invariant, PTL DEF Spec, CursorStays

-----------------------------------------------------------------------------
(* The detail and its row *)

(* A detail that follows its row is over a list whose rows have details,   *)
(* and the row, or none, is selected; so is one that may be gone back to.  *)
(* While the configuration is read again no detail follows.                *)
Follows(b) == b.detail \in Ids => /\ b.view.kind \in {"vms", "typed"}
                                  /\ Selected(b) \in {b.detail, None}
AllFollow(s) == Follows(s) /\ Follows(s.back) /\ Follows(s.browser)
Tracks == /\ \A w \in WS : AllFollow(st[w])
          /\ job.reload # None => st[shown].detail \notin Ids

LEMMA NoRow == None \notin Ids /\ "text" \notin Ids
BY ConsoleAssumption DEF None

(* What a detail depends on.                                               *)
Alike(s, t) == /\ t.view = s.view /\ t.data = s.data /\ t.sel = s.sel /\ t.hidden = s.hidden
               /\ t.detail = s.detail /\ t.back = s.back /\ t.browser = s.browser

LEMMA AlikeFollows ==
    ASSUME NEW s, NEW t, AllFollow(s), Alike(s, t)
    PROVE  AllFollow(t)
BY DEF AllFollow, Follows, Alike, Selected, Rows

(* Without a detail of its own a state has only to keep what it goes back  *)
(* to.                                                                     *)
LEMMA PlainFollows ==
    ASSUME NEW s, AllFollow(s), NEW t, t.detail \notin Ids,
           t.back \in {s.back, NoSnapshot, Snapshot(s)},
           t.browser \in {s.browser, NoSnapshot, Snapshot(s)}
    PROVE  AllFollow(t)
<1>1. Follows(NoSnapshot)
  BY NoRow DEF Follows, NoSnapshot
<1>2. Follows(Snapshot(s))
  BY DEF AllFollow, Follows, Snapshot, Selected, Rows
<1>3. Follows(t)
  BY DEF Follows
<1>4. Follows(s.back) /\ Follows(s.browser)
  BY DEF AllFollow
<1> QED BY <1>1, <1>2, <1>3, <1>4 DEF AllFollow

LEMMA WaitFollows ==
    ASSUME NEW s \in States, AllFollow(s)
    PROVE  /\ AllFollow(Cancel(s)) /\ AllFollow(Loading(s)) /\ AllFollow([Cancel(s) EXCEPT !.input = None])
           /\ Cancel(s).detail = s.detail /\ Loading(s).detail = s.detail
<1>1. Alike(s, Cancel(s)) /\ Alike(s, Loading(s)) /\ Alike(s, [Cancel(s) EXCEPT !.input = None])
  BY DEF States, Alike, Cancel, Loading
<1> QED BY <1>1, AlikeFollows DEF Alike

(* The fields that no detail depends on.                                   *)
LEMMA FieldsAlike ==
    ASSUME NEW s \in States
    PROVE  /\ Alike(s, s)
           /\ \A q \in BOOLEAN : /\ Alike(s, [s EXCEPT !.quit = q])
                                 /\ Alike(s, [s EXCEPT !.refreshing = q])
           /\ \A r \in SomeTarget : Alike(s, [s EXCEPT !.pending = r])
           /\ \A r \in SomeTarget : Alike(s, [s EXCEPT !.native = r])
           /\ \A r, p \in SomeTarget : Alike(s, [s EXCEPT !.native = r, !.pending = p])
           /\ \A i \in Inputs : Alike(s, [s EXCEPT !.input = i])
           /\ \A i \in Inputs, r \in SomeTarget : Alike(s, [s EXCEPT !.input = i, !.forward = r])
           /\ \A i \in Inputs, q \in BOOLEAN : Alike(s, [s EXCEPT !.input = i, !.quit = q])
BY DEF States, Alike

-----------------------------------------------------------------------------
(* How the states are moved *)

LEMMA ShowTracks ==
    ASSUME Views, Tracks, NEW w \in WS, NEW s \in States, AllFollow(s), ShowRefreshed(w, s)
    PROVE  Tracks'
<1>1. shown \in WS /\ st \in [WS -> States]
  BY DEF Views
<1>2. job'.reload = None
  BY DEF ShowRefreshed, Reading, Stop, NoJob
<1>3. \A x \in WS : st'[x] = IF x = w THEN Loading(s) ELSE IF x = shown THEN Cancel(st[x]) ELSE st[x]
  BY <1>1 DEF ShowRefreshed
<1>4. AllFollow(Loading(s)) /\ \A x \in WS : AllFollow(st[x]) /\ AllFollow(Cancel(st[x]))
  BY <1>1, WaitFollows DEF Tracks
<1>5. \A x \in WS : AllFollow(st'[x])
  BY <1>3, <1>4
<1> QED BY <1>2, <1>5 DEF Tracks

(* The state on the screen is replaced.                                    *)
LEMMA PutTracks ==
    ASSUME Views, Tracks, NEW s, AllFollow(s), st' = [st EXCEPT ![shown] = s], shown' = shown,
           job'.reload # None => s.detail \notin Ids
    PROVE  Tracks'
<1>1. shown \in WS /\ st \in [WS -> States]
  BY DEF Views
<1>2. \A x \in WS : st'[x] = IF x = shown THEN s ELSE st[x]
  BY <1>1
<1>3. \A x \in WS : AllFollow(st'[x])
  BY <1>2 DEF Tracks
<1>4. job'.reload # None => st'[shown'].detail \notin Ids
  BY <1>1, <1>2
<1> QED BY <1>3, <1>4 DEF Tracks

LEMMA SetTracks ==
    ASSUME Views, Tracks, NEW s, AllFollow(s), Set(s), job.reload # None => s.detail \notin Ids
    PROVE  Tracks'
<1>1. st' = [st EXCEPT ![shown] = s] /\ shown' = shown /\ job' = job
  BY DEF Set
<1> QED BY <1>1, PutTracks

LEMMA AlikeTracks ==
    ASSUME Views, Tracks, NEW s, Alike(st[shown], s), Set(s)
    PROVE  Tracks'
<1>1. AllFollow(st[shown]) /\ (job.reload # None => st[shown].detail \notin Ids)
  BY Here DEF Tracks
<1>2. AllFollow(s) /\ s.detail = st[shown].detail
  BY <1>1, AlikeFollows DEF Alike
<1> QED BY <1>1, <1>2, SetTracks

LEMMA StopTracks ==
    ASSUME Views, Tracks, NEW s \in States, AllFollow(s), SetStopped(s)
    PROVE  Tracks'
<1>1. st' = [st EXCEPT ![shown] = Cancel(s)] /\ shown' = shown /\ job'.reload = None
  BY DEF SetStopped, Stop, NoJob
<1>2. AllFollow(Cancel(s))
  BY WaitFollows
<1> HIDE DEF Cancel
<1> QED BY <1>1, <1>2, PutTracks

LEMMA SwapTracks ==
    ASSUME Views, Tracks, NEW w \in WS, NEW s, AllFollow(s), st' = Swapped(w, s), shown' = w,
           job'.reload # None => s.detail \notin Ids
    PROVE  Tracks'
<1>1. shown \in WS /\ st \in [WS -> States]
  BY DEF Views
<1> DEFINE t == [Cancel(st[shown]) EXCEPT !.input = None]
<1>2. AllFollow(t)
  BY <1>1, WaitFollows DEF Tracks
<1>3. \A x \in WS : st'[x] = IF x = w THEN s ELSE IF x = shown THEN t ELSE st[x]
  BY <1>1 DEF Swapped
<1> HIDE DEF t
<1>4. \A x \in WS : AllFollow(st'[x])
  BY <1>2, <1>3 DEF Tracks
<1>5. job'.reload # None => st'[shown'].detail \notin Ids
  BY <1>3
<1> QED BY <1>4, <1>5 DEF Tracks

(* Nothing moves.                                                          *)
LEMMA RestTracks ==
    ASSUME Views, Tracks, UNCHANGED <<shown, st>>, job'.reload \in {job.reload, None}
    PROVE  Tracks'
<1>1. \A x \in WS : AllFollow(st'[x])
  BY DEF Tracks
<1> QED BY <1>1 DEF Tracks

-----------------------------------------------------------------------------
(* What the methods leave *)

LEMMA PickerFollows ==
    ASSUME NEW s \in States, AllFollow(s)
    PROVE  \A kind : AllFollow(OpenPicker(s, kind)) /\ OpenPicker(s, kind).detail \notin Ids
<1> SUFFICES ASSUME NEW kind
             PROVE  AllFollow(OpenPicker(s, kind)) /\ OpenPicker(s, kind).detail \notin Ids
  OBVIOUS
<1>1. /\ OpenPicker(s, kind).detail = None /\ OpenPicker(s, kind).back \in {s.back, Snapshot(s)}
      /\ OpenPicker(s, kind).browser = s.browser
  BY DEF States, OpenPicker
<1> QED BY <1>1, NoRow, PlainFollows

(* Nothing is left of a detail after InvalidateResults.                    *)
Bare(s) == s.detail = None /\ s.back = NoSnapshot /\ s.browser = NoSnapshot

LEMMA BareFollows ==
    ASSUME NEW s, Bare(s)
    PROVE  AllFollow(s) /\ s.detail \notin Ids
BY NoRow DEF Bare, AllFollow, Follows, NoSnapshot

LEMMA InvalidFollows ==
    ASSUME NEW s \in States
    PROVE  Bare(InvalidateResults(s))
<1> DEFINE i == IF s.forward # None THEN None ELSE s.input
<1>1. InvalidateResults(s) = [s EXCEPT !.browser = NoSnapshot, !.back = NoSnapshot,
              !.data = NoData, !.stale = TRUE, !.sel = 1, !.hidden = {}, !.detail = None,
              !.native = None, !.forward = None, !.input = i]
  BY DEF InvalidateResults
<1> HIDE DEF i
<1> QED BY <1>1 DEF States, Bare

LEMMA RestoreFollows ==
    ASSUME NEW s \in States, NEW b \in Snapshots, Follows(b), Follows(s.back), Follows(s.browser)
    PROVE  AllFollow(Restore(s, b))
<1> DEFINE t == Restore(s, b)
<1>1. /\ t.view = b.view /\ t.data = b.data /\ t.sel = b.sel /\ t.hidden = b.hidden
      /\ t.detail = b.detail /\ t.back = s.back /\ t.browser = s.browser
  BY DEF States, Restore
<1> HIDE DEF t
<1>2. Follows(t)
  BY <1>1 DEF Follows, Selected, Rows
<1> QED BY <1>1, <1>2 DEF AllFollow, t

LEMMA ReturnFollows ==
    ASSUME NEW s \in States, AllFollow(s), s.detail = None
    PROVE  AllFollow(ReturnToBrowser(s))
<1>1. CASE s.browser # NoSnapshot /\ s.browser.target = s.target
  <2> DEFINE u == [s EXCEPT !.browser = NoSnapshot]
  <2>1. u \in States /\ u.back = s.back /\ u.browser = NoSnapshot /\ s.browser \in Snapshots
    BY NoneTypes DEF States
  <2>2. ReturnToBrowser(s) = Restore(u, s.browser)
    BY <1>1 DEF ReturnToBrowser
  <2>3. Follows(NoSnapshot)
    BY NoRow DEF Follows, NoSnapshot
  <2> HIDE DEF u
  <2>4. Follows(u.back) /\ Follows(u.browser) /\ Follows(s.browser)
    BY <2>1, <2>3 DEF AllFollow
  <2> QED BY <2>1, <2>2, <2>4, RestoreFollows
<1>2. CASE ~(s.browser # NoSnapshot /\ s.browser.target = s.target)
  <2> DEFINE t == [s EXCEPT !.browser = NoSnapshot, !.view = Parse(s, "list"),
                            !.detail = None, !.sel = 1, !.hidden = {}]
  <2>1. ReturnToBrowser(s) = t
    BY <1>2 DEF ReturnToBrowser
  <2>2. t.detail = None /\ t.back = s.back /\ t.browser = NoSnapshot
    BY DEF States
  <2> HIDE DEF t
  <2> QED BY <2>1, <2>2, NoRow, PlainFollows
<1> QED BY <1>1, <1>2

(* A view is entered without a detail.                                     *)
LEMMA EnterFollows ==
    ASSUME NEW s \in States, AllFollow(s), NEW k, NEW b \in {s.back, NoSnapshot, Snapshot(s)},
           NEW c \in {s.browser, NoSnapshot, Snapshot(s)}
    PROVE  /\ AllFollow(ShowView(s, k)) /\ AllFollow(ShowView([s EXCEPT !.back = b], k))
           /\ AllFollow(ShowView([s EXCEPT !.browser = c], k)) /\ AllFollow(TypedChange(s, k))
           /\ TypedChange(s, k).detail = None
<1> DEFINE v == ShowView(s, k)
           w == ShowView([s EXCEPT !.back = b], k)
           x == ShowView([s EXCEPT !.browser = c], k)
           y == TypedChange(s, k)
<1>1. /\ v.detail = None /\ v.back = s.back /\ v.browser = s.browser
      /\ w.detail = None /\ w.back = b /\ w.browser = s.browser
      /\ x.detail = None /\ x.back = s.back /\ x.browser = c
      /\ y.detail = None /\ y.back = s.back /\ y.browser = s.browser
  BY DEF States, ShowView, TypedChange
<1> HIDE DEF v, w, x, y
<1>2. AllFollow(v) /\ AllFollow(w) /\ AllFollow(x) /\ AllFollow(y)
  BY <1>1, NoRow, PlainFollows
<1> QED BY <1>1, <1>2 DEF v, w, x, y

LEMMA MovedFollows ==
    ASSUME NEW s \in States, AllFollow(s), NEW n
    PROVE  /\ s.detail = None => AllFollow([s EXCEPT !.sel = n])
           /\ s.detail = None => AllFollow(ClearFilter(s))
           /\ \A d : AllFollow(MoveBy(s, d)) /\ MoveBy(s, d).detail = s.detail
           /\ ClearFilter(s).detail = s.detail
<1>1. \A m : LET t == [s EXCEPT !.sel = m]
             IN  t.detail = s.detail /\ t.back = s.back /\ t.browser = s.browser
  BY DEF States
<1>2. \A m : s.detail = None => AllFollow([s EXCEPT !.sel = m])
  <2> SUFFICES ASSUME NEW m, s.detail = None PROVE AllFollow([s EXCEPT !.sel = m])
    OBVIOUS
  <2> DEFINE t == [s EXCEPT !.sel = m]
  <2>1. t.detail = None /\ t.back = s.back /\ t.browser = s.browser
    BY <1>1
  <2> HIDE DEF t
  <2>2. AllFollow(t)
    BY <2>1, NoRow, PlainFollows
  <2> QED BY <2>2 DEF t
<1>3. ASSUME NEW d PROVE AllFollow(MoveBy(s, d)) /\ MoveBy(s, d).detail = s.detail
  <2>1. CASE s.detail # None
    BY <2>1 DEF MoveBy
  <2>2. CASE s.detail = None
    <3>1. MoveBy(s, d) = MoveCursor(s, d)
      BY <2>2 DEF MoveBy
    <3>2. \E m : MoveCursor(s, d) = [s EXCEPT !.sel = m]
      BY DEF MoveCursor
    <3>3. PICK m : MoveBy(s, d) = [s EXCEPT !.sel = m]
      BY <3>1, <3>2
    <3> QED BY <1>1, <1>2, <2>2, <3>3
  <2> QED BY <2>1, <2>2
<1>4. ClearFilter(s).detail = s.detail /\ (s.detail = None => AllFollow(ClearFilter(s)))
  <2> DEFINE o == [s EXCEPT !.hidden = {}]
             m == IF Selected(s) = None THEN 0 ELSE FindIdentity(o, Selected(s))
             t == [o EXCEPT !.sel = m]
  <2>1. ClearFilter(s) = t
    BY DEF ClearFilter
  <2> HIDE DEF m
  <2>2. t.detail = s.detail /\ t.back = s.back /\ t.browser = s.browser
    BY DEF States
  <2> HIDE DEF t
  <2> QED BY <2>1, <2>2, NoRow, PlainFollows
<1> QED BY <1>2, <1>3, <1>4

(* follow_row_detail makes it so, whatever was selected before.            *)
LEMMA FollowedFollows ==
    ASSUME NEW s \in States, Follows(s.back), Follows(s.browser),
           s.detail \in Ids => s.view.kind \in {"vms", "typed"}
    PROVE  AllFollow(FollowRowDetail(s))
<1> DEFINE t == [s EXCEPT !.detail = "text"]
<1>1. t.detail = "text" /\ t.back = s.back /\ t.browser = s.browser
  BY DEF States
<1>2. FollowRowDetail(s) = IF s.detail \in Ids /\ Selected(s) # s.detail THEN t ELSE s
  BY DEF FollowRowDetail, FollowsRows
<1> HIDE DEF t
<1>3. AllFollow(t)
  BY <1>1, NoRow DEF AllFollow, Follows
<1>4. CASE s.detail \in Ids /\ Selected(s) # s.detail
  BY <1>2, <1>3, <1>4
<1>5. CASE ~(s.detail \in Ids /\ Selected(s) # s.detail)
  BY <1>2, <1>5 DEF AllFollow, Follows
<1> QED BY <1>4, <1>5

LEMMA AcceptFollows ==
    ASSUME NEW s \in States, AllFollow(s), NEW a,
           a.what = "rows" => a.of \in ReadSet /\ a.rows \in Seq(Ids)
    PROVE  AllFollow(Accept(s, a))
<1> DEFINE done == [s EXCEPT !.loading = FALSE, !.refreshing = FALSE]
<1>1. done \in States /\ Alike(s, done)
  BY DEF States, Alike
<1>2. AllFollow(done)
  BY <1>1, AlikeFollows
<1>3. CASE a.what = "rows"
  <2> DEFINE d == [of |-> a.of, rows |-> a.rows]
             new == [done EXCEPT !.stale = FALSE, !.data = d]
             n == IF done.data = NoData THEN (IF Rows(new) = <<>> THEN 0 ELSE 1)
                  ELSE IF Selected(done) = None THEN 0 ELSE FindIdentity(new, Selected(done))
             t == [new EXCEPT !.sel = n]
  <2>1. Accept(s, a) = FollowRowDetail(t)
    BY <1>3 DEF Accept, AcceptRows
  <2> HIDE DEF done
  <2>2. d \in DataSet
    BY <1>3 DEF DataSet
  <2> HIDE DEF d
  <2>3. new \in States
    BY <1>1, <2>2 DEF States
  <2>4. n \in Nat
    BY <2>3, FoundRow
  <2> HIDE DEF n
  <2>5. t \in States /\ t.view = done.view /\ t.detail = done.detail /\ t.back = done.back
        /\ t.browser = done.browser
    BY <1>1, <2>2, <2>4 DEF States
  <2> HIDE DEF t
  <2> QED BY <1>2, <2>1, <2>5, FollowedFollows DEF AllFollow, Follows
<1>4. CASE a.what # "rows"
  <2> DEFINE t == [s EXCEPT !.detail = "text"]
             u == [done EXCEPT !.detail = "text"]
             x == [done EXCEPT !.data = NoData, !.stale = TRUE]
             y == [done EXCEPT !.stale = TRUE]
  <2>1. Accept(s, a) \in {t, u, x, y, done}
    BY <1>4 DEF Accept
  <2>2. \A z \in {t, u} : z.detail = "text" /\ z.back = s.back /\ z.browser = s.browser
    BY DEF States
  <2>3. Alike(s, y)
    BY DEF States, Alike
  <2>4. x \in States /\ x.data = NoData /\ x.detail = s.detail /\ x.view = s.view /\ x.back = s.back
        /\ x.browser = s.browser
    BY NoneTypes DEF States
  <2> HIDE DEF t, u, x, y, done
  <2>5. Selected(x) = None
    BY <2>4, SelectedRow
  <2>6. AllFollow(x)
    BY <2>4, <2>5 DEF AllFollow, Follows
  <2>7. AllFollow(t) /\ AllFollow(u)
    BY <2>2, NoRow, PlainFollows
  <2>8. AllFollow(y)
    BY <2>3, AlikeFollows
  <2> QED BY <1>2, <2>1, <2>6, <2>7, <2>8
<1> QED BY <1>3, <1>4

-----------------------------------------------------------------------------
(* The steps *)

LEMMA HereFollows ==
    ASSUME Views, Tracks
    PROVE  /\ shown \in WS /\ st[shown] \in States /\ Fine(st[shown]) /\ AllFollow(st[shown])
           /\ \A w \in WS : st[w] \in States /\ Fine(st[w]) /\ AllFollow(st[w])
           /\ job.reload # None => st[shown].detail \notin Ids
           /\ Selected(st[shown]) # None => job.reload = None
<1>1. shown \in WS /\ \A w \in WS : st[w] \in States /\ Fine(st[w])
  BY Here
<1>2. job.reload # None => st[shown].data = NoData
  BY DEF Views, JobFits
<1>3. Selected(st[shown]) # None => st[shown].data # NoData
  BY <1>1, SelectedRow
<1> QED BY <1>1, <1>2, <1>3 DEF Tracks

LEMMA ExitTracks ==
    ASSUME Views, Tracks, Exit
    PROVE  Tracks'
<1>1. SetStopped(st[shown])
  BY DEF Exit, SetStopped
<1> QED BY <1>1, HereFollows, StopTracks

(* Questions, prompts and overlays.                                        *)
LEMMA FieldTracks ==
    ASSUME Views, Tracks
    PROVE  /\ Set(st[shown]) => Tracks'
           /\ \A q \in BOOLEAN : Set([st[shown] EXCEPT !.quit = q]) => Tracks'
           /\ \A r \in SomeTarget : Set([st[shown] EXCEPT !.pending = r]) => Tracks'
           /\ \A r \in SomeTarget : Set([st[shown] EXCEPT !.native = r]) => Tracks'
           /\ \A r, p \in SomeTarget : Set([st[shown] EXCEPT !.native = r, !.pending = p]) => Tracks'
           /\ \A i \in Inputs : Set([st[shown] EXCEPT !.input = i]) => Tracks'
           /\ \A i \in Inputs, r \in SomeTarget : Set([st[shown] EXCEPT !.input = i, !.forward = r]) => Tracks'
           /\ \A i \in Inputs, q \in BOOLEAN : Set([st[shown] EXCEPT !.input = i, !.quit = q]) => Tracks'
<1>1. \A t : Alike(st[shown], t) /\ Set(t) => Tracks'
  BY AlikeTracks
<1>2. st[shown] \in States
  BY Here
<1> QED BY <1>1, <1>2, FieldsAlike, Zenon

LEMMA AskToQuitTracks ==
    ASSUME Views, Tracks, AskToQuit
    PROVE  Tracks'
BY ExitTracks, FieldTracks, Zenon DEF AskToQuit

(* A read of a detail begins beside the view.                              *)
LEMMA ReadTracks ==
    ASSUME Views, Tracks, NEW v, UNCHANGED shown, st' = [st EXCEPT ![shown] = Loading(st[shown])],
           job' = Reading(v)
    PROVE  Tracks'
<1>1. AllFollow(Loading(st[shown])) /\ job'.reload = None
  BY HereFollows, WaitFollows DEF Reading, Stop, NoJob
<1> HIDE DEF Loading
<1> QED BY <1>1, PutTracks

LEMMA RunRowKeyTracks ==
    ASSUME Views, Tracks, RunRowKey
    PROVE  Tracks'
<1> DEFINE s == st[shown]
<1>1. shown \in WS /\ s \in States /\ Fine(s) /\ AllFollow(s) /\ s.view \in ReadSet
  BY HereFollows, Here
<1>2. CASE NativeChange
  BY <1>1, <1>2, SelectedRow, FieldTracks, Zenon DEF NativeChange
<1>3. CASE NativeCli
  BY <1>1, <1>3, StopTracks DEF NativeCli
<1>4. CASE Related
  <2>1. PICK v \in RelatedViews(s) :
          ShowRefreshed(shown, [InvalidateResults(s) EXCEPT !.view = v])
    BY <1>4 DEF Related
  <2> DEFINE r == InvalidateResults(s)
             t == [r EXCEPT !.view = v]
  <2>2. v \in ReadSet
    <3>1. s.view.target \in SomeTarget
      BY <1>1 DEF ReadSet
    <3> QED BY <3>1, ViewTypes DEF RelatedViews
  <2>3. r \in States /\ Bare(r)
    BY <1>1, InvalidateKeeps, InvalidFollows DEF Kept
  <2>4. ShowRefreshed(shown, t)
    BY <2>1
  <2> HIDE DEF r
  <2>5. t \in States /\ Bare(t)
    BY <2>2, <2>3 DEF States, Bare
  <2> HIDE DEF t
  <2> QED BY <1>1, <2>4, <2>5, BareFollows, ShowTracks
<1>5. CASE OpenPortForward
  <2> DEFINE t == [s EXCEPT !.forward = Selected(s), !.input = "F"]
  <2>1. Set(t)
    BY <1>5 DEF OpenPortForward
  <2>2. Alike(s, t)
    BY <1>1 DEF States, Alike
  <2> HIDE DEF t
  <2> QED BY <2>1, <2>2, AlikeTracks
<1> QED BY <1>2, <1>3, <1>4, <1>5 DEF RunRowKey

LEMMA KeyVmsTracks ==
    ASSUME Views, Tracks, KeyVms
    PROVE  Tracks'
<1> DEFINE s == st[shown]
           b == IF Native(s) THEN Snapshot(s) ELSE s.browser
           t == [s EXCEPT !.browser = b]
<1>1. shown \in WS /\ s \in States /\ Fine(s) /\ AllFollow(s)
  BY HereFollows
<1>2. ShowRefreshed(shown, ShowView(t, "vms"))
  BY DEF KeyVms
<1>3. AllFollow(ShowView(t, "vms"))
  <2>1. b \in {s.browser, NoSnapshot, Snapshot(s)}
    OBVIOUS
  <2> HIDE DEF b, s
  <2> QED BY <1>1, <2>1, EnterFollows
<1>4. ShowView(t, "vms") \in States
  <2>1. b \in Snapshots
    BY <1>1, SnapshotTypes DEF States
  <2> HIDE DEF b
  <2>2. t \in States /\ t.target \in SomeTarget
    BY <1>1, <2>1 DEF States
  <2>3. ViewOf("vms", t.target) \in ReadSet
    BY <2>2, ViewTypes
  <2> HIDE DEF t
  <2> QED BY <2>2, <2>3, NoneTypes DEF States, ShowView
<1> HIDE DEF t
<1> QED BY <1>1, <1>2, <1>3, <1>4, ShowTracks

LEMMA ShownTypes ==
    ASSUME NEW s \in States, 
           NEW kind \in {"vms", "typed", "pick", "contexts", "namespaces"}
    PROVE  ShowView(s, kind) \in States
<1>1. ViewOf(kind, s.target) \in ReadSet
  BY ViewTypes DEF States
<1> QED BY <1>1, NoneTypes DEF States, ShowView

LEMMA KeyPickTracks ==
    ASSUME Views, Tracks, KeyPick \/ KeyNamespaces
    PROVE  Tracks'
<1> DEFINE s == st[shown]
<1>1. shown \in WS /\ s \in States /\ Fine(s) /\ AllFollow(s)
  BY HereFollows
<1>2. \A kind \in {"pick", "contexts", "namespaces"} :
         LET t == OpenPicker(s, kind) IN
         /\ t \in States /\ AllFollow(t) /\ t.detail \notin Ids
         /\ ShowView(t, kind) \in States /\ AllFollow(ShowView(t, kind))
  <2> SUFFICES ASSUME NEW kind \in {"pick", "contexts", "namespaces"}, NEW t, t = OpenPicker(s, kind)
               PROVE  /\ t \in States /\ AllFollow(t) /\ t.detail \notin Ids
                      /\ ShowView(t, kind) \in States /\ AllFollow(ShowView(t, kind))
    OBVIOUS
  <2>1. t \in States /\ AllFollow(t) /\ t.detail \notin Ids
    BY <1>1, OpenPickerKeeps, PickerFollows DEF Kept
  <2> QED BY <2>1, ShownTypes, EnterFollows
<1>3. \/ \E kind \in {"pick", "contexts", "namespaces"} :
           \/ ShowRefreshed(shown, OpenPicker(s, kind))
           \/ ShowRefreshed(shown, ShowView(OpenPicker(s, kind), kind))
      \/ Set(OpenPicker(s, "contexts"))
  BY DEF KeyPick, KeyNamespaces
<1> QED BY <1>1, <1>2, <1>3, ShowTracks, SetTracks

LEMMA KeyEscTracks ==
    ASSUME Views, Tracks, KeyEsc
    PROVE  Tracks'
<1> DEFINE s == [st[shown] EXCEPT !.detail = None]
<1>1. shown \in WS /\ st[shown] \in States /\ Fine(st[shown]) /\ AllFollow(st[shown])
  BY HereFollows
<1>2. s \in States /\ s.detail = None /\ s.back = st[shown].back /\ s.browser = st[shown].browser
      /\ s.view = st[shown].view /\ s.data = st[shown].data
  BY <1>1, NoneTypes DEF States
<1>3. KeyEsc => IF s.back # NoSnapshot
                THEN ShowRefreshed(shown, Restore([s EXCEPT !.back = NoSnapshot], s.back))
                ELSE IF s.view.kind = "vms" \/ (s.view.kind = "pick" /\ shown = "C")
                THEN ShowRefreshed(shown, ReturnToBrowser(s))
                ELSE SetStopped(ClearFilter(s))
  BY DEF KeyEsc
<1> HIDE DEF s
<1>4. AllFollow(s) /\ Fine(s)
  BY <1>1, <1>2, NoRow, PlainFollows DEF Fine
<1>5. CASE s.back # NoSnapshot
  <2> DEFINE u == [s EXCEPT !.back = NoSnapshot]
             t == Restore(u, s.back)
  <2>1. u \in States /\ u.back = NoSnapshot /\ u.browser = s.browser /\ s.back \in Snapshots
    BY <1>2, NoneTypes DEF States
  <2>2. Follows(u.back) /\ Follows(u.browser) /\ Follows(s.back)
    <3>1. Follows(NoSnapshot)
      BY NoRow DEF Follows, NoSnapshot
    <3> HIDE DEF u
    <3> QED BY <1>4, <2>1, <3>1 DEF AllFollow
  <2>3. ShowRefreshed(shown, t)
    BY <1>3, <1>5
  <2> HIDE DEF u
  <2>4. AllFollow(t)
    BY <2>1, <2>2, RestoreFollows
  <2>5. t \in States
    BY <2>1 DEF States, Snapshots, Restore
  <2> HIDE DEF t
  <2> QED BY <1>1, <2>3, <2>4, <2>5, ShowTracks
<1>6. CASE s.back = NoSnapshot /\ (s.view.kind = "vms" \/ (s.view.kind = "pick" /\ shown = "C"))
  <2>1. ShowRefreshed(shown, ReturnToBrowser(s))
    BY <1>3, <1>6
  <2>2. ReturnToBrowser(s) \in States /\ AllFollow(ReturnToBrowser(s))
    BY <1>2, <1>4, <1>6, ReturnKeeps, ReturnFollows DEF Kept
  <2> QED BY <1>1, <2>1, <2>2, ShowTracks
<1>7. CASE s.back = NoSnapshot /\ ~(s.view.kind = "vms" \/ (s.view.kind = "pick" /\ shown = "C"))
  <2>1. SetStopped(ClearFilter(s))
    BY <1>3, <1>7
  <2>2. ClearFilter(s) \in States /\ AllFollow(ClearFilter(s))
    BY <1>2, <1>4, ClearFilterKeeps, MovedFollows DEF Still, Kept
  <2> QED BY <2>1, <2>2, StopTracks
<1> QED BY <1>5, <1>6, <1>7

LEMMA TargetTracks ==
    ASSUME Views, Tracks, ApplyTarget \/ EnterPick
    PROVE  Tracks'
<1>1. ASSUME NEW w \in WS, NEW t \in SomeTarget, NEW f \in BOOLEAN,
             ShowRefreshed(w, Targeted(st[w], t))
             \/ ShowRefreshed(w, [Targeted(st[w], t) EXCEPT !.stale = f])
      PROVE  Tracks'
  <2>1. st[w] \in States /\ Fine(st[w]) /\ AllFollow(st[w])
    BY HereFollows
  <2> DEFINE r == InvalidateResults(st[w])
             v == ViewOf("list", t)
             u == [r EXCEPT !.target = t, !.view = v]
             x == [u EXCEPT !.stale = f]
  <2>2. r \in States /\ Bare(r) /\ v \in ReadSet
    BY <2>1, InvalidateKeeps, InvalidFollows, ViewTypes DEF Kept
  <2>3. ShowRefreshed(w, u) \/ ShowRefreshed(w, x)
    BY <1>1 DEF Targeted
  <2> HIDE DEF r, v
  <2>4. u \in States /\ Bare(u)
    BY <2>2 DEF States, Bare
  <2> HIDE DEF u
  <2>5. x \in States /\ Bare(x)
    BY <2>4 DEF States, Bare
  <2> HIDE DEF x
  <2> QED BY <2>3, <2>4, <2>5, BareFollows, ShowTracks
<1>2. CASE ApplyTarget
  BY <1>1, <1>2, NoneTypes DEF ApplyTarget
<1>3. CASE EnterPick
  <2> DEFINE s == st[shown]
             x == IF s.view.kind = "namespaces" THEN s.target ELSE Selected(s)
             e == [s EXCEPT !.target = None]
  <2>1. shown \in WS /\ s \in States /\ s.target \in SomeTarget
    BY Here
  <2>2. x \in SomeTarget
    BY <2>1, SelectedRow
  <2>3. \/ ShowRefreshed(shown, [Targeted(s, x) EXCEPT !.stale = (shown = "C")])
        \/ Set(InvalidateResults(e))
    BY <1>3 DEF EnterPick
  <2>4. (shown = "C") \in BOOLEAN
    OBVIOUS
  <2>5. CASE Set(InvalidateResults(e))
    <3>1. e \in States
      BY <2>1, NoneTypes DEF States
    <3> HIDE DEF e
    <3>2. Bare(InvalidateResults(e))
      BY <3>1, InvalidFollows
    <3> QED BY <2>5, <3>2, BareFollows, SetTracks
  <2> HIDE DEF x
  <2> QED BY <1>1, <2>1, <2>2, <2>3, <2>4, <2>5
<1> QED BY <1>2, <1>3

(* Enter, and c in the VM panel, show the detail of the selected row.      *)
LEMMA RowDetailTracks ==
    ASSUME Views, Tracks, NEW t, Set(t), t.detail = Selected(st[shown]),
           st[shown].view.kind \in {"vms", "typed"}, Selected(st[shown]) # None,
           t.view = st[shown].view, t.data = st[shown].data, t.sel = st[shown].sel,
           t.hidden = st[shown].hidden, t.back \in {st[shown].back, NoSnapshot},
           t.browser = st[shown].browser
    PROVE  Tracks'
<1> DEFINE s == st[shown]
<1>1. AllFollow(s) /\ job.reload = None
  BY HereFollows
<1>2. Follows(NoSnapshot)
  BY NoRow DEF Follows, NoSnapshot
<1>3. Selected(t) = Selected(s)
  BY DEF Selected, Rows
<1>4. AllFollow(t)
  BY <1>1, <1>2, <1>3 DEF AllFollow, Follows
<1> QED BY <1>1, <1>4, SetTracks

LEMMA EnterRowTracks ==
    ASSUME Views, Tracks, EnterRow \/ KeyConfigure
    PROVE  Tracks'
<1> DEFINE s == st[shown]
           b == IF s.view.kind = "vms" THEN NoSnapshot ELSE s.back
           x == IF VmPanel(shown, s) THEN Selected(s) ELSE s.target
<1>0. s \in States
  BY HereFollows
<1>1. b \in {s.back, NoSnapshot}
  OBVIOUS
<1>2. CASE EnterRow
  <2>1. s.view.kind \in {"vms", "typed"} /\ Selected(s) # None
    BY <1>2 DEF EnterRow
  <2>2. \/ Set([s EXCEPT !.detail = Selected(s), !.back = b, !.target = x])
        \/ /\ st' = [st EXCEPT ![shown] = Loading(s)] /\ UNCHANGED shown
           /\ job' = Reading(ViewOf("detail", s.target))
    BY <1>2 DEF EnterRow
  <2> HIDE DEF b, x
  <2>3. CASE Set([s EXCEPT !.detail = Selected(s), !.back = b, !.target = x])
    <3> DEFINE t == [s EXCEPT !.detail = Selected(s), !.back = b, !.target = x]
    <3>1. /\ t.view = s.view /\ t.data = s.data /\ t.sel = s.sel /\ t.hidden = s.hidden
          /\ t.detail = Selected(s) /\ t.back = b /\ t.browser = s.browser
      BY <1>0 DEF States
    <3>2. Set(t)
      BY <2>3
    <3> HIDE DEF t
    <3> QED BY <1>1, <2>1, <3>1, <3>2, RowDetailTracks
  <2> QED BY <2>2, <2>3, ReadTracks
<1>3. CASE KeyConfigure
  <2>1. s.view.kind \in {"vms", "typed"} /\ Selected(s) # None
    BY <1>3 DEF KeyConfigure, VmPanel
  <2>2. Set([s EXCEPT !.input = ":"]) \/ Set([s EXCEPT !.detail = Selected(s)])
    BY <1>3, Zenon DEF KeyConfigure
  <2>3. CASE Set([s EXCEPT !.input = ":"])
    <3>1. ":" \in Inputs
      BY DEF Inputs
    <3> QED BY <2>3, <3>1, FieldTracks, Zenon
  <2>4. CASE Set([s EXCEPT !.detail = Selected(s)])
    <3> DEFINE t == [s EXCEPT !.detail = Selected(s)]
    <3>1. /\ t.view = s.view /\ t.data = s.data /\ t.sel = s.sel /\ t.hidden = s.hidden
          /\ t.detail = Selected(s) /\ t.back = s.back /\ t.browser = s.browser
      BY <1>0 DEF States
    <3>2. Set(t)
      BY <2>4
    <3> HIDE DEF t
    <3> QED BY <2>1, <3>1, <3>2, RowDetailTracks
  <2> QED BY <2>2, <2>3, <2>4
<1> QED BY <1>2, <1>3

LEMMA KeyOfViewTracks ==
    ASSUME Views, Tracks, KeyOfView
    PROVE  Tracks'
<1> DEFINE s == st[shown]
<1>1. shown \in WS /\ s \in States /\ Fine(s) /\ AllFollow(s) /\ s.view \in ReadSet
  BY HereFollows, Here
<1>2. Selected(s) \in SomeTarget
  BY <1>1, SelectedRow
<1>3. CASE KeyQuit
  BY <1>3, AskToQuitTracks DEF KeyQuit
<1>4. CASE KeyTab
  <2>1. Other(shown) \in WS
    BY <1>1 DEF Other, WS
  <2>2. st[Other(shown)] \in States /\ AllFollow(st[Other(shown)])
    BY <2>1, HereFollows
  <2> QED BY <1>4, <2>1, <2>2, ShowTracks DEF KeyTab
<1>5. CASE KeyRefresh
  BY <1>1, <1>5, ShowTracks DEF KeyRefresh
<1>6. CASE KeyAll
  <2> DEFINE t == [s EXCEPT !.sel = 1]
  <2>1. s.detail \notin Ids
    BY <1>1, <1>6 DEF KeyAll, Native, AllFollow, Follows
  <2>2. t \in States /\ t.detail = s.detail /\ t.back = s.back /\ t.browser = s.browser
    BY <1>1 DEF States
  <2>3. ShowRefreshed(shown, t)
    BY <1>6 DEF KeyAll
  <2> HIDE DEF t
  <2>4. AllFollow(t)
    BY <1>1, <2>1, <2>2, PlainFollows
  <2> QED BY <1>1, <2>2, <2>3, <2>4, ShowTracks
<1>7. CASE \/ KeyVms \/ KeyPick \/ KeyNamespaces \/ KeyEsc \/ EnterPick \/ EnterRow
           \/ KeyConfigure
  BY <1>7, KeyVmsTracks, KeyPickTracks, KeyEscTracks, TargetTracks, EnterRowTracks
<1>8. CASE KeySlash
  <2>1. "/" \in Inputs
    BY DEF Inputs
  <2> QED BY <1>8, <2>1, FieldTracks, Zenon DEF KeySlash
<1>9. CASE KeyMove
  <2>1. PICK d \in {"up", "down"} : Set(MoveBy(s, d))
    BY <1>9 DEF KeyMove
  <2>2. AllFollow(MoveBy(s, d)) /\ MoveBy(s, d).detail = s.detail
    BY <1>1, MovedFollows
  <2>3. job.reload # None => s.detail \notin Ids
    BY HereFollows
  <2> QED BY <2>1, <2>2, <2>3, SetTracks
<1>10. CASE KeySettings \/ KeyMenu \/ KeyTargets
  BY <1>10, FieldTracks, Zenon DEF KeySettings, KeyMenu, KeyTargets, OpenMenu
<1>11. CASE KeyRow
  BY <1>11, RunRowKeyTracks DEF KeyRow
<1>12. CASE KeyStartVm
  <2>1. s.view.target \in SomeTarget
    BY <1>1 DEF ReadSet
  <2> QED BY <1>12, <2>1, FieldTracks, Zenon DEF KeyStartVm
<1>13. CASE KeyHamn
  <2>1. \/ Set([s EXCEPT !.pending = Selected(s)])
        \/ /\ st' = [st EXCEPT ![shown] = Loading(s)] /\ UNCHANGED shown
           /\ job' = Reading(ViewOf("detail", s.target))
    BY <1>13 DEF KeyHamn
  <2>2. CASE Set([s EXCEPT !.pending = Selected(s)])
    BY <1>2, <2>2, FieldTracks, Zenon
  <2> QED BY <2>1, <2>2, ReadTracks
<1> QED BY <1>3, <1>4, <1>5, <1>6, <1>7, <1>8, <1>9, <1>10, <1>11, <1>12, <1>13 DEF KeyOfView

(* An edited filter keeps the row of the detail selected, or none.         *)
LEMMA EditFilterTracks ==
    ASSUME Views, Tracks, EditFilter
    PROVE  Tracks'
<1> DEFINE s == st[shown]
<1>1. s \in States /\ AllFollow(s) /\ (job.reload # None => s.detail \notin Ids)
  BY HereFollows
<1>2. PICK hidden \in SUBSET Ids :
        Set([[s EXCEPT !.hidden = hidden] EXCEPT !.sel =
               IF Selected(s) = None THEN 0
               ELSE FindIdentity([s EXCEPT !.hidden = hidden], Selected(s))])
  BY Zenon DEF EditFilter
<1> DEFINE new == [s EXCEPT !.hidden = hidden]
           n == IF Selected(s) = None THEN 0 ELSE FindIdentity(new, Selected(s))
           t == [new EXCEPT !.sel = n]
<1>3. /\ new \in States /\ new.view = s.view /\ new.detail = s.detail /\ new.back = s.back
      /\ new.browser = s.browser
  BY <1>1 DEF States
<1>4. Set(t)
  BY <1>2
<1> HIDE DEF new
<1>5. Selected(t) \in {Selected(s), None}
  <2>1. CASE Selected(s) = None
    BY <1>3, <2>1, ZeroStays
  <2>2. CASE Selected(s) # None
    BY <1>1, <1>3, <2>2, FoundStays
  <2> QED BY <2>1, <2>2
<1> HIDE DEF n
<1>6. /\ t.view = s.view /\ t.detail = s.detail /\ t.back = s.back /\ t.browser = s.browser
  BY <1>3 DEF States
<1> HIDE DEF t, s
<1>7. AllFollow(t)
  BY <1>1, <1>5, <1>6 DEF AllFollow, Follows
<1> QED BY <1>1, <1>4, <1>6, <1>7, SetTracks

LEMMA LeaveCliTracks ==
    ASSUME Views, Tracks, LeaveCli
    PROVE  Tracks'
<1> DEFINE s == st[shown]
           r == InvalidateResults(s)
           t == Loading(r)
<1>1. shown \in WS /\ s \in States /\ Fine(s) /\ AllFollow(s)
  BY HereFollows
<1>2. CASE cli.reset
  <2>1. st' = [st EXCEPT ![shown] = t] /\ UNCHANGED shown
    BY <1>1, <1>2 DEF LeaveCli
  <2>2. r \in States /\ Bare(r)
    BY <1>1, InvalidateKeeps, InvalidFollows DEF Kept
  <2> HIDE DEF r
  <2>3. Bare(t)
    BY <2>2 DEF States, Bare, Loading
  <2> HIDE DEF t
  <2> QED BY <2>1, <2>3, BareFollows, PutTracks
<1>3. CASE ~cli.reset
  BY <1>1, <1>3, ShowTracks DEF LeaveCli
<1> QED BY <1>2, <1>3

-----------------------------------------------------------------------------
(* Commands *)

LEMMA EnteredFollows ==
    ASSUME Views, Tracks, NEW w \in WS
    PROVE  /\ Entered(w) \in States /\ AllFollow(Entered(w))
           /\ Entered(w).detail = st[w].detail /\ Fine(Entered(w))
<1>1. st[w] \in States /\ AllFollow(st[w])
  BY HereFollows
<1>2. Still(st[w], Entered(w))
  BY EnteredKeeps
<1>3. Alike(st[w], Entered(w))
  <2>1. None \in Inputs
    BY DEF Inputs
  <2> QED BY <1>1, <2>1, FieldsAlike, Zenon DEF Entered
<1> QED BY <1>1, <1>2, <1>3, AlikeFollows DEF Still, Kept, Alike

LEMMA CommandReadTracks ==
    ASSUME Views, Tracks, CommandRead
    PROVE  Tracks'
<1>1. PICK w \in WS, kind \in {"vms", "typed", "contexts", "namespaces"},
            read \in {"view", "detail"} :
        LET s == ShowView([Entered(w) EXCEPT !.back = NoSnapshot], kind)
        IN /\ st' = Swapped(w, Loading(s)) /\ shown' = w
           /\ job' = Reading(IF read = "view" THEN s.view ELSE ViewOf("detail", s.target))
  BY DEF CommandRead
<1> DEFINE e == Entered(w)
           u == [e EXCEPT !.back = NoSnapshot]
           s == ShowView(u, kind)
<1>2. st' = Swapped(w, Loading(s)) /\ shown' = w /\ job'.reload = None
  BY <1>1 DEF Reading, Stop, NoJob
<1>3. e \in States /\ AllFollow(e)
  BY EnteredFollows
<1> HIDE DEF e
<1>4. u \in States /\ AllFollow(s)
  <2>1. u \in States
    BY <1>3, NoneTypes DEF States
  <2> QED BY <1>3, <2>1, EnterFollows
<1> HIDE DEF u
<1>5. s \in States
  BY <1>4, ShownTypes
<1> HIDE DEF s
<1>6. AllFollow(Loading(s))
  BY <1>4, <1>5, WaitFollows
<1> HIDE DEF Loading
<1> QED BY <1>2, <1>6, SwapTracks

LEMMA CommandChangeTracks ==
    ASSUME Views, Tracks, CommandChange \/ CommandRefused
    PROVE  Tracks'
<1>1. PICK w \in WS :
        /\ \/ \E row \in Ids : st' = Swapped(w, TypedChange(Entered(w), row))
           \/ st' = Swapped(w, Entered(w))
        /\ shown' = w /\ job' = IF w = shown THEN job ELSE Stop(job)
  BY DEF CommandChange, CommandRefused
<1>2. Entered(w) \in States /\ AllFollow(Entered(w)) /\ Entered(w).detail = st[w].detail
  BY EnteredFollows
<1>3. job'.reload # None => w = shown /\ st[w].detail \notin Ids
  <2>1. CASE w = shown
    BY <1>1, <2>1, HereFollows
  <2>2. CASE w # shown
    BY <1>1, <2>2 DEF Stop, NoJob
  <2> QED BY <2>1, <2>2
<1>4. CASE st' = Swapped(w, Entered(w))
  BY <1>1, <1>2, <1>3, <1>4, SwapTracks
<1>5. CASE \E row \in Ids : st' = Swapped(w, TypedChange(Entered(w), row))
  <2>1. PICK row \in Ids : st' = Swapped(w, TypedChange(Entered(w), row))
    BY <1>5
  <2>2. /\ AllFollow(TypedChange(Entered(w), row))
        /\ TypedChange(Entered(w), row).detail \notin Ids
    BY <1>2, NoRow, EnterFollows
  <2> QED BY <1>1, <2>1, <2>2, SwapTracks
<1> QED BY <1>1, <1>4, <1>5

LEMMA CommandListTracks ==
    ASSUME Views, Tracks, CommandList
    PROVE  Tracks'
<1>1. PICK w \in WS, kind \in {"list", "other"} :
        LET s == [InvalidateResults(Entered(w)) EXCEPT !.view = Parse(st[w], kind)]
        IN st' = Swapped(w, Loading(s)) /\ shown' = w /\ job' = Reading(s.view)
  BY DEF CommandList
<1> DEFINE r == InvalidateResults(Entered(w))
           v == Parse(st[w], kind)
           s == [r EXCEPT !.view = v]
           t == Loading(s)
<1>2. st' = Swapped(w, t) /\ shown' = w /\ job'.reload = None
  BY <1>1 DEF Reading, Stop, NoJob
<1>3. r \in States /\ Bare(r)
  BY EnteredFollows, InvalidateKeeps, InvalidFollows DEF Kept
<1> HIDE DEF r, v
<1>4. Bare(t)
  BY <1>3 DEF States, Bare, Loading
<1> HIDE DEF t
<1> QED BY <1>2, <1>4, BareFollows, SwapTracks

LEMMA CommandCliTracks ==
    ASSUME Views, Tracks, CommandCli
    PROVE  Tracks'
<1>1. PICK w \in WS : st' = Swapped(w, Cancel(Entered(w))) /\ shown' = w /\ job' = NoJob
  BY DEF CommandCli, Stop
<1>2. AllFollow(Cancel(Entered(w))) /\ job'.reload = None
  BY <1>1, EnteredFollows, WaitFollows DEF NoJob
<1> HIDE DEF Cancel
<1> QED BY <1>1, <1>2, SwapTracks

LEMMA ChooseTracks ==
    ASSUME Views, Tracks, Choose
    PROVE  Tracks'
<1>1. PICK w \in WS : /\ shown' = w /\ st' = [st EXCEPT ![w] = Loading(@)]
                      /\ job' = Reading(st[w].view)
  BY DEF Choose
<1>2. AllFollow(Loading(st[w])) /\ job'.reload = None
  BY <1>1, HereFollows, WaitFollows DEF Reading, Stop, NoJob
<1>3. \A x \in WS : st'[x] = IF x = w THEN Loading(st[w]) ELSE st[x]
  BY <1>1 DEF Views
<1>4. \A x \in WS : AllFollow(st'[x])
  BY <1>2, <1>3 DEF Tracks
<1> QED BY <1>2, <1>4 DEF Tracks

LEMMA KeyElsewhereTracks ==
    ASSUME Views, Tracks, KeyElsewhere
    PROVE  Tracks'
<1> DEFINE s == st[shown]
<1>1. shown \in WS /\ s \in States /\ Fine(s) /\ AllFollow(s)
  BY HereFollows
<1>2. None \in SomeTarget /\ None \in Inputs /\ TRUE \in BOOLEAN /\ FALSE \in BOOLEAN
  BY NoneTypes DEF Inputs
<1>3. CASE KeyBackground \/ KeyInSessions
  <2>1. Set(s) \/ ShowRefreshed(shown, s)
    BY <1>3, Zenon DEF KeyBackground, KeyInSessions
  <2>2. CASE Set(s)
    BY <2>2, FieldTracks, Zenon
  <2> QED BY <1>1, <2>1, <2>2, ShowTracks
<1>4. CASE LeaveCli \/ EditFilter \/ Choose \/ ApplyTarget
  BY <1>4, LeaveCliTracks, EditFilterTracks, ChooseTracks, TargetTracks
<1>5. CASE KeyCtrlC
  BY <1>5, AskToQuitTracks DEF KeyCtrlC
<1>6. CASE ConfirmQuit \/ RefuseQuit
  BY <1>2, <1>6, FieldTracks, Zenon DEF ConfirmQuit, RefuseQuit
<1>7. CASE KeyInMenu
  <2>1. NativeCli => RunRowKey
    BY DEF RunRowKey
  <2>2. Set(s) \/ RunRowKey
    BY <1>7, <2>1, Zenon DEF KeyInMenu
  <2>3. CASE Set(s)
    BY <2>3, FieldTracks, Zenon
  <2> QED BY <2>2, <2>3, RunRowKeyTracks
<1>8. CASE ConfirmNative
  <2> DEFINE t == [s EXCEPT !.native = None]
  <2>1. t \in States /\ Alike(s, t)
    BY <1>1, <1>2 DEF States, Alike
  <2>2. SetStopped(t)
    BY <1>8 DEF ConfirmNative
  <2> HIDE DEF t
  <2> QED BY <1>1, <2>1, <2>2, AlikeFollows, StopTracks
<1>9. CASE Confirm
  BY <1>2, <1>9, FieldTracks, Zenon DEF Confirm
<1>10. CASE Refuse
  <2> DEFINE p == IF s.native # None THEN s.pending ELSE None
  <2>1. p \in SomeTarget
    BY <1>1, <1>2 DEF States
  <2>2. Set([s EXCEPT !.native = None, !.pending = p])
    BY <1>10 DEF Refuse
  <2> HIDE DEF p
  <2> QED BY <1>2, <2>1, <2>2, FieldTracks, Zenon
<1>11. CASE CloseInput \/ EnterFilter
  BY <1>2, <1>11, FieldTracks, Zenon DEF CloseInput, EnterFilter
<1>12. CASE EnterPorts
  <2> DEFINE t == [s EXCEPT !.input = None, !.forward = None]
  <2>1. t \in States /\ Alike(s, t)
    BY <1>1, <1>2 DEF States, Alike
  <2>2. SetStopped(t)
    BY <1>12 DEF EnterPorts
  <2> HIDE DEF t
  <2> QED BY <1>1, <2>1, <2>2, AlikeFollows, StopTracks
<1>13. CASE CommandRead \/ CommandChange \/ CommandList \/ CommandCli \/ CommandRefused
  BY <1>13, CommandReadTracks, CommandChangeTracks, CommandListTracks, CommandCliTracks
<1>14. CASE CommandQuit
  <2>1. Exit \/ Set([s EXCEPT !.input = None, !.quit = TRUE])
    BY <1>14, Zenon DEF CommandQuit
  <2>2. CASE Set([s EXCEPT !.input = None, !.quit = TRUE])
    BY <1>2, <2>2, FieldTracks, Zenon
  <2> QED BY <2>1, <2>2, ExitTracks
<1>15. CASE LeaveChoosing
  <2>1. Exit \/ Set(s) \/ Set([s EXCEPT !.quit = TRUE])
    BY <1>15, Zenon DEF LeaveChoosing
  <2>2. CASE Set(s) \/ Set([s EXCEPT !.quit = TRUE])
    BY <1>2, <2>2, FieldTracks, Zenon
  <2> QED BY <2>1, <2>2, ExitTracks
<1> QED BY <1>3, <1>4, <1>5, <1>6, <1>7, <1>8, <1>9, <1>10, <1>11, <1>12, <1>13, <1>14, <1>15
       DEF KeyElsewhere

-----------------------------------------------------------------------------
(* Answers, reloads and the end of a change *)

LEMMA ReceiveTracks ==
    ASSUME Views, Tracks, Receive
    PROVE  Tracks'
<1>0. PICK what \in Answers(job.answer) :
        \E rows \in IF what = "rows" THEN {RowsOf(job.answer, l) : l \in Lists} ELSE {<<>>} :
           /\ st' = [st EXCEPT ![shown] =
                       Accept(@, [of |-> job.answer, what |-> what, rows |-> rows])]
           /\ job' = [job EXCEPT !.answer = NoRead,
                                 !.of = IF what = "log" THEN job.answer ELSE @]
  BY Zenon DEF Receive
<1>1. PICK rows \in IF what = "rows" THEN {RowsOf(job.answer, l) : l \in Lists} ELSE {<<>>} :
        /\ st' = [st EXCEPT ![shown] =
                    Accept(@, [of |-> job.answer, what |-> what, rows |-> rows])]
        /\ job' = [job EXCEPT !.answer = NoRead, !.of = IF what = "log" THEN job.answer ELSE @]
  BY <1>0
<1> DEFINE a == [of |-> job.answer, what |-> what, rows |-> rows]
           s == st[shown]
           t == Accept(s, a)
<1>2. job \in Jobs /\ JobFits(job, s) /\ job.answer # NoRead /\ job.answer \in ReadSet
  BY DEF Views, Jobs, Receive
<1>3. s \in States /\ AllFollow(s) /\ shown \in WS
  BY HereFollows
<1>4. what = "rows" => rows \in Seq(Ids)
  BY <1>1, <1>2, RowsOfRows
<1>5. AllFollow(t)
  <2>1. a.what = what /\ a.of = job.answer /\ a.rows = rows
    OBVIOUS
  <2> HIDE DEF a, s
  <2> QED BY <1>2, <1>3, <1>4, <2>1, AcceptFollows
<1>6. job'.reload = None
  BY <1>1, <1>2 DEF Jobs, JobFits
<1>7. st' = [st EXCEPT ![shown] = t] /\ shown' = shown
  BY <1>1 DEF Receive
<1> HIDE DEF t
<1> QED BY <1>5, <1>6, <1>7, PutTracks

LEMMA TickTracks ==
    ASSUME Views, Tracks, Tick
    PROVE  Tracks'
<1> DEFINE s == st[shown]
           t == [s EXCEPT !.refreshing = TRUE]
<1>1. s \in States /\ AllFollow(s)
  BY HereFollows
<1>2. st' = [st EXCEPT ![shown] = t] /\ shown' = shown /\ job'.reload = None
  BY DEF Tick, Views, Reading, Stop, NoJob
<1>3. Alike(s, t)
  BY <1>1 DEF States, Alike
<1> HIDE DEF t
<1> QED BY <1>1, <1>2, <1>3, AlikeFollows, PutTracks

(* What is read again has no rows; no detail follows one.                  *)
LEMMA ReloadTracks ==
    ASSUME Views, Tracks, ReloadEnds
    PROVE  Tracks'
<1> DEFINE s == st[shown]
<1>1. job \in Jobs /\ job.reload # None
  BY Zenon DEF Views, ReloadEnds
<1>2. s \in States /\ AllFollow(s) /\ shown \in WS /\ s.detail \notin Ids
  BY <1>1, HereFollows
<1>3. CASE /\ st' = [st EXCEPT ![shown] = [Cancel(@) EXCEPT !.stale = TRUE]]
           /\ job' = [job EXCEPT !.reload = None] /\ UNCHANGED <<shown, endVars>>
  <2> DEFINE t == [Cancel(s) EXCEPT !.stale = TRUE]
  <2>1. Alike(s, t)
    BY <1>2 DEF States, Alike, Cancel
  <2>2. st' = [st EXCEPT ![shown] = t] /\ shown' = shown
    BY <1>3
  <2> HIDE DEF t, s
  <2>3. AllFollow(t) /\ t.detail \notin Ids
    BY <1>2, <2>1, AlikeFollows DEF Alike
  <2> QED BY <2>2, <2>3, PutTracks
<1>4. CASE \E t \in ReloadTargets :
             ShowRefreshed(shown, [st[shown] EXCEPT
                 !.target = t, !.view = ViewOf(IF t = None THEN "contexts" ELSE "list", t)])
  <2>1. PICK x \in ReloadTargets :
             ShowRefreshed(shown, [s EXCEPT
                 !.target = x, !.view = ViewOf(IF x = None THEN "contexts" ELSE "list", x)])
    BY <1>4, Zenon
  <2> DEFINE v == ViewOf(IF x = None THEN "contexts" ELSE "list", x)
             t == [s EXCEPT !.target = x, !.view = v]
  <2>2. x \in SomeTarget
    BY DEF ReloadTargets, SomeTarget
  <2>3. v \in ReadSet
    BY <2>2, ViewTypes
  <2>4. ShowRefreshed(shown, t)
    BY <2>1
  <2> HIDE DEF v, s
  <2>5. t \in States /\ t.detail = s.detail /\ t.back = s.back /\ t.browser = s.browser
    BY <1>2, <2>2, <2>3 DEF States
  <2> HIDE DEF t
  <2>6. AllFollow(t)
    BY <1>2, <2>5, PlainFollows
  <2> QED BY <1>2, <2>4, <2>5, <2>6, ShowTracks
<1>5. CASE UNCHANGED <<shown, st, job>>
  BY <1>5, RestTracks
<1> QED BY <1>3, <1>4, <1>5, Zenon DEF ReloadEnds

(* What a workspace is told of a change leaves its detail alone.           *)
LEMMA ToldAlike ==
    ASSUME Views, Changes, change # NoChange, NEW r \in ChangeResults, NEW w \in WS
    PROVE  Alike(st[w], Told(r)[w])
<1> DEFINE f == Told(r)
           q == [st EXCEPT ![shown].quit = FALSE]
<1>1. change.ws \in WS /\ st \in [WS -> States] /\ shown \in WS
  BY DEF Changes, Views
<1>2. f = [q EXCEPT ![change.ws].uncertain = q[change.ws].uncertain \cup Outcome(r)]
  BY <1>1 DEF Told
<1>3. q = [st EXCEPT ![shown] = [st[shown] EXCEPT !.quit = FALSE]]
  BY <1>1
<1>4. Alike(st[w], q[w]) /\ q[w] \in States /\ q \in [WS -> States]
  <2> DEFINE s == st[shown]
             t == [s EXCEPT !.quit = FALSE]
  <2>1. s \in States
    BY <1>1
  <2> HIDE DEF s
  <2>2. t \in States /\ Alike(s, t)
    BY <2>1 DEF States, Alike
  <2>3. q = [st EXCEPT ![shown] = t]
    BY <1>3 DEF s
  <2> HIDE DEF t, q
  <2>4. Alike(st[w], st[w])
    BY DEF Alike
  <2> QED BY <1>1, <2>2, <2>3, <2>4 DEF s
<1> HIDE DEF q
<1>5. f[w] = q[w] \/ f[w] = [q[w] EXCEPT !.uncertain = q[w].uncertain \cup Outcome(r)]
  BY <1>1, <1>2, <1>4
<1>6. Alike(q[w], f[w])
  <2> HIDE DEF f
  <2> QED BY <1>4, <1>5 DEF States, Alike
<1> QED BY <1>4, <1>6 DEF Alike

LEMMA ChangeEndsTracks ==
    ASSUME Views, Changes, Tracks, ChangeEnds \/ DrainEnds
    PROVE  Tracks'
<1>1. PICK r \in ChangeResults :
        /\ FinishMutation(r)
        /\ \/ st' = [Told(r) EXCEPT ![shown] = Cancel(@)] /\ job' = Stop(job)
           \/ st' = [Told(r) EXCEPT ![shown] = Loading(@)] /\ job' = Reading(st[shown].view)
           \/ st' = Told(r) /\ UNCHANGED job
        /\ UNCHANGED shown
  BY DEF ChangeEnds, DrainEnds
<1> DEFINE f == Told(r)
<1>2. f \in [WS -> States] /\ shown \in WS
  BY <1>1, ToldStates DEF FinishMutation, Views
<1>3. \A w \in WS : Alike(st[w], f[w])
  BY <1>1, ToldAlike DEF FinishMutation
<1> HIDE DEF f
<1>4. ASSUME NEW w \in WS PROVE AllFollow(st'[w]) /\ st'[w].detail = st[w].detail
  <2>1. f[w] \in States /\ AllFollow(f[w]) /\ f[w].detail = st[w].detail
    BY <1>2, <1>3, AlikeFollows DEF Tracks, Alike
  <2>2. st'[w] \in {f[w], Cancel(f[w]), Loading(f[w])}
    BY <1>1, <1>2 DEF f
  <2> QED BY <2>1, <2>2, WaitFollows
<1>5. job'.reload \in {job.reload, None}
  BY <1>1 DEF Stop, Reading, NoJob
<1> QED BY <1>1, <1>2, <1>4, <1>5 DEF Tracks

LEMMA BackgroundTracks ==
    ASSUME Views, Changes, Tracks, Background
    PROVE  Tracks'
<1>0. UNCHANGED <<shown, st, job>> => Tracks'
  BY RestTracks
<1>1. CASE ReadAnswers
  <2>1. job \in Jobs /\ UNCHANGED <<shown, st>>
        /\ job' = [job EXCEPT !.of = NoRead, !.answer = job.of]
    BY <1>1 DEF ReadAnswers, Views
  <2>2. job'.reload = job.reload
    BY <2>1 DEF Jobs
  <2> QED BY <2>1, <2>2, RestTracks
<1>2. CASE Receive \/ Tick \/ ReloadEnds \/ ChangeEnds
  BY <1>2, ReceiveTracks, TickTracks, ReloadTracks, ChangeEndsTracks
<1>3. CASE CliExits
  BY <1>0, <1>3, ExitTracks DEF CliExits
<1>4. CASE CliFails
  BY <1>4, HereFollows, ShowTracks DEF CliFails
<1>5. CASE BackgroundExits
  BY <1>0, <1>5 DEF BackgroundExits
<1>6. CASE Terminate
  BY <1>0, <1>6, ExitTracks DEF Terminate
<1>7. CASE Interrupt \/ InputLost
  BY <1>7, AskToQuitTracks, ExitTracks DEF Interrupt, InputLost
<1> QED BY <1>1, <1>2, <1>3, <1>4, <1>5, <1>6, <1>7 DEF Background

-----------------------------------------------------------------------------
(* Nothing has a detail at the start.                                      *)
LEMMA InitTracks ==
    ASSUME Init
    PROVE  Tracks
<1>1. PICK c \in ForWorkspace("C") : \E k \in ForWorkspace("K") :
        LET new == [w \in WS |-> IF w = "C" THEN c ELSE k]
        IN  IF overlay.choosing = "first"
            THEN st = new /\ job = NoJob
            ELSE /\ st = [new EXCEPT ![shown].loading = TRUE]
                 /\ job = [NoJob EXCEPT !.of = new[shown].view]
  BY DEF Init
<1>2. PICK k \in ForWorkspace("K") :
        LET new == [w \in WS |-> IF w = "C" THEN c ELSE k]
        IN  IF overlay.choosing = "first"
            THEN st = new /\ job = NoJob
            ELSE /\ st = [new EXCEPT ![shown].loading = TRUE]
                 /\ job = [NoJob EXCEPT !.of = new[shown].view]
  BY <1>1
<1> DEFINE new == [w \in WS |-> IF w = "C" THEN c ELSE k]
           Good(s) == s \in States /\ Bare(s) /\ Bare([s EXCEPT !.loading = TRUE])
<1>3. ASSUME NEW w \in WS, NEW s \in ForWorkspace(w) PROVE Good(s)
  <2>1. PICK t \in SomeTarget, kind \in {"list", "contexts"} : s = NewState(t, kind)
    BY ConsoleAssumption DEF ForWorkspace, SomeTarget, None
  <2>2. s \in States
    BY NewStates
  <2>3. Bare(s)
    BY <2>1 DEF NewState, Bare
  <2> QED BY <2>2, <2>3 DEF States, Bare
<1>4. \A w \in WS : Good(new[w])
  <2>1. Good(c) /\ Good(k)
    <3>1. "C" \in WS /\ "K" \in WS
      BY DEF WS
    <3> HIDE DEF Good
    <3> QED BY <1>3, <3>1
  <2> SUFFICES ASSUME NEW w \in WS PROVE Good(new[w])
    OBVIOUS
  <2>2. new[w] = c \/ new[w] = k
    OBVIOUS
  <2> HIDE DEF Good, new
  <2> QED BY <2>1, <2>2
<1>5. shown \in WS /\ new \in [WS -> States]
  <2>1. shown \in WS
    BY InitViews DEF Views
  <2> QED BY <1>4, <2>1
<1>6. \A w \in WS : st[w] \in {new[w], [new[w] EXCEPT !.loading = TRUE]}
  <2>1. st \in {new, [new EXCEPT ![shown].loading = TRUE]}
    BY <1>2
  <2> HIDE DEF new
  <2> QED BY <1>5, <2>1
<1>7. job.reload = None
  BY <1>2 DEF NoJob
<1> HIDE DEF new
<1>8. \A w \in WS : Bare(st[w])
  BY <1>4, <1>6
<1> QED BY <1>7, <1>8, BareFollows DEF Tracks

LEMMA StepTracks ==
    ASSUME IInv, Tracks, Next
    PROVE  Tracks'
<1>1. Views /\ Changes
  BY DEF IInv
<1>2. CASE KeyOfView \/ KeyElsewhere \/ Background
  BY <1>1, <1>2, KeyOfViewTracks, KeyElsewhereTracks, BackgroundTracks
<1>3. CASE KeyColon
  <2>1. ":" \in Inputs
    BY DEF Inputs
  <2>2. Set([st[shown] EXCEPT !.input = ":"])
    BY <1>3, Zenon DEF KeyColon
  <2> QED BY <1>1, <2>1, <2>2, FieldTracks, Zenon
<1>4. CASE LookupAnswers \/ ReceiveKinds \/ Gone
  <2>1. UNCHANGED <<shown, st, job>>
    BY <1>4, Zenon DEF LookupAnswers, ReceiveKinds, Gone
  <2> QED BY <1>1, <2>1, RestTracks
<1>5. CASE DrainEnds
  BY <1>1, <1>5, ChangeEndsTracks
<1> QED BY <1>2, <1>3, <1>4, <1>5 DEF Next, Loop

(* The keys of a detail act on the selected row.  Whatever moves under a   *)
(* detail that follows its row, in either workspace (an answer, an edited  *)
(* filter, a swap of the workspaces, a reload, the return to a list that   *)
(* was left), the row it is of is selected or none is (follow_row_detail). *)
THEOREM DetailAlwaysOfSelectedRow == Spec => []DetailIsOfSelectedRow
<1>1. IInv /\ Tracks /\ [Next]_vars => Tracks'
  <2>1. ASSUME IInv, Tracks, UNCHANGED vars PROVE Tracks'
    <3>1. Views /\ UNCHANGED <<shown, st, job>>
      BY <2>1 DEF IInv, vars
    <3> QED BY <2>1, <3>1, RestTracks
  <2> QED BY <2>1, StepTracks
<1>2. Tracks => DetailIsOfSelectedRow
  BY DEF Tracks, AllFollow, Follows, DetailIsOfSelectedRow, FollowsRows
<1> QED BY <1>1, <1>2, InitTracks, Invariant, PTL DEF Spec
============================================================================
