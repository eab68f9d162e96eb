------------------------------- MODULE Console -------------------------------
(***************************************************************************)
(* The interactive console: one select loop over keys, answers of reads,   *)
(* the end of a change, terminal sessions, signals and the refresh tick.   *)
(* Two states, one per workspace ("C" containers, "K" Kubernetes), are     *)
(* swapped by navigation; `shown` names the one that keys act on and that  *)
(* answers are given to.  A row is its identity.  The rows of a picker and *)
(* of the VM panel are the targets they select.                            *)
(*                                                                         *)
(* Left out: texts, colours, help and the log view (they only scroll), the *)
(* refresh interval (the tick may come at any time), completion, history,  *)
(* favourites, resizing.                                                   *)
(***************************************************************************)
EXTENDS Naturals, Sequences, FiniteSets, SequencesExt

CONSTANTS Ids,           \* identities of rows; targets of both workspaces
          HamnProfiles,  \* the targets of "C" that are VMs of this program
          Contexts,      \* the context "K" starts with, None for a kubeconfig without
          Lists,         \* the row sequences a read may return
          Hands,         \* bound: the users, each with where it starts, the keys it
                         \* presses, how many, and how often kinds are looked up
          MaxChanges,    \* bound: changes started
          MaxSessions    \* bound: terminal sessions open at a time

ASSUME ConsoleAssumption ==
    /\ {"none", "text"} \cap Ids = {}
    /\ HamnProfiles \subseteq Ids /\ Contexts \subseteq Ids \cup {"none"} /\ Lists \subseteq Seq(Ids)
    /\ \A h \in Hands : h.on \subseteq {"C", "K"} /\ h.max \in Nat /\ h.lookups \in Nat
    /\ MaxChanges \in Nat /\ MaxSessions \in Nat

VARIABLES shown,     \* the workspace on the screen
          st,        \* State of each workspace
          job,       \* the job of reads: what it reads, reload, answer not yet taken
          change,    \* mutation_job: the running change or NoChange
          cancelled, \* its cancellation token
          unknown,   \* history: changes that ended with an unknown outcome
          changes,   \* history: changes started
          cli,       \* the session on the screen or NoSession
          sessions,  \* the sessions in the background
          overlay,   \* [menu, choosing, sessions]: what is drawn over the view
          exiting,   \* exit_after_cancel
          phase,     \* "run", "drain" after the loop, "gone", "panic"
          told,      \* the outcomes written to stderr at the end
          kinds,     \* ClusterKinds of "K" with its lookup and answers
          keys,      \* history: keys pressed
          hand       \* the user of this behaviour

uiVars == <<cli, sessions, overlay>>
changeVars == <<change, cancelled, unknown, changes>>
endVars == <<exiting, phase, told>>
vars == <<shown, st, job, changeVars, uiVars, endVars, kinds, keys, hand>>

None == "none"
WS == {"C", "K"}
Other(w) == IF w = "C" THEN "K" ELSE "C"
NoRead == [kind |-> None, target |-> None]
NoData == [of |-> NoRead, rows |-> <<>>]
NoChange == [no |-> 0, ws |-> None]
NoSession == [ws |-> None, reset |-> FALSE, exit |-> FALSE]
NoMenu == [kind |-> None, row |-> None]
NoSnapshot == [view |-> NoRead, target |-> None, data |-> NoData, sel |-> 0,
               hidden |-> {}, detail |-> None, stale |-> FALSE]

(* "list" is the default resource list of a CLI (docker ps, kubectl get     *)
(* pods), "other" any other list of the CLI, "typed" a structured list,     *)
(* "vms" the VM panel, "pick" the picker of an environment, "contexts" and  *)
(* "namespaces" those of a cluster.  The VMs and the contexts, which are in *)
(* the kubeconfig, are the same whatever is selected.                       *)
ViewOf(kind, target) ==
    [kind |-> kind, target |-> IF kind \in {"vms", "contexts"} THEN None ELSE target]
Native(s) == s.view.kind \in {"list", "other"}
HamnEnvironment(w, s) == w = "C" /\ s.target \in HamnProfiles
VmPanel(w, s) == HamnEnvironment(w, s) /\ s.view.kind = "vms"

(* parse: a command gets the selected target; its arguments decide whether  *)
(* it is a list of resources.  A typed --context, --host or --kubeconfig,   *)
(* which names another target, is left out.                                 *)
Parse(s, kind) == ViewOf(kind, s.target)

NewState(target, kind) ==
    [view |-> ViewOf(kind, target), target |-> target, data |-> NoData, sel |-> 1,
     hidden |-> {}, stale |-> FALSE, loading |-> FALSE, refreshing |-> FALSE,
     detail |-> None, back |-> NoSnapshot, browser |-> NoSnapshot,
     pending |-> None, native |-> None, input |-> None, forward |-> None,
     quit |-> FALSE, uncertain |-> {}]

(* for_workspace: a kubeconfig without a usable context opens its picker.   *)
ForWorkspace(w) ==
    IF w = "C" THEN {NewState(t, "list") : t \in HamnProfiles}
    ELSE {NewState(t, IF t = None THEN "contexts" ELSE "list") : t \in Contexts}

----------------------------------------------------------------------------
(* Methods of State *)

(* The rows that are not in `ids`, in their order.                          *)
Without(rows, ids) ==
    LET kept[n \in 0..Len(rows)] ==
            IF n = 0 THEN <<>>
            ELSE IF rows[n] \in ids THEN kept[n - 1] ELSE Append(kept[n - 1], rows[n])
    IN  kept[Len(rows)]

Rows(s) == Without(s.data.rows, s.hidden)

Selected(s) == IF s.sel \in 1..Len(Rows(s)) THEN Rows(s)[s.sel] ELSE None

(* A row that is not there, or there twice, is not found.                   *)
FindIdentity(s, id) ==
    LET at == {i \in 1..Len(Rows(s)) : Rows(s)[i] = id}
    IN  IF Cardinality(at) = 1 THEN CHOOSE i \in at : TRUE ELSE 0

Snapshot(s) == [view |-> s.view, target |-> s.target, data |-> s.data, sel |-> s.sel,
                hidden |-> s.hidden, detail |-> s.detail, stale |-> s.stale]

Restore(s, b) ==
    [s EXCEPT !.view = b.view, !.target = b.target, !.data = b.data, !.sel = b.sel,
              !.hidden = b.hidden, !.detail = b.detail, !.stale = b.stale]

OpenPicker(s, kind) ==
    [s EXCEPT !.back = IF @ = NoSnapshot THEN Snapshot(s) ELSE @,
              !.view = ViewOf(kind, s.target), !.detail = None, !.data = NoData,
              !.sel = 1, !.hidden = {}, !.stale = TRUE]

InvalidateResults(s) ==
    [s EXCEPT !.browser = NoSnapshot, !.back = NoSnapshot, !.data = NoData,
              !.stale = TRUE, !.sel = 1, !.hidden = {}, !.detail = None,
              !.native = None, !.forward = None,
              !.input = IF s.forward # None THEN None ELSE @]

ReturnToBrowser(s) ==
    IF s.browser # NoSnapshot /\ s.browser.target = s.target
    THEN Restore([s EXCEPT !.browser = NoSnapshot], s.browser)
    ELSE [s EXCEPT !.browser = NoSnapshot, !.view = Parse(s, "list"),
                   !.detail = None, !.sel = 1, !.hidden = {}]

(* view(command) of a read; a change leaves the view and only moves the     *)
(* cursor, the filter and the detail.                                       *)
ShowView(s, kind) ==
    [s EXCEPT !.view = ViewOf(kind, s.target), !.data = NoData, !.stale = FALSE,
              !.sel = 1, !.hidden = {}, !.detail = None]

TypedChange(s, row) == [s EXCEPT !.sel = 1, !.hidden = {}, !.detail = None, !.pending = row]

ClearFilter(s) ==
    LET open == [s EXCEPT !.hidden = {}]
    IN  [open EXCEPT !.sel = IF Selected(s) = None THEN 0 ELSE FindIdentity(open, Selected(s))]

MoveCursor(s, d) == [s EXCEPT !.sel =
    IF Rows(s) = <<>> THEN 0
    ELSE IF @ = 0 THEN (IF d = "up" THEN Len(Rows(s)) ELSE 1)
    ELSE IF d = "up" THEN (IF @ > 1 THEN @ - 1 ELSE 1)
    ELSE IF @ + 1 < Len(Rows(s)) THEN @ + 1 ELSE Len(Rows(s))]

(* Under a detail the keys scroll its text.                                 *)
MoveBy(s, d) == IF s.detail # None THEN s ELSE MoveCursor(s, d)

(* `detail` is None, "text" for a result of its own, or the row it is made  *)
(* of and follows.                                                          *)
FollowsRows(s) == s.detail \in Ids

FollowRowDetail(s) ==
    IF FollowsRows(s) /\ Selected(s) # s.detail THEN [s EXCEPT !.detail = "text"] ELSE s

MayRefresh(s) ==
    /\ ~s.loading /\ ~s.refreshing /\ s.pending = None /\ s.native = None
    /\ s.input = None /\ (s.detail = None \/ FollowsRows(s))

AcceptRowsByPosition(s, of, rows) ==
    FollowRowDetail([s EXCEPT !.stale = FALSE, !.data = [of |-> of, rows |-> rows]])

AcceptRows(s, of, rows) ==
    LET new == [s EXCEPT !.stale = FALSE, !.data = [of |-> of, rows |-> rows]]
    IN  FollowRowDetail([new EXCEPT !.sel =
            IF s.data = NoData THEN (IF Rows(new) = <<>> THEN 0 ELSE 1)
            ELSE IF Selected(s) = None THEN 0 ELSE FindIdentity(new, Selected(s))])

(* An answer: rows, a text shown as the detail, a piece of a followed log,  *)
(* a VM that is not ready or any other failure.                             *)
Accept(s, a) ==
    LET done == [s EXCEPT !.loading = FALSE, !.refreshing = FALSE]
    IN  CASE a.what = "rows" -> AcceptRows(done, a.of, a.rows)
          [] a.what = "log" -> [s EXCEPT !.detail = "text"]
          [] a.what = "ended" -> done
          [] a.what = "text" -> [done EXCEPT !.detail = "text"]
          [] a.what = "vmNotReady" -> [done EXCEPT !.data = NoData, !.stale = TRUE]
          [] OTHER -> [done EXCEPT !.stale = TRUE]

----------------------------------------------------------------------------
(* The job of reads and the change *)

NoJob == [of |-> NoRead, reload |-> None, answer |-> NoRead]

StopKeepingAnswer(j) == [j EXCEPT !.of = NoRead, !.reload = None]

(* Job::stop: tasks are aborted and the generation moves on, so an answer   *)
(* that already waits in the channel is passed over.                        *)
Stop(j) == NoJob

Cancel(s) == [s EXCEPT !.loading = FALSE, !.refreshing = FALSE]

Loading(s) == [s EXCEPT !.loading = TRUE, !.refreshing = FALSE]

Reading(what) == [Stop(job) EXCEPT !.of = what]

(* The state of `w` becomes `s` and is shown; its view is read again.       *)
ShowRefreshed(w, s) ==
    /\ shown' = w
    /\ st' = [st EXCEPT ![shown] = Cancel(@), ![w] = Loading(s)]
    /\ job' = Reading(s.view)

(* The state becomes `s` without a read, with the job left or stopped.      *)
Set(s) == st' = [st EXCEPT ![shown] = s] /\ UNCHANGED <<shown, job>>
SetStopped(s) == st' = [st EXCEPT ![shown] = Cancel(s)] /\ job' = Stop(job) /\ UNCHANGED shown

RowsOf(view, rows) ==
    IF view.kind = "vms" THEN Without(rows, Ids \ HamnProfiles) ELSE rows

(* hamn_query_failure: an unreachable Docker of a VM is the VM's state.      *)
MayBeNotReady(of) == of.kind \in {"list", "other"} /\ shown = "C" /\ of.target \in HamnProfiles

ListAnswers(of) == {"rows", "error"} \cup (IF MayBeNotReady(of) THEN {"vmNotReady"} ELSE {})

Answers(of) == IF of.kind = "detail" THEN {"text", "log", "ended", "error"} ELSE ListAnswers(of)

(* The task of a read sends its answer; nobody sees what it says before the *)
(* loop takes it.  A log sends text and goes on.                            *)
ReadAnswers ==
    /\ job.of # NoRead /\ job.answer = NoRead
    /\ job' = [job EXCEPT !.of = NoRead, !.answer = job.of]
    /\ UNCHANGED <<shown, st, changeVars, uiVars, endVars, keys>>

Receive ==
    /\ job.answer # NoRead
    /\ \E what \in Answers(job.answer) :
       \E rows \in IF what = "rows" THEN {RowsOf(job.answer, l) : l \in Lists} ELSE {<<>>} :
          /\ st' = [st EXCEPT ![shown] =
                      Accept(@, [of |-> job.answer, what |-> what, rows |-> rows])]
          /\ job' = [job EXCEPT !.answer = NoRead, !.of = IF what = "log" THEN job.answer ELSE @]
    /\ UNCHANGED <<shown, changeVars, uiVars, endVars, keys>>

Tick ==
    /\ cli = NoSession /\ overlay = [menu |-> NoMenu, choosing |-> None, sessions |-> FALSE]
    /\ MayRefresh(st[shown])
    /\ st' = [st EXCEPT ![shown].refreshing = TRUE]
    /\ job' = Reading(st[shown].view)
    /\ UNCHANGED <<shown, changeVars, uiVars, endVars, keys>>

(* Docker always names a current context; a kubeconfig may have none.       *)
ReloadTargets == Ids \cup (IF shown = "K" THEN {None} ELSE {})

(* start_reload read the configuration a CLI may have changed; the result   *)
(* is applied to the state on the screen, which must be of its workspace.   *)
ReloadEnds ==
    /\ job.reload # None
    /\ \/ /\ st' = [st EXCEPT ![shown] = [Cancel(@) EXCEPT !.stale = TRUE]]
          /\ job' = [job EXCEPT !.reload = None] /\ UNCHANGED <<shown, endVars>>
       \/ IF job.reload = shown
          THEN /\ \E t \in ReloadTargets :
                     ShowRefreshed(shown, [st[shown] EXCEPT
                         !.target = t, !.view = ViewOf(IF t = None THEN "contexts" ELSE "list", t)])
               /\ UNCHANGED endVars
          ELSE phase' = "panic" /\ UNCHANGED <<shown, st, job, exiting, told>>
    /\ UNCHANGED <<changeVars, uiVars, keys>>

(* finish_mutation: an unknown outcome is kept by the workspace of its      *)
(* request, whichever is on the screen.                                     *)
Outcome(r) == IF r = "unknown" THEN {change.no} ELSE {}

(* After the loop: sessions are dropped, reads are stopped, a change is     *)
(* cancelled and its end is waited for.                                     *)
Exit ==
    /\ phase' = "drain" /\ cli' = NoSession /\ sessions' = <<>>
    /\ job' = Stop(job) /\ cancelled' = (change # NoChange)
    /\ st' = [st EXCEPT ![shown] = Cancel(@)]
    /\ UNCHANGED <<shown, change, unknown, changes, overlay, exiting, told>>

ChangeResults == {"ok", "failed", "unknown"}

FinishMutation(r) ==
    /\ change # NoChange /\ change' = NoChange /\ cancelled' = FALSE
    /\ unknown' = unknown \cup Outcome(r) /\ UNCHANGED changes

Told(r) == [st EXCEPT ![shown].quit = FALSE, ![change.ws].uncertain = @ \cup Outcome(r)]

ChangeEnds ==
    /\ \E r \in ChangeResults :
        /\ FinishMutation(r)
        /\ IF exiting
           THEN /\ phase' = "drain" /\ cli' = NoSession /\ sessions' = <<>>
                /\ st' = [Told(r) EXCEPT ![shown] = Cancel(@)] /\ job' = Stop(job)
           ELSE /\ UNCHANGED <<phase, cli, sessions>>
                /\ IF job.reload = None
                   THEN /\ st' = [Told(r) EXCEPT ![shown] = Loading(@)]
                        /\ job' = Reading(st[shown].view)
                   ELSE st' = Told(r) /\ UNCHANGED job
    /\ UNCHANGED <<shown, overlay, exiting, told, keys>>

DrainEnds ==
    /\ \E r \in ChangeResults : FinishMutation(r) /\ st' = Told(r)
    /\ UNCHANGED <<shown, job, uiVars, endVars, keys>>

TellShown == st[shown].uncertain

(* write_outcomes of both states.                                           *)
WriteOutcomes == st[shown].uncertain \cup st[Other(shown)].uncertain

Gone ==
    /\ change = NoChange
    /\ phase' = "gone" /\ told' = WriteOutcomes
    /\ UNCHANGED <<shown, st, job, changeVars, uiVars, exiting, keys>>

----------------------------------------------------------------------------
(* Sessions and signals *)

Open(w, reset) == [ws |-> w, reset |-> reset, exit |-> FALSE]

(* open_cli may find no program or no terminal.                             *)
OpenCli(w, reset) ==
    /\ Len(sessions) < MaxSessions
    /\ cli' \in {Open(w, reset), NoSession} /\ UNCHANGED sessions

Proceed == UNCHANGED <<change, unknown, changes, overlay, told>>

(* The process on the screen ends; an exit that waits for it goes on.       *)
CliExits ==
    /\ cli # NoSession /\ ~cli.exit
    /\ IF exiting /\ change = NoChange THEN Exit
       ELSE /\ cli' = IF exiting THEN NoSession ELSE [cli EXCEPT !.exit = TRUE]
            /\ UNCHANGED <<shown, st, job, sessions, changeVars, overlay, endVars>>
    /\ UNCHANGED keys

CliFails ==
    /\ cli # NoSession /\ cli' = NoSession
    /\ ShowRefreshed(shown, st[shown])
    /\ UNCHANGED <<changeVars, sessions, overlay, endVars, keys>>

BackgroundExits ==
    /\ \E i \in 1..Len(sessions) :
        /\ ~sessions[i].exit
        /\ sessions' \in {[sessions EXCEPT ![i].exit = TRUE], RemoveAt(sessions, i)}
    /\ UNCHANGED <<shown, st, job, changeVars, cli, overlay, endVars, keys>>

(* SIGTERM goes to the session on the screen and cancels the change; the    *)
(* loop ends once both are gone.                                            *)
Terminate ==
    /\ "signal" \in hand.keys
    /\ IF change = NoChange /\ (cli = NoSession \/ cli.exit) THEN Exit
       ELSE /\ exiting' = TRUE /\ cancelled' = (change # NoChange)
            /\ cli' = IF cli.exit THEN NoSession ELSE cli
            /\ Proceed /\ UNCHANGED <<shown, st, job, sessions, phase>>
    /\ UNCHANGED keys

(* SIGINT goes to the session; without one it asks as Ctrl-C does.          *)
AskToQuit ==
    IF change = NoChange THEN Exit
    ELSE /\ Set([st[shown] EXCEPT !.quit = TRUE])
         /\ UNCHANGED <<changeVars, uiVars, endVars>>

Interrupt == "signal" \in hand.keys /\ cli = NoSession /\ AskToQuit /\ UNCHANGED keys

InputLost == "signal" \in hand.keys /\ Exit /\ UNCHANGED keys

----------------------------------------------------------------------------
(* Keys.  Focus is the first branch of the handler that takes a key.        *)

Focus ==
    LET s == st[shown] IN
    CASE overlay.sessions -> "sessions"
      [] cli # NoSession -> "cli"
      [] exiting -> "ignored"
      [] overlay.menu # NoMenu -> "menu"
      [] s.quit -> "quit"
      [] overlay.choosing # None -> "choosing"
      [] s.native # None -> "native"
      [] s.pending # None -> "pending"
      [] s.input # None -> "input"
      [] OTHER -> "view"

(* Screen is the first branch that draws.                                   *)
Screen ==
    LET s == st[shown] IN
    CASE cli # NoSession -> "cli"
      [] overlay.sessions -> "sessions"
      [] overlay.menu # NoMenu -> "menu"
      [] overlay.choosing # None -> "choosing"
      [] s.native # None -> "native"
      [] s.quit -> "quit"
      [] s.pending # None -> "pending"
      [] OTHER -> "view"

Press(key) == key \in hand.keys /\ keys < hand.max /\ keys' = keys + 1
PressAt(focus, key) == Focus = focus /\ Press(key)

KeepUi == UNCHANGED <<changeVars, uiVars, endVars>>

(* Ctrl-Alt-b and Ctrl-Alt-s put the session on the screen in the           *)
(* background, from anywhere.                                               *)
KeyBackground ==
    /\ Press("sessions")
    /\ sessions' = IF cli = NoSession THEN sessions ELSE Append(sessions, cli)
    /\ cli' = NoSession
    /\ \E open \in BOOLEAN :
        /\ overlay' = [overlay EXCEPT !.sessions = open]
        /\ IF open THEN Set(st[shown]) ELSE ShowRefreshed(shown, st[shown])
    /\ UNCHANGED <<changeVars, endVars>>

KeyInSessions ==
    /\ PressAt("sessions", "sessions")
    /\ \/ /\ overlay' = [overlay EXCEPT !.sessions = FALSE]
          /\ ShowRefreshed(shown, st[shown]) /\ UNCHANGED <<cli, sessions>>
       \/ \E i \in 1..Len(sessions) :
          /\ sessions' = RemoveAt(sessions, i) /\ Set(st[shown])
          /\ \/ cli' = sessions[i] /\ overlay' = [overlay EXCEPT !.sessions = FALSE]
             \/ UNCHANGED <<cli, overlay>>
    /\ UNCHANGED <<changeVars, endVars>>

(* Enter or Esc leaves a session whose process ended; a command that may    *)
(* have changed the CLI's configuration makes it be read again.             *)
LeaveCli ==
    /\ PressAt("cli", "leave") /\ cli.exit /\ cli' = NoSession
    /\ IF cli.reset
       THEN /\ st' = [st EXCEPT ![shown] = Loading(InvalidateResults(@))]
            /\ job' = [Stop(job) EXCEPT !.reload = cli.ws] /\ UNCHANGED shown
       ELSE ShowRefreshed(shown, st[shown])
    /\ UNCHANGED <<changeVars, sessions, overlay, endVars>>

KeyCtrlC ==
    /\ Focus \notin {"sessions", "cli", "ignored"} /\ Press("ctrl-c") /\ AskToQuit

ConfirmQuitIdle ==
    /\ PressAt("quit", "quit")
    /\ exiting' = TRUE /\ UNCHANGED cancelled
    /\ Set([st[shown] EXCEPT !.quit = FALSE])
    /\ Proceed /\ UNCHANGED <<cli, sessions, phase>>

ConfirmQuit ==
    /\ PressAt("quit", "quit")
    /\ exiting' = TRUE /\ cancelled' = (change # NoChange)
    /\ Set([st[shown] EXCEPT !.quit = FALSE])
    /\ Proceed /\ UNCHANGED <<cli, sessions, phase>>

RefuseQuit ==
    /\ PressAt("quit", "quit") /\ Set([st[shown] EXCEPT !.quit = FALSE]) /\ KeepUi

----------------------------------------------------------------------------
(* Actions on the selected row *)

(* build: a command needs the identity that the CLI gave the row; a row of  *)
(* the VM panel or of a picker has none.                                    *)
HasCliIdentity(s) == s.data.of.kind \in {"list", "other"}

(* row_action: current rows and a selected one.                             *)
CanActNative(s) ==
    /\ Native(s) /\ ~s.stale /\ ~s.loading /\ Selected(s) # None /\ HasCliIdentity(s)

(* State::action of a structured view.                                      *)
CanActHamn(s) == s.view.kind \in {"vms", "typed"} /\ ~s.stale /\ Selected(s) # None

NativeChange == /\ CanActNative(st[shown])
                /\ Set([st[shown] EXCEPT !.native = Selected(st[shown])])
                /\ UNCHANGED <<cli, sessions>>

NativeCli == CanActNative(st[shown]) /\ SetStopped(st[shown]) /\ OpenCli(shown, FALSE)

(* The list of another resource at the same target.                         *)
RelatedViews(s) == {ViewOf(kind, s.view.target) : kind \in {"list", "other"}}

Related ==
    LET s == st[shown] IN
    /\ Native(s) /\ ~s.stale /\ ~s.loading /\ Selected(s) # None
    /\ \E v \in RelatedViews(s) :
        ShowRefreshed(shown, [InvalidateResults(s) EXCEPT !.view = v])
    /\ UNCHANGED <<cli, sessions>>

OpenPortForward ==
    LET s == st[shown] IN
    /\ CanActNative(s) /\ shown = "K"
    /\ Set([s EXCEPT !.forward = Selected(s), !.input = "F"])
    /\ UNCHANGED <<cli, sessions>>

RunRowKey == NativeChange \/ NativeCli \/ Related \/ OpenPortForward

KeyRow == /\ PressAt("view", "row") /\ RunRowKey
          /\ UNCHANGED <<changeVars, overlay, endVars>>

(* s starts the VM whose Docker is not ready.                               *)
KeyStartVm ==
    LET s == st[shown] IN
    /\ PressAt("view", "hamn") /\ Native(s) /\ HamnEnvironment(shown, s)
    /\ Set([s EXCEPT !.pending = s.view.target]) /\ KeepUi

(* Keys of the VM panel and of structured lists: a change asks first, a     *)
(* read (inspect, logs, stats) is shown as a detail.                        *)
KeyHamn ==
    LET s == st[shown] IN
    /\ PressAt("view", "hamn") /\ CanActHamn(s)
    /\ \/ Set([s EXCEPT !.pending = Selected(s)])
       \/ /\ st' = [st EXCEPT ![shown] = Loading(s)] /\ UNCHANGED shown
          /\ job' = Reading(ViewOf("detail", s.target))
    /\ KeepUi

OpenMenu(kind) ==
    /\ overlay' = [overlay EXCEPT !.menu = [kind |-> kind, row |-> Selected(st[shown])]]
    /\ Set(st[shown]) /\ UNCHANGED <<changeVars, cli, sessions, endVars>>

KeyMenu == /\ PressAt("view", "menu")
           /\ Native(st[shown]) /\ Selected(st[shown]) # None
           /\ \E kind \in {"actions", "logs"} : OpenMenu(kind)

KeyTargets == PressAt("view", "targets") /\ OpenMenu("targets")

CloseMenu == overlay' = [overlay EXCEPT !.menu = NoMenu]

KeyInMenu ==
    /\ PressAt("menu", "menu") /\ overlay.menu.kind # "targets"
    /\ \/ CloseMenu /\ Set(st[shown]) /\ UNCHANGED <<cli, sessions>>
       \/ CloseMenu /\ overlay.menu.kind = "actions" /\ RunRowKey
       \/ CloseMenu /\ overlay.menu.kind = "logs" /\ NativeCli
       \/ /\ overlay.menu.kind = "actions" /\ Native(st[shown]) /\ Selected(st[shown]) # None
          /\ overlay' = [overlay EXCEPT !.menu = [kind |-> "logs", row |-> Selected(st[shown])]]
          /\ Set(st[shown]) /\ UNCHANGED <<cli, sessions>>
    /\ UNCHANGED <<changeVars, endVars>>

Targeted(s, t) == [InvalidateResults(s) EXCEPT !.target = t, !.view = ViewOf("list", t)]

(* apply_target of a recent or favourite target.                            *)
ApplyTarget ==
    /\ PressAt("menu", "targets") /\ overlay.menu.kind = "targets" /\ CloseMenu
    /\ \E w \in WS, t \in Ids : ShowRefreshed(w, Targeted(st[w], t))
    /\ UNCHANGED <<changeVars, cli, sessions, endVars>>

----------------------------------------------------------------------------
(* Confirmations and the prompt *)

ConfirmNative ==
    /\ PressAt("native", "confirm")
    /\ SetStopped([st[shown] EXCEPT !.native = None]) /\ OpenCli(shown, FALSE)
    /\ UNCHANGED <<changeVars, overlay, endVars>>

(* A second change is refused while one runs.                               *)
Confirm ==
    /\ PressAt("pending", "confirm")
    /\ Set([st[shown] EXCEPT !.pending = None])
    /\ IF change = NoChange
       THEN /\ changes < MaxChanges /\ changes' = changes + 1
            /\ change' = [no |-> changes + 1, ws |-> shown]
            /\ cancelled' = FALSE /\ UNCHANGED unknown
       ELSE UNCHANGED changeVars
    /\ UNCHANGED <<uiVars, endVars>>

Refuse ==
    /\ Focus \in {"native", "pending"} /\ Press("confirm")
    /\ Set([st[shown] EXCEPT !.native = None, !.pending = IF st[shown].native # None THEN @ ELSE None])
    /\ KeepUi

CloseInput ==
    /\ PressAt("input", "esc")
    /\ Set([st[shown] EXCEPT !.input = None, !.forward = None]) /\ KeepUi

EditFilterInPlace ==
    /\ PressAt("input", "/") /\ st[shown].input = "/"
    /\ \E hidden \in SUBSET Ids : Set([st[shown] EXCEPT !.hidden = hidden])
    /\ KeepUi

(* edit_input of a filter: the selected row stays selected or none is.      *)
EditFilter ==
    LET s == st[shown] IN
    /\ PressAt("input", "/") /\ s.input = "/"
    /\ \E hidden \in SUBSET Ids :
        LET new == [s EXCEPT !.hidden = hidden]
        IN  Set([new EXCEPT !.sel = IF Selected(s) = None THEN 0
                                    ELSE FindIdentity(new, Selected(s))])
    /\ KeepUi

EnterFilter == /\ PressAt("input", "/") /\ st[shown].input = "/"
               /\ Set([st[shown] EXCEPT !.input = None]) /\ KeepUi

EnterPorts ==
    /\ PressAt("input", "row") /\ st[shown].input = "F"
    /\ SetStopped([st[shown] EXCEPT !.input = None, !.forward = None]) /\ OpenCli(shown, FALSE)
    /\ UNCHANGED <<changeVars, overlay, endVars>>

(* A command line: its program decides the workspace (command_workspace).   *)
Prompt(key) == PressAt("input", key) /\ st[shown].input = ":"

Entered(w) == IF w = shown THEN [st[w] EXCEPT !.input = None] ELSE st[w]

(* The prompt of the state that is left is closed before the swap.          *)
Swapped(w, s) == [st EXCEPT ![shown] = IF w = shown THEN s ELSE [Cancel(@) EXCEPT !.input = None],
                            ![w] = s]

CommandRead ==
    /\ Prompt("command")
    /\ \E w \in WS, kind \in {"vms", "typed", "contexts", "namespaces"},
          read \in {"view", "detail"} :
        LET s == ShowView([Entered(w) EXCEPT !.back = NoSnapshot], kind)
        IN /\ kind = "vms" => w = "C"
           /\ kind \in {"contexts", "namespaces"} => w = "K"
           /\ kind \in {"typed", "namespaces"} => w = "C" \/ st["K"].target # None
           /\ st' = Swapped(w, Loading(s)) /\ shown' = w
           /\ job' = Reading(IF read = "view" THEN s.view ELSE ViewOf("detail", s.target))
    /\ KeepUi

CommandChange ==
    /\ Prompt("command")
    /\ \E w \in WS, row \in Ids :
        /\ st' = Swapped(w, TypedChange(Entered(w), row)) /\ shown' = w
        /\ job' = IF w = shown THEN job ELSE Stop(job)
    /\ KeepUi

CommandList ==
    /\ Prompt("list")
    /\ \E w \in WS, kind \in {"list", "other"} :
        LET s == [InvalidateResults(Entered(w)) EXCEPT !.view = Parse(st[w], kind)]
        IN st' = Swapped(w, Loading(s)) /\ shown' = w /\ job' = Reading(s.view)
    /\ KeepUi

CommandCli ==
    /\ Prompt("cli")
    /\ \E w \in WS, reset \in BOOLEAN :
        /\ st' = Swapped(w, Cancel(Entered(w))) /\ shown' = w /\ job' = Stop(job)
        /\ OpenCli(w, reset)
    /\ UNCHANGED <<changeVars, overlay, endVars>>

CommandRefused ==
    /\ Prompt("command")
    /\ \E w \in WS : /\ st' = Swapped(w, Entered(w)) /\ shown' = w
                     /\ job' = IF w = shown THEN job ELSE Stop(job)
    /\ KeepUi

CommandQuit ==
    /\ Prompt("quit")
    /\ IF change = NoChange THEN Exit
       ELSE Set([st[shown] EXCEPT !.input = None, !.quit = TRUE]) /\ KeepUi

----------------------------------------------------------------------------
(* Keys of the view *)

KeyQuit == PressAt("view", "quit") /\ AskToQuit

KeyTab == PressAt("view", "tab") /\ ShowRefreshed(Other(shown), st[Other(shown)]) /\ KeepUi

KeyRefresh == PressAt("view", "refresh") /\ ShowRefreshed(shown, st[shown]) /\ KeepUi

(* a toggles stopped containers; the rows stay until the new ones arrive.   *)
KeyAll == /\ PressAt("view", "all") /\ shown = "C" /\ Native(st[shown])
          /\ ShowRefreshed(shown, [st[shown] EXCEPT !.sel = 1]) /\ KeepUi

KeyVms ==
    LET s == st[shown] IN
    /\ PressAt("view", "vms") /\ HamnEnvironment(shown, s) /\ s.view.kind # "pick"
    /\ ShowRefreshed(shown, ShowView([s EXCEPT !.browser = IF Native(s) THEN Snapshot(s) ELSE @], "vms"))
    /\ KeepUi

(* e opens the picker of an environment or of a context.                    *)
KeyPick ==
    LET s == st[shown] IN
    /\ PressAt("view", "pick")
    /\ ShowRefreshed(shown, IF shown = "C" THEN OpenPicker(s, "pick")
                            ELSE ShowView(OpenPicker(s, "contexts"), "contexts"))
    /\ KeepUi

(* n opens the picker of a namespace.  Without a context view("ns") is      *)
(* refused, but open_picker was called: the contexts are on the screen, and *)
(* what was being read is still read.                                       *)
KeyNamespaces ==
    LET s == st[shown] IN
    /\ PressAt("view", "ns") /\ shown = "K"
    /\ IF s.target = None
       THEN Set(OpenPicker(s, "contexts"))
       ELSE ShowRefreshed(shown, ShowView(OpenPicker(s, "namespaces"), "namespaces"))
    /\ KeepUi

(* c offers the settings of the selected VM as a command to edit, or shows  *)
(* why they cannot be read.                                                 *)
KeyConfigure ==
    LET s == st[shown] IN
    /\ PressAt("view", "hamn") /\ VmPanel(shown, s) /\ Selected(s) # None
    /\ \/ Set([s EXCEPT !.input = ":"])
       \/ Set([s EXCEPT !.detail = Selected(s)])
    /\ KeepUi

KeySlash == PressAt("view", "/") /\ Set([st[shown] EXCEPT !.input = "/"]) /\ KeepUi

KeyMove == /\ PressAt("view", "move")
           /\ \E d \in {"up", "down"} : Set(MoveBy(st[shown], d))
           /\ KeepUi

KeyEsc ==
    LET s == [st[shown] EXCEPT !.detail = None] IN
    /\ PressAt("view", "esc")
    /\ IF s.back # NoSnapshot
       THEN ShowRefreshed(shown, Restore([s EXCEPT !.back = NoSnapshot], s.back))
       ELSE IF s.view.kind = "vms" \/ (s.view.kind = "pick" /\ shown = "C")
       THEN ShowRefreshed(shown, ReturnToBrowser(s))
       ELSE SetStopped(ClearFilter(s))
    /\ KeepUi

(* A row of a picker names a target; among the contexts only a row of the   *)
(* kubeconfig has a name, a row of a cluster has its metadata.              *)
CanPick(s) == /\ s.view.kind \in {"pick", "contexts", "namespaces"} /\ Selected(s) # None
              /\ s.view.kind = "contexts" => s.data.of.kind = "contexts"

(* Enter in a picker: an environment, a context or a namespace of the       *)
(* context.  A row without a name clears the rows and view("pods") is       *)
(* refused.                                                                 *)
EnterPick ==
    LET s == st[shown] IN
    /\ PressAt("view", "enter")
    /\ \/ /\ CanPick(s)
          /\ LET t == IF s.view.kind = "namespaces" THEN s.target ELSE Selected(s)
             IN  ShowRefreshed(shown, [Targeted(s, t) EXCEPT !.stale = (shown = "C")])
       \/ /\ s.view.kind = "contexts" /\ Selected(s) # None /\ ~CanPick(s)
          /\ Set(InvalidateResults([s EXCEPT !.target = None]))
    /\ KeepUi

EnterRow ==
    LET s == st[shown] IN
    /\ PressAt("view", "enter") /\ s.view.kind \in {"vms", "typed"} /\ Selected(s) # None
    /\ \/ Set([s EXCEPT !.detail = Selected(s),
                        !.back = IF s.view.kind = "vms" THEN NoSnapshot ELSE @,
                        !.target = IF VmPanel(shown, s) THEN Selected(s) ELSE @])
       \/ /\ s.view.kind = "typed" /\ ~s.stale
          /\ st' = [st EXCEPT ![shown] = Loading(s)] /\ UNCHANGED shown
          /\ job' = Reading(ViewOf("detail", s.target))
    /\ KeepUi

KeySettings == /\ PressAt("view", "settings")
               /\ overlay' = [overlay EXCEPT !.choosing = "settings"] /\ Set(st[shown])
               /\ UNCHANGED <<changeVars, cli, sessions, endVars>>

(* The choice of a workspace swaps the states without cancelling the read.  *)
Choose ==
    /\ PressAt("choosing", "settings") /\ overlay' = [overlay EXCEPT !.choosing = None]
    /\ \E w \in WS : /\ shown' = w /\ st' = [st EXCEPT ![w] = Loading(@)]
                     /\ job' = Reading(st[w].view)
    /\ UNCHANGED <<changeVars, cli, sessions, endVars>>

LeaveChoosing ==
    /\ PressAt("choosing", "settings")
    /\ \/ /\ overlay.choosing = "settings" /\ Set(st[shown])
          /\ overlay' = [overlay EXCEPT !.choosing = None]
          /\ UNCHANGED <<changeVars, cli, sessions, endVars>>
       \/ change = NoChange /\ Exit
       \/ /\ change # NoChange /\ Set([st[shown] EXCEPT !.quit = TRUE])
          /\ overlay' = [overlay EXCEPT !.choosing = None]
          /\ UNCHANGED <<changeVars, cli, sessions, endVars>>

----------------------------------------------------------------------------
(* The kinds a cluster serves, looked up for the prompt of "K" *)

NoLookup == [ticket |-> 0, of |-> "-"]

(* `target` and `of` are "-" for no target at all.                          *)
Idle(k) == [k EXCEPT !.target = "-", !.running = 0, !.words = "-", !.failed = FALSE,
                     !.known = FALSE, !.task = NoLookup]

(* retarget, in every turn of the loop: what is known of another context is *)
(* forgotten and its lookup is aborted; its answer may wait in the channel. *)
Retarget(k, t) == IF k.target = t THEN k ELSE Idle(k)

Wanted(k, t) == k.target # t \/ (k.running = 0 /\ (~k.known \/ k.failed))

(* begin: a failed listing of the same target stays while it is retried.    *)
Begin(k, t) ==
    LET n == k.tickets + 1
        base == IF k.target = t /\ k.known /\ k.failed THEN k ELSE Idle(k)
    IN  [base EXCEPT !.target = t, !.running = n, !.tickets = n, !.known = FALSE,
                     !.task = [ticket |-> n, of |-> t]]

FinishAnyTicket(k, a) ==
    [k EXCEPT !.running = 0, !.known = TRUE, !.failed = a.failed, !.words = a.words]

FinishLookup(k, a) == IF k.running = a.ticket THEN FinishAnyTicket(k, a) ELSE k

KeyColon ==
    /\ PressAt("view", ":") /\ Set([st[shown] EXCEPT !.input = ":"]) /\ KeepUi
    /\ kinds' = IF shown = "K" /\ kinds.tickets < hand.lookups /\ Wanted(kinds, st["K"].target)
                THEN Begin(kinds, st["K"].target) ELSE kinds

(* A lookup may fail with or without having listed some kinds.              *)
Listings(t) == {<<t, FALSE>>, <<t, TRUE>>, <<"-", TRUE>>}

LookupAnswers ==
    /\ kinds.task # NoLookup
    /\ \E l \in Listings(kinds.task.of) :
        kinds' = [kinds EXCEPT !.task = NoLookup, !.answers = @ \cup
              {[ticket |-> kinds.task.ticket, words |-> l[1], failed |-> l[2]]}]
    /\ UNCHANGED <<shown, st, job, changeVars, uiVars, endVars, keys>>

ReceiveKinds ==
    /\ \E a \in kinds.answers :
        kinds' = [FinishLookup(kinds, a) EXCEPT !.answers = @ \ {a}]
    /\ UNCHANGED <<shown, st, job, changeVars, uiVars, endVars, keys>>

----------------------------------------------------------------------------
(* Without a saved workspace the choice comes first and nothing is read.    *)
Init ==
    /\ hand \in Hands /\ shown \in hand.on
    /\ overlay \in [menu : {NoMenu}, choosing : hand.choosing, sessions : {FALSE}]
    /\ \E c \in ForWorkspace("C"), k \in ForWorkspace("K") :
        LET new == [w \in WS |-> IF w = "C" THEN c ELSE k]
        IN  IF overlay.choosing = "first"
            THEN st = new /\ job = NoJob
            ELSE /\ st = [new EXCEPT ![shown].loading = TRUE]
                 /\ job = [NoJob EXCEPT !.of = new[shown].view]
    /\ change = NoChange /\ cancelled = FALSE
    /\ unknown = {} /\ changes = 0 /\ cli = NoSession /\ sessions = <<>>
    /\ exiting = FALSE /\ phase = "run" /\ told = {} /\ keys = 0
    /\ kinds = [target |-> "-", running |-> 0, words |-> "-", failed |-> FALSE,
                known |-> FALSE, task |-> NoLookup, tickets |-> 0, answers |-> {}]

KeyOfView ==
    \/ KeyQuit \/ KeyTab \/ KeyRefresh \/ KeyAll \/ KeyVms \/ KeyPick \/ KeyNamespaces
    \/ KeyConfigure \/ KeySlash \/ KeyMove \/ KeyEsc \/ EnterPick \/ EnterRow \/ KeySettings
    \/ KeyRow \/ KeyStartVm \/ KeyHamn \/ KeyMenu \/ KeyTargets

KeyElsewhere ==
    \/ KeyBackground \/ KeyInSessions \/ LeaveCli \/ KeyCtrlC \/ ConfirmQuit \/ RefuseQuit
    \/ KeyInMenu \/ ApplyTarget \/ ConfirmNative \/ Confirm \/ Refuse
    \/ CloseInput \/ EditFilter \/ EnterFilter \/ EnterPorts
    \/ CommandRead \/ CommandChange \/ CommandList \/ CommandCli \/ CommandRefused
    \/ CommandQuit \/ Choose \/ LeaveChoosing

Background ==
    \/ ReadAnswers \/ Receive \/ Tick \/ ReloadEnds \/ ChangeEnds
    \/ CliExits \/ CliFails \/ BackgroundExits \/ Terminate \/ Interrupt \/ InputLost

Loop == /\ phase = "run" /\ UNCHANGED hand
        /\ \/ /\ KeyOfView \/ KeyElsewhere \/ Background
              /\ kinds' = Retarget(kinds, st'["K"].target)
           \/ KeyColon \/ LookupAnswers \/ ReceiveKinds

Next == \/ Loop
        \/ phase = "drain" /\ (DrainEnds \/ Gone) /\ UNCHANGED <<kinds, hand>>

(* A cancelled change ends (ControlRequest, CancelledEnds), and the exit    *)
(* that waits for it goes on.                                               *)
Fairness ==
    /\ WF_vars(phase = "run" /\ cancelled /\ ChangeEnds /\ UNCHANGED <<kinds, hand>>)
    /\ WF_vars(phase = "drain" /\ (DrainEnds \/ Gone) /\ UNCHANGED <<kinds, hand>>)

Spec == Init /\ [][Next]_vars /\ Fairness

----------------------------------------------------------------------------
SomeTarget == Ids \cup {None}
ReadSet ==
    {r \in [kind : {None, "list", "other", "typed", "vms", "pick", "contexts", "namespaces", "detail"},
            target : SomeTarget] : r.kind \in {"vms", "contexts"} => r.target = None}

(* The type of the two states, of the job of reads and of what runs beside  *)
(* them (struct State, Job, MutationJob).                                   *)
TypeOK ==
    /\ shown \in WS /\ phase \in {"run", "drain", "gone", "panic"}
    /\ \A w \in WS : LET s == st[w] IN
        /\ {s.view, s.data.of} \subseteq ReadSet /\ s.target \in SomeTarget
        /\ s.data.rows \in Seq(Ids) /\ s.hidden \subseteq Ids
        /\ s.sel \in Nat /\ s.detail \in SomeTarget \cup {"text"}
        /\ {s.loading, s.refreshing, s.stale, s.quit} \subseteq BOOLEAN
        /\ s.uncertain \subseteq 1..MaxChanges
    /\ {job.of, job.answer} \subseteq ReadSet /\ job.reload \in WS \cup {None}
    /\ change.no \in 0..changes /\ changes \in 0..MaxChanges /\ unknown \subseteq 1..changes
    /\ {cancelled, exiting, overlay.sessions} \subseteq BOOLEAN
    /\ told \subseteq unknown /\ Len(sessions) <= MaxSessions /\ hand \in Hands

(* The rows a key can act on were read for the view, the target and the     *)
(* workspace on the screen: no late answer, swap, picker or return to an    *)
(* earlier list leaves the rows of one target under the name of another.    *)
(* The rows of a list whose read KeyNamespaces left running are drawn among *)
(* the contexts, but no key acts on them.                                   *)
RowsAreOfTheView ==
    \A w \in WS : LET s == st[w] IN
        CanActNative(s) \/ CanActHamn(s) \/ CanPick(s) => s.data.of = s.view

(* Nothing but a navigation key moves the cursor from one row to another:   *)
(* an answer, a change that ends and an edited filter keep the selected     *)
(* identity or select nothing (edit_input, accept).                         *)
CursorStays ==
    [][keys' = keys \/ EditFilter =>
         \A w \in WS : \/ Selected(st[w])' \in {Selected(st[w]), None}
                       \/ Selected(st[w]) = None]_vars

(* The keys of a detail act on the selected row: while a detail follows its *)
(* row, no other row is selected (follow_row_detail).                       *)
DetailIsOfSelectedRow ==
    \A w \in WS : FollowsRows(st[w]) => Selected(st[w]) \in {st[w].detail, None}

(* The program leaves no change behind, and every change whose outcome is   *)
(* unknown is reported, in whichever workspace it was started and however   *)
(* the console was left (finish_mutation, write_outcomes).                  *)
OutcomesTold == phase = "gone" => change = NoChange /\ unknown \subseteq told

(* The kinds offered at the prompt are those of the selected context: the   *)
(* answer of a lookup for an earlier context is never offered.              *)
KindsOfTheContext ==
    kinds.target = st["K"].target /\ kinds.words # "-" => kinds.words = st["K"].target

(* A confirmed exit, and a SIGTERM, during a change ends the program once   *)
(* the cancelled change has ended.                                          *)
QuitEnds == (exiting /\ change # NoChange) ~> phase \in {"gone", "panic"}

(* A confirmation on the screen is the one a key answers (tui_keys: a hint  *)
(* names only a key that the handler acts on).                              *)
ConfirmsWhatIsShown ==
    phase = "run" /\ ~exiting /\ Screen \in {"native", "quit", "pending"} => Focus = Screen

(* A reload is applied to a state of its workspace (the assertions of       *)
(* Selection::apply).                                                       *)
ReloadFitsTheScreen == phase # "panic"

(* A menu acts on the row it was opened for.                                *)
MenuActsOnItsRow ==
    overlay.menu.row # None /\ overlay.menu.kind # "targets" /\ CanActNative(st[shown])
    => Selected(st[shown]) = overlay.menu.row

(* Only the state on the screen is loading: a hidden one has no read.       *)
HiddenIsNotLoading == ~st[Other(shown)].loading

(* An exit that was asked for happens.                                      *)
ExitHappens == exiting ~> phase \in {"gone", "panic"}

=============================================================================
