----------------------------- MODULE MCConsole -----------------------------
(***************************************************************************)
(* Instances of Console: two identities, which are also the targets, one   *)
(* of them a VM.  Lists hold the reordered, shortened and doubled row      *)
(* sequences that tell an identity from a position.  A hand is a part of   *)
(* the instance: a user who starts in one of these workspaces and presses  *)
(* only these keys, up to a bound.                                         *)
(***************************************************************************)
EXTENDS Console

MCIds == {"a", "b"}
MCHamnProfiles == {"a"}
MCContexts == {"b", None}
MCLists == {<<"a", "b">>, <<"b", "a">>, <<"b", "b">>}

Hand(w, n, pressed) ==
    [on |-> w, choosing |-> {None}, keys |-> pressed, max |-> n, lookups |-> 0]
WithLookups(h, n) == [h EXCEPT !.lookups = n]
Navigates == Hand(WS, 4, {"pick", "enter", "esc", "vms"})
Refreshes == Hand(WS, 4, {"move", "refresh", "all", "esc", "vms", "enter"})
Filters == Hand({"C"}, 5, {"/", "enter", "move", "esc", "vms"})
Types == Hand({"C"}, 3, {":", "command", "list", "confirm", "enter"})
Reads == WithLookups(Hand({"K"}, 3, {":", "command", "list"}), 1)
Asks == Hand({"K"}, 4, {":", "list", "ns", "enter"})
Quits == Hand(WS, 4, {"hamn", "confirm", "quit", ":"})
Leaves == Hand({"C"}, 4, {"hamn", "confirm", "tab", "quit"})
Chooses == [Hand({"C"}, 4, {"hamn", "confirm", "settings"}) EXCEPT !.choosing = {None, "first"}]
Sessions == Hand({"C"}, 4, {"row", "hamn", "confirm", "leave", "sessions", "signal", "ctrl-c"})
Reloads == Hand({"C"}, 3, {":", "cli", "leave"})
Panel == Hand({"C"}, 3, {"vms", "hamn", "enter", "confirm"})
Forwards == Hand({"C"}, 3, {"row", "esc", "leave"})
Targets == WithLookups(Hand({"K"}, 5, {":", "targets", "esc"}), 2)
Menus == Hand(WS, 4, {"menu", "row", "confirm", "esc"})
MCHands == {Navigates, Refreshes, Filters, Types, Reads, Asks, Reloads, Panel, Forwards, Quits, Leaves, Chooses, Sessions, Targets, Menus}

ConfirmHands == {Hand(WS, 6, {"hamn", "row", "confirm", "ctrl-c", "tab"})}
ReloadHands == {Hand(WS, 7, {":", "cli", "sessions", "leave", "tab"})}
MenuHands == {Hand(WS, 6, {"hamn", "confirm", "menu", "move"})}
SettingsHands == {Hand(WS, 3, {"settings"})}
QuitHands == {Hand(WS, 8, {"hamn", "confirm", "ctrl-c", "targets", "quit"})}

============================================================================
