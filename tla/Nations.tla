------------------------------ MODULE Nations ------------------------------
(***************************************************************************)
(* The nations of the web client (data/nation.ts): the mirror of the       *)
(* player's relations (handle_player_diplstate of packhandlers.ts), the    *)
(* table with its selected row and the buttons that the selection enables. *)
(* The player and those listed alive are; a player removed leaves its row, *)
(* its relation in the window's diplstates, and perhaps its selection.     *)
(***************************************************************************)
EXTENDS Naturals, Sequences, FiniteSets, SequencesExt

CONSTANTS
  Others,       \* the other players
  Ais,          \* those that the server plays
  Passing,      \* bound: those who may leave the game, and have units of interest
  MaxOut,       \* bound: requests on their way
  NoOne

VARIABLES
  pact,         \* the server's relations, NoOne for who is not in the game
  owed,         \* wars with somebody known that were not announced (history)
  rumours,      \* what was announced and was no such war (history)
  net, out,     \* packets and requests on their way
  known,        \* w.players
  diplstates,   \* w.diplstates
  told,         \* the relation to the player in players[p].diplstates
  actee,        \* whose unit, city or tile the action selection dialog is about
  basis,        \* the relation when its actions were asked for (history)
  rows,         \* the players of the table
  selected,     \* w.selected_player
  buttons,      \* those enabled
  war_label,    \* whether the cancel button reads "Declare war"
  due,          \* the table's renewals still due
  writing       \* to whom the private message is

vars == <<pact, owed, rumours, net, out, known, diplstates, told, actee, basis,
          rows, selected, buttons, war_label, due, writing>>
Mirror == <<known, diplstates, told>>
Dialog == <<actee, basis>>
Table == <<rows, selected, buttons, war_label>>
Page == <<Mirror, Dialog, Table, due, writing>>

Relations == {"contactless", "war", "peace", "alliance"}

Info(p) == [kind |-> "info", player |-> p, state |-> NoOne]
Removal(p) == [kind |-> "remove", player |-> p, state |-> NoOne]
OfMine(p, state) == [kind |-> "mine", player |-> p, state |-> state]
OfTheirs(p, state) == [kind |-> "theirs", player |-> p, state |-> state]

(* The two directions of a relation are told in either order. *)
Pair(p, state) == {<<OfMine(p, state), OfTheirs(p, state)>>, <<OfTheirs(p, state), OfMine(p, state)>>}

(* The page loads in a game that goes on: everybody is told of, and then    *)
(* both directions of every relation.                                       *)
Greeting ==
  LET names == SetToSeq(Others)
      n == Len(names)
      Direction(i) == LET p == names[(i + 1) \div 2]
                      IN IF i % 2 = 1 THEN OfMine(p, pact[p]) ELSE OfTheirs(p, pact[p])
  IN [i \in 1..n |-> Info(names[i])] \o [i \in 1..2 * n |-> Direction(i)]

Init ==
  /\ pact \in [Others -> Relations]
  /\ owed = {p \in Others : pact[p] = "war"} /\ rumours = {}
  /\ net = Greeting
  /\ out = <<>>
  /\ known = {}
  /\ diplstates = [p \in Others |-> NoOne] /\ told = [p \in Others |-> NoOne]
  /\ actee = NoOne /\ basis = NoOne
  /\ rows = {} /\ selected = NoOne /\ buttons = {} /\ war_label = FALSE
  /\ due = 0 /\ writing = NoOne

-----------------------------------------------------------------------------
(* The server. *)
Becomes(p, state) ==
  /\ pact' = [pact EXCEPT ![p] = state]
  /\ net' \in {net \o two : two \in Pair(p, state)}
  /\ owed' = IF state = "war" /\ pact[p] # "contactless" THEN owed \cup {p} ELSE owed

Relates ==
  /\ net = <<>> /\ out = <<>>
  /\ \E p \in Others, state \in Relations \ {"contactless"} :
       pact[p] \notin {NoOne, state} /\ Becomes(p, state)
  /\ UNCHANGED <<rumours, out, Page>>

Leaves ==
  /\ net = <<>> /\ out = <<>>
  /\ \E p \in Passing :
       /\ pact[p] # NoOne
       /\ pact' = [pact EXCEPT ![p] = NoOne]
       /\ net' = <<Removal(p)>>
  /\ UNCHANGED <<owed, rumours, out, Page>>

Comes ==
  /\ net = <<>> /\ out = <<>>
  /\ \E p \in Passing :
       /\ pact[p] = NoOne
       /\ pact' = [pact EXCEPT ![p] = "contactless"]
       /\ net' \in {<<Info(p)>> \o two : two \in Pair(p, "contactless")}
  /\ UNCHANGED <<owed, rumours, out, Page>>

Worse(state) == CASE state = "alliance" -> "peace" [] state = "peace" -> "war" [] OTHER -> state

ServerTakes ==
  /\ net = <<>> /\ out # <<>>
  /\ out' = Tail(out)
  /\ LET r == Head(out)
     IN IF r.kind = "cancel" /\ pact[r.player] \in {"alliance", "peace"}
        THEN Becomes(r.player, Worse(pact[r.player]))
        ELSE UNCHANGED <<pact, owed, net>>
  /\ UNCHANGED <<rumours, Page>>

-----------------------------------------------------------------------------
(* handle_player_info and web_player_info_addition; handle_player_remove.   *)
HandleInfo(p) == known' = known \cup {p} /\ UNCHANGED <<owed, rumours, diplstates, told, Dialog>>

HandleRemove(p) ==
  /\ known' = known \ {p}
  /\ told' = [told EXCEPT ![p] = NoOne]
  /\ basis' = IF actee = p THEN NoOne ELSE basis
  /\ UNCHANGED <<owed, rumours, diplstates, actee>>

\* Mutant: only the player's own side of a relation is kept.
MirrorsOwn(m, mine) == IF mine THEN [diplstates EXCEPT ![m.player] = m.state] ELSE diplstates

Mirrors(m, mine) == [diplstates EXCEPT ![m.player] = m.state]

(* handle_player_diplstate: what changed of somebody the action selection   *)
(* is about makes it ask again; a war that is news is announced (alert_war).*)
HandleDiplstate(m, mine) ==
  LET changed == ~mine /\ told[m.player] \notin {NoOne, m.state}
      news == m.state = "war" /\ diplstates[m.player] \notin {"war", "contactless"}
  IN /\ diplstates' = Mirrors(m, mine)
     /\ told' = IF mine THEN told ELSE [told EXCEPT ![m.player] = m.state]
     /\ owed' = IF news THEN owed \ {m.player} ELSE owed
     /\ rumours' = IF news THEN rumours \cup ({m.player} \ owed) ELSE rumours
     /\ basis' = IF changed /\ actee = m.player THEN m.state ELSE basis
     /\ UNCHANGED <<known, actee>>

Handle ==
  /\ net # <<>>
  /\ net' = Tail(net)
  /\ LET m == Head(net)
     IN \/ m.kind = "info" /\ HandleInfo(m.player)
        \/ m.kind = "remove" /\ HandleRemove(m.player)
        \/ m.kind \in {"mine", "theirs"} /\ HandleDiplstate(m, m.kind = "mine")
  /\ UNCHANGED <<pact, out, Table, due, writing>>

(* The action selection dialog opens about somebody, or closes. *)
ActionSelection ==
  /\ \E p \in known \cap Passing : told[p] # NoOne /\ actee # p /\ actee' = p /\ basis' = told[p]
  /\ UNCHANGED <<pact, owed, rumours, net, out, Mirror, Table, due, writing>>

-----------------------------------------------------------------------------
(* update_nation_screen, select_no_nation *)
Renewed ==
  /\ rows' = known
  /\ selected' = NoOne /\ buttons' = {}
  /\ UNCHANGED war_label

UpdateNationScreen ==
  /\ Renewed
  /\ UNCHANGED <<pact, owed, rumours, net, out, Mirror, Dialog, due, writing>>

(* The renewals half a second and one and a half after a treaty was         *)
(* cancelled (diplomacy_cancel_treaty).                                     *)
RenewsLater ==
  /\ due > 0 /\ due' = due - 1
  /\ Renewed
  /\ UNCHANGED <<pact, owed, rumours, net, out, Mirror, Dialog, writing>>

(* select_a_nation: whoever left enables nothing, nor disables what the     *)
(* selection before enabled.                                                *)
Contacted(p) == diplstates[p] \notin {NoOne, "contactless"}

ButtonsFor(p) ==
  {"toggle_ai"}
  \cup (IF Contacted(p) THEN {"view", "meet"} ELSE {})
  \cup (IF Contacted(p) /\ diplstates[p] # "war" THEN {"cancel"} ELSE {})
  \cup (IF p \notin Ais THEN {"message"} ELSE {})
  \cup (IF diplstates[p] # "contactless" THEN {"intelligence"} ELSE {})

Selects(p) ==
  /\ selected' = p
  /\ IF p \in known
     THEN buttons' = ButtonsFor(p) /\ war_label' = (diplstates[p] = "peace")
     ELSE UNCHANGED <<buttons, war_label>>

(* handle_nation_table_select *)
NationTableSelect(p) ==
  /\ p \in rows
  /\ IF p = selected
     THEN selected' = NoOne /\ buttons' = {} /\ UNCHANGED war_label
     ELSE Selects(p)
  /\ UNCHANGED <<pact, owed, rumours, net, out, Mirror, Dialog, rows, due, writing>>

(* nation_table_select_player, from the information about a tile. *)
NationTableSelectPlayer(p) ==
  /\ p \in known
  /\ rows' = known
  /\ Selects(p)
  /\ UNCHANGED <<pact, owed, rumours, net, out, Mirror, Dialog, due, writing>>

Sends(kind, p) == Len(out) < MaxOut /\ out' = Append(out, [kind |-> kind, player |-> p])

(* cancel_treaty_clicked, diplomacy_cancel_treaty *)
CancelTreaty ==
  /\ "cancel" \in buttons /\ selected # NoOne
  /\ Sends("cancel", selected)
  /\ Renewed
  /\ due' = 2
  /\ UNCHANGED <<pact, owed, rumours, net, Mirror, Dialog, writing>>

(* nation_meet_clicked; take_player and aitoggle_player throw as well when  *)
(* the player is gone.                                                      *)
AsksAbout(button) ==
  /\ button \in buttons /\ selected \in known
  /\ Sends(button, selected)
  /\ UNCHANGED <<pact, owed, rumours, net, Page>>

(* show_send_private_message_dialog, send_private_message: to the name it   *)
(* was opened for, whoever is selected or has left since.                   *)
ShowPrivateMessage ==
  /\ "message" \in buttons /\ selected \in known
  /\ writing' = selected
  /\ UNCHANGED <<pact, owed, rumours, net, out, Mirror, Dialog, Table, due>>

SendPrivateMessage ==
  /\ writing # NoOne
  /\ Sends("message", writing)
  /\ writing' = NoOne
  /\ UNCHANGED <<pact, owed, rumours, net, Mirror, Dialog, Table, due>>

Next ==
  \/ Relates \/ Leaves \/ Comes \/ ServerTakes
  \/ Handle \/ ActionSelection
  \/ UpdateNationScreen \/ RenewsLater
  \/ \E p \in Others : NationTableSelect(p) \/ NationTableSelectPlayer(p)
  \/ CancelTreaty \/ \E button \in {"meet", "toggle_ai"} : AsksAbout(button)
  \/ ShowPrivateMessage \/ SendPrivateMessage

Spec == Init /\ [][Next]_vars

-----------------------------------------------------------------------------
(* When all packets are handled the relations are the server's, each war    *)
(* with somebody known was announced, and no war twice.                     *)
RelationsFollow ==
  net = <<>> =>
    /\ known = {p \in Others : pact[p] # NoOne}
    /\ \A p \in known : diplstates[p] = pact[p] /\ told[p] = pact[p]
    /\ owed = {} /\ rumours = {}

(* The action selection was asked for under the relation that holds, unless *)
(* whom it is about left.                                                   *)
SelectionCurrent == net = <<>> /\ actee # NoOne /\ basis # NoOne => basis = pact[actee]

(* Buttons are enabled for a player with a row, whom the window's           *)
(* diplstates do not know to be out of contact.                             *)
ButtonsHaveRow == buttons # {} => selected \in rows

NationsSound == RelationsFollow /\ SelectionCurrent /\ ButtonsHaveRow
=============================================================================
