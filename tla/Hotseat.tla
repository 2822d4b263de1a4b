------------------------------ MODULE Hotseat ------------------------------
(***************************************************************************)
(* A game of several players at one page (ui/hotseat.ts): the dialog that  *)
(* takes their names, the commands that make them players of the server's  *)
(* game, and the dialogs that hand the page from one to the next.          *)
(*                                                                         *)
(* The names are read 900 ms after the click, or when the connection is    *)
(* open; the game may have begun by then.  Of the dialogs that are open    *)
(* the last one takes input.  The server lets each of its players play a   *)
(* phase of the turn and may end a phase at any time; its order of them is *)
(* its own.                                                                *)
(***************************************************************************)
EXTENDS Naturals, Sequences, SequencesExt, Lists

CONSTANTS
  Names,      \* what is typed as a name: Invalid, or a valid name
  Invalid,
  Typed,      \* bound: the names the dialog begins with
  Logins,     \* the user's name, with which the page logs in
  Computers,  \* bound: players of the computer's that the game begins with
  MaxPlayers, \* 125 in the code
  MaxSetups,  \* bound: clicks on "New hotseat game"
  MaxEdits,   \* bound: names that are changed
  MaxEnds,    \* bound: phases that end
  MaxNet,     \* bound: packets and commands on their way
  None

VARIABLES
  ws, setups, clicks, edits, \* the socket, timers of setup_hotseat_game, and bounds
  fields,                    \* the names in the dialog; there are none once it is removed
  num_hotseat_players, hotseat_players, hotseat_active_player, hotseat_pwd,
  stack,                     \* open dialogs: "new", "phase" and "pwd"
  dialog_close_trigger,
  running, page,             \* the client's state; is the page of the game shown?
  roster, phase, seat, ends, \* the server: its players, whose phase it is, who plays here
  up, net,                   \* commands, and packets, on their way
  opened,                    \* history: for whom the page was opened
  left,                      \* history: was the dialog of the phase just closed?
  met                        \* history: did a phase end under a dialog for a password?

vars == <<ws, setups, clicks, edits, fields, num_hotseat_players, hotseat_players,
          hotseat_active_player, hotseat_pwd, stack, dialog_close_trigger, running, page,
          roster, phase, seat, ends, up, net, opened, left, met>>

timers == <<ws, setups, clicks, edits>>
seats == <<num_hotseat_players, hotseat_players, hotseat_active_player>>
dialogs == <<stack, dialog_close_trigger>>
screen == <<running, page>>
server == <<roster, phase, seat, ends>>
wires == <<up, net>>
history == <<opened, left, met>>

\* Whose turn it is to play, or None: a place of the list that is not there
NameAt(list, i) == IF i < Len(list) THEN list[i + 1] ELSE None
Active == NameAt(hotseat_players, hotseat_active_player)

Top(d) == stack # << >> /\ stack[Len(stack)] = d
Staying(D) == Keep(stack, {i \in DOMAIN stack : stack[i] \in D})
Close(d) == Staying({"new", "phase", "pwd"} \ {d})
OnTop(d) == Append(Close(d), d)

-----------------------------------------------------------------------------
\* The dialog of a new game.

AddPlayer ==
  /\ Top("new") /\ num_hotseat_players < MaxPlayers
  /\ num_hotseat_players' = num_hotseat_players + 1
  /\ fields' = Append(fields, Invalid)
  /\ UNCHANGED <<timers, hotseat_players, hotseat_active_player, hotseat_pwd, dialogs, screen,
                 server, wires, history>>

Type(i, n) ==
  /\ Top("new") /\ edits < MaxEdits /\ edits' = edits + 1
  /\ fields[i] # n /\ fields' = [fields EXCEPT ![i] = n]
  /\ UNCHANGED <<ws, setups, clicks, seats, hotseat_pwd, dialogs, screen, server, wires, history>>

\* new_hotseat_game, network_init: every click opens a socket and starts a timer
NewGame ==
  /\ Top("new") /\ clicks < MaxSetups /\ clicks' = clicks + 1
  /\ \A i \in 1..num_hotseat_players : fields[i] # Invalid
  /\ ws' = "opening" /\ setups' = setups + 1
  /\ UNCHANGED <<edits, fields, seats, hotseat_pwd, dialogs, screen, server, wires, history>>

SocketOpens ==
  /\ ws = "opening" /\ ws' = "open"
  /\ UNCHANGED <<setups, clicks, edits, fields, seats, hotseat_pwd, dialogs, screen, server,
                 wires, history>>

CloseNew ==
  /\ Top("new") /\ stack' = Close("new")
  /\ UNCHANGED <<timers, fields, seats, hotseat_pwd, dialog_close_trigger, screen, server, wires,
                 history>>

\* setup_hotseat_game.  The dialog it closes may be the one of a phase, which
\* does not close unless its trigger is set.
Setup ==
  LET n == num_hotseat_players
      name(i) == NameAt(fields, i - 1)
      made == [j \in 1..2 * (n - 1) |-> [c |-> IF j % 2 = 1 THEN "create" ELSE "ai",
                                         n |-> name((j + 1) \div 2 + 1)]]
  IN  /\ setups > 0 /\ ws = "open" /\ setups' = setups - 1
      /\ hotseat_players' = hotseat_players \o [i \in 1..n |-> name(i)]
      /\ up' = up \o made
      /\ stack' = Staying(IF dialog_close_trigger THEN {"pwd"} ELSE {"phase", "pwd"})
      /\ left' = (left \/ ("phase" \in ToSet(stack) /\ dialog_close_trigger))
      /\ UNCHANGED <<ws, clicks, edits, fields, num_hotseat_players, hotseat_active_player,
                     hotseat_pwd, dialog_close_trigger, screen, server, net, opened, met>>

\* pregame_start_game
Start ==
  /\ ws = "open" /\ stack = << >> /\ ~running /\ Len(up) < MaxNet
  /\ up' = Append(up, [c |-> "ready", n |-> None])
  /\ UNCHANGED <<timers, fields, seats, hotseat_pwd, dialogs, screen, server, net, history>>

-----------------------------------------------------------------------------
\* The server: create makes a computer's player, ai hands a player over.

Named(n) == {i \in 1..Len(roster) : roster[i].name = n}
Tells(t) == Append(net, [t |-> t, roster |-> roster, phase |-> phase'])

Served ==
  LET q == Head(up)
      hand == [i \in 1..Len(roster) |->
                 IF i \in Named(q.n) THEN [roster[i] EXCEPT !.ai = ~@] ELSE roster[i]]
  IN  /\ up # << >> /\ up' = Tail(up)
      /\ roster' = IF q.c = "create" /\ phase = 0 /\ q.n # None /\ Named(q.n) = {}
                   THEN Append(roster, [name |-> q.n, ai |-> TRUE])
                   ELSE IF q.c = "ai" THEN hand ELSE roster
      /\ seat' = IF q.c = "take" /\ Named(q.n) # {} THEN q.n ELSE seat
      /\ IF q.c = "ready" /\ phase = 0 /\ Len(roster) > 1
         THEN phase' = 1 /\ net' = Tells("start")
         ELSE UNCHANGED <<phase, net>>
      /\ UNCHANGED <<timers, fields, seats, hotseat_pwd, dialogs, screen, ends, history>>

PhaseEnds ==
  /\ phase > 0 /\ ends < MaxEnds /\ ends' = ends + 1 /\ Len(net) < MaxNet
  /\ phase' = (phase % Len(roster)) + 1
  /\ net' = Tells("end")
  /\ UNCHANGED <<timers, fields, seats, hotseat_pwd, dialogs, screen, roster, seat, up, history>>

-----------------------------------------------------------------------------
\* The page is handed over.

\* show_hotseat_new_phase: the dialog that took the names is gone with its fields
ShowNewPhase ==
  /\ stack' = Append(Staying({"pwd"}), "phase")
  /\ dialog_close_trigger' = FALSE /\ fields' = << >>
  /\ opened' = None /\ left' = FALSE

\* hotseat_load_refresh: the first of the human players whose phase is not over
Refreshed(p) ==
  LET human == Keep(p.roster, {i \in DOMAIN p.roster : ~p.roster[i].ai})
      over == {i \in 1..Len(human) : \E j \in 1..p.phase - 1 : p.roster[j] = human[i]}
      first == {i \in 1..Len(human) : i \notin over /\ \A j \in 1..i - 1 : j \in over}
  IN  /\ num_hotseat_players' = Len(human)
      /\ hotseat_players' = [i \in 1..Len(human) |-> human[i].name]
      /\ hotseat_active_player' = hotseat_active_player
                                  + (IF first = {} THEN Len(human) ELSE (CHOOSE i \in first : TRUE) - 1)

\* handle_start_phase: only the first one shows the dialog, and set_client_page
\* then shows the page that the dialog has hidden
HandleStart ==
  /\ net # << >> /\ Head(net).t = "start" /\ net' = Tail(net)
  /\ running' = TRUE /\ page' = TRUE
  /\ ShowNewPhase
  /\ IF hotseat_players = << >> THEN Refreshed(Head(net)) ELSE UNCHANGED seats
  /\ UNCHANGED <<timers, hotseat_pwd, server, up, met>>

\* handle_end_phase, hotseat_next_player
HandleEnd ==
  LET next == (hotseat_active_player + 1) % num_hotseat_players
  IN  /\ net # << >> /\ Head(net).t = "end" /\ net' = Tail(net)
      /\ hotseat_active_player' = next
      /\ up' = Append(up, [c |-> "take", n |-> NameAt(hotseat_players, next)])
      /\ page' = FALSE
      /\ ShowNewPhase
      /\ met' = (met \/ "pwd" \in ToSet(stack))
      /\ UNCHANGED <<timers, num_hotseat_players, hotseat_players, hotseat_pwd, running, server>>

Opens == page' = TRUE /\ opened' = Active

\* "Play turn", with the password if there is one
PlayTurn ==
  /\ Top("phase") /\ stack' = Close("phase") /\ dialog_close_trigger' = TRUE
  /\ Opens
  /\ UNCHANGED <<timers, fields, seats, hotseat_pwd, running, server, wires, left, met>>

\* "Add password": from then on the dialog of the phase can be closed
AddPassword ==
  /\ Top("phase") /\ dialog_close_trigger' = TRUE
  /\ stack' = IF Active \in hotseat_pwd THEN stack ELSE OnTop("pwd")
  /\ UNCHANGED <<timers, fields, seats, hotseat_pwd, screen, server, wires, history>>

\* The cross of the dialog: beforeClose
ClosePhase ==
  /\ Top("phase") /\ dialog_close_trigger /\ stack' = Close("phase")
  /\ left' = TRUE
  /\ UNCHANGED <<timers, fields, seats, hotseat_pwd, dialog_close_trigger, screen, server, wires,
                 opened, met>>

CancelPassword ==
  /\ Top("pwd") /\ stack' = Close("pwd")
  /\ UNCHANGED <<timers, fields, seats, hotseat_pwd, dialog_close_trigger, screen, server, wires,
                 history>>

\* "Set password, start turn": for whoever's turn it is now
SetPassword ==
  /\ Top("pwd") /\ (Active \in hotseat_pwd => met)
  /\ hotseat_pwd' = hotseat_pwd \cup {Active}
  /\ stack' = Staying(IF dialog_close_trigger THEN {"new"} ELSE {"new", "phase"})
  /\ Opens
  /\ UNCHANGED <<timers, fields, seats, dialog_close_trigger, running, server, wires, left, met>>

-----------------------------------------------------------------------------
Init ==
  /\ ws = "none" /\ setups = 0 /\ clicks = 0 /\ edits = 0 /\ fields \in Typed
  /\ num_hotseat_players = 2 /\ hotseat_players = << >> /\ hotseat_active_player = 0
  /\ hotseat_pwd = {} /\ stack = <<"new">> /\ dialog_close_trigger = FALSE
  /\ running = FALSE /\ page = FALSE
  /\ \E n \in Logins, some \in Computers :
       /\ roster = << [name |-> n, ai |-> FALSE] >> \o some
       /\ seat = n
  /\ phase = 0 /\ ends = 0 /\ up = << >> /\ net = << >>
  /\ opened = None /\ left = FALSE /\ met = FALSE

Beginning ==
  \/ AddPlayer \/ \E i \in 1..Len(fields), n \in Names : Type(i, n)
  \/ NewGame \/ SocketOpens \/ CloseNew \/ Setup \/ Start

Next ==
  \/ Beginning \/ Served \/ PhaseEnds \/ HandleStart \/ HandleEnd
  \/ PlayTurn \/ AddPassword \/ ClosePhase \/ CancelPassword \/ SetPassword

Spec == Init /\ [][Next]_vars

-----------------------------------------------------------------------------
TypeOK ==
  /\ ws \in {"none", "opening", "open"} /\ running \in BOOLEAN /\ page \in BOOLEAN
  /\ num_hotseat_players \in 1..MaxPlayers /\ phase \in 0..Len(roster)

\* The game's players are the players at the page, in their order.
OwnGame ==
  /\ Len(roster) = num_hotseat_players /\ num_hotseat_players <= Len(hotseat_players)
  /\ \A i \in 1..Len(roster) : roster[i].name = hotseat_players[i] /\ ~roster[i].ai

\* When everything on its way has arrived, the player whom the page names is the
\* one whose phase it is, and the page plays for that player.
TurnMatches ==
  running /\ net = << >> /\ up = << >> /\ OwnGame => Active = roster[phase].name /\ seat = Active

\* The page of a player with a password is not shown before that player has
\* opened it, whatever dialogs were opened and closed and whenever phases end.
PageGuarded ==
  page /\ "phase" \notin ToSet(stack) /\ Active \in hotseat_pwd => opened = Active

\* A page that is hidden can be opened, unless its dialog was closed with the
\* cross, which asking for a password allows.
HiddenOpens == running /\ ~page /\ ~left => "phase" \in ToSet(stack)

HotseatSound == TypeOK /\ TurnMatches /\ PageGuarded /\ HiddenOpens
=============================================================================
