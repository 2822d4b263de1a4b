----------------------------- MODULE SavedGames -----------------------------
(***************************************************************************)
(* Saved games and scenarios in the web client: saving, the list of saved  *)
(* games, the scenarios, a map made of a picture, and what is loaded, and  *)
(* by whom it is then played.                                              *)
(*                                                                         *)
(* Lists and deletions are requests of their own, a load is followed by    *)
(* pollers that wait for a text of the chat, and the page is blocked in    *)
(* the meantime.                                                           *)
(***************************************************************************)
EXTENDS Naturals, Sequences, FiniteSets

CONSTANTS
  Stored,    \* the saved games of the user
  Scenarios, \* the scenarios of the page, in their order
  Modes,     \* what the page's address asks for, and what kind of game it is
  MaxOut,    \* bound: commands (with one more of the same step), and packets, on their way
  MaxAsked,  \* bound: lists asked for at a time
  MaxLoads,  \* bound: games loaded
  MaxTurns,  \* bound: turns
  None

VARIABLES
  mode, state, turn,   \* the page's address, and the client's state and turn
  saves, game,         \* the server: its saved games, and the game it has loaded
  net, out,            \* packets, and commands, on their way
  log, first,          \* texts in the chat, and the game of players[0]
  asked, lists,        \* lists asked for, and lists on their way
  deletes,             \* deletions on their way
  dialog, rows, picked, loadable, \* #dialog: its kind, rows, selection, and buttons
  saving, upload,      \* the dialogs to save a game and to upload a picture
  saved_this_turn, scenario_activated,
  waiting, blocked,    \* wait_for_text, and $.blockUI
  picture, later,      \* the picture on its way, and timers
  counted, loads,      \* history: saves of the turn, games loaded
  astray, messy, stuck \* history: who was taken, and what met (see the properties)

vars == <<mode, state, turn, saves, game, net, out, log, first, asked, lists, deletes, dialog, rows,
          picked, loadable, saving, upload, saved_this_turn, scenario_activated, waiting, blocked,
          picture, later, counted, loads, astray, messy, stuck>>

phase == <<mode, state, turn>>
server == <<saves, game, net>>
mirror == <<log, first>>
requests == <<asked, lists, deletes>>
dialogVars == <<dialog, rows, picked, loadable>>
saveVars == <<saving, saved_this_turn, counted>>
loading == <<out, loads, waiting, blocked, stuck>>
pictureVars == <<upload, picture, later>>

Range(s) == {s[i] : i \in 1..Len(s)}
Without(s, i) == SubSeq(s, 1, i - 1) \o SubSeq(s, i + 1, Len(s))

-----------------------------------------------------------------------------
\* The server.

Served ==
  LET c == Head(out)
  IN  /\ out # << >> /\ out' = Tail(out)
      /\ IF c.do = "load" /\ c.what \in saves \cup Range(Scenarios) \cup {"tutorial", "earth", "picture"}
         THEN game' = c.what /\ Len(net) < MaxOut /\ net' = Append(net, c.what)
         ELSE UNCHANGED <<game, net>>
      /\ astray' = (astray \/ (c.do = "take" /\ c.what # game /\ loads = 1 /\ game # "picture"))
  /\ UNCHANGED <<phase, saves, mirror, requests, dialogVars, saveVars, scenario_activated, loads,
                 waiting, blocked, pictureVars, messy, stuck>>

\* The user is let in: the new game's players, and a text.
LogsIn ==
  /\ first = None /\ first' = "new" /\ log' = {"logged_in"}
  /\ UNCHANGED <<phase, server, requests, dialogVars, saveVars, scenario_activated, loading,
                 pictureVars, astray, messy>>

\* The players of a loaded game, and "Load complete".
Receive ==
  /\ net # << >> /\ first # None /\ net' = Tail(net)
  /\ first' = Head(net) /\ log' = log \cup {"load_complete"}
  /\ UNCHANGED <<phase, saves, game, requests, dialogVars, saveVars, scenario_activated, loading,
                 pictureVars, astray, messy>>

ServerLists ==
  /\ asked > 0 /\ asked' = asked - 1
  /\ lists' = Append(lists, saves)
  /\ UNCHANGED <<phase, server, mirror, deletes, dialogVars, saveVars, scenario_activated, loading,
                 pictureVars, astray, messy>>

ServerDeletes(f) ==
  /\ f \in deletes /\ deletes' = deletes \ {f} /\ saves' = saves \ {f}
  /\ UNCHANGED <<phase, game, net, mirror, asked, lists, dialogVars, saveVars, scenario_activated,
                 loading, pictureVars, astray, messy>>

\* handle_start_phase: the window's saved_this_turn is reset, which nobody reads;
\* with the first phase the chat is cleared and the page is not blocked any more.
StartPhase ==
  /\ first # None /\ turn < MaxTurns /\ turn' = turn + 1 /\ state' = "running"
  /\ IF state = "running" THEN UNCHANGED <<log, blocked>> ELSE log' = {} /\ blocked' = FALSE
  /\ counted' = 0
  /\ UNCHANGED <<mode, server, first, requests, dialogVars, saving, saved_this_turn,
                 scenario_activated, out, loads, waiting, stuck, pictureVars, astray, messy>>

-----------------------------------------------------------------------------
\* Saving.

\* save_game: the flag is set with the dialog; the dialog of a game that is
\* played by mail is open too, and sets none.
SaveGame ==
  /\ state = "running" /\ ~saved_this_turn /\ ~saving
  /\ saving' = TRUE /\ saved_this_turn' = ~mode.pbem
  /\ UNCHANGED <<phase, server, mirror, requests, dialogVars, counted, scenario_activated, loading,
                 pictureVars, astray, messy>>

Says(c) == Len(out) < MaxOut /\ out' = Append(out, c)
Save == [do |-> "save", what |-> None]

Counts == counted' = IF mode.pbem THEN counted ELSE counted + 1

ClickSave ==
  /\ saving /\ saving' = FALSE
  /\ Says(Save) /\ Counts
  /\ UNCHANGED <<phase, server, mirror, requests, dialogVars, saved_this_turn, scenario_activated,
                 loads, waiting, blocked, stuck, pictureVars, astray, messy>>

CloseSave ==
  /\ saving /\ saving' = FALSE
  /\ UNCHANGED <<phase, server, mirror, requests, dialogVars, saved_this_turn, counted,
                 scenario_activated, loading, pictureVars, astray, messy>>

Quicksave ==
  /\ state = "running" /\ ~mode.pbem /\ ~saved_this_turn
  /\ saved_this_turn' = TRUE
  /\ Says(Save) /\ Counts
  /\ UNCHANGED <<phase, server, mirror, requests, dialogVars, saving, scenario_activated,
                 loads, waiting, blocked, stuck, pictureVars, astray, messy>>

-----------------------------------------------------------------------------
\* The list of the saved games.

Shows(kind, listed, selected) == dialog' = kind /\ rows' = listed /\ picked' = selected

\* show_load_game_dialog: the button, before the game begins
ShowLoadGameDialog ==
  /\ state = "preparing" /\ dialog = None /\ ~upload /\ ~blocked
  /\ asked + Len(lists) < MaxAsked /\ asked' = asked + 1
  /\ messy' = messy \cup deletes
  /\ UNCHANGED <<phase, server, mirror, lists, deletes, dialogVars, saveVars, scenario_activated,
                 loading, pictureVars, astray>>

\* show_scenario_dialog: nothing is selected, the page is not blocked any more
ShowScenarios == Shows("scenarios", Range(Scenarios), {}) /\ loadable' = TRUE /\ blocked' = FALSE

\* show_load_game_dialog_cb: the list is there.  It has buttons unless the game
\* has begun, and its first row is selected.
ListComes ==
  /\ lists # << >> /\ lists' = Tail(lists)
  /\ IF Head(lists) = {} THEN ShowScenarios
     ELSE /\ \E f \in Head(lists) : Shows("saves", Head(lists), {f})
          /\ loadable' = (state # "running") /\ UNCHANGED blocked
  /\ UNCHANGED <<phase, server, mirror, asked, deletes, saveVars, scenario_activated, out, loads,
                 waiting, stuck, pictureVars, astray, messy>>

Uses(kind) == dialog = kind /\ loadable /\ ~blocked
Closed == dialog' = None /\ UNCHANGED <<rows, picked, loadable>>

\* jQuery's selectable: one row, or several with a lasso
Select(some) ==
  /\ dialog # None /\ some # picked /\ picked' = some
  /\ UNCHANGED <<phase, server, mirror, requests, dialog, rows, loadable, saveVars,
                 scenario_activated, loading, pictureVars, astray, messy>>

Loads(f) == loads < MaxLoads /\ loads' = loads + 1 /\ Says([do |-> "load", what |-> f])

\* "Load Savegame": the texts of all selected rows make the name
LoadSavegame ==
  /\ Uses("saves") /\ picked # {}
  /\ Loads(IF Cardinality(picked) = 1 THEN CHOOSE f \in picked : TRUE ELSE None)
  /\ Closed
  /\ UNCHANGED <<phase, server, mirror, requests, saveVars, scenario_activated, waiting, blocked,
                 stuck, pictureVars, astray, messy>>

\* What is deleted while a list is on its way may be in it.
Deletes(some) ==
  /\ deletes' = deletes \cup some
  /\ messy' = IF asked = 0 /\ lists = << >> THEN messy ELSE messy \cup some

\* "Delete", for a user with a password: the rows go at once
Delete ==
  /\ Uses("saves") /\ mode.password /\ picked # {}
  /\ Deletes(picked)
  /\ rows' = rows \ picked /\ picked' = {}
  /\ UNCHANGED <<phase, server, mirror, asked, lists, dialog, loadable, saveVars,
                 scenario_activated, loading, pictureVars, astray>>

\* "Delete ALL": the scenarios follow a second later
DeleteAll ==
  /\ Uses("saves") /\ mode.password
  /\ Deletes(Stored) /\ Closed
  /\ later' = later \cup {"scenarios"}
  /\ UNCHANGED <<phase, server, mirror, asked, lists, saveVars, scenario_activated, loading,
                 upload, picture, astray>>

CloseDialog ==
  /\ dialog # None /\ Closed
  /\ UNCHANGED <<phase, server, mirror, requests, saveVars, scenario_activated, loading,
                 pictureVars, astray, messy>>

ToScenarios ==
  /\ Uses("saves") /\ ShowScenarios
  /\ UNCHANGED <<phase, server, mirror, requests, saveVars, scenario_activated, out, loads, waiting,
                 stuck, pictureVars, astray, messy>>

-----------------------------------------------------------------------------
\* load_game_check.

\* wait_for_text: what is in the chat is not waited for
Wait(text, then) == [text |-> text, then |-> then]

\* load_game_toggle: whoever is first now is taken
Take == IF first = None THEN << >> ELSE << [do |-> "take", what |-> first] >>

LoadAndToggle(f) ==
  LET now == "logged_in" \in log
      done == "load_complete" \in log
  IN  /\ loads < MaxLoads /\ loads' = loads + 1
      /\ out' = out \o (IF now THEN << [do |-> "load", what |-> f] >> ELSE << >>)
                    \o (IF done THEN Take ELSE << >>)
      /\ waiting' = waiting \o (IF now THEN << >> ELSE << Wait("logged_in", f) >>)
                            \o (IF done THEN << >> ELSE << Wait("load_complete", "toggle") >>)
      /\ blocked' = (~now /\ ~done)
      /\ stuck' = (stuck \/ (state = "running"))
      /\ Len(out) < MaxOut

\* The page's address goes before what is selected; of several scenarios the
\* first is loaded.
Chosen ==
  IF mode.load = "tutorial" THEN "tutorial"
  ELSE IF mode.load = "earth" THEN "earth"
  ELSE LET at == {i \in 1..Len(Scenarios) : Scenarios[i] \in picked}
       IN  Scenarios[CHOOSE i \in at : \A j \in at : i <= j]

\* network_init
Connects ==
  /\ mode.connects /\ mode' = [mode EXCEPT !.connects = FALSE]
  /\ \/ /\ mode.load \in {"tutorial", "earth"} /\ LoadAndToggle(mode.load)
        /\ UNCHANGED <<dialogVars, asked, messy>>
     \/ /\ mode.load = "scenario" /\ ShowScenarios
        /\ UNCHANGED <<out, loads, waiting, stuck, asked, messy>>
     \/ /\ mode.load = "saves" /\ asked' = asked + 1 /\ messy' = messy \cup deletes
        /\ UNCHANGED <<loading, dialogVars>>
     \/ mode.load = "none" /\ UNCHANGED <<loading, dialogVars, asked, messy>>
  /\ UNCHANGED <<state, turn, server, mirror, lists, deletes, saveVars, scenario_activated,
                 pictureVars, astray>>

\* "Select scenario"
SelectScenario ==
  /\ Uses("scenarios") /\ picked # {}
  /\ scenario_activated' = TRUE
  /\ LoadAndToggle(Chosen) /\ Closed
  /\ UNCHANGED <<phase, server, mirror, requests, saveVars, pictureVars, astray, messy>>

\* A poller finds its text: load_game_real, or load_game_toggle.
Poll(i) ==
  /\ waiting[i].text \in log /\ waiting' = Without(waiting, i)
  /\ blocked' = FALSE
  /\ out' = out \o (IF waiting[i].text = "load_complete" THEN Take
                    ELSE << [do |-> "load", what |-> waiting[i].then] >>)
  /\ Len(out) < MaxOut
  /\ UNCHANGED <<phase, server, mirror, requests, dialogVars, saveVars, scenario_activated, loads,
                 stuck, pictureVars, astray, messy>>

-----------------------------------------------------------------------------
\* A map made of a picture.

ShowUpload ==
  /\ Uses("scenarios") /\ Closed /\ upload' = TRUE
  /\ UNCHANGED <<phase, server, mirror, requests, saveVars, scenario_activated, loading, picture,
                 later, astray, messy>>

\* handle_map_image_upload: the page is blocked while a picture is read and sent,
\* if one was chosen
Upload ==
  /\ upload /\ ~blocked /\ picture = None /\ upload' = FALSE
  /\ blocked' = mode.file /\ picture' = (IF mode.file THEN "read" ELSE None) /\ Closed
  /\ UNCHANGED <<phase, server, mirror, requests, saveVars, scenario_activated, out, loads,
                 waiting, stuck, later, astray, messy>>

\* doImage, handle_image_ctx.  Nobody hears of a picture that cannot be read.
PictureRead(good) ==
  /\ picture = "read" /\ picture' = IF good THEN "sent" ELSE None
  /\ stuck' = (stuck \/ ~good)
  /\ UNCHANGED <<phase, server, mirror, requests, dialogVars, saveVars, scenario_activated, out,
                 loads, waiting, blocked, upload, later, astray, messy>>

\* The map is made, or the request failed.
MapMade(good) ==
  /\ picture = "sent" /\ picture' = None /\ blocked' = FALSE
  /\ later' = IF good THEN later \cup {"load", "toggle"} ELSE later
  /\ UNCHANGED <<phase, server, mirror, requests, dialogVars, saveVars, scenario_activated, out,
                 loads, waiting, stuck, upload, astray, messy>>

\* send_message_delayed, after 1200 ms
TimedLoad ==
  /\ "load" \in later /\ later' = later \ {"load"}
  /\ Loads("picture")
  /\ UNCHANGED <<phase, server, mirror, requests, dialogVars, saveVars, scenario_activated, waiting,
                 blocked, stuck, upload, picture, astray, messy>>

\* load_game_toggle, after 1300 ms, whether the map is loaded or not
TimedToggle ==
  /\ "toggle" \in later /\ "load" \notin later /\ later' = later \ {"toggle"}
  /\ Len(out) < MaxOut /\ out' = out \o Take /\ blocked' = FALSE
  /\ UNCHANGED <<phase, server, mirror, requests, dialogVars, saveVars, scenario_activated, loads,
                 waiting, stuck, upload, picture, astray, messy>>

TimedScenarios ==
  /\ "scenarios" \in later /\ later' = later \ {"scenarios"} /\ ShowScenarios
  /\ UNCHANGED <<phase, server, mirror, requests, saveVars, scenario_activated, out, loads, waiting,
                 stuck, upload, picture, astray, messy>>

-----------------------------------------------------------------------------
Init ==
  /\ mode \in Modes /\ state = "preparing" /\ turn = 0
  /\ saves = Stored /\ game = "new" /\ net = << >> /\ out = << >>
  /\ log = {} /\ first = None
  /\ asked = 0 /\ lists = << >> /\ deletes = {}
  /\ dialog = None /\ rows = {} /\ picked = {} /\ loadable = FALSE
  /\ saving = FALSE /\ upload = FALSE
  /\ saved_this_turn = FALSE /\ scenario_activated = FALSE
  /\ waiting = << >> /\ blocked = FALSE /\ picture = None /\ later = {}
  /\ counted = 0 /\ loads = 0 /\ astray = FALSE /\ messy = {} /\ stuck = FALSE

Saving == SaveGame \/ ClickSave \/ CloseSave \/ Quicksave

Pictures ==
  \/ ShowUpload \/ Upload \/ \E good \in BOOLEAN : PictureRead(good) \/ MapMade(good)
  \/ TimedLoad \/ TimedToggle

Next ==
  \/ Served \/ LogsIn \/ Receive \/ ServerLists \/ \E f \in deletes : ServerDeletes(f)
  \/ StartPhase \/ Saving
  \/ ShowLoadGameDialog \/ ListComes \/ \E some \in SUBSET rows : Select(some)
  \/ LoadSavegame \/ Delete \/ DeleteAll \/ CloseDialog \/ ToScenarios \/ TimedScenarios
  \/ Connects \/ SelectScenario \/ \E i \in 1..Len(waiting) : Poll(i)
  \/ Pictures

Spec == Init /\ [][Next]_vars

-----------------------------------------------------------------------------
TypeOK ==
  /\ state \in {"preparing", "running"} /\ turn \in 0..MaxTurns
  /\ dialog \in {None, "saves", "scenarios"} /\ Len(out) <= MaxOut + 1 /\ loads \in 0..MaxLoads

\* A game is saved at most once in a turn, with the dialog and the key together.
OneSave == ~mode.pbem => counted <= 1

\* The list offers games that are there, unless a list and a deletion met.
RowsThere == dialog = "saves" => rows \subseteq saves \cup messy

\* The player that is taken is one of the game that was loaded, when one game was
\* loaded and the picture's timers had no part in it.
TakesLoaded == ~astray

\* A page that is blocked waits for something that comes: a text that is there
\* or comes with the login, or a picture on its way.
BlockedEnds ==
  (blocked /\ ~stuck) => \/ picture # None
                         \/ \E i \in 1..Len(waiting) : waiting[i].text \in log \/ first = None

SavesSound == TypeOK /\ OneSave /\ RowsThere /\ TakesLoaded /\ BlockedEnds
=============================================================================
