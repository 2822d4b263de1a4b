---------------------------- MODULE NationChoice ----------------------------
(***************************************************************************)
(* The waiting room of the web client: the list of the players, the        *)
(* dialogs in which a nation is chosen or customized, and the start.       *)
(*                                                                         *)
(* The list is drawn by a timer, the choice in the box is looked at by     *)
(* another, the picture of a customized nation is loaded later; packets    *)
(* change players and nations at any time.                                 *)
(***************************************************************************)
EXTENDS Naturals, Functions

CONSTANTS
  Players,    \* the numbers of players
  Faces,      \* bound: what packets say of a player
  Rooms,      \* bound: the players when the run begins
  Me,         \* the number the server gives the client
  Tables,     \* rulesets: the names of their nations, by number
  Custom,     \* the name of a nation that is customized
  Modes,      \* whether a turn takes a day (longturn)
  MaxChanges, \* bound: changes that the server makes
  MaxTimers,  \* bound: timers of the box that run at a time
  None        \* no player, no nation, no text

VARIABLES
  longturn, state,   \* the game's type, and civclient_state
  me, players,       \* client.conn.player_num, and the mirror
  nations,           \* the mirror of the ruleset's nations
  late,              \* players whose second packet is on its way
  queued, list,      \* update_player_info_pregame_queued; the list on the page
  start,             \* the start button
  chosen, choosing,  \* chosen_nation and choosing_player
  dialog, rows,      \* whose dialog is open, and the nations it offers
  box, marked,       \* the text in its box, and the nation it calls chosen
  timers,            \* timers that will look at the box
  custom, reading,   \* whose nation is customized; whose picture is loaded
  asked, begun,      \* the last request for a nation; was "ready" sent?
  mixed, changes     \* history: players or nations changed under a dialog; bound

vars == <<longturn, state, me, players, nations, late, queued, list, start, chosen, choosing,
          dialog, rows, box, marked, timers, custom, reading, asked, begun, mixed, changes>>

mirror == <<state, me, players, nations, late>>
listVars == <<queued, list, start>>
choice == <<chosen, choosing, dialog, rows, box, marked, timers>>
customVars == <<custom, reading>>
sentVars == <<asked, begun>>

-----------------------------------------------------------------------------
\* Packets.

Changes == state = "preparing" /\ changes < MaxChanges /\ changes' = changes + 1
Under == dialog # None \/ custom # None \/ reading # None

\* handle_player_info: the list is not asked for yet
PlayerInfo(p, r) ==
  /\ Changes /\ late = None
  /\ players' = [q \in DOMAIN players \cup {p} |-> IF q = p THEN r ELSE players[q]]
  /\ late' = p
  /\ UNCHANGED <<longturn, state, me, nations, listVars, choice, customVars, sentVars, mixed>>

\* handle_web_player_info_addition, update_player_info_pregame
PlayerAddition ==
  /\ late # None /\ late' = None
  /\ queued' = TRUE
  /\ UNCHANGED <<longturn, state, me, players, nations, list, start, choice, customVars, sentVars,
                 mixed, changes>>

PlayerRemove(p) ==
  /\ Changes /\ late = None /\ p \in DOMAIN players
  /\ players' = [q \in DOMAIN players \ {p} |-> players[q]]
  /\ queued' = TRUE /\ mixed' = (mixed \/ Under)
  /\ UNCHANGED <<longturn, state, me, nations, late, list, start, choice, customVars, sentVars>>

ConnInfo ==
  /\ me = None /\ me' = Me
  /\ UNCHANGED <<longturn, state, players, nations, late, listVars, choice, customVars, sentVars,
                 mixed, changes>>

\* handle_ruleset_control empties the nations, and those of another ruleset come
RulesetControl ==
  /\ Changes /\ late = None /\ DOMAIN nations # {}
  /\ nations' = [n \in {} |-> None] /\ mixed' = (mixed \/ Under)
  /\ UNCHANGED <<longturn, state, me, players, late, listVars, choice, customVars, sentVars>>

RulesetNations ==
  /\ DOMAIN nations = {} /\ nations' \in Tables /\ mixed' = (mixed \/ Under)
  /\ UNCHANGED <<longturn, state, me, players, late, listVars, choice, customVars, sentVars,
                 changes>>

GameStarts ==
  /\ state = "preparing" /\ late = None /\ state' = "running"
  /\ UNCHANGED <<longturn, me, players, nations, late, listVars, choice, customVars, sentVars,
                 mixed, changes>>

-----------------------------------------------------------------------------
\* update_player_info_pregame_real, a second after it was asked for
DrawList ==
  /\ queued /\ queued' = FALSE
  /\ IF state = "preparing"
     THEN /\ list' = players
          /\ start' = ~(me \in DOMAIN players /\ players[me].is_ready)
     ELSE UNCHANGED <<list, start>>
  /\ UNCHANGED <<longturn, mirror, choice, customVars, sentVars, mixed, changes>>

-----------------------------------------------------------------------------
\* The dialog of the nations.

\* select_nation; a nation that is gone makes it throw
SelectNation(n) ==
  IF n \in DOMAIN nations
  THEN chosen' = n /\ marked' = n /\ box' = nations[n]
  ELSE UNCHANGED <<chosen, marked, box>>

\* pick_nation: it remembers the player before it looks for him
PickNation(p) ==
  /\ choosing' = p
  /\ IF p \notin DOMAIN players
     THEN UNCHANGED <<chosen, dialog, rows, box, marked, timers, mixed>>
     ELSE /\ dialog' = p /\ rows' = DOMAIN nations
          /\ timers < MaxTimers /\ timers' = timers + 1
          /\ mixed' = (mixed /\ reading # None)
          /\ IF chosen \in DOMAIN nations THEN SelectNation(chosen)
             ELSE UNCHANGED chosen /\ marked' = None /\ box' = None

Free == dialog = None /\ custom = None

\* "Pick nation" of the list's menu, which a longturn game has not, or the button
Pick(p) ==
  /\ Free /\ (p = me \/ (p \in DOMAIN list /\ ~longturn))
  /\ PickNation(p)
  /\ UNCHANGED <<longturn, mirror, listVars, customVars, sentVars, changes>>

ClickNation(n) ==
  /\ dialog # None /\ custom = None /\ n \in rows
  /\ SelectNation(n)
  /\ UNCHANGED <<longturn, mirror, listVars, choosing, dialog, rows, timers, customVars, sentVars,
                 mixed, changes>>

TypeName(name) ==
  /\ dialog # None /\ custom = None /\ box # name /\ box' = name
  /\ UNCHANGED <<longturn, mirror, listVars, chosen, choosing, dialog, rows, marked, timers,
                 customVars, sentVars, mixed, changes>>

\* update_nation_selection, when the box is closed or the timer runs out
UpdateNationSelection ==
  LET named == {n \in DOMAIN nations : nations[n] = box}
  IN  IF box = None \/ state = "running" \/ named = {} THEN UNCHANGED <<chosen, marked, box>>
      ELSE SelectNation(CHOOSE n \in named : \A m \in named : n <= m)

BoxCloses ==
  /\ dialog # None /\ custom = None /\ box # None
  /\ UpdateNationSelection
  /\ UNCHANGED <<longturn, mirror, listVars, choosing, dialog, rows, timers, customVars, sentVars,
                 mixed, changes>>

BoxTimer ==
  /\ timers > 0 /\ timers' = timers - 1
  /\ UpdateNationSelection
  /\ UNCHANGED <<longturn, mirror, listVars, choosing, dialog, rows, customVars, sentVars,
                 mixed, changes>>

CloseNations ==
  /\ dialog # None /\ custom = None /\ dialog' = None
  /\ UNCHANGED <<longturn, mirror, listVars, chosen, choosing, rows, box, marked, timers,
                 customVars, sentVars, mixed, changes>>

\* pregame_start_game
StartGame == begun' = (begun \/ me # None)

\* bound: one request
Silent == asked = None /\ ~begun

\* submit_nation_choice, and what the dialog said; the timer that is known is
\* stopped.  A nation that is gone makes it throw.
Play ==
  /\ dialog # None /\ custom = None /\ Silent /\ dialog' = None
  /\ IF chosen = None \/ me = None \/ choosing \notin DOMAIN players \/ chosen \notin DOMAIN nations
     THEN UNCHANGED <<asked, begun, timers>>
     ELSE /\ asked' = [marked |-> marked, mixed |-> mixed, title |-> dialog, player |-> choosing,
                       nation |-> chosen]
          /\ timers' \in {timers} \cup (IF timers > 0 THEN {timers - 1} ELSE {})
          /\ IF longturn THEN StartGame ELSE UNCHANGED begun
  /\ UNCHANGED <<longturn, mirror, listVars, chosen, choosing, rows, box, marked, customVars,
                 mixed, changes>>

\* The start button; it stays enabled until the list is drawn again.
ClickStart ==
  /\ Free /\ start /\ Silent /\ StartGame
  /\ UNCHANGED <<longturn, mirror, listVars, choice, customVars, asked, mixed, changes>>

-----------------------------------------------------------------------------
\* A nation of one's own.

Customize ==
  /\ dialog # None /\ custom = None /\ chosen \in DOMAIN nations /\ me # None
  /\ choosing \in Players
  /\ custom' = dialog
  /\ UNCHANGED <<longturn, mirror, listVars, choice, reading, sentVars, mixed, changes>>

CancelCustom ==
  /\ custom # None /\ custom' = None
  /\ PickNation(custom)
  /\ UNCHANGED <<longturn, mirror, listVars, reading, sentVars, changes>>

CloseCustom ==
  /\ custom # None /\ custom' = None
  /\ UNCHANGED <<longturn, mirror, listVars, choice, reading, sentVars, mixed, changes>>

\* handle_customized_nation: the name is changed with or without a picture
Renamed == chosen \in DOMAIN nations /\ nations' = [nations EXCEPT ![chosen] = Custom]

OkCustom ==
  /\ custom # None /\ Renamed
  /\ reading' \in {reading, custom}
  /\ UNCHANGED <<longturn, state, me, players, late, listVars, choice, custom, sentVars, mixed, changes>>

\* handle_new_flag: when the picture is there, the dialog comes up again,
\* whatever was done or opened since
PictureLoads ==
  /\ reading # None /\ reading' = None
  /\ custom' = None
  /\ PickNation(reading)
  /\ UNCHANGED <<longturn, mirror, listVars, sentVars, changes>>

\* It is no picture, or the nation it is for is gone.
PictureFails ==
  /\ reading # None /\ reading' = None
  /\ UNCHANGED <<longturn, mirror, listVars, choice, custom, sentVars, mixed, changes>>

-----------------------------------------------------------------------------
Init ==
  /\ longturn \in Modes /\ state = "preparing" /\ me = None
  /\ players \in Rooms /\ nations \in Tables /\ late = None
  /\ queued = FALSE /\ list = players /\ start = TRUE
  /\ chosen = None /\ choosing = None /\ dialog = None /\ rows = {}
  /\ box = None /\ marked = None /\ timers = 0
  /\ custom = None /\ reading = None
  /\ asked = None /\ begun = FALSE /\ mixed = FALSE /\ changes = 0

Server ==
  \/ \E p \in Players, r \in Faces : PlayerInfo(p, r)
  \/ PlayerAddition \/ \E p \in Players : PlayerRemove(p)
  \/ ConnInfo \/ RulesetControl \/ RulesetNations \/ GameStarts

Next ==
  \/ Server \/ DrawList \/ BoxTimer \/ PictureLoads \/ PictureFails
  \/ \E p \in Players \cup {None} : Pick(p)
  \/ \E n \in rows : ClickNation(n)
  \/ \E name \in UNION {Range(t) : t \in Tables} : TypeName(name)
  \/ BoxCloses \/ CloseNations \/ Play \/ ClickStart
  \/ Customize \/ CancelCustom \/ CloseCustom \/ OkCustom

Spec == Init /\ [][Next]_vars

-----------------------------------------------------------------------------
TypeOK ==
  /\ me \in {None, Me} /\ late \in Players \cup {None}
  /\ DOMAIN players \subseteq Players /\ DOMAIN list \subseteq Players
  /\ dialog \in Players \cup {None} /\ timers \in 0..MaxTimers

\* The list shows the players as they are, or is about to be drawn.
ListFresh == (state = "preparing" /\ late = None /\ ~queued) => list = players

\* "Play this nation!" asks for the player in the dialog's title and for the
\* nation that the dialog calls chosen, unless a player or the nations went
\* while a dialog was open or a picture was loaded.
PlaysWhatIsShown ==
  (asked # None /\ ~asked.mixed) => asked.player = asked.title /\ asked.nation = asked.marked

\* What is chosen stays chosen until something else is: an open dialog never
\* says that another nation is than the one that will be asked for.
DialogTells == (dialog # None /\ ~mixed /\ marked # None) => marked = chosen /\ choosing = dialog

NationChosen == TypeOK /\ ListFresh /\ PlaysWhatIsShown /\ DialogTells
=============================================================================
