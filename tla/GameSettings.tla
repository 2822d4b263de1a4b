---------------------------- MODULE GameSettings ----------------------------
(***************************************************************************)
(* The settings of a game that has not begun: what the server announces,   *)
(* the dialog of the web client in which they are read once, when it is    *)
(* opened, and changed one by one, and the line of the game in the list of *)
(* games, which the client also writes by itself when the game begins.     *)
(*                                                                         *)
(* The server and other players change settings while the dialog is open;  *)
(* a ruleset brings settings of its own.                                   *)
(***************************************************************************)
EXTENDS Naturals, Sequences, FiniteSets

CONSTANTS
  Source,     \* settings, and where the dialog reads them: "info" (GAME_INFO),
              \* "setting" (SERVER_SETTING_...), "own" (kept by the client) or "none"
  Values,     \* bound: the values of a setting, by setting
  Barred,     \* the values that the dialog does not send, by setting
  Illegal,    \* the values that the server refuses, by setting
  First,      \* what the dialog shows of a setting it knows nothing of
  Games,      \* bound: the settings of the server when the run begins
  RulesetOwn, \* the settings a ruleset brings, by its directory
  Offered,    \* the rulesets of the dialog
  Modes,      \* bound: kinds of games and who the client plays
  MaxNet,     \* bound: packets, and commands, on their way
  MaxChanges, \* bound: changes by others
  MaxEdits,   \* bound: changes by the client
  None        \* not announced

VARIABLES
  mode,             \* is the game new, is the client its first player, is the ruleset locked
  server, title,    \* the server's settings, and the line of the game
  ruleset,          \* the server's ruleset directory
  known, control,   \* game_info, server_settings and ai_skill_level; ruleset_control
  net, out,         \* packets, and commands, on their way
  open, field,      \* the dialog and its fields
  heading,          \* its field of the title
  shown,            \* the ruleset it shows
  question, locked, \* is the password about to be set; are title and password read-only
  prefs, boxes,     \* the page's own options, and their boxes
  playing,          \* has the game begun?
  touched, moved,   \* history: fields that were edited; that someone else changed
  changes, edits    \* bounds

vars == <<mode, server, title, ruleset, known, control, net, out, open, field, heading, shown,
          question, locked, prefs, boxes, playing, touched, moved, changes, edits>>

serverVars == <<server, title, ruleset>>
mirror == <<known, control, net>>
fields == <<field, heading, shown>>
dialog == <<open, fields, question, locked>>
options == <<prefs, boxes>>
history == <<touched, moved>>
bounds == <<changes, edits>>

Settings == DOMAIN Source
Read(src) == {s \in Settings : Source[s] = src}
\* The options for speech and fonts are set as selecting is.
Prefs == {"music", "select"}

\* What is known, and what is told besides or instead.
Completed(now, told) ==
  [s \in DOMAIN now \cup DOMAIN told |-> IF s \in DOMAIN told THEN told[s] ELSE now[s]]

-----------------------------------------------------------------------------
\* The server.

\* Settings, each in the packets of its kind; all of GAME_INFO comes at once.
Announced(s, now) ==
  CASE Source[s] = "info" -> << [i \in Read("info") |-> now[i]] >>
    [] Source[s] = "setting" -> << [i \in {s} |-> now[i]] >>
    [] OTHER -> << >>

\* A setting is announced twice: what it is, then what it is set to.
ConstPacket(s) == [i \in {s} |-> None]

Login(s) ==
  /\ ~playing /\ Source[s] \in {"info", "setting"} /\ known[s] = None
  /\ \A i \in 1..Len(net) : s \notin DOMAIN net[i]
  /\ Len(net) + 2 <= MaxNet
  /\ net' = net \o (IF Source[s] = "setting" THEN << ConstPacket(s) >> ELSE << >>)
                \o Announced(s, server)
  /\ UNCHANGED <<mode, serverVars, known, control, out, dialog, options, playing, history, bounds>>

Reaches(s) == known[s] # None \/ \E i \in 1..Len(net) : s \in DOMAIN net[i]

Change(s, v) ==
  /\ server' = [server EXCEPT ![s] = v]
  /\ IF Reaches(s) THEN Len(net) < MaxNet /\ net' = net \o Announced(s, server')
     ELSE UNCHANGED net

Others == ~playing /\ changes < MaxChanges /\ changes' = changes + 1

\* Somebody else sets it.
OtherSets(s, v) ==
  /\ Others /\ v # server[s] /\ v \notin Illegal[s]
  /\ Change(s, v)
  /\ moved' = moved \cup {s}
  /\ UNCHANGED <<mode, title, ruleset, known, control, out, dialog, options, playing, touched, edits>>

\* A ruleset is loaded: it is described, and brings its own settings.
Load(dir) ==
  LET own == RulesetOwn[dir]
      told == {s \in DOMAIN own : Reaches(s)}
  IN  /\ ruleset' = dir /\ server' = Completed(server, own)
      /\ Len(net) + 2 <= MaxNet
      /\ net' = Append(net, [r \in {"ruleset"} |-> dir])
                \o (IF told = {} THEN << >> ELSE << [s \in told |-> own[s]] >>)
      /\ moved' = moved \cup DOMAIN own \cup {"ruleset"}

OtherLoads(dir) ==
  /\ Others /\ dir # ruleset
  /\ Load(dir)
  /\ UNCHANGED <<mode, title, known, control, out, dialog, options, playing, touched, edits>>

\* The next command of the client.
Serve ==
  LET c == Head(out)
  IN  /\ out # << >> /\ out' = Tail(out)
      /\ CASE c.do = "title" -> title' = c.to /\ UNCHANGED <<server, ruleset, net, moved>>
           [] c.do = "rulesetdir" -> Load(c.to) /\ UNCHANGED title
           [] c.do = "set" /\ c.what \in Settings ->
                              /\ IF c.to \in Illegal[c.what] THEN UNCHANGED <<server, net>>
                                 ELSE Change(c.what, c.to)
                              /\ UNCHANGED <<title, ruleset, moved>>
           [] OTHER -> UNCHANGED <<server, title, ruleset, net, moved>>
  /\ UNCHANGED <<mode, known, control, dialog, options, playing, touched, bounds>>

-----------------------------------------------------------------------------
\* Packets.

\* handle_server_setting_const replaces what is known, the others complete it
Receive ==
  /\ net # << >> /\ net' = Tail(net)
  /\ IF "ruleset" \in DOMAIN Head(net)
     THEN control' = Head(net)["ruleset"] /\ UNCHANGED known
     ELSE known' = Completed(known, Head(net)) /\ UNCHANGED control
  /\ UNCHANGED <<mode, serverVars, out, dialog, options, playing, history, bounds>>

Says(c) == Len(out) < MaxNet /\ out' = Append(out, c)
Line(text) == [do |-> "title", what |-> "metamessage", to |-> text]

-----------------------------------------------------------------------------
\* The dialog.

\* What is on its way, either way, is not in what the dialog reads.
Stale ==
  {s \in Settings : \/ known[s] # server[s]
                    \/ \E i \in 1..Len(out) : /\ out[i].do \in {"set", "rulesetdir"}
                                              /\ s = out[i].what \/ out[i].do = "rulesetdir"}

\* The level is read with GAME_INFO, and the box of the scores is just checked.
Unread ==
  {s \in Settings : \/ known[s] = None \/ Source[s] = "none"
                    \/ Source[s] = "own" /\ \E i \in Read("info") : known[i] = None}

\* ruledir_from_ruleset_name: what is not known by name is called classic
RulesetDir(dir) == IF dir \in Offered \cup {"multiplayer"} THEN dir ELSE "classic"

\* pregame_settings: what is known is read.  A directory that is not offered shows
\* as nothing.
Open ==
  /\ ~open /\ ~playing /\ open' = TRUE
  /\ field' = [s \in Settings |-> IF s \in Unread THEN First[s] ELSE known[s]]
  /\ heading' = "as_read"
  /\ shown' = IF RulesetDir(control) \in Offered THEN RulesetDir(control) ELSE None
  /\ question' = FALSE /\ locked' = FALSE
  /\ boxes' = prefs
  /\ touched' = {}
  /\ moved' = Stale \cup Unread \cup IF control # ruleset THEN {"ruleset"} ELSE {}
  /\ UNCHANGED <<mode, serverVars, mirror, out, prefs, playing, bounds>>

Close ==
  /\ open /\ ~question /\ open' = FALSE
  /\ UNCHANGED <<mode, serverVars, mirror, out, fields, question, locked, options, playing, history, bounds>>

Edits == open /\ ~question /\ edits < MaxEdits /\ edits' = edits + 1

\* A field or a box is changed: it is sent, unless it is too much.
Edit(s, v) ==
  /\ Edits /\ field[s] # v
  /\ field' = [field EXCEPT ![s] = v] /\ touched' = touched \cup {s}
  /\ IF v \in Barred[s] THEN UNCHANGED out
     ELSE Says([do |-> "set", what |-> s, to |-> v])
  /\ moved' = moved \ {s}
  /\ known' = IF Source[s] = "own" THEN [known EXCEPT ![s] = v] ELSE known
  /\ UNCHANGED <<mode, serverVars, control, net, open, heading, shown, question, locked, options,
                 playing, changes>>

\* The title is sent when its field is left, and stripped of what is not a
\* letter while it is typed and after it was sent.
EditTitle(text) ==
  /\ Edits /\ ~locked
  /\ text \in {"typed", "pasted"} /\ heading' = IF text = "pasted" THEN "stripped" ELSE text
  /\ Says(Line(text))
  /\ UNCHANGED <<mode, serverVars, mirror, open, field, shown, question, locked, options, playing,
                 history, changes>>

\* change_ruleset: the sets of nations are reset too
ChangeRuleset(dir) ==
  /\ Edits /\ ~mode.locked /\ dir \in Offered /\ dir # shown
  /\ shown' = dir
  /\ Len(out) + 2 <= MaxNet
  /\ out' = out \o << [do |-> "rulesetdir", what |-> "ruleset", to |-> dir],
                     [do |-> "set", what |-> "nationset", to |-> "all"] >>
  /\ UNCHANGED <<mode, serverVars, mirror, open, field, heading, question, locked, options,
                 playing, history, changes>>

\* The password of a private game, after a question.
TypePassword ==
  /\ Edits /\ ~locked /\ question' = TRUE
  /\ UNCHANGED <<mode, serverVars, mirror, out, open, fields, locked, options, playing, history, changes>>

ConfirmPassword ==
  /\ question /\ question' = FALSE /\ locked' = TRUE
  /\ Len(out) + 2 <= MaxNet
  /\ out' = out \o << [do |-> "password", what |-> "password", to |-> "given"], Line("private") >>
  /\ UNCHANGED <<mode, serverVars, mirror, open, fields, options, playing, history, bounds>>

CancelPassword ==
  /\ question /\ question' = FALSE
  /\ UNCHANGED <<mode, serverVars, mirror, out, open, fields, locked, options, playing, history, bounds>>

\* A box of the page's own: music is flipped, the others are set.
Toggle(p) ==
  /\ Edits /\ boxes' = [boxes EXCEPT ![p] = ~@]
  /\ prefs' = [prefs EXCEPT ![p] = IF p = "music" THEN ~@ ELSE boxes'[p]]
  /\ UNCHANGED <<mode, serverVars, mirror, out, dialog, playing, history, changes>>

-----------------------------------------------------------------------------
\* set_client_state, set_client_page: the dialog goes, and the first player of a
\* new game writes its line, whatever was written.
Start ==
  /\ ~playing /\ playing' = TRUE
  /\ open' = FALSE /\ question' = FALSE
  /\ IF mode.new /\ mode.first THEN Says(Line("ruler")) ELSE UNCHANGED out
  /\ UNCHANGED <<mode, serverVars, mirror, fields, locked, options, history, bounds>>

\* update_metamessage_game_running_status, from then on every 200 seconds
RunningStatus ==
  /\ playing /\ mode.new /\ mode.first
  /\ Says(Line("status"))
  /\ UNCHANGED <<mode, serverVars, mirror, dialog, options, playing, history, bounds>>

-----------------------------------------------------------------------------
Init ==
  /\ mode \in Modes
  /\ server \in Games /\ title = "none" /\ ruleset \in DOMAIN RulesetOwn
  /\ known = [s \in Settings |-> IF Source[s] = "own" THEN server[s] ELSE None]
  /\ control = ruleset
  /\ net = << >> /\ out = << >>
  /\ open = FALSE /\ field = First /\ heading = "as_read" /\ shown = "classic"
  /\ question = FALSE /\ locked = FALSE
  /\ prefs = [p \in Prefs |-> p = "select"] /\ boxes = prefs
  /\ playing = FALSE /\ touched = {} /\ moved = {} /\ changes = 0 /\ edits = 0

Next ==
  \/ \E s \in Settings : Login(s)
  \/ \E s \in Settings : \E v \in Values[s] : OtherSets(s, v) \/ Edit(s, v)
  \/ \E dir \in DOMAIN RulesetOwn : OtherLoads(dir) \/ ChangeRuleset(dir)
  \/ Serve \/ Receive \/ Open \/ Close
  \/ \E text \in {"typed", "pasted"} : EditTitle(text)
  \/ TypePassword \/ ConfirmPassword \/ CancelPassword
  \/ \E p \in Prefs : Toggle(p)
  \/ Start \/ RunningStatus

Spec == Init /\ [][Next]_vars

-----------------------------------------------------------------------------
TypeOK ==
  /\ DOMAIN known = Settings /\ touched \subseteq Settings
  /\ Len(net) <= MaxNet /\ Len(out) <= MaxNet /\ question \in BOOLEAN

Sent(do, s) == \E i \in 1..Len(out) : out[i].do = do /\ out[i].what = s

\* The dialog shows the settings the game has: what was not edited since it was
\* opened was read, what was edited is set once the server has the command,
\* unless somebody else or a ruleset set it since.  A value that the server or
\* the page refuses stays in its field and is nowhere else.
FieldsTrue ==
  open => /\ \A s \in Settings \ moved :
               \/ field[s] = server[s] \/ Sent("set", s)
               \/ s \in touched /\ field[s] \in Illegal[s] \cup Barred[s]
          /\ ("ruleset" \notin moved /\ ~Sent("rulesetdir", "ruleset") /\ ruleset \in Offered)
               => shown = ruleset

\* While the password cannot be changed any more, the list of games tells of a
\* private game, or is about to: nothing the dialog sends later undoes it.
PrivateTold ==
  open /\ locked =>
    LET lines == {i \in 1..Len(out) : out[i].do = "title"}
    IN  IF lines = {} THEN title = "private"
        ELSE \E i \in lines : out[i].to = "private" /\ \A j \in lines : j <= i

\* The boxes of the page's options show them, though one of them is flipped.
BoxesAgree == open => boxes = prefs

SettingsSound == TypeOK /\ FieldsTrue /\ PrivateTold /\ BoxesAgree
=============================================================================
