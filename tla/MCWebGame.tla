------------------------------ MODULE MCWebGame ------------------------------
(***************************************************************************)
(* TLC instances of parts of the web client and of the agents' service that*)
(* share no state: a behaviour takes one of them, its scene, whose         *)
(* variables are v1, v2 and so on; what a scene does not use is idle.      *)
(***************************************************************************)
EXTENDS TLC

CONSTANTS gone

VARIABLES
  scene,
  v1, v2, v3, v4, v5, v6, v7, v8, v9, v10, v11, v12, v13, v14, v15, v16, v17, v18,
  v19, v20, v21, v22, v23, v24, v25, v26, v27, v28, v29

vars == <<scene, v1, v2, v3, v4, v5, v6, v7, v8, v9, v10, v11, v12, v13, v14, v15, v16, v17, v18,
    v19, v20, v21, v22, v23, v24, v25, v26, v27, v28, v29>>

\* The variables that the scene does not use.
Idle == "idle"

-----------------------------------------------------------------------------
\* Orders: an own engineer and a unit of another player, a city's tile and one
\* outside.
Report == [tile |-> 1, moves |-> TRUE, want |-> FALSE]
Reports == {Report, [Report EXCEPT !.want = TRUE], [Report EXCEPT !.tile = 2],
            [Report EXCEPT !.tile = 2, !.moves = FALSE]}

Orders == INSTANCE UnitOrders WITH
  unit <- v1, focus <- v2, modes <- v3, paths <- v4, touch <- v5, sent <- v6,
  Units <- {1, 2}, Tiles <- {1, 2}, Cities <- {1}, Founders <- {1}, Foreign <- {2},
  Records <- Reports, Gone <- gone

-----------------------------------------------------------------------------
\* The city dialog: a worklist of at most two, a second city that is founded.
CityPackets ==
  {[list |-> <<"barracks", "temple">>, making |-> "settlers", mine |-> TRUE, here |-> TRUE],
   [list |-> <<"settlers">>, making |-> "temple", mine |-> FALSE, here |-> TRUE]}

Town == INSTANCE City WITH
  touch <- v1, city <- v2, shown <- v3, rows <- v4, fresh <- v5, chosen <- v6,
  picked <- v7, all <- v8, clicks <- v9, enabled <- v10, question <- v11,
  edits <- v12, sent <- v13, Cities <- {1, 2}, Improvements <- {"barracks", "temple"},
  UnitTypes <- {"settlers"}, Able <- {"temple", "settlers"}, MaxLen <- 2,
  MaxPicked <- 2, Packets <- CityPackets, MaxEdits <- 2

-----------------------------------------------------------------------------
\* Rates and governments: despotism, and a democracy that needs a technology.
Democracy ==
  (1 :> {[kind |-> "advance", range |-> "team", value |-> 1, present |-> TRUE]}) @@
  (5 :> {[kind |-> "advance", range |-> "player", value |-> 1, present |-> TRUE],
         [kind |-> "government", range |-> "player", value |-> 5, present |-> FALSE]})
FirstRates == {[tax |-> 40, lux |-> 0, sci |-> 60]}

Treasury == INSTANCE Rates WITH
  player <- v1, slider <- v2, maxrate <- v3, label <- v4, lock <- v5, sent <- v6,
  offered <- v7, requested_gov <- v8, revolution <- v9, Governments <- {1, 5},
  Reqs <- Democracy, Techs <- {1}, Legal <- FirstRates, Stops <- {5}

-----------------------------------------------------------------------------
\* A treaty: two technologies, gold, and a peace.
Bargain(giver, type, value) == [giver |-> giver, type |-> type, value |-> value]
Bargains == {Bargain(0, "advance", 1), Bargain(0, "advance", 2), Bargain(1, "gold", 5), Bargain(0, "peace", 1)}

Meeting == INSTANCE Treaty WITH
  meeting <- v1, treaty <- v2, accepted <- v3, concluded <- v4, net <- v5, out <- v6,
  apart <- v7, infos <- v8, map <- v9, own <- v10, dialog <- v11, missed <- v12,
  Clauses <- Bargains, MaxClauses <- 2, MaxListed <- 2, Me <- 0, Other <- 1,
  MaxNet <- 2, MaxOut <- 1, NoClause <- gone

\* The window's list has every clause of the treaty whose packet was not
\* dropped; the dialog never opens and no treaty is concluded
\* (handle_diplomacy_create_clause, meeting_template_data).
TreatySound == scene = "treaty" => Meeting!TreatySound

-----------------------------------------------------------------------------
\* The agents' games: three requests at once, a game of one or of two, on a
\* port that is given or not.
Rosters == {<<"a">>, <<"a", "b">>}

Agents == INSTANCE GameOrchestrator WITH
  agents <- v1, clients <- v2, external <- v3, server_port <- v4, tasks <- v5,
  open <- v6, req <- v7, messy <- v8, replaced <- v9, Slots <- {1, 2, 3},
  Configs <- Rosters, Joiners <- {"b", "c"}, Games <- {6000, 6001}, Ids <- {1, 2, 3},
  NoPort <- 0

-----------------------------------------------------------------------------
\* What an agent is told: a unit and a city, two technologies, two readers.
Writing == << {}, {1} >>

Told == INSTANCE StateMirror WITH
  world <- v1, gold <- v2, known <- v3, researching <- v4, net <- v5, state <- v6,
  picks <- v7, wire <- v8, snap <- v9, answer <- v10, told <- v11, missed <- v12,
  changes <- v13, answers <- v14, Things <- {"unit", "city"}, Cities <- {"city"},
  Players <- {0, 1}, Me <- 0, Golds <- {0, 1}, Techs <- {1, 2}, Priority <- <<2, 1>>,
  Requires <- Writing, Readers <- {"a", "b"}, MaxNet <- 2, MaxChanges <- 3,
  MaxAnswers <- 3, None <- gone

\* "Auto-pick next research when current one completes" (_auto_pick_research): what
\* the client asks for by itself can be researched, as far as the packet says.
PicksResearchable == scene = "mirror" => Told!PicksResearchable

-----------------------------------------------------------------------------
\* The nations: two others, one of them played by the server.
Courts == INSTANCE Nations WITH
  pact <- v1, owed <- v2, rumours <- v3, net <- v4, out <- v5, known <- v6,
  diplstates <- v7, told <- v8, actee <- v9, basis <- v10, rows <- v11,
  selected <- v12, buttons <- v13, war_label <- v14, due <- v15, writing <- v16,
  Others <- {1, 2}, Ais <- {2}, Passing <- {1}, MaxOut <- 1, NoOne <- gone

\* The relations shown and the wars announced are the server's, and the buttons
\* go with a row (handle_player_diplstate, select_a_nation).
NationsSound == scene = "nations" => Courts!NationsSound

-----------------------------------------------------------------------------
\* The chat line: four seats.
Seated == 0 :> "Ann" @@ 1 :> "Bob" @@ 2 :> "Cid" @@ 3 :> "Dan"
Lines == [prefixed : BOOLEAN, upper : BOOLEAN, long : BOOLEAN]

Line == INSTANCE Chat WITH
  me <- v1, players <- v2, allied <- v3, chat_send_to <- v4, icon <- v5,
  choices <- v6, reseated <- v7, sent <- v8, Seats <- {0, 1, 2, 3}, Names <- {"Eve"},
  Own <- {0, gone}, First <- Seated, Texts <- Lines, Everybody <- 10, Unset <- 11,
  NoOne <- gone

-----------------------------------------------------------------------------
\* The waiting room: two players, and two rulesets.
Face(ready) == [is_ready |-> ready, nation |-> 1]
Peoples == {1 :> "Romans" @@ 2 :> "Greeks", 1 :> "Greeks"}

Room == INSTANCE NationChoice WITH
  longturn <- v1, state <- v2, me <- v3, players <- v4, nations <- v5, late <- v6,
  queued <- v7, list <- v8, start <- v9, chosen <- v10, choosing <- v11,
  dialog <- v12, rows <- v13, box <- v14, marked <- v15, timers <- v16, custom <- v17,
  reading <- v18, asked <- v19, begun <- v20, mixed <- v21, changes <- v22,
  Players <- {1, 2}, Faces <- {Face(TRUE)},
  Rooms <- {(1 :> Face(FALSE)) @@ (2 :> Face(FALSE))}, Me <- 1, Tables <- Peoples,
  Custom <- "Mine", Modes <- {TRUE, FALSE}, MaxChanges <- 1, MaxTimers <- 1,
  None <- gone

-----------------------------------------------------------------------------
\* The settings of a game: the number of players, a number the ruleset brings,
\* the level of the computer's players, the box of the scores.
Kept == "aifill" :> "info" @@ "techlevel" :> "setting" @@ "skill" :> "own" @@ "scorelog" :> "none"
Choices == "aifill" :> {2, 13} @@ "techlevel" :> {200} @@ "skill" :> {1} @@ "scorelog" :> {0, 1}
TooMuch == "aifill" :> {13} @@ "techlevel" :> {} @@ "skill" :> {} @@ "scorelog" :> {}
Refused == "aifill" :> {} @@ "techlevel" :> {200} @@ "skill" :> {} @@ "scorelog" :> {}
Empty == "aifill" :> gone @@ "techlevel" :> gone @@ "skill" :> 1 @@ "scorelog" :> 1
Fresh == {"aifill" :> 5 @@ "techlevel" :> 0 @@ "skill" :> 3 @@ "scorelog" :> 0}
Brought == "civ2civ3" :> ("techlevel" :> 3) @@ "multiplayer" :> ("techlevel" :> 0)
Hosts == {[new |-> TRUE, first |-> TRUE, locked |-> FALSE], [new |-> FALSE, first |-> TRUE, locked |-> TRUE]}

Table == INSTANCE GameSettings WITH
  mode <- v1, server <- v2, title <- v3, ruleset <- v4, known <- v5, control <- v6,
  net <- v7, out <- v8, open <- v9, field <- v10, heading <- v11, shown <- v12,
  question <- v13, locked <- v14, prefs <- v15, boxes <- v16, playing <- v17,
  touched <- v18, moved <- v19, changes <- v20, edits <- v21, Source <- Kept,
  Values <- Choices, Barred <- TooMuch, Illegal <- Refused, First <- Empty,
  Games <- Fresh, RulesetOwn <- Brought, Offered <- {"classic", "civ2civ3"},
  Modes <- Hosts, MaxNet <- 2, MaxChanges <- 1, MaxEdits <- 2, None <- gone

-----------------------------------------------------------------------------
\* Saved games: one of them, and one scenario.
Address(load, pbem, keyed, file) ==
  [load |-> load, pbem |-> pbem, password |-> keyed, file |-> file, connects |-> TRUE]
Addresses == {Address("saves", TRUE, TRUE, FALSE), Address("tutorial", FALSE, FALSE, FALSE),
              Address("none", TRUE, FALSE, TRUE)}

Shelf == INSTANCE SavedGames WITH
  mode <- v1, state <- v2, turn <- v3, saves <- v4, game <- v5, net <- v6, out <- v7,
  log <- v8, first <- v9, asked <- v10, lists <- v11, deletes <- v12, dialog <- v13,
  rows <- v14, picked <- v15, loadable <- v16, saving <- v17, upload <- v18,
  saved_this_turn <- v19, scenario_activated <- v20, waiting <- v21, blocked <- v22,
  picture <- v23, later <- v24, counted <- v25, loads <- v26, astray <- v27,
  messy <- v28, stuck <- v29, Stored <- {"t1"}, Scenarios <- <<"earth-small">>,
  Modes <- Addresses, MaxOut <- 1, MaxAsked <- 1, MaxLoads <- 2, MaxTurns <- 1,
  None <- gone

-----------------------------------------------------------------------------
\* Players at one page: two, and a third who is added; one player of the
\* computer's, or none.
Twos == {<<"ann", "bob">>, <<"ann", "ann">>}
Machines == {<< >>, << [name |-> "deep", ai |-> TRUE] >>}

Bench == INSTANCE Hotseat WITH
  ws <- v1, setups <- v2, clicks <- v3, edits <- v4, fields <- v5,
  num_hotseat_players <- v6, hotseat_players <- v7, hotseat_active_player <- v8,
  hotseat_pwd <- v9, stack <- v10, dialog_close_trigger <- v11, running <- v12,
  page <- v13, roster <- v14, phase <- v15, seat <- v16, ends <- v17, up <- v18,
  net <- v19, opened <- v20, left <- v21, met <- v22, Names <- {"", "cid"},
  Invalid <- "", Typed <- Twos, Logins <- {"ann", "eve"}, Computers <- Machines,
  MaxPlayers <- 3, MaxSetups <- 2, MaxEdits <- 1, MaxEnds <- 2, MaxNet <- 2,
  None <- gone

-----------------------------------------------------------------------------


\* However the requests about games meet, an agent has its client, and in order
\* no connection is lost (create_game, shutdown, api_join_game). The mirror and
\* the packets on their way make up what the server shows, and the changes told
\* add up to the state told last (_handle_packet, compute_turn_delta). The
\* settings dialog shows the settings the game has, unless others changed them
\* since it was opened (pregame_settings). A turn is saved once, what is listed
\* can be loaded, who is taken is of the loaded game, and a blocked page waits
\* for something that comes (savegame.ts).
GamesSound ==
  /\ scene = "games" => Agents!GamesSound
  /\ scene = "mirror" => Told!MirrorTells
  /\ scene = "settings" => Table!SettingsSound
  /\ scene = "saves" => Shelf!SavesSound

-----------------------------------------------------------------------------
Init ==
  \/ /\ scene = "orders" /\ Orders!Init
     /\ v7 = Idle /\ v8 = Idle /\ v9 = Idle /\ v10 = Idle /\ v11 = Idle /\ v12 = Idle
     /\ v13 = Idle /\ v14 = Idle /\ v15 = Idle /\ v16 = Idle /\ v17 = Idle
     /\ v18 = Idle /\ v19 = Idle /\ v20 = Idle /\ v21 = Idle /\ v22 = Idle
     /\ v23 = Idle /\ v24 = Idle /\ v25 = Idle /\ v26 = Idle /\ v27 = Idle
     /\ v28 = Idle /\ v29 = Idle
  \/ /\ scene = "city" /\ Town!Init
     /\ v14 = Idle /\ v15 = Idle /\ v16 = Idle /\ v17 = Idle /\ v18 = Idle
     /\ v19 = Idle /\ v20 = Idle /\ v21 = Idle /\ v22 = Idle /\ v23 = Idle
     /\ v24 = Idle /\ v25 = Idle /\ v26 = Idle /\ v27 = Idle /\ v28 = Idle
     /\ v29 = Idle
  \/ /\ scene = "rates" /\ Treasury!Init
     /\ v10 = Idle /\ v11 = Idle /\ v12 = Idle /\ v13 = Idle /\ v14 = Idle
     /\ v15 = Idle /\ v16 = Idle /\ v17 = Idle /\ v18 = Idle /\ v19 = Idle
     /\ v20 = Idle /\ v21 = Idle /\ v22 = Idle /\ v23 = Idle /\ v24 = Idle
     /\ v25 = Idle /\ v26 = Idle /\ v27 = Idle /\ v28 = Idle /\ v29 = Idle
  \/ /\ scene = "treaty" /\ Meeting!Init
     /\ v13 = Idle /\ v14 = Idle /\ v15 = Idle /\ v16 = Idle /\ v17 = Idle
     /\ v18 = Idle /\ v19 = Idle /\ v20 = Idle /\ v21 = Idle /\ v22 = Idle
     /\ v23 = Idle /\ v24 = Idle /\ v25 = Idle /\ v26 = Idle /\ v27 = Idle
     /\ v28 = Idle /\ v29 = Idle
  \/ /\ scene = "games" /\ Agents!Init
     /\ v10 = Idle /\ v11 = Idle /\ v12 = Idle /\ v13 = Idle /\ v14 = Idle
     /\ v15 = Idle /\ v16 = Idle /\ v17 = Idle /\ v18 = Idle /\ v19 = Idle
     /\ v20 = Idle /\ v21 = Idle /\ v22 = Idle /\ v23 = Idle /\ v24 = Idle
     /\ v25 = Idle /\ v26 = Idle /\ v27 = Idle /\ v28 = Idle /\ v29 = Idle
  \/ /\ scene = "mirror" /\ Told!Init
     /\ v15 = Idle /\ v16 = Idle /\ v17 = Idle /\ v18 = Idle /\ v19 = Idle
     /\ v20 = Idle /\ v21 = Idle /\ v22 = Idle /\ v23 = Idle /\ v24 = Idle
     /\ v25 = Idle /\ v26 = Idle /\ v27 = Idle /\ v28 = Idle /\ v29 = Idle
  \/ /\ scene = "nations" /\ Courts!Init
     /\ v17 = Idle /\ v18 = Idle /\ v19 = Idle /\ v20 = Idle /\ v21 = Idle
     /\ v22 = Idle /\ v23 = Idle /\ v24 = Idle /\ v25 = Idle /\ v26 = Idle
     /\ v27 = Idle /\ v28 = Idle /\ v29 = Idle
  \/ /\ scene = "chat" /\ Line!Init
     /\ v9 = Idle /\ v10 = Idle /\ v11 = Idle /\ v12 = Idle /\ v13 = Idle
     /\ v14 = Idle /\ v15 = Idle /\ v16 = Idle /\ v17 = Idle /\ v18 = Idle
     /\ v19 = Idle /\ v20 = Idle /\ v21 = Idle /\ v22 = Idle /\ v23 = Idle
     /\ v24 = Idle /\ v25 = Idle /\ v26 = Idle /\ v27 = Idle /\ v28 = Idle
     /\ v29 = Idle
  \/ /\ scene = "waiting" /\ Room!Init
     /\ v23 = Idle /\ v24 = Idle /\ v25 = Idle /\ v26 = Idle /\ v27 = Idle
     /\ v28 = Idle /\ v29 = Idle
  \/ /\ scene = "settings" /\ Table!Init
     /\ v22 = Idle /\ v23 = Idle /\ v24 = Idle /\ v25 = Idle /\ v26 = Idle
     /\ v27 = Idle /\ v28 = Idle /\ v29 = Idle
  \/ /\ scene = "saves" /\ Shelf!Init
  \/ /\ scene = "hotseat" /\ Bench!Init
     /\ v23 = Idle /\ v24 = Idle /\ v25 = Idle /\ v26 = Idle /\ v27 = Idle
     /\ v28 = Idle /\ v29 = Idle

Next ==
  \/ /\ scene = "orders" /\ Orders!Next
     /\ UNCHANGED <<scene, v7, v8, v9, v10, v11, v12, v13, v14, v15, v16, v17, v18, v19, v20,
          v21, v22, v23, v24, v25, v26, v27, v28, v29>>
  \/ /\ scene = "city" /\ Town!Next
     /\ UNCHANGED <<scene, v14, v15, v16, v17, v18, v19, v20, v21, v22, v23, v24, v25, v26, v27,
          v28, v29>>
  \/ /\ scene = "rates" /\ Treasury!Next
     /\ UNCHANGED <<scene, v10, v11, v12, v13, v14, v15, v16, v17, v18, v19, v20, v21, v22, v23,
          v24, v25, v26, v27, v28, v29>>
  \/ /\ scene = "treaty" /\ Meeting!Next
     /\ UNCHANGED <<scene, v13, v14, v15, v16, v17, v18, v19, v20, v21, v22, v23, v24, v25, v26,
          v27, v28, v29>>
  \/ /\ scene = "games" /\ Agents!Next
     /\ UNCHANGED <<scene, v10, v11, v12, v13, v14, v15, v16, v17, v18, v19, v20, v21, v22, v23,
          v24, v25, v26, v27, v28, v29>>
  \/ /\ scene = "mirror" /\ Told!Next
     /\ UNCHANGED <<scene, v15, v16, v17, v18, v19, v20, v21, v22, v23, v24, v25, v26, v27, v28,
          v29>>
  \/ /\ scene = "nations" /\ Courts!Next
     /\ UNCHANGED <<scene, v17, v18, v19, v20, v21, v22, v23, v24, v25, v26, v27, v28, v29>>
  \/ /\ scene = "chat" /\ Line!Next
     /\ UNCHANGED <<scene, v9, v10, v11, v12, v13, v14, v15, v16, v17, v18, v19, v20, v21, v22,
          v23, v24, v25, v26, v27, v28, v29>>
  \/ /\ scene = "waiting" /\ Room!Next
     /\ UNCHANGED <<scene, v23, v24, v25, v26, v27, v28, v29>>
  \/ /\ scene = "settings" /\ Table!Next
     /\ UNCHANGED <<scene, v22, v23, v24, v25, v26, v27, v28, v29>>
  \/ /\ scene = "saves" /\ Shelf!Next
     /\ UNCHANGED <<scene>>
  \/ /\ scene = "hotseat" /\ Bench!Next
     /\ UNCHANGED <<scene, v23, v24, v25, v26, v27, v28, v29>>

Spec == Init /\ [][Next]_vars
=============================================================================
