------------------------------ MODULE MCWebPage ------------------------------
(***************************************************************************)
(* TLC instances of parts of the web client that share no state: a         *)
(* behaviour takes one of them, its scene, whose variables are v1, v2 and  *)
(* so on; what a scene does not use is idle.                               *)
(***************************************************************************)
EXTENDS MapGeometry, TLC

CONSTANTS NoOrigin, NoOne

VARIABLES
  scene,
  v1, v2, v3, v4, v5, v6, v7, v8, v9, v10, v11, v12, v13, v14, v15, v16, v17, v18, v19

vars == <<scene, v1, v2, v3, v4, v5, v6, v7, v8, v9, v10, v11, v12, v13, v14, v15, v16, v17, v18,
    v19>>

\* The variables that the scene does not use.
Idle == "idle"

-----------------------------------------------------------------------------
\* The map view: a small map and tiles of 4 by 2 pixels.
View == INSTANCE MapView WITH
  ground <- v1, cities <- v2, at <- v3, origin <- v4, dirty <- v5, dirtyAll <- v6,
  count <- v7, sliding <- v8, shown <- v9, base <- v10, click <- v11, Width <- 8,
  Height <- 4, Threshold <- 1, Border <- 1, BigMap <- 3, Grounds <- {"land", "sea"},
  Sights <- {12, 6}, Roams <- {6, 7}, Changing <- {6}, Towns <- {6},
  Drags <- {<<-2, 1>>}, MaxDrag <- 4

-----------------------------------------------------------------------------
\* The overview.
Face(known, terrain, owner, city, unit) ==
  [known |-> known, terrain |-> terrain, owner |-> owner, city |-> city, unit |-> unit]

FewFaces == {Face(FALSE, 0, NoOne, NoOne, NoOne), Face(TRUE, 0, 1, NoOne, NoOne),
             Face(TRUE, 0, NoOne, 0, 0), Face(TRUE, 0, 0, NoOne, 0)}

Minimap == INSTANCE Overview WITH
  tile <- v1, corner <- v2, sliding <- v3, drawn <- v4, Terrains <- {0, 1},
  Owners <- {0, 1}, Me <- 0, Changing <- {0, 1}, Faces <- FewFaces,
  Sites <- {<<5, 3>>, <<0, 2>>}, MinWidth <- 9

-----------------------------------------------------------------------------
\* The connection: an observer, an automatic start of a loaded game, and a
\* player.
ThreeModes ==
  {[observing |-> TRUE, autostart |-> FALSE, load |-> FALSE],
   [observing |-> FALSE, autostart |-> TRUE, load |-> TRUE],
   [observing |-> FALSE, autostart |-> FALSE, load |-> FALSE]}

Client == INSTANCE Session WITH
  mode <- v1, server <- v2, net <- v3, ws <- v4, sent <- v5, state <- v6, page <- v7,
  conn <- v8, connections <- v9, log <- v10, timers <- v11, shown <- v12, jobs <- v13,
  button <- v14, clicked <- v15, Modes <- ThreeModes, MaxNet <- 2, MaxTurns <- 1,
  MaxLog <- 2, MaxTimers <- 3

\* An observer asks to observe, unless the connection or the pregame page goes
\* first.
ObserverAsks ==
  (scene = "session" /\ Client!ObserverWaits) ~> (scene = "session" /\ Client!ObserverServed)

-----------------------------------------------------------------------------
\* The tiles around a city, and the geometry of every kind of map.
Plane(wrapx, wrapy, iso, hex) == INSTANCE MapGeometry WITH
  WrapX <- wrapx, WrapY <- wrapy, Iso <- iso, Hex <- hex

GeometriesSound ==
  \A wrapx, wrapy, iso, hex \in BOOLEAN : Plane(wrapx, wrapy, iso, hex)!GeometrySound

Around == INSTANCE CityTiles WITH
  wraps <- v1, sq <- v2, maps <- v3, Radii <- {2, 5}, Sites <- {0, 1, 5, 7, 14},
  Most <- 4

-----------------------------------------------------------------------------
\* The pictures of tiles.
Looks(terrain, known, extras, owner) ==
  [terrain |-> terrain, known |-> known, extras |-> extras, owner |-> owner]

TileFaces == {Looks("coast", 2, {}, NoOne), Looks("hills", 1, {"river", "fortress"}, 0),
              Looks("plains", 2, {"river", "road"}, 1)}

Pictures == INSTANCE Sprites WITH
  face <- v1, boom <- v2, nuke <- v3, seen <- v4, Changing <- {5}, Faces <- TileFaces,
  BoomSteps <- 5, NukeSteps <- 2, Tileset <- {"act_gfx_alt"}

-----------------------------------------------------------------------------
\* The window's names: two rulesets, whose extras have other numbers.
Extra(called, causes) == [rule_name |-> called, causes |-> causes]
TwoRulesets ==
  << <<Extra("Railroad", {"road"}), Extra("Fortress", {"base"}), Extra("Road", {"road"})>>,
     <<Extra("Fortress", {"base"}), Extra("Railroad", {"road"})>> >>

Window == INSTANCE Globals WITH
  name <- v1, stage <- v2, own <- v3, win <- v4, store <- v5, holds <- v6, used <- v7,
  loads <- v8, rules <- v9, extras <- v10, consts <- v11, Rulesets <- TwoRulesets,
  MaxValues <- 5, MaxRulesets <- 2

-----------------------------------------------------------------------------
\* Research: three technologies, two players of one team.
Tree == << <<0, 0>>, <<1, 0>>, <<1, 2>> >>
Teams == (0 :> 1) @@ (1 :> 1)
Games == {[pooled |-> FALSE, pbem |-> TRUE, observer |-> FALSE],
          [pooled |-> TRUE, pbem |-> FALSE, observer |-> FALSE],
          [pooled |-> FALSE, pbem |-> FALSE, observer |-> TRUE]}

Study == INSTANCE Research WITH
  live <- v1, game <- v2, known <- v3, wants <- v4, net <- v5, asked <- v6,
  data <- v7, mirror <- v8, canvas <- v9, shown <- v10, clicked <- v11, gained <- v12,
  ended <- v13, stored <- v14, due <- v15, label <- v16, Techs <- {1, 2, 3},
  Requires <- Tree, Players <- {0, 1}, Me <- 0, TeamOf <- Teams, Varies <- Games,
  MaxNet <- 1, MaxAsked <- 1, Nothing <- NoOne

\* Requests, the mirror, announcements and the label of the bulbs follow the
\* server's research (handle_research_info, techDialog.ts).
ResearchSound == scene = "research" => Study!ResearchSound

-----------------------------------------------------------------------------
\* The first page: two names, two submissions.
Door == INSTANCE Entry WITH
  mode <- v1, complete <- v2, dialog <- v3, trigger <- v4, field <- v5,
  password <- v6, username <- v7, own <- v8, stored <- v9, token <- v10,
  enabled <- v11, mail <- v12, asked <- v13, sockets <- v14, polls <- v15,
  logins <- v16, submits <- v17, messy <- v18, way <- v19, Names <- {"ann", "bob"},
  Bad <- "b!", Modes <- {"plain", "longturn", "hack", "autostart"},
  Pages <- {TRUE, FALSE}, MaxClicks <- 2, None <- NoOne

-----------------------------------------------------------------------------
\* Units as they are shown: two units, three tiles in view, a town out of it.
Band == INSTANCE UnitPictures WITH
  at <- v1, order <- v2, transported <- v3, gone <- v4, anim_list <- v5,
  anim_units_count <- v6, current_focus <- v7, shared <- v8, panel <- v9,
  center <- v10, active_city <- v11, moves <- v12, Units <- {1, 2},
  Tiles <- {0, 1, 2, 3}, InView <- {0, 1, 2}, Towns <- {3}, Flagless <- {2},
  Foreign <- {2}, Steps <- 4, MaxAnims <- 1, Least <- -1, MaxMoves <- 3, None <- NoOne

-----------------------------------------------------------------------------
\* Dialogs: one that can do everything, and one that is just there.
Frame ==
  "city" :> [width |-> "own", position |-> "middle", resizable |-> TRUE, draggable |-> TRUE,
             closable |-> TRUE, closeOnEscape |-> TRUE, minimizable |-> TRUE, maximizable |-> TRUE] @@
  "help" :> [width |-> "own", position |-> NoOne, resizable |-> FALSE, draggable |-> TRUE,
             closable |-> FALSE, closeOnEscape |-> TRUE, minimizable |-> TRUE, maximizable |-> FALSE]

Frames == INSTANCE GameDialog WITH
  made <- v1, dialog <- v2, activeDialogs <- v3, topZIndex <- v4, pressed <- v5,
  forgotten <- v6, Dialogs <- {"city", "help"}, Options <- Frame, Places <- {"here"},
  Widths <- {"wide"}, MaxTop <- 2, None <- NoOne

-----------------------------------------------------------------------------
\* Every tile on the canvas is shown as packets describe it or marked, a tap
\* picks the tile that is drawn under it (canvas_pos_to_tile against
\* update_map_canvas), and centering centers. The picture on the screen and its
\* hash never drift apart (redraw_overview), and tiles of different kinds have
\* different colours (overview_tile_color). The registry holds the dialogs that
\* are open, what a dialog shows goes with its state, and the mouse drags one
\* (GameDialog.ts).
ViewsSound ==
  /\ scene = "view" => View!ViewSound
  /\ scene = "overview" => Minimap!OverviewSound
  /\ scene = "dialogs" => Frames!DialogsSound

\* The game's page is shown while a phase runs (setClientState); the client
\* asks to observe, to load or to start only after the server let it in; a
\* closed connection ends no turns. A name that reaches the server is valid
\* and, unless two submissions met, is logged in once and under its token
\* (validate_username_callback, check_websocket_ready).
SessionSound ==
  /\ scene = "session" => Client!SessionSound
  /\ scene = "entry" => Door!EntrySound

\* On every kind of map, steps, vectors and coordinates agree with each other
\* and with the backend (data/map.ts, _compute_dest_tile). A table of numbers
\* that is found is the one the city would have made, and the numbers are the
\* same for every larger radius (getCityTileMapForPos). The window's names are
\* bound, shared where they are filled in place, and of one ruleset
\* (globalRegistry.ts, main.ts, handle_ruleset_control).
TablesSound ==
  /\ scene = "around" => GeometriesSound
  /\ scene = "around" => Around!TilesSound
  /\ scene = "globals" => Window!GlobalsSound

\* Fog and corners have the picture whose name fits (fill_fog_sprite_array,
\* fill_terrain_sprite_array). A unit that slides comes to rest, and the panel
\* marks the units in focus (update_unit_anim_list,
\* update_active_units_dialog).
SpritesSound ==
  /\ scene = "sprites" => Pictures!SpritesSound
  /\ scene = "slides" => Band!PicturesSound

-----------------------------------------------------------------------------
Init ==
  \/ /\ scene = "view" /\ View!Init
     /\ v12 = Idle /\ v13 = Idle /\ v14 = Idle /\ v15 = Idle /\ v16 = Idle
     /\ v17 = Idle /\ v18 = Idle /\ v19 = Idle
  \/ /\ scene = "overview" /\ Minimap!Init
     /\ v5 = Idle /\ v6 = Idle /\ v7 = Idle /\ v8 = Idle /\ v9 = Idle /\ v10 = Idle
     /\ v11 = Idle /\ v12 = Idle /\ v13 = Idle /\ v14 = Idle /\ v15 = Idle
     /\ v16 = Idle /\ v17 = Idle /\ v18 = Idle /\ v19 = Idle
  \/ /\ scene = "session" /\ Client!Init
     /\ v16 = Idle /\ v17 = Idle /\ v18 = Idle /\ v19 = Idle
  \/ /\ scene = "around" /\ Around!Init
     /\ v4 = Idle /\ v5 = Idle /\ v6 = Idle /\ v7 = Idle /\ v8 = Idle /\ v9 = Idle
     /\ v10 = Idle /\ v11 = Idle /\ v12 = Idle /\ v13 = Idle /\ v14 = Idle
     /\ v15 = Idle /\ v16 = Idle /\ v17 = Idle /\ v18 = Idle /\ v19 = Idle
  \/ /\ scene = "sprites" /\ Pictures!Init
     /\ v5 = Idle /\ v6 = Idle /\ v7 = Idle /\ v8 = Idle /\ v9 = Idle /\ v10 = Idle
     /\ v11 = Idle /\ v12 = Idle /\ v13 = Idle /\ v14 = Idle /\ v15 = Idle
     /\ v16 = Idle /\ v17 = Idle /\ v18 = Idle /\ v19 = Idle
  \/ /\ scene = "globals" /\ Window!Init
     /\ v12 = Idle /\ v13 = Idle /\ v14 = Idle /\ v15 = Idle /\ v16 = Idle
     /\ v17 = Idle /\ v18 = Idle /\ v19 = Idle
  \/ /\ scene = "research" /\ Study!Init
     /\ v17 = Idle /\ v18 = Idle /\ v19 = Idle
  \/ /\ scene = "entry" /\ Door!Init
  \/ /\ scene = "slides" /\ Band!Init
     /\ v13 = Idle /\ v14 = Idle /\ v15 = Idle /\ v16 = Idle /\ v17 = Idle
     /\ v18 = Idle /\ v19 = Idle
  \/ /\ scene = "dialogs" /\ Frames!Init
     /\ v7 = Idle /\ v8 = Idle /\ v9 = Idle /\ v10 = Idle /\ v11 = Idle /\ v12 = Idle
     /\ v13 = Idle /\ v14 = Idle /\ v15 = Idle /\ v16 = Idle /\ v17 = Idle
     /\ v18 = Idle /\ v19 = Idle

Next ==
  \/ /\ scene = "view" /\ View!Next
     /\ UNCHANGED <<scene, v12, v13, v14, v15, v16, v17, v18, v19>>
  \/ /\ scene = "overview" /\ Minimap!Next
     /\ UNCHANGED <<scene, v5, v6, v7, v8, v9, v10, v11, v12, v13, v14, v15, v16, v17, v18, v19>>
  \/ /\ scene = "session" /\ Client!Next
     /\ UNCHANGED <<scene, v16, v17, v18, v19>>
  \/ /\ scene = "around" /\ Around!Next
     /\ UNCHANGED <<scene, v4, v5, v6, v7, v8, v9, v10, v11, v12, v13, v14, v15, v16, v17, v18,
          v19>>
  \/ /\ scene = "sprites" /\ Pictures!Next
     /\ UNCHANGED <<scene, v5, v6, v7, v8, v9, v10, v11, v12, v13, v14, v15, v16, v17, v18, v19>>
  \/ /\ scene = "globals" /\ Window!Next
     /\ UNCHANGED <<scene, v12, v13, v14, v15, v16, v17, v18, v19>>
  \/ /\ scene = "research" /\ Study!Next
     /\ UNCHANGED <<scene, v17, v18, v19>>
  \/ /\ scene = "entry" /\ Door!Next
     /\ UNCHANGED <<scene>>
  \/ /\ scene = "slides" /\ Band!Next
     /\ UNCHANGED <<scene, v13, v14, v15, v16, v17, v18, v19>>
  \/ /\ scene = "dialogs" /\ Frames!Next
     /\ UNCHANGED <<scene, v7, v8, v9, v10, v11, v12, v13, v14, v15, v16, v17, v18, v19>>

Spec == Init /\ [][Next]_vars

SessionHandle ==
  /\ scene = "session" /\ Client!Handle
  /\ UNCHANGED <<scene, v16, v17, v18, v19>>
SessionLog ==
  /\ scene = "session" /\ Client!LogFires
  /\ UNCHANGED <<scene, v16, v17, v18, v19>>
SessionPoll ==
  /\ scene = "session" /\ (\E job \in v13 : Client!Poll(job))
  /\ UNCHANGED <<scene, v16, v17, v18, v19>>

\* The page's timers run out, packets are handled and requests answered.
FairSpec ==
  /\ Spec
  /\ WF_vars(SessionHandle) /\ WF_vars(SessionLog) /\ WF_vars(SessionPoll)
=============================================================================
