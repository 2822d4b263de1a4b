------------------------------- MODULE Globals -------------------------------
(***************************************************************************)
(* The window of the web client.  Its modules export variables and tables, *)
(* globalRegistry.ts copies each of them to the window once, main.ts adds  *)
(* the stores that are missing and replaces nineteen names by accessors of *)
(* the store; afterwards a module assigns its own variable, the others the *)
(* window's, and the packets of a ruleset replace or fill the window's     *)
(* tables.  A behaviour follows one name.  A value is a number: None for a *)
(* name nobody bound, Initial for what the module starts with, and a fresh *)
(* one for each object or value that replaces it.                          *)
(***************************************************************************)
EXTENDS Naturals, Sequences, FiniteSets

CONSTANTS
  Rulesets,     \* the rulesets, each a sequence of the extras it defines
  MaxValues,    \* bound: values a name takes
  MaxRulesets   \* bound: rulesets the server loads in a game

VARIABLES
  name,         \* the name that is followed
  stage,        \* how far the page has started
  own,          \* the value of the module's variable
  win,          \* the value of the window's
  store,        \* the value of the store's property, for a name it keeps
  holds,        \* the rulesets whose packets the value holds, by value
  used,         \* the values used so far
  loads,        \* the rulesets announced so far
  rules,        \* the ruleset that is current, 0 before the first
  extras,       \* w.extras: a sequence of the extras that have arrived
  consts        \* the names EXTRA_... of the window, with their extra

vars == <<name, stage, own, win, store, holds, used, loads, rules, extras, consts>>

None == 0
Initial == 1

(* What a module exports: the variables it assigns itself, those the others *)
(* assign through the window (both, for a few), and those all only read     *)
(* and change in place.  Functions and constants never differ.              *)
Exports(mine, others, kept) == [mine |-> mine, others |-> others, kept |-> kept]

FromSounds == Exports({}, {}, {"sound_path"})

FromSpeech == Exports({"voice"}, {}, {"speech_enabled"})

FromControl ==
  Exports({"action_selection_in_progress_for", "action_tgt_sel_active", "airlift_active",
           "chat_send_to", "current_goto_turns", "end_turn_info_message_shown",
           "game_unit_panel_state", "goto_active", "goto_last_action", "goto_last_order",
           "goto_request_map", "goto_turns_request_map", "has_movesleft_warning_been_shown",
           "intro_click_description", "is_more_user_input_needed", "paradrop_active",
           "prev_mouse_x", "prev_mouse_y", "resize_enabled", "show_citybar",
           "unitpanel_active", "urgent_focus_queue", "current_focus", "keyboard_input",
           "context_menu_active"},
          {"allow_right_click", "context_menu_active", "current_focus", "keyboard_input",
           "mapview_mouse_movement", "waiting_units_list"},
          {"roads", "bases"})

FromMessages == Exports({"chatbox_active", "current_message_dialog_state"}, {}, {})

FromOverview ==
  Exports({"OVERVIEW_TILE_SIZE", "overview_active", "overview_current_state", "overview_hash",
           "palette", "palette_color_offset", "palette_terrain_offset"},
          {"OVERVIEW_REFRESH", "overviewTimerId", "overview_active"}, {})

FromPregame ==
  Exports({"ai_skill_level", "antialiasing_setting", "choosing_player", "chosen_nation",
           "chosen_style", "graphics_quality", "google_user_token", "logged_in_with_password",
           "metamessage_changed", "nation_select_id", "observing", "password_reset_count",
           "update_player_info_pregame_queued"},
          {"google_user_token", "metamessage_changed", "observing"}, {})

FromPlayer == Exports({}, {}, {"research_data"})

FromUnitType == Exports({}, {"unit_classes"}, {})

FromConnection == Exports({}, {}, {"debug_client_speed_list"})

FromPackhandlers == Exports({"terrain_control"}, {"terrain_control"}, {})

FromMapctrl ==
  Exports({"mouse_x", "mouse_y", "map_select_check", "map_select_check_started", "map_select_x",
           "map_select_y", "map_select_active", "touch_start_x", "touch_start_y"},
          {"map_select_active", "touch_start_x", "touch_start_y"},
          {"map_select_setting_enabled", "mouse_touch_started_on_unit"})

FromMapviewCommon ==
  Exports({"dirty_all", "dirty_count", "dirty_tiles", "last_redraw_time",
           "mapdeco_crosshair_table", "mapdeco_highlight_table"}, {}, {"mapview", "mapview_slide"})

FromTilespec == Exports({}, {}, {"explosion_anim_map"})

FromCityDialog ==
  Exports({"active_city", "city_prod_clicks", "citydlg_map_height", "citydlg_map_width",
           "opt_show_unreachable_items", "production_selection", "worklist_dialog_active",
           "worklist_selection"},
          {"city_rules", "city_tile_map", "goods"}, {"cities", "city_trade_routes"})

FromCma == Exports({}, {}, {"_cma_val_sliders", "_cma_min_sliders", "_cma_happy_slider"})

FromDiplomacy == Exports({"diplomacy_clause_map"}, {"clause_infos"}, {})

FromGovernmentDialog == Exports({"requested_gov"}, {"governments"}, {})

FromHallOfFame == Exports({"submitted_to_hof"}, {}, {})

FromHotseat ==
  Exports({"hotseat_active_player", "hotseat_enabled", "num_hotseat_players"},
          {"hotseat_enabled"}, {"hotseat_players", "hotseat_pwd"})

FromOptions ==
  Exports({"sounds_enabled"}, {"sounds_enabled"},
          {"auto_center_on_unit", "draw_focus_unit", "draw_fog_of_war", "draw_units",
           "popup_actor_arrival", "server_settings"})

FromRates ==
  Exports({"freeze", "lux", "maxrate", "s_lux", "s_sci", "s_tax", "sci", "tax"}, {},
          {"current_government", "government_list"})

FromSpacerace == Exports({}, {}, {"spaceship_info"})

FromTechDialog ==
  Exports({"clicked_tech_id", "is_tech_tree_init", "maxleft", "tech_canvas", "tech_canvas_ctx",
           "tech_canvas_text_font", "tech_dialog_active"},
          {"tech_dialog_active", "techs"}, {})

FromReplay == Exports({"replay_enabled", "replay_gif"}, {}, {})

FromSavegame ==
  Exports({"game_loaded", "saved_this_turn", "scenario_activated"},
          {"saved_this_turn", "scenario_info"}, {"loadTimerId"})

Modules ==
  {FromSounds, FromSpeech, FromControl, FromMessages, FromOverview, FromPregame, FromPlayer,
   FromUnitType, FromConnection, FromPackhandlers, FromMapctrl, FromMapviewCommon,
   FromTilespec, FromCityDialog, FromCma, FromDiplomacy, FromGovernmentDialog,
   FromHallOfFame, FromHotseat, FromOptions, FromRates, FromSpacerace, FromTechDialog,
   FromReplay, FromSavegame}

Mine   == UNION {m.mine : m \in Modules}
Others == UNION {m.others : m \in Modules}
Kept   == UNION {m.kept : m \in Modules}
Exported == Mine \cup Others \cup Kept

(* What data/game.ts, improvement.ts, nation.ts and terrain.ts bind on the  *)
(* window when they are evaluated, which is before the registry.            *)
EarlyStores ==
  {"improvements", "nation_groups", "diplstates", "terrains", "resources", "terrain_control"}

(* The stores main.ts makes if they are missing.  Imports are evaluated     *)
(* first, so this is done after the registry.                               *)
LateStores ==
  {"effects", "specialists", "players", "research_data", "terrains", "resources",
   "terrain_control", "governments", "connections", "actions", "extras", "roads", "bases",
   "unit_types", "unit_classes", "tiles", "units", "cities", "techs", "nations",
   "improvements", "map"}

(* syncStoreWithWindow: the names that become accessors of the store.       *)
Accessors ==
  {"tiles", "units", "cities", "players", "terrains", "techs", "nations", "governments",
   "improvements", "extras", "connections", "map", "unit_types", "game_info",
   "calendar_info", "server_settings", "ruleset_control", "ruleset_summary",
   "ruleset_description"}

(* The tables handle_ruleset_control replaces on the window.                *)
Replaced ==
  {"effects", "nation_groups", "nations", "specialists", "techs", "governments",
   "terrain_control", "unit_types", "unit_classes", "city_rules", "terrains", "resources",
   "goods", "actions", "extras", "clause_infos"}

(* Those it forgets until their packet comes.                               *)
Nulled == {"ruleset_summary", "ruleset_description", "game_rules"}

RulesetTables == Replaced \cup Nulled \cup {"improvements"}

Names == Exported \cup EarlyStores \cup LateStores \cup Accessors \cup RulesetTables

(* The number of a new value. *)
Fresh == used + 1

(* The window takes a value, and the store with it once they are one. *)
Bind(value) ==
  /\ win' = value
  /\ store' = IF stage = "running" /\ name \in Accessors THEN value ELSE store

Init ==
  /\ name \in Names
  /\ stage = "modules"
  /\ own = IF name \in Exported THEN Initial ELSE None
  /\ win = None /\ store = None
  /\ holds = [v \in 0..MaxValues |-> {}]
  /\ used = Initial
  /\ loads = 0 /\ rules = 0 /\ extras = <<>> /\ consts = {}

Game == <<loads, rules, extras, consts>>

(* Modules are evaluated; some bind names of the window themselves. *)
Evaluate ==
  /\ stage = "modules"
  /\ stage' = "evaluated"
  /\ IF name \in EarlyStores THEN win' = Fresh /\ used' = Fresh ELSE UNCHANGED <<win, used>>
  /\ UNCHANGED <<name, own, store, holds, Game>>

(* globalRegistry.ts: every export is copied once. *)
Register ==
  /\ stage = "evaluated"
  /\ stage' = "registered"
  /\ win' = IF name \in Exported THEN own ELSE win
  /\ UNCHANGED <<name, own, store, holds, used, Game>>

\* Mutant: the stores are made whether or not they are there.
MakeAllStores ==
  /\ stage = "registered"
  /\ stage' = "stored"
  /\ IF name \in LateStores THEN win' = Fresh /\ used' = Fresh ELSE UNCHANGED <<win, used>>
  /\ UNCHANGED <<name, own, store, holds, Game>>

(* main.ts, step 0: stores that are missing are made. *)
MakeStores ==
  /\ stage = "registered"
  /\ stage' = "stored"
  /\ IF name \in LateStores /\ win = None
     THEN win' = Fresh /\ used' = Fresh
     ELSE UNCHANGED <<win, used>>
  /\ UNCHANGED <<name, own, store, holds, Game>>

(* syncStoreWithWindow: what the window has goes to the store, and the     *)
(* name becomes an accessor.                                               *)
Sync ==
  /\ stage = "stored"
  /\ stage' = "running"
  /\ store' = IF name \in Accessors THEN win ELSE store
  /\ UNCHANGED <<name, own, win, holds, used, Game>>

(* A module assigns its variable: the window keeps what it had. *)
ModuleAssigns ==
  /\ stage = "running" /\ name \in Mine \ RulesetTables /\ used < MaxValues
  /\ own' = Fresh /\ used' = Fresh
  /\ UNCHANGED <<name, stage, win, store, holds, Game>>

(* Another module assigns the window's name: the variable keeps its value. *)
WindowAssigns ==
  /\ stage = "running" /\ name \in Others \ RulesetTables /\ used < MaxValues
  /\ Bind(Fresh)
  /\ used' = Fresh
  /\ UNCHANGED <<name, stage, own, holds, Game>>

(* The name of the constant of an extra. *)
ConstOf(extra) ==
  CASE extra.rule_name = "Railroad" -> "EXTRA_RAIL"
    [] extra.rule_name = "Oil Well" -> "EXTRA_OIL_WELL"
    [] OTHER -> extra.rule_name

Ids == DOMAIN extras

(* handle_ruleset_control: every table of the old ruleset goes.  The window *)
(* gets new ones, improvements are emptied in place, and the constants of   *)
(* the extras are deleted by the names of the extras there are.             *)
RulesetControl(r) ==
  /\ stage = "running" /\ loads < MaxRulesets /\ used < MaxValues
  /\ loads' = loads + 1
  /\ rules' = r
  /\ IF name \in Replaced THEN Bind(Fresh) /\ used' = Fresh
     ELSE IF name \in Nulled THEN Bind(None) /\ used' = used
     ELSE UNCHANGED <<win, store, used>>
  /\ own' = IF name = "terrain_control" THEN Fresh ELSE own
  /\ holds' = CASE name = "improvements" -> [holds EXCEPT ![win] = {}]
                [] name \in Replaced -> [holds EXCEPT ![Fresh] = {}]
                [] OTHER -> [holds EXCEPT ![None] = {}]
  /\ consts' = {c \in consts : \A i \in Ids : c[1] # ConstOf(extras[i])}
  /\ extras' = <<>>
  /\ UNCHANGED <<name, stage>>

(* The handlers of a ruleset's packets that fill a table in place. *)
RulesetFills ==
  /\ stage = "running" /\ rules > 0
  /\ name \in RulesetTables \ (Nulled \cup {"nation_groups", "terrain_control", "extras"})
  /\ holds' = [holds EXCEPT ![win] = @ \cup {loads}]
  /\ UNCHANGED <<name, stage, own, win, store, used, Game>>

(* Those that assign: the summary, the description, the groups of nations,  *)
(* the game's rules, and terrain control in both places.                    *)
RulesetAssigns ==
  /\ stage = "running" /\ rules > 0 /\ used < MaxValues
  /\ name \in Nulled \cup {"nation_groups", "terrain_control"}
  /\ Bind(Fresh)
  /\ used' = Fresh
  /\ own' = IF name = "terrain_control" THEN Fresh ELSE own
  /\ holds' = [holds EXCEPT ![Fresh] = {loads}]
  /\ UNCHANGED <<name, stage, Game>>

Tell == UNCHANGED <<name, stage, own, win, store, holds, used, loads, rules>>

(* handle_ruleset_extra: the next extra of the ruleset, and its constant.  *)
RulesetExtra ==
  /\ stage = "running" /\ name = "extras" /\ rules > 0
  /\ Len(extras) < Len(Rulesets[rules])
  /\ LET id == Len(extras) + 1
         extra == Rulesets[rules][id]
     IN /\ extras' = Append(extras, [rule_name |-> extra.rule_name, causes |-> extra.causes,
                                     road |-> 0, base |-> 0])
        /\ consts' = {c \in consts : c[1] # ConstOf(extra)} \cup {<<ConstOf(extra), id>>}
  /\ Tell

Lacking(cause) == {i \in Ids : cause \in extras[i].causes /\ extras[i][cause] = 0}
Attached(cause) == Cardinality({i \in Ids : extras[i][cause] # 0})

(* handle_ruleset_road, handle_ruleset_base: the next road, or base, goes   *)
(* to the first extra with that cause that has none.  The server sends them *)
(* after the extras, in the order of the extras.                            *)
RulesetPart(cause) ==
  /\ stage = "running" /\ name = "extras" /\ rules > 0
  /\ Len(extras) = Len(Rulesets[rules])
  /\ Lacking(cause) # {}
  /\ LET i == CHOOSE j \in Lacking(cause) : \A k \in Lacking(cause) : j <= k
     IN extras' = [extras EXCEPT ![i] = [@ EXCEPT ![cause] = Attached(cause) + 1]]
  /\ UNCHANGED consts
  /\ Tell

Next ==
  \/ Evaluate \/ Register \/ MakeStores \/ Sync
  \/ ModuleAssigns \/ WindowAssigns
  \/ \E r \in DOMAIN Rulesets : RulesetControl(r)
  \/ RulesetFills \/ RulesetAssigns \/ RulesetExtra
  \/ \E cause \in {"road", "base"} : RulesetPart(cause)

Spec == Init /\ [][Next]_vars

-----------------------------------------------------------------------------
(* Every store of main.ts is there when the first packet comes, and an     *)
(* accessor answers what the store has (main.ts).                          *)
Bound ==
  stage = "running" =>
    /\ name \in LateStores => win # None
    /\ name \in Accessors => win = store

(* A table that is only filled in place stays one object for the window and *)
(* for its module: what a packet puts there is what the module's dialog     *)
(* reads (globalRegistry.ts and the guards of main.ts).                     *)
Shared == stage = "running" /\ name \in Kept => own = win

(* No table the window shows holds anything of an older ruleset, and a      *)
(* module's own copy does not either (handle_ruleset_control).              *)
OneRuleset ==
  stage = "running" /\ name \in RulesetTables =>
    /\ holds[win] \subseteq {loads}
    /\ name \in Exported => holds[own] \subseteq {loads}

(* A constant EXTRA_... names the extra of the current ruleset with that    *)
(* name, and the n-th road, or base, is the one of the n-th extra that is   *)
(* built as a road, or base (handle_ruleset_extra, _road, _base).           *)
ExtrasFit ==
  /\ \A c \in consts : c[2] \in Ids /\ ConstOf(extras[c[2]]) = c[1]
  /\ \A i \in Ids : \A cause \in {"road", "base"} :
       extras[i][cause] # 0 =>
         extras[i][cause] = Cardinality({j \in 1..i : cause \in extras[j].causes})

(* The window is what its readers take it for: bound, shared where it is    *)
(* filled in place, of one ruleset, with constants that fit.                *)
GlobalsSound == Bound /\ Shared /\ OneRuleset /\ ExtrasFit
=============================================================================
