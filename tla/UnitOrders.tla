----------------------------- MODULE UnitOrders -----------------------------
(***************************************************************************)
(* Orders for the units in focus (core/control.ts, renderer/mapctrl.ts) as *)
(* the deployed page gives them: the keys, the requests they send, and the *)
(* modes that wait for a tile: goto, airlift and the target of an action.  *)
(*                                                                         *)
(* Most commands read a constant that control.ts only declares and nobody  *)
(* binds (ACTIVITY_SENTRY, ACTION_AIRLIFT, DIR8_SOUTH, FC_ACTION_FOUND_CITY*)
(* and so on).  Such a read throws: what the callback did before it stays, *)
(* the rest is left out.  The context menu is among them, so that what can *)
(* be chosen there only (paradrop, a unit's cargo) does not happen.        *)
(*                                                                         *)
(* One callback is one step; the requests it sends are in sent until the   *)
(* next one.  Which units come into focus otherwise is UnitControl's       *)
(* matter: here the focus may change at any time (FocusChanges).           *)
(***************************************************************************)
EXTENDS Naturals, Sequences, FiniteSets, SequencesExt

CONSTANTS
  Units, Tiles,
  Cities,      \* tiles with a city
  Founders,    \* settlers and engineers
  Foreign,     \* units of other players
  Records,     \* bound: what the server says of units, of UnitRec
  Gone         \* a unit that is not mirrored

UnitRec == [tile: Tiles,
            moves: BOOLEAN,   \* movesleft > 0
            want: BOOLEAN]    \* an action decision is wanted

VARIABLES
  unit,      \* the mirrored units
  focus,     \* current_focus
  modes,     \* goto_active, airlift_active, action_tgt_sel_active
  paths,     \* goto_request_map: <<unit, tile>> asked for
  touch,     \* the device has a touch screen
  sent       \* requests of the last callback

vars == <<unit, focus, modes, paths, touch, sent>>

Modes == {"goto", "airlift", "target"}

-----------------------------------------------------------------------------
(* Requests.                                                               *)

Req(k, u, x) == [k |-> k, u |-> u, x |-> x]

Here(u) == unit[u].tile
At(t) == {u \in Units : unit[u] # Gone /\ Here(u) = t}

\* action_decision_clear_want
ClearWant(u) == IF unit[u].want THEN <<Req("unqueue", u, 0)>> ELSE <<>>

\* request_unit_cancel_orders: SSA_NONE is bound to the table of agents, which
\* no agent equals, so that the orders are cancelled whether there are any or not
CancelOrders(u) == <<Req("cancel", u, Here(u))>>


\* request_new_unit_activity: of the activities only "idle" is bound
NewActivity(u) == CancelOrders(u) \o ClearWant(u) \o <<Req("idle", u, 0)>>

\* one after the other for all units in focus
ForFocus(f(_)) == FlattenSeq([i \in DOMAIN focus |-> f(focus[i])])

-----------------------------------------------------------------------------
(* What the keys send.                                                     *)

AutoExplore(u) == <<Req("explore", u, 0)>>
AutoWork(u) == CancelOrders(u) \o ClearWant(u) \o <<Req("work", u, 0)>>

\* the units' own tiles
Queue(u, t) == <<Req("queue", u, t)>>
QueueHere(u) == Queue(u, Here(u))

\* Only the first unit in focus; to join a city takes ACTION_JOIN_CITY, which
\* is not bound.
BuildCity ==
  LET u == Head(focus)
  IN  IF /\ focus # <<>> /\ unit[u].moves
         /\ u \in Founders /\ Here(u) \notin Cities
      THEN <<Req("name", u, 0)>> ELSE <<>>

\* ACTIVITY_SENTRY, ACTIVITY_FORTIFYING and so on are arguments: they are read
\* before request_new_unit_activity is called.
ActivityKeys == {"sentry", "fortify", "irrigate", "cultivate", "clean", "transform",
                 "mine", "plant"}
\* for a tile that has the base, or all roads, nothing is done
BaseKeys == {"fortress", "airbase"}
RoadKeys == {"road"}
\* ACTION_UPGRADE_UNIT, ACTION_HOME_CITY, ACTION_TRANSPORT_BOARD, ACTION_PILLAGE,
\* ACTION_NUKE
ActionKeys == {"upgrade", "homecity", "load", "pillage", "nuke"}
\* DIR8_SOUTH and so on, before key_unit_move is called
MoveKeys == {"move"}
\* ACTION_DISBAND_UNIT, once the player has confirmed
Questions == {"disband"}
\* update_unit_order_commands reads FC_ACTION_FOUND_CITY for the first unit
Menus == {"menu"}

DeadKeys == ActivityKeys \cup BaseKeys \cup RoadKeys \cup ActionKeys
              \cup MoveKeys \cup Questions \cup Menus

-----------------------------------------------------------------------------
\* request_goto_path: once for a unit and a tile
Wanted(t) == {<<focus[i], t>> : i \in DOMAIN focus}

Init ==
  /\ unit \in [Units -> Records]
  /\ focus = <<>> /\ modes = {} /\ paths = {}
  /\ touch \in BOOLEAN
  /\ sent = <<>>

Keeps == UNCHANGED <<unit, touch>>
Silent == sent' = <<>>

\* A unit object changes under a packet; a unit may be lost.  One that is in
\* focus stays mirrored then (see UnitControl).
UnitChanges(u) ==
  /\ unit[u] # Gone
  /\ \E r \in Records \cup (IF u \in ToSet(focus) THEN {} ELSE {Gone}) :
       unit' = [unit EXCEPT ![u] = r]
  /\ Silent
  /\ UNCHANGED <<focus, modes, paths, touch>>

\* A turn begins, a timer fires or an action is chosen: another focus.
NewFocus == \E S \in SUBSET {u \in Units : unit[u] # Gone} : focus' \in SetToSeqs(S)

FocusChanges == NewFocus /\ Silent /\ Keeps /\ UNCHANGED <<modes, paths>>

\* handle_web_goto_path: the window's goto_active is the copy made at the start
\* (FALSE), so that update_goto_path is not called and the entry stays TRUE.
PathArrives == paths # {} /\ Silent /\ Keeps /\ UNCHANGED <<focus, modes, paths>>

-----------------------------------------------------------------------------
(* Keys (map_handle_key).                                                  *)

Sends(requests) == sent' = requests /\ Keeps /\ UNCHANGED <<focus, modes, paths>>

Idle == Sends(ForFocus(NewActivity))
Explore == Sends(ForFocus(AutoExplore))
Work == Sends(ForFocus(AutoWork))
Build == Sends(BuildCity)

\* Whoever is first on the tile of the last unit in focus, then
\* ACTION_TRANSPORT_DEBOARD or ACTION_TRANSPORT_UNLOAD.
Unload == /\ focus # <<>>
          /\ \E u \in At(Here(focus[Len(focus)])) : Sends(NewActivity(u))

DeadKey(k) == k \in DeadKeys /\ Sends(<<>>)

\* activate_goto: without a unit in focus the key does nothing
Goto ==
  /\ focus # <<>>
  /\ modes' = modes \cup {"goto"}
  /\ Silent /\ Keeps /\ UNCHANGED <<focus, paths>>

Airlift == modes' = modes \cup {"airlift"} /\ Silent /\ Keeps /\ UNCHANGED <<focus, paths>>

\* key_unit_action_select: the second press is against the units' own tiles
SelectTarget ==
  /\ "target" \notin modes
  /\ modes' = modes \cup {"target"}
  /\ Silent /\ Keeps /\ UNCHANGED <<focus, paths>>

SelectOwnTile ==
  /\ "target" \in modes
  /\ modes' = modes \ {"target"}
  /\ sent' = ForFocus(QueueHere)
  /\ Keeps /\ UNCHANGED <<focus, paths>>

Escape ==
  /\ modes' = {} /\ paths' = {}
  /\ Silent /\ Keeps /\ UNCHANGED focus

\* The space key ends goto by hand.
Space ==
  /\ focus' = <<>> /\ modes' = modes \ {"goto"} /\ paths' = {}
  /\ Silent /\ Keeps

-----------------------------------------------------------------------------
(* The pointer.                                                            *)

\* A finger moves over the map (mapview_touch_move).  No finger takes a unit
\* along: find_visible_unit reads tile_units_func, which is not bound.
PointAt(t) ==
  /\ touch /\ "goto" \in modes
  /\ paths' = paths \cup Wanted(t)
  /\ sent' = SetToSeq({Req("path", p[1], t) : p \in Wanted(t) \ paths})
  /\ Keeps /\ UNCHANGED <<focus, modes>>

\* do_map_click on the tile of the first unit in focus: goto ends, unless there
\* is a touch screen; the menu does not come up.
TapOwnTile(t) ==
  /\ focus # <<>> /\ Here(Head(focus)) = t
  /\ IF touch THEN UNCHANGED <<modes, paths>> ELSE modes' = modes \ {"goto"} /\ paths' = {}
  /\ Silent /\ Keeps /\ UNCHANGED focus

Elsewhere(t) == (focus # <<>> => Here(Head(focus)) # t) /\ Keeps

\* For the first unit that asked for a path to the tile an order is built, out
\* of ACTIVITY_LAST: nothing is sent, and goto goes on.
TapGotoAsked(t) ==
  /\ Elsewhere(t) /\ "goto" \in modes /\ Wanted(t) \cap paths # {}
  /\ Silent
  /\ UNCHANGED <<focus, modes, paths>>

\* No unit has asked for a path to this tile: goto ends and update_unit_focus is
\* called.  When that moves the focus it throws, and the other modes stay.
TapGotoUnasked(t) ==
  /\ Elsewhere(t) /\ "goto" \in modes /\ Wanted(t) \cap paths = {}
  /\ paths' = {}
  /\ \/ modes' = {} /\ UNCHANGED focus
     \/ modes' = modes \ {"goto"} /\ NewFocus
  /\ Silent

Waiting == modes # {} /\ focus # <<>>

\* on a city ACTION_AIRLIFT is read
TapAirlift(t) ==
  /\ Elsewhere(t) /\ Waiting /\ "goto" \notin modes /\ "airlift" \in modes
  /\ modes' = IF t \in Cities THEN modes ELSE {}
  /\ Silent
  /\ UNCHANGED <<focus, paths>>

\* request_unit_act_sel_vs
TapTarget(t) ==
  /\ Elsewhere(t) /\ Waiting /\ modes = {"target"}
  /\ LET f(u) == Queue(u, t) IN sent' = ForFocus(f)
  /\ modes' = {}
  /\ UNCHANGED <<focus, paths>>

\* An own unit, or an empty tile outside of cities, is put into focus with
\* set_unit_focus_and_redraw, which throws (the menu, or webgl_clear_unit_focus):
\* the modes stay.  The units of others come into focus as they are.
TapTile(t) ==
  /\ Elsewhere(t) /\ ~Waiting /\ "goto" \notin modes
  /\ \/ t \in Cities /\ UNCHANGED <<focus, modes>>
     \/ \E u \in At(t) \ Foreign : focus' = <<u>> /\ UNCHANGED modes
     \/ t \notin Cities /\ At(t) = {} /\ focus' = <<>> /\ UNCHANGED modes
     \/ /\ t \notin Cities /\ At(t) \cap Foreign # {}
        /\ focus' \in SetToSeqs(At(t)) /\ Head(focus') \in Foreign
        /\ modes' = {}
  /\ Silent
  /\ UNCHANGED paths

-----------------------------------------------------------------------------
Keys ==
  \/ Idle \/ Explore \/ Work \/ Build \/ Unload
  \/ \E k \in DeadKeys : DeadKey(k)
  \/ Goto \/ Airlift \/ SelectTarget \/ SelectOwnTile \/ Escape \/ Space

Taps ==
  \E t \in Tiles : \/ PointAt(t) \/ TapOwnTile(t)
                   \/ TapGotoAsked(t) \/ TapGotoUnasked(t)
                   \/ TapAirlift(t) \/ TapTarget(t) \/ TapTile(t)

Next ==
  \/ \E u \in Units : UnitChanges(u)
  \/ FocusChanges \/ PathArrives
  \/ Keys \/ Taps

Spec == Init /\ [][Next]_vars

-----------------------------------------------------------------------------
TypeOK ==
  /\ unit \in [Units -> UnitRec \cup {Gone}]
  /\ ToSet(focus) \subseteq {u \in Units : unit[u] # Gone}
  /\ modes \subseteq Modes /\ touch \in BOOLEAN
  /\ paths \subseteq Units \X Tiles

\* Paths are kept for the goto they were asked for only: the map is empty
\* whenever no goto is active (deactivate_goto, the space key).
PathsOnlyInGoto == "goto" \notin modes => paths = {}

\* Orders are sound: goto forgets its paths, and who is in focus is mirrored.
OrdersSound == TypeOK /\ PathsOnlyInGoto

\* The server hears of the end of a unit's orders, and of the action decision
\* that was wanted for it, before it hears what the unit does next
\* (request_new_unit_activity, request_unit_autoworkers).
ToldFirst ==
  \A i \in DOMAIN sent' :
    LET r == sent'[i]
        before(k) == \E j \in 1..i - 1 : sent'[j].k = k /\ sent'[j].u = r.u
    IN  r.k \in {"idle", "work"} =>
          before("cancel") /\ (unit[r.u].want => before("unqueue"))

\* A path is asked for once in a goto, for a unit in focus, and then noted.
AskedOnce ==
  \A i \in DOMAIN sent' :
    LET r == sent'[i]
    IN  r.k = "path" => /\ "goto" \in modes' /\ r.u \in ToSet(focus)
                        /\ <<r.u, r.x>> \in paths' \ paths

OrdersSteps == ToldFirst /\ AskedOnce
=============================================================================
