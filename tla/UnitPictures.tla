---------------------------- MODULE UnitPictures ----------------------------
(***************************************************************************)
(* Units as the web client shows them: which unit of a tile is drawn, the  *)
(* way it slides from tile to tile, the panel of the units that are with   *)
(* the one in focus, and the centering of the map on it.                   *)
(*                                                                         *)
(* Packets move units at any time; a unit slides only as often as it is    *)
(* drawn, and is drawn only while it is the one its tile shows.  Which     *)
(* unit comes into focus by itself is UnitControl's.                       *)
(*                                                                         *)
(* A click on foreign units makes the tile's own list the focus: until the *)
(* focus is set again, units that come and go join and leave it.           *)
(*                                                                         *)
(* control.ts only declares webgl_clear_unit_focus and FC_ACTION_* names:  *)
(* who clears the focus throws before the panel is drawn, and who sets it  *)
(* throws after, so that a unit removed while it is in focus stays         *)
(* mirrored.  Of drawing the hypothesis is that tile_units_func, which     *)
(* find_visible_unit reads and nothing binds either, stands for tile_units *)
(* of data/unit.ts; in the deployed page DrawTile throws instead.          *)
(***************************************************************************)
EXTENDS Integers, Sequences, FiniteSets, SequencesExt, Lists

CONSTANTS
  Units, Tiles,
  InView,     \* the tiles that the map shows, whose units are animated
  Towns,      \* the tiles with a city
  Flagless,   \* units without a flag
  Foreign,    \* the units of other players
  Steps,      \* ANIM_STEPS
  MaxAnims,   \* anim_units_max
  Least,      \* bound: how far anim_units_count is counted down
  MaxMoves,   \* bound: packets of units
  None

VARIABLES
  at, order,       \* the mirror of the units: their tiles, and the order of a tile's
  transported,     \* the units in a transport
  gone,            \* the units that the server removed
  anim_list, anim_units_count,
  current_focus,
  shared,          \* the tile whose own list the focus is, or None
  panel,           \* the units in the panel, and those marked there
  center,          \* the tile the map was centered on last
  active_city,     \* is a city's dialog open?
  moves            \* bound

vars == <<at, order, transported, gone, anim_list, anim_units_count, current_focus, shared,
          panel, center, active_city, moves>>

mirror == <<at, order, transported, gone>>
anims == <<anim_list, anim_units_count>>
focusVars == <<current_focus, shared, panel>>

Known == {u \in Units : at[u] # None}
UnitsAt(list, tiles, t) == Keep(list, {i \in DOMAIN list : tiles[list[i]] = t})
OnTile(t) == UnitsAt(order, at, t)
Asked == moves < MaxMoves /\ moves' = moves + 1

-----------------------------------------------------------------------------
\* Sliding.

Has(list, t) == \E i \in 1..Len(list) : list[i].tile = t
Tuple(t) == [tile |-> t, i |-> Steps]
Unless(there, list, t) == IF there THEN list ELSE Append(list, Tuple(t))

\* update_unit_anim_list: a move that is not seen leaves the list as it is
UpdateUnitAnimList(u, old, new, aboard) ==
  IF old = new \/ anim_units_count > MaxAnims \/ new \notin InView THEN UNCHANGED anims
  ELSE IF aboard THEN anim_list' = [anim_list EXCEPT ![u] = << >>] /\ UNCHANGED anim_units_count
  ELSE LET list == anim_list[u]
           from == Unless(Has(list, old), list, old)
       IN  /\ anim_list' = [anim_list EXCEPT ![u] = Unless(Has(list, new), from, new)]
           /\ anim_units_count' = anim_units_count + 1

\* get_unit_anim_offset, of a list: the way to the second tile gets shorter, and
\* at its end that tile is the first
Advanced(list) ==
  LET left == list[2].i - 1
      list2 == [list EXCEPT ![2].i = left]
      rest == Tail(list2)
  IN  IF (left + 2) \div 3 # 0 THEN list2 ELSE IF Len(rest) = 1 THEN << >> ELSE rest

Offset(s) ==
  IF Len(s.list) >= 2 THEN [s EXCEPT !.list = Advanced(@)]
  ELSE [s EXCEPT !.count = IF @ > Least THEN @ - 1 ELSE @]

\* A unit is drawn: its picture, its strength and its flag each ask how far it is.
FillUnitSpriteArray(u) ==
  LET two == Offset(Offset([list |-> anim_list[u], count |-> anim_units_count]))
      after == IF u \in Flagless THEN two ELSE Offset(two)
  IN  anim_list' = [anim_list EXCEPT ![u] = after.list] /\ anim_units_count' = after.count

\* reset_unit_anim_list, at the end of a turn
EndTurn ==
  /\ anim_list' = [u \in Units |-> << >>] /\ anim_units_count' = 0
  /\ UNCHANGED <<mirror, focusVars, center, active_city, moves>>

-----------------------------------------------------------------------------
\* What is drawn.

FirstOf(some, ok(_)) ==
  LET those == {i \in 1..Len(some) : ok(some[i])}
  IN  IF those = {} THEN None ELSE some[CHOOSE i \in those : \A j \in those : i <= j]

FocusUnitOnTile(t) == FirstOf(current_focus, LAMBDA u : at[u] = t)

\* find_visible_unit: the focus; a city hides the others; one that slides; one
\* that is not in a transport
FindVisibleUnit(t) ==
  LET here == OnTile(t)
      sliding == FirstOf(here, LAMBDA u : anim_list[u] # << >>)
      outside == FirstOf(here, LAMBDA u : u \notin transported)
  IN  IF here = << >> THEN None
      ELSE IF FocusUnitOnTile(t) # None THEN FocusUnitOnTile(t)
      ELSE IF t \in Towns THEN None
      ELSE IF sliding # None THEN sliding
      ELSE IF outside # None THEN outside ELSE Head(here)

\* A tile is drawn with get_drawable_unit, unless a city's dialog is open.
DrawTile(t) ==
  /\ ~active_city /\ FindVisibleUnit(t) # None
  /\ FillUnitSpriteArray(FindVisibleUnit(t))
  /\ UNCHANGED <<mirror, focusVars, center, active_city, moves>>

-----------------------------------------------------------------------------
\* The focus and its panel.

\* update_active_units_dialog: the others on the tile of a single unit
Panel(focus, all) ==
  [units |-> IF Len(focus) # 1 THEN focus
             ELSE focus \o Keep(all, {i \in DOMAIN all : /\ all[i] # focus[1]
                                                    /\ at[all[i]] = at[focus[1]]}),
   marked |-> ToSet(focus)]

\* auto_center_on_focus_unit: a city's dialog keeps the map where it is
AutoCenter(focus) == center' = IF active_city \/ focus = << >> THEN center ELSE at[focus[1]]

\* set_unit_focus_and_redraw; without a unit it throws, and what is shown stays
Redraw(focus, list) ==
  /\ current_focus' = focus /\ shared' = None
  /\ IF focus = << >> THEN UNCHANGED <<center, panel>>
     ELSE AutoCenter(focus) /\ panel' = Panel(focus, list)

\* a unit that is not mirrored any more clears the focus
SetUnitFocusAndRedraw(u) ==
  /\ Redraw(IF u \in Known THEN <<u>> ELSE << >>, order)
  /\ UNCHANGED <<mirror, anims, active_city, moves>>

\* A picture in the panel is clicked.
ClickPanel(u) == u \in ToSet(panel.units) /\ SetUnitFocusAndRedraw(u)

\* A tile with foreign units and no city is clicked: current_focus = sunits
ClickForeignTile(t) ==
  /\ t \notin Towns /\ OnTile(t) # << >> /\ Head(OnTile(t)) \in Foreign
  /\ current_focus' = OnTile(t) /\ shared' = t
  /\ panel' = Panel(OnTile(t), order)
  /\ UNCHANGED <<mirror, anims, center, active_city, moves>>

\* center_on_any_city, show_city_dialog
ToggleCity == active_city' = ~active_city /\ UNCHANGED <<mirror, anims, focusVars, center, moves>>

-----------------------------------------------------------------------------
\* Packets.

Without(u) == Keep(order, {i \in DOMAIN order : order[i] # u})
Behind(u) == Append(Without(u), u)

\* the focus that is a tile's list changes with it
FollowTile ==
  IF shared = None THEN current_focus ELSE UnitsAt(order', at', shared)

\* handle_unit_packet_common: the unit leaves its tile's list and is last in the
\* list of its new tile; no panel is drawn, for the handler's focus is empty
UnitInfo(u, t, aboard) ==
  /\ Asked /\ u \notin gone
  /\ at' = [at EXCEPT ![u] = t] /\ order' = Behind(u)
  /\ transported' = IF aboard THEN transported \cup {u} ELSE transported \ {u}
  /\ IF at[u] = None THEN anim_list' = [anim_list EXCEPT ![u] = << >>] /\ UNCHANGED anim_units_count
     ELSE UpdateUnitAnimList(u, at[u], t, aboard)
  /\ current_focus' = FollowTile
  /\ UNCHANGED <<gone, shared, panel, center, active_city>>

\* handle_unit_remove: the unit has left its tile's list when control_unit_killed
\* asks whether it is in focus.  If it is, the focus goes to any unit of the
\* player's, this one included; that throws, and the unit stays mirrored.
UnitRemove(u) ==
  /\ Asked /\ u \in Known \ gone
  /\ order' = Without(u) /\ gone' = gone \cup {u}
  /\ IF shared # None \/ u \notin ToSet(current_focus)
     THEN /\ at' = [at EXCEPT ![u] = None] /\ transported' = transported \ {u}
          /\ current_focus' = FollowTile /\ UNCHANGED <<shared, panel, center>>
     ELSE /\ \E focus \in {<< >>} \cup {<<v>> : v \in Known \ Foreign} : Redraw(focus, order')
          /\ UNCHANGED <<at, transported>>
  /\ UNCHANGED <<anims, active_city>>

-----------------------------------------------------------------------------
Init ==
  /\ at \in [Units -> {CHOOSE t \in Tiles : t \notin Towns}] /\ order = SetToSeq(Units)
  /\ transported = {} /\ gone = {} /\ anim_list = [u \in Units |-> << >>] /\ anim_units_count = 0
  /\ current_focus = << >> /\ shared = None /\ panel = [units |-> << >>, marked |-> {}]
  /\ center = None /\ active_city = FALSE /\ moves = 0

Next ==
  \/ \E u \in Units, t \in Tiles, aboard \in BOOLEAN : UnitInfo(u, t, aboard)
  \/ \E u \in Units : UnitRemove(u) \/ ClickPanel(u) \/ SetUnitFocusAndRedraw(u)
  \/ \E t \in Tiles : DrawTile(t) \/ ClickForeignTile(t)
  \/ ToggleCity \/ EndTurn

Spec == Init /\ [][Next]_vars

-----------------------------------------------------------------------------
TypeOK ==
  /\ at \in [Units -> Tiles \cup {None}] /\ ToSet(order) \subseteq Known /\ transported \subseteq Known
  /\ anim_units_count \in Least..(MaxAnims + 1)

\* A unit that slides has a tile it comes from and one it goes to, each leg of its
\* way is begun at its beginning, and no tile is on its way twice: it comes to rest.
SlidesEnd ==
  \A u \in Units :
    LET list == anim_list[u]
    IN  /\ Len(list) # 1
        /\ \A i, j \in 1..Len(list) : i # j => list[i].tile # list[j].tile
        /\ Len(list) >= 2 => list[2].i \in 1..Steps
        /\ \A i \in 3..Len(list) : list[i].i = Steps

\* Whichever way units came, moved, went or were clicked: the panel marks the unit
\* in focus, if there is one and the focus is not a tile's own list; a focus that is
\* a list is that list; and whoever is in focus is mirrored.
PanelMarks ==
  /\ shared = None /\ current_focus # << >> => panel.marked = ToSet(current_focus)
  /\ shared # None => current_focus = OnTile(shared) /\ shared \notin Towns
  /\ shared = None => Len(current_focus) <= 1
  /\ ToSet(current_focus) \subseteq Known

PicturesSound == TypeOK /\ SlidesEnd /\ PanelMarks
=============================================================================
