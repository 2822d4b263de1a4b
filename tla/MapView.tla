------------------------------ MODULE MapView ------------------------------
(***************************************************************************)
(* The map on the 2D canvas (renderer/mapviewCommon.ts, mapview.ts,        *)
(* mapctrl.ts): which part of the map is in view, which tiles are marked   *)
(* to be drawn again, what was drawn last, and where.                      *)
(*                                                                         *)
(* What is drawn of a tile is abstracted to its content: a city, the unit, *)
(* or its ground.  shown[t] is what the canvas shows of tile t, and base   *)
(* the origin that all of the canvas was drawn for, if there is one.       *)
(*                                                                         *)
(* Hypothesis: tile_units_func, which control.ts only declares and reads   *)
(* to find the unit of a tile (control.ts:1618), is tile_units of          *)
(* data/unit.ts.  Nothing binds it in the deployed page, where drawing a   *)
(* tile throws instead.                                                    *)
(***************************************************************************)
EXTENDS MapGeometry, FiniteSets

CONSTANTS
  Width, Height,   \* mapview.width and height; the store has the same size
  Threshold,       \* DIRTY_FULL_THRESHOLD
  Border, BigMap,  \* map_scroll_border, big_map_size
  Grounds,         \* kinds of terrain
  Sights,          \* tiles the player goes to see
  Roams,           \* tiles the player's unit may go to
  Changing,        \* tiles whose ground the server changes
  Towns,           \* tiles that may have a city
  Drags,           \* how far a finger moves: pairs of pixels
  MaxDrag,         \* bound: the origin stays this close to the map's
  NoOrigin         \* the canvas shows a slide, or parts of several views

VARIABLES
  ground,    \* what packets told of the terrain
  cities,    \* tiles with a city
  at,        \* the tile of the player's unit
  origin,    \* mapview.gui_x0 and gui_y0
  dirty,     \* dirty_tiles
  dirtyAll,  \* dirty_all
  count,     \* dirty_count, up to one more than Threshold
  sliding,   \* mapview_slide.active
  shown,     \* the canvas: what is drawn of each tile
  base,      \* the origin it was drawn for
  click      \* history: the tile the view was last centered on, or NoTile

mapVars == <<ground, cities, at>>
marks == <<dirty, dirtyAll, count>>
canvas == <<shown, base>>
vars == <<mapVars, origin, marks, sliding, canvas, click>>

Content(t) == IF t \in cities THEN "city" ELSE IF at = t THEN "unit" ELSE ground[t]

Blank == "none"

-----------------------------------------------------------------------------
(* Drawing.                                                                *)

\* gui_rect_iterate of update_map_canvas: the map positions, not yet looked up
\* in the array of tiles, whose tiles are drawn for a rectangle of the canvas.
\* A position is counted in quarters of a tile: s = 4 (map_x + 1), d = 4 map_y.
Quarters(g, size, tile) ==
  LET low(n) == n \div tile - (IF n < 0 /\ n % tile # 0 THEN 1 ELSE 0)
  IN  low(4 * g) - 1 .. low(4 * (g + size) + tile - 1) + 1

DrawnAt(o, x, y, w, h) ==
  LET qs == Quarters(o[1] + x, w + W \div 2, W)
      rs == Quarters(o[2] + y, h + H \div 2, H)
      flat == ~WrapX /\ ~WrapY
      tile(p) == /\ p[1] % 2 = 0 /\ p[2] % 2 = 0 /\ (p[1] + p[2]) % 4 = 0
                 /\ flat => p[1] + p[2] > 0 /\ p[1] + p[2] <= 4 * XSize
  IN  {<<(p[1] + p[2]) \div 4 - 1, (p[2] - p[1]) \div 4>> : p \in {p \in qs \X rs : tile(p)}}

\* where put_one_tile puts the tile of a map position
CanvasPos(o, p) == LET g == MapToGui(p[1], p[2]) IN <<g[1] - o[1], g[2] - o[2]>>

InView(o) ==
  {MapPosToTile(p[1], p[2]) : p \in DrawnAt(o, 0, 0, Width, Height)} \ {NoTile}

\* canvas_pos_to_tile
CanvasPosToTile(o, x, y) ==
  LET m == GuiToMap(x + o[1], y + o[2]) IN MapPosToTile(m[1], m[2])

\* update_map_canvas of the whole canvas
Repaint(o) ==
  [t \in Tiles |-> IF t \in InView(o) THEN Content(t) ELSE Blank]

\* Mutant: a tile that is only partly in view is skipped.
PatchWhole(o, t) ==
  LET c == CanvasPos(o, <<X(t), Y(t)>>)
  IN  IF c[1] < 0 \/ c[2] < 0 \/ c[1] + W > Width \/ c[2] + H > Height THEN {} ELSE {t}

\* the rectangle update_map_canvas_dirty draws around a marked tile
Patch(o, t) ==
  LET c == CanvasPos(o, <<X(t), Y(t)>>)
      x == c[1] - W
      y == c[2] - W
  IN  IF c[1] + W < 0 \/ c[2] + H < 0 \/ c[1] > Width \/ c[2] > Height THEN {}
      ELSE {MapPosToTile(p[1], p[2]) :
              p \in DrawnAt(o, Larger(0, x), Larger(0, y),
                            Smaller(3 * W, Width - x), Smaller(H + 2 * W, Height - y))}

Patched ==
  LET again == UNION {Patch(origin, t) : t \in dirty}
  IN  [t \in Tiles |-> IF t \in again THEN Content(t) ELSE shown[t]]

ClearDirty == dirty' = {} /\ dirtyAll' = FALSE /\ count' = 0

\* mark_tile_dirty, n times for the tiles of S: the same tile counts each time
MarkDirty(S, n) ==
  IF dirtyAll THEN UNCHANGED marks
  ELSE /\ dirty' = dirty \cup S
       /\ count' = Smaller(count + n, Threshold + 1)
       /\ dirtyAll' = (count' > Threshold)

\* update_map_canvas_full while nothing slides
FullRedraw == shown' = Repaint(origin) /\ base' = origin /\ ClearDirty

-----------------------------------------------------------------------------
(* Centering.                                                              *)

\* center_tile_mapcanvas_2d before the origin is normalized
CenterPos(t) ==
  LET g == MapToGui(X(t), Y(t)) IN <<g[1] - (Width - W) \div 2, g[2] - (Height - H) \div 2>>

\* set_mapview_origin and base_set_mapview_origin normalize, once each
SetMapviewOrigin(g) ==
  LET n == NormalizeGuiPos(g[1], g[2]) IN NormalizeGuiPos(n[1], n[2])

Center(t) == origin' = SetMapviewOrigin(CenterPos(t)) /\ click' = t

\* No slide across more than the view, and none while another one is active.
CanSlide(t) ==
  LET dx == CenterPos(t)[1] - origin[1]
      dy == CenterPos(t)[2] - origin[2]
  IN  /\ ~sliding
      /\ <<dx, dy>> # <<0, 0>> /\ Abs(dx) <= Width /\ Abs(dy) <= Height

\* recenter_button_pressed keeps the view within big maps
Kept(t) ==
  IF XSize > BigMap /\ YSize > BigMap
  THEN LET y == Smaller(Y(t), YSize - Border)
       IN  MapPosToTile(X(t), Larger(y, Border))
  ELSE t

-----------------------------------------------------------------------------
Init ==
  /\ ground = [t \in Tiles |-> CHOOSE k \in Grounds : TRUE]
  /\ cities = {} /\ at \in Roams
  /\ origin = <<0, 0>> /\ click = NoTile
  /\ dirty = {} /\ dirtyAll = TRUE /\ count = 0
  /\ sliding = FALSE
  /\ shown = [t \in Tiles |-> Blank] /\ base = NoOrigin

\* Packets.

TileInfo(t) ==
  /\ \E k \in Grounds : ground' = [ground EXCEPT ![t] = k]
  /\ MarkDirty({t}, 1)
  /\ UNCHANGED <<cities, at, origin, sliding, canvas, click>>

\* handle_city_info marks the tile twice, handle_city_short_info once
CityInfo(t, n) ==
  /\ cities' = cities \cup {t}
  /\ MarkDirty({t}, n)
  /\ UNCHANGED <<ground, at, origin, sliding, canvas, click>>

\* remove_city marks nothing
CityRemove(t) ==
  /\ t \in cities /\ cities' = cities \ {t}
  /\ UNCHANGED <<ground, at, origin, marks, sliding, canvas, click>>

\* A key moves the unit by a step; the server's UNIT_INFO tells its new tile.
UnitMove(dir) ==
  /\ MapStep(at, dir) \in Roams
  /\ at' = MapStep(at, dir)
  /\ IF at' = at THEN MarkDirty({at}, 1) ELSE MarkDirty({at, at'}, 2)
  /\ UNCHANGED <<ground, cities, origin, sliding, canvas, click>>

BeginTurn ==
  /\ dirtyAll' = TRUE
  /\ UNCHANGED <<mapVars, origin, dirty, count, sliding, canvas, click>>

\* update_map_canvas_check: a frame, or the end of a message of the server.

\* A frame of a slide shows a part of the buffer, the last one nothing.
SlideFrame ==
  /\ sliding
  /\ sliding' \in BOOLEAN
  /\ ClearDirty
  /\ UNCHANGED canvas

\* Tiles drawn for another origin than the rest tear the picture.
DirtyFrame ==
  /\ shown' = Patched
  /\ base' = IF base = origin THEN origin ELSE NoOrigin
  /\ ClearDirty

Frame ==
  /\ \/ dirtyAll \/ count > 0
  /\ \/ SlideFrame
     \/ ~sliding /\ dirtyAll /\ FullRedraw /\ UNCHANGED sliding
     \/ ~sliding /\ ~dirtyAll /\ DirtyFrame /\ UNCHANGED sliding
  /\ UNCHANGED <<mapVars, origin, click>>

\* Nothing is marked: only the time of the last redraw changes.
IdleFrame ==
  /\ ~dirtyAll /\ count = 0
  /\ UNCHANGED vars

WindowResized ==
  /\ \/ SlideFrame
     \/ ~sliding /\ FullRedraw /\ UNCHANGED sliding
  /\ UNCHANGED <<mapVars, origin, click>>

\* The player.

\* recenter_button_pressed: an own unit gets its menu instead
Recenter(t) ==
  /\ t \in InView(origin) /\ t # at /\ Kept(t) # NoTile
  /\ IF CanSlide(Kept(t))
     THEN sliding' = TRUE /\ base' = NoOrigin /\ UNCHANGED <<shown, marks>>
     ELSE sliding' = FALSE /\ FullRedraw
  /\ Center(Kept(t))
  /\ UNCHANGED mapVars

\* center_tile_mapcanvas: a message, a unit in focus, the overview map
CenterTile(t) ==
  /\ Center(t)
  /\ UNCHANGED <<mapVars, marks, sliding, canvas>>

\* mapview_touch_move: the map follows the finger, the origin is not normalized
TouchMove(d) ==
  /\ origin' = <<origin[1] + 2 * d[1], origin[2] + 2 * d[2]>>
  /\ Abs(origin'[1]) <= MaxDrag /\ Abs(origin'[2]) <= MaxDrag
  /\ click' = NoTile
  /\ UNCHANGED <<mapVars, marks, sliding, canvas>>

Next ==
  \/ \E t \in Changing : TileInfo(t)
  \/ \E t \in Towns : CityRemove(t) \/ \E n \in 1..2 : CityInfo(t, n)
  \/ \E dir \in Dirs : UnitMove(dir)
  \/ BeginTurn \/ Frame \/ IdleFrame \/ WindowResized
  \/ \E t \in Sights : Recenter(t) \/ CenterTile(t)
  \/ \E d \in Drags : TouchMove(d)

Spec == Init /\ [][Next]_vars

-----------------------------------------------------------------------------
Contents == Grounds \cup {"city", "unit"}

TypeOK ==
  /\ ground \in [Tiles -> Grounds] /\ cities \subseteq Towns /\ at \in Tiles
  /\ origin \in Int \X Int /\ click \in Tiles \cup {NoTile}
  /\ dirty \subseteq Tiles /\ dirtyAll \in BOOLEAN /\ count \in 0..Threshold + 1
  /\ sliding \in BOOLEAN
  /\ shown \in [Tiles -> Contents \cup {Blank}]

\* The tiles of which a part is on the canvas.
OnCanvas(o) ==
  {t \in Tiles : LET c == CanvasPos(o, <<X(t), Y(t)>>)
                 IN  -W < c[1] /\ c[1] < Width /\ -H < c[2] /\ c[2] < Height}

\* While all of the canvas was drawn for the present origin, a tile on it that
\* looks different by now is marked: no change that comes in a packet is
\* forgotten.  There are two exceptions: remove_city marks nothing, and a tile
\* that is seen over the seam of a map that wraps is drawn again elsewhere.
InPlaceFresh ==
  base = origin =>
    \A t \in OnCanvas(origin) :
      \/ shown[t] \in {Content(t), "city"}
      \/ dirtyAll \/ t \in dirty

\* A tap picks the tile that is drawn under the finger, wherever the view is,
\* and every pixel that belongs to a tile of the map has been drawn.
TapPicksWhatIsDrawn ==
  /\ \A p \in DrawnAt(origin, 0, 0, Width, Height) :
       LET c == CanvasPos(origin, p)
       IN  CanvasPosToTile(origin, c[1] + W \div 2, c[2] + H \div 2) = MapPosToTile(p[1], p[2])
  /\ \A x \in 0..Width - 1, y \in 0..Height - 1 :
       LET m == GuiToMap(x + origin[1], y + origin[2])
       IN  m \in (0..XSize - 1) \X (0..YSize - 1) => CanvasPosToTile(origin, x, y) \in InView(origin)

\* "Centers the mapview around (map_x, map_y)" (mapviewCommon.ts:117): the tile
\* the view was centered on is in its middle.  On maps that wrap,
\* normalize_gui_pos may move the view elsewhere.
CenteredInMiddle ==
  (click # NoTile /\ ~WrapX /\ ~WrapY) => CanvasPosToTile(origin, Width \div 2, Height \div 2) = click

\* The view is sound: what it shows is fresh, a tap picks what is shown, and
\* centering centers.
ViewSound == TypeOK /\ InPlaceFresh /\ TapPicksWhatIsDrawn /\ CenteredInMiddle
=============================================================================
