------------------------------ MODULE Overview ------------------------------
(***************************************************************************)
(* The overview map (core/overview.ts): when it is drawn again.  A timer   *)
(* asks every few seconds; a hash, the sum of the colours of all tiles and *)
(* of the map position at the view's corner, tells whether anything has    *)
(* changed.                                                                *)
(***************************************************************************)
EXTENDS MapGeometry, FiniteSets

CONSTANTS
  Terrains,    \* colour of each kind of terrain behind palette_terrain_offset
  Owners,      \* players: their colours come after those of the terrains
  Me,          \* client.conn.playing
  Changing,    \* tiles that change
  Faces,       \* what a packet makes of them
  Sites,       \* origins of the view
  MinWidth,    \* min_overview_width
  NoOne        \* a tile without an owner, a city or a unit

VARIABLES
  tile,      \* the mirrored tiles: terrain, owner, and owners of city and unit
  corner,    \* mapview.gui_x0 and gui_y0
  sliding,   \* mapview_slide.active
  drawn      \* what is on the screen: the grid, its hash and the view rectangle

vars == <<tile, corner, sliding, drawn>>

TileRec == [known: BOOLEAN, terrain: Terrains, owner: Owners \cup {NoOne},
            city: Owners \cup {NoOne}, unit: Owners \cup {NoOne}]

\* init_overview: the first size at which the map is wide enough
OverviewTileSize == CHOOSE s \in 1..Larger(1, MinWidth) :
                      /\ s * XSize >= MinWidth
                      /\ \A r \in 1..s - 1 : r * XSize < MinWidth

\* generate_palette: eight fixed colours, the terrains, the players
TerrainColor(k) == 8 + k
PlayerColor(p) == 8 + Cardinality(Terrains) + p

\* overview_tile_color
TileColor(t) ==
  LET p == tile[t]
  IN  IF p.city # NoOne THEN IF p.city = Me THEN 1 ELSE 3
      ELSE IF p.unit # NoOne THEN IF p.unit = Me THEN 4 ELSE PlayerColor(p.unit)
      ELSE IF ~p.known THEN 0
      ELSE IF p.owner # NoOne THEN PlayerColor(p.owner) ELSE TerrainColor(p.terrain)

\* generate_overview_grid and render_multipixel: without an odd last column or
\* row.  A pixel stands for OverviewTileSize tiles' worth of the picture.
Cols == XSize - (XSize % 2)
Rows == YSize - (YSize % 2)
Grid == [t \in {t \in Tiles : X(t) < Cols /\ Y(t) < Rows} |-> TileColor(t)]

CornerOf(c) == LET m == GuiToMap(c[1], c[2]) IN m[1] + m[2]

\* the colours of all tiles, added up
Total(colors) ==
  LET Upto[n \in 0..XSize * YSize] == IF n = 0 THEN 0 ELSE Upto[n - 1] + colors[n - 1]
  IN  Upto[XSize * YSize]

\* generate_overview_hash, for a corner of the view
Hash(c) == Total([t \in Tiles |-> TileColor(t)]) + CornerOf(c)

\* render_viewrect gives up when one coordinate is 0: the other renderer's
\* look-up of a tile finds nothing
ViewRect(c) == IF c[1] # 0 /\ c[2] # 0 THEN c ELSE drawn.rect

\* redraw_overview
Redraw(c) ==
  IF sliding \/ Hash(c) = drawn.hash THEN UNCHANGED drawn
  ELSE drawn' = [grid |-> Grid, hash |-> Hash(c), rect |-> ViewRect(c)]

-----------------------------------------------------------------------------
Plain == [known |-> TRUE, terrain |-> CHOOSE k \in Terrains : TRUE, owner |-> NoOne,
          city |-> NoOne, unit |-> NoOne]

Init ==
  /\ tile = [t \in Tiles |-> Plain]
  /\ corner \in Sites /\ sliding = FALSE
  /\ drawn = [grid |-> <<>>, hash |-> -1, rect |-> corner]

\* A packet changes one tile.
TileChanges(t) ==
  /\ \E r \in Faces : tile' = [tile EXCEPT ![t] = r]
  /\ UNCHANGED <<corner, sliding, drawn>>

\* A unit goes from one tile to the next.
UnitMoves(s, t) ==
  /\ tile[s].unit # NoOne /\ tile[t].unit = NoOne
  /\ tile' = [tile EXCEPT ![s].unit = NoOne, ![t].unit = tile[s].unit]
  /\ UNCHANGED <<corner, sliding, drawn>>

ViewMoves ==
  /\ corner' \in Sites /\ sliding' \in BOOLEAN
  /\ UNCHANGED <<tile, drawn>>

\* overview_clicked centers the view and draws at once
Clicked ==
  \E c \in Sites : corner' = c /\ Redraw(c) /\ UNCHANGED <<tile, sliding>>

Timer == Redraw(corner) /\ UNCHANGED <<tile, corner, sliding>>

Next ==
  \/ \E t \in Changing : TileChanges(t) \/ \E s \in Changing : UnitMoves(s, t)
  \/ ViewMoves \/ Clicked \/ Timer

Spec == Init /\ [][Next]_vars

-----------------------------------------------------------------------------
TypeOK ==
  /\ tile \in [Tiles -> TileRec] /\ corner \in Sites /\ sliding \in BOOLEAN
  /\ \A t \in DOMAIN drawn.grid : t \in Tiles /\ drawn.grid[t] \in Nat
  /\ drawn.hash \in Int /\ drawn.rect \in Sites
  /\ OverviewTileSize * XSize >= MinWidth

\* The sum of the colours that are on the screen and the corner they were drawn
\* for make the hash: what is drawn and its hash never drift apart.  (The hash
\* also sums an odd last row and column, which the grid leaves out.)
HashIsOfDrawn ==
  (drawn.hash # -1 /\ Cols = XSize /\ Rows = YSize) =>
    \E c \in Sites : drawn.hash = Total(drawn.grid) + CornerOf(c)

\* Colours tell tiles apart: a city from a unit, one's own from another's, an
\* owner from a terrain (core/overview.ts lays the palette out in three parts,
\* with the owner's number as the index of the last).
ColorsTellApart ==
  LET kind(t) == LET p == tile[t]
                 IN  CASE p.city # NoOne -> <<"city", p.city = Me>>
                       [] p.city = NoOne /\ p.unit = Me -> <<"mine">>
                       [] p.city = NoOne /\ p.unit = NoOne /\ ~p.known -> <<"unknown">>
                       [] p.city = NoOne /\ p.unit = NoOne /\ p.known /\ p.owner = NoOne -> <<"terrain", p.terrain>>
                       [] OTHER -> <<"theirs">>
  IN  \A s, t \in Tiles : kind(s) # kind(t) => TileColor(s) # TileColor(t)

\* The overview is sound: its picture and hash belong together, and its colours
\* tell what is drawn.
OverviewSound == TypeOK /\ HashIsOfDrawn /\ ColorsTellApart
=============================================================================
