------------------------------ MODULE CityTiles ------------------------------
(***************************************************************************)
(* How a city numbers the tiles around it, and how long it builds          *)
(* (data/city.ts).  The tiles within the radius are numbered by distance;  *)
(* near an edge the numbers skip what is not on the map.  The tables are   *)
(* kept in city_tile_map, one for each way to be near an edge, and thrown  *)
(* away when a city with a larger radius asks.                             *)
(***************************************************************************)
EXTENDS MapGeometry, FiniteSets

CONSTANTS
  Radii,   \* squared radii of cities
  Sites,   \* bound: tiles of cities
  Most     \* bound: numbers a production is computed with

VARIABLES
  wraps,   \* wrap_id: edges of the map that are joined
  sq,      \* city_tile_map.radius_sq; 0: no table yet
  maps     \* city_tile_map.maps: [clipped index -> [offset -> number]]

vars == <<wraps, sq, maps>>

\* the radius of the tables: floor(sqrt(sq))
Root(n) == CHOOSE r \in 0..n : r * r <= n /\ (r + 1) * (r + 1) > n

\* map_vector_to_sq_distance, then the column, then the row
Before(v, u) ==
  LET d == MapVectorToSqDistance(v[1], v[2])
      e == MapVectorToSqDistance(u[1], u[2])
  IN  \/ d < e
      \/ d = e /\ v[1] < u[1]
      \/ d = e /\ v[1] = u[1] /\ v[2] < u[2]

\* base_sorted: what lies within the radius
Vectors(radius) ==
  LET r == Root(radius)
  IN  {v \in (-r..r) \X (-r..r) : MapVectorToSqDistance(v[1], v[2]) <= radius}

\* buildCityTileMapWithLimits: the number of a tile is how many on the map
\* come before it
WithLimits(radius, dx, dy) ==
  LET on == {v \in Vectors(radius) : v[1] \in dx[1]..dx[2] /\ v[2] \in dy[1]..dy[2]}
  IN  [v \in on |-> Cardinality({u \in on : Before(u, v)})]

\* deltaTileHelper: <<delta_min, delta_max, clipped_index>>
DeltaTileHelper(pos, r, size) ==
  LET min == -pos
      max == size - 1 - pos
  IN  <<min, max, IF min > -r THEN r + min ELSE IF max < r THEN 2 * r - max ELSE 0>>

\* where a joined edge does not clip
Limits(edge, pos, r, size) ==
  IF edge \in wraps THEN <<-r, r, 0>> ELSE DeltaTileHelper(pos, r, size)

DX3(t, r) == Limits("x", X(t), r, XSize)
DY3(t, r) == Limits("y", Y(t), r, YSize)

\* the index of the table for a city on t
MapIndex(t, r) == (2 * r + 1) * DX3(t, r)[3] + DY3(t, r)[3]

TableFor(t, radius) == WithLimits(radius, DX3(t, Root(radius)), DY3(t, Root(radius)))

\* buildCityTileMap: index 0 holds the table of a city away from all edges
BuildCityTileMap(radius) ==
  IF radius <= sq THEN <<sq, maps>>
  ELSE LET r == Root(radius)
       IN  <<radius, [i \in {0} |-> WithLimits(radius, <<-r, r>>, <<-r, r>>)]>>

\* getCityTileMapForPos, for a city on t
GetCityTileMapForPos(t, radius) ==
  LET built == BuildCityTileMap(radius)
      r == Root(built[1])
      i == MapIndex(t, r)
  IN  IF i \in DOMAIN built[2] THEN built
      ELSE <<built[1], [j \in DOMAIN built[2] \cup {i} |->
                          IF j = i THEN TableFor(t, built[1]) ELSE built[2][j]]>>

Ask(t, radius) ==
  LET new == GetCityTileMapForPos(t, radius)
  IN  sq' = new[1] /\ maps' = new[2] /\ UNCHANGED wraps

Init == wraps \in SUBSET {"x", "y"} /\ sq = 0 /\ maps = [i \in {} |-> 0]

Next == \E t \in Sites, radius \in Radii : Ask(t, radius)

Spec == Init /\ [][Next]_vars

-----------------------------------------------------------------------------
(* Production.                                                             *)

Never == 1000000000   \* FC_INFINITY

CityTurnsToBuild(stock, surplus, cost) ==
  IF stock >= cost THEN 1
  ELSE IF surplus > 0 THEN (cost - stock - 1) \div surplus + 1
  ELSE Never

-----------------------------------------------------------------------------
(* Properties.                                                             *)

\* A table that is found is the one the city would have made: the index tells
\* apart all places with different edges near by (getCityTileMapForPos).
TablesFit ==
  sq # 0 => \A t \in Tiles : LET i == MapIndex(t, Root(sq))
                             IN  i \in DOMAIN maps => maps[i] = TableFor(t, sq)

\* The number of a tile is the same whatever larger radius the tables are
\* made for (buildCityTileMap keeps the largest one for all cities).
NumbersStay ==
  sq # 0 => \A t \in Tiles, radius \in Radii :
    (radius <= sq /\ MapIndex(t, Root(sq)) \in DOMAIN maps) =>
      LET small == TableFor(t, radius)
      IN  \A v \in DOMAIN small : small[v] = maps[MapIndex(t, Root(sq))][v]

\* What is announced is the first turn the cost is reached (cityTurnsToBuild).
TurnsAreFirst ==
  \A stock \in 0..Most, surplus \in -1..Most, cost \in 1..Most :
    LET done(n) == stock + n * surplus >= cost
        n == CityTurnsToBuild(stock, surplus, cost)
    IN  IF n = Never THEN surplus <= 0 /\ stock < cost
        ELSE IF stock >= cost THEN n = 1 ELSE done(n) /\ ~done(n - 1)

TilesSound ==
  /\ sq \in Radii \cup {0} /\ wraps \subseteq {"x", "y"}
  /\ TablesFit /\ NumbersStay /\ TurnsAreFirst
=============================================================================
