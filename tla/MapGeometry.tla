---------------------------- MODULE MapGeometry ----------------------------
(***************************************************************************)
(* Where tiles are: map coordinates, steps, distances and native           *)
(* coordinates (data/map.ts), the pixels of the isometric view             *)
(* (renderer/mapviewCommon.ts), and the backend's own version of a step    *)
(* (_compute_dest_tile in game_client.py).                                 *)
(*                                                                         *)
(* A tile is its number; NoTile stands for undefined, what a look-up       *)
(* outside of the array returns.                                           *)
(***************************************************************************)
EXTENDS Integers

CONSTANTS
  XSize, YSize,            \* map.xsize, map.ysize
  WrapX, WrapY, Iso, Hex,  \* flags of wrap_id and topology_id
  W, H,                    \* tileset_tile_width, tileset_tile_height
  NoTile

ASSUME MapGeometryAssumption ==
  /\ XSize \in Nat \ {0} /\ YSize \in Nat \ {0}
  /\ {WrapX, WrapY, Iso, Hex} \subseteq BOOLEAN
  /\ W \in Nat \ {0} /\ H \in Nat \ {0}
  /\ NoTile \notin Int

\* map_allocate
Tiles == 0..XSize * YSize - 1
X(t) == t % XSize
Y(t) == t \div XSize

Abs(n) == IF n < 0 THEN -n ELSE n
Larger(m, n) == IF m < n THEN n ELSE m
Smaller(m, n) == IF m < n THEN m ELSE n

\* FC_WRAP: % of JavaScript has the sign of its left operand
FcWrap(value, range) == value % range

-----------------------------------------------------------------------------
(* Directions.                                                             *)

Dirs == 0..7   \* NW, N, NE, W, E, SW, S, SE
DirDX == <<-1, 0, 1, -1, 1, -1, 0, 1>>
DirDY == <<-1, -1, -1, 0, 0, 1, 1, 1>>
DX(dir) == DirDX[dir + 1]
DY(dir) == DirDY[dir + 1]

IsValidDir(dir) ==
  /\ dir \in {0, 7} => ~(Hex /\ ~Iso)
  /\ dir \in {2, 5} => ~(Hex /\ Iso)

IsCardinalDir(dir) ==
  \/ dir \in {1, 3, 4, 6}
  \/ dir \in {0, 7} /\ Hex /\ Iso
  \/ dir \in {2, 5} /\ Hex /\ ~Iso

\* map_init_topology
ValidDirs == {dir \in Dirs : IsValidDir(dir)}
CardinalDirs == {dir \in Dirs : IsCardinalDir(dir)}

DirCW(dir) == (dir + 1) % 8
DirCCW(dir) == (dir + 7) % 8

\* The number map_pos_to_tile looks up: a column beyond an edge is found in the
\* row before or after, whatever the map's wrap flags are.
PosIndex(x, y) ==
  x + (IF x >= XSize THEN y - 1 ELSE IF x < 0 THEN y + 1 ELSE y) * XSize

MapPosToTile(x, y) == IF PosIndex(x, y) \in Tiles THEN PosIndex(x, y) ELSE NoTile

MapStep(t, dir) ==
  IF IsValidDir(dir) THEN MapPosToTile(X(t) + DX(dir), Y(t) + DY(dir)) ELSE NoTile

\* the first direction that leads there; -1 if none does
GetDirectionForStep(start, end) ==
  IF \E dir \in Dirs : MapStep(start, dir) = end
  THEN CHOOSE dir \in Dirs : /\ MapStep(start, dir) = end
                             /\ \A d \in 0..dir - 1 : MapStep(start, d) # end
  ELSE -1

-----------------------------------------------------------------------------
(* Distances.                                                              *)

Short(d, size, wraps) ==
  IF wraps THEN FcWrap(d + size \div 2, size) - size \div 2 ELSE d

MapDistanceVector(s, t) ==
  <<Short(X(t) - X(s), XSize, WrapX), Short(Y(t) - Y(s), YSize, WrapY)>>

MapVectorToDistance(dx, dy) ==
  LET opposite == (dx < 0 /\ dy > 0) \/ (dx > 0 /\ dy < 0)
      same == (dx > 0 /\ dy > 0) \/ (dx < 0 /\ dy < 0)
  IN  IF Hex /\ (IF Iso THEN opposite ELSE same)
      THEN Abs(dx) + Abs(dy) ELSE Larger(Abs(dx), Abs(dy))

MapVectorToSqDistance(dx, dy) ==
  IF Hex THEN MapVectorToDistance(dx, dy) * MapVectorToDistance(dx, dy)
  ELSE dx * dx + dy * dy

-----------------------------------------------------------------------------
(* Native and natural coordinates of isometric maps.                       *)

NativeToMapPos(nx, ny) ==
  LET mx == ((ny + (ny % 2)) \div 2) + nx IN <<mx, ny - mx + XSize>>

MapToNativePos(mx, my) ==
  LET ny == mx + my - XSize IN <<(2 * mx - ny - (ny % 2)) \div 2, ny>>

NaturalToMapPos(nx, ny) ==
  LET mx == (ny + nx) \div 2 IN <<mx, ny - mx + XSize>>

MapToNaturalPos(mx, my) ==
  LET ny == mx + my - XSize IN <<2 * mx - ny, ny>>

-----------------------------------------------------------------------------
(* The isometric view.                                                     *)

\* map_to_gui_vector, map_to_gui_pos
MapToGui(mx, my) == <<((mx - my) * W) \div 2, ((mx + my) * H) \div 2>>

\* gui_to_map_pos
GuiToMap(gx, gy) ==
  LET x == gx - W \div 2
  IN  <<(x * H + gy * W) \div (W * H), (gy * W - x * H) \div (W * H)>>

\* normalize_gui_pos: wraps native coordinates, keeps the offset in the tile
NormalizeGuiPos(gx, gy) ==
  LET m == GuiToMap(gx, gy)
      g == MapToGui(m[1], m[2])
      n == MapToNativePos(m[1], m[2])
      u == NativeToMapPos(IF WrapX THEN FcWrap(n[1], XSize) ELSE n[1],
                          IF WrapY THEN FcWrap(n[2], YSize) ELSE n[2])
      v == MapToGui(u[1], u[2])
  IN  <<v[1] + gx - g[1], v[2] + gy - g[2]>>

-----------------------------------------------------------------------------
(* _compute_dest_tile: "Replicate JS mapstep()".  Its WRAP_X is the bit of *)
(* topology_id that the web client calls TF_ISO.                           *)

ComputeDestTile(t, dir) ==
  LET x == X(t) + DX(dir)
      y == Y(t) + DY(dir)
      row == IF ~Iso THEN y
             ELSE IF x >= XSize THEN y - 1 ELSE IF x < 0 THEN y + 1 ELSE y
  IN  IF (~Iso /\ x \notin 0..XSize - 1) \/ row \notin 0..YSize - 1
      THEN t ELSE (x % XSize) + row * XSize

-----------------------------------------------------------------------------
(* Properties of every topology.                                           *)

\* steps that stay on the map
Inside(t, dir) == X(t) + DX(dir) \in 0..XSize - 1 /\ MapStep(t, dir) # NoTile

\* Inside the map both halves of the program lead to the same tile ("Replicate JS
\* mapstep()"); over an edge they part.  The direction of a step and its vector
\* are found again from the two tiles.
StepsAgree ==
  \A t \in Tiles, dir \in ValidDirs :
    Inside(t, dir) => LET end == MapStep(t, dir)
                      IN  /\ ComputeDestTile(t, dir) = end
                          /\ GetDirectionForStep(t, end) = dir
                          /\ MapDistanceVector(t, end) = <<DX(dir), DY(dir)>>

\* The vector from tile to tile is a shortest one: around a map that wraps there
\* is no shorter way (map_distance_vector).
VectorsShort ==
  \A s, t \in Tiles, k \in -1..1 :
    LET v == MapDistanceVector(s, t)
    IN  /\ WrapX => Abs(v[1]) <= Abs(X(t) - X(s) + k * XSize)
        /\ WrapY => Abs(v[2]) <= Abs(Y(t) - Y(s) + k * YSize)

\* The directions that count as cardinal are those of the steps of distance one,
\* on squares and on hexagons (is_cardinal_dir, map_vector_to_sq_distance).
CardinalsNear ==
  CardinalDirs = {dir \in ValidDirs : MapVectorToSqDistance(DX(dir), DY(dir)) = 1}

\* Native and natural coordinates name the positions one to one.
NamesInverse ==
  \A m \in 0..XSize - 1, n \in 0..YSize - 1 :
    LET native == NativeToMapPos(m, n)
        natural == MapToNaturalPos(m, n)
    IN  /\ MapToNativePos(native[1], native[2]) = <<m, n>>
        /\ NaturalToMapPos(natural[1], natural[2]) = <<m, n>>

GeometrySound == StepsAgree /\ VectorsShort /\ CardinalsNear /\ NamesInverse
=============================================================================
