------------------------------- MODULE Sprites -------------------------------
(***************************************************************************)
(* Which pictures the map's tiles are made of (renderer/tilespec.ts): the  *)
(* sprites of each layer from the tile, its neighbours, its city and its   *)
(* unit, and the two animations that go on one step whenever the tile is   *)
(* drawn.                                                                  *)
(*                                                                         *)
(* A sprite is <<kind, detail>>.  Offsets and images are left out.         *)
(* tilespec.ts has an own numbering of directions, clockwise from north,   *)
(* and hands its numbers to mapstep of data/map.ts, which counts by rows   *)
(* from the north-west.                                                    *)
(***************************************************************************)
EXTENDS MapGeometry, Sequences, FiniteSets

CONSTANTS
  Changing,    \* bound: tiles packets describe anew
  Faces,       \* bound: what they may look like
  BoomSteps, NukeSteps,  \* 25 and 60: drawings an animation lasts
  NoOne,
  Tileset      \* tags the tileset has

VARIABLES
  face,   \* tiles
  boom,   \* explosion_anim_map
  nuke,   \* nuke of tiles
  seen    \* the animation's sprites of the last drawing

vars == <<face, boom, nuke, seen>>

\* Tiles as far as their picture depends on it.
FaceRec == [terrain: {"coast", "floor", "hills", "plains", "lake"}, known: 0..2,
            extras: SUBSET {"river", "road", "mine", "well", "hut", "pollution", "fallout",
                            "fortress", "airbase", "buoy", "ruins"},
            owner: {0, 1, NoOne}]

Has(t, e) == e \in face[t].extras
Unknown(t) == face[t].known = 0

-----------------------------------------------------------------------------
(* Names of pictures.                                                      *)

\* The preferred name if the tileset has it, else the other, else none:
\* tileset_ruleset_entity_tag_str_or_alt and the same for units, for
\* activities (three names) and for removing extras.
NoTag == "none"
FirstTag(names) ==
  LET there == {i \in DOMAIN names : names[i] \in Tileset}
  IN  IF there = {} THEN NoTag ELSE names[CHOOSE i \in there : \A j \in there : i <= j]

-----------------------------------------------------------------------------
(* Terrain.                                                                *)

\* tile_types_setup: sprite_type, match_style, match_index and dither
Style(cell, match, index, dither) ==
  [cell |-> cell, match |-> match, index |-> index, dither |-> dither]
NoStyle == Style("none", "none", <<-1>>, FALSE)

TileTypesSetup(layer, terrain) ==
  CASE layer = 0 /\ terrain = "lake"   -> Style("corner", "pair", <<0, 2>>, FALSE)
    [] layer = 0 /\ terrain = "coast"  -> Style("corner", "full", <<0, 1, 2>>, FALSE)
    [] layer = 0 /\ terrain = "floor"  -> Style("corner", "full", <<1, 0, 2>>, FALSE)
    [] layer = 1 /\ terrain \in {"coast", "floor"} -> Style("corner", "pair", <<3, 4>>, FALSE)
    [] layer = 0 /\ terrain \in {"hills", "plains"} -> Style("whole", "none", <<2>>, TRUE)
    [] layer = 1 /\ terrain = "hills"  -> Style("whole", "same", <<1, 1>>, FALSE)
    [] OTHER -> NoStyle

\* tileTerrainNear: what is unknown or beyond the edge looks like the tile
Near(t, dir) ==
  LET u == MapStep(t, dir)
  IN  IF u = NoTile THEN face[t].terrain
      ELSE IF Unknown(u) THEN face[t].terrain ELSE face[u].terrain

\* DIR4_TO_DIR8 and cardinal_tileset_dirs, in the numbers of tilespec.ts
Dir4ToDir8 == <<0, 4, 2, 6>>
CardinalTilesetDirs == <<0, 2, 4, 6>>

\* sprites at the four edges, mixed with the neighbour's terrain
Dithered(l, t) ==
  [i \in 1..4 |->
     LET near == Near(t, Dir4ToDir8[i])
     IN  <<"dither", <<i, face[t].terrain,
            IF TileTypesSetup(l, near).dither THEN near ELSE face[t].terrain>>>>]

\* the first four neighbours in the numbers of data/map.ts
MatchSame(l, t) ==
  <<<<"terrain", <<l, face[t].terrain, {i \in 0..3 : Near(t, i) = face[t].terrain}>>>>>>

\* The place of a terrain's match in the list; the last one if there is none.
MatchPlace(indexes, value) ==
  IF \E k \in DOMAIN indexes : indexes[k] = value
  THEN (CHOOSE k \in DOMAIN indexes : indexes[k] = value /\ \A j \in 1..k - 1 : indexes[j] # value) - 1
  ELSE Len(indexes) - 1

\* the number of a corner's picture: matches m of the three tiles around
\* corner i
CornerIndex(style, m, i) ==
  LET n(j) == MatchPlace(style.index, m[j])
      count == Len(style.index)
  IN  ((n(3) * count + n(2)) * count + n(1)) * 4 + i

Corners(l, t) ==
  LET style == TileTypesSetup(l, face[t].terrain)
      match(dir) == TileTypesSetup(l, Near(t, dir)).index[1]
      around(i) == LET dir == DirCCW(Dir4ToDir8[i + 1])
                   IN  <<match(DirCCW(dir)), match(dir), match(DirCW(dir))>>
  IN  [i \in 1..4 |-> <<"corner", <<face[t].terrain, CornerIndex(style, around(i - 1), i - 1)>>>>]

\* fill_terrain_sprite_array
TerrainSprites(l, t) ==
  LET style == TileTypesSetup(l, face[t].terrain)
  IN  IF style.cell = "whole" /\ style.match = "same" THEN MatchSame(l, t)
      ELSE IF style.cell = "whole" /\ style.dither THEN Dithered(l, t)
      ELSE IF style.cell = "whole" THEN <<<<"terrain", <<l, face[t].terrain, {}>>>>>>
      ELSE IF style.match = "full" THEN Corners(l, t)
      ELSE <<>>   \* "pair" is not done; no entry: nothing to draw

-----------------------------------------------------------------------------
(* Rivers, borders, what was built.                                        *)

Ocean(t) == face[t].terrain \in {"floor", "coast"}
One(kind, there) == IF there THEN <<<<kind, "">>>> ELSE <<>>

\* get_tile_river_sprite: branches to rivers and to the sea; a coast has the
\* first mouth only
RiverSprite(t) ==
  LET next(i) == MapStep(t, CardinalTilesetDirs[i])
      wet == {i \in 1..4 : next(i) # NoTile /\ (Has(next(i), "river") \/ Ocean(next(i)))}
      mouths == {i \in 1..4 : next(i) # NoTile /\ Has(next(i), "river")}
  IN  IF Has(t, "river") THEN <<<<"river", wet>>>>
      ELSE IF face[t].terrain = "coast" /\ mouths # {}
      THEN <<<<"mouth", CHOOSE i \in mouths : \A j \in mouths : i <= j>>>> ELSE <<>>

\* get_border_line_sprites
BorderSprites(t) ==
  LET next(i) == MapStep(t, CardinalTilesetDirs[i])
      foreign == {i \in 1..4 : /\ next(i) # NoTile
                               /\ face[t].owner # NoOne /\ face[next(i)].owner # face[t].owner}
  IN  IF foreign = {} THEN <<>> ELSE <<<<"border", foreign>>>>

\* fill_path_sprite_array finds out which ways connect and draws nothing.
PathSprites(t) == <<>>

\* fill_layer1 to 3: a city hides fortresses, bases, buoys and ruins
Layer1Sprites(t, city) == One("fortress_bg", ~city /\ Has(t, "fortress"))
Layer2Sprites(t, city) ==
  One("airbase", ~city /\ Has(t, "airbase"))
    \o One("flag", ~city /\ Has(t, "buoy")) \o One("buoy", ~city /\ Has(t, "buoy"))
    \o One("ruins", ~city /\ Has(t, "ruins"))
Layer3Sprites(t, city) == One("fortress_fg", ~city /\ Has(t, "fortress"))

Special1Sprites(t, city) ==
  RiverSprite(t) \o One("mine", Has(t, "mine")) \o One("well", Has(t, "well"))
    \o Layer1Sprites(t, city) \o One("hut", Has(t, "hut"))
    \o One("pollution", Has(t, "pollution")) \o One("fallout", Has(t, "fallout"))
    \o BorderSprites(t)

-----------------------------------------------------------------------------
(* Cities and units.                                                       *)

\* get_city_sprite: five sizes
CitySize(size) ==
  IF size \in 4..7 THEN 1 ELSE IF size \in 8..11 THEN 2
  ELSE IF size \in 12..15 THEN 3 ELSE IF size >= 16 THEN 4 ELSE 0

\* get_city_occupied_sprite: of others' cities only that there is somebody
CityOccupied(mine, occupied, units) ==
  IF ~mine /\ occupied THEN "occupied" ELSE Smaller(units, 3)

CitySprites(city) ==
  IF city.size = 0 THEN <<>>
  ELSE <<<<"city", <<CitySize(city.size), city.walls>>>>>> \o One("disorder", city.unhappy)

\* get_unit_hp_sprite: tenths of the type's hit points
HpPercent(hp, max) == 10 * ((10 * hp) \div max)

\* get_unit_activity_sprite: exploring hides the activity; with no target of
\* an activity the general sign
UnitActivity(u) ==
  IF u.agent = "explore" THEN <<>>
  ELSE IF u.activity # "idle"
  THEN <<<<"activity", IF u.target = NoTag THEN u.activity ELSE FirstTag(u.target)>>>>
  ELSE One("goto", u.goto)

\* fill_unit_sprite_array
UnitSprites(u, stacked) ==
  One("flag", ~u.flagless \/ u.mine)
    \o <<<<"unit", u.type>>>> \o UnitActivity(u) \o One(u.agent, u.agent # "none")
    \o One("wants decision", u.asks) \o <<<<"hp", HpPercent(u.hp, u.max)>>>>
    \o One("stack", stacked) \o One("veteran", u.veteran)

-----------------------------------------------------------------------------
(* Fog.                                                                    *)

\* mapview's fullfog: the name of the i-th picture, one letter for each of
\* the four tiles around the corner
FogName(i) == [j \in 0..3 |-> (i \div 3 ^ j) % 3]

\* Mutant: the tiles are counted from the first.
FogIndexForward(around) == ((around[0] * 3 + around[1]) * 3 + around[2]) * 3 + around[3]

\* fill_fog_sprite_array: a tile that is missing is unknown
FogIndex(around) == ((around[3] * 3 + around[2]) * 3 + around[1]) * 3 + around[0]

FogSprites(around) ==
  IF FogIndex(around) >= 80 THEN <<>> ELSE <<<<"fog", FogName(FogIndex(around))>>>>

-----------------------------------------------------------------------------
(* Layers and animations.  No tile is drawn for an open city: the          *)
(* active_city of this module is a copy made at start-up.                  *)

Quiet == -1   \* no entry for the tile
Flash(step) == ((BoomSteps - step) * 5) \div BoomSteps
BoomSprite(t) == IF boom[t] > 0 THEN <<<<"explode", Flash(boom[t])>>>> ELSE <<>>

\* fill_sprite_array: 7 is the layer of units, 12 the topmost
Layer(n, t, city, unit) ==
  CASE n \in 0..2 -> TerrainSprites(n, t)
    [] n = 3 -> PathSprites(t)
    [] n = 4 -> Special1Sprites(t, city.size > 0)
    [] n = 5 -> CitySprites(city)
    [] n = 6 -> Layer2Sprites(t, city.size > 0)
    [] n = 7 -> (IF unit.type = NoTag THEN <<>>
                 ELSE One("select", unit.focus) \o UnitSprites(unit, unit.stacked))
                  \o BoomSprite(t)
    [] n = 9 -> Layer3Sprites(t, city.size > 0)
    [] n = 11 -> IF city.size = 0 THEN <<>>
                 ELSE <<<<"citybar", CityOccupied(city.mine, city.occupied, city.units)>>>>
    [] n = 12 -> One("nuke", nuke[t] > 0)
    [] OTHER -> <<>>

Layers == 0..12
Picture(t, city, unit) == [n \in Layers |-> Layer(n, t, city, unit)]

\* Drawing a tile takes its animations one step on.
Draw(t, city, unit) ==
  /\ seen' = Picture(t, city, unit)
  /\ boom' = [boom EXCEPT ![t] = IF @ > 0 THEN @ - 1 ELSE Quiet]
  /\ nuke' = [nuke EXCEPT ![t] = IF @ > 0 THEN @ - 1 ELSE 0]
  /\ UNCHANGED face

\* handle_unit_combat_info: a visible unit is lost; the tile is not marked
HandleUnitCombatInfo(t) ==
  /\ boom' = [boom EXCEPT ![t] = BoomSteps] /\ UNCHANGED <<face, nuke, seen>>

\* handle_nuke_tile_info
HandleNukeTileInfo(t) ==
  /\ nuke' = [nuke EXCEPT ![t] = NukeSteps] /\ UNCHANGED <<face, boom, seen>>

\* handle_tile_info
HandleTileInfo(t, f) ==
  /\ face' = [face EXCEPT ![t] = f] /\ UNCHANGED <<boom, nuke, seen>>

-----------------------------------------------------------------------------
NoUnit == [type |-> NoTag]
Worker == [type |-> "workers", agent |-> "none", activity |-> "mine", target |-> NoTag,
           goto |-> FALSE, flagless |-> FALSE, mine |-> TRUE, asks |-> FALSE, hp |-> 7, max |-> 10,
           veteran |-> FALSE, focus |-> TRUE, stacked |-> TRUE]
Builder == [Worker EXCEPT !.activity = "road", !.target = <<"act_gfx", "act_gfx_alt">>]
Explorer == [Worker EXCEPT !.agent = "explore", !.flagless = TRUE, !.mine = FALSE, !.stacked = FALSE]
NoTown == [size |-> 0]
Town == [size |-> 9, walls |-> TRUE, unhappy |-> TRUE, mine |-> TRUE, occupied |-> TRUE, units |-> 4]

Init ==
  /\ \E f \in [Changing -> Faces], rest \in Faces :
       face = [t \in Tiles |-> IF t \in Changing THEN f[t] ELSE rest]
  /\ boom = [t \in Tiles |-> Quiet] /\ nuke = [t \in Tiles |-> 0] /\ seen = <<>>

Next ==
  \E t \in Changing :
    \/ \E city \in {NoTown, Town}, unit \in {NoUnit, Builder, Explorer} : Draw(t, city, unit)
    \/ HandleUnitCombatInfo(t) \/ HandleNukeTileInfo(t)
    \/ \E f \in Faces : HandleTileInfo(t, f)

Spec == Init /\ [][Next]_vars

-----------------------------------------------------------------------------
(* Properties.                                                             *)

TypeOK ==
  /\ face \in [Tiles -> Faces] /\ Faces \subseteq FaceRec
  /\ boom \in [Tiles -> -1..BoomSteps] /\ nuke \in [Tiles -> 0..NukeSteps]

\* The number of the fog's picture, counted from the fourth tile down, is the
\* one whose name, made from the first tile up, says what is known of the four
\* tiles (fill_fog_sprite_array against fullfog).
FogNamed ==
  \A around \in [0..3 -> 0..2] :
    FogSprites(around) = IF \A i \in 0..3 : around[i] = 2 THEN <<>> ELSE <<<<"fog", around>>>>

\* Corners that match differently, and the four corners, have pictures of
\* their own: all of the 108 that coast and floor have (cellgroup_map).
CornersDistinct ==
  \A terrain \in {"coast", "floor"} :
    {CornerIndex(TileTypesSetup(0, terrain), m, i) : m \in [1..3 -> 0..2], i \in 0..3} = 0..107

\* A unit with no more hit points than its type has one of the eleven pictures.
HpKnown == \A max \in {1, 10, 20}, hp \in 0..20 : hp <= max => HpPercent(hp, max) \in {10 * n : n \in 0..10}

\* A tile has at most one terrain on each layer, and an explosion one of five
\* pictures.
OnePicture ==
  seen # <<>> =>
    \A n \in Layers : \A i \in DOMAIN seen[n] :
      /\ seen[n][i][1] = "terrain" => Len(seen[n]) = 1
      /\ seen[n][i][1] = "explode" => seen[n][i][2] \in 0..4

SpritesSound == TypeOK /\ FogNamed /\ CornersDistinct /\ HpKnown /\ OnePicture
=============================================================================
