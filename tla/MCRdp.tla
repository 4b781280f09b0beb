-------------------------------- MODULE MCRdp --------------------------------
(***************************************************************************)
(* The models of the parts of the display processor in one specification:  *)
(* a behaviour is one of the part in rdppart, while all others stay as     *)
(* they are reset. They share no state the models keep: a command that     *)
(* RdpCommands runs is one of those whose effect RdpTexture and RdpSpans   *)
(* describe.                                                               *)
(***************************************************************************)
EXTENDS RdpCommands, RdpTexture, RdpSpans

CONSTANT ActiveRdpParts    \* the parts to look at

VARIABLE rdppart

rdpUnitVars == <<rdppart, rdpVars, tileVars, texVars, spanVars>>

RdpParts == {"commands", "tile", "texture", "spans"}

ASSUME MCRdpAssumption == ActiveRdpParts \subseteq RdpParts

RdpUnitsInit ==
  /\ rdppart \in ActiveRdpParts
  /\ RdpInit /\ TileInit /\ TexInit /\ SpanInit

RdpUnitsNext ==
  /\ UNCHANGED rdppart
  /\ \/ rdppart = "commands" /\ RdpNext /\ UNCHANGED <<tileVars, texVars, spanVars>>
     \/ rdppart = "tile" /\ TileNext /\ UNCHANGED <<rdpVars, texVars, spanVars>>
     \/ rdppart = "texture" /\ TexNext /\ UNCHANGED <<rdpVars, spanVars>>
     \/ rdppart = "spans" /\ SpanNext /\ UNCHANGED <<rdpVars, tileVars, texVars>>

RdpUnitsSpec == RdpUnitsInit /\ [][RdpUnitsNext]_rdpUnitVars

-----------------------------------------------------------------------------
(***************************************************************************)
(* Two memories of commands, pictures of each format, and primitives that  *)
(* share an edge, on a small scale.                                        *)
(***************************************************************************)

-------------------------------------------------------------------------------
\* The lists. Every command is its number and arguments 11, 63, 11, ...
ListWords(number) == <<number>> \o [n \in 1 .. CommandWords(number) - 1 |-> IF n % 2 = 0 THEN 63 ELSE 11]
MCRdpRdram == FlattenSeq([n \in 1 .. 7 |-> ListWords(<<11, 36, 15, 0, 13, 41, 9>>[n])])
MCRdpDmem == FlattenSeq([n \in 1 .. 6 |-> ListWords(<<37, 14, 63, 10, 8, 12>>[n])])
MCRdpBad == {<<"dmem", 24>>}
MCTextures == {<<0, 0>>, <<40000, 17>>}
MCSlopes == {<<1024, 1024>>, <<-33, 7>>, <<31, -32768>>}

-------------------------------------------------------------------------------
\* Axes and coordinates of tiles.
MCTileSettings == [mask : {0, 1, 3, 10, 12}, mirror : BOOLEAN, clamp : BOOLEAN, shift : {0, 1, 10, 11, 15}]
MCTileSizes == {<<0, 28>>, <<6, 14>>, <<4, 4092>>}
MCTileCoordinates == {0, 31, 32, 100, 255, 256, 1024, 16383, 32767, 32768, 40000, 65535, 65500}

-------------------------------------------------------------------------------
\* Pictures and palettes.
DrawAxis(last) == [mask |-> 0, mirror |-> FALSE, clamp |-> FALSE, shift |-> 0, low |-> 0, high |-> 4 * last, clampdiff |-> last, clampen |-> TRUE, maskclamped |-> 0]
LoadTile(format, size, line, at) == [format |-> format, size |-> size, line |-> line, tmem |-> at]
DrawTile(format, size, line, at, w, h) == LoadTile(format, size, line, at) @@ [palette |-> 1, s |-> DrawAxis(w - 1), t |-> DrawAxis(h - 1)]
\* a tile of w by h texels, x and y texels into a picture of w + 3 columns; scale texels of the drawn size per loaded one
Tile(format, lsize, size, line, at, w, h, x, y, upper, scale) ==
  [block |-> FALSE, ti |-> [size |-> lsize, width |-> w + 3, at |-> 4],
   tile |-> LoadTile(format, lsize, line, at),
   corners |-> [sl |-> 4 * x, tl |-> 4 * y, sh |-> 4 * (x + w - 1), th |-> 4 * (y + h - 1)],
   draw |-> DrawTile(format, size, line, at, w * scale, h), columns |-> w * scale, lines |-> h, upper |-> upper]
Block(format, lsize, size, line, at, n, dxt, columns, lines, upper) ==
  [block |-> TRUE, ti |-> [size |-> lsize, width |-> 1, at |-> 8],
   tile |-> LoadTile(format, lsize, 0, at),
   corners |-> [sl |-> 0, tl |-> 0, sh |-> n - 1, dxt |-> dxt],
   draw |-> DrawTile(format, size, line, at, columns, lines), columns |-> columns, lines |-> lines, upper |-> upper]
MCTexJobs == {
  Tile(0, 2, 2, 2, 0, 8, 3, 1, 1, FALSE, 1), Tile(0, 3, 3, 1, 5, 4, 3, 2, 1, TRUE, 1), Tile(1, 2, 2, 1, 0, 8, 2, 2, 0, TRUE, 1),
  Tile(2, 1, 1, 1, 3, 8, 3, 1, 2, FALSE, 1), Tile(2, 1, 0, 1, 0, 8, 3, 3, 0, FALSE, 2), Tile(3, 1, 1, 1, 256, 8, 2, 0, 1, TRUE, 1),
  Tile(3, 1, 0, 1, 7, 8, 2, 0, 0, FALSE, 2), Tile(4, 1, 1, 1, 0, 8, 2, 0, 0, FALSE, 1), Tile(0, 0, 0, 1, 0, 8, 2, 0, 0, FALSE, 1),
  Block(0, 2, 2, 2, 0, 32, 1024, 8, 4, FALSE), Block(4, 2, 0, 1, 0, 12, 2048, 16, 3, FALSE),
  Block(0, 2, 2, 3, 0, 36, 683, 12, 3, FALSE), Block(2, 2, 1, 1, 1, 12, 2048, 8, 3, FALSE) }
MCTexPalettes == { [at |-> 512, tmem |-> 256, corners |-> [sl |-> 0, tl |-> 0, sh |-> 1020, th |-> 0]],
   [at |-> 100, tmem |-> 256, corners |-> [sl |-> 0, tl |-> 0, sh |-> 60, th |-> 4]] }

-------------------------------------------------------------------------------
\* Primitives.
Halves(x) == <<x \div 65536, x % 65536>>
\* edges in 65536ths of a pixel at the first line, slopes per line
Planes == [n \in Attributes |-> CASE n = "r" -> <<65536 * 20, 65536 * 2, -65536>> [] n = "g" -> <<65536 * 9, -40960, 20480>>
   [] n = "b" -> <<100000, 8192, 0>> [] n = "a" -> <<65536 * 50, -65536 * 3, 65536 * 4>> [] n = "s" -> <<0, 65536, 65536>>
   [] n = "t" -> <<-65536, 0, 32768>> [] n = "w" -> <<65536 * 7, 12288, -16384>> [] n = "z" -> <<1000000, 65536 * 4, -65536 * 2>>]
First(n) == n \in {"r", "b", "s", "w"}
\* value k of the plane at word n (0: start, 2: dx, 8: de, 10: dy) for an edge of slope d starting at x
Value(n, k, x, d) ==
  LET pl == Planes[n]
  IN CASE k = 0 -> pl[1] + (x \div 256) * (pl[2] \div 256) [] k = 2 -> pl[2] [] k = 10 -> pl[3] [] k = 8 -> pl[3] + (d \div 256) * (pl[2] \div 256)
Pair(a, b, k, part, x, d) ==
  LET h(n) == Halves(Value(n, k, x, d))[part]
      lo(n) == h(n) % 65536
  IN <<h(a), IF b = "none" THEN 0 ELSE lo(b)>>
Kind(w) == CASE w \in {0, 4} -> 0 [] w \in {2, 6} -> 2 [] w \in {8, 12} -> 8 [] w \in {10, 14} -> 10
Words(f, yh, ym, yl, h, m, l) ==
  [n \in 0 .. 43 |->
    CASE n = 0 -> <<IF f THEN 128 ELSE 0, yl % 16384>> [] n = 1 -> <<ym % 16384, yh % 16384>>
      [] n = 2 -> Halves(l[1]) [] n = 3 -> Halves(l[2]) [] n = 4 -> Halves(h[1]) [] n = 5 -> Halves(h[2]) [] n = 6 -> Halves(m[1]) [] n = 7 -> Halves(m[2])
      [] n \in 8 .. 23 -> LET w == (n - 8) - ((n - 8) % 2)
                          IN IF n % 2 = 0 THEN Pair("r", "g", Kind(w), IF w \in {0, 2, 8, 10} THEN 1 ELSE 2, h[1], h[2])
                             ELSE Pair("b", "a", Kind(w), IF w \in {0, 2, 8, 10} THEN 1 ELSE 2, h[1], h[2])
      [] n \in 24 .. 39 -> LET w == (n - 24) - ((n - 24) % 2)
                          IN IF n % 2 = 0 THEN Pair("s", "t", Kind(w), IF w \in {0, 2, 8, 10} THEN 1 ELSE 2, h[1], h[2])
                             ELSE Pair("w", "none", Kind(w), IF w \in {0, 2, 8, 10} THEN 1 ELSE 2, h[1], h[2])
      [] n = 40 -> Halves(Value("z", 0, h[1], h[2])) [] n = 41 -> Halves(Value("z", 2, h[1], h[2]))
      [] n = 42 -> Halves(Value("z", 8, h[1], h[2])) [] n = 43 -> Halves(Value("z", 10, h[1], h[2]))]
\* left edge a, common edge c, right edge b; each <<x, slope>>
Flips(a, c, b, yh, yl) == <<Words(TRUE, yh, yl, yl, a, c, c), Words(TRUE, yh, yl, yl, c, b, b), Words(TRUE, yh, yl, yl, a, b, b)>>
Mirrored(a, c, b, yh, yl) == <<Words(FALSE, yh, yl, yl, c, a, a), Words(FALSE, yh, yl, yl, b, c, c), Words(FALSE, yh, yl, yl, b, a, a)>>
\* the common edge has a corner: the minor side of both
Cornered(a, c, d, b, yh, ym, yl) == <<Words(TRUE, yh, ym, yl, a, c, d), Words(FALSE, yh, ym, yl, b, c, d), Words(TRUE, yh, yl, yl, a, b, b)>>
Common == {<<65536 * 4, 0>>, <<65536 * 4 + 20000, 30000>>, <<65536 * 6 + 8192, -50000>>, <<65536 * 5 + 2, 98304>>, <<65536 * 3 + 49152, -16384>>, <<65536 * 7 + 32768, 65536>>}
Outer == {<< <<65536 + 6000, 4096>>, <<65536 * 12 + 700, -9000>> >>}
Heights == {<<1, 11>>, <<-3, 6>>}
MCSpanTriples ==
  {Flips(o[1], c, o[2], h[1], h[2]) : o \in Outer, c \in Common, h \in Heights}
  \union {Mirrored(o[1], c, o[2], h[1], h[2]) : o \in Outer, c \in Common, h \in Heights}
  \union {Cornered(o[1], c, <<65536 * 6, 16384>>, o[2], 1, 6, 11) : o \in Outer, c \in Common}
MCScissors == {[xh |-> 0, yh |-> 0, xl |-> 64, yl |-> 40, field |-> FALSE, odd |-> FALSE],
  [xh |-> 10, yh |-> 3, xl |-> 29, yl |-> 9, field |-> FALSE, odd |-> FALSE], [xh |-> 18, yh |-> 0, xl |-> 64, yl |-> 16, field |-> TRUE, odd |-> TRUE]}
==============================================================================
