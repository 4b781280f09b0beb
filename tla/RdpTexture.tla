----------------------------- MODULE RdpTexture ------------------------------
(***************************************************************************)
(* The texture memory of the display processor: LOAD_TILE, LOAD_BLOCK and  *)
(* LOAD_TLUT bring a picture from RDRAM into it, the fetches take texels   *)
(* out. Four kilobytes hold it as 2048 words of 16 bits; odd lines have    *)
(* their 32-bit halves swapped, 32-bit and YUV texels are split over the   *)
(* two halves of the memory, and a palette is in the upper half, every     *)
(* entry four times. Each load and each fetch computes its addresses in    *)
(* its own way; what a fetch returns has to be what the load was given.    *)
(*                                                                         *)
(* The memory is in the order of the RDP: the host's byte order, which the *)
(* code corrects at every access (WORD_ADDR_XOR, BYTE_ADDR_XOR), is left   *)
(* out. A coordinate of the loads is in units of 1/256 of the code's       *)
(* upper halfword, which keeps every bit the loads can set.                *)
(***************************************************************************)
EXTENDS Integers, Sequences, FiniteSets, TLC

-----------------------------------------------------------------------------
(***************************************************************************)
(* From a texture coordinate to a texel of a tile. SET_TILE and            *)
(* SET_TILE_SIZE keep the settings of a tile with the values derived from  *)
(* them; a coordinate (10.5 bits, after the perspective division) is then  *)
(* shifted, made relative to the tile, clamped, and wrapped or mirrored.   *)
(* The pipeline does this in three ways: with the fraction and the next    *)
(* texel for filtering, without them, and for the four texels of the copy  *)
(* mode. The two axes of a tile are treated alike: the state is one of     *)
(* them, and the pairs of statements of the code are one operator.         *)
(***************************************************************************)

CONSTANTS
  TileSettings,      \* what SET_TILE says of an axis: [mask, mirror, clamp, shift]
  TileSizes,         \* what SET_TILE_SIZE says of it: <<low, high>>, in quarters of a texel
  TileCoordinates    \* texture coordinates, in 32nds of a texel

VARIABLES
  axis,     \* the settings of one axis of a tile, with the derived ones
  sample    \* a coordinate and the texels each way of the pipeline takes for it

tileVars == <<axis, sample>>

SIGN16(x) == ((x + 32768) % 65536) - 32768
Lesser(x, y) == IF x < y THEN x ELSE y

NoSample == [at |-> "none"]

TileInit ==
  /\ axis = [mask |-> 0, mirror |-> FALSE, clamp |-> FALSE, shift |-> 0,
             low |-> 0, high |-> 0, clampdiff |-> 0, clampen |-> TRUE, maskclamped |-> 0]
  /\ sample = NoSample

\* calculate_tile_derivs: an axis without a mask is clamped whatever it says.
calculate_tile_derivs(set) ==
  [clampen |-> set.clamp \/ set.mask = 0, maskclamped |-> Lesser(set.mask, 10)]

\* calculate_clamp_diffs: the number of the last texel.
calculate_clamp_diffs(low, high) == ((high \div 4) - (low \div 4)) % 1024

rdp_set_tile(set) ==
  /\ sample = NoSample
  /\ axis' = [axis EXCEPT !.mask = set.mask, !.mirror = set.mirror, !.clamp = set.clamp,
                          !.shift = set.shift,
                          !.clampen = calculate_tile_derivs(set).clampen,
                          !.maskclamped = calculate_tile_derivs(set).maskclamped]
  /\ UNCHANGED sample

rdp_set_tile_size(size) ==
  /\ sample = NoSample
  /\ axis' = [axis EXCEPT !.low = size[1], !.high = size[2],
                          !.clampdiff = calculate_clamp_diffs(size[1], size[2])]
  /\ UNCHANGED sample

\* tcshift_copy: to the right for 0 to 10, to the left for 11 to 15.
tcshift_copy(a, c) ==
  IF a.shift < 11 THEN SIGN16(c) \div 2 ^ a.shift ELSE SIGN16(c * 2 ^ (16 - a.shift))

\* tcshift_cycle also says whether the coordinate is past the tile.
tcshift_cycle(a, c) ==
  [at |-> tcshift_copy(a, c), past |-> tcshift_copy(a, c) \div 8 >= a.high]

TRELATIVE(a, c) == c - (a.low * 8)

\* maskbits_table: at most ten bits.
MaskBits(a) == 2 ^ Lesser(a.mask, 10)

\* tcmask: every other copy of a mirrored tile is complemented.
tcmask(a, texel) ==
  IF a.mask = 0 THEN texel
  ELSE LET turned == a.mirror /\ (texel \div 2 ^ a.maskclamped) % 2 = 1
       IN (IF turned THEN -texel - 1 ELSE texel) % MaskBits(a)

tcmask_coupled(a, texel, next) == <<tcmask(a, texel), tcmask(a, next)>>

tcmask_copy(a, texel) ==
  <<tcmask(a, texel), tcmask(a, texel + 1), tcmask(a, texel + 2), tcmask(a, texel + 3)>>

\* Below the tile is bit 16 of the difference.
Below(c) == (c \div 65536) % 2 = 1

tcclamp_cycle(a, c, past) ==
  IF ~a.clampen THEN [texel |-> c \div 32, fraction |-> c % 32]
  ELSE IF past THEN [texel |-> a.clampdiff, fraction |-> 0]
  ELSE IF ~Below(c) THEN [texel |-> c \div 32, fraction |-> c % 32]
  ELSE [texel |-> 0, fraction |-> 0]

tcclamp_cycle_light(a, c, past) ==
  IF ~a.clampen THEN c \div 32
  ELSE IF past THEN a.clampdiff
  ELSE IF ~Below(c) THEN c \div 32
  ELSE 0

\* texture_pipeline_cycle, up to the fetch: the filtered way and the other one.
Filtered(a, c, step) ==
  LET shifted == tcshift_cycle(a, c)
      clamped == tcclamp_cycle(a, TRELATIVE(a, shifted.at), shifted.past)
      pair == tcmask_coupled(a, clamped.texel, clamped.texel + step)
  IN [texel |-> pair[1], next |-> pair[2], fraction |-> clamped.fraction]

Unfiltered(a, c) ==
  LET shifted == tcshift_cycle(a, c)
  IN tcmask(a, tcclamp_cycle_light(a, TRELATIVE(a, shifted.at), shifted.past))

tc_pipeline_copy(a, c) ==
  tcmask_copy(a, TRELATIVE(a, tcshift_copy(a, c)) \div 32)

TakeSample(c) ==
  /\ sample = NoSample
  /\ axis.high > 0
  /\ sample' = [at |-> "sampled", coordinate |-> c, filtered |-> Filtered(axis, c, 1),
                unfiltered |-> Unfiltered(axis, c), copied |-> tc_pipeline_copy(axis, c)]
  /\ UNCHANGED axis

TileNext ==
  \/ \E set \in TileSettings : rdp_set_tile(set)
  \/ \E size \in TileSizes : rdp_set_tile_size(size)
  \/ \E c \in TileCoordinates : TakeSample(c)

TileSpec == TileInit /\ [][TileNext]_tileVars

-------------------------------------------------------------------------------
\* What a tile means: its copies stand side by side, every other one
\* mirrored if it is to be, and a clamped coordinate first goes to the
\* nearest texel between the tile's first and last.

Texels(a) == 2 ^ Lesser(a.mask, 10)

RepeatedTexel(a, n) ==
  IF a.mask = 0 THEN n
  ELSE LET copy == n \div Texels(a)
           within == n - (copy * Texels(a))
       IN IF a.mirror /\ copy % 2 = 1 THEN Texels(a) - 1 - within ELSE within

LastTexel(a) == (a.high - a.low) \div 4

\* The texels taken for a coordinate are those of the endless plane the
\* tile's copies make, whichever way the pipeline takes them: the filtered
\* and the unfiltered way agree, the next texel is the neighbour, a
\* clamped coordinate has no fraction that would mix the neighbour in, and
\* the copy mode takes four in a row (tcmask, tcmask_coupled, tcmask_copy,
\* tcclamp_cycle and tcclamp_cycle_light, which repeat each other's code).
SampleRight ==
  sample # NoSample =>
    LET c == TRELATIVE(axis, tcshift_copy(axis, sample.coordinate))
        clamped == axis.clamp \/ axis.mask = 0
        n == IF ~clamped THEN c \div 32
             ELSE IF c < 0 THEN 0 ELSE Lesser(c \div 32, LastTexel(axis))
        inside == ~clamped \/ (c >= 0 /\ c < 32 * LastTexel(axis))
    IN /\ sample.filtered.texel = RepeatedTexel(axis, n)
       /\ sample.filtered.next = RepeatedTexel(axis, n + 1)
       /\ sample.filtered.fraction = IF inside THEN c % 32 ELSE 0
       /\ sample.unfiltered = sample.filtered.texel
       /\ sample.copied = [i \in 1 .. 4 |-> RepeatedTexel(axis, (c \div 32) + i - 1)]

-----------------------------------------------------------------------------

CONSTANTS
  TexJobs,       \* pictures to load, and the tiles they are loaded and drawn with
  TexPalettes    \* palettes to load: [at, first, last, tmem]

VARIABLES
  tmem,      \* the words of the texture memory written so far: 0 elsewhere
  texture,   \* history: the picture loaded last, and how far its commands are
  palette,   \* history: the palette loaded
  crashed    \* rdp_pipeline_crashed

texVars == <<tmem, texture, palette, crashed>>

Rgba == 0
Yuv == 1
Ci == 2
Ia == 3
Intensity == 4

NoTexture == [step |-> "none"]
NoPalette == [at |-> -1]

TexInit == tmem = <<>> /\ texture = NoTexture /\ palette = NoPalette /\ crashed = FALSE

\* The bytes of the picture: all different within a picture of 256.
Ram(address) == (address * 73 + 29 * (address \div 256)) % 256

\* PIXELS_TO_BYTES.
Bytes(pixels, size) == (pixels * 2 ^ size) \div 2

-------------------------------------------------------------------------------
\* get_tmem_idx: the words a 64-bit word goes to, by bank, and its half.
TexelsPerShort(tile) ==
  IF tile.size = 1 \/ tile.format = Yuv THEN 2 ELSE IF tile.size >= 2 THEN 1 ELSE 4

sort_tmem_idx(indices, bank) ==
  LET in == {i \in DOMAIN indices : indices[i] % 4 = bank}
  IN IF in = {} THEN 0
     ELSE indices[CHOOSE i \in in : \A j \in in : i <= j] % 1024

SwapHalves(index) == IF (index \div 2) % 2 = 1 THEN index - 2 ELSE index + 2

\* A mutant of get_tmem_idx: the split formats ignore the parity of the line.
get_tmem_idx_late(s, t, tile) ==
  LET base == ((tile.line * t) % 512) + tile.tmem
      shorts == (s \div TexelsPerShort(tile)) % 2048
      a == LET sum == (base * 4 + shorts) % 2048 IN sum - 2 * ((sum \div 2) % 2)
      four == [i \in 1 .. 4 |-> (a + i - 1) % 2048]
      swapped == IF t % 2 = 1 THEN [i \in 1 .. 4 |-> SwapHalves(four[i])] ELSE four
  IN [index |-> [bank \in 0 .. 3 |-> sort_tmem_idx(swapped, bank)],
      bit3 |-> (shorts \div 2) % 2 = 1,
      high |-> a \div 1024 = 1]

get_tmem_idx(s, t, tile) ==
  LET base == ((tile.line * t) % 512) + tile.tmem
      shorts == (s \div TexelsPerShort(tile)) % 2048
      a == LET sum == (base * 4 + shorts) % 2048 IN sum - 2 * ((sum \div 2) % 2)
      four == [i \in 1 .. 4 |-> (a + i - 1) % 2048]
      swapped == IF t % 2 = 1 THEN [i \in 1 .. 4 |-> SwapHalves(four[i])] ELSE four
  IN [index |-> [bank \in 0 .. 3 |-> sort_tmem_idx(swapped, bank)],
      bit3 |-> (shorts \div 2) % 2 # t % 2,
      high |-> a \div 1024 = 1]

\* loading_pipeline, the 64 bits at tiptr: in LOAD_TLUT, one halfword four times.
LoadQword(at, tlut) ==
  [i \in 0 .. 7 |-> IF tlut /\ at % 2 = 0 THEN Ram(at + (i % 2)) ELSE Ram(at + i)]

Halfword(q, i) == q[i] * 256 + q[i + 1]

\* tmem_formatting: YUV bytes and the halves of 32-bit texels are parted.
Split(where, low, high) ==
  LET pair == IF where.bit3 THEN <<2, 3>> ELSE <<0, 1>>
      word(n) == where.index[pair[n]]
  IN (word(1) :> low[1]) @@ (word(2) :> low[2])
       @@ (word(1) + 1024 :> high[1]) @@ (word(2) + 1024 :> high[2])

Whole(where, swap, q) ==
  LET half == IF where.high THEN 1024 ELSE 0
      word(bank) == Halfword(q, 2 * IF swap THEN (bank + 2) % 4 ELSE bank)
  IN [w \in {where.index[bank] + half : bank \in 0 .. 3} |-> word(w % 4)]

WriteQword(tile, s, t, q) ==
  LET where == get_tmem_idx(s, t, tile)
  IN IF tile.format = Yuv
     THEN Split(where, <<q[0] * 256 + q[2], q[4] * 256 + q[6]>>,
                       <<q[1] * 256 + q[3], q[5] * 256 + q[7]>>)
     ELSE IF tile.format = Rgba /\ tile.size = 3
     THEN Split(where, <<Halfword(q, 0), Halfword(q, 4)>>, <<Halfword(q, 2), Halfword(q, 6)>>)
     ELSE Whole(where, t % 2 = 1, q)

\* tc_pipeline_load.
tc_pipeline_load(c, low, quad) == (SIGN16(c) - low * 8) \div (IF quad THEN 8 ELSE 32)

\* One line of loading_pipeline: what its steps write, later ones over earlier.
SpanWrites(tile, ti, load, span) ==
  LET pixels == CASE ti.size = 1 -> 8
                  [] ti.size = 2 -> IF load.tlut THEN 1 ELSE 4
                  [] ti.size = 3 -> 2
      advance == IF load.tlut /\ ti.size = 2 THEN 2 ELSE 8
      length == (span.last - load.first + 1) % 4096
      start == ti.at + Bytes(ti.width * span.row + load.first, ti.size)
      s(n) == tc_pipeline_load((load.s + n * load.ds) \div 256, load.sl, load.quad)
      t(n) == tc_pipeline_load((span.t + n * load.dt) \div 256, load.tl, load.quad)
      between[m \in 0 .. 4096, n \in 0 .. 4096] ==
        CASE n <= m -> <<>>
          [] n = m + 1 ->
               WriteQword(tile, s(m), t(m), LoadQword(start + m * advance, load.tlut))
          [] OTHER -> LET middle == (m + n) \div 2
                      IN between[middle, n] @@ between[m, middle]
  IN between[0, (length + pixels - 1) \div pixels]

\* edgewalker_for_loads: the lines from yh to yl, a texel further in t on each.
\* A line none of whose quarters is inside has no last pixel.
loading_pipeline(tile, ti, load) ==
  LET top == load.yh \div 4
      line(row) == [row |-> row, t |-> load.t + (row - top) * 32 * 256,
                    last |-> IF load.yh = load.yl THEN 0 ELSE load.last]
      upTo[n \in 0 .. 1024] ==
        IF n = 0 THEN <<>>
        ELSE SpanWrites(tile, ti, load, line(top + n - 1)) @@ upTo[n - 1]
  IN upTo[IF load.yl < load.yh THEN 0 ELSE (load.yl \div 4) - top + 1]

Crashes(ti, load) ==
  \/ load.tlut /\ load.yl \div 4 > load.yh \div 4
  \/ ti.size = 0

\* tile_tlut_common_cs_decoder.
TileLoad(ti, c, tlut) ==
  [yh |-> c.tl, yl |-> c.th - (c.th % 4) + 3, first |-> c.sl \div 4, last |-> c.sh \div 4,
   sl |-> c.sl, tl |-> c.tl, s |-> c.sl * 8 * 256, t |-> c.tl * 8 * 256,
   ds |-> (512 \div 2 ^ ti.size) * 256, dt |-> 0, quad |-> tlut, tlut |-> tlut]

\* rdp_load_block: one line, of which dxt makes several of the tile. Its
\* first pixel is signed, as bits 16 to 27 of an edge are.
BlockLoad(ti, c) ==
  LET row == c.tl % 1024
  IN [yh |-> row * 4, yl |-> row * 4 + 3,
      first |-> IF c.sl >= 2048 THEN c.sl - 4096 ELSE c.sl, last |-> c.sh,
      sl |-> c.sl, tl |-> c.tl, s |-> c.sl * 8 * 256, t |-> c.tl * 8 * 256,
      ds |-> (128 \div 2 ^ ti.size) * 256, dt |-> c.dxt, quad |-> TRUE, tlut |-> FALSE]

RunLoad(tile, ti, load) ==
  IF Crashes(ti, load) THEN crashed' = TRUE /\ UNCHANGED tmem
  ELSE tmem' = loading_pipeline(tile, ti, load) @@ tmem /\ UNCHANGED crashed

\* A picture of 32-bit or YUV texels, or a long one, is in the palettes' half too.
LoadTexture(job) ==
  /\ ~crashed
  /\ RunLoad(job.tile, job.ti, IF job.block THEN BlockLoad(job.ti, job.corners)
                              ELSE TileLoad(job.ti, job.corners, FALSE))
  /\ texture' = IF crashed' THEN NoTexture ELSE [step |-> "loaded", job |-> job]
  /\ palette' = IF job.upper THEN NoPalette ELSE palette

rdp_load_tlut(p) ==
  /\ ~crashed
  /\ RunLoad([format |-> 0, size |-> 0, line |-> 0, tmem |-> p.tmem], [size |-> 2, width |-> 1, at |-> p.at],
             TileLoad([size |-> 2], p.corners, TRUE))
  /\ palette' = IF crashed' THEN NoPalette ELSE p
  /\ texture' = IF texture # NoTexture /\ texture.job.upper THEN NoTexture ELSE texture

TexNext ==
  /\ \/ \E job \in TexJobs : texture = NoTexture /\ LoadTexture(job)
     \/ \E p \in TexPalettes : palette = NoPalette /\ rdp_load_tlut(p)
  /\ UNCHANGED tileVars

TexSpec == TexInit /\ TileInit /\ [][TexNext]_<<tileVars, texVars>>

-------------------------------------------------------------------------------
\* The fetches. s may be past the tile, but not below 0 (see the tiles above).

Tmem16(index) == IF index \in DOMAIN tmem THEN tmem[index] ELSE 0
Tmem8(index) ==
  IF index % 2 = 0 THEN Tmem16(index \div 2) \div 256 ELSE Tmem16(index \div 2) % 256

SwapBytes(index) == IF (index \div 4) % 2 = 1 THEN index - 4 ELSE index + 4

LineBase(t, tile) == tile.line * (t % 256) + tile.tmem

ByteAt(index, t, bytes) == Tmem8((IF t % 2 = 1 THEN SwapBytes(index) ELSE index) % bytes)
WordIndex(s, t, tile, words) ==
  LET index == LineBase(t, tile) * 4 + s
  IN (IF t % 2 = 1 THEN SwapHalves(index) ELSE index) % words
HalfOf(byte, s) == IF s % 2 = 1 THEN byte % 16 ELSE byte \div 16

NibbleTexel(s, t, tile, bytes) ==
  HalfOf(ByteAt((LineBase(t, tile) * 16 + s) \div 2, t, bytes), s)
ByteTexel(s, t, tile, bytes) == ByteAt(LineBase(t, tile) * 8 + s, t, bytes)
WordTexel(s, t, tile, words) == Tmem16(WordIndex(s, t, tile, words))

\* The bits of a texel, as fetched: what its colour is made of.
TexelBits(s, t, tile) ==
  CASE tile.format = Yuv /\ tile.size < 2 -> <<ByteTexel(s, t, tile, 2048)>>
    [] tile.format = Yuv /\ tile.size >= 2 ->
         LET uv == LET index == (LineBase(t, tile) * 8 + s) \div 2
                   IN Tmem16((IF t % 2 = 1 THEN SwapHalves(index) ELSE index) % 1024)
             y == LET index == LineBase(t, tile) * 8 + s
                  IN Tmem8(2048 + ((IF t % 2 = 1 THEN SwapBytes(index) ELSE index) % 2048))
         IN <<uv \div 256, uv % 256, y>>
    [] tile.format # Yuv /\ tile.size = 0 -> <<NibbleTexel(s, t, tile, 4096)>>
    [] tile.format # Yuv /\ tile.size = 1 -> <<ByteTexel(s, t, tile, 4096)>>
    [] tile.format = Rgba /\ tile.size = 3 ->
         LET index == WordIndex(s, t, tile, 1024)
         IN <<Tmem16(index), Tmem16(index + 1024)>>
    [] OTHER -> <<WordTexel(s, t, tile, 2048)>>

Colour(r, g, b, a) == [r |-> r, g |-> g, b |-> b, a |-> a]
Grey(v) == Colour(v, v, v, v)
Alpha(bit) == IF bit % 2 = 1 THEN 255 ELSE 0

\* replicated_rgba, of five bits.
Replicated(v) == v * 8 + v \div 4
Rgba16(w) ==
  Colour(Replicated(w \div 2048), Replicated((w \div 64) % 32), Replicated((w \div 2) % 32),
         Alpha(w))
\* The colour of 16 and 32-bit texels of the formats that have none.
Folded(w) == Colour(w \div 256, w % 256, w \div 256, Alpha(w))
Ia16(w) == [Grey(w \div 256) EXCEPT !.a = w % 256]

\* fetch_texel, by format: the colour made of the bits.
TexelRgba(size, bits) ==
  CASE size = 0 -> Grey(bits[1] * 17)
    [] size = 1 -> Grey(bits[1])
    [] size = 2 -> Rgba16(bits[1])
    [] size = 3 -> Colour(bits[1] \div 256, bits[1] % 256, bits[2] \div 256, bits[2] % 256)

TexelYuv(size, bits) ==
  IF size < 2 THEN Colour(bits[1] - 128, bits[1] - 128, bits[1], bits[1])
  ELSE Colour(bits[1] - 128, bits[2] - 128, bits[3], bits[3])

TexelCi(size, bits, pal) ==
  CASE size = 0 -> Grey(pal * 16 + bits[1])
    [] size = 1 -> Grey(bits[1])
    [] size >= 2 -> Folded(bits[1])

TexelIa(size, bits) ==
  CASE size = 0 -> LET i == bits[1] - (bits[1] % 2)
                   IN [Grey(i * 16 + i * 2 + i \div 4) EXCEPT !.a = Alpha(bits[1])]
    [] size = 1 -> [Grey((bits[1] \div 16) * 17) EXCEPT !.a = (bits[1] % 16) * 17]
    [] size = 2 -> Ia16(bits[1])
    [] size = 3 -> Folded(bits[1])

TexelIntensity(size, bits) ==
  CASE size = 0 -> Grey(bits[1] * 17)
    [] size = 1 -> Grey(bits[1])
    [] size >= 2 -> Folded(bits[1])

ColourOf(tile, bits) ==
  CASE tile.format = Rgba -> TexelRgba(tile.size, bits)
    [] tile.format = Yuv -> TexelYuv(tile.size, bits)
    [] tile.format = Ci -> TexelCi(tile.size, bits, tile.palette)
    [] tile.format = Ia -> TexelIa(tile.size, bits)
    [] tile.format = Intensity -> TexelIntensity(tile.size, bits)

fetch_texel(s, t, tile) == ColourOf(tile, TexelBits(s, t, tile))

\* fetch_texel_entlut: the bits choose an entry of the palette. 4-bit YUV
\* takes a nibble of the byte an 8-bit texel has.
TlutIndex(s, t, tile) ==
  CASE tile.size = 0 /\ tile.format # Yuv -> tile.palette * 16 + NibbleTexel(s, t, tile, 2048)
    [] tile.size = 0 /\ tile.format = Yuv ->
         tile.palette * 16 + HalfOf(ByteTexel(s, t, tile, 2048), s)
    [] tile.size = 1 \/ (tile.size >= 2 /\ tile.format = Yuv) -> ByteTexel(s, t, tile, 2048)
    [] OTHER -> WordTexel(s, t, tile, 1024) \div 256

fetch_texel_entlut(s, t, tile, ia) ==
  LET entry == Tmem16(1024 + 4 * TlutIndex(s, t, tile))
  IN IF ia THEN Ia16(entry) ELSE Rgba16(entry)

\* fetch_texel_quadro and its palette twin repeat the above for the corners
\* (s0, t0), (s1, t0), (s0, t1), (s1, t1), format by format.
Corners(Texel(_, _), s, t) ==
  <<Texel(s[1], t[1]), Texel(s[2], t[1]), Texel(s[1], t[2]), Texel(s[2], t[2])>>

QuadroRgba(s, t, tile) ==
  LET texel(i, j) == TexelRgba(tile.size, TexelBits(i, j, tile)) IN Corners(texel, s, t)
QuadroYuv(s, t, tile) ==
  LET texel(i, j) == TexelYuv(tile.size, TexelBits(i, j, tile)) IN Corners(texel, s, t)
QuadroCi(s, t, tile) ==
  LET texel(i, j) == TexelCi(tile.size, TexelBits(i, j, tile), tile.palette)
  IN Corners(texel, s, t)
QuadroIa(s, t, tile) ==
  LET texel(i, j) == TexelIa(tile.size, TexelBits(i, j, tile)) IN Corners(texel, s, t)
QuadroIntensity(s, t, tile) ==
  LET texel(i, j) == TexelIntensity(tile.size, TexelBits(i, j, tile)) IN Corners(texel, s, t)

fetch_texel_quadro(s, t, tile) ==
  CASE tile.format = Rgba -> QuadroRgba(s, t, tile)
    [] tile.format = Yuv -> QuadroYuv(s, t, tile)
    [] tile.format = Ci -> QuadroCi(s, t, tile)
    [] tile.format = Ia -> QuadroIa(s, t, tile)
    [] tile.format = Intensity -> QuadroIntensity(s, t, tile)

fetch_texel_entlut_quadro(s, t, tile, ia) ==
  LET texel(i, j) == fetch_texel_entlut(i, j, tile, ia) IN Corners(texel, s, t)

-------------------------------------------------------------------------------
\* The copy mode: four texels of a line at once, sixteen bits of each, from
\* the four banks of both halves of the memory.

\* read_tmem_copy: where the four texels are, in nibbles, and for YUV where
\* the low half has the colour of the two brightnesses.
CopyAddresses(s, t, tile) ==
  LET nibbles == CASE tile.size = 1 \/ tile.format = Yuv -> 2
                   [] tile.size >= 2 /\ tile.format # Yuv -> 4
                   [] OTHER -> 1
      offset(i) == (s[i] * nibbles) % 8192
      base == (((tile.line * t) % 512) + tile.tmem) * 16
      high == [i \in 1 .. 4 |-> (base + offset(i)) % 8192]
      second == (high[1] + 2 * (offset(2) - offset(1))) % 8192
      low == IF tile.format = Yuv
             THEN [high EXCEPT ![2] = second, ![4] = (second + offset(4) - offset(1)) % 8192]
             ELSE high
      swap(x) == IF (x \div 8) % 2 = 1 THEN x - 8 ELSE x + 8
  IN IF t % 2 = 1
     THEN [low |-> [i \in 1 .. 4 |-> swap(low[i])], high |-> [i \in 1 .. 4 |-> swap(high[i])]]
     ELSE [low |-> low, high |-> high]

Shorts(nibbles) == [i \in 1 .. 4 |-> nibbles[i] \div 4]

\* compute_color_index, with the nibble counted from the left.
NibbleOf(short, n) == (short \div 16 ^ (3 - n)) % 16

compute_color_index(short, n, tile) ==
  IF tile.size = 0 THEN tile.palette * 16 + NibbleOf(short, n)
  ELSE LET first == 2 * (n \div 2) IN NibbleOf(short, first) * 16 + NibbleOf(short, first + 1)

\* The low and the high word of each texel. A bank is read once: the first
\* texel in it decides (sort_tmem_idx).
read_tmem_copy(s, t, tile, tlut) ==
  LET at == CopyAddresses(s, t, tile)
      low == [i \in 1 .. 4 |->
               Tmem16(sort_tmem_idx(Shorts(at.low), (at.low[i] \div 4) % 4))]
      high == [i \in 1 .. 4 |->
                IF tlut
                THEN Tmem16(1024 + i - 1 + 4 * compute_color_index(low[i], at.low[i] % 4, tile))
                ELSE Tmem16(1024 + sort_tmem_idx(Shorts(at.high), (at.high[i] \div 4) % 4))]
  IN [low |-> low, high |-> high, nibble |-> [i \in 1 .. 4 |-> at.low[i] % 4],
      upper |-> [i \in 1 .. 4 |-> at.low[i] >= 4096]]

\* replicate_for_copy: the byte a texel of another size than 16 bits is copied as.
replicate_for_copy(short, n, format, size, pal) ==
  LET nibble == NibbleOf(short, n)
      first == 2 * (n \div 2)
  IN CASE size = 0 /\ format = Ci -> pal * 16 + nibble
       [] size = 0 /\ format = Ia ->
            LET i == nibble \div 2 IN i * 32 + i * 4 + i \div 2
       [] size = 0 /\ format \notin {Ci, Ia} -> nibble * 17
       [] size = 1 /\ format = Ia -> NibbleOf(short, first) * 17
       [] size = 1 /\ format # Ia -> NibbleOf(short, first) * 16 + NibbleOf(short, first + 1)
       [] OTHER -> short \div 256

\* fetch_qword_copy: bytes of the four texels, or their sixteen bits.
fetch_qword_copy(c, d, tile, tlut, ia) ==
  LET size == IF tlut THEN 2 ELSE tile.size
      format == IF tlut THEN (IF ia THEN Ia ELSE Rgba) ELSE tile.format
      texels == tc_pipeline_copy(tile.s, c)
      line == tc_pipeline_copy(tile.t, d)[1]
      words == read_tmem_copy(texels, line, tile, tlut)
      large == format = Yuv \/ (format = Rgba /\ size = 3)
      short == [i \in 1 .. 4 |->
                 IF tlut \/ (~large /\ words.upper[i]) THEN words.high[i] ELSE words.low[i]]
  IN [shorts |-> short,
      bytes |-> [i \in 1 .. 4 |->
                  replicate_for_copy(short[i], words.nibble[i], format, size, tile.palette)]]

-------------------------------------------------------------------------------

\* texture_pipeline_cycle: the texels of a coordinate, mixed by its fractions.

\* The mixture of a channel of four corners: the triangle of the point decides.
Mixed(c, sf, tf) ==
  IF sf + tf >= 32
  THEN c[4] + (((32 - sf) * (c[3] - c[4]) + (32 - tf) * (c[2] - c[4]) + 16) \div 32)
  ELSE c[1] + ((sf * (c[2] - c[1]) + tf * (c[3] - c[1]) + 16) \div 32)

\* mid_texel: the average of the four, at the very middle of them.
Middle(c, sf, tf) ==
  c[1] + ((sf * 4 * (c[2] - c[1]) + tf * 4 * (c[3] - c[1])
           + (c[4] - c[1] - 1) * 64 + 192) \div 256)

\* Both with the colour of the first cycle for fractions (convert_one).
Converted(c, sf, tf, prev) ==
  prev.b + (IF sf + tf >= 32
            THEN prev.r * (c[3] - c[4]) + prev.g * (c[2] - c[4]) + 128
            ELSE prev.r * (c[2] - c[1]) + prev.g * (c[3] - c[1]) + 128) \div 256
ConvertedMiddle(c, prev) ==
  prev.b + (prev.r * (c[2] - c[1]) + prev.g * (c[3] - c[1])
            + (c[4] - c[1] - 1) * 64 + 192) \div 256

\* YUV to RGB, by the coefficients of SET_CONVERT.
YuvToRgb(t, k) ==
  Colour(t.b + ((k[1] * t.g + 128) \div 256), t.b + ((k[2] * t.r + k[3] * t.g + 128) \div 256),
         t.b + ((k[4] * t.r + 128) \div 256), t.b)

NineBits(colour) == [x \in DOMAIN colour |-> colour[x] % 512]
Signed9(v) == ((v + 256) % 512) - 256

\* modes: [sample, bilerp, convert, middle, tlut, ia]; previous: the first cycle's.
texture_pipeline_cycle(c, d, tile, modes, previous, k) ==
  LET s == Filtered(tile.s, c, IF tile.format = Yuv THEN 2 ELSE 1)
      t == Filtered(tile.t, d, 1)
      texel(i, j) == IF modes.tlut THEN fetch_texel_entlut(i, j, tile, modes.ia)
                     ELSE fetch_texel(i, j, tile)
      corners == IF modes.tlut
                 THEN fetch_texel_entlut_quadro(<<s.texel, s.next>>, <<t.texel, t.next>>, tile, modes.ia)
                 ELSE fetch_texel_quadro(<<s.texel, s.next>>, <<t.texel, t.next>>, tile)
      channel(x) == [i \in 1 .. 4 |-> corners[i][x]]
      middle == modes.middle /\ s.fraction = 16 /\ t.fraction = 16
      near == texel(Unfiltered(tile.s, c), Unfiltered(tile.t, d))
  IN IF modes.sample /\ modes.bilerp
     THEN NineBits([x \in {"r", "g", "b", "a"} |->
            CASE middle /\ modes.convert -> ConvertedMiddle(channel(x), previous)
              [] middle /\ ~modes.convert -> Middle(channel(x), s.fraction, t.fraction)
              [] ~middle /\ modes.convert ->
                   Converted(channel(x), s.fraction, t.fraction, previous)
              [] ~middle /\ ~modes.convert -> Mixed(channel(x), s.fraction, t.fraction)])
     ELSE IF modes.sample
     THEN NineBits(YuvToRgb(IF modes.convert THEN previous ELSE texel(s.texel, t.texel), k))
     ELSE IF modes.bilerp
     THEN IF modes.convert THEN Grey(previous.b)
          ELSE [near EXCEPT !.r = near.r % 512, !.g = near.g % 512]
     ELSE LET of == IF modes.convert THEN previous ELSE near
          IN NineBits(YuvToRgb([r |-> Signed9(of.r), g |-> Signed9(of.g), b |-> Signed9(of.b)], k))

-------------------------------------------------------------------------------
\* What the picture holds, from the description of the load alone.

\* The first byte of a line: a block is consecutive lines of the tile drawn,
\* twice as long in RDRAM if the texels are split.
LineAt(job, line) ==
  IF job.block
  THEN job.ti.at + Bytes(job.ti.width * job.corners.tl + job.corners.sl, job.ti.size)
       + line * job.draw.line * (IF job.upper /\ job.draw.tmem < 256 THEN 16 ELSE 8)
  ELSE job.ti.at + Bytes(job.ti.width * ((job.corners.tl \div 4) + line)
                         + (job.corners.sl \div 4), job.ti.size)

PictureBits(job, s, line) ==
  LET at == LineAt(job, line)
      word(a) == Ram(a) * 256 + Ram(a + 1)
  IN CASE job.draw.format = Yuv ->
            <<Ram(at + 4 * (s \div 2)), Ram(at + 4 * (s \div 2) + 2), Ram(at + 2 * s + 1)>>
       [] job.draw.format = Rgba /\ job.draw.size = 3 -> <<word(at + 4 * s), word(at + 4 * s + 2)>>
       [] job.draw.size = 0 /\ job.draw.format # Yuv -> <<HalfOf(Ram(at + s \div 2), s)>>
       [] job.draw.size = 1 /\ job.draw.format # Yuv -> <<Ram(at + s)>>
       [] OTHER -> <<word(at + 2 * s)>>

Loaded == texture # NoTexture
Columns == 0 .. texture.job.columns - 1
Lines == 0 .. texture.job.lines - 1

\* Every texel of the picture is fetched as it was loaded, alone and as a
\* corner of a filter's four: the loads' bank and half arithmetic and the
\* fetches' masks and swaps undo each other, for every format, for tiles
\* and for blocks (edgewalker_for_loads, loading_pipeline, get_tmem_idx
\* against fetch_texel and fetch_texel_quadro).
TextureRoundTrip ==
  Loaded =>
    LET job == texture.job
        colour(s, t) == ColourOf(job.draw, PictureBits(job, s, t))
    IN \A t \in Lines, s \in Columns :
         LET s2 == Lesser(s + 1, job.columns - 1)
             t2 == Lesser(t + 1, job.lines - 1)
         IN /\ fetch_texel(s, t, job.draw) = colour(s, t)
            /\ fetch_texel_quadro(<<s, s2>>, <<t, t2>>, job.draw)
                 = <<colour(s, t), colour(s2, t), colour(s, t2), colour(s2, t2)>>

PaletteIndex(job, s, t) ==
  LET bits == PictureBits(job, s, t)[1]
  IN CASE job.draw.size = 0 -> job.draw.palette * 16 + bits
       [] job.draw.size = 1 -> bits
       [] job.draw.size = 2 -> bits \div 256

\* The entries of a palette loaded at a word of the memory.
PaletteEntries == (palette.tmem - 256) ..
                  (palette.tmem - 256 + (palette.corners.sh - palette.corners.sl) \div 4)
PaletteEntry(n) ==
  LET at == palette.at + Bytes((palette.corners.tl \div 4) + (palette.corners.sl \div 4)
                               + n - (palette.tmem - 256), 2)
  IN Ram(at) * 256 + Ram(at + 1)

InPalette(job, s, t) ==
  /\ palette # NoPalette /\ job.draw.format # Yuv
  /\ PaletteIndex(job, s, t) \in PaletteEntries

\* A texel drawn with a palette has the colour the palette holds for it,
\* although picture and palette share the memory and the palette is read
\* through the copy of the first bank only (LOAD_TLUT, fetch_texel_entlut).
PaletteRight ==
  Loaded =>
    LET job == texture.job
    IN \A t \in Lines, s \in Columns : InPalette(job, s, t) =>
         LET entry == PaletteEntry(PaletteIndex(job, s, t))
         IN /\ fetch_texel_entlut(s, t, job.draw, FALSE) = Rgba16(entry)
            /\ fetch_texel_entlut_quadro(<<s, s>>, <<t, t>>, job.draw, TRUE)[4] = Ia16(entry)

\* The copy mode finds the same texels, although it computes the addresses
\* of four at a time in nibbles and reads every bank once (read_tmem_copy,
\* fetch_qword_copy). 32-bit and YUV texels have no such reading.
CopyRight ==
  Loaded /\ texture.job.draw.size < 3 /\ texture.job.draw.format # Yuv =>
    LET job == texture.job
        tile == job.draw
        bits(s, t) == PictureBits(job, s, t)[1]
        byte(v) == CASE tile.size = 0 /\ tile.format = Ci -> tile.palette * 16 + v
                     [] tile.size = 1 /\ tile.format = Ia -> (v \div 16) * 17
                     [] tile.size = 1 /\ tile.format # Ia -> v
                     [] OTHER -> ColourOf(tile, <<v>>).r
    IN \A t \in Lines, s \in 0 .. job.columns - 4 :
         LET plain == fetch_qword_copy(s * 32, t * 32, tile, FALSE, FALSE)
             coloured == fetch_qword_copy(s * 32, t * 32, tile, TRUE, FALSE)
         IN \A i \in 1 .. 4 :
              /\ tile.size < 2 => plain.bytes[i] = byte(bits(s + i - 1, t))
              /\ tile.size = 2 => plain.shorts[i] = bits(s + i - 1, t)
              /\ InPalette(job, s + i - 1, t) /\ tile.size < 2 =>
                   coloured.shorts[i] = PaletteEntry(PaletteIndex(job, s + i - 1, t))

Plain == [sample |-> TRUE, bilerp |-> TRUE, convert |-> FALSE, middle |-> FALSE,
          tlut |-> FALSE, ia |-> FALSE]

\* A filtered texel is a mixture: between the least and the greatest of the
\* four texels around the point; on the line from one texel to the next,
\* their linear mixture, across and down; in the very middle, the average
\* of the four (the two triangles and mid_texel of texture_pipeline_cycle).
FilterMixes ==
  Loaded /\ texture.job.draw.format # Yuv =>
    LET job == texture.job
    IN \A s \in {0, job.columns - 2}, f \in {0, 9, 16}, g \in {0, 16, 31} :
         LET t == job.lines - 2
             colour(i, j) == ColourOf(job.draw, PictureBits(job, s + i, t + j))
             four == {colour(i, j) : i \in {0, 1}, j \in {0, 1}}
             at(i, j, middle) ==
               texture_pipeline_cycle(s * 32 + i, t * 32 + j, job.draw,
                                      [Plain EXCEPT !.middle = middle], Grey(0), <<0, 0, 0, 0>>)
             near(n, m) == n - m \in -32 .. 32
         IN \A x \in {"r", "g", "b", "a"} :
              /\ \E c \in four : c[x] <= at(f, g, FALSE)[x]
              /\ \E c \in four : c[x] >= at(f, g, FALSE)[x]
              /\ near(32 * at(f, 0, FALSE)[x], (32 - f) * colour(0, 0)[x] + f * colour(1, 0)[x])
              /\ near(32 * at(0, g, FALSE)[x], (32 - g) * colour(0, 0)[x] + g * colour(0, 1)[x])
              /\ near(32 * at(16, 16, TRUE)[x],
                      8 * (colour(0, 0)[x] + colour(1, 0)[x] + colour(0, 1)[x] + colour(1, 1)[x]))

\* A texel as a whole: its coordinate, its place in texture memory, its colour,
\* and the mix of the ones around it.
TexelsRight == SampleRight /\ TextureRoundTrip /\ PaletteRight /\ CopyRight /\ FilterMixes
==============================================================================
