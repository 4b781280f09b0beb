------------------------------- MODULE RdpSpans -------------------------------
(***************************************************************************)
(* From the 44 words of a primitive to the pixels it covers. The edge      *)
(* walker goes down the two edges in quarters of a line, keeps for every   *)
(* line where they are (in eighths of a pixel, clipped by the scissor) and *)
(* where the attributes start; the coverage of a pixel is the set of its   *)
(* eight samples between the edges, and the attributes are stepped from    *)
(* the start to each pixel.                                                *)
(*                                                                         *)
(* A sample is <<quarter, column>>: columns 0 and 2 of the even quarters   *)
(* of a line, 1 and 3 of the odd ones. The coverage byte of the code has a *)
(* bit for each of the eight.                                              *)
(***************************************************************************)
EXTENDS Integers, Sequences, FiniteSets

CONSTANTS
  Scissors,      \* [xh, yh, xl, yl, field, odd], in quarters of a pixel and a line
  SpanTriples    \* <<left, right, whole>>: two primitives with a common edge, and both as one

VARIABLES
  scissor,    \* clip, scfield, sckeepodd
  drawn       \* the primitives drawn, and the spans made of them

spanVars == <<scissor, drawn>>

NothingDrawn == <<>>

SpanInit ==
  /\ scissor = [xh |-> 0, yh |-> 0, xl |-> 8192, yl |-> 8192, field |-> FALSE, odd |-> FALSE]
  /\ drawn = NothingDrawn

rdp_set_scissor(s) == drawn = NothingDrawn /\ scissor' = s /\ UNCHANGED drawn

Bit(x, n) == (x \div 2 ^ n) % 2 = 1
SIGN(x, bits) == ((x + 2 ^ (bits - 1)) % 2 ^ bits) - 2 ^ (bits - 1)
\* x & ~(n - 1)
Cut(x, n) == x - (x % n)
Largest(xs) == CHOOSE x \in xs : \A y \in xs : x >= y
Smallest(xs) == CHOOSE x \in xs : \A y \in xs : x <= y

-------------------------------------------------------------------------------
\* edgewalker_for_prims, the words. A word is <<upper, lower>> halfword, the
\* upper one signed: 32 bits are put together only where they may be large.

Word(p, n) == p[n][1] * 65536 + p[n][2]

Edges(p) ==
  [flip |-> Bit(p[0][1], 7),
   yl |-> SIGN(p[0][2], 14), ym |-> SIGN(p[1][1], 14), yh |-> SIGN(p[1][2], 14),
   xl |-> SIGN(Word(p, 2), 28), xh |-> SIGN(Word(p, 4), 28), xm |-> SIGN(Word(p, 6), 28),
   dxldy |-> SIGN(Word(p, 3), 30), dxhdy |-> SIGN(Word(p, 5), 30),
   dxmdy |-> SIGN(Word(p, 7), 30), falling |-> p[5][1] < 0]

\* Whole halves and fractions of r, g, b, a are in words 8 to 23, of s, t, w
\* in words 24 to 39, by pairs of attributes; z has words of its own.
Attributes == {"r", "g", "b", "a", "s", "t", "w", "z"}

AttributeWord(name) ==
  CASE name \in {"r", "g"} -> 8 [] name \in {"b", "a"} -> 9
    [] name \in {"s", "t"} -> 24 [] name = "w" -> 25

Joined(p, n, name) ==
  LET whole == p[AttributeWord(name) + n]
      fraction == p[AttributeWord(name) + n + 4]
  IN IF name \in {"r", "b", "s", "w"} THEN whole[1] * 65536 + (fraction[1] % 65536)
     ELSE SIGN(whole[2], 16) * 65536 + fraction[2]

Slopes(p, name) ==
  IF name = "z" THEN [v |-> Word(p, 40), dx |-> Word(p, 41), de |-> Word(p, 42), dy |-> Word(p, 43)]
  ELSE [v |-> Joined(p, 0, name), dx |-> Joined(p, 2, name),
        de |-> Joined(p, 8, name), dy |-> Joined(p, 10, name)]

\* spans_ds and its like: what a pixel adds. z keeps its fraction.
Step(slopes, name) == IF name = "z" THEN slopes.dx ELSE Cut(slopes.dx, 32)

\* do_offset: the start of a line is taken three quarters down.
Offset(e) == e.falling = e.flip
AtQuarter(e) == IF Offset(e) THEN 3 ELSE 0
Diff(e, slopes) ==
  LET de == Cut(slopes.de, 512)
      dy == Cut(slopes.dy, 512)
  IN IF Offset(e) THEN de - (de \div 4) - dy + (dy \div 4) ELSE 0

\* ADJUST_ATTR_PRIM: from the edge back to the left side of its pixel.
Adjusted(e, slopes, value, xfrac) ==
  Cut(Cut(value, 512) + Diff(e, slopes) - xfrac * Cut(slopes.dx \div 256, 2), 1024)

\* yllimit and yhlimit.
LowLimit(e) ==
  IF Bit(e.yl, 13) \/ (~Bit(e.yl, 12) /\ e.yl % 4096 < scissor.yl) THEN e.yl ELSE scissor.yl
HighLimit(e) ==
  IF ~Bit(e.yh, 13) /\ (Bit(e.yh, 12) \/ e.yh >= scissor.yh) THEN e.yh ELSE scissor.yh

\* Where the edges are at quarter k: the edge of the minor side changes at ym.
MajorAt(e, k) == Cut(e.xh, 2) + (k - Cut(e.yh, 4)) * Cut(e.dxhdy \div 4, 2)
MinorAt(e, k) ==
  IF e.ym \in Cut(e.yh, 4) .. k
  THEN Cut(e.xl, 2) + (k - e.ym) * Cut(e.dxldy \div 4, 2)
  ELSE Cut(e.xm, 2) + (k - Cut(e.yh, 4)) * Cut(e.dxmdy \div 4, 2)

\* An edge in eighths of a pixel, the last bit set if anything is beyond the
\* quarters, and clipped.
Clipped(x) ==
  LET sticky == IF (x \div 2) % 8192 > 0 THEN 1 ELSE 0
      low == Cut((x \div 8192) % 8192, 2) + sticky
      under == Bit(x, 27) \/ (low < scissor.xh * 2 /\ ~Bit(x, 26))
      at == IF under THEN scissor.xh * 2 ELSE Cut((x \div 8192) % 16384, 2) + sticky
      over == at \div 8192 = 1 \/ at % 8192 >= scissor.xl * 2
  IN [x |-> (IF over THEN scissor.xl * 2 ELSE at) % 8192, under |-> under, over |-> over]

\* curcross compares quarters of a pixel of 28-bit numbers.
Quarters(x) == (x \div 16384 + 8192) % 16384

WalkQuarter(e, k) ==
  LET major == Clipped(MajorAt(e, k))
      minor == Clipped(MinorAt(e, k))
      crossed == IF e.flip THEN Quarters(MinorAt(e, k)) < Quarters(MajorAt(e, k))
                 ELSE Quarters(MajorAt(e, k)) < Quarters(MinorAt(e, k))
  IN [major |-> major.x, minor |-> minor.x,
      invalid |-> k < HighLimit(e) \/ k >= LowLimit(e) \/ crossed,
      over |-> major.over /\ minor.over, under |-> major.under /\ minor.under]

\* A line: rx is the side of the major edge, lx the other. Only lines from
\* the scissor's first are walked in whole.
WalkLine(p, e, j) ==
  LET quarter == [i \in 0 .. 3 |-> WalkQuarter(e, 4 * j + i)]
      valid == {i \in 0 .. 3 : ~quarter[i].invalid}
      pixels(side) == {quarter[i][side] \div 8 : i \in valid}
      major == MajorAt(e, 4 * j + AtQuarter(e))
  IN [quarter |-> quarter,
      rx |-> IF e.flip THEN Smallest({4095} \union pixels("major"))
             ELSE Largest({0} \union pixels("major")),
      lx |-> IF e.flip THEN Largest({0} \union pixels("minor"))
             ELSE Smallest({4095} \union pixels("minor")),
      unscrx |-> SIGN(major \div 65536, 12),
      start |-> [name \in Attributes |->
                  LET slopes == Slopes(p, name)
                  IN Adjusted(e, slopes, slopes.v + (j - (e.yh \div 4)) * slopes.de,
                              (major \div 256) % 256)],
      validline |-> /\ valid # {}
                    /\ \E i \in 0 .. 3 : ~quarter[i].over
                    /\ \E i \in 0 .. 3 : ~quarter[i].under
                    /\ scissor.field => (scissor.odd = (j % 2 = 1))]

\* The lines that are rendered. The one after the last, which the renderer
\* looks at too, is made invalid in either of two ways and left out here.
edgewalker_for_prims(p) ==
  LET e == Edges(p)
  IN [edges |-> e, line |-> [j \in HighLimit(e) \div 4 .. LowLimit(e) \div 4 |-> WalkLine(p, e, j)]]

\* leftcvghex and rightcvghex: the samples of a quarter right and left of an edge.
ColumnsOf(quarter) == IF quarter % 2 = 0 THEN {0, 2} ELSE {1, 3}
\* Mutant: the right edge is rounded down.
rightcvghexDown(x, quarter) == {c \in ColumnsOf(quarter) : c < (x % 8) \div 2}

leftcvghex(x, quarter) == {c \in ColumnsOf(quarter) : c >= ((x % 8) + 1) \div 2}
rightcvghex(x, quarter) == {c \in ColumnsOf(quarter) : c < ((x % 8) + 1) \div 2}

\* The samples of pixel k in a quarter, between an edge on its left and one
\* on its right.
Between(left, right, k, quarter) ==
  CASE left \div 8 < k /\ k < right \div 8 -> ColumnsOf(quarter)
    [] left \div 8 = k /\ k < right \div 8 -> leftcvghex(left, quarter)
    [] left \div 8 < k /\ k = right \div 8 -> rightcvghex(right, quarter)
    [] left \div 8 = k /\ k = right \div 8 -> leftcvghex(left, quarter) \intersect rightcvghex(right, quarter)
    [] OTHER -> {}

compute_cvg_flip(line, k) ==
  UNION {LET q == line.quarter[i]
         IN {<<i, c>> : c \in IF q.invalid THEN {} ELSE Between(q.major, q.minor, k, i)} : i \in 0 .. 3}
compute_cvg_noflip(line, k) ==
  UNION {LET q == line.quarter[i]
         IN {<<i, c>> : c \in IF q.invalid THEN {} ELSE Between(q.minor, q.major, k, i)} : i \in 0 .. 3}

\* A line of render_spans_1cycle_complete, as far as its pixels and their
\* attributes go: from rx, where the attributes have been stepped from the
\* edge's pixel to the scissor, to lx.
RenderLine(p, e, line) ==
  LET step(name) == IF e.flip THEN Step(Slopes(p, name), name) ELSE -Step(Slopes(p, name), name)
      skipped == (IF e.flip THEN line.rx - line.unscrx ELSE line.unscrx - line.rx) % 4096
      pixels == IF ~line.validline THEN {} ELSE IF e.flip THEN line.rx .. line.lx ELSE line.lx .. line.rx
  IN [k \in pixels |->
       [samples |-> IF e.flip THEN compute_cvg_flip(line, k) ELSE compute_cvg_noflip(line, k),
        at |-> [name \in Attributes |->
                 line.start[name]
                 + step(name) * (skipped + IF e.flip THEN k - line.rx ELSE line.rx - k)]]]

Render(p) ==
  LET walked == edgewalker_for_prims(p)
  IN [edges |-> walked.edges,
      pixels |-> [j \in DOMAIN walked.line |-> RenderLine(p, walked.edges, walked.line[j])]]

Draw(triple) ==
  /\ drawn = NothingDrawn
  /\ drawn' = [i \in 1 .. 3 |-> [words |-> triple[i], shown |-> Render(triple[i])]]
  /\ UNCHANGED scissor

SpanNext ==
  \/ \E s \in Scissors : rdp_set_scissor(s)
  \/ \E triple \in SpanTriples : Draw(triple)

SpanSpec == SpanInit /\ [][SpanNext]_spanVars

-------------------------------------------------------------------------------
\* The samples primitive i covers: <<line, pixel, quarter, column>>.
Covered(i) ==
  UNION {UNION {{<<j, k, sample[1], sample[2]>> : sample \in drawn[i].shown.pixels[j][k].samples}
                : k \in DOMAIN drawn[i].shown.pixels[j]} : j \in DOMAIN drawn[i].shown.pixels}

\* The exact edges of a primitive at a quarter of a line, in 65536ths of a pixel.
LeftEdge(e, k) == IF e.flip THEN MajorAt(e, k) ELSE MinorAt(e, k)
RightEdge(e, k) == IF e.flip THEN MinorAt(e, k) ELSE MajorAt(e, k)

\* Two primitives with a common edge cover each sample around it exactly
\* once, together what the primitive without the edge covers: there is no
\* gap and no overlap, whichever sides of the primitives the edge is, at
\* whatever fraction of a pixel and wherever the scissor cuts
\* (compute_cvg_flip, compute_cvg_noflip and the rounding of the edges).
EdgesShared ==
  drawn # NothingDrawn =>
    /\ Covered(1) \intersect Covered(2) = {}
    /\ Covered(1) \union Covered(2) = Covered(3)

\* The covered samples are those on or right of the left edge and left of
\* the right one, below the top and above the bottom, and inside the
\* scissor, in lines of the field that is drawn: eighths with a sticky bit,
\* the clipping, the limits of the lines and the bounds rx and lx lose none
\* (edgewalker_for_prims, compute_cvg_flip, compute_cvg_noflip).
CoverageExact ==
  drawn # NothingDrawn =>
    \A i \in 1 .. 3 :
      LET e == drawn[i].shown.edges
          covered == Covered(i)
      IN \A y \in -4 .. 20, x \in -8 .. 80 :
           LET s == <<y \div 4, x \div 4, y % 4, x % 4>>
           IN x % 2 = y % 2 =>
                (s \in covered <=>
                  /\ y \in e.yh .. e.yl - 1 /\ y \in scissor.yh .. scissor.yl - 1
                  /\ x \in scissor.xh .. scissor.xl - 1
                  /\ LeftEdge(e, y) <= 16384 * x /\ 16384 * x < RightEdge(e, y)
                  /\ scissor.field => scissor.odd = (s[1] % 2 = 1))

\* At every pixel drawn an attribute has the value of the plane its four
\* words describe, but for what the fixed point cuts off: the start three
\* quarters down (do_offset), the way back to the side of the pixel, the
\* lines and pixels the scissor skips. (ADJUST_ATTR_PRIM, ADDVALUES_PRIM,
\* the scdiff of render_spans_1cycle_complete.)
AttributesOnPlane ==
  drawn # NothingDrawn =>
    \A i \in 1 .. 3 :
      LET e == drawn[i].shown.edges
      IN \A j \in DOMAIN drawn[i].shown.pixels : \A k \in DOMAIN drawn[i].shown.pixels[j] :
           \A name \in Attributes :
             LET plane == Slopes(drawn[i].words, name)
                 across == plane.dx \div 256
                 exact == plane.v + (j - (e.yh \div 4)) * plane.dy
                          + ((k * 256 - e.xh \div 256) * across)
             IN drawn[i].shown.pixels[j][k].at[name] - exact \in -6144 .. 6144

\* A triangle as a whole: its edges, its coverage, and the attributes across it.
SpansRight == EdgesShared /\ CoverageExact /\ AttributesOnPlane
===============================================================================
