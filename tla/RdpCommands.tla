----------------------------- MODULE RdpCommands ------------------------------
(***************************************************************************)
(* The command list of the display processor. The CPU or the RSP writes    *)
(* DPC_START and, as it appends commands, DPC_END; each write of DPC_END   *)
(* runs rdp_process_list, which copies the new words out of RDRAM or DMEM  *)
(* in chunks, executes the commands that are there in whole, and keeps the *)
(* beginning of one that is not.                                           *)
(*                                                                         *)
(* A word of the list is known by where it is: <<memory, index>>. What a   *)
(* command reads from it, other than its number, is its identity. The      *)
(* second half of the module is what the triangle and rectangle commands   *)
(* make of their words: the 44 words edgewalker_for_prims takes.           *)
(***************************************************************************)
EXTENDS Integers, SequencesExt

CONSTANTS
  RdpRdram, RdpDmem,   \* the numbers (bits 24 to 29) the words of the two memories hold
  RdpChunk,            \* the words copied at a time (0x10000)
  RdpBuffer,           \* the words rdp_cmd_data holds (0x10000)
  RdpEnds,             \* the byte addresses written to DPC_START and DPC_END
  RdpBadWords,         \* the commands that crash the pipeline
  RectCoordinates, RectTextures, RectSlopes   \* the fields of rectangles

VARIABLES
  dp,     \* the registers, rdp_cmd_data from rdp_cmd_cur on, rdp_cmd_cur, the crash
  list,   \* history: what the last write of DPC_END had to do, and did
  rect    \* a rectangle and the words made of it

rdpVars == <<dp, list, rect>>

\* rdp_command_length, in words.
CommandWords(number) ==
  CASE number \in 8 .. 15 ->
         8 + (IF (number \div 4) % 2 = 1 THEN 16 ELSE 0)
           + (IF (number \div 2) % 2 = 1 THEN 16 ELSE 0)
           + (IF number % 2 = 1 THEN 4 ELSE 0)
    [] number \in {36, 37} -> 4
    [] OTHER -> 2

Triangles == 8 .. 15
SyncFull == 41

ASSUME RdpAssumption ==
  /\ RdpRdram \in Seq(0 .. 63) /\ RdpDmem \in Seq(0 .. 63)
  /\ RdpChunk >= 44 /\ RdpBuffer >= RdpChunk
  /\ RdpEnds \subseteq Nat

\* RREADIDX32, and the & 0x3ff of DMEM: past RDRAM is 0, DMEM wraps.
NumberAt(word) ==
  LET memory == IF word[1] = "dmem" THEN RdpDmem ELSE RdpRdram
  IN IF word[2] < Len(memory) THEN memory[word[2] + 1] ELSE 0

WordAt(xbus, index) ==
  IF xbus THEN <<"dmem", index % Len(RdpDmem)>> ELSE <<"rdram", index>>

NoRect == [kind |-> "none"]

RdpInit ==
  /\ dp = [end |-> 0, current |-> 0, xbus |-> FALSE, freeze |-> FALSE,
           flush |-> FALSE, ready |-> FALSE, data |-> <<>>, cur |-> 0, crashed |-> FALSE,
           intr |-> FALSE]
  /\ list = [stream |-> <<>>, ran |-> <<>>]
  /\ rect = NoRect

-----------------------------------------------------------------------------
(* rdp_process_list.                                                       *)

\* The inner loop: the commands at the head of words that are there in whole,
\* [ran, rest, crashed]. No command runs once the pipeline has crashed.
RECURSIVE Execute(_, _, _)
Execute(words, ran, crashed) ==
  LET length == CommandWords(NumberAt(words[1]))
  IN IF words = <<>> \/ crashed \/ Len(words) < length
     THEN [ran |-> ran, rest |-> words, crashed |-> crashed]
     ELSE Execute(SubSeq(words, length + 1, Len(words)),
                  Append(ran, SubSeq(words, 1, length)), words[1] \in RdpBadWords)

\* A mutant of Chunks: what is left of a chunk is not read again.
RECURSIVE ChunksOnce(_, _, _, _)
ChunksOnce(d, index, remaining, ran) ==
  LET toload  == Min({remaining, RdpChunk})
      loaded  == d.data \o [n \in 1 .. toload |-> WordAt(d.xbus, index + n - 1)]
      run     == Execute(loaded, <<>>, d.crashed)
      partial == run.rest # <<>> /\ ~run.crashed
      done    == [d EXCEPT !.data = <<>>, !.cur = 0, !.crashed = run.crashed]
  IN CASE remaining = 0 -> [dp |-> [d EXCEPT !.ready = TRUE], ran |-> ran]
       [] remaining > 0 /\ partial /\ remaining = toload ->
            [dp |-> [d EXCEPT !.data = run.rest, !.cur = @ + Len(loaded) - Len(run.rest)],
             ran |-> ran \o run.ran]
       [] OTHER -> ChunksOnce(done, index + toload, remaining - toload, ran \o run.ran)

\* The outer loop over the chunks: the words that are left over go back to
\* be read again with the next chunk, or stay in the buffer at the end of the
\* list, where rdp_cmd_cur and rdp_cmd_ptr are not reset.
RECURSIVE Chunks(_, _, _, _)
Chunks(d, index, remaining, ran) ==
  LET toload  == Min({remaining, RdpChunk})
      loaded  == d.data \o [n \in 1 .. toload |-> WordAt(d.xbus, index + n - 1)]
      run     == Execute(loaded, <<>>, d.crashed)
      partial == run.rest # <<>> /\ ~run.crashed
      again   == Len(run.rest)
      done    == [d EXCEPT !.data = <<>>, !.cur = 0, !.crashed = run.crashed]
  IN CASE remaining = 0 -> [dp |-> [d EXCEPT !.ready = TRUE], ran |-> ran]
       [] remaining > 0 /\ partial /\ remaining = toload ->
            [dp |-> [d EXCEPT !.data = run.rest, !.cur = @ + Len(loaded) - again],
             ran |-> ran \o run.ran]
       [] remaining > 0 /\ partial /\ remaining # toload ->
            Chunks(done, index + toload - again, (remaining - toload) + again, ran \o run.ran)
       [] remaining > 0 /\ ~partial ->
            Chunks(done, index + toload, remaining - toload, ran \o run.ran)

\* A write of DPC_END. The new words are those of the aligned addresses; the
\* buffer is never filled past its end here (rdp_cmd_ptr is not checked).
WriteEnd(address) ==
  LET from  == (dp.current \div 8) * 2
      words == (address \div 8) * 2 - from
      fresh == [dp EXCEPT !.end = address, !.freeze = FALSE]
      after == Chunks(fresh, from, words, <<>>)
  IN /\ rect = NoRect
     /\ dp.cur + Len(dp.data) + words <= RdpBuffer
     /\ IF words <= 0 THEN dp' = fresh /\ list' = [stream |-> dp.data, ran |-> <<>>]
        ELSE /\ dp' = [after.dp EXCEPT !.current = address, !.intr = @ \/ \E n \in DOMAIN after.ran :
                                          NumberAt(after.ran[n][1]) = SyncFull]
             /\ list' = [stream |-> dp.data \o [n \in 1 .. words |-> WordAt(dp.xbus, from + n - 1)],
                         ran |-> after.ran]
     /\ UNCHANGED rect

\* A write of DPC_START, which is kept only to be read back.
WriteStart(address) ==
  /\ dp' = [dp EXCEPT !.current = address]
  /\ list' = [stream |-> dp.data, ran |-> <<>>]
  /\ UNCHANGED rect

\* A write of DPC_STATUS: of a pair of a clear and a set bit the clear wins, and FREEZE
\* cannot be set.
WriteStatus(bits) ==
  /\ dp' = [dp EXCEPT !.xbus = "clear_xbus" \notin bits /\ (@ \/ "set_xbus" \in bits),
                      !.freeze = @ /\ "clear_freeze" \notin bits,
                      !.flush = "clear_flush" \notin bits /\ (@ \/ "set_flush" \in bits)]
  /\ list' = [stream |-> dp.data, ran |-> <<>>]
  /\ UNCHANGED rect

AcknowledgeDp ==
  /\ dp.intr
  /\ dp' = [dp EXCEPT !.intr = FALSE]
  /\ list' = [stream |-> dp.data, ran |-> <<>>]
  /\ UNCHANGED rect

-----------------------------------------------------------------------------
(* The words of a triangle, from rdp_tri_noshade to rdp_tri_texshade_z:    *)
(* copies <<to, from, words>> into 44 words that are 0 elsewhere.          *)

TriangleCopies ==
  [number \in Triangles |->
     CASE number = 8  -> {<<0, 0, 8>>}
       [] number = 9  -> {<<0, 0, 8>>, <<40, 8, 4>>}
       [] number = 10 -> {<<0, 0, 8>>, <<24, 8, 16>>}
       [] number = 11 -> {<<0, 0, 8>>, <<24, 8, 16>>, <<40, 24, 4>>}
       [] number = 12 -> {<<0, 0, 24>>}
       [] number = 13 -> {<<0, 0, 24>>, <<40, 24, 4>>}
       [] number = 14 -> {<<0, 0, 40>>}
       [] number = 15 -> {<<0, 0, 44>>}]

ewdata(command) ==
  LET copies == TriangleCopies[NumberAt(command[1])]
      From(n) == {copy \in copies : n \in copy[1] .. copy[1] + copy[3] - 1}
  IN [n \in 0 .. 43 |-> IF From(n) = {} THEN <<"zero">>
                        ELSE LET copy == CHOOSE c \in From(n) : TRUE
                             IN command[copy[2] + (n - copy[1]) + 1]]

-----------------------------------------------------------------------------
(* The words of a rectangle, as pairs of halves: rdp_fill_rect,            *)
(* rdp_tex_rect and rdp_tex_rect_flip. Coordinates have two bits of        *)
(* fraction; the slopes of the texture are signed with ten.                *)

\* yl |= 3 in the fill and copy modes.
LowerEdge(r) == IF r.cycle \in {"fill", "copy"} THEN (r.yl \div 4) * 4 + 3 ELSE r.yl

EdgeWord(x) == <<(x \div 4) % 1024, (x % 4) * 16384>>

Half(slope) == (slope \div 32) % 65536          \* (slope >> 5) & 0xffff

Fraction(slope) == (slope % 32) * 2048          \* (slope & 0x1f) << 11

RectWords(r) ==
  [n \in 0 .. 43 |->
     CASE n = 0 -> <<128 + r.tile, LowerEdge(r)>>     \* flip and the tile
       [] n = 1 -> <<LowerEdge(r), r.yh>>
       [] n \in {2, 6} -> EdgeWord(r.xl)
       [] n = 4 -> EdgeWord(r.xh)
       [] n = 24 /\ r.kind # "fill" -> <<r.s, r.t>>
       [] n = 26 /\ r.kind = "tex"  -> <<Half(r.dsdx), 0>>
       [] n = 30 /\ r.kind = "tex"  -> <<Fraction(r.dsdx), 0>>
       [] n \in {32, 34} /\ r.kind = "tex" -> <<0, Half(r.dtdy)>>
       [] n \in {36, 38} /\ r.kind = "tex" -> <<0, Fraction(r.dtdy)>>
       [] n = 26 /\ r.kind = "flip" -> <<0, Half(r.dtdy)>>
       [] n = 30 /\ r.kind = "flip" -> <<0, Fraction(r.dtdy)>>
       [] n \in {32, 34} /\ r.kind = "flip" -> <<Half(r.dsdx), 0>>
       [] n \in {36, 38} /\ r.kind = "flip" -> <<Fraction(r.dsdx), 0>>
       [] OTHER -> <<0, 0>>]

\* What edgewalker_for_prims takes out of the words, 32 bits at a time: a
\* coordinate from one word, a slope from the halves of two.
Signed(high, low) == (IF high >= 32768 THEN high - 65536 ELSE high) * 65536 + low

WalkerTakes(w) ==
  [flip |-> (w[0][1] \div 128) % 2 = 1, tile |-> w[0][1] % 8,
   yl |-> w[0][2] % 16384, ym |-> w[1][1] % 16384, yh |-> w[1][2] % 16384,
   xl |-> Signed(w[2][1], w[2][2]), xh |-> Signed(w[4][1], w[4][2]),
   xm |-> Signed(w[6][1], w[6][2]),
   s |-> Signed(w[24][1], w[28][1]), t |-> Signed(w[24][2], w[28][2]),
   dsdx |-> Signed(w[26][1], w[30][1]), dtdx |-> Signed(w[26][2], w[30][2]),
   dsde |-> Signed(w[32][1], w[36][1]), dtde |-> Signed(w[32][2], w[36][2]),
   dsdy |-> Signed(w[34][1], w[38][1]), dtdy |-> Signed(w[34][2], w[38][2])]

\* A rectangle, drawn by a program that sends no list besides.
DrawRect ==
  /\ rect = NoRect
  /\ dp.data = <<>> /\ list.stream = <<>> /\ dp.end = 0 /\ dp.current = 0
  /\ \E kind \in {"fill", "tex", "flip"}, cycle \in {"1", "2", "copy", "fill"} :
     \E xh \in RectCoordinates, yh \in RectCoordinates, w \in {4, 30}, h \in {0, 9} :
     \E st \in RectTextures, slopes \in RectSlopes :
       rect' = [kind |-> kind, cycle |-> cycle, tile |-> IF kind = "fill" THEN 0 ELSE 5,
                xh |-> xh, xl |-> xh + w, yh |-> yh, yl |-> yh + h,
                s |-> st[1], t |-> st[2], dsdx |-> slopes[1], dtdy |-> slopes[2]]
  /\ UNCHANGED <<dp, list>>

RdpNext ==
  \/ \E address \in RdpEnds : WriteStart(address) \/ WriteEnd(address)
  \/ \E bits \in {{"set_xbus", "set_flush"},
                  {"clear_xbus", "set_xbus", "clear_freeze", "clear_flush"}} : WriteStatus(bits)
  \/ AcknowledgeDp
  \/ DrawRect

RdpSpec == RdpInit /\ [][RdpNext]_rdpVars

-----------------------------------------------------------------------------
(* Properties. *)

\* The commands that ran are the list cut into commands, in order and without
\* a word lost, read twice or out of place, however the writes of DPC_END and
\* the chunks cut it; a command whose words are not all there yet waits, and
\* nothing follows a command that crashed the pipeline.
ListInOrder ==
  /\ LET flat == FlattenSeq(list.ran)
     IN flat \o dp.data = list.stream
          \/ (dp.crashed /\ IsPrefix(flat, list.stream))
  /\ \A n \in DOMAIN list.ran : Len(list.ran[n]) = CommandWords(NumberAt(list.ran[n][1]))
  /\ \A n \in DOMAIN list.ran : n < Len(list.ran) => list.ran[n][1] \notin RdpBadWords
  /\ dp.data # <<>> => Len(dp.data) < CommandWords(NumberAt(dp.data[1]))

\* The edge walker finds each group of a triangle's coefficients where it looks
\* for it: the groups follow each other in the command, and a group the number
\* does not name is 0.
TrianglesWhole ==
  \A n \in DOMAIN list.ran :
    LET command == list.ran[n]
        number  == NumberAt(command[1])
        shade   == IF (number \div 4) % 2 = 1 THEN 16 ELSE 0
        texture == IF (number \div 2) % 2 = 1 THEN 16 ELSE 0
        data    == ewdata(command)
    IN number \in Triangles =>
         /\ \A k \in 0 .. 7 : data[k] = command[k + 1]
         /\ \A k \in 0 .. 15 :
              /\ data[8 + k] = IF shade = 0 THEN <<"zero">> ELSE command[8 + k + 1]
              /\ data[24 + k] = IF texture = 0 THEN <<"zero">> ELSE command[8 + shade + k + 1]
         /\ \A k \in 0 .. 3 :
              data[40 + k] = IF number % 2 = 0 THEN <<"zero">>
                             ELSE command[8 + shade + texture + k + 1]

\* The edge walker walks the rectangle that was meant: its edges, and from
\* pixel to pixel and from line to line exactly the slopes of the command,
\* negative ones and fractions included (in a flipped one s goes down).
RectsExact ==
  LET v      == WalkerTakes(RectWords(rect))
      across == IF rect.kind = "flip" THEN <<0, rect.dtdy>> ELSE <<rect.dsdx, 0>>
      down   == IF rect.kind = "flip" THEN <<rect.dsdx, 0>> ELSE <<0, rect.dtdy>>
      At(x)  == x * 16384
  IN rect.kind # "none" =>
       /\ v.flip /\ v.tile = rect.tile
       /\ v.xh = At(rect.xh) /\ v.xl = At(rect.xl) /\ v.xm = v.xl
       /\ v.yh = rect.yh /\ v.ym = v.yl /\ v.yl \div 4 = rect.yl \div 4
       /\ v.yl = rect.yl \/ (rect.cycle \in {"copy", "fill"} /\ v.yl % 4 = 3)
       /\ rect.kind # "fill" =>
            /\ <<v.s, v.t>> = <<Signed(rect.s, 0), Signed(rect.t, 0)>>
            /\ <<v.dsdx, v.dtdx>> = <<across[1] * 2048, across[2] * 2048>>
            /\ <<v.dsde, v.dtde>> = <<down[1] * 2048, down[2] * 2048>>
            /\ <<v.dsdy, v.dtdy>> = <<v.dsde, v.dtde>>

\* The list as a whole: its commands, and the words that triangles and
\* rectangles are made of.
CommandsRight == ListInOrder /\ TrianglesWhole /\ RectsExact
=============================================================================
