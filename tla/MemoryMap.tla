------------------------------- MODULE MemoryMap -------------------------------
(***************************************************************************)
(* The bus: the red-black tree of address ranges in bus/memorymap.c, the   *)
(* table that bus_init of bus/controller.c puts into it, the reads and     *)
(* writes that go through it, and RDRAM and the registers of               *)
(* ri/controller.c behind them.                                            *)
(*                                                                         *)
(* A node is its index in map->mappings, and node 0 is nil. The tree is    *)
(* explored with a few ranges in every order, and with bus_init's own.     *)
(***************************************************************************)
EXTENDS Integers, Sequences, FiniteSets, Bitwise

CONSTANTS
  MapNodes,     \* 19: the nodes of the array, nil among them
  MapRanges,    \* ranges that are inserted in every order
  BusMask,      \* the lanes of a word, all of them
  BusMasks,     \* the lanes that a write may select
  BusWords      \* words that the CPU puts on the bus

ASSUME MapAssumption ==
  /\ MapNodes \in Nat /\ MapNodes > 1
  /\ \A r \in MapRanges : r.start \in Nat /\ r.length \in Nat \ {0}
  /\ BusMask \in Nat /\ BusMasks \cup BusWords \subseteq 0 .. BusMask

VARIABLES
  map,      \* struct memory_map
  mapped,   \* history: the ranges that were inserted
  table,    \* where they come from: "any" order, or bus_init with a 64DD or without
  ri,       \* a word of RDRAM and a register of the RI
  written   \* history: what they should hold, bit by bit

mapVars == <<map, mapped, table, ri, written>>

nil == 0
Nodes == 0 .. MapNodes - 1
Sides == {"left", "right"}
Opposite(side) == IF side = "left" THEN "right" ELSE "left"
NoRange == [start |-> 0, length |-> 1, device |-> "none"]

Last(r) == r.start + r.length - 1
Within(a, r) == r.start <= a /\ a <= Last(r)

create_memory_map ==
  [child |-> [s \in Sides |-> [n \in Nodes |-> nil]], parent |-> [n \in Nodes |-> nil],
   red |-> [n \in Nodes |-> FALSE], range |-> [n \in Nodes |-> NoRange],
   root |-> nil, next |-> 1, full |-> FALSE]

\* rotate_left and rotate_right: n goes down on this side, its child comes up.
Rotate(m, n, side) ==
  LET y == m.child[Opposite(side)][n]
      inner == m.child[side][y]
      above == m.parent[n]
  IN [m EXCEPT
       !.child = [s \in Sides |-> [k \in Nodes |->
         CASE s = side /\ k = y -> n
           [] s # side /\ k = n -> inner
           [] k = above /\ above # nil /\ m.child[s][k] = n -> y
           [] OTHER -> m.child[s][k]]],
       !.parent = [k \in Nodes |->
         CASE k = y -> above [] k = n -> y [] k = inner /\ inner # nil -> n [] OTHER -> @[k]],
       !.root = IF above = nil THEN y ELSE @]

\* The parent turns black and the grandparent red, and maybe the uncle black.
Recolor(m, n, uncle) ==
  LET p == m.parent[n] IN
  [m EXCEPT !.red = [k \in Nodes |->
     CASE k \in {p} \cup uncle -> FALSE [] k = m.parent[p] -> TRUE [] OTHER -> @[k]]]

\* Case 2: an inner grandchild is made an outer one.
Straighten(m, n, side) ==
  LET p == m.parent[n] IN
  IF n = m.child[Opposite(side)][p] THEN [map |-> Rotate(m, p, side), node |-> p]
  ELSE [map |-> m, node |-> n]

RECURSIVE Fixup(_, _)
Fixup(m, n) ==
  LET p == m.parent[n]
      g == m.parent[p]
      side == IF p = m.child["left"][g] THEN "left" ELSE "right"
      uncle == m.child[Opposite(side)][g]
      s == Straighten(m, n, side)
      c == Recolor(s.map, s.node, {})
  IN IF ~ m.red[p] THEN [m EXCEPT !.red[m.root] = FALSE]
     ELSE IF m.red[uncle] THEN Fixup(Recolor(m, n, {uncle}), g)
     ELSE Fixup(Rotate(c, c.parent[c.parent[s.node]], Opposite(side)), s.node)

\* The leaf below which an address is inserted.
RECURSIVE Bottom(_, _, _)
Bottom(m, check, start) ==
  LET side == IF start < m.range[check].start THEN "left" ELSE "right"
      below == m.child[side][check]
  IN IF below = nil THEN [node |-> check, side |-> side] ELSE Bottom(m, below, start)

\* Mutant of Linked: the new node does not know its parent.
LinkedUp(m, n, r) ==
  LET b == Bottom(m, m.root, r.start)
      new == [m EXCEPT !.next = n + 1, !.range[n] = r, !.red[n] = TRUE, !.parent[n] = nil]
  IN IF m.root = nil THEN [new EXCEPT !.root = n] ELSE [new EXCEPT !.child[b.side][b.node] = n]

Linked(m, n, r) ==
  LET b == IF m.root = nil THEN [node |-> nil, side |-> "left"] ELSE Bottom(m, m.root, r.start)
      new == [m EXCEPT !.next = n + 1, !.range[n] = r, !.red[n] = TRUE, !.parent[n] = b.node]
  IN IF m.root = nil THEN [new EXCEPT !.root = n] ELSE [new EXCEPT !.child[b.side][b.node] = n]

map_address_range(m, r) ==
  IF m.next >= MapNodes - 1 THEN [m EXCEPT !.full = TRUE]
  ELSE Fixup(Linked(m, m.next, r), m.next)

RECURSIVE Search(_, _, _)
Search(m, cur, a) ==
  LET r == m.range[cur]
      below == m.child[IF a < r.start THEN "left" ELSE "right"][cur]
  IN IF Within(a, r) THEN r ELSE IF below = nil THEN NoRange ELSE Search(m, below, a)

resolve_mapped_address(m, a) == Search(m, m.root, a)

-----------------------------------------------------------------------------
(***************************************************************************)
(* bus_init and the accesses of the CPU.                                   *)
(***************************************************************************)
BusRange(d, start, length) == [device |-> d, start |-> start, length |-> length]

Mappings == <<
  BusRange("ai", \h04500000, \h18), BusRange("dp", \h04100000, \h20),
  BusRange("mi", \h04300000, \h10), BusRange("pi", \h04600000, \h100000),
  BusRange("ri", \h04700000, \h20), BusRange("si", \h04800000, \h1C),
  BusRange("sp", \h04040000, \h20), BusRange("vi", \h04400000, \h38),
  BusRange("cart", \h10000000, \h0FC00000), BusRange("flashram", \h08000000, \h00010004),
  BusRange("dd", \h05000000, \h5C0), BusRange("ddipl", \h06000000, \h00400000),
  BusRange("pif", \h1FC00000, \h800), BusRange("rdramregs", \h03F00000, \h28),
  BusRange("sp2", \h04080000, \h8), BusRange("spmem", \h04000000, \h2000),
  BusRange("sram", \h08000000, \h0801FFFF) >>

\* Without a 64DD its two mappings answer like no device.
Present(r, dd) == IF r.device \in {"dd", "ddipl"} /\ ~ dd THEN [r EXCEPT !.device = "open"] ELSE r

RdramLength == \h00800000

\* The device that a read or a write of the CPU reaches.
Target(m, a) ==
  IF a < RdramLength THEN "rdram"
  ELSE LET r == resolve_mapped_address(m, a) IN IF r = NoRange THEN "open" ELSE r.device

bus_write_word(word, dqm) == word & dqm

\* write_rdram and write_ri_regs: the lanes of dqm are cleared, the word is added.
Merge(old, word, dqm) == (old & (BusMask - dqm)) | word

-----------------------------------------------------------------------------
\* The old word with the bits of dqm from the new one, bit by bit.
Bits(w) == {k \in 0 .. 7 : (w \div (2^k)) % 2 = 1}
Chosen(old, word, dqm) ==
  CHOOSE w \in 0 .. BusMask : Bits(w) = (Bits(old) \ Bits(dqm)) \cup (Bits(word) \cap Bits(dqm))

MapInit ==
  /\ map = create_memory_map /\ mapped = {}
  /\ table \in {"any", "disk", "nodisk"}
  /\ ri = [ram |-> 0, mode |-> 14]
  /\ written = ri

\* The range that is inserted next: any that is left, or bus_init's next one.
Following ==
  IF table = "any" THEN MapRanges \ mapped
  ELSE IF map.next > Len(Mappings) \/ map.full THEN {} ELSE {Present(Mappings[map.next], table = "disk")}

MapAddressRange ==
  \E r \in Following :
    /\ map' = map_address_range(map, r)
    /\ mapped' = IF map'.full THEN mapped ELSE mapped \cup {r}
    /\ UNCHANGED <<table, ri, written>>

\* A write of a byte, a halfword or a word of the CPU to RDRAM or to a register,
\* once the table is complete.
BusWrite ==
  /\ table # "any" /\ Following = {}
  /\ \E word \in BusWords, dqm \in BusMasks, to \in {"ram", "mode"} :
       /\ ri' = [ri EXCEPT ![to] = Merge(@, bus_write_word(word, dqm), dqm)]
       /\ written' = [written EXCEPT ![to] = Chosen(@, word, dqm)]
  /\ UNCHANGED <<map, mapped, table>>

MapNext == MapAddressRange \/ BusWrite

MapSpec == MapInit /\ [][MapNext]_mapVars

-----------------------------------------------------------------------------
Inserted == 1 .. map.next - 1

Children(n) == {map.child[s][n] : s \in Sides}

RECURSIVE Blacks(_)
Blacks(n) ==
  IF n = nil THEN {1}
  ELSE {b + (IF map.red[n] THEN 0 ELSE 1) : b \in UNION {Blacks(c) : c \in Children(n)}}

\* After every insertion, in whatever order the ranges come, the tree is a
\* red-black tree: its root and nil are black, a red node has no red child, and
\* all ways down meet as many black nodes.
MapBalanced ==
  /\ map.parent[map.root] = nil /\ ~ map.red[map.root] /\ ~ map.red[nil]
  /\ \A n \in Inserted : map.red[n] => \A c \in Children(n) : ~ map.red[c]
  /\ Cardinality(Blacks(map.root)) = 1

\* The links that the rotations follow agree: a child's parent is the node it
\* hangs on, and every inserted node hangs on one.
MapLinked ==
  /\ \A n \in Inserted : \A c \in Children(n) \ {nil} : map.parent[c] = n
  /\ \A n \in Inserted : n = map.root \/ n \in Children(map.parent[n])

\* The address just before, in, and just behind each range.
Probes == UNION {{r.start - 1, r.start, Last(r), Last(r) + 1} : r \in mapped}

\* What the ranges say: the cartridge's ROM before anything that reaches into
\* it, and the commands of a flash chip before the SRAM it stands in for.
Owner(a) ==
  LET at == {r \in mapped : Within(a, r)}
      first == {r \in at : r.device \in {"cart", "flashram"}}
  IN IF a < RdramLength /\ table # "any" THEN "rdram"
     ELSE IF at = {} THEN "open"
     ELSE IF first # {} /\ Cardinality(at) > 1 THEN (CHOOSE r \in first : TRUE).device
     ELSE (CHOOSE r \in at : TRUE).device

\* Every address reaches the device it belongs to, at the ends of its range as
\* in the middle, whatever shape the insertions have given the tree. The table
\* of bus_init overlaps: its last mapping, SRAM, runs over the FlashRAM's
\* registers and into the ROM, and only the place it gets in the tree keeps it
\* from answering for them.
MapResolves ==
  mapped # {} =>
    \A a \in Probes :
      IF table = "any"
      THEN LET r == resolve_mapped_address(map, a) IN
           IF \E q \in mapped : Within(a, q) THEN r \in mapped /\ Within(a, r) ELSE r = NoRange
      ELSE Following = {} => Target(map, a) = Owner(a)

\* bus_init finds room for all of its mappings: the array has one node for nil
\* and one that is never used.
MapRoom == table # "any" => ~ map.full

\* A write changes the lanes of its size and no others.
LanesKept == ri = written

\* The bus as a whole: however the ranges come in, the tree stays one that finds
\* the device of every address, and what is written through it is what is read.
MapRight == MapBalanced /\ MapLinked /\ MapResolves /\ MapRoom /\ LanesKept
=============================================================================
