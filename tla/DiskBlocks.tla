----------------------------- MODULE DiskBlocks -----------------------------
(***************************************************************************)
(* What a read of the disk promises the guest: the sectors of the blocks   *)
(* it asked for, each once, in the order in which they pass the head, and  *)
(* after the last of every block its C2 data, counted as one more sector.  *)
(***************************************************************************)
EXTENDS Naturals, Sequences

CONSTANT PerBlock    \* data sectors in a block

VARIABLES
  ask,   \* the first block asked for, and how many: one or two
  got    \* what has reached RDRAM for it

vars == <<ask, got>>

Asks == [first : {0, 1}, blocks : {1, 2}]

\* The n-th thing that is delivered, from 1.
Due(n) ==
  [block |-> (ask.first + (n - 1) \div (PerBlock + 1)) % 2,
   sector |-> (n - 1) % (PerBlock + 1)]

Init == ask \in Asks /\ got = <<>>

Deliver ==
  /\ Len(got) < ask.blocks * (PerBlock + 1)
  /\ got' = Append(got, Due(Len(got) + 1))
  /\ UNCHANGED ask

\* The next request, only when this one was met.
NextAsk ==
  /\ Len(got) = ask.blocks * (PerBlock + 1)
  /\ ask' \in Asks
  /\ got' = <<>>

Spec == Init /\ [][Deliver \/ NextAsk]_vars /\ WF_vars(Deliver)
=============================================================================
