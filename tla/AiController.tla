---------------------------- MODULE AiController ----------------------------
(***************************************************************************)
(* The audio interface: ai/controller.c and ai/context.c.                  *)
(*                                                                         *)
(* The CPU programs an address and a length; the controller keeps up to    *)
(* two such buffers in a ring, hands the one at the head to OpenAL when    *)
(* its DMA starts, and raises MI_INTR_AI when a countdown says that it has *)
(* been played. Lengths are counted in samples (four bytes each), the DAC  *)
(* rate is represented by the frequency it gives.                          *)
(*                                                                         *)
(* OpenAL is external: a source with a queue of buffers, some of which     *)
(* have been processed. It is modelled from the calls the code makes.      *)
(***************************************************************************)
EXTENDS Integers, Sequences, FiniteSets

CONSTANTS
  Addresses,        \* buffer addresses in RDRAM
  Lengths,          \* buffer lengths in samples
  Frequencies,      \* frequencies the DAC rate register can select
  CyclesPerSample,  \* 62500000.0 / freq, for each frequency
  EarlySamples,     \* 10: how many samples early the interrupt is thrown
  UintMod,          \* 2^32: samples is an unsigned int
  CounterMod,       \* 2^64: counter is a uint64_t
  NoOutputModes     \* the values of no_output to explore

ASSUME AiAssumption ==
  /\ Lengths \subseteq Nat
  /\ CyclesPerSample \in [Frequencies -> Nat]
  /\ EarlySamples \in Nat
  /\ UintMod \in Nat \ {0}
  /\ CounterMod \in Nat \ {0, 1}
  /\ NoOutputModes \subseteq BOOLEAN
  /\ \A l \in Lengths : l < UintMod
  /\ \A f \in Frequencies : CyclesPerSample[f] * UintMod <= CounterMod

VARIABLES
  ai,         \* struct ai_controller: the registers and the ring
  counter,    \* its countdown to the end of the buffer that plays
  ctx,        \* struct cen64_ai_context, with the source it owns
  ai_intr,    \* MI_INTR_AI, in the MI
  delivered   \* history: were the samples of the buffer at the head queued?

vars == <<ai, counter, ctx, ai_intr, delivered>>

Entries == [address : Addresses, length : Lengths]

Names == 1 .. 3

-----------------------------------------------------------------------------
(* The ring. *)

\* The buffer whose DMA is running.
Playing(s) == s.fifo[s.fifo_ri]

\* Mutant of Pop: the status word is left alone.
PopKeepsStatus(s) == [s EXCEPT !.fifo_ri = 1 - @, !.fifo_count = @ - 1]

\* Mutant of Pop: the read index is left alone.
PopKeepsIndex(s) == [s EXCEPT !.status = {}, !.fifo_count = @ - 1]

\* The oldest buffer leaves the ring.
Pop(s) == [s EXCEPT !.fifo_ri = 1 - @, !.status = {}, !.fifo_count = @ - 1]

\* A buffer enters the ring at the write index.
Fill(s, e) ==
  [s EXCEPT !.fifo[s.fifo_wi] = e,
            !.fifo_wi = 1 - @,
            !.fifo_count = @ + 1,
            !.status = IF s.fifo_count = 1 THEN @ \union {"full"} ELSE @]

-----------------------------------------------------------------------------
(* The audio context. *)

\* ai_switch_frequency: a new source and three new buffers.
SwitchFrequency(c, freq) ==
  [c EXCEPT !.buffers = [n \in Names |-> n], !.unqueued_buffers = 3,
            !.cur_frequency = freq, !.queue = <<>>, !.processed = 0]

\* alSourceUnqueueBuffers: the processed buffers go back to the free ones.
Unqueue(c) ==
  [c EXCEPT !.buffers = [n \in Names |->
                           IF n \in c.unqueued_buffers + 1 .. c.unqueued_buffers + c.processed
                           THEN c.queue[n - c.unqueued_buffers] ELSE @[n]],
            !.unqueued_buffers = @ + c.processed,
            !.queue = SubSeq(@, c.processed + 1, Len(@)),
            !.processed = 0]

\* The context once the processed buffers are reclaimed, or the frequency is
\* switched because none is.
Reclaim(c, freq) ==
  IF c.processed > 0 THEN Unqueue(c)
  ELSE IF c.cur_frequency # freq THEN SwitchFrequency(c, freq) ELSE c

\* Mutant of Enqueue: the buffer that is queued stays among the free ones.
EnqueueKeepsFree(c) ==
  IF c.unqueued_buffers = 0 THEN c
  ELSE [c EXCEPT !.queue = Append(@, c.buffers[c.unqueued_buffers])]

\* alBufferData and alSourceQueueBuffers on the last free buffer, if any.
Enqueue(c) ==
  IF c.unqueued_buffers = 0 THEN c
  ELSE [c EXCEPT !.unqueued_buffers = @ - 1,
                 !.queue = Append(@, c.buffers[c.unqueued_buffers])]

\* Cycles until the interrupt, given the free buffers. samples - 10 is computed
\* in an unsigned int.
Countdown(free, freq, samples) ==
  CASE free \in {0, 1} -> CyclesPerSample[freq] * samples
    [] free = 2 -> CyclesPerSample[freq] * ((samples - EarlySamples) % UintMod)
    [] free = 3 -> 1

-----------------------------------------------------------------------------
(* ai_dma, as its effect on the ring, the countdown and the context, from  *)
(* the states s, n and c in which it is called.                            *)

Busy(s) == [s EXCEPT !.status = {"busy"}]

DmaRing(s) ==
  IF Playing(s).length > 0 THEN s
  ELSE IF s.fifo_count > 1 THEN Busy(Pop(s)) ELSE Pop(s)

\* Mutant of DmaCounter: no case for a context without free buffers.
DmaCounterNoCase0(s, n, c) ==
  LET len  == Playing(s).length
      free == Reclaim(c, s.freq).unqueued_buffers
  IN IF len > 0 /\ free > 0 THEN Countdown(free, s.freq, len) ELSE n

DmaCounter(s, n, c) ==
  LET len == Playing(s).length
  IN IF len > 0
     THEN IF s.no_output THEN CyclesPerSample[s.freq] * len
          ELSE Countdown(Reclaim(c, s.freq).unqueued_buffers, s.freq, len)
     ELSE IF s.fifo_count > 1 THEN 1 ELSE n

DmaContext(s, c) ==
  IF Playing(s).length > 0 /\ ~s.no_output THEN Enqueue(Reclaim(c, s.freq)) ELSE c

DmaDelivers(s, c) ==
  s.no_output \/ Reclaim(c, s.freq).unqueued_buffers > 0

ai_dma(s, n) ==
  /\ ai' = DmaRing(s)
  /\ counter' = DmaCounter(s, n, ctx)
  /\ ctx' = DmaContext(s, ctx)
  /\ delivered' = DmaDelivers(s, ctx)

-----------------------------------------------------------------------------

Init ==
  /\ ai \in [dram_addr : Addresses, status : {{}}, freq : Frequencies,
             fifo_count : {0}, fifo_wi : {0}, fifo_ri : {0},
             fifo : [{0, 1} -> [address : Addresses, length : {0}]],
             no_output : NoOutputModes]
  /\ counter = 0
  /\ ctx \in [unqueued_buffers : {3}, buffers : {[n \in Names |-> n]},
              cur_frequency : Frequencies, queue : {<<>>}, processed : {0}]
  /\ ai_intr = FALSE
  /\ delivered = TRUE

\* write_ai_regs, AI_DRAM_ADDR_REG.
WriteAddr(a) ==
  /\ ai' = [ai EXCEPT !.dram_addr = a]
  /\ UNCHANGED <<counter, ctx, ai_intr, delivered>>

\* write_ai_regs, AI_LEN_REG. A full ring ignores the write; an idle engine
\* starts at once.
WriteLen(l) ==
  LET f == Fill(ai, [address |-> ai.dram_addr, length |-> l])
  IN \/ /\ ai.fifo_count = 2
        /\ UNCHANGED vars
     \/ /\ ai.fifo_count < 2
        /\ "busy" \in f.status
        /\ ai' = f
        /\ UNCHANGED <<counter, ctx, ai_intr, delivered>>
     \/ /\ ai.fifo_count < 2
        /\ "busy" \notin f.status
        /\ ai_dma(Busy(f), counter)
        /\ ai_intr' = (ai_intr \/ l = 0)

\* write_ai_regs, AI_STATUS_REG: acknowledges the interrupt.
WriteStatus ==
  /\ ai_intr' = FALSE
  /\ UNCHANGED <<ai, counter, ctx, delivered>>

\* write_ai_regs, AI_DACRATE_REG.
WriteDacRate(f) ==
  /\ ai' = [ai EXCEPT !.freq = f]
  /\ UNCHANGED <<counter, ctx, ai_intr, delivered>>

\* ai_cycle, and ai_cycle_ when the countdown had expired.
Cycle ==
  LET p == Pop(ai)
      n == (counter - 1) % CounterMod
  IN \/ /\ counter # 0 \/ ai.fifo_count = 0
        /\ counter' = n
        /\ UNCHANGED <<ai, ctx, ai_intr, delivered>>
     \/ /\ counter = 0 /\ ai.fifo_count = 1
        /\ ai' = p
        /\ counter' = n
        /\ ai_intr' = TRUE
        /\ UNCHANGED <<ctx, delivered>>
     \/ /\ counter = 0 /\ ai.fifo_count = 2
        /\ ai_dma(Busy(p), n)
        /\ ai_intr' = TRUE

\* OpenAL finishes playing one more of the queued buffers.
AlProcess ==
  /\ ctx.processed < Len(ctx.queue)
  /\ ctx' = [ctx EXCEPT !.processed = @ + 1]
  /\ UNCHANGED <<ai, counter, ai_intr, delivered>>

Next ==
  \/ \E a \in Addresses : WriteAddr(a)
  \/ \E l \in Lengths : WriteLen(l)
  \/ WriteStatus
  \/ \E f \in Frequencies : WriteDacRate(f)
  \/ Cycle
  \/ AlProcess

Spec == Init /\ [][Next]_vars

\* The device loop calls ai_cycle for as long as the device runs.
FairSpec == Spec /\ WF_vars(Cycle)

-----------------------------------------------------------------------------
(* Properties *)

TypeOK ==
  /\ ai \in [dram_addr : Addresses, status : SUBSET {"busy", "full"},
             freq : Frequencies, fifo_count : 0 .. 2, fifo_wi : {0, 1}, fifo_ri : {0, 1},
             fifo : [{0, 1} -> [address : Addresses, length : Lengths \union {0}]],
             no_output : BOOLEAN]
  /\ ai_intr \in BOOLEAN
  /\ delivered \in BOOLEAN

\* The status word the CPU polls agrees with the ring, the two indices with
\* the count, and the buffer whose DMA runs is never an empty one: ai_dma's
\* case for an empty buffer with another one behind it is never taken.
FifoInv ==
  /\ "busy" \in ai.status <=> ai.fifo_count > 0
  /\ "full" \in ai.status <=> ai.fifo_count = 2
  /\ ai.fifo_wi = IF ai.fifo_count = 1 THEN 1 - ai.fifo_ri ELSE ai.fifo_ri
  /\ ai.fifo_count > 0 => Playing(ai).length > 0

\* The buffers the controller may reuse and the ones OpenAL holds are disjoint,
\* and none is lost: a buffer is never refilled while it is queued.
BufferPool ==
  LET free == {ctx.buffers[n] : n \in 1 .. ctx.unqueued_buffers}
      held == {ctx.queue[i] : i \in DOMAIN ctx.queue}
  IN /\ free \union held = Names
     /\ ctx.unqueued_buffers + Len(ctx.queue) = 3
     /\ ctx.processed <= Len(ctx.queue)

\* The buffers in the ring, oldest first.
RingContents ==
  LET next == ai.fifo[1 - ai.fifo_ri]
  IN IF ai.fifo_count = 0 THEN <<>>
     ELSE IF ai.fifo_count = 1 THEN <<Playing(ai)>> ELSE <<Playing(ai), next>>

Fifo == INSTANCE AudioFifo WITH queue <- RingContents, intr <- ai_intr

\* The ring implements the two-entry queue of AudioFifo: buffers are finished
\* in the order in which they were written, each with an interrupt, and a
\* buffer that plays is finished some time.
ImplementsFifo == Fifo!FairSpec

\* "Try to throw the INT almost immediately when the current buffer finshes.":
\* the interrupt never comes later than the samples take to play.
OnTime ==
  ai.fifo_count > 0 =>
    \E f \in Frequencies : counter <= CyclesPerSample[f] * Playing(ai).length \/ counter <= 1

\* "Keep spinning until OpenAL has some free buffers for us.": the samples of
\* the buffer that plays have been handed to OpenAL.
EveryBufferHeard == ai.fifo_count > 0 => delivered
=============================================================================
