----------------------------- MODULE AudioFifo -----------------------------
(***************************************************************************)
(* What the audio interface promises to the program that drives it: a      *)
(* queue of at most two buffers, played in order. Every buffer that leaves *)
(* the queue raises the AI interrupt, and an empty buffer leaves as soon   *)
(* as it is at the head.                                                   *)
(***************************************************************************)
EXTENDS Naturals, Sequences

CONSTANTS Addresses,  \* where buffers may lie in RDRAM
          Lengths     \* how many samples a buffer may have

VARIABLES queue,  \* the buffers accepted and not yet finished, oldest first
          intr    \* is the AI interrupt pending?

fifoVars == <<queue, intr>>

Entries == [address : Addresses, length : Lengths]

\* The queue once an empty buffer at its head has been finished.
SkipEmpty(q) == IF q # <<>> /\ Head(q).length = 0 THEN Tail(q) ELSE q

Init == queue = <<>> /\ intr = FALSE

\* A third buffer is refused: nothing happens.
Push(e) ==
  /\ Len(queue) < 2
  /\ queue' = SkipEmpty(Append(queue, e))
  /\ intr' = (intr \/ queue' = <<>>)

Finish ==
  /\ queue # <<>>
  /\ queue' = SkipEmpty(Tail(queue))
  /\ intr' = TRUE

Acknowledge == intr' = FALSE /\ UNCHANGED queue

Next == (\E e \in Entries : Push(e)) \/ Finish \/ Acknowledge

Spec == Init /\ [][Next]_fifoVars

\* A buffer that is playing is finished some time.
FairSpec == Spec /\ WF_fifoVars(Finish)
=============================================================================
