------------------------ MODULE RcpInterrupts_proofs ------------------------
(***************************************************************************)
(* The interrupt lines, proved for every set of sources and every share of *)
(* them between the threads: in one thread no interrupt is lost or stuck,  *)
(* and the timer's and the 64DD's lines are exact in both modes.           *)
(*                                                                         *)
(* The last part is about the interrupt of the RSP and the words it shares *)
(* with the CPU: SP_STATUS, which two threads write by compare-and-swap,   *)
(* the semaphore, and its two memories, which DMA and stores write; and    *)
(* about its pipeline.                                                     *)
(***************************************************************************)
EXTENDS RcpInterrupts, RspThreads, Induction, FiniteSetTheorems, TLAPS

\* The idle record and the ones made from it are operations.
LEMMA OpTypes ==
  ASSUME NEW p \in Places, NEW f \in SUBSET Sources, NEW c \in SUBSET Sources,
         NEW l \in SUBSET Lines
  PROVE  /\ Idle \in Ops
         /\ Idle.at = "idle"
         /\ [Idle EXCEPT !.at = p] \in Ops
         /\ [Idle EXCEPT !.at = p].at = p
         /\ [Idle EXCEPT !.at = p, !.flags = f] \in Ops
         /\ [Idle EXCEPT !.at = p, !.flags = f].at = p
         /\ [Idle EXCEPT !.at = p, !.flags = f].flags = f
         /\ [Idle EXCEPT !.at = p, !.clear = c, !.flags = f] \in Ops
         /\ [Idle EXCEPT !.at = p, !.clear = c, !.flags = f].at = p
         /\ [Idle EXCEPT !.at = p, !.lines = l] \in Ops
         /\ [Idle EXCEPT !.at = p, !.lines = l].at = p
         /\ [Idle EXCEPT !.at = p, !.lines = l].lines = l
BY DEF Idle, Ops, Places

\* One thread's operation moves on: what that makes of op.
LEMMA OpUpdate ==
  ASSUME op \in [Threads -> Ops], NEW t \in Threads, NEW o \in Ops,
         op' = [op EXCEPT ![t] = o]
  PROVE  /\ op' \in [Threads -> Ops]
         /\ op'[t] = o
         /\ \A u \in Threads : u # t => op'[u] = op[u]
OBVIOUS

-----------------------------------------------------------------------------
(* The actions, in terms of the operation of the thread that takes them. *)

\* Thread t starts or goes on with an operation at place p; the others stay.
MovesTo(t, p) ==
  /\ op' \in [Threads -> Ops]
  /\ op'[t].at = p
  /\ \A u \in Threads : u # t => op'[u] = op[u]

LEMMA CheckNextMoves ==
  ASSUME TypeOK, NEW t \in Threads, NEW f \in SUBSET Sources, CheckNext(t, f)
  PROVE  MovesTo(t, "check") /\ op'[t].flags = f
<1> DEFINE o == [Idle EXCEPT !.at = "check", !.flags = f]
<1>1. "check" \in Places /\ {} \in SUBSET Sources /\ {} \in SUBSET Lines
  BY DEF Places
<1>2. o \in Ops /\ o.at = "check" /\ o.flags = f
  BY <1>1, OpTypes
<1>3. op' = [op EXCEPT ![t] = o]
  BY DEF CheckNext
<1> HIDE DEF o
<1> QED BY <1>2, <1>3, OpUpdate DEF MovesTo, TypeOK

LEMMA CheckMoves ==
  ASSUME TypeOK, NEW t \in Threads, Check(t)
  PROVE  \/ MovesTo(t, "assert") /\ op[t].flags \intersect mask # {}
         \/ MovesTo(t, "deassert") /\ op[t].flags \intersect mask = {}
<1> DEFINE p == IF op[t].flags \intersect mask # {} THEN "assert" ELSE "deassert"
           o == [Idle EXCEPT !.at = p]
<1>1. p \in Places /\ {} \in SUBSET Sources /\ {} \in SUBSET Lines
  BY DEF Places
<1> HIDE DEF p
<1>2. o \in Ops /\ o.at = p
  BY <1>1, OpTypes
<1>3. op' = [op EXCEPT ![t] = o]
  BY DEF Check, p
<1> HIDE DEF o
<1>4. MovesTo(t, p)
  BY <1>2, <1>3, OpUpdate DEF MovesTo, TypeOK
<1> QED BY <1>4 DEF p

LEMMA IdleMoves ==
  ASSUME TypeOK, NEW t \in Threads, op' = [op EXCEPT ![t] = Idle]
  PROVE  MovesTo(t, "idle")
<1>1. "idle" \in Places /\ {} \in SUBSET Sources /\ {} \in SUBSET Lines
  BY DEF Places
<1>2. Idle \in Ops /\ Idle.at = "idle"
  BY <1>1, OpTypes
<1> QED BY <1>2, OpUpdate DEF MovesTo, TypeOK

LEMMA LoadCauseMoves ==
  ASSUME TypeOK, NEW drop \in SUBSET Lines, NEW add \in SUBSET Lines,
         LoadCause(drop, add)
  PROVE  /\ MovesTo("vr4300", "store")
         /\ op'["vr4300"].lines = (cause \ drop) \union add
<1> DEFINE l == (cause \ drop) \union add
           o == [Idle EXCEPT !.at = "store", !.lines = l]
<1>1. "store" \in Places /\ {} \in SUBSET Sources /\ l \in SUBSET Lines
  BY DEF Places, TypeOK
<1> HIDE DEF l
<1>2. o \in Ops /\ o.at = "store" /\ o.lines = l
  BY <1>1, OpTypes
<1>3. op' = [op EXCEPT !["vr4300"] = o]
  BY DEF LoadCause, l
<1> HIDE DEF o
<1>4. "vr4300" \in Threads
  BY DEF Threads
<1> QED BY <1>2, <1>3, <1>4, OpUpdate DEF MovesTo, TypeOK, l

LEMMA WriteMaskMoves ==
  ASSUME TypeOK, NEW c \in SUBSET Sources, NEW f \in SUBSET Sources, WriteMask(c, f)
  PROVE  MovesTo("vr4300", "mask")
<1> DEFINE o == [Idle EXCEPT !.at = "mask", !.clear = c, !.flags = f]
<1>1. "mask" \in Places /\ {} \in SUBSET Sources /\ {} \in SUBSET Lines
  BY DEF Places
<1>2. o \in Ops /\ o.at = "mask"
  BY <1>1 DEF Idle, Ops
<1>3. op' = [op EXCEPT !["vr4300"] = o]
  BY DEF WriteMask
<1> HIDE DEF o
<1>4. "vr4300" \in Threads
  BY DEF Threads
<1> QED BY <1>2, <1>3, <1>4, OpUpdate DEF MovesTo, TypeOK

LEMMA MaskBitMoves ==
  ASSUME TypeOK, MaskBit
  PROVE  /\ MovesTo("vr4300", "read") \/ MovesTo("vr4300", "mask")
         /\ mask' \subseteq Sources
<1> DEFINE o == op["vr4300"]
<1>1. "vr4300" \in Threads /\ "read" \in Places
      /\ {} \in SUBSET Sources /\ {} \in SUBSET Lines
  BY DEF Threads, Places
<1>2. o \in Ops
  BY <1>1 DEF TypeOK
<1> HIDE DEF o
<1>3. CASE /\ op' = [op EXCEPT !["vr4300"] = [Idle EXCEPT !.at = "read"]]
           /\ UNCHANGED mask
  <2>1. [Idle EXCEPT !.at = "read"] \in Ops /\ [Idle EXCEPT !.at = "read"].at = "read"
    BY <1>1, OpTypes
  <2> QED BY <1>1, <1>3, <2>1, OpUpdate DEF MovesTo, TypeOK
<1>4. ASSUME NEW s \in o.clear \union o.flags, o.at = "mask",
             mask' = IF s \in o.clear THEN mask \ {s} ELSE mask \union {s},
             op' = [op EXCEPT !["vr4300"] = [o EXCEPT !.clear = @ \ {s}, !.flags = @ \ {s}]]
      PROVE  MovesTo("vr4300", "mask") /\ mask' \subseteq Sources
  <2> DEFINE n == [o EXCEPT !.clear = o.clear \ {s}, !.flags = o.flags \ {s}]
  <2>0. o.clear \ {s} \in SUBSET Sources /\ o.flags \ {s} \in SUBSET Sources
    BY <1>2 DEF Ops
  <2>1. n \in Ops /\ n.at = "mask"
    BY <1>2, <1>4, <2>0 DEF Ops
  <2>2. op' = [op EXCEPT !["vr4300"] = n]
    BY <1>4 DEF o
  <2>3. s \in Sources
    BY <1>2 DEF Ops
  <2> HIDE DEF n
  <2>4. MovesTo("vr4300", "mask")
    BY <1>1, <2>1, <2>2, OpUpdate DEF MovesTo, TypeOK
  <2>5. mask' \subseteq Sources
    BY <1>4, <2>3 DEF TypeOK
  <2> QED BY <2>4, <2>5
<1> QED BY <1>3, <1>4 DEF MaskBit, o

-----------------------------------------------------------------------------
(* Types. *)

\* Every step keeps the types.
LEMMA TypeStep == TypeOK /\ [Next]_vars => TypeOK'
<1> SUFFICES ASSUME TypeOK, [Next]_vars PROVE TypeOK'
  OBVIOUS
<1>v. "vr4300" \in Threads
  BY DEF Threads
<1>1. CASE UNCHANGED vars
  BY <1>1 DEF vars, TypeOK
<1>2. ASSUME NEW c \in SUBSET Sources, NEW f \in SUBSET Sources, WriteMask(c, f)
      PROVE  TypeOK'
  BY <1>2, WriteMaskMoves DEF WriteMask, MovesTo, TypeOK
<1>3. ASSUME NEW w \in SUBSET Sources, WriteIntr(w) PROVE TypeOK'
  BY <1>3 DEF WriteIntr, TypeOK
<1>4. CASE Timer \/ WriteCompare \/ RewriteCause
  <2>1. PICK drop \in SUBSET Lines, add \in SUBSET Lines : LoadCause(drop, add)
    BY <1>4 DEF Timer, WriteCompare, RewriteCause, Lines
  <2>2. timer' \in BOOLEAN
    BY <1>4 DEF Timer, WriteCompare, RewriteCause, TypeOK
  <2>3. MovesTo("vr4300", "store")
    BY <2>1, LoadCauseMoves
  <2> QED BY <2>1, <2>2, <2>3 DEF LoadCause, MovesTo, TypeOK
<1>5. CASE SignalDisk \/ ClearDisk
  BY <1>5 DEF SignalDisk, ClearDisk, TypeOK, Lines
<1>6. ASSUME NEW t \in Threads, Check(t) PROVE TypeOK'
  <2>1. op' \in [Threads -> Ops]
    BY <1>6, CheckMoves DEF MovesTo
  <2> QED BY <1>6, <2>1 DEF Check, TypeOK
<1>7. ASSUME NEW t \in Threads, SetLine(t) PROVE TypeOK'
  <2>1. op' \in [Threads -> Ops]
    BY <1>7, IdleMoves DEF SetLine, MovesTo
  <2> QED BY <1>7, <2>1 DEF SetLine, TypeOK, Lines
<1>8. CASE MaskBit
  <2>1. op' \in [Threads -> Ops] /\ mask' \subseteq Sources
    BY <1>8, MaskBitMoves DEF MovesTo
  <2> QED BY <1>8, <2>1 DEF MaskBit, TypeOK
<1>9. CASE ReadIntr
  <2>1. op' \in [Threads -> Ops]
    BY <1>9, <1>v, CheckNextMoves DEF ReadIntr, MovesTo, TypeOK
  <2> QED BY <1>9, <2>1 DEF ReadIntr, TypeOK
<1>10. CASE StoreCause
  <2>1. op' \in [Threads -> Ops]
    BY <1>10, <1>v, IdleMoves DEF StoreCause, MovesTo
  <2>2. cause' \subseteq Lines
    BY <1>10, <1>v DEF StoreCause, TypeOK, Ops
  <2> QED BY <1>10, <2>1, <2>2 DEF StoreCause, TypeOK
<1>11. ASSUME NEW t \in Threads, NEW s \in Sources, SignalRcp(t, s) \/ ClearRcp(t, s)
       PROVE  TypeOK'
  <2>1. intr' \subseteq Sources /\ CheckNext(t, intr')
    BY <1>11 DEF SignalRcp, ClearRcp, TypeOK
  <2>2. op' \in [Threads -> Ops]
    BY <2>1, CheckNextMoves DEF MovesTo
  <2> QED BY <1>11, <2>1, <2>2 DEF SignalRcp, ClearRcp, TypeOK
<1> QED BY <1>1, <1>2, <1>3, <1>4, <1>5, <1>6, <1>7, <1>8, <1>9, <1>10, <1>11
        DEF Next, CpuStart, Continue

\* Every variable keeps its type.
THEOREM InterruptsTyped == Spec => []TypeOK
<1>1. Init => TypeOK
  <2> SUFFICES ASSUME Init PROVE TypeOK
    OBVIOUS
  <2>1. "idle" \in Places /\ {} \in SUBSET Sources /\ {} \in SUBSET Lines
    BY DEF Places
  <2>2. Idle \in Ops
    BY <2>1, OpTypes
  <2>3. op \in [Threads -> Ops]
    BY <2>2 DEF Init
  <2> QED BY <2>3, InterruptsAssumption DEF Init, TypeOK
<1> QED BY <1>1, TypeStep, PTL DEF Spec

-----------------------------------------------------------------------------
(* The lines of the timer and of the 64DD, in both modes. *)

\* The CPU's operation is untouched by a step of the other thread.
LEMMA TimerStep == TypeOK /\ TimerExact /\ [Next]_vars => TimerExact'
<1> SUFFICES ASSUME TypeOK, TimerExact, [Next]_vars PROVE TimerExact'
  OBVIOUS
<1>v. "vr4300" \in Threads /\ op["vr4300"] \in Ops
  BY DEF Threads, TypeOK
<1>1. CASE UNCHANGED vars
  BY <1>1 DEF vars, TimerExact
<1>2. ASSUME NEW c \in SUBSET Sources, NEW f \in SUBSET Sources, WriteMask(c, f)
      PROVE  TimerExact'
  BY <1>2, WriteMaskMoves DEF WriteMask, Free, MovesTo, TimerExact
<1>3. ASSUME NEW w \in SUBSET Sources, WriteIntr(w) PROVE TimerExact'
  BY <1>3 DEF WriteIntr, TimerExact
<1>4. CASE Timer \/ WriteCompare \/ RewriteCause
  <2>0. {} \in SUBSET Lines /\ {"ip7"} \in SUBSET Lines
    BY DEF Lines
  <2>1. CASE Timer
    <3>1. MovesTo("vr4300", "store") /\ op'["vr4300"].lines = (cause \ {}) \union {"ip7"}
      BY <2>0, <2>1, LoadCauseMoves DEF Timer
    <3>2. timer' = TRUE
      BY <2>1 DEF Timer
    <3> QED BY <3>1, <3>2 DEF MovesTo, TimerExact
  <2>2. CASE WriteCompare
    <3>1. MovesTo("vr4300", "store") /\ op'["vr4300"].lines = (cause \ {"ip7"}) \union {}
      BY <2>0, <2>2, LoadCauseMoves DEF WriteCompare
    <3>2. timer' = FALSE
      BY <2>2 DEF WriteCompare
    <3> QED BY <3>1, <3>2 DEF MovesTo, TimerExact
  <2>3. CASE RewriteCause
    <3>1. MovesTo("vr4300", "store") /\ op'["vr4300"].lines = (cause \ {}) \union {}
      BY <2>0, <2>3, LoadCauseMoves DEF RewriteCause
    <3>2. op["vr4300"].at = "idle" /\ timer' = timer
      BY <2>3 DEF RewriteCause, LoadCause, Free
    <3> QED BY <3>1, <3>2 DEF MovesTo, TimerExact
  <2> QED BY <1>4, <2>1, <2>2, <2>3
<1>5. CASE SignalDisk \/ ClearDisk
  BY <1>5 DEF SignalDisk, ClearDisk, Free, TimerExact
<1>6. ASSUME NEW t \in Threads, Check(t) PROVE TimerExact'
  <2>0. op[t].at = "check" /\ (MovesTo(t, "assert") \/ MovesTo(t, "deassert"))
    BY <1>6, CheckMoves DEF Check
  <2>1. op'["vr4300"].at = "store" <=> op["vr4300"].at = "store"
    BY <1>v, <2>0 DEF MovesTo
  <2>2. op["vr4300"].at = "store" => op'["vr4300"] = op["vr4300"]
    BY <1>v, <2>0 DEF MovesTo
  <2> QED BY <1>6, <2>1, <2>2 DEF Check, TimerExact
<1>7. ASSUME NEW t \in Threads, SetLine(t) PROVE TimerExact'
  <2>0. op[t].at \in {"assert", "deassert"} /\ MovesTo(t, "idle")
    BY <1>7, IdleMoves DEF SetLine
  <2>1. op'["vr4300"].at = "store" <=> op["vr4300"].at = "store"
    BY <1>v, <2>0 DEF MovesTo
  <2>2. op["vr4300"].at = "store" => op'["vr4300"] = op["vr4300"]
    BY <1>v, <2>0 DEF MovesTo
  <2>3. "ip7" \in cause' <=> "ip7" \in cause
    BY <1>7 DEF SetLine
  <2> QED BY <1>7, <2>1, <2>2, <2>3 DEF SetLine, TimerExact
<1>8. CASE MaskBit
  BY <1>8, MaskBitMoves DEF MaskBit, MovesTo, TimerExact
<1>9. CASE ReadIntr
  BY <1>9, <1>v, CheckNextMoves DEF ReadIntr, MovesTo, TimerExact, TypeOK
<1>10. CASE StoreCause
  BY <1>10, <1>v, IdleMoves DEF StoreCause, MovesTo, TimerExact
<1>11. ASSUME NEW t \in Threads, NEW s \in Sources, SignalRcp(t, s) \/ ClearRcp(t, s)
       PROVE  TimerExact'
  <2>1. MovesTo(t, "check") /\ op[t].at = "idle" /\ UNCHANGED <<cause, timer>>
    BY <1>11, CheckNextMoves DEF SignalRcp, ClearRcp, Free, TypeOK
  <2> QED BY <1>v, <2>1 DEF MovesTo, TimerExact
<1> QED BY <1>1, <1>2, <1>3, <1>4, <1>5, <1>6, <1>7, <1>8, <1>9, <1>10, <1>11
        DEF Next, CpuStart, Continue

\* The timer's line is exact in both modes: the RCP's thread, whose writes of
\* CAUSE are atomic, never undoes what the CPU stored.
THEOREM TimerNeverLost == Spec => []TimerExact
<1>1. Init => TimerExact
  BY DEF Init, TimerExact, Idle, Threads
<1> QED BY <1>1, TimerStep, InterruptsTyped, PTL DEF Spec

\* The 64DD's line is only changed by the CPU's thread, and by no store of a
\* CAUSE that was read before it changed.
LEMMA DiskStep == TypeOK /\ DiskExact /\ [Next]_vars => DiskExact'
<1> SUFFICES ASSUME TypeOK, DiskExact, [Next]_vars PROVE DiskExact'
  OBVIOUS
<1>v. "vr4300" \in Threads
  BY DEF Threads
<1>1. CASE UNCHANGED vars
  BY <1>1 DEF vars, DiskExact
<1>2. ASSUME NEW c \in SUBSET Sources, NEW f \in SUBSET Sources, WriteMask(c, f)
      PROVE  DiskExact'
  BY <1>2, WriteMaskMoves DEF WriteMask, MovesTo, DiskExact
<1>3. ASSUME NEW w \in SUBSET Sources, WriteIntr(w) PROVE DiskExact'
  BY <1>3 DEF WriteIntr, DiskExact
<1>4. CASE Timer \/ WriteCompare \/ RewriteCause
  <2>1. {} \in SUBSET Lines /\ {"ip7"} \in SUBSET Lines
    BY DEF Lines
  <2>2. PICK drop \in SUBSET Lines, add \in SUBSET Lines :
          LoadCause(drop, add) /\ "ip3" \notin drop /\ "ip3" \notin add
    BY <1>4, <2>1 DEF Timer, WriteCompare, RewriteCause
  <2>3. op'["vr4300"].lines = (cause \ drop) \union add
    BY <2>2, LoadCauseMoves
  <2>4. UNCHANGED <<cause, disk>>
    BY <2>2 DEF LoadCause
  <2> QED BY <2>2, <2>3, <2>4 DEF DiskExact
<1>5. CASE SignalDisk \/ ClearDisk
  BY <1>5, <1>v DEF SignalDisk, ClearDisk, Free, DiskExact
<1>6. ASSUME NEW t \in Threads, Check(t) PROVE DiskExact'
  <2>1. MovesTo(t, "assert") \/ MovesTo(t, "deassert")
    BY <1>6, CheckMoves
  <2>2. op'["vr4300"].at = "store" => op'["vr4300"] = op["vr4300"]
    BY <1>v, <2>1 DEF MovesTo
  <2> QED BY <1>6, <2>2 DEF Check, DiskExact
<1>7. ASSUME NEW t \in Threads, SetLine(t) PROVE DiskExact'
  <2>1. MovesTo(t, "idle")
    BY <1>7, IdleMoves DEF SetLine
  <2>2. op'["vr4300"].at = "store" => op'["vr4300"] = op["vr4300"]
    BY <1>v, <2>1 DEF MovesTo
  <2>3. "ip3" \in cause' <=> "ip3" \in cause
    BY <1>7 DEF SetLine
  <2> QED BY <1>7, <2>2, <2>3 DEF SetLine, DiskExact
<1>8. CASE MaskBit
  BY <1>8, MaskBitMoves DEF MaskBit, MovesTo, DiskExact
<1>9. CASE ReadIntr
  BY <1>9, <1>v, CheckNextMoves DEF ReadIntr, MovesTo, DiskExact, TypeOK
<1>10. CASE StoreCause
  BY <1>10, <1>v, IdleMoves DEF StoreCause, MovesTo, DiskExact
<1>11. ASSUME NEW t \in Threads, NEW s \in Sources, SignalRcp(t, s) \/ ClearRcp(t, s)
       PROVE  DiskExact'
  <2>1. MovesTo(t, "check") /\ UNCHANGED <<cause, disk>>
    BY <1>11, CheckNextMoves DEF SignalRcp, ClearRcp, TypeOK
  <2>2. op'["vr4300"].at = "store" => op'["vr4300"] = op["vr4300"]
    BY <1>v, <2>1 DEF MovesTo
  <2> QED BY <2>1, <2>2 DEF DiskExact
<1> QED BY <1>1, <1>2, <1>3, <1>4, <1>5, <1>6, <1>7, <1>8, <1>9, <1>10, <1>11
        DEF Next, CpuStart, Continue

\* The 64DD's line follows its signals in both modes, whatever the RCP's thread
\* does to its own line in between.
THEOREM DiskNeverLost == Spec => []DiskExact
<1>1. Init => DiskExact
  BY DEF Init, DiskExact, Idle, Threads
<1> QED BY <1>1, DiskStep, InterruptsTyped, PTL DEF Spec

-----------------------------------------------------------------------------
(* The line of the RCP, in one thread. *)

Alone(t) == \A u \in Threads : u # t => op[u].at = "idle"

\* The value on its way in thread t, after its step.
InFlight(t) ==
  LET o == op[t]
      pending == intr \intersect mask # {}
  IN /\ o.at = "check" => o.flags = intr
     /\ o.at = "assert" => pending
     /\ o.at = "deassert" => ~pending
     /\ o.at \in {"check", "assert", "deassert"} => ~overwritten
     /\ o.at = "store" => ("ip2" \in o.lines <=> "ip2" \in cause)

Exact == ~overwritten => ("ip2" \in cause <=> intr \intersect mask # {})

\* The invariant after a step of a thread that is the only one under way.
LEMMA SingleMove ==
  ASSUME TypeOK, NEW t \in Threads, NEW p \in Places, Alone(t), MovesTo(t, p),
         p \in {"mask", "read", "store"} => t = "vr4300",
         InFlight(t)', p \in {"idle", "store"} => Exact'
  PROVE  SingleThreadInv'
<1>1. \A u \in Threads : u # t => op'[u].at = "idle"
  BY DEF Alone, MovesTo
<1>2. \A u \in Threads : InFlight(u)'
  BY <1>1 DEF InFlight
<1>3. op'["rcp"].at # "idle" => op'["vr4300"].at = "idle"
  BY <1>1 DEF Threads
<1>4. op'["rcp"].at \notin {"mask", "read", "store"}
  BY <1>1 DEF Threads, MovesTo
<1>5. (~overwritten' /\ \A u \in Threads : op'[u].at \in {"idle", "store"})
        => ("ip2" \in cause' <=> intr' \intersect mask' # {})
  BY DEF MovesTo, Exact
<1> QED BY <1>2, <1>3, <1>4, <1>5 DEF SingleThreadInv, InFlight

\* A thread that can take a step in the single-threaded mode is alone.
LEMMA StepsAlone ==
  ASSUME TypeOK, SingleThreadInv, ~multithread, NEW t \in Threads,
         Free(t) \/ op[t].at # "idle"
  PROVE  Alone(t)
BY DEF SingleThreadInv, Free, Alone, Threads

\* Every step keeps the invariant.
LEMMA SingleStep ==
  TypeOK /\ SingleThreadInv /\ [Next]_vars => SingleThreadInv'
<1> SUFFICES ASSUME TypeOK, SingleThreadInv, [Next]_vars PROVE SingleThreadInv'
  OBVIOUS
<1>v. "vr4300" \in Threads /\ Places = {"idle", "mask", "read", "check", "assert",
                                       "deassert", "store"}
  BY DEF Threads, Places
<1>m. multithread' = multithread
  BY DEF Next, CpuStart, Continue, vars, WriteMask, WriteIntr, Timer, WriteCompare,
         RewriteCause, LoadCause, SignalDisk, ClearDisk, Check, SetLine, MaskBit,
         ReadIntr, StoreCause, SignalRcp, ClearRcp
<1>0. CASE multithread
  BY <1>0, <1>m DEF SingleThreadInv
<1> SUFFICES ASSUME ~multithread PROVE SingleThreadInv'
  BY <1>0
<1>1. CASE UNCHANGED vars
  BY <1>1 DEF vars, SingleThreadInv
<1>2. ASSUME NEW c \in SUBSET Sources, NEW f \in SUBSET Sources, WriteMask(c, f)
      PROVE  SingleThreadInv'
  <2>1. Alone("vr4300") /\ MovesTo("vr4300", "mask")
    BY <1>2, <1>v, StepsAlone, WriteMaskMoves DEF WriteMask
  <2>2. InFlight("vr4300")'
    BY <2>1 DEF MovesTo, InFlight
  <2> QED BY <1>v, <2>1, <2>2, SingleMove
<1>3. ASSUME NEW w \in SUBSET Sources, WriteIntr(w) PROVE SingleThreadInv'
  <2>1. \A u \in Threads : op'[u].at = "idle"
    BY <1>3, <1>v DEF WriteIntr, Free
  <2>2. overwritten' = TRUE
    BY <1>3 DEF WriteIntr
  <2> QED BY <2>1, <2>2 DEF SingleThreadInv, Threads
<1>4. ASSUME NEW drop \in SUBSET Lines, NEW add \in SUBSET Lines,
             LoadCause(drop, add), "ip2" \notin drop, "ip2" \notin add
      PROVE  SingleThreadInv'
  <2>1. Alone("vr4300") /\ MovesTo("vr4300", "store")
        /\ op'["vr4300"].lines = (cause \ drop) \union add
    BY <1>4, <1>v, StepsAlone, LoadCauseMoves DEF LoadCause
  <2>2. UNCHANGED <<cause, intr, mask, overwritten>>
    BY <1>4 DEF LoadCause
  <2>3. InFlight("vr4300")'
    BY <1>4, <2>1, <2>2 DEF MovesTo, InFlight
  <2>4. Exact
    <3>1. op["vr4300"].at = "idle"
      BY <1>4 DEF LoadCause, Free
    <3> QED BY <2>1, <3>1 DEF SingleThreadInv, Exact, Alone
  <2>5. Exact'
    BY <2>2, <2>4 DEF Exact
  <2> QED BY <1>v, <2>1, <2>3, <2>5, SingleMove
<1>5. CASE SignalDisk \/ ClearDisk
  <2>1. \A u \in Threads : op[u].at = "idle"
    BY <1>5 DEF SignalDisk, ClearDisk, Free
  <2>2. UNCHANGED <<op, intr, mask, overwritten>> /\ ("ip2" \in cause' <=> "ip2" \in cause)
    BY <1>5 DEF SignalDisk, ClearDisk
  <2> QED BY <2>1, <2>2 DEF SingleThreadInv, Threads
<1>6. ASSUME NEW t \in Threads, Check(t) PROVE SingleThreadInv'
  <2>1. op[t].at = "check" /\ UNCHANGED <<cause, intr, mask, overwritten>>
    BY <1>6 DEF Check
  <2>2. Alone(t)
    BY <2>1, StepsAlone
  <2>3. op[t].flags = intr /\ ~overwritten
    BY <2>1 DEF SingleThreadInv
  <2>4. CASE MovesTo(t, "assert") /\ op[t].flags \intersect mask # {}
    <3>1. InFlight(t)'
      BY <2>1, <2>3, <2>4 DEF MovesTo, InFlight
    <3> QED BY <1>v, <2>2, <2>4, <3>1, SingleMove
  <2>5. CASE MovesTo(t, "deassert") /\ op[t].flags \intersect mask = {}
    <3>1. InFlight(t)'
      BY <2>1, <2>3, <2>5 DEF MovesTo, InFlight
    <3> QED BY <1>v, <2>2, <2>5, <3>1, SingleMove
  <2> QED BY <1>6, <2>4, <2>5, CheckMoves
<1>7. ASSUME NEW t \in Threads, SetLine(t) PROVE SingleThreadInv'
  <2>1. op[t].at \in {"assert", "deassert"} /\ MovesTo(t, "idle")
        /\ UNCHANGED <<intr, mask, overwritten>>
    BY <1>7, IdleMoves DEF SetLine
  <2>2. Alone(t)
    BY <2>1, StepsAlone
  <2>3. InFlight(t)'
    BY <2>1 DEF MovesTo, InFlight
  <2>4. op[t].at = "assert" <=> intr \intersect mask # {}
    BY <2>1 DEF SingleThreadInv
  <2>5. "ip2" \in cause' <=> op[t].at = "assert"
    BY <1>7 DEF SetLine
  <2>6. Exact'
    BY <2>1, <2>4, <2>5 DEF Exact
  <2> QED BY <1>v, <2>1, <2>2, <2>3, <2>6, SingleMove
<1>8. CASE MaskBit
  <2>1. Alone("vr4300")
    BY <1>8, <1>v, StepsAlone DEF MaskBit
  <2>2. MovesTo("vr4300", "read") \/ MovesTo("vr4300", "mask")
    BY <1>8, MaskBitMoves
  <2>3. InFlight("vr4300")'
    BY <2>2 DEF MovesTo, InFlight
  <2> QED BY <1>v, <2>1, <2>2, <2>3, SingleMove
<1>9. CASE ReadIntr
  <2>1. Alone("vr4300") /\ UNCHANGED intr /\ overwritten' = FALSE
    BY <1>9, <1>v, StepsAlone DEF ReadIntr
  <2>2. MovesTo("vr4300", "check") /\ op'["vr4300"].flags = intr
    BY <1>9, <1>v, CheckNextMoves DEF ReadIntr, TypeOK
  <2>3. InFlight("vr4300")'
    BY <2>1, <2>2 DEF MovesTo, InFlight
  <2> QED BY <1>v, <2>1, <2>2, <2>3, SingleMove
<1>10. CASE StoreCause
  <2>1. Alone("vr4300") /\ MovesTo("vr4300", "idle")
    BY <1>10, <1>v, StepsAlone, IdleMoves DEF StoreCause
  <2>2. InFlight("vr4300")'
    BY <2>1 DEF MovesTo, InFlight
  <2>3. UNCHANGED <<intr, mask, overwritten>> /\ ("ip2" \in cause' <=> "ip2" \in cause)
    BY <1>10, <1>v DEF StoreCause, SingleThreadInv
  <2>4. Exact
    BY <1>10, <2>1 DEF StoreCause, SingleThreadInv, Exact, Alone
  <2>5. Exact'
    BY <2>3, <2>4 DEF Exact
  <2> QED BY <1>v, <2>1, <2>2, <2>5, SingleMove
<1>11. ASSUME NEW t \in Threads, NEW s \in Sources, SignalRcp(t, s) \/ ClearRcp(t, s)
       PROVE  SingleThreadInv'
  <2>1. Free(t) /\ CheckNext(t, intr') /\ intr' \in SUBSET Sources /\ overwritten' = FALSE
    BY <1>11 DEF SignalRcp, ClearRcp, TypeOK
  <2>2. Alone(t) /\ MovesTo(t, "check") /\ op'[t].flags = intr'
    BY <2>1, StepsAlone, CheckNextMoves
  <2>3. InFlight(t)'
    BY <2>1, <2>2 DEF MovesTo, InFlight
  <2> QED BY <1>v, <2>2, <2>3, SingleMove
<1>12. CASE Timer \/ WriteCompare \/ RewriteCause
  <2>1. {} \in SUBSET Lines /\ {"ip7"} \in SUBSET Lines
    BY DEF Lines
  <2>2. PICK drop \in SUBSET Lines, add \in SUBSET Lines :
          LoadCause(drop, add) /\ "ip2" \notin drop /\ "ip2" \notin add
    BY <1>12, <2>1 DEF Timer, WriteCompare, RewriteCause
  <2> QED BY <1>4, <2>2
<1> QED BY <1>1, <1>2, <1>3, <1>5, <1>6, <1>7, <1>8, <1>9, <1>10, <1>11, <1>12
        DEF Next, CpuStart, Continue

\* Without -multithread an interrupt that is pending and not masked asserts the
\* line, and the line is down when there is none.
THEOREM SingleThreadLineExact ==
  Spec => [](TypeOK /\ SingleThreadInv /\ SingleThreadLine)
<1>1. Init => SingleThreadInv
  BY DEF Init, SingleThreadInv, Idle, Threads
<1>2. TypeOK /\ SingleThreadInv => SingleThreadLine
  BY DEF SingleThreadLine, SingleThreadInv, NoLostInterrupt, NoStuckInterrupt, Quiet
<1> QED BY <1>1, <1>2, SingleStep, InterruptsTyped, PTL DEF Spec

\* All three lines at once: this is what the runs check.
THEOREM LinesAreRight == Spec => []LinesRight
<1>1. SingleThreadLine /\ TimerExact /\ DiskExact => LinesRight
  BY DEF LinesRight
<1> QED BY <1>1, SingleThreadLineExact, TimerNeverLost, DiskNeverLost, PTL
-----------------------------------------------------------------------------
(***************************************************************************)
(* RspThreads: the words that the CPU's thread and the RSP's share.        *)
(***************************************************************************)

RspPlaces == {"out", "wb", "ex", "tail"}

WritePcs == {"load", "act", "intr", "cas"}

\* What may be written: the words of the two programs, and what BREAK asks for.
Words == {{}, HaltBroke} \cup {Masked(w) : w \in CpuWrites \cup RspWrites}

Outcomes == [status : SUBSET StatusBits, intr : BOOLEAN, did : SUBSET ThreadNames]

ThreadStates ==
  [pc : RspPlaces \cup WritePcs, rt : Words, prev : SUBSET StatusBits, back : RspPlaces]

ThreadsTyped ==
  /\ status \in SUBSET StatusBits /\ sp_intr \in BOOLEAN
  /\ thread \in [ThreadNames -> ThreadStates]
  /\ possible \in SUBSET Outcomes
  /\ owed \in {"none", "coming", "due"}

\* Every pending write that an outcome has not counted may come next.
Closed(cs, p) == \A c \in cs : \A t \in DOMAIN p : t \notin c.did => Apply(c, t, p[t]) \in cs

\* One of the outcomes is the one that is, with all pending writes still to come:
\* a write takes place when its swap succeeds, which is also when it returns.
Linear ==
  /\ \E c \in possible : c.status = status /\ c.did = {}
  /\ Closed(possible, PendingWrites)

\* An interrupt that is due is up, and nobody is on the way to take it back. One
\* that is coming is up before the swap.
Keeping ==
  /\ owed = "due" =>
       /\ sp_intr /\ ~CpuClears
       /\ ~(InWrite("rsp") /\ Clears(thread["rsp"].rt))
  /\ owed = "coming" =>
       /\ ~CpuClears /\ InWrite("rsp") /\ Raises(thread["rsp"].rt)
       /\ thread["rsp"].pc = "cas" => sp_intr

\* The semaphore reads 1 exactly while somebody holds it.
Held ==
  /\ holders \in SUBSET ThreadNames /\ reserved \in BOOLEAN
  /\ reserved <=> holders # {}
  /\ \A t, u \in holders : t = u

LEMMA Applied ==
  ASSUME NEW c \in Outcomes, NEW t \in ThreadNames, NEW rt
  PROVE  /\ Apply(c, t, rt) \in Outcomes
         /\ Apply(c, t, rt).did = c.did \cup {t}
         /\ Apply(c, t, rt).status = StatusAfter(c.status, rt)
<1>1. StatusAfter(c.status, rt) \in SUBSET StatusBits
  BY DEF StatusAfter
<1>2. IntrAfter(c.intr, rt) \in BOOLEAN
  BY DEF IntrAfter
<1> QED BY <1>1, <1>2 DEF Apply, Outcome, Outcomes

\* The outcomes of two writes at most, in any order.
LEMMA ClosureClosed ==
  ASSUME NEW cs \in SUBSET Outcomes, NEW p, DOMAIN p \subseteq ThreadNames
  PROVE  /\ cs \subseteq Closure(cs, p) /\ Closure(cs, p) \in SUBSET Outcomes
         /\ Closed(Closure(cs, p), p)
<1> DEFINE Once(xs) ==
             xs \cup UNION {{Apply(c, t, p[t]) : t \in DOMAIN p \ c.did} : c \in xs}
           one == Once(cs)
           two == Once(one)
<1>1. Closure(cs, p) = two
  BY DEF Closure
<1>2. ASSUME NEW xs \in SUBSET Outcomes
      PROVE  /\ xs \subseteq Once(xs) /\ Once(xs) \in SUBSET Outcomes
             /\ \A c \in xs : \A t \in DOMAIN p : t \notin c.did => Apply(c, t, p[t]) \in Once(xs)
             /\ \A x \in Once(xs) :
                  x \in xs \/ \E c \in xs, t \in DOMAIN p : t \notin c.did /\ x = Apply(c, t, p[t])
  <2>1. \A c \in xs : \A t \in DOMAIN p : Apply(c, t, p[t]) \in Outcomes
    BY Applied
  <2> QED BY <2>1
<1> HIDE DEF Once
<1>3. one \in SUBSET Outcomes /\ two \in SUBSET Outcomes /\ cs \subseteq one /\ one \subseteq two
  BY <1>2
<1>4. ASSUME NEW x \in two, NEW t \in DOMAIN p, t \notin x.did
      PROVE  Apply(x, t, p[t]) \in two
  <2>1. CASE x \in one
    BY <1>2, <1>3, <1>4, <2>1
  <2>2. CASE x \notin one
    <3>1. PICK y \in one, u \in DOMAIN p : u \notin y.did /\ x = Apply(y, u, p[u])
      BY <1>2, <1>3, <1>4, <2>2
    <3>2. y \notin cs
      BY <1>2, <2>2, <3>1
    <3>3. PICK c \in cs, v \in DOMAIN p : v \notin c.did /\ y = Apply(c, v, p[v])
      BY <1>2, <3>1, <3>2
    <3>4. y.did = c.did \cup {v} /\ x.did = y.did \cup {u}
      BY <1>3, <3>1, <3>3, Applied
    <3> QED BY <1>4, <3>1, <3>3, <3>4 DEF ThreadNames
  <2> QED BY <2>1, <2>2
<1> QED BY <1>1, <1>3, <1>4 DEF Closed

-----------------------------------------------------------------------------
(* What a step does to a thread, and to the writes that are pending.        *)

\* Only t's place changes; it makes no write that it did not make before.
LEMMA Goes ==
  ASSUME ThreadsTyped, NEW t \in ThreadNames, NEW pc \in RspPlaces \cup WritePcs,
         thread' = [thread EXCEPT ![t].pc = pc]
  PROVE  /\ thread' \in [ThreadNames -> ThreadStates]
         /\ thread'[t].pc = pc /\ thread'[t].rt = thread[t].rt
         /\ \A u \in ThreadNames \ {t} : thread'[u] = thread[u]
BY DEF ThreadsTyped, ThreadStates

LEMMA GoesFrom ==
  ASSUME ThreadsTyped, NEW t \in ThreadNames, NEW pc \in RspPlaces \cup WritePcs,
         NEW prev \in SUBSET StatusBits,
         thread' = [thread EXCEPT ![t].pc = pc, ![t].prev = prev]
  PROVE  /\ thread' \in [ThreadNames -> ThreadStates]
         /\ thread'[t].pc = pc /\ thread'[t].rt = thread[t].rt
         /\ \A u \in ThreadNames \ {t} : thread'[u] = thread[u]
BY DEF ThreadsTyped, ThreadStates

LEMMA Becomes ==
  ASSUME ThreadsTyped, NEW t \in ThreadNames, NEW pc \in RspPlaces,
         thread' = [thread EXCEPT ![t] = At(pc)]
  PROVE  /\ thread' \in [ThreadNames -> ThreadStates]
         /\ thread'[t].pc = pc
         /\ \A u \in ThreadNames \ {t} : thread'[u] = thread[u]
<1>1. At(pc) \in ThreadStates
      /\ At(pc).pc = pc
  BY DEF At, Words, ThreadStates
<1> QED BY <1>1 DEF ThreadsTyped, ThreadStates

LEMMA Begins ==
  ASSUME ThreadsTyped, NEW t \in ThreadNames, NEW pc \in RspPlaces, NEW rt \in Words,
         thread' = [thread EXCEPT ![t] = Writing(rt, pc)]
  PROVE  /\ thread' \in [ThreadNames -> ThreadStates]
         /\ thread'[t].pc = "load" /\ thread'[t].rt = rt
         /\ \A u \in ThreadNames \ {t} : thread'[u] = thread[u]
<1>1. Writing(rt, pc) \in ThreadStates
      /\ Writing(rt, pc).pc = "load" /\ Writing(rt, pc).rt = rt
  BY DEF Writing, WritePcs, ThreadStates
<1> QED BY <1>1 DEF ThreadsTyped, ThreadStates

\* The pending writes are a function of which threads write, and what.
LEMMA SamePending ==
  ASSUME \A t \in ThreadNames : InWrite(t)' = InWrite(t)
                                /\ (InWrite(t) => thread'[t].rt = thread[t].rt)
  PROVE  PendingWrites' = PendingWrites
BY DEF PendingWrites

LEMMA PendingAre ==
  /\ DOMAIN PendingWrites = {u \in ThreadNames : InWrite(u)}
  /\ \A u \in ThreadNames : InWrite(u) => PendingWrites[u] = thread[u].rt
<1> DEFINE W == {u \in ThreadNames : InWrite(u)}
<1>1. PendingWrites = [t \in W |-> thread[t].rt]
  BY DEF PendingWrites
<1>2. \A u \in ThreadNames : InWrite(u) => u \in W
  OBVIOUS
<1> HIDE DEF W
<1>3. DOMAIN PendingWrites = W /\ \A u \in W : PendingWrites[u] = thread[u].rt
  BY <1>1
<1> QED BY <1>2, <1>3 DEF W

\* A write that t begins is pending, with the others.
LEMMA MorePending ==
  ASSUME NEW t \in ThreadNames, NEW rt,
         InWrite(t)', thread'[t].rt = rt,
         \A u \in ThreadNames \ {t} : thread'[u] = thread[u]
  PROVE  PendingWrites' = [u \in DOMAIN PendingWrites \cup {t} |-> IF u = t THEN rt ELSE PendingWrites[u]]
<1>1. \A u \in ThreadNames \ {t} : InWrite(u)' = InWrite(u)
  BY DEF InWrite
<1>2. {u \in ThreadNames : InWrite(u)'} = DOMAIN PendingWrites \cup {t}
  BY <1>1, PendingAre
<1>3. \A u \in {x \in ThreadNames : InWrite(x)'} :
        thread'[u].rt = IF u = t THEN rt ELSE PendingWrites[u]
  BY <1>1, PendingAre
<1> QED BY <1>2, <1>3 DEF PendingWrites

Sharing == ThreadsTyped /\ Linear /\ Keeping

\* A step that begins and ends no write.
LEMMA StaysStep ==
  ASSUME Sharing, NEW t \in ThreadNames, thread' \in [ThreadNames -> ThreadStates],
         \A u \in ThreadNames \ {t} : thread'[u] = thread[u],
         \/ thread[t].pc \in RspPlaces /\ thread'[t].pc \in RspPlaces
         \/ /\ thread[t].pc \in WritePcs /\ thread'[t].pc \in WritePcs \ {"cas"}
            /\ thread'[t].rt = thread[t].rt,
         UNCHANGED <<status, sp_intr, possible, owed>>
  PROVE  Sharing'
<1>1. ThreadsTyped'
  BY DEF Sharing, ThreadsTyped
<1>2. \A u \in ThreadNames :
        InWrite(u)' = InWrite(u) /\ (InWrite(u) => thread'[u].rt = thread[u].rt)
        /\ (thread'[u].pc = "cas" => thread[u].pc = "cas")
  BY DEF InWrite, RspPlaces, WritePcs
<1>3. Linear'
  BY <1>2, SamePending DEF Sharing, Linear
<1>4. CpuClears' = CpuClears
  BY <1>2 DEF CpuClears, ThreadNames
<1>5. Keeping'
  BY <1>2, <1>4 DEF Sharing, Keeping, ThreadNames
<1> QED BY <1>1, <1>3, <1>5 DEF Sharing

\* The interrupt is written, by t.
LEMMA InterruptStep ==
  ASSUME Sharing, NEW t \in ThreadNames, WriteInterrupt(t)
  PROVE  Sharing'
<1>1. /\ thread[t].pc = "intr" /\ thread' = [thread EXCEPT ![t].pc = "cas"]
      /\ sp_intr' = IntrAfter(sp_intr, thread[t].rt)
      /\ UNCHANGED <<status, possible, owed>>
  BY DEF WriteInterrupt
<1>2. /\ thread' \in [ThreadNames -> ThreadStates] /\ thread'[t].pc = "cas"
      /\ thread'[t].rt = thread[t].rt /\ \A u \in ThreadNames \ {t} : thread'[u] = thread[u]
  BY <1>1, Goes DEF Sharing, WritePcs
<1>3. ThreadsTyped'
  BY <1>1, <1>2 DEF Sharing, ThreadsTyped, IntrAfter
<1>4. \A u \in ThreadNames : InWrite(u)' = InWrite(u) /\ thread'[u].rt = thread[u].rt
  BY <1>1, <1>2 DEF InWrite
<1>5. Linear'
  BY <1>1, <1>4, SamePending DEF Sharing, Linear
<1>6. CpuClears' = CpuClears /\ InWrite(t)
  BY <1>1, <1>4 DEF CpuClears, ThreadNames, InWrite
<1>7. Keeping'
  <2>1. CASE owed = "due"
    <3>1. ~Clears(thread[t].rt)
      BY <1>6, <2>1 DEF Sharing, Keeping, CpuClears, ThreadNames
    <3>2. sp_intr'
      BY <1>1, <2>1, <3>1 DEF Sharing, Keeping, IntrAfter, Clears
    <3> QED BY <1>1, <1>4, <1>6, <2>1, <3>2 DEF Sharing, Keeping, ThreadNames
  <2>2. CASE owed = "coming"
    <3>1. ~CpuClears /\ InWrite("rsp") /\ Raises(thread["rsp"].rt)
      BY <2>2 DEF Sharing, Keeping
    <3>2. CASE t = "rsp"
      <4>1. sp_intr'
        BY <1>1, <3>1, <3>2 DEF Raises, Clears, IntrAfter
      <4> QED BY <1>1, <1>4, <1>6, <2>2, <3>1, <4>1 DEF Keeping, ThreadNames
    <3>3. CASE t = "cpu"
      <4>1. ~Clears(thread[t].rt) /\ thread'["rsp"] = thread["rsp"]
        BY <1>2, <1>6, <3>1, <3>3 DEF CpuClears, ThreadNames
      <4>2. sp_intr => sp_intr'
        BY <1>1, <4>1 DEF IntrAfter, Clears
      <4> QED BY <1>1, <1>4, <1>6, <2>2, <3>1, <4>1, <4>2 DEF Sharing, Keeping, ThreadNames
    <3> QED BY <3>2, <3>3 DEF ThreadNames
  <2> QED BY <1>1, <2>1, <2>2 DEF Keeping
<1> QED BY <1>3, <1>5, <1>7 DEF Sharing

\* t begins a write.
LEMMA CallStep ==
  ASSUME Sharing, NEW t \in ThreadNames, NEW pc \in RspPlaces, NEW rt \in Words,
         thread[t].pc \in RspPlaces, thread' = [thread EXCEPT ![t] = Writing(rt, pc)],
         Called(t, rt), UNCHANGED <<status, sp_intr>>
  PROVE  Sharing'
<1> DEFINE p == [u \in DOMAIN PendingWrites \cup {t} |-> IF u = t THEN rt ELSE PendingWrites[u]]
<1>1. /\ thread' \in [ThreadNames -> ThreadStates]
      /\ thread'[t].pc = "load" /\ thread'[t].rt = rt
      /\ \A u \in ThreadNames \ {t} : thread'[u] = thread[u]
  BY Begins DEF Sharing
<1>2. ~InWrite(t) /\ InWrite(t)' /\ \A u \in ThreadNames \ {t} : InWrite(u)' = InWrite(u)
  BY <1>1 DEF InWrite, RspPlaces
<1>3. PendingWrites' = p
  BY <1>1, <1>2, MorePending
<1>4. possible' = Closure(possible, p) /\ owed' = Owing(t, rt)
  BY DEF Called
<1>5. DOMAIN p \subseteq ThreadNames
  BY PendingAre
<1> HIDE DEF p
<1>6. possible \subseteq possible' /\ possible' \in SUBSET Outcomes /\ Closed(possible', p)
  BY <1>4, <1>5, ClosureClosed DEF Sharing, ThreadsTyped
<1>7. Linear'
  BY <1>3, <1>6 DEF Sharing, Linear
<1>8. owed' \in {"none", "coming", "due"}
  BY <1>4 DEF Owing, Sharing, ThreadsTyped
<1>9. ThreadsTyped'
  BY <1>1, <1>6, <1>8 DEF Sharing, ThreadsTyped
<1>10. Keeping'
  <2>1. CASE t = "cpu"
    <3>1. /\ thread'["rsp"] = thread["rsp"] /\ InWrite("rsp")' = InWrite("rsp")
          /\ CpuClears' <=> Clears(rt)
      <4>1. "rsp" \in ThreadNames \ {"cpu"}
        BY DEF ThreadNames
      <4>2. InWrite("cpu")' /\ thread'["cpu"].rt = rt
        BY <1>1, <1>2, <2>1
      <4> QED BY <1>1, <1>2, <2>1, <4>1, <4>2 DEF CpuClears
    <3>2. CASE Clears(rt)
      BY <1>4, <2>1, <3>2 DEF Owing, Keeping
    <3>3. CASE ~Clears(rt)
      BY <1>4, <2>1, <3>1, <3>3 DEF Owing, Sharing, Keeping
    <3> QED BY <3>2, <3>3
  <2>2. CASE t = "rsp"
    <3>1. CpuClears' = CpuClears /\ InWrite("rsp")' /\ owed # "coming"
      BY <1>1, <1>2, <2>2 DEF CpuClears, ThreadNames, Sharing, Keeping
    <3>2. CASE owed = "none"
      <4>1. owed' = (IF Raises(rt) /\ ~CpuClears THEN "coming" ELSE "none")
        BY <1>4, <2>2, <3>2 DEF Owing
      <4> QED BY <1>1, <2>2, <3>1, <4>1 DEF Keeping
    <3>3. CASE owed = "due"
      <4>1. owed' = (IF Clears(rt) THEN "none" ELSE "due")
        BY <1>4, <2>2, <3>3 DEF Owing
      <4> QED BY <1>1, <2>2, <3>1, <3>3, <4>1 DEF Sharing, Keeping
    <3> QED BY <3>1, <3>2, <3>3 DEF Sharing, ThreadsTyped
  <2> QED BY <2>1, <2>2 DEF ThreadNames
<1> QED BY <1>7, <1>9, <1>10 DEF Sharing

\* An outcome without the mark of t, whose write has returned.
Less(c, t) == [c EXCEPT !.did = @ \ {t}]

LEMMA LessApplied ==
  ASSUME NEW d \in Outcomes, NEW t \in ThreadNames, NEW u \in ThreadNames, u # t, NEW rt
  PROVE  /\ Less(d, t) \in Outcomes /\ Less(d, t).did = d.did \ {t}
         /\ Less(d, t).status = d.status
         /\ Less(Apply(d, u, rt), t) = Apply(Less(d, t), u, rt)
<1>1. /\ Less(d, t) \in Outcomes /\ Less(d, t).did = d.did \ {t}
      /\ Less(d, t).status = d.status /\ Less(d, t).intr = d.intr
  BY DEF Less, Outcomes
<1> DEFINE s == StatusAfter(d.status, rt)
           i == IntrAfter(d.intr, rt)
<1>2. Apply(d, u, rt) = Outcome(s, i, d.did \cup {u})
  BY DEF Apply
<1>3. Apply(Less(d, t), u, rt) = Outcome(s, i, (d.did \ {t}) \cup {u})
  BY <1>1 DEF Apply
<1>4. (d.did \ {t}) \cup {u} = (d.did \cup {u}) \ {t}
  OBVIOUS
<1> HIDE DEF s, i
<1>5. Less(Outcome(s, i, d.did \cup {u}), t) = Outcome(s, i, (d.did \cup {u}) \ {t})
  BY DEF Less, Outcome
<1> QED BY <1>1, <1>2, <1>3, <1>4, <1>5

\* A swap that succeeds: the write of t takes place, and returns.
LEMMA SwapStep ==
  ASSUME Sharing, NEW t \in ThreadNames, SwapStatus(t)
  PROVE  Sharing'
<1> DEFINE p == PendingWrites
           rt == thread[t].rt
           back == thread[t].back
<1>1. /\ thread[t].pc = "cas" /\ status' = StatusAfter(status, rt)
      /\ thread' = [thread EXCEPT ![t] = At(back)] /\ UNCHANGED sp_intr
      /\ owed' = IF t = "rsp" /\ owed = "coming" THEN "due" ELSE owed
      /\ possible' = {Less(d, t) : d \in {c \in possible : t \in c.did}}
  BY DEF SwapStatus, Swaps, Returned, Less
<1>2. back \in RspPlaces
  BY DEF Sharing, ThreadsTyped, ThreadStates
<1>3. /\ thread' \in [ThreadNames -> ThreadStates] /\ thread'[t].pc \in RspPlaces
      /\ \A u \in ThreadNames \ {t} : thread'[u] = thread[u]
  BY <1>1, <1>2, Becomes DEF Sharing
<1>4. InWrite(t) /\ ~InWrite(t)' /\ \A u \in ThreadNames \ {t} : InWrite(u)' = InWrite(u)
  BY <1>1, <1>3 DEF InWrite, RspPlaces
<1>5. t \in DOMAIN p /\ p[t] = rt
  BY <1>4, PendingAre
<1>6. /\ DOMAIN PendingWrites' \subseteq DOMAIN p \ {t}
      /\ \A u \in DOMAIN PendingWrites' : PendingWrites'[u] = p[u]
  <2> DEFINE W == {u \in ThreadNames : InWrite(u)'}
  <2>1. PendingWrites' = [u \in W |-> thread'[u].rt]
    BY DEF PendingWrites
  <2>2. \A u \in W : u # t /\ u \in ThreadNames /\ InWrite(u) /\ thread'[u].rt = thread[u].rt
    BY <1>3, <1>4
  <2> HIDE DEF W
  <2>3. DOMAIN PendingWrites' = W /\ \A u \in W : PendingWrites'[u] = thread'[u].rt
    BY <2>1
  <2> QED BY <2>2, <2>3, PendingAre
<1> HIDE DEF p, rt
<1>7. possible \in SUBSET Outcomes /\ DOMAIN p \subseteq ThreadNames /\ Closed(possible, p)
  BY PendingAre DEF Sharing, ThreadsTyped, Linear, p
<1>8. possible' \in SUBSET Outcomes
  BY <1>1, <1>7 DEF Less, Outcomes
<1>9. \E c \in possible' : c.status = status' /\ c.did = {}
  <2>1. PICK c \in possible : c.status = status /\ c.did = {}
    BY DEF Sharing, Linear
  <2> DEFINE d == Apply(c, t, rt)
  <2>2. d \in possible
    BY <1>5, <1>7, <2>1 DEF Closed
  <2>3. d.did = {t} /\ d.status = status'
    BY <1>1, <1>7, <2>1, Applied
  <2> HIDE DEF d
  <2>4. Less(d, t).did = {} /\ Less(d, t).status = d.status
    BY <1>7, <2>2, <2>3 DEF Less, Outcomes
  <2>5. Less(d, t) \in possible'
    BY <1>1, <2>2, <2>3
  <2> QED BY <2>3, <2>4, <2>5
<1>10. ASSUME NEW x \in possible', NEW u \in DOMAIN PendingWrites', u \notin x.did
       PROVE  Apply(x, u, PendingWrites'[u]) \in possible'
  <2>1. u \in DOMAIN p /\ u # t /\ u \in ThreadNames /\ PendingWrites'[u] = p[u]
    BY <1>6, <1>7
  <2>2. PICK d \in possible : t \in d.did /\ x = Less(d, t)
    BY <1>1
  <2> DEFINE y == Apply(d, u, p[u])
  <2>3. d \in Outcomes /\ x.did = d.did \ {t} /\ Less(y, t) = Apply(x, u, p[u])
    BY <1>7, <2>1, <2>2, LessApplied
  <2>4. y \in possible
    BY <1>7, <1>10, <2>1, <2>2, <2>3 DEF Closed
  <2>5. t \in y.did
    BY <2>1, <2>2, <2>3, Applied
  <2> HIDE DEF y
  <2>6. Less(y, t) \in possible'
    BY <1>1, <2>4, <2>5
  <2> QED BY <2>1, <2>3, <2>6
<1>11. Linear'
  BY <1>9, <1>10 DEF Linear, Closed
<1>12. status' \in SUBSET StatusBits
  BY <1>1 DEF StatusAfter
<1>13. ThreadsTyped'
  BY <1>1, <1>3, <1>8, <1>12 DEF Sharing, ThreadsTyped
<1>14. Keeping'
  <2>1. CASE t = "rsp"
    <3>1. (CpuClears' <=> CpuClears) /\ ~InWrite("rsp")'
      BY <1>3, <1>4, <2>1 DEF CpuClears, ThreadNames
    <3>2. owed' # "coming" /\ (owed' = "due" => sp_intr /\ ~CpuClears)
      BY <1>1, <2>1 DEF Sharing, Keeping
    <3> QED BY <1>1, <3>1, <3>2 DEF Keeping
  <2>2. CASE t = "cpu"
    <3>1. "rsp" \in ThreadNames \ {t}
      BY <2>2 DEF ThreadNames
    <3>2. ~CpuClears' /\ thread'["rsp"] = thread["rsp"] /\ InWrite("rsp")' = InWrite("rsp")
      BY <1>3, <1>4, <2>2, <3>1 DEF CpuClears
    <3> QED BY <1>1, <2>2, <3>2 DEF Sharing, Keeping
  <2> QED BY <2>1, <2>2 DEF ThreadNames
<1> QED BY <1>11, <1>13, <1>14 DEF Sharing

\* BREAK raises the interrupt, if SP_STATUS says so when it is executed.
LEMMA BreakStep ==
  ASSUME Sharing, RspBreak
  PROVE  Sharing'
<1> DEFINE raises == "INTR_BREAK" \in status
           then(c) == IF raises THEN [c EXCEPT !.intr = TRUE] ELSE c
           now == {d \in possible : ("INTR_BREAK" \in d.status) = raises}
           cs == {then(c) : c \in now}
<1>1. /\ thread["rsp"].pc = "ex" /\ thread' = [thread EXCEPT !["rsp"] = At("tail")]
      /\ status' = status /\ sp_intr' = (sp_intr \/ raises)
      /\ owed' = IF raises /\ ~CpuClears THEN "due" ELSE owed
      /\ possible' = Closure(cs, PendingWrites)
  BY DEF RspBreak
<1>2. /\ thread' \in [ThreadNames -> ThreadStates] /\ thread'["rsp"].pc = "tail"
      /\ \A u \in ThreadNames \ {"rsp"} : thread'[u] = thread[u]
  BY <1>1, Becomes DEF Sharing, ThreadNames, RspPlaces
<1>3. ~InWrite("rsp") /\ ~InWrite("rsp")'
      /\ \A u \in ThreadNames \ {"rsp"} : InWrite(u)' = InWrite(u)
  BY <1>1, <1>2 DEF InWrite
<1>4. PendingWrites' = PendingWrites
  <2>1. InWrite("rsp")' = InWrite("rsp")
    BY <1>3 DEF InWrite
  <2>2. \A u \in ThreadNames :
          InWrite(u)' = InWrite(u) /\ (InWrite(u) => thread'[u].rt = thread[u].rt)
    BY <1>2, <1>3, <2>1
  <2> QED BY <2>2, SamePending
<1>5. possible \in SUBSET Outcomes
  BY DEF Sharing, ThreadsTyped
<1>6. \A c \in possible : then(c) \in Outcomes /\ then(c).status = c.status /\ then(c).did = c.did
  BY <1>5 DEF Outcomes
<1>7. cs \in SUBSET Outcomes
  BY <1>6
<1>8. \E c \in cs : c.status = status /\ c.did = {}
  <2>1. PICK c \in possible : c.status = status /\ c.did = {}
    BY DEF Sharing, Linear
  <2>2. c \in now
    BY <2>1
  <2> HIDE DEF then, now
  <2>3. then(c) \in cs
    BY <2>2
  <2> QED BY <1>6, <2>1, <2>3
<1> HIDE DEF cs
<1>9. cs \subseteq possible' /\ possible' \in SUBSET Outcomes /\ Closed(possible', PendingWrites)
  BY <1>1, <1>7, PendingAre, ClosureClosed
<1>10. Linear'
  BY <1>1, <1>4, <1>8, <1>9 DEF Linear
<1>11. ThreadsTyped'
  BY <1>1, <1>2, <1>9 DEF Sharing, ThreadsTyped
<1>12. CpuClears' <=> CpuClears
  BY <1>2, <1>3 DEF CpuClears, ThreadNames
<1>13. Keeping'
  BY <1>1, <1>3, <1>12 DEF Sharing, Keeping
<1> QED BY <1>10, <1>11, <1>13 DEF Sharing

LEMMA SharingStep ==
  ASSUME Sharing, [ThreadNext]_threadVars
  PROVE  Sharing'
<1>1. ASSUME NEW t \in ThreadNames, Write(t) PROVE Sharing'
  <2>1. CASE LoadStatus(t)
    BY <2>1, GoesFrom, StaysStep DEF LoadStatus, WritePcs, Sharing, ThreadsTyped
  <2>2. CASE RestartPipeline(t) \/ SwapFails(t)
    <3>1. PICK pc \in {"intr", "load"} : thread' = [thread EXCEPT ![t].pc = pc]
      BY <2>2 DEF RestartPipeline, SwapFails
    <3>2. thread[t].pc \in WritePcs /\ pc \in WritePcs \ {"cas"} /\ pc \in RspPlaces \cup WritePcs
          /\ UNCHANGED <<status, sp_intr, possible, owed>>
      BY <2>2 DEF RestartPipeline, SwapFails, WritePcs
    <3>3. /\ thread' \in [ThreadNames -> ThreadStates] /\ thread'[t].pc = pc
          /\ thread'[t].rt = thread[t].rt /\ \A u \in ThreadNames \ {t} : thread'[u] = thread[u]
      BY <3>1, <3>2, Goes DEF Sharing
    <3> QED BY <3>2, <3>3, StaysStep
  <2> QED BY <1>1, <2>1, <2>2, InterruptStep, SwapStep DEF Write
<1>2. {"cpu", "rsp"} \subseteq ThreadNames /\ {"out", "wb", "ex", "tail"} \subseteq RspPlaces
  BY DEF ThreadNames, RspPlaces
<1>3. CASE CpuCallsWrite
  <2>1. PICK rt \in CpuWrites :
          thread' = [thread EXCEPT !["cpu"] = Writing(Masked(rt), "out")] /\ Called("cpu", Masked(rt))
    BY <1>3 DEF CpuCallsWrite
  <2>2. Masked(rt) \in Words
    BY DEF Words
  <2> QED BY <1>2, <1>3, <2>1, <2>2, CallStep DEF CpuCallsWrite
<1>4. CASE RspMtc0
  <2>1. PICK rt \in RspWrites :
          thread' = [thread EXCEPT !["rsp"] = Writing(Masked(rt), "tail")] /\ Called("rsp", Masked(rt))
    BY <1>4 DEF RspMtc0
  <2>2. Masked(rt) \in Words
    BY DEF Words
  <2> QED BY <1>2, <1>4, <2>1, <2>2, CallStep DEF RspMtc0
<1>5. CASE RspBegins
  <2>1. CASE brk
    <3>1. HaltBroke \in Words
      BY DEF Words
    <3> QED BY <1>2, <1>5, <2>1, <3>1, CallStep DEF RspBegins
  <2>2. CASE ~brk
    BY <1>2, <1>5, <2>2, Becomes, StaysStep DEF RspBegins, Sharing
  <2> QED BY <2>1, <2>2
<1>6. CASE RspWbReturns
  <2>1. PICK pc \in {"out", "ex"} : thread' = [thread EXCEPT !["rsp"] = At(pc)]
    BY <1>6 DEF RspWbReturns
  <2>2. thread["rsp"].pc \in RspPlaces /\ UNCHANGED <<status, sp_intr, possible, owed>>
    BY <1>2, <1>6 DEF RspWbReturns
  <2>3. /\ thread' \in [ThreadNames -> ThreadStates] /\ thread'["rsp"].pc \in RspPlaces
        /\ \A u \in ThreadNames \ {"rsp"} : thread'[u] = thread[u]
    BY <1>2, <2>1, Becomes DEF Sharing
  <2> QED BY <1>2, <2>2, <2>3, StaysStep
<1>7. CASE RspExecutesOther \/ RspSemaphore \/ RspEnds
  <2>1. PICK pc \in {"tail", "out"} : thread' = [thread EXCEPT !["rsp"] = At(pc)]
    BY <1>7 DEF RspExecutesOther, RspSemaphore, RspEnds
  <2>2. thread["rsp"].pc \in RspPlaces /\ UNCHANGED <<status, sp_intr, possible, owed>>
    BY <1>2, <1>7 DEF RspExecutesOther, RspSemaphore, RspEnds
  <2>3. /\ thread' \in [ThreadNames -> ThreadStates] /\ thread'["rsp"].pc \in RspPlaces
        /\ \A u \in ThreadNames \ {"rsp"} : thread'[u] = thread[u]
    BY <1>2, <2>1, Becomes DEF Sharing
  <2> QED BY <1>2, <2>2, <2>3, StaysStep
<1>8. CASE RspBreak
  BY <1>8, BreakStep
<1>9. CASE CpuSemaphore \/ CpuSetsPc \/ UNCHANGED threadVars
  <2>1. UNCHANGED <<status, sp_intr, thread, possible, owed>>
    BY <1>9 DEF CpuSemaphore, CpuSetsPc, threadVars
  <2>2. PendingWrites' = PendingWrites
    BY <2>1 DEF PendingWrites, InWrite
  <2> QED BY <2>1, <2>2 DEF Sharing, ThreadsTyped, Linear, Keeping, CpuClears, InWrite
<1> QED BY <1>1, <1>3, <1>4, <1>5, <1>6, <1>7, <1>8, <1>9 DEF ThreadNext

LEMMA SharingHolds == ThreadSpec => []Sharing
<1>1. ThreadInit => Sharing
  <2> SUFFICES ASSUME ThreadInit PROVE Sharing
    OBVIOUS
  <2>1. \A t \in ThreadNames : thread[t] = At("out") /\ ~InWrite(t)
    BY DEF ThreadInit, At, InWrite
  <2>2. At("out") \in ThreadStates
    BY DEF At, ThreadStates, RspPlaces, Words
  <2>3. Outcome({"HALT"}, FALSE, {}) \in Outcomes /\ {"HALT"} \in SUBSET StatusBits
    BY DEF Outcome, Outcomes, StatusBits
  <2>4. ThreadsTyped
    BY <2>2, <2>3 DEF ThreadInit, ThreadsTyped
  <2>5. DOMAIN PendingWrites = {}
    BY <2>1, PendingAre
  <2>6. Linear
    BY <2>5 DEF ThreadInit, Linear, Closed, Outcome
  <2> QED BY <2>4, <2>6 DEF Sharing, Keeping, ThreadInit
<1> QED BY <1>1, SharingStep, PTL DEF ThreadSpec

\* Two threads write SP_STATUS without a lock, and each write looks as if it had been
\* made at one moment between its call and its return: none loses a bit of another's.
THEOREM StatusWritesAtomic == ThreadSpec => []WritesAtomic
<1>1. Sharing => WritesAtomic
  BY DEF Sharing, Linear, WritesAtomic
<1> QED BY <1>1, SharingHolds, PTL

\* No retry of the swap and no other write takes back an interrupt of the RSP, unless
\* the CPU clears it.
THEOREM InterruptAlwaysKept == ThreadSpec => []InterruptKept
<1>1. Sharing => InterruptKept
  BY DEF Sharing, Keeping, InterruptKept
<1> QED BY <1>1, SharingHolds, PTL

\* The semaphore that is taken by a read and given back by a plain store has one
\* holder at most, and one when it reads 1.
THEOREM AlwaysOneHolder == ThreadSpec => []OneHolder
<1>1. ThreadInit => Held
  BY DEF ThreadInit, Held
<1>2. Held /\ [ThreadNext]_threadVars => Held'
  <2> SUFFICES ASSUME Held, [ThreadNext]_threadVars PROVE Held'
    OBVIOUS
  <2>1. ASSUME NEW t \in ThreadNames, Acquire(t) \/ Release(t) PROVE Held'
    BY <2>1 DEF Held, Acquire, Release, ReadsFree
  <2>2. CASE UNCHANGED <<holders, reserved>>
    BY <2>2 DEF Held
  <2>3. \/ \E t \in ThreadNames : Acquire(t) \/ Release(t)
        \/ UNCHANGED <<holders, reserved>>
    BY DEF ThreadNext, threadVars, Write, LoadStatus, RestartPipeline, WriteInterrupt, SwapStatus,
       SwapFails, CpuCallsWrite, CpuSemaphore, CpuSetsPc, RspBegins, RspWbReturns, RspExecutesOther,
       RspMtc0, RspSemaphore, RspBreak, RspEnds, ThreadNames
  <2> QED BY <2>1, <2>2, <2>3
<1>3. Held => OneHolder
  <2> SUFFICES ASSUME Held PROVE Cardinality(holders) <= 1
    BY DEF Held, OneHolder
  <2>1. CASE holders = {}
    BY <2>1, FS_EmptySet
  <2>2. CASE holders # {}
    <3>1. PICK t \in holders : TRUE
      BY <2>2
    <3>2. holders = {t}
      BY <3>1 DEF Held
    <3>3. Cardinality({t}) = 1
      BY FS_Singleton
    <3> QED BY <3>2, <3>3
  <2> QED BY <2>1, <2>2
<1> QED BY <1>1, <1>2, <1>3, PTL DEF ThreadSpec
-----------------------------------------------------------------------------
(* The memories of the RSP. *)

SpBytes == 0 .. 2 * BankBytes - 1
ImemLines == 0 .. BankBytes \div 4 - 1
DramBytesAt == 0 .. DramBytes - 1

\* Bytes as they were, from RDRAM, or stored by the CPU or the RSP.
DataBytes == {Zero} \cup ({"ram"} \X DramBytesAt) \cup ({"cpu", "rsp"} \X (0 .. 3))
WordData == [0 .. 3 -> DataBytes]
SpStates == [mem : [SpBytes -> DataBytes], cache : [ImemLines -> WordData]]

Aligned(a) == a \in SpBytes /\ a % 4 = 0

\* The decoded words of s are those of its IMEM.
Current(s) == \A i \in ImemLines : s.cache[i] = Word(s.mem, BankBytes + 4 * i)

LEMMA BankParts ==
  /\ BankBytes \in Nat /\ BankBytes >= 8 /\ BankBytes % 8 = 0
  /\ BankBytes \div 4 \in Nat /\ 4 * (BankBytes \div 4) = BankBytes
  /\ 2 * BankBytes \in Nat \ {0} /\ (2 * BankBytes) % 8 = 0
<1>1. BankBytes \in Nat \ {0} /\ BankBytes % 8 = 0
  BY RspDmaAssumption
<1> QED BY <1>1

\* Which bank an address is in.
LEMMA BankOf ==
  ASSUME NEW a \in SpBytes PROVE InImem(a) <=> a >= BankBytes
<1>1. CASE a >= BankBytes
  <2>1. (1 * BankBytes + (a - BankBytes)) \div BankBytes = 1
    BY <1>1, BankParts, DivModUnique DEF SpBytes
  <2>2. 1 * BankBytes + (a - BankBytes) = a
    BY BankParts DEF SpBytes
  <2> QED BY <2>1, <2>2, <1>1 DEF InImem
<1>2. CASE ~ (a >= BankBytes)
  <2>1. (0 * BankBytes + a) \div BankBytes = 0
    BY <1>2, BankParts, DivModUnique DEF SpBytes
  <2>2. 0 * BankBytes + a = a
    BY BankParts DEF SpBytes
  <2> QED BY <2>1, <2>2, <1>2 DEF InImem
<1> QED BY <1>1, <1>2

\* A word lies in one bank, and two of them are the same or apart.
LEMMA WordPlaces ==
  ASSUME NEW a, Aligned(a)
  PROVE  /\ a \in Nat /\ \A i \in 0 .. 3 : a + i \in SpBytes
         /\ \A b : Aligned(b) /\ b # a => b + 3 < a \/ a + 3 < b
         /\ a >= BankBytes => (a - BankBytes) \div 4 \in ImemLines
                              /\ BankBytes + 4 * ((a - BankBytes) \div 4) = a
<1>1. a \in Nat /\ a % 4 = 0 /\ a < 2 * BankBytes
  BY BankParts DEF Aligned, SpBytes
<1>2. \A i \in 0 .. 3 : a + i \in SpBytes
  BY <1>1, BankParts DEF SpBytes
<1>3. ASSUME NEW b, Aligned(b), b # a PROVE b + 3 < a \/ a + 3 < b
  BY <1>1, <1>3 DEF Aligned, SpBytes
<1>4. ASSUME a >= BankBytes
      PROVE  /\ (a - BankBytes) \div 4 \in ImemLines
             /\ BankBytes + 4 * ((a - BankBytes) \div 4) = a
  BY <1>1, <1>4, BankParts DEF ImemLines
<1> QED BY <1>1, <1>2, <1>3, <1>4

LEMMA LinePlaces ==
  ASSUME NEW i \in ImemLines
  PROVE  Aligned(BankBytes + 4 * i) /\ BankBytes + 4 * i >= BankBytes
BY BankParts DEF ImemLines, Aligned, SpBytes

LEMMA WordTyped ==
  ASSUME NEW m \in [SpBytes -> DataBytes], NEW a, Aligned(a)
  PROVE  Word(m, a) \in WordData
<1>1. \A i \in 0 .. 3 : a + i \in SpBytes /\ a + 3 - i \in SpBytes
  BY WordPlaces DEF SpBytes
<1> QED BY <1>1 DEF Word, WordData

\* What a word that is stored changes, and what it does not.
LEMMA StoredWord ==
  ASSUME NEW s \in SpStates, NEW a, Aligned(a), NEW w \in WordData
  PROVE  /\ StoreWord(s, a, w) \in SpStates
         /\ Word(StoreWord(s, a, w).mem, a) = w
         /\ \A b : Aligned(b) /\ b # a => Word(StoreWord(s, a, w).mem, b) = Word(s.mem, b)
         /\ \A b \in SpBytes : b \notin a .. a + 3 => StoreWord(s, a, w).mem[b] = s.mem[b]
<1> DEFINE m == Put(s.mem, a, w)
<1>0. s.mem \in [SpBytes -> DataBytes] /\ s.cache \in [ImemLines -> WordData]
  BY DEF SpStates
<1>a. a \in Nat /\ \A i \in 0 .. 3 : a + i \in SpBytes
  BY WordPlaces
<1>w. w \in [0 .. 3 -> DataBytes]
  BY DEF WordData
<1>1. /\ m = [b \in SpBytes |->
                IF b \in a .. a + 3 THEN (IF InImem(a) THEN w[a + 3 - b] ELSE w[b - a])
                ELSE s.mem[b]]
      /\ StoreWord(s, a, w).mem = m
  BY <1>0 DEF Put, StoreWord
<1>2. m \in [SpBytes -> DataBytes]
  <2>1. ASSUME NEW b \in a .. a + 3 PROVE a + 3 - b \in 0 .. 3 /\ b - a \in 0 .. 3
    BY <1>a
  <2> QED BY <1>0, <1>1, <1>w, <2>1
<1> HIDE DEF m
<1>3. Word(m, a) = w
  <2>1. ASSUME NEW i \in 0 .. 3 PROVE Word(m, a)[i] = w[i]
    <3>1. /\ a + i \in a .. a + 3 /\ a + 3 - i \in a .. a + 3
          /\ a + i \in SpBytes /\ a + 3 - i \in SpBytes
          /\ a + 3 - (a + 3 - i) = i /\ (a + i) - a = i
      BY <1>a
    <3> QED BY <3>1, <1>1 DEF Word
  <2> QED BY <2>1, <1>w DEF Word
<1>4. ASSUME NEW b, Aligned(b), b # a PROVE Word(m, b) = Word(s.mem, b)
  <2>1. b \in Nat /\ (b + 3 < a \/ a + 3 < b) /\ \A i \in 0 .. 3 : b + i \in SpBytes
    BY <1>4, WordPlaces
  <2>2. ASSUME NEW i \in 0 .. 3
        PROVE  m[b + i] = s.mem[b + i] /\ m[b + 3 - i] = s.mem[b + 3 - i]
    <3>1. b + i \notin a .. a + 3 /\ b + 3 - i \notin a .. a + 3
      BY <2>1, <1>a
    <3>2. b + i \in SpBytes /\ b + 3 - i \in SpBytes
      BY <2>1
    <3> QED BY <3>1, <3>2, <1>1
  <2> QED BY <2>2 DEF Word
<1>5. StoreWord(s, a, w).cache \in [ImemLines -> WordData]
  BY <1>0 DEF StoreWord
<1>6. StoreWord(s, a, w) \in SpStates
  BY <1>1, <1>2, <1>5 DEF StoreWord, SpStates
<1> QED BY <1>1, <1>3, <1>4, <1>6

LEMMA StoredCurrent ==
  ASSUME NEW s \in SpStates, Current(s), NEW a, Aligned(a), NEW w \in WordData
  PROVE  Current(StoreWord(s, a, w))
<1> DEFINE r == StoreWord(s, a, w)
<1>0. s.cache \in [ImemLines -> WordData]
  BY DEF SpStates
<1>1. SUFFICES ASSUME NEW i \in ImemLines PROVE r.cache[i] = Word(r.mem, BankBytes + 4 * i)
  BY DEF Current
<1>2. Aligned(BankBytes + 4 * i) /\ i \in Nat
  BY LinePlaces DEF ImemLines
<1>3. InImem(a) <=> a >= BankBytes
  BY BankOf DEF Aligned
<1>4. CASE a = BankBytes + 4 * i
  <2>1. InImem(a) /\ (a - BankBytes) \div 4 = i
    BY <1>3, <1>4, <1>2, BankParts
  <2>2. r.cache[i] = w
    BY <2>1, <1>0 DEF StoreWord
  <2> QED BY <2>2, <1>4, StoredWord
<1>5. CASE a # BankBytes + 4 * i
  <2>1. Word(r.mem, BankBytes + 4 * i) = s.cache[i]
    BY <1>2, <1>5, StoredWord DEF Current
  <2>2. ASSUME InImem(a) PROVE (a - BankBytes) \div 4 # i /\ (a - BankBytes) \div 4 \in ImemLines
    BY <1>3, <1>5, <2>2, WordPlaces
  <2>3. r.cache[i] = s.cache[i]
    BY <2>2, <1>0 DEF StoreWord
  <2> QED BY <2>1, <2>3
<1> QED BY <1>4, <1>5

-----------------------------------------------------------------------------
(* Where the words of a transfer are. *)

LEMMA TransferParts ==
  ASSUME NEW t \in Transfers
  PROVE  /\ CacheStart(t) \in Nat /\ CacheStart(t) % 8 = 0 /\ CacheStart(t) < 2 * BankBytes
         /\ DramStart(t) \in Nat
         /\ RowBytes(t) \in Nat /\ RowBytes(t) % 8 = 0 /\ RowBytes(t) >= 8
         /\ RowWords(t) \in Nat \ {0} /\ 4 * RowWords(t) = RowBytes(t)
         /\ DmaWords(t) \in Nat /\ t.skip \in Nat
<1>1. /\ t.cache \in Nat /\ t.cache < 2 * BankBytes /\ t.dram \in Nat
      /\ t.length \in Nat /\ t.skip \in Nat /\ t.count \in Nat
  <2>1. /\ t.cache \in SpAddresses /\ t.dram \in DramAddresses /\ t.length \in SpLengths
        /\ t.skip \in SpSkips /\ t.count \in SpCounts
    BY DEF Transfers
  <2>2. t.cache \in 0 .. 2 * BankBytes - 1 /\ t.dram \in 0 .. DramBytes - 1
    BY <2>1, RspDmaAssumption
  <2>3. t.length \in Nat /\ t.skip \in Nat /\ t.count \in Nat
    BY <2>1, RspDmaAssumption
  <2> QED BY <2>2, <2>3, BankParts
<1>2. CacheStart(t) \in Nat /\ CacheStart(t) % 8 = 0 /\ CacheStart(t) <= t.cache
  BY <1>1 DEF CacheStart, Down
<1>3. DramStart(t) \in Nat
  BY <1>1 DEF DramStart, Down
<1>4. CacheStart(t) < 2 * BankBytes
  BY <1>1, <1>2, BankParts
<1> DEFINE c == CacheStart(t)  room == BankBytes - (c % BankBytes)
           length == Down(t.length + 1 + 7, 8)
<1>5. length \in Nat /\ length % 8 = 0 /\ length >= 8
  BY <1>1 DEF Down
<1>6. room \in Nat /\ room % 8 = 0 /\ room >= 8
  <2>1. c % BankBytes \in Nat /\ c % BankBytes < BankBytes
    BY <1>2, BankParts, DivModParts
  <2>2. (c % BankBytes) % 8 = 0
    <3> DEFINE a == c \div 8  m == BankBytes \div 8
    <3>1. a \in Int /\ m \in Nat \ {0} /\ c = a * 8 /\ BankBytes = m * 8
      BY <1>2, BankParts
    <3> HIDE DEF a, m, c
    <3>2. c % BankBytes = (a % m) * 8
      <4>1. 8 \in Nat \ {0}
        OBVIOUS
      <4>2. (a * 8) % (m * 8) = (a % m) * 8
        BY <3>1, <4>1, ModMultiple
      <4> QED BY <3>1, <4>2
    <3>3. a % m \in Nat
      BY <3>1, DivModParts
    <3> QED BY <3>2, <3>3
  <2> HIDE DEF c
  <2> QED BY <2>1, <2>2, BankParts
<1>7. RowBytes(t) = IF length > room THEN room ELSE length
  BY DEF RowBytes
<1> HIDE DEF c, room, length
<1>8. RowBytes(t) \in Nat /\ RowBytes(t) % 8 = 0 /\ RowBytes(t) >= 8
  BY <1>5, <1>6, <1>7
<1>9. RowWords(t) \in Nat \ {0} /\ 4 * RowWords(t) = RowBytes(t)
  BY <1>8 DEF RowWords
<1>10. DmaWords(t) \in Nat
  BY <1>1, <1>9 DEF DmaWords
<1> QED BY <1>1, <1>2, <1>3, <1>4, <1>8, <1>9, <1>10

\* A multiple of four stays one modulo a multiple of eight.
LEMMA WordsWrap ==
  ASSUME NEW a \in Nat, a % 4 = 0, NEW m \in Nat \ {0}, m % 8 = 0
  PROVE  a % m \in Nat /\ a % m < m /\ (a % m) % 4 = 0
<1> DEFINE b == a \div 4  k == m \div 4
<1>1. b \in Int /\ k \in Nat \ {0} /\ a = b * 4 /\ m = k * 4
  OBVIOUS
<1> HIDE DEF b, k
<1>2. a % m = (b % k) * 4 /\ b % k \in Nat
  <2>1. 4 \in Nat \ {0}
    OBVIOUS
  <2>2. (b * 4) % (k * 4) = (b % k) * 4
    BY <1>1, <2>1, ModMultiple
  <2>3. b % k \in Nat
    BY <1>1, DivModParts
  <2> QED BY <1>1, <2>2, <2>3
<1>3. a % m \in Nat /\ a % m < m
  BY DivModParts
<1> QED BY <1>2, <1>3

\* In the RSP the words follow each other, from row to row.
LEMMA SpAtIs ==
  ASSUME NEW t \in Transfers, NEW n \in Nat
  PROVE  /\ SpAt(t, n) = (CacheStart(t) + 4 * n) % (2 * BankBytes)
         /\ Aligned(SpAt(t, n))
<1> DEFINE c == CacheStart(t)  m == 2 * BankBytes  k == RowWords(t)
           q == n \div k  r == n % k  x == c + q * RowBytes(t)
<1>1. /\ c \in Nat /\ c % 8 = 0 /\ k \in Nat \ {0} /\ RowBytes(t) = 4 * k
      /\ RowBytes(t) \in Nat /\ RowBytes(t) % 8 = 0
  BY TransferParts
<1>2. m \in Nat \ {0} /\ m % 8 = 0
  BY BankParts
<1>3. q \in Nat /\ r \in Nat /\ n = q * k + r
  <2>0. n \in Int
    OBVIOUS
  <2>1. q \in Int /\ r \in Nat /\ n = q * k + r
    BY <1>1, <2>0, DivModParts
  <2>2. q >= 0
    BY <1>1
  <2> QED BY <2>1, <2>2
<1> HIDE DEF c, k, q, r, m
<1>4. x \in Nat /\ x % 4 = 0
  <2>1. q * RowBytes(t) = 4 * (q * k) /\ q * k \in Nat
    BY <1>1, <1>3
  <2> QED BY <2>1, <1>1
<1>5. x % m \in Nat /\ (x % m) % 4 = 0
  BY <1>2, <1>4, WordsWrap
<1>6. Down(x % m, 4) = x % m
  BY <1>5 DEF Down
<1>7. SpAt(t, n) = ((x % m) + 4 * r) % m
  BY <1>6 DEF SpAt, c, m, k, q, r
<1>8. SpAt(t, n) = (x + 4 * r) % m
  <2>1. x \in Int /\ 4 * r \in Int
    BY <1>4, <1>3
  <2> HIDE DEF x
  <2>2. ((x % m) + 4 * r) % m = (x + 4 * r) % m
    BY <2>1, <1>2, ModOfSum
  <2> QED BY <2>2, <1>7
<1>9. x + 4 * r = c + 4 * n
  <2>1. q * RowBytes(t) = 4 * (q * k) /\ q * k \in Nat
    BY <1>1, <1>3
  <2> QED BY <2>1, <1>1, <1>3
<1>10. SpAt(t, n) = (c + 4 * n) % m
  BY <1>8, <1>9
<1>11. c + 4 * n \in Nat /\ (c + 4 * n) % 4 = 0
  BY <1>1
<1>12. SpAt(t, n) \in Nat /\ SpAt(t, n) < m /\ SpAt(t, n) % 4 = 0
  BY <1>10, <1>11, <1>2, WordsWrap
<1>13. Aligned(SpAt(t, n))
  BY <1>12, BankParts DEF Aligned, SpBytes, m
<1> QED BY <1>10, <1>13 DEF c, m

LEMMA DramAtIs ==
  ASSUME NEW t \in Transfers, NEW n \in Nat
  PROVE  DramAt(t, n) \in Nat /\ DramAt(t, n) % 4 = 0 /\ \A i \in 0 .. 3 : DramAt(t, n) + i \in DramBytesAt
<1> DEFINE k == RowWords(t)  q == n \div k  r == n % k
           x == DramStart(t) + q * (RowBytes(t) + t.skip)
           row == Down(x % DramBytes, 4)
<1>0. DramBytes \in Nat \ {0} /\ DramBytes % 8 = 0
  BY RspDmaAssumption
<1>1. /\ DramStart(t) \in Nat /\ k \in Nat \ {0} /\ RowBytes(t) \in Nat /\ t.skip \in Nat
  BY TransferParts
<1>2. q \in Nat /\ r \in Nat
  <2>1. q \in Int /\ r \in Nat
    BY <1>1, DivModParts
  <2>2. q >= 0
    BY <1>1
  <2> QED BY <2>1, <2>2
<1> HIDE DEF k, q, r
<1>3. x \in Nat
  BY <1>1, <1>2
<1> HIDE DEF x
<1>4. x % DramBytes \in Nat
  BY <1>0, <1>3, DivModParts
<1>5. row \in Nat /\ row % 4 = 0
  BY <1>4 DEF Down
<1> HIDE DEF row
<1>6. DramAt(t, n) = (row + 4 * r) % DramBytes
  BY DEF DramAt, row, x, k, q, r
<1>7. row + 4 * r \in Nat /\ (row + 4 * r) % 4 = 0
  BY <1>5, <1>2
<1>8. DramAt(t, n) \in Nat /\ DramAt(t, n) < DramBytes /\ DramAt(t, n) % 4 = 0
  BY <1>6, <1>7, <1>0, WordsWrap
<1>9. \A i \in 0 .. 3 : DramAt(t, n) + i \in DramBytesAt
  BY <1>8, <1>0 DEF DramBytesAt
<1> QED BY <1>8, <1>9

LEMMA DramWordTyped ==
  ASSUME NEW d \in [DramBytesAt -> DataBytes], NEW t \in Transfers, NEW n \in Nat
  PROVE  DramWord(d, DramAt(t, n)) \in WordData
BY DramAtIs DEF DramWord, WordData

-----------------------------------------------------------------------------
(* The loops. *)

\* A DMA to the RSP has a state after each word, and answers the last one.
LEMMA ReadRun ==
  ASSUME NEW s \in SpStates, NEW d \in [DramBytesAt -> DataBytes], NEW t \in Transfers
  PROVE  \E f \in [0 .. DmaWords(t) -> SpStates] :
           /\ f[0] = s
           /\ \A n \in Nat : n < DmaWords(t) =>
                f[n + 1] = StoreWord(f[n], SpAt(t, n), DramWord(d, DramAt(t, n)))
           /\ rsp_dma_read(s, d, t) = f[DmaWords(t)]
<1> DEFINE K == DmaWords(t)
           step == [n \in Nat |-> [x \in SpStates |->
                      StoreWord(x, SpAt(t, n), DramWord(d, DramAt(t, n)))]]
           Def(r) == [n \in 0 .. DmaWords(t) |->
                        IF n = 0 THEN s
                        ELSE StoreWord(r[n - 1], SpAt(t, n - 1), DramWord(d, DramAt(t, n - 1)))]
           run == CHOOSE r : r = Def(r)
<1>0. K \in Nat
  BY TransferParts
<1>1. \A n \in Nat, x \in SpStates :
        StoreWord(x, SpAt(t, n), DramWord(d, DramAt(t, n))) \in SpStates
  BY SpAtIs, DramWordTyped, StoredWord
<1>2. step \in [Nat -> [SpStates -> SpStates]]
  BY <1>1
<1>2a. \A n \in Nat, x \in SpStates :
         step[n][x] = StoreWord(x, SpAt(t, n), DramWord(d, DramAt(t, n)))
  OBVIOUS
<1>3. PICK f \in [0 .. K -> SpStates] :
        f[0] = s /\ \A n \in Nat : n < K => f[n + 1] = step[n][f[n]]
  <2> HIDE DEF step, K
  <2>1. Runs(SpStates, s, K, step) # {}
    BY <1>0, <1>2, IterationExists
  <2> QED BY <2>1 DEF Runs
<1>4. \A n \in Nat : n < K =>
        f[n + 1] = StoreWord(f[n], SpAt(t, n), DramWord(d, DramAt(t, n)))
  <2> HIDE DEF step, K
  <2>1. ASSUME NEW n \in Nat, n < K
        PROVE  f[n + 1] = StoreWord(f[n], SpAt(t, n), DramWord(d, DramAt(t, n)))
    <3>1. n \in 0 .. K
      BY <1>0, <2>1
    <3>2. f[n] \in SpStates
      BY <3>1, <1>3
    <3> QED BY <3>2, <2>1, <1>2a, <1>3
  <2> QED BY <2>1
<1>5. f = Def(f)
  <2>1. ASSUME NEW n \in 0 .. K PROVE f[n] = Def(f)[n]
    <3>1. CASE n = 0
      BY <3>1, <1>3
    <3>2. CASE n # 0
      <4>1. n - 1 \in Nat /\ n - 1 < K /\ (n - 1) + 1 = n
        BY <3>2, <1>0
      <4>2. f[n] = StoreWord(f[n - 1], SpAt(t, n - 1), DramWord(d, DramAt(t, n - 1)))
        BY <4>1, <1>4
      <4> QED BY <4>2, <3>2
    <3> QED BY <3>1, <3>2
  <2>2. f = [n \in 0 .. K |-> f[n]]
    BY <1>3
  <2> QED BY <2>1, <2>2
<1>6. run = Def(run)
  <2> HIDE DEF Def
  <2> QED BY <1>5
<1>7. rsp_dma_read(s, d, t) = run[K]
  BY DEF rsp_dma_read
<1> HIDE DEF run
<1>8. \A n \in Nat : n < K =>
        run[n + 1] = StoreWord(run[n], SpAt(t, n), DramWord(d, DramAt(t, n)))
  <2>1. ASSUME NEW n \in Nat, n < K
        PROVE  run[n + 1] = StoreWord(run[n], SpAt(t, n), DramWord(d, DramAt(t, n)))
    <3>1. n + 1 \in 0 .. K /\ n + 1 # 0 /\ (n + 1) - 1 = n
      BY <2>1, <1>0
    <3>2. run[n + 1] = Def(run)[n + 1]
      BY <1>6
    <3> HIDE DEF K
    <3>3. Def(run)[n + 1] = StoreWord(run[n], SpAt(t, n), DramWord(d, DramAt(t, n)))
      BY <3>1 DEF K
    <3> QED BY <3>2, <3>3
  <2> QED BY <2>1
<1>9. run[0] = s
  <2>1. 0 \in 0 .. K
    BY <1>0
  <2>2. Def(run)[0] = s
    BY <2>1
  <2> QED BY <2>2, <1>6
<1>10. \A n \in 0 .. K : run[n] = f[n]
  <2> DEFINE S == {n \in Nat : run[n] = f[n]}
  <2>1. 0 \in S
    BY <1>3, <1>9
  <2>2. \A n \in Nat : n < K /\ n \in S => n + 1 \in S
    BY <1>4, <1>8
  <2> HIDE DEF S, K
  <2>3. \A n \in 0 .. K : n \in S
    BY <1>0, <2>1, <2>2, BoundedInduction
  <2> QED BY <2>3 DEF S
<1>11. rsp_dma_read(s, d, t) = f[K]
  BY <1>7, <1>10, <1>0
<1> QED BY <1>3, <1>4, <1>11

\* What a DMA to the RSP leaves: bytes in place of bytes, the decoded words of IMEM.
LEMMA ReadKeeps ==
  ASSUME NEW s \in SpStates, NEW d \in [DramBytesAt -> DataBytes], NEW t \in Transfers
  PROVE  /\ rsp_dma_read(s, d, t) \in SpStates
         /\ Current(s) => Current(rsp_dma_read(s, d, t))
<1> DEFINE K == DmaWords(t)
<1>0. K \in Nat
  BY TransferParts
<1>1. PICK f \in [0 .. K -> SpStates] :
        /\ f[0] = s
        /\ \A n \in Nat : n < K =>
             f[n + 1] = StoreWord(f[n], SpAt(t, n), DramWord(d, DramAt(t, n)))
        /\ rsp_dma_read(s, d, t) = f[K]
  BY ReadRun
<1> HIDE DEF K
<1>2. K \in 0 .. K
  BY <1>0
<1>3. ASSUME Current(s) PROVE Current(f[K])
  <2> DEFINE S == {n \in Nat : n <= K => Current(f[n])}
  <2>1. 0 \in S
    BY <1>1, <1>3
  <2>2. ASSUME NEW n \in Nat, n < K, n \in S PROVE n + 1 \in S
    <3>1. n \in 0 .. K /\ Current(f[n])
      BY <2>2, <1>0
    <3>2. f[n] \in SpStates
      BY <3>1, <1>1
    <3>3. Aligned(SpAt(t, n)) /\ DramWord(d, DramAt(t, n)) \in WordData
      BY SpAtIs, DramWordTyped
    <3>4. Current(f[n + 1])
      BY <3>1, <3>2, <3>3, <2>2, <1>1, StoredCurrent
    <3> QED BY <3>4
  <2> HIDE DEF S
  <2>3. \A n \in 0 .. K : n \in S
    BY <1>0, <2>1, <2>2, BoundedInduction
  <2>4. K \in S
    BY <2>3, <1>2
  <2> QED BY <2>4, <1>0 DEF S
<1> QED BY <1>1, <1>2, <1>3

\* What it leaves alone: the bytes that are in none of its words.
LEMMA ReadOutside ==
  ASSUME NEW s \in SpStates, NEW d \in [DramBytesAt -> DataBytes], NEW t \in Transfers,
         NEW b \in SpBytes, \A n \in Nat : n < DmaWords(t) => b \notin SpAt(t, n) .. SpAt(t, n) + 3
  PROVE  rsp_dma_read(s, d, t).mem[b] = s.mem[b]
<1> DEFINE K == DmaWords(t)
<1>0. K \in Nat
  BY TransferParts
<1>1. PICK f \in [0 .. K -> SpStates] :
        /\ f[0] = s
        /\ \A n \in Nat : n < K =>
             f[n + 1] = StoreWord(f[n], SpAt(t, n), DramWord(d, DramAt(t, n)))
        /\ rsp_dma_read(s, d, t) = f[K]
  BY ReadRun
<1>2. \A n \in Nat : n < K => b \notin SpAt(t, n) .. SpAt(t, n) + 3
  OBVIOUS
<1> HIDE DEF K
<1> DEFINE S == {n \in Nat : n <= K => f[n].mem[b] = s.mem[b]}
<1>3. 0 \in S
  BY <1>1
<1>4. ASSUME NEW n \in Nat, n < K, n \in S PROVE n + 1 \in S
  <2>1. n \in 0 .. K /\ f[n].mem[b] = s.mem[b]
    BY <1>4, <1>0
  <2>2. f[n] \in SpStates
    BY <2>1, <1>1
  <2>3. Aligned(SpAt(t, n)) /\ DramWord(d, DramAt(t, n)) \in WordData
    BY SpAtIs, DramWordTyped
  <2>4. b \notin SpAt(t, n) .. SpAt(t, n) + 3
    BY <1>2, <1>4
  <2>5. StoreWord(f[n], SpAt(t, n), DramWord(d, DramAt(t, n))).mem[b] = f[n].mem[b]
    BY <2>2, <2>3, <2>4, StoredWord
  <2> QED BY <2>5, <2>1, <1>1, <1>4
<1> HIDE DEF S
<1>5. \A n \in 0 .. K : n \in S
  BY <1>0, <1>3, <1>4, BoundedInduction
<1>6. K \in S
  BY <1>5, <1>0
<1> QED BY <1>6, <1>1, <1>0 DEF S

\* Its words are at different places, if it is no longer than the memories.
LEMMA WordsApart ==
  ASSUME NEW t \in Transfers, Apart(t), NEW i \in Nat, NEW j \in Nat, i < j, j < DmaWords(t)
  PROVE  SpAt(t, i) # SpAt(t, j)
<1> DEFINE c == CacheStart(t)  m == 2 * BankBytes  a == c + 4 * i  b == c + 4 * j
<1>1. c \in Nat /\ DmaWords(t) \in Nat /\ m \in Nat \ {0}
  BY TransferParts, BankParts
<1>2. DmaWords(t) * 4 <= m
  BY DEF Apart
<1>3. SpAt(t, i) = a % m /\ SpAt(t, j) = b % m
  BY SpAtIs
<1> HIDE DEF c, m
<1>4. a \in Nat /\ b \in Nat /\ a <= b /\ b - a < m /\ a # b
  BY <1>1, <1>2
<1> HIDE DEF a, b
<1>5. a % m # b % m
  BY <1>4, <1>1, ModInjective
<1> QED BY <1>3, <1>5

\* Then all of them are there when it is done.
LEMMA ReadWords ==
  ASSUME NEW s \in SpStates, NEW d \in [DramBytesAt -> DataBytes], NEW t \in Transfers,
         Apart(t), NEW i \in Nat, i < DmaWords(t)
  PROVE  Word(rsp_dma_read(s, d, t).mem, SpAt(t, i)) = DramWord(d, DramAt(t, i))
<1> DEFINE K == DmaWords(t)  w == DramWord(d, DramAt(t, i))
<1>0. K \in Nat /\ i < K
  BY TransferParts
<1>1. PICK f \in [0 .. K -> SpStates] :
        /\ f[0] = s
        /\ \A n \in Nat : n < K =>
             f[n + 1] = StoreWord(f[n], SpAt(t, n), DramWord(d, DramAt(t, n)))
        /\ rsp_dma_read(s, d, t) = f[K]
  BY ReadRun
<1>2. \A n \in Nat : n < K /\ n # i => SpAt(t, n) # SpAt(t, i)
  <2>1. ASSUME NEW n \in Nat, n < K, n # i PROVE SpAt(t, n) # SpAt(t, i)
    <3>1. n < i \/ i < n
      BY <2>1
    <3> QED BY <3>1, <2>1, WordsApart
  <2> QED BY <2>1
<1> HIDE DEF K, w
<1> DEFINE S == {n \in Nat : i < n /\ n <= K => Word(f[n].mem, SpAt(t, i)) = w}
<1>3. 0 \in S
  OBVIOUS
<1>4. ASSUME NEW n \in Nat, n < K, n \in S PROVE n + 1 \in S
  <2>1. n \in 0 .. K
    BY <1>4, <1>0
  <2>2. f[n] \in SpStates
    BY <2>1, <1>1
  <2>3. Aligned(SpAt(t, n)) /\ Aligned(SpAt(t, i)) /\ DramWord(d, DramAt(t, n)) \in WordData
    BY SpAtIs, DramWordTyped
  <2>4. f[n + 1] = StoreWord(f[n], SpAt(t, n), DramWord(d, DramAt(t, n)))
    BY <1>1, <1>4
  <2>5. CASE n = i
    <3>1. Word(f[n + 1].mem, SpAt(t, i)) = w
      BY <2>2, <2>3, <2>4, <2>5, StoredWord DEF w
    <3> QED BY <3>1
  <2>6. CASE n # i
    <3>1. SpAt(t, n) # SpAt(t, i)
      BY <1>2, <1>4, <2>6
    <3>2. Word(f[n + 1].mem, SpAt(t, i)) = Word(f[n].mem, SpAt(t, i))
      BY <2>2, <2>3, <2>4, <3>1, StoredWord
    <3>3. i < n + 1 => i < n
      BY <2>6
    <3>4. n <= K
      BY <1>4, <1>0
    <3> QED BY <3>2, <3>3, <3>4, <1>4
  <2> QED BY <2>5, <2>6
<1> HIDE DEF S
<1>5. \A n \in 0 .. K : n \in S
  BY <1>0, <1>3, <1>4, BoundedInduction
<1>6. K \in S
  BY <1>5, <1>0
<1> QED BY <1>6, <1>1, <1>0 DEF S, w

\* A DMA to RDRAM has a state after each word too.
LEMMA StoredInDram ==
  ASSUME NEW d \in [DramBytesAt -> DataBytes], NEW t \in Transfers, NEW n \in Nat
  PROVE  /\ \A w \in WordData : DramPut(d, DramAt(t, n), w) \in [DramBytesAt -> DataBytes]
         /\ DramPut(d, DramAt(t, n), DramWord(d, DramAt(t, n))) = d
<1> DEFINE a == DramAt(t, n)
<1>1. a \in Nat /\ \A i \in 0 .. 3 : a + i \in DramBytesAt
  BY DramAtIs
<1> HIDE DEF a
<1>2. \A b \in a .. a + 3 : b - a \in 0 .. 3 /\ a + (b - a) = b
  BY <1>1
<1>3. ASSUME NEW w \in WordData PROVE DramPut(d, a, w) \in [DramBytesAt -> DataBytes]
  <2>1. w \in [0 .. 3 -> DataBytes]
    BY DEF WordData
  <2> QED BY <2>1, <1>2 DEF DramPut
<1>4. DramPut(d, a, DramWord(d, a)) = d
  <2>1. ASSUME NEW b \in DramBytesAt PROVE DramPut(d, a, DramWord(d, a))[b] = d[b]
    <3>1. CASE b \in a .. a + 3
      BY <3>1, <1>2 DEF DramPut, DramWord
    <3>2. CASE b \notin a .. a + 3
      BY <3>2 DEF DramPut
    <3> QED BY <3>1, <3>2
  <2> QED BY <2>1 DEF DramPut
<1> QED BY <1>3, <1>4 DEF a

LEMMA WriteRun ==
  ASSUME NEW s \in SpStates, NEW d \in [DramBytesAt -> DataBytes], NEW t \in Transfers
  PROVE  \E f \in [0 .. DmaWords(t) -> [DramBytesAt -> DataBytes]] :
           /\ f[0] = d
           /\ \A n \in Nat : n < DmaWords(t) =>
                f[n + 1] = DramPut(f[n], DramAt(t, n), Word(s.mem, SpAt(t, n)))
           /\ rsp_dma_write(s, d, t) = f[DmaWords(t)]
<1> DEFINE K == DmaWords(t)  D == [DramBytesAt -> DataBytes]
           step == [n \in Nat |-> [x \in D |->
                      DramPut(x, DramAt(t, n), Word(s.mem, SpAt(t, n)))]]
           Def(r) == [n \in 0 .. DmaWords(t) |->
                        IF n = 0 THEN d
                        ELSE DramPut(r[n - 1], DramAt(t, n - 1), Word(s.mem, SpAt(t, n - 1)))]
           run == CHOOSE r : r = Def(r)
<1>0. K \in Nat
  BY TransferParts
<1>1. \A n \in Nat, x \in D : DramPut(x, DramAt(t, n), Word(s.mem, SpAt(t, n))) \in D
  <2>1. s.mem \in [SpBytes -> DataBytes]
    BY DEF SpStates
  <2>2. \A n \in Nat : Word(s.mem, SpAt(t, n)) \in WordData
    BY <2>1, SpAtIs, WordTyped
  <2> QED BY <2>2, StoredInDram
<1> HIDE DEF D
<1>2. step \in [Nat -> [D -> D]]
  BY <1>1
<1>2a. \A n \in Nat, x \in D :
         step[n][x] = DramPut(x, DramAt(t, n), Word(s.mem, SpAt(t, n)))
  OBVIOUS
<1>3. PICK f \in [0 .. K -> D] :
        f[0] = d /\ \A n \in Nat : n < K => f[n + 1] = step[n][f[n]]
  <2> HIDE DEF step, K
  <2>0. d \in D
    BY DEF D
  <2>1. Runs(D, d, K, step) # {}
    BY <1>0, <1>2, <2>0, IterationExists
  <2> QED BY <2>1 DEF Runs
<1>4. \A n \in Nat : n < K =>
        f[n + 1] = DramPut(f[n], DramAt(t, n), Word(s.mem, SpAt(t, n)))
  <2> HIDE DEF step, K
  <2>1. ASSUME NEW n \in Nat, n < K
        PROVE  f[n + 1] = DramPut(f[n], DramAt(t, n), Word(s.mem, SpAt(t, n)))
    <3>1. n \in 0 .. K
      BY <1>0, <2>1
    <3>2. f[n] \in D
      BY <3>1, <1>3
    <3> QED BY <3>2, <2>1, <1>2a, <1>3
  <2> QED BY <2>1
<1>5. f = Def(f)
  <2>1. ASSUME NEW n \in 0 .. K PROVE f[n] = Def(f)[n]
    <3>1. CASE n = 0
      BY <3>1, <1>3
    <3>2. CASE n # 0
      <4>1. n - 1 \in Nat /\ n - 1 < K /\ (n - 1) + 1 = n
        BY <3>2, <1>0
      <4>2. f[n] = DramPut(f[n - 1], DramAt(t, n - 1), Word(s.mem, SpAt(t, n - 1)))
        BY <4>1, <1>4
      <4> QED BY <4>2, <3>2
    <3> QED BY <3>1, <3>2
  <2>2. f = [n \in 0 .. K |-> f[n]]
    BY <1>3
  <2> QED BY <2>1, <2>2
<1>6. run = Def(run)
  <2> HIDE DEF Def
  <2> QED BY <1>5
<1>7. rsp_dma_write(s, d, t) = run[K]
  BY DEF rsp_dma_write
<1> HIDE DEF run
<1>8. \A n \in Nat : n < K =>
        run[n + 1] = DramPut(run[n], DramAt(t, n), Word(s.mem, SpAt(t, n)))
  <2>1. ASSUME NEW n \in Nat, n < K
        PROVE  run[n + 1] = DramPut(run[n], DramAt(t, n), Word(s.mem, SpAt(t, n)))
    <3>1. n + 1 \in 0 .. K /\ n + 1 # 0 /\ (n + 1) - 1 = n
      BY <2>1, <1>0
    <3>2. run[n + 1] = Def(run)[n + 1]
      BY <1>6
    <3> HIDE DEF K
    <3>3. Def(run)[n + 1] = DramPut(run[n], DramAt(t, n), Word(s.mem, SpAt(t, n)))
      BY <3>1 DEF K
    <3> QED BY <3>2, <3>3
  <2> QED BY <2>1
<1>9. run[0] = d
  <2>1. 0 \in 0 .. K
    BY <1>0
  <2>2. Def(run)[0] = d
    BY <2>1
  <2> QED BY <2>2, <1>6
<1>10. \A n \in 0 .. K : run[n] = f[n]
  <2> DEFINE S == {n \in Nat : run[n] = f[n]}
  <2>1. 0 \in S
    BY <1>3, <1>9
  <2>2. \A n \in Nat : n < K /\ n \in S => n + 1 \in S
    BY <1>4, <1>8
  <2> HIDE DEF S, K
  <2>3. \A n \in 0 .. K : n \in S
    BY <1>0, <2>1, <2>2, BoundedInduction
  <2> QED BY <2>3 DEF S
<1>11. rsp_dma_write(s, d, t) = f[K]
  BY <1>7, <1>10, <1>0
<1> QED BY <1>3, <1>4, <1>11 DEF D

LEMMA WriteTyped ==
  ASSUME NEW s \in SpStates, NEW d \in [DramBytesAt -> DataBytes], NEW t \in Transfers
  PROVE  rsp_dma_write(s, d, t) \in [DramBytesAt -> DataBytes]
<1>1. DmaWords(t) \in 0 .. DmaWords(t)
  BY TransferParts
<1> QED BY <1>1, WriteRun

\* There and back: each word that is put is the one that is there.
LEMMA ThereAndBack ==
  ASSUME NEW s \in SpStates, NEW d \in [DramBytesAt -> DataBytes], NEW t \in Transfers, Apart(t)
  PROVE  rsp_dma_write(rsp_dma_read(s, d, t), d, t) = d
<1> DEFINE K == DmaWords(t)  z == rsp_dma_read(s, d, t)
<1>0. K \in Nat
  BY TransferParts
<1>1. z \in SpStates
  BY ReadKeeps
<1>2. \A n \in Nat : n < K => Word(z.mem, SpAt(t, n)) = DramWord(d, DramAt(t, n))
  BY ReadWords
<1> HIDE DEF z
<1>3. PICK f \in [0 .. K -> [DramBytesAt -> DataBytes]] :
        /\ f[0] = d
        /\ \A n \in Nat : n < K =>
             f[n + 1] = DramPut(f[n], DramAt(t, n), Word(z.mem, SpAt(t, n)))
        /\ rsp_dma_write(z, d, t) = f[K]
  BY <1>1, WriteRun
<1> HIDE DEF K
<1> DEFINE S == {n \in Nat : f[n] = d}
<1>4. 0 \in S
  BY <1>3
<1>5. ASSUME NEW n \in Nat, n < K, n \in S PROVE n + 1 \in S
  <2>1. f[n] = d /\ f[n + 1] = DramPut(d, DramAt(t, n), DramWord(d, DramAt(t, n)))
    BY <1>2, <1>3, <1>5
  <2>2. f[n + 1] = d
    BY <2>1, StoredInDram
  <2> QED BY <2>2
<1> HIDE DEF S
<1>6. \A n \in 0 .. K : n \in S
  BY <1>0, <1>4, <1>5, BoundedInduction
<1>7. K \in S
  BY <1>6, <1>0
<1> QED BY <1>7, <1>3 DEF S, z

\* The bytes of a transfer's words are those from its first on.
LEMMA WordsInside ==
  ASSUME NEW t \in Transfers, NEW n \in Nat, n < DmaWords(t),
         NEW b \in SpAt(t, n) .. SpAt(t, n) + 3
  PROVE  \E j \in 0 .. DmaWords(t) * 4 - 1 : b = (CacheStart(t) + j) % (2 * BankBytes)
<1> DEFINE m == 2 * BankBytes  c == CacheStart(t)  p == SpAt(t, n)  i == b - p
<1>0. c \in Nat /\ m \in Nat \ {0} /\ m % 8 = 0 /\ DmaWords(t) \in Nat
  BY TransferParts, BankParts
<1>1. p = (c + 4 * n) % m /\ p \in Nat /\ p % 4 = 0 /\ p < m
  BY SpAtIs, BankParts DEF Aligned, SpBytes
<1>2. b \in p .. p + 3
  OBVIOUS
<1> HIDE DEF m, c, p
<1>3. i \in Nat /\ i <= 3 /\ b = p + i
  BY <1>1, <1>2
<1> HIDE DEF i
<1>4. p + i \in Nat /\ p + i < m
  BY <1>0, <1>1, <1>3
<1>5. (((c + 4 * n) % m) + i) % m = ((c + 4 * n) + i) % m
  <2> DEFINE x == c + 4 * n
  <2>1. x \in Int /\ i \in Int
    BY <1>0, <1>3
  <2> HIDE DEF x
  <2>2. ((x % m) + i) % m = (x + i) % m
    BY <2>1, <1>0, ModOfSum
  <2> QED BY <2>2 DEF x
<1>6. (p + i) % m = p + i
  <2> DEFINE x == p + i
  <2>1. x \in Int /\ 0 <= x /\ x < m /\ 0 \in Int
    BY <1>4
  <2> HIDE DEF x
  <2>2. (0 * m + x) % m = x
    BY <2>1, <1>0, DivModUnique
  <2>3. 0 * m + x = x
    BY <2>1, <1>0
  <2> QED BY <2>2, <2>3 DEF x
<1>7. (c + 4 * n) + i = c + (4 * n + i)
  BY <1>0, <1>3
<1>8. b = (c + (4 * n + i)) % m
  BY <1>1, <1>3, <1>5, <1>6, <1>7
<1>9. 4 * n + i \in 0 .. DmaWords(t) * 4 - 1
  BY <1>0, <1>3
<1> QED BY <1>8, <1>9 DEF m, c

-----------------------------------------------------------------------------
(* Every step. *)

\* Bytes are in the memories, and the opcode cache holds what IMEM does.
MemoriesInv ==
  /\ Sp \in SpStates
  /\ rdram \in [DramBytesAt -> DataBytes]
  /\ Current(Sp)

LEMMA MemoriesInit == DmaInit => MemoriesInv
<1> SUFFICES ASSUME DmaInit PROVE MemoriesInv
  OBVIOUS
<1>1. Zero \in DataBytes /\ \A a \in DramBytesAt : <<"ram", a>> \in DataBytes
  BY DEF DataBytes
<1>2. Sp \in SpStates
  <2>1. sp_mem \in [SpBytes -> DataBytes]
    BY <1>1 DEF DmaInit, SpBytes
  <2>2. opcode_cache \in [ImemLines -> WordData]
    BY <1>1 DEF DmaInit, ImemLines, WordData
  <2> QED BY <2>1, <2>2 DEF Sp, SpStates
<1>3. rdram \in [DramBytesAt -> DataBytes]
  BY <1>1 DEF DmaInit, DramBytesAt
<1>4. Current(Sp)
  <2>1. ASSUME NEW i \in ImemLines PROVE opcode_cache[i] = Word(sp_mem, BankBytes + 4 * i)
    <3> DEFINE a == BankBytes + 4 * i
    <3>1. Aligned(a)
      BY LinePlaces
    <3> HIDE DEF a
    <3>2. \A j \in 0 .. 3 : a + j \in SpBytes /\ a + 3 - j \in SpBytes
      BY <3>1, WordPlaces DEF SpBytes
    <3>3. Word(sp_mem, a) = [j \in 0 .. 3 |-> Zero]
      BY <3>2 DEF Word, DmaInit, SpBytes
    <3>4. opcode_cache[i] = [j \in 0 .. 3 |-> Zero]
      BY DEF DmaInit, ImemLines
    <3> QED BY <3>3, <3>4 DEF a
  <2> QED BY <2>1 DEF Current, Sp
<1> QED BY <1>2, <1>3, <1>4 DEF MemoriesInv

\* A word from the CPU is stored as those of a DMA are.
LEMMA CpuWordStored ==
  ASSUME MemoriesInv, NEW a \in SpAddresses
  PROVE  LET after == StoreWord(Sp, Down(a, 4), [i \in 0 .. 3 |-> <<"cpu", i>>])
         IN after \in SpStates /\ Current(after)
<1>1. a \in Nat /\ a < 2 * BankBytes
  BY RspDmaAssumption
<1>2. Aligned(Down(a, 4))
  BY <1>1, BankParts DEF Down, Aligned, SpBytes
<1>3. [i \in 0 .. 3 |-> <<"cpu", i>>] \in WordData
  BY DEF WordData, DataBytes
<1> QED BY <1>2, <1>3, StoredWord, StoredCurrent DEF MemoriesInv

\* A store of the RSP's that stays in DMEM leaves every word of IMEM.
LEMMA RspBytesStored ==
  ASSUME MemoriesInv, StoresInside, NEW s \in Stores,
         sp_mem' = [a \in DOMAIN sp_mem |->
                      IF a \in s[1] .. s[1] + s[2] - 1 THEN <<"rsp", a - s[1]>> ELSE sp_mem[a]],
         opcode_cache' = opcode_cache
  PROVE  Sp' \in SpStates /\ Current(Sp')
<1>0. sp_mem \in [SpBytes -> DataBytes] /\ opcode_cache \in [ImemLines -> WordData]
  BY DEF MemoriesInv, SpStates, Sp
<1>1. s[1] \in Nat /\ s[2] \in {1, 2, 4} /\ s[1] + s[2] <= BankBytes
  BY RspDmaAssumption DEF StoresInside
<1>2. sp_mem' \in [SpBytes -> DataBytes]
  <2>1. ASSUME NEW a \in SpBytes, a \in s[1] .. s[1] + s[2] - 1
        PROVE  <<"rsp", a - s[1]>> \in DataBytes
    <3>1. a - s[1] \in 0 .. 3
      BY <1>1, <2>1
    <3> QED BY <3>1 DEF DataBytes
  <2> QED BY <2>1, <1>0
<1>3. \A a \in SpBytes : a >= BankBytes => sp_mem'[a] = sp_mem[a]
  <2>1. \A a \in SpBytes : a >= BankBytes => a \notin s[1] .. s[1] + s[2] - 1
    BY <1>1, BankParts DEF SpBytes
  <2> QED BY <2>1, <1>0
<1>4. ASSUME NEW i \in ImemLines
      PROVE  Word(sp_mem', BankBytes + 4 * i) = Word(sp_mem, BankBytes + 4 * i)
  <2> DEFINE a == BankBytes + 4 * i
  <2>1. Aligned(a) /\ a >= BankBytes
    BY LinePlaces
  <2> HIDE DEF a
  <2>2. \A j \in 0 .. 3 : /\ a + j \in SpBytes /\ a + j >= BankBytes
                          /\ a + 3 - j \in SpBytes /\ a + 3 - j >= BankBytes
    BY <2>1, WordPlaces, BankParts DEF SpBytes
  <2>3. Word(sp_mem', a) = Word(sp_mem, a)
    BY <2>2, <1>3 DEF Word
  <2> QED BY <2>3 DEF a
<1>5. Sp' \in SpStates
  BY <1>0, <1>2 DEF Sp, SpStates
<1>6. Current(Sp')
  BY <1>4 DEF Current, Sp, MemoriesInv
<1> QED BY <1>5, <1>6

LEMMA MemoriesStep ==
  ASSUME MemoriesInv, StoresInside, [DmaNext]_dmaVars PROVE MemoriesInv'
<1>0. Sp \in SpStates /\ rdram \in [DramBytesAt -> DataBytes] /\ Current(Sp)
  BY DEF MemoriesInv
<1>1. CASE DmaRead
  <2>1. PICK t \in Transfers :
          /\ sp_mem' = rsp_dma_read(Sp, rdram, t).mem
          /\ opcode_cache' = rsp_dma_read(Sp, rdram, t).cache
    BY <1>1 DEF DmaRead
  <2>2. rsp_dma_read(Sp, rdram, t) \in SpStates /\ Current(rsp_dma_read(Sp, rdram, t))
    BY <1>0, ReadKeeps
  <2>3. Sp' = rsp_dma_read(Sp, rdram, t)
    BY <2>1, <2>2 DEF Sp, SpStates
  <2>4. rdram' = rdram
    BY <1>1 DEF DmaRead
  <2> QED BY <2>2, <2>3, <2>4, <1>0 DEF MemoriesInv
<1>2. CASE DmaWrite
  <2>1. PICK t \in Transfers : rdram' = rsp_dma_write(Sp, rdram, t)
    BY <1>2 DEF DmaWrite
  <2>2. rdram' \in [DramBytesAt -> DataBytes]
    BY <1>0, <2>1, WriteTyped
  <2>3. Sp' = Sp
    BY <1>2 DEF DmaWrite, Sp
  <2> QED BY <2>2, <2>3, <1>0 DEF MemoriesInv
<1>3. CASE write_sp_mem
  <2> DEFINE After(a) == StoreWord(Sp, Down(a, 4), [i \in 0 .. 3 |-> <<"cpu", i>>])
  <2>1. PICK a \in SpAddresses : sp_mem' = After(a).mem /\ opcode_cache' = After(a).cache
    BY <1>3 DEF write_sp_mem
  <2>2. After(a) \in SpStates /\ Current(After(a))
    BY CpuWordStored
  <2> HIDE DEF After
  <2>3. Sp' = After(a)
    BY <2>1, <2>2 DEF Sp, SpStates
  <2>4. rdram' = rdram
    BY <1>3 DEF write_sp_mem
  <2> QED BY <2>2, <2>3, <2>4, <1>0 DEF MemoriesInv
<1>4. CASE RspStore
  <2>1. PICK s \in Stores :
          sp_mem' = [a \in DOMAIN sp_mem |->
                       IF a \in s[1] .. s[1] + s[2] - 1 THEN <<"rsp", a - s[1]>> ELSE sp_mem[a]]
    BY <1>4 DEF RspStore
  <2>2. opcode_cache' = opcode_cache /\ rdram' = rdram
    BY <1>4 DEF RspStore
  <2>3. Sp' \in SpStates /\ Current(Sp')
    BY <2>1, <2>2, RspBytesStored
  <2> QED BY <2>2, <2>3, <1>0 DEF MemoriesInv
<1>5. CASE UNCHANGED dmaVars
  <2>1. Sp' = Sp /\ rdram' = rdram
    BY <1>5 DEF dmaVars, Sp
  <2> QED BY <2>1, <1>0 DEF MemoriesInv
<1> QED BY <1>1, <1>2, <1>3, <1>4, <1>5 DEF DmaNext

LEMMA MemoriesAlways == ASSUME StoresInside PROVE DmaSpec => []MemoriesInv
<1>1. ASSUME MemoriesInv, [DmaNext]_dmaVars PROVE MemoriesInv'
  BY <1>1, MemoriesStep
<1> QED BY <1>1, MemoriesInit, PTL DEF DmaSpec

\* What a run says of the memories follows.
LEMMA MemoriesRight == MemoriesInv => OpcodesCurrent /\ RoundTrip /\ Confined
<1> SUFFICES ASSUME MemoriesInv PROVE OpcodesCurrent /\ RoundTrip /\ Confined
  OBVIOUS
<1>0. Sp \in SpStates /\ rdram \in [DramBytesAt -> DataBytes] /\ Current(Sp)
  BY DEF MemoriesInv
<1>1. sp_mem \in [SpBytes -> DataBytes] /\ opcode_cache \in [ImemLines -> WordData]
  BY <1>0 DEF Sp, SpStates
<1>2. OpcodesCurrent
  BY <1>0, <1>1 DEF OpcodesCurrent, Current, Sp
<1>3. RoundTrip
  BY <1>0, ThereAndBack DEF RoundTrip
<1>4. ASSUME NEW t \in Transfers
      PROVE  LET after == rsp_dma_read(Sp, rdram, t)
                 inside == {(CacheStart(t) + n) % (2 * BankBytes) : n \in 0 .. DmaWords(t) * 4 - 1}
             IN \A a \in DOMAIN sp_mem \ inside : after.mem[a] = sp_mem[a]
  <2> DEFINE inside == {(CacheStart(t) + n) % (2 * BankBytes) : n \in 0 .. DmaWords(t) * 4 - 1}
  <2>1. ASSUME NEW a \in DOMAIN sp_mem \ inside
        PROVE  rsp_dma_read(Sp, rdram, t).mem[a] = sp_mem[a]
    <3>1. a \in SpBytes
      BY <1>1
    <3>2. ASSUME NEW n \in Nat, n < DmaWords(t) PROVE a \notin SpAt(t, n) .. SpAt(t, n) + 3
      <4>1. SUFFICES ASSUME a \in SpAt(t, n) .. SpAt(t, n) + 3 PROVE FALSE
        OBVIOUS
      <4>2. a \in inside
        BY <3>2, <4>1, WordsInside
      <4> QED BY <4>2
    <3>3. rsp_dma_read(Sp, rdram, t).mem[a] = Sp.mem[a]
      BY <1>0, <3>1, <3>2, ReadOutside
    <3> QED BY <3>3 DEF Sp
  <2> QED BY <2>1
<1>5. Confined
  BY <1>4 DEF Confined
<1> QED BY <1>2, <1>3, <1>5

\* Whatever transfers, sizes of the memories and orders of writers: the opcode cache is
\* IMEM's, a transfer there and back changes nothing, and none writes past its length,
\* if no store of the RSP's program reaches past the end of DMEM.
THEOREM MemoriesAlwaysRight ==
  ASSUME StoresInside PROVE DmaSpec => [](OpcodesCurrent /\ RoundTrip /\ Confined)
BY MemoriesAlways, MemoriesRight, PTL

\* All that the RSP shares with the CPU, for any instance of the threads and of the
\* memories: the words both write, the semaphore and the memories.
THEOREM SharedAlwaysRight ==
  ASSUME StoresInside PROVE ThreadSpec /\ DmaSpec => []SharedRight
<1>1. WritesAtomic /\ InterruptKept /\ OneHolder /\ OpcodesCurrent /\ RoundTrip /\ Confined
        => SharedRight
  BY DEF SharedRight
<1> QED BY <1>1, StatusWritesAtomic, InterruptAlwaysKept, AlwaysOneHolder, MemoriesAlwaysRight, PTL

-----------------------------------------------------------------------------
(* The scalar pipeline of the RSP. Its invariant says how far the fetch of *)
(* the program's next instruction has come, and that the registers, DMEM   *)
(* and the two last latches together hold what the program has computed.   *)

Requests == {"none", "load", "store"}
Fetches == [pc : Pcs, op : AllOpcodes \cup {"none", "kill"}]
Latches ==
  [pc : Pcs, ifrd : Fetches, rdex : Fetches,
   exdf : [dest : 0 .. 2, result : Pcs, request : Requests, data : Pcs],
   dfwb : [dest : 0 .. 2, result : Pcs, status : {{}, HaltAndBroke}]]
Cores == [pipeline : Latches, regs : [0 .. 2 -> Pcs], mem : Pcs,
          status : SUBSET StatusBits, intr : BOOLEAN]
Programs ==
  [pc : Pcs, next : Pcs, regs : [0 .. 2 -> Pcs], mem : Pcs, late : 0 .. 2, last : 0 .. 2,
   ended : BOOLEAN]

\* What the two last latches hold, on top of the registers and of DMEM.
Loaded(r) == IF r.pipeline.exdf.request = "load" THEN r.mem ELSE r.pipeline.exdf.result
DrainedReg(r, n) ==
  IF n = r.pipeline.exdf.dest THEN Loaded(r)
  ELSE IF n = r.pipeline.dfwb.dest THEN r.pipeline.dfwb.result ELSE r.regs[n]
DrainedMem(r) ==
  IF r.pipeline.exdf.request = "store" THEN r.pipeline.exdf.data ELSE r.mem

\* How far the fetch of the program's next instruction has come: not begun, in
\* IF, and in RD with the one after it in IF.
Unfetched(p, s) ==
  /\ p.rdex.op \notin AllOpcodes /\ p.ifrd.op \notin AllOpcodes
  /\ p.pc = s.pc /\ s.next = Plus(s.pc, 1)
FetchedOne(p, s) ==
  /\ p.rdex.op \notin AllOpcodes
  /\ p.ifrd = [pc |-> s.pc, op |-> imem[s.pc]]
  /\ p.pc = s.next
FetchedTwo(p, s) ==
  /\ p.rdex = [pc |-> s.pc, op |-> imem[s.pc]]
  /\ p.ifrd = [pc |-> s.next, op |-> imem[s.next]]
  /\ p.pc = Plus(s.next, 1)
Follows(p, s) == Unfetched(p, s) \/ FetchedOne(p, s) \/ FetchedTwo(p, s)

\* Nothing is lost, but for what BREAK and the write to SP_STATUS throw away.
Computed(r, s) ==
  /\ DrainedMem(r) = s.mem
  /\ \A n \in 1 .. 2 : DrainedReg(r, n) = s.regs[n]
  /\ r.pipeline.exdf.dest \in {0, s.last}
  /\ ~ s.ended
Stored(r, s) ==
  /\ r.mem = s.mem
  /\ \A n \in 1 .. 2 : n # s.late => r.regs[n] = s.regs[n]

Running(r) == "HALT" \notin r.status /\ r.pipeline.dfwb.status = {}

PipeInv ==
  /\ rsp \in Cores /\ imem \in [Pcs -> AllOpcodes] /\ isa \in Programs
  /\ isa.regs[0] = 0
  /\ Follows(rsp.pipeline, isa)
  /\ Running(rsp) => Computed(rsp, isa)
  /\ ~ Running(rsp) =>
       /\ rsp.pipeline.rdex.pc = isa.pc
       /\ isa.ended => Stored(rsp, isa)
  /\ rsp.pipeline.dfwb.status # {} => isa.ended

\* The pipeline as it begins at pc.
StartAt(pc) == [rsp_pipeline_init EXCEPT !.pc = pc]

-----------------------------------------------------------------------------
\* A pc stays one.
LEMMA PlusTyped ==
  ASSUME NEW pc \in Nat, NEW n \in Nat PROVE Plus(pc, n) \in Pcs
BY RspPipelineAssumption DEF Plus, Pcs

LEMMA PcTypes == 0 \in Pcs /\ 1 \in Pcs /\ Pcs \subseteq Nat
BY RspPipelineAssumption DEF Pcs

\* What each opcode reads, writes and asks for.
LEMMA OpcodeTypes ==
  ASSUME NEW code, NEW pc \in Pcs, NEW rs \in Pcs, NEW rt \in Pcs
  PROVE  /\ Rs(code) \in 0 .. 2 /\ Rt(code) \in 0 .. 2 /\ Dest(code) \in 0 .. 2
         /\ Request(code) \in Requests
         /\ Result(code, pc, rs, rt) \in Pcs
         /\ Target(code, pc) \in Pcs
<1>1. Plus(rs, rt + 1) \in Pcs /\ Plus(rs, rt) \in Pcs /\ Plus(pc, 2) \in Pcs
      /\ Plus(pc, 3) \in Pcs
  BY PlusTyped, PcTypes
<1> QED
  BY <1>1, PcTypes DEF Rs, Rt, Dest, Request, NoRequest, Requests, Result, Target

\* A bubble reads and writes nothing.
LEMMA BubbleIdle ==
  ASSUME NEW code \in {"none", "kill"}, NEW pc, NEW rs, NEW rt
  PROVE  /\ Rs(code) = 0 /\ Rt(code) = 0 /\ Dest(code) = 0 /\ Request(code) = "none"
         /\ Result(code, pc, rs, rt) = 0 /\ ~ Taken(code, rs, rt)
BY DEF Rs, Rt, Dest, Request, NoRequest, Result, Taken

\* The latches of a pipeline that begins.
LEMMA InitTyped ==
  ASSUME NEW pc \in Pcs
  PROVE  /\ [rsp_pipeline_init EXCEPT !.pc = pc] \in Latches
         /\ [rsp_pipeline_init EXCEPT !.pc = pc].pc = pc
         /\ [rsp_pipeline_init EXCEPT !.pc = pc].exdf = rsp_pipeline_init.exdf
         /\ [rsp_pipeline_init EXCEPT !.pc = pc].dfwb = rsp_pipeline_init.dfwb
         /\ [rsp_pipeline_init EXCEPT !.pc = pc].rdex = rsp_pipeline_init.rdex
         /\ [rsp_pipeline_init EXCEPT !.pc = pc].ifrd = rsp_pipeline_init.ifrd
BY PcTypes DEF rsp_pipeline_init, Latches, Fetches, Requests, NoRequest

-----------------------------------------------------------------------------
(* One cycle, as far as EX: the registers that WB wrote, the memory that DF *)
(* wrote, and the result it passes on.                                     *)

LEMMA WbTyped ==
  ASSUME NEW r \in Cores, r.pipeline.dfwb.status = {}
  PROVE  /\ WbStage(r) \in Cores
         /\ WbStage(r).pipeline = r.pipeline /\ WbStage(r).mem = r.mem
         /\ WbStage(r).status = r.status /\ WbStage(r).intr = r.intr
         /\ \A n \in 0 .. 2 : WbStage(r).regs[n] =
              IF n = r.pipeline.dfwb.dest THEN r.pipeline.dfwb.result ELSE r.regs[n]
BY DEF WbStage, Cores, Latches

LEMMA DfTyped ==
  ASSUME NEW r \in Cores
  PROVE  /\ DfStage(r) \in Cores
         /\ DfStage(r).pipeline.dfwb =
              [dest |-> r.pipeline.exdf.dest, result |-> Loaded(r), status |-> {}]
         /\ DfStage(r).pipeline.exdf = rsp_pipeline_init.exdf
         /\ DfStage(r).pipeline.pc = r.pipeline.pc
         /\ DfStage(r).pipeline.ifrd = r.pipeline.ifrd
         /\ DfStage(r).pipeline.rdex = r.pipeline.rdex
         /\ DfStage(r).mem = DrainedMem(r)
         /\ DfStage(r).regs = r.regs
         /\ DfStage(r).status = r.status /\ DfStage(r).intr = r.intr
<1> DEFINE p == r.pipeline
           w == [dest |-> p.exdf.dest, result |-> Loaded(r), status |-> {}]
           x == rsp_pipeline_init.exdf
           r1 == [r EXCEPT !.pipeline.dfwb = w]
           r2 == [r1 EXCEPT !.mem = DrainedMem(r)]
           r3 == [r2 EXCEPT !.pipeline.exdf = x]
<1>1. p \in Latches /\ r.mem \in Pcs
  BY DEF Cores
<1>2. Loaded(r) \in Pcs /\ DrainedMem(r) \in Pcs
  BY <1>1 DEF Loaded, DrainedMem, Latches
<1>3. w \in [dest : 0 .. 2, result : Pcs, status : {{}, HaltAndBroke}]
  BY <1>1, <1>2 DEF Latches
<1>4. x \in [dest : 0 .. 2, result : Pcs, request : Requests, data : Pcs]
  BY PcTypes DEF rsp_pipeline_init, NoRequest, Requests
<1>5. DfStage(r) = r3
  BY DEF DfStage, Loaded, DrainedMem
<1> HIDE DEF w, x
<1>6. /\ [p EXCEPT !.dfwb = w] \in Latches
      /\ [p EXCEPT !.dfwb = w].dfwb = w
      /\ [p EXCEPT !.dfwb = w].pc = p.pc
      /\ [p EXCEPT !.dfwb = w].ifrd = p.ifrd
      /\ [p EXCEPT !.dfwb = w].rdex = p.rdex
  BY <1>1, <1>3 DEF Latches
<1>7. /\ r1 \in Cores /\ r1.pipeline = [p EXCEPT !.dfwb = w]
      /\ r1.regs = r.regs /\ r1.status = r.status /\ r1.intr = r.intr
  BY <1>6 DEF Cores
<1> HIDE DEF r1
<1>8. /\ r2 \in Cores /\ r2.pipeline = r1.pipeline /\ r2.mem = DrainedMem(r)
      /\ r2.regs = r.regs /\ r2.status = r.status /\ r2.intr = r.intr
  BY <1>2, <1>7 DEF Cores
<1> HIDE DEF r2
<1> DEFINE q == [r2.pipeline EXCEPT !.exdf = x]
<1>9. /\ q \in Latches /\ q.exdf = x /\ q.dfwb = r2.pipeline.dfwb
      /\ q.pc = r2.pipeline.pc /\ q.ifrd = r2.pipeline.ifrd /\ q.rdex = r2.pipeline.rdex
  BY <1>4, <1>8 DEF Latches, Cores
<1>10. r3 = [r2 EXCEPT !.pipeline = q]
  OBVIOUS
<1> HIDE DEF q
<1>11. /\ r3 \in Cores /\ r3.pipeline = q /\ r3.mem = DrainedMem(r)
       /\ r3.regs = r.regs /\ r3.status = r.status /\ r3.intr = r.intr
  BY <1>8, <1>9, <1>10 DEF Cores
<1> HIDE DEF r3, p
<1> QED BY <1>5, <1>6, <1>7, <1>8, <1>9, <1>11 DEF p, w, x

\* What EX finds: the registers of its operands are the drained ones.
LEMMA BeforeEx ==
  ASSUME NEW r \in Cores, r.pipeline.dfwb.status = {}
  PROVE  LET b == DfStage(WbStage(r)) IN
         /\ b \in Cores
         /\ b.pipeline.dfwb = [dest |-> r.pipeline.exdf.dest, result |-> Loaded(r), status |-> {}]
         /\ b.pipeline.exdf = rsp_pipeline_init.exdf
         /\ b.pipeline.pc = r.pipeline.pc
         /\ b.pipeline.ifrd = r.pipeline.ifrd /\ b.pipeline.rdex = r.pipeline.rdex
         /\ b.mem = DrainedMem(r) /\ b.status = r.status /\ b.intr = r.intr
         /\ \A n \in 0 .. 2 : b.regs[n] =
              IF n = r.pipeline.dfwb.dest THEN r.pipeline.dfwb.result ELSE r.regs[n]
<1> DEFINE a == WbStage(r)
           b == DfStage(a)
<1>1. /\ a \in Cores
      /\ a.pipeline = r.pipeline /\ a.mem = r.mem
      /\ a.status = r.status /\ a.intr = r.intr
      /\ \A n \in 0 .. 2 : a.regs[n] =
              IF n = r.pipeline.dfwb.dest THEN r.pipeline.dfwb.result ELSE r.regs[n]
  BY WbTyped
<1>2. Loaded(a) = Loaded(r) /\ DrainedMem(a) = DrainedMem(r)
  BY <1>1 DEF Loaded, DrainedMem
<1> HIDE DEF a
<1>3. /\ b \in Cores
      /\ b.pipeline.dfwb = [dest |-> a.pipeline.exdf.dest, result |-> Loaded(a), status |-> {}]
      /\ b.pipeline.exdf = rsp_pipeline_init.exdf
      /\ b.pipeline.pc = a.pipeline.pc
      /\ b.pipeline.ifrd = a.pipeline.ifrd /\ b.pipeline.rdex = a.pipeline.rdex
      /\ b.mem = DrainedMem(a) /\ b.regs = a.regs
      /\ b.status = a.status /\ b.intr = a.intr
  BY <1>1, DfTyped
<1> HIDE DEF b
<1>4. /\ b \in Cores
      /\ b.pipeline.dfwb = [dest |-> r.pipeline.exdf.dest, result |-> Loaded(r), status |-> {}]
      /\ b.pipeline.exdf = rsp_pipeline_init.exdf
      /\ b.pipeline.pc = r.pipeline.pc
      /\ b.pipeline.ifrd = r.pipeline.ifrd /\ b.pipeline.rdex = r.pipeline.rdex
      /\ b.mem = DrainedMem(r) /\ b.status = r.status /\ b.intr = r.intr
  BY <1>1, <1>2, <1>3
<1>5. \A n \in 0 .. 2 : b.regs[n] =
        IF n = r.pipeline.dfwb.dest THEN r.pipeline.dfwb.result ELSE r.regs[n]
  BY <1>1, <1>3
<1> QED BY <1>4, <1>5 DEF a, b

LEMMA ForwardsDrained ==
  ASSUME NEW r \in Cores, r.pipeline.dfwb.status = {}, NEW n \in 0 .. 2
  PROVE  LET b == DfStage(WbStage(r)) IN
         Forwarded(b, n) = IF n = 0 THEN 0 ELSE DrainedReg(r, n)
<1> DEFINE b == DfStage(WbStage(r))
<1>1. /\ b.pipeline.dfwb = [dest |-> r.pipeline.exdf.dest, result |-> Loaded(r), status |-> {}]
      /\ b.regs[n] = IF n = r.pipeline.dfwb.dest THEN r.pipeline.dfwb.result ELSE r.regs[n]
  BY BeforeEx
<1> HIDE DEF b
<1>2. Forwarded(b, n) = IF n = 0 THEN 0 ELSE DrainedReg(r, n)
  BY <1>1 DEF Forwarded, DrainedReg
<1> QED BY <1>2 DEF b

\* The two latches drained are what NothingLost looks at.
LEMMA DrainedRight ==
  ASSUME NEW r \in Cores, r.pipeline.dfwb.status = {}
  PROVE  LET d == WbStage(Pending(r)) IN
         d.mem = DrainedMem(r) /\ \A n \in 0 .. 2 : d.regs[n] = DrainedReg(r, n)
<1> DEFINE b == DfStage(WbStage(r))
           d == WbStage(b)
<1>1. /\ b \in Cores /\ b.mem = DrainedMem(r)
      /\ b.pipeline.dfwb = [dest |-> r.pipeline.exdf.dest, result |-> Loaded(r), status |-> {}]
      /\ \A n \in 0 .. 2 : b.regs[n] =
            IF n = r.pipeline.dfwb.dest THEN r.pipeline.dfwb.result ELSE r.regs[n]
  BY BeforeEx
<1> HIDE DEF b
<1>2. b.pipeline.dfwb.status = {} /\ b.pipeline.dfwb.dest = r.pipeline.exdf.dest
      /\ b.pipeline.dfwb.result = Loaded(r)
  BY <1>1
<1>3. /\ d.mem = b.mem
      /\ \A n \in 0 .. 2 : d.regs[n] =
            IF n = b.pipeline.dfwb.dest THEN b.pipeline.dfwb.result ELSE b.regs[n]
  BY <1>1, <1>2, WbTyped
<1> HIDE DEF d
<1>4. d.mem = DrainedMem(r) /\ \A n \in 0 .. 2 : d.regs[n] = DrainedReg(r, n)
  BY <1>1, <1>2, <1>3 DEF DrainedReg
<1> QED BY <1>4 DEF Pending, b, d

-----------------------------------------------------------------------------
(* Writes to SP_STATUS.                                                   *)

LEMMA StatusTyped ==
  ASSUME NEW r \in Cores, NEW rt
  PROVE  /\ StatusWrite(r, rt) \in Cores
         /\ StatusWrite(r, rt).status = StatusAfter(r.status, rt)
         /\ StatusWrite(r, rt).regs = r.regs /\ StatusWrite(r, rt).mem = r.mem
         /\ StatusWrite(r, rt).pipeline =
              IF Restarts(r.status, rt) THEN [rsp_pipeline_init EXCEPT !.pc = r.pipeline.rdex.pc]
              ELSE r.pipeline
<1>1. StatusAfter(r.status, rt) \in SUBSET StatusBits
  BY DEF StatusAfter
<1>2. IntrAfter(r.intr, rt) \in BOOLEAN
  BY DEF IntrAfter
<1>3. r.pipeline \in Latches /\ r.pipeline.rdex.pc \in Pcs
  BY DEF Cores, Latches, Fetches
<1>4. [rsp_pipeline_init EXCEPT !.pc = r.pipeline.rdex.pc] \in Latches
  BY <1>3, InitTyped
<1> QED BY <1>1, <1>2, <1>3, <1>4 DEF StatusWrite, Cores

\* BREAK and a write of SET_HALT halt, and start nothing.
LEMMA Halting ==
  ASSUME NEW st \in SUBSET StatusBits, NEW rt \in {HaltAndBroke, Set({"HALT"})}
  PROVE  "HALT" \in StatusAfter(st, rt) /\ ~ Restarts(st, rt)
<1>1. <<"set", "HALT">> \in rt /\ <<"clr", "HALT">> \notin rt
  BY DEF HaltAndBroke, Set
<1> QED BY <1>1 DEF StatusAfter, Restarts, StatusBits

LEMMA WbHaltsWhen ==
  ASSUME NEW r \in Cores
  PROVE  WbHalts(r) <=> r.pipeline.dfwb.status # {}
<1>1. r.pipeline.dfwb.status \in {{}, HaltAndBroke} /\ r.status \in SUBSET StatusBits
  BY DEF Cores, Latches
<1> QED BY <1>1, Halting DEF WbHalts

-----------------------------------------------------------------------------
(* EX, RD and IF.                                                          *)

\* Any opcode that does not stop the program.
LEMMA ExTyped ==
  ASSUME NEW b \in Cores, b.pipeline.rdex.op \notin {"break", "halt"}
  PROVE  LET code == b.pipeline.rdex.op
             pc == b.pipeline.rdex.pc
             rs == Forwarded(b, Rs(code))
             rt == Forwarded(b, Rt(code))
             e == ExStage(b)
         IN /\ rs \in Pcs /\ rt \in Pcs
            /\ e \in Cores
            /\ e.pipeline.pc = IF Taken(code, rs, rt) THEN Target(code, pc) ELSE b.pipeline.pc
            /\ e.pipeline.exdf = [dest |-> Dest(code), result |-> Result(code, pc, rs, rt),
                                  request |-> Request(code), data |-> rt]
            /\ e.pipeline.ifrd = b.pipeline.ifrd /\ e.pipeline.rdex = b.pipeline.rdex
            /\ e.pipeline.dfwb = b.pipeline.dfwb
            /\ e.mem = b.mem /\ e.status = b.status /\ e.intr = b.intr
            /\ \A n \in 1 .. 2 : e.regs[n] = b.regs[n]
<1> DEFINE code == b.pipeline.rdex.op
           pc == b.pipeline.rdex.pc
           rs == Forwarded(b, Rs(code))
           rt == Forwarded(b, Rt(code))
           to == IF Taken(code, rs, rt) THEN Target(code, pc) ELSE b.pipeline.pc
           x == [dest |-> Dest(code), result |-> Result(code, pc, rs, rt),
                 request |-> Request(code), data |-> rt]
           seen == [b EXCEPT !.regs = ForwardKeeps(b)]
           r1 == [seen EXCEPT !.pipeline.pc = to]
           r2 == [r1 EXCEPT !.pipeline.exdf = x]
<1>1. /\ b.pipeline \in Latches /\ pc \in Pcs /\ b.pipeline.pc \in Pcs
      /\ b.regs \in [0 .. 2 -> Pcs]
      /\ b.pipeline.dfwb.dest \in 0 .. 2 /\ b.pipeline.dfwb.result \in Pcs
  BY DEF Cores, Latches, Fetches
<1>2. Rs(code) \in 0 .. 2 /\ Rt(code) \in 0 .. 2
  BY DEF Rs, Rt
<1> HIDE DEF code, pc
<1>3. rs \in Pcs /\ rt \in Pcs
  BY <1>1, <1>2, PcTypes DEF Forwarded
<1> HIDE DEF rs, rt
<1>4. /\ Dest(code) \in 0 .. 2 /\ Request(code) \in Requests
      /\ Result(code, pc, rs, rt) \in Pcs /\ Target(code, pc) \in Pcs
  BY <1>1, <1>3, OpcodeTypes
<1>5. to \in Pcs /\ x \in [dest : 0 .. 2, result : Pcs, request : Requests, data : Pcs]
  BY <1>1, <1>3, <1>4
<1>6. /\ ForwardKeeps(b) \in [0 .. 2 -> Pcs]
      /\ \A n \in 1 .. 2 : ForwardKeeps(b)[n] = b.regs[n]
  BY <1>1, PcTypes DEF ForwardKeeps
<1>7. ExStage(b) = r2
  BY DEF ExStage, code, pc, rs, rt
<1> HIDE DEF to, x
<1>8. /\ seen \in Cores /\ seen.pipeline = b.pipeline /\ seen.regs = ForwardKeeps(b)
      /\ seen.mem = b.mem /\ seen.status = b.status /\ seen.intr = b.intr
  BY <1>6 DEF Cores
<1> HIDE DEF seen
<1> DEFINE p == [b.pipeline EXCEPT !.pc = to]
<1>9. /\ p \in Latches /\ p.pc = to /\ p.ifrd = b.pipeline.ifrd /\ p.rdex = b.pipeline.rdex
      /\ p.dfwb = b.pipeline.dfwb
  BY <1>1, <1>5 DEF Latches
<1>10. r1 = [seen EXCEPT !.pipeline = p]
  BY <1>8
<1> HIDE DEF p
<1>11. /\ r1 \in Cores /\ r1.pipeline = p /\ r1.regs = ForwardKeeps(b)
       /\ r1.mem = b.mem /\ r1.status = b.status /\ r1.intr = b.intr
  BY <1>8, <1>9, <1>10 DEF Cores
<1> HIDE DEF r1
<1> DEFINE q == [p EXCEPT !.exdf = x]
<1>12. /\ q \in Latches /\ q.exdf = x /\ q.pc = p.pc /\ q.ifrd = p.ifrd /\ q.rdex = p.rdex
       /\ q.dfwb = p.dfwb
  BY <1>5, <1>9 DEF Latches
<1>13. r2 = [r1 EXCEPT !.pipeline = q]
  BY <1>11
<1> HIDE DEF q
<1>14. /\ r2 \in Cores /\ r2.pipeline = q /\ r2.regs = ForwardKeeps(b)
       /\ r2.mem = b.mem /\ r2.status = b.status /\ r2.intr = b.intr
  BY <1>11, <1>12, <1>13 DEF Cores
<1> HIDE DEF r2
<1> QED BY <1>3, <1>6, <1>7, <1>9, <1>12, <1>14 DEF code, pc, rs, rt, to, x

\* BREAK throws away the result before it; so does nothing else of EX.
LEMMA BreakTyped ==
  ASSUME NEW b \in Cores, b.pipeline.rdex.op = "break"
  PROVE  LET e == ExStage(b) IN
         /\ e \in Cores
         /\ e.pipeline.pc = b.pipeline.pc
         /\ e.pipeline.ifrd = b.pipeline.ifrd /\ e.pipeline.rdex = b.pipeline.rdex
         /\ e.pipeline.exdf = b.pipeline.exdf
         /\ e.pipeline.dfwb.status = HaltAndBroke
         /\ e.mem = b.mem /\ e.status = b.status
         /\ \A n \in 1 .. 2 : e.regs[n] = b.regs[n]
<1> DEFINE seen == [b EXCEPT !.regs = ForwardKeeps(b)]
           i == b.intr \/ "INTR_BREAK" \in b.status
<1>1. /\ b.pipeline \in Latches /\ b.regs \in [0 .. 2 -> Pcs] /\ b.intr \in BOOLEAN
  BY DEF Cores
<1>2. /\ ForwardKeeps(b) \in [0 .. 2 -> Pcs]
      /\ \A n \in 1 .. 2 : ForwardKeeps(b)[n] = b.regs[n]
  BY <1>1, PcTypes DEF ForwardKeeps
<1>3. /\ seen \in Cores /\ seen.pipeline = b.pipeline /\ seen.regs = ForwardKeeps(b)
      /\ seen.mem = b.mem /\ seen.status = b.status /\ seen.intr = b.intr
  BY <1>2 DEF Cores
<1>4. ExStage(b) = RSP_BREAK(seen)
  BY DEF ExStage
<1> HIDE DEF seen
<1> DEFINE r1 == [seen EXCEPT !.intr = i]
           r2 == [r1 EXCEPT !.pipeline.dfwb.dest = 0]
           r3 == [r2 EXCEPT !.pipeline.dfwb.result = 0]
           r4 == [r3 EXCEPT !.pipeline.dfwb.status = HaltAndBroke]
           p2 == [b.pipeline EXCEPT !.dfwb.dest = 0]
           p3 == [p2 EXCEPT !.dfwb.result = 0]
           p4 == [p3 EXCEPT !.dfwb.status = HaltAndBroke]
<1>5. RSP_BREAK(seen) = r4
  BY <1>3 DEF RSP_BREAK
<1>6. /\ r1 \in Cores /\ r1.pipeline = b.pipeline /\ r1.regs = ForwardKeeps(b)
      /\ r1.mem = b.mem /\ r1.status = b.status
  BY <1>1, <1>3 DEF Cores
<1> HIDE DEF i, r1
<1>7. /\ p2 \in Latches /\ p2.ifrd = b.pipeline.ifrd /\ p2.rdex = b.pipeline.rdex
      /\ p2.exdf = b.pipeline.exdf /\ p2.pc = b.pipeline.pc
  BY <1>1 DEF Latches
<1>8. r2 = [r1 EXCEPT !.pipeline = p2]
  BY <1>6
<1> HIDE DEF p2
<1>9. /\ r2 \in Cores /\ r2.pipeline = p2 /\ r2.regs = ForwardKeeps(b)
       /\ r2.mem = b.mem /\ r2.status = b.status
  BY <1>6, <1>7, <1>8 DEF Cores
<1> HIDE DEF r2
<1>10. /\ p3 \in Latches /\ p3.ifrd = p2.ifrd /\ p3.rdex = p2.rdex
       /\ p3.exdf = p2.exdf /\ p3.pc = p2.pc
  BY <1>7, PcTypes DEF Latches
<1>11. r3 = [r2 EXCEPT !.pipeline = p3]
  BY <1>9
<1> HIDE DEF p3
<1>12. /\ r3 \in Cores /\ r3.pipeline = p3 /\ r3.regs = ForwardKeeps(b)
       /\ r3.mem = b.mem /\ r3.status = b.status
  BY <1>9, <1>10, <1>11 DEF Cores
<1> HIDE DEF r3
<1>13. /\ p4 \in Latches /\ p4.ifrd = p3.ifrd /\ p4.rdex = p3.rdex
       /\ p4.exdf = p3.exdf /\ p4.pc = p3.pc /\ p4.dfwb.status = HaltAndBroke
  BY <1>10 DEF Latches
<1>14. r4 = [r3 EXCEPT !.pipeline = p4]
  BY <1>12
<1> HIDE DEF p4
<1>15. /\ r4 \in Cores /\ r4.pipeline = p4 /\ r4.regs = ForwardKeeps(b)
       /\ r4.mem = b.mem /\ r4.status = b.status
  BY <1>12, <1>13, <1>14 DEF Cores
<1> HIDE DEF r4
<1> QED BY <1>2, <1>4, <1>5, <1>7, <1>10, <1>13, <1>15

\* A write of SET_HALT: the RSP is halted before RD and IF.
LEMMA HaltTyped ==
  ASSUME NEW b \in Cores, b.pipeline.rdex.op = "halt"
  PROVE  LET e == ExStage(b) IN
         /\ e \in Cores
         /\ e.pipeline = b.pipeline
         /\ e.mem = b.mem /\ "HALT" \in e.status
         /\ \A n \in 1 .. 2 : e.regs[n] = b.regs[n]
<1> DEFINE seen == [b EXCEPT !.regs = ForwardKeeps(b)]
<1>1. b.regs \in [0 .. 2 -> Pcs] /\ b.status \in SUBSET StatusBits
  BY DEF Cores
<1>2. /\ ForwardKeeps(b) \in [0 .. 2 -> Pcs]
      /\ \A n \in 1 .. 2 : ForwardKeeps(b)[n] = b.regs[n]
  BY <1>1, PcTypes DEF ForwardKeeps
<1>3. /\ seen \in Cores /\ seen.pipeline = b.pipeline /\ seen.regs = ForwardKeeps(b)
      /\ seen.mem = b.mem /\ seen.status = b.status
  BY <1>2 DEF Cores
<1>4. ExStage(b) = StatusWrite(seen, Set({"HALT"}))
  BY DEF ExStage
<1> HIDE DEF seen
<1> DEFINE rt == Set({"HALT"})
<1>5. "HALT" \in StatusAfter(seen.status, rt) /\ ~ Restarts(seen.status, rt)
  BY <1>1, <1>3, Halting
<1> HIDE DEF rt
<1>6. LET e == StatusWrite(seen, rt) IN
      /\ e \in Cores /\ e.pipeline = b.pipeline /\ e.mem = b.mem /\ "HALT" \in e.status
      /\ e.regs = ForwardKeeps(b)
  BY <1>3, <1>5, StatusTyped
<1> QED BY <1>2, <1>4, <1>6 DEF rt

\* RD and IF: an instruction more in each, or a bubble in RD.
LEMMA RdIfTyped ==
  ASSUME NEW e \in Cores, imem \in [Pcs -> AllOpcodes]
  PROVE  LET a == RdIfStages(e) IN
         /\ a \in Cores
         /\ a.pipeline.exdf = e.pipeline.exdf /\ a.pipeline.dfwb = e.pipeline.dfwb
         /\ a.regs = e.regs /\ a.mem = e.mem /\ a.status = e.status
         /\ Stalls(e) => /\ a.pipeline.rdex = [pc |-> e.pipeline.ifrd.pc, op |-> "kill"]
                         /\ a.pipeline.ifrd = e.pipeline.ifrd
                         /\ a.pipeline.pc = e.pipeline.pc
         /\ ~ Stalls(e) =>
              /\ a.pipeline.rdex = e.pipeline.ifrd
              /\ a.pipeline.ifrd = [pc |-> e.pipeline.pc, op |-> imem[e.pipeline.pc]]
              /\ a.pipeline.pc = Plus(e.pipeline.pc, 1)
<1> DEFINE rd == IF Stalls(e) THEN [pc |-> e.pipeline.ifrd.pc, op |-> "kill"]
                 ELSE e.pipeline.ifrd
           d == RdStage(e)
           p == [e.pipeline EXCEPT !.rdex = rd]
<1>1. /\ e.pipeline \in Latches /\ e.pipeline.ifrd \in Fetches
      /\ e.pipeline.ifrd.pc \in Pcs /\ e.pipeline.pc \in Pcs
  BY DEF Cores, Latches, Fetches
<1>2. rd \in Fetches
  BY <1>1 DEF Fetches
<1>3. d = [e EXCEPT !.pipeline = p]
  BY DEF RdStage
<1> HIDE DEF d
<1>4. Stalls(e) => rd = [pc |-> e.pipeline.ifrd.pc, op |-> "kill"]
  OBVIOUS
<1>5. ~ Stalls(e) => rd = e.pipeline.ifrd
  OBVIOUS
<1> HIDE DEF rd
<1>6. /\ p \in Latches /\ p.rdex = rd /\ p.ifrd = e.pipeline.ifrd /\ p.pc = e.pipeline.pc
      /\ p.exdf = e.pipeline.exdf /\ p.dfwb = e.pipeline.dfwb
  BY <1>1, <1>2 DEF Latches
<1> HIDE DEF p
<1>7. /\ d \in Cores /\ d.pipeline = p /\ d.regs = e.regs /\ d.mem = e.mem
      /\ d.status = e.status
  BY <1>3, <1>6 DEF Cores
<1>8. CASE Stalls(e)
  <2>1. RdIfStages(e) = d
    BY <1>8 DEF RdIfStages, d
  <2> QED BY <1>4, <1>6, <1>7, <1>8, <2>1
<1>9. CASE ~ Stalls(e)
  <2> DEFINE f == [pc |-> p.pc, op |-> imem[p.pc]]
             to == Plus(p.pc, 1)
             r1 == [d EXCEPT !.pipeline.ifrd = f]
             p1 == [p EXCEPT !.ifrd = f]
             p2 == [p1 EXCEPT !.pc = to]
  <2>1. f \in Fetches /\ f = [pc |-> e.pipeline.pc, op |-> imem[e.pipeline.pc]]
    BY <1>1, <1>6 DEF Fetches
  <2>2. to \in Pcs /\ to = Plus(e.pipeline.pc, 1)
    BY <1>1, <1>6, PcTypes, PlusTyped
  <2>3. RdIfStages(e) = [r1 EXCEPT !.pipeline.pc = Plus(@, 1)]
    BY <1>7, <1>9 DEF RdIfStages, IfStage, d
  <2> HIDE DEF f
  <2>4. /\ p1 \in Latches /\ p1.ifrd = f /\ p1.rdex = p.rdex /\ p1.pc = p.pc
        /\ p1.exdf = p.exdf /\ p1.dfwb = p.dfwb
    BY <1>6, <2>1 DEF Latches
  <2>5. r1 = [d EXCEPT !.pipeline = p1]
    BY <1>7
  <2> HIDE DEF p1
  <2>6. /\ r1 \in Cores /\ r1.pipeline = p1 /\ r1.regs = e.regs /\ r1.mem = e.mem
        /\ r1.status = e.status
    BY <1>7, <2>4, <2>5 DEF Cores
  <2>7. RdIfStages(e) = [r1 EXCEPT !.pipeline = p2]
    BY <2>3, <2>4, <2>6
  <2> HIDE DEF r1, to
  <2>8. /\ p2 \in Latches /\ p2.ifrd = p1.ifrd /\ p2.rdex = p1.rdex /\ p2.pc = to
        /\ p2.exdf = p1.exdf /\ p2.dfwb = p1.dfwb
    BY <2>2, <2>4 DEF Latches
  <2> HIDE DEF p2
  <2>9. LET a == RdIfStages(e) IN
        /\ a \in Cores /\ a.pipeline = p2 /\ a.regs = e.regs /\ a.mem = e.mem
        /\ a.status = e.status
    BY <2>6, <2>7, <2>8 DEF Cores
  <2> QED BY <1>5, <1>6, <1>9, <2>1, <2>2, <2>4, <2>8, <2>9
<1> QED BY <1>8, <1>9

-----------------------------------------------------------------------------
(* The program without a pipeline, and EX beside it.                       *)

LEMMA IsaTyped ==
  ASSUME NEW s \in Programs, NEW code, s.regs[0] = 0
  PROVE  LET t == IsaStep(s, code)
             rs == s.regs[Rs(code)]
             rt == s.regs[Rt(code)]
         IN /\ t \in Programs
            /\ t.pc = s.next
            /\ t.next = IF Taken(code, rs, rt) THEN Target(code, s.pc) ELSE Plus(s.next, 1)
            /\ t.regs[0] = 0
            /\ \A n \in 1 .. 2 : t.regs[n] =
                 IF n = Dest(code) THEN (IF code = "lw" THEN s.mem ELSE Result(code, s.pc, rs, rt))
                 ELSE s.regs[n]
            /\ t.mem = IF code = "sw" THEN rt ELSE s.mem
            /\ t.late = IF code \in {"break", "halt"} THEN s.last ELSE 0
            /\ t.last = Dest(code)
            /\ t.ended = (code \in {"break", "halt"})
<1> DEFINE rs == s.regs[Rs(code)]
           rt == s.regs[Rt(code)]
           value == IF code = "lw" THEN s.mem ELSE Result(code, s.pc, rs, rt)
           regs == IF Dest(code) = 0 THEN s.regs ELSE [s.regs EXCEPT ![Dest(code)] = value]
           to == IF Taken(code, rs, rt) THEN Target(code, s.pc) ELSE Plus(s.next, 1)
           mem == IF code = "sw" THEN rt ELSE s.mem
           late == IF code \in {"break", "halt"} THEN s.last ELSE 0
           ended == code \in {"break", "halt"}
<1>1. /\ s.pc \in Pcs /\ s.next \in Pcs /\ s.regs \in [0 .. 2 -> Pcs] /\ s.mem \in Pcs
      /\ s.last \in 0 .. 2
  BY DEF Programs
<1>2. Rs(code) \in 0 .. 2 /\ Rt(code) \in 0 .. 2 /\ Dest(code) \in 0 .. 2
  BY DEF Rs, Rt, Dest
<1>3. rs \in Pcs /\ rt \in Pcs
  BY <1>1, <1>2
<1> HIDE DEF rs, rt
<1>4. Result(code, s.pc, rs, rt) \in Pcs /\ Target(code, s.pc) \in Pcs
  BY <1>1, <1>3, OpcodeTypes
<1>5. Plus(s.next, 1) \in Pcs
  BY <1>1, PcTypes, PlusTyped
<1>6. value \in Pcs /\ to \in Pcs /\ mem \in Pcs /\ late \in 0 .. 2 /\ ended \in BOOLEAN
  BY <1>1, <1>3, <1>4, <1>5
<1>7. IsaStep(s, code) = [pc |-> s.next, next |-> to, regs |-> regs, mem |-> mem, late |-> late,
                        last |-> Dest(code), ended |-> ended]
  BY DEF IsaStep, rs, rt
<1>8. /\ value = (IF code = "lw" THEN s.mem ELSE Result(code, s.pc, rs, rt))
      /\ to = (IF Taken(code, rs, rt) THEN Target(code, s.pc) ELSE Plus(s.next, 1))
      /\ mem = (IF code = "sw" THEN rt ELSE s.mem)
      /\ late = (IF code \in {"break", "halt"} THEN s.last ELSE 0)
      /\ ended = (code \in {"break", "halt"})
  OBVIOUS
<1> HIDE DEF value, to, mem, late, ended
<1>9. regs \in [0 .. 2 -> Pcs] /\ regs[0] = 0
  BY <1>1, <1>2, <1>6
<1>10. \A n \in 1 .. 2 : regs[n] = IF n = Dest(code) THEN value ELSE s.regs[n]
  BY <1>1, <1>2
<1> HIDE DEF regs
<1>11. IsaStep(s, code) \in Programs
  BY <1>1, <1>2, <1>6, <1>7, <1>9 DEF Programs
<1> DEFINE t == IsaStep(s, code)
<1>12. /\ t.pc = s.next /\ t.next = to /\ t.regs = regs /\ t.mem = mem /\ t.late = late
       /\ t.last = Dest(code) /\ t.ended = ended
  BY <1>7
<1> HIDE DEF t
<1> QED BY <1>8, <1>9, <1>10, <1>11, <1>12 DEF rs, rt, t

\* The operands that EX sees are the ones the program has computed.
LEMMA OperandsRight ==
  ASSUME NEW r \in Cores, NEW s \in Programs, r.pipeline.dfwb.status = {},
         Computed(r, s), s.regs[0] = 0, NEW n \in 0 .. 2
  PROVE  Forwarded(DfStage(WbStage(r)), n) = s.regs[n]
<1>1. Forwarded(DfStage(WbStage(r)), n) = IF n = 0 THEN 0 ELSE DrainedReg(r, n)
  BY ForwardsDrained
<1>2. n # 0 => DrainedReg(r, n) = s.regs[n]
  BY DEF Computed
<1> QED BY <1>1, <1>2

LEMMA ExComputes ==
  ASSUME NEW r \in Cores, NEW s \in Programs, r.pipeline.dfwb.status = {},
         Computed(r, s), s.regs[0] = 0,
         r.pipeline.rdex.op \in AllOpcodes \ {"break", "halt"}, r.pipeline.rdex.pc = s.pc,
         r.pipeline.pc = Plus(s.next, 1)
  PROVE  LET e == ExStage(DfStage(WbStage(r)))
             t == IsaStep(s, r.pipeline.rdex.op)
         IN /\ e \in Cores
            /\ e.pipeline.pc = t.next
            /\ e.pipeline.ifrd = r.pipeline.ifrd /\ e.pipeline.rdex = r.pipeline.rdex
            /\ e.pipeline.dfwb.status = {} /\ e.status = r.status
            /\ Computed(e, t)
<1> DEFINE code == r.pipeline.rdex.op
           b == DfStage(WbStage(r))
           e == ExStage(b)
           t == IsaStep(s, code)
           rs == s.regs[Rs(code)]
           rt == s.regs[Rt(code)]
<1>1. /\ b \in Cores
      /\ b.pipeline.dfwb = [dest |-> r.pipeline.exdf.dest, result |-> Loaded(r), status |-> {}]
      /\ b.pipeline.pc = r.pipeline.pc
      /\ b.pipeline.ifrd = r.pipeline.ifrd /\ b.pipeline.rdex = r.pipeline.rdex
      /\ b.mem = DrainedMem(r) /\ b.status = r.status
      /\ \A n \in 0 .. 2 : b.regs[n] =
            IF n = r.pipeline.dfwb.dest THEN r.pipeline.dfwb.result ELSE r.regs[n]
  BY BeforeEx
<1>2. Rs(code) \in 0 .. 2 /\ Rt(code) \in 0 .. 2 /\ Dest(code) \in 0 .. 2
  BY DEF Rs, Rt, Dest
<1>3. Forwarded(b, Rs(code)) = rs /\ Forwarded(b, Rt(code)) = rt
  BY <1>2, OperandsRight
<1> HIDE DEF b
<1>4. /\ e \in Cores
      /\ e.pipeline.pc = IF Taken(code, rs, rt) THEN Target(code, s.pc) ELSE b.pipeline.pc
      /\ e.pipeline.exdf = [dest |-> Dest(code), result |-> Result(code, s.pc, rs, rt),
                            request |-> Request(code), data |-> rt]
      /\ e.pipeline.ifrd = b.pipeline.ifrd /\ e.pipeline.rdex = b.pipeline.rdex
      /\ e.pipeline.dfwb = b.pipeline.dfwb
      /\ e.mem = b.mem /\ e.status = b.status
      /\ \A n \in 1 .. 2 : e.regs[n] = b.regs[n]
  BY <1>1, <1>3, ExTyped
<1>5. /\ t \in Programs
      /\ t.next = IF Taken(code, rs, rt) THEN Target(code, s.pc) ELSE Plus(s.next, 1)
      /\ \A n \in 1 .. 2 : t.regs[n] =
           IF n = Dest(code) THEN (IF code = "lw" THEN s.mem ELSE Result(code, s.pc, rs, rt))
           ELSE s.regs[n]
      /\ t.mem = IF code = "sw" THEN rt ELSE s.mem
      /\ t.last = Dest(code)
      /\ t.ended = (code \in {"break", "halt"})
  BY IsaTyped
<1> HIDE DEF e, t, rs, rt
<1>6. e.pipeline.pc = t.next
  BY <1>1, <1>4, <1>5
<1>7. /\ DrainedMem(r) = s.mem
      /\ \A n \in 1 .. 2 : DrainedReg(r, n) = s.regs[n]
  BY DEF Computed
<1>8. DrainedMem(e) = t.mem
  BY <1>1, <1>4, <1>5, <1>7 DEF DrainedMem, Request, NoRequest
<1>9. Loaded(e) = IF code = "lw" THEN s.mem ELSE Result(code, s.pc, rs, rt)
  BY <1>1, <1>4, <1>7 DEF Loaded, Request, NoRequest
<1>10. ASSUME NEW n \in 1 .. 2 PROVE DrainedReg(e, n) = t.regs[n]
  <2>1. CASE n = Dest(code)
    BY <1>4, <1>5, <1>9, <2>1 DEF DrainedReg
  <2>2. CASE n # Dest(code)
    <3>1. DrainedReg(e, n) = IF n = b.pipeline.dfwb.dest THEN b.pipeline.dfwb.result ELSE b.regs[n]
      BY <1>4, <2>2 DEF DrainedReg
    <3>2. DrainedReg(e, n) = DrainedReg(r, n)
      BY <1>1, <3>1 DEF DrainedReg
    <3> QED BY <1>5, <1>7, <2>2, <3>2
  <2> QED BY <2>1, <2>2
<1>11. Computed(e, t)
  <2>1. ~ t.ended
    BY <1>5
  <2> QED BY <1>4, <1>5, <1>8, <1>10, <2>1 DEF Computed
<1> QED BY <1>1, <1>4, <1>6, <1>11 DEF e, t, b

\* A bubble in EX only drains the latches.
LEMMA BubbleComputes ==
  ASSUME NEW r \in Cores, NEW s \in Programs, r.pipeline.dfwb.status = {},
         Computed(r, s), r.pipeline.rdex.op \notin AllOpcodes
  PROVE  LET e == ExStage(DfStage(WbStage(r))) IN
         /\ e \in Cores
         /\ e.pipeline.pc = r.pipeline.pc
         /\ e.pipeline.ifrd = r.pipeline.ifrd /\ e.pipeline.rdex = r.pipeline.rdex
         /\ e.pipeline.dfwb.status = {} /\ e.status = r.status
         /\ Computed(e, s)
<1> DEFINE code == r.pipeline.rdex.op
           pc == r.pipeline.rdex.pc
           b == DfStage(WbStage(r))
           e == ExStage(b)
<1>1. /\ b \in Cores
      /\ b.pipeline.dfwb = [dest |-> r.pipeline.exdf.dest, result |-> Loaded(r), status |-> {}]
      /\ b.pipeline.pc = r.pipeline.pc
      /\ b.pipeline.ifrd = r.pipeline.ifrd /\ b.pipeline.rdex = r.pipeline.rdex
      /\ b.mem = DrainedMem(r) /\ b.status = r.status
      /\ \A n \in 0 .. 2 : b.regs[n] =
            IF n = r.pipeline.dfwb.dest THEN r.pipeline.dfwb.result ELSE r.regs[n]
  BY BeforeEx
<1>2. code \in {"none", "kill"}
  BY DEF Cores, Latches, Fetches
<1>3. code \notin {"break", "halt"}
  BY <1>2
<1> HIDE DEF b
<1> DEFINE rs == Forwarded(b, Rs(code))
           rt == Forwarded(b, Rt(code))
<1>4. /\ e \in Cores
      /\ e.pipeline.pc = IF Taken(code, rs, rt) THEN Target(code, pc) ELSE b.pipeline.pc
      /\ e.pipeline.exdf = [dest |-> Dest(code), result |-> Result(code, pc, rs, rt),
                            request |-> Request(code), data |-> rt]
      /\ e.pipeline.ifrd = b.pipeline.ifrd /\ e.pipeline.rdex = b.pipeline.rdex
      /\ e.pipeline.dfwb = b.pipeline.dfwb
      /\ e.mem = b.mem /\ e.status = b.status
      /\ \A n \in 1 .. 2 : e.regs[n] = b.regs[n]
  BY <1>1, <1>3, ExTyped
<1> HIDE DEF e, rs, rt
<1>5. e.pipeline.exdf.dest = 0 /\ e.pipeline.exdf.request = "none"
      /\ e.pipeline.pc = b.pipeline.pc
  BY <1>2, <1>4, BubbleIdle
<1>6. DrainedMem(e) = DrainedMem(r)
  BY <1>1, <1>4, <1>5 DEF DrainedMem
<1>7. ASSUME NEW n \in 1 .. 2 PROVE DrainedReg(e, n) = DrainedReg(r, n)
  <2>1. DrainedReg(e, n) = IF n = b.pipeline.dfwb.dest THEN b.pipeline.dfwb.result ELSE b.regs[n]
    BY <1>4, <1>5 DEF DrainedReg
  <2> QED BY <1>1, <2>1 DEF DrainedReg
<1>8. Computed(e, s)
  BY <1>5, <1>6, <1>7 DEF Computed
<1> QED BY <1>1, <1>4, <1>5, <1>8 DEF e, b

\* What BREAK and the write to SP_STATUS throw away is what they must not need.
LEMMA StopComputes ==
  ASSUME NEW r \in Cores, NEW s \in Programs, r.pipeline.dfwb.status = {},
         Computed(r, s), s.regs[0] = 0, r.pipeline.rdex.op \in {"break", "halt"}
  PROVE  LET e == ExStage(DfStage(WbStage(r)))
             t == IsaStep(s, r.pipeline.rdex.op)
         IN /\ e \in Cores
            /\ e.pipeline.pc = r.pipeline.pc
            /\ e.pipeline.ifrd = r.pipeline.ifrd /\ e.pipeline.rdex = r.pipeline.rdex
            /\ ~ Running(e)
            /\ t.ended = TRUE /\ t.next = Plus(s.next, 1)
            /\ Stored(e, t)
<1> DEFINE code == r.pipeline.rdex.op
           b == DfStage(WbStage(r))
           e == ExStage(b)
           t == IsaStep(s, code)
<1>1. /\ b \in Cores
      /\ b.pipeline.dfwb = [dest |-> r.pipeline.exdf.dest, result |-> Loaded(r), status |-> {}]
      /\ b.pipeline.pc = r.pipeline.pc
      /\ b.pipeline.ifrd = r.pipeline.ifrd /\ b.pipeline.rdex = r.pipeline.rdex
      /\ b.mem = DrainedMem(r) /\ b.status = r.status
      /\ \A n \in 0 .. 2 : b.regs[n] =
            IF n = r.pipeline.dfwb.dest THEN r.pipeline.dfwb.result ELSE r.regs[n]
  BY BeforeEx
<1> HIDE DEF b
<1>2. /\ e \in Cores
      /\ e.pipeline.pc = b.pipeline.pc
      /\ e.pipeline.ifrd = b.pipeline.ifrd /\ e.pipeline.rdex = b.pipeline.rdex
      /\ e.mem = b.mem
      /\ \A n \in 1 .. 2 : e.regs[n] = b.regs[n]
      /\ ~ Running(e)
  <2>1. CASE code = "break"
    <3>1. <<"set", "HALT">> \in HaltAndBroke
      BY DEF HaltAndBroke, Set
    <3> QED BY <1>1, <2>1, <3>1, BreakTyped DEF Running
  <2>2. CASE code = "halt"
    BY <1>1, <2>2, HaltTyped DEF Running
  <2> QED BY <2>1, <2>2
<1>3. Dest(code) = 0 /\ ~ Taken(code, s.regs[Rs(code)], s.regs[Rt(code)]) /\ code # "sw"
  BY DEF Dest, Taken
<1>4. /\ t.next = IF Taken(code, s.regs[Rs(code)], s.regs[Rt(code)]) THEN Target(code, s.pc)
                  ELSE Plus(s.next, 1)
      /\ \A n \in 1 .. 2 : t.regs[n] =
           IF n = Dest(code)
           THEN (IF code = "lw" THEN s.mem
                 ELSE Result(code, s.pc, s.regs[Rs(code)], s.regs[Rt(code)]))
           ELSE s.regs[n]
      /\ t.mem = IF code = "sw" THEN s.regs[Rt(code)] ELSE s.mem
      /\ t.late = IF code \in {"break", "halt"} THEN s.last ELSE 0
      /\ t.ended = (code \in {"break", "halt"})
  BY IsaTyped
<1>5. code \in {"break", "halt"}
  OBVIOUS
<1> HIDE DEF e, t, code
<1>6. t.ended = TRUE
  BY <1>4, <1>5
<1>7. /\ t.next = Plus(s.next, 1) /\ t.mem = s.mem /\ t.late = s.last
      /\ \A n \in 1 .. 2 : t.regs[n] = s.regs[n]
  BY <1>3, <1>4, <1>5
<1>8. e.mem = t.mem
  BY <1>1, <1>2, <1>7 DEF Computed
<1>9. ASSUME NEW n \in 1 .. 2, n # t.late PROVE e.regs[n] = t.regs[n]
  <2>1. n # r.pipeline.exdf.dest
    BY <1>7, <1>9 DEF Computed
  <2>2. b.regs[n] = DrainedReg(r, n)
    BY <1>1, <2>1 DEF DrainedReg
  <2>3. DrainedReg(r, n) = s.regs[n]
    BY DEF Computed
  <2> QED BY <1>2, <1>7, <2>2, <2>3
<1>10. Stored(e, t)
  BY <1>8, <1>9 DEF Stored
<1> QED BY <1>1, <1>2, <1>7, <1>10, <1>6 DEF e, t, b, code

-----------------------------------------------------------------------------
(* The steps.                                                              *)

\* RD and IF keep what is computed, and keep up with the program.
LEMMA FetchKeeps ==
  ASSUME NEW e \in Cores, imem \in [Pcs -> AllOpcodes], NEW s
  PROVE  LET a == RdIfStages(e) IN
         /\ a \in Cores /\ a.pipeline.dfwb = e.pipeline.dfwb
         /\ Running(a) = Running(e)
         /\ Computed(e, s) => Computed(a, s)
         /\ Stored(e, s) => Stored(a, s)
<1> DEFINE a == RdIfStages(e)
<1>1. /\ a \in Cores
      /\ a.pipeline.exdf = e.pipeline.exdf /\ a.pipeline.dfwb = e.pipeline.dfwb
      /\ a.regs = e.regs /\ a.mem = e.mem /\ a.status = e.status
  BY RdIfTyped
<1> HIDE DEF a
<1>2. /\ DrainedMem(a) = DrainedMem(e)
      /\ \A n \in 1 .. 2 : DrainedReg(a, n) = DrainedReg(e, n)
  BY <1>1 DEF DrainedMem, DrainedReg, Loaded
<1>3. Running(a) = Running(e)
  BY <1>1 DEF Running
<1>4. Computed(e, s) => Computed(a, s)
  BY <1>1, <1>2 DEF Computed
<1>5. Stored(e, s) => Stored(a, s)
  BY <1>1 DEF Stored
<1> QED BY <1>1, <1>3, <1>4, <1>5 DEF a

\* The cycle in which WB writes what BREAK asked for.
LEMMA CycleHalts ==
  ASSUME PipeInv, rsp_cycle, rsp.pipeline.dfwb.status # {}
  PROVE  PipeInv'
<1> DEFINE rt == rsp.pipeline.dfwb.status
<1>1. rsp \in Cores /\ rt = HaltAndBroke /\ rsp.status \in SUBSET StatusBits
  BY DEF PipeInv, Cores, Latches
<1>2. WbHalts(rsp)
  BY <1>1, WbHaltsWhen
<1>3. rsp' = StatusWrite(rsp, rt) /\ isa' = isa /\ imem' = imem
  BY <1>2 DEF rsp_cycle, rsp_cycle_, WbStage, Executes
<1>4. "HALT" \in StatusAfter(rsp.status, rt) /\ ~ Restarts(rsp.status, rt)
  BY <1>1, Halting
<1> HIDE DEF rt
<1>5. /\ rsp' \in Cores /\ rsp'.status = StatusAfter(rsp.status, rt)
      /\ rsp'.regs = rsp.regs /\ rsp'.mem = rsp.mem
      /\ rsp'.pipeline = rsp.pipeline
  BY <1>1, <1>3, <1>4, StatusTyped
<1>6. ~ Running(rsp) /\ isa.ended
  BY DEF Running, PipeInv
<1>7. ~ Running(rsp')
  BY <1>4, <1>5 DEF Running
<1>8. Stored(rsp', isa)
  BY <1>5, <1>6 DEF PipeInv, Stored
<1>9. Follows(rsp.pipeline, isa)'
  BY <1>3, <1>5 DEF PipeInv, Follows, Unfetched, FetchedOne, FetchedTwo
<1> QED BY <1>3, <1>5, <1>6, <1>7, <1>8, <1>9 DEF PipeInv

\* A cycle with a bubble in EX.
LEMMA CycleBubbles ==
  ASSUME PipeInv, rsp_cycle, rsp.pipeline.dfwb.status = {},
         rsp.pipeline.rdex.op \notin AllOpcodes
  PROVE  PipeInv'
<1> DEFINE e == ExStage(DfStage(WbStage(rsp)))
<1>1. rsp \in Cores /\ isa \in Programs /\ imem \in [Pcs -> AllOpcodes]
  BY DEF PipeInv
<1>2. ~ WbHalts(rsp)
  BY <1>1, WbHaltsWhen
<1>3. rsp' = RdIfStages(e) /\ isa' = isa /\ imem' = imem
  BY <1>2 DEF rsp_cycle, rsp_cycle_, Executes
<1>4. Running(rsp)
  BY DEF rsp_cycle, Running
<1>5. Computed(rsp, isa)
  BY <1>4 DEF PipeInv
<1>6. /\ e \in Cores
      /\ e.pipeline.pc = rsp.pipeline.pc
      /\ e.pipeline.ifrd = rsp.pipeline.ifrd /\ e.pipeline.rdex = rsp.pipeline.rdex
      /\ e.pipeline.dfwb.status = {} /\ e.status = rsp.status
      /\ Computed(e, isa)
  BY <1>1, <1>5, BubbleComputes
<1> HIDE DEF e
<1>7. ~ Stalls(e)
  BY <1>6 DEF Stalls, AllOpcodes
<1>8. /\ rsp' \in Cores
      /\ rsp'.pipeline.rdex = rsp.pipeline.ifrd
      /\ rsp'.pipeline.ifrd = [pc |-> rsp.pipeline.pc, op |-> imem[rsp.pipeline.pc]]
      /\ rsp'.pipeline.pc = Plus(rsp.pipeline.pc, 1)
  BY <1>1, <1>3, <1>6, <1>7, RdIfTyped
<1>9. /\ rsp'.pipeline.dfwb.status = {} /\ Running(rsp') /\ Computed(rsp', isa)
  <2>1. Running(e)
    BY <1>4, <1>6 DEF Running
  <2> QED BY <1>1, <1>3, <1>6, <2>1, FetchKeeps
<1>10. Follows(rsp.pipeline, isa)'
  <2>1. CASE Unfetched(rsp.pipeline, isa)
    BY <1>3, <1>8, <2>1 DEF Follows, Unfetched, FetchedOne
  <2>2. CASE FetchedOne(rsp.pipeline, isa)
    BY <1>3, <1>8, <2>2 DEF Follows, FetchedOne, FetchedTwo
  <2>3. ~ FetchedTwo(rsp.pipeline, isa)
    BY <1>1 DEF FetchedTwo, Programs
  <2> QED BY <2>1, <2>2, <2>3 DEF PipeInv, Follows
<1> QED BY <1>1, <1>3, <1>8, <1>9, <1>10 DEF PipeInv

\* A cycle that executes an instruction.
LEMMA CycleExecutes ==
  ASSUME PipeInv, rsp_cycle, rsp.pipeline.dfwb.status = {},
         rsp.pipeline.rdex.op \in AllOpcodes
  PROVE  PipeInv'
<1> DEFINE code == rsp.pipeline.rdex.op
           e == ExStage(DfStage(WbStage(rsp)))
           t == IsaStep(isa, code)
<1>1. /\ rsp \in Cores /\ isa \in Programs /\ imem \in [Pcs -> AllOpcodes]
      /\ isa.regs[0] = 0
  BY DEF PipeInv
<1>2. ~ WbHalts(rsp)
  BY <1>1, WbHaltsWhen
<1>3. FetchedTwo(rsp.pipeline, isa)
  BY DEF PipeInv, Follows, Unfetched, FetchedOne
<1>4. code = imem[isa.pc] /\ rsp.pipeline.rdex.pc = isa.pc
      /\ rsp.pipeline.ifrd = [pc |-> isa.next, op |-> imem[isa.next]]
      /\ rsp.pipeline.pc = Plus(isa.next, 1)
  BY <1>3 DEF FetchedTwo
<1>5. rsp' = RdIfStages(e) /\ isa' = t /\ imem' = imem
  BY <1>2, <1>4 DEF rsp_cycle, rsp_cycle_, Executes
<1>6. Running(rsp)
  BY DEF rsp_cycle, Running
<1>7. Computed(rsp, isa)
  BY <1>6 DEF PipeInv
<1>8. t \in Programs /\ t.pc = isa.next /\ t.regs[0] = 0
  BY <1>1, IsaTyped
<1>9. CASE code \in {"break", "halt"}
  <2>1. /\ e \in Cores
        /\ e.pipeline.pc = rsp.pipeline.pc
        /\ e.pipeline.ifrd = rsp.pipeline.ifrd /\ e.pipeline.rdex = rsp.pipeline.rdex
        /\ ~ Running(e)
        /\ t.ended = TRUE /\ t.next = Plus(isa.next, 1)
        /\ Stored(e, t)
    BY <1>1, <1>7, <1>9, StopComputes
  <2> HIDE DEF e, t
  <2>2. /\ e \in Cores
        /\ e.pipeline.pc = rsp.pipeline.pc
        /\ e.pipeline.ifrd = rsp.pipeline.ifrd /\ e.pipeline.rdex = rsp.pipeline.rdex
    BY <2>1
  <2>3. ~ Stalls(e)
    BY <1>9, <2>1 DEF Stalls
  <2>4. /\ rsp' \in Cores
        /\ rsp'.pipeline.rdex = rsp.pipeline.ifrd
        /\ rsp'.pipeline.ifrd = [pc |-> rsp.pipeline.pc, op |-> imem[rsp.pipeline.pc]]
        /\ rsp'.pipeline.pc = Plus(rsp.pipeline.pc, 1)
    BY <1>1, <1>5, <2>3, <2>2, RdIfTyped
  <2>5. ~ Running(rsp') /\ Stored(rsp', t)
    BY <1>1, <1>5, <2>1, FetchKeeps
  <2>6. rsp'.pipeline.rdex = [pc |-> t.pc, op |-> imem[t.pc]]
        /\ rsp'.pipeline.ifrd = [pc |-> t.next, op |-> imem[t.next]]
        /\ rsp'.pipeline.pc = Plus(t.next, 1)
    BY <1>4, <1>8, <2>1, <2>4
  <2>7. Follows(rsp.pipeline, isa)'
    BY <1>5, <2>6 DEF Follows, FetchedTwo
  <2>8. rsp'.pipeline.rdex.pc = isa'.pc
    BY <1>5, <2>6
  <2> QED BY <1>1, <1>5, <1>8, <2>1, <2>4, <2>5, <2>7, <2>8 DEF PipeInv
<1>10. CASE code \notin {"break", "halt"}
  <2>1. /\ e \in Cores
        /\ e.pipeline.pc = t.next
        /\ e.pipeline.ifrd = rsp.pipeline.ifrd /\ e.pipeline.rdex = rsp.pipeline.rdex
        /\ e.pipeline.dfwb.status = {} /\ e.status = rsp.status
        /\ Computed(e, t)
    BY <1>1, <1>4, <1>7, <1>10, ExComputes
  <2> HIDE DEF e, t
  <2>2. /\ rsp' \in Cores
        /\ Stalls(e) => /\ rsp'.pipeline.rdex = [pc |-> isa.next, op |-> "kill"]
                        /\ rsp'.pipeline.ifrd = [pc |-> isa.next, op |-> imem[isa.next]]
                        /\ rsp'.pipeline.pc = t.next
        /\ ~ Stalls(e) => /\ rsp'.pipeline.rdex = [pc |-> isa.next, op |-> imem[isa.next]]
                          /\ rsp'.pipeline.ifrd = [pc |-> t.next, op |-> imem[t.next]]
                          /\ rsp'.pipeline.pc = Plus(t.next, 1)
    BY <1>1, <1>4, <1>5, <2>1, RdIfTyped
  <2>3. rsp'.pipeline.dfwb.status = {} /\ Running(rsp') /\ Computed(rsp', t)
    <3>1. Running(e)
      BY <1>6, <2>1 DEF Running
    <3> QED BY <1>1, <1>5, <2>1, <3>1, FetchKeeps
  <2>4. Follows(rsp.pipeline, isa)'
    <3>1. CASE Stalls(e)
      <4>1. rsp'.pipeline.rdex.op \notin AllOpcodes
        BY <2>2, <3>1 DEF AllOpcodes
      <4> QED BY <1>5, <1>8, <2>2, <3>1, <4>1 DEF Follows, FetchedOne
    <3>2. CASE ~ Stalls(e)
      BY <1>5, <1>8, <2>2, <3>2 DEF Follows, FetchedTwo
    <3> QED BY <3>1, <3>2
  <2> QED BY <1>1, <1>5, <1>8, <2>2, <2>3, <2>4 DEF PipeInv
<1> QED BY <1>9, <1>10

\* A pipeline that begins, and the program from there on.
LEMMA StartsUnfetched ==
  ASSUME NEW r \in Cores, NEW q \in Cores, NEW pc \in Pcs,
         q.pipeline = StartAt(pc), q.regs = r.regs, q.mem = r.mem
  PROVE  /\ IsaFrom(pc, r) \in Programs /\ IsaFrom(pc, r).regs[0] = 0
         /\ IsaFrom(pc, r).pc = pc /\ IsaFrom(pc, r).ended = FALSE
         /\ Unfetched(q.pipeline, IsaFrom(pc, r))
         /\ Computed(q, IsaFrom(pc, r))
         /\ q.pipeline.dfwb.status = {} /\ q.pipeline.rdex.pc = 0
<1> DEFINE s == IsaFrom(pc, r)
           regs == [r.regs EXCEPT ![0] = 0]
<1>1. r.regs \in [0 .. 2 -> Pcs] /\ r.mem \in Pcs
  BY DEF Cores
<1>2. /\ regs \in [0 .. 2 -> Pcs] /\ regs[0] = 0
      /\ \A n \in 1 .. 2 : regs[n] = r.regs[n]
  BY <1>1, PcTypes
<1>3. Plus(pc, 1) \in Pcs
  BY PcTypes, PlusTyped
<1> HIDE DEF regs
<1>4. s = [pc |-> pc, next |-> Plus(pc, 1), regs |-> regs,
           mem |-> r.mem, late |-> 0, last |-> 0, ended |-> FALSE]
  BY DEF IsaFrom, regs
<1> HIDE DEF s
<1>5. s \in Programs /\ s.pc = pc /\ s.next = Plus(pc, 1) /\ s.regs = regs /\ s.mem = r.mem
      /\ s.last = 0 /\ s.ended = FALSE
  BY <1>1, <1>2, <1>3, <1>4 DEF Programs
<1>6. /\ q.pipeline.pc = pc /\ q.pipeline.exdf = rsp_pipeline_init.exdf
      /\ q.pipeline.dfwb = rsp_pipeline_init.dfwb
      /\ q.pipeline.rdex = rsp_pipeline_init.rdex /\ q.pipeline.ifrd = rsp_pipeline_init.ifrd
  BY InitTyped DEF StartAt
<1>7. /\ q.pipeline.exdf.dest = 0 /\ q.pipeline.exdf.request = "none"
      /\ q.pipeline.dfwb.dest = 0 /\ q.pipeline.dfwb.status = {}
      /\ q.pipeline.rdex.op = "none" /\ q.pipeline.ifrd.op = "none" /\ q.pipeline.rdex.pc = 0
  BY <1>6 DEF rsp_pipeline_init, NoRequest
<1>8. Unfetched(q.pipeline, s)
  BY <1>5, <1>6, <1>7 DEF Unfetched, AllOpcodes
<1>9. DrainedMem(q) = s.mem /\ \A n \in 1 .. 2 : DrainedReg(q, n) = s.regs[n]
  BY <1>2, <1>5, <1>7 DEF DrainedMem, DrainedReg
<1>10. Computed(q, s)
  BY <1>5, <1>7, <1>9 DEF Computed
<1> QED BY <1>2, <1>5, <1>7, <1>8, <1>10 DEF s

LEMMA PipeBegins ==
  ASSUME RspInit PROVE PipeInv
<1>1. 0 \in Pcs /\ rsp_pipeline_init.pc = 0
  BY PcTypes DEF rsp_pipeline_init
<1>2. StartAt(0) \in Latches /\ rsp_pipeline_init = StartAt(0)
  BY <1>1, InitTyped DEF rsp_pipeline_init, StartAt
<1>3. rsp \in Cores /\ rsp.pipeline = StartAt(0)
      /\ rsp.status = {"HALT"}
  BY <1>1, <1>2 DEF RspInit, Cores, StatusBits
<1>4. imem \in [Pcs -> AllOpcodes] /\ isa = IsaFrom(0, rsp)
  BY RspPipelineAssumption DEF RspInit
<1>5. ~ Running(rsp)
  BY <1>3 DEF Running
<1> DEFINE s == IsaFrom(0, rsp)
<1>6. /\ s \in Programs /\ s.regs[0] = 0 /\ Unfetched(rsp.pipeline, s) /\ s.pc = 0
      /\ s.ended = FALSE /\ rsp.pipeline.dfwb.status = {} /\ rsp.pipeline.rdex.pc = 0
  BY <1>1, <1>3, StartsUnfetched
<1> HIDE DEF s
<1>7. isa = s
  BY <1>4 DEF s
<1> QED BY <1>3, <1>4, <1>5, <1>6, <1>7 DEF PipeInv, Follows

LEMMA RestartKeeps ==
  ASSUME PipeInv, CpuRestarts PROVE PipeInv'
<1>1. PICK rt \in {Clr({"HALT", "BROKE", "INTR"}), Clr({"HALT", "INTR"}) \cup Set({"INTR_BREAK"})} :
        rsp' = StatusWrite(rsp, Masked(rt))
  BY DEF CpuRestarts
<1> DEFINE wt == Masked(rt)
<1>2. /\ rsp \in Cores /\ imem \in [Pcs -> AllOpcodes] /\ isa.pc \in Pcs
      /\ rsp.pipeline.rdex.pc = isa.pc
  BY DEF PipeInv, CpuRestarts, Running, Programs
<1>3. "HALT" \in rsp.status /\ imem' = imem /\ isa' = IsaFrom(isa.pc, rsp)
  BY DEF CpuRestarts
<1>4. <<"clr", "HALT">> \in wt
  BY DEF Masked, Clr, Set
<1>5. Restarts(rsp.status, wt) /\ "HALT" \notin StatusAfter(rsp.status, wt)
  BY <1>3, <1>4 DEF Restarts, StatusAfter
<1> HIDE DEF wt
<1>6. /\ rsp' \in Cores /\ rsp'.status = StatusAfter(rsp.status, wt)
      /\ rsp'.regs = rsp.regs /\ rsp'.mem = rsp.mem
      /\ rsp'.pipeline = StartAt(isa.pc)
  BY <1>1, <1>2, <1>5, StatusTyped DEF wt, StartAt
<1> DEFINE s == IsaFrom(isa.pc, rsp)
<1>7. /\ s \in Programs /\ s.regs[0] = 0 /\ Unfetched(rsp'.pipeline, s)
      /\ Computed(rsp', s) /\ rsp'.pipeline.dfwb.status = {}
  BY <1>2, <1>6, StartsUnfetched
<1> HIDE DEF s
<1>8. Running(rsp') /\ isa' = s
  BY <1>3, <1>5, <1>6, <1>7 DEF Running, s
<1>9. Follows(rsp.pipeline, isa)'
  BY <1>7, <1>8 DEF Follows, Unfetched
<1> QED BY <1>2, <1>3, <1>6, <1>7, <1>8, <1>9 DEF PipeInv

LEMMA WritesPcKeeps ==
  ASSUME PipeInv, CpuWritesPc, StartPcs \subseteq {0} PROVE PipeInv'
<1>1. rsp' = [rsp EXCEPT !.pipeline = StartAt(0)]
      /\ isa' = IsaFrom(0, rsp) /\ imem' = imem /\ "HALT" \in rsp.status
  BY DEF CpuWritesPc, StartAt
<1>2. rsp \in Cores /\ imem \in [Pcs -> AllOpcodes] /\ 0 \in Pcs
  BY PcTypes DEF PipeInv
<1> DEFINE s == IsaFrom(0, rsp)
<1>3. StartAt(0) \in Latches
  BY <1>2, InitTyped DEF StartAt
<1>4. rsp' \in Cores /\ rsp'.pipeline = StartAt(0) /\ rsp'.regs = rsp.regs /\ rsp'.mem = rsp.mem
      /\ rsp'.status = rsp.status
  BY <1>1, <1>2, <1>3 DEF Cores
<1>5. /\ s \in Programs /\ s.regs[0] = 0 /\ Unfetched(rsp'.pipeline, s) /\ s.pc = 0
      /\ s.ended = FALSE /\ rsp'.pipeline.dfwb.status = {} /\ rsp'.pipeline.rdex.pc = 0
  <2> DEFINE pc == 0
             q == rsp'
  <2>1. /\ rsp \in Cores /\ q \in Cores /\ pc \in Pcs /\ q.pipeline = StartAt(pc)
        /\ q.regs = rsp.regs /\ q.mem = rsp.mem
    BY <1>2, <1>4
  <2> HIDE DEF pc, q
  <2>2. /\ IsaFrom(pc, rsp) \in Programs /\ IsaFrom(pc, rsp).regs[0] = 0
        /\ IsaFrom(pc, rsp).pc = pc /\ IsaFrom(pc, rsp).ended = FALSE
        /\ Unfetched(q.pipeline, IsaFrom(pc, rsp))
        /\ Computed(q, IsaFrom(pc, rsp))
        /\ q.pipeline.dfwb.status = {} /\ q.pipeline.rdex.pc = 0
    BY <2>1, StartsUnfetched
  <2> QED BY <2>2 DEF pc, q
<1> HIDE DEF s
<1>6. ~ Running(rsp') /\ isa' = s
  BY <1>1, <1>4 DEF Running, s
<1>7. Follows(rsp.pipeline, isa)'
  BY <1>5, <1>6 DEF Follows, Unfetched
<1> QED BY <1>1, <1>2, <1>4, <1>5, <1>6, <1>7 DEF PipeInv

\* The properties are what the invariant says of the states.
LEMMA PipeRight ==
  ASSUME PipeInv PROVE RspRunsRight
<1>1. rsp \in Cores /\ isa \in Programs
  BY DEF PipeInv
<1>2. RspTypeOK
  BY <1>1 DEF RspTypeOK, Cores, Latches, Programs
<1>3. InOrder
  <2> SUFFICES ASSUME Executes PROVE FetchedTwo(rsp.pipeline, isa)
    BY DEF InOrder, FetchedTwo
  <2> QED BY DEF PipeInv, Follows, Unfetched, FetchedOne, Executes
<1>4. NothingLost
  <2> SUFFICES ASSUME Running(rsp)
               PROVE  LET d == WbStage(Pending(rsp)) IN
                      /\ \A n \in 1 .. 2 : d.regs[n] = isa.regs[n]
                      /\ d.mem = isa.mem
    BY DEF NothingLost, Running
  <2>1. Computed(rsp, isa) /\ rsp.pipeline.dfwb.status = {}
    BY DEF PipeInv, Running
  <2>2. LET d == WbStage(Pending(rsp)) IN
        d.mem = DrainedMem(rsp) /\ \A n \in 0 .. 2 : d.regs[n] = DrainedReg(rsp, n)
    BY <1>1, <2>1, DrainedRight
  <2> QED BY <2>1, <2>2 DEF Computed
<1>5. StopsAfterAll
  BY DEF StopsAfterAll, PipeInv, Running, Stored
<1> QED BY <1>2, <1>3, <1>4, <1>5 DEF RspRunsRight

\* The pipeline of the RSP (rsp_cycle_ of rsp/pipeline.c) runs every program as
\* the instruction set would: it executes each instruction once and in order, the
\* delay slots too, loses no result to forwarding, and BREAK and the write of
\* SET_HALT stop it after all that came before has been stored. The CPU starts it
\* at 0, as boot codes and games do: other values of SP_PC are lost
\* (rsp/interface.c:182).
THEOREM RspAlwaysRunsRight ==
  ASSUME StartPcs \subseteq {0}
  PROVE  RspSpec => []RspRunsRight
<1>1. RspInit => PipeInv
  BY PipeBegins
<1>2. PipeInv /\ [RspNext]_rspVars => PipeInv'
  <2> SUFFICES ASSUME PipeInv, [RspNext]_rspVars PROVE PipeInv'
    OBVIOUS
  <2>1. CASE rsp_cycle
    BY <2>1, CycleHalts, CycleBubbles, CycleExecutes
  <2>2. CASE CpuRestarts
    BY <2>2, RestartKeeps
  <2>3. CASE CpuWritesPc
    BY <2>3, WritesPcKeeps
  <2>4. CASE UNCHANGED rspVars
    BY <2>4 DEF rspVars, PipeInv, Follows, Unfetched, FetchedOne, FetchedTwo
  <2> QED BY <2>1, <2>2, <2>3, <2>4 DEF RspNext
<1>3. PipeInv => RspRunsRight
  BY PipeRight
<1> QED BY <1>1, <1>2, <1>3, PTL DEF RspSpec
============================================================================
