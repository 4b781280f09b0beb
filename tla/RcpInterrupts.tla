--------------------------- MODULE RcpInterrupts ---------------------------
(***************************************************************************)
(* The interrupt lines of the CPU: vr4300/interface.c, and the other code  *)
(* that writes CP0's CAUSE (cpu.c, cp0.c, fault.c).                        *)
(*                                                                         *)
(* Six sources set bits of MI_INTR. A masked bit asserts line IP2 of CAUSE *)
(* (0x400), the 64DD asserts IP3 (0x800), the timer IP7 (0x8000). MI_INTR  *)
(* and the RCP's and the 64DD's writes of CAUSE are atomic instructions;   *)
(* the CPU's own writes of CAUSE are plain loads and stores.               *)
(*                                                                         *)
(* With -multithread the RCP's thread (RSP, RDP, VI) and the CPU's (CPU,   *)
(* AI, PI, SI, DD) run at the same time, so an operation is the sequence   *)
(* of its accesses to shared memory. Without it one thread runs one        *)
(* operation after the other. op is what each thread is in the middle of.  *)
(***************************************************************************)
EXTENDS Integers, FiniteSets

CONSTANTS
  Sources,           \* the sources to explore, among the six of MI_INTR
  RcpSources,        \* the ones the RCP's thread signals and clears
  MultithreadModes   \* the values of options.multithread to explore

VARIABLES
  multithread,  \* device->multithread, fixed at start
  intr,         \* MI_INTR_REG
  mask,         \* MI_INTR_MASK_REG
  cause,        \* the interrupt lines in CAUSE
  op,           \* the operation each thread is in the middle of
  timer,        \* history: COUNT has reached COMPARE and COMPARE was not written
  disk,         \* history: the 64DD has signalled and not cleared
  overwritten   \* history: MI_INTR was written as a register and not checked

vars == <<multithread, intr, mask, cause, op, timer, disk, overwritten>>

Lines == {"ip2", "ip3", "ip7"}

Threads == {"rcp", "vr4300"}

\* The order in which write_mi_regs goes through the bits of the mask.
Rank == [SP |-> 1, SI |-> 2, AI |-> 3, VI |-> 4, PI |-> 5, DP |-> 6]

ASSUME InterruptsAssumption ==
  /\ Sources \subseteq DOMAIN Rank
  /\ RcpSources \subseteq Sources
  /\ MultithreadModes \subseteq BOOLEAN

Places == {"idle", "mask", "read", "check", "assert", "deassert", "store"}

\* at: the next access; flags, clear: arguments in flight; lines: the value of
\* CAUSE computed from an earlier read.
Ops == [at : Places, flags : SUBSET Sources, clear : SUBSET Sources, lines : SUBSET Lines]

Idle == [at |-> "idle", flags |-> {}, clear |-> {}, lines |-> {}]

\* A thread may start an operation; without -multithread only when no other
\* one is under way.
Free(t) ==
  /\ op[t].at = "idle"
  /\ multithread \/ \A u \in Threads : op[u].at = "idle"

Init ==
  /\ multithread \in MultithreadModes
  /\ intr = {}
  /\ mask = {}
  /\ cause = {}
  /\ op = [t \in Threads |-> Idle]
  /\ timer = FALSE
  /\ disk = FALSE
  /\ overwritten = FALSE

-----------------------------------------------------------------------------
(* Signalling and clearing: one atomic instruction on MI_INTR, whose result *)
(* check_for_interrupts then compares with the mask.                        *)

SourcesOf(t) == IF t = "rcp" THEN RcpSources ELSE Sources

\* Thread t goes on to check_for_interrupts(flags).
CheckNext(t, flags) ==
  op' = [op EXCEPT ![t] = [Idle EXCEPT !.at = "check", !.flags = flags]]

\* signal_rcp_interrupt.
SignalRcp(t, s) ==
  /\ Free(t)
  /\ s \in SourcesOf(t)
  /\ intr' = intr \union {s}
  /\ CheckNext(t, intr')
  /\ overwritten' = FALSE
  /\ UNCHANGED <<multithread, mask, cause, timer, disk>>

\* clear_rcp_interrupt, and the DP bit of MI_INIT_MODE.
ClearRcp(t, s) ==
  /\ Free(t)
  /\ s \in SourcesOf(t)
  /\ intr' = intr \ {s}
  /\ CheckNext(t, intr')
  /\ overwritten' = FALSE
  /\ UNCHANGED <<multithread, mask, cause, timer, disk>>

\* check_for_interrupts reads the mask ...
Check(t) ==
  /\ op[t].at = "check"
  /\ op' = [op EXCEPT ![t] =
             [Idle EXCEPT !.at = IF op[t].flags \intersect mask # {}
                                 THEN "assert" ELSE "deassert"]]
  /\ UNCHANGED <<multithread, intr, mask, cause, timer, disk, overwritten>>

\* Mutant of SetLine: lowering the line clears the whole of CAUSE.
SetLineClearsAll(t) ==
  /\ \/ /\ op[t].at = "assert"
        /\ cause' = cause \union {"ip2"}
     \/ /\ op[t].at = "deassert"
        /\ cause' = {}
  /\ op' = [op EXCEPT ![t] = Idle]
  /\ UNCHANGED <<multithread, intr, mask, timer, disk, overwritten>>

\* ... and raise_rcp_interrupt or lower_rcp_interrupt changes the line.
SetLine(t) ==
  /\ \/ /\ op[t].at = "assert"
        /\ cause' = cause \union {"ip2"}
     \/ /\ op[t].at = "deassert"
        /\ cause' = cause \ {"ip2"}
  /\ op' = [op EXCEPT ![t] = Idle]
  /\ UNCHANGED <<multithread, intr, mask, timer, disk, overwritten>>

-----------------------------------------------------------------------------
(* The CPU writes the registers of the MI.                                  *)

\* write_mi_regs, MI_INTR_MASK_REG: the bits in set are set unless they are in
\* clear too, one after the other ...
WriteMask(clear, set) ==
  /\ Free("vr4300")
  /\ op' = [op EXCEPT !["vr4300"] =
             [Idle EXCEPT !.at = "mask", !.clear = clear, !.flags = set]]
  /\ UNCHANGED <<multithread, intr, mask, cause, timer, disk, overwritten>>

MaskBit ==
  LET o == op["vr4300"]
      todo == o.clear \union o.flags
  IN /\ o.at = "mask"
     /\ \/ /\ todo = {}
           /\ op' = [op EXCEPT !["vr4300"] = [Idle EXCEPT !.at = "read"]]
           /\ UNCHANGED mask
        \/ \E s \in todo :
             /\ \A r \in todo : Rank[s] <= Rank[r]
             /\ mask' = IF s \in o.clear THEN mask \ {s} ELSE mask \union {s}
             /\ op' = [op EXCEPT !["vr4300"] =
                        [o EXCEPT !.clear = @ \ {s}, !.flags = @ \ {s}]]
  /\ UNCHANGED <<multithread, intr, cause, timer, disk, overwritten>>

\* ... and then MI_INTR is read and checked.
ReadIntr ==
  /\ op["vr4300"].at = "read"
  /\ CheckNext("vr4300", intr)
  /\ overwritten' = FALSE
  /\ UNCHANGED <<multithread, intr, mask, cause, timer, disk>>

\* write_mi_regs, any other register: MI_INTR takes the word and nothing is
\* checked. The two accesses of a word-wide write are one step.
WriteIntr(word) ==
  /\ Free("vr4300")
  /\ intr' = word
  /\ overwritten' = TRUE
  /\ UNCHANGED <<multithread, mask, cause, op, timer, disk>>

-----------------------------------------------------------------------------
(* The other lines of CAUSE. *)

\* The CPU reads CAUSE to store it with the lines in drop removed and the ones
\* in add added.
LoadCause(drop, add) ==
  /\ Free("vr4300")
  /\ op' = [op EXCEPT !["vr4300"] =
             [Idle EXCEPT !.at = "store", !.lines = (cause \ drop) \union add]]
  /\ UNCHANGED <<multithread, intr, mask, cause, disk, overwritten>>

StoreCause ==
  /\ op["vr4300"].at = "store"
  /\ cause' = op["vr4300"].lines
  /\ op' = [op EXCEPT !["vr4300"] = Idle]
  /\ UNCHANGED <<multithread, intr, mask, timer, disk, overwritten>>

\* vr4300_cycle: COUNT has reached COMPARE.
Timer == LoadCause({}, {"ip7"}) /\ timer' = TRUE

\* MTC0 and DMTC0 to COMPARE.
WriteCompare == LoadCause({"ip7"}, {}) /\ timer' = FALSE

\* The CPU stores CAUSE with other lines unchanged: an exception, whose prolog
\* reads CAUSE and whose epilogue stores it with the exception code, and MTC0
\* and DMTC0 to CAUSE, which change the software interrupts.
RewriteCause == LoadCause({}, {}) /\ UNCHANGED timer

\* signal_dd_interrupt and clear_dd_interrupt.
SignalDisk ==
  /\ Free("vr4300")
  /\ cause' = cause \union {"ip3"}
  /\ disk' = TRUE
  /\ UNCHANGED <<multithread, intr, mask, op, timer, overwritten>>

ClearDisk ==
  /\ Free("vr4300")
  /\ cause' = cause \ {"ip3"}
  /\ disk' = FALSE
  /\ UNCHANGED <<multithread, intr, mask, op, timer, overwritten>>

-----------------------------------------------------------------------------

CpuStart ==
  \/ \E clear, set \in SUBSET Sources : WriteMask(clear, set)
  \/ \E word \in SUBSET Sources : WriteIntr(word)
  \/ Timer
  \/ WriteCompare
  \/ RewriteCause
  \/ SignalDisk
  \/ ClearDisk

\* The operation under way in thread t takes its next step.
Continue(t) ==
  \/ Check(t)
  \/ SetLine(t)
  \/ t = "vr4300" /\ (MaskBit \/ ReadIntr \/ StoreCause)

Next ==
  \/ CpuStart
  \/ \E t \in Threads :
       \/ Continue(t)
       \/ \E s \in Sources : SignalRcp(t, s) \/ ClearRcp(t, s)

Spec == Init /\ [][Next]_vars

-----------------------------------------------------------------------------
(* Properties *)

TypeOK ==
  /\ multithread \in BOOLEAN
  /\ intr \subseteq Sources
  /\ mask \subseteq Sources
  /\ cause \subseteq Lines
  /\ op \in [Threads -> Ops]
  /\ timer \in BOOLEAN
  /\ disk \in BOOLEAN
  /\ overwritten \in BOOLEAN

Quiet == \A t \in Threads : op[t].at = "idle"

\* check_for_interrupts: "Checks for interrupts, possibly sets the cause bit."
\* When no operation is under way, an interrupt that is pending and not masked
\* asserts the line: it is not lost, whatever was read, masked, signalled and
\* stored in between.
NoLostInterrupt ==
  (Quiet /\ ~overwritten /\ intr \intersect mask # {}) => "ip2" \in cause

\* And the line is not left asserted when nothing is pending.
NoStuckInterrupt ==
  (Quiet /\ ~overwritten /\ intr \intersect mask = {}) => "ip2" \notin cause

\* Without -multithread the line is up exactly when an interrupt is pending and
\* not masked, in any order of signals, acknowledgements, masks and exceptions.
SingleThreadLine == ~multithread => NoLostInterrupt /\ NoStuckInterrupt

\* In both modes the timer's line is exact: the RCP's thread never undoes what
\* the CPU stored, although the CPU's own accesses are not atomic.
TimerExact ==
  LET o == op["vr4300"]
  IN timer <=> "ip7" \in (IF o.at = "store" THEN o.lines ELSE cause)

\* So is the 64DD's line.
DiskExact ==
  LET o == op["vr4300"]
  IN /\ disk <=> "ip3" \in cause
     /\ o.at = "store" => (disk <=> "ip3" \in o.lines)

\* Why no interrupt is lost in one thread: the value that is on its way to the
\* line is computed from MI_INTR and the mask as they still are, the value on
\* its way to CAUSE from CAUSE as it still is, and nothing else is under way.
SingleThreadInv ==
  ~multithread =>
    /\ op["rcp"].at # "idle" => op["vr4300"].at = "idle"
    /\ op["rcp"].at \notin {"mask", "read", "store"}
    /\ \A t \in Threads :
         LET o == op[t]
             pending == intr \intersect mask # {}
         IN /\ o.at = "check" => o.flags = intr
            /\ o.at = "assert" => pending
            /\ o.at = "deassert" => ~pending
            /\ o.at \in {"check", "assert", "deassert"} => ~overwritten
            /\ o.at = "store" => ("ip2" \in o.lines <=> "ip2" \in cause)
    /\ (~overwritten /\ \A t \in Threads : op[t].at \in {"idle", "store"})
         => ("ip2" \in cause <=> intr \intersect mask # {})

\* The lines to the CPU as a whole.
LinesRight == SingleThreadLine /\ TimerExact /\ DiskExact
=============================================================================
