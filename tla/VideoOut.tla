------------------------------ MODULE VideoOut -------------------------------
(***************************************************************************)
(* The video interface and its window: vi_cycle composes a frame in the    *)
(* thread of the RCP, under render_mutex, and pushes a token into a pipe;  *)
(* the thread of the user interface waits for X11 events or a token,       *)
(* handles the events under event_mutex and draws the frame buffer under   *)
(* render_mutex. The program of the console writes the registers and       *)
(* paints RDRAM between two cycles of the VI (without -multithread they    *)
(* share a thread).                                                        *)
(*                                                                         *)
(* A period is ViStart ticks long (the code has 62500000/60 + 1) and is    *)
(* divided into ViHalfLines (525); blanking ends after ViBlank (39). RDRAM *)
(* and the frame buffer are counted in blocks with a colour each. The      *)
(* wire of the X11 connection and the queue Xlib keeps in the process are  *)
(* apart: select only sees the wire.                                       *)
(***************************************************************************)
EXTENDS Integers, Sequences, FiniteSetsExt, Functions

CONSTANTS ViStart, ViHalfLines, ViBlank,
          ViModes,      \* the registers as a program has set them up
          ViValues,     \* per register, the values it writes from then on
          ViMoments,    \* the counts at which the program acts
          ViColours,    \* the contents of a block
          RamBlocks, FrameBlocks,
          PipeTokens,   \* the tokens the pipe holds
          UserEvents    \* the events a user causes, in order

ASSUME ViAssumption ==
  /\ ViHalfLines \in Nat \ {0} /\ ViStart \in Nat /\ ViStart >= ViHalfLines
  /\ ViBlank \in 1 .. ViHalfLines - 1
  /\ 0 \in ViColours
  /\ FrameBlocks \in 1 .. RamBlocks
  /\ PipeTokens \in Nat \ {0}
  /\ UserEvents \in Seq(STRING)

VARIABLES
  vi,       \* the registers, the counter, intr_counter, the field, the line to the MI
  ram,      \* RDRAM
  win,      \* cen64_gl_window: what the two threads share
  shown,    \* what the screen shows
  viPc, uiPc,
  xevents,  \* the events still to come, on the wire and in Xlib's queue
  frames    \* history: the frame last composed, the one shown was drawn from, and more

viVars == <<vi, ram, win, shown, viPc, uiPc, xevents, frames>>

ViRegisters == {"STATUS", "ORIGIN", "WIDTH", "INTR", "V_SYNC", "H_START", "V_START",
                "X_SCALE", "Y_SCALE"}

\* A frame as it goes to the window.
Picture(hres, vres, hskip, type, blocks) ==
  [hres |-> hres, vres |-> vres, hskip |-> hskip, type |-> type, blocks |-> blocks]

Black == [b \in 0 .. FrameBlocks - 1 |-> 0]
NoPicture == Picture(0, 0, 0, 0, Black)

\* VI_BLANKING_DONE and the value write_vi_regs gives intr_counter.
BlankingDone == ViStart - (ViStart * ViBlank) \div ViHalfLines
IntrCounter(word) == (ViStart * (ViHalfLines - word \div 2)) \div ViHalfLines

\* A period begins after the program has set up its mode: the screen is
\* still blank, for a frame of type 0 is never drawn.
ViInit ==
  /\ \E mode \in ViModes :
       vi = [regs |-> mode, counter |-> ViStart, intr |-> IntrCounter(mode["INTR"]),
             field |-> 0, line |-> FALSE]
  /\ ram = [b \in 0 .. RamBlocks - 1 |-> 0]
  /\ win = [picture |-> NoPicture, render_mutex |-> "free", event_mutex |-> "free",
            exit |-> FALSE, pipe |-> 0]
  /\ shown = NoPicture
  /\ viPc = "run" /\ uiPc = "select"
  /\ xevents = [todo |-> UserEvents, wire |-> <<>>, queue |-> <<>>]
  /\ frames = [last |-> NoPicture, drawn |-> NoPicture, fired |-> FALSE, late |-> 0]

-----------------------------------------------------------------------------
(* The registers. *)

ProgramActs == viPc = "run" /\ vi.counter \in ViMoments

\* read_vi_regs: VI_CURRENT from the counter, in half lines.
ViCurrent ==
  LET lines == vi.regs["V_SYNC"] \div 2
      now   == 2 * (((ViStart - vi.counter) * lines) \div ViStart)
  IN IF vi.regs["V_SYNC"] < 2 THEN 0
     ELSE IF vi.regs["V_SYNC"] % 2 = 0 THEN now + vi.field ELSE now

\* write_vi_regs, but for VI_CURRENT.
write_vi_regs(reg, value) ==
  /\ ProgramActs
  /\ vi' = [vi EXCEPT !.regs[reg] = value,
                      !.intr = IF reg = "INTR" THEN IntrCounter(value) ELSE @]
  /\ frames' = [frames EXCEPT !.fired = FALSE]
  /\ UNCHANGED <<ram, win, shown, viPc, uiPc, xevents>>

\* A write of VI_CURRENT acknowledges the interrupt.
ViAcknowledge ==
  /\ viPc = "run"
  /\ vi.line
  /\ vi' = [vi EXCEPT !.line = FALSE]
  /\ frames' = [frames EXCEPT !.fired = FALSE]
  /\ UNCHANGED <<ram, win, shown, viPc, uiPc, xevents>>

Paint(block, colour) ==
  /\ ProgramActs
  /\ ram' = [ram EXCEPT ![block] = colour]
  /\ UNCHANGED <<vi, win, shown, viPc, uiPc, xevents, frames>>

-----------------------------------------------------------------------------
(* vi_cycle: the counter, the interrupt, and at the end of the blanking    *)
(* interval a frame for the window.                                        *)

vi_cycle ==
  LET counter == vi.counter - 1
  IN /\ viPc = "run"
     /\ vi' = [vi EXCEPT !.counter = IF counter = 0 THEN ViStart ELSE counter,
                         !.line = @ \/ counter = vi.intr,
                         !.field = IF counter = BlankingDone THEN 1 - @ ELSE @]
     /\ viPc' = IF counter = BlankingDone THEN "event" ELSE "run"
     /\ frames' = [frames EXCEPT !.fired = counter = vi.intr]
     /\ UNCHANGED <<ram, win, shown, uiPc, xevents>>

\* The short critical section under event_mutex; with exit_requested the
\* device ends (device_exit; the model stops the VI).
PollExit ==
  /\ viPc = "event" /\ win.event_mutex = "free"
  /\ viPc' = IF win.exit THEN "ended" ELSE "lock"
  /\ UNCHANGED <<vi, ram, win, shown, uiPc, xevents, frames>>

LockFrame ==
  /\ viPc = "lock" /\ win.render_mutex = "free"
  /\ win' = [win EXCEPT !.render_mutex = "vi"]
  /\ viPc' = "measure"
  /\ UNCHANGED <<vi, ram, shown, uiPc, xevents, frames>>

\* The size of the frame; no frame without pixels.
Measure ==
  LET r    == vi.regs
      vres == (((r["V_START"][2] - r["V_START"][1]) \div 2) * r["Y_SCALE"]) \div 1024
      hres == ((r["H_START"][2] - r["H_START"][1]) * r["X_SCALE"]) \div 1024
  IN /\ viPc = "measure"
     /\ win' = [win EXCEPT !.picture = Picture(hres, vres, r["WIDTH"] - hres,
                                               IF hres <= 0 \/ vres <= 0 THEN 0 ELSE r["STATUS"],
                                               @.blocks)]
     /\ viPc' = "copy"
     /\ UNCHANGED <<vi, ram, shown, uiPc, xevents, frames>>

\* memcpy from the origin, up to the end of RDRAM or of the buffer.
CopySize == Min({RamBlocks - vi.regs["ORIGIN"], FrameBlocks})

\* The history takes the frame as the registers and RDRAM describe it now.
CopyFrame ==
  LET r == vi.regs
      blocks == [b \in DOMAIN Black |-> IF b < CopySize THEN ram[r["ORIGIN"] + b]
                                        ELSE win.picture.blocks[b]]
  IN /\ viPc = "copy"
     /\ win' = [win EXCEPT !.picture.blocks = blocks]
     /\ frames' = [frames EXCEPT !.last = [win.picture EXCEPT !.blocks = blocks]]
     /\ viPc' = "unlock"
     /\ UNCHANGED <<vi, ram, shown, uiPc, xevents>>

\* A mutant of UnlockFrame: the window's thread is not told of the frame.
UnlockFrameOnly ==
  /\ viPc = "unlock"
  /\ win' = [win EXCEPT !.render_mutex = "free"]
  /\ viPc' = "run"
  /\ UNCHANGED <<vi, ram, shown, uiPc, xevents, frames>>

UnlockFrame ==
  /\ viPc = "unlock"
  /\ win' = [win EXCEPT !.render_mutex = "free"]
  /\ viPc' = "push"
  /\ UNCHANGED <<vi, ram, shown, uiPc, xevents, frames>>

\* cen64_gl_window_push_frame: a write to a full pipe waits.
PushFrame ==
  /\ viPc = "push" /\ win.pipe < PipeTokens
  /\ win' = [win EXCEPT !.pipe = @ + 1]
  /\ viPc' = "run"
  /\ UNCHANGED <<vi, ram, shown, uiPc, xevents, frames>>

-----------------------------------------------------------------------------
(* The thread of the user interface. *)

UserActs ==
  /\ xevents.todo # <<>>
  /\ xevents' = [xevents EXCEPT !.todo = Tail(@), !.wire = Append(@, Head(xevents.todo))]
  /\ UNCHANGED <<vi, ram, win, shown, viPc, uiPc, frames>>

\* XPending: what Xlib has queued, and what is on the wire.
XPending == xevents.wire # <<>> \/ xevents.queue # <<>>

Waiting == Range(xevents.wire) \cup Range(xevents.queue)

ui_select ==
  /\ uiPc = "select"
  /\ win.pipe > 0 \/ xevents.wire # <<>>
  /\ uiPc' = CASE XPending /\ win.pipe > 0  -> "pump_read"
               [] XPending /\ win.pipe = 0  -> "pump"
               [] ~XPending /\ win.pipe > 0 -> "read"
               [] OTHER                     -> "select"
  /\ UNCHANGED <<vi, ram, win, shown, viPc, xevents, frames>>

\* cen64_gl_window_pump_events: everything pending, under event_mutex.
pump_events ==
  /\ uiPc \in {"pump", "pump_read"} /\ win.event_mutex = "free"
  /\ LET exit == "close" \in Waiting
     IN /\ win' = [win EXCEPT !.exit = @ \/ exit]
        /\ xevents' = [xevents EXCEPT !.wire = <<>>, !.queue = <<>>]
        /\ uiPc' = IF exit THEN "left" ELSE IF uiPc = "pump_read" THEN "read" ELSE "select"
  /\ UNCHANGED <<vi, ram, shown, viPc, frames>>

ReadToken ==
  /\ uiPc = "read" /\ win.pipe > 0
  /\ win' = [win EXCEPT !.pipe = @ - 1]
  /\ uiPc' = "lock"
  /\ UNCHANGED <<vi, ram, shown, viPc, xevents, frames>>

LockWindow ==
  /\ uiPc = "lock" /\ win.render_mutex = "free"
  /\ win' = [win EXCEPT !.render_mutex = "ui"]
  /\ uiPc' = "render"
  /\ UNCHANGED <<vi, ram, shown, viPc, xevents, frames>>

\* gl_window_render_frame: a frame of type 0 only clears the back buffer;
\* any other is drawn and the buffers are swapped, which may read what is on
\* the wire into Xlib's queue.
render_frame ==
  /\ uiPc = "render"
  /\ shown' = IF win.picture.type = 0 THEN shown ELSE win.picture
  /\ frames' = [frames EXCEPT !.drawn = IF frames.last.type = 0 THEN @ ELSE frames.last,
                              !.late = IF "close" \in Waiting THEN @ + 1 ELSE 0]
  /\ xevents' \in {xevents} \cup
       (IF win.picture.type = 0 THEN {}
        ELSE {[xevents EXCEPT !.queue = @ \o xevents.wire, !.wire = <<>>]})
  /\ uiPc' = "unlock"
  /\ UNCHANGED <<vi, ram, win, viPc>>

UnlockWindow ==
  /\ uiPc = "unlock"
  /\ win' = [win EXCEPT !.render_mutex = "free"]
  /\ uiPc' = "select"
  /\ UNCHANGED <<vi, ram, shown, viPc, xevents, frames>>

ViNext ==
  \/ \E reg \in ViRegisters : \E value \in ViValues[reg] : write_vi_regs(reg, value)
  \/ ViAcknowledge
  \/ \E block \in 0 .. RamBlocks - 1, colour \in ViColours : Paint(block, colour)
  \/ vi_cycle \/ PollExit \/ LockFrame \/ Measure \/ CopyFrame \/ UnlockFrame \/ PushFrame
  \/ UserActs \/ ui_select \/ pump_events \/ ReadToken \/ LockWindow \/ render_frame
  \/ UnlockWindow

-----------------------------------------------------------------------------
(* Properties. *)

\* What is on the screen is a frame one cycle of vi_cycle composed: its size,
\* its type and all of its blocks belong to the same frame, however the two
\* threads interleave (render_mutex).
FrameWhole == shown = frames.drawn

\* Once the user interface has nothing left to do, the screen shows the last
\* frame that was composed, however late its thread was (the pipe).
LastShown ==
  (viPc = "run" /\ uiPc = "select" /\ win.pipe = 0 /\ frames.last.type # 0) =>
    shown = frames.last

\* A close event is handled after at most one more frame, though select does
\* not see what Xlib already took off the wire (pump_events on every turn).
CloseSeen == frames.late <= 1

\* What the comment in vi_cycle says: the interrupt is thrown when VI_INTR_REG
\* is VI_CURRENT_REG (in lines: a line is two half lines),
\* in a mode with as many half lines as the code assumes of a period.
LineAtCurrent ==
  (frames.fired /\ vi.regs["V_SYNC"] = ViHalfLines) =>
    ViCurrent \div 2 = vi.regs["INTR"] \div 2

ViSpec == ViInit /\ [][ViNext]_viVars

\* The picture as a whole: frames reach the screen whole, the last one always
\* does, and a request to close is seen.
FramesRight == FrameWhole /\ LastShown /\ CloseSeen
=============================================================================
