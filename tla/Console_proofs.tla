--------------------------- MODULE Console_proofs ---------------------------
(***************************************************************************)
(* FramesRight, for every mode, program, size of the pipe and sequence of  *)
(* events: the invariant says who holds render_mutex, that the frame       *)
(* buffer is the last frame but for the time between measuring and         *)
(* copying, that a frame which is not on the screen is on its way there,   *)
(* and that a close which a frame has overtaken is pumped next.            *)
(*                                                                         *)
(* RtcExact, for every calendar, host time and sequence of commands: the   *)
(* offset that the clock keeps is the difference to the host's time when   *)
(* it was set, and a stopped clock keeps the stamp it was read at.         *)
(*                                                                         *)
(* CartsRight, for every cartridge and block: the invariant relates the    *)
(* code's registers and pointers to the documented registers, the pak to   *)
(* what was written to it, and the checksum's loop to a remainder.         *)
(*                                                                         *)
(* The audio interface, for every set of buffers, frequencies and integer  *)
(* widths: the invariant of its ring, that its safety part implements      *)
(* AudioFifo, OpenAL's pool of buffers, and the countdown.                 *)
(***************************************************************************)
EXTENDS VideoOut, JoyBus, Pak, AiController, Induction, SequenceTheorems, TLAPS

Events == [todo : Seq(STRING), wire : Seq(STRING), queue : Seq(STRING)]

\* The records of the window, the events and the history have their fields.
Shaped ==
  /\ win = [picture |-> win.picture, render_mutex |-> win.render_mutex,
            event_mutex |-> win.event_mutex, exit |-> win.exit, pipe |-> win.pipe]
  /\ win.pipe \in Nat
  /\ frames = [last |-> frames.last, drawn |-> frames.drawn, fired |-> frames.fired,
               late |-> frames.late]
  /\ frames.late \in {0, 1}
  /\ xevents \in Events

\* The thread that composes or draws holds render_mutex, and nobody else.
Locked ==
  /\ viPc \in {"measure", "copy", "unlock"} <=> win.render_mutex = "vi"
  /\ uiPc \in {"render", "unlock"} <=> win.render_mutex = "ui"

\* What the window's thread finds is one frame.
OneFrame == viPc # "copy" => win.picture = frames.last

\* A frame that is not shown will be announced, is announced, or is fetched.
OnItsWay ==
  frames.last.type # 0 /\ shown # frames.last =>
    viPc \in {"unlock", "push"} \/ win.pipe > 0 \/ uiPc \in {"lock", "render"}

\* A close that a frame has overtaken is pumped before the next frame.
ClosesNext ==
  frames.late = 1 =>
    \/ uiPc = "left"
    \/ uiPc \in {"unlock", "select", "pump", "pump_read"} /\ "close" \in Waiting

FramesInv == Shaped /\ Locked /\ OneFrame /\ FrameWhole /\ OnItsWay /\ ClosesNext

-----------------------------------------------------------------------------

Win(picture, render, event, exit, pipe) ==
  [picture |-> picture, render_mutex |-> render, event_mutex |-> event, exit |-> exit,
   pipe |-> pipe]

Frames(last, drawn, fired, late) ==
  [last |-> last, drawn |-> drawn, fired |-> fired, late |-> late]

\* What the assignments of the two threads make of the window's record.
LEMMA WinFields ==
  ASSUME Shaped, NEW x
  PROVE  /\ [win EXCEPT !.picture = x]
              = Win(x, win.render_mutex, win.event_mutex, win.exit, win.pipe)
         /\ [win EXCEPT !.picture.blocks = x]
              = Win([win.picture EXCEPT !.blocks = x], win.render_mutex, win.event_mutex,
                    win.exit, win.pipe)
         /\ [win EXCEPT !.render_mutex = x]
              = Win(win.picture, x, win.event_mutex, win.exit, win.pipe)
         /\ [win EXCEPT !.exit = x]
              = Win(win.picture, win.render_mutex, win.event_mutex, x, win.pipe)
         /\ [win EXCEPT !.pipe = x]
              = Win(win.picture, win.render_mutex, win.event_mutex, win.exit, x)
<1>1. win = Win(win.picture, win.render_mutex, win.event_mutex, win.exit, win.pipe)
  BY DEF Shaped, Win
<1>2. PICK p, r, e, q, n : /\ win = Win(p, r, e, q, n) /\ p = win.picture /\ r = win.render_mutex
                           /\ e = win.event_mutex /\ q = win.exit /\ n = win.pipe
  BY <1>1
<1>3. [win EXCEPT !.picture = x] = Win(x, r, e, q, n)
  BY <1>2 DEF Win
<1>4. [win EXCEPT !.picture.blocks = x] = [win EXCEPT !.picture = [p EXCEPT !.blocks = x]]
  BY <1>2
<1>5. [win EXCEPT !.picture = [p EXCEPT !.blocks = x]] = Win([p EXCEPT !.blocks = x], r, e, q, n)
  BY <1>2 DEF Win
<1>6. /\ [win EXCEPT !.render_mutex = x] = Win(p, x, e, q, n)
      /\ [win EXCEPT !.exit = x] = Win(p, r, e, x, n)
      /\ [win EXCEPT !.pipe = x] = Win(p, r, e, q, x)
  BY <1>2 DEF Win
<1> QED BY <1>2, <1>3, <1>4, <1>5, <1>6

\* What a step makes of the history.
LEMMA FramesFields ==
  ASSUME Shaped, NEW x, NEW y
  PROVE  /\ [frames EXCEPT !.fired = x] = Frames(frames.last, frames.drawn, x, frames.late)
         /\ [frames EXCEPT !.last = x] = Frames(x, frames.drawn, frames.fired, frames.late)
         /\ [frames EXCEPT !.drawn = x, !.late = y] = Frames(frames.last, x, frames.fired, y)
<1>1. PICK l, d, f, n : /\ frames = Frames(l, d, f, n) /\ l = frames.last /\ d = frames.drawn
                        /\ f = frames.fired /\ n = frames.late
  BY DEF Shaped, Frames
<1>2. /\ [frames EXCEPT !.fired = x] = Frames(l, d, x, n)
      /\ [frames EXCEPT !.last = x] = Frames(x, d, f, n)
  BY <1>1 DEF Frames
<1>3. [frames EXCEPT !.drawn = x, !.late = y] = Frames(l, x, f, y)
  <2> DEFINE g == [frames EXCEPT !.drawn = x]
  <2>1. g = Frames(l, x, f, n)
    BY <1>1 DEF Frames
  <2>2. [frames EXCEPT !.drawn = x, !.late = y] = [g EXCEPT !.late = y]
    BY Zenon
  <2> HIDE DEF g
  <2>3. [g EXCEPT !.late = y] = Frames(l, x, f, y)
    BY <2>1 DEF Frames
  <2> QED BY <2>2, <2>3
<1> QED BY <1>1, <1>2, <1>3

\* A step that leaves the window, the events and the frames alone.
LEMMA Alone ==
  ASSUME FramesInv, UNCHANGED <<win, shown, uiPc, xevents>>,
         frames' = frames \/ \E x : frames' = [frames EXCEPT !.fired = x]
  PROVE  /\ frames'.last = frames.last /\ frames'.drawn = frames.drawn
         /\ frames'.late = frames.late
         /\ Shaped' /\ FrameWhole' /\ ClosesNext'
<1> USE DEF FramesInv
<1>1. /\ frames'.last = frames.last /\ frames'.drawn = frames.drawn
      /\ frames'.late = frames.late
      /\ frames' = [last |-> frames'.last, drawn |-> frames'.drawn, fired |-> frames'.fired,
                    late |-> frames'.late]
  <2>1. CASE frames' = frames
    BY <2>1 DEF Shaped
  <2>2. CASE \E x : frames' = [frames EXCEPT !.fired = x]
    <3>1. PICK x : frames' = [frames EXCEPT !.fired = x]
      BY <2>2
    <3>2. frames' = Frames(frames.last, frames.drawn, x, frames.late)
      BY <3>1, FramesFields
    <3> QED BY <3>2 DEF Frames
  <2> QED BY <2>1, <2>2
<1>2. Waiting' = Waiting
  BY DEF Waiting
<1>3. Shaped'
  BY <1>1 DEF Shaped
<1> QED BY <1>1, <1>2, <1>3 DEF FrameWhole, ClosesNext

\* The program of the console and the counter of the VI.
LEMMA ConsoleKeeps ==
  ASSUME FramesInv,
         \/ \E reg \in ViRegisters : \E value \in ViValues[reg] : write_vi_regs(reg, value)
         \/ ViAcknowledge
         \/ \E block \in 0 .. RamBlocks - 1, colour \in ViColours : Paint(block, colour)
         \/ vi_cycle \/ PollExit
  PROVE  FramesInv'
<1>1. UNCHANGED <<win, shown, uiPc, xevents>>
  BY DEF write_vi_regs, ViAcknowledge, Paint, vi_cycle, PollExit
<1>2. frames' = frames \/ \E x : frames' = [frames EXCEPT !.fired = x]
  BY DEF write_vi_regs, ViAcknowledge, Paint, vi_cycle, PollExit
<1>3. /\ viPc \notin {"measure", "copy", "unlock", "push"}
      /\ viPc' \notin {"measure", "copy", "unlock", "push"}
  BY DEF write_vi_regs, ViAcknowledge, Paint, vi_cycle, PollExit, ProgramActs
<1>4. /\ frames'.last = frames.last
      /\ Shaped' /\ FrameWhole' /\ ClosesNext'
  BY <1>1, <1>2, Alone
<1>5. Locked' /\ OneFrame' /\ OnItsWay'
  BY <1>1, <1>3, <1>4 DEF FramesInv, Locked, OneFrame, OnItsWay
<1> QED BY <1>4, <1>5 DEF FramesInv

\* The frame that the VI composes.
LEMMA ComposeKeeps ==
  ASSUME FramesInv, LockFrame \/ Measure \/ CopyFrame \/ UnlockFrame \/ PushFrame
  PROVE  FramesInv'
<1>a. Shaped /\ Locked /\ OneFrame /\ FrameWhole /\ OnItsWay /\ ClosesNext
  BY DEF FramesInv
<1>b. UNCHANGED <<shown, uiPc, xevents>>
  BY DEF LockFrame, Measure, CopyFrame, UnlockFrame, PushFrame
<1>c. Waiting' = Waiting
  BY <1>b DEF Waiting
<1>1. CASE LockFrame
  <2>1. /\ win' = Win(win.picture, "vi", win.event_mutex, win.exit, win.pipe)
        /\ win.render_mutex = "free" /\ viPc = "lock" /\ viPc' = "measure" /\ frames' = frames
    BY <1>1, <1>a, WinFields DEF LockFrame
  <2>2. Shaped'
    BY <1>a, <1>b, <2>1 DEF Shaped, Win
  <2>3. Locked' /\ OneFrame' /\ OnItsWay'
    BY <1>a, <1>b, <2>1 DEF Win, Locked, OneFrame, OnItsWay
  <2> QED BY <1>a, <1>b, <1>c, <2>1, <2>2, <2>3 DEF FramesInv, FrameWhole, ClosesNext
<1>2. CASE Measure
  <2>1. PICK p : /\ win' = Win(p, win.render_mutex, win.event_mutex, win.exit, win.pipe)
                 /\ viPc = "measure" /\ viPc' = "copy" /\ frames' = frames
    <3> DEFINE r == vi.regs
               vres == (((r["V_START"][2] - r["V_START"][1]) \div 2) * r["Y_SCALE"]) \div 1024
               hres == ((r["H_START"][2] - r["H_START"][1]) * r["X_SCALE"]) \div 1024
               p == Picture(hres, vres, r["WIDTH"] - hres,
                            IF hres <= 0 \/ vres <= 0 THEN 0 ELSE r["STATUS"],
                            win.picture.blocks)
    <3>1. win' = [win EXCEPT !.picture = p]
      BY <1>2, Zenon DEF Measure
    <3>2. viPc = "measure" /\ viPc' = "copy" /\ frames' = frames
      BY <1>2 DEF Measure
    <3> HIDE DEF p
    <3> QED BY <1>a, <3>1, <3>2, WinFields
  <2>2. Shaped'
    BY <1>a, <1>b, <2>1 DEF Shaped, Win
  <2>3. Locked' /\ OneFrame' /\ OnItsWay'
    BY <1>a, <1>b, <2>1 DEF Win, Locked, OneFrame, OnItsWay
  <2> QED BY <1>a, <1>b, <1>c, <2>1, <2>2, <2>3 DEF FramesInv, FrameWhole, ClosesNext
<1>3. CASE CopyFrame
  <2>1. PICK p : /\ win' = Win(p, win.render_mutex, win.event_mutex, win.exit, win.pipe)
                 /\ frames' = Frames(p, frames.drawn, frames.fired, frames.late)
                 /\ viPc = "copy" /\ viPc' = "unlock"
    <3>1. PICK b : /\ win' = [win EXCEPT !.picture.blocks = b]
                   /\ frames' = [frames EXCEPT !.last = [win.picture EXCEPT !.blocks = b]]
                   /\ viPc = "copy" /\ viPc' = "unlock"
      BY <1>3 DEF CopyFrame
    <3> DEFINE p == [win.picture EXCEPT !.blocks = b]
    <3>2. win' = Win(p, win.render_mutex, win.event_mutex, win.exit, win.pipe)
      BY <1>a, <3>1, WinFields
    <3>3. frames' = Frames(p, frames.drawn, frames.fired, frames.late)
      BY <1>a, <3>1, FramesFields
    <3> HIDE DEF p
    <3> QED BY <3>1, <3>2, <3>3
  <2>2. Shaped'
    BY <1>a, <1>b, <2>1 DEF Shaped, Win, Frames
  <2>3. Locked' /\ OneFrame' /\ OnItsWay'
    BY <1>a, <1>b, <2>1 DEF Win, Frames, Locked, OneFrame, OnItsWay
  <2>4. FrameWhole' /\ ClosesNext'
    BY <1>a, <1>b, <1>c, <2>1 DEF Frames, FrameWhole, ClosesNext
  <2> QED BY <2>2, <2>3, <2>4 DEF FramesInv
<1>4. CASE UnlockFrame
  <2>1. /\ win' = Win(win.picture, "free", win.event_mutex, win.exit, win.pipe)
        /\ viPc = "unlock" /\ viPc' = "push" /\ frames' = frames
    BY <1>4, <1>a, WinFields DEF UnlockFrame
  <2>2. Shaped'
    BY <1>a, <1>b, <2>1 DEF Shaped, Win
  <2>3. Locked' /\ OneFrame' /\ OnItsWay'
    BY <1>a, <1>b, <2>1 DEF Win, Locked, OneFrame, OnItsWay
  <2> QED BY <1>a, <1>b, <1>c, <2>1, <2>2, <2>3 DEF FramesInv, FrameWhole, ClosesNext
<1>5. CASE PushFrame
  <2>1. /\ win' = Win(win.picture, win.render_mutex, win.event_mutex, win.exit, win.pipe + 1)
        /\ viPc = "push" /\ viPc' = "run" /\ frames' = frames
    BY <1>5, <1>a, WinFields DEF PushFrame
  <2>2. win.pipe + 1 \in Nat /\ win.pipe + 1 > 0
    BY <1>a DEF Shaped
  <2>3. Shaped'
    BY <1>a, <1>b, <2>1, <2>2 DEF Shaped, Win
  <2>4. Locked' /\ OneFrame' /\ OnItsWay'
    BY <1>a, <1>b, <2>1, <2>2 DEF Win, Locked, OneFrame, OnItsWay
  <2> QED BY <1>a, <1>b, <1>c, <2>1, <2>3, <2>4 DEF FramesInv, FrameWhole, ClosesNext
<1> QED BY <1>1, <1>2, <1>3, <1>4, <1>5

\* The events that wait.
LEMMA EventsWait ==
  ASSUME Shaped
  PROVE  /\ UserActs => Waiting \subseteq Waiting' /\ xevents' \in Events
         /\ xevents' = [xevents EXCEPT !.queue = xevents.queue \o xevents.wire, !.wire = <<>>]
              => Waiting' = Waiting /\ xevents' \in Events
<1> DEFINE w == xevents.wire
           q == xevents.queue
           t == xevents.todo
<1>1. w \in Seq(STRING) /\ q \in Seq(STRING) /\ t \in Seq(STRING)
      /\ xevents = [todo |-> t, wire |-> w, queue |-> q]
  BY DEF Shaped, Events
<1> HIDE DEF w, q, t
<1>2. ASSUME UserActs
      PROVE  /\ Waiting \subseteq Waiting'
             /\ xevents' \in Events
  <2>1. /\ t # <<>> 
        /\ xevents' = [xevents EXCEPT !.todo = Tail(xevents.todo),
                                      !.wire = Append(xevents.wire, Head(xevents.todo))]
    BY <1>2 DEF UserActs, t
  <2>2. /\ xevents'.wire = Append(w, Head(t)) /\ xevents'.queue = q
        /\ xevents' = [todo |-> Tail(t), wire |-> Append(w, Head(t)), queue |-> q]
    BY <1>1, <2>1 DEF t, w, q
  <2>3. Head(t) \in STRING /\ Tail(t) \in Seq(STRING)
    BY <1>1, <2>1
  <2>4. Append(w, Head(t)) \in Seq(STRING) /\ Range(w) \subseteq Range(Append(w, Head(t)))
    BY <1>1, <2>3, SMTT(30) DEF Range
  <2>5. Range(xevents.wire) \subseteq Range(xevents'.wire)
    BY <2>2, <2>4 DEF w
  <2>6. Waiting \subseteq Waiting'
    BY <2>2, <2>5 DEF Waiting, q
  <2>7. xevents' \in Events
    BY <1>1, <2>2, <2>3, <2>4 DEF Events
  <2> QED BY <2>6, <2>7
<1>3. ASSUME xevents' = [xevents EXCEPT !.queue = xevents.queue \o xevents.wire, !.wire = <<>>]
      PROVE  /\ Waiting' = Waiting
             /\ xevents' \in Events
  <2>0. xevents' = [xevents EXCEPT !.queue = q \o w, !.wire = <<>>]
    BY <1>3 DEF q, w
  <2>1. xevents' = [todo |-> t, wire |-> <<>>, queue |-> q \o w]
    <3> DEFINE c == q \o w
               g == [xevents EXCEPT !.queue = c]
    <3>1. xevents' = [g EXCEPT !.wire = <<>>]
      BY <2>0, Zenon
    <3> HIDE DEF c
    <3>2. g = [todo |-> t, wire |-> w, queue |-> c]
      BY <1>1
    <3> HIDE DEF g
    <3>3. [g EXCEPT !.wire = <<>>] = [todo |-> t, wire |-> <<>>, queue |-> c]
      BY <3>2
    <3> QED BY <3>1, <3>3 DEF c
  <2>2. q \o w \in Seq(STRING) /\ <<>> \in Seq(STRING)
    BY <1>1
  <2>3. Range(q \o w) = Range(w) \cup Range(q)
    <3>1. /\ Len(q) \in Nat /\ Len(w) \in Nat /\ DOMAIN q = 1 .. Len(q) /\ DOMAIN w = 1 .. Len(w)
          /\ DOMAIN (q \o w) = 1 .. Len(q) + Len(w)
          /\ \A i \in 1 .. Len(q) + Len(w) :
               (q \o w)[i] = IF i <= Len(q) THEN q[i] ELSE w[i - Len(q)]
      BY <1>1
    <3>2. ASSUME NEW i \in DOMAIN w PROVE w[i] \in Range(q \o w)
      <4>1. Len(q) + i \in DOMAIN (q \o w) /\ (Len(q) + i) - Len(q) = i /\ ~(Len(q) + i <= Len(q))
        BY <3>1
      <4>2. (q \o w)[Len(q) + i] = w[i]
        BY <3>1, <4>1
      <4> QED BY <4>1, <4>2 DEF Range
    <3>3. ASSUME NEW i \in DOMAIN q PROVE q[i] \in Range(q \o w)
      <4>1. i \in DOMAIN (q \o w) /\ (q \o w)[i] = q[i]
        BY <3>1
      <4> QED BY <4>1 DEF Range
    <3>4. ASSUME NEW i \in DOMAIN (q \o w) PROVE (q \o w)[i] \in Range(w) \cup Range(q)
      <4>1. CASE i <= Len(q)
        BY <3>1, <4>1 DEF Range
      <4>2. CASE ~(i <= Len(q))
        <5>1. i - Len(q) \in DOMAIN w
          BY <3>1, <4>2
        <5> QED BY <3>1, <4>2, <5>1 DEF Range
      <4> QED BY <4>1, <4>2
    <3> QED BY <3>2, <3>3, <3>4 DEF Range
  <2>4. Range(<<>>) = {}
    BY DEF Range
  <2>5. xevents'.wire = <<>> /\ xevents'.queue = q \o w
    BY <2>1
  <2>6. Waiting' = Range(xevents'.wire) \cup Range(xevents'.queue)
    BY DEF Waiting
  <2>7. Waiting = Range(w) \cup Range(q)
    BY DEF Waiting, w, q
  <2>8. Waiting' = Waiting
    BY <2>3, <2>4, <2>5, <2>6, <2>7
  <2>9. xevents' \in Events
    BY <1>1, <2>1, <2>2 DEF Events
  <2> QED BY <2>8, <2>9
<1> QED BY <1>2, <1>3 DEF w, q

\* The user, and the thread of the window.
LEMMA WindowKeeps ==
  ASSUME FramesInv,
         \/ UserActs \/ ui_select \/ pump_events \/ ReadToken \/ LockWindow \/ render_frame
         \/ UnlockWindow
  PROVE  FramesInv'
<1>a. Shaped /\ Locked /\ OneFrame /\ FrameWhole /\ OnItsWay /\ ClosesNext
  BY DEF FramesInv
<1>b. UNCHANGED viPc
  BY DEF UserActs, ui_select, pump_events, ReadToken, LockWindow, render_frame, UnlockWindow
<1>c. xevents' = xevents => Waiting' = Waiting
  BY DEF Waiting
<1>1. CASE UserActs
  <2>1. UNCHANGED <<win, shown, uiPc, frames>>
    BY <1>1 DEF UserActs
  <2>2. Waiting \subseteq Waiting' /\ xevents' \in Events
    BY <1>1, <1>a, EventsWait
  <2>3. Shaped'
    BY <1>a, <2>1, <2>2 DEF Shaped
  <2> QED BY <1>a, <1>b, <2>1, <2>2, <2>3
          DEF FramesInv, Locked, OneFrame, FrameWhole, OnItsWay, ClosesNext
<1>2. CASE ui_select
  <2>1. /\ UNCHANGED <<win, shown, xevents, frames>> /\ uiPc = "select"
        /\ uiPc' = CASE XPending /\ win.pipe > 0  -> "pump_read"
                     [] XPending /\ win.pipe = 0  -> "pump"
                     [] ~XPending /\ win.pipe > 0 -> "read"
                     [] OTHER                     -> "select"
    BY <1>2 DEF ui_select
  <2>2. win.pipe > 0 \/ win.pipe = 0
    BY <1>a DEF Shaped
  <2>3. /\ uiPc' \in {"pump_read", "pump", "read", "select"}
        /\ XPending => uiPc' \in {"pump_read", "pump"}
    BY <2>1, <2>2
  <2>4. "close" \in Waiting => XPending
    BY DEF Waiting, XPending, Range
  <2>5. Shaped'
    BY <1>a, <2>1 DEF Shaped
  <2> QED BY <1>a, <1>b, <1>c, <2>1, <2>3, <2>4, <2>5
          DEF FramesInv, Locked, OneFrame, FrameWhole, OnItsWay, ClosesNext
<1>3. CASE pump_events
  <2>1. PICK x : /\ win' = Win(win.picture, win.render_mutex, win.event_mutex, x, win.pipe)
                 /\ xevents' = [xevents EXCEPT !.wire = <<>>, !.queue = <<>>]
                 /\ uiPc \in {"pump", "pump_read"} /\ uiPc' \in {"left", "read", "select"}
                 /\ "close" \in Waiting => uiPc' = "left"
                 /\ UNCHANGED <<shown, frames>>
    <3>1. PICK x : /\ win' = [win EXCEPT !.exit = x]
                   /\ xevents' = [xevents EXCEPT !.wire = <<>>, !.queue = <<>>]
                   /\ uiPc \in {"pump", "pump_read"} /\ uiPc' \in {"left", "read", "select"}
                   /\ "close" \in Waiting => uiPc' = "left"
                   /\ UNCHANGED <<shown, frames>>
      BY <1>3 DEF pump_events
    <3> QED BY <1>a, <3>1, WinFields
  <2>2. xevents' \in Events
    <3>1. <<>> \in Seq(STRING)
      OBVIOUS
    <3> QED BY <1>a, <2>1, <3>1 DEF Shaped, Events
  <2>3. Shaped'
    BY <1>a, <2>1, <2>2 DEF Shaped, Win
  <2>4. ClosesNext'
    BY <1>a, <2>1 DEF ClosesNext
  <2> QED BY <1>a, <1>b, <2>1, <2>3, <2>4 DEF FramesInv, Win, Locked, OneFrame, FrameWhole, OnItsWay
<1>4. CASE ReadToken
  <2>1. /\ win' = Win(win.picture, win.render_mutex, win.event_mutex, win.exit, win.pipe - 1)
        /\ win.pipe > 0 /\ uiPc = "read" /\ uiPc' = "lock" /\ UNCHANGED <<shown, xevents, frames>>
    BY <1>4, <1>a, WinFields DEF ReadToken
  <2>2. win.pipe - 1 \in Nat
    BY <1>a, <2>1 DEF Shaped
  <2>3. Shaped'
    BY <1>a, <2>1, <2>2 DEF Shaped, Win
  <2>4. ClosesNext'
    BY <1>a, <2>1 DEF ClosesNext, Shaped
  <2> QED BY <1>a, <1>b, <2>1, <2>3, <2>4 DEF FramesInv, Win, Locked, OneFrame, FrameWhole, OnItsWay
<1>5. CASE LockWindow
  <2>1. /\ win' = Win(win.picture, "ui", win.event_mutex, win.exit, win.pipe)
        /\ win.render_mutex = "free"
        /\ uiPc = "lock" /\ uiPc' = "render" /\ UNCHANGED <<shown, xevents, frames>>
    BY <1>5, <1>a, WinFields DEF LockWindow
  <2>2. Shaped'
    BY <1>a, <2>1 DEF Shaped, Win
  <2>3. ClosesNext'
    BY <1>a, <2>1 DEF ClosesNext, Shaped
  <2> QED BY <1>a, <1>b, <2>1, <2>2, <2>3 DEF FramesInv, Win, Locked, OneFrame, FrameWhole, OnItsWay
<1>6. CASE render_frame
  <2>1. /\ uiPc = "render" /\ uiPc' = "unlock" /\ win' = win
        /\ shown' = IF win.picture.type = 0 THEN shown ELSE win.picture
    BY <1>6 DEF render_frame
  <2>2. win.picture = frames.last
    BY <1>a, <2>1 DEF Locked, OneFrame
  <2>3. frames.late = 0
    BY <1>a, <2>1 DEF ClosesNext, Shaped
  <2>4. PICK d, n : /\ frames' = Frames(frames.last, d, frames.fired, n)
                    /\ d = IF frames.last.type = 0 THEN frames.drawn ELSE frames.last
                    /\ n = IF "close" \in Waiting THEN 1 ELSE 0
    <3>1. frames' = [frames EXCEPT
                       !.drawn = IF frames.last.type = 0 THEN frames.drawn ELSE frames.last,
                       !.late = IF "close" \in Waiting THEN frames.late + 1 ELSE 0]
      BY <1>6 DEF render_frame
    <3> DEFINE d == IF frames.last.type = 0 THEN frames.drawn ELSE frames.last
               n == IF "close" \in Waiting THEN frames.late + 1 ELSE 0
    <3>2. frames' = Frames(frames.last, d, frames.fired, n)
      BY <1>a, <3>1, FramesFields
    <3>3. n = IF "close" \in Waiting THEN 1 ELSE 0
      BY <2>3
    <3> QED BY <3>2, <3>3
  <2>5. Waiting' = Waiting /\ xevents' \in Events
    <3>1. \/ xevents' = xevents
          \/ xevents' = [xevents EXCEPT !.queue = xevents.queue \o xevents.wire, !.wire = <<>>]
      BY <1>6 DEF render_frame
    <3> QED BY <1>a, <1>c, <3>1, EventsWait DEF Shaped
  <2>6. Shaped'
    BY <1>a, <2>1, <2>4, <2>5 DEF Shaped, Frames
  <2>7. ClosesNext'
    BY <2>1, <2>4, <2>5 DEF ClosesNext, Frames
  <2>8. FrameWhole'
    BY <1>a, <2>1, <2>2, <2>4 DEF FrameWhole, Frames
  <2>9. Locked' /\ OneFrame' /\ OnItsWay'
    BY <1>a, <1>b, <2>1, <2>2, <2>4 DEF Frames, Locked, OneFrame, OnItsWay
  <2> QED BY <2>6, <2>7, <2>8, <2>9 DEF FramesInv
<1>7. CASE UnlockWindow
  <2>1. /\ win' = Win(win.picture, "free", win.event_mutex, win.exit, win.pipe)
        /\ uiPc = "unlock" /\ uiPc' = "select" /\ UNCHANGED <<shown, xevents, frames>>
    BY <1>7, <1>a, WinFields DEF UnlockWindow
  <2>2. Shaped'
    BY <1>a, <2>1 DEF Shaped, Win
  <2>3. ClosesNext'
    BY <1>a, <1>c, <2>1 DEF ClosesNext
  <2> QED BY <1>a, <1>b, <2>1, <2>2, <2>3 DEF FramesInv, Win, Locked, OneFrame, FrameWhole, OnItsWay
<1> QED BY <1>1, <1>2, <1>3, <1>4, <1>5, <1>6, <1>7

\* Every frame reaches the screen whole, the last one always does, and a close
\* is seen after one more frame at the most.
THEOREM FramesAlwaysRight == ViSpec => []FramesRight
<1>1. ViInit => FramesInv
  <2> SUFFICES ASSUME ViInit PROVE FramesInv
    OBVIOUS
  <2>1. /\ win = [picture |-> NoPicture, render_mutex |-> "free", event_mutex |-> "free",
                  exit |-> FALSE, pipe |-> 0]
        /\ frames = [last |-> NoPicture, drawn |-> NoPicture, fired |-> FALSE, late |-> 0]
        /\ xevents = [todo |-> UserEvents, wire |-> <<>>, queue |-> <<>>]
        /\ shown = NoPicture /\ viPc = "run" /\ uiPc = "select"
    BY DEF ViInit
  <2>2. xevents \in Events
    <3>1. <<>> \in Seq(STRING) /\ UserEvents \in Seq(STRING)
      BY ViAssumption
    <3> QED BY <2>1, <3>1 DEF Events
  <2>3. Shaped
    BY <2>1, <2>2 DEF Shaped
  <2> QED BY <2>1, <2>3 DEF FramesInv, Locked, OneFrame, FrameWhole, OnItsWay, ClosesNext
<1>2. FramesInv /\ [ViNext]_viVars => FramesInv'
  <2> SUFFICES ASSUME FramesInv, [ViNext]_viVars PROVE FramesInv'
    OBVIOUS
  <2>1. CASE UNCHANGED viVars
    <3>1. UNCHANGED <<win, shown, uiPc, xevents, viPc, frames>>
      BY <2>1 DEF viVars
    <3>2. Shaped' /\ FrameWhole' /\ ClosesNext'
      BY <3>1, Alone
    <3> QED BY <3>1, <3>2 DEF FramesInv, Locked, OneFrame, OnItsWay
  <2> QED BY <2>1, ConsoleKeeps, ComposeKeeps, WindowKeeps DEF ViNext
<1>3. FramesInv => FramesRight
  <2> SUFFICES ASSUME FramesInv PROVE FramesRight
    OBVIOUS
  <2>1. LastShown
    BY DEF FramesInv, OnItsWay, LastShown
  <2>2. CloseSeen
    BY DEF FramesInv, Shaped, CloseSeen
  <2> QED BY <2>1, <2>2 DEF FramesInv, FramesRight
<1> QED BY <1>1, <1>2, <1>3, PTL DEF ViSpec

-----------------------------------------------------------------------------
(***************************************************************************)
(* The clock: RtcExact. RtcInv says that a running clock counts from the   *)
(* time it was set to, that a stopped one keeps the stamp that was read or *)
(* set, and that every year has four digits.                               *)
(***************************************************************************)

\* No clock reaches the year 11900, whose century has no two digits.
RtcInRange ==
  /\ RtcStart + RtcSpan < 10000 * RtcYear
  /\ \A t \in RtcSettings : t + RtcSpan < 10000 * RtcYear

Stamps == [sec : 0 .. 59, year : 0 .. 9999]

RtcInv ==
  /\ rtc \in [control : SUBSET {Stopped, TimeProtected, OtherProtected}, now : Stamps,
              offset_seconds : Int]
  /\ host \in RtcStart .. RtcStart + RtcSpan
  /\ rtcref \in [base : Nat, since : RtcStart .. host, frozen : Stamps \cup {NoStamp}]
  /\ rtcref.base + RtcStart + RtcSpan - rtcref.since < 10000 * RtcYear
  /\ rtc.offset_seconds = rtcref.base - rtcref.since
  /\ rtcref.frozen # NoStamp => rtcref.frozen = rtc.now /\ Stopped \in rtc.control
  /\ rtcgot.right # NoStamp => rtcgot.right \in Stamps /\ rtcgot.answer = Sent(rtcgot.right)

\* Both digits come back.
LEMMA BcdRight ==
  ASSUME NEW b \in Nat PROVE bcd2byte(byte2bcd(b)) = b % 100
<1> DEFINE c == b % 100
<1>1. c \in 0 .. 99
  OBVIOUS
<1>2. ((c \div 10) * 16 + (c % 10)) \div 16 = c \div 10 /\ ((c \div 10) * 16 + (c % 10)) % 16 = c % 10
  <2> HIDE DEF c
  <2> QED BY <1>1
<1>3. (c \div 10) * 10 + (c % 10) = c
  <2> HIDE DEF c
  <2> QED BY <1>1
<1> QED BY <1>2, <1>3 DEF bcd2byte, byte2bcd

LEMMA StampSent ==
  ASSUME NEW x \in Stamps
  PROVE  /\ bcd2byte(Sent(x).sec) = x.sec
         /\ bcd2byte(Sent(x).year) + 100 * bcd2byte(Sent(x).century) = x.year
         /\ Received(Sent(x)) = x
<1> DEFINE S == 0 .. 59  Y == 0 .. 9999
<1>1. Stamps = [sec : S, year : Y]
  BY DEF Stamps
<1> HIDE DEF S, Y
<1>2. PICK p, y : p \in S /\ y \in Y /\ x = [sec |-> p, year |-> y]
  <2>1. x.sec \in S /\ x.year \in Y /\ x = [sec |-> x.sec, year |-> x.year]
    BY <1>1
  <2> QED BY <2>1
<1>3. p \in 0 .. 59 /\ y \in 0 .. 9999
  BY <1>2 DEF S, Y
<1>4. p \in Nat /\ y \in Nat /\ y \div 100 \in 0 .. 99
  BY <1>3
<1>5. /\ bcd2byte(byte2bcd(p)) = p % 100 /\ bcd2byte(byte2bcd(y)) = y % 100
      /\ bcd2byte(byte2bcd(y \div 100)) = (y \div 100) % 100
  <2>1. y \div 100 \in Nat
    BY <1>4
  <2> QED BY <1>4, <2>1, BcdRight
<1>6. p % 100 = p /\ (y \div 100) % 100 = y \div 100
  <2>1. p % 100 = p
    BY <1>3
  <2> DEFINE d == y \div 100
  <2>2. d \in 0 .. 99
    BY <1>4
  <2> HIDE DEF d
  <2>3. d % 100 = d
    BY <2>2
  <2> QED BY <2>1, <2>3 DEF d
<1>7. (y % 100) + 100 * (y \div 100) = y /\ (y % 100) + (y \div 100) * 100 = y
  BY <1>4
<1> DEFINE c == y \div 100  m == Sent(x)
<1>8. m.sec = byte2bcd(p) /\ m.year = byte2bcd(y) /\ m.century = byte2bcd(c)
  <2>1. x.sec = p /\ x.year = y
    BY <1>2
  <2> QED BY <2>1 DEF Sent
<1>9. bcd2byte(m.sec) = p /\ bcd2byte(m.year) = y % 100 /\ bcd2byte(m.century) = c
  BY <1>5, <1>6, <1>8
<1>10. Received(m) = [sec |-> bcd2byte(m.sec), year |-> bcd2byte(m.year) + bcd2byte(m.century) * 100]
  BY DEF Received
<1> HIDE DEF c, m
<1>11. bcd2byte(m.year) + 100 * bcd2byte(m.century) = y /\ bcd2byte(m.year) + bcd2byte(m.century) * 100 = y
  BY <1>9, <1>7 DEF c
<1>12. bcd2byte(m.sec) = x.sec /\ bcd2byte(m.year) + 100 * bcd2byte(m.century) = x.year
  BY <1>2, <1>9, <1>11
<1>13. Received(m) = x
  BY <1>2, <1>9, <1>10, <1>11
<1> QED BY <1>12, <1>13 DEF m

LEMMA StampOf ==
  ASSUME NEW t \in Nat, t < 10000 * RtcYear
  PROVE  Stamp(t) \in Stamps /\ Seconds(Stamp(t)) = t
<1>1. RtcYear \in Nat \ {0} /\ RtcYear <= 60
  BY RtcAssumption
<1> DEFINE q == t \div RtcYear  r == t % RtcYear
<1>2. q \in Int /\ r \in Nat /\ r < RtcYear /\ t = q * RtcYear + r
  BY <1>1, DivModParts
<1>3. q >= 0 /\ q < 10000
  <2> HIDE DEF q, r
  <2>1. CASE q < 0
    <3>1. (q + 1) * RtcYear <= 0 /\ (q + 1) * RtcYear = q * RtcYear + RtcYear
      BY <2>1, <1>1, <1>2
    <3> QED BY <3>1, <1>1, <1>2
  <2>2. CASE q >= 10000
    <3>1. q * RtcYear >= 10000 * RtcYear
      BY <2>2, <1>1, <1>2
    <3> QED BY <3>1, <1>1, <1>2
  <2> QED BY <2>1, <2>2, <1>2
<1>4. Stamp(t) = [sec |-> r, year |-> q]
  BY DEF Stamp
<1> HIDE DEF q, r
<1>5. q \in 0 .. 9999 /\ r \in 0 .. 59
  <2>1. q \in Int /\ r \in Nat /\ r < RtcYear
    BY <1>2
  <2> QED BY <2>1, <1>1, <1>3
<1>6. Stamp(t) \in Stamps
  <2> DEFINE S == 0 .. 59  Y == 0 .. 9999
  <2>1. q \in Y /\ r \in S
    BY <1>5
  <2>2. Stamps = [sec : S, year : Y]
    BY DEF Stamps
  <2> HIDE DEF S, Y
  <2> QED BY <1>4, <2>1, <2>2
<1>7. Stamp(t).year = q /\ Stamp(t).sec = r
  BY <1>4
<1>8. Seconds(Stamp(t)) = t
  BY <1>2, <1>7 DEF Seconds
<1> QED BY <1>6, <1>8

LEMMA NoStampIsNone == NoStamp \notin Stamps
BY DEF NoStamp, Stamps

LEMMA RtcStarts == ASSUME RtcInRange, RtcInit PROVE RtcInv
<1>1. RtcStart \in Nat /\ RtcSpan \in Nat /\ RtcStart < 10000 * RtcYear
  BY RtcAssumption DEF RtcInRange
<1>2. Stamp(RtcStart) \in Stamps
  BY <1>1, StampOf
<1> QED BY <1>1, <1>2 DEF RtcInit, RtcInv, RtcInRange

LEMMA RtcStep ==
  ASSUME RtcInRange, RtcInv, [RtcNext]_rtcVars PROVE RtcInv'
<1>1. /\ RtcStart \in Nat /\ RtcSpan \in Nat /\ RtcYear \in Nat /\ RtcSettings \subseteq Nat
      /\ host \in Nat /\ rtcref.base \in Nat /\ rtcref.since \in Nat
  BY RtcAssumption DEF RtcInv
<1>2. CASE RtcTick
  <2>1. host' = host + 1 /\ rtc' = rtc /\ rtcref' = rtcref /\ rtcgot' = [answer |-> NoStamp, right |-> NoStamp]
        /\ host < RtcStart + RtcSpan
    BY <1>2 DEF RtcTick, Unread
  <2> QED BY <2>1, <1>1 DEF RtcInv
<1>3. CASE RtcRead
  <2> DEFINE stands == Stopped \in rtc.control
             now == IF stands THEN rtc.now ELSE get_local_time(rtc.offset_seconds)
             right == IF ~ stands THEN Stamp(rtcref.base + host - rtcref.since)
                      ELSE IF rtcref.frozen # NoStamp THEN rtcref.frozen ELSE now
  <2>1. /\ rtc' = [rtc EXCEPT !.now = now] /\ rtcgot' = [answer |-> Sent(now), right |-> right]
        /\ rtcref' = IF stands THEN [rtcref EXCEPT !.frozen = right] ELSE rtcref
        /\ host' = host
    BY <1>3 DEF RtcRead
  <2>2. right = now /\ now \in Stamps
    <3>1. CASE stands
      BY <3>1 DEF RtcInv
    <3>2. CASE ~ stands
      <4> DEFINE t == rtcref.base + host - rtcref.since
      <4>1. t \in Nat /\ t < 10000 * RtcYear /\ host + rtc.offset_seconds = t
        BY <1>1 DEF RtcInv
      <4>2. now = Stamp(t) /\ right = Stamp(t)
        BY <3>2, <4>1 DEF get_local_time
      <4> HIDE DEF t, now, right
      <4> QED BY <4>1, <4>2, StampOf
    <3> QED BY <3>1, <3>2
  <2>3. ~ stands => rtcref.frozen = NoStamp
    BY DEF RtcInv
  <2> HIDE DEF now, right
  <2> QED BY <2>1, <2>2, <2>3 DEF RtcInv
<1>4. CASE RtcControl
  <2>1. PICK control \in SUBSET {Stopped, TimeProtected, OtherProtected} :
          /\ rtc' = [rtc EXCEPT !.control = control]
          /\ rtcref' = IF Stopped \in rtc'.control THEN rtcref ELSE [rtcref EXCEPT !.frozen = NoStamp]
          /\ rtcgot' = [answer |-> NoStamp, right |-> NoStamp] /\ host' = host
    BY <1>4 DEF RtcControl, Unread
  <2>2. rtc'.control = control
    BY <2>1 DEF RtcInv
  <2> QED BY <2>1, <2>2, <1>1 DEF RtcInv
<1>5. CASE RtcSet
  <2>1. PICK t \in RtcSettings :
          /\ rtc' = IF Accepts(rtc.control)
                    THEN [rtc EXCEPT !.now = Received(Sent(Stamp(t))),
                                     !.offset_seconds = get_offset_seconds(Received(Sent(Stamp(t))))]
                    ELSE rtc
          /\ rtcref' = IF Stopped \in rtc.control /\ TimeProtected \notin rtc.control
                       THEN [base |-> t, since |-> host, frozen |-> Stamp(t)] ELSE rtcref
          /\ rtcgot' = [answer |-> NoStamp, right |-> NoStamp] /\ host' = host
    BY <1>5 DEF RtcSet, Unread
  <2>2. t \in Nat /\ t + RtcSpan < 10000 * RtcYear
    BY <1>1 DEF RtcInRange
  <2>3. Stamp(t) \in Stamps /\ Seconds(Stamp(t)) = t
    BY <2>2, <1>1, StampOf
  <2>4. Received(Sent(Stamp(t))) = Stamp(t)
    BY <2>3, StampSent
  <2> DEFINE x == Stamp(t)
  <2>5. rtc' = IF Accepts(rtc.control) THEN [rtc EXCEPT !.now = x, !.offset_seconds = t - host] ELSE rtc
    BY <2>1, <2>3, <2>4 DEF get_offset_seconds
  <2>6. rtcref' = IF Accepts(rtc.control) THEN [base |-> t, since |-> host, frozen |-> x] ELSE rtcref
    BY <2>1 DEF Accepts
  <2>7. Accepts(rtc.control) => Stopped \in rtc.control
    BY DEF Accepts
  <2>8. x \in Stamps /\ x # NoStamp
    BY <2>3, NoStampIsNone
  <2> HIDE DEF x
  <2>9. CASE Accepts(rtc.control)
    <3>1. rtc' = [rtc EXCEPT !.now = x, !.offset_seconds = t - host]
      BY <2>9, <2>5
    <3>2. rtcref' = [base |-> t, since |-> host, frozen |-> x] /\ rtcgot'.right = NoStamp /\ host' = host
      BY <2>9, <2>6, <2>1
    <3>3. t + RtcStart + RtcSpan - host < 10000 * RtcYear
      BY <2>2, <1>1 DEF RtcInv
    <3>4. /\ rtc' \in [control : SUBSET {Stopped, TimeProtected, OtherProtected}, now : Stamps,
                        offset_seconds : Int]
          /\ rtc'.control = rtc.control /\ rtc'.now = x /\ rtc'.offset_seconds = t - host
      <4>1. rtc \in [control : SUBSET {Stopped, TimeProtected, OtherProtected}, now : Stamps,
                     offset_seconds : Int]
        BY DEF RtcInv
      <4> DEFINE d == t - host
      <4>2. d \in Int
        BY <2>2, <1>1
      <4> HIDE DEF d
      <4>3. rtc' = [rtc EXCEPT !.now = x, !.offset_seconds = d]
        BY <3>1 DEF d
      <4>4. rtc' = [control |-> rtc.control, now |-> x, offset_seconds |-> d]
        BY <4>1, <4>3
      <4> QED BY <4>1, <4>2, <4>4, <2>8 DEF d
    <3>5. /\ rtcref' \in [base : Nat, since : RtcStart .. host, frozen : Stamps \cup {NoStamp}]
          /\ rtcref'.base = t /\ rtcref'.since = host /\ rtcref'.frozen = x
      BY <3>2, <2>2, <2>8, <1>1 DEF RtcInv
    <3>6. host' \in RtcStart .. RtcStart + RtcSpan
      BY <3>2 DEF RtcInv
    <3> QED BY <3>2, <3>3, <3>4, <3>5, <3>6, <2>7, <2>9 DEF RtcInv
  <2>10. CASE ~ Accepts(rtc.control)
    BY <2>10, <2>5, <2>6, <2>1 DEF RtcInv
  <2> QED BY <2>9, <2>10
<1>6. CASE UNCHANGED rtcVars
  BY <1>6 DEF rtcVars, RtcInv
<1> QED BY <1>2, <1>3, <1>4, <1>5, <1>6 DEF RtcNext

\* The clock behind the SI (si/rtc.c): whatever is tried on it, in any order, a running
\* clock shows the time that was last set and accepted and the time gone by since, a
\* stopped one what it was set to or showed last, and no digit is lost; in every year
\* whose century has two digits.
THEOREM RtcAlwaysExact ==
  ASSUME RtcInRange PROVE RtcSpec => []RtcExact
<1>1. RtcInit => RtcInv
  BY RtcStarts
<1>2. RtcInv /\ [RtcNext]_rtcVars => RtcInv'
  BY RtcStep
<1>3. RtcInv => RtcExact
  BY StampSent DEF RtcInv, RtcExact
<1> QED BY <1>1, <1>2, <1>3, PTL DEF RtcSpec

-----------------------------------------------------------------------------
(***************************************************************************)
(* The bank controllers of Game Boy cartridges. GbInv relates the code's   *)
(* registers to the documented ones: what the code has reduced by the      *)
(* number of banks is what the reference reduces when it is asked.         *)
(***************************************************************************)

\* MBC1 takes banks apart by bits: its cartridges have a power of two of them.
Mbc1Banks == {2, 4, 8, 16, 32, 64, 128, 256, 512}
CartsInBits == \A c \in GbCarts : c.type = "mbc1" => c.rom \in Mbc1Banks

Nibbles == 0 .. 15
GbModes == {0, 1}
GbSources == {"ram", "rtc"}
GbMemories == [0 .. 15 -> 0 .. 255]
GbStates ==
  [cart : GbCarts, low : Nat, high : Nat, zero : Nat, n : Nat, ram : Nibbles,
   on : BOOLEAN, mode : GbModes, shows : GbSources, data : GbMemories]
GbRefs ==
  [bank1 : Nat, bank2 : Nibbles, mode : GbModes, on : BOOLEAN, rtc : BOOLEAN,
   selected : BOOLEAN, data : GbMemories]

\* What a cartridge with more than 31 banks keeps of the upper register, and what
\* the lower one holds: it starts with 0, which stands for 1.
LowOf(r) == IF r.selected THEN r.bank1 ELSE 0
Mbc1Rom(g, r) ==
  /\ r.bank1 \in 1 .. 31 /\ r.bank2 \in 0 .. 3 /\ (~ r.selected => r.bank1 = 1)
  /\ g.cart.rom > 31 => g.high = r.bank2 % (g.cart.rom \div 32) /\ g.low = LowOf(r)
  /\ g.cart.rom < 32 => g.high = 0 /\ g.low \in 0 .. 31 /\ (r.selected => g.low = r.bank1 % g.cart.rom)
  /\ g.mode = r.mode

Mbc5Rom(g, r) ==
  /\ g.low \in 0 .. 255 /\ g.high \in 0 .. 1
  /\ IF r.selected THEN r.bank1 = g.high * 256 + g.low
     ELSE r.bank1 = 1 /\ g.high = 0

RomInvOf(g, r) ==
  /\ g.cart.type = "mbc1" => Mbc1Rom(g, r)
  /\ g.cart.type = "mbc5" => Mbc5Rom(g, r)
  /\ g.cart.type = "rom" => r.bank1 = 1
  /\ g.n = RefRomBank(r, g.cart) /\ g.zero = RefZero(r, g.cart)

RamInvOf(g, r) ==
  g.cart.type # "rom" =>
    /\ g.ram = RefRamBank(r, g.cart) /\ g.data = r.data
    /\ g.on = r.on /\ r.rtc = (g.shows = "rtc")
    /\ g.cart.type = "mbc2" => \A b \in 0 .. 15 : g.data[b] < 16

GbInvOf(g, r) == g \in GbStates /\ r \in GbRefs /\ RomInvOf(g, r) /\ RamInvOf(g, r)

\* What the writes change in the registers of the reference.
Selecting(r, x) == [r EXCEPT !.bank1 = x, !.selected = TRUE]
Upper(r, x) == [r EXCEPT !.bank2 = x]
InMode(r, x) == [r EXCEPT !.mode = x]
On(g, x) == [g EXCEPT !.on = x]
StoredRef(r, c, d) == IF r.on /\ ~ r.rtc THEN [r EXCEPT !.data[RefRamBank(r, c)] = d] ELSE r
ClockOrRam(r, d) ==
  IF d \in 0 .. 3 THEN [r EXCEPT !.bank2 = d, !.rtc = FALSE]
  ELSE IF d \in 8 .. 12 THEN [r EXCEPT !.rtc = TRUE] ELSE r

GbUsualFor(c, r, part, d) ==
  /\ part = "3000" /\ c.type = "mbc2" => d % 16 < c.rom
  /\ part = "3000" /\ c.type = "mbc5" => r.selected
  /\ part = "6000" => r.selected /\ r.bank2 = 0

LEMMA Mbc1Low ==
  ASSUME NEW rom \in Mbc1Banks, rom > 31, NEW b \in 0 .. 3, NEW l \in 0 .. 31
  PROVE  /\ Bumped((b % (rom \div 32)) * 32 + l) % rom = (b * 32 + NotZero(l)) % rom
         /\ (Bumped((b % (rom \div 32)) * 32 + l) % rom) % 32 = NotZero(l)
<1>1. b = 0 \/ b = 1 \/ b = 2 \/ b = 3
  OBVIOUS
<1>2. CASE rom = 32
  BY <1>1, <1>2 DEF Bumped, NotZero
<1>3. CASE rom = 64
  BY <1>1, <1>3 DEF Bumped, NotZero
<1>4. CASE rom = 128
  BY <1>1, <1>4 DEF Bumped, NotZero
<1>5. CASE rom = 256
  BY <1>1, <1>5 DEF Bumped, NotZero
<1>6. CASE rom = 512
  BY <1>1, <1>6 DEF Bumped, NotZero
<1> QED BY <1>2, <1>3, <1>4, <1>5, <1>6 DEF Mbc1Banks

LEMMA Mbc1High ==
  ASSUME NEW rom \in Mbc1Banks, rom > 31, NEW b \in 0 .. 3, NEW l \in 0 .. 31
  PROVE  /\ Bumped(b * 32 + l) % rom = (b * 32 + NotZero(l)) % rom
         /\ (Bumped(b * 32 + l) % rom) \div 32 = b % (rom \div 32)
<1>1. b = 0 \/ b = 1 \/ b = 2 \/ b = 3
  OBVIOUS
<1>2. CASE rom = 32
  BY <1>1, <1>2 DEF Bumped, NotZero
<1>3. CASE rom = 64
  BY <1>1, <1>3 DEF Bumped, NotZero
<1>4. CASE rom = 128
  BY <1>1, <1>4 DEF Bumped, NotZero
<1>5. CASE rom = 256
  BY <1>1, <1>5 DEF Bumped, NotZero
<1>6. CASE rom = 512
  BY <1>1, <1>6 DEF Bumped, NotZero
<1> QED BY <1>2, <1>3, <1>4, <1>5, <1>6 DEF Mbc1Banks

\* Few banks: the lower register alone.
LEMMA Mbc1Few ==
  ASSUME NEW rom \in Mbc1Banks, rom < 32, NEW b \in 0 .. 3, NEW l \in 0 .. 31
  PROVE  /\ Bumped(l) % rom = NotZero(l) % rom /\ (Bumped(l) % rom) % 32 = NotZero(l) % rom
         /\ (b * 32 + l) % rom = l % rom /\ (b * 32) % rom = 0
<1>1. b = 0 \/ b = 1 \/ b = 2 \/ b = 3
  OBVIOUS
<1>2. CASE rom = 2
  BY <1>1, <1>2 DEF Bumped, NotZero
<1>3. CASE rom = 4
  BY <1>1, <1>3 DEF Bumped, NotZero
<1>4. CASE rom = 8
  BY <1>1, <1>4 DEF Bumped, NotZero
<1>5. CASE rom = 16
  BY <1>1, <1>5 DEF Bumped, NotZero
<1> QED BY <1>2, <1>3, <1>4, <1>5 DEF Mbc1Banks

\* What a write stores is a byte of the bank that is selected.
LEMMA StoreKeeps ==
  ASSUME NEW g, NEW r, GbInvOf(g, r), g.cart.type # "rom", NEW d \in 0 .. 255,
         g.cart.type = "mbc2" => d < 16
  PROVE  GbInvOf(Stored(g, d), StoredRef(r, g.cart, d))
<1> DEFINE r2 == StoredRef(r, g.cart, d)
<1>1. g \in GbStates /\ r \in GbRefs /\ RomInvOf(g, r) /\ RamInvOf(g, r)
  BY DEF GbInvOf
<1> DEFINE b == RefRamBank(r, g.cart)
<1>2. g.ram = b /\ b \in 0 .. 15 /\ g.data = r.data /\ g.on = r.on /\ r.rtc = (g.shows = "rtc")
  BY <1>1 DEF RamInvOf, GbStates, Nibbles, GbSources
<1>3. CASE ~ (r.on /\ ~ r.rtc)
  <2>1. Stored(g, d) = g /\ r2 = r
    BY <1>1, <1>2, <1>3 DEF Stored, StoredRef, GbStates
  <2> QED BY <2>1
<1>4. CASE r.on /\ ~ r.rtc
  <2> DEFINE new == [r.data EXCEPT ![b] = d]
  <2>1. Stored(g, d) = [g EXCEPT !.data = new] /\ r2 = [r EXCEPT !.data = new]
    <3>1. g.on /\ g.shows = "ram"
      BY <1>1, <1>2, <1>4 DEF GbStates, Nibbles, GbSources, GbMemories
    <3> QED BY <1>1, <1>2, <1>4, <3>1 DEF Stored, StoredRef, GbStates, GbRefs
  <2>2. new \in [0 .. 15 -> 0 .. 255]
    BY <1>1, <1>2 DEF GbRefs, Nibbles, GbMemories
  <2>3. g.cart.type = "mbc2" => \A k \in 0 .. 15 : new[k] < 16
    BY <1>1, <1>2 DEF RamInvOf, GbRefs
  <2> HIDE DEF new
  <2> DEFINE h == [g EXCEPT !.data = new]  s == [r EXCEPT !.data = new]
  <2>4. /\ h \in GbStates /\ h.cart = g.cart /\ h.low = g.low /\ h.high = g.high /\ h.zero = g.zero
        /\ h.n = g.n /\ h.ram = g.ram /\ h.on = g.on /\ h.mode = g.mode /\ h.shows = g.shows
        /\ h.data = new
    BY <1>1, <2>2 DEF GbStates, GbMemories
  <2>5. /\ s \in GbRefs /\ s.bank1 = r.bank1 /\ s.bank2 = r.bank2 /\ s.mode = r.mode /\ s.on = r.on
        /\ s.rtc = r.rtc /\ s.selected = r.selected /\ s.data = new
    BY <1>1, <2>2 DEF GbRefs, GbMemories
  <2> HIDE DEF h, s
  <2>6. RefRomBank(s, g.cart) = RefRomBank(r, g.cart) /\ RefZero(s, g.cart) = RefZero(r, g.cart)
        /\ RefRamBank(s, g.cart) = RefRamBank(r, g.cart)
    BY <2>5 DEF RefRomBank, RefZero, RefRamBank
  <2>7. RomInvOf(h, s)
    BY <1>1, <2>4, <2>5, <2>6 DEF RomInvOf, Mbc1Rom, Mbc5Rom, LowOf
  <2>8. RamInvOf(h, s)
    BY <1>1, <2>3, <2>4, <2>5, <2>6 DEF RamInvOf
  <2> QED BY <2>1, <2>4, <2>5, <2>7, <2>8 DEF GbInvOf, h, s
<1> QED BY <1>3, <1>4

\* A register of the controllers that neither window depends on.
LEMMA EnableKeeps ==
  ASSUME NEW g, NEW r, GbInvOf(g, r), NEW x \in BOOLEAN, NEW y \in BOOLEAN,
         g.cart.type # "rom" => x = y
  PROVE  GbInvOf(On(g, x), On(r, y))
<1>1. g \in GbStates /\ r \in GbRefs /\ RomInvOf(g, r) /\ RamInvOf(g, r)
  BY DEF GbInvOf
<1> DEFINE h == [g EXCEPT !.on = x]  s == [r EXCEPT !.on = y]
<1>2. /\ h \in GbStates /\ h.cart = g.cart /\ h.low = g.low /\ h.high = g.high /\ h.zero = g.zero
      /\ h.n = g.n /\ h.ram = g.ram /\ h.on = x /\ h.mode = g.mode /\ h.shows = g.shows
      /\ h.data = g.data
  BY <1>1 DEF GbStates
<1>3. /\ s \in GbRefs /\ s.bank1 = r.bank1 /\ s.bank2 = r.bank2 /\ s.mode = r.mode /\ s.on = y
      /\ s.rtc = r.rtc /\ s.selected = r.selected /\ s.data = r.data
  BY <1>1 DEF GbRefs
<1> HIDE DEF h, s
<1>4. RefRomBank(s, g.cart) = RefRomBank(r, g.cart) /\ RefZero(s, g.cart) = RefZero(r, g.cart)
      /\ RefRamBank(s, g.cart) = RefRamBank(r, g.cart)
  BY <1>3 DEF RefRomBank, RefZero, RefRamBank
<1>5. RomInvOf(h, s)
  BY <1>1, <1>2, <1>3, <1>4 DEF RomInvOf, Mbc1Rom, Mbc5Rom, LowOf
<1>6. RamInvOf(h, s)
  BY <1>1, <1>2, <1>3, <1>4 DEF RamInvOf
<1> QED BY <1>2, <1>3, <1>5, <1>6 DEF GbInvOf, On, h, s

\* A write to the registers of the ROM leaves the RAM as it is.
LEMMA RomKeeps ==
  ASSUME NEW g, NEW r, GbInvOf(g, r), NEW h \in GbStates, NEW s \in GbRefs,
         h.cart = g.cart, h.ram = g.ram, h.on = g.on, h.mode = g.mode, h.shows = g.shows, h.data = g.data,
         s.bank2 = r.bank2, s.mode = r.mode, s.on = r.on, s.rtc = r.rtc, s.data = r.data,
         RomInvOf(h, s)
  PROVE  GbInvOf(h, s)
<1>1. RefRamBank(s, g.cart) = RefRamBank(r, g.cart)
  BY DEF RefRamBank
<1>2. RamInvOf(h, s)
  BY <1>1 DEF GbInvOf, RamInvOf
<1> QED BY <1>2 DEF GbInvOf

\* The two records, by what the writes to the registers change.
Machine(g, low, high, zero, n, ramBank, mode) ==
  [cart |-> g.cart, low |-> low, high |-> high, zero |-> zero, n |-> n, ram |-> ramBank,
   on |-> g.on, mode |-> mode, shows |-> g.shows, data |-> g.data]
Registers(r, bank1, bank2, mode, selected) ==
  [bank1 |-> bank1, bank2 |-> bank2, mode |-> mode, on |-> r.on, rtc |-> r.rtc,
   selected |-> selected, data |-> r.data]

LEMMA MachineOf ==
  ASSUME NEW g \in GbStates, NEW x
  PROVE  /\ [g EXCEPT !.low = x] = Machine(g, x, g.high, g.zero, g.n, g.ram, g.mode)
         /\ [g EXCEPT !.high = x] = Machine(g, g.low, x, g.zero, g.n, g.ram, g.mode)
         /\ [g EXCEPT !.zero = x] = Machine(g, g.low, g.high, x, g.n, g.ram, g.mode)
         /\ [g EXCEPT !.n = x] = Machine(g, g.low, g.high, g.zero, x, g.ram, g.mode)
         /\ [g EXCEPT !.ram = x] = Machine(g, g.low, g.high, g.zero, g.n, x, g.mode)
         /\ [g EXCEPT !.mode = x] = Machine(g, g.low, g.high, g.zero, g.n, g.ram, x)
         /\ g = Machine(g, g.low, g.high, g.zero, g.n, g.ram, g.mode)
<1>1. [g EXCEPT !.low = x] = Machine(g, x, g.high, g.zero, g.n, g.ram, g.mode)
  BY DEF GbStates, Machine
<1>2. [g EXCEPT !.high = x] = Machine(g, g.low, x, g.zero, g.n, g.ram, g.mode)
  BY DEF GbStates, Machine
<1>3. [g EXCEPT !.zero = x] = Machine(g, g.low, g.high, x, g.n, g.ram, g.mode)
  BY DEF GbStates, Machine
<1>4. [g EXCEPT !.n = x] = Machine(g, g.low, g.high, g.zero, x, g.ram, g.mode)
  BY DEF GbStates, Machine
<1>5. [g EXCEPT !.ram = x] = Machine(g, g.low, g.high, g.zero, g.n, x, g.mode)
  BY DEF GbStates, Machine
<1>6. [g EXCEPT !.mode = x] = Machine(g, g.low, g.high, g.zero, g.n, g.ram, x)
  BY DEF GbStates, Machine
<1>7. g = Machine(g, g.low, g.high, g.zero, g.n, g.ram, g.mode)
  BY DEF GbStates, Machine
<1> QED BY <1>1, <1>2, <1>3, <1>4, <1>5, <1>6, <1>7

LEMMA MachineFields ==
  ASSUME NEW g \in GbStates, NEW low \in Nat, NEW high \in Nat, NEW zero \in Nat, NEW n \in Nat,
         NEW ramBank \in 0 .. 15, NEW mode \in {0, 1}, NEW h, h = Machine(g, low, high, zero, n, ramBank, mode)
  PROVE  /\ h \in GbStates /\ h.cart = g.cart /\ h.low = low /\ h.high = high /\ h.zero = zero
         /\ h.n = n /\ h.ram = ramBank /\ h.on = g.on /\ h.mode = mode /\ h.shows = g.shows
         /\ h.data = g.data
<1>1. ramBank \in Nibbles /\ mode \in GbModes
  BY DEF Nibbles, GbModes
<1> QED BY <1>1 DEF GbStates, Machine

LEMMA RegistersOf ==
  ASSUME NEW r \in GbRefs, NEW x
  PROVE  /\ [r EXCEPT !.bank1 = x] = Registers(r, x, r.bank2, r.mode, r.selected)
         /\ [r EXCEPT !.bank2 = x] = Registers(r, r.bank1, x, r.mode, r.selected)
         /\ [r EXCEPT !.mode = x] = Registers(r, r.bank1, r.bank2, x, r.selected)
         /\ [r EXCEPT !.selected = x] = Registers(r, r.bank1, r.bank2, r.mode, x)
<1>1. [r EXCEPT !.bank1 = x] = Registers(r, x, r.bank2, r.mode, r.selected)
  BY DEF GbRefs, Registers
<1>2. [r EXCEPT !.bank2 = x] = Registers(r, r.bank1, x, r.mode, r.selected)
  BY DEF GbRefs, Registers
<1>3. [r EXCEPT !.mode = x] = Registers(r, r.bank1, r.bank2, x, r.selected)
  BY DEF GbRefs, Registers
<1>4. [r EXCEPT !.selected = x] = Registers(r, r.bank1, r.bank2, r.mode, x)
  BY DEF GbRefs, Registers
<1> QED BY <1>1, <1>2, <1>3, <1>4

LEMMA RegistersFields ==
  ASSUME NEW r \in GbRefs, NEW bank1 \in Nat, NEW bank2 \in 0 .. 15, NEW mode \in {0, 1},
         NEW selected \in BOOLEAN, NEW s, s = Registers(r, bank1, bank2, mode, selected)
  PROVE  /\ s \in GbRefs /\ s.bank1 = bank1 /\ s.bank2 = bank2 /\ s.mode = mode /\ s.on = r.on
         /\ s.rtc = r.rtc /\ s.selected = selected /\ s.data = r.data
<1>1. bank2 \in Nibbles /\ mode \in GbModes
  BY DEF Nibbles, GbModes
<1> QED BY <1>1 DEF GbRefs, Registers

\* A change of one field after another.
LEMMA MachineSet ==
  ASSUME NEW g, NEW low, NEW high, NEW zero, NEW n, NEW ramBank, NEW mode, NEW x
  PROVE  /\ [Machine(g, low, high, zero, n, ramBank, mode) EXCEPT !.low = x] = Machine(g, x, high, zero, n, ramBank, mode)
         /\ [Machine(g, low, high, zero, n, ramBank, mode) EXCEPT !.high = x] = Machine(g, low, x, zero, n, ramBank, mode)
         /\ [Machine(g, low, high, zero, n, ramBank, mode) EXCEPT !.zero = x] = Machine(g, low, high, x, n, ramBank, mode)
         /\ [Machine(g, low, high, zero, n, ramBank, mode) EXCEPT !.n = x] = Machine(g, low, high, zero, x, ramBank, mode)
         /\ [Machine(g, low, high, zero, n, ramBank, mode) EXCEPT !.ram = x] = Machine(g, low, high, zero, n, x, mode)
         /\ [Machine(g, low, high, zero, n, ramBank, mode) EXCEPT !.mode = x] = Machine(g, low, high, zero, n, ramBank, x)
BY DEF Machine

LEMMA RegistersSelect ==
  ASSUME NEW r, NEW bank1, NEW bank2, NEW mode, NEW selected, NEW x
  PROVE  [Registers(r, bank1, bank2, mode, selected) EXCEPT !.selected = x] =
           Registers(r, bank1, bank2, mode, x)
BY DEF Registers

LEMMA LowAndBank ==
  ASSUME NEW g \in GbStates, NEW x, NEW y
  PROVE  [g EXCEPT !.low = x, !.n = y] = Machine(g, x, g.high, g.zero, y, g.ram, g.mode)
<1>1. [g EXCEPT !.low = x, !.n = y] = [[g EXCEPT !.low = x] EXCEPT !.n = y]
  OBVIOUS
<1>2. [g EXCEPT !.low = x] = Machine(g, x, g.high, g.zero, g.n, g.ram, g.mode)
  BY MachineOf
<1>3. [Machine(g, x, g.high, g.zero, g.n, g.ram, g.mode) EXCEPT !.n = y] =
        Machine(g, x, g.high, g.zero, y, g.ram, g.mode)
  BY DEF Machine
<1> QED BY <1>1, <1>2, <1>3

LEMMA HighAndBank ==
  ASSUME NEW g \in GbStates, NEW x, NEW y
  PROVE  [g EXCEPT !.high = x, !.n = y] = Machine(g, g.low, x, g.zero, y, g.ram, g.mode)
<1>1. [g EXCEPT !.high = x, !.n = y] = [[g EXCEPT !.high = x] EXCEPT !.n = y]
  OBVIOUS
<1>2. [g EXCEPT !.high = x] = Machine(g, g.low, x, g.zero, g.n, g.ram, g.mode)
  BY MachineOf
<1>3. [Machine(g, g.low, x, g.zero, g.n, g.ram, g.mode) EXCEPT !.n = y] =
        Machine(g, g.low, x, g.zero, y, g.ram, g.mode)
  BY DEF Machine
<1> QED BY <1>1, <1>2, <1>3

LEMMA BankAndLow ==
  ASSUME NEW g \in GbStates, NEW x \in Nat, NEW y \in Nat, NEW h, h = [g EXCEPT !.low = x, !.n = y]
  PROVE  /\ h \in GbStates /\ h.cart = g.cart /\ h.low = x /\ h.high = g.high /\ h.zero = g.zero
         /\ h.n = y /\ h.ram = g.ram /\ h.on = g.on /\ h.mode = g.mode /\ h.shows = g.shows
         /\ h.data = g.data
<1>1. h = Machine(g, x, g.high, g.zero, y, g.ram, g.mode)
  BY LowAndBank
<1> QED BY <1>1, SMTT(30) DEF GbStates, Machine

LEMMA BankAndHigh ==
  ASSUME NEW g \in GbStates, NEW x \in Nat, NEW y \in Nat, NEW h, h = [g EXCEPT !.high = x, !.n = y]
  PROVE  /\ h \in GbStates /\ h.cart = g.cart /\ h.low = g.low /\ h.high = x /\ h.zero = g.zero
         /\ h.n = y /\ h.ram = g.ram /\ h.on = g.on /\ h.mode = g.mode /\ h.shows = g.shows
         /\ h.data = g.data
<1>1. h = Machine(g, g.low, x, g.zero, y, g.ram, g.mode)
  BY HighAndBank
<1> QED BY <1>1, SMTT(30) DEF GbStates, Machine

LEMMA BankSelected ==
  ASSUME NEW r \in GbRefs, NEW x \in Nat, NEW t \in BOOLEAN
  PROVE  [r EXCEPT !.bank1 = x, !.selected = t] = Registers(r, x, r.bank2, r.mode, t)
<1>1. [r EXCEPT !.bank1 = x, !.selected = t] = [[r EXCEPT !.bank1 = x] EXCEPT !.selected = t]
  OBVIOUS
<1>2. [r EXCEPT !.bank1 = x] = Registers(r, x, r.bank2, r.mode, r.selected)
  BY RegistersOf
<1>3. [Registers(r, x, r.bank2, r.mode, r.selected) EXCEPT !.selected = t] =
        Registers(r, x, r.bank2, r.mode, t)
  BY RegistersSelect
<1> QED BY <1>1, <1>2, <1>3

LEMMA Mbc1Bank ==
  ASSUME CartsInBits, NEW g, NEW r, GbInvOf(g, r), g.cart.type = "mbc1", NEW d \in 0 .. 255
  PROVE  GbInvOf(mbc1_rom_bank(g, d), Selecting(r, NotZero(d % 32)))
<1> DEFINE rom == g.cart.rom  l == d % 32  bank == Bumped(g.high * 32 + l) % rom  low == bank % 32
           h == [g EXCEPT !.low = low, !.n = bank]
           s == [r EXCEPT !.bank1 = NotZero(l), !.selected = TRUE]
<1>1. g \in GbStates /\ r \in GbRefs /\ RomInvOf(g, r) /\ RamInvOf(g, r)
  BY DEF GbInvOf
<1>2. rom \in Mbc1Banks /\ Mbc1Rom(g, r)
  BY <1>1 DEF CartsInBits, GbStates, RomInvOf
<1>3. l \in 0 .. 31 /\ r.bank2 \in 0 .. 3 /\ NotZero(l) \in 1 .. 31
  BY <1>2 DEF Mbc1Rom, NotZero
<1>4. bank = (r.bank2 * 32 + NotZero(l)) % rom
      /\ IF rom > 31 THEN low = NotZero(l) ELSE low = NotZero(l) % rom
  <2>1. CASE rom > 31
    <3>1. g.high = r.bank2 % (rom \div 32)
      BY <1>2, <2>1 DEF Mbc1Rom
    <3> DEFINE b == r.bank2
    <3>2. b \in 0 .. 3
      BY <1>3
    <3> HIDE DEF b, l
    <3>3. /\ Bumped((b % (rom \div 32)) * 32 + l) % rom = (b * 32 + NotZero(l)) % rom
          /\ (Bumped((b % (rom \div 32)) * 32 + l) % rom) % 32 = NotZero(l)
      <4> HIDE DEF rom
      <4> QED BY <1>2, <1>3, <2>1, <3>2, Mbc1Low, ZenonT(30)
    <3>4. bank = Bumped((b % (rom \div 32)) * 32 + l) % rom
      BY <3>1 DEF b
    <3> QED BY <2>1, <3>3, <3>4 DEF b
  <2>2. CASE ~ (rom > 31)
    <3>1. g.high = 0 /\ rom < 32
      BY <1>2, <2>2 DEF Mbc1Rom, Mbc1Banks
    <3>2. bank = Bumped(l) % rom
      BY <1>3, <3>1
    <3>3. (r.bank2 * 32 + NotZero(l)) % rom = NotZero(l) % rom
      <4>1. NotZero(l) \in 0 .. 31
        BY <1>3
      <4> HIDE DEF l
      <4> QED BY <4>1, <1>2, <1>3, <3>1, Mbc1Few
    <3>4. Bumped(l) % rom = NotZero(l) % rom /\ (Bumped(l) % rom) % 32 = NotZero(l) % rom
      <4>1. rom \in Mbc1Banks /\ rom < 32 /\ l \in 0 .. 31 /\ 0 \in 0 .. 3
        BY <1>2, <1>3, <3>1
      <4> HIDE DEF rom, l
      <4> QED BY <4>1, Mbc1Few
    <3> QED BY <3>2, <3>3, <3>4, <2>2
  <2> QED BY <2>1, <2>2
<1>5. bank \in Nat /\ low \in 0 .. 31
  <2>1. rom \in Nat \ {0}
    BY <1>2 DEF Mbc1Banks
  <2>2. (r.bank2 * 32 + NotZero(l)) % rom \in Nat
    <3> DEFINE x == r.bank2 * 32 + NotZero(l)
    <3>1. x \in Nat
      BY <1>3
    <3> HIDE DEF x
    <3>2. x % rom \in Nat
      BY <2>1, <3>1
    <3> QED BY <3>2 DEF x
  <2>3. bank \in Nat
    BY <1>4, <2>2
  <2> HIDE DEF bank
  <2> QED BY <2>3
<1> SUFFICES GbInvOf(h, s)
  BY DEF mbc1_rom_bank, Selecting
<1> DEFINE nz == NotZero(l)
<1>6. nz \in 1 .. 31 /\ s = [r EXCEPT !.bank1 = nz, !.selected = TRUE]
  BY <1>3
<1> HIDE DEF nz, bank, low, l
<1>7. /\ h \in GbStates /\ h.cart = g.cart /\ h.low = low /\ h.high = g.high /\ h.zero = g.zero
      /\ h.n = bank /\ h.ram = g.ram /\ h.on = g.on /\ h.mode = g.mode /\ h.shows = g.shows
      /\ h.data = g.data
  <2>1. h = Machine(g, low, g.high, g.zero, bank, g.ram, g.mode)
    BY <1>1, LowAndBank
  <2>2. g \in GbStates /\ low \in Nat /\ g.high \in Nat /\ g.zero \in Nat /\ bank \in Nat
        /\ g.ram \in 0 .. 15 /\ g.mode \in {0, 1}
    BY <1>1, <1>5 DEF GbStates, Nibbles, GbModes
  <2> HIDE DEF h
  <2> QED BY <2>1, <2>2, <1>1 DEF GbStates, Machine
<1>8. /\ s \in GbRefs /\ s.bank1 = nz /\ s.bank2 = r.bank2 /\ s.mode = r.mode /\ s.on = r.on
      /\ s.rtc = r.rtc /\ s.selected = TRUE /\ s.data = r.data
  <2> DEFINE t == [r EXCEPT !.bank1 = nz]
  <2>1. /\ t \in GbRefs /\ t.bank1 = nz /\ t.bank2 = r.bank2 /\ t.mode = r.mode /\ t.on = r.on
        /\ t.rtc = r.rtc /\ t.data = r.data
    BY <1>1, <1>6, SMTT(30) DEF GbRefs
  <2>2. s = [t EXCEPT !.selected = TRUE]
    BY <1>6
  <2> HIDE DEF t, s
  <2> QED BY <2>1, <2>2 DEF GbRefs
<1> HIDE DEF h, s
<1>9. RefRomBank(s, g.cart) = bank /\ RefZero(s, g.cart) = RefZero(r, g.cart)
  BY <1>4, <1>8 DEF RefRomBank, RefZero, nz
<1>10. Mbc1Rom(h, s)
  <2>1. rom > 31 => low = nz
    BY <1>4 DEF nz
  <2>2. rom < 32 => low = nz % rom
    BY <1>2, <1>4 DEF nz, Mbc1Banks
  <2> HIDE DEF rom
  <2>3. h.cart.rom = rom /\ g.cart.rom = rom
    BY <1>7 DEF rom
  <2> QED BY <1>2, <1>5, <1>6, <1>7, <1>8, <2>1, <2>2, <2>3 DEF Mbc1Rom, LowOf
<1>11. RomInvOf(h, s)
  BY <1>1, <1>7, <1>9, <1>10 DEF RomInvOf
<1> QED BY <1>7, <1>8, <1>11, RomKeeps

LEMMA Mbc1Upper ==
  ASSUME CartsInBits, NEW g, NEW r, GbInvOf(g, r), g.cart.type = "mbc1", NEW data \in 0 .. 255
  PROVE  GbInvOf(mbc1_rom_ram_bank(g, data), Upper(r, data % 4))
<1> DEFINE rom == g.cart.rom  d == data % 4  bank == Bumped(d * 32 + g.low) % rom
           zero == IF g.mode = 1 /\ rom > 32 THEN (d * 32) % rom ELSE 0
           high == IF rom > 31 THEN bank \div 32 ELSE g.high
           n == IF rom > 31 THEN bank ELSE g.n
           ramBank == IF g.mode = 1 /\ g.cart.ram > 1 THEN d ELSE g.ram
           h == Machine(g, g.low, high, zero, n, ramBank, g.mode)
           s == [r EXCEPT !.bank2 = d]
<1>1. g \in GbStates /\ r \in GbRefs /\ RomInvOf(g, r) /\ RamInvOf(g, r) /\ g.cart \in GbCarts
  BY DEF GbInvOf, GbStates
<1>2. rom \in Mbc1Banks /\ Mbc1Rom(g, r) /\ rom \in Nat
  BY <1>1 DEF CartsInBits, RomInvOf, Mbc1Banks
<1>3. d \in 0 .. 3 /\ g.low \in 0 .. 31 /\ r.bank1 \in 1 .. 31 /\ g.mode \in {0, 1} /\ g.mode = r.mode
      /\ g.cart.ram \in Nat
  BY <1>1, <1>2, GbAssumption DEF Mbc1Rom, LowOf, GbStates, Mbc1Banks, GbModes
<1>4. rom < 32 => g.zero = 0 /\ g.n = r.bank1 % rom /\ g.high = 0
  <2>1. ASSUME rom < 32 PROVE (r.bank2 * 32) % rom = 0 /\ (r.bank2 * 32 + r.bank1) % rom = r.bank1 % rom
    <3>1. r.bank2 \in 0 .. 3 /\ r.bank1 \in 0 .. 31
      BY <1>2, <1>3 DEF Mbc1Rom
    <3> QED BY <3>1, <1>2, <2>1, Mbc1Few
  <2> QED BY <2>1, <1>1, <1>2 DEF RomInvOf, RefZero, RefRomBank, Mbc1Rom
<1>5. mbc1_rom_ram_bank(g, data) = Machine(g, g.low, high, zero, n, ramBank, g.mode)
  <2> DEFINE large == IF rom > 31 THEN [g EXCEPT !.high = bank \div 32, !.n = bank] ELSE g
             first == IF g.mode = 0 \/ rom > 31 THEN [large EXCEPT !.zero = 0] ELSE large
             moved == IF rom > 32 THEN [first EXCEPT !.zero = (d * 32) % rom] ELSE first
  <2>1. large = Machine(g, g.low, high, g.zero, n, g.ram, g.mode)
    <3> DEFINE x == bank \div 32  y == bank
    <3>1. [g EXCEPT !.high = x, !.n = y] = Machine(g, g.low, x, g.zero, y, g.ram, g.mode)
      <4> HIDE DEF x, y
      <4> QED BY <1>1, HighAndBank
    <3>2. g = Machine(g, g.low, g.high, g.zero, g.n, g.ram, g.mode)
      BY <1>1, MachineOf
    <3>3. CASE rom > 31
      <4>1. large = [g EXCEPT !.high = x, !.n = y] /\ high = x /\ n = y
        BY <3>3
      <4> HIDE DEF large, high, n, x, y
      <4> QED BY <4>1, <3>1
    <3>4. CASE ~ (rom > 31)
      <4>1. large = g /\ high = g.high /\ n = g.n
        BY <3>4
      <4> HIDE DEF large, high, n, x, y
      <4> QED BY <4>1, <3>2
    <3> HIDE DEF large, high, n, rom
    <3> QED BY <3>3, <3>4
  <2>2. first = Machine(g, g.low, high, 0, n, g.ram, g.mode)
    <3> DEFINE m == Machine(g, g.low, high, g.zero, n, g.ram, g.mode)
    <3>1. [m EXCEPT !.zero = 0] = Machine(g, g.low, high, 0, n, g.ram, g.mode)
      BY DEF Machine
    <3>2. ~ (rom > 31) => g.zero = 0
      BY <1>2, <1>4
    <3> HIDE DEF large, high, n, rom
    <3> QED BY <2>1, <3>1, <3>2
  <2>3. g.mode = 1 => moved = Machine(g, g.low, high, zero, n, g.ram, g.mode)
    <3>1. \A x : [Machine(g, g.low, high, 0, n, g.ram, g.mode) EXCEPT !.zero = x] =
            Machine(g, g.low, high, x, n, g.ram, g.mode)
      BY DEF Machine
    <3> HIDE DEF first, high, n, rom, d
    <3> QED BY <2>2, <3>1
  <2>4. [moved EXCEPT !.ram = d] = [Machine(g, g.low, high, zero, n, g.ram, g.mode) EXCEPT !.ram = d]
        \/ g.mode # 1
    BY <2>3
  <2>5. [Machine(g, g.low, high, zero, n, g.ram, g.mode) EXCEPT !.ram = d] =
          Machine(g, g.low, high, zero, n, d, g.mode)
    BY DEF Machine
  <2>6. mbc1_rom_ram_bank(g, data) =
          IF g.mode = 0 THEN first ELSE IF g.cart.ram <= 1 THEN moved ELSE [moved EXCEPT !.ram = d]
    <3>1. CASE g.mode = 0
      <4>1. g.mode # 1
        BY <3>1
      <4> QED BY <3>1, <4>1 DEF mbc1_rom_ram_bank
    <3>2. CASE g.mode = 1 /\ g.cart.ram <= 1
      <4>1. g.mode # 0 /\ ~ (g.cart.ram > 1)
        BY <3>2, <1>3
      <4>2. mbc1_rom_ram_bank(g, data) = moved
        BY <3>2, <4>1 DEF mbc1_rom_ram_bank
      <4> HIDE DEF first, moved
      <4> QED BY <3>2, <4>1, <4>2
    <3>3. CASE g.mode = 1 /\ ~ (g.cart.ram <= 1)
      <4>1. g.mode # 0 /\ g.cart.ram > 1
        BY <3>3, <1>3
      <4>2. mbc1_rom_ram_bank(g, data) = [moved EXCEPT !.ram = d]
        BY <3>3, <4>1 DEF mbc1_rom_ram_bank
      <4> HIDE DEF first, moved, d
      <4> QED BY <3>3, <4>1, <4>2
    <3> QED BY <1>3, <3>1, <3>2, <3>3
  <2>7. g.cart.ram <= 1 <=> ~ (g.cart.ram > 1)
    BY <1>3
  <2> HIDE DEF first, moved, high, n, rom, d
  <2>8. CASE g.mode = 0
    BY <2>2, <2>6, <2>8
  <2>9. CASE g.mode = 1
    BY <2>3, <2>4, <2>5, <2>6, <2>7, <2>9
  <2> QED BY <2>8, <2>9, <1>3
<1>6. n = (d * 32 + r.bank1) % rom /\ (rom > 31 => high = d % (rom \div 32))
  <2>1. CASE rom > 31
    <3>1. g.low = LowOf(r) /\ NotZero(g.low) = r.bank1
      BY <1>2, <1>3, <2>1 DEF Mbc1Rom, LowOf, NotZero
    <3>2. bank = (d * 32 + r.bank1) % rom /\ bank \div 32 = d % (rom \div 32)
      BY <1>2, <1>3, <2>1, <3>1, Mbc1High
    <3> QED BY <2>1, <3>2
  <2>2. CASE ~ (rom > 31)
    <3>1. rom < 32 /\ g.n = r.bank1 % rom /\ r.bank1 \in 0 .. 31
      BY <1>2, <1>3, <1>4, <2>2
    <3> HIDE DEF d
    <3>2. (d * 32 + r.bank1) % rom = r.bank1 % rom
      BY <1>2, <1>3, <3>1, Mbc1Few
    <3> QED BY <2>2, <3>1, <3>2
  <2> QED BY <2>1, <2>2
<1>7. zero = IF r.mode = 1 THEN (d * 32) % rom ELSE 0
  <2>1. CASE rom > 32
    BY <2>1, <1>3
  <2>2. CASE ~ (rom > 32)
    <3>1. (d * 32) % rom = 0
      <4>1. CASE rom = 32
        BY <4>1, <1>3
      <4>2. CASE rom < 32
        <5>1. 1 \in 0 .. 31
          OBVIOUS
        <5> HIDE DEF d
        <5> QED BY <5>1, <4>2, <1>2, <1>3, Mbc1Few
      <4> QED BY <4>1, <4>2, <1>2, <2>2
    <3> QED BY <2>2, <3>1, <1>3
  <2> QED BY <2>1, <2>2
<1>8. high \in Nat /\ n \in Nat /\ zero \in Nat /\ ramBank \in 0 .. 15
  <2>1. rom \in Nat \ {0} /\ rom \div 32 \in Nat /\ (rom > 31 => rom \div 32 # 0)
    BY <1>2 DEF Mbc1Banks
  <2>2. (d * 32 + r.bank1) % rom \in Nat /\ (d * 32) % rom \in Nat
    <3> DEFINE x == d * 32  y == x + r.bank1
    <3>1. x \in Nat /\ y \in Nat
      BY <1>3
    <3> HIDE DEF x, y
    <3>2. x % rom \in Nat /\ y % rom \in Nat
      BY <2>1, <3>1
    <3> QED BY <3>2 DEF x, y
  <2>3. rom > 31 => d % (rom \div 32) \in Nat
    <3> DEFINE m == rom \div 32
    <3>1. d \in Nat /\ m \in Nat /\ (rom > 31 => m # 0)
      BY <2>1, <1>3
    <3> HIDE DEF m, d
    <3>2. rom > 31 => d % m \in Nat
      BY <3>1
    <3> QED BY <3>2 DEF m
  <2>4. ~ (rom > 31) => high = g.high
    OBVIOUS
  <2>5. g.high \in Nat /\ g.ram \in 0 .. 15
    BY <1>1 DEF GbStates, Nibbles
  <2>6. ramBank \in 0 .. 15
    <3> HIDE DEF d
    <3> QED BY <2>5, <1>3
  <2> HIDE DEF high, n, zero, d
  <2> QED BY <2>2, <2>3, <2>4, <2>5, <2>6, <1>6, <1>7
<1> SUFFICES GbInvOf(h, s)
  BY <1>5 DEF Upper
<1> HIDE DEF high, n, zero, ramBank, d, bank
<1>9. /\ h \in GbStates /\ h.cart = g.cart /\ h.low = g.low /\ h.high = high /\ h.zero = zero
      /\ h.n = n /\ h.ram = ramBank /\ h.on = g.on /\ h.mode = g.mode /\ h.shows = g.shows
      /\ h.data = g.data
  BY <1>1, <1>3, <1>8 DEF GbStates, Machine, Nibbles, GbModes
<1>10. /\ s \in GbRefs /\ s.bank1 = r.bank1 /\ s.bank2 = d /\ s.mode = r.mode /\ s.on = r.on
      /\ s.rtc = r.rtc /\ s.selected = r.selected /\ s.data = r.data
  BY <1>1, <1>3, SMTT(30) DEF GbRefs, Nibbles, GbModes
<1> HIDE DEF h, s
<1>11. Mbc1Rom(h, s)
  <2>1. ~ (rom > 31) => high = g.high
    BY DEF high
  <2> QED BY <2>1, <1>2, <1>3, <1>6, <1>9, <1>10 DEF Mbc1Rom, LowOf
<1>12. RefRomBank(s, g.cart) = n /\ RefZero(s, g.cart) = zero
  BY <1>6, <1>7, <1>10 DEF RefRomBank, RefZero
<1>13. RomInvOf(h, s)
  BY <1>9, <1>11, <1>12 DEF RomInvOf
<1>14. RefRamBank(s, g.cart) = ramBank
  <2>1. RefRamBank(s, g.cart) = IF s.mode = 1 /\ g.cart.ram > 1 THEN s.bank2 ELSE 0
    BY DEF RefRamBank
  <2>2. g.ram = IF r.mode = 1 /\ g.cart.ram > 1 THEN r.bank2 ELSE 0
    BY <1>1 DEF RamInvOf, RefRamBank
  <2> QED BY <2>1, <2>2, <1>3, <1>10 DEF ramBank
<1>15. RamInvOf(h, s)
  BY <1>1, <1>9, <1>10, <1>14 DEF RamInvOf
<1> QED BY <1>9, <1>10, <1>13, <1>15 DEF GbInvOf

\* The mode is changed with the first bank of the upper register, after a bank was
\* selected.
LEMMA Mbc1Mode ==
  ASSUME CartsInBits, NEW g, NEW r, GbInvOf(g, r), g.cart.type = "mbc1", NEW d \in 0 .. 255,
         r.selected = TRUE, r.bank2 = 0
  PROVE  GbInvOf(mbc1_mode_select(g, d), InMode(r, d % 2))
<1> DEFINE rom == g.cart.rom  m == d % 2
           high == IF m = 0 THEN g.high ELSE 0
           n == IF m = 0 THEN g.n ELSE g.low
           h == Machine(g, g.low, high, g.zero, n, 0, m)
           s == [r EXCEPT !.mode = m]
<1>1. g \in GbStates /\ r \in GbRefs /\ RomInvOf(g, r) /\ RamInvOf(g, r)
  BY DEF GbInvOf
<1>2. rom \in Mbc1Banks /\ Mbc1Rom(g, r) /\ rom \in Nat \ {0}
  BY <1>1 DEF CartsInBits, RomInvOf, Mbc1Banks, GbStates
<1>3. m \in {0, 1} /\ r.bank1 \in 1 .. 31 /\ r.selected = TRUE
  BY <1>1, <1>2 DEF Mbc1Rom, GbRefs
<1>4. g.ram = 0
  BY <1>1 DEF RamInvOf, RefRamBank
<1>5. g.high = 0 /\ g.low = r.bank1 % rom /\ g.n = g.low /\ g.zero = 0
  <2>1. (0 * 32 + r.bank1) % rom = r.bank1 % rom /\ (0 * 32) % rom = 0
    BY <1>2, <1>3
  <2>2. g.n = r.bank1 % rom /\ g.zero = 0
    BY <1>1, <2>1 DEF RomInvOf, RefRomBank, RefZero
  <2>3. CASE rom < 32
    BY <1>2, <1>3, <2>2, <2>3 DEF Mbc1Rom
  <2>4. CASE rom > 31
    <3>1. r.bank1 % rom = r.bank1
      BY <1>2, <1>3, <2>4
    <3>2. 0 % (rom \div 32) = 0
      BY <1>2, <2>4 DEF Mbc1Banks
    <3> QED BY <1>2, <1>3, <2>2, <2>4, <3>1, <3>2 DEF Mbc1Rom, LowOf
  <2> QED BY <2>3, <2>4, <1>2
<1>6. mbc1_mode_select(g, d) = h
  <2>1. CASE m = 0
    <3>1. [g EXCEPT !.mode = 0, !.ram = 0] = [[g EXCEPT !.mode = 0] EXCEPT !.ram = 0]
      OBVIOUS
    <3>2. [g EXCEPT !.mode = 0] = Machine(g, g.low, g.high, g.zero, g.n, g.ram, 0)
      BY <1>1, MachineOf
    <3>3. [Machine(g, g.low, g.high, g.zero, g.n, g.ram, 0) EXCEPT !.ram = 0] =
            Machine(g, g.low, g.high, g.zero, g.n, 0, 0)
      BY DEF Machine
    <3> QED BY <2>1, <3>1, <3>2, <3>3 DEF mbc1_mode_select
  <2>2. CASE m = 1
    <3>1. [g EXCEPT !.mode = 1, !.high = 0, !.n = g.low] =
            [[[g EXCEPT !.mode = 1] EXCEPT !.high = 0] EXCEPT !.n = g.low]
      OBVIOUS
    <3>2. [g EXCEPT !.mode = 1] = Machine(g, g.low, g.high, g.zero, g.n, g.ram, 1)
      BY <1>1, MachineOf
    <3>3. [Machine(g, g.low, g.high, g.zero, g.n, g.ram, 1) EXCEPT !.high = 0] =
            Machine(g, g.low, 0, g.zero, g.n, g.ram, 1)
      BY DEF Machine
    <3>4. [Machine(g, g.low, 0, g.zero, g.n, g.ram, 1) EXCEPT !.n = g.low] =
            Machine(g, g.low, 0, g.zero, g.low, g.ram, 1)
      BY DEF Machine
    <3>5. mbc1_mode_select(g, d) = [g EXCEPT !.mode = 1, !.high = 0, !.n = g.low]
      BY <2>2 DEF mbc1_mode_select
    <3>6. high = 0 /\ n = g.low
      BY <2>2
    <3>7. mbc1_mode_select(g, d) = Machine(g, g.low, 0, g.zero, g.low, g.ram, 1)
      BY <3>1, <3>2, <3>3, <3>4, <3>5
    <3> HIDE DEF high, n, m
    <3> QED BY <2>2, <3>6, <3>7, <1>4
  <2> QED BY <2>1, <2>2, <1>3
<1>7. high = g.high /\ n = g.n
  BY <1>5
<1> SUFFICES GbInvOf(h, s)
  BY <1>6 DEF InMode
<1> HIDE DEF high, n, m
<1>8. /\ h \in GbStates /\ h.cart = g.cart /\ h.low = g.low /\ h.high = g.high /\ h.zero = 0
      /\ h.n = g.n /\ h.ram = 0 /\ h.on = g.on /\ h.mode = m /\ h.shows = g.shows
      /\ h.data = g.data
  <2> HIDE DEF h
  <2>1. h = Machine(g, g.low, g.high, 0, g.n, 0, m)
    BY <1>5, <1>7 DEF h
  <2> QED BY <2>1, <1>1, <1>3, SMTT(30) DEF GbStates, Machine, Nibbles, GbModes
<1>9. /\ s \in GbRefs /\ s.bank1 = r.bank1 /\ s.bank2 = 0 /\ s.mode = m /\ s.on = r.on
      /\ s.rtc = r.rtc /\ s.selected = r.selected /\ s.data = r.data
  BY <1>1, <1>3, SMTT(30) DEF GbRefs, Nibbles, GbModes
<1> HIDE DEF h, s
<1>10. Mbc1Rom(h, s)
  BY <1>2, <1>8, <1>9 DEF Mbc1Rom, LowOf
<1>11. RefRomBank(s, g.cart) = g.n /\ RefZero(s, g.cart) = 0
  <2>1. RefRomBank(s, g.cart) = RefRomBank(r, g.cart)
    BY <1>9 DEF RefRomBank
  <2>2. (0 * 32) % rom = 0
    BY <1>2
  <2> QED BY <2>1, <2>2, <1>1, <1>9 DEF RomInvOf, RefZero
<1>12. RomInvOf(h, s)
  BY <1>8, <1>10, <1>11 DEF RomInvOf
<1>13. RefRamBank(s, g.cart) = 0
  BY <1>9 DEF RefRamBank
<1>14. RamInvOf(h, s)
  BY <1>1, <1>8, <1>9, <1>13 DEF RamInvOf
<1> QED BY <1>8, <1>9, <1>12, <1>14 DEF GbInvOf

\* What a write to a register of the ROM changes.
LowBank(g, x, y) == [g EXCEPT !.low = x, !.n = y]
HighBank(g, x, y) == [g EXCEPT !.high = x, !.n = y]

LEMMA SelectingFields ==
  ASSUME NEW r \in GbRefs, NEW x \in Nat
  PROVE  /\ Selecting(r, x) \in GbRefs /\ Selecting(r, x).bank1 = x /\ Selecting(r, x).selected = TRUE
         /\ Selecting(r, x).bank2 = r.bank2 /\ Selecting(r, x).mode = r.mode /\ Selecting(r, x).on = r.on
         /\ Selecting(r, x).rtc = r.rtc /\ Selecting(r, x).data = r.data
<1> DEFINE t == [r EXCEPT !.bank1 = x]  s == Selecting(r, x)
<1>1. /\ t \in GbRefs /\ t.bank1 = x /\ t.bank2 = r.bank2 /\ t.mode = r.mode /\ t.on = r.on
      /\ t.rtc = r.rtc /\ t.data = r.data
  BY DEF GbRefs
<1>2. s = [t EXCEPT !.selected = TRUE]
  BY DEF Selecting
<1> HIDE DEF t, s
<1>3. /\ s \in GbRefs /\ s.bank1 = x /\ s.selected = TRUE /\ s.bank2 = r.bank2 /\ s.mode = r.mode
      /\ s.on = r.on /\ s.rtc = r.rtc /\ s.data = r.data
  BY <1>1, <1>2 DEF GbRefs
<1> QED BY <1>3 DEF s

LEMMA LowBankFields ==
  ASSUME NEW g \in GbStates, NEW x \in Nat, NEW y \in Nat
  PROVE  /\ LowBank(g, x, y) \in GbStates /\ LowBank(g, x, y).cart = g.cart /\ LowBank(g, x, y).low = x
         /\ LowBank(g, x, y).high = g.high /\ LowBank(g, x, y).zero = g.zero /\ LowBank(g, x, y).n = y
         /\ LowBank(g, x, y).ram = g.ram /\ LowBank(g, x, y).on = g.on /\ LowBank(g, x, y).mode = g.mode
         /\ LowBank(g, x, y).shows = g.shows /\ LowBank(g, x, y).data = g.data
<1> DEFINE t == [g EXCEPT !.low = x]  h == LowBank(g, x, y)
<1>1. /\ t \in GbStates /\ t.cart = g.cart /\ t.low = x /\ t.high = g.high /\ t.zero = g.zero
      /\ t.ram = g.ram /\ t.on = g.on /\ t.mode = g.mode /\ t.shows = g.shows /\ t.data = g.data
  BY DEF GbStates
<1>2. h = [t EXCEPT !.n = y]
  BY DEF LowBank
<1> HIDE DEF t, h
<1>3. /\ h \in GbStates /\ h.cart = g.cart /\ h.low = x /\ h.high = g.high /\ h.zero = g.zero /\ h.n = y
      /\ h.ram = g.ram /\ h.on = g.on /\ h.mode = g.mode /\ h.shows = g.shows /\ h.data = g.data
  BY <1>1, <1>2 DEF GbStates
<1> QED BY <1>3 DEF h

LEMMA HighBankFields ==
  ASSUME NEW g \in GbStates, NEW x \in Nat, NEW y \in Nat
  PROVE  /\ HighBank(g, x, y) \in GbStates /\ HighBank(g, x, y).cart = g.cart /\ HighBank(g, x, y).low = g.low
         /\ HighBank(g, x, y).high = x /\ HighBank(g, x, y).zero = g.zero /\ HighBank(g, x, y).n = y
         /\ HighBank(g, x, y).ram = g.ram /\ HighBank(g, x, y).on = g.on /\ HighBank(g, x, y).mode = g.mode
         /\ HighBank(g, x, y).shows = g.shows /\ HighBank(g, x, y).data = g.data
<1> DEFINE t == [g EXCEPT !.high = x]  h == HighBank(g, x, y)
<1>1. /\ t \in GbStates /\ t.cart = g.cart /\ t.low = g.low /\ t.high = x /\ t.zero = g.zero
      /\ t.ram = g.ram /\ t.on = g.on /\ t.mode = g.mode /\ t.shows = g.shows /\ t.data = g.data
  BY DEF GbStates
<1>2. h = [t EXCEPT !.n = y]
  BY DEF HighBank
<1> HIDE DEF t, h
<1>3. /\ h \in GbStates /\ h.cart = g.cart /\ h.low = g.low /\ h.high = x /\ h.zero = g.zero /\ h.n = y
      /\ h.ram = g.ram /\ h.on = g.on /\ h.mode = g.mode /\ h.shows = g.shows /\ h.data = g.data
  BY <1>1, <1>2 DEF GbStates
<1> QED BY <1>3 DEF h

LEMMA Mbc2Bank ==
  ASSUME NEW g, NEW r, GbInvOf(g, r), g.cart.type = "mbc2", NEW d \in 0 .. 255, d % 16 < g.cart.rom
  PROVE  GbInvOf(mbc2_rom_bank(g, d), Selecting(r, NotZero(d % 16)))
<1> DEFINE rom == g.cart.rom  x == d % 16  k == NotZero(x)  h == LowBank(g, k, k)  s == Selecting(r, k)
<1>1. g \in GbStates /\ r \in GbRefs /\ RomInvOf(g, r) /\ rom \in Nat /\ rom > 1
  BY GbAssumption DEF GbInvOf, GbStates
<1>2. x \in Nat /\ x < rom
  OBVIOUS
<1> HIDE DEF x
<1>3. x % rom = x /\ k \in Nat /\ k < rom /\ k % rom = k
  BY <1>1, <1>2 DEF NotZero
<1>4. mbc2_rom_bank(g, d) = h
  <2>1. mbc2_rom_bank(g, d) = LET bank == x % rom  n == IF bank = 0 THEN 1 ELSE bank
                              IN LowBank(g, n, n)
    BY DEF mbc2_rom_bank, LowBank, x
  <2> QED BY <2>1, <1>3 DEF NotZero
<1>5. Selecting(r, NotZero(d % 16)) = s
  BY DEF x
<1> SUFFICES GbInvOf(h, s)
  BY <1>4, <1>5
<1> HIDE DEF k, rom
<1>6. /\ h \in GbStates /\ h.cart = g.cart /\ h.zero = g.zero /\ h.n = k
      /\ h.ram = g.ram /\ h.on = g.on /\ h.mode = g.mode /\ h.shows = g.shows /\ h.data = g.data
  <2>1. g \in GbStates /\ k \in Nat
    BY <1>1, <1>3
  <2> QED BY <2>1, LowBankFields
<1>7. /\ s \in GbRefs /\ s.bank1 = k /\ s.bank2 = r.bank2 /\ s.mode = r.mode /\ s.on = r.on
      /\ s.rtc = r.rtc /\ s.data = r.data
  BY <1>1, <1>3, SelectingFields
<1> HIDE DEF h, s
<1>8. RefRomBank(s, g.cart) = k /\ RefZero(s, g.cart) = RefZero(r, g.cart)
  BY <1>3, <1>7 DEF RefRomBank, RefZero, rom
<1>9. RomInvOf(h, s)
  BY <1>1, <1>6, <1>8 DEF RomInvOf
<1> QED BY <1>6, <1>7, <1>9, RomKeeps

LEMMA Mbc3Bank ==
  ASSUME NEW g, NEW r, GbInvOf(g, r), g.cart.type = "mbc3", NEW data \in 0 .. 255
  PROVE  GbInvOf(mbc3_rom_bank(g, data), Selecting(r, NotZero(data % 128)))
<1> DEFINE rom == g.cart.rom  d == data % 128  k == NotZero(d)  n == IF d = 0 THEN 1 ELSE d % rom
           h == [g EXCEPT !.n = n]  s == Selecting(r, k)
<1>1. g \in GbStates /\ r \in GbRefs /\ RomInvOf(g, r) /\ rom \in Nat /\ rom > 1
  BY GbAssumption DEF GbInvOf, GbStates
<1>2. d \in Nat
  OBVIOUS
<1> HIDE DEF d
<1>3. k \in Nat /\ k % rom = n /\ n \in Nat
  BY <1>1, <1>2 DEF NotZero
<1>4. mbc3_rom_bank(g, data) = h
  BY DEF mbc3_rom_bank, d
<1>5. Selecting(r, NotZero(data % 128)) = s
  BY DEF d
<1> SUFFICES GbInvOf(h, s)
  BY <1>4, <1>5
<1> HIDE DEF k, n, rom
<1>6. /\ h \in GbStates /\ h.cart = g.cart /\ h.zero = g.zero /\ h.n = n
      /\ h.ram = g.ram /\ h.on = g.on /\ h.mode = g.mode /\ h.shows = g.shows /\ h.data = g.data
  BY <1>1, <1>3, SMTT(30) DEF GbStates
<1>7. /\ s \in GbRefs /\ s.bank1 = k /\ s.bank2 = r.bank2 /\ s.mode = r.mode /\ s.on = r.on
      /\ s.rtc = r.rtc /\ s.data = r.data
  BY <1>1, <1>3, SelectingFields
<1> HIDE DEF h, s
<1>8. RefRomBank(s, g.cart) = n /\ RefZero(s, g.cart) = RefZero(r, g.cart)
  BY <1>3, <1>7 DEF RefRomBank, RefZero, rom
<1>9. RomInvOf(h, s)
  BY <1>1, <1>6, <1>8 DEF RomInvOf
<1> QED BY <1>6, <1>7, <1>9, RomKeeps

LEMMA Mbc5Lower ==
  ASSUME NEW g, NEW r, GbInvOf(g, r), g.cart.type = "mbc5", NEW d \in 0 .. 255
  PROVE  GbInvOf(mbc5_rom_bank_lower(g, d),
                 Selecting(r, (r.bank1 \div 256) * 256 + d))
<1> DEFINE rom == g.cart.rom  k == g.high * 256 + d  n == k % rom
           h == LowBank(g, d, n)  s == Selecting(r, k)
<1>1. g \in GbStates /\ r \in GbRefs /\ RomInvOf(g, r) /\ Mbc5Rom(g, r) /\ rom \in Nat /\ rom > 1
  BY GbAssumption DEF GbInvOf, GbStates, RomInvOf
<1>2. (r.bank1 \div 256) * 256 + d = k /\ k \in Nat
  <2>1. r.bank1 \div 256 = g.high /\ g.high \in {0, 1}
    <3>1. g.low \in 0 .. 255 /\ (g.high = 0 \/ g.high = 1)
      BY <1>1 DEF Mbc5Rom
    <3>2. CASE r.selected
      <4>1. r.bank1 = g.high * 256 + g.low
        BY <1>1, <3>2 DEF Mbc5Rom
      <4> QED BY <3>1, <4>1
    <3>3. CASE ~ r.selected
      <4>1. r.bank1 = 1 /\ g.high = 0
        BY <1>1, <3>3 DEF Mbc5Rom
      <4> QED BY <4>1
    <3> QED BY <3>1, <3>2, <3>3
  <2> QED BY <2>1
<1>3. n \in Nat
  <2> HIDE DEF k
  <2> QED BY <1>1, <1>2
<1>4. mbc5_rom_bank_lower(g, d) = h
  BY DEF mbc5_rom_bank_lower, LowBank
<1>5. Selecting(r, (r.bank1 \div 256) * 256 + d) = s
  BY <1>2
<1> SUFFICES GbInvOf(h, s)
  BY <1>4, <1>5
<1> HIDE DEF n, rom
<1>6. /\ h \in GbStates /\ h.cart = g.cart /\ h.low = d /\ h.high = g.high /\ h.zero = g.zero /\ h.n = n
      /\ h.ram = g.ram /\ h.on = g.on /\ h.mode = g.mode /\ h.shows = g.shows /\ h.data = g.data
  <2>1. g \in GbStates /\ d \in Nat /\ n \in Nat
    BY <1>1, <1>3
  <2> HIDE DEF k, s
  <2>2. h = LowBank(g, d, n)
    OBVIOUS
  <2> HIDE DEF h
  <2> QED BY <2>1, <2>2, LowBankFields
<1>7. /\ s \in GbRefs /\ s.bank1 = k /\ s.bank2 = r.bank2 /\ s.mode = r.mode /\ s.on = r.on
      /\ s.rtc = r.rtc /\ s.data = r.data /\ s.selected = TRUE
  <2>1. r \in GbRefs /\ k \in Nat
    BY <1>1, <1>2
  <2> HIDE DEF k
  <2> QED BY <2>1, SelectingFields
<1> HIDE DEF h, s
<1>8. RefRomBank(s, g.cart) = n /\ RefZero(s, g.cart) = RefZero(r, g.cart)
  BY <1>7 DEF RefRomBank, RefZero, rom, n
<1>9. RomInvOf(h, s)
  BY <1>1, <1>6, <1>7, <1>8 DEF RomInvOf, Mbc5Rom
<1> QED BY <1>6, <1>7, <1>9, RomKeeps

LEMMA Mbc5Upper ==
  ASSUME NEW g, NEW r, GbInvOf(g, r), g.cart.type = "mbc5", NEW d \in 0 .. 255, r.selected = TRUE
  PROVE  GbInvOf(mbc5_rom_bank_upper(g, d),
                 Selecting(r, (d % 2) * 256 + (r.bank1 % 256)))
<1> DEFINE rom == g.cart.rom  k == (d % 2) * 256 + g.low  n == k % rom
           h == HighBank(g, d % 2, n)  s == Selecting(r, k)
<1>1. g \in GbStates /\ r \in GbRefs /\ RomInvOf(g, r) /\ Mbc5Rom(g, r) /\ rom \in Nat /\ rom > 1
  BY GbAssumption DEF GbInvOf, GbStates, RomInvOf
<1>2. r.bank1 % 256 = g.low /\ k \in Nat /\ d % 2 \in {0, 1} /\ g.low \in 0 .. 255
  <2>1. g.low \in 0 .. 255 /\ (g.high = 0 \/ g.high = 1) /\ r.bank1 = g.high * 256 + g.low
    BY <1>1 DEF Mbc5Rom
  <2> QED BY <2>1
<1>3. n \in Nat
  <2> HIDE DEF k
  <2> QED BY <1>1, <1>2
<1>4. mbc5_rom_bank_upper(g, d) = h
  BY DEF mbc5_rom_bank_upper, HighBank
<1>5. Selecting(r, (d % 2) * 256 + (r.bank1 % 256)) = s
  BY <1>2
<1> SUFFICES GbInvOf(h, s)
  BY <1>4, <1>5
<1> HIDE DEF n, rom
<1>6. /\ h \in GbStates /\ h.cart = g.cart /\ h.low = g.low /\ h.high = d % 2 /\ h.zero = g.zero /\ h.n = n
      /\ h.ram = g.ram /\ h.on = g.on /\ h.mode = g.mode /\ h.shows = g.shows /\ h.data = g.data
  <2> DEFINE x == d % 2
  <2>1. g \in GbStates /\ x \in Nat /\ n \in Nat
    BY <1>1, <1>3
  <2> HIDE DEF x
  <2>2. /\ HighBank(g, x, n) \in GbStates /\ HighBank(g, x, n).cart = g.cart /\ HighBank(g, x, n).low = g.low
        /\ HighBank(g, x, n).high = x /\ HighBank(g, x, n).zero = g.zero /\ HighBank(g, x, n).n = n
        /\ HighBank(g, x, n).ram = g.ram /\ HighBank(g, x, n).on = g.on /\ HighBank(g, x, n).mode = g.mode
        /\ HighBank(g, x, n).shows = g.shows /\ HighBank(g, x, n).data = g.data
    BY <2>1, HighBankFields
  <2> QED BY <2>2 DEF x
<1>7. /\ s \in GbRefs /\ s.bank1 = k /\ s.bank2 = r.bank2 /\ s.mode = r.mode /\ s.on = r.on
      /\ s.rtc = r.rtc /\ s.data = r.data /\ s.selected = TRUE
  <2>1. r \in GbRefs /\ k \in Nat
    BY <1>1, <1>2
  <2> HIDE DEF k
  <2> QED BY <2>1, SelectingFields
<1> HIDE DEF h, s
<1>8. RefRomBank(s, g.cart) = n /\ RefZero(s, g.cart) = RefZero(r, g.cart)
  BY <1>7 DEF RefRomBank, RefZero, rom, n
<1>9. RomInvOf(h, s)
  <2>1. h.cart.type = "mbc5" /\ h.n = RefRomBank(s, h.cart) /\ h.zero = RefZero(s, h.cart)
    BY <1>1, <1>6, <1>8 DEF RomInvOf
  <2>2. s.bank1 = h.high * 256 + h.low /\ h.low \in 0 .. 255 /\ h.high \in 0 .. 1
    BY <1>2, <1>6, <1>7
  <2>3. Mbc5Rom(h, s)
    BY <2>2, <1>7 DEF Mbc5Rom
  <2> QED BY <2>1, <2>3 DEF RomInvOf
<1> QED BY <1>6, <1>7, <1>9, RomKeeps

\* A change of the bank of RAM, or of what is shown in its place.
LEMMA RamKeeps ==
  ASSUME NEW g, NEW r, GbInvOf(g, r), g.cart.type \in {"mbc3", "mbc5"},
         NEW h \in GbStates, NEW s \in GbRefs,
         h.cart = g.cart, h.low = g.low, h.high = g.high, h.zero = g.zero, h.n = g.n, h.on = g.on,
         h.data = g.data, s.bank1 = r.bank1, s.selected = r.selected, s.on = r.on, s.data = r.data,
         h.ram = s.bank2, s.rtc = (h.shows = "rtc")
  PROVE  GbInvOf(h, s)
<1>1. g \in GbStates /\ r \in GbRefs /\ RomInvOf(g, r) /\ RamInvOf(g, r)
  BY DEF GbInvOf
<1>2. RefRomBank(s, g.cart) = RefRomBank(r, g.cart) /\ RefZero(s, g.cart) = RefZero(r, g.cart)
  BY DEF RefRomBank, RefZero
<1>3. RomInvOf(h, s)
  BY <1>1, <1>2 DEF RomInvOf, Mbc5Rom
<1>4. RefRamBank(s, g.cart) = s.bank2
  BY DEF RefRamBank
<1>5. RamInvOf(h, s)
  BY <1>1, <1>4 DEF RamInvOf
<1> QED BY <1>3, <1>5 DEF GbInvOf

Showing(g, d) == [g EXCEPT !.ram = d, !.shows = "ram"]
Banked(r, d) == [r EXCEPT !.bank2 = d, !.rtc = FALSE]

LEMMA ShowingFields ==
  ASSUME NEW g \in GbStates, NEW r \in GbRefs, NEW d \in 0 .. 15
  PROVE  /\ Showing(g, d) \in GbStates /\ Showing(g, d).cart = g.cart /\ Showing(g, d).low = g.low
         /\ Showing(g, d).high = g.high /\ Showing(g, d).zero = g.zero /\ Showing(g, d).n = g.n
         /\ Showing(g, d).ram = d /\ Showing(g, d).on = g.on /\ Showing(g, d).mode = g.mode
         /\ Showing(g, d).shows = "ram" /\ Showing(g, d).data = g.data
         /\ Banked(r, d) \in GbRefs /\ Banked(r, d).bank1 = r.bank1 /\ Banked(r, d).bank2 = d
         /\ Banked(r, d).mode = r.mode /\ Banked(r, d).on = r.on /\ ~ Banked(r, d).rtc
         /\ Banked(r, d).selected = r.selected /\ Banked(r, d).data = r.data
<1> DEFINE t == [g EXCEPT !.ram = d]  h == Showing(g, d)  u == [r EXCEPT !.bank2 = d]  s == Banked(r, d)
<1>1. /\ t \in GbStates /\ t.cart = g.cart /\ t.low = g.low /\ t.high = g.high /\ t.zero = g.zero
      /\ t.n = g.n /\ t.ram = d /\ t.on = g.on /\ t.mode = g.mode /\ t.data = g.data
  BY DEF GbStates, Nibbles
<1>2. h = [t EXCEPT !.shows = "ram"]
  BY DEF Showing
<1>3. /\ u \in GbRefs /\ u.bank1 = r.bank1 /\ u.bank2 = d /\ u.mode = r.mode /\ u.on = r.on
      /\ u.selected = r.selected /\ u.data = r.data
  BY DEF GbRefs, Nibbles
<1>4. s = [u EXCEPT !.rtc = FALSE]
  BY DEF Banked
<1> HIDE DEF t, h, u, s
<1>5. /\ h \in GbStates /\ h.cart = g.cart /\ h.low = g.low /\ h.high = g.high /\ h.zero = g.zero /\ h.n = g.n
      /\ h.ram = d /\ h.on = g.on /\ h.mode = g.mode /\ h.shows = "ram" /\ h.data = g.data
  BY <1>1, <1>2 DEF GbStates, GbSources
<1>6. /\ s \in GbRefs /\ s.bank1 = r.bank1 /\ s.bank2 = d /\ s.mode = r.mode /\ s.on = r.on /\ ~ s.rtc
      /\ s.selected = r.selected /\ s.data = r.data
  BY <1>3, <1>4, ZenonT(30) DEF GbRefs
<1> QED BY <1>5, <1>6 DEF h, s

LEMMA Mbc3Ram ==
  ASSUME NEW g, NEW r, GbInvOf(g, r), g.cart.type = "mbc3", NEW d \in 0 .. 255
  PROVE  GbInvOf(mbc3_ram_bank(g, d),
                 ClockOrRam(r, d))
<1>1. g \in GbStates /\ r \in GbRefs /\ RamInvOf(g, r) /\ g.ram = r.bank2
  BY DEF GbInvOf, RamInvOf, RefRamBank
<1>2. CASE d \in 0 .. 3
  <2> DEFINE h == Showing(g, d)  s == Banked(r, d)
  <2>1. mbc3_ram_bank(g, d) = h /\ ClockOrRam(r, d) = s
    BY <1>2 DEF mbc3_ram_bank, Showing, Banked, ClockOrRam
  <2>2. /\ h \in GbStates /\ h.cart = g.cart /\ h.low = g.low /\ h.high = g.high /\ h.zero = g.zero
        /\ h.n = g.n /\ h.ram = d /\ h.on = g.on /\ h.shows = "ram" /\ h.data = g.data
        /\ s \in GbRefs /\ s.bank1 = r.bank1 /\ s.bank2 = d /\ s.on = r.on /\ ~ s.rtc
        /\ s.selected = r.selected /\ s.data = r.data
    <3>1. g \in GbStates /\ r \in GbRefs /\ d \in 0 .. 15
      BY <1>1, <1>2
    <3> QED BY <3>1, ShowingFields
  <2>3. s.rtc \in BOOLEAN
    BY <2>2 DEF GbRefs
  <2> HIDE DEF h, s
  <2>4. s.rtc = (h.shows = "rtc")
    BY <2>2, <2>3
  <2>5. GbInvOf(h, s)
    BY <2>2, <2>4, RamKeeps
  <2> QED BY <1>2, <2>1, <2>5
<1>3. CASE d \in 8 .. 12
  <2> DEFINE h == [g EXCEPT !.shows = "rtc"]  s == [r EXCEPT !.rtc = TRUE]
  <2>1. mbc3_ram_bank(g, d) = h /\ ClockOrRam(r, d) = s
    BY <1>3 DEF mbc3_ram_bank, ClockOrRam
  <2>2. /\ h \in GbStates /\ h.cart = g.cart /\ h.low = g.low /\ h.high = g.high /\ h.zero = g.zero
        /\ h.n = g.n /\ h.ram = g.ram /\ h.on = g.on /\ h.shows = "rtc" /\ h.data = g.data
    BY <1>1 DEF GbStates, GbSources
  <2>3. /\ s \in GbRefs /\ s.bank1 = r.bank1 /\ s.bank2 = r.bank2 /\ s.on = r.on /\ s.rtc
        /\ s.selected = r.selected /\ s.data = r.data
    BY <1>1 DEF GbRefs
  <2>4. s.rtc \in BOOLEAN
    BY <2>3 DEF GbRefs
  <2>5. GbInvOf(h, s)
    <3> HIDE DEF h, s
    <3>1. s.rtc = (h.shows = "rtc")
      BY <2>2, <2>3, <2>4
    <3> QED BY <1>1, <2>2, <2>3, <3>1, RamKeeps
  <2> QED BY <1>3, <2>1, <2>5
<1>4. CASE d \notin 0 .. 3 /\ d \notin 8 .. 12
  <2>1. mbc3_ram_bank(g, d) = g /\ ClockOrRam(r, d) = r
    BY <1>4 DEF mbc3_ram_bank, ClockOrRam
  <2> QED BY <1>4, <2>1
<1> QED BY <1>2, <1>3, <1>4

LEMMA Mbc5Ram ==
  ASSUME NEW g, NEW r, GbInvOf(g, r), g.cart.type = "mbc5", NEW d \in 0 .. 255
  PROVE  GbInvOf(mbc5_ram_bank(g, d), Upper(r, d % 16))
<1> DEFINE x == d % 16  h == [g EXCEPT !.ram = x]  s == [r EXCEPT !.bank2 = x]
<1>1. g \in GbStates /\ r \in GbRefs /\ RamInvOf(g, r) /\ x \in 0 .. 15
  BY DEF GbInvOf
<1>2. mbc5_ram_bank(g, d) = h
  BY DEF mbc5_ram_bank
<1> HIDE DEF x
<1>3. /\ h \in GbStates /\ h.cart = g.cart /\ h.low = g.low /\ h.high = g.high /\ h.zero = g.zero
      /\ h.n = g.n /\ h.ram = x /\ h.on = g.on /\ h.shows = g.shows /\ h.data = g.data
  BY <1>1 DEF GbStates, Nibbles
<1>4. /\ s \in GbRefs /\ s.bank1 = r.bank1 /\ s.bank2 = x /\ s.on = r.on /\ s.rtc = r.rtc
      /\ s.selected = r.selected /\ s.data = r.data
  BY <1>1 DEF GbRefs, Nibbles
<1>5. r.rtc = (g.shows = "rtc")
  BY <1>1 DEF RamInvOf
<1>6. GbInvOf(h, s)
  <2> HIDE DEF h, s
  <2>1. s.rtc = (h.shows = "rtc")
    BY <1>3, <1>4, <1>5
  <2> QED BY <1>3, <1>4, <2>1, RamKeeps
<1> QED BY <1>2, <1>6 DEF x, Upper

\* The two values of the register that matter, and all others.
LEMMA EnabledIs ==
  ASSUME NEW r, NEW c, c.type # "mbc5", NEW d \in 0 .. 255
  PROVE  /\ d % 16 = 10 => RefEnabled(r, c, d) = TRUE
         /\ d % 16 = 0 => RefEnabled(r, c, d) = FALSE
         /\ d % 16 # 10 /\ d % 16 # 0 => RefEnabled(r, c, d) = r.on
<1> DEFINE x == d % 16
<1>1. RefEnabled(r, c, d) = CASE x = 10 -> TRUE [] x = 0 -> FALSE [] OTHER -> r.on
  BY Zenon DEF RefEnabled
<1>2. x = 0 => x # 10
  OBVIOUS
<1> HIDE DEF x
<1>3. /\ x = 10 => RefEnabled(r, c, d) = TRUE
      /\ x = 0 => RefEnabled(r, c, d) = FALSE
      /\ x # 10 /\ x # 0 => RefEnabled(r, c, d) = r.on
  BY <1>1, <1>2, Zenon
<1> QED BY <1>3 DEF x

LEMMA EnableIs ==
  ASSUME NEW g, NEW d \in 0 .. 255
  PROVE  /\ d % 16 = 10 => mbc_write_ram_enable(g, d) = On(g, TRUE)
         /\ d % 16 = 0 => mbc_write_ram_enable(g, d) = On(g, FALSE)
         /\ d % 16 # 10 /\ d % 16 # 0 => mbc_write_ram_enable(g, d) = g
<1> DEFINE x == d % 16
<1>1. mbc_write_ram_enable(g, d) = CASE x = 0 -> On(g, FALSE) [] x = 10 -> On(g, TRUE) [] OTHER -> g
  BY Zenon DEF mbc_write_ram_enable, On
<1>2. x = 0 => x # 10
  OBVIOUS
<1> HIDE DEF x
<1>3. /\ x = 10 => mbc_write_ram_enable(g, d) = On(g, TRUE)
      /\ x = 0 => mbc_write_ram_enable(g, d) = On(g, FALSE)
      /\ x # 10 /\ x # 0 => mbc_write_ram_enable(g, d) = g
  BY <1>1, <1>2, Zenon
<1> QED BY <1>3 DEF x

LEMMA EnabledBoolean ==
  ASSUME NEW r \in GbRefs, NEW c, c.type # "mbc5", NEW d \in 0 .. 255
  PROVE  RefEnabled(r, c, d) \in BOOLEAN
<1>1. r.on \in BOOLEAN
  BY DEF GbRefs
<1>2. RefEnabled(r, c, d) = TRUE \/ RefEnabled(r, c, d) = FALSE \/ RefEnabled(r, c, d) = r.on
  BY EnabledIs, Zenon
<1> QED BY <1>1, <1>2, Zenon

LEMMA EnableWrites ==
  ASSUME NEW g, NEW r, GbInvOf(g, r), g.cart.type \in {"mbc1", "mbc2", "mbc3"}, NEW d \in 0 .. 255
  PROVE  GbInvOf(mbc_write_ram_enable(g, d), On(r, RefEnabled(r, g.cart, d)))
<1> DEFINE y == RefEnabled(r, g.cart, d)
<1>0. g.cart.type # "mbc5"
  OBVIOUS
<1>1. g \in GbStates /\ r \in GbRefs /\ g.on = r.on
  BY DEF GbInvOf, RamInvOf
<1>3. y \in BOOLEAN
  BY <1>0, <1>1, EnabledBoolean
<1>4. mbc_write_ram_enable(g, d) = On(g, y)
  <2>1. CASE d % 16 = 0
    BY <1>0, <2>1, EnabledIs, EnableIs, Zenon
  <2>2. CASE d % 16 = 10
    BY <1>0, <2>2, EnabledIs, EnableIs, Zenon
  <2>3. CASE d % 16 # 0 /\ d % 16 # 10
    <3>1. y = g.on /\ mbc_write_ram_enable(g, d) = g
      BY <1>0, <1>1, <2>3, EnabledIs, EnableIs, Zenon
    <3>2. On(g, g.on) = g
      BY <1>1 DEF On, GbStates
    <3> QED BY <3>1, <3>2
  <2> QED BY <2>1, <2>2, <2>3
<1> HIDE DEF y
<1>5. GbInvOf(On(g, y), On(r, y))
  BY <1>3, EnableKeeps
<1> QED BY <1>4, <1>5 DEF y

\* A cartridge without a bank controller takes no notice.
LEMMA RomIgnores ==
  ASSUME NEW g, NEW r, GbInvOf(g, r), g.cart.type = "rom", NEW s \in GbRefs, s.bank1 = r.bank1
  PROVE  GbInvOf(g, s)
<1>1. RomInvOf(g, r) /\ g \in GbStates
  BY DEF GbInvOf
<1>2. RefRomBank(s, g.cart) = RefRomBank(r, g.cart) /\ RefZero(s, g.cart) = RefZero(r, g.cart)
  BY DEF RefRomBank, RefZero
<1>3. RomInvOf(g, s)
  BY <1>1, <1>2 DEF RomInvOf
<1> QED BY <1>1, <1>3 DEF GbInvOf, RamInvOf

LEMMA GbWriteKeeps ==
  ASSUME CartsInBits, NEW g, NEW r, GbInvOf(g, r), NEW part \in Parts, NEW d \in 0 .. 255,
         GbUsualFor(g.cart, r, part, d)
  PROVE  GbInvOf(gb_write(g, part, d), RefWrite(r, g.cart, part, d))
<1> DEFINE c == g.cart  h == gb_write(g, part, d)  s == RefWrite(r, c, part, d)
<1>1. g \in GbStates /\ r \in GbRefs /\ c \in GbCarts /\ c.type \in {"rom", "mbc1", "mbc2", "mbc3", "mbc5"}
  BY GbAssumption DEF GbInvOf, GbStates
<1>2. part \in {"0000", "2000", "3000", "4000", "6000", "A000"}
  BY DEF Parts
<1>3. CASE c.type = "rom"
  <2>1. h = g
    BY <1>3 DEF gb_write
  <2>2. s \in GbRefs /\ s.bank1 = r.bank1
    <3>1. CASE part = "0000"
      <4>1. s = [r EXCEPT !.on = RefEnabled(r, c, d)]
        BY <3>1 DEF RefWrite
      <4>2. RefEnabled(r, c, d) \in BOOLEAN
        BY <1>1, <1>3, EnabledBoolean
      <4> HIDE DEF s
      <4> QED BY <4>1, <4>2, <1>1 DEF GbRefs
    <3>2. CASE part \in {"2000", "3000"}
      <4>1. s = Selecting(r, r.bank1)
        BY <3>2, <1>3 DEF RefWrite, RefBank1, Selecting
      <4>2. r.bank1 \in Nat
        BY <1>1 DEF GbRefs
      <4> HIDE DEF s
      <4> QED BY <4>1, <4>2, <1>1, SelectingFields
    <3>3. CASE part \in {"4000", "6000", "A000"}
      <4>1. s = r
        BY <3>3, <1>3 DEF RefWrite
      <4> QED BY <4>1, <1>1
    <3> QED BY <3>1, <3>2, <3>3, <1>2
  <2> HIDE DEF s, h
  <2> QED BY <2>1, <2>2, <1>3, RomIgnores DEF h, s
<1>4. CASE c.type = "mbc1"
  <2>0. h = gb_write_mbc1(g, part, d)
    BY <1>4 DEF gb_write
  <2>1. CASE part = "0000"
    <3>1. h = mbc_write_ram_enable(g, d) /\ s = On(r, RefEnabled(r, c, d))
      BY <2>0, <2>1 DEF gb_write_mbc1, RefWrite, On
    <3> QED BY <3>1, <1>4, EnableWrites
  <2>2. CASE part \in {"2000", "3000"}
    <3>1. h = mbc1_rom_bank(g, d) /\ s = Selecting(r, NotZero(d % 32))
      BY <2>0, <2>2, <1>4 DEF gb_write_mbc1, RefWrite, RefBank1, Selecting
    <3> QED BY <3>1, <1>4, Mbc1Bank
  <2>3. CASE part = "4000"
    <3>1. h = mbc1_rom_ram_bank(g, d) /\ s = Upper(r, d % 4)
      BY <2>0, <2>3, <1>4 DEF gb_write_mbc1, RefWrite, Upper
    <3> QED BY <3>1, <1>4, Mbc1Upper
  <2>4. CASE part = "6000"
    <3>1. h = mbc1_mode_select(g, d) /\ s = InMode(r, d % 2)
      BY <2>0, <2>4, <1>4 DEF gb_write_mbc1, RefWrite, InMode
    <3>2. r.selected = TRUE /\ r.bank2 = 0
      BY <2>4, <1>1 DEF GbUsualFor, GbRefs
    <3> QED BY <3>1, <3>2, <1>4, Mbc1Mode
  <2>5. CASE part = "A000"
    <3>1. h = Stored(g, d) /\ s = StoredRef(r, c, d)
      BY <2>0, <2>5, <1>4 DEF gb_write_mbc1, RefWrite, StoredRef
    <3> QED BY <3>1, <1>4, StoreKeeps
  <2> QED BY <2>1, <2>2, <2>3, <2>4, <2>5, <1>2
<1>5. CASE c.type = "mbc2"
  <2>0. h = gb_write_mbc2(g, part, d)
    BY <1>5 DEF gb_write
  <2>1. CASE part \in {"0000", "2000"}
    <3>1. h = mbc_write_ram_enable(g, d) /\ s = On(r, RefEnabled(r, c, d))
      BY <2>0, <2>1, <1>5 DEF gb_write_mbc2, RefWrite, On
    <3> QED BY <3>1, <1>5, EnableWrites
  <2>2. CASE part = "3000"
    <3>1. h = mbc2_rom_bank(g, d) /\ s = Selecting(r, NotZero(d % 16))
      BY <2>0, <2>2, <1>5 DEF gb_write_mbc2, RefWrite, RefBank1, Selecting
    <3>2. d % 16 < g.cart.rom
      BY <2>2, <1>5 DEF GbUsualFor
    <3> QED BY <3>1, <3>2, <1>5, Mbc2Bank
  <2>3. CASE part \in {"4000", "6000"}
    <3>1. h = g /\ s = r
      BY <2>0, <2>3, <1>5 DEF gb_write_mbc2, RefWrite
    <3> QED BY <3>1
  <2>4. CASE part = "A000"
    <3> DEFINE x == d % 16
    <3>1. h = Stored(g, x) /\ s = StoredRef(r, c, x)
      BY <2>0, <2>4, <1>5 DEF gb_write_mbc2, RefWrite, StoredRef
    <3>2. x \in 0 .. 255 /\ x < 16
      OBVIOUS
    <3> HIDE DEF x
    <3> QED BY <3>1, <3>2, <1>5, StoreKeeps
  <2> QED BY <2>1, <2>2, <2>3, <2>4, <1>2
<1>6. CASE c.type = "mbc3"
  <2>0. h = gb_write_mbc3(g, part, d)
    BY <1>6 DEF gb_write
  <2>1. CASE part = "0000"
    <3>1. h = mbc_write_ram_enable(g, d) /\ s = On(r, RefEnabled(r, c, d))
      BY <2>0, <2>1, <1>6 DEF gb_write_mbc3, RefWrite, On
    <3> QED BY <3>1, <1>6, EnableWrites
  <2>2. CASE part \in {"2000", "3000"}
    <3>1. h = mbc3_rom_bank(g, d) /\ s = Selecting(r, NotZero(d % 128))
      BY <2>0, <2>2, <1>6 DEF gb_write_mbc3, RefWrite, RefBank1, Selecting
    <3> QED BY <3>1, <1>6, Mbc3Bank
  <2>3. CASE part = "4000"
    <3>1. h = mbc3_ram_bank(g, d) /\ s = ClockOrRam(r, d)
      BY <2>0, <2>3, <1>6 DEF gb_write_mbc3, RefWrite, ClockOrRam
    <3> QED BY <3>1, <1>6, Mbc3Ram
  <2>4. CASE part = "6000"
    <3>1. h = g /\ s = r
      BY <2>0, <2>4, <1>6 DEF gb_write_mbc3, RefWrite
    <3> QED BY <3>1
  <2>5. CASE part = "A000"
    <3>1. h = Stored(g, d) /\ s = StoredRef(r, c, d)
      BY <2>0, <2>5, <1>6 DEF gb_write_mbc3, RefWrite, StoredRef
    <3> QED BY <3>1, <1>6, StoreKeeps
  <2> QED BY <2>1, <2>2, <2>3, <2>4, <2>5, <1>2
<1>7. CASE c.type = "mbc5"
  <2>0. h = gb_write_mbc5(g, part, d)
    BY <1>7 DEF gb_write
  <2>1. CASE part = "0000"
    <3> DEFINE y == d = 10
    <3>1. h = On(g, y) /\ s = On(r, y)
      BY <2>0, <2>1, <1>7 DEF gb_write_mbc5, mbc5_ram_enable, RefWrite, RefEnabled, On
    <3>2. y \in BOOLEAN
      OBVIOUS
    <3> HIDE DEF y
    <3> QED BY <3>1, <3>2, EnableKeeps
  <2>2. CASE part = "2000"
    <3>1. h = mbc5_rom_bank_lower(g, d) /\ s = Selecting(r, (r.bank1 \div 256) * 256 + d)
      BY <2>0, <2>2, <1>7 DEF gb_write_mbc5, RefWrite, RefBank1, Selecting
    <3> QED BY <3>1, <1>7, Mbc5Lower
  <2>3. CASE part = "3000"
    <3>1. h = mbc5_rom_bank_upper(g, d) /\ s = Selecting(r, (d % 2) * 256 + (r.bank1 % 256))
      BY <2>0, <2>3, <1>7 DEF gb_write_mbc5, RefWrite, RefBank1, Selecting
    <3>2. r.selected = TRUE
      BY <2>3, <1>1, <1>7 DEF GbUsualFor, GbRefs
    <3> HIDE DEF h, s
    <3>3. GbInvOf(mbc5_rom_bank_upper(g, d), Selecting(r, (d % 2) * 256 + (r.bank1 % 256)))
      BY <3>2, <1>7, Mbc5Upper, ZenonT(40)
    <3>4. GbInvOf(h, s)
      BY <3>1, <3>3
    <3> QED BY <3>4 DEF h, s
  <2>4. CASE part = "4000"
    <3>1. h = mbc5_ram_bank(g, d) /\ s = Upper(r, d % 16)
      BY <2>0, <2>4, <1>7 DEF gb_write_mbc5, RefWrite, Upper
    <3> QED BY <3>1, <1>7, Mbc5Ram
  <2>5. CASE part = "6000"
    <3>1. h = g /\ s = r
      BY <2>0, <2>5, <1>7 DEF gb_write_mbc5, RefWrite
    <3> QED BY <3>1
  <2>6. CASE part = "A000"
    <3>1. h = Stored(g, d) /\ s = StoredRef(r, c, d)
      BY <2>0, <2>6, <1>7 DEF gb_write_mbc5, RefWrite, StoredRef
    <3> QED BY <3>1, <1>7, StoreKeeps
  <2> QED BY <2>1, <2>2, <2>3, <2>4, <2>5, <2>6, <1>2
<1> QED BY <1>1, <1>3, <1>4, <1>5, <1>6, <1>7

-----------------------------------------------------------------------------
(***************************************************************************)
(* The checksum of the memory pak. Bits(c) is a byte as a polynomial;      *)
(* a round of the loop is Shift, the multiplication by x, with the bit of  *)
(* the stream added. Shift takes sums to sums and Power(n) to Power(n+1),  *)
(* so that what the loop has after k bits is the sum of Power(k - j) over  *)
(* the bits j that are set.                                                *)
(***************************************************************************)
Bits(c) == {e \in 0 .. 7 : Bit(c, e) = 1}
OneIf(b) == IF b = 1 THEN {0} ELSE {}
Shift(a) ==
  LET up == {e + 1 : e \in a} IN IF 8 \in up THEN Difference(up, {8, 7, 2, 0}) ELSE up

LEMMA BitsMake ==
  ASSUME NEW c \in 0 .. 255
  PROVE  /\ \A e \in 0 .. 7 : Bit(c, e) \in {0, 1}
         /\ c = Bit(c, 7) * 128 + Bit(c, 6) * 64 + Bit(c, 5) * 32 + Bit(c, 4) * 16
                + Bit(c, 3) * 8 + Bit(c, 2) * 4 + Bit(c, 1) * 2 + Bit(c, 0)
<1>1. /\ Bit(c, 0) = c % 2 /\ Bit(c, 1) = (c \div 2) % 2 /\ Bit(c, 2) = (c \div 4) % 2
      /\ Bit(c, 3) = (c \div 8) % 2 /\ Bit(c, 4) = (c \div 16) % 2 /\ Bit(c, 5) = (c \div 32) % 2
      /\ Bit(c, 6) = (c \div 64) % 2 /\ Bit(c, 7) = (c \div 128) % 2
  BY DEF Bit
<1>2. /\ Bit(c, 0) \in {0, 1} /\ Bit(c, 1) \in {0, 1} /\ Bit(c, 2) \in {0, 1} /\ Bit(c, 3) \in {0, 1}
      /\ Bit(c, 4) \in {0, 1} /\ Bit(c, 5) \in {0, 1} /\ Bit(c, 6) \in {0, 1} /\ Bit(c, 7) \in {0, 1}
  BY <1>1
<1>3. \A e \in 0 .. 7 : Bit(c, e) \in {0, 1}
  <2>1. ASSUME NEW e \in 0 .. 7 PROVE Bit(c, e) \in {0, 1}
    <3>1. e = 0 \/ e = 1 \/ e = 2 \/ e = 3 \/ e = 4 \/ e = 5 \/ e = 6 \/ e = 7
      OBVIOUS
    <3> QED BY <3>1, <1>2
  <2> QED BY <2>1
<1>4. c = Bit(c, 7) * 128 + Bit(c, 6) * 64 + Bit(c, 5) * 32 + Bit(c, 4) * 16
                + Bit(c, 3) * 8 + Bit(c, 2) * 4 + Bit(c, 1) * 2 + Bit(c, 0)
  <2> DEFINE c1 == c \div 2  c2 == c \div 4  c3 == c \div 8  c4 == c \div 16
             c5 == c \div 32  c6 == c \div 64  c7 == c \div 128
  <2>1. c = 2 * c1 + Bit(c, 0)
    <3>1. Bit(c, 0) = c % 2
      BY <1>1
    <3> QED BY <3>1
  <2>2. c1 = 2 * c2 + Bit(c, 1)
    <3>1. Bit(c, 1) = (c \div 2) % 2
      BY <1>1
    <3> QED BY <3>1
  <2>3. c2 = 2 * c3 + Bit(c, 2)
    <3>1. Bit(c, 2) = (c \div 4) % 2
      BY <1>1
    <3> QED BY <3>1
  <2>4. c3 = 2 * c4 + Bit(c, 3)
    <3>1. Bit(c, 3) = (c \div 8) % 2
      BY <1>1
    <3> QED BY <3>1
  <2>5. c4 = 2 * c5 + Bit(c, 4)
    <3>1. Bit(c, 4) = (c \div 16) % 2
      BY <1>1
    <3> QED BY <3>1
  <2>6. c5 = 2 * c6 + Bit(c, 5)
    <3>1. Bit(c, 5) = (c \div 32) % 2
      BY <1>1
    <3> QED BY <3>1
  <2>7. c6 = 2 * c7 + Bit(c, 6)
    <3>1. Bit(c, 6) = (c \div 64) % 2
      BY <1>1
    <3> QED BY <3>1
  <2>8. c7 = Bit(c, 7)
    <3>1. Bit(c, 7) = (c \div 128) % 2
      BY <1>1
    <3> QED BY <3>1
  <2>9. c1 \in Nat /\ c2 \in Nat /\ c3 \in Nat /\ c4 \in Nat /\ c5 \in Nat /\ c6 \in Nat /\ c7 \in Nat
    OBVIOUS
  <2> HIDE DEF c1, c2, c3, c4, c5, c6, c7
  <2> DEFINE b0 == Bit(c, 0)  b1 == Bit(c, 1)  b2 == Bit(c, 2)  b3 == Bit(c, 3)
             b4 == Bit(c, 4)  b5 == Bit(c, 5)  b6 == Bit(c, 6)  b7 == Bit(c, 7)
  <2>10. /\ b0 \in Int /\ b1 \in Int /\ b2 \in Int /\ b3 \in Int
         /\ b4 \in Int /\ b5 \in Int /\ b6 \in Int /\ b7 \in Int
    BY <1>2
  <2>11. c6 = 2 * b7 + b6 /\ c5 = 2 * c6 + b5 /\ c4 = 2 * c5 + b4 /\ c3 = 2 * c4 + b3
    BY <2>4, <2>5, <2>6, <2>7, <2>8
  <2>12. c2 = 2 * c3 + b2 /\ c1 = 2 * c2 + b1 /\ c = 2 * c1 + b0
    BY <2>1, <2>2, <2>3
  <2> HIDE DEF b0, b1, b2, b3, b4, b5, b6, b7
  <2>13. c = b7 * 128 + b6 * 64 + b5 * 32 + b4 * 16 + b3 * 8 + b2 * 4 + b1 * 2 + b0
    BY <2>9, <2>10, <2>11, <2>12
  <2> QED BY <2>13 DEF b0, b1, b2, b3, b4, b5, b6, b7
<1> QED BY <1>3, <1>4

ByteOf(b7, b6, b5, b4, b3, b2, b1, b0) ==
  b7 * 128 + b6 * 64 + b5 * 32 + b4 * 16 + b3 * 8 + b2 * 4 + b1 * 2 + b0

LEMMA MadeOfBits ==
  ASSUME NEW b7, NEW b6, NEW b5, NEW b4, NEW b3, NEW b2, NEW b1, NEW b0,
         b7 \in {0, 1}, b6 \in {0, 1}, b5 \in {0, 1}, b4 \in {0, 1},
         b3 \in {0, 1}, b2 \in {0, 1}, b1 \in {0, 1}, b0 \in {0, 1}
  PROVE  LET c == ByteOf(b7, b6, b5, b4, b3, b2, b1, b0)
         IN  /\ c \in 0 .. 255
             /\ Bit(c, 0) = b0 /\ Bit(c, 1) = b1 /\ Bit(c, 2) = b2 /\ Bit(c, 3) = b3
             /\ Bit(c, 4) = b4 /\ Bit(c, 5) = b5 /\ Bit(c, 6) = b6 /\ Bit(c, 7) = b7
<1> DEFINE c == ByteOf(b7, b6, b5, b4, b3, b2, b1, b0)
<1>1. c = b7 * 128 + b6 * 64 + b5 * 32 + b4 * 16 + b3 * 8 + b2 * 4 + b1 * 2 + b0
  BY DEF ByteOf
<1> HIDE DEF c
<1>2. c \in 0 .. 255
  BY <1>1
<1>3. Bit(c, 0) = b0 /\ Bit(c, 1) = b1 /\ Bit(c, 2) = b2 /\ Bit(c, 3) = b3
  BY <1>1 DEF Bit
<1>4. Bit(c, 4) = b4 /\ Bit(c, 5) = b5 /\ Bit(c, 6) = b6 /\ Bit(c, 7) = b7
  BY <1>1 DEF Bit
<1> QED BY <1>2, <1>3, <1>4 DEF c

\* What Shift has, exponent by exponent.
LEMMA ShiftHas ==
  ASSUME NEW a \in SUBSET (0 .. 7)
  PROVE  /\ Shift(a) \in SUBSET (0 .. 7)
         /\ (0 \in Shift(a)) <=> (7 \in a)
         /\ (2 \in Shift(a)) <=> ~ ((1 \in a) <=> (7 \in a))
         /\ (7 \in Shift(a)) <=> ~ ((6 \in a) <=> (7 \in a))
         /\ \A e \in {1, 3, 4, 5, 6} : (e \in Shift(a)) <=> (e - 1 \in a)
<1> DEFINE up == {e + 1 : e \in a}
<1>1. \A e \in Int : (e \in up) <=> (e - 1 \in a)
  OBVIOUS
<1>2. up \in SUBSET (1 .. 8)
  OBVIOUS
<1>3. Shift(a) = IF 8 \in up THEN (up \ {8, 7, 2, 0}) \cup ({8, 7, 2, 0} \ up) ELSE up
  BY DEF Shift, Difference
<1>4. (8 \in up) <=> (7 \in a)
  BY <1>1
<1>5. /\ 0 \notin up /\ ((1 \in up) <=> (0 \in a)) /\ ((2 \in up) <=> (1 \in a))
      /\ ((3 \in up) <=> (2 \in a)) /\ ((4 \in up) <=> (3 \in a)) /\ ((5 \in up) <=> (4 \in a))
      /\ ((6 \in up) <=> (5 \in a)) /\ ((7 \in up) <=> (6 \in a))
  BY <1>1, <1>2
<1> HIDE DEF up
<1>6. CASE 7 \in a
  <2>1. Shift(a) = (up \ {8, 7, 2, 0}) \cup ({8, 7, 2, 0} \ up) /\ 8 \in up
    BY <1>3, <1>4, <1>6
  <2>2. \A e \in {1, 3, 4, 5, 6} : (e \in Shift(a)) <=> (e \in up)
    BY <2>1
  <2>3. \A e \in {1, 3, 4, 5, 6} : (e \in up) <=> (e - 1 \in a)
    BY <1>1
  <2>4. Shift(a) \in SUBSET (0 .. 7)
    BY <1>2, <2>1
  <2>5. 0 \in Shift(a) /\ ((2 \in Shift(a)) <=> (2 \notin up)) /\ ((7 \in Shift(a)) <=> (7 \notin up))
    BY <1>5, <2>1
  <2> QED BY <1>5, <1>6, <2>2, <2>3, <2>4, <2>5
<1>7. CASE 7 \notin a
  <2>1. Shift(a) = up /\ 8 \notin up
    BY <1>3, <1>4, <1>7
  <2> QED BY <1>1, <1>2, <1>5, <1>7, <2>1
<1> QED BY <1>6, <1>7

LEMMA DifferenceHas ==
  ASSUME NEW a, NEW b, NEW e
  PROVE  (e \in Difference(a, b)) <=> ~ ((e \in a) <=> (e \in b))
  BY DEF Difference

LEMMA SmallSets ==
  ASSUME NEW a \in SUBSET (0 .. 7), NEW b \in SUBSET (0 .. 7),
         (0 \in a) <=> (0 \in b), (1 \in a) <=> (1 \in b), (2 \in a) <=> (2 \in b),
         (3 \in a) <=> (3 \in b), (4 \in a) <=> (4 \in b), (5 \in a) <=> (5 \in b),
         (6 \in a) <=> (6 \in b), (7 \in a) <=> (7 \in b)
  PROVE  a = b
<1>1. \A e \in 0 .. 7 : e = 0 \/ e = 1 \/ e = 2 \/ e = 3 \/ e = 4 \/ e = 5 \/ e = 6 \/ e = 7
  OBVIOUS
<1>2. ASSUME NEW e \in 0 .. 7 PROVE (e \in a) <=> (e \in b)
  BY <1>1
<1> QED BY <1>2

LEMMA ShiftOfDifference ==
  ASSUME NEW a \in SUBSET (0 .. 7), NEW b \in SUBSET (0 .. 7)
  PROVE  Difference(a, b) \in SUBSET (0 .. 7) /\ Shift(Difference(a, b)) = Difference(Shift(a), Shift(b))
<1> DEFINE d == Difference(a, b)  s == Shift(d)  t == Difference(Shift(a), Shift(b))
<1>1. d \in SUBSET (0 .. 7)
  BY DEF Difference
<1>2. \A e \in 0 .. 7 : (e \in d) <=> ~ ((e \in a) <=> (e \in b))
  BY DifferenceHas
<1>3. /\ s \in SUBSET (0 .. 7)
      /\ (0 \in s) <=> (7 \in d)
      /\ (2 \in s) <=> ~ ((1 \in d) <=> (7 \in d))
      /\ (7 \in s) <=> ~ ((6 \in d) <=> (7 \in d))
      /\ \A e \in {1, 3, 4, 5, 6} : (e \in s) <=> (e - 1 \in d)
  <2> HIDE DEF d
  <2> QED BY <1>1, ShiftHas
<1>4. Shift(a) \in SUBSET (0 .. 7) /\ Shift(b) \in SUBSET (0 .. 7)
  BY ShiftHas
<1>5. \A e \in 0 .. 7 : (e \in t) <=> ~ ((e \in Shift(a)) <=> (e \in Shift(b)))
  BY DifferenceHas
<1>6. t \in SUBSET (0 .. 7)
  BY <1>4 DEF Difference
<1>7. /\ (0 \in Shift(a)) <=> (7 \in a)
      /\ (2 \in Shift(a)) <=> ~ ((1 \in a) <=> (7 \in a))
      /\ (7 \in Shift(a)) <=> ~ ((6 \in a) <=> (7 \in a))
      /\ \A e \in {1, 3, 4, 5, 6} : (e \in Shift(a)) <=> (e - 1 \in a)
  BY ShiftHas
<1>8. /\ (0 \in Shift(b)) <=> (7 \in b)
      /\ (2 \in Shift(b)) <=> ~ ((1 \in b) <=> (7 \in b))
      /\ (7 \in Shift(b)) <=> ~ ((6 \in b) <=> (7 \in b))
      /\ \A e \in {1, 3, 4, 5, 6} : (e \in Shift(b)) <=> (e - 1 \in b)
  BY ShiftHas
<1> HIDE DEF d, s, t
<1>9. /\ (0 \in s) <=> (0 \in t)
      /\ (2 \in s) <=> (2 \in t)
      /\ (7 \in s) <=> (7 \in t)
  BY <1>2, <1>3, <1>5, <1>7, <1>8
<1>10. \A e \in {1, 3, 4, 5, 6} : (e \in s) <=> (e \in t)
  <2>1. ASSUME NEW e \in {1, 3, 4, 5, 6} PROVE (e \in s) <=> (e \in t)
    <3>1. e - 1 \in 0 .. 7 /\ e \in 0 .. 7
      OBVIOUS
    <3>2. (e \in s) <=> ~ ((e - 1 \in a) <=> (e - 1 \in b))
      BY <3>1, <1>2, <1>3
    <3>3. (e \in t) <=> ~ ((e - 1 \in a) <=> (e - 1 \in b))
      BY <3>1, <1>5, <1>7, <1>8
    <3> QED BY <3>2, <3>3
  <2> QED BY <2>1
<1>11. s = t
  <2>1. /\ ((1 \in s) <=> (1 \in t)) /\ ((3 \in s) <=> (3 \in t)) /\ ((4 \in s) <=> (4 \in t))
        /\ ((5 \in s) <=> (5 \in t)) /\ ((6 \in s) <=> (6 \in t))
    BY <1>10
  <2> QED BY <1>3, <1>6, <1>9, <2>1, SmallSets
<1> QED BY <1>1, <1>11 DEF d, s, t

\* A round of the loop.
LEMMA RoundShifts ==
  ASSUME NEW c \in 0 .. 255, NEW in \in {0, 1}
  PROVE  /\ CrcStep(c, in) \in 0 .. 255
         /\ Bits(CrcStep(c, in)) = Difference(Shift(Bits(c)), OneIf(in))
<1> DEFINE b7 == Bit(c, 7)  b6 == Bit(c, 6)  b5 == Bit(c, 5)  b4 == Bit(c, 4)
           b3 == Bit(c, 3)  b2 == Bit(c, 2)  b1 == Bit(c, 1)  b0 == Bit(c, 0)
           s == ((c * 2) % 256) + in
           r == CrcStep(c, in)
<1>1. /\ b7 \in {0, 1} /\ b6 \in {0, 1} /\ b5 \in {0, 1} /\ b4 \in {0, 1}
      /\ b3 \in {0, 1} /\ b2 \in {0, 1} /\ b1 \in {0, 1} /\ b0 \in {0, 1}
      /\ c = b7 * 128 + b6 * 64 + b5 * 32 + b4 * 16 + b3 * 8 + b2 * 4 + b1 * 2 + b0
  BY BitsMake, SMTT(30)
<1>2. r = IF c >= 128 THEN Xor85(s) ELSE s
  BY DEF CrcStep
<1>3. /\ \A e \in 0 .. 7 : (e \in Bits(c)) <=> (Bit(c, e) = 1)
      /\ Bits(c) \in SUBSET (0 .. 7)
  BY DEF Bits
<1>4. /\ ((7 \in Bits(c)) <=> (b7 = 1)) /\ ((6 \in Bits(c)) <=> (b6 = 1))
      /\ ((5 \in Bits(c)) <=> (b5 = 1)) /\ ((4 \in Bits(c)) <=> (b4 = 1))
      /\ ((3 \in Bits(c)) <=> (b3 = 1)) /\ ((2 \in Bits(c)) <=> (b2 = 1))
      /\ ((1 \in Bits(c)) <=> (b1 = 1)) /\ ((0 \in Bits(c)) <=> (b0 = 1))
  BY <1>3
<1> DEFINE h == Shift(Bits(c))
<1>5. /\ h \in SUBSET (0 .. 7)
      /\ (0 \in h) <=> (7 \in Bits(c))
      /\ (2 \in h) <=> ~ ((1 \in Bits(c)) <=> (7 \in Bits(c)))
      /\ (7 \in h) <=> ~ ((6 \in Bits(c)) <=> (7 \in Bits(c)))
      /\ \A e \in {1, 3, 4, 5, 6} : (e \in h) <=> (e - 1 \in Bits(c))
  BY <1>3, ShiftHas
<1>6. /\ (0 \in h) <=> (b7 = 1)
      /\ (2 \in h) <=> (b1 # b7)
      /\ (7 \in h) <=> (b6 # b7)
      /\ ((1 \in h) <=> (b0 = 1)) /\ ((3 \in h) <=> (b2 = 1)) /\ ((4 \in h) <=> (b3 = 1))
      /\ ((5 \in h) <=> (b4 = 1)) /\ ((6 \in h) <=> (b5 = 1))
  BY <1>1, <1>4, <1>5
<1> DEFINE t == Difference(h, OneIf(in))
<1>7. t \in SUBSET (0 .. 7) /\ \A e \in 0 .. 7 : (e \in t) <=> ~ ((e \in h) <=> (e \in OneIf(in)))
  <2>1. OneIf(in) \in SUBSET (0 .. 7)
    BY DEF OneIf
  <2> HIDE DEF h
  <2> QED BY <1>5, <2>1, DifferenceHas, ShiftOfDifference
<1>8. /\ (0 \in t) <=> ~ ((0 \in h) <=> (in = 1))
      /\ \A e \in 1 .. 7 : (e \in t) <=> (e \in h)
  <2>1. (0 \in OneIf(in)) <=> (in = 1)
    BY DEF OneIf
  <2>2. \A e \in 1 .. 7 : e \notin OneIf(in)
    BY DEF OneIf
  <2> HIDE DEF t, h
  <2> QED BY <1>7, <2>1, <2>2
<1>9. s = b6 * 128 + b5 * 64 + b4 * 32 + b3 * 16 + b2 * 8 + b1 * 4 + b0 * 2 + in /\ ((c >= 128) <=> (b7 = 1))
  <2> HIDE DEF b7, b6, b5, b4, b3, b2, b1, b0
  <2> QED BY <1>1
<1>10. /\ s \in 0 .. 255
       /\ Bit(s, 0) = in /\ Bit(s, 1) = b0 /\ Bit(s, 2) = b1 /\ Bit(s, 3) = b2
       /\ Bit(s, 4) = b3 /\ Bit(s, 5) = b4 /\ Bit(s, 6) = b5 /\ Bit(s, 7) = b6
  <2> HIDE DEF b7, b6, b5, b4, b3, b2, b1, b0, s
  <2>1. s = ByteOf(b6, b5, b4, b3, b2, b1, b0, in)
    BY <1>9 DEF ByteOf
  <2>2. /\ b6 \in {0, 1} /\ b5 \in {0, 1} /\ b4 \in {0, 1} /\ b3 \in {0, 1}
        /\ b2 \in {0, 1} /\ b1 \in {0, 1} /\ b0 \in {0, 1} /\ in \in {0, 1}
    BY <1>1
  <2> QED BY <2>1, <2>2, MadeOfBits
<1>11. /\ r \in 0 .. 255
       /\ Bit(r, 0) = (in + b7) % 2 /\ Bit(r, 1) = b0 /\ Bit(r, 2) = (b1 + b7) % 2 /\ Bit(r, 3) = b2
       /\ Bit(r, 4) = b3 /\ Bit(r, 5) = b4 /\ Bit(r, 6) = b5 /\ Bit(r, 7) = (b6 + b7) % 2
  <2>1. CASE c >= 128
    <3>1. r = Xor85(s) /\ b7 = 1
      BY <1>2, <1>9, <2>1
    <3>2. /\ Bit(133, 0) = 1 /\ Bit(133, 1) = 0 /\ Bit(133, 2) = 1 /\ Bit(133, 3) = 0
          /\ Bit(133, 4) = 0 /\ Bit(133, 5) = 0 /\ Bit(133, 6) = 0 /\ Bit(133, 7) = 1
      BY DEF Bit
    <3> DEFINE x7 == (b6 + 1) % 2  x2 == (b1 + 1) % 2  x0 == (in + 1) % 2
    <3> HIDE DEF b7, b6, b5, b4, b3, b2, b1, b0, s, r
    <3>3. Xor85(s) = ((Bit(s, 7) + Bit(133, 7)) % 2) * 128 + ((Bit(s, 6) + Bit(133, 6)) % 2) * 64
               + ((Bit(s, 5) + Bit(133, 5)) % 2) * 32 + ((Bit(s, 4) + Bit(133, 4)) % 2) * 16
               + ((Bit(s, 3) + Bit(133, 3)) % 2) * 8 + ((Bit(s, 2) + Bit(133, 2)) % 2) * 4
               + ((Bit(s, 1) + Bit(133, 1)) % 2) * 2 + ((Bit(s, 0) + Bit(133, 0)) % 2)
      BY DEF Xor85
    <3>4. r = x7 * 128 + b5 * 64 + b4 * 32 + b3 * 16 + b2 * 8 + x2 * 4 + b0 * 2 + x0
      <4>1. /\ (Bit(s, 7) + Bit(133, 7)) % 2 = x7 /\ (Bit(s, 2) + Bit(133, 2)) % 2 = x2
            /\ (Bit(s, 0) + Bit(133, 0)) % 2 = x0
        BY <3>2, <1>10
      <4>2. /\ (Bit(s, 6) + Bit(133, 6)) % 2 = b5 /\ (Bit(s, 5) + Bit(133, 5)) % 2 = b4
            /\ (Bit(s, 4) + Bit(133, 4)) % 2 = b3
        BY <3>2, <1>1, <1>10
      <4>3. (Bit(s, 3) + Bit(133, 3)) % 2 = b2 /\ (Bit(s, 1) + Bit(133, 1)) % 2 = b0
        BY <3>2, <1>1, <1>10
      <4> HIDE DEF x7, x2, x0
      <4> QED BY <3>1, <3>3, <4>1, <4>2, <4>3
    <3>5. x7 \in {0, 1} /\ x2 \in {0, 1} /\ x0 \in {0, 1}
      BY <1>1
    <3>6. x7 = (b6 + b7) % 2 /\ x2 = (b1 + b7) % 2 /\ x0 = (in + b7) % 2
      BY <3>1
    <3> HIDE DEF x7, x2, x0
    <3>7. /\ r \in 0 .. 255
          /\ Bit(r, 0) = x0 /\ Bit(r, 1) = b0 /\ Bit(r, 2) = x2 /\ Bit(r, 3) = b2
          /\ Bit(r, 4) = b3 /\ Bit(r, 5) = b4 /\ Bit(r, 6) = b5 /\ Bit(r, 7) = x7
      <4>1. r = ByteOf(x7, b5, b4, b3, b2, x2, b0, x0)
        BY <3>4 DEF ByteOf
      <4>2. b5 \in {0, 1} /\ b4 \in {0, 1} /\ b3 \in {0, 1} /\ b2 \in {0, 1} /\ b0 \in {0, 1}
        BY <1>1
      <4> QED BY <3>5, <4>1, <4>2, MadeOfBits
    <3> QED BY <3>6, <3>7
  <2>2. CASE ~ (c >= 128)
    <3>1. r = s /\ b7 = 0
      BY <1>1, <1>2, <1>9, <2>2
    <3> HIDE DEF b7, b6, b5, b4, b3, b2, b1, b0, s, r
    <3>2. (in + b7) % 2 = in /\ (b1 + b7) % 2 = b1 /\ (b6 + b7) % 2 = b6
      BY <3>1, <1>1
    <3> QED BY <1>10, <3>1, <3>2
  <2> QED BY <2>1, <2>2
<1>12. /\ \A e \in 0 .. 7 : (e \in Bits(r)) <=> (Bit(r, e) = 1)
       /\ Bits(r) \in SUBSET (0 .. 7)
  BY DEF Bits
<1> HIDE DEF b7, b6, b5, b4, b3, b2, b1, b0, s, r, h, t
<1>13. Bits(r) = t
  <2>1. /\ ((in + b7) % 2 = 1) <=> ~ ((b7 = 1) <=> (in = 1))
        /\ ((b1 + b7) % 2 = 1) <=> (b1 # b7)
        /\ ((b6 + b7) % 2 = 1) <=> (b6 # b7)
    BY <1>1
  <2>2. /\ ((0 \in Bits(r)) <=> (0 \in t)) /\ ((1 \in Bits(r)) <=> (1 \in t)) /\ ((2 \in Bits(r)) <=> (2 \in t))
        /\ ((3 \in Bits(r)) <=> (3 \in t)) /\ ((4 \in Bits(r)) <=> (4 \in t)) /\ ((5 \in Bits(r)) <=> (5 \in t))
        /\ ((6 \in Bits(r)) <=> (6 \in t)) /\ ((7 \in Bits(r)) <=> (7 \in t))
    BY <1>6, <1>8, <1>11, <1>12, <2>1
  <2> QED BY <1>7, <1>12, <2>2, SmallSets
<1> QED BY <1>11, <1>13 DEF r, t, h

\* What obeys a loop's equations is a run of the loop, and there is one only.
LEMMA RunOf ==
  ASSUME NEW T, NEW first \in T, NEW N \in Nat, NEW step \in [Nat -> [T -> T]],
         NEW f, f = [k \in 0 .. N |-> f[k]], f[0] = first,
         \A k \in Nat : k < N /\ f[k] \in T => f[k + 1] = step[k][f[k]]
  PROVE  f \in Runs(T, first, N, step)
<1> DEFINE S == {k \in Nat : f[k] \in T}
<1>1. 0 \in S
  OBVIOUS
<1>2. ASSUME NEW k \in Nat, k < N, k \in S PROVE k + 1 \in S
  <2>1. step[k] \in [T -> T] /\ f[k] \in T
    BY <1>2
  <2>2. f[k + 1] = step[k][f[k]]
    BY <1>2, <2>1
  <2> QED BY <2>1, <2>2
<1> HIDE DEF S
<1>3. \A k \in 0 .. N : k \in S
  BY <1>1, <1>2, BoundedInduction
<1>4. \A k \in 0 .. N : f[k] \in T
  BY <1>3 DEF S
<1>5. f \in [0 .. N -> T]
  BY <1>4
<1>6. ASSUME NEW k \in Nat, k < N PROVE f[k + 1] = step[k][f[k]]
  <2>1. f[k] \in T
    BY <1>4, <1>6
  <2> QED BY <1>6, <2>1
<1> QED BY <1>5, <1>6 DEF Runs

LEMMA RunsAgree ==
  ASSUME NEW T, NEW first \in T, NEW N \in Nat, NEW M \in Nat, N <= M, NEW step,
         NEW f \in Runs(T, first, N, step), NEW g \in Runs(T, first, M, step)
  PROVE  \A k \in 0 .. N : f[k] = g[k]
<1> DEFINE S == {k \in Nat : f[k] = g[k]}
<1>1. 0 \in S
  BY DEF Runs
<1>2. ASSUME NEW k \in Nat, k < N, k \in S PROVE k + 1 \in S
  <2>1. f[k + 1] = step[k][f[k]] /\ g[k + 1] = step[k][g[k]]
    BY <1>2 DEF Runs
  <2> QED BY <1>2, <2>1
<1> HIDE DEF S
<1>3. \A k \in 0 .. N : k \in S
  BY <1>1, <1>2, BoundedInduction
<1> QED BY <1>3 DEF S

Polynomials == SUBSET (0 .. 7)
PowerStep == [k \in Nat |-> [a \in Polynomials |-> Shift(a)]]

LEMMA ShiftStays ==
  ASSUME NEW a \in Polynomials
  PROVE  Shift(a) \in Polynomials
  BY ShiftHas DEF Polynomials

LEMMA DifferenceStays ==
  ASSUME NEW a \in Polynomials, NEW b \in Polynomials
  PROVE  Difference(a, b) \in Polynomials
  BY DEF Polynomials, Difference

LEMMA PowerRuns ==
  ASSUME NEW n \in Nat
  PROVE  \E f \in Runs(Polynomials, {0}, n, PowerStep) : Power(n) = f[n]
<1> DEFINE Def(h) == [k \in 0 .. n |-> IF k = 0 THEN {0} ELSE Shift(h[k - 1])]
           rem == CHOOSE h : h = Def(h)
<1>1. PowerStep \in [Nat -> [Polynomials -> Polynomials]] /\ {0} \in Polynomials
  BY ShiftStays DEF PowerStep, Polynomials
<1>2. PICK f : f \in Runs(Polynomials, {0}, n, PowerStep)
  BY <1>1, IterationExists
<1>3. f \in [0 .. n -> Polynomials] /\ f[0] = {0} /\ \A k \in Nat : k < n => f[k + 1] = PowerStep[k][f[k]]
  BY <1>2 DEF Runs
<1>4. f = Def(f)
  <2>1. ASSUME NEW k \in 0 .. n PROVE f[k] = Def(f)[k]
    <3>1. CASE k = 0
      BY <3>1, <1>3
    <3>2. CASE k # 0
      <4>1. k - 1 \in Nat /\ k - 1 < n /\ (k - 1) + 1 = k /\ f[k - 1] \in Polynomials
        BY <3>2, <1>3
      <4>2. f[k] = PowerStep[k - 1][f[k - 1]]
        BY <4>1, <1>3
      <4>3. PowerStep[k - 1][f[k - 1]] = Shift(f[k - 1])
        BY <4>1 DEF PowerStep
      <4> QED BY <3>2, <4>2, <4>3
    <3> QED BY <3>1, <3>2
  <2> QED BY <2>1, <1>3
<1>5. rem = Def(rem)
  <2> HIDE DEF Def
  <2> QED BY <1>4
<1>6. Power(n) = rem[n]
  BY DEF Power, Shift
<1> HIDE DEF rem
<1>7. rem = [k \in 0 .. n |-> rem[k]] /\ rem[0] = {0}
  BY <1>5
<1>8. ASSUME NEW k \in Nat, k < n, rem[k] \in Polynomials PROVE rem[k + 1] = PowerStep[k][rem[k]]
  <2>1. rem[k + 1] = Shift(rem[k])
    <3>1. k + 1 \in 0 .. n /\ k + 1 # 0 /\ (k + 1) - 1 = k
      BY <1>8
    <3>2. rem[k + 1] = Def(rem)[k + 1]
      <4> HIDE DEF Def
      <4> QED BY <1>5
    <3>3. Def(rem)[k + 1] = Shift(rem[(k + 1) - 1])
      BY <3>1
    <3> QED BY <3>1, <3>2, <3>3
  <2> QED BY <1>8, <2>1 DEF PowerStep
<1>9. rem \in Runs(Polynomials, {0}, n, PowerStep)
  <2> HIDE DEF Def
  <2> QED BY <1>1, <1>7, <1>8, RunOf
<1> QED BY <1>6, <1>9

LEMMA PowerSteps ==
  ASSUME NEW n \in Nat
  PROVE  Power(n) \in Polynomials /\ Power(0) = {0} /\ Power(n + 1) = Shift(Power(n))
<1>1. PICK f \in Runs(Polynomials, {0}, n, PowerStep) : Power(n) = f[n]
  BY PowerRuns
<1>2. PICK g \in Runs(Polynomials, {0}, n + 1, PowerStep) : Power(n + 1) = g[n + 1]
  BY PowerRuns
<1>3. PICK h \in Runs(Polynomials, {0}, 0, PowerStep) : Power(0) = h[0]
  BY PowerRuns
<1>4. \A k \in 0 .. n : f[k] = g[k]
  <2>1. {0} \in Polynomials
    BY DEF Polynomials
  <2> QED BY <2>1, RunsAgree
<1>5. f[n] \in Polynomials /\ g[n + 1] = PowerStep[n][g[n]] /\ h[0] = {0}
  BY DEF Runs
<1>6. PowerStep[n][f[n]] = Shift(f[n])
  BY <1>5 DEF PowerStep
<1> QED BY <1>1, <1>2, <1>3, <1>4, <1>5, <1>6

LEMMA ElementIn ==
  ASSUME NEW T, NEW s \in Seq(T), NEW i \in 1 .. Len(s)
  PROVE  s[i] \in T
  OBVIOUS

LEMMA StreamOfBits ==
  ASSUME NEW data \in Seq(0 .. 255), NEW k \in Nat \ {0}
  PROVE  /\ StreamBit(data, k) \in {0, 1}
         /\ k > 8 * Len(data) => StreamBit(data, k) = 0
<1>1. CASE k > 8 * Len(data)
  BY <1>1 DEF StreamBit
<1>2. CASE ~ (k > 8 * Len(data))
  <2> DEFINE i == (k - 1) \div 8 + 1  e == 7 - ((k - 1) % 8)
  <2>1. i \in 1 .. Len(data) /\ e \in 0 .. 7
    <3>1. Len(data) \in Nat
      OBVIOUS
    <3> QED BY <3>1, <1>2
  <2>2. StreamBit(data, k) = Bit(data[i], e)
    BY <1>2 DEF StreamBit
  <2> HIDE DEF i, e
  <2>3. data[i] \in 0 .. 255
    <3> DEFINE T == 0 .. 255
    <3> HIDE DEF T
    <3>1. data \in Seq(T)
      BY DEF T
    <3>2. data[i] \in T
      BY <2>1, <3>1, ElementIn
    <3> QED BY <3>2 DEF T
  <2>4. Bit(data[i], e) \in {0, 1}
    BY <2>1, <2>3, BitsMake
  <2> QED BY <1>2, <2>2, <2>4
<1> QED BY <1>1, <1>2

CrcBytes == 0 .. 255
CrcRound(data) == [k \in Nat |-> [c \in CrcBytes |-> CrcStep(c, StreamBit(data, k + 1))]]

LEMMA CrcRuns ==
  ASSUME NEW data \in Seq(0 .. 255)
  PROVE  \E f \in Runs(CrcBytes, 0, 8 * (Len(data) + 1), CrcRound(data)) :
            controller_pak_crc(data) = f[8 * (Len(data) + 1)]
<1> DEFINE n == 8 * (Len(data) + 1)
           Def(h) == [k \in 0 .. n |-> IF k = 0 THEN 0 ELSE CrcStep(h[k - 1], StreamBit(data, k))]
           crc == CHOOSE h : h = Def(h)
           step == CrcRound(data)
<1>0. n \in Nat
  OBVIOUS
<1>1. step \in [Nat -> [CrcBytes -> CrcBytes]] /\ 0 \in CrcBytes
  <2>1. \A k \in Nat : \A c \in CrcBytes : CrcStep(c, StreamBit(data, k + 1)) \in CrcBytes
    <3>1. ASSUME NEW k \in Nat, NEW c \in CrcBytes PROVE CrcStep(c, StreamBit(data, k + 1)) \in CrcBytes
      <4>1. StreamBit(data, k + 1) \in {0, 1}
        BY StreamOfBits
      <4> QED BY <4>1, RoundShifts DEF CrcBytes
    <3> QED BY <3>1
  <2>2. 0 \in CrcBytes
    BY DEF CrcBytes
  <2>3. \A k \in Nat : [c \in CrcBytes |-> CrcStep(c, StreamBit(data, k + 1))] \in [CrcBytes -> CrcBytes]
    BY <2>1
  <2> QED BY <2>2, <2>3 DEF step, CrcRound
<1>6. controller_pak_crc(data) = crc[n]
  BY DEF controller_pak_crc
<1> HIDE DEF n, step
<1>2. PICK f : f \in Runs(CrcBytes, 0, n, step)
  <2> DEFINE z == 0
  <2>1. z \in CrcBytes
    BY <1>1
  <2> HIDE DEF z
  <2>2. Runs(CrcBytes, z, n, step) # {}
    BY <1>0, <1>1, <2>1, IterationExists
  <2> QED BY <2>2 DEF z
<1>3. f \in [0 .. n -> CrcBytes] /\ f[0] = 0 /\ \A k \in Nat : k < n => f[k + 1] = step[k][f[k]]
  BY <1>2 DEF Runs
<1>4. f = Def(f)
  <2>1. ASSUME NEW k \in 0 .. n PROVE f[k] = Def(f)[k]
    <3>1. CASE k = 0
      BY <3>1, <1>3
    <3>2. CASE k # 0
      <4>1. k - 1 \in Nat /\ k - 1 < n /\ (k - 1) + 1 = k /\ f[k - 1] \in CrcBytes
        BY <3>2, <1>0, <1>3
      <4>2. f[k] = step[k - 1][f[k - 1]]
        BY <4>1, <1>3
      <4>3. step[k - 1][f[k - 1]] = CrcStep(f[k - 1], StreamBit(data, k))
        BY <4>1 DEF step, CrcRound
      <4> QED BY <3>2, <4>2, <4>3
    <3> QED BY <3>1, <3>2
  <2> QED BY <2>1, <1>3
<1>5. crc = Def(crc)
  <2> HIDE DEF Def
  <2> QED BY <1>4
<1> HIDE DEF crc
<1>7. crc = [k \in 0 .. n |-> crc[k]] /\ crc[0] = 0
  BY <1>0, <1>5
<1>8. ASSUME NEW k \in Nat, k < n, crc[k] \in CrcBytes PROVE crc[k + 1] = step[k][crc[k]]
  <2>1. crc[k + 1] = CrcStep(crc[k], StreamBit(data, k + 1))
    BY <1>0, <1>5, <1>8
  <2> QED BY <1>8, <2>1 DEF step, CrcRound
<1>9. crc \in Runs(CrcBytes, 0, n, step)
  <2> HIDE DEF Def
  <2> QED BY <1>0, <1>1, <1>7, <1>8, RunOf
<1> QED BY <1>6, <1>9 DEF n, step

\* The sum of Power(m - j) over the bits j that are set.
SumStep(data, m) ==
  [k \in Nat |-> [a \in Polynomials |->
     IF k < m /\ StreamBit(data, k + 1) = 1 THEN Difference(a, Power(m - k - 1)) ELSE a]]
Sums(data, m) == CHOOSE f : f \in Runs(Polynomials, {}, 8 * (Len(data) + 1), SumStep(data, m))

LEMMA SumSteps ==
  ASSUME NEW data, NEW m \in Nat
  PROVE  SumStep(data, m) \in [Nat -> [Polynomials -> Polynomials]] /\ {} \in Polynomials
<1>1. ASSUME NEW k \in Nat, k < m, NEW a \in Polynomials
      PROVE  Difference(a, Power(m - k - 1)) \in Polynomials
  <2>1. m - k - 1 \in Nat
    BY <1>1
  <2> QED BY <2>1, <1>1, PowerSteps, DifferenceStays
<1> QED BY <1>1 DEF SumStep, Polynomials

LEMMA SumsRun ==
  ASSUME NEW data \in Seq(0 .. 255), NEW m \in Nat
  PROVE  Sums(data, m) \in Runs(Polynomials, {}, 8 * (Len(data) + 1), SumStep(data, m))
<1>1. 8 * (Len(data) + 1) \in Nat
  OBVIOUS
<1>2. Runs(Polynomials, {}, 8 * (Len(data) + 1), SumStep(data, m)) # {}
  BY <1>1, SumSteps, IterationExists
<1> QED BY <1>2 DEF Sums

LEMMA SumsNext ==
  ASSUME NEW data \in Seq(0 .. 255), NEW m \in Nat
  PROVE  /\ Sums(data, m)[0] = {}
         /\ \A k \in 0 .. 8 * (Len(data) + 1) : Sums(data, m)[k] \in Polynomials
         /\ \A k \in Nat : k < 8 * (Len(data) + 1) =>
               Sums(data, m)[k + 1] =
                 IF k < m /\ StreamBit(data, k + 1) = 1
                 THEN Difference(Sums(data, m)[k], Power(m - k - 1)) ELSE Sums(data, m)[k]
<1> DEFINE f == Sums(data, m)  n == 8 * (Len(data) + 1)  step == SumStep(data, m)
<1>1. f \in [0 .. n -> Polynomials] /\ f[0] = {} /\ \A k \in Nat : k < n => f[k + 1] = step[k][f[k]]
  BY SumsRun DEF Runs
<1>2. n \in Nat
  OBVIOUS
<1>3. \A k \in Nat : \A a \in Polynomials :
        step[k][a] = IF k < m /\ StreamBit(data, k + 1) = 1 THEN Difference(a, Power(m - k - 1)) ELSE a
  BY DEF SumStep
<1> HIDE DEF f, n, step
<1>4. \A k \in 0 .. n : f[k] \in Polynomials
  BY <1>1
<1>5. ASSUME NEW k \in Nat, k < n
      PROVE  f[k + 1] = IF k < m /\ StreamBit(data, k + 1) = 1
                        THEN Difference(f[k], Power(m - k - 1)) ELSE f[k]
  <2>1. f[k] \in Polynomials
    BY <1>2, <1>4, <1>5
  <2> QED BY <1>1, <1>3, <1>5, <2>1
<1> QED BY <1>1, <1>4, <1>5 DEF f, n

\* Multiplication by x takes every sum to the next.
LEMMA ShiftOfSums ==
  ASSUME NEW data \in Seq(0 .. 255), NEW m \in 0 .. 8 * (Len(data) + 1)
  PROVE  \A k \in 0 .. m : Shift(Sums(data, m)[k]) = Sums(data, m + 1)[k]
<1> DEFINE f == Sums(data, m)  g == Sums(data, m + 1)  n == 8 * (Len(data) + 1)
           S == {k \in Nat : Shift(f[k]) = g[k]}
<1>0. n \in Nat /\ m \in Nat /\ m <= n
  OBVIOUS
<1>1. /\ f[0] = {} /\ \A k \in 0 .. n : f[k] \in Polynomials
      /\ \A k \in Nat : k < n =>
            f[k + 1] = IF k < m /\ StreamBit(data, k + 1) = 1
                       THEN Difference(f[k], Power(m - k - 1)) ELSE f[k]
  BY <1>0, SumsNext
<1>2. /\ g[0] = {}
      /\ \A k \in Nat : k < n =>
            g[k + 1] = IF k < m + 1 /\ StreamBit(data, k + 1) = 1
                       THEN Difference(g[k], Power((m + 1) - k - 1)) ELSE g[k]
  BY <1>0, SumsNext
<1> HIDE DEF f, g, n
<1>3. 0 \in S
  <2>1. Shift({}) = {}
    <3>1. {e + 1 : e \in {}} = {}
      OBVIOUS
    <3> QED BY <3>1 DEF Shift
  <2> QED BY <1>1, <1>2, <2>1
<1>4. ASSUME NEW k \in Nat, k < m, k \in S PROVE k + 1 \in S
  <2>1. k < n /\ k \in 0 .. n /\ k < m + 1 /\ m - k - 1 \in Nat /\ (m + 1) - k - 1 = (m - k - 1) + 1
    BY <1>0, <1>4
  <2>2. f[k] \in Polynomials /\ Shift(f[k]) = g[k]
    BY <1>1, <1>4, <2>1
  <2> DEFINE p == Power(m - k - 1)  q == Power((m + 1) - k - 1)
  <2>3. p \in Polynomials /\ q = Shift(p)
    BY <2>1, PowerSteps
  <2>4. f[k + 1] = IF StreamBit(data, k + 1) = 1 THEN Difference(f[k], p) ELSE f[k]
    BY <1>1, <1>4, <2>1
  <2>5. g[k + 1] = IF StreamBit(data, k + 1) = 1 THEN Difference(g[k], q) ELSE g[k]
    BY <1>2, <1>4, <2>1
  <2> HIDE DEF p, q
  <2>6. Shift(Difference(f[k], p)) = Difference(Shift(f[k]), Shift(p))
    BY <2>2, <2>3, ShiftOfDifference DEF Polynomials
  <2>7. Shift(f[k + 1]) = g[k + 1]
    BY <2>2, <2>3, <2>4, <2>5, <2>6
  <2> QED BY <1>4, <2>7
<1> HIDE DEF S
<1>5. \A k \in 0 .. m : k \in S
  BY <1>0, <1>3, <1>4, BoundedInduction
<1> QED BY <1>5 DEF S, f, g

\* What the loop has after k bits.
LEMMA CrcSums ==
  ASSUME NEW data \in Seq(0 .. 255),
         NEW f \in Runs(CrcBytes, 0, 8 * (Len(data) + 1), CrcRound(data))
  PROVE  \A k \in 0 .. 8 * (Len(data) + 1) : Bits(f[k]) = Sums(data, k)[k]
<1> DEFINE n == 8 * (Len(data) + 1)  S == {k \in Nat : Bits(f[k]) = Sums(data, k)[k]}
<1>0. n \in Nat
  OBVIOUS
<1>1. /\ f \in [0 .. n -> CrcBytes] /\ f[0] = 0
      /\ \A k \in Nat : k < n => f[k + 1] = CrcRound(data)[k][f[k]]
  BY DEF Runs
<1>2. 0 \in S
  <2>1. Sums(data, 0)[0] = {}
    BY SumsNext
  <2>2. ASSUME NEW e \in 0 .. 7 PROVE Bit(0, e) = 0
    <3>1. e = 0 \/ e = 1 \/ e = 2 \/ e = 3 \/ e = 4 \/ e = 5 \/ e = 6 \/ e = 7
      OBVIOUS
    <3>2. /\ Bit(0, 0) = 0 /\ Bit(0, 1) = 0 /\ Bit(0, 2) = 0 /\ Bit(0, 3) = 0
          /\ Bit(0, 4) = 0 /\ Bit(0, 5) = 0 /\ Bit(0, 6) = 0 /\ Bit(0, 7) = 0
      BY DEF Bit
    <3> QED BY <3>1, <3>2
  <2>3. Bits(0) = {}
    BY <2>2 DEF Bits
  <2> QED BY <1>1, <2>1, <2>3
<1>3. ASSUME NEW k \in Nat, k < n, k \in S PROVE k + 1 \in S
  <2> DEFINE b == StreamBit(data, k + 1)
  <2>0. k \in 0 .. n /\ k + 1 \in Nat \ {0}
    BY <1>0, <1>3
  <2>1. f[k] \in CrcBytes /\ b \in {0, 1}
    BY <1>1, <2>0, StreamOfBits
  <2>2. f[k + 1] = CrcStep(f[k], b)
    BY <1>1, <1>3, <2>1 DEF CrcRound
  <2>3. Shift(Sums(data, k)[k]) = Sums(data, k + 1)[k]
    BY <1>0, <1>3, ShiftOfSums
  <2>4. Bits(f[k + 1]) = Difference(Sums(data, k + 1)[k], OneIf(b))
    BY <1>3, <2>1, <2>2, <2>3, RoundShifts, ZenonT(30) DEF CrcBytes
  <2>5. Sums(data, k + 1)[k + 1] =
          IF b = 1 THEN Difference(Sums(data, k + 1)[k], Power(0)) ELSE Sums(data, k + 1)[k]
    <3>1. k < k + 1 /\ (k + 1) - k - 1 = 0 /\ k + 1 \in Nat
      OBVIOUS
    <3> DEFINE q == k + 1
    <3>2. \A j \in Nat : j < n =>
            Sums(data, q)[j + 1] = IF j < q /\ StreamBit(data, j + 1) = 1
                                   THEN Difference(Sums(data, q)[j], Power(q - j - 1)) ELSE Sums(data, q)[j]
      <4>1. q \in Nat
        OBVIOUS
      <4> HIDE DEF q
      <4> QED BY <4>1, SumsNext
    <3>3. Sums(data, q)[k + 1] = IF k < q /\ b = 1
                                 THEN Difference(Sums(data, q)[k], Power(q - k - 1)) ELSE Sums(data, q)[k]
      <4> HIDE DEF q
      <4> QED BY <1>3, <3>2
    <3> QED BY <3>1, <3>3
  <2>6. Power(0) = {0}
    BY PowerSteps
  <2>7. \A a : Difference(a, {}) = a
    BY DEF Difference
  <2>8. Bits(f[k + 1]) = Sums(data, k + 1)[k + 1]
    <3>1. CASE b = 1
      BY <2>4, <2>5, <2>6, <3>1 DEF OneIf
    <3>2. CASE b # 1
      <4>1. OneIf(b) = {}
        BY <3>2 DEF OneIf
      <4>2. Sums(data, k + 1)[k + 1] = Sums(data, k + 1)[k]
        BY <2>5, <3>2
      <4> QED BY <2>4, <2>7, <4>1, <4>2
    <3> QED BY <3>1, <3>2
  <2> QED BY <2>8
<1> HIDE DEF S, n
<1>4. \A k \in 0 .. n : k \in S
  BY <1>0, <1>2, <1>3, BoundedInduction
<1> QED BY <1>4 DEF S, n

\* The eight zeros behind the block add nothing.
LEMMA ZerosAddNothing ==
  ASSUME NEW data \in Seq(0 .. 255), NEW m \in Nat
  PROVE  Sums(data, m)[8 * (Len(data) + 1)] = Sums(data, m)[8 * Len(data)]
<1> DEFINE f == Sums(data, m)  n == 8 * Len(data)  S == {i \in Nat : f[n + i] = f[n]}
<1>0. n \in Nat /\ 8 * (Len(data) + 1) = n + 8
  OBVIOUS
<1>1. \A k \in Nat : k < n + 8 =>
        f[k + 1] = IF k < m /\ StreamBit(data, k + 1) = 1
                   THEN Difference(f[k], Power(m - k - 1)) ELSE f[k]
  BY <1>0, SumsNext
<1>2. 0 \in S
  BY <1>0
<1>3. ASSUME NEW i \in Nat, i < 8, i \in S PROVE i + 1 \in S
  <2>1. n + i \in Nat /\ n + i < n + 8 /\ (n + i) + 1 > n /\ (n + i) + 1 = n + (i + 1)
    BY <1>0, <1>3
  <2>2. StreamBit(data, (n + i) + 1) = 0
    BY <2>1, StreamOfBits
  <2>3. f[(n + i) + 1] = f[n + i]
    <3> HIDE DEF f, n
    <3> QED BY <1>1, <2>1, <2>2
  <2>4. f[n + (i + 1)] = f[n]
    <3> HIDE DEF f, n
    <3> QED BY <1>3, <2>1, <2>3
  <2> HIDE DEF f, n
  <2> QED BY <2>4
<1> HIDE DEF f, n, S
<1>4. \A i \in 0 .. 8 : i \in S
  BY <1>2, <1>3, BoundedInduction
<1>5. f[n + 8] = f[n]
  BY <1>4 DEF S
<1> QED BY <1>0, <1>5 DEF f, n

LEMMA RemainderIsSum ==
  ASSUME NEW data \in Seq(0 .. 255)
  PROVE  Remainder(data) = Sums(data, 8 * (Len(data) + 1))[8 * Len(data)]
<1> DEFINE n == 8 * Len(data)  m == 8 * (Len(data) + 1)
           Def(h) == [k \in 0 .. n |-> IF k = 0 THEN {}
                        ELSE IF StreamBit(data, k) = 1 THEN Difference(h[k - 1], Power(n - k + 8))
                        ELSE h[k - 1]]
           sum == CHOOSE h : h = Def(h)
           f == Sums(data, m)
           step == SumStep(data, m)
<1>0. n \in Nat /\ m \in Nat /\ m = n + 8 /\ n <= m
  OBVIOUS
<1>1. f \in Runs(Polynomials, {}, m, step)
  BY <1>0, SumsRun
<1>2. Remainder(data) = sum[n]
  BY DEF Remainder
<1>3. step \in [Nat -> [Polynomials -> Polynomials]] /\ {} \in Polynomials
  BY <1>0, SumSteps
<1>4. \A k \in Nat : \A a \in Polynomials : k < n =>
        step[k][a] = IF StreamBit(data, k + 1) = 1 THEN Difference(a, Power(n - (k + 1) + 8)) ELSE a
  <2>1. ASSUME NEW k \in Nat, k < n PROVE k < m /\ m - k - 1 = n - (k + 1) + 8
    BY <1>0, <2>1
  <2> HIDE DEF n, m
  <2> QED BY <2>1 DEF SumStep
<1> HIDE DEF n, m, f, step
<1>5. PICK g : g \in Runs(Polynomials, {}, n, step)
  <2> DEFINE z == {}
  <2>1. z \in Polynomials
    BY <1>3
  <2> HIDE DEF z
  <2>2. Runs(Polynomials, z, n, step) # {}
    BY <1>0, <1>3, <2>1, IterationExists
  <2> QED BY <2>2 DEF z
<1>6. g \in [0 .. n -> Polynomials] /\ g[0] = {} /\ \A k \in Nat : k < n => g[k + 1] = step[k][g[k]]
  BY <1>5 DEF Runs
<1>7. g = Def(g)
  <2>1. ASSUME NEW k \in 0 .. n PROVE g[k] = Def(g)[k]
    <3>1. CASE k = 0
      BY <3>1, <1>6
    <3>2. CASE k # 0
      <4>1. k - 1 \in Nat /\ k - 1 < n /\ (k - 1) + 1 = k /\ g[k - 1] \in Polynomials
        BY <3>2, <1>0, <1>6
      <4>2. g[k] = step[k - 1][g[k - 1]]
        BY <4>1, <1>6
      <4>3. step[k - 1][g[k - 1]] =
              IF StreamBit(data, k) = 1 THEN Difference(g[k - 1], Power(n - k + 8)) ELSE g[k - 1]
        BY <4>1, <1>4
      <4> QED BY <3>2, <4>2, <4>3
    <3> QED BY <3>1, <3>2
  <2> QED BY <2>1, <1>6
<1>8. sum = Def(sum)
  <2> HIDE DEF Def
  <2> QED BY <1>7
<1> HIDE DEF sum
<1>9. sum = [k \in 0 .. n |-> sum[k]] /\ sum[0] = {}
  BY <1>0, <1>8
<1>10. ASSUME NEW k \in Nat, k < n, sum[k] \in Polynomials PROVE sum[k + 1] = step[k][sum[k]]
  <2>1. sum[k + 1] = IF StreamBit(data, k + 1) = 1 THEN Difference(sum[k], Power(n - (k + 1) + 8)) ELSE sum[k]
    <3>1. k + 1 \in 0 .. n /\ k + 1 # 0 /\ (k + 1) - 1 = k
      BY <1>0, <1>10
    <3>2. sum[k + 1] = Def(sum)[k + 1]
      <4> HIDE DEF Def
      <4> QED BY <1>8
    <3>3. Def(sum)[k + 1] = IF StreamBit(data, k + 1) = 1
                            THEN Difference(sum[(k + 1) - 1], Power(n - (k + 1) + 8)) ELSE sum[(k + 1) - 1]
      BY <3>1
    <3> QED BY <3>1, <3>2, <3>3
  <2> HIDE DEF Def
  <2> QED BY <1>4, <1>10, <2>1
<1>11. sum \in Runs(Polynomials, {}, n, step)
  <2> HIDE DEF Def
  <2> QED BY <1>0, <1>3, <1>9, <1>10, RunOf
<1> HIDE DEF Def
<1>12. sum[n] = f[n]
  BY <1>0, <1>1, <1>3, <1>11, RunsAgree
<1> QED BY <1>2, <1>12 DEF f, m, n

\* The checksum of every block is the remainder of its bits.
LEMMA CrcIsRemainder ==
  ASSUME NEW data \in Seq(0 .. 255)
  PROVE  {k \in 0 .. 7 : Bit(controller_pak_crc(data), k) = 1} = Remainder(data)
<1> DEFINE m == 8 * (Len(data) + 1)
<1>1. m \in Nat
  OBVIOUS
<1>2. PICK f \in Runs(CrcBytes, 0, m, CrcRound(data)) : controller_pak_crc(data) = f[m]
  BY CrcRuns
<1>3. Bits(f[m]) = Sums(data, m)[m]
  BY <1>1, <1>2, CrcSums
<1>4. Sums(data, m)[m] = Remainder(data)
  BY <1>1, ZerosAddNothing, RemainderIsSum
<1> HIDE DEF m
<1> QED BY <1>2, <1>3, <1>4 DEF Bits

-----------------------------------------------------------------------------
(***************************************************************************)
(* The paks with what is behind them.                                      *)
(***************************************************************************)
GbInv == GbInvOf(gb, gbref)

LEMMA GbStarts ==
  ASSUME CartsInBits, GbInit
  PROVE  GbInv
<1>1. PICK c \in GbCarts :
        /\ gb = [cart |-> c, low |-> 0, high |-> 0, zero |-> 0, n |-> 1, ram |-> 0,
                 on |-> FALSE, mode |-> 0, shows |-> "ram", data |-> [b \in 0 .. 15 |-> 0]]
        /\ gbref = [bank1 |-> 1, bank2 |-> 0, mode |-> 0, on |-> FALSE, rtc |-> FALSE,
                    selected |-> FALSE, data |-> [b \in 0 .. 15 |-> 0]]
  BY DEF GbInit
<1>2. c.rom \in Nat /\ c.rom > 1 /\ c.type \in {"rom", "mbc1", "mbc2", "mbc3", "mbc5"}
  BY GbAssumption
<1>3. /\ gb.cart = c /\ gb.low = 0 /\ gb.high = 0 /\ gb.zero = 0 /\ gb.n = 1 /\ gb.ram = 0
      /\ gb.mode = 0 /\ gb.shows = "ram" /\ gb.data = [b \in 0 .. 15 |-> 0] /\ gb.on = gbref.on
      /\ gbref.bank1 = 1 /\ gbref.bank2 = 0 /\ gbref.mode = 0
      /\ gbref.data = [b \in 0 .. 15 |-> 0]
  BY <1>1
<1>4. ~ gbref.rtc /\ ~ gbref.selected
  BY <1>1
<1>5. gb \in GbStates
  BY <1>1 DEF GbStates, Nibbles, GbModes, GbSources, GbMemories
<1>6. gbref \in GbRefs
  BY <1>1 DEF GbRefs, Nibbles, GbModes, GbSources, GbMemories
<1>7. 1 % c.rom = 1
  BY <1>2
<1>8. RefRomBank(gbref, c) = 1 /\ RefZero(gbref, c) = 0 /\ RefRamBank(gbref, c) = 0
  <2>1. 0 * 32 + 1 = 1
    OBVIOUS
  <2>2. RefRomBank(gbref, c) = 1
    BY <1>3, <1>7, <2>1 DEF RefRomBank
  <2>3. RefZero(gbref, c) = 0
    BY <1>3 DEF RefZero
  <2>4. RefRamBank(gbref, c) = 0
    BY <1>2, <1>3 DEF RefRamBank
  <2> QED BY <2>2, <2>3, <2>4
<1>9. c.type = "mbc1" => Mbc1Rom(gb, gbref)
  <2>1. ASSUME c.type = "mbc1" PROVE Mbc1Rom(gb, gbref)
    <3>1. c.rom \in Mbc1Banks
      BY <2>1 DEF CartsInBits
    <3>2. c.rom > 31 => 0 % (c.rom \div 32) = 0
      <4>1. ASSUME c.rom > 31 PROVE 0 % (c.rom \div 32) = 0
        <5>1. c.rom = 32 \/ c.rom = 64 \/ c.rom = 128 \/ c.rom = 256 \/ c.rom = 512
          BY <3>1, <4>1 DEF Mbc1Banks
        <5> QED BY <5>1
      <4> QED BY <4>1
    <3>3. LowOf(gbref) = 0
      BY <1>4 DEF LowOf
    <3> QED BY <1>2, <1>3, <1>4, <3>2, <3>3 DEF Mbc1Rom
  <2> QED BY <2>1
<1>10. c.type = "mbc5" => Mbc5Rom(gb, gbref)
  BY <1>3, <1>4 DEF Mbc5Rom
<1>11. RomInvOf(gb, gbref)
  BY <1>3, <1>8, <1>9, <1>10 DEF RomInvOf
<1>12. RamInvOf(gb, gbref)
  <2>1. gbref.rtc = (gb.shows = "rtc")
    <3>1. gbref.rtc \in BOOLEAN /\ gb.shows # "rtc"
      BY <1>3, <1>6 DEF GbRefs
    <3> QED BY <1>4, <3>1
  <2>2. \A b \in 0 .. 15 : gb.data[b] < 16
    BY <1>3
  <2> QED BY <1>3, <1>8, <2>1, <2>2 DEF RamInvOf
<1> QED BY <1>5, <1>6, <1>11, <1>12 DEF GbInv, GbInvOf

LEMMA GbWritesKeep ==
  ASSUME CartsInBits, GbAnyMode = FALSE, GbInv, NEW part \in Parts, NEW d \in 0 .. 255,
         GbUsual(gb.cart, part, d)
  PROVE  GbInvOf(gb_write(gb, part, d), RefWrite(gbref, gb.cart, part, d))
<1>1. GbUsualFor(gb.cart, gbref, part, d)
  BY DEF GbUsual, GbUsualFor
<1> QED BY <1>1, GbWriteKeeps DEF GbInv

LEMMA GbShows ==
  ASSUME GbInv
  PROVE  GbRomRight /\ GbRamRight
<1>1. gb \in GbStates /\ gbref \in GbRefs /\ RomInvOf(gb, gbref) /\ RamInvOf(gb, gbref)
  BY DEF GbInv, GbInvOf
<1>2. GbRomRight
  BY <1>1 DEF RomInvOf, GbRomRight
<1>3. GbRamRight
  <2>1. CASE gb.cart.type = "rom"
    BY <2>1 DEF GbRamRight, ReadExt, RefReadExt
  <2>2. CASE gb.cart.type # "rom"
    <3>1. /\ gb.ram = RefRamBank(gbref, gb.cart) /\ gb.data = gbref.data
          /\ gb.on = gbref.on /\ gbref.rtc = (gb.shows = "rtc")
          /\ gb.cart.type = "mbc2" => \A b \in 0 .. 15 : gb.data[b] < 16
      BY <1>1, <2>2 DEF RamInvOf
    <3>2. gb.ram \in 0 .. 15 /\ gb.data[gb.ram] \in 0 .. 255
      BY <1>1 DEF GbStates, Nibbles, GbMemories
    <3>3. gb.cart.type = "mbc2" => gb.data[gb.ram] % 16 = gb.data[gb.ram]
      <4> DEFINE x == gb.data[gb.ram]
      <4>1. gb.cart.type = "mbc2" => x < 16
        BY <3>1, <3>2
      <4>2. x \in 0 .. 255
        BY <3>2
      <4> HIDE DEF x
      <4>3. x < 16 => x % 16 = x
        BY <4>2
      <4> QED BY <4>1, <4>3 DEF x
    <3>4. CASE gb.shows = "rtc"
      <4>1. gbref.rtc
        BY <3>1, <3>4
      <4> QED BY <2>2, <3>4, <4>1 DEF GbRamRight, ReadExt, RefReadExt
    <3>5. CASE gb.shows # "rtc"
      <4>1. ~ gbref.rtc
        BY <3>1, <3>5
      <4> QED BY <2>2, <3>1, <3>3, <3>5, <4>1 DEF GbRamRight, ReadExt, RefReadExt
    <3> QED BY <3>4, <3>5
  <2> QED BY <2>1, <2>2
<1> QED BY <1>2, <1>3

PakMem == [PakBlocks -> {<<>>} \cup PakData]
PakStates ==
  [type : PakTypes, enabled : BOOLEAN, bank : 0 .. 3, mode : {0, 1}, changed : BOOLEAN, mem : PakMem]
PakRefs == [mem : PakMem, bank : 0 .. 3, mode : {0, 1}, told : BOOLEAN]

\* The pak has what was set and written, and the answer to the last call was right.
PakMatches ==
  /\ pak \in PakStates /\ pakref \in PakRefs
  /\ pakref.mem = pak.mem /\ pakref.bank = pak.bank /\ pakref.mode = pak.mode
  /\ pakref.told # pak.changed
GotInv ==
  /\ pakgot.answer = pakgot.right
  /\ \E d \in {<<>>} \cup PakData :
       pakgot.block = d /\ {k \in 0 .. 7 : Bit(pakgot.crc, k) = 1} = Remainder(d)
PakInv == GbInv /\ PakMatches /\ GotInv

LEMMA EmptyBlock == {k \in 0 .. 7 : Bit(0, k) = 1} = Remainder(<<>>)
<1>1. \A k \in 0 .. 7 : Bit(0, k) = 0
  <2>1. ASSUME NEW k \in 0 .. 7 PROVE Bit(0, k) = 0
    <3>1. k = 0 \/ k = 1 \/ k = 2 \/ k = 3 \/ k = 4 \/ k = 5 \/ k = 6 \/ k = 7
      OBVIOUS
    <3>2. /\ Bit(0, 0) = 0 /\ Bit(0, 1) = 0 /\ Bit(0, 2) = 0 /\ Bit(0, 3) = 0
          /\ Bit(0, 4) = 0 /\ Bit(0, 5) = 0 /\ Bit(0, 6) = 0 /\ Bit(0, 7) = 0
      BY DEF Bit
    <3> QED BY <3>1, <3>2
  <2> QED BY <2>1
<1>2. {k \in 0 .. 7 : Bit(0, k) = 1} = {}
  BY <1>1
<1>3. Remainder(<<>>) = {}
  <2> DEFINE e == <<>>
  <2>1. e \in Seq(0 .. 255) /\ Len(e) = 0
    OBVIOUS
  <2> HIDE DEF e
  <2>2. Remainder(e) = Sums(e, 8 * (Len(e) + 1))[8 * Len(e)]
    BY <2>1, RemainderIsSum
  <2>3. 8 * (Len(e) + 1) \in Nat /\ 8 * Len(e) = 0
    BY <2>1
  <2>4. Sums(e, 8 * (Len(e) + 1))[0] = {}
    BY <2>1, <2>3, SumsNext
  <2> QED BY <2>2, <2>3, <2>4 DEF e
<1> QED BY <1>2, <1>3

LEMMA PakStarts ==
  ASSUME CartsInBits, PakInit
  PROVE  PakInv
<1>1. GbInv
  BY GbStarts DEF PakInit
<1>2. PakMatches
  <2> DEFINE m == [b \in PakBlocks |-> <<>>]
  <2>1. m \in PakMem
    BY DEF PakMem
  <2>2. /\ pak \in [type : PakTypes, enabled : {FALSE}, bank : {0}, mode : {0}, changed : {FALSE}, mem : {m}]
        /\ pakref = [mem |-> m, bank |-> 0, mode |-> 0, told |-> TRUE]
    BY DEF PakInit
  <2> HIDE DEF m
  <2>3. pak.bank = 0 /\ pak.mode = 0 /\ pak.changed = FALSE /\ pak.mem = m /\ pak \in PakStates
    <3>1. /\ pak = [type |-> pak.type, enabled |-> pak.enabled, bank |-> pak.bank, mode |-> pak.mode,
                    changed |-> pak.changed, mem |-> pak.mem]
          /\ pak.type \in PakTypes /\ pak.enabled \in {FALSE} /\ pak.bank \in {0} /\ pak.mode \in {0}
          /\ pak.changed \in {FALSE} /\ pak.mem \in {m}
      BY <2>2
    <3>2. pak.enabled \in BOOLEAN /\ pak.changed \in BOOLEAN /\ pak.changed = FALSE
      BY <3>1, Zenon
    <3>3. pak.bank = 0 /\ pak.mode = 0 /\ pak.mem = m
      BY <3>1
    <3> QED BY <2>1, <3>1, <3>2, <3>3 DEF PakStates
  <2>4. /\ pakref \in PakRefs /\ pakref.mem = m /\ pakref.bank = 0 /\ pakref.mode = 0
        /\ pakref.told = TRUE
    BY <2>1, <2>2 DEF PakRefs
  <2> QED BY <2>3, <2>4 DEF PakMatches
<1>3. GotInv
  BY EmptyBlock DEF PakInit, Unasked, GotInv
<1> QED BY <1>1, <1>2, <1>3 DEF PakInv

\* What a read answers, before it clears the report of the mode.
LEMMA AnswersRight ==
  ASSUME GbInv, PakMatches, NEW a \in Readable
  PROVE  PakAnswer(a) = PakShould(a)
<1>1. pak.type \in {"none", "mem", "rumble", "transfer"}
  BY PakAssumption DEF PakMatches, PakStates
<1>2. CASE pak.type = "mem"
  BY <1>2 DEF PakAnswer, PakShould, PakMatches
<1>3. CASE pak.type = "rumble"
  BY <1>3 DEF PakAnswer, PakShould
<1>4. CASE pak.type = "none"
  BY <1>4 DEF PakAnswer, PakShould
<1>5. CASE pak.type = "transfer"
  <2>1. PakAnswer(a) = transfer_pak_read(a) /\ PakShould(a) = TransferShould(a)
    BY <1>5 DEF PakAnswer, PakShould
  <2>2. transfer_pak_read(a) = TransferShould(a)
    <3>1. CASE a = "8000"
      <4>1. a # "B000" /\ a \notin Window
        BY <3>1 DEF Window
      <4>2. transfer_pak_read(a) = <<"ram", IF pak.enabled THEN 132 ELSE 0>>
        BY <3>1, <4>1, Zenon DEF transfer_pak_read
      <4>3. TransferShould(a) = <<"ram", IF pak.enabled THEN 132 ELSE 0>>
        BY <3>1, <4>1, Zenon DEF TransferShould
      <4> QED BY <4>2, <4>3
    <3>2. CASE a = "B000"
      <4>1. pak.enabled
        BY <1>5, <3>2 DEF Readable
      <4>2. pakref.mode = pak.mode /\ pakref.told \in BOOLEAN /\ pak.changed \in BOOLEAN /\ pakref.told # pak.changed
        BY DEF PakMatches, PakStates, PakRefs
      <4>3. ModeBits + (IF pak.changed THEN 4 ELSE 0)
              = (IF pakref.mode = 1 THEN 137 ELSE 128) + (IF pakref.told THEN 0 ELSE 4)
        BY <4>2 DEF ModeBits
      <4>4. a # "8000" /\ a \notin Window
        BY <3>2 DEF Window
      <4>5. transfer_pak_read(a) = <<"ram", ModeBits + (IF pak.changed THEN 4 ELSE 0)>>
        BY <3>2, <4>1, <4>4, Zenon DEF transfer_pak_read
      <4>6. TransferShould(a) =
              <<"ram", (IF pakref.mode = 1 THEN 137 ELSE 128) + (IF pakref.told THEN 0 ELSE 4)>>
        BY <3>2, <4>4, Zenon DEF TransferShould
      <4> QED BY <4>3, <4>5, <4>6
    <3>3. CASE a \in Window
      <4>1. pak.enabled /\ a # "8000" /\ a # "B000"
        BY <1>5, <3>3 DEF Readable, Window
      <4>2. pakref.bank = pak.bank
        BY DEF PakMatches
      <4>3. \A part : GbReadAt(part) = GbShould(part)
        BY GbShows DEF GbReadAt, GbShould, GbRomRight, GbRamRight
      <4>4. transfer_pak_read(a) = GbReadAt(GbPart(pak.bank, a))
        BY <3>3, <4>1 DEF transfer_pak_read
      <4>5. TransferShould(a) = GbShould(GbPart(pakref.bank, a))
        BY <4>1 DEF TransferShould
      <4> QED BY <4>2, <4>3, <4>4, <4>5
    <3>4. a = "8000" \/ a = "B000" \/ a \in Window
      BY <1>5 DEF Readable
    <3> QED BY <3>1, <3>2, <3>3, <3>4
  <2> QED BY <2>1, <2>2
<1> QED BY <1>1, <1>2, <1>3, <1>4, <1>5

LEMMA UnaskedGot ==
  ASSUME pakgot' = Unasked
  PROVE  GotInv'
<1>1. pakgot'.answer = pakgot'.right /\ pakgot'.block = <<>> /\ pakgot'.crc = 0
  BY DEF Unasked
<1> QED BY <1>1, EmptyBlock DEF GotInv

LEMMA PakReadKeeps ==
  ASSUME PakInv, PakRead
  PROVE  PakInv'
<1>1. PICK a \in Readable :
        /\ pakgot' = [Unasked EXCEPT !.answer = PakAnswer(a), !.right = PakShould(a)]
        /\ IF a = "B000"
           THEN pak' = [pak EXCEPT !.changed = FALSE] /\ pakref' = [pakref EXCEPT !.told = TRUE]
           ELSE UNCHANGED <<pak, pakref>>
        /\ UNCHANGED <<gb, gbref>>
  BY DEF PakRead
<1>2. GbInv'
  BY <1>1 DEF PakInv, GbInv
<1>3. PakMatches'
  <2>1. CASE a = "B000"
    <3>1. pak' = [pak EXCEPT !.changed = FALSE] /\ pakref' = [pakref EXCEPT !.told = TRUE]
      BY <1>1, <2>1
    <3>2. /\ pak' \in PakStates /\ pak'.changed = FALSE /\ pak'.mem = pak.mem
          /\ pak'.bank = pak.bank /\ pak'.mode = pak.mode
      BY <3>1 DEF PakInv, PakMatches, PakStates
    <3>3. /\ pakref' \in PakRefs /\ pakref'.told = TRUE /\ pakref'.mem = pakref.mem
          /\ pakref'.bank = pakref.bank /\ pakref'.mode = pakref.mode
      BY <3>1 DEF PakInv, PakMatches, PakRefs
    <3> QED BY <3>2, <3>3 DEF PakInv, PakMatches
  <2>2. CASE a # "B000"
    BY <1>1, <2>2 DEF PakInv, PakMatches
  <2> QED BY <2>1, <2>2
<1>4. GotInv'
  <2>1. PakAnswer(a) = PakShould(a)
    BY AnswersRight DEF PakInv
  <2>2. pakgot'.answer = pakgot'.right /\ pakgot'.block = <<>> /\ pakgot'.crc = 0
    BY <1>1, <2>1 DEF Unasked
  <2> QED BY <2>2, EmptyBlock DEF GotInv
<1> QED BY <1>2, <1>3, <1>4 DEF PakInv

LEMMA PakEnableKeeps ==
  ASSUME PakInv, PakEnable
  PROVE  PakInv'
<1>1. GbInv'
  BY DEF PakEnable, PakInv, GbInv
<1>2. PakMatches'
  <2>1. PICK on \in BOOLEAN : pak' = [pak EXCEPT !.enabled = on]
    BY DEF PakEnable
  <2>2. /\ pak' \in PakStates /\ pak'.changed = pak.changed /\ pak'.mem = pak.mem
        /\ pak'.bank = pak.bank /\ pak'.mode = pak.mode
    BY <2>1 DEF PakInv, PakMatches, PakStates
  <2> QED BY <2>2 DEF PakInv, PakMatches, PakEnable
<1>3. GotInv'
  BY UnaskedGot DEF PakEnable
<1> QED BY <1>1, <1>2, <1>3 DEF PakInv

LEMMA MemWriteKeeps ==
  ASSUME PakInv, MemWrite
  PROVE  PakInv'
<1>1. PICK a \in PakBlocks, d \in PakData :
        /\ pak' = [pak EXCEPT !.mem[a] = d]
        /\ pakref' = [pakref EXCEPT !.mem[a] = d]
        /\ pakgot' = [Unasked EXCEPT !.block = d, !.crc = controller_pak_crc(d)]
  BY DEF MemWrite
<1>2. GbInv'
  BY DEF MemWrite, PakInv, GbInv
<1>3. PakMatches'
  <2> DEFINE m == [pak.mem EXCEPT ![a] = d]
  <2>1. m \in PakMem
    BY DEF PakInv, PakMatches, PakStates, PakMem
  <2>2. pak' = [pak EXCEPT !.mem = m]
    BY <1>1
  <2>3. pakref' = [pakref EXCEPT !.mem = m]
    BY <1>1 DEF PakInv, PakMatches
  <2> HIDE DEF m
  <2>4. /\ pak' \in PakStates /\ pak'.changed = pak.changed /\ pak'.mem = m
        /\ pak'.bank = pak.bank /\ pak'.mode = pak.mode
    BY <2>1, <2>2 DEF PakInv, PakMatches, PakStates
  <2>5. /\ pakref' \in PakRefs /\ pakref'.told = pakref.told /\ pakref'.mem = m
        /\ pakref'.bank = pakref.bank /\ pakref'.mode = pakref.mode
    BY <2>1, <2>3 DEF PakInv, PakMatches, PakRefs
  <2> QED BY <2>4, <2>5 DEF PakInv, PakMatches
<1>4. GotInv'
  <2>1. {k \in 0 .. 7 : Bit(controller_pak_crc(d), k) = 1} = Remainder(d)
    BY CrcIsRemainder, PakAssumption
  <2>2. /\ pakgot'.answer = pakgot'.right /\ pakgot'.block = d
        /\ pakgot'.crc = controller_pak_crc(d)
    BY <1>1 DEF Unasked
  <2>3. {k \in 0 .. 7 : Bit(pakgot'.crc, k) = 1} = Remainder(d)
    BY <2>1, <2>2, Zenon
  <2> QED BY <2>2, <2>3 DEF GotInv
<1> QED BY <1>2, <1>3, <1>4 DEF PakInv

LEMMA TransferSetKeeps ==
  ASSUME PakInv, TransferSet
  PROVE  PakInv'
<1>1. GbInv'
  BY DEF TransferSet, PakInv, GbInv
<1>2. PakMatches'
  <2>1. ASSUME NEW d \in 0 .. 3, pak' = [pak EXCEPT !.bank = d], pakref' = [pakref EXCEPT !.bank = d]
        PROVE  PakMatches'
    <3>1. /\ pak' \in PakStates /\ pak'.changed = pak.changed /\ pak'.mem = pak.mem
          /\ pak'.bank = d /\ pak'.mode = pak.mode
      BY <2>1 DEF PakInv, PakMatches, PakStates
    <3>2. /\ pakref' \in PakRefs /\ pakref'.told = pakref.told /\ pakref'.mem = pakref.mem
          /\ pakref'.bank = d /\ pakref'.mode = pakref.mode
      BY <2>1 DEF PakInv, PakMatches, PakRefs
    <3> QED BY <3>1, <3>2 DEF PakInv, PakMatches
  <2>2. ASSUME NEW d \in 0 .. 1, pak' = [pak EXCEPT !.mode = d, !.changed = TRUE],
               pakref' = [pakref EXCEPT !.mode = d, !.told = FALSE]
        PROVE  PakMatches'
    <3>0. d \in {0, 1}
      OBVIOUS
    <3>1. pak \in PakStates /\ pakref \in PakRefs /\ pakref.mem = pak.mem /\ pakref.bank = pak.bank
      BY DEF PakInv, PakMatches
    <3>2. /\ pak'.changed /\ pak'.mem = pak.mem /\ pak'.bank = pak.bank /\ pak'.mode = d
      BY <2>2, <3>1 DEF PakStates
    <3>3. pak' \in PakStates
      BY <2>2, <3>0, <3>1 DEF PakStates
    <3>4. /\ ~ pakref'.told /\ pakref'.mem = pakref.mem /\ pakref'.bank = pakref.bank
          /\ pakref'.mode = d
      BY <2>2, <3>1 DEF PakRefs
    <3>5. pakref' \in PakRefs
      BY <2>2, <3>0, <3>1 DEF PakRefs
    <3> QED BY <3>1, <3>2, <3>3, <3>4, <3>5 DEF PakMatches
  <2> QED BY <2>1, <2>2 DEF TransferSet, BankOf
<1>3. GotInv'
  BY UnaskedGot DEF TransferSet
<1> QED BY <1>1, <1>2, <1>3 DEF PakInv

LEMMA PartsOfWindow ==
  ASSUME NEW bank \in 0 .. 3, NEW a \in Window, GbPart(bank, a) # "none"
  PROVE  GbPart(bank, a) \in Parts
<1>1. a = "C000" \/ a = "E000" \/ a = "F000"
  BY DEF Window
<1>2. CASE bank = 0
  <2>1. bank % 4 = 0
    BY <1>2
  <2> QED BY <1>1, <2>1 DEF GbPart, Parts
<1>3. CASE bank = 1
  <2>1. bank % 4 = 1
    BY <1>3
  <2> QED BY <1>1, <2>1 DEF GbPart, Parts
<1>4. CASE bank = 2
  <2>1. bank % 4 = 2
    BY <1>4
  <2> QED BY <1>1, <2>1 DEF GbPart, Parts
<1>5. CASE bank = 3
  <2>1. bank % 4 = 3
    BY <1>5
  <2> QED BY <2>1 DEF GbPart
<1> QED BY <1>2, <1>3, <1>4, <1>5

LEMMA TransferWriteKeeps ==
  ASSUME CartsInBits, GbAnyMode = FALSE, PakInv, TransferWrite
  PROVE  PakInv'
<1>1. PICK a \in Window :
        IF GbPart(pak.bank, a) = "none" THEN UNCHANGED <<gb, gbref>>
        ELSE \E d \in PakBytes :
               /\ GbUsual(gb.cart, GbPart(pakref.bank, a), d)
               /\ gb' = gb_write(gb, GbPart(pak.bank, a), d)
               /\ gbref' = IF GbPart(pakref.bank, a) = "none" THEN gbref
                           ELSE RefWrite(gbref, gb.cart, GbPart(pakref.bank, a), d)
  BY DEF TransferWrite
<1>2. pakref.bank = pak.bank /\ pak.bank \in 0 .. 3
  BY DEF PakInv, PakMatches, PakStates
<1>3. GbInv'
  <2>1. CASE GbPart(pak.bank, a) = "none"
    BY <1>1, <2>1 DEF PakInv, GbInv
  <2>2. CASE GbPart(pak.bank, a) # "none"
    <3> DEFINE part == GbPart(pak.bank, a)
    <3>1. part \in Parts
      BY <1>2, <2>2, PartsOfWindow
    <3>2. PICK d \in PakBytes : /\ GbUsual(gb.cart, part, d)
                                /\ gb' = gb_write(gb, part, d)
                                /\ gbref' = RefWrite(gbref, gb.cart, part, d)
      BY <1>1, <1>2, <2>2
    <3>3. d \in 0 .. 255
      BY PakAssumption
    <3> HIDE DEF part
    <3> QED BY <3>1, <3>2, <3>3, GbWritesKeep DEF PakInv, GbInv
  <2> QED BY <2>1, <2>2
<1>4. PakMatches'
  BY DEF PakInv, PakMatches, TransferWrite
<1>5. GotInv'
  BY UnaskedGot DEF TransferWrite
<1> QED BY <1>3, <1>4, <1>5 DEF PakInv

LEMMA PakInvShows ==
  ASSUME PakInv
  PROVE  CartsRight
<1>1. GbRomRight /\ GbRamRight
  BY GbShows DEF PakInv
<1>2. PakAnswers /\ ChecksumRight
  BY DEF PakInv, GotInv, PakAnswers, ChecksumRight
<1> QED BY <1>1, <1>2 DEF CartsRight

\* Every block that a pak holds comes back as it was written, through the window
\* of a Transfer Pak the bank that the cartridge's registers select, and every
\* checksum is the remainder of the block: for every set of cartridges in which
\* MBC1 has a power of two of banks, and every block of bytes.
THEOREM CartsAlwaysRight ==
  ASSUME CartsInBits, GbAnyMode = FALSE
  PROVE  PakSpec => []CartsRight
<1>1. PakInit => PakInv
  BY PakStarts
<1>2. PakInv /\ [PakNext]_pakVars => PakInv'
  <2> SUFFICES ASSUME PakInv, [PakNext]_pakVars PROVE PakInv'
    OBVIOUS
  <2>1. CASE PakRead
    BY <2>1, PakReadKeeps
  <2>2. CASE PakEnable
    BY <2>2, PakEnableKeeps
  <2>3. CASE MemWrite
    BY <2>3, MemWriteKeeps
  <2>4. CASE TransferSet
    BY <2>4, TransferSetKeeps
  <2>5. CASE TransferWrite
    BY <2>5, TransferWriteKeeps
  <2>6. CASE UNCHANGED pakVars
    BY <2>6 DEF pakVars, PakInv, GbInv, PakMatches, GotInv
  <2> QED BY <2>1, <2>2, <2>3, <2>4, <2>5, <2>6 DEF PakNext
<1>3. PakInv => CartsRight
  BY PakInvShows
<1> QED BY <1>1, <1>2, <1>3, PTL DEF PakSpec

\* The two windows of the ROM and the RAM show what the registers of the bank
\* controller select, after every mix of writes to all of its registers.
THEOREM BanksAlwaysRight ==
  ASSUME CartsInBits, GbAnyMode = FALSE
  PROVE  GbSpec => [](GbRomRight /\ GbRamRight)
<1>1. GbInit => GbInv
  BY GbStarts
<1>2. GbInv /\ [GbNext]_gbVars => GbInv'
  <2> SUFFICES ASSUME GbInv, [GbNext]_gbVars PROVE GbInv'
    OBVIOUS
  <2>1. CASE GbNext
    <3>1. PICK part \in Parts, d \in GbData \cup GbBytes : GbWrite(part, d)
      BY <2>1 DEF GbNext
    <3>2. d \in 0 .. 255
      BY GbAssumption
    <3> QED BY <3>1, <3>2, GbWritesKeep DEF GbWrite, GbInv
  <2>2. CASE UNCHANGED gbVars
    BY <2>2 DEF gbVars, GbInv
  <2> QED BY <2>1, <2>2
<1>3. GbInv => GbRomRight /\ GbRamRight
  BY GbShows
<1> QED BY <1>1, <1>2, <1>3, PTL DEF GbSpec

-----------------------------------------------------------------------------
(* The audio interface.                                                    *)

Controllers == [dram_addr : Addresses, status : SUBSET {"busy", "full"},
                freq : Frequencies, fifo_count : 0 .. 2,
                fifo_wi : {0, 1}, fifo_ri : {0, 1},
                fifo : [{0, 1} -> [address : Addresses, length : Lengths \union {0}]],
                no_output : BOOLEAN]

\* The fields of a controller from which the oldest buffer was popped.
LEMMA PopFields ==
  ASSUME NEW s \in Controllers, s.fifo_count > 0
  PROVE  /\ Pop(s) \in Controllers
         /\ Pop(s).status = {}
         /\ Pop(s).fifo_count = s.fifo_count - 1
         /\ Pop(s).fifo_ri = 1 - s.fifo_ri
         /\ Pop(s).fifo_wi = s.fifo_wi
         /\ Pop(s).fifo = s.fifo
<1>1. s.fifo_count - 1 \in 0 .. 2 /\ 1 - s.fifo_ri \in {0, 1}
  BY DEF Controllers
<1> DEFINE p == [s EXCEPT !.fifo_ri = 1 - s.fifo_ri, !.status = {},
                          !.fifo_count = s.fifo_count - 1]
<1>2. p \in Controllers
  BY <1>1 DEF Controllers
<1>3. Pop(s) = p
  BY DEF Pop
<1> QED BY <1>2, <1>3 DEF Controllers

\* The fields of a controller whose engine was started.
LEMMA BusyFields ==
  ASSUME NEW s \in Controllers
  PROVE  /\ Busy(s) \in Controllers
         /\ Busy(s).status = {"busy"}
         /\ Busy(s).fifo_count = s.fifo_count
         /\ Busy(s).fifo_ri = s.fifo_ri
         /\ Busy(s).fifo_wi = s.fifo_wi
         /\ Busy(s).fifo = s.fifo
BY DEF Controllers, Busy

\* The fields of a controller into which a buffer was filled.
LEMMA FillFields ==
  ASSUME NEW s \in Controllers, s.fifo_count < 2, NEW e \in Entries
  PROVE  /\ Fill(s, e) \in Controllers
         /\ Fill(s, e).status = IF s.fifo_count = 1 THEN s.status \union {"full"} ELSE s.status
         /\ Fill(s, e).fifo_count = s.fifo_count + 1
         /\ Fill(s, e).fifo_ri = s.fifo_ri
         /\ Fill(s, e).fifo_wi = 1 - s.fifo_wi
         /\ Fill(s, e).fifo = [s.fifo EXCEPT ![s.fifo_wi] = e]
<1>1. s.fifo_count + 1 \in 0 .. 2 /\ 1 - s.fifo_wi \in {0, 1}
  BY DEF Controllers
<1> DEFINE st == IF s.fifo_count = 1 THEN s.status \union {"full"} ELSE s.status
           ring == [s.fifo EXCEPT ![s.fifo_wi] = e]
           p == [s EXCEPT !.fifo = ring, !.fifo_wi = 1 - s.fifo_wi,
                          !.fifo_count = s.fifo_count + 1, !.status = st]
<1>2. st \in SUBSET {"busy", "full"}
  BY DEF Controllers
<1>3. ring \in [{0, 1} -> [address : Addresses, length : Lengths \union {0}]]
  BY DEF Controllers, Entries
<1> HIDE DEF st, ring
<1>4. p \in Controllers
  BY <1>1, <1>2, <1>3 DEF Controllers
<1>5. p.status = st /\ p.fifo_count = s.fifo_count + 1 /\ p.fifo_ri = s.fifo_ri
      /\ p.fifo_wi = 1 - s.fifo_wi /\ p.fifo = ring
  BY DEF Controllers
<1>6. Fill(s, e) = p
  BY DEF Fill, st, ring
<1> QED BY <1>4, <1>5, <1>6 DEF st, ring

\* ai_dma on a controller with at least one buffer: a buffer with samples stays
\* at the head, an empty one is popped.
LEMMA DmaFields ==
  ASSUME NEW s \in Controllers, s.fifo_count > 0
  PROVE  /\ DmaRing(s) \in Controllers
         /\ Playing(s).length > 0 => DmaRing(s) = s
         /\ (~(Playing(s).length > 0) /\ s.fifo_count = 1) => DmaRing(s) = Pop(s)
BY PopFields, BusyFields DEF DmaRing

-----------------------------------------------------------------------------

(* What a step can do to the ring, in terms of its fields. *)

TypesKept == ai' \in Controllers /\ ai_intr' \in BOOLEAN /\ delivered' \in BOOLEAN

\* A second buffer lines up behind the one that plays.
QueuedSecond(e) ==
  /\ ai.fifo_count = 1 /\ ai'.fifo_count = 2
  /\ ai'.status = ai.status \union {"full"}
  /\ ai'.fifo_ri = ai.fifo_ri /\ ai'.fifo_wi = 1 - ai.fifo_wi
  /\ ai'.fifo = [ai.fifo EXCEPT ![ai.fifo_wi] = e]
  /\ ai_intr' = ai_intr

\* A buffer starts to play at once.
QueuedFirst(e) ==
  /\ ai.fifo_count = 0 /\ ai'.fifo_count = 1 /\ e.length > 0
  /\ ai'.status = {"busy"}
  /\ ai'.fifo_ri = ai.fifo_ri /\ ai'.fifo_wi = 1 - ai.fifo_wi
  /\ ai'.fifo[ai.fifo_ri] = e
  /\ ai_intr' = ai_intr

\* An empty buffer leaves at once.
QueuedEmpty(e) ==
  /\ ai.fifo_count = 0 /\ ai'.fifo_count = 0 /\ e.length = 0
  /\ ai'.status = {}
  /\ ai'.fifo_ri = 1 - ai.fifo_ri /\ ai'.fifo_wi = 1 - ai.fifo_wi
  /\ ai_intr' = TRUE

\* The only buffer is finished.
FinishedLast ==
  /\ ai.fifo_count = 1 /\ ai'.fifo_count = 0
  /\ ai'.status = {}
  /\ ai'.fifo_ri = 1 - ai.fifo_ri /\ ai'.fifo_wi = ai.fifo_wi
  /\ ai_intr' = TRUE

\* The first of two buffers is finished, and the second one plays.
FinishedFirst ==
  /\ ai.fifo_count = 2 /\ ai'.fifo_count = 1
  /\ ai'.status = {"busy"}
  /\ ai'.fifo_ri = 1 - ai.fifo_ri /\ ai'.fifo_wi = ai.fifo_wi
  /\ ai'.fifo = ai.fifo /\ ai.fifo[1 - ai.fifo_ri].length > 0
  /\ ai_intr' = TRUE

\* The first of two buffers is finished, and the second one is empty.
FinishedBoth ==
  /\ ai.fifo_count = 2 /\ ai'.fifo_count = 0
  /\ ai'.status = {}
  /\ ai'.fifo_ri = ai.fifo_ri /\ ai'.fifo_wi = ai.fifo_wi
  /\ ai.fifo[1 - ai.fifo_ri].length = 0
  /\ ai_intr' = TRUE

\* What a write of AI_LEN does to the ring.
LEMMA WriteLenRing ==
  ASSUME TypeOK, FifoInv, NEW l \in Lengths, WriteLen(l),
         NEW e, e = [address |-> ai.dram_addr, length |-> l]
  PROVE  TypesKept /\ (UNCHANGED vars \/ QueuedSecond(e) \/ QueuedFirst(e) \/ QueuedEmpty(e))
<1> DEFINE f == Fill(ai, e)
<1>a. ai \in Controllers /\ ai_intr \in BOOLEAN /\ delivered \in BOOLEAN
  BY DEF TypeOK, Controllers
<1>1. e \in Entries /\ e.length = l /\ l \in Nat
  BY <1>a, AiAssumption DEF Entries, Controllers
<1> HIDE DEF f
<1>2. ASSUME ai.fifo_count < 2
      PROVE  /\ f \in Controllers
             /\ f.status = IF ai.fifo_count = 1 THEN ai.status \union {"full"} ELSE ai.status
             /\ f.fifo_count = ai.fifo_count + 1
             /\ f.fifo_ri = ai.fifo_ri /\ f.fifo_wi = 1 - ai.fifo_wi
             /\ f.fifo = [ai.fifo EXCEPT ![ai.fifo_wi] = e]
  BY <1>a, <1>1, <1>2, FillFields DEF f
<1>3. CASE ai.fifo_count = 2
  <2>1. UNCHANGED vars
    BY <1>3 DEF WriteLen
  <2> QED BY <1>a, <2>1 DEF vars, TypesKept
<1>4. CASE ai.fifo_count = 1
  <2>1. "busy" \in f.status
    BY <1>2, <1>4 DEF FifoInv
  <2>2. ai' = f /\ UNCHANGED <<counter, ctx, ai_intr, delivered>>
    BY <1>4, <2>1 DEF WriteLen, f
  <2>3. TypesKept
    BY <1>a, <1>2, <1>4, <2>2 DEF TypesKept
  <2>4. QueuedSecond(e)
    BY <1>2, <1>4, <2>2 DEF QueuedSecond
  <2> QED BY <2>3, <2>4
<1>5. CASE ai.fifo_count = 0
  <2>1. "busy" \notin f.status
    BY <1>2, <1>5 DEF FifoInv
  <2>2. /\ ai' = DmaRing(Busy(f)) /\ delivered' = DmaDelivers(Busy(f), ctx)
        /\ ai_intr' = (ai_intr \/ l = 0)
    BY <1>5, <2>1 DEF WriteLen, ai_dma, f
  <2>3. /\ Busy(f) \in Controllers /\ Busy(f).status = {"busy"}
        /\ Busy(f).fifo_count = 1 /\ Busy(f).fifo_ri = ai.fifo_ri
        /\ Busy(f).fifo_wi = 1 - ai.fifo_wi /\ Playing(Busy(f)) = e
    BY <1>a, <1>1, <1>2, <1>5, BusyFields DEF Playing, FifoInv, Controllers
  <2>4. delivered' \in BOOLEAN /\ ai_intr' \in BOOLEAN
    BY <1>a, <2>2, <2>3 DEF DmaDelivers, Controllers
  <2>5. TypesKept
    BY <2>2, <2>3, <2>4, DmaFields DEF TypesKept
  <2>6. CASE l > 0
    <3>0. l # 0
      BY <1>1, <2>6
    <3>a. ai_intr' = ai_intr
      BY <1>a, <2>2, <3>0, Zenon
    <3>1. ai' = Busy(f) /\ ai_intr' = ai_intr
      BY <1>1, <2>2, <2>3, <2>6, <3>a, DmaFields
    <3>2. QueuedFirst(e)
      BY <1>1, <1>5, <2>3, <2>6, <3>1 DEF QueuedFirst, Playing
    <3> QED BY <2>5, <3>2
  <2>7. CASE l = 0
    <3>a. ai_intr' = TRUE
      BY <2>2, <2>7, Zenon
    <3>b. ~(Playing(Busy(f)).length > 0)
      BY <1>1, <2>3, <2>7
    <3>1. ai' = Pop(Busy(f)) /\ ai_intr' = TRUE
      BY <2>2, <2>3, <3>a, <3>b, DmaFields
    <3>2. QueuedEmpty(e)
      BY <1>1, <1>5, <2>3, <2>7, <3>1, PopFields DEF QueuedEmpty
    <3> QED BY <2>5, <3>2
  <2> QED BY <1>1, <2>6, <2>7
<1> QED BY <1>a, <1>3, <1>4, <1>5 DEF Controllers

\* What a cycle does to the ring.
LEMMA CycleRing ==
  ASSUME TypeOK, FifoInv, Cycle
  PROVE  /\ TypesKept
         /\ \/ ai' = ai /\ ai_intr' = ai_intr
            \/ FinishedLast \/ FinishedFirst \/ FinishedBoth
<1>a. ai \in Controllers /\ ai_intr \in BOOLEAN /\ delivered \in BOOLEAN
  BY DEF TypeOK, Controllers
<1>1. CASE ai' = ai /\ UNCHANGED <<ai_intr, delivered>>
  BY <1>a, <1>1 DEF TypesKept
<1>2. CASE ai.fifo_count = 1 /\ ai' = Pop(ai) /\ ai_intr' = TRUE /\ UNCHANGED delivered
  <2>1. TypesKept
    BY <1>a, <1>2, PopFields DEF TypesKept
  <2>2. FinishedLast
    BY <1>a, <1>2, PopFields DEF FinishedLast
  <2> QED BY <2>1, <2>2
<1>3. CASE /\ ai.fifo_count = 2 /\ ai' = DmaRing(Busy(Pop(ai))) /\ ai_intr' = TRUE
           /\ delivered' = DmaDelivers(Busy(Pop(ai)), ctx)
  <2> DEFINE b == Busy(Pop(ai))
  <2>1. /\ b \in Controllers /\ b.status = {"busy"} /\ b.fifo_count = 1
        /\ b.fifo_ri = 1 - ai.fifo_ri /\ b.fifo_wi = ai.fifo_wi /\ b.fifo = ai.fifo
    BY <1>a, <1>3, PopFields, BusyFields
  <2>2. ai' = DmaRing(b) /\ delivered' \in BOOLEAN
    BY <1>3, <2>1 DEF DmaDelivers, Controllers
  <2> HIDE DEF b
  <2>3. TypesKept
    <3>1. DmaRing(b) \in Controllers
      BY <2>1, DmaFields
    <3>2. ai_intr' \in BOOLEAN
      BY <1>3
    <3> QED BY <2>2, <3>1, <3>2 DEF TypesKept
  <2>4. Playing(b).length \in Nat
    <3>1. b.fifo[b.fifo_ri] \in [address : Addresses, length : Lengths \union {0}]
      BY <2>1 DEF Controllers
    <3>2. b.fifo[b.fifo_ri].length \in Lengths \union {0}
      BY <3>1
    <3>3. \A n \in Lengths \union {0} : n \in Nat
      BY AiAssumption
    <3>4. Playing(b).length = b.fifo[b.fifo_ri].length
      BY DEF Playing
    <3> QED BY <3>2, <3>3, <3>4
  <2>5. CASE Playing(b).length > 0
    <3>1. ai' = b
      BY <2>1, <2>2, <2>5, DmaFields
    <3>2. FinishedFirst
      BY <1>3, <2>1, <2>5, <3>1 DEF FinishedFirst, Playing
    <3> QED BY <2>3, <3>2
  <2>6. CASE Playing(b).length = 0
    <3>1. ai' = Pop(b)
      BY <2>1, <2>2, <2>6, DmaFields
    <3>2. 1 - (1 - ai.fifo_ri) = ai.fifo_ri
      BY <1>a DEF Controllers
    <3>3. FinishedBoth
      BY <1>3, <2>1, <2>6, <3>1, <3>2, PopFields DEF FinishedBoth, Playing
    <3> QED BY <2>3, <3>3
  <2> QED BY <2>4, <2>5, <2>6
<1> QED BY <1>1, <1>2, <1>3 DEF Cycle, ai_dma

\* The other actions leave the ring and the interrupt alone, or acknowledge it.
LEMMA OtherRing ==
  ASSUME TypeOK,
         \/ UNCHANGED vars
         \/ \E a \in Addresses : WriteAddr(a)
         \/ \E f \in Frequencies : WriteDacRate(f)
         \/ WriteStatus
         \/ AlProcess
  PROVE  /\ TypesKept
         /\ ai'.status = ai.status /\ ai'.fifo_count = ai.fifo_count
         /\ ai'.fifo_ri = ai.fifo_ri /\ ai'.fifo_wi = ai.fifo_wi
         /\ ai'.fifo = ai.fifo
         /\ ai_intr' = ai_intr \/ ai_intr' = FALSE
<1>a. ai \in Controllers /\ ai_intr \in BOOLEAN /\ delivered \in BOOLEAN
  BY DEF TypeOK, Controllers
<1>1. ASSUME NEW a \in Addresses
      PROVE  LET t == [ai EXCEPT !.dram_addr = a]
             IN /\ t \in Controllers /\ t.status = ai.status
                /\ t.fifo_count = ai.fifo_count /\ t.fifo_ri = ai.fifo_ri
                /\ t.fifo_wi = ai.fifo_wi /\ t.fifo = ai.fifo
  BY <1>a DEF Controllers
<1>2. ASSUME NEW f \in Frequencies
      PROVE  LET t == [ai EXCEPT !.freq = f]
             IN /\ t \in Controllers /\ t.status = ai.status
                /\ t.fifo_count = ai.fifo_count /\ t.fifo_ri = ai.fifo_ri
                /\ t.fifo_wi = ai.fifo_wi /\ t.fifo = ai.fifo
  BY <1>a DEF Controllers
<1>3. CASE UNCHANGED vars
  BY <1>a, <1>3 DEF vars, TypesKept
<1>4. CASE \E a \in Addresses : WriteAddr(a)
  BY <1>a, <1>1, <1>4 DEF WriteAddr, TypesKept
<1>5. CASE \E f \in Frequencies : WriteDacRate(f)
  BY <1>a, <1>2, <1>5 DEF WriteDacRate, TypesKept
<1>6. CASE WriteStatus \/ AlProcess
  BY <1>a, <1>6 DEF WriteStatus, AlProcess, TypesKept
<1> QED BY <1>3, <1>4, <1>5, <1>6

-----------------------------------------------------------------------------

\* Every step keeps the types of the ring and its invariant.
LEMMA RingStep == TypeOK /\ FifoInv /\ [Next]_vars => TypeOK' /\ FifoInv'
<1> SUFFICES ASSUME TypeOK, FifoInv, [Next]_vars PROVE TypeOK' /\ FifoInv'
  OBVIOUS
<1>a. ai \in Controllers
  BY DEF TypeOK, Controllers
<1>t. TypesKept => TypeOK'
  BY DEF TypeOK, TypesKept, Controllers
<1>1. ASSUME NEW l \in Lengths, WriteLen(l) PROVE TypeOK' /\ FifoInv'
  <2>1. PICK e : e = [address |-> ai.dram_addr, length |-> l]
    OBVIOUS
  <2>2. e.length = l /\ l \in Nat
    BY <2>1, AiAssumption
  <2>3. TypesKept /\ (UNCHANGED vars \/ QueuedSecond(e) \/ QueuedFirst(e) \/ QueuedEmpty(e))
    BY <1>1, <2>1, WriteLenRing
  <2>4. CASE UNCHANGED vars
    BY <2>4 DEF vars, FifoInv, Playing, TypeOK
  <2>5. CASE QueuedSecond(e)
    <3>1. ai'.fifo[ai'.fifo_ri] = ai.fifo[ai.fifo_ri]
      BY <1>a, <2>5 DEF QueuedSecond, FifoInv, Controllers
    <3> QED BY <1>a, <1>t, <2>3, <2>5, <3>1 DEF QueuedSecond, FifoInv, Playing, Controllers
  <2>6. CASE QueuedFirst(e)
    BY <1>a, <1>t, <2>3, <2>6 DEF QueuedFirst, FifoInv, Playing, Controllers
  <2>7. CASE QueuedEmpty(e)
    BY <1>a, <1>t, <2>3, <2>7 DEF QueuedEmpty, FifoInv, Playing, Controllers
  <2> QED BY <2>3, <2>4, <2>5, <2>6, <2>7
<1>2. CASE Cycle
  <2>1. TypesKept
    BY <1>2, CycleRing
  <2>2. CASE ai' = ai
    BY <1>t, <2>1, <2>2 DEF FifoInv, Playing
  <2>3. CASE FinishedLast
    BY <1>a, <1>t, <2>1, <2>3 DEF FinishedLast, FifoInv, Playing, Controllers
  <2>4. CASE FinishedFirst
    BY <1>a, <1>t, <2>1, <2>4 DEF FinishedFirst, FifoInv, Playing, Controllers
  <2>5. CASE FinishedBoth
    BY <1>a, <1>t, <2>1, <2>5 DEF FinishedBoth, FifoInv, Playing, Controllers
  <2> QED BY <1>2, <2>2, <2>3, <2>4, <2>5, CycleRing
<1>3. CASE \/ UNCHANGED vars
           \/ \E a \in Addresses : WriteAddr(a)
           \/ \E f \in Frequencies : WriteDacRate(f)
           \/ WriteStatus
           \/ AlProcess
  BY <1>3, <1>t, OtherRing DEF FifoInv, Playing
<1> QED BY <1>1, <1>2, <1>3 DEF Next

\* The ring's invariant holds in every reachable state: the status word the CPU
\* polls, the count and the two indices always agree.
THEOREM FifoCorrect == Spec => [](TypeOK /\ FifoInv)
<1>1. Init => TypeOK /\ FifoInv
  <2> SUFFICES ASSUME Init PROVE TypeOK /\ FifoInv
    OBVIOUS
  <2>1. ai \in Controllers
    <3> DEFINE Rings == [{0, 1} -> [address : Addresses, length : {0}]]
    <3>1. PICK a \in Addresses, q \in Frequencies, r \in Rings, o \in NoOutputModes :
            ai = [dram_addr |-> a, status |-> {}, freq |-> q, fifo_count |-> 0,
                  fifo_wi |-> 0, fifo_ri |-> 0, fifo |-> r, no_output |-> o]
      BY DEF Init
    <3>2. r \in [{0, 1} -> [address : Addresses, length : Lengths \union {0}]]
      OBVIOUS
    <3>3. o \in BOOLEAN
      BY AiAssumption
    <3> HIDE DEF Rings
    <3> QED BY <3>1, <3>2, <3>3 DEF Controllers
  <2>2. ai.status = {} /\ ai.fifo_count = 0 /\ ai.fifo_wi = 0 /\ ai.fifo_ri = 0
    BY DEF Init
  <2>3. ai_intr \in BOOLEAN /\ delivered \in BOOLEAN
    BY DEF Init
  <2>4. TypeOK
    BY <2>1, <2>3 DEF TypeOK, Controllers
  <2>5. FifoInv
    BY <2>2 DEF FifoInv
  <2> QED BY <2>4, <2>5
<1> QED BY <1>1, RingStep, PTL DEF Spec

-----------------------------------------------------------------------------

\* The queues of at most two buffers.
LEMMA ShortQueues ==
  ASSUME NEW d, NEW e
  PROVE  /\ Len(<<>>) = 0 /\ Len(<<d>>) = 1
         /\ Append(<<>>, e) = <<e>> /\ Append(<<d>>, e) = <<d, e>>
         /\ Head(<<d>>) = d /\ Tail(<<d>>) = <<>>
         /\ Head(<<d, e>>) = d /\ Tail(<<d, e>>) = <<e>>
         /\ <<>> # <<d>> /\ <<>> # <<d, e>>
<1>1. Len(<<>>) = 0 /\ Len(<<d>>) = 1 /\ Len(<<d, e>>) = 2
  OBVIOUS
<1>2. <<>> # <<d>> /\ <<>> # <<d, e>>
  BY <1>1
<1>3. Append(<<>>, e) = <<e>>
  OBVIOUS
<1>4. Append(<<d>>, e) = <<d, e>>
  <2> DEFINE S == {d, e}
             s == <<d>>
             t == <<d, e>>
             a == Append(s, e)
  <2>1. e \in S /\ s \in Seq(S) /\ Len(s) = 1 /\ s[1] = d
    OBVIOUS
  <2>2. t \in Seq(S) /\ Len(t) = 2 /\ t[1] = d /\ t[2] = e
    OBVIOUS
  <2> HIDE DEF S, s, t
  <2>3. a \in Seq(S) /\ Len(a) = 2 /\ a[1] = d /\ a[2] = e
    <3>1. /\ a \in Seq(S) /\ Len(a) = Len(s) + 1
          /\ \A i \in 1 .. Len(s) : a[i] = s[i]
          /\ a[Len(s) + 1] = e
      <4>1. s \in Seq(S) /\ e \in S
        BY <2>1
      <4> QED BY ONLY <4>1, AppendProperties
    <3> HIDE DEF a
    <3> QED BY <2>1, <3>1
  <2>4. Len(a) = Len(t) /\ \A i \in 1 .. Len(a) : a[i] = t[i]
    BY <2>2, <2>3
  <2> HIDE DEF a
  <2>5. a = t
    BY <2>2, <2>3, <2>4, SeqEqual
  <2> QED BY <2>5 DEF a, s, t
<1>5. Head(<<d>>) = d /\ Head(<<d, e>>) = d
  OBVIOUS
<1>6. Tail(<<d>>) = <<>>
  OBVIOUS
<1>7. Tail(<<d, e>>) = <<e>>
  OBVIOUS
<1> QED BY <1>1, <1>2, <1>3, <1>4, <1>5, <1>6, <1>7

\* The buffer a program writes enters the abstract queue.
LEMMA PushStep ==
  ASSUME TypeOK, FifoInv, NEW e \in Entries,
         QueuedSecond(e) \/ QueuedFirst(e) \/ QueuedEmpty(e)
  PROVE  Fifo!Push(e)
<1>a. ai \in Controllers /\ ai_intr \in BOOLEAN
  BY DEF TypeOK, Controllers
<1>1. CASE QueuedSecond(e)
  <2>1. ai.fifo[ai.fifo_ri].length > 0
    BY <1>1 DEF QueuedSecond, FifoInv, Playing
  <2>2. RingContents = <<ai.fifo[ai.fifo_ri]>>
    BY <1>1 DEF QueuedSecond, RingContents, Playing
  <2>3. ai'.fifo[ai.fifo_ri] = ai.fifo[ai.fifo_ri] /\ ai'.fifo[1 - ai.fifo_ri] = e
    BY <1>1, <1>a DEF QueuedSecond, FifoInv, Controllers
  <2>4. RingContents' = <<ai.fifo[ai.fifo_ri], e>>
    BY <1>1, <2>3 DEF QueuedSecond, RingContents, Playing
  <2>5. Fifo!SkipEmpty(Append(RingContents, e)) = RingContents'
    <3> DEFINE d == ai.fifo[ai.fifo_ri]
    <3>1. Append(RingContents, e) = <<d, e>>
      BY <2>2, ShortQueues
    <3>2. Head(<<d, e>>) = d /\ d.length # 0
      BY <2>1, ShortQueues
    <3> HIDE DEF d
    <3> QED BY <2>4, <3>1, <3>2 DEF Fifo!SkipEmpty, d
  <2>6. ai_intr' = (ai_intr \/ RingContents' = <<>>)
    <3>1. RingContents' # <<>>
      BY <2>4, ShortQueues
    <3>2. ai_intr' = ai_intr
      BY <1>1 DEF QueuedSecond
    <3> QED BY <1>a, <3>1, <3>2, Zenon
  <2> QED BY <2>2, <2>5, <2>6, ShortQueues DEF Fifo!Push
<1>2. CASE QueuedFirst(e)
  <2>1. RingContents = <<>>
    BY <1>2 DEF QueuedFirst, RingContents
  <2>2. RingContents' = <<e>>
    BY <1>2 DEF QueuedFirst, RingContents, Playing
  <2>3. Fifo!SkipEmpty(Append(RingContents, e)) = RingContents'
    BY <1>2, <2>1, <2>2, ShortQueues DEF Fifo!SkipEmpty, QueuedFirst
  <2>4. ai_intr' = (ai_intr \/ RingContents' = <<>>)
    <3>1. RingContents' # <<>>
      BY <2>2, ShortQueues
    <3>2. ai_intr' = ai_intr
      BY <1>2 DEF QueuedFirst
    <3> QED BY <1>a, <3>1, <3>2, Zenon
  <2> QED BY <2>1, <2>3, <2>4, ShortQueues DEF Fifo!Push
<1>3. CASE QueuedEmpty(e)
  <2>1. RingContents = <<>> /\ RingContents' = <<>>
    BY <1>3 DEF QueuedEmpty, RingContents
  <2>2. Fifo!SkipEmpty(Append(RingContents, e)) = RingContents'
    BY <1>3, <2>1, ShortQueues DEF Fifo!SkipEmpty, QueuedEmpty
  <2>3. ai_intr' = (ai_intr \/ RingContents' = <<>>)
    <3>1. ai_intr' = TRUE
      BY <1>3 DEF QueuedEmpty
    <3> QED BY <2>1, <3>1, Zenon
  <2> QED BY <2>1, <2>2, <2>3, ShortQueues DEF Fifo!Push
<1> QED BY <1>1, <1>2, <1>3

\* The buffer that was played leaves the abstract queue.
LEMMA FinishStep ==
  ASSUME TypeOK, FifoInv, FinishedLast \/ FinishedFirst \/ FinishedBoth
  PROVE  Fifo!Finish
<1>a. ai \in Controllers
  BY DEF TypeOK, Controllers
<1> DEFINE head == ai.fifo[ai.fifo_ri]
           next == ai.fifo[1 - ai.fifo_ri]
<1> HIDE DEF head, next
<1>1. CASE FinishedLast
  <2>1. RingContents = <<head>> /\ RingContents' = <<>>
    BY <1>1 DEF FinishedLast, RingContents, Playing, head
  <2>2. Fifo!SkipEmpty(Tail(RingContents)) = RingContents'
    BY <2>1, ShortQueues DEF Fifo!SkipEmpty
  <2> QED BY <1>1, <2>1, <2>2, ShortQueues DEF Fifo!Finish, FinishedLast
<1>2. CASE FinishedFirst
  <2>1. RingContents = <<head, next>>
    BY <1>2 DEF FinishedFirst, RingContents, Playing, head, next
  <2>2. RingContents' = <<next>> /\ next.length > 0
    BY <1>2 DEF FinishedFirst, RingContents, Playing, next
  <2>3. Fifo!SkipEmpty(Tail(RingContents)) = RingContents'
    BY <2>1, <2>2, ShortQueues DEF Fifo!SkipEmpty
  <2> QED BY <1>2, <2>1, <2>3, ShortQueues DEF Fifo!Finish, FinishedFirst
<1>3. CASE FinishedBoth
  <2>1. RingContents = <<head, next>> /\ RingContents' = <<>> /\ next.length = 0
    BY <1>3 DEF FinishedBoth, RingContents, Playing, head, next
  <2>2. Fifo!SkipEmpty(Tail(RingContents)) = RingContents'
    BY <2>1, ShortQueues DEF Fifo!SkipEmpty
  <2> QED BY <1>3, <2>1, <2>2, ShortQueues DEF Fifo!Finish, FinishedBoth
<1> QED BY <1>1, <1>2, <1>3

\* Every step of the controller is a step of the queue, or leaves it alone.
LEMMA RefinementStep ==
  TypeOK /\ FifoInv /\ [Next]_vars => [Fifo!Next]_(Fifo!fifoVars)
<1> SUFFICES ASSUME TypeOK, FifoInv, [Next]_vars
             PROVE  [Fifo!Next]_(Fifo!fifoVars)
  OBVIOUS
<1>1. ASSUME NEW l \in Lengths, WriteLen(l) PROVE [Fifo!Next]_(Fifo!fifoVars)
  <2>1. PICK e : e = [address |-> ai.dram_addr, length |-> l]
    OBVIOUS
  <2>2. e \in Entries
    BY <2>1 DEF Entries, TypeOK
  <2>3. UNCHANGED vars \/ QueuedSecond(e) \/ QueuedFirst(e) \/ QueuedEmpty(e)
    BY <1>1, <2>1, WriteLenRing
  <2>4. UNCHANGED vars => UNCHANGED Fifo!fifoVars
    BY DEF vars, Fifo!fifoVars, RingContents, Playing
  <2>5. Fifo!Push(e) => Fifo!Next
    BY <2>2 DEF Fifo!Next, Fifo!Entries, Entries
  <2> QED BY <2>2, <2>3, <2>4, <2>5, PushStep
<1>2. CASE Cycle
  <2>1. (ai' = ai /\ ai_intr' = ai_intr) => UNCHANGED Fifo!fifoVars
    BY DEF Fifo!fifoVars, RingContents, Playing
  <2>2. Fifo!Finish => Fifo!Next
    BY DEF Fifo!Next
  <2> QED BY <1>2, <2>1, <2>2, CycleRing, FinishStep
<1>3. CASE \/ UNCHANGED vars
           \/ \E a \in Addresses : WriteAddr(a)
           \/ \E f \in Frequencies : WriteDacRate(f)
           \/ WriteStatus
           \/ AlProcess
  <2>1. UNCHANGED RingContents
    BY <1>3, OtherRing DEF RingContents, Playing
  <2>2. ai_intr' = ai_intr \/ ai_intr' = FALSE
    BY <1>3, OtherRing
  <2> QED BY <2>1, <2>2 DEF Fifo!Next, Fifo!Acknowledge, Fifo!fifoVars
<1> QED BY <1>1, <1>2, <1>3 DEF Next

\* The controller implements the two-entry queue of AudioFifo: buffers are
\* played in the order in which they were written, a third one is refused, and
\* every buffer that leaves raises the interrupt.
THEOREM RingImplementsFifo == Spec => Fifo!Spec
<1>1. Init => Fifo!Init
  <2> SUFFICES ASSUME Init PROVE Fifo!Init
    OBVIOUS
  <2>1. ai.fifo_count = 0 /\ ai_intr = FALSE
    BY DEF Init
  <2> QED BY <2>1 DEF RingContents, Fifo!Init
<1> QED BY <1>1, FifoCorrect, RefinementStep, PTL DEF Spec, Fifo!Spec

-----------------------------------------------------------------------------

(* OpenAL's buffers. *)

Contexts == [unqueued_buffers : 0 .. 3, buffers : [Names -> Names], cur_frequency : Frequencies,
             queue : Seq(Names), processed : Nat]

Free(c) == {c.buffers[n] : n \in 1 .. c.unqueued_buffers}

Held(c) == {c.queue[i] : i \in DOMAIN c.queue}

\* Every buffer is free or held, and only once.
Pooled(c) ==
  /\ c \in Contexts
  /\ Free(c) \union Held(c) = Names
  /\ c.unqueued_buffers + Len(c.queue) = 3
  /\ c.processed <= Len(c.queue)

\* A new source starts with all buffers free.
LEMMA SwitchPool ==
  ASSUME NEW c, Pooled(c), NEW freq \in Frequencies
  PROVE  Pooled(SwitchFrequency(c, freq))
<1> DEFINE b == [n \in Names |-> n]
           d == [unqueued_buffers |-> 3, buffers |-> b, cur_frequency |-> freq, queue |-> <<>>,
                 processed |-> 0]
<1>1. b \in [Names -> Names]
  OBVIOUS
<1>2. Free(d) = Names
  BY DEF Free, Names
<1>3. d \in Contexts
  <2> HIDE DEF b
  <2> QED BY <1>1 DEF Contexts
<1>4. Held(d) = {} /\ Len(d.queue) = 0
  BY DEF Held
<1>5. SwitchFrequency(c, freq) = d
  <2> HIDE DEF b
  <2>1. c = [unqueued_buffers |-> c.unqueued_buffers, buffers |-> c.buffers,
             cur_frequency |-> c.cur_frequency, queue |-> c.queue, processed |-> c.processed]
    BY DEF Pooled, Contexts
  <2>2. SwitchFrequency(c, freq) = [c EXCEPT !.buffers = b, !.unqueued_buffers = 3,
            !.cur_frequency = freq, !.queue = <<>>, !.processed = 0]
    BY DEF SwitchFrequency, b
  <2> QED BY <2>1, <2>2
<1>6. d.unqueued_buffers = 3 /\ d.processed = 0
  OBVIOUS
<1> HIDE DEF d
<1> QED BY <1>2, <1>3, <1>4, <1>5, <1>6 DEF Pooled

\* The buffers that were played move from the front of the queue behind the
\* free ones.
LEMMA UnqueuePool ==
  ASSUME NEW c, Pooled(c)
  PROVE  Pooled(Unqueue(c))
<1> DEFINE u == c.unqueued_buffers
           p == c.processed
           q == c.queue
           b == [n \in Names |-> IF n \in u + 1 .. u + p THEN q[n - u] ELSE c.buffers[n]]
           r == SubSeq(q, p + 1, Len(q))
           d == [unqueued_buffers |-> u + p, buffers |-> b, cur_frequency |-> c.cur_frequency,
                 queue |-> r, processed |-> 0]
<1>1. /\ u \in 0 .. 3 /\ p \in Nat /\ q \in Seq(Names) /\ Len(q) \in Nat /\ DOMAIN q = 1 .. Len(q)
      /\ p <= Len(q) /\ u + Len(q) = 3 /\ c.buffers \in [Names -> Names]
      /\ c.cur_frequency \in Frequencies
  BY DEF Pooled, Contexts
<1>2. Unqueue(c) = d
  <2> HIDE DEF r
  <2>1. c = [unqueued_buffers |-> c.unqueued_buffers, buffers |-> c.buffers,
             cur_frequency |-> c.cur_frequency, queue |-> c.queue, processed |-> c.processed]
    BY DEF Pooled, Contexts
  <2>2. Unqueue(c) = [c EXCEPT !.buffers = b, !.unqueued_buffers = u + p, !.queue = r,
                               !.processed = 0]
    BY DEF Unqueue, r
  <2> HIDE DEF b
  <2> QED BY <2>1, <2>2
<1> HIDE DEF u, p, q
<1>3. ASSUME NEW n \in u + 1 .. u + p PROVE n \in Names /\ n - u \in 1 .. p /\ b[n] = q[n - u]
  <2>1. n \in Names /\ n - u \in 1 .. p
    BY <1>1 DEF Names
  <2> QED BY <2>1
<1>4. ASSUME NEW n \in 1 .. u PROVE n \in Names /\ b[n] = c.buffers[n]
  BY <1>1 DEF Names
<1>5. b \in [Names -> Names]
  <2> SUFFICES ASSUME NEW n \in Names PROVE b[n] \in Names
    OBVIOUS
  <2>1. CASE n \in u + 1 .. u + p
    <3>1. n - u \in 1 .. Len(q)
      BY <1>1, <1>3, <2>1
    <3>2. q[n - u] \in Names
      BY <1>1, <3>1
    <3> QED BY <2>1, <3>2
  <2>2. CASE n \notin u + 1 .. u + p
    BY <1>1, <2>2
  <2> QED BY <2>1, <2>2
<1>6. /\ r \in Seq(Names) /\ Len(r) = Len(q) - p
      /\ \A i \in 1 .. Len(q) - p : r[i] = q[p + i]
  <2>1. p + 1 \in Int /\ Len(q) \in Int
    BY <1>1
  <2>2. \A i \in p + 1 .. Len(q) : q[i] \in Names
    BY <1>1
  <2>3. /\ r \in Seq(Names)
        /\ Len(r) = IF p + 1 <= Len(q) THEN Len(q) - (p + 1) + 1 ELSE 0
        /\ \A i \in 1 .. Len(q) - (p + 1) + 1 : r[i] = q[(p + 1) + i - 1]
    BY <1>1, <2>1, <2>2, SubSeqProperties
  <2>4. \A i \in 1 .. Len(q) - p : (p + 1) + i - 1 = p + i
    BY <1>1
  <2>5. Len(q) - (p + 1) + 1 = Len(q) - p /\ (~(p + 1 <= Len(q)) => Len(q) - p = 0)
    <3>1. \A m, k \in Nat : m <= k => k - (m + 1) + 1 = k - m /\ (~(m + 1 <= k) => k - m = 0)
      OBVIOUS
    <3> QED BY <1>1, <3>1
  <2> HIDE DEF r
  <2> QED BY <2>3, <2>4, <2>5
<1> HIDE DEF b, r
<1>7. d \in Contexts
  BY <1>1, <1>5, <1>6 DEF Contexts
<1>8. Free(d) \union Held(d) = Names
  <2>1. Free(d) \subseteq Names
    BY <1>1, <1>5 DEF Free, Names
  <2>2. Held(d) \subseteq Names
    BY <1>6 DEF Held
  <2>3. ASSUME NEW x \in Free(c) PROVE x \in Free(d)
    <3>1. PICK n \in 1 .. u : x = c.buffers[n]
      BY DEF Free, u
    <3>2. n \in 1 .. u + p /\ x = b[n]
      BY <1>1, <1>4, <3>1
    <3> QED BY <3>2 DEF Free
  <2>4. ASSUME NEW x \in Held(c) PROVE x \in Free(d) \union Held(d)
    <3>1. PICK i \in 1 .. Len(q) : x = q[i]
      BY <1>1 DEF Held, q
    <3>2. CASE i <= p
      <4>1. u + i \in u + 1 .. u + p /\ u + i \in 1 .. u + p /\ (u + i) - u = i
        BY <1>1, <3>2
      <4>2. x = b[u + i]
        BY <1>3, <3>1, <4>1
      <4> QED BY <4>1, <4>2 DEF Free
    <3>3. CASE i > p
      <4>1. i - p \in 1 .. Len(q) - p /\ p + (i - p) = i
        BY <1>1, <3>3
      <4>2. x = r[i - p] /\ i - p \in DOMAIN r
        BY <1>6, <3>1, <4>1
      <4> QED BY <4>2 DEF Held
    <3> QED BY <1>1, <3>2, <3>3
  <2> QED BY <2>1, <2>2, <2>3, <2>4 DEF Pooled
<1>9. d.unqueued_buffers + Len(d.queue) = 3 /\ d.processed <= Len(d.queue)
  BY <1>1, <1>6
<1> QED BY <1>2, <1>7, <1>8, <1>9 DEF Pooled

\* The last free buffer, if there is one, goes to the end of the queue.
LEMMA EnqueuePool ==
  ASSUME NEW c, Pooled(c)
  PROVE  Pooled(Enqueue(c))
<1>1. CASE c.unqueued_buffers = 0
  BY <1>1 DEF Enqueue
<1>2. CASE c.unqueued_buffers # 0
  <2> DEFINE u == c.unqueued_buffers
             q == c.queue
             x == c.buffers[u]
             r == Append(q, x)
             d == [unqueued_buffers |-> u - 1, buffers |-> c.buffers,
                   cur_frequency |-> c.cur_frequency, queue |-> r, processed |-> c.processed]
  <2>1. /\ u \in 1 .. 3 /\ q \in Seq(Names) /\ Len(q) \in Nat /\ DOMAIN q = 1 .. Len(q)
        /\ u + Len(q) = 3 /\ c.buffers \in [Names -> Names]
        /\ c.processed \in Nat /\ c.processed <= Len(q) /\ c.cur_frequency \in Frequencies
    BY <1>2 DEF Pooled, Contexts
  <2>2. Enqueue(c) = d
    <3> HIDE DEF r
    <3>1. c = [unqueued_buffers |-> c.unqueued_buffers, buffers |-> c.buffers,
               cur_frequency |-> c.cur_frequency, queue |-> c.queue, processed |-> c.processed]
      BY DEF Pooled, Contexts
    <3>2. Enqueue(c) = [c EXCEPT !.unqueued_buffers = u - 1, !.queue = r]
      BY <1>2 DEF Enqueue, r
    <3> QED BY <3>1, <3>2
  <2>3. x \in Names
    BY <2>1 DEF Names
  <2> HIDE DEF x
  <2>4. /\ r \in Seq(Names) /\ Len(r) = Len(q) + 1 /\ r[Len(q) + 1] = x
        /\ \A i \in 1 .. Len(q) : r[i] = q[i]
    BY <2>1, <2>3, AppendProperties
  <2> HIDE DEF r
  <2>5. d \in Contexts
    BY <2>1, <2>4 DEF Contexts
  <2>6. Free(d) \subseteq Names
    BY <2>1 DEF Free, Names
  <2>7. Held(d) \subseteq Names
    BY <2>4 DEF Held
  <2>8. ASSUME NEW y \in Free(c) PROVE y \in Free(d) \union Held(d)
    <3>1. PICK n \in 1 .. u : y = c.buffers[n]
      BY DEF Free
    <3>2. CASE n = u
      <4>1. y = r[Len(q) + 1] /\ Len(q) + 1 \in DOMAIN r
        BY <2>1, <2>4, <3>1, <3>2 DEF x
      <4> QED BY <4>1 DEF Held
    <3>3. CASE n # u
      BY <2>1, <3>1, <3>3 DEF Free
    <3> QED BY <3>2, <3>3
  <2>9. ASSUME NEW y \in Held(c) PROVE y \in Held(d)
    <3>1. PICK i \in 1 .. Len(q) : y = q[i]
      BY <2>1 DEF Held
    <3>2. y = r[i] /\ i \in DOMAIN r
      BY <2>1, <2>4, <3>1
    <3> QED BY <3>2 DEF Held
  <2>10. Free(d) \union Held(d) = Names
    BY <2>6, <2>7, <2>8, <2>9 DEF Pooled
  <2>11. d.unqueued_buffers + Len(d.queue) = 3 /\ d.processed <= Len(d.queue)
    BY <2>1, <2>4
  <2> QED BY <2>2, <2>5, <2>10, <2>11 DEF Pooled
<1> QED BY <1>1, <1>2

\* What ai_dma does to the context.
LEMMA ReclaimPool ==
  ASSUME NEW c, Pooled(c), NEW freq \in Frequencies
  PROVE  Pooled(Reclaim(c, freq))
BY UnqueuePool, SwitchPool DEF Reclaim

LEMMA DmaPool ==
  ASSUME Pooled(ctx), NEW s \in Controllers
  PROVE  Pooled(DmaContext(s, ctx))
<1>1. s.freq \in Frequencies
  BY DEF Controllers
<1> QED BY <1>1, ReclaimPool, EnqueuePool DEF DmaContext

\* The controllers on which the two handlers call ai_dma.
LEMMA StartedControllers ==
  ASSUME TypeOK, NEW l \in Lengths
  PROVE  /\ ai.fifo_count < 2 =>
              Busy(Fill(ai, [address |-> ai.dram_addr, length |-> l])) \in Controllers
         /\ ai.fifo_count > 0 => Busy(Pop(ai)) \in Controllers
<1>1. ai \in Controllers
  BY DEF TypeOK, Controllers
<1>2. PICK e : e = [address |-> ai.dram_addr, length |-> l]
  OBVIOUS
<1>3. e \in Entries
  BY <1>1, <1>2 DEF Entries, Controllers
<1>4. ai.fifo_count < 2 => Busy(Fill(ai, e)) \in Controllers
  BY <1>1, <1>3, FillFields, BusyFields
<1>5. ai.fifo_count > 0 => Busy(Pop(ai)) \in Controllers
  BY <1>1, PopFields, BusyFields
<1> QED BY <1>2, <1>4, <1>5

LEMMA PoolStep == TypeOK /\ Pooled(ctx) /\ [Next]_vars => Pooled(ctx)'
<1> SUFFICES ASSUME TypeOK, Pooled(ctx), [Next]_vars PROVE Pooled(ctx')
  BY DEF Pooled, Free, Held
<1>1. ASSUME NEW l \in Lengths, WriteLen(l) PROVE Pooled(ctx')
  <2> DEFINE f == Fill(ai, [address |-> ai.dram_addr, length |-> l])
  <2>1. CASE ctx' = ctx
    BY <2>1
  <2>2. CASE ai.fifo_count < 2 /\ ctx' = DmaContext(Busy(f), ctx)
    <3>1. Busy(f) \in Controllers
      BY <2>2, StartedControllers
    <3> HIDE DEF f
    <3> QED BY <2>2, <3>1, DmaPool
  <2> QED BY <1>1, <2>1, <2>2 DEF WriteLen, ai_dma, vars
<1>2. CASE Cycle
  <2>1. CASE ctx' = ctx
    BY <2>1
  <2>2. CASE ai.fifo_count = 2 /\ ctx' = DmaContext(Busy(Pop(ai)), ctx)
    <3>1. Busy(Pop(ai)) \in Controllers
      <4>1. ASSUME NEW l \in Lengths PROVE Busy(Pop(ai)) \in Controllers
        BY <2>2, <4>1, StartedControllers
      <4>2. ai \in Controllers /\ ai.fifo_count > 0
        BY <2>2 DEF TypeOK, Controllers
      <4> QED BY <4>2, PopFields, BusyFields
    <3> QED BY <2>2, <3>1, DmaPool
  <2> QED BY <1>2, <2>1, <2>2 DEF Cycle, ai_dma
<1>3. CASE AlProcess
  <2>1. ctx \in Contexts /\ Len(ctx.queue) \in Nat /\ ctx.processed \in Nat
    BY DEF Pooled, Contexts
  <2>2. ctx' = [ctx EXCEPT !.processed = ctx.processed + 1] /\ ctx.processed < Len(ctx.queue)
    BY <1>3 DEF AlProcess
  <2>3. /\ ctx' \in Contexts /\ ctx'.queue = ctx.queue /\ ctx'.buffers = ctx.buffers
        /\ ctx'.unqueued_buffers = ctx.unqueued_buffers
        /\ ctx'.processed = ctx.processed + 1
    BY <2>1, <2>2 DEF Contexts
  <2>4. Free(ctx') = Free(ctx) /\ Held(ctx') = Held(ctx)
    BY <2>3 DEF Free, Held
  <2> QED BY <2>1, <2>2, <2>3, <2>4 DEF Pooled
<1>4. CASE \/ UNCHANGED vars
           \/ \E a \in Addresses : WriteAddr(a)
           \/ \E f \in Frequencies : WriteDacRate(f)
           \/ WriteStatus
  BY <1>4 DEF vars, WriteAddr, WriteDacRate, WriteStatus
<1> QED BY <1>1, <1>2, <1>3, <1>4 DEF Next

LEMMA PoolAlways == Spec => []Pooled(ctx)
<1>1. Init => Pooled(ctx)
  <2> SUFFICES ASSUME Init PROVE Pooled(ctx)
    OBVIOUS
  <2> DEFINE b == [n \in Names |-> n]
  <2>1. PICK f \in Frequencies :
          ctx = [unqueued_buffers |-> 3, buffers |-> b, cur_frequency |-> f, queue |-> <<>>,
                 processed |-> 0]
    BY DEF Init
  <2>2. b \in [Names -> Names]
    OBVIOUS
  <2>3. {b[n] : n \in 1 .. 3} = Names
    BY DEF Names
  <2> HIDE DEF b
  <2>4. ctx \in Contexts
    BY <2>1, <2>2 DEF Contexts
  <2>5. Free(ctx) = Names /\ Held(ctx) = {}
    BY <2>1, <2>3 DEF Free, Held
  <2> QED BY <2>1, <2>4, <2>5 DEF Pooled
<1> QED BY <1>1, PoolStep, FifoCorrect, PTL DEF Spec

\* For every set of frequencies and however OpenAL and the guest take turns, no
\* buffer is filled while OpenAL still plays it, and none is lost.
THEOREM BuffersPooled == Spec => []BufferPool
<1>1. Pooled(ctx) => BufferPool
  BY DEF Pooled, Free, Held, BufferPool
<1> QED BY <1>1, PoolAlways, PTL

-----------------------------------------------------------------------------

(* The countdown. *)

\* A buffer that a program writes is empty, or holds the samples by which the
\* interrupt may come early: the subtraction of an unsigned int does not wrap.
LongEnough == \A l \in Lengths : l = 0 \/ l >= EarlySamples

\* At most the time the samples take at some frequency.
InTime(n, len) == \E f \in Frequencies : n <= CyclesPerSample[f] * len \/ n <= 1

\* The length of the buffer that plays.
LEMMA PlayingLength ==
  ASSUME NEW s \in Controllers
  PROVE  Playing(s).length \in Lengths \union {0} /\ Playing(s).length \in Nat
<1>1. s.fifo[s.fifo_ri] \in [address : Addresses, length : Lengths \union {0}]
  BY DEF Controllers
<1>2. s.fifo[s.fifo_ri].length \in Lengths \union {0}
  BY <1>1
<1>3. \A n \in Lengths \union {0} : n \in Nat
  BY AiAssumption
<1> QED BY <1>2, <1>3 DEF Playing

\* The countdown that ai_dma starts lasts no longer than the buffer.
LEMMA CountdownInTime ==
  ASSUME LongEnough, NEW free \in 0 .. 3, NEW freq \in Frequencies,
         NEW len \in Lengths \union {0}, len > 0
  PROVE  /\ Countdown(free, freq, len) \in Nat
         /\ InTime(Countdown(free, freq, len), len)
<1> DEFINE cycles == CyclesPerSample[freq]
<1>1. cycles \in Nat /\ len \in Nat /\ EarlySamples \in Nat
  BY AiAssumption
<1>2. EarlySamples <= len /\ len < UintMod /\ UintMod \in Nat
  BY AiAssumption, <1>1 DEF LongEnough
<1>3. (len - EarlySamples) % UintMod = len - EarlySamples
  <2>1. len - EarlySamples \in 0 .. UintMod - 1
    BY <1>1, <1>2
  <2> QED BY <1>2, <2>1
<1> HIDE DEF cycles
<1>4. /\ cycles * len \in Nat
      /\ cycles * (len - EarlySamples) \in Nat
      /\ cycles * (len - EarlySamples) <= cycles * len
  <2>1. PICK k \in Nat : k = len - EarlySamples
    BY <1>1, <1>2
  <2>2. len = k + EarlySamples
    BY <1>1, <2>1
  <2>3. cycles * (k + EarlySamples) = cycles * k + cycles * EarlySamples
    BY <1>1
  <2>4. cycles * k \in Nat /\ cycles * EarlySamples \in Nat
    BY <1>1
  <2> QED BY <2>1, <2>2, <2>3, <2>4
<1>5. \/ Countdown(free, freq, len) = cycles * len
      \/ Countdown(free, freq, len) = cycles * (len - EarlySamples)
      \/ Countdown(free, freq, len) = 1
  <2>1. free \in {0, 1} \/ free = 2 \/ free = 3
    OBVIOUS
  <2>2. CASE free \in {0, 1}
    BY <2>2 DEF Countdown, cycles
  <2>3. CASE free = 2
    BY <1>3, <2>3 DEF Countdown, cycles
  <2>4. CASE free = 3
    BY <2>4 DEF Countdown
  <2> QED BY <2>1, <2>2, <2>3, <2>4
<1> QED BY <1>1, <1>4, <1>5 DEF InTime, cycles

\* ai_dma on a buffer with samples.
LEMMA DmaInTime ==
  ASSUME LongEnough, Pooled(ctx), NEW s \in Controllers, NEW n \in Nat, Playing(s).length > 0
  PROVE  /\ DmaCounter(s, n, ctx) \in Nat
         /\ InTime(DmaCounter(s, n, ctx), Playing(s).length)
<1> DEFINE len == Playing(s).length
           c == Reclaim(ctx, s.freq)
<1>1. len \in Lengths \union {0} /\ s.freq \in Frequencies
  BY PlayingLength DEF Controllers
<1>2. c.unqueued_buffers \in 0 .. 3
  <2>1. Pooled(c)
    BY <1>1, ReclaimPool
  <2> HIDE DEF c
  <2> QED BY <2>1 DEF Pooled, Contexts
<1> HIDE DEF len, c
<1>3. CASE s.no_output
  <2>1. DmaCounter(s, n, ctx) = CyclesPerSample[s.freq] * len
    BY <1>3 DEF DmaCounter, len
  <2>2. CyclesPerSample[s.freq] \in Nat /\ len \in Nat
    BY <1>1, AiAssumption
  <2>3. CyclesPerSample[s.freq] * len \in Nat
    BY <2>2
  <2> QED BY <1>1, <2>1, <2>3 DEF InTime, len
<1>4. CASE ~s.no_output
  <2>1. DmaCounter(s, n, ctx) = Countdown(c.unqueued_buffers, s.freq, len)
    BY <1>4 DEF DmaCounter, len, c
  <2>2. len > 0
    BY DEF len
  <2> QED BY <1>1, <1>2, <2>1, <2>2, CountdownInTime DEF len
<1> QED BY <1>3, <1>4

TimeInv == counter \in Nat /\ (ai.fifo_count > 0 => InTime(counter, Playing(ai).length))

\* ai_dma when it is called with one buffer in the ring.
LEMMA DmaTimeInv ==
  ASSUME LongEnough, Pooled(ctx), NEW s \in Controllers, s.fifo_count = 1, NEW n \in Nat,
         ai' = DmaRing(s), counter' = DmaCounter(s, n, ctx)
  PROVE  TimeInv'
<1>1. Playing(s).length \in Nat
  BY PlayingLength
<1>2. CASE Playing(s).length > 0
  <2>1. ai' = s
    BY <1>2, DmaFields
  <2>2. counter' \in Nat /\ InTime(counter', Playing(s).length)
    BY <1>2, DmaInTime
  <2> QED BY <2>1, <2>2 DEF TimeInv, Playing, InTime
<1>3. CASE Playing(s).length = 0
  <2>1. ai'.fifo_count = 0
    BY <1>3, DmaFields, PopFields
  <2>2. counter' = n
    BY <1>3 DEF DmaCounter
  <2> QED BY <2>1, <2>2 DEF TimeInv
<1> QED BY <1>1, <1>2, <1>3

\* A countdown that goes on stays in time.
LEMMA CountOn ==
  ASSUME NEW n \in Nat
  PROVE  /\ (n - 1) % CounterMod \in Nat
         /\ n # 0 => (n - 1) % CounterMod <= n
<1>1. CounterMod \in Nat \ {0}
  BY AiAssumption
<1>2. (n - 1) % CounterMod \in 0 .. CounterMod - 1
  BY <1>1
<1>3. ASSUME n # 0 PROVE (n - 1) % CounterMod <= n
  <2>1. n - 1 \in Nat
    BY <1>3
  <2>2. CASE n - 1 < CounterMod
    BY <1>1, <2>1, <2>2
  <2>3. CASE ~(n - 1 < CounterMod)
    BY <1>1, <1>2, <2>1, <2>3
  <2> QED BY <2>2, <2>3
<1> QED BY <1>1, <1>2, <1>3

LEMMA TimeStep ==
  ASSUME LongEnough, TypeOK, FifoInv, Pooled(ctx), TimeInv, [Next]_vars
  PROVE  TimeInv'
<1>a. ai \in Controllers
  BY DEF TypeOK, Controllers
<1>0. counter \in Nat
  BY DEF TimeInv
<1>1. ASSUME NEW l \in Lengths, WriteLen(l) PROVE TimeInv'
  <2> DEFINE e == [address |-> ai.dram_addr, length |-> l]
             f == Fill(ai, e)
  <2>1. CASE UNCHANGED vars
    BY <2>1 DEF TimeInv, vars, InTime, Playing
  <2>2. CASE ai.fifo_count < 2 /\ "busy" \in f.status /\ ai' = f /\ counter' = counter
    <3>1. e \in Entries
      BY <1>a DEF Entries, Controllers
    <3> HIDE DEF e
    <3>2. /\ f.status = IF ai.fifo_count = 1 THEN ai.status \union {"full"} ELSE ai.status
          /\ f.fifo_ri = ai.fifo_ri /\ f.fifo = [ai.fifo EXCEPT ![ai.fifo_wi] = e]
      BY <1>a, <2>2, <3>1, FillFields
    <3> HIDE DEF f
    <3>3. ai.fifo_count = 1
      <4>1. "busy" \in ai.status
        BY <2>2, <3>2
      <4> QED BY <1>a, <2>2, <4>1 DEF FifoInv, Controllers
    <3>4. ai.fifo_wi = 1 - ai.fifo_ri /\ ai.fifo_wi # ai.fifo_ri
      BY <1>a, <3>3 DEF FifoInv, Controllers
    <3>5. Playing(f) = Playing(ai)
      BY <1>a, <3>2, <3>4 DEF Playing, Controllers
    <3>6. InTime(counter, Playing(ai).length)
      BY <3>3 DEF TimeInv
    <3>7. InTime(counter', Playing(f).length)
      BY <2>2, <3>5, <3>6
    <3> QED BY <1>0, <2>2, <3>7 DEF TimeInv, InTime, Playing
  <2>3. CASE /\ ai.fifo_count < 2 /\ "busy" \notin f.status
             /\ ai' = DmaRing(Busy(f)) /\ counter' = DmaCounter(Busy(f), counter, ctx)
    <3>1. e \in Entries
      BY <1>a DEF Entries, Controllers
    <3> HIDE DEF e
    <3>2. /\ f.status = IF ai.fifo_count = 1 THEN ai.status \union {"full"} ELSE ai.status
          /\ f.fifo_count = ai.fifo_count + 1 /\ f \in Controllers
      BY <1>a, <2>3, <3>1, FillFields
    <3> HIDE DEF f
    <3>3. ai.fifo_count = 0
      <4>1. "busy" \notin ai.status
        BY <2>3, <3>2
      <4> QED BY <1>a, <2>3, <4>1 DEF FifoInv, Controllers
    <3>4. Busy(f) \in Controllers /\ Busy(f).fifo_count = 1
      BY <3>2, <3>3, BusyFields
    <3> QED BY <1>0, <2>3, <3>4, DmaTimeInv
  <2> QED BY <1>1, <2>1, <2>2, <2>3 DEF WriteLen, ai_dma
<1>2. CASE Cycle
  <2> DEFINE n == (counter - 1) % CounterMod
  <2>0. n \in Nat /\ (counter # 0 => n <= counter)
    BY <1>0, CountOn
  <2> HIDE DEF n
  <2>1. CASE (counter # 0 \/ ai.fifo_count = 0) /\ counter' = n /\ ai' = ai
    <3>1. ASSUME ai.fifo_count > 0 PROVE InTime(n, Playing(ai).length)
      <4>1. counter # 0 /\ n <= counter
        BY <1>a, <2>0, <2>1, <3>1
      <4>2. PICK f \in Frequencies : counter <= CyclesPerSample[f] * Playing(ai).length
                                     \/ counter <= 1
        BY <3>1 DEF TimeInv, InTime
      <4>3. CyclesPerSample[f] * Playing(ai).length \in Int
        <5>1. CyclesPerSample[f] \in Nat
          BY AiAssumption
        <5>2. Playing(ai).length \in Nat
          BY <1>a, PlayingLength
        <5> QED BY <5>1, <5>2
      <4> HIDE DEF Playing
      <4> QED BY <1>0, <2>0, <4>1, <4>2, <4>3 DEF InTime
    <3> QED BY <2>0, <2>1, <3>1 DEF TimeInv, InTime, Playing
  <2>2. CASE ai.fifo_count = 1 /\ ai' = Pop(ai) /\ counter' = n
    <3>1. ai'.fifo_count = 0
      BY <1>a, <2>2, PopFields
    <3> QED BY <2>0, <2>2, <3>1 DEF TimeInv
  <2>3. CASE /\ ai.fifo_count = 2 /\ ai' = DmaRing(Busy(Pop(ai)))
             /\ counter' = DmaCounter(Busy(Pop(ai)), n, ctx)
    <3>1. Busy(Pop(ai)) \in Controllers /\ Busy(Pop(ai)).fifo_count = 1
      BY <1>a, <2>3, PopFields, BusyFields
    <3> QED BY <2>0, <2>3, <3>1, DmaTimeInv
  <2> QED BY <1>2, <2>1, <2>2, <2>3 DEF Cycle, ai_dma, n
<1>3. CASE \/ UNCHANGED vars
           \/ \E a \in Addresses : WriteAddr(a)
           \/ \E f \in Frequencies : WriteDacRate(f)
           \/ WriteStatus
           \/ AlProcess
  <2>1. counter' = counter
    BY <1>3 DEF vars, WriteAddr, WriteDacRate, WriteStatus, AlProcess
  <2>2. /\ ai'.fifo_count = ai.fifo_count /\ ai'.fifo_ri = ai.fifo_ri
        /\ ai'.fifo = ai.fifo
    BY <1>3, OtherRing
  <2> QED BY <2>1, <2>2 DEF TimeInv, InTime, Playing
<1> QED BY <1>1, <1>2, <1>3 DEF Next

\* With buffers that are not shorter than the head start of ten samples, the
\* interrupt never comes later than the samples take, whatever the frequencies,
\* the widths of the integers and the state of OpenAL's queue.
THEOREM InterruptsOnTime == ASSUME LongEnough PROVE Spec => []OnTime
<1>1. Init => TimeInv
  BY DEF Init, TimeInv
<1>2. TypeOK /\ FifoInv /\ Pooled(ctx) /\ TimeInv /\ [Next]_vars => TimeInv'
  BY TimeStep
<1>3. TimeInv => OnTime
  BY DEF TimeInv, OnTime, InTime
<1>4. Spec => []Pooled(ctx)
  BY PoolAlways
<1> QED BY <1>1, <1>2, <1>3, <1>4, FifoCorrect, PTL DEF Spec
=============================================================================
