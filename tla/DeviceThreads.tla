--------------------------- MODULE DeviceThreads ---------------------------
(***************************************************************************)
(* The threads of one emulated device, from run_device (cen64.c) down to   *)
(* the two loops of device/device.c.                                       *)
(*                                                                         *)
(*   main    run_device: starts the device thread, runs the window loop    *)
(*           until the user closes the window, clears device->running and  *)
(*           joins the device thread.                                      *)
(*   rcp     the device thread. With -multithread it runs run_rcp_thread   *)
(*           and then joins vr4300; otherwise it runs device_spin.         *)
(*   vr4300  run_vr4300_thread, started only with -multithread.            *)
(*                                                                         *)
(* A quantum (6250 RCP cycles, or the matching CPU cycles) is one step.    *)
(* After each quantum the two emulation threads meet at a barrier built    *)
(* from sync_mutex, sync_cv and the flag other_thread_is_waiting.          *)
(*                                                                         *)
(* cen64_cv_wait is pthread_cond_wait followed by an unlock, without a     *)
(* loop around it. POSIX allows the wait to return without a signal; the   *)
(* constant MaxSpurious bounds how often that happens in a behaviour.      *)
(***************************************************************************)
EXTENDS Integers

CONSTANTS MultithreadModes,  \* the values of options.multithread to explore
          NoVideoModes,      \* the values of options.no_video to explore
          MaxSpurious        \* bound on condition waits that return by themselves

ASSUME ModesAssumption ==
  /\ MultithreadModes \subseteq BOOLEAN
  /\ NoVideoModes \subseteq BOOLEAN
  /\ MaxSpurious \in Nat

VARIABLES
  multithread,              \* device->multithread, fixed at start
  no_video,                 \* options.no_video, fixed at start
  running,                  \* device->running
  exit_requested,           \* window->exit_requested
  other_thread_is_waiting,  \* device->other_thread_is_waiting
  sync_mutex,               \* the thread that holds sync_mutex, or "free"
  sync_cv,                  \* the threads blocked on sync_cv
  pc,                       \* where each thread is
  lead,                     \* history: quanta rcp finished minus quanta of vr4300
  spurious                  \* history: waits that returned by themselves

vars == <<multithread, no_video, running, exit_requested,
          other_thread_is_waiting, sync_mutex, sync_cv, pc, lead, spurious>>

barrier == <<other_thread_is_waiting, sync_mutex, sync_cv>>

config == <<multithread, no_video>>

history == <<lead, spurious>>

Threads == {"rcp", "vr4300"}

Other(t) == IF t = "rcp" THEN "vr4300" ELSE "rcp"

\* Thread t (one of Threads or "main") moves from one place to another.
Goto(t, from, to) == /\ pc[t] = from
                     /\ pc' = [pc EXCEPT ![t] = to]

Init ==
  /\ multithread \in MultithreadModes
  /\ no_video \in NoVideoModes
  /\ running = TRUE
  /\ exit_requested = FALSE
  /\ other_thread_is_waiting = FALSE
  /\ sync_mutex = "free"
  /\ sync_cv = {}
  /\ pc = [t \in Threads \union {"main"} |->
             CASE t = "main"   -> IF no_video THEN "stop" ELSE "window"
               [] t = "rcp"    -> "loop"
               [] t = "vr4300" -> IF multithread THEN "loop" ELSE "done"]
  /\ lead = 0
  /\ spurious = 0

-----------------------------------------------------------------------------
(* The main thread: run_device. *)

\* cen64_gl_window_pump_events sees the close event and the window loop ends.
CloseWindow ==
  /\ Goto("main", "window", "stop")
  /\ exit_requested' = TRUE
  /\ UNCHANGED <<config, running, barrier, history>>

StopDevice ==
  /\ Goto("main", "stop", "join")
  /\ running' = FALSE
  /\ UNCHANGED <<config, exit_requested, barrier, history>>

JoinDevice ==
  /\ pc["rcp"] = "done"
  /\ Goto("main", "join", "done")
  /\ UNCHANGED <<config, running, exit_requested, barrier, history>>

-----------------------------------------------------------------------------
(* The emulation threads. *)

\* The test of the while loop.
TestRunning(t) ==
  /\ Goto(t, "loop", IF running THEN "quantum" ELSE "leave")
  /\ UNCHANGED <<config, running, exit_requested, barrier, history>>

\* One quantum. Without -multithread there is no barrier to go to.
Quantum(t) ==
  /\ Goto(t, "quantum", IF multithread THEN "lock" ELSE "loop")
  /\ lead' = IF ~multithread THEN lead
             ELSE IF t = "rcp" THEN lead + 1 ELSE lead - 1
  /\ UNCHANGED <<config, running, exit_requested, barrier, spurious>>

\* vi_cycle reaches VI_BLANKING_DONE inside the quantum, sees the exit request
\* and device_exit's longjmp returns from the loop. Without video there is no
\* window, and nothing to ask.
UnwindQuantum ==
  /\ ~no_video
  /\ exit_requested
  /\ Goto("rcp", "quantum", "leave")
  /\ UNCHANGED <<config, running, exit_requested, barrier, history>>

\* Mutant of LockSync: the barrier is entered without the mutex.
LockSyncUnguarded(t) ==
  /\ sync_mutex' = t
  /\ Goto(t, "lock", "arrive")
  /\ UNCHANGED <<config, running, exit_requested, other_thread_is_waiting,
                 sync_cv, history>>

LockSync(t) ==
  /\ sync_mutex = "free"
  /\ sync_mutex' = t
  /\ Goto(t, "lock", "arrive")
  /\ UNCHANGED <<config, running, exit_requested, other_thread_is_waiting,
                 sync_cv, history>>

\* Mutant of Arrive: the second thread to arrive leaves the flag raised.
ArriveFlagKept(t) ==
  /\ sync_mutex = t
  /\ sync_mutex' = "free"
  /\ other_thread_is_waiting' = TRUE
  /\ \/ /\ ~other_thread_is_waiting
        /\ sync_cv' = sync_cv \union {t}
        /\ Goto(t, "arrive", "waiting")
     \/ /\ other_thread_is_waiting
        /\ UNCHANGED sync_cv
        /\ Goto(t, "arrive", "signal")
  /\ UNCHANGED <<config, running, exit_requested, history>>

\* The first thread to arrive raises the flag and waits, which releases the
\* mutex; the second lowers the flag and unlocks.
Arrive(t) ==
  /\ sync_mutex = t
  /\ sync_mutex' = "free"
  /\ other_thread_is_waiting' = ~other_thread_is_waiting
  /\ \/ /\ ~other_thread_is_waiting
        /\ sync_cv' = sync_cv \union {t}
        /\ Goto(t, "arrive", "waiting")
     \/ /\ other_thread_is_waiting
        /\ UNCHANGED sync_cv
        /\ Goto(t, "arrive", "signal")
  /\ UNCHANGED <<config, running, exit_requested, history>>

\* Mutant of SignalSync: the second thread goes on without signalling.
SignalSyncForgotten(t) ==
  /\ Goto(t, "signal", "loop")
  /\ UNCHANGED <<config, running, exit_requested, barrier, history>>

\* cen64_cv_signal, after the unlock: wakes one waiter if there is one.
SignalSync(t) ==
  /\ pc[t] = "signal"
  /\ \/ /\ sync_cv = {}
        /\ Goto(t, "signal", "loop")
        /\ UNCHANGED sync_cv
     \/ \E w \in sync_cv :
          /\ sync_cv' = sync_cv \ {w}
          /\ pc' = [pc EXCEPT ![t] = "loop", ![w] = "wake"]
  /\ UNCHANGED <<config, running, exit_requested, other_thread_is_waiting,
                 sync_mutex, history>>

\* pthread_cond_wait returns although nobody signalled.
SpuriousWakeup(t) ==
  /\ spurious < MaxSpurious
  /\ spurious' = spurious + 1
  /\ t \in sync_cv
  /\ sync_cv' = sync_cv \ {t}
  /\ Goto(t, "waiting", "wake")
  /\ UNCHANGED <<config, running, exit_requested, other_thread_is_waiting,
                 sync_mutex, lead>>

\* The woken thread takes the mutex again, and cen64_cv_wait unlocks it.
FinishWait(t) ==
  /\ sync_mutex = "free"
  /\ Goto(t, "wake", "loop")
  /\ UNCHANGED <<config, running, exit_requested, barrier, history>>

\* The loop is over. The device thread joins the vr4300 thread first.
LeaveLoop(t) ==
  /\ t = "rcp" => pc["vr4300"] = "done"
  /\ Goto(t, "leave", "done")
  /\ UNCHANGED <<config, running, exit_requested, barrier, history>>

MainStep == CloseWindow \/ StopDevice \/ JoinDevice

ThreadStep(t) ==
  \/ TestRunning(t)
  \/ Quantum(t)
  \/ LockSync(t)
  \/ Arrive(t)
  \/ SignalSync(t)
  \/ FinishWait(t)
  \/ LeaveLoop(t)

\* The process has exited; every thread stays where it is.
Terminated == pc["main"] = "done" /\ UNCHANGED vars

Next ==
  \/ MainStep
  \/ UnwindQuantum
  \/ \E t \in Threads : ThreadStep(t) \/ SpuriousWakeup(t)
  \/ Terminated

Spec == Init /\ [][Next]_vars

\* The scheduler runs every thread that can run. The user need not close the
\* window, and a wait need not return by itself.
Fairness ==
  /\ WF_vars(StopDevice)
  /\ WF_vars(JoinDevice)
  /\ \A t \in Threads : WF_vars(ThreadStep(t))

FairSpec == Spec /\ Fairness

-----------------------------------------------------------------------------
(* Properties *)

TypeOK ==
  /\ multithread \in BOOLEAN
  /\ no_video \in BOOLEAN
  /\ running \in BOOLEAN
  /\ exit_requested \in BOOLEAN
  /\ other_thread_is_waiting \in BOOLEAN
  /\ sync_mutex \in Threads \union {"free"}
  /\ sync_cv \subseteq Threads
  /\ pc \in [Threads \union {"main"} ->
               {"window", "stop", "join", "loop", "quantum", "lock", "arrive",
                "waiting", "signal", "wake", "leave", "done"}]
  /\ lead \in Int
  /\ spurious \in 0 .. MaxSpurious

\* How far thread t is ahead of the other one, in finished quanta.
Lead(t) == IF t = "rcp" THEN lead ELSE -lead

\* The barrier keeps the emulation threads in step ("Sync up with the VR4300
\* thread."): a thread starts a quantum only when the other has finished all
\* the earlier ones, and each wait that returned by itself costs at most two
\* quanta of skew.
SkewBound ==
  \A t \in Threads : /\ Lead(t) <= 2 * spurious + 1
                     /\ pc[t] = "quantum" => Lead(t) <= 2 * spurious

\* "Sync up with the VR4300 thread.": the emulation threads are never more
\* than one quantum apart, whatever the condition variable does.
Lockstep == lead \in -1 .. 1

\* Arrivals of t minus arrivals of the other thread: what the flag counts.
Finishing(t) == IF pc[t] \in {"lock", "arrive"} THEN 1 ELSE 0

Ahead(t) == Lead(t) - Finishing(t) + Finishing(Other(t))

\* Why SkewBound holds, as an inductive invariant of the barrier: the mutex is
\* held exactly in the critical section, a thread is on the condition variable
\* exactly while it waits, every arrival flips the flag, the thread that is
\* furthest ahead waits for a signal that is still to be sent, and a thread
\* about to signal nobody is signalling across a wait that returned by itself.
BarrierInv ==
  /\ \A t \in Threads :
       /\ pc[t] = "arrive" <=> sync_mutex = t
       /\ pc[t] = "waiting" <=> t \in sync_cv
       /\ Ahead(t) <= 2 * spurious + 1
       /\ Ahead(t) = 2 * spurious + 1 => /\ t \in sync_cv
                                         /\ pc[Other(t)] # "signal"
       /\ (pc[Other(t)] = "signal" /\ t \notin sync_cv)
            => Ahead(t) <= 2 * spurious - 2
  /\ other_thread_is_waiting <=> Ahead("rcp") % 2 = 1

\* While the device runs, the barrier never stops a thread for good: both
\* threads go on emulating quanta forever.
BothProgress ==
  ([]running) =>
    \A t \in Threads : (t = "rcp" \/ multithread) => []<>(pc[t] = "quantum")

\* A close request ends the process, in the mode without a CPU thread.
SingleThreadShutdown == (exit_requested /\ ~multithread) ~> (pc["main"] = "done")

\* "Spins the device until an exit request is received.": closing the window
\* ends the process, in every mode.
Shutdown == exit_requested ~> (pc["main"] = "done")

\* "Spins the device until an exit request is received.": the device is never
\* told to stop before the user asked for it.
StopsOnlyOnRequest == ~running => exit_requested
=============================================================================
