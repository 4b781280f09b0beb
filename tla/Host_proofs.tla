---------------------------- MODULE Host_proofs -----------------------------
(***************************************************************************)
(* What runs on the host's threads, for all values of the constants.       *)
(*                                                                         *)
(* The barrier of the threaded mode, for every number of waits that return *)
(* by themselves. BarrierInv is inductive together with TypeOK, and        *)
(* SkewBound follows from it.                                              *)
(*                                                                         *)
(* SessionSafe, for every set of addresses and for all settings of the     *)
(* constants: whether the boot is slow or quick, the client patient or     *)
(* not, and a recv returns one packet or several. The inductive invariant  *)
(* follows the one request that may be under way. What the client has sent *)
(* and the debugger's thread has not handled holds Control-Cs and stops in *)
(* any number, and at most one packet of another kind; which one, and      *)
(* whether the CPU's thread waits meanwhile, depends on what the client    *)
(* believes.                                                               *)
(*                                                                         *)
(* The table of breakpoints, for all keys: it implements KeySet. In its    *)
(* invariant a table that is full, as it becomes after a resize, still has *)
(* a slot that no search goes past, the one that was taken last.           *)
(***************************************************************************)
EXTENDS DeviceThreads, GdbSession, HashTable, Induction,
        SequenceTheorems, FiniteSetTheorems, TLAPS

-----------------------------------------------------------------------------
(* The barrier. *)

\* The type invariant of DeviceThreads holds in every reachable state.
THEOREM TypeCorrect == Spec => []TypeOK
<1>1. Init => TypeOK
  <2> SUFFICES ASSUME Init PROVE TypeOK
    OBVIOUS
  <2> USE DEF Init, Threads
  <2>1. multithread \in BOOLEAN /\ no_video \in BOOLEAN
    BY ModesAssumption
  <2>2. \A t \in Threads \union {"main"} : pc[t] \in {"stop", "window", "loop", "done"}
    OBVIOUS
  <2>3. pc \in [Threads \union {"main"} -> {"stop", "window", "loop", "done"}]
    BY <2>2
  <2>4. pc \in [Threads \union {"main"} ->
               {"window", "stop", "join", "loop", "quantum", "lock", "arrive",
                "waiting", "signal", "wake", "leave", "done"}]
    BY <2>3
  <2>5. lead \in Int /\ spurious \in 0 .. MaxSpurious
    BY ModesAssumption
  <2>6. sync_mutex \in Threads \union {"free"} /\ sync_cv \subseteq Threads
    OBVIOUS
  <2> QED BY <2>1, <2>4, <2>5, <2>6 DEF TypeOK
<1>2. TypeOK /\ [Next]_vars => TypeOK'
  <2> SUFFICES ASSUME TypeOK, [Next]_vars PROVE TypeOK'
    OBVIOUS
  <2> USE DEF TypeOK, Threads, Goto, barrier, config, history
  <2>1. CASE MainStep
    BY <2>1 DEF MainStep, CloseWindow, StopDevice, JoinDevice
  <2>2. CASE UnwindQuantum
    BY <2>2 DEF UnwindQuantum
  <2>3. ASSUME NEW t \in Threads, ThreadStep(t) PROVE TypeOK'
    <3>1. CASE TestRunning(t)
      BY <3>1 DEF TestRunning
    <3>2. CASE Quantum(t)
      BY <3>2 DEF Quantum
    <3>3. CASE LockSync(t)
      BY <3>3 DEF LockSync
    <3>4. CASE Arrive(t)
      BY <3>4 DEF Arrive
    <3>5. CASE SignalSync(t)
      BY <3>5 DEF SignalSync
    <3>6. CASE FinishWait(t)
      BY <3>6 DEF FinishWait
    <3>7. CASE LeaveLoop(t)
      BY <3>7 DEF LeaveLoop
    <3> QED BY <2>3, <3>1, <3>2, <3>3, <3>4, <3>5, <3>6, <3>7 DEF ThreadStep
  <2>4. ASSUME NEW t \in Threads, SpuriousWakeup(t) PROVE TypeOK'
    BY <2>4, ModesAssumption DEF SpuriousWakeup
  <2>5. CASE UNCHANGED vars
    BY <2>5 DEF vars
  <2> QED BY <2>1, <2>2, <2>3, <2>4, <2>5 DEF Next, Terminated
<1> QED BY <1>1, <1>2, PTL DEF Spec

-----------------------------------------------------------------------------

\* One step of the barrier keeps BarrierInv: every arrival moves Ahead by one
\* and flips the flag, and a wait that returns by itself raises the bound by
\* two before its thread can arrive again.
LEMMA BarrierStep == TypeOK /\ TypeOK' /\ BarrierInv /\ [Next]_vars => BarrierInv'
<1> SUFFICES ASSUME TypeOK, TypeOK', BarrierInv, [Next]_vars PROVE BarrierInv'
  OBVIOUS
<1>a. /\ Ahead("rcp") \in Int /\ Ahead("vr4300") = -Ahead("rcp")
      /\ Ahead("rcp")' \in Int /\ Ahead("vr4300")' = -Ahead("rcp")'
  <2>1. Ahead("rcp") \in Int /\ Ahead("vr4300") = -Ahead("rcp")
    BY DEF TypeOK, Ahead, Lead, Finishing, Other
  <2>2. Ahead("rcp")' \in Int /\ Ahead("vr4300")' = -Ahead("rcp")'
    BY DEF TypeOK, Ahead, Lead, Finishing, Other
  <2> QED BY <2>1, <2>2
<1> USE DEF Threads, Other
<1>1. ASSUME UNCHANGED <<sync_mutex, sync_cv, other_thread_is_waiting, spurious>>,
             Ahead("rcp")' = Ahead("rcp"),
             \A t \in Threads :
               /\ pc[t]' = "arrive" <=> pc[t] = "arrive"
               /\ pc[t]' = "waiting" <=> pc[t] = "waiting"
               /\ pc[t]' = "signal" <=> pc[t] = "signal"
      PROVE  BarrierInv'
  BY <1>a, <1>1 DEF BarrierInv
<1>2. CASE MainStep \/ UnwindQuantum \/ UNCHANGED vars
  BY <1>1, <1>2 DEF MainStep, CloseWindow, StopDevice, JoinDevice, UnwindQuantum,
     Ahead, Lead, Finishing, Goto, barrier, config, history, vars, TypeOK
<1>3. ASSUME NEW t \in Threads, ThreadStep(t) PROVE BarrierInv'
  <2>1. CASE TestRunning(t) \/ Quantum(t) \/ FinishWait(t) \/ LeaveLoop(t)
    <3> USE DEF Ahead, Lead, Finishing, Goto, barrier, history, TypeOK
    <3>1. CASE TestRunning(t)
      BY <1>1, <3>1 DEF TestRunning
    <3>2. CASE Quantum(t)
      <4>1. pc[t] = "quantum" /\ pc' = [pc EXCEPT ![t] = IF multithread THEN "lock" ELSE "loop"]
        BY <3>2 DEF Quantum
      <4>2. lead' = IF ~multithread THEN lead ELSE IF t = "rcp" THEN lead + 1 ELSE lead - 1
        BY <3>2 DEF Quantum
      <4>3. Ahead("rcp")' = Ahead("rcp")
        BY <4>1, <4>2
      <4>4. UNCHANGED <<sync_mutex, sync_cv, other_thread_is_waiting, spurious>>
        BY <3>2 DEF Quantum
      <4> HIDE DEF Ahead
      <4> QED BY <1>1, <4>1, <4>3, <4>4
    <3>3. CASE FinishWait(t) \/ LeaveLoop(t)
      BY <1>1, <3>3 DEF FinishWait, LeaveLoop
    <3> QED BY <2>1, <3>1, <3>2, <3>3
  <2>2. CASE LockSync(t)
    <3>1. Ahead("rcp")' = Ahead("rcp")
      BY <2>2 DEF LockSync, Ahead, Lead, Finishing, Goto, history, TypeOK
    <3> QED BY <1>a, <2>2, <3>1 DEF LockSync, Goto, history, BarrierInv, TypeOK
  <2>3. CASE Arrive(t)
    <3>1. /\ t = "rcp" => Ahead("rcp")' = Ahead("rcp") + 1
          /\ t = "vr4300" => Ahead("rcp")' = Ahead("rcp") - 1
      BY <2>3 DEF Arrive, Ahead, Lead, Finishing, Goto, history, TypeOK
    <3>2. other_thread_is_waiting' <=> Ahead("rcp")' % 2 = 1
      <4>1. other_thread_is_waiting' <=> ~other_thread_is_waiting
        BY <2>3 DEF Arrive
      <4>2. other_thread_is_waiting <=> Ahead("rcp") % 2 = 1
        BY DEF BarrierInv
      <4>3. Ahead("rcp")' % 2 = 1 <=> ~(Ahead("rcp") % 2 = 1)
        BY <1>a, <3>1
      <4> QED BY <4>1, <4>2, <4>3
    <3>3. spurious \in Int /\ spurious' = spurious
      BY <2>3, ModesAssumption DEF Arrive, history, TypeOK
    <3>4. ASSUME NEW u \in Threads
          PROVE  /\ pc'[u] = "arrive" <=> sync_mutex' = u
                 /\ pc'[u] = "waiting" <=> u \in sync_cv'
      BY <2>3 DEF Arrive, Goto, BarrierInv, TypeOK
    <3>5. CASE other_thread_is_waiting
      <4>1. /\ pc'[t] = "signal" /\ sync_cv' = sync_cv /\ t \notin sync_cv
            /\ pc'[Other(t)] = pc[Other(t)]
        BY <2>3, <3>5 DEF Arrive, Goto, BarrierInv, TypeOK
      <4> QED BY <1>a, <3>1, <3>2, <3>3, <3>4, <3>5, <4>1 DEF BarrierInv
    <3>6. CASE ~other_thread_is_waiting
      <4>1. /\ pc'[t] = "waiting" /\ sync_cv' = sync_cv \union {t} /\ t \notin sync_cv
            /\ pc'[Other(t)] = pc[Other(t)]
        BY <2>3, <3>6 DEF Arrive, Goto, BarrierInv, TypeOK
      <4> QED BY <1>a, <3>1, <3>2, <3>3, <3>4, <3>6, <4>1 DEF BarrierInv
    <3> QED BY <3>5, <3>6
  <2>4. CASE SignalSync(t)
    <3>1. Ahead("rcp")' = Ahead("rcp")
      BY <2>4 DEF SignalSync, Ahead, Lead, Finishing, Goto, history, TypeOK, BarrierInv
    <3> QED BY <1>a, <2>4, <3>1, ModesAssumption DEF SignalSync, Goto, history, BarrierInv, TypeOK
  <2> QED BY <1>3, <2>1, <2>2, <2>3, <2>4 DEF ThreadStep
<1>4. ASSUME NEW t \in Threads, SpuriousWakeup(t) PROVE BarrierInv'
  <2>1. Ahead("rcp")' = Ahead("rcp")
    BY <1>4 DEF SpuriousWakeup, Ahead, Lead, Finishing, Goto, TypeOK
  <2> QED BY <1>a, <1>4, <2>1, ModesAssumption DEF SpuriousWakeup, Goto, BarrierInv, TypeOK
<1> QED BY <1>2, <1>3, <1>4 DEF Next, Terminated

\* The inductive invariant of the barrier holds in every reachable state.
THEOREM BarrierCorrect == Spec => []BarrierInv
<1>1. Init => BarrierInv
  BY DEF Init, BarrierInv, Threads, Other, Lead, Ahead, Finishing
<1> QED BY <1>1, BarrierStep, TypeCorrect, PTL DEF Spec

\* The skew between the emulation threads is bounded by the number of waits
\* that returned by themselves; without any, the threads run in lockstep.
THEOREM SkewBounded == Spec => []SkewBound
<1>1. TypeOK /\ BarrierInv => SkewBound
  BY DEF TypeOK, BarrierInv, SkewBound, Threads, Other, Lead, Ahead, Finishing
<1> QED BY <1>1, TypeCorrect, BarrierCorrect, PTL

-----------------------------------------------------------------------------
(* The debugger's session. *)

\* What may be sent at any time, without an answer.
Async == {"break", "stop"}

NoRequest(q) == \A i \in DOMAIN q : q[i].kind \in Async

OneRequest(q, kinds) ==
  \E i \in DOMAIN q :
    /\ q[i].kind \in kinds
    /\ \A j \in DOMAIN q : j # i => q[j].kind \in Async

\* Sent and not handled.
Pending == (IF at["gdb"] = "scan" THEN Rest ELSE packet_buffer) \o wire

Requests == {"continue", "ask", "detach", "kill", "set", "clear"}

AskKinds == {"ask", "set", "clear"}

\* The debugger's thread waits for the first breakpoint.
Early == at["gdb"] \in {"start", "test", "wait", "waiting", "relock"}

\* The CPU's thread reports no stop.
NotTold ==
  /\ "CONNECTED" \notin flags
  /\ at["cpu"] \in {"woken", "resume", "run", "search", "handler"}
  /\ at["cpu"] = "resume" => "CONNECTED" \notin loaded["cpu"]

Waiters == \A t \in GdbThreads : t \in client_semaphore <=> at[t] = "waiting"

Places ==
  /\ at["cpu"] \in {"run", "search", "handler", "first", "signal", "reply", "lock", "pause",
                    "waiting", "woken", "resume"}
  /\ at["gdb"] \in {"start", "test", "wait", "relock", "waiting", "woken", "loop", "read", "drop",
                    "parse", "answer", "table", "detach", "kill", "scan", "done"}
  /\ at["cpu"] \in {"first", "signal"} => Early

EarlyInv ==
  Early =>
    /\ packet_buffer = <<>> /\ replies = <<>>
    /\ client \in {"asks", "left"}
    /\ at["cpu"] \notin {"reply", "woken", "resume"}
    /\ at["cpu"] \in {"run", "search", "handler", "first"} => {"INITIAL", "CONNECTED"} \subseteq flags

\* INITIAL is cleared once, and no thread stores it again.
FirstOnce ==
  /\ ~Early \/ at["cpu"] \notin {"run", "search", "handler", "first"} => "INITIAL" \notin flags
  /\ at["cpu"] \in {"first", "pause", "resume"} => "INITIAL" \notin loaded["cpu"]
  /\ at["gdb"] \in {"drop", "detach", "kill"} =>
       "INITIAL" \notin loaded["gdb"] /\ "CONNECTED" \notin loaded["gdb"]

\* The first packet that was received.
First(kinds) == \E i \in DOMAIN packet_buffer : IsPacket(i) /\ packet_buffer[i].kind \in kinds

\* It is the one that is handled.
Handled ==
  /\ at["gdb"] = "answer" => First({"ask"})
  /\ at["gdb"] = "table" => First({"set", "clear"})
  /\ at["gdb"] = "detach" => First({"detach"})
  /\ at["gdb"] = "kill" => First({"kill"})

TwoThreads == Waiters /\ Places /\ EarlyInv /\ FirstOnce /\ Handled

AsksInv ==
  client = "asks" =>
    \/ replies = <<>> /\ OneRequest(Pending, AskKinds) /\ (Stopped \/ Early)
    \/ replies = <<"ok">> /\ NoRequest(Pending) /\ Stopped

StoppedInv == client = "stopped" => replies = <<>> /\ NoRequest(Pending) /\ Stopped

RunningInv ==
  client = "running" =>
    \/ replies = <<>> /\ OneRequest(Pending, {"continue"}) /\ Stopped
    \/ replies = <<>> /\ NoRequest(Pending)
    \/ replies = <<"stop">> /\ NoRequest(Pending) /\ Stopped

LeavingInv ==
  client = "leaving" =>
    \/ replies = <<>> /\ OneRequest(Pending, {"detach", "kill"}) /\ Stopped
    \/ replies = <<"ok">> /\ NoRequest(Pending) /\ (Stopped \/ NotTold)

LeftInv ==
  client = "left" =>
    \/ NoRequest(Pending)
    \/ OneRequest(Pending, Requests) /\ (Stopped \/ Early)

\* What the client believes.
Beliefs == AsksInv /\ StoppedInv /\ RunningInv /\ LeavingInv /\ LeftInv

SessionInv == TwoThreads /\ Beliefs

-----------------------------------------------------------------------------
(* Sequences of tokens *)

\* A Control-C or a stop leaves a sequence with the request it had.
LEMMA AppendAsync ==
  ASSUME NEW q \in Seq(Tokens), NEW token \in Tokens, token.kind \in Async
  PROVE  /\ NoRequest(q) => NoRequest(Append(q, token))
         /\ \A kinds : OneRequest(q, kinds) => OneRequest(Append(q, token), kinds)
<1> DEFINE r == Append(q, token)
<1>1. /\ r \in Seq(Tokens) /\ Len(r) = Len(q) + 1 /\ r[Len(q) + 1] = token
      /\ \A i \in 1 .. Len(q) : r[i] = q[i]
  BY AppendProperties
<1>2. DOMAIN q = 1 .. Len(q) /\ DOMAIN r = 1 .. Len(q) + 1 /\ Len(q) \in Nat
  BY <1>1, LenProperties
<1> HIDE DEF r
<1>3. \A i \in DOMAIN r : (i \in DOMAIN q /\ r[i] = q[i]) \/ r[i] = token
  BY <1>1, <1>2
<1>4. \A i \in DOMAIN q : i \in DOMAIN r /\ r[i] = q[i]
  BY <1>1, <1>2
<1>5. NoRequest(q) => NoRequest(r)
  BY <1>3 DEF NoRequest
<1>6. ASSUME NEW kinds, OneRequest(q, kinds)
      PROVE  OneRequest(r, kinds)
  <2>1. PICK i \in DOMAIN q : /\ q[i].kind \in kinds
                              /\ \A j \in DOMAIN q : j # i => q[j].kind \in Async
    BY <1>6 DEF OneRequest
  <2>2. \A j \in DOMAIN r : j # i => r[j].kind \in Async
    BY <1>3, <2>1
  <2>3. QED
    BY <1>4, <2>1, <2>2 DEF OneRequest
<1>7. QED
  BY <1>5, <1>6 DEF r

\* A request at the end of a sequence without one is its one request.
LEMMA AppendRequest ==
  ASSUME NEW q \in Seq(Tokens), NEW token \in Tokens, NEW kinds, token.kind \in kinds,
         NoRequest(q)
  PROVE  OneRequest(Append(q, token), kinds)
<1> DEFINE r == Append(q, token)
<1>1. /\ r \in Seq(Tokens) /\ Len(r) = Len(q) + 1 /\ r[Len(q) + 1] = token
      /\ \A i \in 1 .. Len(q) : r[i] = q[i]
  BY AppendProperties
<1>2. DOMAIN q = 1 .. Len(q) /\ DOMAIN r = 1 .. Len(q) + 1 /\ Len(q) \in Nat
  BY <1>1, LenProperties
<1> HIDE DEF r
<1>3. \A j \in DOMAIN r : j # Len(q) + 1 => j \in DOMAIN q /\ r[j] = q[j]
  BY <1>1, <1>2
<1>4. \A j \in DOMAIN r : j # Len(q) + 1 => r[j].kind \in Async
  BY <1>3 DEF NoRequest
<1>5. Len(q) + 1 \in DOMAIN r /\ r[Len(q) + 1].kind \in kinds
  BY <1>1, <1>2
<1>6. OneRequest(r, kinds)
  BY <1>4, <1>5 DEF OneRequest
<1>7. QED
  BY <1>6 DEF r

\* What remains when the first i tokens are gone.
LEMMA Dropped ==
  ASSUME NEW q \in Seq(Tokens), NEW r \in Seq(Tokens), NEW i \in 0 .. Len(q),
         Len(r) = Len(q) - i, \A k \in 1 .. Len(r) : r[k] = q[k + i]
  PROVE  /\ NoRequest(q) => NoRequest(r)
         /\ \A kinds : kinds \cap Async = {} /\ OneRequest(q, kinds)
                         /\ (\A j \in 1 .. i : q[j].kind \in Async)
                           => OneRequest(r, kinds)
         /\ \A kinds : OneRequest(q, kinds) /\ i # 0 /\ q[i].kind \notin Async
                         => q[i].kind \in kinds /\ NoRequest(r)
<1>1. DOMAIN q = 1 .. Len(q) /\ DOMAIN r = 1 .. Len(r) /\ Len(q) \in Nat /\ Len(r) \in Nat
  BY LenProperties
<1>2. \A k \in DOMAIN r : k + i \in DOMAIN q /\ r[k] = q[k + i] /\ k \in Nat /\ k # 0
  BY <1>1
<1>3. \A j \in DOMAIN q : j \notin 1 .. i => j - i \in DOMAIN r /\ r[j - i] = q[j]
  BY <1>1
<1>4. NoRequest(q) => NoRequest(r)
  BY <1>2 DEF NoRequest
<1>5. ASSUME NEW kinds, kinds \cap Async = {}, OneRequest(q, kinds),
             \A j \in 1 .. i : q[j].kind \in Async
      PROVE  OneRequest(r, kinds)
  <2>1. PICK n \in DOMAIN q : /\ q[n].kind \in kinds
                              /\ \A j \in DOMAIN q : j # n => q[j].kind \in Async
    BY <1>5 DEF OneRequest
  <2>2. n \notin 1 .. i
    BY <1>5, <2>1
  <2>3. n - i \in DOMAIN r /\ r[n - i].kind \in kinds
    BY <1>3, <2>1, <2>2
  <2>4. \A k \in DOMAIN r : k # n - i => k + i # n
    BY <1>1, <2>2
  <2>5. \A k \in DOMAIN r : k # n - i => r[k].kind \in Async
    BY <1>2, <2>1, <2>4
  <2>6. QED
    BY <2>3, <2>5 DEF OneRequest
<1>6. ASSUME NEW kinds, OneRequest(q, kinds), i # 0, q[i].kind \notin Async
      PROVE  q[i].kind \in kinds /\ NoRequest(r)
  <2>1. PICK n \in DOMAIN q : /\ q[n].kind \in kinds
                              /\ \A j \in DOMAIN q : j # n => q[j].kind \in Async
    BY <1>6 DEF OneRequest
  <2>2. i \in DOMAIN q
    BY <1>1, <1>6
  <2>3. n = i
    BY <1>6, <2>1, <2>2
  <2>4. \A k \in DOMAIN r : k + i # n
    BY <1>1, <2>3
  <2>5. QED
    BY <1>2, <2>1, <2>3, <2>4 DEF NoRequest
<1>7. QED
  BY <1>4, <1>5, <1>6

\* When there is a token that is no Control-C, there is a first packet.
LEMMA FirstPacket ==
  ASSUME packet_buffer \in Seq(Tokens), ~ \E i \in DOMAIN packet_buffer : IsPacket(i)
  PROVE  \A i \in DOMAIN packet_buffer : packet_buffer[i].kind = "break"
<1> DEFINE T == {i \in DOMAIN packet_buffer : packet_buffer[i].kind # "break"}
<1>1. DOMAIN packet_buffer = 1 .. Len(packet_buffer) /\ Len(packet_buffer) \in Nat
  BY LenProperties
<1>2. SUFFICES ASSUME T # {} PROVE FALSE
  OBVIOUS
<1>3. T \subseteq Nat
  BY <1>1
<1> HIDE DEF T
<1>4. PICK m \in T : \A k \in T : <<k, m>> \notin OpToRel(<, Nat)
  BY <1>2, <1>3, NatLessThanWellFounded, WFMin, Zenon
<1>5. \A k \in T : ~(k < m)
  BY <1>3, <1>4 DEF OpToRel
<1>6. \A j \in 1 .. m - 1 : j \notin T /\ j \in DOMAIN packet_buffer
  BY <1>1, <1>3, <1>5 DEF T
<1>7. \A j \in 1 .. m - 1 : packet_buffer[j].kind = "break"
  BY <1>6 DEF T
<1>8. IsPacket(m)
  BY <1>7 DEF T, IsPacket
<1>9. QED
  BY <1>8 DEF T

LEMMA OnePacket ==
  ASSUME packet_buffer \in Seq(Tokens), NEW i, NEW j, IsPacket(i), IsPacket(j)
  PROVE  i = j
<1>1. DOMAIN packet_buffer = 1 .. Len(packet_buffer) /\ Len(packet_buffer) \in Nat
  BY LenProperties
<1>2. i \in 1 .. Len(packet_buffer) /\ j \in 1 .. Len(packet_buffer)
  BY <1>1 DEF IsPacket
<1>3. ~(i < j) /\ ~(j < i)
  BY <1>2 DEF IsPacket
<1>4. QED
  BY <1>2, <1>3

\* The rest, with what has not been received, is what comes after the packet.
LEMMA RestAfter ==
  ASSUME packet_buffer \in Seq(Tokens), wire \in Seq(Tokens), NEW i, IsPacket(i)
  PROVE  /\ Rest \in Seq(Tokens)
         /\ i \in 1 .. Len(packet_buffer \o wire)
         /\ Len(Rest \o wire) = Len(packet_buffer \o wire) - i
         /\ \A k \in 1 .. Len(Rest \o wire) : (Rest \o wire)[k] = (packet_buffer \o wire)[k + i]
         /\ \A j \in 1 .. i : (packet_buffer \o wire)[j] = packet_buffer[j]
<1> DEFINE n == Len(packet_buffer)
<1>1. /\ DOMAIN packet_buffer = 1 .. n /\ n \in Nat /\ Len(wire) \in Nat
      /\ \A j \in 1 .. n : packet_buffer[j] \in Tokens
  BY LenProperties, ElementOfSeq
<1>2. i \in 1 .. n
  BY <1>1 DEF IsPacket
<1>3. (CHOOSE j \in 1 .. n : IsPacket(j)) = i
  BY <1>2, OnePacket
<1>4. Rest = SubSeq(packet_buffer, 1 + i, n)
  BY <1>2, <1>3 DEF Rest
<1>5. /\ Rest \in Seq(Tokens)
      /\ Len(Rest) = n - i
      /\ \A k \in 1 .. n - i : Rest[k] = packet_buffer[k + i]
  <2>1. \A j \in 1 + i .. n : packet_buffer[j] \in Tokens
    BY <1>1, <1>2
  <2>2. 1 + i \in Int /\ n \in Int
    BY <1>1, <1>2
  <2>3. /\ Rest \in Seq(Tokens)
        /\ Len(Rest) = IF 1 + i <= n THEN n - (1 + i) + 1 ELSE 0
        /\ \A k \in 1 .. n - (1 + i) + 1 : Rest[k] = packet_buffer[(1 + i) + k - 1]
    BY <1>4, <2>1, <2>2, SubSeqProperties
  <2> HIDE DEF n
  <2>4. n - (1 + i) + 1 = n - i /\ (1 + i <= n \/ n - i = 0)
    BY <1>1, <1>2
  <2>5. \A k \in 1 .. n - i : (1 + i) + k - 1 = k + i
    BY <1>1, <1>2
  <2>6. QED
    BY <2>3, <2>4, <2>5
<1>6. /\ Len(packet_buffer \o wire) = n + Len(wire)
      /\ \A k \in 1 .. n + Len(wire) :
           (packet_buffer \o wire)[k] = IF k <= n THEN packet_buffer[k] ELSE wire[k - n]
  BY ConcatProperties
<1>7. /\ Len(Rest \o wire) = Len(Rest) + Len(wire)
      /\ \A k \in 1 .. Len(Rest) + Len(wire) :
           (Rest \o wire)[k] = IF k <= Len(Rest) THEN Rest[k] ELSE wire[k - Len(Rest)]
  BY <1>5, ConcatProperties
<1> DEFINE p == packet_buffer \o wire
           r == Rest \o wire
<1> HIDE DEF n, p, r
<1>8. i \in 1 .. Len(p) /\ Len(r) = Len(p) - i
  BY <1>1, <1>2, <1>5, <1>6, <1>7 DEF p, r
<1>9. ASSUME NEW k \in 1 .. Len(r) PROVE r[k] = p[k + i]
  <2>1. k \in 1 .. (n - i) + Len(wire) /\ k + i \in 1 .. n + Len(wire)
    BY <1>1, <1>2, <1>5, <1>7 DEF r
  <2>2. CASE k <= n - i
    <3>1. k + i <= n /\ k \in 1 .. n - i
      BY <1>1, <1>2, <2>1, <2>2
    <3>2. p[k + i] = packet_buffer[k + i]
      BY <1>6, <2>1, <3>1 DEF p
    <3>3. r[k] = Rest[k]
      BY <1>5, <1>7, <2>1, <2>2 DEF r
    <3>4. QED
      BY <1>5, <3>1, <3>2, <3>3
  <2>3. CASE ~(k <= n - i)
    <3>1. ~(k + i <= n) /\ (k + i) - n = k - (n - i)
      BY <1>1, <1>2, <2>1, <2>3
    <3>2. p[k + i] = wire[(k + i) - n]
      BY <1>6, <2>1, <3>1 DEF p
    <3>3. r[k] = wire[k - (n - i)]
      BY <1>5, <1>7, <2>1, <2>3 DEF r
    <3>4. QED
      BY <3>1, <3>2, <3>3
  <2>4. QED
    BY <2>2, <2>3
<1>10. \A j \in 1 .. i : p[j] = packet_buffer[j]
  BY <1>1, <1>2, <1>6 DEF p
<1>11. QED
  BY <1>5, <1>8, <1>9, <1>10 DEF p, r

-----------------------------------------------------------------------------
(* Types *)

LEMMA MovesTypes ==
  ASSUME at \in [GdbThreads -> GdbPlaces], NEW t, NEW place \in GdbPlaces,
         at' = [at EXCEPT ![t] = place]
  PROVE  at' \in [GdbThreads -> GdbPlaces]
OBVIOUS

LEMMA LoadTypes ==
  ASSUME loaded \in [GdbThreads -> SUBSET Flags], NEW t, NEW value \in SUBSET Flags,
         Load(t, value)
  PROVE  loaded' \in [GdbThreads -> SUBSET Flags]
BY DEF Load

LEMMA SignalTypes ==
  ASSUME GdbTypeOK, NEW t \in GdbThreads, NEW next \in GdbPlaces, Signal(t, next)
  PROVE  /\ at' \in [GdbThreads -> GdbPlaces]
         /\ client_semaphore' \subseteq GdbThreads
<1>1. CASE client_semaphore = {} /\ at' = [at EXCEPT ![t] = next] /\ UNCHANGED client_semaphore
  BY <1>1, MovesTypes DEF GdbTypeOK
<1>2. CASE \E u \in client_semaphore :
             /\ at' = [at EXCEPT ![t] = next, ![u] = "woken"]
             /\ client_semaphore' = client_semaphore \ {u}
  <2>1. "woken" \in GdbPlaces
    BY DEF GdbPlaces
  <2>2. at \in [GdbThreads -> GdbPlaces] /\ client_semaphore \subseteq GdbThreads
    BY DEF GdbTypeOK
  <2>3. QED
    BY <1>2, <2>1, <2>2
<1>3. QED
  BY <1>1, <1>2 DEF Signal

LEMMA PlainTypes == \A kind \in Async \cup Requests : Plain(kind) \in Tokens /\ Plain(kind).kind = kind
BY SessionAssumption DEF Async, Requests, Plain, Token, Tokens

LEMMA RestTypes == ASSUME GdbTypeOK PROVE Rest \in Seq(Tokens)
<1>1. CASE \E i \in 1 .. Len(packet_buffer) : IsPacket(i)
  BY <1>1, RestAfter DEF GdbTypeOK
<1>2. CASE ~ \E i \in 1 .. Len(packet_buffer) : IsPacket(i)
  <2>1. Rest = <<>>
    BY <1>2 DEF Rest
  <2>2. QED
    BY <2>1, EmptySeq
<1>3. QED
  BY <1>1, <1>2

LEMMA ReadTypes ==
  ASSUME NEW S, NEW q \in Seq(S), NEW w \in Seq(S), NEW n \in 1 .. Len(w)
  PROVE  /\ q \o SubSeq(w, 1, n) \in Seq(S)
         /\ SubSeq(w, n + 1, Len(w)) \in Seq(S)
         /\ (q \o SubSeq(w, 1, n)) \o SubSeq(w, n + 1, Len(w)) = q \o w
<1>1. Len(w) \in Nat /\ \A i \in 1 .. Len(w) : w[i] \in S
  BY LenProperties, ElementOfSeq
<1>2. SubSeq(w, 1, n) \in Seq(S)
  BY <1>1, SubSeqProperties
<1>3. SubSeq(w, n + 1, Len(w)) \in Seq(S)
  BY <1>1, SubSeqProperties
<1>4. SubSeq(w, 1, n) \o SubSeq(w, n + 1, Len(w)) = SubSeq(w, 1, Len(w))
  <2>1. /\ 1 \in 1 .. Len(w) + 1 /\ n \in 1 - 1 .. Len(w) /\ Len(w) \in n .. Len(w)
    BY <1>1
  <2>2. QED
    BY <2>1, ConcatAdjacentSubSeq
<1>5. SubSeq(w, 1, Len(w)) = w
  BY SubSeqFull
<1> DEFINE a == SubSeq(w, 1, n)
           b == SubSeq(w, n + 1, Len(w))
<1> HIDE DEF a, b
<1>6. a \in Seq(S)
  BY <1>2 DEF a
<1>7. b \in Seq(S)
  BY <1>3 DEF b
<1>8. a \o b = w
  BY <1>4, <1>5 DEF a, b
<1>9. (q \o a) \o b = q \o (a \o b)
  BY <1>6, <1>7
<1>10. q \o a \in Seq(S)
  BY <1>6
<1>11. QED
  BY <1>7, <1>8, <1>9, <1>10 DEF a, b

LEMMA ConcatAppend ==
  ASSUME NEW S, NEW q \in Seq(S), NEW w \in Seq(S), NEW t \in S
  PROVE  q \o Append(w, t) = Append(q \o w, t)
OBVIOUS

\* Every variable keeps its type.
THEOREM SessionTypes == GdbSpec => []GdbTypeOK
<1> USE DEF GdbTypeOK
<1>1. GdbInit => GdbTypeOK
  <2> SUFFICES ASSUME GdbInit PROVE GdbTypeOK
    OBVIOUS
  <2>1. wire \in Seq(Tokens)
    BY PlainTypes DEF GdbInit, Requests
  <2>2. packet_buffer \in Seq(Tokens) /\ replies \in Seq({"ok", "stop"})
    BY EmptySeq DEF GdbInit
  <2>3. at \in [GdbThreads -> GdbPlaces]
    BY DEF GdbInit, GdbThreads, GdbPlaces
  <2>4. loaded \in [GdbThreads -> SUBSET Flags] /\ flags \subseteq Flags
    BY DEF GdbInit, Flags
  <2>5. client_mutex \in GdbThreads \cup {"free"} /\ client_semaphore \subseteq GdbThreads
    BY DEF GdbInit
  <2>6. breakpoints \subseteq Addresses /\ cpc \in Addresses
    BY SessionAssumption DEF GdbInit
  <2>7. signals \in BOOLEAN /\ break_handler \in BOOLEAN /\ interrupted \in BOOLEAN
    BY DEF GdbInit
  <2>8. client \in {"asks", "stopped", "running", "leaving", "left"} /\ woken \in 0 .. GdbMaxSpurious
    BY SessionAssumption DEF GdbInit
  <2>9. QED
    BY <2>1, <2>2, <2>3, <2>4, <2>5, <2>6, <2>7, <2>8
<1>2. ASSUME GdbTypeOK, [GdbNext]_gdbVars PROVE GdbTypeOK'
  <2> USE <1>2 DEF shared, debug, link, outside
  <2> DEFINE Placed == at' \in [GdbThreads -> GdbPlaces]
             Kept == loaded' \in [GdbThreads -> SUBSET Flags]
  <2>1. CASE CpuStep
    <3>1. CASE \E address \in Addresses : CpuCycle(address)
      <4>1. Placed
        BY <3>1, MovesTypes DEF CpuCycle, Moves, GdbPlaces
      <4>2. QED
        BY <3>1, <4>1 DEF CpuCycle
    <3>2. CASE CpuSearch
      <4>1. Placed
        BY <3>2, MovesTypes DEF CpuSearch, GdbPlaces
      <4>2. signals' \in BOOLEAN
        BY <3>2 DEF CpuSearch
      <4>3. QED
        BY <3>2, <4>1, <4>2 DEF CpuSearch
    <3>3. CASE CpuException \/ CpuNotConnected \/ CpuLaterStop
      <4>1. Placed
        BY <3>3, MovesTypes DEF CpuException, CpuNotConnected, CpuLaterStop, Moves, GdbPlaces
      <4>2. QED
        BY <3>3, <4>1 DEF CpuException, CpuNotConnected, CpuLaterStop
    <3>4. CASE CpuFirstStop \/ CpuLock \/ CpuWoken
      <4>1. Placed
        BY <3>4, MovesTypes DEF CpuFirstStop, CpuLock, CpuWoken, Moves, GdbPlaces
      <4>2. Kept
        BY <3>4, LoadTypes DEF CpuFirstStop, CpuLock, CpuWoken, Flags
      <4>3. client_mutex' \in GdbThreads \cup {"free"}
        BY <3>4 DEF CpuFirstStop, CpuLock, CpuWoken, GdbThreads
      <4>4. QED
        BY <3>4, <4>1, <4>2, <4>3 DEF CpuFirstStop, CpuLock, CpuWoken
    <3>5. CASE CpuRemoveInitial \/ CpuResume
      <4>1. Placed
        BY <3>5, MovesTypes DEF CpuRemoveInitial, CpuResume, Moves, GdbPlaces
      <4>2. flags' \subseteq Flags
        BY <3>5 DEF CpuRemoveInitial, CpuResume, GdbThreads
      <4>3. break_handler' \in BOOLEAN
        <5>1. CASE CpuRemoveInitial
          BY <5>1 DEF CpuRemoveInitial
        <5>2. CASE CpuResume
          <6>1. break_handler' = ("CONNECTED" \in loaded["cpu"])
            BY <5>2 DEF CpuResume
          <6>2. QED
            BY <6>1
        <5>3. QED
          BY <3>5, <5>1, <5>2
      <4>4. breakpoints' \subseteq Addresses
        BY <3>5 DEF CpuRemoveInitial, CpuResume
      <4>5. QED
        BY <3>5, <4>1, <4>2, <4>3, <4>4 DEF CpuRemoveInitial, CpuResume
    <3>6. CASE CpuSignalFirst
      BY <3>6, SignalTypes DEF CpuSignalFirst, GdbThreads, GdbPlaces
    <3>7. CASE CpuReply
      <4>1. Placed
        BY <3>7, MovesTypes DEF CpuReply, Moves, GdbPlaces
      <4>2. replies' \in Seq({"ok", "stop"})
        BY <3>7, AppendProperties DEF CpuReply
      <4>3. QED
        BY <3>7, <4>1, <4>2 DEF CpuReply
    <3>8. CASE CpuPause
      <4>1. Placed
        BY <3>8, MovesTypes DEF CpuPause, Wait, Moves, GdbPlaces
      <4>2. flags' \subseteq Flags /\ client_semaphore' \subseteq GdbThreads
        BY <3>8 DEF CpuPause, Wait, GdbThreads
      <4>3. QED
        BY <3>8, <4>1, <4>2 DEF CpuPause, Wait
    <3>9. QED
      BY <2>1, <3>1, <3>2, <3>3, <3>4, <3>5, <3>6, <3>7, <3>8 DEF CpuStep
  <2>2. CASE GdbStep
    <3>1. CASE GdbLock \/ GdbTest \/ GdbWoken \/ GdbLoop
      <4>1. Placed
        BY <3>1, MovesTypes DEF GdbLock, GdbTest, GdbWoken, GdbLoop, Moves, GdbPlaces
      <4>2. client_mutex' \in GdbThreads \cup {"free"}
        BY <3>1 DEF GdbLock, GdbTest, GdbWoken, GdbLoop, GdbThreads
      <4>3. QED
        BY <3>1, <4>1, <4>2 DEF GdbLock, GdbTest, GdbWoken, GdbLoop
    <3>2. CASE GdbWait
      <4>1. Placed
        BY <3>2, MovesTypes DEF GdbWait, Wait, Moves, GdbPlaces
      <4>2. client_semaphore' \subseteq GdbThreads
        BY <3>2 DEF GdbWait, Wait, GdbThreads
      <4>3. QED
        BY <3>2, <4>1, <4>2 DEF GdbWait, Wait
    <3>3. CASE GdbRead
      <4>1. PICK n \in 1 .. Len(wire) :
              /\ packet_buffer' = packet_buffer \o SubSeq(wire, 1, n)
              /\ wire' = SubSeq(wire, n + 1, Len(wire))
        BY <3>3 DEF GdbRead
      <4>2. packet_buffer' \in Seq(Tokens) /\ wire' \in Seq(Tokens)
        BY <4>1, ReadTypes
      <4>3. Placed
        BY <3>3, MovesTypes DEF GdbRead, Moves, GdbPlaces
      <4>4. QED
        BY <3>3, <4>2, <4>3 DEF GdbRead
    <3>4. CASE GdbReadEnd \/ GdbDrop
      <4>1. Placed
        BY <3>4, MovesTypes DEF GdbReadEnd, GdbDrop, Moves, GdbPlaces
      <4>2. Kept
        BY <3>4, LoadTypes DEF GdbReadEnd, GdbDrop, Flags
      <4>3. flags' \subseteq Flags
        BY <3>4 DEF GdbReadEnd, GdbDrop, GdbThreads
      <4>4. QED
        BY <3>4, <4>1, <4>2, <4>3 DEF GdbReadEnd, GdbDrop
    <3>5. CASE GdbContinue
      BY <3>5, SignalTypes DEF GdbContinue, GdbThreads, GdbPlaces
    <3>6. CASE GdbStop \/ GdbAsk \/ GdbChange
      <4>1. Placed
        BY <3>6, MovesTypes DEF GdbStop, GdbAsk, GdbChange, Moves, GdbPlaces
      <4>2. QED
        BY <3>6, <4>1 DEF GdbStop, GdbAsk, GdbChange
    <3>7. CASE GdbAnswer \/ GdbDetach
      <4>1. Placed
        BY <3>7, MovesTypes DEF GdbAnswer, GdbDetach, Moves, GdbPlaces
      <4>2. replies' \in Seq({"ok", "stop"})
        <5>1. replies' = Append(replies, "ok")
          BY <3>7 DEF GdbAnswer, GdbDetach
        <5>2. QED
          BY <5>1, AppendProperties
      <4>3. flags' \subseteq Flags
        BY <3>7 DEF GdbAnswer, GdbDetach, GdbThreads
      <4>4. QED
        BY <3>7, <4>1, <4>2, <4>3 DEF GdbAnswer, GdbDetach
    <3>8. CASE GdbChanged
      <4>1. breakpoints' \subseteq Addresses
        <5>1. PICK i \in DOMAIN packet_buffer :
                breakpoints' = IF packet_buffer[i].kind = "set"
                               THEN breakpoints \cup {packet_buffer[i].address}
                               ELSE breakpoints \ {packet_buffer[i].address}
          BY <3>8 DEF GdbChanged
        <5>2. packet_buffer[i] \in Tokens
          BY ElementOfSeq, LenProperties
        <5>3. packet_buffer[i].address \in Addresses
          BY <5>2 DEF Tokens
        <5>4. QED
          BY <5>1, <5>3
      <4>2. replies' \in Seq({"ok", "stop"})
        BY <3>8, AppendProperties DEF GdbChanged
      <4>3. Placed
        BY <3>8, MovesTypes DEF GdbChanged, Moves, GdbPlaces
      <4>4. QED
        BY <3>8, <4>1, <4>2, <4>3 DEF GdbChanged
    <3>9. CASE GdbLeave
      <4>1. Placed
        BY <3>9, MovesTypes DEF GdbLeave, GdbPlaces
      <4>2. Kept
        BY <3>9, LoadTypes DEF GdbLeave, Flags
      <4>3. QED
        BY <3>9, <4>1, <4>2 DEF GdbLeave
    <3>10. CASE GdbKill
      <4>1. replies' \in Seq({"ok", "stop"})
        BY <3>10, AppendProperties DEF GdbKill
      <4>2. flags' \subseteq Flags
        BY <3>10 DEF GdbKill, GdbThreads
      <4>3. Placed /\ client_semaphore' \subseteq GdbThreads
        BY <3>10, SignalTypes DEF GdbKill, GdbThreads, GdbPlaces
      <4>4. QED
        BY <3>10, <4>1, <4>2, <4>3 DEF GdbKill
    <3>11. CASE GdbScan
      <4>1. Placed
        BY <3>11, MovesTypes DEF GdbScan, Moves, GdbPlaces
      <4>2. signals' \in BOOLEAN
        BY <3>11 DEF GdbScan
      <4>3. packet_buffer' \in Seq(Tokens)
        BY <3>11, RestTypes DEF GdbScan
      <4>4. QED
        BY <3>11, <4>1, <4>2, <4>3 DEF GdbScan
    <3>12. QED
      BY <2>2, <3>1, <3>2, <3>3, <3>4, <3>5, <3>6, <3>7, <3>8, <3>9, <3>10, <3>11 DEF GdbStep
  <2>3. CASE ClientStep
    <3>1. CASE Receive
      <4>1. replies' \in Seq({"ok", "stop"})
        BY <3>1, HeadTailProperties DEF Receive
      <4>2. QED
        BY <3>1, <4>1 DEF Receive
    <3>2. ASSUME NEW kind \in Async \cup Requests, NEW address \in Addresses,
                 NEW next \in {"asks", "running", "leaving"},
                 Send(Token(kind, address), next), interrupted' \in BOOLEAN
          PROVE  GdbTypeOK'
      <4>1. Token(kind, address) \in Tokens
        BY DEF Token, Tokens, Async, Requests
      <4>2. wire' \in Seq(Tokens)
        BY <3>2, <4>1, AppendProperties DEF Send
      <4>3. QED
        BY <3>2, <4>2 DEF Send
    <3>3. CASE Ask
      BY <3>2, <3>3, SessionAssumption DEF Ask, Plain, Requests
    <3>4. CASE Continue
      BY <3>2, <3>4, SessionAssumption DEF Continue, Plain, Requests
    <3>5. CASE Leave
      BY <3>2, <3>5, SessionAssumption DEF Leave, Plain, Requests
    <3>6. CASE Interrupt
      BY <3>2, <3>6, SessionAssumption DEF Interrupt, Plain, Async
    <3>7. CASE Close
      BY <3>7 DEF Close
    <3>8. QED
      BY <2>3, <3>1, <3>3, <3>4, <3>5, <3>6, <3>7 DEF ClientStep
  <2>4. CASE GdbSpurious
    <3>1. Placed
      BY <2>4, MovesTypes DEF GdbSpurious, GdbPlaces
    <3>2. woken' \in 0 .. GdbMaxSpurious
      BY <2>4, SessionAssumption DEF GdbSpurious
    <3>3. QED
      BY <2>4, <3>1, <3>2 DEF GdbSpurious
  <2>5. CASE UNCHANGED gdbVars
    BY <2>5 DEF gdbVars
  <2>6. QED
    BY <2>1, <2>2, <2>3, <2>4, <2>5 DEF GdbNext
<1>3. QED
  BY <1>1, <1>2, PTL DEF GdbSpec

-----------------------------------------------------------------------------
(* What is pending *)

LEMMA PendingTypes == ASSUME GdbTypeOK PROVE Pending \in Seq(Tokens)
<1>1. Rest \in Seq(Tokens) /\ packet_buffer \in Seq(Tokens) /\ wire \in Seq(Tokens)
  BY RestTypes DEF GdbTypeOK
<1>2. Pending = Rest \o wire \/ Pending = packet_buffer \o wire
  BY DEF Pending
<1>3. QED
  BY <1>1, <1>2, ConcatProperties

\* Most steps leave what is pending alone.
LEMMA PendingKept ==
  ASSUME packet_buffer' = packet_buffer, wire' = wire,
         at'["gdb"] = "scan" <=> at["gdb"] = "scan"
  PROVE  Pending' = Pending
<1>1. Rest' = Rest
  BY DEF Rest, IsPacket
<1>2. QED
  BY <1>1 DEF Pending

LEMMA FirstKept ==
  ASSUME packet_buffer' = packet_buffer, NEW kinds
  PROVE  First(kinds)' <=> First(kinds)
BY DEF First, IsPacket

LEMMA Sent ==
  ASSUME GdbTypeOK, NEW token \in Tokens, wire' = Append(wire, token),
         packet_buffer' = packet_buffer, at' = at
  PROVE  Pending' = Append(Pending, token)
<1> DEFINE q == IF at["gdb"] = "scan" THEN Rest ELSE packet_buffer
<1>1. Rest' = Rest
  BY DEF Rest, IsPacket
<1>2. Pending = q \o wire /\ Pending' = q \o Append(wire, token)
  BY <1>1 DEF Pending
<1>3. q \in Seq(Tokens) /\ wire \in Seq(Tokens)
  BY RestTypes DEF GdbTypeOK
<1> HIDE DEF q
<1>4. q \o Append(wire, token) = Append(q \o wire, token)
  BY <1>3, ConcatAppend
<1>5. QED
  BY <1>2, <1>4

\* A request that is handled is the one that is pending.
LEMMA FirstPending ==
  ASSUME GdbTypeOK, at["gdb"] # "scan", NEW some, some \cap Async = {}, First(some)
  PROVE  /\ ~NoRequest(Pending)
         /\ \A kinds : OneRequest(Pending, kinds) => kinds \cap some # {}
<1>1. PICK i \in DOMAIN packet_buffer : IsPacket(i) /\ packet_buffer[i].kind \in some
  BY DEF First
<1>2. packet_buffer \in Seq(Tokens) /\ wire \in Seq(Tokens)
  BY DEF GdbTypeOK
<1>3. Pending \in Seq(Tokens) /\ Pending = packet_buffer \o wire
  BY PendingTypes DEF Pending
<1>4. i \in 1 .. Len(Pending) /\ \A j \in 1 .. i : Pending[j] = packet_buffer[j]
  BY <1>1, <1>2, <1>3, RestAfter
<1>5. i \in DOMAIN Pending /\ Pending[i].kind \in some /\ Pending[i].kind \notin Async
  <2>1. i \in DOMAIN Pending
    BY <1>3, <1>4, LenProperties
  <2>2. i \in 1 .. i
    BY <1>3, <1>4, LenProperties
  <2>3. Pending[i] = packet_buffer[i]
    BY <1>4, <2>2
  <2>4. QED
    BY <1>1, <2>1, <2>3
<1>6. ~NoRequest(Pending)
  BY <1>5 DEF NoRequest
<1>7. ASSUME NEW kinds, OneRequest(Pending, kinds) PROVE kinds \cap some # {}
  <2>1. PICK n \in DOMAIN Pending : /\ Pending[n].kind \in kinds
                                    /\ \A j \in DOMAIN Pending : j # n => Pending[j].kind \in Async
    BY <1>7 DEF OneRequest
  <2>2. n = i
    BY <1>5, <2>1
  <2>3. QED
    BY <1>5, <2>1, <2>2
<1>8. QED
  BY <1>6, <1>7

\* Once handled it is gone, and nothing else is.
LEMMA Taken ==
  ASSUME GdbTypeOK, NEW some, First(some), at["gdb"] # "scan", at'["gdb"] = "scan",
         packet_buffer' = packet_buffer, wire' = wire
  PROVE  /\ some \cap Async = {} => \A kinds : OneRequest(Pending, kinds) => NoRequest(Pending')
         /\ some \subseteq Async => /\ NoRequest(Pending) => NoRequest(Pending')
                                    /\ \A kinds : kinds \cap Async = {} /\ OneRequest(Pending, kinds)
                                                    => OneRequest(Pending', kinds)
<1>1. PICK i \in DOMAIN packet_buffer : IsPacket(i) /\ packet_buffer[i].kind \in some
  BY DEF First
<1>2. packet_buffer \in Seq(Tokens) /\ wire \in Seq(Tokens)
  BY DEF GdbTypeOK
<1> DEFINE q == packet_buffer \o wire
           r == Rest \o wire
<1>3. /\ i \in 1 .. Len(q) /\ Len(r) = Len(q) - i
      /\ \A k \in 1 .. Len(r) : r[k] = q[k + i]
      /\ \A j \in 1 .. i : q[j] = packet_buffer[j]
      /\ Rest \in Seq(Tokens)
  BY <1>1, <1>2, RestAfter
<1>4. q \in Seq(Tokens) /\ r \in Seq(Tokens)
  BY <1>2, <1>3, ConcatProperties
<1>5. Pending = q /\ Pending' = r
  <2>1. Rest' = Rest
    BY DEF Rest, IsPacket
  <2>2. QED
    BY <2>1 DEF Pending
<1> HIDE DEF q, r
<1>6. Len(q) \in Nat /\ i \in Nat /\ i # 0 /\ i \in 0 .. Len(q)
  BY <1>3, <1>4, LenProperties
<1>7. /\ NoRequest(q) => NoRequest(r)
      /\ \A kinds : kinds \cap Async = {} /\ OneRequest(q, kinds)
                      /\ (\A j \in 1 .. i : q[j].kind \in Async)
                        => OneRequest(r, kinds)
      /\ \A kinds : OneRequest(q, kinds) /\ i # 0 /\ q[i].kind \notin Async
                      => q[i].kind \in kinds /\ NoRequest(r)
  BY <1>3, <1>4, <1>6, Dropped
<1>8. i \in 1 .. i /\ q[i].kind \in some
  BY <1>1, <1>3, <1>6
<1>9. ASSUME some \subseteq Async PROVE \A j \in 1 .. i : q[j].kind \in Async
  <2>1. \A j \in 1 .. i : j = i \/ j \in 1 .. i - 1
    BY <1>6
  <2>2. \A j \in 1 .. i - 1 : packet_buffer[j].kind = "break"
    BY <1>1 DEF IsPacket
  <2>3. QED
    BY <1>3, <1>8, <1>9, <2>1, <2>2 DEF Async
<1>10. ASSUME some \cap Async = {}, NEW kinds, OneRequest(q, kinds) PROVE NoRequest(r)
  BY <1>6, <1>7, <1>8, <1>10
<1>11. QED
  BY <1>5, <1>7, <1>9, <1>10

\* Control-Cs are dropped when there is no packet.
LEMMA NonePending ==
  ASSUME GdbTypeOK, ~ \E i \in DOMAIN packet_buffer : IsPacket(i), at["gdb"] # "scan",
         at'["gdb"] # "scan", packet_buffer' = <<>>, wire' = wire
  PROVE  /\ NoRequest(Pending) => NoRequest(Pending')
         /\ \A kinds : kinds \cap Async = {} /\ OneRequest(Pending, kinds)
                         => OneRequest(Pending', kinds)
<1> DEFINE q == packet_buffer \o wire
<1>1. packet_buffer \in Seq(Tokens) /\ wire \in Seq(Tokens)
  BY DEF GdbTypeOK
<1>2. \A j \in DOMAIN packet_buffer : packet_buffer[j].kind = "break"
  BY <1>1, FirstPacket
<1>3. /\ q \in Seq(Tokens) /\ Len(q) = Len(packet_buffer) + Len(wire)
      /\ \A k \in 1 .. Len(packet_buffer) + Len(wire) :
           q[k] = IF k <= Len(packet_buffer) THEN packet_buffer[k] ELSE wire[k - Len(packet_buffer)]
  BY <1>1, ConcatProperties
<1>4. Pending = q /\ Pending' = wire
  BY <1>1, ConcatEmptySeq DEF Pending
<1>5. /\ Len(packet_buffer) \in Nat /\ Len(wire) \in Nat
      /\ DOMAIN packet_buffer = 1 .. Len(packet_buffer)
  BY <1>1, LenProperties
<1> HIDE DEF q
<1>6. Len(packet_buffer) \in 0 .. Len(q) /\ Len(wire) = Len(q) - Len(packet_buffer)
  BY <1>3, <1>5
<1>7. \A k \in 1 .. Len(wire) : wire[k] = q[k + Len(packet_buffer)]
  <2> SUFFICES ASSUME NEW k \in 1 .. Len(wire) PROVE wire[k] = q[k + Len(packet_buffer)]
    OBVIOUS
  <2>1. /\ k + Len(packet_buffer) \in 1 .. Len(packet_buffer) + Len(wire)
        /\ ~(k + Len(packet_buffer) <= Len(packet_buffer))
        /\ (k + Len(packet_buffer)) - Len(packet_buffer) = k
    BY <1>5
  <2>2. QED
    BY <1>3, <2>1
<1>8. \A j \in 1 .. Len(packet_buffer) : q[j].kind \in Async
  <2>1. \A j \in 1 .. Len(packet_buffer) : q[j] = packet_buffer[j]
    BY <1>3, <1>5
  <2>2. QED
    BY <1>2, <1>5, <2>1 DEF Async
<1>9. QED
  BY <1>1, <1>3, <1>4, <1>6, <1>7, <1>8, Dropped

-----------------------------------------------------------------------------
(* The invariant *)

LEMMA Disjoint ==
  /\ AskKinds \cap Async = {} /\ {"continue"} \cap Async = {} /\ {"detach", "kill"} \cap Async = {}
  /\ Requests \cap Async = {} /\ {"ask"} \cap Async = {} /\ {"set", "clear"} \cap Async = {}
  /\ {"detach"} \cap Async = {} /\ {"kill"} \cap Async = {} /\ {"stop"} \subseteq Async
BY DEF AskKinds, Async, Requests

\* A step that changes nothing pending, no reply and nothing that the client
\* believes keeps the beliefs right when it does not let a stopped CPU run.
LEMMA Quiet ==
  ASSUME Beliefs, client' = client, replies' = replies,
         NoRequest(Pending) => NoRequest(Pending'),
         \A kinds : kinds \cap Async = {} /\ OneRequest(Pending, kinds) => OneRequest(Pending', kinds),
         Stopped => Stopped', Early => Early' \/ Stopped', NotTold => NotTold'
  PROVE  Beliefs'
<1>1. AsksInv'
  BY Disjoint DEF Beliefs, AsksInv
<1>2. StoppedInv'
  BY DEF Beliefs, StoppedInv
<1>3. RunningInv'
  BY Disjoint DEF Beliefs, RunningInv
<1>4. LeavingInv'
  BY Disjoint DEF Beliefs, LeavingInv
<1>5. LeftInv'
  BY Disjoint DEF Beliefs, LeftInv
<1>6. QED
  BY <1>1, <1>2, <1>3, <1>4, <1>5 DEF Beliefs

LEMMA CpuMoves ==
  ASSUME GdbTypeOK, NEW place, at' = [at EXCEPT !["cpu"] = place]
  PROVE  at'["cpu"] = place /\ at'["gdb"] = at["gdb"]
BY DEF GdbTypeOK, GdbThreads

LEMMA GdbMoves ==
  ASSUME GdbTypeOK, NEW place, at' = [at EXCEPT !["gdb"] = place]
  PROVE  at'["gdb"] = place /\ at'["cpu"] = at["cpu"]
BY DEF GdbTypeOK, GdbThreads

LEMMA CpuLoads ==
  ASSUME GdbTypeOK, NEW value, Load("cpu", value)
  PROVE  loaded'["cpu"] = value /\ loaded'["gdb"] = loaded["gdb"]
BY DEF GdbTypeOK, GdbThreads, Load

LEMMA GdbLoads ==
  ASSUME GdbTypeOK, NEW value, Load("gdb", value)
  PROVE  loaded'["gdb"] = value /\ loaded'["cpu"] = loaded["cpu"]
BY DEF GdbTypeOK, GdbThreads, Load

\* A step of the CPU's thread that is no reply.
LEMMA CpuQuiet ==
  ASSUME TwoThreads, Beliefs, at'["gdb"] = at["gdb"],
         wire' = wire, packet_buffer' = packet_buffer, client' = client, replies' = replies,
         Stopped => Stopped', NotTold => NotTold', loaded'["gdb"] = loaded["gdb"]
  PROVE  Beliefs' /\ Handled'
<1>1. Pending' = Pending
  BY PendingKept
<1>2. Early' <=> Early
  BY DEF Early
<1>3. Beliefs'
  BY <1>1, <1>2, Quiet
<1>4. Handled'
  BY FirstKept DEF TwoThreads, Handled
<1>5. QED
  BY <1>3, <1>4

LEMMA CpuKeeps ==
  ASSUME GdbTypeOK, SessionInv, CpuStep
  PROVE  SessionInv'
<1> DEFINE Placed == Waiters' /\ Places' /\ EarlyInv' /\ FirstOnce'
<1> USE DEF shared, debug, link, outside
<1>0. TwoThreads /\ Beliefs
  BY DEF SessionInv
<1>1. CASE \E address \in Addresses : CpuCycle(address)
  <2>1. at["cpu"] = "run" /\ at'["cpu"] = "search" /\ at'["gdb"] = at["gdb"]
    BY <1>1, CpuMoves DEF CpuCycle, Moves
  <2>2. Stopped => Stopped'
    BY <2>1 DEF Stopped
  <2>3. NotTold => NotTold'
    BY <1>1, <2>1 DEF NotTold, CpuCycle
  <2>4. Beliefs' /\ Handled'
    BY <1>0, <1>1, <2>1, <2>2, <2>3, CpuQuiet DEF CpuCycle
  <2>5. Placed
    BY <1>0, <1>1, <2>1 DEF CpuCycle, TwoThreads, Waiters, Places, EarlyInv, FirstOnce, Early, GdbThreads
  <2>6. QED
    BY <2>4, <2>5 DEF SessionInv, TwoThreads
<1>2. CASE CpuSearch
  <2>1. at["cpu"] = "search" /\ at'["cpu"] \in {"run", "handler"} /\ at'["gdb"] = at["gdb"]
    BY <1>2, CpuMoves DEF CpuSearch
  <2>2. Stopped => Stopped'
    BY <2>1 DEF Stopped
  <2>3. NotTold => NotTold'
    BY <1>2, <2>1 DEF NotTold, CpuSearch
  <2>4. Beliefs' /\ Handled'
    BY <1>0, <1>2, <2>1, <2>2, <2>3, CpuQuiet DEF CpuSearch
  <2>5. Placed
    BY <1>0, <1>2, <2>1 DEF CpuSearch, TwoThreads, Waiters, Places, EarlyInv, FirstOnce, Early, GdbThreads
  <2>6. QED
    BY <2>4, <2>5 DEF SessionInv, TwoThreads
<1>3. CASE CpuException
  <2>1. at["cpu"] = "run" /\ at'["cpu"] = "handler" /\ at'["gdb"] = at["gdb"]
    BY <1>3, CpuMoves DEF CpuException, Moves
  <2>2. Stopped => Stopped'
    BY <2>1 DEF Stopped
  <2>3. NotTold => NotTold'
    BY <1>3, <2>1 DEF NotTold, CpuException
  <2>4. Beliefs' /\ Handled'
    BY <1>0, <1>3, <2>1, <2>2, <2>3, CpuQuiet DEF CpuException
  <2>5. Placed
    BY <1>0, <1>3, <2>1 DEF CpuException, TwoThreads, Waiters, Places, EarlyInv, FirstOnce, Early, GdbThreads
  <2>6. QED
    BY <2>4, <2>5 DEF SessionInv, TwoThreads
<1>4. CASE CpuNotConnected
  <2>1. at["cpu"] = "handler" /\ at'["cpu"] = "run" /\ at'["gdb"] = at["gdb"]
    BY <1>4, CpuMoves DEF CpuNotConnected, Moves
  <2>2. Stopped => Stopped'
    BY <2>1 DEF Stopped
  <2>3. NotTold => NotTold'
    BY <1>4, <2>1 DEF NotTold, CpuNotConnected
  <2>4. Beliefs' /\ Handled'
    BY <1>0, <1>4, <2>1, <2>2, <2>3, CpuQuiet DEF CpuNotConnected
  <2>5. Placed
    BY <1>0, <1>4, <2>1 DEF CpuNotConnected, TwoThreads, Waiters, Places, EarlyInv, FirstOnce, Early, GdbThreads
  <2>6. QED
    BY <2>4, <2>5 DEF SessionInv, TwoThreads
<1>5. CASE CpuFirstStop
  <2>1. at["cpu"] = "handler" /\ at'["cpu"] = "first" /\ at'["gdb"] = at["gdb"]
    BY <1>5, CpuMoves DEF CpuFirstStop, Moves
  <2>2. loaded'["cpu"] = flags \ {"INITIAL"} /\ loaded'["gdb"] = loaded["gdb"]
    BY <1>5, CpuLoads DEF CpuFirstStop
  <2>3. Stopped => Stopped'
    BY <2>1 DEF Stopped
  <2>4. NotTold => NotTold'
    BY <1>5 DEF NotTold, CpuFirstStop
  <2>5. Beliefs' /\ Handled'
    BY <1>0, <1>5, <2>1, <2>2, <2>3, <2>4, CpuQuiet DEF CpuFirstStop
  <2>6. Placed
    BY <1>0, <1>5, <2>1, <2>2 DEF CpuFirstStop, TwoThreads, Waiters, Places, EarlyInv, FirstOnce, Early, GdbThreads
  <2>7. QED
    BY <2>5, <2>6 DEF SessionInv, TwoThreads
<1>6. CASE CpuLaterStop
  <2>1. at["cpu"] = "handler" /\ at'["cpu"] = "reply" /\ at'["gdb"] = at["gdb"]
    BY <1>6, CpuMoves DEF CpuLaterStop, Moves
  <2>2. Stopped => Stopped'
    BY <2>1 DEF Stopped
  <2>3. NotTold => NotTold'
    BY <1>6 DEF NotTold, CpuLaterStop
  <2>4. Beliefs' /\ Handled'
    BY <1>0, <1>6, <2>1, <2>2, <2>3, CpuQuiet DEF CpuLaterStop
  <2>5. Placed
    BY <1>0, <1>6, <2>1 DEF CpuLaterStop, TwoThreads, Waiters, Places, EarlyInv, FirstOnce, Early, GdbThreads
  <2>6. QED
    BY <2>4, <2>5 DEF SessionInv, TwoThreads
<1>7. CASE CpuRemoveInitial
  <2>1. at["cpu"] = "first" /\ at'["cpu"] = "signal" /\ at'["gdb"] = at["gdb"]
    BY <1>7, CpuMoves DEF CpuRemoveInitial, Moves
  <2>2. Stopped => Stopped'
    BY <2>1 DEF Stopped
  <2>3. NotTold => NotTold'
    BY <2>1 DEF NotTold
  <2>4. Beliefs' /\ Handled'
    BY <1>0, <1>7, <2>1, <2>2, <2>3, CpuQuiet DEF CpuRemoveInitial
  <2>5. Placed
    BY <1>0, <1>7, <2>1 DEF CpuRemoveInitial, TwoThreads, Waiters, Places, EarlyInv, FirstOnce, Early, GdbThreads
  <2>6. QED
    BY <2>4, <2>5 DEF SessionInv, TwoThreads
<1>8. CASE CpuSignalFirst
  <2>1. at["cpu"] = "signal" /\ "cpu" \notin client_semaphore
    BY <1>0, <1>8 DEF CpuSignalFirst, TwoThreads, Waiters, GdbThreads
  <2>2. /\ at'["cpu"] = "lock"
        /\ \/ at'["gdb"] = at["gdb"] /\ at["gdb"] # "waiting" /\ client_semaphore' = client_semaphore
           \/ at'["gdb"] = "woken" /\ at["gdb"] = "waiting" /\ client_semaphore' = {}
    <3>1. client_semaphore \subseteq GdbThreads /\ at \in [GdbThreads -> GdbPlaces]
      BY DEF GdbTypeOK
    <3>2. CASE client_semaphore = {} /\ at' = [at EXCEPT !["cpu"] = "lock"] /\ UNCHANGED client_semaphore
      BY <1>0, <3>1, <3>2 DEF TwoThreads, Waiters, GdbThreads
    <3>3. CASE \E u \in client_semaphore :
                 /\ at' = [at EXCEPT !["cpu"] = "lock", ![u] = "woken"]
                 /\ client_semaphore' = client_semaphore \ {u}
      <4>1. client_semaphore = {"gdb"}
        BY <2>1, <3>1, <3>3 DEF GdbThreads
      <4>2. at["gdb"] = "waiting"
        BY <1>0, <4>1 DEF TwoThreads, Waiters, GdbThreads
      <4>3. at' = [at EXCEPT !["cpu"] = "lock", !["gdb"] = "woken"] /\ client_semaphore' = {}
        BY <3>3, <4>1
      <4>4. at'["cpu"] = "lock" /\ at'["gdb"] = "woken"
        BY <3>1, <4>3 DEF GdbThreads
      <4>5. QED
        BY <4>2, <4>3, <4>4
    <3>4. QED
      BY <1>8, <3>2, <3>3 DEF CpuSignalFirst, Signal
  <2>3. Pending' = Pending
    BY <1>8, <2>2, PendingKept DEF CpuSignalFirst
  <2>4. Stopped' /\ ~NotTold
    BY <2>1, <2>2 DEF Stopped, NotTold
  <2>5. Beliefs'
    BY <1>0, <1>8, <2>3, <2>4, Quiet DEF CpuSignalFirst
  <2>6. Handled'
    BY <1>0, <1>8, <2>2, FirstKept DEF CpuSignalFirst, TwoThreads, Handled
  <2>7. Placed
    BY <1>0, <1>8, <2>1, <2>2 DEF CpuSignalFirst, TwoThreads, Waiters, Places, EarlyInv, FirstOnce, Early, GdbThreads
  <2>8. QED
    BY <2>5, <2>6, <2>7 DEF SessionInv, TwoThreads
<1>9. CASE CpuReply
  <2>1. at["cpu"] = "reply" /\ at'["cpu"] = "lock" /\ at'["gdb"] = at["gdb"]
    BY <1>9, CpuMoves DEF CpuReply, Moves
  <2>2. ~Stopped /\ ~NotTold /\ ~Early /\ Stopped'
    BY <1>0, <2>1 DEF Stopped, NotTold, TwoThreads, EarlyInv
  <2>3. Pending' = Pending
    BY <1>9, <2>1, PendingKept DEF CpuReply
  <2>4. replies = <<>> => replies' = <<"stop">>
    BY <1>9 DEF CpuReply
  <2>5. client \in {"running", "left"} /\ NoRequest(Pending) /\ (client = "running" => replies = <<>>)
    BY <1>0, <2>2 DEF Beliefs, AsksInv, StoppedInv, RunningInv, LeavingInv, LeftInv, GdbTypeOK
  <2>6. Beliefs'
    BY <1>9, <2>2, <2>3, <2>4, <2>5 DEF CpuReply, Beliefs, AsksInv, StoppedInv, RunningInv, LeavingInv, LeftInv
  <2>7. Handled'
    BY <1>0, <1>9, <2>1, FirstKept DEF CpuReply, TwoThreads, Handled
  <2>8. Placed
    BY <1>0, <1>9, <2>1, <2>2 DEF CpuReply, TwoThreads, Waiters, Places, EarlyInv, FirstOnce, Early, GdbThreads
  <2>9. QED
    BY <2>6, <2>7, <2>8 DEF SessionInv, TwoThreads
<1>10. CASE CpuLock
  <2>1. at["cpu"] = "lock" /\ at'["cpu"] = "pause" /\ at'["gdb"] = at["gdb"]
    BY <1>10, CpuMoves DEF CpuLock, Moves
  <2>2. loaded'["cpu"] = flags \cup {"PAUSED"} /\ loaded'["gdb"] = loaded["gdb"]
    BY <1>10, CpuLoads DEF CpuLock
  <2>3. Stopped'
    BY <2>1 DEF Stopped
  <2>4. ~NotTold
    BY <2>1 DEF NotTold
  <2>5. Beliefs' /\ Handled'
    BY <1>0, <1>10, <2>1, <2>2, <2>3, <2>4, CpuQuiet DEF CpuLock
  <2>6. Placed
    BY <1>0, <1>10, <2>1, <2>2 DEF CpuLock, TwoThreads, Waiters, Places, EarlyInv, FirstOnce, Early, GdbThreads
  <2>7. QED
    BY <2>5, <2>6 DEF SessionInv, TwoThreads
<1>11. CASE CpuPause
  <2>1. at["cpu"] = "pause" /\ at'["cpu"] = "waiting" /\ at'["gdb"] = at["gdb"]
    BY <1>11, CpuMoves DEF CpuPause, Wait, Moves
  <2>2. client_semaphore' = client_semaphore \cup {"cpu"}
    BY <1>11 DEF CpuPause, Wait
  <2>3. Stopped'
    BY <2>1 DEF Stopped
  <2>4. ~NotTold
    BY <2>1 DEF NotTold
  <2>5. Beliefs' /\ Handled'
    BY <1>0, <1>11, <2>1, <2>3, <2>4, CpuQuiet DEF CpuPause
  <2>6. Placed
    BY <1>0, <1>11, <2>1, <2>2 DEF CpuPause, TwoThreads, Waiters, Places, EarlyInv, FirstOnce, Early, GdbThreads
  <2>7. QED
    BY <2>5, <2>6 DEF SessionInv, TwoThreads
<1>12. CASE CpuWoken
  <2>1. at["cpu"] = "woken" /\ at'["cpu"] = "resume" /\ at'["gdb"] = at["gdb"]
    BY <1>12, CpuMoves DEF CpuWoken, Moves
  <2>2. loaded'["cpu"] = flags \ {"PAUSED"} /\ loaded'["gdb"] = loaded["gdb"]
    BY <1>12, CpuLoads DEF CpuWoken
  <2>3. Stopped => Stopped'
    BY <2>1 DEF Stopped
  <2>4. NotTold => NotTold'
    BY <1>12, <2>1, <2>2 DEF NotTold, CpuWoken
  <2>5. Beliefs' /\ Handled'
    BY <1>0, <1>12, <2>1, <2>2, <2>3, <2>4, CpuQuiet DEF CpuWoken
  <2>6. Placed
    BY <1>0, <1>12, <2>1, <2>2 DEF CpuWoken, TwoThreads, Waiters, Places, EarlyInv, FirstOnce, Early, GdbThreads
  <2>7. QED
    BY <2>5, <2>6 DEF SessionInv, TwoThreads
<1>13. CASE CpuResume
  <2>1. at["cpu"] = "resume" /\ at'["cpu"] = "run" /\ at'["gdb"] = at["gdb"]
    BY <1>13, CpuMoves DEF CpuResume, Moves
  <2>2. Stopped => Stopped'
    BY <2>1 DEF Stopped
  <2>3. NotTold => NotTold'
    BY <1>13, <2>1 DEF NotTold, CpuResume
  <2>4. Beliefs' /\ Handled'
    BY <1>0, <1>13, <2>1, <2>2, <2>3, CpuQuiet DEF CpuResume
  <2>5. Placed
    BY <1>0, <1>13, <2>1 DEF CpuResume, TwoThreads, Waiters, Places, EarlyInv, FirstOnce, Early, GdbThreads
  <2>6. QED
    BY <2>4, <2>5 DEF SessionInv, TwoThreads
<1>14. QED
  BY <1>1, <1>2, <1>3, <1>4, <1>5, <1>6, <1>7, <1>8, <1>9, <1>10, <1>11, <1>12, <1>13 DEF CpuStep

\* A step of the debugger's thread that handles nothing.
LEMMA GdbQuiet ==
  ASSUME Beliefs, at'["cpu"] = at["cpu"], at["gdb"] # "scan", at'["gdb"] # "scan",
         wire' = wire, packet_buffer' = packet_buffer, client' = client, replies' = replies,
         Early => Early', NotTold => NotTold'
  PROVE  Beliefs'
<1>1. Pending' = Pending
  BY PendingKept
<1>2. Stopped' <=> Stopped
  BY DEF Stopped
<1>3. QED
  BY <1>1, <1>2, Quiet

\* A request that is handled is one the client may have sent.
LEMMA GdbHandles ==
  ASSUME GdbTypeOK, Beliefs, NEW some, First(some), some \cap Async = {},
         at["gdb"] # "scan", at'["gdb"] = "scan", wire' = wire, packet_buffer' = packet_buffer
  PROVE  /\ NoRequest(Pending')
         /\ client \in {"asks", "running", "leaving", "left"}
         /\ client = "asks" => replies = <<>> /\ AskKinds \cap some # {} /\ (Stopped \/ Early)
         /\ client = "running" => replies = <<>> /\ {"continue"} \cap some # {} /\ Stopped
         /\ client = "leaving" => replies = <<>> /\ {"detach", "kill"} \cap some # {} /\ Stopped
<1>1. /\ ~NoRequest(Pending)
      /\ \A kinds : OneRequest(Pending, kinds) => kinds \cap some # {}
      /\ \A kinds : OneRequest(Pending, kinds) => NoRequest(Pending')
  BY FirstPending, Taken
<1>2. client \in {"asks", "running", "leaving", "left"}
  BY <1>1 DEF GdbTypeOK, Beliefs, StoppedInv
<1>3. \E kinds : OneRequest(Pending, kinds)
  BY <1>1, <1>2 DEF Beliefs, AsksInv, RunningInv, LeavingInv, LeftInv
<1>4. client = "asks" => replies = <<>> /\ AskKinds \cap some # {} /\ (Stopped \/ Early)
  BY <1>1 DEF Beliefs, AsksInv
<1>5. client = "running" => replies = <<>> /\ {"continue"} \cap some # {} /\ Stopped
  BY <1>1 DEF Beliefs, RunningInv
<1>6. client = "leaving" => replies = <<>> /\ {"detach", "kill"} \cap some # {} /\ Stopped
  BY <1>1 DEF Beliefs, LeavingInv
<1>7. QED
  BY <1>1, <1>2, <1>3, <1>4, <1>5, <1>6

\* A signal of the debugger's thread.
LEMMA GdbSignals ==
  ASSUME GdbTypeOK, TwoThreads, at["gdb"] \in {"parse", "kill"}, Signal("gdb", "scan")
  PROVE  /\ at'["gdb"] = "scan"
         /\ \/ at'["cpu"] = at["cpu"] /\ at["cpu"] # "waiting" /\ client_semaphore' = client_semaphore
            \/ at'["cpu"] = "woken" /\ at["cpu"] = "waiting" /\ client_semaphore' = {}
<1>1. client_semaphore \subseteq GdbThreads /\ at \in [GdbThreads -> GdbPlaces]
  BY DEF GdbTypeOK
<1>2. "gdb" \notin client_semaphore
  BY DEF TwoThreads, Waiters, GdbThreads
<1>3. CASE client_semaphore = {} /\ at' = [at EXCEPT !["gdb"] = "scan"] /\ UNCHANGED client_semaphore
  BY <1>1, <1>3 DEF TwoThreads, Waiters, GdbThreads
<1>4. CASE \E u \in client_semaphore :
             /\ at' = [at EXCEPT !["gdb"] = "scan", ![u] = "woken"]
             /\ client_semaphore' = client_semaphore \ {u}
  <2>1. client_semaphore = {"cpu"}
    BY <1>1, <1>2, <1>4 DEF GdbThreads
  <2>2. at["cpu"] = "waiting"
    BY <2>1 DEF TwoThreads, Waiters, GdbThreads
  <2>3. at' = [at EXCEPT !["gdb"] = "scan", !["cpu"] = "woken"] /\ client_semaphore' = {}
    BY <1>4, <2>1
  <2>4. at'["gdb"] = "scan" /\ at'["cpu"] = "woken"
    BY <1>1, <2>3 DEF GdbThreads
  <2>5. QED
    BY <2>2, <2>3, <2>4
<1>5. QED
  BY <1>3, <1>4 DEF Signal

LEMMA GdbKeeps ==
  ASSUME GdbTypeOK, SessionInv, GdbStep
  PROVE  SessionInv'
<1> DEFINE Placed == Waiters' /\ Places' /\ EarlyInv' /\ FirstOnce'
<1> USE DEF shared, debug, link, outside
<1>0. TwoThreads /\ Beliefs
  BY DEF SessionInv
<1>1. CASE GdbLock
  <2>1. at["gdb"] = "start" /\ at'["gdb"] = "test" /\ at'["cpu"] = at["cpu"]
    BY <1>1, GdbMoves DEF GdbLock, Moves
  <2>2. Early => Early'
    BY <2>1 DEF Early
  <2>3. NotTold => NotTold'
    BY <1>0, <1>1, <2>1 DEF GdbLock, NotTold, TwoThreads, FirstOnce
  <2>4. Beliefs'
    BY <1>0, <1>1, <2>1, <2>2, <2>3, GdbQuiet DEF GdbLock
  <2>5. Handled'
    BY <2>1 DEF Handled
  <2>6. Placed
    BY <1>0, <1>1, <2>1 DEF GdbLock, TwoThreads, Waiters, Places, EarlyInv, FirstOnce, Early, GdbThreads
  <2>7. QED
    BY <2>4, <2>5, <2>6 DEF SessionInv, TwoThreads
<1>2. CASE GdbTest
  <2>1. at["gdb"] = "test" /\ at'["gdb"] \in {"wait", "relock"} /\ at'["cpu"] = at["cpu"]
    BY <1>2, GdbMoves DEF GdbTest, Moves
  <2>2. Early => Early'
    BY <2>1 DEF Early
  <2>3. NotTold => NotTold'
    BY <1>0, <1>2, <2>1 DEF GdbTest, NotTold, TwoThreads, FirstOnce
  <2>4. Beliefs'
    BY <1>0, <1>2, <2>1, <2>2, <2>3, GdbQuiet DEF GdbTest
  <2>5. Handled'
    BY <2>1 DEF Handled
  <2>6. Placed
    BY <1>0, <1>2, <2>1 DEF GdbTest, TwoThreads, Waiters, Places, EarlyInv, FirstOnce, Early, GdbThreads
  <2>7. QED
    BY <2>4, <2>5, <2>6 DEF SessionInv, TwoThreads
<1>3. CASE GdbWait
  <2>1. at["gdb"] = "wait" /\ at'["gdb"] = "waiting" /\ at'["cpu"] = at["cpu"]
    BY <1>3, GdbMoves DEF GdbWait, Wait, Moves
  <2>2. client_semaphore' = client_semaphore \cup {"gdb"}
    BY <1>3 DEF GdbWait, Wait
  <2>3. Early => Early'
    BY <2>1, <2>2 DEF Early
  <2>4. NotTold => NotTold'
    BY <1>0, <1>3, <2>1, <2>2 DEF GdbWait, NotTold, TwoThreads, FirstOnce, Wait
  <2>5. Beliefs'
    BY <1>0, <1>3, <2>1, <2>2, <2>3, <2>4, GdbQuiet DEF GdbWait, Wait
  <2>6. Handled'
    BY <2>1 DEF Handled
  <2>7. Placed
    BY <1>0, <1>3, <2>1, <2>2 DEF GdbWait, TwoThreads, Waiters, Places, EarlyInv, FirstOnce, Early, GdbThreads, Wait
  <2>8. QED
    BY <2>5, <2>6, <2>7 DEF SessionInv, TwoThreads
<1>4. CASE GdbWoken
  <2>1. at["gdb"] = "woken" /\ at'["gdb"] = "loop" /\ at'["cpu"] = at["cpu"]
    BY <1>4, GdbMoves DEF GdbWoken, Moves
  <2>2. Early => Early'
    BY <2>1 DEF Early
  <2>3. NotTold => NotTold'
    BY <1>0, <1>4, <2>1 DEF GdbWoken, NotTold, TwoThreads, FirstOnce
  <2>4. Beliefs'
    BY <1>0, <1>4, <2>1, <2>2, <2>3, GdbQuiet DEF GdbWoken
  <2>5. Handled'
    BY <2>1 DEF Handled
  <2>6. Placed
    BY <1>0, <1>4, <2>1 DEF GdbWoken, TwoThreads, Waiters, Places, EarlyInv, FirstOnce, Early, GdbThreads
  <2>7. QED
    BY <2>4, <2>5, <2>6 DEF SessionInv, TwoThreads
<1>5. CASE GdbLoop
  <2>1. at["gdb"] = "loop" /\ at'["gdb"] \in {"read", "done"} /\ at'["cpu"] = at["cpu"]
    BY <1>5, GdbMoves DEF GdbLoop, Moves
  <2>2. Early => Early'
    BY <2>1 DEF Early
  <2>3. NotTold => NotTold'
    BY <1>0, <1>5, <2>1 DEF GdbLoop, NotTold, TwoThreads, FirstOnce
  <2>4. Beliefs'
    BY <1>0, <1>5, <2>1, <2>2, <2>3, GdbQuiet DEF GdbLoop
  <2>5. Handled'
    BY <2>1 DEF Handled
  <2>6. Placed
    BY <1>0, <1>5, <2>1 DEF GdbLoop, TwoThreads, Waiters, Places, EarlyInv, FirstOnce, Early, GdbThreads
  <2>7. QED
    BY <2>4, <2>5, <2>6 DEF SessionInv, TwoThreads
<1>6. CASE GdbReadEnd
  <2>1. at["gdb"] = "read" /\ at'["gdb"] = "drop" /\ at'["cpu"] = at["cpu"]
    BY <1>6, GdbMoves DEF GdbReadEnd, Moves
  <2>2. loaded'["gdb"] = flags \ {"CONNECTED"} /\ loaded'["cpu"] = loaded["cpu"]
    BY <1>6, GdbLoads DEF GdbReadEnd
  <2>3. Early => Early'
    BY <2>1, <2>2 DEF Early
  <2>4. NotTold => NotTold'
    BY <1>0, <1>6, <2>1, <2>2 DEF GdbReadEnd, NotTold, TwoThreads, FirstOnce
  <2>5. Beliefs'
    BY <1>0, <1>6, <2>1, <2>2, <2>3, <2>4, GdbQuiet DEF GdbReadEnd
  <2>6. Handled'
    BY <2>1 DEF Handled
  <2>7. Placed
    BY <1>0, <1>6, <2>1, <2>2 DEF GdbReadEnd, TwoThreads, Waiters, Places, EarlyInv, FirstOnce, Early, GdbThreads
  <2>8. QED
    BY <2>5, <2>6, <2>7 DEF SessionInv, TwoThreads
<1>7. CASE GdbDrop
  <2>1. at["gdb"] = "drop" /\ at'["gdb"] = "done" /\ at'["cpu"] = at["cpu"]
    BY <1>7, GdbMoves DEF GdbDrop, Moves
  <2>2. Early => Early'
    BY <2>1 DEF Early
  <2>3. NotTold => NotTold'
    BY <1>0, <1>7, <2>1 DEF GdbDrop, NotTold, TwoThreads, FirstOnce
  <2>4. Beliefs'
    BY <1>0, <1>7, <2>1, <2>2, <2>3, GdbQuiet DEF GdbDrop
  <2>5. Handled'
    BY <2>1 DEF Handled
  <2>6. Placed
    BY <1>0, <1>7, <2>1 DEF GdbDrop, TwoThreads, Waiters, Places, EarlyInv, FirstOnce, Early, GdbThreads
  <2>7. QED
    BY <2>4, <2>5, <2>6 DEF SessionInv, TwoThreads
<1>8. CASE GdbAsk
  <2>1. at["gdb"] = "parse" /\ at'["gdb"] = "answer" /\ at'["cpu"] = at["cpu"]
    BY <1>8, GdbMoves DEF GdbAsk, Moves
  <2>2. Early => Early'
    BY <2>1 DEF Early
  <2>3. NotTold => NotTold'
    BY <1>0, <1>8, <2>1 DEF GdbAsk, NotTold, TwoThreads, FirstOnce
  <2>4. Beliefs'
    BY <1>0, <1>8, <2>1, <2>2, <2>3, GdbQuiet DEF GdbAsk
  <2>5. Handled'
    BY <2>1, <1>8, FirstKept DEF GdbAsk, Handled, AtPacket, First
  <2>6. Placed
    BY <1>0, <1>8, <2>1 DEF GdbAsk, TwoThreads, Waiters, Places, EarlyInv, FirstOnce, Early, GdbThreads
  <2>7. QED
    BY <2>4, <2>5, <2>6 DEF SessionInv, TwoThreads
<1>9. CASE GdbChange
  <2>1. at["gdb"] = "parse" /\ at'["gdb"] = "table" /\ at'["cpu"] = at["cpu"]
    BY <1>9, GdbMoves DEF GdbChange, Moves
  <2>2. Early => Early'
    BY <2>1 DEF Early
  <2>3. NotTold => NotTold'
    BY <1>0, <1>9, <2>1 DEF GdbChange, NotTold, TwoThreads, FirstOnce
  <2>4. Beliefs'
    BY <1>0, <1>9, <2>1, <2>2, <2>3, GdbQuiet DEF GdbChange
  <2>5. Handled'
    BY <2>1, <1>9, FirstKept DEF GdbChange, Handled, AtPacket, First
  <2>6. Placed
    BY <1>0, <1>9, <2>1 DEF GdbChange, TwoThreads, Waiters, Places, EarlyInv, FirstOnce, Early, GdbThreads
  <2>7. QED
    BY <2>4, <2>5, <2>6 DEF SessionInv, TwoThreads
<1>10. CASE GdbLeave
  <2>1. at["gdb"] = "parse" /\ at'["gdb"] \in {"detach", "kill"} /\ at'["cpu"] = at["cpu"]
    BY <1>10, GdbMoves DEF GdbLeave, AtPacket
  <2>2. loaded'["gdb"] \in {flags \ {"CONNECTED"}, flags \ {"CONNECTED", "PAUSED"}} /\ loaded'["cpu"] = loaded["cpu"]
    BY <1>10, GdbLoads DEF GdbLeave
  <2>3. Early => Early'
    BY <2>1, <2>2 DEF Early
  <2>4. NotTold => NotTold'
    BY <1>0, <1>10, <2>1, <2>2 DEF GdbLeave, NotTold, TwoThreads, FirstOnce
  <2>5. Beliefs'
    BY <1>0, <1>10, <2>1, <2>2, <2>3, <2>4, GdbQuiet DEF GdbLeave
  <2>6. Handled'
    <3>1. \/ at'["gdb"] = "detach" /\ First({"detach"})
          \/ at'["gdb"] = "kill" /\ First({"kill"})
      BY <1>10, GdbMoves DEF GdbLeave, AtPacket, First
    <3>2. QED
      BY <1>10, <3>1, FirstKept DEF GdbLeave, Handled
  <2>7. Placed
    BY <1>0, <1>10, <2>1, <2>2 DEF GdbLeave, TwoThreads, Waiters, Places, EarlyInv, FirstOnce, Early, GdbThreads
  <2>8. QED
    BY <2>5, <2>6, <2>7 DEF SessionInv, TwoThreads
<1>11. CASE GdbRead
  <2>1. at["gdb"] = "read" /\ at'["gdb"] = "parse" /\ at'["cpu"] = at["cpu"]
    BY <1>11, GdbMoves DEF GdbRead, Moves
  <2>2. Pending' = Pending
    <3>1. PICK n \in 1 .. Len(wire) :
            /\ packet_buffer' = packet_buffer \o SubSeq(wire, 1, n)
            /\ wire' = SubSeq(wire, n + 1, Len(wire))
      BY <1>11 DEF GdbRead
    <3>2. packet_buffer \in Seq(Tokens) /\ wire \in Seq(Tokens)
      BY DEF GdbTypeOK
    <3>3. packet_buffer' \o wire' = packet_buffer \o wire
      BY <3>1, <3>2, ReadTypes
    <3>4. QED
      BY <2>1, <3>3 DEF Pending
  <2>3. (Early' <=> Early) /\ (Stopped' <=> Stopped)
    BY <2>1 DEF Early, Stopped
  <2>4. NotTold => NotTold'
    BY <1>11, <2>1 DEF GdbRead, NotTold
  <2>5. Beliefs'
    BY <1>0, <1>11, <2>2, <2>3, <2>4, Quiet DEF GdbRead
  <2>6. Handled'
    BY <2>1 DEF Handled
  <2>7. Placed
    BY <1>0, <1>11, <2>1 DEF GdbRead, TwoThreads, Waiters, Places, EarlyInv, FirstOnce, Early, GdbThreads
  <2>8. QED
    BY <2>5, <2>6, <2>7 DEF SessionInv, TwoThreads
<1>12. CASE GdbContinue
  <2>1. at["gdb"] = "parse" /\ First({"continue"})
    BY <1>12 DEF GdbContinue, AtPacket, First
  <2>2. /\ at'["gdb"] = "scan"
        /\ \/ at'["cpu"] = at["cpu"] /\ at["cpu"] # "waiting" /\ client_semaphore' = client_semaphore
           \/ at'["cpu"] = "woken" /\ at["cpu"] = "waiting" /\ client_semaphore' = {}
    BY <1>0, <1>12, <2>1, GdbSignals DEF GdbContinue
  <2>3. /\ NoRequest(Pending')
        /\ client \in {"asks", "running", "leaving", "left"}
        /\ client # "asks" /\ client # "leaving"
        /\ client = "running" => replies = <<>>
    <3>1. AskKinds \cap {"continue"} = {} /\ {"detach", "kill"} \cap {"continue"} = {}
      BY DEF AskKinds
    <3>2. QED
      BY <1>0, <1>12, <2>1, <2>2, <3>1, GdbHandles, Disjoint DEF GdbContinue
  <2>4. Beliefs'
    BY <1>12, <2>3 DEF GdbContinue, Beliefs, AsksInv, StoppedInv, RunningInv, LeavingInv, LeftInv
  <2>5. Handled'
    BY <2>2 DEF Handled
  <2>6. Placed
    BY <1>0, <1>12, <2>1, <2>2 DEF GdbContinue, TwoThreads, Waiters, Places, EarlyInv, FirstOnce, Early, GdbThreads
  <2>7. QED
    BY <2>4, <2>5, <2>6 DEF SessionInv, TwoThreads
<1>13. CASE GdbStop
  <2>1. at["gdb"] = "parse" /\ at'["gdb"] = "scan" /\ at'["cpu"] = at["cpu"] /\ First({"stop"})
    BY <1>13, GdbMoves DEF GdbStop, Moves, AtPacket, First
  <2>2. /\ NoRequest(Pending) => NoRequest(Pending')
        /\ \A kinds : kinds \cap Async = {} /\ OneRequest(Pending, kinds) => OneRequest(Pending', kinds)
    BY <1>13, <2>1, Taken, Disjoint DEF GdbStop
  <2>3. (Early' <=> Early) /\ (Stopped' <=> Stopped)
    BY <2>1 DEF Early, Stopped
  <2>4. NotTold => NotTold'
    BY <1>13, <2>1 DEF GdbStop, NotTold
  <2>5. Beliefs'
    BY <1>0, <1>13, <2>2, <2>3, <2>4, Quiet DEF GdbStop
  <2>6. Handled'
    BY <2>1 DEF Handled
  <2>7. Placed
    BY <1>0, <1>13, <2>1 DEF GdbStop, TwoThreads, Waiters, Places, EarlyInv, FirstOnce, Early, GdbThreads
  <2>8. QED
    BY <2>5, <2>6, <2>7 DEF SessionInv, TwoThreads
<1>14. CASE GdbAnswer
  <2>1. at["gdb"] = "answer" /\ at'["gdb"] = "scan" /\ at'["cpu"] = at["cpu"]
    BY <1>14, GdbMoves DEF GdbAnswer, Moves
  <2>2. First({"ask"}) /\ ~Early
    BY <1>0, <2>1 DEF TwoThreads, Handled, Early
  <2>3. /\ NoRequest(Pending')
        /\ client \in {"asks", "left"}
        /\ client = "asks" => replies = <<>> /\ Stopped
    <3>1. {"continue"} \cap {"ask"} = {} /\ {"detach", "kill"} \cap {"ask"} = {}
      OBVIOUS
    <3>2. QED
      BY <1>0, <1>14, <2>1, <2>2, <3>1, GdbHandles, Disjoint DEF GdbAnswer
  <2>4. replies = <<>> => replies' = <<"ok">>
    BY <1>14 DEF GdbAnswer
  <2>5. Beliefs'
    BY <1>14, <2>1, <2>3, <2>4
       DEF GdbAnswer, Stopped, Beliefs, AsksInv, StoppedInv, RunningInv, LeavingInv, LeftInv
  <2>6. Handled'
    BY <2>1 DEF Handled
  <2>7. Placed
    BY <1>0, <1>14, <2>1 DEF GdbAnswer, TwoThreads, Waiters, Places, EarlyInv, FirstOnce, Early, GdbThreads
  <2>8. QED
    BY <2>5, <2>6, <2>7 DEF SessionInv, TwoThreads
<1>15. CASE GdbChanged
  <2>1. at["gdb"] = "table" /\ at'["gdb"] = "scan" /\ at'["cpu"] = at["cpu"]
    BY <1>15, GdbMoves DEF GdbChanged, Moves
  <2>2. First({"set", "clear"}) /\ ~Early
    BY <1>0, <2>1 DEF TwoThreads, Handled, Early
  <2>3. /\ NoRequest(Pending')
        /\ client \in {"asks", "left"}
        /\ client = "asks" => replies = <<>> /\ Stopped
    <3>1. {"continue"} \cap {"set", "clear"} = {} /\ {"detach", "kill"} \cap {"set", "clear"} = {}
      OBVIOUS
    <3>2. QED
      BY <1>0, <1>15, <2>1, <2>2, <3>1, GdbHandles, Disjoint DEF GdbChanged
  <2>4. replies = <<>> => replies' = <<"ok">>
    BY <1>15 DEF GdbChanged
  <2>5. Beliefs'
    BY <1>15, <2>1, <2>3, <2>4
       DEF GdbChanged, Stopped, Beliefs, AsksInv, StoppedInv, RunningInv, LeavingInv, LeftInv
  <2>6. Handled'
    BY <2>1 DEF Handled
  <2>7. Placed
    BY <1>0, <1>15, <2>1 DEF GdbChanged, TwoThreads, Waiters, Places, EarlyInv, FirstOnce, Early, GdbThreads
  <2>8. QED
    BY <2>5, <2>6, <2>7 DEF SessionInv, TwoThreads
<1>16. CASE GdbDetach
  <2>1. /\ at["gdb"] = "detach" /\ at'["gdb"] = "scan"
        /\ at'["cpu"] = at["cpu"] /\ client_semaphore' = client_semaphore
    BY <1>16, GdbMoves DEF GdbDetach, Moves
  <2>2. First({"detach"}) /\ ~Early
    BY <1>0, <2>1 DEF TwoThreads, Handled, Early
  <2>3. /\ NoRequest(Pending')
        /\ client \in {"leaving", "left"}
        /\ client = "leaving" => replies = <<>> /\ Stopped
    <3>1. {"continue"} \cap {"detach"} = {} /\ AskKinds \cap {"detach"} = {}
      BY DEF AskKinds
    <3>2. QED
      BY <1>0, <1>16, <2>1, <2>2, <3>1, GdbHandles, Disjoint DEF GdbDetach
  <2>4. replies = <<>> => replies' = <<"ok">>
    BY <1>16 DEF GdbDetach
  <2>5. Stopped => Stopped' \/ NotTold'
    BY <1>0, <1>16, <2>1 DEF GdbDetach, Stopped, NotTold, TwoThreads, FirstOnce
  <2>6. Beliefs'
    BY <1>16, <2>3, <2>4, <2>5
       DEF GdbDetach, Beliefs, AsksInv, StoppedInv, RunningInv, LeavingInv, LeftInv
  <2>7. Handled'
    BY <2>1 DEF Handled
  <2>8. Placed
    BY <1>0, <1>16, <2>1 DEF GdbDetach, TwoThreads, Waiters, Places, EarlyInv, FirstOnce, Early, GdbThreads
  <2>9. QED
    BY <2>6, <2>7, <2>8 DEF SessionInv, TwoThreads
<1>17. CASE GdbKill
  <2>1. /\ at["gdb"] = "kill" /\ at'["gdb"] = "scan"
        /\ \/ at'["cpu"] = at["cpu"] /\ at["cpu"] # "waiting" /\ client_semaphore' = client_semaphore
           \/ at'["cpu"] = "woken" /\ at["cpu"] = "waiting" /\ client_semaphore' = {}
    BY <1>0, <1>17, GdbSignals DEF GdbKill
  <2>2. First({"kill"}) /\ ~Early
    BY <1>0, <2>1 DEF TwoThreads, Handled, Early
  <2>3. /\ NoRequest(Pending')
        /\ client \in {"leaving", "left"}
        /\ client = "leaving" => replies = <<>> /\ Stopped
    <3>1. {"continue"} \cap {"kill"} = {} /\ AskKinds \cap {"kill"} = {}
      BY DEF AskKinds
    <3>2. QED
      BY <1>0, <1>17, <2>1, <2>2, <3>1, GdbHandles, Disjoint DEF GdbKill
  <2>4. replies = <<>> => replies' = <<"ok">>
    BY <1>17 DEF GdbKill
  <2>5. Stopped => Stopped' \/ NotTold'
    BY <1>0, <1>17, <2>1 DEF GdbKill, Stopped, NotTold, TwoThreads, FirstOnce
  <2>6. Beliefs'
    BY <1>17, <2>3, <2>4, <2>5
       DEF GdbKill, Beliefs, AsksInv, StoppedInv, RunningInv, LeavingInv, LeftInv
  <2>7. Handled'
    BY <2>1 DEF Handled
  <2>8. Placed
    BY <1>0, <1>17, <2>1 DEF GdbKill, TwoThreads, Waiters, Places, EarlyInv, FirstOnce, Early, GdbThreads
  <2>9. QED
    BY <2>6, <2>7, <2>8 DEF SessionInv, TwoThreads
<1>18. CASE GdbScan
  <2>1. at["gdb"] \in {"scan", "parse"} /\ at'["gdb"] = "loop" /\ at'["cpu"] = at["cpu"]
    BY <1>18, GdbMoves DEF GdbScan, Moves
  <2>2. /\ NoRequest(Pending) => NoRequest(Pending')
        /\ \A kinds : kinds \cap Async = {} /\ OneRequest(Pending, kinds) => OneRequest(Pending', kinds)
    <3>1. packet_buffer' = Rest /\ wire' = wire
      BY <1>18 DEF GdbScan
    <3>2. CASE at["gdb"] = "scan"
      <4>1. Pending' = Pending
        BY <2>1, <3>1, <3>2 DEF Pending
      <4>2. QED
        BY <4>1
    <3>3. CASE at["gdb"] = "parse"
      <4>1. ~AtPacket({t.kind : t \in Tokens})
        BY <1>18, <3>3 DEF GdbScan, Moves
      <4>2. ~ \E i \in DOMAIN packet_buffer : IsPacket(i)
        <5>1. \A i \in DOMAIN packet_buffer : packet_buffer[i] \in Tokens
          BY LenProperties, ElementOfSeq DEF GdbTypeOK
        <5>2. QED
          BY <3>3, <4>1, <5>1 DEF AtPacket
      <4>3. packet_buffer' = <<>>
        <5>1. DOMAIN packet_buffer = 1 .. Len(packet_buffer)
          BY LenProperties DEF GdbTypeOK
        <5>2. QED
          BY <3>1, <4>2, <5>1 DEF Rest
      <4>4. QED
        BY <2>1, <3>1, <3>3, <4>2, <4>3, NonePending
    <3>4. QED
      BY <2>1, <3>2, <3>3
  <2>3. (Early' <=> Early) /\ (Stopped' <=> Stopped)
    BY <2>1 DEF Early, Stopped
  <2>4. NotTold => NotTold'
    BY <1>18, <2>1 DEF GdbScan, NotTold
  <2>5. Beliefs'
    BY <1>0, <1>18, <2>2, <2>3, <2>4, Quiet DEF GdbScan
  <2>6. Handled'
    BY <2>1 DEF Handled
  <2>7. Placed
    BY <1>0, <1>18, <2>1 DEF GdbScan, TwoThreads, Waiters, Places, EarlyInv, FirstOnce, Early, GdbThreads
  <2>8. QED
    BY <2>5, <2>6, <2>7 DEF SessionInv, TwoThreads
<1>19. QED
  BY <1>1, <1>2, <1>3, <1>4, <1>5, <1>6, <1>7, <1>8, <1>9, <1>10, <1>11, <1>12, <1>13, <1>14, <1>15, <1>16, <1>17, <1>18 DEF GdbStep

\* What the client does leaves the threads where they are.
LEMMA ClientQuiet ==
  ASSUME TwoThreads, at' = at, loaded' = loaded, flags' = flags, client_semaphore' = client_semaphore,
         packet_buffer' = packet_buffer, Early => replies' = <<>> /\ client' \in {"asks", "left"}
  PROVE  TwoThreads'
<1>1. Handled'
  BY FirstKept DEF TwoThreads, Handled
<1>2. Early' <=> Early
  BY DEF Early
<1>3. Waiters' /\ Places' /\ EarlyInv' /\ FirstOnce'
  BY <1>2 DEF TwoThreads, Waiters, Places, EarlyInv, FirstOnce
<1>4. QED
  BY <1>1, <1>3 DEF TwoThreads

LEMMA ClientKeeps ==
  ASSUME GdbTypeOK, SessionInv, ClientStep
  PROVE  SessionInv'
<1> USE DEF shared, debug
<1>0. TwoThreads /\ Beliefs
  BY DEF SessionInv
<1>1. ASSUME at' = at, flags' = flags, loaded' = loaded
      PROVE  (Stopped' <=> Stopped) /\ (Early' <=> Early) /\ (NotTold' <=> NotTold)
  BY <1>1 DEF Stopped, Early, NotTold
<1>2. CASE Receive
  <2>1. (Stopped' <=> Stopped) /\ (Early' <=> Early) /\ (NotTold' <=> NotTold)
    BY <1>1, <1>2 DEF Receive
  <2>2. Pending' = Pending
    BY <1>2, PendingKept DEF Receive
  <2>3. Tail(<<"ok">>) = <<>> /\ Tail(<<"stop">>) = <<>>
    OBVIOUS
  <2>4. ~Early
    BY <1>0, <1>2 DEF Receive, TwoThreads, EarlyInv
  <2>5. /\ client \in {"asks", "running", "leaving"} /\ replies' = <<>> /\ NoRequest(Pending)
        /\ client \in {"asks", "running"} => Stopped
    BY <1>0, <1>2, <2>3 DEF Receive, Beliefs, AsksInv, StoppedInv, RunningInv, LeavingInv, GdbTypeOK
  <2>6. client' = IF client = "leaving" THEN "left" ELSE "stopped"
    BY <1>2 DEF Receive
  <2>7. Beliefs'
    BY <2>1, <2>2, <2>5, <2>6 DEF Beliefs, AsksInv, StoppedInv, RunningInv, LeavingInv, LeftInv
  <2>8. TwoThreads'
    BY <1>0, <1>2, <2>4, ClientQuiet DEF Receive
  <2>9. QED
    BY <2>7, <2>8 DEF SessionInv
<1>3. ASSUME NEW kind, NEW address \in Addresses, NEW next, kind \in Async \cup Requests,
             Send(Token(kind, address), next)
      PROVE  /\ Pending' = Append(Pending, Token(kind, address))
             /\ Pending \in Seq(Tokens) /\ Token(kind, address) \in Tokens
             /\ Token(kind, address).kind = kind
  <2>1. Token(kind, address) \in Tokens /\ Token(kind, address).kind = kind
    BY <1>3 DEF Token, Tokens, Async, Requests
  <2>2. Pending' = Append(Pending, Token(kind, address))
    BY <1>3, <2>1, Sent DEF Send
  <2>3. QED
    BY <2>1, <2>2, PendingTypes
<1>4. ASSUME NEW kind \in Requests, NEW address \in Addresses, NEW next \in {"asks", "running", "leaving"},
             client = "stopped", Send(Token(kind, address), next),
             next = "asks" => kind \in AskKinds, next = "running" => kind = "continue",
             next = "leaving" => kind \in {"detach", "kill"}
      PROVE  SessionInv'
  <2>1. (Stopped' <=> Stopped) /\ (Early' <=> Early) /\ (NotTold' <=> NotTold)
    BY <1>1, <1>4 DEF Send
  <2>2. replies' = <<>> /\ NoRequest(Pending) /\ Stopped /\ client' = next /\ ~Early
    BY <1>0, <1>4 DEF Send, Beliefs, StoppedInv, TwoThreads, EarlyInv
  <2>3. \A kinds : kind \in kinds => OneRequest(Pending', kinds)
    <3> DEFINE token == Token(kind, address)
    <3>1. /\ Pending' = Append(Pending, token) /\ Pending \in Seq(Tokens)
          /\ token \in Tokens /\ token.kind = kind
      BY <1>3, <1>4
    <3> HIDE DEF token
    <3> QED BY <3>1, <2>2, AppendRequest
  <2>4. Beliefs'
    BY <1>4, <2>1, <2>2, <2>3 DEF Beliefs, AsksInv, StoppedInv, RunningInv, LeavingInv, LeftInv
  <2>5. TwoThreads'
    BY <1>0, <1>4, <2>2, ClientQuiet DEF Send
  <2>6. QED
    BY <2>4, <2>5 DEF SessionInv
<1>5. CASE Ask
  <2>1. CASE Send(Plain("ask"), "asks")
    BY <1>4, <1>5, <2>1, SessionAssumption DEF Ask, Plain, Requests, AskKinds
  <2>2. CASE \E kind \in {"set", "clear"}, address \in Addresses : Send(Token(kind, address), "asks")
    BY <1>4, <1>5, <2>2 DEF Ask, Requests, AskKinds
  <2>3. QED
    BY <1>5, <2>1, <2>2 DEF Ask
<1>6. CASE Continue
  BY <1>4, <1>6, SessionAssumption DEF Continue, Plain, Requests
<1>7. CASE Leave
  BY <1>4, <1>7, SessionAssumption DEF Leave, Plain, Requests
<1>8. CASE Interrupt
  <2>1. PICK kind \in {"break", "stop"} : Send(Token(kind, InitialPc), "running")
    BY <1>8 DEF Interrupt, Plain
  <2>2. (Stopped' <=> Stopped) /\ (Early' <=> Early) /\ (NotTold' <=> NotTold)
    BY <1>1, <2>1 DEF Send
  <2>3. client = "running" /\ client' = "running" /\ replies' = replies
    BY <1>8, <2>1 DEF Interrupt, Send
  <2>4. /\ Pending' = Append(Pending, Token(kind, InitialPc)) /\ Pending \in Seq(Tokens)
        /\ Token(kind, InitialPc) \in Tokens /\ Token(kind, InitialPc).kind \in Async
    BY <1>3, <2>1, SessionAssumption DEF Async
  <2>5. /\ NoRequest(Pending) => NoRequest(Pending')
        /\ \A kinds : OneRequest(Pending, kinds) => OneRequest(Pending', kinds)
    BY <2>4, AppendAsync
  <2>6. Beliefs'
    BY <1>0, <2>2, <2>3, <2>5, Quiet
  <2>7. ~Early
    BY <1>0, <2>3 DEF TwoThreads, EarlyInv
  <2>8. TwoThreads'
    BY <1>0, <2>1, <2>7, ClientQuiet DEF Send
  <2>9. QED
    BY <2>6, <2>8 DEF SessionInv
<1>9. CASE Close
  <2>1. (Stopped' <=> Stopped) /\ (Early' <=> Early) /\ (NotTold' <=> NotTold)
    BY <1>1, <1>9 DEF Close
  <2>2. Pending' = Pending
    BY <1>9, PendingKept DEF Close, link
  <2>3. client' = "left" /\ client # "left" /\ replies' = replies
    BY <1>9 DEF Close, link
  <2>4. NoRequest(Pending) \/ (OneRequest(Pending, Requests) /\ (Stopped \/ Early))
    <3>1. \A kinds : kinds \subseteq Requests /\ OneRequest(Pending, kinds) => OneRequest(Pending, Requests)
      BY DEF OneRequest
    <3>2. AskKinds \subseteq Requests /\ {"continue"} \subseteq Requests /\ {"detach", "kill"} \subseteq Requests
      BY DEF AskKinds, Requests
    <3>3. client \in {"asks", "stopped", "running", "leaving"}
      BY <2>3 DEF GdbTypeOK
    <3>4. NoRequest(Pending) \/ Stopped \/ Early
      BY <1>0, <3>3 DEF Beliefs, AsksInv, StoppedInv, RunningInv, LeavingInv
    <3>5. NoRequest(Pending) \/ OneRequest(Pending, Requests)
      BY <1>0, <3>1, <3>2, <3>3 DEF Beliefs, AsksInv, StoppedInv, RunningInv, LeavingInv
    <3>6. QED
      BY <3>4, <3>5
  <2>5. Beliefs'
    BY <2>1, <2>2, <2>3, <2>4 DEF Beliefs, AsksInv, StoppedInv, RunningInv, LeavingInv, LeftInv
  <2>6. Early => replies' = <<>>
    BY <1>0, <2>3 DEF TwoThreads, EarlyInv
  <2>7. TwoThreads'
    BY <1>0, <1>9, <2>3, <2>6, ClientQuiet DEF Close, link
  <2>8. QED
    BY <2>5, <2>7 DEF SessionInv
<1>10. QED
  BY <1>2, <1>5, <1>6, <1>7, <1>8, <1>9 DEF ClientStep

LEMMA SessionStarts == ASSUME GdbInit PROVE SessionInv
<1> USE DEF GdbInit
<1>1. TwoThreads
  BY SessionAssumption DEF TwoThreads, Waiters, Places, EarlyInv, FirstOnce, Handled, Early, GdbThreads
<1>2. OneRequest(Pending, AskKinds)
  <2>1. Pending = <<Plain("ask")>>
    <3>1. Pending = <<>> \o <<Plain("ask")>>
      BY DEF Pending
    <3>2. Plain("ask") \in Tokens
      BY PlainTypes DEF Requests
    <3>3. QED
      BY <3>1, <3>2
  <2>2. Plain("ask").kind = "ask"
    BY PlainTypes DEF Requests
  <2>3. QED
    BY <2>1, <2>2 DEF OneRequest, AskKinds
<1>3. Beliefs
  BY <1>2 DEF Beliefs, AsksInv, StoppedInv, RunningInv, LeavingInv, LeftInv, Early
<1>4. QED
  BY <1>1, <1>3 DEF SessionInv

\* While no wait has returned by itself, the CPU runs no instruction when the
\* client believes it stopped or a stop is on its way to it, and neither the
\* table of breakpoints nor output_buffer is used by both threads at once.
THEOREM SessionIsSafe == GdbSpec => []SessionSafe
<1>1. GdbInit => (woken = 0 => SessionInv)
  BY SessionStarts
<1>2. ASSUME GdbTypeOK, woken = 0 => SessionInv, [GdbNext]_gdbVars
      PROVE  (woken = 0 => SessionInv)'
  <2> SUFFICES ASSUME woken' = 0 PROVE SessionInv'
    OBVIOUS
  <2>1. ~GdbSpurious
    <3>1. woken \in Nat
      BY <1>2, SessionAssumption DEF GdbTypeOK
    <3>2. GdbSpurious => woken' = woken + 1
      BY DEF GdbSpurious
    <3>3. QED
      BY <3>1, <3>2
  <2>2. CASE CpuStep
    <3>1. woken' = woken
      BY <2>2 DEF CpuStep, CpuCycle, CpuSearch, CpuException, CpuNotConnected, CpuFirstStop,
                  CpuLaterStop, CpuRemoveInitial, CpuSignalFirst, CpuReply, CpuLock, CpuPause,
                  CpuWoken, CpuResume
    <3>2. QED
      BY <1>2, <2>2, <3>1, CpuKeeps
  <2>3. CASE GdbStep
    <3>1. woken' = woken
      BY <2>3 DEF GdbStep, GdbLock, GdbTest, GdbWait, GdbWoken, GdbLoop, GdbRead, GdbReadEnd,
                  GdbDrop, GdbContinue, GdbStop, GdbAsk, GdbAnswer, GdbChange, GdbChanged, GdbLeave,
                  GdbDetach, GdbKill, GdbScan
    <3>2. QED
      BY <1>2, <2>3, <3>1, GdbKeeps
  <2>4. CASE ClientStep
    <3>1. woken' = woken
      BY <2>4 DEF ClientStep, Receive, Ask, Continue, Leave, Interrupt, Close, Send
    <3>2. QED
      BY <1>2, <2>4, <3>1, ClientKeeps
  <2>5. CASE UNCHANGED gdbVars
    <3> USE <2>5 DEF gdbVars, shared, debug, link, outside
    <3>1. SessionInv
      BY <1>2
    <3>2. TwoThreads /\ Beliefs
      BY <3>1 DEF SessionInv
    <3>3. Pending' = Pending
      BY PendingKept
    <3>4. (Stopped' <=> Stopped) /\ (Early' <=> Early) /\ (NotTold' <=> NotTold)
      BY DEF Stopped, Early, NotTold
    <3>5. Beliefs'
      BY <3>2, <3>3, <3>4, Quiet
    <3>6. Early => replies' = <<>> /\ client' \in {"asks", "left"}
      BY <3>2 DEF TwoThreads, EarlyInv
    <3>7. TwoThreads'
      BY <3>2, <3>6, ClientQuiet
    <3>8. QED
      BY <3>5, <3>7 DEF SessionInv
  <2>6. QED
    BY <1>2, <2>1, <2>2, <2>3, <2>4, <2>5 DEF GdbNext
<1>3. ASSUME GdbTypeOK, woken = 0 => SessionInv PROVE SessionSafe
  <2>1. CASE woken = 0
    <3>1. TwoThreads /\ Beliefs
      BY <1>3, <2>1 DEF SessionInv
    <3>2. BeliefRight
      <4>1. client = "stopped" => Stopped
        BY <3>1 DEF Beliefs, StoppedInv
      <4>2. replies = <<>> \/ replies = <<"ok">> => "stop" \notin {replies[i] : i \in DOMAIN replies}
        OBVIOUS
      <4>3. client # "left" => replies = <<>> \/ replies = <<"ok">> \/ Stopped
        BY <1>3, <3>1 DEF GdbTypeOK, Beliefs, AsksInv, StoppedInv, RunningInv, LeavingInv
      <4>4. QED
        BY <4>1, <4>2, <4>3 DEF BeliefRight
    <3>3. ASSUME at["gdb"] \in {"answer", "table"} PROVE Stopped
      <4>1. PICK some \in {{"ask"}, {"set", "clear"}} : First(some) /\ some \cap Async = {}
        BY <3>1, <3>3, Disjoint DEF TwoThreads, Handled
      <4>2. /\ ~NoRequest(Pending)
            /\ \A kinds : OneRequest(Pending, kinds) => kinds \cap some # {}
        BY <1>3, <3>3, <4>1, FirstPending
      <4>3. ~Early
        BY <3>3 DEF Early
      <4>4. QED
        BY <1>3, <3>1, <4>2, <4>3
           DEF GdbTypeOK, Beliefs, AsksInv, StoppedInv, RunningInv, LeavingInv, LeftInv
    <3>4. SafeSearch /\ OneWriter
      BY <3>3 DEF SafeSearch, OneWriter, Stopped
    <3>5. QED
      BY <3>2, <3>4 DEF SessionSafe
  <2>2. CASE woken # 0
    BY <2>2 DEF SessionSafe, BeliefRight, SafeSearch, OneWriter
  <2>3. QED
    BY <2>1, <2>2
<1>4. QED
  BY <1>1, <1>2, <1>3, SessionTypes, PTL DEF GdbSpec

-----------------------------------------------------------------------------
(* The table of breakpoints. *)

Slots == Keys \cup {None}
Tables(n) == [Indices(n) -> Slots]
Home(n, key) == (key * Prime) % n

\* From slot a on to slot b, in the order of the probes.
Steps(n, a, b) == IF a <= b THEN b - a ELSE b - a + n

\* x comes before i in the search for the key at i.
Before(t, n, x, i) == Steps(n, Home(n, t[i]), x) < Steps(n, Home(n, t[i]), i)

\* No key is in two slots, no search meets an unused slot before the key it looks for,
\* and z is the slot where the searches may begin and end: none goes past it. In a table
\* that is full, z is where its last key went.
Distinct(t, n) == \A i, j \in Indices(n) : t[i] # None /\ t[i] = t[j] => i = j
Ordered(t, n, z) ==
  \A i \in Indices(n) : t[i] # None =>
    /\ ~ Before(t, n, z, i)
    /\ \A x \in Indices(n) : Before(t, n, x, i) => t[x] # None
Good(t, n) == t \in Tables(n) /\ Distinct(t, n) /\ \E z \in Indices(n) : Ordered(t, n, z)

Held(t, key) == \E i \in DOMAIN t : t[i] = key

LEMMA KeyIsNumber == ASSUME NEW key \in Keys PROVE key \in Nat /\ key # None
BY TableAssumption

LEMMA CapacityIs ==
  ASSUME NEW n \in Nat, NEW t \in Tables(n)
  PROVE  Capacity(t) = n /\ DOMAIN t = Indices(n) /\ IsFiniteSet(DOMAIN t)
<1>1. DOMAIN t = 0 .. n - 1
  BY DEF Tables, Indices
<1>2. 0 \in Int /\ n - 1 \in Int
  OBVIOUS
<1>3. /\ IsFiniteSet(0 .. n - 1)
      /\ Cardinality(0 .. n - 1) = IF 0 > n - 1 THEN 0 ELSE (n - 1) - 0 + 1
  BY <1>2, FS_Interval
<1> QED BY <1>1, <1>3 DEF Capacity, Indices

LEMMA MinIs ==
  ASSUME NEW S \in SUBSET Nat, S # {}
  PROVE  Min(S) \in S /\ \A x \in S : Min(S) <= x
<1>1. \E x \in S : \A y \in S : x <= y
  BY LeastNumber
<1> QED BY <1>1 DEF Min

\* The probes of a key go once round the table, from its home.
LEMMA ProbeIs ==
  ASSUME NEW n \in Nat \ {0}, NEW key \in Keys
  PROVE  /\ Home(n, key) \in Indices(n)
         /\ \A j \in Indices(n) : /\ (key * Prime + j) % n \in Indices(n)
                                  /\ Steps(n, Home(n, key), (key * Prime + j) % n) = j
         /\ \A x \in Indices(n) : /\ Steps(n, Home(n, key), x) \in Indices(n)
                                  /\ (key * Prime + Steps(n, Home(n, key), x)) % n = x
<1> DEFINE a == key * Prime  h == a % n
<1>1. a \in Nat
  BY KeyIsNumber, TableAssumption
<1> HIDE DEF a
<1>2. h \in Nat /\ h < n
  BY <1>1, DivModParts
<1> HIDE DEF h
<1>3. ASSUME NEW j \in Indices(n)
      PROVE  (a + j) % n = IF h + j < n THEN h + j ELSE h + j - n
  <2>1. j \in Nat /\ j < n
    BY <1>3 DEF Indices
  <2>2. (h + j) % n = (a + j) % n
    <3>1. a \in Int /\ j \in Int
      BY <1>1, <2>1
    <3>2. ((a % n) + j) % n = (a + j) % n
      BY <3>1, ModOfSum
    <3> QED BY <3>2 DEF h
  <2>3. CASE h + j < n
    <3> DEFINE y == h + j
    <3>1. y \in Int /\ 0 <= y /\ y < n /\ 0 \in Int
      BY <1>2, <2>1, <2>3
    <3> HIDE DEF y
    <3>2. (0 * n + y) % n = y /\ 0 * n + y = y
      BY <3>1, DivModUnique
    <3> QED BY <3>2, <2>2, <2>3 DEF y
  <2>4. CASE ~ (h + j < n)
    <3> DEFINE y == h + j - n
    <3>1. y \in Int /\ 0 <= y /\ y < n /\ 1 \in Int /\ h + j = y + n
      BY <1>2, <2>1, <2>4
    <3> HIDE DEF y
    <3>2. (1 * n + y) % n = y /\ 1 * n + y = h + j
      BY <3>1, DivModUnique, <1>2, <2>1
    <3> QED BY <3>2, <2>2, <2>4 DEF y
  <2> QED BY <2>3, <2>4
<1>4. ASSUME NEW j \in Indices(n)
      PROVE  (a + j) % n \in Indices(n) /\ Steps(n, h, (a + j) % n) = j
  <2>1. j \in Nat /\ j < n
    BY <1>4 DEF Indices
  <2>2. (a + j) % n = IF h + j < n THEN h + j ELSE h + j - n
    BY <1>3
  <2> DEFINE y == (a + j) % n
  <2> HIDE DEF y
  <2>3. y = IF h + j < n THEN h + j ELSE h + j - n
    BY <2>2 DEF y
  <2>4. y \in Indices(n) /\ Steps(n, h, y) = j
    BY <1>2, <2>1, <2>3 DEF Steps, Indices
  <2> QED BY <2>4 DEF y
<1>5. ASSUME NEW x \in Indices(n)
      PROVE  Steps(n, h, x) \in Indices(n) /\ (a + Steps(n, h, x)) % n = x
  <2>1. x \in Nat /\ x < n
    BY <1>5 DEF Indices
  <2> DEFINE j == Steps(n, h, x)
  <2>2. j \in Indices(n) /\ x = IF h + j < n THEN h + j ELSE h + j - n
    BY <1>2, <2>1 DEF Steps, Indices
  <2> HIDE DEF j
  <2>3. (a + j) % n = x
    BY <1>3, <2>2
  <2> QED BY <2>2, <2>3 DEF j
<1>6. h \in Indices(n)
  BY <1>2 DEF Indices
<1> QED BY <1>4, <1>5, <1>6 DEF h, a, Home

\* The search ends at the first slot that is unused or has the key.
LEMMA FindIs ==
  ASSUME NEW n \in Nat \ {0}, NEW t \in Tables(n), NEW key \in Keys
  PROVE  /\ Find(t, key) = NULL <=> \A x \in Indices(n) : t[x] \notin {None, key}
         /\ Find(t, key) # NULL =>
              /\ Find(t, key) \in Indices(n) /\ t[Find(t, key)] \in {None, key}
              /\ \A x \in Indices(n) :
                   Steps(n, Home(n, key), x) < Steps(n, Home(n, key), Find(t, key)) =>
                     t[x] \notin {None, key}
<1> DEFINE probe(j) == (key * Prime + j) % n
           stops == {j \in Indices(n) : t[probe(j)] \in {None, key}}
<1>1. Find(t, key) = IF stops = {} THEN NULL ELSE probe(Min(stops))
  BY CapacityIs DEF Find
<1>2. \A j \in Indices(n) : probe(j) \in Indices(n) /\ Steps(n, Home(n, key), probe(j)) = j
  BY ProbeIs
<1>3. \A x \in Indices(n) : /\ Steps(n, Home(n, key), x) \in Indices(n)
                            /\ probe(Steps(n, Home(n, key), x)) = x
  BY ProbeIs
<1> HIDE DEF probe
<1>4. \A x \in Indices(n) : x >= 0 /\ x # NULL
  BY DEF Indices, NULL
<1>5. CASE stops = {}
  <2>1. \A x \in Indices(n) : t[x] \notin {None, key}
    BY <1>3, <1>5
  <2> QED BY <2>1, <1>1, <1>5
<1>6. CASE stops # {}
  <2>1. stops \in SUBSET Nat
    BY DEF Indices
  <2>2. Min(stops) \in stops /\ \A j \in stops : Min(stops) <= j
    BY <1>6, <2>1, MinIs
  <2>3. Find(t, key) = probe(Min(stops))
    BY <1>1, <1>6
  <2>4. /\ Find(t, key) \in Indices(n) /\ t[Find(t, key)] \in {None, key}
        /\ Steps(n, Home(n, key), Find(t, key)) = Min(stops)
    BY <2>2, <2>3, <1>2
  <2>5. ASSUME NEW x \in Indices(n), Steps(n, Home(n, key), x) < Min(stops)
        PROVE  t[x] \notin {None, key}
    <3>1. Steps(n, Home(n, key), x) \in Nat /\ Min(stops) \in Nat
      BY <2>1, <2>2, <1>3 DEF Indices
    <3>2. Steps(n, Home(n, key), x) \notin stops
      BY <2>2, <2>5, <3>1
    <3> QED BY <3>2, <1>3
  <2> QED BY <2>4, <2>5, <1>4
<1> QED BY <1>5, <1>6

\* The slots are at different distances.
LEMMA StepsApart ==
  ASSUME NEW n \in Nat \ {0}, NEW a \in Indices(n), NEW x \in Indices(n), NEW y \in Indices(n)
  PROVE  /\ Steps(n, a, x) \in Nat /\ Steps(n, a, x) < n
         /\ Steps(n, a, x) < Steps(n, a, y) \/ Steps(n, a, y) < Steps(n, a, x) \/ x = y
         /\ ~ (Steps(n, a, x) < Steps(n, a, y) /\ Steps(n, a, y) < Steps(n, a, x))
         /\ ~ (Steps(n, a, x) < Steps(n, a, x))
BY DEF Steps, Indices

LEMMA FindIsThere ==
  ASSUME NEW n \in Nat \ {0}, NEW t \in Tables(n), NEW key \in Keys, NEW i \in Indices(n),
         t[i] \in {None, key},
         \A x \in Indices(n) :
           Steps(n, Home(n, key), x) < Steps(n, Home(n, key), i) => t[x] \notin {None, key}
  PROVE  Find(t, key) = i
<1> DEFINE f == Find(t, key)
<1>1. f # NULL
  BY FindIs
<1>2. /\ f \in Indices(n) /\ t[f] \in {None, key}
      /\ \A x \in Indices(n) :
           Steps(n, Home(n, key), x) < Steps(n, Home(n, key), f) => t[x] \notin {None, key}
  BY <1>1, FindIs
<1>3. Home(n, key) \in Indices(n)
  BY ProbeIs
<1> HIDE DEF f
<1>4. \/ Steps(n, Home(n, key), f) < Steps(n, Home(n, key), i)
      \/ Steps(n, Home(n, key), i) < Steps(n, Home(n, key), f) \/ i = f
  BY <1>2, <1>3, StepsApart
<1> QED BY <1>2, <1>4 DEF f

-----------------------------------------------------------------------------
(* Asking, and storing. *)

LEMMA FoundWhere ==
  ASSUME NEW n \in Nat \ {0}, NEW t, Good(t, n), NEW i \in Indices(n), t[i] # None
  PROVE  t[i] \in Keys /\ Find(t, t[i]) = i
<1>1. t \in Tables(n) /\ Distinct(t, n)
  BY DEF Good
<1>2. t[i] \in Keys
  BY <1>1 DEF Tables, Slots
<1>3. PICK z \in Indices(n) : Ordered(t, n, z)
  BY DEF Good
<1>4. Home(n, t[i]) \in Indices(n)
  BY <1>2, ProbeIs
<1>5. ASSUME NEW x \in Indices(n), Steps(n, Home(n, t[i]), x) < Steps(n, Home(n, t[i]), i)
      PROVE  t[x] \notin {None, t[i]}
  <2>1. t[x] # None
    BY <1>3, <1>5 DEF Ordered, Before
  <2>2. x # i
    BY <1>4, <1>5, StepsApart
  <2> QED BY <2>1, <2>2, <1>1 DEF Distinct
<1>6. Find(t, t[i]) = i
  BY <1>1, <1>2, <1>5, FindIsThere
<1> QED BY <1>2, <1>6

LEMMA GetIs ==
  ASSUME NEW n \in Nat \ {0}, NEW t, Good(t, n), NEW key \in Keys
  PROVE  /\ Get(t, key) <=> Held(t, key)
         /\ Find(t, key) # NULL /\ ~ Held(t, key) => t[Find(t, key)] = None
         /\ Find(t, key) # NULL => Find(t, key) \in Indices(n)
<1>1. t \in Tables(n) /\ DOMAIN t = Indices(n)
  BY CapacityIs DEF Good
<1>2. Find(t, key) # NULL => Find(t, key) \in Indices(n) /\ t[Find(t, key)] \in {None, key}
  BY <1>1, FindIs
<1>3. ASSUME Held(t, key) PROVE Get(t, key)
  <2>1. PICK i \in Indices(n) : t[i] = key
    BY <1>1, <1>3 DEF Held
  <2>2. Find(t, key) = i
    BY <2>1, FoundWhere, KeyIsNumber
  <2>3. i # NULL
    BY DEF NULL, Indices
  <2> QED BY <2>1, <2>2, <2>3 DEF Get
<1>4. ASSUME Get(t, key) PROVE Held(t, key)
  BY <1>1, <1>2, <1>4 DEF Get, Held
<1> QED BY <1>1, <1>2, <1>3, <1>4 DEF Held

\* A key that is stored where the search for it ended takes its place among the others.
LEMMA StoredThere ==
  ASSUME NEW n \in Nat \ {0}, NEW t, Good(t, n), NEW key \in Keys,
         ~ Held(t, key), Find(t, key) # NULL
  PROVE  Good([t EXCEPT ![Find(t, key)] = key], n)
<1> DEFINE f == Find(t, key)  r == [t EXCEPT ![f] = key]
<1>1. t \in Tables(n) /\ Distinct(t, n) /\ DOMAIN t = Indices(n)
  BY CapacityIs DEF Good
<1>2. PICK z \in Indices(n) : Ordered(t, n, z)
  BY DEF Good
<1>3. /\ f \in Indices(n) /\ t[f] = None
      /\ \A x \in Indices(n) :
           Steps(n, Home(n, key), x) < Steps(n, Home(n, key), f) => t[x] \notin {None, key}
  BY <1>1, FindIs, GetIs
<1> HIDE DEF f
<1>4. /\ r \in Tables(n) /\ r[f] = key
      /\ \A i \in Indices(n) : i # f => r[i] = t[i]
  BY <1>1, <1>3 DEF Tables, Slots
<1>5. \A i \in Indices(n) : t[i] # key
  BY <1>1 DEF Held
<1> HIDE DEF r
<1>6. Distinct(r, n)
  BY <1>1, <1>3, <1>4, <1>5 DEF Distinct
<1>7. Ordered(r, n, f)
  <2>1. SUFFICES ASSUME NEW i \in Indices(n), r[i] # None
                 PROVE  /\ ~ Before(r, n, f, i)
                        /\ \A x \in Indices(n) : Before(r, n, x, i) => r[x] # None
    BY DEF Ordered
  <2>2. CASE i = f
    <3>1. ~ Before(r, n, f, i)
      BY <2>2, <1>4, <1>3, ProbeIs, StepsApart DEF Before
    <3>2. ASSUME NEW x \in Indices(n), Before(r, n, x, i) PROVE r[x] # None
      <4>1. x # f
        BY <3>1, <3>2
      <4> QED BY <4>1, <3>2, <2>2, <1>3, <1>4 DEF Before
    <3> QED BY <3>1, <3>2
  <2>3. CASE i # f
    <3>1. r[i] = t[i] /\ t[i] # None
      BY <2>1, <2>3, <1>4
    <3>2. \A x \in Indices(n) : Before(r, n, x, i) => t[x] # None
      BY <3>1, <1>2 DEF Ordered, Before
    <3>3. \A x \in Indices(n) : Before(r, n, x, i) => x # f /\ r[x] # None
      BY <3>2, <1>3, <1>4
    <3> QED BY <3>3, <1>3
  <2> QED BY <2>2, <2>3
<1> QED BY <1>3, <1>4, <1>6, <1>7 DEF Good, r, f

\* What is stored is held then, and all that was; storing a key again changes nothing.
LEMMA StoredHeld ==
  ASSUME NEW n \in Nat \ {0}, NEW t, Good(t, n), NEW key \in Keys, Find(t, key) # NULL,
         NEW other \in Keys
  PROVE  /\ Good([t EXCEPT ![Find(t, key)] = key], n)
         /\ Held([t EXCEPT ![Find(t, key)] = key], other) <=> Held(t, other) \/ other = key
<1> DEFINE f == Find(t, key)  r == [t EXCEPT ![f] = key]
<1>1. t \in Tables(n) /\ DOMAIN t = Indices(n)
  BY CapacityIs DEF Good
<1>2. f \in Indices(n) /\ t[f] \in {None, key} /\ (~ Held(t, key) => t[f] = None)
  BY <1>1, FindIs, GetIs
<1>3. Good(r, n)
  <2>1. CASE Held(t, key)
    <3>1. Get(t, key)
      BY <2>1, GetIs
    <3>2. t[f] = key
      BY <3>1 DEF Get
    <3> HIDE DEF f
    <3>3. r = t
      BY <3>2, <1>1, <1>2 DEF Tables
    <3> QED BY <3>3
  <2>2. CASE ~ Held(t, key)
    BY <2>2, StoredThere
  <2> QED BY <2>1, <2>2
<1> HIDE DEF f
<1>4. /\ DOMAIN r = Indices(n) /\ r[f] = key
      /\ \A i \in Indices(n) : i # f => r[i] = t[i]
  BY <1>1, <1>2
<1> HIDE DEF r
<1>5. Held(r, other) <=> Held(t, other) \/ other = key
  <2>1. ASSUME Held(r, other), other # key PROVE Held(t, other)
    BY <2>1, <1>1, <1>4 DEF Held
  <2>2. ASSUME Held(t, other), other # key PROVE Held(r, other)
    <3>1. PICK i \in Indices(n) : t[i] = other
      BY <2>2, <1>1 DEF Held
    <3>2. i # f
      BY <3>1, <2>2, <1>2, KeyIsNumber
    <3> QED BY <3>1, <3>2, <1>4 DEF Held
  <2>3. Held(r, key)
    BY <1>2, <1>4 DEF Held
  <2> QED BY <2>1, <2>2, <2>3
<1> QED BY <1>3, <1>5 DEF r, f

LEMMA EmptyGood ==
  ASSUME NEW n \in Nat \ {0}
  PROVE  Good(Unused(n), n) /\ \A key \in Keys : ~ Held(Unused(n), key)
<1>1. Unused(n) \in Tables(n) /\ \A i \in Indices(n) : Unused(n)[i] = None
  BY DEF Unused, Tables, Slots
<1>2. 0 \in Indices(n)
  BY DEF Indices
<1>3. Ordered(Unused(n), n, 0) /\ Distinct(Unused(n), n)
  BY <1>1 DEF Ordered, Distinct
<1>4. \A key \in Keys : ~ Held(Unused(n), key)
  BY <1>1, KeyIsNumber DEF Held, Unused
<1> QED BY <1>1, <1>2, <1>3, <1>4 DEF Good

-----------------------------------------------------------------------------
(* Making the table larger or smaller. *)

LEMMA MovedTyped ==
  ASSUME NEW n \in Nat \ {0}, NEW t \in Tables(n), NEW key \in Slots
  PROVE  Moved(t, key) \in Tables(n)
<1>1. CASE key = None \/ Find(t, key) = NULL
  BY <1>1 DEF Moved
<1>2. CASE key # None /\ Find(t, key) # NULL
  <2>1. key \in Keys
    BY <1>2 DEF Slots
  <2>2. Find(t, key) \in Indices(n)
    BY <1>2, <2>1, FindIs
  <2> QED BY <1>2, <2>2 DEF Moved, Tables
<1> QED BY <1>1, <1>2

\* A resize has a table after each slot of the old one, and answers the last.
LEMMA RehashRun ==
  ASSUME NEW n \in Nat \ {0}, NEW m \in Nat, NEW t \in Tables(m)
  PROVE  \E f \in [0 .. m -> Tables(n)] :
           /\ f[0] = Unused(n)
           /\ \A i \in Nat : i < m => f[i + 1] = Moved(f[i], t[i])
           /\ Resized(t, n) = f[m]
<1> DEFINE T == Tables(n)
           step == [i \in Nat |-> [x \in T |-> IF i < m THEN Moved(x, t[i]) ELSE x]]
           Def(r) == [i \in 0 .. m |-> IF i = 0 THEN Unused(n) ELSE Moved(r[i - 1], t[i - 1])]
           run == CHOOSE r : r = Def(r)
<1>0. \A i \in Nat : i < m => t[i] \in Slots
  BY DEF Tables, Indices
<1>1. \A i \in Nat, x \in T : i < m => Moved(x, t[i]) \in T
  BY <1>0, MovedTyped
<1>1a. Unused(n) \in T
  BY DEF Unused, Tables, Slots
<1> HIDE DEF T
<1>2. step \in [Nat -> [T -> T]]
  BY <1>1
<1>2a. \A i \in Nat, x \in T : i < m => step[i][x] = Moved(x, t[i])
  OBVIOUS
<1>3. PICK f \in [0 .. m -> T] :
        f[0] = Unused(n) /\ \A i \in Nat : i < m => f[i + 1] = step[i][f[i]]
  <2> HIDE DEF step
  <2>1. Runs(T, Unused(n), m, step) # {}
    BY <1>1a, <1>2, IterationExists
  <2> QED BY <2>1 DEF Runs
<1>4. \A i \in Nat : i < m => f[i + 1] = Moved(f[i], t[i])
  <2> HIDE DEF step
  <2>1. ASSUME NEW i \in Nat, i < m PROVE f[i + 1] = Moved(f[i], t[i])
    <3>1. i \in 0 .. m
      BY <2>1
    <3>2. f[i] \in T
      BY <3>1, <1>3
    <3> QED BY <3>2, <2>1, <1>2a, <1>3
  <2> QED BY <2>1
<1>5. f = Def(f)
  <2>1. ASSUME NEW i \in 0 .. m PROVE f[i] = Def(f)[i]
    <3>1. CASE i = 0
      BY <3>1, <1>3
    <3>2. CASE i # 0
      <4>1. i - 1 \in Nat /\ i - 1 < m /\ (i - 1) + 1 = i
        BY <3>2
      <4>2. f[i] = Moved(f[i - 1], t[i - 1])
        BY <4>1, <1>4
      <4> QED BY <4>2, <3>2
    <3> QED BY <3>1, <3>2
  <2>2. f = [i \in 0 .. m |-> f[i]]
    BY <1>3
  <2> QED BY <2>1, <2>2
<1>6. run = Def(run)
  <2> HIDE DEF Def
  <2> QED BY <1>5
<1>7. Resized(t, n) = run[m]
  BY CapacityIs DEF Resized, Rehashed
<1> HIDE DEF run
<1>8. \A i \in Nat : i < m => run[i + 1] = Moved(run[i], t[i])
  <2>1. ASSUME NEW i \in Nat, i < m PROVE run[i + 1] = Moved(run[i], t[i])
    <3>1. i + 1 \in 0 .. m /\ i + 1 # 0 /\ (i + 1) - 1 = i
      BY <2>1
    <3>2. run[i + 1] = Def(run)[i + 1]
      BY <1>6
    <3>3. Def(run)[i + 1] = Moved(run[i], t[i])
      BY <3>1
    <3> QED BY <3>2, <3>3
  <2> QED BY <2>1
<1>9. run[0] = Unused(n)
  <2>1. Def(run)[0] = Unused(n)
    OBVIOUS
  <2> QED BY <2>1, <1>6
<1>10. \A i \in 0 .. m : run[i] = f[i]
  <2> DEFINE S == {i \in Nat : run[i] = f[i]}
  <2>1. 0 \in S
    BY <1>3, <1>9
  <2>2. \A i \in Nat : i < m /\ i \in S => i + 1 \in S
    BY <1>4, <1>8
  <2> HIDE DEF S
  <2>3. \A i \in 0 .. m : i \in S
    BY <2>1, <2>2, BoundedInduction
  <2> QED BY <2>3 DEF S
<1>11. Resized(t, n) = f[m]
  BY <1>7, <1>10
<1> QED BY <1>3, <1>4, <1>11 DEF T

\* Keys that fit leave an unused slot until the last has been moved.
LEMMA RoomLeft ==
  ASSUME NEW n \in Nat \ {0}, NEW m \in Nat, NEW t \in Tables(m), ResizeFits(t, n),
         NEW r \in Tables(n), Distinct(r, n), NEW i \in Indices(m), t[i] # None,
         \A y \in Indices(n) : r[y] # None => \E x \in Indices(m) : x < i /\ t[x] = r[y]
  PROVE  \E y \in Indices(n) : r[y] = None
<1> DEFINE used == {x \in DOMAIN t : t[x] # None}  less == used \ {i}
           g == [y \in Indices(n) |-> CHOOSE x \in Indices(m) : x < i /\ t[x] = r[y]]
<1>1. SUFFICES ASSUME \A y \in Indices(n) : r[y] # None PROVE FALSE
  OBVIOUS
<1>2. DOMAIN t = Indices(m) /\ IsFiniteSet(DOMAIN t)
  BY CapacityIs
<1>3. IsFiniteSet(used) /\ Cardinality(used) \in Nat /\ Cardinality(used) <= n
  <2>1. IsFiniteSet(used)
    BY <1>2, FS_Subset
  <2> QED BY <2>1, FS_CardinalityType DEF ResizeFits
<1>4. IsFiniteSet(less) /\ Cardinality(less) = Cardinality(used) - 1
  <2>1. i \in used
    BY <1>2
  <2> HIDE DEF used
  <2> QED BY <2>1, <1>3, FS_RemoveElement
<1>5. \A y \in Indices(n) : g[y] \in Indices(m) /\ g[y] < i /\ t[g[y]] = r[y]
  BY <1>1
<1> HIDE DEF g
<1>6. \A y \in Indices(n) : g[y] \in less
  <2>1. \A x \in Indices(m) : ~ (x < x)
    BY DEF Indices
  <2> QED BY <1>1, <1>2, <1>5, <2>1
<1>7. g \in Injection(Indices(n), less)
  <2>1. g \in [Indices(n) -> less]
    BY <1>6 DEF g
  <2>2. \A a, b \in Indices(n) : g[a] = g[b] => a = b
    BY <1>1, <1>5 DEF Distinct
  <2> HIDE DEF less
  <2> QED BY <2>1, <2>2 DEF Injection, IsInjective
<1>8. Cardinality(Indices(n)) <= Cardinality(less)
  BY <1>4, <1>7, FS_Injection
<1>9. Cardinality(Indices(n)) = n
  <2>1. DOMAIN r = Indices(n) /\ Capacity(r) = n
    BY CapacityIs
  <2> QED BY <2>1 DEF Capacity
<1> HIDE DEF less, used
<1> QED BY <1>3, <1>4, <1>8, <1>9

\* The new table is a good one with the keys of the old, if they fit.
LEMMA ResizedIs ==
  ASSUME NEW n \in Nat \ {0}, NEW m \in Nat, NEW t \in Tables(m), ResizeFits(t, n)
  PROVE  Good(Resized(t, n), n) /\ \A key \in Keys : Held(Resized(t, n), key) <=> Held(t, key)
<1>1. PICK f \in [0 .. m -> Tables(n)] :
        /\ f[0] = Unused(n)
        /\ \A i \in Nat : i < m => f[i + 1] = Moved(f[i], t[i])
        /\ Resized(t, n) = f[m]
  BY RehashRun
<1>2. DOMAIN t = Indices(m)
  BY CapacityIs
<1> DEFINE Part(i) == \A key \in Keys : Held(f[i], key) <=> \E x \in Indices(m) : x < i /\ t[x] = key
           S == {i \in Nat : i <= m => Good(f[i], n) /\ Part(i)}
<1>3. 0 \in S
  <2>1. \A x \in Indices(m) : ~ (x < 0)
    BY DEF Indices
  <2> QED BY <2>1, <1>1, EmptyGood
<1>4. ASSUME NEW i \in Nat, i < m, i \in S PROVE i + 1 \in S
  <2>1. Good(f[i], n) /\ Part(i)
    BY <1>4
  <2>2. f[i + 1] = Moved(f[i], t[i]) /\ i \in Indices(m) /\ f[i] \in Tables(n)
    BY <1>1, <1>4 DEF Indices
  <2>3. \A x \in Indices(m) : x < i + 1 <=> x < i \/ x = i
    BY DEF Indices
  <2>4. CASE t[i] = None
    <3>1. f[i + 1] = f[i]
      BY <2>2, <2>4 DEF Moved
    <3>2. Part(i + 1)
      BY <3>1, <2>1, <2>3, <2>4, KeyIsNumber
    <3> QED BY <3>1, <3>2, <2>1
  <2>5. CASE t[i] # None
    <3>1. t[i] \in Keys
      BY <2>2, <2>5 DEF Tables, Slots
    <3>2. \A y \in Indices(n) : f[i][y] # None => \E x \in Indices(m) : x < i /\ t[x] = f[i][y]
      <4>1. ASSUME NEW y \in Indices(n), f[i][y] # None
            PROVE  \E x \in Indices(m) : x < i /\ t[x] = f[i][y]
        <5>1. f[i][y] \in Keys
          BY <2>2, <4>1 DEF Tables, Slots
        <5>2. Held(f[i], f[i][y])
          BY <2>2, CapacityIs DEF Held
        <5> QED BY <5>1, <5>2, <2>1
      <4> QED BY <4>1
    <3>3. Distinct(f[i], n)
      BY <2>1 DEF Good
    <3>4. \E y \in Indices(n) : f[i][y] = None
      BY <2>2, <2>5, <3>2, <3>3, RoomLeft
    <3>5. Find(f[i], t[i]) # NULL
      BY <2>2, <3>1, <3>4, FindIs
    <3>6. f[i + 1] = [f[i] EXCEPT ![Find(f[i], t[i])] = t[i]]
      BY <2>2, <2>5, <3>5 DEF Moved
    <3> DEFINE u == f[i]  k == t[i]
    <3>7. /\ Good([u EXCEPT ![Find(u, k)] = k], n)
          /\ \A other \in Keys :
               Held([u EXCEPT ![Find(u, k)] = k], other) <=> Held(u, other) \/ other = k
      <4>1. Good(u, n) /\ k \in Keys /\ Find(u, k) # NULL
        BY <2>1, <3>1, <3>5
      <4> HIDE DEF u, k
      <4> QED BY <4>1, StoredHeld
    <3>8. Good(f[i + 1], n) /\ \A other \in Keys : Held(f[i + 1], other) <=> Held(f[i], other) \/ other = t[i]
      BY <3>6, <3>7
    <3>9. Part(i + 1)
      BY <3>8, <2>1, <2>2, <2>3
    <3> QED BY <3>8, <3>9
  <2> QED BY <2>4, <2>5
<1> HIDE DEF S, Part
<1>5. \A i \in 0 .. m : i \in S
  BY <1>3, <1>4, BoundedInduction
<1>6. Good(f[m], n) /\ Part(m)
  BY <1>5 DEF S
<1>7. \A x \in Indices(m) : x < m
  BY DEF Indices
<1>8. \A key \in Keys : Held(f[m], key) <=> Held(t, key)
  BY <1>6, <1>7, <1>2 DEF Part, Held
<1> QED BY <1>1, <1>6, <1>8

-----------------------------------------------------------------------------
(* Filling the hole that a deleted key leaves. *)

\* Going round: s is the slot of the key that was deleted, z where the searches end.
\* An entry at i that is found at the hole p is not past z, ...
LEMMA MoveStays ==
  ASSUME NEW n \in Nat \ {0}, NEW s \in Indices(n), NEW z \in Indices(n), NEW p \in Indices(n),
         NEW i \in Indices(n), NEW h \in Indices(n),
         Steps(n, s, p) < Steps(n, s, i), Steps(n, s, p) <= Steps(n, s, z),
         Steps(n, h, p) < Steps(n, h, i), ~ (Steps(n, h, z) < Steps(n, h, i))
  PROVE  Steps(n, s, i) <= Steps(n, s, z)
BY DEF Steps, Indices

\* ... so that no key that was looked at before passes over the hole it leaves at i, ...
LEMMA SettledStays ==
  ASSUME NEW n \in Nat \ {0}, NEW s \in Indices(n), NEW z \in Indices(n),
         NEW i \in Indices(n), NEW y \in Indices(n), NEW h \in Indices(n),
         Steps(n, s, y) < Steps(n, s, i), Steps(n, s, i) <= Steps(n, s, z),
         ~ (Steps(n, h, z) < Steps(n, h, y))
  PROVE  ~ (Steps(n, h, i) < Steps(n, h, y))
BY DEF Steps, Indices

\* ... and a key past an unused slot i has no search that comes by the hole.
LEMMA RunEnds ==
  ASSUME NEW n \in Nat \ {0}, NEW s \in Indices(n), NEW z \in Indices(n), NEW p \in Indices(n),
         NEW i \in Indices(n), NEW y \in Indices(n), NEW h \in Indices(n),
         Steps(n, s, p) < Steps(n, s, i), Steps(n, s, i) < Steps(n, s, y),
         Steps(n, s, p) <= Steps(n, s, z),
         Steps(n, h, p) < Steps(n, h, y), ~ (Steps(n, h, z) < Steps(n, h, y))
  PROVE  Steps(n, h, i) < Steps(n, h, y)
BY DEF Steps, Indices

LEMMA StepsOn ==
  ASSUME NEW n \in Nat \ {0}, NEW s \in Indices(n), NEW j \in Nat, j < n
  PROVE  (s + j) % n \in Indices(n) /\ Steps(n, s, (s + j) % n) = j
<1>1. s \in Nat /\ s < n
  BY DEF Indices
<1>2. (s + j) % n = IF s + j < n THEN s + j ELSE s + j - n
  <2>1. CASE s + j < n
    <3> DEFINE y == s + j
    <3>1. y \in Int /\ 0 <= y /\ y < n /\ 0 \in Int
      BY <1>1, <2>1
    <3> HIDE DEF y
    <3>2. (0 * n + y) % n = y /\ 0 * n + y = y
      BY <3>1, DivModUnique
    <3> QED BY <3>2, <2>1 DEF y
  <2>2. CASE ~ (s + j < n)
    <3> DEFINE y == s + j - n
    <3>1. y \in Int /\ 0 <= y /\ y < n /\ 1 \in Int /\ s + j = y + n
      BY <1>1, <2>2
    <3> HIDE DEF y
    <3>2. (1 * n + y) % n = y /\ 1 * n + y = s + j
      BY <3>1, DivModUnique, <1>1
    <3> QED BY <3>2, <2>2 DEF y
  <2> QED BY <2>1, <2>2
<1> DEFINE y == (s + j) % n
<1> HIDE DEF y
<1>3. y = IF s + j < n THEN s + j ELSE s + j - n
  BY <1>2 DEF y
<1>4. y \in Indices(n) /\ Steps(n, s, y) = j
  BY <1>1, <1>3 DEF Steps, Indices
<1> QED BY <1>4 DEF y

\* The table while the hole is at p: all is in order but for the searches that come by
\* p. Those are for keys that are still to be looked at, and for none when it is over.
OrderedBut(t, n, z, p) ==
  \A i \in Indices(n) : t[i] # None =>
    /\ ~ Before(t, n, z, i)
    /\ \A x \in Indices(n) : Before(t, n, x, i) => t[x] # None \/ x = p

FillInv(a, n, s, z, j, p) ==
  /\ a.t \in Tables(n) /\ Distinct(a.t, n)
  /\ a.t[p] = None /\ OrderedBut(a.t, n, z, p)
  /\ Steps(n, s, p) < j /\ Steps(n, s, p) <= Steps(n, s, z)
  /\ \A i \in Indices(n) :
       a.t[i] # None /\ (a.on => Steps(n, s, i) < j) => ~ Before(a.t, n, p, i)

States(n) == [t : Tables(n), on : BOOLEAN]

LEMMA FilledTyped ==
  ASSUME NEW n \in Nat \ {0}, NEW a \in States(n), NEW i \in Indices(n)
  PROVE  Filled(a, i) \in States(n)
<1>1. a.t \in Tables(n) /\ a.on \in BOOLEAN
  BY DEF States
<1>2. CASE ~ a.on \/ a.t[i] = None
  <2>1. Filled(a, i) = [a EXCEPT !.on = FALSE]
    BY <1>2 DEF Filled
  <2> QED BY <2>1 DEF States
<1>3. CASE a.on /\ a.t[i] # None
  <2> DEFINE k == a.t[i]  f == Find(a.t, k)
             r == [[a.t EXCEPT ![i] = None] EXCEPT ![f] = k]
  <2>1. k \in Slots
    BY <1>1 DEF Tables
  <2>2. r \in Tables(n)
    <3> HIDE DEF k, f
    <3> QED BY <1>1, <2>1 DEF Tables, Slots
  <2>3. Filled(a, i) = [a EXCEPT !.t = r]
    BY <1>3 DEF Filled
  <2> HIDE DEF r
  <2> QED BY <2>2, <2>3 DEF States
<1> QED BY <1>2, <1>3

\* One round.
LEMMA FillStep ==
  ASSUME NEW n \in Nat \ {0}, NEW s \in Indices(n), NEW z \in Indices(n), NEW p \in Indices(n),
         NEW j \in Nat, j < n, NEW a \in States(n), FillInv(a, n, s, z, j, p)
  PROVE  \E q \in Indices(n) :
           /\ FillInv(Filled(a, (s + j) % n), n, s, z, j + 1, q)
           /\ \A key \in Keys : Held(Filled(a, (s + j) % n).t, key) <=> Held(a.t, key)
<1> DEFINE i == (s + j) % n  t == a.t
<1>1. i \in Indices(n) /\ Steps(n, s, i) = j
  BY StepsOn
<1> HIDE DEF i
<1>2. /\ t \in Tables(n) /\ Distinct(t, n) /\ t[p] = None /\ OrderedBut(t, n, z, p)
      /\ Steps(n, s, p) < j /\ Steps(n, s, p) <= Steps(n, s, z)
      /\ \A y \in Indices(n) :
           t[y] # None /\ (a.on => Steps(n, s, y) < j) => ~ Before(t, n, p, y)
  BY DEF FillInv
<1>3. \A y \in Indices(n) : t[y] # None => t[y] \in Keys /\ Home(n, t[y]) \in Indices(n)
  BY <1>2, ProbeIs DEF Tables, Slots
<1>4. \A y \in Indices(n) : Steps(n, s, y) \in Nat /\ (Steps(n, s, y) = j => y = i)
  <2>1. \A y \in Indices(n) :
          /\ Steps(n, s, y) \in Nat
          /\ Steps(n, s, y) < Steps(n, s, i) \/ Steps(n, s, i) < Steps(n, s, y) \/ y = i
    BY <1>1, StepsApart
  <2> QED BY <2>1, <1>1
<1>5. CASE ~ a.on
  <2>1. Filled(a, i) = [a EXCEPT !.on = FALSE]
    BY <1>5 DEF Filled
  <2>2. Filled(a, i).t = t /\ Filled(a, i).on = a.on
    BY <2>1, <1>5 DEF States
  <2>3. Steps(n, s, p) < j + 1
    BY <1>2, <1>4
  <2>4. FillInv(Filled(a, i), n, s, z, j + 1, p)
    BY <2>2, <2>3, <1>2, <1>5 DEF FillInv
  <2> QED BY <2>2, <2>4 DEF i
<1>6. CASE a.on /\ t[i] = None
  <2>1. Filled(a, i) = [a EXCEPT !.on = FALSE]
    BY <1>6 DEF Filled
  <2>2. Filled(a, i).t = t /\ Filled(a, i).on = FALSE
    BY <2>1 DEF States
  <2>3. Steps(n, s, p) < j + 1
    BY <1>2, <1>4
  <2>4. ASSUME NEW y \in Indices(n), t[y] # None PROVE ~ Before(t, n, p, y)
    <3>1. SUFFICES ASSUME Before(t, n, p, y) PROVE FALSE
      OBVIOUS
    <3>2. ~ (Steps(n, s, y) < j) /\ y # i
      BY <3>1, <2>4, <1>2, <1>6
    <3>3. Steps(n, s, i) < Steps(n, s, y) /\ Steps(n, s, p) < Steps(n, s, i)
      BY <3>2, <1>4, <1>1, <1>2
    <3>4. /\ Steps(n, Home(n, t[y]), p) < Steps(n, Home(n, t[y]), y)
          /\ ~ (Steps(n, Home(n, t[y]), z) < Steps(n, Home(n, t[y]), y))
      BY <3>1, <2>4, <1>2 DEF Before, OrderedBut
    <3>5. Steps(n, Home(n, t[y]), i) < Steps(n, Home(n, t[y]), y)
      BY <3>3, <3>4, <1>1, <1>2, <1>3, <2>4, RunEnds
    <3>6. t[i] # None \/ i = p
      BY <3>5, <2>4, <1>1, <1>2 DEF OrderedBut, Before
    <3>7. i # p
      BY <1>1, <1>2, <1>4
    <3> QED BY <3>6, <3>7, <1>6
  <2>5. FillInv(Filled(a, i), n, s, z, j + 1, p)
    BY <2>2, <2>3, <2>4, <1>2 DEF FillInv
  <2> QED BY <2>2, <2>5 DEF i
<1>7. CASE a.on /\ t[i] # None
  <2> DEFINE k == t[i]  h == Home(n, k)  f == Find(t, k)
             r == [[t EXCEPT ![i] = None] EXCEPT ![f] = k]
  <2>1. k \in Keys /\ k # None /\ h \in Indices(n)
    BY <1>1, <1>3, <1>7
  <2>2. /\ ~ (Steps(n, h, z) < Steps(n, h, i))
        /\ \A x \in Indices(n) : Steps(n, h, x) < Steps(n, h, i) => t[x] # None \/ x = p
    BY <1>1, <1>2, <1>7 DEF OrderedBut, Before
  <2>3. \A x \in Indices(n) : Steps(n, h, x) < Steps(n, h, i) => t[x] # k
    <3>1. \A x \in Indices(n) : Steps(n, h, x) < Steps(n, h, i) => x # i
      BY <2>1, <1>1, StepsApart
    <3> QED BY <3>1, <2>1, <1>1, <1>2 DEF Distinct
  <2>4. Filled(a, i) = [a EXCEPT !.t = r]
    BY <1>7 DEF Filled
  <2>5. Filled(a, i).t = r /\ Filled(a, i).on = TRUE
    BY <2>4, <1>7 DEF States
  <2>6. CASE Steps(n, h, p) < Steps(n, h, i)
    <3>1. f = p
      <4>1. ASSUME NEW x \in Indices(n), Steps(n, h, x) < Steps(n, h, p)
            PROVE  t[x] \notin {None, k}
        <5>1. Steps(n, h, x) < Steps(n, h, i) /\ x # p
          BY <4>1, <2>6, <2>1, <1>1, StepsApart
        <5> QED BY <5>1, <2>2, <2>3
      <4> HIDE DEF k
      <4> QED BY <4>1, <1>2, <2>1, FindIsThere
    <3>2. p # i
      BY <2>6, <2>1, <1>1, StepsApart
    <3>3. /\ r[p] = k /\ r[i] = None /\ \A y \in Indices(n) : y \notin {i, p} => r[y] = t[y]
          /\ r \in Tables(n)
      <4> HIDE DEF k, f
      <4> QED BY <3>1, <3>2, <1>1, <1>2, <2>1 DEF Tables, Slots
    <3> HIDE DEF r, f
    <3>4. Steps(n, s, i) <= Steps(n, s, z)
      BY <1>1, <1>2, <2>1, <2>2, <2>6, MoveStays
    <3>5. Distinct(r, n)
      <4>1. SUFFICES ASSUME NEW x \in Indices(n), NEW y \in Indices(n), r[x] # None, r[x] = r[y]
                     PROVE  x = y
        BY DEF Distinct
      <4>2. x # i /\ y # i
        BY <4>1, <3>3
      <4>3. \A w \in Indices(n) : w # i /\ w # p => r[w] # k
        BY <3>3, <1>1, <1>2, <2>1 DEF Distinct
      <4> QED BY <4>1, <4>2, <4>3, <3>3, <1>2 DEF Distinct
    <3>6. OrderedBut(r, n, z, i)
      <4>1. SUFFICES ASSUME NEW y \in Indices(n), r[y] # None
                     PROVE  /\ ~ Before(r, n, z, y)
                            /\ \A x \in Indices(n) : Before(r, n, x, y) => r[x] # None \/ x = i
        BY DEF OrderedBut
      <4>2. CASE y = p
        <5>1. \A x \in Indices(n) : Before(r, n, x, y) =>
                Steps(n, h, x) < Steps(n, h, p) /\ Steps(n, h, x) < Steps(n, h, i)
          BY <4>2, <3>3, <2>6, <2>1, <1>1, StepsApart DEF Before
        <5>2. ~ Before(r, n, z, y)
          BY <5>1, <2>2
        <5>3. ASSUME NEW x \in Indices(n), Before(r, n, x, y) PROVE r[x] # None
          <6>1. x # p /\ x # i
            BY <5>1, <5>3, <2>1, <1>1, StepsApart
          <6> QED BY <6>1, <5>1, <5>3, <2>2, <3>3
        <5> QED BY <5>2, <5>3
      <4>3. CASE y # p
        <5>1. y # i /\ r[y] = t[y] /\ t[y] # None
          BY <4>1, <4>3, <3>3
        <5>2. ~ Before(t, n, z, y) /\ \A x \in Indices(n) : Before(t, n, x, y) => t[x] # None \/ x = p
          BY <5>1, <1>2 DEF OrderedBut
        <5>3. \A x \in Indices(n) : Before(r, n, x, y) <=> Before(t, n, x, y)
          BY <5>1 DEF Before
        <5> QED BY <5>2, <5>3, <3>3, <2>1
      <4> QED BY <4>2, <4>3
    <3>7. ASSUME NEW y \in Indices(n), r[y] # None, Steps(n, s, y) < j + 1
          PROVE  ~ Before(r, n, i, y)
      <4>1. y # i
        BY <3>7, <3>3
      <4>2. Steps(n, s, y) < Steps(n, s, i)
        BY <4>1, <3>7, <1>4, <1>1
      <4>3. r[y] \in Keys /\ Home(n, r[y]) \in Indices(n)
        BY <3>7, <3>3, ProbeIs DEF Tables, Slots
      <4>4. ~ (Steps(n, Home(n, r[y]), z) < Steps(n, Home(n, r[y]), y))
        BY <3>6, <3>7 DEF OrderedBut, Before
      <4>5. ~ (Steps(n, Home(n, r[y]), i) < Steps(n, Home(n, r[y]), y))
        BY <4>2, <4>3, <4>4, <3>4, <1>1, SettledStays
      <4> QED BY <4>5 DEF Before
    <3>8. Steps(n, s, i) < j + 1
      BY <1>1
    <3>9. FillInv(Filled(a, i), n, s, z, j + 1, i)
      BY <2>5, <3>3, <3>4, <3>5, <3>6, <3>7, <3>8 DEF FillInv
    <3>10. \A key \in Keys : Held(r, key) <=> Held(t, key)
      <4>1. DOMAIN r = Indices(n) /\ DOMAIN t = Indices(n)
        BY <3>3, <1>2, CapacityIs
      <4>2. ASSUME NEW key \in Keys, Held(r, key) PROVE Held(t, key)
        <5>1. PICK y \in Indices(n) : r[y] = key
          BY <4>1, <4>2 DEF Held
        <5>2. y # i
          BY <5>1, <3>3, KeyIsNumber
        <5> QED BY <5>1, <5>2, <4>1, <3>3, <1>1 DEF Held
      <4>3. ASSUME NEW key \in Keys, Held(t, key) PROVE Held(r, key)
        <5>1. PICK y \in Indices(n) : t[y] = key
          BY <4>1, <4>3 DEF Held
        <5>2. y # p
          BY <5>1, <1>2, KeyIsNumber
        <5> QED BY <5>1, <5>2, <4>1, <3>3 DEF Held
      <4> QED BY <4>2, <4>3
    <3> QED BY <1>1, <2>5, <3>9, <3>10 DEF i
  <2>7. CASE ~ (Steps(n, h, p) < Steps(n, h, i))
    <3>1. f = i
      <4>1. \A x \in Indices(n) : Steps(n, h, x) < Steps(n, h, i) => t[x] \notin {None, k}
        BY <2>2, <2>3, <2>7
      <4>2. t[i] \in {None, k}
        OBVIOUS
      <4> HIDE DEF k
      <4> QED BY <4>1, <4>2, <1>1, <1>2, <2>1, FindIsThere
    <3>2. r = t
      <4> HIDE DEF f
      <4> QED BY <3>1, <1>1, <1>2 DEF Tables
    <3>3. Filled(a, i).t = t /\ Filled(a, i).on = TRUE
      BY <2>5, <3>2
    <3>4. ASSUME NEW y \in Indices(n), t[y] # None, Steps(n, s, y) < j + 1
          PROVE  ~ Before(t, n, p, y)
      <4>1. CASE y = i
        BY <4>1, <2>7 DEF Before
      <4>2. CASE y # i
        <5>1. Steps(n, s, y) < j
          BY <4>2, <3>4, <1>4
        <5> QED BY <5>1, <3>4, <1>2
      <4> QED BY <4>1, <4>2
    <3>5. Steps(n, s, p) < j + 1
      BY <1>2, <1>4
    <3>6. FillInv(Filled(a, i), n, s, z, j + 1, p)
      BY <3>3, <3>4, <3>5, <1>2 DEF FillInv
    <3> QED BY <3>3, <3>6 DEF i
  <2> QED BY <2>6, <2>7
<1> QED BY <1>5, <1>6, <1>7

\* All rounds.
LEMMA HoleRun ==
  ASSUME NEW n \in Nat \ {0}, NEW t \in Tables(n), NEW s \in Indices(n)
  PROVE  \E f \in [0 .. n - 1 -> States(n)] :
           /\ f[0] = [t |-> t, on |-> TRUE]
           /\ \A j \in Nat : j < n - 1 => f[j + 1] = Filled(f[j], (s + (j + 1)) % n)
           /\ HolesFilled(t, s) = f[n - 1].t
<1> DEFINE m == n - 1  T == States(n)  first == [t |-> t, on |-> TRUE]
           step == [j \in Nat |-> [x \in T |->
                      IF j < m THEN Filled(x, (s + (j + 1)) % n) ELSE x]]
           Def(r) == [j \in 0 .. m |-> IF j = 0 THEN first ELSE Filled(r[j - 1], (s + j) % n)]
           run == CHOOSE r : r = Def(r)
<1>0. m \in Nat
  OBVIOUS
<1>1. \A j \in Nat, x \in T : j < m => Filled(x, (s + (j + 1)) % n) \in T
  <2>1. ASSUME NEW j \in Nat, j < m, NEW x \in T PROVE Filled(x, (s + (j + 1)) % n) \in T
    <3>1. j + 1 \in Nat /\ j + 1 < n
      BY <2>1
    <3>2. (s + (j + 1)) % n \in Indices(n)
      BY <3>1, StepsOn
    <3> QED BY <3>2, FilledTyped
  <2> QED BY <2>1
<1>1a. first \in T
  BY DEF States
<1> HIDE DEF T, first
<1>2. step \in [Nat -> [T -> T]]
  <2> HIDE DEF m
  <2> QED BY <1>1
<1>2a. \A j \in Nat, x \in T : j < m => step[j][x] = Filled(x, (s + (j + 1)) % n)
  <2> HIDE DEF m
  <2> QED OBVIOUS
<1>7. HolesFilled(t, s) = run[m].t
  BY CapacityIs DEF HolesFilled, first
<1> HIDE DEF m
<1>3. PICK f \in [0 .. m -> T] :
        f[0] = first /\ \A j \in Nat : j < m => f[j + 1] = step[j][f[j]]
  <2> HIDE DEF step
  <2>1. Runs(T, first, m, step) # {}
    BY <1>0, <1>1a, <1>2, IterationExists
  <2> QED BY <2>1 DEF Runs
<1>4. \A j \in Nat : j < m => f[j + 1] = Filled(f[j], (s + (j + 1)) % n)
  <2> HIDE DEF step
  <2>1. ASSUME NEW j \in Nat, j < m PROVE f[j + 1] = Filled(f[j], (s + (j + 1)) % n)
    <3>1. j \in 0 .. m
      BY <2>1, <1>0
    <3>2. f[j] \in T
      BY <3>1, <1>3
    <3> QED BY <3>2, <2>1, <1>2a, <1>3
  <2> QED BY <2>1
<1>5. f = Def(f)
  <2>1. ASSUME NEW j \in 0 .. m PROVE f[j] = Def(f)[j]
    <3>1. CASE j = 0
      BY <3>1, <1>3
    <3>2. CASE j # 0
      <4>1. j - 1 \in Nat /\ j - 1 < m /\ (j - 1) + 1 = j
        BY <3>2, <1>0
      <4>2. f[j] = Filled(f[j - 1], (s + j) % n)
        BY <4>1, <1>4
      <4> QED BY <4>2, <3>2
    <3> QED BY <3>1, <3>2
  <2>2. f = [j \in 0 .. m |-> f[j]]
    BY <1>3
  <2> QED BY <2>1, <2>2
<1>6. run = Def(run)
  <2> HIDE DEF Def
  <2> QED BY <1>5
<1> HIDE DEF run
<1>8. \A j \in Nat : j < m => run[j + 1] = Filled(run[j], (s + (j + 1)) % n)
  <2>1. ASSUME NEW j \in Nat, j < m PROVE run[j + 1] = Filled(run[j], (s + (j + 1)) % n)
    <3>1. j + 1 \in 0 .. m /\ j + 1 # 0 /\ (j + 1) - 1 = j
      BY <2>1, <1>0
    <3>2. run[j + 1] = Def(run)[j + 1]
      BY <1>6
    <3>3. Def(run)[j + 1] = Filled(run[j], (s + (j + 1)) % n)
      BY <3>1
    <3> QED BY <3>2, <3>3
  <2> QED BY <2>1
<1>9. run[0] = first
  <2>1. 0 \in 0 .. m
    BY <1>0
  <2>2. Def(run)[0] = first
    BY <2>1
  <2> QED BY <2>2, <1>6
<1>10. \A j \in 0 .. m : run[j] = f[j]
  <2> DEFINE S == {j \in Nat : run[j] = f[j]}
  <2>1. 0 \in S
    BY <1>3, <1>9
  <2>2. \A j \in Nat : j < m /\ j \in S => j + 1 \in S
    BY <1>4, <1>8
  <2> HIDE DEF S
  <2>3. \A j \in 0 .. m : j \in S
    BY <1>0, <2>1, <2>2, BoundedInduction
  <2> QED BY <2>3 DEF S
<1>11. HolesFilled(t, s) = f[m].t
  BY <1>7, <1>10, <1>0
<1> QED BY <1>3, <1>4, <1>11 DEF T, first, m

\* Deleting takes away one key and no other, and leaves a good table.
LEMMA HolesFilledIs ==
  ASSUME NEW n \in Nat \ {0}, NEW t, Good(t, n), NEW s \in Indices(n), t[s] # None
  PROVE  /\ Good(HolesFilled([t EXCEPT ![s] = None], s), n)
         /\ \A key \in Keys : Held(HolesFilled([t EXCEPT ![s] = None], s), key)
                                <=> Held(t, key) /\ key # t[s]
<1> DEFINE u == [t EXCEPT ![s] = None]  m == n - 1
<1>1. t \in Tables(n) /\ Distinct(t, n) /\ DOMAIN t = Indices(n)
  BY CapacityIs DEF Good
<1>2. PICK z \in Indices(n) : Ordered(t, n, z)
  BY DEF Good
<1>3. /\ u \in Tables(n) /\ u[s] = None /\ \A i \in Indices(n) : i # s => u[i] = t[i]
  BY <1>1 DEF Tables, Slots
<1> HIDE DEF u
<1>4. PICK f \in [0 .. n - 1 -> States(n)] :
        /\ f[0] = [t |-> u, on |-> TRUE]
        /\ \A j \in Nat : j < n - 1 => f[j + 1] = Filled(f[j], (s + (j + 1)) % n)
        /\ HolesFilled(u, s) = f[n - 1].t
  BY <1>3, HoleRun
<1>5. FillInv(f[0], n, s, z, 1, s)
  <2>1. f[0].t = u /\ f[0].on = TRUE
    BY <1>4
  <2>2. Distinct(u, n)
    BY <1>1, <1>3 DEF Distinct
  <2>3. OrderedBut(u, n, z, s)
    BY <1>2, <1>3 DEF OrderedBut, Ordered, Before
  <2>4. /\ Steps(n, s, s) = 0 /\ Steps(n, s, z) \in Nat
        /\ \A i \in Indices(n) : Steps(n, s, i) < 1 => i = s
    BY DEF Steps, Indices
  <2> QED BY <2>1, <2>2, <2>3, <2>4, <1>3 DEF FillInv
<1> DEFINE Part(j) == /\ \E p \in Indices(n) : FillInv(f[j], n, s, z, j + 1, p)
                      /\ \A key \in Keys : Held(f[j].t, key) <=> Held(u, key)
           S == {j \in Nat : j <= m => Part(j)}
<1>6. m \in Nat /\ m + 1 = n
  OBVIOUS
<1>7. 0 \in S
  <2>1. 0 + 1 = 1 /\ f[0].t = u
    BY <1>4
  <2> QED BY <2>1, <1>5
<1>8. ASSUME NEW j \in Nat, j < m, j \in S PROVE j + 1 \in S
  <2>1. Part(j) /\ j \in 0 .. n - 1
    BY <1>8
  <2>2. PICK p \in Indices(n) : FillInv(f[j], n, s, z, j + 1, p)
    BY <2>1
  <2>3. f[j + 1] = Filled(f[j], (s + (j + 1)) % n) /\ f[j] \in States(n)
    BY <1>4, <1>8, <2>1
  <2>4. j + 1 \in Nat /\ j + 1 < n
    BY <1>8
  <2>5. \E q \in Indices(n) :
          /\ FillInv(f[j + 1], n, s, z, (j + 1) + 1, q)
          /\ \A key \in Keys : Held(f[j + 1].t, key) <=> Held(f[j].t, key)
    <3> DEFINE l == j + 1  a == f[j]
    <3>1. l \in Nat /\ l < n /\ a \in States(n) /\ FillInv(a, n, s, z, l, p)
      BY <2>2, <2>3, <2>4
    <3> HIDE DEF l, a
    <3>2. \E q \in Indices(n) :
            /\ FillInv(Filled(a, (s + l) % n), n, s, z, l + 1, q)
            /\ \A key \in Keys : Held(Filled(a, (s + l) % n).t, key) <=> Held(a.t, key)
      BY <3>1, FillStep
    <3>3. f[j + 1] = Filled(a, (s + l) % n)
      BY <2>3 DEF a, l
    <3> QED BY <3>2, <3>3 DEF a, l
  <2>6. Part(j + 1)
    BY <2>1, <2>5
  <2> HIDE DEF Part
  <2> QED BY <2>6
<1> HIDE DEF S, m, Part
<1>9. \A j \in 0 .. m : j \in S
  BY <1>6, <1>7, <1>8, BoundedInduction
<1>10. Part(m)
  BY <1>6, <1>9 DEF S
<1> DEFINE r == HolesFilled(u, s)
<1>11. r = f[m].t
  BY <1>4 DEF m
<1>12. PICK p \in Indices(n) : FillInv(f[m], n, s, z, n, p)
  BY <1>6, <1>10 DEF Part
<1> HIDE DEF r
<1>13. /\ r \in Tables(n) /\ Distinct(r, n) /\ OrderedBut(r, n, z, p)
       /\ \A i \in Indices(n) : r[i] # None /\ Steps(n, s, i) < n => ~ Before(r, n, p, i)
  BY <1>11, <1>12 DEF FillInv
<1>14. Ordered(r, n, z)
  <2>1. \A i \in Indices(n) : Steps(n, s, i) < n
    BY StepsApart
  <2> QED BY <2>1, <1>13 DEF Ordered, OrderedBut
<1>15. Good(r, n)
  BY <1>13, <1>14 DEF Good
<1>16. \A key \in Keys : Held(r, key) <=> Held(u, key)
  BY <1>10, <1>11 DEF Part
<1>17. ASSUME NEW key \in Keys PROVE Held(u, key) <=> Held(t, key) /\ key # t[s]
  <2>1. DOMAIN u = Indices(n) /\ key # None
    BY <1>3, CapacityIs, KeyIsNumber
  <2>2. ASSUME Held(u, key) PROVE Held(t, key) /\ key # t[s]
    <3>1. PICK i \in Indices(n) : u[i] = key
      BY <2>1, <2>2 DEF Held
    <3>2. i # s
      BY <3>1, <2>1, <1>3
    <3> QED BY <3>1, <3>2, <2>1, <1>1, <1>3 DEF Held, Distinct
  <2>3. ASSUME Held(t, key), key # t[s] PROVE Held(u, key)
    <3>1. PICK i \in Indices(n) : t[i] = key
      BY <1>1, <2>3 DEF Held
    <3> QED BY <3>1, <2>1, <2>3, <1>3 DEF Held
  <2> QED BY <2>2, <2>3
<1> QED BY <1>15, <1>16, <1>17 DEF r, u

-----------------------------------------------------------------------------
(* Every step. *)

HashInv ==
  /\ \E n \in Nat : slot \in Tables(n) /\ (n = 0 \/ Good(slot, n))
  /\ size \in Int

LEMMA GetsHeld ==
  ASSUME NEW n \in Nat, NEW t \in Tables(n), n = 0 \/ Good(t, n), NEW key \in Keys
  PROVE  Get(t, key) <=> Held(t, key)
<1>1. CASE n = 0
  <2>1. Indices(0) = {} /\ DOMAIN t = {} /\ Capacity(t) = 0
    BY <1>1, CapacityIs DEF Indices
  <2>2. Find(t, key) = NULL
    BY <2>1 DEF Find
  <2> QED BY <2>1, <2>2 DEF Get, Held
<1>2. CASE n # 0
  BY <1>2, GetIs
<1> QED BY <1>1, <1>2

\* The table that a key is looked for in, when a resize has been made or not.
LEMMA AfterIs ==
  ASSUME HashInv, NEW n \in Nat \ {0}, ResizeFits(slot, n)
  PROVE  /\ Good(After(n).t, n) /\ After(n).size \in Int
         /\ \A key \in Keys : Held(After(n).t, key) <=> Held(slot, key)
<1>1. PICK m \in Nat : slot \in Tables(m) /\ (m = 0 \/ Good(slot, m))
  BY DEF HashInv
<1>2. Capacity(slot) = m
  BY <1>1, CapacityIs
<1>3. CASE n = m
  <2>1. After(n) = [t |-> slot, size |-> size]
    BY <1>2, <1>3 DEF After
  <2>2. Good(slot, n)
    BY <1>1, <1>3
  <2>3. size \in Int
    BY DEF HashInv
  <2> QED BY <2>1, <2>2, <2>3
<1>4. CASE n # m
  <2>1. After(n) = [t |-> Resized(slot, n), size |-> 0]
    BY <1>2, <1>4 DEF After
  <2>2. /\ Good(Resized(slot, n), n)
        /\ \A key \in Keys : Held(Resized(slot, n), key) <=> Held(slot, key)
    BY <1>1, ResizedIs
  <2> QED BY <2>1, <2>2
<1> QED BY <1>3, <1>4

LEMMA CapacitiesAre ==
  ASSUME HashInv
  PROVE  /\ Capacity(slot) \in Nat /\ GrownTo \in Nat \ {0}
         /\ Capacity(slot) > 0 => ShrunkTo \in Nat \ {0}
<1>1. PICK m \in Nat : slot \in Tables(m)
  BY DEF HashInv
<1>2. Capacity(slot) = m
  BY <1>1, CapacityIs
<1>3. MinTable \in Nat /\ MinTable > 1 /\ size \in Int
  BY TableAssumption DEF HashInv
<1>4. GrownTo \in Nat \ {0}
  BY <1>2, <1>3 DEF GrownTo
<1>5. ASSUME m > 0 PROVE ShrunkTo \in Nat \ {0}
  BY <1>2, <1>3, <1>5 DEF ShrunkTo
<1> QED BY <1>2, <1>4, <1>5

LEMMA SetStep ==
  ASSUME HashInv, NEW key \in Keys, Set(key), ~ Fault
  PROVE  HashInv' /\ \A other \in Keys : Held(slot', other) <=> Held(slot, other) \/ other = key
<1> DEFINE n == GrownTo  a == After(n)  i == Find(a.t, key)
<1>1. /\ ResizeFits(slot, n) /\ i # NULL
      /\ slot' = [a.t EXCEPT ![i] = key]
      /\ size' = IF a.t[i] = None THEN a.size + 1 ELSE a.size
  BY DEF Set
<1>2. n \in Nat \ {0}
  BY CapacitiesAre
<1> HIDE DEF n
<1>3. /\ Good(a.t, n) /\ a.size \in Int
      /\ \A other \in Keys : Held(a.t, other) <=> Held(slot, other)
  BY <1>1, <1>2, AfterIs
<1> HIDE DEF a
<1>4. /\ Good(slot', n)
      /\ \A other \in Keys : Held(slot', other) <=> Held(a.t, other) \/ other = key
  <2> DEFINE t == a.t
  <2>1. Good(t, n) /\ Find(t, key) # NULL /\ slot' = [t EXCEPT ![Find(t, key)] = key]
    BY <1>1, <1>3
  <2> HIDE DEF t
  <2>2. /\ Good(slot', n)
        /\ \A other \in Keys : Held(slot', other) <=> Held(t, other) \/ other = key
    BY <2>1, <1>2, StoredHeld
  <2> QED BY <2>2 DEF t
<1>5. size' \in Int
  BY <1>1, <1>3
<1>6. HashInv'
  BY <1>2, <1>4, <1>5 DEF HashInv, Good
<1> QED BY <1>3, <1>4, <1>6

LEMMA DeleteStep ==
  ASSUME HashInv, NEW key \in Keys, Delete(key), ~ Fault
  PROVE  HashInv' /\ \A other \in Keys : Held(slot', other) <=> Held(slot, other) /\ other # key
<1> DEFINE n == ShrunkTo  a == After(n)  i == Find(a.t, key)
<1>1. /\ Capacity(slot) > 0 /\ ResizeFits(slot, n) /\ i # NULL
      /\ slot' = IF a.t[i] = None THEN a.t ELSE HolesFilled([a.t EXCEPT ![i] = None], i)
      /\ size' = IF a.t[i] = None THEN a.size ELSE a.size - 1
  BY DEF Delete
<1>2. n \in Nat \ {0}
  BY <1>1, CapacitiesAre
<1> HIDE DEF n
<1>3. /\ Good(a.t, n) /\ a.size \in Int
      /\ \A other \in Keys : Held(a.t, other) <=> Held(slot, other)
  BY <1>1, <1>2, AfterIs
<1> HIDE DEF a
<1> DEFINE t == a.t
<1>4. Good(t, n) /\ i = Find(t, key) /\ i # NULL
  BY <1>1, <1>3
<1>5. i \in Indices(n) /\ t[i] \in {None, key}
  BY <1>2, <1>4, FindIs DEF Good
<1>6. size' \in Int
  BY <1>1, <1>3
<1>7. /\ Good(slot', n)
      /\ \A other \in Keys : Held(slot', other) <=> Held(t, other) /\ other # key
  <2>1. CASE t[i] = None
    <3>1. slot' = t
      BY <1>1, <2>1
    <3>2. key # None
      BY KeyIsNumber
    <3> HIDE DEF t
    <3>3. ~ Get(t, key)
      BY <1>4, <2>1, <3>2 DEF Get
    <3>4. ~ Held(t, key)
      BY <1>2, <1>4, <3>3, GetIs
    <3> QED BY <1>4, <3>1, <3>4
  <2>2. CASE t[i] # None
    <3>1. slot' = HolesFilled([t EXCEPT ![i] = None], i)
      BY <1>1, <2>2
    <3>2. t[i] = key
      BY <1>5, <2>2
    <3> HIDE DEF t, i
    <3> QED BY <1>2, <1>4, <1>5, <2>2, <3>1, <3>2, HolesFilledIs
  <2> QED BY <2>1, <2>2
<1>8. HashInv'
  BY <1>2, <1>6, <1>7 DEF HashInv, Good
<1> QED BY <1>3, <1>7, <1>8

LEMMA HashStep ==
  ASSUME HashInv, [HashNext]_hashVars
  PROVE  /\ HashInv'
         /\ \/ \A other \in Keys : Held(slot', other) <=> Held(slot, other)
            \/ \E key \in Keys : \A other \in Keys :
                 Held(slot', other) <=> Held(slot, other) \/ other = key
            \/ \E key \in Keys : \A other \in Keys :
                 Held(slot', other) <=> Held(slot, other) /\ other # key
            \/ \A other \in Keys : ~ Held(slot', other)
<1>1. CASE UNCHANGED <<slot, size>>
  BY <1>1 DEF HashInv
<1>2. ASSUME NEW key \in Keys, AskFails(key) \/ Fault PROVE UNCHANGED <<slot, size>>
  BY <1>2 DEF AskFails, Fault
<1>3. ASSUME NEW key \in Keys, Set(key)
      PROVE  \/ UNCHANGED <<slot, size>>
             \/ HashInv' /\ \A other \in Keys :
                  Held(slot', other) <=> Held(slot, other) \/ other = key
  <2>1. CASE Fault
    BY <2>1 DEF Fault
  <2>2. CASE ~ Fault
    BY <1>3, <2>2, SetStep
  <2> QED BY <2>1, <2>2
<1>4. ASSUME NEW key \in Keys, Delete(key)
      PROVE  \/ UNCHANGED <<slot, size>>
             \/ HashInv' /\ \A other \in Keys :
                  Held(slot', other) <=> Held(slot, other) /\ other # key
  <2>1. CASE Fault
    BY <2>1 DEF Fault
  <2>2. CASE ~ Fault
    BY <1>4, <2>2, DeleteStep
  <2> QED BY <2>1, <2>2
<1>5. ASSUME Free PROVE HashInv' /\ \A other \in Keys : ~ Held(slot', other)
  <2>1. slot' = Unused(0) /\ size' = 0
    BY <1>5 DEF Free
  <2>2. Indices(0) = {}
    BY DEF Indices
  <2>3. Unused(0) \in Tables(0) /\ DOMAIN Unused(0) = {}
    BY <2>2 DEF Unused, Tables
  <2> QED BY <2>1, <2>3 DEF HashInv, Held
<1>6. CASE HashNext
  BY <1>1, <1>2, <1>3, <1>4, <1>5, <1>6 DEF HashNext
<1>7. CASE UNCHANGED hashVars
  BY <1>1, <1>7 DEF hashVars
<1> QED BY <1>6, <1>7

LEMMA HashStarts == HashInit => HashInv /\ \A key \in Keys : ~ Held(slot, key)
<1>1. MinTable \in Nat \ {0}
  BY TableAssumption
<1>2. Good(Unused(MinTable), MinTable) /\ \A key \in Keys : ~ Held(Unused(MinTable), key)
  BY <1>1, EmptyGood
<1> QED BY <1>1, <1>2 DEF HashInit, HashInv, Good

LEMMA HashAlways == HashSpec => []HashInv
<1>1. HashInit => HashInv
  BY HashStarts
<1>2. HashInv /\ [HashNext]_hashVars => HashInv'
  BY HashStep
<1> QED BY <1>1, <1>2, PTL DEF HashSpec

\* However many keys are stored and deleted, and however the table grows, shrinks and
\* fills up: every entry is where the search for its key ends.
THEOREM EntriesReachable == HashSpec => []AllReachable
<1>1. HashInv => AllReachable
  <2> SUFFICES ASSUME HashInv, NEW i \in DOMAIN slot, slot[i] # None
               PROVE  Find(slot, slot[i]) = i
    BY DEF AllReachable
  <2>2. PICK n \in Nat : slot \in Tables(n) /\ (n = 0 \/ Good(slot, n))
    BY DEF HashInv
  <2>3. i \in Indices(n)
    BY <2>2, CapacityIs
  <2>4. n # 0
    BY <2>3 DEF Indices
  <2> QED BY <2>2, <2>3, <2>4, FoundWhere
<1> QED BY <1>1, HashAlways, PTL

\* The table is a set: resizing, deleting and filling holes neither lose a key nor bring
\* one back, for any keys, any multiplier and any smallest table.
THEOREM TableIsSet == HashSpec => ImplementsSet
<1> DEFINE held == {key \in Keys : Get(slot, key)}
<1>1. HashInit => Abstract!Init
  <2> SUFFICES ASSUME HashInit PROVE held = {}
    BY DEF Abstract!Init
  <2>1. PICK n \in Nat : slot \in Tables(n) /\ (n = 0 \/ Good(slot, n))
    BY HashStarts DEF HashInv
  <2>2. \A key \in Keys : ~ Get(slot, key)
    BY <2>1, HashStarts, GetsHeld
  <2> QED BY <2>2
<1>2. HashInv /\ [HashNext]_hashVars /\ HashInv' => [Abstract!Next]_held
  <2> SUFFICES ASSUME HashInv, [HashNext]_hashVars, HashInv' PROVE [Abstract!Next]_held
    OBVIOUS
  <2>1. \A key \in Keys : key \in held <=> Held(slot, key)
    <3>1. PICK n \in Nat : slot \in Tables(n) /\ (n = 0 \/ Good(slot, n))
      BY DEF HashInv
    <3>2. \A key \in Keys : Get(slot, key) <=> Held(slot, key)
      BY <3>1, GetsHeld
    <3> QED BY <3>2
  <2>2. \A key \in Keys : key \in held' <=> Held(slot', key)
    <3>1. PICK n \in Nat : slot' \in Tables(n) /\ (n = 0 \/ Good(slot', n))
      BY DEF HashInv
    <3>2. \A key \in Keys : Get(slot', key) <=> Held(slot', key)
      BY <3>1, GetsHeld
    <3> QED BY <3>2
  <2>3. held \subseteq Keys /\ held' \subseteq Keys
    OBVIOUS
  <2> HIDE DEF held
  <2>4. CASE \A other \in Keys : Held(slot', other) <=> Held(slot, other)
    <3>1. held' = held
      BY <2>1, <2>2, <2>3, <2>4
    <3> QED BY <3>1
  <2>5. ASSUME NEW key \in Keys,
               \A other \in Keys : Held(slot', other) <=> Held(slot, other) \/ other = key
        PROVE  Abstract!Next
    <3>1. held' = held \cup {key}
      BY <2>1, <2>2, <2>3, <2>5
    <3> QED BY <3>1 DEF Abstract!Next, Abstract!Set, held
  <2>6. ASSUME NEW key \in Keys,
               \A other \in Keys : Held(slot', other) <=> Held(slot, other) /\ other # key
        PROVE  Abstract!Next
    <3>1. held' = held \ {key}
      BY <2>1, <2>2, <2>3, <2>6
    <3> QED BY <3>1 DEF Abstract!Next, Abstract!Delete, held
  <2>7. CASE \A other \in Keys : ~ Held(slot', other)
    <3>1. held' = {}
      BY <2>2, <2>3, <2>7
    <3> QED BY <3>1 DEF Abstract!Next, Abstract!Free, held
  <2> QED BY <2>4, <2>5, <2>6, <2>7, HashStep
<1> QED BY <1>1, <1>2, HashAlways, PTL DEF HashSpec, ImplementsSet, Abstract!Spec
=============================================================================
