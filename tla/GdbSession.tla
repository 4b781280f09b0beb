----------------------------- MODULE GdbSession -----------------------------
(***************************************************************************)
(* The remote debugger: gdb/gdb.c, gdb/protocol.c and vr4300/debug.c.      *)
(*                                                                         *)
(* Two threads share struct gdb and the CPU's struct vr4300_debug. The     *)
(* CPU's thread searches the breakpoints in every cycle; when it is to     *)
(* stop it reports to the client and waits on client_semaphore, which is a *)
(* condition variable. The debugger's thread first waits on the same one   *)
(* for the first breakpoint, and from then on reads packets.               *)
(*                                                                         *)
(* flags and the table of breakpoints are shared without a lock: a         *)
(* modification of flags is a load and a store, a change of the table and  *)
(* a search of it take time.                                               *)
(*                                                                         *)
(* The client is external. It does what a debugger does: it sends packets  *)
(* while it believes the CPU to be stopped, one at a time, and Control-C   *)
(* while it believes it to be running.                                     *)
(***************************************************************************)
EXTENDS Integers, Sequences

CONSTANTS
  Addresses,      \* program counters to explore
  InitialPc,      \* 0xFFFFFFFF80000000, where gdb_init sets a breakpoint
  LateBoot,       \* the CPU comes to InitialPc after the other thread waits
  PatientClient,  \* the client resumes the CPU only when the CPU waits
  SeparateReads,  \* a recv returns what one send sent
  GdbMaxSpurious  \* bound on condition waits that return by themselves

ASSUME SessionAssumption ==
  /\ InitialPc \in Addresses
  /\ LateBoot \in BOOLEAN /\ PatientClient \in BOOLEAN /\ SeparateReads \in BOOLEAN
  /\ GdbMaxSpurious \in Nat

VARIABLES
  flags,             \* gdb->flags
  client_mutex,      \* the thread that holds it, or "free"
  client_semaphore,  \* the threads that wait on it
  breakpoints,       \* debug->breakpoints
  signals,           \* debug->signals has VR4300_DEBUG_SIGNALS_BREAK
  break_handler,     \* debug->break_handler is set
  at,                \* where each thread is
  loaded,            \* the new value of flags that each thread will store
  cpc,               \* the program counter that is searched for
  wire,              \* sent by the client and not received
  packet_buffer,     \* received and not handled
  replies,           \* sent to the client and not received
  client,            \* what the client believes and waits for
  interrupted,       \* the client has sent a break since the CPU ran
  woken              \* history: waits that returned by themselves

shared == <<flags, client_mutex, client_semaphore>>
debug == <<breakpoints, signals, break_handler, cpc>>
link == <<wire, packet_buffer, replies>>
outside == <<client, interrupted>>

gdbVars == <<shared, debug, at, loaded, link, outside, woken>>

GdbThreads == {"cpu", "gdb"}

Flags == {"INITIAL", "CONNECTED", "PAUSED"}

\* A Control-C, or a packet: vCont;c, vCont;t, one that only asks (?, g, m, q),
\* D, vKill, Z0 and z0.
Token(kind, address) == [kind |-> kind, address |-> address]

Plain(kind) == Token(kind, InitialPc)

Tokens == [kind : {"break", "continue", "stop", "ask", "detach", "kill", "set", "clear"},
           address : Addresses]

GdbInit ==
  /\ flags = {"INITIAL", "CONNECTED"}
  /\ client_mutex = "free"
  /\ client_semaphore = {}
  /\ breakpoints = {InitialPc}
  /\ signals = FALSE
  /\ break_handler = TRUE
  /\ at = [cpu |-> "run", gdb |-> "start"]
  /\ loaded = [t \in GdbThreads |-> {}]
  /\ cpc = InitialPc
  /\ wire = <<Plain("ask")>>
  /\ packet_buffer = <<>>
  /\ replies = <<>>
  /\ client = "asks"
  /\ interrupted = FALSE
  /\ woken = 0

Moves(t, from, to) == at[t] = from /\ at' = [at EXCEPT ![t] = to]

Load(t, value) == loaded' = [loaded EXCEPT ![t] = value]

\* cen64_cv_wait, up to where it sleeps.
Wait(t, from) ==
  /\ Moves(t, from, "waiting")
  /\ client_semaphore' = client_semaphore \cup {t}
  /\ client_mutex' = "free"

\* cen64_cv_signal, by thread t, which goes on at next.
Signal(t, next) ==
  \/ /\ client_semaphore = {}
     /\ at' = [at EXCEPT ![t] = next]
     /\ UNCHANGED client_semaphore
  \/ \E u \in client_semaphore :
       /\ at' = [at EXCEPT ![t] = next, ![u] = "woken"]
       /\ client_semaphore' = client_semaphore \ {u}

GdbSpurious ==
  /\ woken < GdbMaxSpurious
  /\ woken' = woken + 1
  /\ \E t \in client_semaphore :
       /\ client_semaphore' = client_semaphore \ {t}
       /\ at' = [at EXCEPT ![t] = "woken"]
  /\ UNCHANGED <<flags, client_mutex, debug, loaded, link, outside>>

-----------------------------------------------------------------------------
(* The CPU's thread. *)

BootOrder == LateBoot /\ "INITIAL" \in flags => "gdb" \in client_semaphore

\* vr4300_cycle_ calls vr4300_debug_check_breakpoints with the address of the
\* instruction it completed.
CpuCycle(address) ==
  /\ break_handler
  /\ address = InitialPc => BootOrder
  /\ Moves("cpu", "run", "search")
  /\ cpc' = address
  /\ UNCHANGED <<shared, breakpoints, signals, break_handler, loaded, link, outside, woken>>

\* A search during a change of the table may come out either way.
Found == IF at["gdb"] = "table" THEN BOOLEAN ELSE {cpc \in breakpoints}

CpuSearch ==
  /\ at["cpu"] = "search"
  /\ \E found \in Found :
       IF found \/ signals THEN signals' = FALSE /\ at' = [at EXCEPT !["cpu"] = "handler"]
       ELSE UNCHANGED signals /\ at' = [at EXCEPT !["cpu"] = "run"]
  /\ UNCHANGED <<shared, breakpoints, break_handler, cpc, loaded, link, outside, woken>>

\* vr4300_debug_exception calls the handler whatever the breakpoints are.
CpuException ==
  /\ break_handler
  /\ BootOrder
  /\ Moves("cpu", "run", "handler")
  /\ UNCHANGED <<shared, debug, loaded, link, outside, woken>>

\* gdb_handle_breakpoint: who is told.
CpuNotConnected ==
  /\ "CONNECTED" \notin flags
  /\ Moves("cpu", "handler", "run")
  /\ UNCHANGED <<shared, debug, loaded, link, outside, woken>>

CpuFirstStop ==
  /\ {"CONNECTED", "INITIAL"} \subseteq flags
  /\ Moves("cpu", "handler", "first")
  /\ Load("cpu", flags \ {"INITIAL"})
  /\ UNCHANGED <<shared, debug, link, outside, woken>>

CpuLaterStop ==
  /\ "CONNECTED" \in flags /\ "INITIAL" \notin flags
  /\ Moves("cpu", "handler", "reply")
  /\ UNCHANGED <<shared, debug, loaded, link, outside, woken>>

CpuRemoveInitial ==
  /\ Moves("cpu", "first", "signal")
  /\ flags' = loaded["cpu"]
  /\ breakpoints' = breakpoints \ {InitialPc}
  /\ UNCHANGED <<client_mutex, client_semaphore, signals, break_handler, cpc, loaded,
                 link, outside, woken>>

CpuSignalFirst ==
  /\ at["cpu"] = "signal"
  /\ Signal("cpu", "lock")
  /\ UNCHANGED <<flags, client_mutex, debug, loaded, link, outside, woken>>

CpuReply ==
  /\ Moves("cpu", "reply", "lock")
  /\ replies' = Append(replies, "stop")
  /\ UNCHANGED <<shared, debug, loaded, wire, packet_buffer, outside, woken>>

CpuLock ==
  /\ client_mutex = "free"
  /\ client_mutex' = "cpu"
  /\ Moves("cpu", "lock", "pause")
  /\ Load("cpu", flags \cup {"PAUSED"})
  /\ UNCHANGED <<flags, client_semaphore, debug, link, outside, woken>>

CpuPause ==
  /\ flags' = loaded["cpu"]
  /\ Wait("cpu", "pause")
  /\ UNCHANGED <<debug, loaded, link, outside, woken>>

\* The wait takes the mutex again, and cen64_cv_wait releases it.
CpuWoken ==
  /\ client_mutex = "free"
  /\ Moves("cpu", "woken", "resume")
  /\ Load("cpu", flags \ {"PAUSED"})
  /\ UNCHANGED <<shared, debug, link, outside, woken>>

CpuResume ==
  /\ Moves("cpu", "resume", "run")
  /\ flags' = loaded["cpu"]
  /\ break_handler' = ("CONNECTED" \in loaded["cpu"])
  /\ UNCHANGED <<client_mutex, client_semaphore, breakpoints, signals, cpc, loaded, link,
                 outside, woken>>

CpuStep ==
  \/ \E address \in Addresses : CpuCycle(address)
  \/ CpuSearch \/ CpuException
  \/ CpuNotConnected \/ CpuFirstStop \/ CpuLaterStop
  \/ CpuRemoveInitial \/ CpuSignalFirst \/ CpuReply
  \/ CpuLock \/ CpuPause \/ CpuWoken \/ CpuResume

-----------------------------------------------------------------------------
(* The debugger's thread: gdb_thread. *)

GdbLock ==
  /\ client_mutex = "free"
  /\ client_mutex' = "gdb"
  /\ Moves("gdb", "start", "test")
  /\ UNCHANGED <<flags, client_semaphore, debug, loaded, link, outside, woken>>

\* Mutant of GdbTest: the thread does not wait.
GdbTestNoWait ==
  /\ Moves("gdb", "test", "loop")
  /\ UNCHANGED <<shared, debug, loaded, link, outside, woken>>

\* When the first breakpoint has been hit already the mutex is locked again, by
\* the thread that holds it: "relock" is never left.
GdbTest ==
  /\ Moves("gdb", "test", IF "INITIAL" \in flags THEN "wait" ELSE "relock")
  /\ UNCHANGED <<shared, debug, loaded, link, outside, woken>>

GdbWait ==
  /\ Wait("gdb", "wait")
  /\ UNCHANGED <<flags, debug, loaded, link, outside, woken>>

GdbWoken ==
  /\ client_mutex = "free"
  /\ Moves("gdb", "woken", "loop")
  /\ UNCHANGED <<shared, debug, loaded, link, outside, woken>>

GdbLoop ==
  /\ Moves("gdb", "loop", IF "CONNECTED" \in flags THEN "read" ELSE "done")
  /\ UNCHANGED <<shared, debug, loaded, link, outside, woken>>

\* gdb_read: recv returns some of what has arrived, of several sends if they
\* have.
GdbRead ==
  /\ Moves("gdb", "read", "parse")
  /\ \E n \in 1 .. Len(wire) :
       /\ SeparateReads => n = 1
       /\ packet_buffer' = packet_buffer \o SubSeq(wire, 1, n)
       /\ wire' = SubSeq(wire, n + 1, Len(wire))
  /\ UNCHANGED <<shared, debug, loaded, replies, outside, woken>>

\* The client has closed the connection.
GdbReadEnd ==
  /\ wire = <<>> /\ client = "left"
  /\ Moves("gdb", "read", "drop")
  /\ Load("gdb", flags \ {"CONNECTED"})
  /\ UNCHANGED <<shared, debug, link, outside, woken>>

GdbDrop ==
  /\ Moves("gdb", "drop", "done")
  /\ flags' = loaded["gdb"]
  /\ UNCHANGED <<client_mutex, client_semaphore, debug, loaded, link, outside, woken>>

\* gdb_parse_packet finds the first packet.
IsPacket(i) ==
  /\ i \in DOMAIN packet_buffer
  /\ packet_buffer[i].kind # "break"
  /\ \A j \in 1 .. i - 1 : packet_buffer[j].kind = "break"

AtPacket(kinds) ==
  /\ at["gdb"] = "parse"
  /\ \E i \in DOMAIN packet_buffer : IsPacket(i) /\ packet_buffer[i].kind \in kinds

\* Mutant of GdbContinue: no signal.
GdbContinueNone ==
  /\ AtPacket({"continue"})
  /\ Moves("gdb", "parse", "scan")
  /\ UNCHANGED <<shared, debug, loaded, link, outside, woken>>

\* vCont;c has no answer but the next stop.
GdbContinue ==
  /\ AtPacket({"continue"})
  /\ Signal("gdb", "scan")
  /\ UNCHANGED <<flags, client_mutex, debug, loaded, link, outside, woken>>

\* vCont;t: vr4300_signal_break.
GdbStop ==
  /\ AtPacket({"stop"})
  /\ Moves("gdb", "parse", "scan")
  /\ signals' = TRUE
  /\ UNCHANGED <<shared, breakpoints, break_handler, cpc, loaded, link, outside, woken>>

\* An answer is put together in output_buffer, as the CPU's reply is.
GdbAsk ==
  /\ AtPacket({"ask"})
  /\ Moves("gdb", "parse", "answer")
  /\ UNCHANGED <<shared, debug, loaded, link, outside, woken>>

GdbAnswer ==
  /\ Moves("gdb", "answer", "scan")
  /\ replies' = Append(replies, "ok")
  /\ UNCHANGED <<shared, debug, loaded, wire, packet_buffer, outside, woken>>

GdbChange ==
  /\ AtPacket({"set", "clear"})
  /\ Moves("gdb", "parse", "table")
  /\ UNCHANGED <<shared, debug, loaded, link, outside, woken>>

GdbChanged ==
  /\ Moves("gdb", "table", "scan")
  /\ \E i \in DOMAIN packet_buffer :
       /\ IsPacket(i)
       /\ breakpoints' = IF packet_buffer[i].kind = "set"
                         THEN breakpoints \cup {packet_buffer[i].address}
                         ELSE breakpoints \ {packet_buffer[i].address}
  /\ replies' = Append(replies, "ok")
  /\ UNCHANGED <<shared, signals, break_handler, cpc, loaded, wire, packet_buffer, outside,
                 woken>>

\* D clears CONNECTED and answers; vKill clears PAUSED too and signals the CPU.
GdbLeave ==
  /\ AtPacket({"detach", "kill"})
  /\ IF AtPacket({"detach"})
     THEN Load("gdb", flags \ {"CONNECTED"}) /\ at' = [at EXCEPT !["gdb"] = "detach"]
     ELSE Load("gdb", flags \ {"CONNECTED", "PAUSED"}) /\ at' = [at EXCEPT !["gdb"] = "kill"]
  /\ UNCHANGED <<shared, debug, link, outside, woken>>

GdbDetach ==
  /\ Moves("gdb", "detach", "scan")
  /\ flags' = loaded["gdb"]
  /\ replies' = Append(replies, "ok")
  /\ UNCHANGED <<client_mutex, client_semaphore, debug, loaded, wire, packet_buffer, outside,
                 woken>>

GdbKill ==
  /\ at["gdb"] = "kill"
  /\ flags' = loaded["gdb"]
  /\ Signal("gdb", "scan")
  /\ replies' = Append(replies, "ok")
  /\ UNCHANGED <<client_mutex, debug, loaded, wire, packet_buffer, outside, woken>>

\* What gdb_mark_read leaves when the packet, or else everything, is handled.
Rest ==
  LET n == Len(packet_buffer)
  IN IF \E i \in 1 .. n : IsPacket(i)
     THEN SubSeq(packet_buffer, 1 + CHOOSE i \in 1 .. n : IsPacket(i), n)
     ELSE <<>>

BreakBeforePacket == packet_buffer # <<>> /\ packet_buffer[1].kind = "break"

\* The scan for Control-C, up to the packet that has been handled. There is one
\* pass for each recv: did_handle is never set.
GdbScan ==
  /\ \/ Moves("gdb", "scan", "loop")
     \/ ~AtPacket({k.kind : k \in Tokens}) /\ Moves("gdb", "parse", "loop")
  /\ signals' = (signals \/ BreakBeforePacket)
  /\ packet_buffer' = Rest
  /\ UNCHANGED <<shared, breakpoints, break_handler, cpc, loaded, wire, replies, outside,
                 woken>>

GdbStep ==
  \/ GdbLock \/ GdbTest \/ GdbWait \/ GdbWoken
  \/ GdbLoop \/ GdbRead \/ GdbReadEnd \/ GdbDrop
  \/ GdbContinue \/ GdbStop \/ GdbAsk \/ GdbAnswer \/ GdbChange \/ GdbChanged
  \/ GdbLeave \/ GdbDetach \/ GdbKill \/ GdbScan

-----------------------------------------------------------------------------
(* The client. *)

Receive ==
  /\ replies # <<>> /\ client # "left"
  /\ replies' = Tail(replies)
  /\ IF client = "leaving" THEN client' = "left" /\ UNCHANGED interrupted
     ELSE client' = "stopped" /\ interrupted' = FALSE
  /\ UNCHANGED <<shared, debug, at, loaded, wire, packet_buffer, woken>>

Send(token, next) ==
  /\ wire' = Append(wire, token)
  /\ client' = next
  /\ UNCHANGED <<shared, debug, at, loaded, packet_buffer, replies, woken>>

Ask ==
  /\ client = "stopped"
  /\ \/ Send(Plain("ask"), "asks")
     \/ \E kind \in {"set", "clear"}, address \in Addresses : Send(Token(kind, address), "asks")
  /\ UNCHANGED interrupted

Resumable == PatientClient => at["cpu"] = "waiting"

Continue ==
  /\ client = "stopped" /\ Resumable
  /\ Send(Plain("continue"), "running")
  /\ interrupted' = FALSE

Leave ==
  /\ client = "stopped" /\ Resumable
  /\ \E kind \in {"detach", "kill"} : Send(Plain(kind), "leaving")
  /\ UNCHANGED interrupted

Interrupt ==
  /\ client = "running" /\ ~interrupted
  /\ \E kind \in {"break", "stop"} : Send(Plain(kind), "running")
  /\ interrupted' = TRUE

\* The client goes away without a word.
Close ==
  /\ client # "left"
  /\ client' = "left"
  /\ UNCHANGED <<shared, debug, at, loaded, link, interrupted, woken>>

ClientStep == Receive \/ Ask \/ Continue \/ Leave \/ Interrupt \/ Close

GdbNext == CpuStep \/ GdbStep \/ ClientStep \/ GdbSpurious

GdbSpec == GdbInit /\ [][GdbNext]_gdbVars

\* Both threads are scheduled, and what was sent arrives. The client need not
\* do anything. The CPU goes on running cycles, of which any may be the next.
GdbFairness == WF_gdbVars(CpuStep) /\ WF_gdbVars(GdbStep) /\ WF_gdbVars(Receive)

GdbFairSpec == GdbSpec /\ GdbFairness

-----------------------------------------------------------------------------
(* Properties *)

GdbPlaces ==
  {"run", "search", "handler", "first", "signal", "reply", "lock", "pause", "waiting", "woken",
   "resume", "start", "test", "wait", "relock", "loop", "read", "drop", "parse", "answer",
   "table", "detach", "kill", "scan", "done"}

GdbTypeOK ==
  /\ flags \subseteq Flags
  /\ client_mutex \in GdbThreads \cup {"free"}
  /\ client_semaphore \subseteq GdbThreads
  /\ breakpoints \subseteq Addresses
  /\ signals \in BOOLEAN /\ break_handler \in BOOLEAN /\ interrupted \in BOOLEAN
  /\ at \in [GdbThreads -> GdbPlaces]
  /\ loaded \in [GdbThreads -> SUBSET Flags]
  /\ cpc \in Addresses
  /\ wire \in Seq(Tokens) /\ packet_buffer \in Seq(Tokens)
  /\ replies \in Seq({"ok", "stop"})
  /\ client \in {"asks", "stopped", "running", "leaving", "left"}
  /\ woken \in 0 .. GdbMaxSpurious

Stopped == at["cpu"] \in {"lock", "pause", "waiting"}

\* What the client believes of the CPU is so, in any interleaving of replies,
\* packets and cycles: when it believes that the CPU is stopped, or a stop is
\* on its way to it, the CPU's thread runs no instruction.
BeliefRight ==
  woken = 0 =>
    /\ client = "stopped" => Stopped
    /\ "stop" \in {replies[i] : i \in DOMAIN replies} /\ client # "left" => Stopped

\* Although nothing locks the table of breakpoints, the CPU never searches it,
\* nor takes the first one out, while the debugger's thread changes it.
SafeSearch ==
  woken = 0 => ~(at["cpu"] \in {"search", "first"} /\ at["gdb"] = "table")

\* Nor is output_buffer written by both threads.
OneWriter == woken = 0 => ~(at["cpu"] = "reply" /\ at["gdb"] = "answer")

\* "You can begin running your rom by using the command c": a CPU that is told
\* to continue does so, or stops again and says so.
ContinueHeard == client = "running" ~> at["cpu"] = "run" \/ client # "running"

\* A client that interrupts a running CPU hears that it has stopped.
BreakHeard == client = "running" /\ interrupted ~> client # "running"

\* "wait until first breakpoint is hit before entering loop": when it is hit,
\* the debugger's thread enters the loop.
FirstStopHeard == at["cpu"] = "signal" ~> at["gdb"] = "loop"

\* A client that has detached leaves a CPU that runs.
DetachFrees == client = "leaving" ~> at["cpu"] = "run"

\* The session as a whole: client, debugger's thread and CPU agree on who runs,
\* and what they share without a lock is used by one of them at a time.
SessionSafe == BeliefRight /\ SafeSearch /\ OneWriter

\* The client's two ways to be heard.
SessionLive == ContinueHeard /\ BreakHeard
=============================================================================
