------------------------------- MODULE MCHost --------------------------------
(***************************************************************************)
(* The models of what runs on the host's threads in one specification: the *)
(* device's threads, the debugger's session, and the table it keeps its    *)
(* breakpoints in. A behaviour is one of the part in hostpart, while all   *)
(* others stay as they are started.                                        *)
(***************************************************************************)
EXTENDS DeviceThreads, GdbSession, HashTable

CONSTANT ActiveHostParts    \* the parts to look at

VARIABLE hostpart

hostVars == <<hostpart, vars, gdbVars, hashVars>>

HostParts == {"threads", "session", "table"}

ASSUME MCHostAssumption == ActiveHostParts \subseteq HostParts

HostInit ==
  /\ hostpart \in ActiveHostParts
  /\ Init
  /\ hostpart = "threads" \/ (~multithread /\ no_video)
  /\ GdbInit
  /\ HashInit

HostNext ==
  /\ UNCHANGED hostpart
  /\ \/ hostpart = "threads" /\ Next /\ UNCHANGED <<gdbVars, hashVars>>
     \/ hostpart = "session" /\ GdbNext /\ UNCHANGED <<vars, hashVars>>
     \/ hostpart = "table" /\ HashNext /\ UNCHANGED <<vars, gdbVars>>

\* Fairness and GdbFairness, for the part that is looked at.
HostSpec ==
  /\ HostInit /\ [][HostNext]_hostVars
  /\ WF_vars(hostpart = "threads" /\ StopDevice)
  /\ WF_vars(hostpart = "threads" /\ JoinDevice)
  /\ \A t \in Threads : WF_vars(hostpart = "threads" /\ ThreadStep(t))
  /\ WF_gdbVars(hostpart = "session" /\ CpuStep)
  /\ WF_gdbVars(hostpart = "session" /\ GdbStep)
  /\ WF_gdbVars(hostpart = "session" /\ Receive)

-----------------------------------------------------------------------------
\* BothProgress, where the device's threads are the part that runs: they go on
\* emulating quanta forever.
DeviceProgress == hostpart = "threads" => BothProgress

\* The device's threads get on while it runs, and it ends when it is told to.
DeviceLive == DeviceProgress /\ SingleThreadShutdown
==============================================================================
