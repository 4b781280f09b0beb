------------------------------ MODULE MCDevices ------------------------------
(***************************************************************************)
(* The models of the PI and of the disk drive in one specification: a      *)
(* behaviour is one of the part in devpart, while all others stay as they  *)
(* are reset. Here each is driven by a program that may do anything; the   *)
(* two at work together, for a driver, are DiskTransfer's.                 *)
(***************************************************************************)
EXTENDS PiController, PiRomDma, DiskDrive

CONSTANT ActiveDeviceParts    \* the parts to look at

VARIABLE devpart

deviceVars == <<devpart, piVars, romVars, dd>>

DeviceParts == {"pi", "rom", "disk"}

ASSUME MCDevicesAssumption == ActiveDeviceParts \subseteq DeviceParts

\* The copy from ROM, which starts with any request, rests with one of them.
RomIdle ==
  wanted = CHOOSE w \in [dram : RomDrams, cart : Carts, length : RomLengths] : TRUE

DeviceInit ==
  /\ devpart \in ActiveDeviceParts
  /\ PiInit
  /\ RomInit /\ (devpart = "rom" \/ RomIdle)
  /\ DdInit

DeviceNext ==
  /\ UNCHANGED devpart
  /\ \/ devpart = "pi" /\ PiNext /\ UNCHANGED <<romVars, dd>>
     \/ devpart = "rom" /\ RomNext /\ UNCHANGED <<piVars, dd>>
     \/ devpart = "disk" /\ DdNext /\ UNCHANGED <<piVars, romVars>>

\* The fairness of PiSpec, where the PI is the part that is looked at.
DeviceSpec ==
  DeviceInit /\ [][DeviceNext]_deviceVars /\ WF_piVars(devpart = "pi" /\ PiCycle)
==============================================================================
