------------------------------ MODULE MCConsole ------------------------------
(***************************************************************************)
(* The models of the parts around the processors in one specification: the *)
(* bus, the FlashRAM and the IS-Viewer of the cartridge, the clock and the *)
(* paks behind the serial interface, the picture on the screen, and the    *)
(* interrupts. A behaviour is one of the part in conpart, while all others *)
(* stay as they are reset.                                                 *)
(***************************************************************************)
EXTENDS MemoryMap, FlashRam, IsViewer, Pak, JoyBus, VideoOut, RcpInterrupts

CONSTANTS
  ActiveConsoleParts,   \* the parts to look at
  PakCarts              \* the cartridges a Transfer Pak holds

VARIABLE conpart

consoleVars ==
  <<conpart, mapVars, flashVars, isVars, rtcVars, pakVars, joyVars, viVars, vars>>

ConsoleParts == {"map", "flash", "isviewer", "clock", "gb", "pak", "joybus", "video", "interrupts"}

ASSUME MCConsoleAssumption ==
  ActiveConsoleParts \subseteq ConsoleParts /\ PakCarts \subseteq GbCarts

\* The parts that start in many states start in one of them when they rest.
ConsoleInit ==
  /\ conpart \in ActiveConsoleParts
  /\ MapInit /\ (conpart = "map" \/ table = "any")
  /\ FlashInit /\ IsInit /\ RtcInit
  /\ PakInit
  /\ conpart = "pak" \/ pak.type = CHOOSE t \in PakTypes : TRUE
  /\ conpart = "gb" \/ gb.cart \in PakCarts
  /\ conpart \in {"gb", "pak"} \/ gb.cart = CHOOSE c \in PakCarts : TRUE
  /\ JoyInit /\ (conpart = "joybus" \/ (si.present /\ si.eeprom # <<>>))
  /\ ViInit
  /\ Init /\ (conpart = "interrupts" \/ multithread = CHOOSE m \in MultithreadModes : TRUE)

ConsoleNext ==
  /\ UNCHANGED conpart
  /\ \/ /\ conpart = "map" /\ MapNext
        /\ UNCHANGED <<flashVars, isVars, rtcVars, pakVars, joyVars, viVars, vars>>
     \/ /\ conpart = "flash" /\ FlashNext
        /\ UNCHANGED <<mapVars, isVars, rtcVars, pakVars, joyVars, viVars, vars>>
     \/ /\ conpart = "isviewer" /\ IsNext
        /\ UNCHANGED <<mapVars, flashVars, rtcVars, pakVars, joyVars, viVars, vars>>
     \/ /\ conpart = "clock" /\ RtcNext
        /\ UNCHANGED <<mapVars, flashVars, isVars, pakVars, joyVars, viVars, vars>>
     \/ /\ conpart = "gb" /\ GbNext
        /\ UNCHANGED <<mapVars, flashVars, isVars, rtcVars, pak, pakref, pakgot, joyVars, viVars, vars>>
     \/ /\ conpart = "pak" /\ PakNext
        /\ UNCHANGED <<mapVars, flashVars, isVars, rtcVars, joyVars, viVars, vars>>
     \/ /\ conpart = "joybus" /\ JoyNext
        /\ UNCHANGED <<mapVars, flashVars, isVars, rtcVars, pakVars, viVars, vars>>
     \/ /\ conpart = "video" /\ ViNext
        /\ UNCHANGED <<mapVars, flashVars, isVars, rtcVars, pakVars, joyVars, vars>>
     \/ /\ conpart = "interrupts" /\ Next
        /\ UNCHANGED <<mapVars, flashVars, isVars, rtcVars, pakVars, joyVars, viVars>>

ConsoleSpec == ConsoleInit /\ [][ConsoleNext]_consoleVars

-----------------------------------------------------------------------------
(***************************************************************************)
(* Ranges, cartridges, blocks, programs and modes on a small scale.        *)
(***************************************************************************)

\* Seven ranges with holes between them.
MCMapRanges == {[start |-> 3 * n, length |-> 2, device |-> "d"] : n \in 1 .. 7}

\* Cartridges of every controller, with few and with many banks.
Cart(t, n, m) == [type |-> t, rom |-> n, ram |-> m]
MCPakCarts == {Cart("mbc1", 64, 4), Cart("mbc3", 128, 4), Cart("rom", 2, 0)}
MCGbCarts ==
  MCPakCarts \cup
  {Cart("mbc1", 16, 4), Cart("mbc1", 32, 4), Cart("mbc1", 64, 1), Cart("mbc1", 128, 0),
   Cart("mbc2", 8, 0), Cart("mbc2", 16, 0), Cart("mbc3", 72, 4),
   Cart("mbc5", 64, 16), Cart("mbc5", 512, 4)}
MCPakData == {<<0, 0>>, <<1, 0>>, <<0, 128>>, <<255, 255>>, <<18, 52>>, <<200, 7, 99>>}

\* Requests for two controllers, and for the EEPROM behind them.
ToEeprom == <<Skip, Skip, Skip, Skip>>
Heads == {<<Status>>, <<Buttons>>, <<Unknown>>, <<Skip>>, <<Filler, Reset>>}
EepromRequests ==
  {<<EepromRead(0)>>, <<EepromRead(2)>>, <<EepromWrite(1, <<9, 3>>)>>, <<Status>>,
   <<EepromWrite(0, <<1, 2>>), EepromRead(0)>>, <<TooLong, EepromWrite(0, <<7, 8>>)>>}
MCJoyPrograms ==
  {a \o b : a, b \in Heads} \cup {ToEeprom \o e : e \in EepromRequests}
  \cup {<<Status, Status, Filler, Unknown, Skip>> \o e : e \in EepromRequests}
MCJoyInputs == {<<0, 0, 0, 0>>, <<128, 1, 5, 200>>}

\* One mode of a picture of two blocks, and the registers that change under it.
MCUserEvents == <<"resize", "close">>
MCViModes ==
  {[STATUS |-> 2, ORIGIN |-> 0, WIDTH |-> 4, INTR |-> 2, V_SYNC |-> 5, H_START |-> <<1, 5>>,
    V_START |-> <<2, 6>>, X_SCALE |-> 1024, Y_SCALE |-> 1024]}
MCViValues == [r \in ViRegisters |->
  CASE r = "STATUS" -> {0} [] r = "ORIGIN" -> {1} [] OTHER -> {}]
==============================================================================
