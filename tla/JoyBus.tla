------------------------------- MODULE JoyBus --------------------------------
(***************************************************************************)
(* The serial interface: si/controller.c. The guest writes a block of      *)
(* packets into PIF RAM and reads it back with the replies in it. The      *)
(* window's thread changes the buttons in between, and the guest may write *)
(* words of PIF RAM itself.                                                *)
(*                                                                         *)
(* A block is JoyBytes long with a control byte at its end. A page of the  *)
(* EEPROM is JoyPage bytes. Controllers answer like Pak, the clock is below. *)
(***************************************************************************)
EXTENDS Integers, Sequences

CONSTANTS
  JoyBytes,     \* 64: bytes of PIF RAM
  JoyPage,      \* 8: bytes of a page of the EEPROM
  JoyPages,     \* pages that the EEPROM has
  JoyPrograms,  \* what the guest sends: sequences of packets
  JoyInputs     \* states of the buttons: sequences of four bytes

ASSUME JoyAssumption ==
  /\ JoyBytes \in Nat \ {0} /\ JoyPage \in Nat \ {0} /\ JoyPages \in Nat

VARIABLES
  si,        \* struct si_controller: ram, command, input, eeprom, present, raised
  joy,       \* history: the guest's program, since when it stands, the last block that was read
  pages      \* history: the EEPROM as the guest has written it

joyVars == <<si, joy, pages>>

Control == JoyBytes - 1
NoReply(n) == [k \in 1 .. n |-> 255]

(***************************************************************************)
(* Packets, as the bytes that stand for them: how many are sent, how many  *)
(* are expected, the command with its arguments, room for the reply. The   *)
(* bytes -1 and -2 are a filler and the end.                               *)
(***************************************************************************)
Packet(kind, sent, expected) == [kind |-> kind, sent |-> sent, expected |-> expected]
Skip == Packet("skip", <<>>, 0)
Filler == Packet("filler", <<>>, 0)
Status == Packet("status", <<0>>, 3)
Reset == Packet("status", <<255>>, 3)
Buttons == Packet("buttons", <<1>>, 4)
EepromRead(a) == Packet("read", <<4, a>>, JoyPage)
EepromWrite(a, page) == Packet("write", <<5, a>> \o page, 1)
Unknown == Packet("unknown", <<9>>, 1)
TooLong == Packet("long", <<1>>, JoyBytes)

BytesOf(p) ==
  CASE p.kind = "skip" -> <<0>>
    [] p.kind = "filler" -> <<255>>
    [] p.kind = "long" -> <<Len(p.sent), p.expected>> \o p.sent
    [] OTHER -> <<Len(p.sent), p.expected>> \o p.sent \o NoReply(p.expected)

LayOut(program) ==
  LET bytes[k \in 0 .. Len(program)] == IF k = 0 THEN <<>> ELSE bytes[k - 1] \o BytesOf(program[k])
      all == bytes[Len(program)] \o <<254>>
  IN [a \in 0 .. Control |->
        IF a = Control THEN 1 ELSE IF a < Len(all) THEN all[a + 1] ELSE 0]

JoyInit ==
  /\ \E present \in BOOLEAN, size \in {0, JoyPages} :
       si = [ram |-> [a \in 0 .. Control |-> 0], command |-> [a \in 0 .. Control |-> 0],
             input |-> <<0, 0, 0, 0>>, present |-> present, raised |-> FALSE,
             eeprom |-> [p \in 0 .. size - 1 |-> [k \in 1 .. JoyPage |-> 0]]]
  /\ joy = [program |-> <<>>, sent |-> FALSE, got |-> <<>>, block |-> <<>>]
  /\ pages = si.eeprom

-----------------------------------------------------------------------------
(***************************************************************************)
(* pif_perform_command: the reply, or no.                                  *)
(***************************************************************************)
Reply(ok, bytes, eeprom) == [ok |-> ok, bytes |-> bytes, eeprom |-> eeprom]
Refused(s, recv) == Reply(FALSE, recv, s.eeprom)

SendStatus(s, channel, recv) ==
  CASE channel = 0 \/ (channel < 4 /\ s.present) -> Reply(TRUE, <<5, 0, 1>>, s.eeprom)
    [] channel < 4 /\ channel > 0 /\ ~ s.present -> Refused(s, recv)
    [] channel = 4 -> Reply(TRUE, IF s.eeprom = <<>> THEN recv ELSE <<0, 128, 0>>, s.eeprom)

eeprom_read(s, send, recv) ==
  IF send[2] \in DOMAIN s.eeprom THEN Reply(TRUE, s.eeprom[send[2]], s.eeprom) ELSE Refused(s, recv)

eeprom_write(s, send, recv) ==
  IF send[2] \in DOMAIN s.eeprom
  THEN Reply(TRUE, recv, [s.eeprom EXCEPT ![send[2]] = SubSeq(send, 3, Len(send))])
  ELSE Refused(s, recv)

pif_perform_command(s, channel, send, recv) ==
  CASE send[1] \in {0, 255} -> SendStatus(s, channel, recv)
    [] send[1] = 1 -> IF channel = 0 THEN Reply(TRUE, s.input, s.eeprom) ELSE Refused(s, recv)
    [] send[1] = 4 -> eeprom_read(s, send, recv)
    [] send[1] = 5 -> eeprom_write(s, send, recv)
    [] OTHER -> Refused(s, recv)

\* The bytes of command from a, as a sequence.
FromCommand(s, a, n) == [k \in 1 .. n |-> s.command[a + k - 1]]

StoreReply(s, a, bytes) ==
  [s EXCEPT !.ram = [k \in DOMAIN @ |-> IF k - a + 1 \in DOMAIN bytes THEN bytes[k - a + 1] ELSE @[k]]]

\* Mutant of NextChannel: a refused packet keeps its channel for the next.
NextChannelAnswered(channel, ok) == IF ok THEN channel + 1 ELSE channel

NextChannel(channel, ok) == channel + 1

\* One packet of pif_process: the channel and the place of the next one. A place
\* behind the block ends the loop.
Answered(s, channel, ptr) ==
  LET n == s.command[ptr]
      m == s.command[ptr + 1]
      at == ptr + 2 + n
      r == pif_perform_command(s, channel, FromCommand(s, ptr + 2, n), FromCommand(s, at, m))
  IN IF m = 254 \/ at > JoyBytes \/ at + m > JoyBytes
     THEN [si |-> s, channel |-> channel, ptr |-> JoyBytes]
     ELSE IF r.ok
     THEN [si |-> [StoreReply(s, at, r.bytes) EXCEPT !.eeprom = r.eeprom],
           channel |-> NextChannel(channel, TRUE), ptr |-> at + m]
     ELSE [si |-> [s EXCEPT !.ram[at - 2] = IF @ < 128 THEN @ + 128 ELSE @],
           channel |-> NextChannel(channel, FALSE), ptr |-> at]

\* A round of the loop, from the state, the channel and the place of w. Where the
\* loop ends, a round changes nothing.
Round(w) ==
  LET n == w.si.command[w.ptr] IN
  IF w.ptr >= Control \/ n = 254 THEN w
  ELSE IF n >= 128 THEN [w EXCEPT !.ptr = @ + 1]
  ELSE IF n = 0 \/ n >= 64 THEN [w EXCEPT !.ptr = @ + 1, !.channel = @ + 1]
  ELSE Answered(w.si, w.channel, w.ptr)

\* The loop: every round but the last moves on.
Process(s) ==
  LET walk[k \in 0 .. Control] ==
        IF k = 0 THEN [si |-> s, channel |-> 0, ptr |-> 0] ELSE Round(walk[k - 1])
  IN walk[Control].si

pif_process(s) ==
  IF s.command[Control] # 1 THEN s
  ELSE [Process(s) EXCEPT !.ram[Control] = @ % 128]

-----------------------------------------------------------------------------
(***************************************************************************)
(* The registers, under the guest.                                         *)
(***************************************************************************)
\* The interrupt, and the bit of SI_STATUS that is set and cleared with it.
Told(s, on) == [s EXCEPT !.raised = on]

\* SI_PIF_ADDR_WR64B_REG: the block comes from RDRAM. The guest waits for the end
\* of what it has begun before.
Write64 ==
  /\ ~ si.raised
  /\ \E program \in JoyPrograms : LET block == LayOut(program) IN
    /\ si' = [Told(si, TRUE) EXCEPT !.ram = block, !.command = block]
    /\ joy' = [joy EXCEPT !.program = program, !.sent = TRUE, !.got = <<>>, !.block = <<>>]
    /\ UNCHANGED pages

\* What the guest's writes make of the EEPROM, on the channel that it is on.
Channel(program, k) ==
  LET before == {j \in 1 .. k - 1 : program[j].kind # "filler"} IN
  CASE before = {} -> 0
    [] OTHER -> LET count[j \in 0 .. k - 1] ==
                      IF j = 0 THEN 0 ELSE count[j - 1] + (IF j \in before THEN 1 ELSE 0)
                IN count[k - 1]

Ends(program, k) == \E j \in 1 .. k : program[j].kind = "long"

\* SI_PIF_ADDR_RD64B_REG: the commands are carried out, and the block goes to
\* RDRAM. The interrupt is there at once.
Read64 ==
  LET s == pif_process(si)
      written(p) == {k \in 1 .. Len(joy.program) :
                       /\ joy.program[k].kind = "write" /\ joy.program[k].sent[2] = p
                       /\ ~ Ends(joy.program, k)}
      final(p) == CHOOSE k \in written(p) : \A j \in written(p) : j <= k
  IN /\ joy.sent
     /\ si' = Told(s, TRUE)
     /\ pages' = [p \in DOMAIN pages |->
                    IF written(p) = {} THEN pages[p]
                    ELSE SubSeq(joy.program[final(p)].sent, 3, JoyPage + 2)]
     /\ joy' = [joy EXCEPT !.block = s.ram, !.got = [input |-> si.input, before |-> pages]]

SiAcknowledge == si.raised /\ si' = Told(si, FALSE) /\ joy' = joy /\ pages' = pages

\* The window's thread.
Press ==
  /\ \E i \in JoyInputs : si' = [si EXCEPT !.input = i]
  /\ joy' = [joy EXCEPT !.got = <<>>, !.block = <<>>]
  /\ UNCHANGED pages

\* write_pif_ram: a word of the CPU; the commands stay those of the last block.
WritePifRam ==
  /\ si' = [Told(si, TRUE) EXCEPT !.ram = [a \in DOMAIN @ |-> IF a < 4 THEN 0 ELSE @[a]]]
  /\ joy' = [joy EXCEPT !.sent = FALSE, !.got = <<>>, !.block = <<>>]
  /\ UNCHANGED pages

JoyNext == Write64 \/ Read64 \/ SiAcknowledge \/ Press \/ WritePifRam

JoySpec == JoyInit /\ [][JoyNext]_joyVars

-----------------------------------------------------------------------------
(***************************************************************************)
(* What the packets stand for.                                             *)
(***************************************************************************)
PlaceOf(program, k) ==
  LET place[j \in 1 .. k] == IF j = 1 THEN 0 ELSE place[j - 1] + Len(BytesOf(program[j - 1]))
  IN place[k]

\* The page that a read finds: writes of packets before it count.
PageAt(k, p) ==
  LET earlier == {j \in 1 .. k - 1 : joy.program[j].kind = "write" /\ joy.program[j].sent[2] = p} IN
  IF earlier = {} THEN joy.got.before[p]
  ELSE SubSeq(joy.program[CHOOSE j \in earlier : \A i \in earlier : i <= j].sent, 3, JoyPage + 2)

\* The reply to the k-th packet, or NoReply when its device refuses it.
Expected(k) ==
  LET p == joy.program[k]
      c == Channel(joy.program, k)
  IN CASE p.kind = "status" /\ (c = 0 \/ (c < 4 /\ si.present)) -> <<5, 0, 1>>
       [] p.kind = "status" /\ c = 4 /\ pages # <<>> -> <<0, 128, 0>>
       [] p.kind = "buttons" /\ c = 0 -> joy.got.input
       [] p.kind = "read" /\ p.sent[2] \in DOMAIN pages -> PageAt(k, p.sent[2])
       [] OTHER -> NoReply(p.expected)

\* Every packet is answered by the device of its channel, in its own place, also
\* behind packets that are refused, skipped or padded with fillers; packets that
\* are not answered keep the bytes of their replies; and what does not fit into
\* the block is not carried out.
JoyBusRight ==
  joy.block # <<>> =>
    \A k \in 1 .. Len(joy.program) :
      LET p == joy.program[k]
          at == PlaceOf(joy.program, k) + 2 + Len(p.sent)
      IN p.kind \notin {"skip", "filler", "long"} /\ ~ Ends(joy.program, k) =>
           [j \in 1 .. p.expected |-> joy.block[at + j - 1]] = Expected(k)

\* The EEPROM holds what was last written to each page, however often a block is
\* read, and with no EEPROM in the cartridge nothing is written.
EepromRight == si.eeprom = pages

\* A block of packets as a whole: every reply is the one its channel gives, and
\* the EEPROM holds what was written.
PacketsRight == JoyBusRight /\ EepromRight

-----------------------------------------------------------------------------
(***************************************************************************)
(* The clock chip behind the SI: si/rtc.c, with the conversions of         *)
(* os/common/local_time.h and the offset to the host's clock that          *)
(* os/common/local_time.c keeps.                                           *)
(*                                                                         *)
(* Of a time stamp, the seconds and the year stand for all fields: the     *)
(* host counts seconds, and a year has RtcYear of them. Years count from   *)
(* 1900, so that both bytes of the year matter.                            *)
(***************************************************************************)

CONSTANTS
  RtcYear,     \* seconds in a year
  RtcSpan,     \* bound: seconds for which the host's clock runs
  RtcStart,    \* seconds since 1900 when it starts
  RtcSettings  \* times that the guest sets, in seconds since 1900

ASSUME RtcAssumption ==
  /\ RtcYear \in 1 .. 60 /\ RtcSpan \in Nat /\ RtcStart \in Nat /\ RtcSettings \subseteq Nat

VARIABLES
  rtc,      \* struct rtc: control, now, offset_seconds
  host,     \* the host's clock
  rtcref,   \* history: the time that was set, when, and what a stopped clock shows
  rtcgot    \* history: the last answer to a read of the time, and what it should be

rtcVars == <<rtc, host, rtcref, rtcgot>>

\* Bits of the control word.
Stopped == "0004"
TimeProtected == "0200"
OtherProtected == "0100"

Stamp(t) == [sec |-> t % RtcYear, year |-> t \div RtcYear]
NoStamp == [sec |-> 0, year |-> -1]
Seconds(ts) == ts.year * RtcYear + ts.sec

\* Mutant of byte2bcd: no remainder, a year of three digits runs over.
Byte2bcdLong(b) == (b \div 10) * 16 + (b % 10)

byte2bcd(b) == LET c == b % 100 IN (c \div 10) * 16 + (c % 10)
bcd2byte(x) == (x \div 16) * 10 + (x % 16)

\* os/common/local_time.c
get_local_time(offset) == Stamp(host + offset)
get_offset_seconds(ts) == Seconds(ts) - host

RtcInit ==
  /\ host = RtcStart
  /\ rtc = [control |-> {TimeProtected, OtherProtected}, now |-> Stamp(RtcStart), offset_seconds |-> 0]
  /\ rtcref = [base |-> RtcStart, since |-> RtcStart, frozen |-> NoStamp]
  /\ rtcgot = [answer |-> NoStamp, right |-> NoStamp]

Unread == rtcgot' = [answer |-> NoStamp, right |-> NoStamp]

RtcTick ==
  /\ host < RtcStart + RtcSpan
  /\ host' = host + 1
  /\ Unread
  /\ UNCHANGED <<rtc, rtcref>>

-----------------------------------------------------------------------------
(* rtc_read and rtc_write. *)

\* What rtc_read sends of a time.
Sent(ts) == [sec |-> byte2bcd(ts.sec), year |-> byte2bcd(ts.year), century |-> byte2bcd(ts.year \div 100)]

\* rtc_read, block 2: a running clock is brought up to date first.
RtcRead ==
  LET stands == Stopped \in rtc.control
      now == IF stands THEN rtc.now ELSE get_local_time(rtc.offset_seconds)
      right == IF ~ stands THEN Stamp(rtcref.base + host - rtcref.since)
               ELSE IF rtcref.frozen # NoStamp THEN rtcref.frozen ELSE now
  IN /\ rtc' = [rtc EXCEPT !.now = now]
     /\ rtcgot' = [answer |-> Sent(now), right |-> right]
     /\ rtcref' = IF stands THEN [rtcref EXCEPT !.frozen = right] ELSE rtcref
     /\ UNCHANGED host

\* rtc_write, block 0.
RtcControl ==
  /\ \E control \in {{}, {Stopped}, {Stopped, TimeProtected}, {TimeProtected, OtherProtected}} :
       rtc' = [rtc EXCEPT !.control = control]
  /\ rtcref' = IF Stopped \in rtc'.control THEN rtcref ELSE [rtcref EXCEPT !.frozen = NoStamp]
  /\ Unread
  /\ UNCHANGED host

Accepts(control) == Stopped \in control /\ TimeProtected \notin control

\* The stamp in a message.
Received(m) ==
  [sec |-> bcd2byte(m.sec), year |-> bcd2byte(m.year) + bcd2byte(m.century) * 100]

\* rtc_write, block 2: a stopped clock that is not protected is set.
RtcSet ==
  \E t \in RtcSettings :
    LET ts == Received(Sent(Stamp(t))) IN
    /\ rtc' = IF Accepts(rtc.control)
              THEN [rtc EXCEPT !.now = ts, !.offset_seconds = get_offset_seconds(ts)] ELSE rtc
    /\ rtcref' = IF Stopped \in rtc.control /\ TimeProtected \notin rtc.control
                 THEN [base |-> t, since |-> host, frozen |-> Stamp(t)] ELSE rtcref
    /\ Unread
    /\ UNCHANGED host

RtcNext == RtcTick \/ RtcRead \/ RtcControl \/ RtcSet

RtcSpec == RtcInit /\ [][RtcNext]_rtcVars

-----------------------------------------------------------------------------
\* A running clock shows the time that was last set and accepted, and the time
\* that has gone by since, whatever was tried on it while it ran or was
\* protected; a clock that stands shows what it was set to, or the same time each
\* time. Every
\* digit comes back, on both sides of the year 2000.
RtcExact ==
  rtcgot.right # NoStamp =>
    /\ bcd2byte(rtcgot.answer.sec) = rtcgot.right.sec
    /\ bcd2byte(rtcgot.answer.year) + 100 * bcd2byte(rtcgot.answer.century) = rtcgot.right.year
==============================================================================
