----------------------------- MODULE ChipDemos ------------------------------
(***************************************************************************)
(* The demos of the chip alone, one engine against the other, and of what  *)
(* it does with the data memory (python/demo_*.py, python/ethernet.py,     *)
(* python/usb_fs_board.py, python/soak.py): what each asks of the chip.    *)
(***************************************************************************)
EXTENDS OutsideDemos, UsbDeviceFirmware

-----------------------------------------------------------------------------
(***************************************************************************)
(* The self-check: engine 1 checks engine 0's frames against rows in the   *)
(* data memory, over the certificates.                                     *)
(***************************************************************************)

CheckedPeriod == 434
RowsBase == 256
RowsSize == 11
Glitches == <<CheckedPeriod + 1, CheckedPeriod - 1>>
FramesPerRestart == 7

CheckLoad(of, e) == Select(e) \o Stop \o Flush \o ClearIrq \o Configure(of) \o Load(of)

CheckSetup ==
  Select(0) \o Stop \o Select(1) \o Stop
    \o CheckLoad("SELF_CHECK_WIRE", 1) \o Certify("SELF_CHECK_WIRE", 0)
    \o CheckLoad("UART_TX_HOST_RATE", 0) \o Certify("UART_TX_HOST_RATE", 0)
    \o LoadData(RowsBase, RowsSize) \o Select(1) \o Start \o Select(0)

\* Mutant: the period is taken to outlive a restart.
RestartBytes(period, frames) == Stop \o Flush \o Push(Words(frames)) \o Start

\* Engine 0 from its first instruction, its period and bytes queued.
Restart(period, frames) == Stop \o Flush \o Push(<<period>> \o Words(frames)) \o Start
WaitIdle == Pause
Checker == Select(1) \o Select(0)
SendFrames(restarts) ==
  Repeat(restarts, Restart(CheckedPeriod, FramesPerRestart) \o WaitIdle \o Checker)

\* Engine 1 stopped and checking from its first instruction again.
Rearm == Select(1) \o Stop \o ClearIrq \o Start \o Select(0)
\* Each engine's faults are read where a demo begins, and where it ends.
Faults == Select(0) \o Select(1) \o Select(0)
CheckBegin == Faults \o CheckSetup

Glitch(period) == Rearm \o Restart(period, 1) \o WaitIdle \o Checker
GlitchBoth == Glitch(Glitches[1]) \o Glitch(Glitches[2])

SelfCheck ==
  CheckBegin \o SendFrames(2) \o GlitchBoth \o Rearm \o SendFrames(1) \o Faults

\* The same for weeks, set up again after whatever stops it.
SoakSetup == CheckBegin
SoakQuiet == SendFrames(2) \o Perhaps(Rearm)
SoakInject == GlitchBoth \o Rearm
SoakRecovery == Select(0) \o Stop \o SoakSetup

Soak ==
  SoakSetup \o SoakInject
    \o Repeat(2, Try(SoakQuiet \o Perhaps(SoakInject) \o Perhaps(Faults), SoakRecovery))

\* The referee shows its score with engine 1, which it then scrubs and sets up again.
Scrub ==
  Select(0) \o Stop \o Select(1) \o Stop
    \o Load("SCRUB") \o Certify("SCRUB", 0) \o Start \o AwaitHalt
ShowScore(frames) == Show(1, frames) \o Scrub \o CheckSetup
HonestFrames == SendFrames(1) \o Perhaps(ShowScore(1))
Cheat(slip) ==
  Glitch(CheckedPeriod + slip) \o Perhaps(ShowScore(1)) \o Perhaps(CheckSetup)

RefereeSetup == CheckBegin
RefereeFaults == Faults

Referee ==
  RefereeSetup \o HonestFrames \o Cheat(1) \o HonestFrames \o Cheat(-2) \o HonestFrames
    \o RefereeFaults

-----------------------------------------------------------------------------
(***************************************************************************)
(* Edges engine 1 stamps.                                                  *)
(***************************************************************************)

TimedPeriod == 5000
TimedLoad(of, e) == Select(e) \o Configure(of) \o Load(of) \o Certify(of, 0)

TimingSetup ==
  StopBoth \o TimedLoad("EDGE_LOGGER_ECHO", 1) \o TimedLoad("UART_TX_HOST_RATE", 0)
    \o Select(1) \o Start \o Select(0) \o Push(<<TimedPeriod>>) \o Start \o Select(1)

TimedSend(bytes) == Select(0) \o Push(Words(bytes)) \o Select(1) \o Pause

\* Each engine's faults, after which engine 1 is selected.
TimingFaults == Select(0) \o Select(1) \o Select(1)

\* "Jane St!", quietly and then flooded.
SelfTiming == TimingFaults \o TimingSetup \o TimedSend(8) \o TimedSend(8) \o TimingFaults

\* Each swept firmware, its pins parked by another first.
SetUpSwept(name, preamble) ==
  LET park == "PARK_" \o name
      of == "SWEEP_" \o name
  IN  Select(1) \o Stop \o Flush \o Select(0) \o Stop \o Flush
        \o Configure(park) \o WriteProgram(park) \o Certify(park, 0) \o Start \o Stop
        \o WriteProgram(of) \o Certify(of, 0)
        \o (IF preamble = <<>> THEN <<>> ELSE Push(preamble))
        \o Select(1) \o Start \o Select(0) \o Start \o Select(1)

Burst(words) == Select(0) \o Push(Words(words)) \o Select(1) \o Pause

SweptUartTx == SetUpSwept("UART_TX", <<>>) \o Repeat(4, Burst(1))
SweptUartTx16 == SetUpSwept("UART_TX16", <<>>) \o Repeat(4, Burst(1))
SweptUartTxHostRate == SetUpSwept("UART_TX_HOST_RATE", <<434>>) \o Repeat(2, Burst(1))
SweptSpiMaster == SetUpSwept("SPI_MASTER", <<>>) \o Repeat(4, Burst(1))
SweptJtag == SetUpSwept("JTAG", <<>>) \o Repeat(4, Burst(1))
SweptCan == SetUpSwept("CAN", <<1800>>) \o Burst(3)
SweptSent == SetUpSwept("SENT", <<300>>) \o Burst(2)
SweptWiegand == SetUpSwept("WIEGAND", <<1200>>) \o Burst(4)

\* The logger is certified once, and its program left alone from then on.
SweepLogger ==
  Select(0) \o Stop \o Select(1) \o Stop \o Flush
    \o Configure("SWEEP_LOGGER") \o Load("SWEEP_LOGGER") \o Certify("SWEEP_LOGGER", 0)

Sweep ==
  TimingFaults \o SweepLogger
    \o FlattenSeq([i \in 1 .. 8 |->
         <<SweptUartTx, SweptUartTx16, SweptUartTxHostRate, SweptSpiMaster,
           SweptJtag, SweptCan, SweptSent, SweptWiegand>>[i] \o TimingFaults])

\* The same sweep of the words a host computer sends.
StartLogger == SweepLogger
KernelVsBoard == TimingFaults \o StartLogger \o SweptUartTx \o TimingFaults

-----------------------------------------------------------------------------
(***************************************************************************)
(* Both roles of a bus, one on each engine.                                *)
(***************************************************************************)

\* A sender's period, whole cycles in its first word and the rest in its configuration.
ToleranceUnit == 65536
ToleranceSteps == <<304742400, 311315661, 345884508, 350617600>>

ToleranceSender(m) ==
  IF m % ToleranceUnit = 0 THEN "TOLERANCE_SENDER_WHOLE" ELSE "TOLERANCE_SENDER"

ToleranceLoad(m) ==
  Select(1) \o Stop \o Flush \o ClearIrq \o Select(0) \o Stop \o Flush \o ClearIrq
    \o Configure("TOLERANCE_RECEIVER") \o Load("TOLERANCE_RECEIVER")
    \o Certify("TOLERANCE_RECEIVER", 0)
    \o Select(1) \o Configure(ToleranceSender(m)) \o Load("TOLERANCE_SENDER")
    \o Certify("TOLERANCE_SENDER", 0)

ToleranceStep(m) ==
  ToleranceLoad(m) \o Select(0) \o Push(<<2500>>) \o Start
    \o Select(1) \o Push(<<m \div ToleranceUnit>> \o Words(7)) \o Start
    \o Feed(Words(64 - 7), 8) \o Pause

Tolerance == FlattenSeq([i \in 1 .. 4 |-> ToleranceStep(ToleranceSteps[i])])

BothRolesCases ==
  LET spi(mode) ==
        [controller |-> "SPI_CONTROLLER_WIRE_MODE" \o mode,
         target |-> "SPI_TARGET_WIRE_MODE" \o mode,
         sends |-> Words(6), answers |-> Words(6)]
      i2c(quarter) ==
        [controller |-> "I2C_CONTROLLER_WIRE", target |-> "I2C_TARGET_WIRE",
         sends |-> <<quarter>> \o Words(9), answers |-> Words(3)]
      uart(bit, half) ==
        [controller |-> "UART_TX_WIRE", target |-> "UART_RX_WIRE",
         sends |-> <<bit>> \o Words(4), answers |-> <<half>>]
  IN  <<i2c(121), i2c(32), spi("0"), spi("1"), spi("2"), spi("3"),
        uart(5000, 2500), uart(2500, 1250), uart(1250, 625), uart(834, 417),
        uart(416, 208), uart(208, 104)>>

BothRolesLoad(case) ==
  BenchLoad(case.controller, 0)
    \o Select(1) \o Configure(case.target) \o Load(case.target) \o Certify(case.target, 0)

\* The target first, its answers queued.
RunCase(case) ==
  LET first == SubSeq(case.sends, 1, IF Len(case.sends) < 8 THEN Len(case.sends) ELSE 8)
      rest == SubSeq(case.sends, 9, Len(case.sends))
  IN  BothRolesLoad(case) \o Select(1) \o Push(case.answers) \o Start
        \o Select(0) \o Push(first) \o Start
        \o (IF rest = <<>> THEN <<>> ELSE Feed(rest, 8)) \o Pause

BothRoles == FlattenSeq([i \in DOMAIN BothRolesCases |-> RunCase(BothRolesCases[i])])

-----------------------------------------------------------------------------
(***************************************************************************)
(* Ethernet: a frame sent from the data memory, and received into it.      *)
(***************************************************************************)

LinkTenth == 64000

\* The bytes of a datagram, padded to the shortest frame and to an even length.
UdpFrame(payload) ==
  LET length == 14 + 20 + 8 + payload
  IN  IF length < 60 THEN 60 ELSE length + (length % 2)

\* The preamble and the frame, two bytes a word.
FrameWords(payload) == (8 + UdpFrame(payload)) \div 2

LoadReceiver(e) ==
  Select(e) \o Configure("ETHERNET_RX") \o Load("ETHERNET_RX") \o Certify("ETHERNET_RX", 0)

\* Engine 0 sends and engine 1 hands over what the chip's receiver took back.
Heard(payload, base) ==
  StopBoth \o LoadData(0, FrameWords(payload)) \o ArmFrame(base)
    \o Select(1) \o Push(Words(1)) \o Start
    \o Select(0) \o Push(<<LinkTenth>> \o Words(1)) \o Start \o Select(1) \o Select(0)

HelloLength == 21
HelloBase == 256

PiEthernet ==
  BenchLoad("ETHERNET", 0) \o LoadReceiver(1) \o Select(0)
    \o Repeat(2, Heard(HelloLength, HelloBase)) \o Select(0) \o Select(1)

DemoEthernet ==
  Select(1) \o Stop \o Select(0) \o Stop
    \o Configure("ETHERNET_10BASE_T") \o Load("ETHERNET_10BASE_T")
    \o Certify("ETHERNET_10BASE_T", 0) \o LoadReceiver(1)
    \o Repeat(2, Heard(HelloLength, HelloBase))

\* Frames from outside, each received past the certificate and handed over.
ReceiveBase == 16
ReceiveSetup == StopBoth \o LoadReceiver(0)
Receive ==
  Stop \o Flush \o ArmFrame(ReceiveBase) \o Push(Words(1)) \o Start \o Pause \o Stop

EthernetReceiver == ReceiveSetup \o Repeat(3, Receive)

-----------------------------------------------------------------------------
(***************************************************************************)
(* The full speed USB device.                                              *)
(***************************************************************************)

\* The records, and the certificate after them.
FirstRecord == 20
CertificateBase == 169

UsbFsRestart == Stop \o Flush \o Push(Words(1)) \o Start

\* The receiver stays armed on words from 0, below the records.
UsbFsLoad ==
  StopBoth \o Configure("USB_FS_DEVICE") \o Load("USB_FS_DEVICE") \o LoadLineTable
    \o LoadData(0, CertificateBase) \o Certify("USB_FS_DEVICE", CertificateBase)
    \o ArmFrame(0) \o UsbFsRestart

\* A reply's token and record, and the next token once the address is set.
UsbFsReply == PushWhole(Words(2), 15)
UsbFsSetAddress == PushWhole(Words(3), 15)
UsbFsServe == Perhaps(UsbFsRestart) \o Perhaps(UsbFsSetAddress) \o UsbFsReply

UsbFs == UsbFsLoad \o Repeat(6, UsbFsServe)

-----------------------------------------------------------------------------
(***************************************************************************)
(* The low speed USB keyboard: engine 1 logs its keys, and so runs through *)
(* every load of engine 0, each for the address the laptop gave it.        *)
(***************************************************************************)

UsbLogBase == Len(USB_DEVICE.certificate)

UsbStartLog ==
  Select(0) \o Stop \o Flush \o Select(1) \o Stop \o Flush \o WriteCertificate("USB_DEVICE", 0)
    \o Configure("UART_TX_HOST_RATE") \o Load("UART_TX_HOST_RATE")
    \o Certify("UART_TX_HOST_RATE", UsbLogBase) \o Push(<<417>>) \o Start \o Select(0)

\* usb_board.load of all the words, and of those alone that differ.
UsbRun == Check("USB_DEVICE", 0) \o Push(<<USB_DEVICE.loaded>>) \o Start
UsbLoad == Stop \o Flush \o Configure("USB_DEVICE") \o Call("attach") \o UsbRun
UsbPatch == Stop \o Flush \o Call("patch") \o UsbRun

\* A reply, and a key logged once the last has been sent.
UsbReply == PushWhole(Words(2), 8)
UsbLogKey == Select(1) \o Pause \o Push(Words(1)) \o Select(0)

UsbKeyboard ==
  UsbStartLog \o UsbLoad \o Again(Perhaps(UsbReply \o UsbLogKey) \o Perhaps(UsbPatch))

-----------------------------------------------------------------------------
(***************************************************************************)
(* A debug port, whose lines are let go however the act ends.              *)
(***************************************************************************)

\* Swd.send: words as there is room, and the replies they make.
SwdSend(words, replies) == Feed(words \o AskedWords(replies), 8) \o Pause \o Pop(replies)
SwdBits(words) == SwdSend(Words(1 + words), 0)
SwdWake == SwdBits(10)
SwdLineReset == SwdBits(5)
SwdTargetsel == SwdSend(Words(2), 1)
SwdRead == SwdSend(<<>>, 1)
SwdWrite == SwdSend(Words(2), 1)
SwdReadUntil == Perhaps(SwdRead) \o SwdRead
SwdSelect == SwdLineReset \o SwdTargetsel \o SwdRead

LetGo == Stop \o Flush \o Start

SwdAct ==
  Push(<<24>>) \o SwdWake \o SwdSelect \o SwdWrite \o SwdWrite \o SwdReadUntil
    \o SwdWrite \o Repeat(2, SwdReadUntil) \o Repeat(2, SwdWrite) \o Repeat(3, SwdSelect)

Swd == BenchLoad("SWD", 0) \o Start \o TryFinally(SwdAct, LetGo)

-----------------------------------------------------------------------------
(***************************************************************************)
(* Margins: a point's firmware, the library's with its timing moved, and   *)
(* the library's own before and after it.                                  *)
(***************************************************************************)

\* The words go in while the core is halted, so the frame has no gap.
MarginFrame(words) == Stop \o Push(Words(words)) \o Start \o Pause

Sk6812Margins(pair) ==
  BenchLoad("SK6812", 0) \o Repeat(2, MarginFrame(3) \o MarginFrame(IF pair THEN 6 ELSE 3))
    \o Show(0, 1)

EepromReference == Started("I2C_MASTER", 0, EepromQuarter) \o EepromRead(8)
RunPoint(of, load) == Started(of, 0, load)

EepromMargins ==
  BusFree \o EepromReference \o RunPoint("I2C_MASTER", EepromQuarter)
    \o Repeat(2, Exchange(AskedWords(8))) \o EepromReference

ThermometerReference ==
  Started("ONE_WIRE", 0, OneWireUnit) \o OneWireReset \o OneWireWrite(1) \o OneWireRead(8)
    \o Scratchpad

\* A repeat of the words for a reset, a write or a read.
ThermometerWords(kind) ==
  AskedWords(CASE kind = "reset" -> 3 + 8 [] kind = "write" -> 3 + 3 + 3 + 9
               [] kind = "read" -> 2 + 8)

ThermometerMargins(kind) ==
  ThermometerReference \o RunPoint("ONE_WIRE", OneWireUnit)
    \o Repeat(2, Exchange(ThermometerWords(kind)))
    \o (IF kind = "write" THEN Exchange(AskedWords(6)) ELSE <<>>) \o ThermometerReference
=============================================================================
