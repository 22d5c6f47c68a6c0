---------------------------- MODULE OutsideDemos ----------------------------
(***************************************************************************)
(* The demos against outside chips (python/demo_*.py): what each asks of   *)
(* the chip, in order.                                                     *)
(***************************************************************************)
EXTENDS HostCalls

\* The position and the flags of two readings, each frame past sigrok's timeout.
CaliperHalf == 270
CaliperFrame == Words(4)

Caliper ==
  Started("CALIPER", 0, CaliperHalf) \o Repeat(2, Pause \o Push(CaliperFrame)) \o Pause

\* A CAN frame: its length, then 18 bits and its data.
CanPeriod == 96
CanFrames == <<2, 8, 0, 1>>
CanWords(bytes) == Words(1 + Holding(18 + 8 * bytes))
CanArm == Started("CAN", 0, CanPeriod)

Can ==
  CanArm \o Pause \o FlattenSeq([i \in 1 .. 4 |-> Push(CanWords(CanFrames[i])) \o Pause])

DaliHalfBit == 20000
DaliWords == Words(2)

Dali == Started("DALI", 0, DaliHalfBit) \o Repeat(2, Push(DaliWords) \o Pause)

\* The packet twice, its start code and two channels a word, and one more start code.
Dmx512Words == <<192>> \o Words(2 * (1 + 512 \div 2) + 1)

Dmx512 == BenchLoad("DMX512", 0) \o Start \o Feed(Dmx512Words, 8)

IrNecThird == 422
IrNecFrame == Words(2)
IrNecRepeat == Words(1)

IrNec ==
  Started("IR_NEC", 0, IrNecThird) \o Push(IrNecFrame) \o Pause \o Push(IrNecRepeat) \o Pause

IrRc6Unit == 21333
IrRc6Words == Words(2)

IrRc6 == Started("IR_RC6", 0, IrRc6Unit) \o Repeat(2, Push(IrRc6Words) \o Pause)

LfastWords == Words(2)

Lfast == BenchLoad("LFAST", 0) \o Start \o Push(LfastWords)

LinWords == <<1250>> \o Words(2)

Lin == BenchLoad("LIN", 0) \o Start \o Push(LinWords)

\* EWEN, a read, a write and a read: a header, then the bits; each frame is answered.
MicrowireBits == <<9, 9 + 16, 9 + 16, 9 + 16>>
MicrowireFrame(bits) == Words(Holding(bits)) \o <<Asked>>

Microwire ==
  BenchLoad("MICROWIRE", 0) \o Start
    \o Push(FlattenSeq([i \in 1 .. 3 |-> MicrowireFrame(MicrowireBits[i])])) \o Pause
    \o Push(MicrowireFrame(MicrowireBits[4])) \o Pause \o Pop(4)

NecUnit == 27000
NecWords == Words(3)

Nec == Started("NEC_TX", 0, NecUnit) \o Repeat(3, Push(NecWords) \o Pause)

NecHalf == 13500

NecReceiver == Started("NEC_RX", 0, NecHalf)

\* Two words a pixel of eight, at the rate of the port.
NeopixelWords == Words(2 * 8)
Show(e, frames) ==
  BenchLoad("SK6812", e) \o Start \o Pause \o Repeat(frames, Paced(NeopixelWords) \o Pause)

Neopixel == Show(0, 2)

\* Release from power down, then the JEDEC ID.
PioSpiCommand(bytes) == Push(AskedWords(bytes)) \o Drain \o Pop(bytes)

PioSpi == BenchLoad("PIO_SPI", 0) \o Start \o PioSpiCommand(1) \o Pause \o PioSpiCommand(4)

\* Mutant: all the words go in before the program starts.
PioUartTxFedFirst ==
  BenchLoad("PIO_UART_TX", 0) \o Feed(Words(27), 8) \o Start \o Drain \o Pause

PioUartTx == BenchLoad("PIO_UART_TX", 0) \o Start \o Feed(Words(27), 8) \o Drain \o Pause

PioWs2812 ==
  BenchLoad("PIO_WS2812", 0) \o Start \o Pause \o Repeat(2, Paced(Words(16)) \o Pause)

SnorbleBytes == Words(4)

Snorble == BenchLoad("SNORBLE", 0) \o Start \o Push(SnorbleBytes) \o Pause

SpdifWords == Words(6)

\* Its words wait for the start, as the firmware never waits for one.
Spdif == BenchLoad("SPDIF", 0) \o Push(SpdifWords) \o Start \o Pause \o Stop

\* Dormant to SWD, line reset, TARGETSEL and a read, eight clocks a word.
SwdBlindHalf == 24
SwdBlindSetup == 8 + 4 * 32 + 4 + 8 + 56 + 8 + 8 + 5 + 33 + 8
SwdBlindRead == 8 + 37 + 3
SwdBlindWords(clocks) == AskedWords((clocks + 7) \div 8)

SwdBlind ==
  Started("SWD_BLIND", 0, SwdBlindHalf)
    \o Exchange(SwdBlindWords(SwdBlindSetup) \o SwdBlindWords(SwdBlindRead))

TdmAudioWords == Words(8)

TdmAudio == BenchLoad("TDM_AUDIO", 0) \o Start \o Push(TdmAudioWords) \o Pause \o Stop

\* Five bits for each nibble of the header, the PDOs and the CRC, between SOP and EOP.
UsbPdWords(pdos) == Words(1 + Holding(5 * (4 + 2 * (2 + 4 * pdos + 4) + 1)))

UsbPowerDelivery == BenchLoad("USB_POWER_DELIVERY", 0) \o Start \o Push(UsbPdWords(1))

WiegandCard == Words(3)

Wiegand == BenchLoad("WIEGAND", 0) \o Start \o Push(<<2400>> \o Words(1) \o WiegandCard)

Xy2100Words == Words(4)

Xy2100 == BenchLoad("XY2_100", 0) \o Start \o Push(Xy2100Words) \o Stop

-----------------------------------------------------------------------------
\* Engine 1 times Pico B's START holds, then engine 0 shows the verdict, whose load
\* stops engine 1.
HoldArm == BenchLoad("START_HOLD", 1) \o Start
Light == Show(0, 1)

StartHold == HoldArm \o Perhaps(Light)

\* The EEPROM: an address is looked for, a byte and then a page written and read back,
\* once engine 1 has heard that nobody else masters the bus.
EepromQuarter == 48
EepromPage == 64
Acked == Exchange(AskedWords(1))
AckPoll == Perhaps(Acked) \o Acked
EepromWrite(bytes) == Exchange(AskedWords(3 + bytes)) \o AckPoll
EepromRead(bytes) == Exchange(AskedWords(4 + bytes))
BusFree == BenchLoad("START_HOLD", 1) \o Start \o Pause
Find == Perhaps(Acked) \o Acked

EepromSession(of, quarter) ==
  BusFree \o Started(of, 0, quarter) \o Find
    \o EepromRead(1) \o EepromWrite(1) \o EepromRead(1)
    \o EepromRead(1) \o EepromWrite(EepromPage) \o EepromRead(EepromPage)

Eeprom == EepromSession("I2C_MASTER", EepromQuarter)
EepromStretch == EepromSession("I2C_MASTER_STRETCH", EepromQuarter)

\* The flash: a sector erased, a page programmed, read back and erased again.
FlashPage == 256
Command(bytes, reply) == Exchange(AskedWords(bytes + reply))
Wake == Command(1, 0) \o Pause
JedecId == Command(1, 3)
Status == Command(1, 1)
WaitReady == Perhaps(Status \o Pause) \o Status
WriteEnable == Command(1, 0) \o Status
ReadFlash(bytes) == Command(4, bytes)
ProgramFlash(bytes) == WriteEnable \o Command(4 + bytes, 0) \o WaitReady
EraseFlash == WriteEnable \o Command(4, 0) \o WaitReady
FlashStart(of) == BenchLoad(of, 0) \o Start

Flash ==
  FlashStart("SPI_CS_MODE0") \o Wake \o JedecId \o EraseFlash \o ReadFlash(FlashPage)
    \o ProgramFlash(FlashPage) \o ReadFlash(FlashPage) \o EraseFlash \o ReadFlash(FlashPage)

\* The thermometer: its ROM, a conversion polled to its end, then the scratchpad.
OneWireUnit == 288
OneWireReset == Exchange(AskedWords(1))
OneWireWrite(bytes) == Exchange(AskedWords(bytes))
OneWireRead(bytes) == OneWireWrite(bytes)
Scratchpad == OneWireReset \o OneWireWrite(2) \o OneWireRead(9)

Thermometer ==
  Started("ONE_WIRE", 0, OneWireUnit) \o OneWireReset \o OneWireWrite(1) \o OneWireRead(8)
    \o OneWireReset \o OneWireWrite(2) \o Perhaps(OneWireRead(1)) \o OneWireRead(1)
    \o Scratchpad

-----------------------------------------------------------------------------
\* The sender's frames, each acknowledged on the bus, then the receiver in its place:
\* after an error it listens again at a word.
CanNodeFrames == <<2, 8, 0, 0>>
CanNodeArm == Started("CAN_SENDER", 0, CanPeriod)
ListenAgain == ClearIrq \o Push(Words(1))

CanNode ==
  Select(0) \o CanNodeArm \o Pause
    \o FlattenSeq([i \in 1 .. 4 |-> Push(CanWords(CanNodeFrames[i])) \o Pause])
    \o BenchLoad("CAN_RECEIVER", 0) \o Start \o Perhaps(ListenAgain)

\* The periods the library's rates load.
Baud == [UART_TX_9600 |-> 5000, UART_TX_19200 |-> 2500, UART_TX_38400 |-> 1250,
         UART_TX_57600 |-> 833, UART_TX_115200 |-> 417, UART_TX_230400 |-> 208]
I2cQuarter == [I2C_STANDARD |-> 121, I2C_FAST |-> 32]

I2cRates ==
  EepromSession("I2C_STANDARD", I2cQuarter.I2C_STANDARD) \o Pause
    \o EepromSession("I2C_FAST", I2cQuarter.I2C_FAST) \o Pause

SpiRates ==
  FlashStart("SPI_CS_MODE0") \o Wake \o JedecId \o Pause
    \o FlashStart("SPI_CS_MODE1") \o JedecId \o Pause
    \o FlashStart("SPI_CS_MODE2") \o JedecId \o Pause
    \o FlashStart("SPI_CS_MODE3") \o Wake \o JedecId \o Pause

\* A run the simulator predicted: bursts, each fed and drained.
PredictedBurst(words) == Feed(words, 8) \o Drain

Predicted(of) ==
  BenchLoad(of, 0) \o Start \o PredictedBurst(<<Baud[of]>> \o Words(2)) \o PredictedBurst(Words(3))

UartRate(of) == Started(of, 0, Baud[of]) \o Pause \o Push(Words(4)) \o Pause
=============================================================================
