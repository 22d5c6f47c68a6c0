------------------------------ MODULE MCDemos -------------------------------
EXTENDS Demos, BoardDemos, BenchFirmware, BothRolesFirmware, OtherFirmware

AllTables ==
  [UART_TX_9600 |-> UART_TX_9600, UART_TX_19200 |-> UART_TX_19200,
   UART_TX_38400 |-> UART_TX_38400, UART_TX_57600 |-> UART_TX_57600,
   UART_TX_115200 |-> UART_TX_115200, UART_TX_230400 |-> UART_TX_230400,
   I2C_MASTER |-> I2C_MASTER, I2C_MASTER_STRETCH |-> I2C_MASTER_STRETCH,
   START_HOLD |-> START_HOLD, I2C_STANDARD |-> I2C_STANDARD, I2C_FAST |-> I2C_FAST,
   I2C_STANDARD_ASYM |-> I2C_STANDARD_ASYM, I2C_FAST_ASYM |-> I2C_FAST_ASYM,
   SK6812 |-> SK6812, ETHERNET |-> ETHERNET, ONE_WIRE |-> ONE_WIRE, PS2 |-> PS2,
   CAN |-> CAN, CAN_SENDER |-> CAN_SENDER, CAN_RECEIVER |-> CAN_RECEIVER, CEC |-> CEC,
   SPI_CS_MODE0 |-> SPI_CS_MODE0, SPI_CS_MODE1 |-> SPI_CS_MODE1,
   SPI_CS_MODE2 |-> SPI_CS_MODE2, SPI_CS_MODE3 |-> SPI_CS_MODE3, SWD |-> SWD,
   NEC_TX |-> NEC_TX, NEC_RX |-> NEC_RX, SNORBLE |-> SNORBLE, MICROWIRE |-> MICROWIRE,
   IR_RC6 |-> IR_RC6, CALIPER |-> CALIPER, XY2_100 |-> XY2_100, LFAST |-> LFAST,
   TDM_AUDIO |-> TDM_AUDIO, DALI |-> DALI, LIN |-> LIN, SPDIF |-> SPDIF,
   USB_POWER_DELIVERY |-> USB_POWER_DELIVERY, DMX512 |-> DMX512, WIEGAND |-> WIEGAND,
   SWD_BLIND |-> SWD_BLIND, IR_NEC |-> IR_NEC,
   I2C_CONTROLLER_WIRE |-> I2C_CONTROLLER_WIRE, I2C_TARGET_WIRE |-> I2C_TARGET_WIRE,
   SPI_CONTROLLER_WIRE_MODE0 |-> SPI_CONTROLLER_WIRE_MODE0,
   SPI_TARGET_WIRE_MODE0 |-> SPI_TARGET_WIRE_MODE0,
   SPI_CONTROLLER_WIRE_MODE1 |-> SPI_CONTROLLER_WIRE_MODE1,
   SPI_TARGET_WIRE_MODE1 |-> SPI_TARGET_WIRE_MODE1,
   SPI_CONTROLLER_WIRE_MODE2 |-> SPI_CONTROLLER_WIRE_MODE2,
   SPI_TARGET_WIRE_MODE2 |-> SPI_TARGET_WIRE_MODE2,
   SPI_CONTROLLER_WIRE_MODE3 |-> SPI_CONTROLLER_WIRE_MODE3,
   SPI_TARGET_WIRE_MODE3 |-> SPI_TARGET_WIRE_MODE3, UART_TX_WIRE |-> UART_TX_WIRE,
   UART_RX_WIRE |-> UART_RX_WIRE, PIO_WS2812 |-> PIO_WS2812,
   PIO_UART_TX |-> PIO_UART_TX, PIO_SPI |-> PIO_SPI,
   CERTIFIED_DSHOT600 |-> CERTIFIED_DSHOT600, CERTIFIED_SENT |-> CERTIFIED_SENT,
   CERTIFIED_CEC |-> CERTIFIED_CEC, TOLERANCE_SENDER |-> TOLERANCE_SENDER,
   TOLERANCE_RECEIVER |-> TOLERANCE_RECEIVER, SWEEP_LOGGER |-> SWEEP_LOGGER,
   SWEEP_UART_TX |-> SWEEP_UART_TX, PARK_UART_TX |-> PARK_UART_TX,
   SWEEP_UART_TX16 |-> SWEEP_UART_TX16, PARK_UART_TX16 |-> PARK_UART_TX16,
   SWEEP_UART_TX_HOST_RATE |-> SWEEP_UART_TX_HOST_RATE,
   PARK_UART_TX_HOST_RATE |-> PARK_UART_TX_HOST_RATE,
   SWEEP_SPI_MASTER |-> SWEEP_SPI_MASTER, PARK_SPI_MASTER |-> PARK_SPI_MASTER,
   SWEEP_JTAG |-> SWEEP_JTAG, PARK_JTAG |-> PARK_JTAG, SWEEP_CAN |-> SWEEP_CAN,
   PARK_CAN |-> PARK_CAN, SWEEP_SENT |-> SWEEP_SENT, PARK_SENT |-> PARK_SENT,
   SWEEP_WIEGAND |-> SWEEP_WIEGAND, PARK_WIEGAND |-> PARK_WIEGAND,
   ETHERNET_10BASE_T |-> ETHERNET_10BASE_T, USB_FS_DEVICE |-> USB_FS_DEVICE,
   UART_TX_HOST_RATE |-> UART_TX_HOST_RATE, SELF_CHECK_WIRE |-> SELF_CHECK_WIRE,
   EDGE_LOGGER_ECHO |-> EDGE_LOGGER_ECHO, SCRUB |-> SCRUB, ETHERNET_RX |-> ETHERNET_RX,
   EDGE_LOGGER_WIRE |-> EDGE_LOGGER_WIRE, I2C_MASTER_MARKED |-> I2C_MASTER_MARKED,
   SCL_RISE |-> SCL_RISE, BOARD_UART_TX |-> BOARD_UART_TX,
   TOLERANCE_SENDER_WHOLE |-> TOLERANCE_SENDER_WHOLE, USB_DEVICE |-> USB_DEVICE,
   STANDIN_WORDS |-> STANDIN_WORDS]

AllDemos ==
  [Caliper |-> Caliper, Can |-> Can, Dali |-> Dali, Dmx512 |-> Dmx512, IrNec |-> IrNec,
   IrRc6 |-> IrRc6, Lfast |-> Lfast, Lin |-> Lin, Microwire |-> Microwire, Nec |-> Nec,
   NecReceiver |-> NecReceiver, Neopixel |-> Neopixel, PioSpi |-> PioSpi,
   PioUartTx |-> PioUartTx, PioWs2812 |-> PioWs2812, Snorble |-> Snorble,
   Spdif |-> Spdif, SwdBlind |-> SwdBlind, TdmAudio |-> TdmAudio,
   UsbPowerDelivery |-> UsbPowerDelivery, Wiegand |-> Wiegand, Xy2100 |-> Xy2100,
   StartHold |-> StartHold, Eeprom |-> Eeprom, EepromStretch |-> EepromStretch,
   Flash |-> Flash, Thermometer |-> Thermometer, CanNode |-> CanNode,
   I2cRates |-> I2cRates, SpiRates |-> SpiRates, SelfCheck |-> SelfCheck, Soak |-> Soak,
   Referee |-> Referee, SelfTiming |-> SelfTiming, Sweep |-> Sweep,
   KernelVsBoard |-> KernelVsBoard, Tolerance |-> Tolerance, BothRoles |-> BothRoles,
   PiEthernet |-> PiEthernet, DemoEthernet |-> DemoEthernet,
   EthernetReceiver |-> EthernetReceiver, UsbFs |-> UsbFs, Swd |-> Swd,
   EepromMargins |-> EepromMargins, BoardCheck |-> BoardCheck,
   UsbKeyboard |-> UsbKeyboard, Standin |-> Standin, Blame |-> Blame,
   RecordOne |-> RecordOne, RecordTwo |-> RecordTwo, Draw |-> Draw,
   Predicted9600 |-> Predicted("UART_TX_9600"), Rate9600 |-> UartRate("UART_TX_9600"),
   Rate19200 |-> UartRate("UART_TX_19200"), Rate38400 |-> UartRate("UART_TX_38400"),
   Rate57600 |-> UartRate("UART_TX_57600"), Rate115200 |-> UartRate("UART_TX_115200"),
   Rate230400 |-> UartRate("UART_TX_230400"), Margins |-> Sk6812Margins(FALSE),
   PairMargins |-> Sk6812Margins(TRUE), ResetMargins |-> ThermometerMargins("reset"),
   WriteMargins |-> ThermometerMargins("write"),
   ReadMargins |-> ThermometerMargins("read")]

\* Every bit of an address, and some of their mixtures.
SomeAddresses == {2^i : i \in 0 .. 6} \cup {0, 42, 85, 127}
=============================================================================
