---------------------------- MODULE OtherFirmware ----------------------------
(***************************************************************************)
(* The firmware of the other tables the host ships: the PIO imports, the   *)
(* library's, the tolerance sweep's, the rate sweep's with the words that  *)
(* park its pins, the 10BASE-T sender's, the full speed USB device's, and  *)
(* that of the hex files the demos read (test/).                           *)
(***************************************************************************)
EXTENDS Firmware

PIO_WS2812 ==
  [Plain EXCEPT !.side_set_count = 1, !.capture_rising = TRUE,
     !.words =
       <<\hA086, \h80E6, \hC0CA, \hC0C7, \h0C32, \h1032, \h20C0, \h20E0, \h80E6, \h6021, \hC0CA, \h20C0,
         \h20C0, \h20C0, \h20C0, \hF000, \h30C0, \h30C0, \h0223, \hD001, \h30C0, \hE000, \h20C0,
         \h20C0, \h0C32, \h1032, \h20C0, \h20E0, \h80E6, \h6021, \hC0CA, \h20C0, \h20C0, \h20C0,
         \h000E, \hD001, \h30C0, \h30C0, \h30C0, \h0C43, \h1043, \h30C0, \h20E0, \h80E6, \h6021,
         \hC0CA, \h20C0, \h20C0, \h20C0, \h000E, \h20C0, \h6021, \h20C0, \h20C0, \h20C0, \h000E,
         \h0C43, \h1043, \h30C0, \h20E0, \h80E6, \h6021, \hC0CA, \h20C0, \h20C0, \h20C0, \h000E,
         \h30C0, \h6021, \h20C0, \h20C0, \h20C0, \h000E>>,
     !.certificate =
       <<\h0004, \h0004, \h0700, \h4001, \h0000, \h1180, \h8001, \h0000, \h1900, \hC001, \h0000, \h2181,
         \h0001, \h0000, \hFFFF, \hFBFF, \hFFFD, \hFFFF, \hFDFF, \hFFFD, \hFFFF, \hF8FF, \hFFFF,
         \hFFFF, \hFDFF, \hFFFF, \h0006, \h0006>>]

PIO_UART_TX ==
  [Plain EXCEPT !.period_fraction = TRUE, !.capture_rising = TRUE,
     !.words =
       <<\hA09A, \hA001, \h80E6, \hC0CA, \hC0C7, \h1056, \h20C0, \hA001, \h20E0, \h80E6, \hE004, \hC0CA,
         \h20C0, \h20C0, \h20C0, \h20C0, \h20C0, \h20C0, \h20C0, \h20C0, \h20C0, \h20C0, \h20C0,
         \h20C0, \h20C0, \h20C0, \h20C0, \h20C0, \hA000, \hA027, \h20C0, \h20C0, \h20C0, \h20C0,
         \h20C0, \h20C0, \h20C0, \h20C0, \h20C0, \h20C0, \h20C0, \h20C0, \h20C0, \h20C0, \h20C0,
         \h20C0, \h6001, \h20C0, \h20C0, \h20C0, \h20C0, \h20C0, \h20C0, \h20C0, \h20C0, \h20C0,
         \h20C0, \h20C0, \h20C0, \h20C0, \h20C0, \h20C0, \h022D, \h1056, \h20C0, \hA001, \h20E0,
         \h80E6, \hE004, \hC0CA, \h20C0, \h20C0, \h20C0, \h20C0, \h20C0, \h20C0, \h20C0, \h20C0,
         \h20C0, \h20C0, \h20C0, \h20C0, \h20C0, \h20C0, \h20C0, \h001B, \h20C0, \hA001, \hE004,
         \h20C0, \h20C0, \h20C0, \h20C0, \h20C0, \h20C0, \h20C0, \h20C0, \h20C0, \h20C0, \h20C0,
         \h20C0, \h20C0, \h20C0, \h20C0, \h001B>>,
     !.certificate =
       <<\h0003, \h0002, \h0D80, \h4001, \h0000, \h1680, \h4001, \h0400, \h2B00, \h8001, \h0000, \hFFFF,
         \hE6FF, \hFFE9, \hFFFF, \hE4FF, \hFFEB, \h001A, \h001A, \h0000, \h0007>>]

PIO_SPI ==
  [Plain EXCEPT !.side_set_count = 2, !.capture_rising = TRUE,
     !.words =
       <<\hB08C, \hB026, \hB046, \h90E6, \hD0CA, \hD0C7, \h0C44, \h1038, \h30C0, \h30E0, \h90E6, \hF004,
         \hD0CA, \h30C0, \h0C34, \h1034, \h30C0, \h20E0, \h80E6, \h6001, \hC0CA, \h20C0, \h20C0,
         \h4801, \h28C0, \h027B, \h0C78, \h1078, \h28C0, \h20E0, \h80E6, \h6001, \hC0CA, \h20C0,
         \h8022, \h20C0, \h4801, \h28C0, \h0C7B, \h107B, \h28C0, \hE000, \h20C0, \h0C64, \h1058,
         \h20C0, \h30E0, \h90E6, \hF004, \hD0CA, \h30C0, \h000E, \h30C0, \h6001, \h20C0, \h0016,
         \h30C0, \hF004, \h30C0, \h0C34, \h1034, \h30C0, \h20E0, \h80E6, \h6001, \hC0CA, \h20C0,
         \h0016, \h30C0, \h30C0, \h0C34, \h1034, \h30C0, \h20E0, \h80E6, \h6001, \hC0CA, \h20C0,
         \h0016, \h0C64, \h1058, \h20C0, \h30E0, \h90E6, \hF004, \hD0CA, \h30C0, \h000E, \h20C0,
         \hF004, \h30C0, \h0C34, \h1034, \h30C0, \h20E0, \h80E6, \h6001, \hC0CA, \h20C0, \h0016,
         \h20C0, \hF000, \h30C0, \h0C34, \h1034, \h30C0, \h20E0, \h80E6, \h6001, \hC0CA, \h20C0,
         \h0016, \h0C78, \h1078, \h28C0, \h20E0, \h80E6, \h6001, \hC0CA, \h0021, \h28C0, \h6001,
         \h0021, \h0C84, \h1084, \h28C0, \h20E0, \h80E6, \h6001, \hC0CA, \h20C0, \h0016, \h28C0,
         \h6001, \h20C0, \h0016>>,
     !.certificate =
       <<\h000B, \h000A, \h0700, \h4002, \h0004, \h0B00, \h4002, \h0004, \h1080, \h8002, \h0604, \h1A00,
         \hC002, \h0004, \h1C01, \h0002, \h0204, \h2201, \h4002, \h0204, \h2C01, \h8002, \h0004,
         \h3201, \hC002, \h0004, \h3C02, \h0002, \h0604, \h3D82, \h4002, \h0004, \h4202, \h8002,
         \h0004, \hFFFF, \hF5FF, \hFFF7, \hFFFF, \hF7FF, \hFFF8, \hFFFF, \hF7FF, \hFFFB, \hFFFF,
         \hF4FF, \hFFF4, \hFFFF, \hF2FF, \hFFF2, \hFFFF, \hF9FF, \hFFF9, \hFFFF, \hF7FF, \hFFF7,
         \hFFFF, \hF9FF, \hFFFB, \hFFFF, \hF7FF, \hFFF9, \hFFFF, \hF9FF, \hFFFD, \h0006, \h0006,
         \h000C, \h000C, \hFFFF, \hFFFF>>]

CERTIFIED_DSHOT600 ==
  [Plain EXCEPT !.capture_rising = TRUE,
     !.words =
       <<\h80E6, \hA000, \hA09F, \h20E0, \hE004, \hA02F, \h80E6, \hC0CA, \h20C0, \hA001, \h20C0, \h6001,
         \h20C0, \hA000, \hC0D7, \hC0D3, \h0208, \hA047, \h20C0, \h0412, \h0003>>,
     !.certificate =
       <<\h0003, \h0003, \h0180, \h4001, \h0000, \h0400, \h8001, \h0400, \h0900, \hC001, \h080C, \hFFFF,
         \hE600, \h0003, \hFFFF, \hE3FF, \hFFF1, \hFFFF, \hE4FF, \hFFF2, \h001F, \h001F, \h0000,
         \h000F, \h0000, \h0007, \hFFFF, \hFFFF>>]

CERTIFIED_SENT ==
  [Plain EXCEPT !.capture_rising = TRUE, !.loaded = 21, !.floor = TRUE,
     !.words =
       <<\h20E0, \hE004, \h80C5, \h80E6, \hA001, \h20E0, \h80E6, \hC0CA, \hE004, \h2040, \hA000, \hC0CA,
         \hC0CA, \hC0CA, \hC0CA, \hC0CA, \h2040, \hA001, \hA030, \hC0CA, \hC0CA, \h20C0, \h0213,
         \h6024, \hE005, \hA047, \h2040, \hA000, \hC0CA, \hC0CA, \hC0CA, \hC0CA, \hC0CA, \h2040,
         \hA001, \hC0CA, \hC0CA, \hC0CA, \hC0CA, \hC0CA, \hC0CA, \h20C0, \h0229, \h0442, \h2040,
         \hA000, \hC0CA, \hC0CA, \hC0CA, \hC0CA, \hC0CA, \h2040, \hA001, \hC0CA, \hC0CA, \hC0CA,
         \hC0CA, \hC0CA, \hC0CA, \hC0CA, \h1008, \h2040, \h20E0, \h80E6, \hC0CA, \h0008, \hA020,
         \h0648, \h40C4, \h80A4, \h6024, \h001A, \hA023, \h064B, \hE004, \h8085, \h6024, \h80A4,
         \h6061, \h6061, \h6061, \h6061, \h001A>>,
     !.certificate =
       <<\h0007, \h0007, \h0400, \h4001, \h0000, \h0980, \h8001, \h0400, \h0D00, \hC001, \h000C, \h1481,
         \h0001, \h000C, \h2101, \h4001, \h0A10, \h2401, \h8001, \h0C10, \h2581, \hC001, \h0E10,
         \hF900, \h12FF, \hFFEF, \hFF00, \h0400, \h0003, \hFF00, \h0700, \h0000, \hFA00, \h0EFF,
         \hFFEE, \hFF00, \h06FF, \hFFF0, \hFF00, \h09FF, \hFFF3, \hFF00, \h0CFF, \hFFF7, \h0015,
         \hFFFF, \h0000, \h0010, \h0000, \h0007, \h0000, \h0006, \hFFFF, \hFFFF, \h0000, \h0000,
         \h0003, \h0003>>]

CERTIFIED_CEC ==
  [Plain EXCEPT !.capture_rising = TRUE, !.loaded = 7, !.floor = TRUE,
     !.words =
       <<\h20E0, \hE004, \h80C5, \h80E6, \hA000, \hA060, \h20E0, \hE004, \h8045, \h80E6, \hC0CA, \h20C0,
         \hA061, \hA03F, \h20C0, \h020E, \hA03F, \h20C0, \h0211, \hA028, \h20C0, \h0214, \h20C0,
         \hA060, \hA02E, \h20C0, \h0219, \hE004, \h80AD, \h20C0, \hA061, \hA02A, \h20C0, \h0220,
         \h20C0, \h6081, \hA030, \h20C0, \h0225, \h20C0, \hA060, \hA030, \h20C0, \h022A, \h0C1D,
         \h20C0, \hA061, \hA02A, \h20C0, \h0230, \h20C0, \hA060, \hA027, \h20C0, \h0235, \h20C0,
         \h4001, \hE003, \hA039, \h20C0, \h023B, \h041B, \hA046, \hA03F, \h20C0, \h0240, \hA02F,
         \h20C0, \h0243, \h043F, \h0006>>,
     !.certificate =
       <<\h0010, \h0007, \h0300, \h4001, \h0000, \h0700, \h8001, \h0400, \h0880, \hC001, \h0400, \h0A00,
         \hC001, \h0600, \h0C80, \h8001, \h0800, \h0D81, \h0001, \h0A00, \h0E81, \h4001, \h0A00,
         \h1000, \h8001, \h0C00, \h1280, \h8001, \h0E00, \h1500, \h8001, \h0E00, \h1800, \h8001,
         \h0C00, \h1A80, \h8001, \h1000, \h1D80, \hC001, \h1200, \h1F81, \h8001, \h0A28, \h2001,
         \hC001, \h0428, \h2180, \hC001, \h1628, \hFF00, \h0800, \h0003, \hFF00, \h04FF, \hFFFC,
         \hFF00, \h04FF, \hFFFD, \hFF00, \h04FF, \hFFFE, \hFF00, \h0600, \h0000, \hFF00, \h06FF,
         \hFFFF, \hFF00, \h0400, \h0000, \h0007, \hFFFF, \h0000, \h001F, \h0000, \h0008, \h0000,
         \h000E, \hFFFF, \hFFFF, \h0000, \h000A, \h0000, \h0010, \h0000, \h0007, \h0000, \h0019,
         \h0000, \h0006, \h0000, \h000F>>]

TOLERANCE_SENDER ==
  [Plain EXCEPT !.period_fraction = TRUE, !.capture_rising = TRUE, !.loaded = 4650, !.floor = TRUE,
     !.words =
       <<\h20E0, \hE004, \h80C5, \hA001, \h20E0, \hE004, \h80E6, \hC0CA, \h20C0, \hA000, \hA027, \h20C0,
         \h6001, \h020B, \h20C0, \hA001, \h1204, \hE004, \h0008>>,
     !.certificate =
       <<\h0003, \h0002, \h0200, \h0001, \h0000, \h0400, \h4001, \h0000, \h0580, \h8001, \h0400, \hFF00,
         \h03FF, \hEDDD, \hFF00, \h03FF, \hEDDA, \h122A, \hFFFF, \h0000, \h0007>>]

TOLERANCE_RECEIVER ==
  [Plain EXCEPT !.capture_pin = 26, !.loaded = 2500, !.single_edge = TRUE,
     !.words =
       <<\h20E0, \hE004, \h80C5, \h209A, \hE007, \h201A, \h80E7, \hC0CA, \hC0CA, \hC0CA, \hC0D1, \hA027,
         \h20C0, \h4001, \hC0CA, \h020C, \h4068, \hE003, \h2040, \h0804, \hE002, \h0003>>,
     !.certificate =
       <<\h0003, \h0001, \h0180, \h0001, \h0000, \h0200, \h0001, \h0000, \h0640, \h4001, \h0400, \hFFE2,
         \hBCFF, \hEC7D, \h09C4, \h09C4, \h0000, \h0007>>]

SWEEP_LOGGER ==
  [Plain EXCEPT !.capture_rising = TRUE,
     !.words =
       <<\h080B, \hA000, \h2094, \h8026, \hA001, \h4030, \h2014, \h8026, \hA000, \h4030, \h0002, \hA001,
         \h0006>>,
     !.certificate =
       <<\h0003, \h0000, \h0100, \h0000, \h0000, \h0300, \h0000, \h0000, \h0580, \h0000, \h0000>>]

SWEEP_UART_TX ==
  [Plain EXCEPT !.capture_rising = TRUE,
     !.words =
       <<\hA088, \hA001, \h20E0, \hE004, \hA027, \h80E6, \hA000, \hC0CA, \h20C0, \h6001, \h0208, \h20C0,
         \hA001, \h2040, \h0002>>,
     !.certificate =
       <<\h0002, \h0001, \h0100, \h0001, \h0000, \h0400, \h4001, \h0400, \hFFFF, \hFBFF, \hFFFC, \h0008,
         \h0008, \h0000, \h0007>>]

PARK_UART_TX ==
  [Plain EXCEPT !.capture_rising = TRUE,
     !.words =
       <<\h8003, \hE001>>,
     !.certificate =
       <<\h0000, \h0000>>]

SWEEP_UART_TX16 ==
  [Plain EXCEPT !.capture_rising = TRUE,
     !.words =
       <<\hA090, \hA001, \h20E0, \hE004, \hA027, \h80E6, \hA000, \hC0CA, \h20C0, \h6001, \h0208, \h20C0,
         \hA001, \h2040, \h0002>>,
     !.certificate =
       <<\h0002, \h0001, \h0100, \h0001, \h0000, \h0400, \h4001, \h0400, \hFFFF, \hF3FF, \hFFF4, \h0010,
         \h0010, \h0000, \h0007>>]

PARK_UART_TX16 == PARK_UART_TX

SWEEP_UART_TX_HOST_RATE ==
  [Plain EXCEPT !.capture_rising = TRUE, !.loaded = 434,
     !.words =
       <<\h20E0, \hE004, \h80C5, \hA001, \h20E0, \hE004, \hA027, \h80E6, \hA000, \hC0CA, \h20C0, \h6001,
         \h020A, \h20C0, \hA001, \h2040, \h0004>>,
     !.certificate =
       <<\h0002, \h0001, \h0200, \h0001, \h0000, \h0500, \h4001, \h0400, \hFFFE, \h51FF, \hFE52, \h01B2,
         \h01B2, \h0000, \h0007>>]

PARK_UART_TX_HOST_RATE == PARK_UART_TX

SWEEP_SPI_MASTER ==
  [Plain EXCEPT !.side_set_count = 1, !.capture_rising = TRUE,
     !.words =
       <<\hA088, \h20E0, \hE004, \h6068, \hA027, \h80E6, \hC0CA, \h20C0, \h6001, \h20C0, \h5001, \h30C0,
         \h6001, \h0209, \hE003, \h0001>>,
     !.certificate =
       <<\h0002, \h0001, \h0080, \h0001, \h0000, \h0480, \h4001, \h0400, \hFFFF, \hFAFF, \hFFFC, \h0008,
         \h0008, \h0000, \h0007>>]

PARK_SPI_MASTER ==
  [Plain EXCEPT !.side_set_count = 1, !.capture_rising = TRUE,
     !.words =
       <<\h8003, \hE001>>,
     !.certificate =
       <<\h0000, \h0000>>]

SWEEP_JTAG ==
  [Plain EXCEPT !.side_set_count = 1, !.capture_rising = TRUE,
     !.words =
       <<\hA084, \h20E0, \hE004, \hA027, \h80E6, \hC0CA, \h20C0, \h6002, \h20C0, \h5001, \h30C0, \h6002,
         \h0208, \hE003, \h0001>>,
     !.certificate =
       <<\h0002, \h0001, \h0080, \h0001, \h0000, \h0400, \h4001, \h0400, \hFFFF, \hFE00, \h0000, \h0004,
         \h0004, \h0000, \h0007>>]

PARK_JTAG ==
  [Plain EXCEPT !.side_set_count = 1, !.capture_rising = TRUE,
     !.words =
       <<\h8003, \hE001>>,
     !.certificate =
       <<\h0000, \h0000>>]

SWEEP_CAN ==
  [Plain EXCEPT !.capture_rising = TRUE, !.loaded = 1800,
     !.words =
       <<\h20E0, \hE004, \h80C5, \h80E6, \hC0CA, \h20C0, \hA001, \h20E0, \hE004, \h8025, \h6070, \hE005,
         \h80E6, \hC0CA, \h20C0, \hA000, \hA043, \h0816, \h20C0, \h6001, \h0819, \h001B, \h20C0,
         \h6001, \h081B, \hA043, \h001F, \h041F, \h20C0, \h8008, \hA043, \h0211, \h40CF, \h80A4,
         \hA02E, \h0828, \h20C0, \h6001, \h082B, \h002D, \h20C0, \h6001, \h082D, \hA043, \h0031,
         \h0431, \h20C0, \h8008, \hA043, \h0223, \h20C0, \hA001, \hA02B, \h20C0, \h0235, \h0007>>,
     !.certificate =
       <<\h000C, \h0009, \h0380, \h4001, \h0000, \h0880, \h8001, \h0008, \h0B00, \hC001, \h0008, \h0C81,
         \h0001, \h0008, \h0D81, \h4001, \h0008, \h0F81, \h8001, \h0008, \h1181, \hC001, \h0608,
         \h1402, \h0001, \h0608, \h1581, \h0001, \h0608, \h1681, \h4001, \h0608, \h1881, \h8001,
         \h0608, \h1A82, \h4001, \h0808, \hFFF8, \hFAFF, \hF8FD, \hFFF8, \hFBFF, \hF902, \hFFF8,
         \hFDFF, \hF904, \hFFF8, \hFCFF, \hF8FC, \hFFF8, \hFCFF, \hF8FE, \hFFF8, \hFBFF, \hF900,
         \hFFF8, \hFDFF, \hF905, \hFFF8, \hFFFF, \hF907, \hFFF8, \hFBFF, \hF8FB, \h0708, \h0708,
         \h0000, \h0003, \h0000, \h000E, \h0000, \h000B>>]

PARK_CAN ==
  [Plain EXCEPT !.capture_rising = TRUE,
     !.words =
       <<\h8003, \hE001>>,
     !.certificate =
       <<\h0000, \h0000>>]

SWEEP_SENT ==
  [Plain EXCEPT !.capture_rising = TRUE, !.loaded = 300,
     !.words =
       <<\h20E0, \hE004, \h80C5, \h80E6, \hA001, \h20E0, \h80E6, \hC0CA, \hE004, \h2040, \hA000, \hC0CA,
         \hC0CA, \hC0CA, \hC0CA, \hC0CA, \h2040, \hA001, \hA030, \hC0CA, \hC0CA, \h20C0, \h0213,
         \h6024, \hE005, \hA047, \h2040, \hA000, \hC0CA, \hC0CA, \hC0CA, \hC0CA, \hC0CA, \h2040,
         \hA001, \hC0CA, \hC0CA, \hC0CA, \hC0CA, \hC0CA, \hC0CA, \h20C0, \h0229, \h0442, \h2040,
         \hA000, \hC0CA, \hC0CA, \hC0CA, \hC0CA, \hC0CA, \h2040, \hA001, \hC0CA, \hC0CA, \hC0CA,
         \hC0CA, \hC0CA, \hC0CA, \hC0CA, \h1008, \h2040, \h20E0, \h80E6, \hC0CA, \h0008, \hA020,
         \h0648, \h40C4, \h80A4, \h6024, \h001A, \hA023, \h064B, \hE004, \h8085, \h6024, \h80A4,
         \h6061, \h6061, \h6061, \h6061, \h001A>>,
     !.certificate =
       <<\h0007, \h0007, \h0400, \h4001, \h0000, \h0980, \h8001, \h0400, \h0D00, \hC001, \h000C, \h1481,
         \h0001, \h000C, \h2101, \h4001, \h0A10, \h2401, \h8001, \h0C10, \h2581, \hC001, \h0E10,
         \hFFF7, \hD7FF, \hFED8, \hFFFE, \hD700, \h0003, \hFFFE, \hDAFF, \hFEE9, \hFFF9, \h00FF,
         \hFED7, \hFFFE, \hD9FF, \hFED9, \hFFFE, \hDCFF, \hFEDC, \hFFFE, \hDFFF, \hFEE0, \h012C,
         \h012C, \h0000, \h0010, \h0000, \h0007, \h0000, \h0006, \hFFFF, \hFFFF, \h0000, \h0000,
         \h0003, \h0003>>]

PARK_SENT ==
  [Plain EXCEPT !.capture_rising = TRUE,
     !.words =
       <<\h8003, \hE001>>,
     !.certificate =
       <<\h0000, \h0000>>]

SWEEP_WIEGAND ==
  [Plain EXCEPT !.capture_rising = TRUE, !.loaded = 1200,
     !.words =
       <<\hA003, \h20E0, \hE004, \h80C5, \h20E0, \hE004, \h8025, \hC013, \h8081, \h20E0, \hE004, \h8045,
         \h20E0, \hE004, \h80E6, \hC0CA, \h0C12, \hE004, \h6021, \h0217, \h20C0, \hA002, \h0019,
         \h20C0, \hA001, \h20C0, \hA003, \h8024, \h20C0, \h021C, \h0410, \h0009>>,
     !.certificate =
       <<\h0006, \h0005, \h0480, \h0001, \h0000, \h0800, \h4001, \h0000, \h0900, \h8001, \h0000, \h0B80,
         \hC001, \h0000, \h0C81, \h0001, \h0000, \h0E01, \h4001, \h0000, \hFFFB, \h52FF, \hFB55,
         \hFFFB, \h54FF, \hFB58, \hFFFB, \h57FF, \hFB5B, \hFFFB, \h52FF, \hFB54, \hFFFB, \h53FF,
         \hFB53, \h04B0, \h04B0>>]

PARK_WIEGAND ==
  [Plain EXCEPT !.capture_rising = TRUE,
     !.words =
       <<\h8003, \hE001>>,
     !.certificate =
       <<\h0000, \h0000>>]

ETHERNET_10BASE_T ==
  [Plain EXCEPT !.loaded = 64000,
     !.words =
       <<\hE004, \h80C5, \hA063, \h80E6, \hC0CA, \hA029, \h20C0, \h100C, \h0206, \hA301, \hA000, \h0005,
         \hE004, \h8045, \hA020, \hE008, \h6070, \hA03E, \h6101, \h0212, \h6101, \hA13E, \h6101,
         \h0216, \h6101, \hE105, \h6101, \h041A, \h6101, \hE009, \hA03F, \h6101, \h021F, \hAA01,
         \hA000, \h80E6, \hC0CA, \h0005>>,
     !.certificate =
       <<\h0007, \h0003, \h0280, \h4001, \h0000, \h0300, \h8001, \h0400, \h0600, \hC001, \h0400, \h0900,
         \h0001, \h0600, \h0B00, \h0001, \h0600, \h0D00, \h0001, \h0800, \h0F80, \h0001, \h0A10,
         \hFF06, \h02FF, \h060C, \hFF06, \h03FF, \h060D, \hFF06, \h03FF, \h0603, \hFA00, \hFA00,
         \h0000, \h0009, \h0000, \h001E, \hFFFF, \hFFFF, \h0000, \h001F>>]

USB_FS_DEVICE ==
  [Plain EXCEPT !.capture_rising = TRUE,
     !.words =
       <<\hA001, \hA060, \hE004, \h60D0, \hA041, \h80A3, \h6070, \h8023, \hE008, \h8022, \hC011, \h0218,
         \h1218, \hE004, \h6050, \h8022, \hC02A, \h8031, \h0214, \h0018, \h0216, \h0018, \h80C2,
         \hA041, \h209E, \h209D, \h80E6, \h6030, \h0660, \h1265, \hE004, \h6030, \hE008, \hC0C7,
         \hC0C7, \h6050, \hA063, \hA02D, \hC0C3, \h0433, \h2040, \h6101, \h0229, \h6301, \h6301,
         \hA000, \hE005, \hA541, \hA301, \hA060, \h0073, \h2040, \h6101, \h0234, \h6001, \h0445,
         \hE000, \h6001, \hE005, \hE009, \hA02F, \h6101, \h023D, \hA000, \hE005, \hA541, \hA301,
         \hA060, \h0073, \hE000, \h6001, \hE005, \hA02E, \hE000, \h6001, \h0449, \hE009, \h6101,
         \h024D, \h6001, \hE006, \h0E58, \hA000, \hE005, \hA541, \hA301, \hA060, \h0073, \h6101,
         \h0E58, \hA000, \hE005, \hA541, \hA301, \hA060, \h0073, \hC02A, \h8031, \h0264, \h0065,
         \h0286, \hA030, \hE008, \hC0C7, \hC0C7, \h6030, \hA063, \hC0C3, \h2040, \h6101, \h026D,
         \hA700, \hA301, \hA060, \h0005, \h80A3, \h6070, \h8023, \hE008, \h209E, \h209C, \hE100,
         \h6024, \hC012, \h0282, \h1605, \hA023, \h8081, \hE003, \h0005, \h1686, \hA024, \h8081,
         \hE003, \h80A3, \h6070, \h8023, \hE008, \hE000, \h6030, \hC02A, \h80A1, \h6024, \hC014,
         \h0297, \h6024, \hC014, \h0297, \h6028, \h0205, \h00CA, \h80A3, \h6070, \h8023, \hE008,
         \hE000, \h6030, \hC02A, \h80A1, \h6024, \hC017, \hC011, \h0205, \h6024, \hC017, \hC011,
         \h0205, \h6028, \h0205, \h80A3, \h6070, \h8023, \hE008, \h16C5, \h209E, \h209D, \h80E6,
         \h6030, \h8083, \h4022, \h8024, \hC013, \h0286, \hA032, \hE008, \hC0C7, \hC0C7, \h6030,
         \hA063, \hC0C3, \h2040, \h6101, \h02BF, \hA700, \hA301, \hA060, \h00EC, \h209E, \h209D,
         \h80E6, \hA032, \h00B8, \h80A3, \h6070, \h8023, \hE008, \h16E7, \h209E, \h209D, \h80E6,
         \h6030, \h8081, \hE003, \h4022, \h8024, \hC013, \h0286, \hA032, \hE008, \hC0C7, \hC0C7,
         \h6030, \hA063, \hC0C3, \h2040, \h6101, \h02E1, \hA700, \hA301, \hA060, \h00F1, \h209E,
         \h209D, \h80E6, \hA032, \h00DA, \h1605, \hA022, \h8081, \hE003, \h0005, \h80A3, \h6070,
         \hA021, \hE008, \hA023, \h1605, \h60B0, \hE003, \h02F6, \h0005>>,
     !.certificate =
       <<\h001E, \h0006, \h0280, \h0000, \h0000, \h0A00, \h0000, \h0000, \h0B00, \h0000, \h0000, \h0C00,
         \h0000, \h0000, \h1480, \h0000, \h0404, \h1980, \h4000, \h080C, \h1A00, \h0000, \h040C,
         \h1E80, \h0000, \h0A04, \h2280, \h0000, \h0218, \h2480, \h0000, \h0E18, \h2680, \h0000,
         \h1004, \h2C00, \h0000, \h0204, \h3000, \h8000, \h0000, \h3200, \hC000, \h0000, \h3281,
         \h0000, \h0000, \h3680, \h0000, \h0000, \h3980, \h0000, \h0224, \h4100, \h0000, \h0024,
         \h4300, \h0000, \h0000, \h4B80, \h0000, \h0000, \h5C01, \h4000, \h1400, \h5F80, \h0000,
         \h0000, \h6280, \h0000, \h0000, \h6500, \h0000, \h0200, \h6D01, \h8000, \h1400, \h7080,
         \h0000, \h0000, \h7380, \h0000, \h0000, \h7600, \h0000, \h0200, \h7880, \h0000, \h0200,
         \h7B00, \h0000, \h1600, \h0000, \h0000, \h0000, \h0000, \h0400, \h0004, \h0000, \h0800,
         \h0008, \h0000, \h0600, \h000A, \h0000, \h0400, \h0009, \h0000, \h0400, \h000A, \hFFFF,
         \hFFFF, \h0000, \h000D, \h0000, \hFFFE, \h000D, \h000D, \h0000, \h000F, \h0000, \hFFFD,
         \h000E, \h000E, \h0000, \h000E, \h0001, \h0001, \h0012, \h0012, \h0000, \h0003>>]

UART_TX_HOST_RATE ==
  [Plain EXCEPT !.loaded = 4, !.floor = TRUE,
     !.words =
       <<\h20E0, \hE004, \h80C5, \hA001, \h20E0, \hE004, \hA027, \h80E6, \hA000, \hC0CA, \h20C0, \h6001,
         \h020A, \h20C0, \hA001, \h2040, \h0004>>,
     !.certificate =
       <<\h0002, \h0001, \h0200, \h0001, \h0000, \h0500, \h4001, \h0400, \hFF00, \h0400, \h0000, \h0004,
         \hFFFF, \h0000, \h0007>>]

SELF_CHECK_WIRE ==
  [Plain EXCEPT !.capture_pin = 20, !.loaded = 17, !.floor = TRUE,
     !.words =
       <<\hA030, \h4025, \hA020, \h4024, \h8024, \h80C1, \hE007, \h2094, \h2014, \hE007, \h8587, \h003B,
         \h2240, \hE007, \h8047, \h0615, \h6041, \h60CF, \hC0CA, \h040C, \h002E, \h8026, \hC015,
         \h0643, \h6041, \h60CF, \hC0CA, \h041D, \h0043, \h8083, \h2040, \h4001, \h0828, \h8044,
         \h0443, \h6041, \h60CF, \hC0CA, \h041D, \h0043, \h8044, \h0443, \h6041, \h60CF, \hC0CA,
         \h040C, \h60D0, \h2040, \h8047, \h0643, \h8047, \h2014, \hE007, \h8087, \h0643, \h8024,
         \h8046, \hC006, \h0643, \h80E6, \hA020, \hC00A, \hE008, \h8024, \h60D0, \hC0CA, \h001D,
         \hE002, \hE001>>,
     !.certificate =
       <<\h0007, \h0006, \h0620, \h4002, \h0004, \h0AA0, \hC102, \h0000, \h0EA1, \h0002, \h0000, \h1420,
         \h8002, \h0000, \h1721, \h4002, \h000C, \h1DA0, \h0302, \h0000, \h21A0, \h0002, \h0000,
         \hFF00, \h0DFF, \hFFFB, \h0000, \h0400, \h0004, \h0000, \h0700, \h0007, \hFF00, \h0AFF,
         \hFFFF, \hFF00, \h0DFF, \hFFFD, \h0000, \h0900, \h0009, \h0000, \hFFFE, \h0011, \hFFFF,
         \hFFFF, \hFFFF>>]

EDGE_LOGGER_ECHO ==
  [Plain EXCEPT !.words =
       <<\h080B, \hA000, \h2094, \h8026, \hA001, \h4030, \h2014, \h8026, \hA000, \h4030, \h0002, \hA001,
         \h0006>>,
     !.certificate =
       <<\h0003, \h0000, \h0100, \h0000, \h0000, \h0300, \h0000, \h0000, \h0580, \h0000, \h0000>>]

SCRUB ==
  [Plain EXCEPT !.words =
       <<\h80A3, \h6030, \h8083, \hE001>>,
     !.certificate =
       <<\h0000, \h0000>>]

ETHERNET_RX ==
  [Plain EXCEPT !.words =
       <<\hE004, \h8025, \h209C, \hE008, \h6070, \h60B0, \h2060, \hE003, \h0005>>,
     !.certificate =
       <<\h0001, \h0000, \h0280, \h0000, \h0000>>]

EDGE_LOGGER_WIRE ==
  [Plain EXCEPT !.words =
       <<\h0804, \h2094, \h8026, \h4030, \h2014, \h8026, \h4030, \h0001>>,
     !.certificate =
       <<\h0002, \h0000, \h0080, \h0000, \h0000, \h0200, \h0000, \h0000>>]

I2C_MASTER_MARKED ==
  [Plain EXCEPT !.side_set_count = 1,
     !.words =
       <<\hA09E, \hA002, \h20E0, \hE004, \h80E6, \hC0CA, \hC0CA, \h6021, \h0212, \h0020, \h30E0, \hF004,
         \h90E6, \hD0CA, \hD0CA, \h7021, \h0218, \h0020, \h20C0, \hA061, \h20C0, \hB000, \hD0CA,
         \h0020, \hB060, \h30C0, \hA002, \h20C0, \hA061, \h20C0, \hB000, \hD0CA, \h7041, \hB027,
         \h0436, \h30C0, \h7041, \h906A, \h30C0, \hA002, \h20C0, \h20C0, \hB000, \h0223, \h30C0,
         \hB060, \h30C0, \hA002, \h20C0, \h4001, \h20C0, \hB000, \h7021, \h0049, \hB060, \h30C0,
         \h30C0, \hA002, \h20C0, \h4001, \h20C0, \hB000, \h0237, \h7068, \h7021, \h30C0, \h9069,
         \h30C0, \hA002, \h20C0, \h20C0, \hB000, \hB060, \hF003, \h024C, \h000A, \h30C0, \hB061,
         \h30C0, \hA002, \h20C0, \hA060, \h20C0, \h0002>>,
     !.certificate =
       <<\h000A, \h0008, \h0100, \h0001, \h0000, \h0500, \h4001, \h0400, \h0900, \h8001, \h0000, \h0C00,
         \h8001, \h0000, \h1000, \hC001, \h0000, \h1181, \h0001, \h0600, \h1B01, \h4001, \h0A10,
         \h1B81, \h8001, \h0610, \h2481, \hC001, \h0000, \h2602, \h0001, \h0000, \hFFFF, \hEAFF,
         \hFFEC, \hFFFF, \hCAFF, \hFFCA, \hFFFF, \hC7FF, \hFFCC, \hFFFF, \hCBFF, \hFFE6, \hFFFF,
         \hCBFF, \hFFD0, \hFFFF, \hCCFF, \hFFE6, \hFFFF, \hE5FF, \hFFE7, \hFFFF, \hE8FF, \hFFEA,
         \h001E, \h001E, \hFFFF, \hFFFF, \h0000, \h0007, \h0000, \hFFFE, \h0007, \h0007>>]

SCL_RISE ==
  [Plain EXCEPT !.capture_pin = 18, !.capture_rising = TRUE,
     !.words =
       <<\h2014, \h160A, \hE007, \h2094, \h8026, \h2092, \h8047, \hC058, \h4050, \h0000, \h2094, \h0000>>,
     !.certificate =
       <<\h0001, \h0000, \h0500, \h0000, \h0000>>]

\* demo_board_check's copy of it.
BOARD_UART_TX == UART_TX_HOST_RATE

\* A sender whose period is whole cycles.
TOLERANCE_SENDER_WHOLE == [TOLERANCE_SENDER EXCEPT !.period_fraction = FALSE]

=============================================================================
