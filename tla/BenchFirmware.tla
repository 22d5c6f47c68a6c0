---------------------------- MODULE BenchFirmware ----------------------------
(***************************************************************************)
(* The outside chip demos' firmware (python/bench_firmware.py): the words, *)
(* the fields of the configuration a check reads, and the certificate with *)
(* what it says of a loaded period and of the captured edge.               *)
(***************************************************************************)
EXTENDS Firmware

UART_TX_9600 ==
  [Plain EXCEPT !.capture_rising = TRUE, !.loaded = 4, !.floor = TRUE,
     !.words =
       <<\h20E0, \hE004, \h80C5, \hA001, \h20E0, \hE004, \hA027, \h80E6, \hA000, \hC0CA, \h20C0, \h6001,
         \h020A, \h20C0, \hA001, \h2040, \h0004>>,
     !.certificate =
       <<\h0002, \h0001, \h0200, \h0001, \h0000, \h0500, \h4001, \h0400, \hFF00, \h0400, \h0000, \h0004,
         \hFFFF, \h0000, \h0007>>]

UART_TX_19200 == UART_TX_9600

UART_TX_38400 == UART_TX_9600

UART_TX_57600 == UART_TX_9600

UART_TX_115200 == UART_TX_9600

UART_TX_230400 == UART_TX_9600

I2C_MASTER ==
  [Plain EXCEPT !.side_set_count = 1, !.capture_rising = TRUE, !.loaded = 31, !.floor = TRUE,
     !.words =
       <<\h20E0, \hE004, \h80C5, \hA028, \h80E6, \hC0CA, \h080E, \h20C0, \hF000, \h30C0, \h30C0, \hE000,
         \h20C0, \h0206, \h20C0, \hA061, \h20C0, \hF000, \h005D, \h20E0, \hE004, \h80E6, \hC0CA,
         \hC0CA, \h6021, \h0223, \h0031, \h30E0, \hF004, \h90E6, \hD0CA, \hD0CA, \h7021, \h0229,
         \h0031, \h20C0, \hA061, \h20C0, \hF000, \hD0CA, \h0031, \hB060, \h30C0, \hE000, \h20C0,
         \hA061, \h20C0, \hF000, \hD0CA, \h7041, \hB027, \h0447, \h30C0, \h7041, \h906A, \h30C0,
         \hE000, \h20C0, \h20C0, \hF000, \h0234, \h30C0, \hB060, \h30C0, \hE000, \h20C0, \h4001,
         \h20C0, \hF000, \h7021, \h005A, \hB060, \h30C0, \h30C0, \hE000, \h20C0, \h4001, \h20C0,
         \hF000, \h0248, \h7068, \h7021, \h30C0, \h9069, \h30C0, \hE000, \h20C0, \h20C0, \hF000,
         \hB060, \hF003, \h025D, \h001B, \h30C0, \hB061, \h30C0, \hE000, \h20C0, \hA060, \h20C0,
         \h0013>>,
     !.certificate =
       <<\h000C, \h000A, \h0300, \h4002, \h0200, \h0700, \h8002, \h0000, \h0980, \hC002, \h0000, \h0D81,
         \h0002, \h0600, \h1181, \h4002, \h0000, \h1481, \h4002, \h0000, \h1881, \h8002, \h0000,
         \h1A01, \hC002, \h0800, \h2382, \h0002, \h0C14, \h2402, \h4002, \h0814, \h2D00, \h8002,
         \h0000, \h2E82, \h8002, \h0000, \hFF00, \h03FF, \hFFE4, \hFF00, \h04FF, \hFFE6, \hFF00,
         \h04FF, \hFFE4, \hFF00, \h09FF, \hFFEB, \hFE00, \h08FF, \hFFC8, \hFE00, \h05FF, \hFFCA,
         \hFE00, \h09FF, \hFFE5, \hFE00, \h09FF, \hFFCE, \hFE00, \h0AFF, \hFFE5, \hFF00, \h05FF,
         \hFFE9, \h0000, \h0008, \h001F, \hFFFF, \hFFFF, \hFFFF, \h0000, \h0007, \h0000, \hFFFE,
         \h0007, \h0007>>]

I2C_MASTER_STRETCH ==
  [Plain EXCEPT !.side_set_count = 1, !.capture_rising = TRUE, !.loaded = 31, !.floor = TRUE,
     !.words =
       <<\h20E0, \hE004, \h80C5, \hA028, \h80E6, \hC0CA, \h8040, \h040F, \h20C0, \hF000, \h30C0, \h30C0,
         \hE000, \h20C0, \h0206, \h20C0, \hA061, \h20C0, \hF000, \h30C0, \hB061, \h30C0, \hE000,
         \h20C0, \hA060, \h20C0, \h001B, \h20E0, \hE004, \h80E6, \hC0CA, \hC0CA, \h0A97, \h6021,
         \h022C, \h0040, \h30E0, \hF004, \h90E6, \hD0CA, \hD0CA, \h7021, \h0232, \h0040, \h20C0,
         \hA061, \h20C0, \hF000, \hD0CA, \h0040, \hB060, \h30C0, \h804B, \h0838, \h0435, \h0097,
         \h80E6, \hC0D4, \hC0CA, \h20C0, \hA061, \h20C0, \hF000, \hD0CA, \h7041, \hB027, \h0462,
         \h30C0, \h7041, \h906A, \h30C0, \h804B, \h084B, \h0448, \h0097, \h80E6, \hC0D4, \hC0CA,
         \h20C0, \h20C0, \hF000, \h0243, \h30C0, \hB060, \h30C0, \h804B, \h0859, \h0456, \h0097,
         \h80E6, \hC0D4, \hC0CA, \h20C0, \h4001, \h20C0, \hF000, \h7021, \h0081, \hB060, \h30C0,
         \h30C0, \h804B, \h0869, \h0466, \h0097, \h80E6, \hC0D4, \hC0CA, \h20C0, \h4001, \h20C0,
         \hF000, \h0263, \h7068, \h7021, \h30C0, \h9069, \h30C0, \h804B, \h087A, \h0477, \h0097,
         \h80E6, \hC0D4, \hC0CA, \h20C0, \h20C0, \hF000, \hB060, \hF003, \h0284, \h0024, \h30C0,
         \hB061, \h30C0, \h804B, \h088B, \h0488, \h0092, \h80E6, \hC0D4, \hC0CA, \h20C0, \hA060,
         \h20C0, \h001B, \h80E6, \hC0CA, \h2040, \hA060, \h009D, \h80E6, \hC0CA, \h2040, \hA060,
         \h808B, \hE003, \h20E0, \hE004, \h6021, \h02A4, \h808B, \hE003, \h009D, \h80E6, \hC0CA,
         \hC0CA, \h0A97, \h002C>>,
     !.certificate =
       <<\h001C, \h000C, \h0300, \h4002, \h0200, \h0780, \h8002, \h0000, \h0D80, \hC002, \h0000, \h1201,
         \h0002, \h0600, \h1601, \h4002, \h0000, \h1901, \h8002, \h0000, \h1A80, \h0002, \h0000,
         \h1C00, \h0002, \h0000, \h2001, \hC002, \h0000, \h2182, \h0002, \h0800, \h2400, \h0002,
         \h0800, \h2580, \h0002, \h0800, \h2B00, \h0002, \h0600, \h2C80, \h0002, \h0600, \h3102,
         \h4002, \h0C14, \h3182, \h8002, \h0800, \h3300, \h0002, \h0800, \h3480, \h0002, \h0800,
         \h3B80, \h0002, \h0000, \h3D00, \h0002, \h0000, \h4082, \hC002, \h0000, \h4203, \h0002,
         \h0000, \h4400, \h0002, \h0000, \h4580, \h0002, \h0000, \h4900, \h0002, \h000C, \h4B80,
         \h0002, \h0000, \h4E80, \h0002, \h0000, \h5200, \h0002, \h0000, \hFF00, \h03FF, \hFFE4,
         \hFF00, \h04FF, \hFFE7, \hFF00, \h04FF, \hFFE4, \hFF00, \h09FF, \hFFEB, \hFE00, \h09FF,
         \hFFCA, \hFE00, \h08FF, \hFFC8, \hFE00, \h05FF, \hFFCC, \hFE00, \h09FF, \hFFE5, \hFE00,
         \h09FF, \hFFD0, \hFE00, \h0AFF, \hFFE5, \hFF00, \h04FF, \hFFE6, \hFF00, \h07FF, \hFFE9,
         \h0000, \h0008, \h001F, \hFFFF, \hFFFF, \hFFFF, \h0000, \h0007, \h0000, \hFFFE, \h0007,
         \h0007>>]

START_HOLD ==
  [Plain EXCEPT !.capture_rising = TRUE,
     !.words =
       <<\h202F, \h8026, \h0A00, \h200E, \h8046, \h1600, \hC058, \h4050, \h0000>>,
     !.certificate =
       <<\h0000, \h0000>>]

I2C_STANDARD ==
  [Plain EXCEPT !.side_set_count = 1, !.capture_rising = TRUE, !.loaded = 31, !.floor = TRUE,
     !.words =
       <<\h20E0, \hE004, \h80C5, \hA028, \h80E6, \hC0CA, \h080E, \h20C0, \hF000, \h30C0, \h30C0, \hE000,
         \h20C0, \h0206, \h20C0, \h20C0, \h20C0, \hA061, \h20C0, \h20C0, \h20C0, \hF000, \h0067,
         \h20E0, \hE004, \h80E6, \hC0CA, \hC0CA, \h6021, \h0227, \h003B, \h30E0, \hF004, \h90E6,
         \hD0CA, \hD0CA, \h7021, \h022F, \h003B, \h20C0, \hA061, \h20C0, \h20C0, \h20C0, \hF000,
         \hD0CA, \h003B, \hB060, \h30C0, \hE000, \h20C0, \h20C0, \h20C0, \hA061, \h20C0, \h20C0,
         \h20C0, \hF000, \hD0CA, \h7041, \hB027, \h0451, \h30C0, \h7041, \h906A, \h30C0, \hE000,
         \h20C0, \h20C0, \hF000, \h023E, \h30C0, \hB060, \h30C0, \hE000, \h20C0, \h4001, \h20C0,
         \hF000, \h7021, \h0064, \hB060, \h30C0, \h30C0, \hE000, \h20C0, \h4001, \h20C0, \hF000,
         \h0252, \h7068, \h7021, \h30C0, \h9069, \h30C0, \hE000, \h20C0, \h20C0, \hF000, \hB060,
         \hF003, \h0267, \h001F, \h30C0, \hB061, \h30C0, \hE000, \h20C0, \h20C0, \h20C0, \hA060,
         \h20C0, \h0017>>,
     !.certificate =
       <<\h000C, \h000A, \h0300, \h4002, \h0200, \h0700, \h8002, \h0000, \h0B80, \hC002, \h0000, \h0F81,
         \h0002, \h0600, \h1381, \h4002, \h0000, \h1781, \h4002, \h0000, \h1D81, \h8002, \h0000,
         \h1F01, \hC002, \h0800, \h2882, \h0002, \h0C14, \h2902, \h4002, \h0814, \h3200, \h8002,
         \h0000, \h3382, \h8002, \h0000, \hFF00, \h03FF, \hFFE4, \hFF00, \h04FF, \hFFE6, \hFF00,
         \h04FF, \hFFE4, \hFF00, \h09FF, \hFFEB, \hFE00, \h08FF, \hFFC8, \hFE00, \h05FF, \hFFCA,
         \hFE00, \h09FF, \hFFE5, \hFE00, \h09FF, \hFFCE, \hFE00, \h0AFF, \hFFE5, \hFF00, \h05FF,
         \hFFE9, \h0000, \h0008, \h001F, \hFFFF, \hFFFF, \hFFFF, \h0000, \h0007, \h0000, \hFFFE,
         \h0007, \h0007>>]

I2C_FAST ==
  [Plain EXCEPT !.side_set_count = 1, !.capture_rising = TRUE, !.loaded = 31, !.floor = TRUE,
     !.words =
       <<\h20E0, \hE004, \h80C5, \hA028, \h80E6, \hC0CA, \h080E, \h20C0, \hF000, \h30C0, \h30C0, \hE000,
         \h20C0, \h0206, \h20C0, \h20C0, \hA061, \h20C0, \h20C0, \hF000, \h0062, \h20E0, \hE004,
         \h80E6, \hC0CA, \hC0CA, \h6021, \h0225, \h0036, \h30E0, \hF004, \h90E6, \hD0CA, \hD0CA,
         \h7021, \h022C, \h0036, \h20C0, \hA061, \h20C0, \h20C0, \hF000, \hD0CA, \h0036, \hB060,
         \h30C0, \hE000, \h20C0, \h20C0, \hA061, \h20C0, \h20C0, \hF000, \hD0CA, \h7041, \hB027,
         \h044C, \h30C0, \h7041, \h906A, \h30C0, \hE000, \h20C0, \h20C0, \hF000, \h0239, \h30C0,
         \hB060, \h30C0, \hE000, \h20C0, \h4001, \h20C0, \hF000, \h7021, \h005F, \hB060, \h30C0,
         \h30C0, \hE000, \h20C0, \h4001, \h20C0, \hF000, \h024D, \h7068, \h7021, \h30C0, \h9069,
         \h30C0, \hE000, \h20C0, \h20C0, \hF000, \hB060, \hF003, \h0262, \h001D, \h30C0, \hB061,
         \h30C0, \hE000, \h20C0, \h20C0, \hA060, \h20C0, \h0015>>,
     !.certificate =
       <<\h000C, \h000A, \h0300, \h4002, \h0200, \h0700, \h8002, \h0000, \h0A80, \hC002, \h0000, \h0E81,
         \h0002, \h0600, \h1281, \h4002, \h0000, \h1601, \h4002, \h0000, \h1B01, \h8002, \h0000,
         \h1C81, \hC002, \h0800, \h2602, \h0002, \h0C14, \h2682, \h4002, \h0814, \h2F80, \h8002,
         \h0000, \h3102, \h8002, \h0000, \hFF00, \h03FF, \hFFE4, \hFF00, \h04FF, \hFFE6, \hFF00,
         \h04FF, \hFFE4, \hFF00, \h09FF, \hFFEB, \hFE00, \h08FF, \hFFC8, \hFE00, \h05FF, \hFFCA,
         \hFE00, \h09FF, \hFFE5, \hFE00, \h09FF, \hFFCE, \hFE00, \h0AFF, \hFFE5, \hFF00, \h05FF,
         \hFFE9, \h0000, \h0008, \h001F, \hFFFF, \hFFFF, \hFFFF, \h0000, \h0007, \h0000, \hFFFE,
         \h0007, \h0007>>]

I2C_STANDARD_ASYM ==
  [Plain EXCEPT !.side_set_count = 1, !.capture_rising = TRUE, !.loaded = 127,
     !.words =
       <<\h20E0, \hE004, \h80C5, \hA028, \h80E6, \hC0CA, \h080E, \h20C0, \hF000, \h30C0, \h30C0, \hE000,
         \h20C0, \h0206, \h20C0, \h20C0, \h20C0, \hA061, \h20C0, \h20C0, \h20C0, \hF000, \h006F,
         \h20E0, \hE004, \h80E6, \hC0CA, \hC0CA, \h6021, \h0227, \h003B, \h30E0, \hF004, \h90E6,
         \hD0CA, \hD0CA, \h7021, \h022F, \h003B, \h20C0, \hA061, \h20C0, \h20C0, \h20C0, \hF000,
         \hD0CA, \h003B, \hB060, \h30C0, \hE000, \h20C0, \h20C0, \h20C0, \hA061, \h20C0, \h20C0,
         \h20C0, \hF000, \hD0CA, \h7041, \hB027, \h0455, \h30C0, \h7041, \h906A, \h30C0, \hE000,
         \h20C0, \h20C0, \hF000, \hD0D7, \hD0D7, \hD0D7, \hD0D6, \h023E, \h30C0, \hB060, \h30C0,
         \hE000, \h20C0, \h4001, \h20C0, \hF000, \h7021, \h006C, \hB060, \h30C0, \h30C0, \hE000,
         \h20C0, \h4001, \h20C0, \hF000, \hD0D7, \hD0D7, \hD0D7, \hD0D6, \h0256, \h7068, \h7021,
         \h30C0, \h9069, \h30C0, \hE000, \h20C0, \h20C0, \hF000, \hB060, \hF003, \h026F, \h001F,
         \h30C0, \hB061, \h30C0, \hE000, \h20C0, \h20C0, \h20C0, \hA060, \h20C0, \h0017>>,
     !.certificate =
       <<\h000C, \h000A, \h0300, \h4002, \h0200, \h0700, \h8002, \h0000, \h0B80, \hC002, \h0000, \h0F81,
         \h0002, \h0600, \h1381, \h4002, \h0000, \h1781, \h4002, \h0000, \h1D81, \h8002, \h0000,
         \h1F01, \hC002, \h0800, \h2A82, \h0002, \h0C14, \h2B02, \h4002, \h0814, \h3600, \h8002,
         \h0000, \h3782, \h8002, \h0000, \hFFFF, \h83FF, \hFF84, \hFFFF, \h84FF, \hFF86, \hFFFF,
         \h84FF, \hFF84, \hFFFF, \h89FF, \hFF8B, \hFFFF, \h08FF, \hFF08, \hFFFF, \h05FF, \hFF0A,
         \hFFFF, \h09FF, \hFFA4, \hFFFF, \h09FF, \hFF0E, \hFFFF, \h0AFF, \hFFA4, \hFFFF, \h85FF,
         \hFF89, \h0000, \h0008, \h007F, \h007F, \hFFFF, \hFFFF, \h0000, \h0007, \h0000, \hFFFE,
         \h0007, \h0007>>]

I2C_FAST_ASYM ==
  [Plain EXCEPT !.side_set_count = 1, !.capture_rising = TRUE, !.loaded = 32,
     !.words =
       <<\h20E0, \hE004, \h80C5, \hA028, \h80E6, \hC0CA, \h080E, \h20C0, \hF000, \h30C0, \h30C0, \hE000,
         \h20C0, \h0206, \h20C0, \h20C0, \hA061, \h20C0, \h20C0, \hF000, \h0066, \h20E0, \hE004,
         \h80E6, \hC0CA, \hC0CA, \h6021, \h0225, \h0036, \h30E0, \hF004, \h90E6, \hD0CA, \hD0CA,
         \h7021, \h022C, \h0036, \h20C0, \hA061, \h20C0, \h20C0, \hF000, \hD0CA, \h0036, \hB060,
         \h30C0, \hE000, \h20C0, \h20C0, \hA061, \h20C0, \h20C0, \hF000, \hD0CA, \h7041, \hB027,
         \h044E, \h30C0, \h7041, \h906A, \h30C0, \hE000, \hC0D7, \h20C0, \h20C0, \hF000, \h0239,
         \h30C0, \hB060, \h30C0, \hE000, \hC0D7, \h20C0, \h4001, \h20C0, \hF000, \h7021, \h0063,
         \hB060, \h30C0, \h30C0, \hE000, \hC0D7, \h20C0, \h4001, \h20C0, \hF000, \h024F, \h7068,
         \h7021, \h30C0, \h9069, \h30C0, \hE000, \hC0D7, \h20C0, \h20C0, \hF000, \hB060, \hF003,
         \h0266, \h001D, \h30C0, \hB061, \h30C0, \hE000, \h20C0, \h20C0, \hA060, \h20C0, \h0015>>,
     !.certificate =
       <<\h000C, \h000A, \h0300, \h4002, \h0200, \h0700, \h8002, \h0000, \h0A80, \hC002, \h0000, \h0E81,
         \h0002, \h0600, \h1281, \h4002, \h0000, \h1601, \h4002, \h0000, \h1B01, \h8002, \h0000,
         \h1C81, \hC002, \h0800, \h2702, \h0002, \h0C14, \h2782, \h4002, \h0814, \h3180, \h8002,
         \h0000, \h3302, \h8002, \h0000, \hFFFF, \hE2FF, \hFFE3, \hFFFF, \hE3FF, \hFFE5, \hFFFF,
         \hE3FF, \hFFE3, \hFFFF, \hE8FF, \hFFEA, \hFFFF, \hC6FF, \hFFC6, \hFFFF, \hC3FF, \hFFC8,
         \hFFFF, \hC7FF, \hFFE4, \hFFFF, \hC7FF, \hFFCC, \hFFFF, \hC8FF, \hFFE4, \hFFFF, \hE4FF,
         \hFFE8, \h0000, \h0008, \h0020, \h0020, \hFFFF, \hFFFF, \h0000, \h0007, \h0000, \hFFFE,
         \h0007, \h0007>>]

SK6812 ==
  [Plain EXCEPT !.capture_rising = TRUE,
     !.words =
       <<\h80E6, \hA000, \hA091, \h80E6, \hA043, \hA03F, \hC0CA, \hC0CA, \hC0CA, \hC0CA, \hC0CA, \h2040,
         \h0206, \h0405, \h20E0, \h80E6, \hC0CA, \hA04F, \hE004, \h8022, \h20C0, \hA001, \h20C0,
         \h6001, \h20C0, \hA000, \hC0C7, \hC0C1, \h0214, \hA02F, \h0621, \hA047, \h0012, \h1011,
         \h0003>>,
     !.certificate =
       <<\h0007, \h0007, \h0180, \h4001, \h0000, \h0280, \h8001, \h0008, \h0300, \hC001, \h0608, \h0881,
         \h0001, \h0A10, \h0901, \h4001, \h0A18, \h0A01, \h8001, \h0018, \h1081, \hC001, \h0E18,
         \hFFFF, \hF400, \h0003, \h0000, \h0200, \h0005, \h0000, \h0300, \h0006, \hFFFF, \hF1FF,
         \hFFF2, \hFFFF, \hF2FF, \hFFF3, \hFFFF, \hEDFF, \hFFF5, \hFFFF, \hF0FF, \hFFF0, \h0011,
         \h0011, \h0000, \h0003, \h0000, \h001F, \h0007, \hFFFF, \h000F, \hFFFF, \h0007, \h000F,
         \h000F, \h000F>>]

ETHERNET ==
  [Plain EXCEPT !.capture_rising = TRUE, !.loaded = 64000,
     !.words =
       <<\hE004, \h80C5, \hA063, \h80E6, \hC0CA, \hA029, \h20C0, \h100C, \h0206, \hA301, \hA000, \h0005,
         \hE004, \h8045, \hA020, \hE008, \h6070, \hA03E, \h6101, \h0212, \h6101, \hA13E, \h6101,
         \h0216, \h6101, \hE105, \h6101, \h041A, \h6101, \hE009, \hA03F, \h6101, \h021F, \hAA01,
         \hA000, \h80E6, \hC0CA, \h0005>>,
     !.certificate =
       <<\h0007, \h0003, \h0280, \h4001, \h0000, \h0300, \h8001, \h0400, \h0600, \hC001, \h0400, \h0900,
         \h0001, \h0600, \h0B00, \h0001, \h0600, \h0D00, \h0001, \h0800, \h0F80, \h0001, \h0A10,
         \hFF06, \h02FF, \h060C, \hFF06, \h03FF, \h060D, \hFF06, \h03FF, \h0603, \hFA00, \hFA00,
         \h0000, \h0009, \h0000, \h001E, \hFFFF, \hFFFF, \h0000, \h001F>>]

ONE_WIRE ==
  [Plain EXCEPT !.capture_rising = TRUE, !.loaded = 5, !.floor = TRUE,
     !.words =
       <<\h20E0, \hE004, \h80C5, \h20E0, \hE004, \h6041, \h80E6, \hC0CA, \h041A, \hA027, \h20C0, \hA061,
         \h6041, \h20C0, \h806A, \h20C0, \h4001, \hA047, \h20C0, \h0412, \h20C0, \hA060, \h020A,
         \h4068, \hE003, \h0003, \h20C0, \hA061, \hA034, \h20C0, \h20C0, \h20C0, \h20C0, \h021D,
         \hA060, \hA02B, \h20C0, \h0224, \h4001, \hA030, \h20C0, \h20C0, \h20C0, \h20C0, \h0228,
         \h406F, \hE003, \h0003>>,
     !.certificate =
       <<\h0007, \h0004, \h0180, \h0001, \h0000, \h0500, \h4001, \h0608, \h0900, \h8001, \h060C, \h0D00,
         \hC001, \h0010, \h0E80, \h8001, \h0A10, \h1201, \h0001, \h0C10, \h1401, \h0001, \h0E10,
         \hFF00, \h0500, \h0000, \hFF00, \h04FF, \hFFFE, \hFF00, \h05FF, \hFFFF, \hFF00, \h0400,
         \h0000, \h0005, \hFFFF, \hFFFF, \hFFFF, \h0000, \h0007, \h0000, \hFFFE, \h0000, \h0014,
         \h0000, \h000B, \h0000, \h0010>>]

PS2 ==
  [Plain EXCEPT !.capture_rising = TRUE, !.loaded = 8, !.floor = TRUE,
     !.words =
       <<\h20E0, \hE004, \h80C5, \h0A06, \h1021, \h0003, \h208D, \h80E6, \h8083, \h4001, \h8024, \h0203,
         \hC0CA, \hA029, \h20C0, \hA061, \h20C0, \h20C0, \hA060, \h20C0, \h4001, \h020E, \h806B,
         \h20C0, \hA061, \h20C0, \h20C0, \hA060, \h20C0, \h8063, \h4066, \hE003, \h0003, \hE004,
         \hE005, \h8083, \h40A8, \hA027, \h6061, \h0226, \h40C1, \hA041, \h4041, \h4065, \h80A4,
         \hA02A, \h80E6, \hC0CA, \hC0CA, \hC0CA, \hC0CA, \h6041, \h20C0, \h0A3E, \h806A, \h20C0,
         \hA061, \h20C0, \h20C0, \hA060, \h0233, \h0003, \h8063, \hE002, \h0003>>,
     !.certificate =
       <<\h0007, \h0003, \h0180, \h0001, \h0000, \h0300, \h0001, \h0000, \h0700, \h4001, \h0400, \h1080,
         \h0001, \h0000, \h1300, \h0001, \h0600, \h1980, \h8001, \h0800, \h1F00, \hC001, \h0800,
         \hFF00, \h0500, \h0000, \hFC00, \h09FF, \hFFFC, \hFF00, \h04FF, \hFFFB, \h0008, \hFFFF,
         \h0000, \h0009, \h0000, \h0007, \h0000, \h000A>>]

CAN ==
  [Plain EXCEPT !.capture_rising = TRUE, !.loaded = 15, !.floor = TRUE,
     !.words =
       <<\hA001, \h20E0, \hE004, \h80C5, \h80E6, \hC0CA, \hA02A, \h20C0, \h0207, \h20E0, \hE004, \h8025,
         \h6070, \hE005, \h80E6, \hC0CA, \h20C0, \hA000, \hA043, \h0818, \h20C0, \h6001, \h081B,
         \h001D, \h20C0, \h6001, \h081D, \hA043, \h0021, \h0421, \h20C0, \h8008, \hA043, \h0213,
         \h40CF, \h80A4, \hA02E, \h082A, \h20C0, \h6001, \h082D, \h002F, \h20C0, \h6001, \h082F,
         \hA043, \h0033, \h0433, \h20C0, \h8008, \hA043, \h0225, \h20C0, \hA001, \hA02B, \h20C0,
         \h0237, \h0009>>,
     !.certificate =
       <<\h000D, \h0009, \h0380, \h4002, \h0200, \h0480, \h8002, \h0600, \h0980, \hC002, \h0010, \h0C01,
         \h0002, \h0010, \h0D81, \h4002, \h0010, \h0E81, \h8002, \h0010, \h1081, \hC002, \h0010,
         \h1282, \h0002, \h0A10, \h1502, \h4002, \h0A10, \h1681, \h4002, \h0A10, \h1781, \h8002,
         \h0A10, \h1981, \hC002, \h0A10, \h1B80, \h4002, \h0C10, \hFF00, \h04FF, \hFFF4, \hFF00,
         \h04FF, \hFFF6, \hFF00, \h04FF, \hFFFB, \hFF00, \h06FF, \hFFFD, \hFF00, \h05FF, \hFFF5,
         \hFF00, \h05FF, \hFFF7, \hFF00, \h04FF, \hFFF9, \hFF00, \h06FF, \hFFFE, \hFF00, \h0800,
         \h0000, \h0000, \h000A, \h000F, \hFFFF, \hFFFF, \hFFFF, \h0000, \h0003, \h0000, \h000E,
         \h0000, \h000B>>]

CAN_SENDER ==
  [Plain EXCEPT !.capture_rising = TRUE, !.loaded = 15, !.floor = TRUE,
     !.words =
       <<\hA001, \h20E0, \hE004, \h80C5, \h80E6, \hC0CA, \hA02A, \h20C0, \h0207, \h20E0, \hE004, \h8025,
         \h6070, \hE005, \h80E6, \hC0CA, \h20C0, \hA000, \hA043, \h0818, \h20C0, \h6001, \h081B,
         \h001D, \h20C0, \h6001, \h081D, \hA043, \h0021, \h0421, \h20C0, \h8008, \hA043, \h0213,
         \h40CF, \h80A4, \hA02E, \h082A, \h20C0, \h6001, \h082D, \h002F, \h20C0, \h6001, \h082F,
         \hA043, \h0033, \h0433, \h20C0, \h8008, \hA043, \h0225, \h20C0, \hA001, \h20C0, \hC0D7,
         \hC0D5, \h2040, \h8080, \hE003, \hC0C7, \hC0C5, \hA02A, \h20C0, \h023F, \h0009>>,
     !.certificate =
       <<\h000D, \h000A, \h0380, \h4002, \h0200, \h0480, \h8002, \h0600, \h0980, \hC002, \h0010, \h0C01,
         \h0002, \h0010, \h0D81, \h4002, \h0010, \h0E81, \h8002, \h0010, \h1081, \hC002, \h0010,
         \h1282, \h0002, \h0A10, \h1502, \h4002, \h0A10, \h1681, \h4002, \h0A10, \h1781, \h8002,
         \h0A10, \h1981, \hC002, \h0A10, \h1F82, \h8002, \h0210, \hFF00, \h04FF, \hFFF4, \hFF00,
         \h04FF, \hFFF6, \hFF00, \h04FF, \hFFFB, \hFF00, \h06FF, \hFFFD, \hFF00, \h05FF, \hFFF5,
         \hFF00, \h05FF, \hFFF7, \hFF00, \h04FF, \hFFF9, \hFF00, \h06FF, \hFFFE, \hFF00, \h0800,
         \h0000, \hFF00, \h04FF, \hFFFA, \h0000, \h000A, \h000F, \hFFFF, \hFFFF, \hFFFF, \h0000,
         \h0003, \h0000, \h000E>>]

CAN_RECEIVER ==
  [Plain EXCEPT !.capture_pin = 1, !.loaded = 96, !.single_edge = TRUE,
     !.words =
       <<\hA098, \hC08A, \hC08A, \hA001, \h80E6, \hC0CA, \hA02A, \h20C0, \h080A, \h0006, \h0207, \h2001,
         \h80E6, \hC0D1, \hA057, \hC0C9, \hC0C9, \hC0C9, \hC0C2, \h20C0, \h080B, \hE005, \h4065,
         \hA043, \hA031, \h002F, \h20C0, \h4001, \h0828, \h2001, \h80E7, \hC0CA, \hA057, \hC0C9,
         \hC0C9, \hC0C9, \hC0C2, \hA043, \h022F, \h0062, \hE007, \h042D, \h20C0, \h08F5, \h001D,
         \h021A, \h003C, \h20C0, \h4001, \h0836, \h043A, \h20C0, \h0836, \h00F5, \hE007, \hA043,
         \h021A, \h003C, \h022F, \h0062, \h80A4, \h6064, \h6022, \h02F7, \h8025, \h025F, \h80A4,
         \h6063, \h8025, \h025A, \h80B4, \h606F, \h8025, \h0252, \h8024, \hE003, \hC008, \hC008,
         \hC008, \h0288, \hA02E, \h00AE, \h8024, \hE003, \h4068, \hC008, \hC008, \hC008, \hC011,
         \h0088, \hE003, \hA03F, \hC008, \hC001, \h0088, \hE003, \hA02E, \h00AE, \h80A4, \h6064,
         \h6022, \h02F7, \h8025, \h0285, \h80A4, \h6063, \h8025, \h0280, \h80B4, \h606F, \h8025,
         \h0278, \h8024, \hE003, \hC008, \hC008, \hC008, \h029D, \hA02E, \h00C3, \h8024, \hE003,
         \h4068, \hC008, \hC008, \hC008, \hC011, \h009D, \hE003, \hA03F, \hC008, \hC001, \h009D,
         \hE003, \hA02E, \h00C3, \h20C0, \h4001, \h0896, \h2001, \h80E7, \hC0CA, \hA057, \hC0C9,
         \hC0C9, \hC0C9, \hC0C2, \hA043, \h029D, \h00AC, \hE007, \h049B, \h20C0, \h08F5, \h008B,
         \h0288, \h00AA, \h20C0, \h4001, \h08A4, \h04A8, \h20C0, \h08A4, \h00F5, \hE007, \hA043,
         \h0288, \h00AA, \h029D, \h00AC, \hA02E, \h00AE, \hA02E, \h00C3, \h20C0, \h4001, \h08BC,
         \h2001, \h80E7, \hC0CA, \hA057, \hC0C9, \hC0C9, \hC0C9, \hC0C2, \hA043, \h02C3, \h00D2,
         \hE007, \h04C1, \h20C0, \h08F5, \h00B1, \h02AE, \h00D0, \h20C0, \h4001, \h08CA, \h04CE,
         \h20C0, \h08CA, \h00F5, \hE007, \hA043, \h02AE, \h00D0, \h02C3, \h00D2, \hA041, \h00D3,
         \hA040, \h8083, \h40CF, \h8024, \h20C0, \h08D9, \h00F9, \h0301, \hF200, \hA000, \h20C0,
         \h08E5, \h2001, \h80E6, \hF200, \hA001, \hC0CA, \hC0D4, \h00E7, \hF400, \hA001, \h8083,
         \hE003, \hA029, \h20C0, \h08F0, \h2001, \h80E6, \hC0CA, \h0006, \hE007, \h02EA, \h2001,
         \h80E7, \h000E, \hA021, \h00FC, \hA022, \h00FC, \h2001, \hA023, \h0103, \h8081, \hE003,
         \hE002, \h2001, \h0106, \hA024, \h04FC, \h8081, \hE003, \hE002, \h20E0, \hE004, \h80E6,
         \hC0CA, \h0006>>,
     !.certificate =
       <<\h0033, \h002A, \h0300, \h4001, \h0000, \h0380, \h8001, \h0400, \h0500, \hC001, \h0400, \h0581,
         \h0001, \h0600, \h0701, \h4001, \h0600, \h0D21, \hC301, \h0A10, \h0EA2, \h4401, \h0A00,
         \h1422, \h8401, \h0A10, \h16A3, \h0581, \h0A18, \h1783, \h4001, \h0E10, \h1B03, \h8001,
         \h0E00, \h1D03, \hC001, \h0E18, \h1E24, \h4801, \h0610, \h2924, \hC901, \h0010, \h2D25,
         \h4A01, \h0010, \h2FA5, \hCB01, \h0010, \h3106, \h0001, \h0610, \h3C06, \h4001, \h0010,
         \h4006, \h8001, \h0010, \h4286, \hC001, \h0010, \h4427, \h4E01, \h0010, \h45A2, \h4F01,
         \h0000, \h4B22, \h8F01, \h0010, \h4DA3, \h0581, \h0018, \h4E87, \hC001, \h0010, \h5203,
         \h8001, \h0000, \h5403, \hC001, \h0018, \h5524, \h4801, \h0610, \h5608, \h0001, \h0610,
         \h5728, \h9081, \h1010, \h58A2, \h5181, \h1000, \h5E22, \h9181, \h1010, \h60A3, \h0581,
         \h1018, \h6189, \h0001, \h1010, \h6503, \h8001, \h1000, \h6703, \hC001, \h1018, \h6824,
         \h4801, \h0610, \h6909, \h4001, \h0610, \h6989, \h8001, \h0624, \h6C80, \hC001, \h0024,
         \h7280, \hC001, \h0624, \h7389, \hC001, \h0624, \h750A, \h0001, \h1424, \h7800, \hC001,
         \h1424, \h7A81, \h0001, \h000C, \h7B8A, \h4001, \h0010, \h7C8A, \h8001, \h0024, \h7E06,
         \hC001, \h1600, \h808A, \h8001, \h0024, \h8180, \h0001, \h1800, \h8300, \h0001, \h1600,
         \hFFFF, \hA2FF, \hFFA5, \hFFFF, \hA3FF, \hFFA6, \hFFFF, \hA3FF, \hFFA3, \hFFFF, \hA3FF,
         \hFFA5, \h0000, \h0300, \h0006, \h0000, \h0400, \h0005, \hFFFF, \hA7FF, \hFFA9, \h0000,
         \h5F00, \h0062, \hFFFF, \hA4FF, \hFFA5, \hFFFF, \hA4FF, \hFFA4, \h0000, \h0300, \h0003,
         \hFFFF, \hA7FF, \hFFA7, \hFFFF, \h64FF, \hFFC5, \hFFFF, \hA3FF, \hFFA4, \hFFFF, \hA6FF,
         \hFFA6, \h0000, \h0600, \h0007, \hFFFF, \hA9FF, \hFFAB, \h0000, \h1800, \h0019, \hFFFF,
         \hBBFF, \hFFBD, \h0000, \h1300, \h0014, \hFFFF, \hB6FF, \hFFB8, \h0000, \h0E00, \h000F,
         \hFFFF, \hB1FF, \hFFB3, \hFFFF, \h66FF, \hFFC7, \hFFFF, \h78FF, \hFFD9, \hFFFF, \h73FF,
         \hFFD4, \hFFFF, \h6EFF, \hFFCF, \h0000, \h0400, \h0022, \hFFFF, \hA7FF, \hFFC6, \h0000,
         \h4200, \h007F, \hFFFF, \h64FF, \hFFE2, \hFFFF, \h66FF, \hFFE4, \h0000, \h0400, \h0023,
         \hFFFF, \hA7FF, \hFFC7, \h0000, \h4100, \h0080, \hFFFF, \h64FF, \hFFE7, \hFFFF, \h66FF,
         \hFFE5, \hFFFF, \h67FF, \hFFE6, \hFFFF, \hB9FF, \hFFBD, \hFFFF, \hA6FF, \hFFC0, \hFFFF,
         \h6BFF, \hFFCC, \hFFFF, \hA5FF, \hFFA5, \h0060, \h0060, \h0000, \h000A, \hFFFF, \hFFFF,
         \h0000, \h0003, \h0000, \h0010, \h0000, \h0002, \h0000, \h0011, \h0000, \h000E, \h0000,
         \h0001, \h0000, \h0009, \h0001, \h0004, \h0003, \h0004>>]

CEC ==
  [Plain EXCEPT !.capture_rising = TRUE, !.loaded = 7, !.floor = TRUE,
     !.words =
       <<\h20E0, \hE004, \h80C5, \h80E6, \hA000, \hA060, \h20E0, \hE004, \h8045, \h80E6, \hC0CA, \h20C0,
         \hA061, \hA03F, \h20C0, \h020E, \hA03F, \h20C0, \h0211, \hA028, \h20C0, \h0214, \h20C0,
         \hA060, \hA02E, \h20C0, \h0219, \hE004, \h80AD, \h20C0, \hA061, \hA02A, \h20C0, \h0220,
         \h20C0, \h6081, \hA030, \h20C0, \h0225, \h20C0, \hA060, \hA030, \h20C0, \h022A, \h0C1D,
         \h20C0, \hA061, \hA02A, \h20C0, \h0230, \h20C0, \hA060, \hA027, \h20C0, \h0235, \h20C0,
         \h4001, \hE003, \hA039, \h20C0, \h023B, \h041B, \hA046, \hA03F, \h20C0, \h0240, \hA02F,
         \h20C0, \h0243, \h043F, \h0006>>,
     !.certificate =
       <<\h0010, \h0007, \h0300, \h4001, \h0000, \h0700, \h8001, \h0400, \h0880, \hC001, \h0400, \h0A00,
         \hC001, \h0600, \h0C80, \h8001, \h0800, \h0D81, \h0001, \h0A00, \h0E81, \h4001, \h0A00,
         \h1000, \h8001, \h0C00, \h1280, \h8001, \h0E00, \h1500, \h8001, \h0E00, \h1800, \h8001,
         \h0C00, \h1A80, \h8001, \h1000, \h1D80, \hC001, \h1200, \h1F81, \h8001, \h0A28, \h2001,
         \hC001, \h0428, \h2180, \hC001, \h1628, \hFF00, \h0800, \h0003, \hFF00, \h04FF, \hFFFC,
         \hFF00, \h04FF, \hFFFD, \hFF00, \h04FF, \hFFFE, \hFF00, \h0600, \h0000, \hFF00, \h06FF,
         \hFFFF, \hFF00, \h0400, \h0000, \h0007, \hFFFF, \h0000, \h001F, \h0000, \h0008, \h0000,
         \h000E, \hFFFF, \hFFFF, \h0000, \h000A, \h0000, \h0010, \h0000, \h0007, \h0000, \h0019,
         \h0000, \h0006, \h0000, \h000F>>]

SPI_CS_MODE0 ==
  [Plain EXCEPT !.side_set_count = 2, !.capture_rising = TRUE,
     !.words =
       <<\hB088, \h9083, \h30E0, \hF004, \h7048, \hB025, \h90E6, \hD0C8, \h6001, \hA026, \h20C0, \h4801,
         \h28C0, \h6001, \h020A, \h20C0, \h4801, \h28C0, \hE000, \hA023, \h041D, \h20E0, \hE004,
         \h6048, \h6001, \hA026, \h80E6, \hC0CA, \h000A, \h80E6, \hC0C8, \h2040, \hF000, \h90E6,
         \hB03C, \hD0C8, \hD0C8, \hD0C8, \hD0C8, \hD0C8, \hD0C4, \h3040, \h0002>>,
     !.certificate =
       <<\h0003, \h0002, \h0100, \h0001, \h0000, \h0500, \h4001, \h0400, \h0E80, \h8001, \h080C, \hFFFF,
         \hFCFF, \hFFFF, \hFFFF, \hFDFF, \hFFFD, \h0008, \h0008, \h0000, \h0006, \h0000, \hFFFE,
         \h0003, \h0003>>]

SPI_CS_MODE1 ==
  [Plain EXCEPT !.side_set_count = 2, !.capture_rising = TRUE,
     !.words =
       <<\hB088, \h9083, \h30E0, \hF004, \h7048, \hB025, \h90E6, \hD0C8, \hE000, \hA026, \h20C0, \h6801,
         \h28C0, \h4001, \h020A, \h20C0, \h6801, \h28C0, \h4001, \hA023, \h041D, \h20E0, \hE004,
         \h6048, \hE000, \hA026, \h80E6, \hC0CA, \h000A, \h80E6, \hC0C8, \h2040, \hF000, \h90E6,
         \hB03C, \hD0C8, \hD0C8, \hD0C8, \hD0C8, \hD0C8, \hD0C4, \h3040, \h0002>>,
     !.certificate =
       <<\h0003, \h0002, \h0100, \h0001, \h0000, \h0500, \h4001, \h0400, \h0E80, \h8001, \h080C, \hFFFF,
         \hFCFF, \hFFFF, \hFFFF, \hFDFF, \hFFFD, \h0008, \h0008, \h0000, \h0006, \h0000, \hFFFE,
         \h0003, \h0003>>]

SPI_CS_MODE2 ==
  [Plain EXCEPT !.side_set_count = 2, !.capture_rising = TRUE,
     !.words =
       <<\hB888, \h9883, \h38E0, \hF804, \h7848, \hB825, \h98E6, \hD8C8, \h6801, \hA826, \h28C0, \h4001,
         \h20C0, \h6801, \h020A, \h28C0, \h4001, \h20C0, \hE800, \hA823, \h041D, \h28E0, \hE804,
         \h6848, \h6801, \hA826, \h88E6, \hC8CA, \h000A, \h88E6, \hC8C8, \h2840, \hF800, \h98E6,
         \hB83C, \hD8C8, \hD8C8, \hD8C8, \hD8C8, \hD8C8, \hD8C4, \h3840, \h0002>>,
     !.certificate =
       <<\h0003, \h0002, \h0100, \h0001, \h0000, \h0500, \h4001, \h0400, \h0E80, \h8001, \h080C, \hFFFF,
         \hFCFF, \hFFFF, \hFFFF, \hFDFF, \hFFFD, \h0008, \h0008, \h0000, \h0006, \h0000, \hFFFE,
         \h0003, \h0003>>]

SPI_CS_MODE3 ==
  [Plain EXCEPT !.side_set_count = 2, !.capture_rising = TRUE,
     !.words =
       <<\hB888, \h9883, \h38E0, \hF804, \h7848, \hB825, \h98E6, \hD8C8, \hE800, \hA826, \h28C0, \h6001,
         \h20C0, \h4801, \h020A, \h28C0, \h6001, \h20C0, \h4801, \hA823, \h041D, \h28E0, \hE804,
         \h6848, \hE800, \hA826, \h88E6, \hC8CA, \h000A, \h88E6, \hC8C8, \h2840, \hF800, \h98E6,
         \hB83C, \hD8C8, \hD8C8, \hD8C8, \hD8C8, \hD8C8, \hD8C4, \h3840, \h0002>>,
     !.certificate =
       <<\h0003, \h0002, \h0100, \h0001, \h0000, \h0500, \h4001, \h0400, \h0E80, \h8001, \h080C, \hFFFF,
         \hFCFF, \hFFFF, \hFFFF, \hFDFF, \hFFFD, \h0008, \h0008, \h0000, \h0006, \h0000, \hFFFE,
         \h0003, \h0003>>]

SWD ==
  [Plain EXCEPT !.side_set_count = 1, !.capture_rising = TRUE, !.loaded = 10, !.floor = TRUE,
     !.words =
       <<\hA060, \hA000, \h20E0, \hE004, \h80C5, \h80E6, \hC0CA, \hA03F, \h20C0, \h0208, \h4001, \h406F,
         \hE003, \h20E0, \hE004, \hA061, \h80E6, \hC0CA, \h2040, \h0016, \h30E0, \hF004, \h7041,
         \h042E, \h704E, \h7021, \h022C, \h90E6, \hD0CA, \h1227, \hF004, \hB02F, \h30C0, \h6001,
         \h20C0, \hF000, \h0220, \h041D, \h0014, \h30E0, \hF004, \h90E6, \hD0CA, \h001F, \hA060,
         \h000D, \h90E6, \hD0CA, \h30C0, \hA001, \h20C0, \hF000, \h30C0, \h6001, \h20C0, \hF000,
         \h30C0, \h6041, \h8002, \h20C0, \hB024, \h30C0, \h6001, \h20C0, \hF000, \h023D, \h30C0,
         \hA060, \hA000, \h20C0, \hF000, \h30C0, \h4001, \h20C0, \hF000, \h30C0, \h4001, \h20C0,
         \hF000, \h30C0, \h4001, \h406D, \h8024, \h20C0, \hF000, \h04A2, \h7041, \h045A, \hB041,
         \h0681, \h30C0, \h8041, \hE005, \h20C0, \hF000, \hB061, \h1277, \hF004, \hB02F, \h30C0,
         \h6001, \h20C0, \hF000, \h0263, \h127C, \hF004, \hB02F, \h30C0, \h6001, \h20C0, \hF000,
         \h026B, \h50C1, \h506F, \h30C0, \h8004, \h20C0, \hF000, \h00DD, \h30E0, \hF004, \h90E6,
         \hD0CA, \h0062, \h30E0, \hF004, \h90E6, \hD0CA, \h006A, \h30C0, \h8041, \hA022, \h0690,
         \h20C0, \hF000, \hB061, \hF005, \h30E0, \hF004, \h30E0, \hF004, \h90E6, \hD0CA, \h00DD,
         \hA024, \h0693, \h0085, \hA03F, \h20C0, \hF000, \h30C0, \hE000, \h0294, \h20C0, \hF000,
         \h30C0, \hE000, \h20C0, \hF000, \hB061, \hF005, \h0089, \hB041, \h06BD, \hF005, \hB02F,
         \h30C0, \h4001, \h20C0, \hF000, \h02A6, \hF003, \hB02F, \h30C0, \h4001, \h20C0, \hF000,
         \h02AD, \hF003, \h30C0, \h4001, \h20C0, \hF000, \h30C0, \hE000, \h20C0, \hF000, \hB061,
         \h00DD, \h30C0, \h8041, \hA022, \h06C9, \h20C0, \hF000, \hB061, \hF005, \h9083, \hF003,
         \hF003, \h00DD, \hA024, \h06CC, \h00C1, \hA03F, \h20C0, \hF000, \h30C0, \hE000, \h02CD,
         \h20C0, \hF000, \h30C0, \hE005, \h8083, \hE003, \hE003, \h20C0, \hF000, \hB061, \h00DD,
         \hB027, \h30C0, \hA000, \h20C0, \hF000, \h02DE, \h5043, \h50C1, \h506C, \hF003, \h0014>>,
     !.certificate =
       <<\h0022, \h0011, \h0400, \h4002, \h0200, \h0680, \h0002, \h0000, \h0A00, \h8002, \h0600, \h0B00,
         \h0002, \h0000, \h0E80, \hC002, \h0600, \h0F81, \h0002, \h0600, \h1001, \h4002, \h0800,
         \h1381, \h8002, \h0600, \h1600, \h0002, \h0000, \h1700, \h0002, \h0014, \h1E81, \hC002,
         \h0C00, \h2D02, \h0002, \h0014, \h3102, \h4002, \h0000, \h3182, \h8002, \h0800, \h3502,
         \h8002, \h0600, \h3581, \h8002, \h0800, \h3B82, \hC002, \h0000, \h3E03, \h0002, \h0600,
         \h4083, \h4002, \h001C, \h4283, \h8002, \h1020, \h4482, \h4002, \h1200, \h4802, \hC002,
         \h1400, \h4983, \hC002, \h1600, \h4A01, \h0002, \h0200, \h5104, \h0002, \h0014, \h5301,
         \h0002, \h081C, \h5682, \h4002, \h081C, \h5E84, \h4002, \h001C, \h6083, \h8002, \h1020,
         \h6482, \hC002, \h1400, \h6603, \hC002, \h1600, \h6681, \h0002, \h0200, \h6E81, \h0002,
         \h1200, \h6F01, \h4002, \h1800, \hFF00, \h04FF, \hFFF9, \hFF00, \h0900, \h0000, \hFF00,
         \h03FF, \hFFFC, \hFF00, \h05FF, \hFFFF, \hFF00, \h0500, \h0000, \hFF00, \h05FF, \hFFFE,
         \hFF00, \h03FF, \hFFFA, \hFF00, \h0800, \h0000, \hFF00, \h05FF, \hFFFC, \hFF00, \h05FF,
         \hFFFD, \hFF00, \h06FF, \hFFFB, \hFF00, \h07FF, \hFFFC, \hFF00, \h0B00, \h0000, \hFF00,
         \h0600, \h0000, \hFF00, \h09FF, \hFFFE, \hFF00, \h05FF, \hFFFA, \hFF00, \h08FF, \hFFFD,
         \h0000, \h001F, \h000A, \hFFFF, \hFFFF, \hFFFF, \h0000, \h000F, \h0000, \hFFFE, \h0000,
         \h0004, \h0001, \h0001, \h0002, \h0004, \h0002, \hFFFF, \h0002, \h0002, \h0004, \h0004,
         \h0000, \h0007>>]

NEC_TX ==
  [Plain EXCEPT !.capture_rising = TRUE, !.loaded = 11, !.floor = TRUE,
     !.words =
       <<\h80E6, \hA001, \h20E0, \hE004, \h80C5, \h20E0, \hE004, \h8085, \h80E6, \hC0CA, \h20C0, \hA000,
         \hA02E, \h20C0, \h020D, \h20C0, \hA001, \hE004, \hA059, \hC049, \hC049, \hC041, \hA026,
         \h20C0, \h0217, \h20C0, \hA000, \h6021, \h20C0, \hA001, \h0246, \h0C19, \hE004, \h20C0,
         \hA000, \h6021, \h20C0, \hA001, \h024B, \h0C21, \h20C0, \hA000, \h20C0, \hA001, \h20C0,
         \h042C, \h8024, \h0231, \h0005, \h8081, \h20C0, \hA000, \hA02E, \h20C0, \h0235, \h20C0,
         \hA001, \hA022, \h20C0, \h023A, \h20C0, \hA000, \h20C0, \hA001, \hA049, \hA030, \h20C0,
         \h0242, \h0441, \h002E, \h20C0, \hC052, \h20C0, \h0C19, \h0020, \h20C0, \hC052, \h20C0,
         \h0C21, \h0028>>,
     !.certificate =
       <<\h0010, \h0009, \h0280, \h0001, \h0000, \h0680, \h4001, \h0400, \h0B80, \h8001, \h0600, \h0C80,
         \hC001, \h0000, \h1001, \h0001, \h0000, \h1081, \h4001, \h0000, \h1401, \h0001, \h0000,
         \h1601, \h8001, \h0000, \h1701, \h4001, \h0010, \h1881, \hC001, \h0010, \h1A80, \h4001,
         \h0410, \h1D00, \h4001, \h0A10, \h2082, \h0001, \h0818, \h2100, \hC001, \h0E18, \h2302,
         \h4001, \h0000, \h2582, \h4001, \h0000, \hFF00, \h04FF, \hFFF8, \hFF00, \h04FF, \hFFFD,
         \hFF00, \h04FF, \hFFFB, \hFF00, \h06FF, \hFFFB, \hFF00, \h04FF, \hFFFC, \hFF00, \h03FF,
         \hFFF8, \hFF00, \h07FF, \hFFFF, \hFF00, \h04FF, \hFFFA, \hFF00, \h05FF, \hFFF9, \h000B,
         \hFFFF, \h0000, \h000E, \h0000, \h0006, \hFFFF, \hFFFF, \h0000, \h0002, \h0000, \h0009,
         \h0000, \h0010>>]

NEC_RX ==
  [Plain EXCEPT !.capture_pin = 15, !.loaded = 13500, !.single_edge = TRUE,
     !.words =
       <<\h20E0, \hE004, \h80C5, \h208F, \hE007, \h200F, \h80E7, \hC0CA, \hA02F, \h20C0, \h0209, \h0803,
         \h208F, \h80E6, \hC0CA, \hA028, \h20C0, \h0210, \h0816, \h808B, \hE003, \h0003, \hA03F,
         \hE007, \h200F, \h80E7, \hC0CA, \hC0CA, \hC0CA, \h20C0, \hE007, \hC0CA, \h2040, \h4001,
         \h200F, \h0219, \h0003>>,
     !.certificate =
       <<\h0005, \h0004, \h0180, \h0001, \h0000, \h04C0, \h4001, \h0400, \h0840, \h8001, \h0600, \h0B40,
         \hC001, \h0800, \h0CC0, \h0201, \h0A00, \hFFCB, \h47FF, \hCB48, \hFFCB, \h47FF, \hCB47,
         \hFFCB, \h49FF, \hCB49, \h0000, \h0100, \h697C, \h34BC, \h34BC, \h0000, \h000F, \h0000,
         \h0008, \hFFFF, \hFFFF, \h0000, \h001F>>]

SNORBLE ==
  [Plain EXCEPT !.capture_rising = TRUE,
     !.words =
       <<\hA001, \hA098, \h80E6, \hC0C2, \hA03F, \hC0CA, \hC0CA, \hC0CA, \hC0CA, \hC0CA, \hC0CA, \hC0CA,
         \hC0CA, \hC0CA, \hC0CA, \hC0CA, \h2040, \h0205, \h20E0, \hE004, \hE005, \h8083, \h40A8,
         \h6068, \h6061, \h6061, \h6061, \h6061, \h6061, \h6061, \h6061, \h6061, \h40C1, \h4067,
         \h80A4, \h80E6, \hC0C2, \h2040, \hA000, \hC0CA, \hC0CA, \hC0CA, \hC0CA, \hC0CA, \hC0CA,
         \hC0CA, \hC0CA, \hC0CA, \hC0CA, \hC0CA, \hC0CA, \hC0CA, \hC0CA, \hC0CA, \hC0CA, \h2040,
         \hA001, \hC0CA, \hC0CA, \hC0CA, \hC0CA, \hA028, \h2040, \hA000, \hC0CA, \hC0CA, \hC0C7,
         \hC0C3, \h6041, \h0447, \h004C, \hC0CA, \hC0CA, \hC0CA, \hC0C7, \hC0C7, \h2040, \hA001,
         \hC0CA, \hC0CA, \hC0CA, \hC0CA, \h023E, \h0004>>,
     !.certificate =
       <<\h0005, \h0005, \h0200, \h4001, \h0000, \h0280, \h8001, \h0400, \h1F00, \hC001, \h0600, \h2381,
         \h0001, \h0610, \h2601, \h4001, \h0600, \hFFFF, \hAA00, \h0000, \hFFFF, \hAB00, \h0003,
         \hFFFF, \hA7FF, \hFFA8, \hFFFF, \hCFFF, \hFFCF, \hFFFF, \h7EFF, \hFFD1, \h0018, \h0018,
         \h0000, \h001F, \h0000, \h0008, \h0000, \hFFFE>>]

MICROWIRE ==
  [Plain EXCEPT !.capture_rising = TRUE,
     !.words =
       <<\hA000, \h8003, \hA09F, \h20E0, \hE004, \h6021, \h604F, \h8083, \hA002, \h80E6, \hC0CA, \hC0CA,
         \hC0CA, \hC0CA, \hC0CA, \h2040, \h6001, \hC0CA, \hC0CA, \hC0CA, \hC0CA, \hC0CA, \h20C0,
         \hA003, \hC0CA, \hC0CA, \hC0CA, \hC0CA, \h20C0, \hA002, \h4301, \hC0CA, \hC0CA, \hC0CA,
         \hDFCA, \h0432, \h8003, \h20C0, \hA000, \hE003, \h0234, \hA021, \hC0CA, \hC0CA, \hC0CA,
         \hC0CA, \hC0CA, \h2040, \h022A, \h0003, \h6001, \h0016, \h804B, \hC0C7, \hC0C7, \hC0C5,
         \h2040, \h0435, \hA002, \hA021, \hC0CA, \hC0CA, \hC0CA, \hC0CA, \hC0CA, \h2040, \h023C,
         \hA000, \h0029>>,
     !.certificate =
       <<\h0008, \h0007, \h0180, \h0001, \h0000, \h0B00, \h4001, \h0000, \h1480, \h8001, \h0408, \h1500,
         \hC001, \h0608, \h1901, \h0001, \h0010, \h1A01, \h4001, \h0008, \h1A81, \h8001, \h0000,
         \h1E01, \hC001, \h0608, \hFFFF, \h6CFF, \hFF93, \hFFFF, \hE600, \h0006, \hFFFF, \hE700,
         \h0007, \hFFFF, \h90FF, \hFF90, \hFFFF, \hE6FF, \hFFE6, \hFFFF, \hE700, \h0003, \h0000,
         \h0300, \h0005, \h001F, \h001F, \hFFFF, \hFFFF, \h0000, \h0001, \h0000, \hFFFE>>]

IR_RC6 ==
  [Plain EXCEPT !.capture_rising = TRUE, !.loaded = 14, !.floor = TRUE,
     !.words =
       <<\h80E6, \hA000, \h20E0, \hE004, \h80C5, \h20E0, \hE004, \h8045, \h20E0, \hE004, \h80E6, \hC0CA,
         \h20C0, \hA001, \hA024, \h20C0, \h020F, \h20C0, \hA000, \h20C0, \h20C0, \hA001, \h20C0,
         \hA000, \h20C0, \hA022, \hA000, \h20C0, \hA001, \h20C0, \h021A, \h0427, \hA000, \h20C0,
         \h20C0, \hA001, \h20C0, \h20C0, \h002D, \hA001, \h20C0, \h20C0, \hA000, \h20C0, \h20C0,
         \hA04F, \h6021, \h0236, \hA000, \h20C0, \hA001, \h20C0, \h042E, \h003B, \hA001, \h20C0,
         \hA000, \h20C0, \h042E, \hA000, \hA025, \h20C0, \h023D, \h0005>>,
     !.certificate =
       <<\h0009, \h0008, \h0280, \h0001, \h0000, \h0780, \h4001, \h0400, \h0D00, \h8001, \h0600, \h1380,
         \hC001, \h0A10, \h1681, \h0001, \h0A00, \h1701, \h4001, \h0018, \h1B01, \h8001, \h0018,
         \h1D81, \hC001, \h0014, \h1E82, \h0001, \h0E14, \hFF00, \h04FF, \hFFF5, \hFF00, \h03FF,
         \hFFF5, \hFF00, \h06FF, \hFFF7, \hFF00, \h02FF, \hFFF5, \hFF00, \h03FF, \hFFF6, \hFF00,
         \h06FF, \hFFF9, \hFF00, \h04FF, \hFFF7, \hFF00, \h04FF, \hFFF9, \h000E, \hFFFF, \h0000,
         \h0004, \h0000, \h0002, \h0000, \hFFFE, \hFFFF, \hFFFF, \h0000, \h000F, \h0000, \h0005>>]

CALIPER ==
  [Plain EXCEPT !.capture_rising = TRUE, !.loaded = 16, !.floor = TRUE,
     !.words =
       <<\h20E0, \hE004, \h80C5, \hA001, \h20E0, \hE004, \h6001, \h80E6, \hC0CA, \hA048, \h20C0, \h040A,
         \hA02F, \h20C0, \hA000, \h20C0, \hA001, \h0231, \hE004, \h6001, \hA027, \h20C0, \hA000,
         \h20C0, \hA001, \h0233, \hE004, \h6001, \hA052, \h20C0, \h041D, \hA02F, \h20C0, \hA000,
         \h20C0, \hA001, \h0235, \hE004, \h6001, \hA027, \h20C0, \hA000, \h20C0, \hA001, \h0237,
         \hA049, \h20C0, \h042E, \h0004, \h6001, \h000D, \h6001, \h0015, \h6001, \h0020, \h6001,
         \h0028>>,
     !.certificate =
       <<\h000C, \h0006, \h0200, \h0001, \h0000, \h0500, \h4001, \h0008, \h0680, \h8001, \h080C, \h0A80,
         \hC001, \h0A0C, \h0E81, \h0001, \h0618, \h1000, \h8001, \h080C, \h1400, \hC001, \h0A0C,
         \h1701, \h4001, \h061C, \h1881, \h8001, \h100C, \h1981, \h8001, \h120C, \h1A81, \h8001,
         \h100C, \h1B81, \h8001, \h120C, \hFF00, \h04FF, \hFFF3, \hFF00, \h05FF, \hFFF7, \hFF00,
         \h08FF, \hFFF7, \hFF00, \h04FF, \hFFF7, \hFF00, \h04FF, \hFFF5, \hFF00, \h05FF, \hFFF4,
         \h0010, \hFFFF, \h0000, \h0008, \hFFFF, \hFFFF, \h0000, \h000F, \h0000, \h0007, \h0000,
         \h0012, \h0000, \h0009, \h0000, \h000E, \h0000, \h0006>>]

XY2_100 ==
  [Plain EXCEPT !.side_set_count = 2, !.capture_rising = TRUE,
     !.words =
       <<\hA08C, \h20E0, \hE004, \h80E6, \hC0CA, \h8045, \hE005, \hA02F, \h20C0, \hB800, \h38C0, \hF000,
         \h30C0, \hB800, \h38C0, \hF000, \h30C0, \hB801, \h38C0, \hF000, \h30C0, \h7801, \h38C0,
         \hF000, \h0214, \h50D0, \h30C0, \h8804, \h28C0, \hE000, \h1021, \h80A2, \h0005, \hE004,
         \h0005>>,
     !.certificate =
       <<\h0003, \h0003, \h0280, \h4001, \h0000, \h0A00, \h8001, \h0400, \h1080, \hC001, \h0600, \hFFFF,
         \hF6FF, \hFFFB, \hFFFF, \hF6FF, \hFFF8, \hFFFF, \hF8FF, \hFFF8, \h000C, \h000C, \h0000,
         \h000F, \hFFFF, \hFFFF>>]

LFAST ==
  [Plain EXCEPT !.capture_rising = TRUE,
     !.words =
       <<\hA08A, \hA000, \h20E0, \hE004, \h6068, \h80E6, \hC0CA, \h20C0, \hA001, \h20C0, \hA000, \h20C0,
         \hA001, \h20C0, \hA000, \h20C0, \hA001, \h20C0, \hA000, \h20C0, \hA000, \h20C0, \hA000,
         \h20C0, \hA000, \h20C0, \hA001, \h20C0, \hA000, \h20C0, \hA000, \h20C0, \hA001, \h20C0,
         \hA000, \h20C0, \hA001, \h20C0, \hA001, \h20C0, \hA000, \h20C0, \hA000, \h20C0, \hA000,
         \h20C0, \hA000, \h20C0, \hA001, \h20C0, \hA000, \h20C0, \hA000, \h20C0, \hA001, \hA027,
         \h20C0, \h6001, \h0238, \h20C0, \hA001, \h20C0, \hA000, \h0002>>,
     !.certificate =
       <<\h0002, \h0001, \h0100, \h0001, \h0000, \h1C00, \h4001, \h0400, \hFFFF, \hF9FF, \hFFFA, \h000A,
         \h000A, \h0000, \h0007>>]

TDM_AUDIO ==
  [Plain EXCEPT !.side_set_count = 2, !.capture_rising = TRUE,
     !.words =
       <<\hA000, \h20E0, \hB22F, \hFA04, \h6201, \hE800, \h0204, \hA000, \hA12D, \hEA00, \hE200, \hE800,
         \h020A, \hA02F, \h1011, \h88A3, \h0012, \hEA04, \h6201, \hE800, \h0212, \hA000, \hA12D,
         \hEA00, \hE200, \hE800, \h0218, \hA02F, \h101F, \h88A3, \h0020, \hEA04, \h6201, \hE800,
         \h0220, \hA000, \hA12D, \hEA00, \hE200, \hE800, \h0226, \hA02F, \h102D, \h88A3, \h002E,
         \hEA04, \h6201, \hE800, \h022E, \hA000, \hA12D, \hEA00, \hE200, \hE800, \h0234, \hA02F,
         \h103B, \h88A3, \h003C, \hEA04, \h6201, \hE800, \h023C, \hA000, \hA12D, \hEA00, \hE200,
         \hE800, \h0242, \hA02F, \h1049, \h88A3, \h004A, \hEA04, \h6201, \hE800, \h024A, \hA000,
         \hA12D, \hEA00, \hE200, \hE800, \h0250, \hA02F, \h1057, \h88A3, \h0058, \hEA04, \h6201,
         \hE800, \h0258, \hA000, \hA12D, \hEA00, \hE200, \hE800, \h025E, \hA02F, \h1065, \h88A3,
         \h0066, \hEA04, \h6201, \hE800, \h0266, \hA000, \hA12D, \hEA00, \hE200, \hE800, \h026C,
         \hB02F, \h1073, \h98A3, \h0004, \hF804, \h0004>>,
     !.certificate =
       <<\h0018, \h0000, \h0200, \h0000, \h0200, \h0500, \h0000, \h0400, \h0880, \h0000, \h0600, \h0900,
         \h0000, \h0200, \h0C00, \h0000, \h0400, \h0F80, \h0000, \h0600, \h1000, \h0000, \h0200,
         \h1300, \h0000, \h0400, \h1680, \h0000, \h0600, \h1700, \h0000, \h0200, \h1A00, \h0000,
         \h0400, \h1D80, \h0000, \h0600, \h1E00, \h0000, \h0200, \h2100, \h0000, \h0400, \h2480,
         \h0000, \h0600, \h2500, \h0000, \h0200, \h2800, \h0000, \h0400, \h2B80, \h0000, \h0600,
         \h2C00, \h0000, \h0200, \h2F00, \h0000, \h0400, \h3280, \h0000, \h0600, \h3300, \h0000,
         \h0200, \h3600, \h0000, \h0400, \h3980, \h0000, \h0600, \h0000, \h000F, \h0000, \h000D,
         \h000F, \h000F>>]

DALI ==
  [Plain EXCEPT !.capture_rising = TRUE, !.loaded = 8, !.floor = TRUE,
     !.words =
       <<\hA001, \h20E0, \hE004, \h80C5, \h20E0, \hE004, \h8045, \h20E0, \hE004, \h80E6, \hC0CA, \h20C0,
         \hA000, \h20C0, \hA001, \h6021, \h0217, \h20C0, \hA001, \h20C0, \hA000, \h040F, \h001C,
         \h20C0, \hA000, \h20C0, \hA001, \h040F, \h20C0, \hA001, \hA039, \h20C0, \h021F, \h0004>>,
     !.certificate =
       <<\h0005, \h0004, \h0200, \h0001, \h0000, \h0780, \h4001, \h0000, \h0B80, \h8001, \h0000, \h0E00,
         \hC001, \h0008, \h0F81, \h0001, \h0608, \hFF00, \h03FF, \hFFFC, \hFF00, \h06FF, \hFFFF,
         \hFF00, \h05FF, \hFFFE, \hFF00, \h04FF, \hFFFB, \h0008, \hFFFF, \hFFFF, \hFFFF, \h0000,
         \h0019>>]

LIN ==
  [Plain EXCEPT !.capture_rising = TRUE, !.loaded = 16, !.floor = TRUE,
     !.words =
       <<\h20E0, \hE004, \h80C5, \hA000, \hA060, \h20E0, \hE004, \h8045, \h20E0, \hE004, \h80AD, \h80E6,
         \hC0CA, \h20C0, \hA061, \hA039, \h20C0, \h0210, \h20C0, \hA060, \h20C0, \h20C0, \hA024,
         \h20C0, \hA061, \h20C0, \h20C0, \hA060, \h20C0, \h0217, \h20C0, \hA061, \h20C0, \hA027,
         \h20C0, \h6081, \h20C0, \h0222, \h20C0, \hA060, \h2040, \h2011, \h80E6, \hC0CA, \hC0CA,
         \hC0CA, \hC0D2, \hA027, \h20C0, \h4001, \hC0CA, \h0230, \h4068, \hE003, \h2040, \h083A,
         \hE002, \h0005, \h0429, \h0005>>,
     !.certificate =
       <<\h0007, \h0005, \h0280, \h0001, \h0000, \h0800, \h4001, \h0400, \h0B80, \h8001, \h0600, \h1100,
         \h8001, \h0800, \h1480, \hC001, \h0A00, \h1801, \h0001, \h0800, \h1D01, \h4001, \h0A00,
         \hFF00, \h04FF, \hFFF3, \hFF00, \h03FF, \hFFF3, \h0000, \h0100, \h0005, \hFD00, \h0BFF,
         \hFFE5, \h0000, \h0300, \h0003, \h0010, \hFFFF, \h0000, \h0019, \h0000, \h0004, \h0000,
         \h0007, \hFFFF, \hFFFF>>]

SPDIF ==
  [Plain EXCEPT !.period_fraction = TRUE, !.capture_rising = TRUE,
     !.words =
       <<\hA001, \hA088, \hA040, \h20E0, \h80E6, \hC0CA, \hC0CA, \hC0CA, \hC0CA, \h20C0, \hA000, \h1210,
         \hE004, \h808B, \h20C0, \h0013, \h80A3, \h8083, \h20C0, \h20C0, \h20C0, \hA001, \h0423,
         \hA057, \hC049, \h20C0, \hA000, \hC049, \hC049, \hC047, \h20C0, \hA001, \h20C0, \h20C0,
         \h0029, \h20C0, \h20C0, \h20C0, \hA000, \h20C0, \hA001, \hA027, \h20C0, \h8008, \h20C0,
         \h022A, \h20C0, \h8008, \h6021, \h0235, \h20C0, \h0C2E, \h0038, \h20C0, \h8008, \h0C2E,
         \hA022, \h20C0, \h8008, \h20C0, \h0239, \h20C0, \h8008, \h20C0, \hA001, \h20C0, \hA000,
         \h8024, \h0248, \h80A3, \h20C0, \h004A, \hE004, \h20C0, \h20C0, \h20C0, \hA001, \h20C0,
         \h20C0, \hA000, \h20C0, \hA001, \h20C0, \hA027, \h20C0, \h8008, \h20C0, \h0254, \h20C0,
         \h8008, \h6021, \h025F, \h20C0, \h0C58, \h0062, \h20C0, \h8008, \h0C58, \hA022, \h20C0,
         \h8008, \h20C0, \h0263, \h20C0, \h8008, \h20C0, \hA001, \h0009>>,
     !.certificate =
       <<\h0011, \h0008, \h0480, \h4001, \h0000, \h0800, \h8001, \h0000, \h0980, \hC001, \h0000, \h1180,
         \h8001, \h0008, \h1481, \h0001, \h0000, \h1501, \h4001, \h0600, \h1701, \h4001, \h0000,
         \h1A81, \h8001, \h0000, \h1C01, \hC001, \h0000, \h1C82, \h0001, \h0800, \h2401, \h8001,
         \h0000, \h2500, \hC001, \h0000, \h2A01, \h0001, \h0600, \h2C01, \h4001, \h0000, \h2F81,
         \h8001, \h0000, \h3101, \hC001, \h0000, \h3182, \h0001, \h0800, \hFFFF, \hE5FF, \hFFFC,
         \hFFFF, \hFBFF, \hFFFC, \hFFFF, \hF8FF, \hFFFB, \hFFFF, \hF9FF, \hFFFB, \hFFFF, \hFAFF,
         \hFFFC, \hFFFF, \hFCFF, \hFFFD, \hFFFF, \hFBFF, \hFFFD, \hFFFF, \hFAFF, \hFFFE, \h0008,
         \h0008, \h0000, \hFFFE, \h0000, \h0007, \h0000, \h0002>>]

USB_POWER_DELIVERY ==
  [Plain EXCEPT !.capture_rising = TRUE,
     !.words =
       <<\hA000, \hA094, \h20E0, \hE004, \h8045, \h6070, \h80E6, \hC0CA, \hA03F, \h20C0, \h20C0, \h0209,
         \hA02F, \h20C0, \h20C0, \h20C0, \h20C0, \hA001, \h20C0, \h20C0, \h20C0, \h20C0, \h20C0,
         \h20C0, \h20C0, \h20C0, \hA000, \h20C0, \h20C0, \h20C0, \h20C0, \hA001, \h20C0, \h20C0,
         \h20C0, \h20C0, \hA000, \h20C0, \h20C0, \h20C0, \h20C0, \h20C0, \h20C0, \h20C0, \h20C0,
         \hA001, \h20C0, \h20C0, \h20C0, \h20C0, \hA000, \h020D, \h0049, \h6021, \h20C0, \h20C0,
         \h20C0, \h20C0, \hA000, \h0242, \h20C0, \h20C0, \h20C0, \h20C0, \h0449, \h005C, \h20C0,
         \h20C0, \h20C0, \h20C0, \hA001, \h0435, \h006B, \h6021, \h20C0, \h20C0, \h20C0, \h20C0,
         \hA001, \h0256, \h20C0, \h20C0, \h20C0, \h20C0, \h0435, \h006B, \h20C0, \h20C0, \h20C0,
         \h20C0, \hA000, \h0449, \h20C0, \h20C0, \h20C0, \h20C0, \hA001, \h20C0, \h20C0, \h20C0,
         \h20C0, \h20C0, \h20C0, \h20C0, \h20C0, \hA000, \h0002, \h20C0, \h20C0, \h20C0, \h20C0,
         \hA000, \h0002>>,
     !.certificate =
       <<\h0009, \h0006, \h0100, \h0001, \h0000, \h0480, \h4001, \h0400, \h0680, \h8001, \h0600, \h1A80,
         \hC001, \h0010, \h2100, \h8001, \h0010, \h2481, \h0001, \h0000, \h2B00, \h8001, \h0000,
         \h2E01, \h4001, \h0014, \h3581, \h8001, \h0014, \hFFFF, \hEFFF, \hFFEF, \hFFFF, \hF0FF,
         \hFFF0, \hFFFF, \hEFFF, \hFFF0, \hFFFF, \hEFFF, \hFFF2, \hFFFF, \hF0FF, \hFFF1, \hFFFF,
         \hF1FF, \hFFF2, \h0014, \h0014, \h0000, \h001F, \h0000, \h000F, \h0000, \hFFFE, \hFFFF,
         \hFFFF>>]

DMX512 ==
  [Plain EXCEPT !.capture_rising = TRUE, !.loaded = 192,
     !.words =
       <<\hA001, \h20E0, \hE004, \h80C5, \h20E0, \hE004, \h80E6, \hA000, \hC0CA, \hA037, \h20C0, \h020A,
         \h20C0, \hA001, \h20C0, \h20C0, \h20C0, \h20C0, \hA000, \hA027, \h20C0, \h6001, \h0214,
         \h20C0, \hA001, \h6068, \hA050, \hC049, \hC049, \hC049, \hC049, \hC049, \hC051, \h20C0,
         \h2040, \h0C26, \h20E0, \hE004, \h80E6, \hA000, \hC0CA, \hA027, \h20C0, \h6001, \h022A,
         \h20C0, \hA001, \h20C0, \h2040, \h0423, \h0004>>,
     !.certificate =
       <<\h0006, \h0003, \h0200, \h0001, \h0000, \h0500, \h4001, \h0400, \h0A00, \h4001, \h0600, \h1180,
         \h8001, \h0800, \h1300, \h0001, \h0800, \h1500, \hC001, \h0600, \hFFFF, \h43FF, \hFF44,
         \h0000, \h0100, \h0003, \hFFFF, \h44FF, \hFF44, \h00C0, \h00C0, \h0000, \h0017, \h0000,
         \h0007, \hFFFF, \hFFFF>>]

WIEGAND ==
  [Plain EXCEPT !.capture_rising = TRUE, !.loaded = 16, !.floor = TRUE,
     !.words =
       <<\hA003, \h20E0, \hE004, \h80C5, \h20E0, \hE004, \h8025, \hC013, \h8081, \h20E0, \hE004, \h8045,
         \h20E0, \hE004, \h80E6, \hC0CA, \h0C12, \hE004, \h6021, \h0217, \h20C0, \hA002, \h0019,
         \h20C0, \hA001, \h20C0, \hA003, \h8024, \h20C0, \h021C, \h0410, \h0009>>,
     !.certificate =
       <<\h0006, \h0005, \h0480, \h0001, \h0000, \h0800, \h4001, \h0000, \h0900, \h8001, \h0000, \h0B80,
         \hC001, \h0000, \h0C81, \h0001, \h0000, \h0E01, \h4001, \h0000, \hFF00, \h03FF, \hFFF5,
         \hFF00, \h05FF, \hFFF8, \hFF00, \h08FF, \hFFFB, \hFF00, \h03FF, \hFFF4, \hFF00, \h04FF,
         \hFFF3, \h0010, \hFFFF>>]

SWD_BLIND ==
  [Plain EXCEPT !.side_set_count = 1, !.capture_rising = TRUE, !.loaded = 12, !.floor = TRUE,
     !.words =
       <<\h20E0, \hE004, \h80C5, \h20E0, \hE004, \hA027, \h80E6, \hC0CA, \h6001, \h6041, \h040D, \hA060,
         \h000F, \hE100, \hA061, \h20C0, \hF000, \h30C0, \h4001, \h0208, \hE003, \h0003>>,
     !.certificate =
       <<\h0004, \h0003, \h0180, \h0001, \h0000, \h0400, \h4001, \h0400, \h0680, \h8001, \h040C, \h0780,
         \hC001, \h0400, \hFF00, \h03FF, \hFFF8, \hFF00, \h07FF, \hFFFC, \hFF00, \h0AFF, \hFFFF,
         \h000C, \hFFFF, \h0000, \h0007, \h0000, \hFFFE>>]

IR_NEC ==
  [Plain EXCEPT !.capture_rising = TRUE, !.loaded = 16, !.floor = TRUE,
     !.words =
       <<\h20E0, \hE004, \h80C5, \hA000, \h20E0, \hE004, \h6030, \h8083, \h0217, \h20E0, \hE004, \h8045,
         \h6068, \h40A8, \h80AD, \h40A8, \h8024, \h80A2, \h40A8, \h80AD, \h40A8, \h80A4, \h8081,
         \h80E6, \hC0CA, \hA051, \hA032, \h20C0, \hA001, \h20C0, \hA000, \h20C0, \h021B, \h041A,
         \h20C0, \hA001, \h20C0, \hA000, \hA047, \hA03F, \h20C0, \h0228, \h0427, \h0C2E, \hA040,
         \h0034, \hA047, \hA03F, \h20C0, \h0230, \h042F, \hA041, \hA034, \h20C0, \hA001, \h20C0,
         \hA000, \h20C0, \h0235, \h20C0, \hA001, \h20C0, \hA000, \h0C5D, \h80A4, \h045D, \h8024,
         \h0250, \hA05E, \hA039, \h20C0, \h20C0, \h20C0, \h20C0, \h20C0, \h20C0, \h20C0, \h20C0,
         \h0246, \h0445, \hA056, \hA039, \h20C0, \h20C0, \h20C0, \h20C0, \h20C0, \h20C0, \h20C0,
         \h20C0, \h0252, \h0451, \h0004, \h6021, \h0260, \h0066, \hA03F, \h20C0, \h20C0, \h20C0,
         \h20C0, \h0261, \hA03F, \h20C0, \h20C0, \h0267, \h0034>>,
     !.certificate =
       <<\h0015, \h000C, \h0200, \h0001, \h0000, \h0B80, \h0001, \h0000, \h0D00, \h4001, \h0008, \h0D80,
         \h8001, \h0608, \h1380, \h4001, \h0A10, \h1400, \h8001, \h0C10, \h1700, \hC001, \h0A14,
         \h1781, \h0001, \h0A10, \h1801, \h4001, \h0C10, \h1A01, \h8001, \h0A1C, \h1A81, \hC001,
         \h101C, \h2282, \h0001, \h0A24, \h2302, \h4001, \h1424, \h2801, \h8001, \h0014, \h2882,
         \h0001, \h002C, \h2902, \h4001, \h142C, \h2E82, \h8001, \h0A1C, \h3002, \hC001, \h001C,
         \h3081, \hC001, \h0C1C, \h3302, \h4001, \h0A1C, \h3383, \h0001, \h0C1C, \hFF00, \h04FF,
         \hFFF5, \hFF00, \h04FF, \hFFF6, \hFF00, \h08FF, \hFFF7, \hFF00, \h06FF, \hFFF8, \hFF00,
         \h04FF, \hFFF9, \hFF00, \h06FF, \hFFFA, \hFF00, \h04FF, \hFFFB, \hFF00, \h06FF, \hFFFB,
         \hFF00, \h04FF, \hFFFC, \hFF00, \h05FF, \hFFF7, \hFF00, \h08FF, \hFFFA, \hFF00, \h04FF,
         \hFFFD, \h0010, \hFFFF, \h0000, \h0011, \h0000, \h0012, \h0000, \h0007, \hFFFF, \hFFFF,
         \h0000, \h001F, \h0000, \h0001, \h0000, \h0014, \h0000, \h001E, \h0000, \h0019, \h0000,
         \h0016>>]

=============================================================================
