-------------------------- MODULE BothRolesFirmware --------------------------
(***************************************************************************)
(* Both roles on one chip (python/both_roles_firmware.py): a controller's  *)
(* firmware on one engine and its target's on the other, over internal     *)
(* wires.                                                                  *)
(***************************************************************************)
EXTENDS Firmware

I2C_CONTROLLER_WIRE ==
  [Plain EXCEPT !.side_set_count = 1, !.capture_rising = TRUE, !.loaded = 31, !.floor = TRUE,
     !.words =
       <<\h20E0, \hE004, \h80C5, \h20E0, \hE004, \h80E6, \hC0CA, \hC0CA, \h6021, \h0213, \h0021, \h30E0,
         \hF004, \h90E6, \hD0CA, \hD0CA, \h7021, \h0219, \h0021, \h20C0, \hA001, \h20C0, \hF000,
         \hD0CA, \h0021, \hB000, \h30C0, \hE000, \h20C0, \hA001, \h20C0, \hF000, \hD0CA, \h7041,
         \hB027, \h0438, \h30C0, \h7041, \h900A, \h30C0, \hE000, \h20C0, \h20C0, \hF000, \h0224,
         \h30C0, \hB000, \h30C0, \hE000, \h20C0, \h8048, \h4041, \h20C0, \hF000, \h7021, \h004C,
         \hB000, \h30C0, \h30C0, \hE000, \h20C0, \h8048, \h4041, \h20C0, \hF000, \h0239, \h7068,
         \h7021, \h30C0, \h9009, \h30C0, \hE000, \h20C0, \h20C0, \hF000, \hB000, \hF003, \h024F,
         \h000B, \h30C0, \hB001, \h30C0, \hE000, \h20C0, \hA000, \h20C0, \h0003>>,
     !.certificate =
       <<\h000A, \h0008, \h0180, \h0001, \h0000, \h0580, \h4001, \h0400, \h0980, \h8001, \h0000, \h0C80,
         \h8001, \h0000, \h1080, \hC001, \h0000, \h1201, \h0001, \h0600, \h1C01, \h4001, \h0A10,
         \h1C81, \h8001, \h0600, \h2601, \hC001, \h0000, \h2782, \h0001, \h0000, \hFF00, \h09FF,
         \hFFEB, \hFE00, \h08FF, \hFFC8, \hFE00, \h05FF, \hFFCA, \hFE00, \h09FF, \hFFE5, \hFE00,
         \h09FF, \hFFCE, \hFE00, \h0AFF, \hFFE5, \hFF00, \h04FF, \hFFE6, \hFF00, \h07FF, \hFFE9,
         \h001F, \hFFFF, \hFFFF, \hFFFF, \h0000, \h0007, \h0000, \hFFFE, \h0007, \h0007>>]

I2C_TARGET_WIRE ==
  [Plain EXCEPT !.capture_rising = TRUE,
     !.words =
       <<\hE004, \h80C5, \hA000, \h2015, \h20B4, \h0A07, \h0002, \h2095, \h8083, \hA027, \h2015, \h8048,
         \h4041, \h2095, \h020A, \h8024, \hA040, \hC04A, \h0637, \hE003, \hA001, \h2015, \h2095,
         \hA000, \h2015, \h8048, \h4042, \h8024, \h8083, \h8048, \h4042, \h8044, \h0622, \h001C,
         \h0A31, \hC012, \h8081, \hA026, \h2015, \h8048, \h4041, \h2095, \h0226, \hE003, \hA001,
         \h2015, \h2095, \hA000, \h0018, \h8083, \h8048, \h4041, \h8024, \h0202, \h0007, \hC041,
         \h0602, \hE003, \hA001, \h2015, \h2095, \hE004, \h6068, \hA027, \h6041, \h800A, \h2015,
         \h2095, \h0240, \hA000, \h8083, \h2015, \h8048, \h4041, \h2095, \h8024, \h0202, \h003D>>,
     !.certificate =
       <<\h000B, \h0000, \h0100, \h0000, \h0000, \h0380, \h0000, \h0000, \h0500, \h0000, \h0200, \h0C00,
         \h0000, \h0000, \h0E00, \h0000, \h0000, \h1100, \h0000, \h0000, \h1300, \h0000, \h0400,
         \h1880, \h0000, \h0000, \h1B80, \h0000, \h0000, \h1E80, \h0000, \h0000, \h2000, \h0000,
         \h0200, \h0000, \h0007, \h0000, \h0006>>]

SPI_CONTROLLER_WIRE_MODE0 ==
  [Plain EXCEPT !.side_set_count = 2, !.capture_rising = TRUE,
     !.words =
       <<\hB090, \h9083, \h30E0, \hF004, \h7048, \hB031, \h90E6, \hD0C8, \h6001, \hA026, \h20C0, \h4801,
         \h28C0, \h6001, \h020A, \h20C0, \h4801, \h28C0, \hE000, \hA02B, \h041D, \h20E0, \hE004,
         \h6048, \h6001, \hA026, \h80E6, \hC0CA, \h000A, \h80E6, \hC0C8, \h2040, \hF000, \h90E6,
         \hB030, \hD0C8, \h3040, \h0002>>,
     !.certificate =
       <<\h0003, \h0002, \h0100, \h0001, \h0000, \h0500, \h4001, \h0400, \h0E80, \h8001, \h080C, \hFFFF,
         \hF3FF, \hFFF4, \hFFFF, \hF5FF, \hFFF5, \h0010, \h0010, \h0000, \h0006, \h0000, \hFFFE,
         \h000B, \h000B>>]

SPI_TARGET_WIRE_MODE0 ==
  [Plain EXCEPT !.capture_rising = TRUE,
     !.words =
       <<\h804B, \h1204, \hE004, \h8045, \hA000, \h2098, \h2018, \h8083, \h80A2, \h6001, \h0024, \h8020,
         \h020F, \h0800, \h000B, \h0212, \h0800, \h000B, \h4001, \h2017, \h6001, \h0C0B, \h8020,
         \h021A, \h0800, \h0016, \h021D, \h0800, \h0016, \h4001, \h1221, \hE004, \h8045, \h2017,
         \h80A2, \h6001, \h0804, \h8020, \h0228, \h0024, \h022A, \h0024, \h4001, \h2017, \h6001,
         \h804B, \h000B>>,
     !.certificate =
       <<\h000B, \h0000, \h0200, \h0000, \h0000, \h0580, \h0000, \h0000, \h0780, \h0000, \h0000, \h0900,
         \h0000, \h0000, \h0B00, \h0000, \h0000, \h0D00, \h0000, \h0000, \h0E80, \h0000, \h0000,
         \h1080, \h0000, \h0000, \h1200, \h0000, \h0000, \h1400, \h0000, \h0000, \h1500, \h0000,
         \h0000>>]

SPI_CONTROLLER_WIRE_MODE1 ==
  [Plain EXCEPT !.side_set_count = 2, !.capture_rising = TRUE,
     !.words =
       <<\hB090, \h9083, \h30E0, \hF004, \h7048, \hB031, \h90E6, \hD0C8, \hE000, \hA026, \h20C0, \h6801,
         \h28C0, \h4001, \h020A, \h20C0, \h6801, \h28C0, \h4001, \hA02B, \h041D, \h20E0, \hE004,
         \h6048, \hE000, \hA026, \h80E6, \hC0CA, \h000A, \h80E6, \hC0C8, \h2040, \hF000, \h90E6,
         \hB030, \hD0C8, \h3040, \h0002>>,
     !.certificate =
       <<\h0003, \h0002, \h0100, \h0001, \h0000, \h0500, \h4001, \h0400, \h0E80, \h8001, \h080C, \hFFFF,
         \hF3FF, \hFFF4, \hFFFF, \hF5FF, \hFFF5, \h0010, \h0010, \h0000, \h0006, \h0000, \hFFFE,
         \h000B, \h000B>>]

SPI_TARGET_WIRE_MODE1 ==
  [Plain EXCEPT !.capture_rising = TRUE,
     !.words =
       <<\h804B, \h1204, \hE004, \h8045, \hA000, \h2098, \h2018, \h8083, \h80A2, \h0804, \h8020, \h020D,
         \h0009, \h020F, \h0009, \h6001, \h2017, \h4001, \h8020, \h0216, \h0800, \h0012, \h0219,
         \h0800, \h0012, \h6001, \h2017, \h4001, \h0C12, \h804B, \h1221, \hE004, \h8045, \h80A2,
         \h0009>>,
     !.certificate =
       <<\h0008, \h0000, \h0200, \h0000, \h0000, \h0480, \h0000, \h0000, \h0680, \h0000, \h0000, \h0780,
         \h0000, \h0000, \h0900, \h0000, \h0000, \h0B00, \h0000, \h0000, \h0C80, \h0000, \h0000,
         \h1080, \h0000, \h0000>>]

SPI_CONTROLLER_WIRE_MODE2 ==
  [Plain EXCEPT !.side_set_count = 2, !.capture_rising = TRUE,
     !.words =
       <<\hB890, \h9883, \h38E0, \hF804, \h7848, \hB831, \h98E6, \hD8C8, \h6801, \hA826, \h28C0, \h4001,
         \h20C0, \h6801, \h020A, \h28C0, \h4001, \h20C0, \hE800, \hA82B, \h041D, \h28E0, \hE804,
         \h6848, \h6801, \hA826, \h88E6, \hC8CA, \h000A, \h88E6, \hC8C8, \h2840, \hF800, \h98E6,
         \hB830, \hD8C8, \h3840, \h0002>>,
     !.certificate =
       <<\h0003, \h0002, \h0100, \h0001, \h0000, \h0500, \h4001, \h0400, \h0E80, \h8001, \h080C, \hFFFF,
         \hF3FF, \hFFF4, \hFFFF, \hF5FF, \hFFF5, \h0010, \h0010, \h0000, \h0006, \h0000, \hFFFE,
         \h000B, \h000B>>]

SPI_TARGET_WIRE_MODE2 ==
  [Plain EXCEPT !.capture_rising = TRUE,
     !.words =
       <<\h804B, \h1204, \hE004, \h8045, \hA000, \h2098, \h2018, \h8083, \h80A2, \h6001, \h001E, \h8020,
         \h020E, \h000F, \h0229, \h4001, \h2097, \h6001, \h0C0B, \h8020, \h0216, \h0017, \h022B,
         \h4001, \h121B, \hE004, \h8045, \h2097, \h80A2, \h6001, \h0804, \h8020, \h0222, \h0024,
         \h021E, \h0024, \h4001, \h2097, \h6001, \h804B, \h000B, \h0800, \h000B, \h0800, \h0013>>,
     !.certificate =
       <<\h000D, \h0000, \h0200, \h0000, \h0000, \h0580, \h0000, \h0000, \h0700, \h0000, \h0000, \h0780,
         \h0000, \h0200, \h0980, \h0000, \h0000, \h0B00, \h0000, \h0000, \h0B80, \h0000, \h0200,
         \h0D80, \h0000, \h0200, \h0F00, \h0000, \h0000, \h1100, \h0000, \h0000, \h1200, \h0000,
         \h0200, \h1480, \h0000, \h0000, \h1580, \h0000, \h0000, \hFFFF, \hFFFF>>]

SPI_CONTROLLER_WIRE_MODE3 ==
  [Plain EXCEPT !.side_set_count = 2, !.capture_rising = TRUE,
     !.words =
       <<\hB890, \h9883, \h38E0, \hF804, \h7848, \hB831, \h98E6, \hD8C8, \hE800, \hA826, \h28C0, \h6001,
         \h20C0, \h4801, \h020A, \h28C0, \h6001, \h20C0, \h4801, \hA82B, \h041D, \h28E0, \hE804,
         \h6848, \hE800, \hA826, \h88E6, \hC8CA, \h000A, \h88E6, \hC8C8, \h2840, \hF800, \h98E6,
         \hB830, \hD8C8, \h3840, \h0002>>,
     !.certificate =
       <<\h0003, \h0002, \h0100, \h0001, \h0000, \h0500, \h4001, \h0400, \h0E80, \h8001, \h080C, \hFFFF,
         \hF3FF, \hFFF4, \hFFFF, \hF5FF, \hFFF5, \h0010, \h0010, \h0000, \h0006, \h0000, \hFFFE,
         \h000B, \h000B>>]

SPI_TARGET_WIRE_MODE3 ==
  [Plain EXCEPT !.capture_rising = TRUE,
     !.words =
       <<\h804B, \h1204, \hE004, \h8045, \hA000, \h2098, \h2018, \h8083, \h80A2, \h0804, \h8020, \h020D,
         \h000F, \h0209, \h000F, \h6001, \h2097, \h4001, \h8020, \h0215, \h0016, \h0220, \h6001,
         \h2097, \h4001, \h0C12, \h804B, \h121E, \hE004, \h8045, \h80A2, \h0009, \h0800, \h0012>>,
     !.certificate =
       <<\h0009, \h0000, \h0200, \h0000, \h0000, \h0480, \h0000, \h0000, \h0680, \h0000, \h0000, \h0780,
         \h0000, \h0200, \h0900, \h0000, \h0000, \h0A80, \h0000, \h0000, \h0B00, \h0000, \h0200,
         \h0F00, \h0000, \h0200, \h1000, \h0000, \h0000, \hFFFF, \hFFFF>>]

UART_TX_WIRE ==
  [Plain EXCEPT !.capture_rising = TRUE, !.loaded = 4, !.floor = TRUE,
     !.words =
       <<\h20E0, \hE004, \h80C5, \hA001, \h20E0, \hE004, \hA027, \h80E6, \hA000, \hC0CA, \h20C0, \h6001,
         \h020A, \h20C0, \hA001, \h2040, \h0004>>,
     !.certificate =
       <<\h0002, \h0001, \h0200, \h0001, \h0000, \h0500, \h4001, \h0400, \hFF00, \h0400, \h0000, \h0004,
         \hFFFF, \h0000, \h0007>>]

UART_RX_WIRE ==
  [Plain EXCEPT !.capture_pin = 26, !.loaded = 4, !.floor = TRUE, !.single_edge = TRUE,
     !.words =
       <<\h20E0, \hE004, \h80C5, \h209A, \hE007, \h201A, \h80E7, \hC0CA, \hC0CA, \hC0CA, \hC0D1, \hA027,
         \h20C0, \h4001, \hC0CA, \h020C, \h4068, \hE003, \h2040, \h0804, \hE002, \h0003>>,
     !.certificate =
       <<\h0003, \h0001, \h0180, \h0001, \h0000, \h0200, \h0001, \h0000, \h0640, \h4001, \h0400, \hFD00,
         \h0BFF, \hFFFD, \h0004, \hFFFF, \h0000, \h0007>>]

=============================================================================
