------------------------ MODULE UsbDeviceFirmware ------------------------
(***************************************************************************)
(* The low speed USB device's firmware (python/usb_device_firmware.py):    *)
(* the device at address 0, and the words that differ at every other       *)
(* address.                                                                *)
(***************************************************************************)
EXTENDS Firmware

\* The device at address 0.
USB_DEVICE ==
  [Plain EXCEPT !.capture_pin = 12, !.capture_rising = TRUE, !.loaded = 32, !.single_edge = TRUE,
     !.words =
       <<\hE004, \h80C5, \hA002, \hA064, \h8083, \hA040, \h4043, \hA040, \h4043, \hA040, \h4045, \hA048,
         \h4045, \h80A4, \h8083, \hE006, \hE007, \h208C, \h80E7, \hC0C7, \hC0C7, \hC0C2, \h0017,
         \hA047, \h20C0, \h8020, \hC011, \h021D, \h0025, \h0418, \h0027, \hA047, \h20C0, \h8020,
         \hC011, \h021D, \h0025, \h0420, \h002C, \h20C0, \h8020, \hC011, \h0231, \h0161, \h20C0,
         \h8020, \hC011, \h035D, \h0036, \h20C0, \h8020, \hC011, \h023B, \h0054, \h20C0, \h8020,
         \hC011, \h024F, \h0040, \h20C0, \h8020, \hC011, \h0370, \h004A, \h20C0, \h8020, \hC011,
         \h0245, \h0170, \h20C0, \h8020, \hC011, \h02E6, \h00EA, \h20C0, \h8020, \hC011, \h02E2,
         \h00EE, \h20C0, \h8020, \hC011, \h0259, \h0068, \h20C0, \h8020, \hC011, \h0263, \h005E,
         \h20C0, \h8020, \hC011, \h026F, \h0170, \h20C0, \h8020, \hC011, \h0370, \h0073, \h20C0,
         \h8020, \hC011, \h026D, \h0073, \h20C0, \h8020, \hC011, \h026F, \h0071, \hA006, \h0075,
         \hA002, \h0075, \hA006, \h0086, \hA002, \h0086, \hA043, \h0E83, \h20C0, \h8020, \hC011,
         \h027C, \h0091, \hA021, \h4021, \h0476, \h0097, \h4061, \h0476, \h0097, \h20C0, \hE006,
         \h0087, \hA043, \h0E94, \h20C0, \h8020, \hC011, \h0280, \h008D, \hA021, \h4021, \h0487,
         \h0099, \h4061, \h0487, \h0099, \h20C0, \hE006, \h0076, \h8083, \h009B, \h8083, \h00AC,
         \hA04F, \h0EA9, \h20C0, \h8020, \hC011, \h02A2, \h00B7, \hA021, \h4021, \h049C, \h00BD,
         \h4061, \h049C, \h00BD, \h20C0, \hE006, \h00AD, \hA04F, \h0EBA, \h20C0, \h8020, \hC011,
         \h02A6, \h00B3, \hA021, \h4021, \h04AD, \h00BD, \h4061, \h04AD, \h00BD, \h20C0, \hE006,
         \h009C, \h8024, \h8083, \hC02C, \h8041, \h20C0, \h8020, \h02C1, \h04C8, \hA040, \h08D6,
         \h0002, \h8083, \hA020, \h4023, \hA020, \h4023, \hA028, \h4025, \hA02C, \h4025, \h8024,
         \h8083, \h0768, \hA041, \h00C6, \h1174, \h20C0, \h8083, \hA042, \h4043, \hA046, \h4043,
         \hA054, \h4045, \hA040, \h4045, \h0198, \hA021, \h8081, \hE003, \h00F2, \hA022, \h8081,
         \hE003, \h00F2, \hA021, \h8081, \hE003, \h0103, \hA022, \h8081, \hE003, \h0103, \hA043,
         \h0F00, \h20C0, \h8020, \hC011, \h02F9, \h010E, \hA021, \h4021, \h04F3, \h0114, \h4061,
         \h04F3, \h0114, \h20C0, \hE006, \h0104, \hA043, \h0F11, \h20C0, \h8020, \hC011, \h02FD,
         \h010A, \hA021, \h4021, \h0504, \h012A, \h4061, \h0504, \h012A, \h20C0, \hE006, \h00F3,
         \h8083, \hE005, \hA04F, \h0F27, \h20C0, \h8020, \h031C, \h0140, \h031E, \h0139, \hA021,
         \h4021, \h0517, \hE003, \h0116, \h4061, \h0517, \hE003, \h0116, \h20C0, \hE006, \h012D,
         \h8083, \hE005, \hA04F, \h0F3D, \h20C0, \h8020, \h0332, \h0140, \h0323, \h0134, \hA021,
         \h4021, \h052D, \hE003, \h012C, \h4061, \h052D, \hE003, \h012C, \h20C0, \hE006, \h0117,
         \hE003, \h40D0, \h8024, \h20C0, \h8083, \hA045, \h4043, \hA044, \h4043, \hA040, \h4045,
         \hA041, \h4045, \h8044, \h8083, \h075B, \h20C0, \h8083, \hA046, \h4043, \hA044, \h4043,
         \hA054, \h4045, \hA040, \h4045, \h0198, \hE002, \h0002, \hA023, \h8081, \hE003, \h0170,
         \hA023, \h8081, \hE003, \h0170, \h20C0, \h8020, \h0365, \h0802, \hE007, \h208C, \h80E7,
         \hC0C7, \hC0C7, \hC0C2, \h0170, \h20C0, \h8020, \h0370, \h0002, \h20C0, \hE004, \h6028,
         \h0785, \hE006, \h20C0, \h20C0, \hA006, \hA067, \hA046, \h20C0, \hE200, \h8008, \h057E,
         \h20C0, \hA047, \h019E, \hE004, \h6068, \h6028, \h038A, \h0194, \hE004, \h038D, \h0194,
         \hE004, \h0390, \h0194, \hE004, \h0393, \h0194, \hE004, \hA024, \h8081, \hE003, \h00D7,
         \h80A4, \h20C0, \h20C0, \hA002, \hA067, \hA04F, \h20C0, \h6021, \h03A2, \h8008, \h059E,
         \h09AD, \h20C0, \hE200, \hA004, \h20C0, \h20C0, \hE200, \hA006, \h20C0, \h0002, \hE004,
         \h6048, \h6070, \hE005, \h05B3, \h01CB, \h0FBA, \h20C0, \h6021, \h03B8, \h8008, \h05B3,
         \h01CB, \h20C0, \hE200, \h8008, \hE006, \h01B3, \h0FC6, \h20C0, \h6021, \h03C4, \h8008,
         \h05BF, \h01D0, \h20C0, \hE200, \h8008, \hE006, \h01BF, \h40D0, \h80AC, \h8083, \hA04F,
         \h01BF, \h0FD2, \h01A4, \h20C0, \hE200, \h8008, \h01A4>>,
     !.certificate =
       <<\h006D, \h0032, \h0100, \h0001, \h0000, \h0BC0, \h8081, \h0000, \h0C40, \hC001, \h0000, \h0EC1,
         \h0001, \h0000, \h1041, \h4001, \h0000, \h12C1, \h8001, \h0000, \h13C1, \h4001, \h0000,
         \h1641, \hC001, \h0000, \h18C1, \h0001, \h0000, \h1B41, \h8001, \h0000, \h1DC1, \h0001,
         \h0000, \h2041, \h8001, \h0000, \h22C1, \h0001, \h0000, \h2541, \h8001, \h0000, \h27C1,
         \h0001, \h0000, \h2A41, \h8001, \h0000, \h2CC1, \h0001, \h0000, \h2F41, \h8001, \h0000,
         \h31C1, \h0001, \h0000, \h3441, \h8001, \h0000, \h36C1, \h0001, \h0000, \h37C1, \h0001,
         \h0000, \h38C1, \h8001, \h0000, \h39C1, \h8001, \h0000, \h3AC2, \h0001, \h0000, \h3B42,
         \h4001, \h0000, \h3E41, \h0001, \h0000, \h4041, \h0001, \h0000, \h41C2, \h8001, \h0000,
         \h4342, \hC001, \h0000, \h43C3, \h0001, \h0000, \h46C1, \h8001, \h0000, \h48C1, \h8001,
         \h0000, \h4A43, \h4001, \h0000, \h4BC3, \h8001, \h0000, \h4CC3, \hC001, \h0000, \h4DC4,
         \h0001, \h0000, \h4E44, \h4001, \h0000, \h5141, \h0001, \h0000, \h5341, \h0001, \h0000,
         \h54C4, \h8001, \h0000, \h5644, \hC001, \h0000, \h56C5, \h0001, \h0000, \h59C1, \h8001,
         \h0000, \h5BC1, \h8001, \h0000, \h5D45, \h4001, \h0000, \h5EC5, \h8001, \h0000, \h60C5,
         \h0001, \h0000, \h6345, \hC001, \h0000, \h6446, \h0001, \h0000, \h6B46, \h4001, \h0000,
         \h6BC6, \h8001, \h0000, \h7141, \h0001, \h0000, \h7341, \h0001, \h0000, \h7541, \h8001,
         \h0000, \h7741, \h8001, \h0000, \h7942, \hC001, \h0000, \h79C3, \h0001, \h0000, \h7CC1,
         \h0001, \h0000, \h7EC1, \h0001, \h0000, \h8043, \h4001, \h0000, \h81C6, \hC001, \h0000,
         \h8247, \h0001, \h0000, \h8541, \h8001, \h0000, \h8741, \h8001, \h0000, \h88C7, \h4001,
         \h0000, \h8A43, \h8001, \h0000, \h8B43, \hC001, \h0000, \h8BC7, \h8001, \h0000, \h8E47,
         \hC001, \h0000, \h8F46, \h0001, \h0000, \h91C6, \h0001, \h0000, \h93C8, \h0001, \h0000,
         \h9543, \hC001, \h0000, \h9648, \h4001, \h0000, \h96C8, \h8001, \h0000, \h9947, \hC001,
         \h0000, \h9A42, \h0001, \h0000, \h9CC2, \h0001, \h0000, \h9EC8, \hC001, \h0000, \hA046,
         \h0001, \h0000, \hADC9, \h0001, \h0000, \hAEC1, \h0001, \h0000, \hB0C1, \h8001, \h0000,
         \hB289, \h9282, \h0000, \hB449, \hC001, \h0000, \hB84A, \h0001, \h0000, \hBA46, \h8001,
         \h0000, \hBF4A, \h4001, \h0000, \hC2C1, \h0001, \h0000, \hC542, \hC001, \h0000, \hC6CA,
         \h8001, \h0000, \hC84A, \hC001, \h0000, \hC9C9, \hC001, \h0000, \hCA4B, \h0001, \h0000,
         \hCC46, \hC001, \h0000, \hCF4A, \h4001, \h0000, \hD14B, \h4001, \h0000, \hD24B, \h8001,
         \h0000, \hD6CB, \hC001, \h0000, \hD9C7, \h4001, \h0000, \hDC4B, \h4001, \h0000, \hDD4C,
         \h0001, \h0000, \hDFCC, \h4001, \h0000, \hE24B, \h4001, \h0000, \hE34C, \h8001, \h0000,
         \hE5CC, \h0001, \h0000, \hE84B, \hC001, \h0000, \hE943, \h8001, \h0000, \h0000, \h0700,
         \h0008, \hFFFF, \hF7FF, \hFFF7, \hFFFF, \hE7FF, \hFFF8, \hFFFF, \hE5FF, \hFFE5, \hFFFF,
         \hE9FF, \hFFE9, \hFFFF, \hE7FF, \hFFE7, \hFFFF, \hEBFF, \hFFEB, \hFFFF, \hE8FF, \hFFE8,
         \hFFFF, \hE4FF, \hFFE9, \hFFFF, \hE6FF, \hFFEB, \hFFFF, \hEAFF, \hFFEA, \hFFFF, \hE4FF,
         \hFFEB, \hFFFF, \hE6FF, \hFFED, \hFFFF, \hEAFF, \hFFEB, \hFFFF, \hECFF, \hFFED, \hFFFF,
         \hEDFF, \hFFEE, \hFFFF, \hE4FF, \hFFEF, \hFFFF, \hE6FF, \hFFF1, \hFFFF, \hEFFF, \hFFF0,
         \hFFFF, \hE4FF, \hFFF1, \hFFFF, \hE6FF, \hFFF3, \hFFFF, \hEAFF, \hFFED, \hFFFF, \hE7FF,
         \hFFF6, \hFFFF, \hE6FF, \hFFE6, \hFFFF, \hE9FF, \hFFF8, \hFFFF, \hEBFF, \hFFFA, \hFFFF,
         \hECFF, \hFFEC, \hFFFF, \hE4FF, \hFFED, \hFFFF, \hE6FF, \hFFEF, \hFFFF, \hE4FF, \hFFEE,
         \hFFFF, \hE4FF, \hFFE4, \hFFFF, \hE6FF, \hFFF0, \hFFFF, \hEEFF, \hFFEF, \hFFFF, \hE4FF,
         \hFFF0, \hFFFF, \hE6FF, \hFFF2, \hFFFF, \hEEFF, \hFFEE, \h0000, \h0000, \h0000, \h0000,
         \h0100, \h0000, \hFFFF, \hF3FF, \hFFF3, \hFFFF, \hE4FF, \hFFF7, \hFFFF, \hE4FF, \hFFE7,
         \hFFFF, \hEDFF, \hFFED, \hFFFF, \hF0FF, \hFFF0, \hFFFF, \hECFF, \hFFF5, \hFFFF, \hE4FF,
         \hFFE5, \hFFFF, \hE7FF, \hFFED, \hFFFF, \hE8FF, \hFFE9, \hFFFF, \hE8FF, \hFFF1, \hFFFF,
         \hE6FF, \hFFF7, \hFFFF, \hE8FF, \hFFF9, \h0020, \h0020, \h0000, \h0000>>]

\* The words that differ between addresses, by their pc.
PATCH_AT == <<5, 7, 9, 11>>

\* What they are at each address from 0.
PATCHES ==
  <<<<\hA040, \hA040, \hA040, \hA048>>, <<\hA044, \hA040, \hA040, \hA057>>, <<\hA042, \hA040,
    \hA040, \hA055>>, <<\hA046, \hA040, \hA040, \hA04A>>, <<\hA041, \hA040, \hA040, \hA054>>,
    <<\hA045, \hA040, \hA040, \hA04B>>, <<\hA043, \hA040, \hA040, \hA049>>, <<\hA047, \hA040,
    \hA040, \hA056>>, <<\hA040, \hA044, \hA040, \hA046>>, <<\hA044, \hA044, \hA040, \hA059>>,
    <<\hA042, \hA044, \hA040, \hA05B>>, <<\hA046, \hA044, \hA040, \hA044>>, <<\hA041, \hA044,
    \hA040, \hA05A>>, <<\hA045, \hA044, \hA040, \hA045>>, <<\hA043, \hA044, \hA040, \hA047>>,
    <<\hA047, \hA044, \hA040, \hA058>>, <<\hA040, \hA042, \hA040, \hA04F>>, <<\hA044, \hA042,
    \hA040, \hA050>>, <<\hA042, \hA042, \hA040, \hA052>>, <<\hA046, \hA042, \hA040, \hA04D>>,
    <<\hA041, \hA042, \hA040, \hA053>>, <<\hA045, \hA042, \hA040, \hA04C>>, <<\hA043, \hA042,
    \hA040, \hA04E>>, <<\hA047, \hA042, \hA040, \hA051>>, <<\hA040, \hA046, \hA040, \hA041>>,
    <<\hA044, \hA046, \hA040, \hA05E>>, <<\hA042, \hA046, \hA040, \hA05C>>, <<\hA046, \hA046,
    \hA040, \hA043>>, <<\hA041, \hA046, \hA040, \hA05D>>, <<\hA045, \hA046, \hA040, \hA042>>,
    <<\hA043, \hA046, \hA040, \hA040>>, <<\hA047, \hA046, \hA040, \hA05F>>, <<\hA040, \hA041,
    \hA040, \hA059>>, <<\hA044, \hA041, \hA040, \hA046>>, <<\hA042, \hA041, \hA040, \hA044>>,
    <<\hA046, \hA041, \hA040, \hA05B>>, <<\hA041, \hA041, \hA040, \hA045>>, <<\hA045, \hA041,
    \hA040, \hA05A>>, <<\hA043, \hA041, \hA040, \hA058>>, <<\hA047, \hA041, \hA040, \hA047>>,
    <<\hA040, \hA045, \hA040, \hA057>>, <<\hA044, \hA045, \hA040, \hA048>>, <<\hA042, \hA045,
    \hA040, \hA04A>>, <<\hA046, \hA045, \hA040, \hA055>>, <<\hA041, \hA045, \hA040, \hA04B>>,
    <<\hA045, \hA045, \hA040, \hA054>>, <<\hA043, \hA045, \hA040, \hA056>>, <<\hA047, \hA045,
    \hA040, \hA049>>, <<\hA040, \hA043, \hA040, \hA05E>>, <<\hA044, \hA043, \hA040, \hA041>>,
    <<\hA042, \hA043, \hA040, \hA043>>, <<\hA046, \hA043, \hA040, \hA05C>>, <<\hA041, \hA043,
    \hA040, \hA042>>, <<\hA045, \hA043, \hA040, \hA05D>>, <<\hA043, \hA043, \hA040, \hA05F>>,
    <<\hA047, \hA043, \hA040, \hA040>>, <<\hA040, \hA047, \hA040, \hA050>>, <<\hA044, \hA047,
    \hA040, \hA04F>>, <<\hA042, \hA047, \hA040, \hA04D>>, <<\hA046, \hA047, \hA040, \hA052>>,
    <<\hA041, \hA047, \hA040, \hA04C>>, <<\hA045, \hA047, \hA040, \hA053>>, <<\hA043, \hA047,
    \hA040, \hA051>>, <<\hA047, \hA047, \hA040, \hA04E>>, <<\hA040, \hA040, \hA050, \hA052>>,
    <<\hA044, \hA040, \hA050, \hA04D>>, <<\hA042, \hA040, \hA050, \hA04F>>, <<\hA046, \hA040,
    \hA050, \hA050>>, <<\hA041, \hA040, \hA050, \hA04E>>, <<\hA045, \hA040, \hA050, \hA051>>,
    <<\hA043, \hA040, \hA050, \hA053>>, <<\hA047, \hA040, \hA050, \hA04C>>, <<\hA040, \hA044,
    \hA050, \hA05C>>, <<\hA044, \hA044, \hA050, \hA043>>, <<\hA042, \hA044, \hA050, \hA041>>,
    <<\hA046, \hA044, \hA050, \hA05E>>, <<\hA041, \hA044, \hA050, \hA040>>, <<\hA045, \hA044,
    \hA050, \hA05F>>, <<\hA043, \hA044, \hA050, \hA05D>>, <<\hA047, \hA044, \hA050, \hA042>>,
    <<\hA040, \hA042, \hA050, \hA055>>, <<\hA044, \hA042, \hA050, \hA04A>>, <<\hA042, \hA042,
    \hA050, \hA048>>, <<\hA046, \hA042, \hA050, \hA057>>, <<\hA041, \hA042, \hA050, \hA049>>,
    <<\hA045, \hA042, \hA050, \hA056>>, <<\hA043, \hA042, \hA050, \hA054>>, <<\hA047, \hA042,
    \hA050, \hA04B>>, <<\hA040, \hA046, \hA050, \hA05B>>, <<\hA044, \hA046, \hA050, \hA044>>,
    <<\hA042, \hA046, \hA050, \hA046>>, <<\hA046, \hA046, \hA050, \hA059>>, <<\hA041, \hA046,
    \hA050, \hA047>>, <<\hA045, \hA046, \hA050, \hA058>>, <<\hA043, \hA046, \hA050, \hA05A>>,
    <<\hA047, \hA046, \hA050, \hA045>>, <<\hA040, \hA041, \hA050, \hA043>>, <<\hA044, \hA041,
    \hA050, \hA05C>>, <<\hA042, \hA041, \hA050, \hA05E>>, <<\hA046, \hA041, \hA050, \hA041>>,
    <<\hA041, \hA041, \hA050, \hA05F>>, <<\hA045, \hA041, \hA050, \hA040>>, <<\hA043, \hA041,
    \hA050, \hA042>>, <<\hA047, \hA041, \hA050, \hA05D>>, <<\hA040, \hA045, \hA050, \hA04D>>,
    <<\hA044, \hA045, \hA050, \hA052>>, <<\hA042, \hA045, \hA050, \hA050>>, <<\hA046, \hA045,
    \hA050, \hA04F>>, <<\hA041, \hA045, \hA050, \hA051>>, <<\hA045, \hA045, \hA050, \hA04E>>,
    <<\hA043, \hA045, \hA050, \hA04C>>, <<\hA047, \hA045, \hA050, \hA053>>, <<\hA040, \hA043,
    \hA050, \hA044>>, <<\hA044, \hA043, \hA050, \hA05B>>, <<\hA042, \hA043, \hA050, \hA059>>,
    <<\hA046, \hA043, \hA050, \hA046>>, <<\hA041, \hA043, \hA050, \hA058>>, <<\hA045, \hA043,
    \hA050, \hA047>>, <<\hA043, \hA043, \hA050, \hA045>>, <<\hA047, \hA043, \hA050, \hA05A>>,
    <<\hA040, \hA047, \hA050, \hA04A>>, <<\hA044, \hA047, \hA050, \hA055>>, <<\hA042, \hA047,
    \hA050, \hA057>>, <<\hA046, \hA047, \hA050, \hA048>>, <<\hA041, \hA047, \hA050, \hA056>>,
    <<\hA045, \hA047, \hA050, \hA049>>, <<\hA043, \hA047, \hA050, \hA04B>>, <<\hA047, \hA047,
    \hA050, \hA054>>>>
=============================================================================
