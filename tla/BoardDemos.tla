----------------------------- MODULE BoardDemos -----------------------------
(***************************************************************************)
(* The demos of a board: its own checks (python/demo_board_check.py,       *)
(* python/etr_standin.py), a meter of its wires (python/board_blame.py),   *)
(* recordings of a line (python/learn_record.py) and the mouse that draws  *)
(* (python/demo_draw.py).                                                  *)
(***************************************************************************)
EXTENDS ChipDemos, Recording

-----------------------------------------------------------------------------
(***************************************************************************)
(* The Tiny Tapeout demo board, where selecting a design powers the others *)
(* down, and the bare Pico that stands in for it, where it does not.       *)
(***************************************************************************)

\* demo_board.DemoBoardSpi.select: the design enabled, clocked and reset.
BoardSelect == Perhaps(Call("reset"))

\* DemoBoardHost.reload: what engine 0 held is written again; nothing is certified.
Reload(of) == Select(0) \o Load(of) \o Select(0)
Ensure(of) == BoardSelect \o Reload(of)

BoardStatus == Select(0) \o Select(1) \o Select(0)
Readback == Select(1) \o Select(0)

\* uart_tx_host_rate at 115,200 baud and the board's clock.
BoardUart ==
  Stop \o Flush \o Configure("BOARD_UART_TX") \o Load("BOARD_UART_TX")
    \o Certify("BOARD_UART_TX", 0) \o Start \o Push(<<417>> \o Words(4)) \o Pause

BoardCheck == BoardSelect \o BoardStatus \o Readback \o BoardUart

\* Words that are no firmware: they are loaded and never started.
STANDIN_WORDS ==
  [Plain EXCEPT !.words = [i \in 1 .. 512 |-> ((i - 1) * \h9E37) % 65536],
                !.certificate = <<0, 0>>]

Standin ==
  Repeat(3, BoardSelect \o BoardStatus \o Readback \o Load("STANDIN_WORDS"))
    \o Ensure("STANDIN_WORDS") \o BoardStatus

-----------------------------------------------------------------------------
(***************************************************************************)
(* The meter: engine 0 drives an I2C bus and engine 1 times each release.  *)
(***************************************************************************)

BlameLoad(of, e) == Select(e) \o Configure(of) \o Load(of) \o Certify(of, 0)

\* Both are certified before either starts, the master first.
BlameStart ==
  Select(1) \o Stop \o Select(0) \o Stop
    \o BlameLoad("I2C_MASTER_MARKED", 0) \o BlameLoad("SCL_RISE", 1)
    \o Select(0) \o Start \o Select(1) \o Start

\* A reply for each word, and then the meter's.
BlameRun(words) ==
  Select(0) \o Push(AskedWords(words)) \o Pause \o Pop(words) \o Select(1)

Blame == BlameStart \o BlameRun(2)

-----------------------------------------------------------------------------
(***************************************************************************)
(* A recording of one line, or of two on one clock.  A recording's own     *)
(* loggers are assembled for its lines (demo/learn_prepare.py); each runs  *)
(* edge_logger_wire's loop.                                                *)
(***************************************************************************)

RecordLoad(e) ==
  Select(e) \o Stop \o Flush \o Configure("EDGE_LOGGER_WIRE") \o Load("EDGE_LOGGER_WIRE")
    \o Certify("EDGE_LOGGER_WIRE", 0)

\* A drain of one engine's stamps; Recording has what becomes of them.
Poll(e) == Select(e)

StartOn(e) == Select(e) \o Start
StopOn(e) == Select(e) \o Stop

RecordOne == RecordLoad(0) \o StartOn(0) \o Repeat(2, Poll(0)) \o StopOn(0)

\* Engine 1 is loaded and started before engine 0, whose wire it waits for.
RecordTwo ==
  RecordLoad(1) \o RecordLoad(0) \o StartOn(1) \o StartOn(0)
    \o Repeat(2, Poll(0) \o Poll(1)) \o StopOn(0) \o StopOn(1)

-----------------------------------------------------------------------------
(***************************************************************************)
(* The mouse that draws: engine 1 sends a report's three bytes once it is  *)
(* taken, long before the poll that takes the next.                        *)
(***************************************************************************)

LogReport == Select(1) \o Pause \o Push(Words(3)) \o Select(0)

Draw ==
  UsbStartLog \o UsbLoad \o Again(Perhaps(UsbReply \o LogReport) \o Perhaps(UsbPatch))
=============================================================================
