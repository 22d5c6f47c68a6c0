------------------------------- MODULE Demos --------------------------------
(***************************************************************************)
(* The host's demos (python/demo_*.py), one after a reset of the chip: a   *)
(* script of calls (HostCalls) against the chip's two engines, their fifos *)
(* and the data memory they share.  A call the chip is not in a state for  *)
(* is ignored without a word, as the chip ignores it.  A check walks the   *)
(* program against the certificate in the data memory, a pc at a time      *)
(* (Load_check.walk, src/load_check.ml), and the host goes on once it has  *)
(* the verdict.  A load of each table no demo loads is a script too.       *)
(***************************************************************************)
EXTENDS HostCalls, UsbDeviceFirmware, TLC

CONSTANTS
  Table,       \* the firmware the host ships, by name
  Demo,        \* the scripts, by name
  Depth,       \* words a fifo holds
  BenchDepth,  \* words a demo keeps in flight
  Addresses    \* the addresses a laptop may give the USB device

ASSUME DemosAssumption ==
  /\ Depth \in Nat /\ BenchDepth \in 1 .. Depth
  /\ Addresses \subseteq 0 .. 127

VARIABLES
  host,     \* its calls, the next of them, the engine selected, a call's progress
  engine,   \* the engines
  tx,       \* the words each engine has not taken
  rx,       \* how many words of each the host has not popped
  data,     \* the blocks written to the data memory whose words are known
  loaded,   \* the address the USB device is loaded for, or None
  walk      \* the check: its engine, pc, row, entries taken and verdict

vars == <<host, engine, tx, rx, data, loaded, walk>>

Engines == {0, 1}
Size == 512
Pcs == 0 .. Size - 1

Device == "USB_DEVICE"

\* The tables a demo loads.
Used ==
  UNION {{Demo[name][i].of : i \in {j \in DOMAIN Demo[name] :
            Demo[name][j].do \in {"configure", "load", "write"}}} : name \in DOMAIN Demo}

\* What the host asks: every demo, and a load of each table no demo loads.
Script == Demo @@ [name \in DOMAIN Table \ Used |-> BenchLoad(name, 0)]

-----------------------------------------------------------------------------
(***************************************************************************)
(* The firmware.                                                           *)
(***************************************************************************)

\* The load check of a program under the configuration of f.
Judge(f) ==
  INSTANCE LoadCheck WITH
    Half <- 2^23, DataMax <- 2^16 - 1, Size <- 512, IndexMax <- 127,
    Fraction <- f.period_fraction,
    Loaded <- [valid |-> f.loaded # None,
               value |-> IF f.loaded = None THEN 0 ELSE f.loaded,
               floor |-> f.floor]

\* Host.load: the words, then zeros to the end of the memory.
Whole(words) == [pc \in Pcs |-> IF pc < Len(words) THEN words[pc + 1] ELSE 0]

Program == [name \in DOMAIN Table |-> Whole(Table[name].words)]

\* demo_sweep.write_program: the words, then zeros as far as the last ones reached.
Over(memory, words, dirty) ==
  [pc \in Pcs |->
     IF pc < Len(words) THEN words[pc + 1] ELSE IF pc < dirty THEN 0 ELSE memory[pc]]

\* usb_device_firmware.words: the program of a device at this address.
DeviceWords(address) ==
  [n \in DOMAIN USB_DEVICE.words |->
     IF \E i \in DOMAIN PATCH_AT : PATCH_AT[i] = n - 1
     THEN PATCHES[address + 1][CHOOSE i \in DOMAIN PATCH_AT : PATCH_AT[i] = n - 1]
     ELSE USB_DEVICE.words[n]]

DeviceProgram == [address \in Addresses |-> Whole(DeviceWords(address))]

\* Mutant: the last word that differs is left out of the patch.
PatchedShort(memory, address) ==
  [pc \in Pcs |->
     IF pc \in PATCH_AT[1] .. PATCH_AT[Len(PATCH_AT)] - 1 THEN DeviceProgram[address][pc]
     ELSE memory[pc]]

\* The words from the first that differs to the last, written over the program.
Patched(memory, address) ==
  [pc \in Pcs |->
     IF pc \in PATCH_AT[1] .. PATCH_AT[Len(PATCH_AT)] THEN DeviceProgram[address][pc]
     ELSE memory[pc]]

\* Firmware whose first pull is of the period, which it moves to p: sys pull, mov p, osr.
Pulls(f) == {n \in DOMAIN f.words : f.words[n] = \hE004}
TakesPeriod ==
  {name \in DOMAIN Table :
     LET pulls == Pulls(Table[name])
     IN  /\ pulls # {}
         /\ LET first == CHOOSE n \in pulls : \A m \in pulls : n <= m
            IN  first < Len(Table[name].words) /\ Table[name].words[first + 1] = \h80C5}

\* Firmware that may halt, and that of it with no jump, which must.
Halting == {name \in DOMAIN Table : \E n \in DOMAIN Table[name].words :
              SubSeq(Table[name].words, n, n) = <<\hE001>>}
Straight == {name \in Halting : \A n \in DOMAIN Table[name].words :
               Opcode(Table[name].words[n]) # "jmp"}

-----------------------------------------------------------------------------
(***************************************************************************)
(* The chip.                                                               *)
(***************************************************************************)

NoCertificate == [entries |-> <<>>, wide |-> <<>>, narrow |-> <<>>]

AllHalted == \A e \in Engines : ~engine[e].running

\* A block of words written over the data memory.
Written(block) ==
  {b \in data : b.base + b.size <= block.base \/ block.base + block.size <= b.base} \cup {block}

Certificate == [name \in DOMAIN Table |-> Unpacked(Table[name].certificate)]

\* The certificate at base, if what is there is one.
CertificateAt(base) ==
  IF \E b \in data : b.base = base /\ b.of # ""
  THEN Certificate[(CHOOSE b \in data : b.base = base).of]
  ELSE NoCertificate

\* What a check of engine e was told: the configuration it holds, and the premises of
\* the entry it is asked about.
Checked ==
  LET f == Table[engine[walk.engine].config]
      told == Table[walk.of]
  IN  [f EXCEPT !.loaded = told.loaded, !.floor = told.floor, !.single_edge = told.single_edge]

\* What the walk reads: the word at its pc, the configuration and the certificate.
Image ==
  [words |-> [pc \in {walk.pc} |-> Decoded(engine[walk.engine].program[pc], Checked)],
   config |-> [wrap_top |-> Checked.wrap_top, wrap_bottom |-> Checked.wrap_bottom],
   cert |-> CertificateAt(walk.base)]

Idle == [engine |-> 0, of |-> Device, base |-> 0, pc |-> 0, row |-> Judge(USB_DEVICE)!OpenRow,
         ptr |-> 0, verdict |-> "idle"]

Begun(e, of, base) == [Idle EXCEPT !.engine = e, !.of = of, !.base = base, !.verdict = "busy"]

Reset ==
  [running |-> FALSE, certified |-> FALSE, config |-> Device, of |-> "", premises |-> "",
   dirty |-> Size, fresh |-> FALSE, program |-> [pc \in Pcs |-> \hFFFF]]

\* The chip is reset before every demo; its memories hold what they powered up with.
Init ==
  /\ host \in [calls : {Script[name] : name \in DOMAIN Script}, at : {1}, select : {0},
               sent : {0}, replies : {0}, catch : {0}]
  /\ engine = [e \in Engines |-> Reset]
  /\ tx = [e \in Engines |-> <<>>]
  /\ rx = [e \in Engines |-> 0]
  /\ data = {}
  /\ loaded = None
  /\ walk = Idle

-----------------------------------------------------------------------------
(***************************************************************************)
(* The host's calls.                                                       *)
(***************************************************************************)

Here == engine[host.select]
Ended == host.at > Len(host.calls)

\* The call the host makes next, once it has the verdict it waits for.
Upcoming == IF walk.verdict = "busy" \/ Ended THEN {} ELSE {host.calls[host.at]}

\* On by n calls, and out of the calls whose failure is handled.
On(n) ==
  host' = [host EXCEPT !.at = @ + n, !.sent = 0, !.replies = 0,
                       !.catch = IF host.at + n >= @ THEN 0 ELSE @]

Pushed(words) ==
  tx' = [tx EXCEPT ![host.select] =
           LET all == @ \o words
           IN  SubSeq(all, 1, IF Len(all) > Depth THEN Depth ELSE Len(all))]

Changed(e) == engine' = [engine EXCEPT ![host.select] = e]

CallSelect(up) ==
  /\ up.do = "select"
  /\ host' = [host EXCEPT !.at = @ + 1, !.select = up.engine,
                          !.catch = IF host.at + 1 >= @ THEN 0 ELSE @]
  /\ UNCHANGED <<engine, tx, rx, data, loaded, walk>>

CallStop(up) ==
  /\ up.do = "stop" /\ On(1)
  /\ Changed([Here EXCEPT !.running = FALSE])
  /\ UNCHANGED <<tx, rx, data, loaded, walk>>

CallFlush(up) ==
  /\ up.do = "flush" /\ On(1)
  /\ tx' = IF Here.running THEN tx ELSE [tx EXCEPT ![host.select] = <<>>]
  /\ rx' = IF Here.running THEN rx ELSE [rx EXCEPT ![host.select] = 0]
  /\ UNCHANGED <<engine, data, loaded, walk>>

CallConfigure(up) ==
  /\ up.do = "configure" /\ On(1)
  /\ Changed(IF Here.running THEN Here ELSE [Here EXCEPT !.config = up.of, !.certified = FALSE])
  /\ UNCHANGED <<tx, rx, data, loaded, walk>>

\* A program's words end the engine's certification, whether they land or not.
CallLoad(up) ==
  /\ up.do = "load" /\ On(1)
  /\ Changed(IF Here.running THEN [Here EXCEPT !.certified = FALSE]
             ELSE [Here EXCEPT !.certified = FALSE, !.of = up.of,
                               !.program = Program[up.of]])
  /\ UNCHANGED <<tx, rx, data, loaded, walk>>

CallWrite(up) ==
  /\ up.do = "write" /\ On(1)
  /\ \E words \in {Table[up.of].words} :
       Changed(IF Here.running THEN [Here EXCEPT !.certified = FALSE]
               ELSE [Here EXCEPT !.certified = FALSE, !.of = up.of,
                                 !.program = Over(@, words, Here.dirty), !.dirty = Len(words)])
  /\ UNCHANGED <<tx, rx, data, loaded, walk>>

\* The data memory takes writes only while both engines are halted.
CallData(up) ==
  /\ up.do = "data" /\ On(1)
  /\ data' = IF AllHalted THEN Written([base |-> up.base, size |-> up.size, of |-> ""]) ELSE data
  /\ UNCHANGED <<engine, tx, rx, loaded, walk>>

CallCertificate(up) ==
  /\ up.do = "certificate" /\ On(1)
  /\ data' = IF AllHalted
             THEN Written([base |-> up.base, size |-> Len(Table[up.of].certificate), of |-> up.of])
             ELSE data
  /\ UNCHANGED <<engine, tx, rx, loaded, walk>>

\* A check waits for its engine to halt; once it begins the engine has its premises, and
\* is certified only if it accepts.
CallCheck(up) ==
  /\ up.do = "check" /\ On(1) /\ ~Here.running
  /\ walk' = Begun(host.select, up.of, up.base)
  /\ Changed([Here EXCEPT !.certified = FALSE, !.premises = up.of])
  /\ UNCHANGED <<tx, rx, data, loaded>>

CallStart(up) ==
  /\ up.do = "start" /\ On(1)
  /\ Changed(IF Here.running \/ ~Here.certified THEN Here
             ELSE [Here EXCEPT !.running = TRUE, !.fresh = TRUE])
  /\ UNCHANGED <<tx, rx, data, loaded, walk>>

\* The interrupt is not followed.
CallClearIrq(up) ==
  /\ up.do = "clear_irq" /\ On(1)
  /\ UNCHANGED <<engine, tx, rx, data, loaded, walk>>

\* The line coder's table counts as part of the program.
CallLine(up) ==
  /\ up.do = "line" /\ On(1)
  /\ Changed([Here EXCEPT !.certified = FALSE])
  /\ UNCHANGED <<tx, rx, data, loaded, walk>>

\* What is received lands from base up, over what was there.
CallArm(up) ==
  /\ up.do = "arm" /\ On(1)
  /\ data' = {b \in data : b.base + b.size <= up.base}
  /\ UNCHANGED <<engine, tx, rx, loaded, walk>>

CallPush(up) ==
  /\ up.do = "push" /\ On(1)
  /\ Pushed(up.words)
  /\ UNCHANGED <<engine, rx, data, loaded, walk>>

CallWhole(up) ==
  /\ up.do = "whole"
  /\ Len(tx[host.select]) + Len(up.words) <= up.depth
  /\ On(1) /\ Pushed(up.words)
  /\ UNCHANGED <<engine, rx, data, loaded, walk>>

CallPop(up) ==
  /\ up.do = "pop" /\ On(1)
  /\ rx' = [rx EXCEPT ![host.select] = IF @ > up.words THEN @ - up.words ELSE 0]
  /\ UNCHANGED <<engine, tx, data, loaded, walk>>

\* What of a stream there is room for.
Chunk(up, room) ==
  LET left == Len(up.words) - host.sent
  IN  SubSeq(up.words, host.sent + 1, host.sent + (IF room < left THEN room ELSE left))

CallFeed(up) ==
  LET chunk == Chunk(up, up.depth - Len(tx[host.select]))
  IN  /\ up.do = "feed"
      /\ Len(tx[host.select]) < up.depth
      /\ Pushed(chunk)
      /\ IF host.sent + Len(chunk) = Len(up.words) THEN On(1)
         ELSE host' = [host EXCEPT !.sent = @ + Len(chunk)]
      /\ UNCHANGED <<engine, rx, data, loaded, walk>>

\* Mutant: what is in flight is taken to be what waits in the tx fifo.
RoomOfTx == BenchDepth - Len(tx[host.select])

\* bench.exchange's room: words whose replies are still to come fill it.
Room == BenchDepth - (host.sent - host.replies)

Send(up) ==
  /\ up.do = "exchange"
  /\ host.sent < Len(up.words) /\ Room > 0
  /\ Pushed(Chunk(up, Room))
  /\ host' = [host EXCEPT !.sent = @ + Len(Chunk(up, Room))]
  /\ UNCHANGED <<engine, rx, data, loaded, walk>>

Collect(up) ==
  /\ up.do = "exchange"
  /\ rx[host.select] > 0
  /\ rx' = [rx EXCEPT ![host.select] = 0]
  /\ IF host.replies + rx[host.select] = Len(up.words) THEN On(1)
     ELSE host' = [host EXCEPT !.replies = @ + rx[host.select]]
  /\ UNCHANGED <<engine, tx, data, loaded, walk>>

\* Long enough for what runs to take what it was sent.
Waited(up) ==
  /\ \/ up.do = "pause" /\ \A e \in Engines : engine[e].running => tx[e] = <<>>
     \/ up.do = "drain" /\ tx[host.select] = <<>>
     \/ up.do = "halted" /\ ~Here.running
  /\ On(1)
  /\ UNCHANGED <<engine, tx, rx, data, loaded, walk>>

\* What depends on the outside happens or does not.
Depends(up) ==
  /\ up.do = "perhaps"
  /\ \E n \in {1, 1 + up.calls} : On(n)
  /\ UNCHANGED <<engine, tx, rx, data, loaded, walk>>

Attempt(up) ==
  /\ up.do = "try"
  /\ host' = [host EXCEPT !.at = @ + 1, !.catch = host.at + 1 + up.calls]
  /\ UNCHANGED <<engine, tx, rx, data, loaded, walk>>

\* usb_board.load with no program held: the words of the device at this address.
CallAttach(up, address) ==
  /\ up.do = "attach" /\ On(1)
  /\ Changed(IF Here.running THEN [Here EXCEPT !.certified = FALSE]
             ELSE [Here EXCEPT !.certified = FALSE, !.of = Device,
                               !.program = DeviceProgram[address]])
  /\ loaded' = address
  /\ UNCHANGED <<tx, rx, data, walk>>

\* At a new address no words but those that differ, and at the one it has none.
CallPatch(up, address) ==
  /\ up.do = "patch" /\ On(1)
  /\ Changed(IF Here.running \/ address = loaded THEN [Here EXCEPT !.certified = FALSE]
             ELSE [Here EXCEPT !.certified = FALSE, !.program = Patched(@, address)])
  /\ loaded' = address
  /\ UNCHANGED <<tx, rx, data, walk>>

\* The chip is reset, or another design ran in its place.
CallReset(up) ==
  /\ up.do = "reset"
  /\ host' = [host EXCEPT !.at = @ + 1, !.select = 0,
                          !.catch = IF host.at + 1 >= @ THEN 0 ELSE @]
  /\ engine' = [e \in Engines |-> Reset]
  /\ tx' = [e \in Engines |-> <<>>]
  /\ rx' = [e \in Engines |-> 0]
  /\ data' = {}
  /\ loaded' = None
  /\ walk' = Idle

CallAgain(up) ==
  /\ up.do = "again"
  /\ host' = [host EXCEPT !.at = @ - up.calls]
  /\ UNCHANGED <<engine, tx, rx, data, loaded, walk>>

\* A call of those attempted raises.
Raise ==
  /\ walk.verdict # "busy" /\ host.catch # 0
  /\ host' = [host EXCEPT !.at = host.catch, !.catch = 0, !.sent = 0, !.replies = 0]
  /\ UNCHANGED <<engine, tx, rx, data, loaded, walk>>

-----------------------------------------------------------------------------
(***************************************************************************)
(* The chip's steps.                                                       *)
(***************************************************************************)

\* An engine takes a word, and answers it if it is one it answers.  What it takes
\* changes nothing a check reads, so it waits for one that is on its way.
Take(e) ==
  /\ walk.verdict # "busy"
  /\ engine[e].running /\ tx[e] # <<>>
  /\ tx' = [tx EXCEPT ![e] = Tail(@)]
  /\ rx' = IF Head(tx[e]) = Asked THEN [rx EXCEPT ![e] = @ + 1] ELSE rx
  /\ engine' = [engine EXCEPT ![e].fresh = FALSE]
  /\ UNCHANGED <<host, data, loaded, walk>>

Halt(e) ==
  /\ walk.verdict # "busy"
  /\ engine[e].running /\ engine[e].of \in Halting
  /\ engine' = [engine EXCEPT ![e].running = FALSE]
  /\ UNCHANGED <<host, tx, rx, data, loaded, walk>>

\* What becomes of the check with the pc the walk is at, where after is the next row.
Verdict(f, image, after) ==
  LET last == walk.pc = Size - 1
      left == after.ptr # Len(image.cert.entries)
      walked == walk.pc :> [row |-> walk.row, ptr |-> walk.ptr] @@ walk.pc + 1 :> after
      sound == Judge(f)!Judged(image, walk.pc, walked) = Judge(f)!NoReason
  IN  IF ~sound \/ (last /\ left) THEN "refused"
      ELSE IF last THEN "accepted" ELSE "busy"

\* The walk judges a pc, and goes on to the next or ends; a refusal ends the demo.
Judging(verdict, after) ==
  /\ walk' = IF verdict = "busy"
             THEN [walk EXCEPT !.pc = @ + 1, !.row = after.row, !.ptr = after.ptr]
             ELSE [Idle EXCEPT !.verdict = verdict]
  /\ engine' = IF verdict = "busy" THEN engine
               ELSE [engine EXCEPT ![walk.engine].certified = verdict = "accepted"]
  /\ host' = IF verdict = "refused" THEN [host EXCEPT !.at = Len(host.calls) + 1] ELSE host

Step ==
  /\ walk.verdict = "busy"
  /\ \E f \in {Checked}, image \in {Image} :
       \E after \in {Judge(f)!After(image, walk.pc, [row |-> walk.row, ptr |-> walk.ptr])} :
         \E verdict \in {Verdict(f, image, after)} : Judging(verdict, after)
  /\ UNCHANGED <<tx, rx, data, loaded>>

Rest == Ended /\ walk.verdict # "busy" /\ UNCHANGED vars

HostStep ==
  \E up \in Upcoming :
    \/ CallSelect(up) \/ CallStop(up) \/ CallFlush(up) \/ CallConfigure(up) \/ CallLoad(up)
    \/ CallWrite(up) \/ CallData(up) \/ CallCertificate(up) \/ CallCheck(up) \/ CallStart(up)
    \/ CallClearIrq(up) \/ CallLine(up) \/ CallArm(up) \/ CallPush(up) \/ CallWhole(up)
    \/ CallPop(up) \/ CallFeed(up) \/ Send(up) \/ Collect(up) \/ Waited(up)
    \/ Depends(up) \/ Attempt(up) \/ CallAgain(up) \/ CallReset(up)
    \/ \E address \in Addresses : CallAttach(up, address) \/ CallPatch(up, address)

Next ==
  \/ HostStep
  \/ Raise
  \/ \E e \in Engines : Take(e) \/ Halt(e)
  \/ Step
  \/ Rest

Spec == Init /\ [][Next]_vars

-----------------------------------------------------------------------------
(***************************************************************************)
(* Properties.                                                             *)
(***************************************************************************)

\* Every table was checked where it was written, by the compiler that wrote it: the
\* chip too accepts whatever the host ships, over whatever the demo loaded before it
\* and at every address, so that no load of it raises Refused
\* (python/protocol_emulator.py).
ShippedIsAccepted == walk.verdict # "refused"

\* A patch leaves the program of its address, whole, however many addresses the device
\* had before, and the words it does not write are the same at all of them.
PatchedIsWhole == loaded # None => engine[0].program = DeviceProgram[loaded]

\* The chip ignores without a word a load of an engine that runs, a write of the data
\* memory while either does, and a start of a program it has not accepted: no demo asks
\* for one, however its calls and the other engine's halts fall.
NothingIsIgnored ==
  \A up \in Upcoming :
    /\ up.do \in {"flush", "configure", "load", "write", "attach", "patch", "line", "check", "start"}
         => ~Here.running
    /\ up.do \in {"data", "certificate"} => AllHalted
    /\ up.do = "start" => Here.certified

\* No word is pushed into a fifo without room for it, where it would be dropped, and no
\* more replies wait than their fifo holds, for all that the host sends without asking.
NothingIsDropped ==
  /\ \A up \in Upcoming : up.do = "push" =>
       Len(tx[host.select]) + Len(up.words) <= Depth
  /\ \A e \in Engines : Len(tx[e]) <= Depth /\ rx[e] <= Depth

\* The period a check was told is the one the firmware first takes after every start, or
\* no less than it: the premise under which the program was accepted
\* (Host.certify, python/protocol_emulator.py).
PremiseIsKept ==
  \A e \in Engines :
    LET told == Table[engine[e].premises]
        kept == told.loaded # None =>
                  IF told.floor THEN Head(tx[e]) >= told.loaded ELSE Head(tx[e]) = told.loaded
    IN  engine[e].running /\ engine[e].fresh /\ tx[e] # <<>> /\ engine[e].of \in TakesPeriod
          => kept

\* What the host waits for comes: words it waits to see taken are an engine's that runs,
\* the replies of an exchange are those waiting and those of its words not yet taken, and
\* no other's, and a program whose halt it waits for has one it must reach.  As no call,
\* word or pc comes again, every demo ends but the keyboard, which serves for ever.
WaitsAreAnswered ==
  \A up \in Upcoming :
    LET waiting == tx[host.select]
        asked == Cardinality({i \in DOMAIN waiting : waiting[i] = Asked})
    IN  /\ up.do \in {"drain", "feed", "whole", "exchange"} /\ waiting # <<>> => Here.running
        /\ up.do = "whole" => Len(up.words) <= up.depth
        /\ up.do = "exchange" => host.sent - host.replies = rx[host.select] + asked
        /\ up.do = "halted" => ~Here.running \/ Here.of \in Straight
=============================================================================
