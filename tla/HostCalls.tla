----------------------------- MODULE HostCalls ------------------------------
(***************************************************************************)
(* What a host script asks of the chip: the calls of the driver's Host     *)
(* (python/protocol_emulator.py) and the loops over them that every demo   *)
(* shares (python/bench.py, python/pio_upstream.py).  A script is the      *)
(* sequence of its calls.  A word is told apart by what the firmware does  *)
(* with it: a period of n cycles is n, a word it answers is Asked, any     *)
(* other is Plain.                                                         *)
(***************************************************************************)
EXTENDS Integers, SequencesExt

CONSTANT StreamMax   \* how much of a longer stream of words is followed

ASSUME StreamAssumption == StreamMax \in Nat

Asked == -1
Word == 0

Words(n) == [i \in 1 .. n |-> Word]
AskedWords(n) == [i \in 1 .. n |-> Asked]

\* As much of a stream as is followed.
Stream(words) == SubSeq(words, 1, IF Len(words) < StreamMax THEN Len(words) ELSE StreamMax)

\* Words that hold a number of bits.
Holding(bits) == (bits + 15) \div 16

Repeat(n, script) == FlattenSeq([i \in 1 .. n |-> script])

-----------------------------------------------------------------------------
(***************************************************************************)
(* Host's calls.                                                           *)
(***************************************************************************)

Call(name) == <<[do |-> name]>>

Select(e) == <<[do |-> "select", engine |-> e]>>
Configure(of) == <<[do |-> "configure", of |-> of]>>
Load(of) == <<[do |-> "load", of |-> of]>>
WriteProgram(of) == <<[do |-> "write", of |-> of]>>
LoadData(base, size) == <<[do |-> "data", base |-> base, size |-> size]>>
LoadLineTable == Call("line")
Check(of, base) == <<[do |-> "check", of |-> of, base |-> base]>>
WriteCertificate(of, base) == <<[do |-> "certificate", of |-> of, base |-> base]>>
Certify(of, base) == WriteCertificate(of, base) \o Check(of, base)
Start == Call("start")
Stop == Call("stop")
Flush == Call("flush")
ClearIrq == Call("clear_irq")
Push(words) == <<[do |-> "push", words |-> words]>>
Pop(n) == <<[do |-> "pop", words |-> n]>>
ArmFrame(base) == <<[do |-> "arm", base |-> base]>>

-----------------------------------------------------------------------------
(***************************************************************************)
(* What the demos share.                                                   *)
(***************************************************************************)

\* Mutant: the engine that is not loaded is left to run.
StopLoaded == Select(0) \o Stop \o Flush

\* bench.load: both engines stopped and flushed, then one given the entry.
StopBoth == Select(1) \o Stop \o Flush \o Select(0) \o Stop \o Flush

BenchLoad(of, e) == StopBoth \o Select(e) \o Configure(of) \o Load(of) \o Certify(of, 0)

\* A pause, or a wait for what a firmware makes of its words: it outlasts them.
Pause == Call("pause")

\* pio_upstream.drain: until the firmware has taken every word.
Drain == Call("drain")

\* pio_upstream.feed: never more at a time than the fifo has room for.
Feed(words, depth) == <<[do |-> "feed", words |-> Stream(words), depth |-> depth]>>

\* usb_fs_board.service: a list whole, once there is room for it.
PushWhole(words, depth) == <<[do |-> "whole", words |-> words, depth |-> depth]>>

\* Words that a slow enough transfer paces, one when there is room.
Paced(words) == Feed(words, 1)

\* bench.exchange: the reply to each word.
Exchange(words) == <<[do |-> "exchange", words |-> Stream(words)]>>

\* What was done last, again, for as long as there is something to serve.
Again(script) == script \o <<[do |-> "again", calls |-> Len(script)]>>

\* Until a program that ends has ended.
AwaitHalt == Call("halted")

\* Calls that depend on what the outside answers.
Perhaps(script) == <<[do |-> "perhaps", calls |-> Len(script)]>> \o script

\* Calls one of which may raise, and what is done then.
Try(script, handler) ==
  <<[do |-> "try", calls |-> Len(script) + 1]>> \o script \o Perhaps(handler)

\* Calls one of which may raise, and what is done in any case.
TryFinally(script, cleanup) == <<[do |-> "try", calls |-> Len(script)]>> \o script \o cleanup

\* Loaded, started, and sent its period.
Started(of, e, period) == BenchLoad(of, e) \o Start \o Push(<<period>>)
=============================================================================
