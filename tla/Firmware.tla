------------------------------ MODULE Firmware ------------------------------
(***************************************************************************)
(* Firmware as the host ships it: 16-bit words, the fields of the          *)
(* configuration that a load check reads, and a certificate's words with   *)
(* what the check is told of a loaded period and of the captured edge.     *)
(* Words decode (src/isa.ml, src/decoder.ml) to the classes the timing     *)
(* kernel tells apart (Kernel_step.Class.of_word, src/kernel_step.ml) and  *)
(* a certificate's words to its entries and dictionaries                   *)
(* (src/load_check.ml).                                                    *)
(***************************************************************************)
EXTENDS Integers, Sequences

None == -1

\* The fields of protocol_emulator's DEFAULT_CONFIG a check reads, and a check that
\* is told nothing.
Plain ==
  [side_set_count |-> 0, wrap_bottom |-> 0, wrap_top |-> 511,
   period_fraction |-> FALSE, capture_pin |-> 0, capture_rising |-> FALSE,
   words |-> <<>>, certificate |-> <<>>,
   loaded |-> None, floor |-> FALSE, single_edge |-> FALSE]

-----------------------------------------------------------------------------
(***************************************************************************)
(* Words.                                                                  *)
(***************************************************************************)

\* Isa.Field.extract: width bits of a word from bit lsb.
Field(word, lsb, width) == (word \div 2^lsb) % 2^width

Opcode(word) ==
  <<"jmp", "wait", "in", "out", "mov", "set", "alu", "sys">>[Field(word, 13, 3) + 1]

\* The codes a word may hold.
Valid(word) ==
  CASE Opcode(word) = "jmp" -> Field(word, 9, 4) <= 11
    [] Opcode(word) = "wait" -> Field(word, 5, 2) >= 2 => Field(word, 0, 5) = 0
    [] Opcode(word) \in {"in", "out"} -> Field(word, 0, 5) \in 1 .. 16
    [] Opcode(word) = "mov" -> Field(word, 3, 2) <= 2
    [] Opcode(word) = "set" -> Field(word, 5, 3) <= 4
    [] Opcode(word) = "alu" ->
         Field(word, 4, 2) <= 2 /\ (Field(word, 3, 1) = 1 => Field(word, 0, 3) <= 4)
    [] Opcode(word) = "sys" -> Field(word, 4, 4) = 0 /\ Field(word, 0, 4) <= 9

\* Mutant: the side-set bits are read as delay.
CyclesWithSideSet(word, side_set_count) ==
  IF Opcode(word) = "jmp" THEN 2 ELSE Field(word, 8, 5) + 1

\* A jump has no delay; side-set bits take the top of any other word's.
Cycles(word, side_set_count) ==
  IF Opcode(word) = "jmp" THEN 2 ELSE Field(word, 8, 5 - side_set_count) + 1

JumpKind(word) ==
  CASE Field(word, 9, 4) = 0 -> "always"
    [] Field(word, 9, 4) = 1 -> "x_dec"
    [] Field(word, 9, 4) = 2 -> "y_dec"
    [] Field(word, 9, 4) = 3 -> "x_ne_y"
    [] OTHER -> "jump"

\* A wait for the pin and edge of the capture is one for the captured edge, where
\* the check is told they are the same.
WaitKind(word, f) ==
  LET pin == Field(word, 5, 2) \in {0, 1}
      polarity == Field(word, 7, 1) = 1
      deadline == Field(word, 5, 2) = 2
  IN  CASE deadline /\ polarity -> "advance"
        [] deadline /\ ~polarity -> "deadline"
        [] /\ pin /\ f.single_edge
           /\ Field(word, 0, 5) = f.capture_pin /\ polarity = f.capture_rising -> "capturing"
        [] OTHER -> "wait"

OutKind(word) ==
  CASE Field(word, 5, 3) = 1 -> "writes_x"
    [] Field(word, 5, 3) = 2 -> "writes_y"
    [] Field(word, 5, 3) = 6 -> "writes_p"
    [] Field(word, 5, 3) = 7 -> "unbounded"
    [] OTHER -> "plain"

MovKind(word) ==
  LET to_t == Field(word, 5, 3) = 7
      copy == Field(word, 3, 2) = 0
  IN  CASE Field(word, 5, 3) = 1 -> "writes_x"
        [] Field(word, 5, 3) = 2 -> "writes_y"
        [] Field(word, 5, 3) = 6 -> "writes_p"
        [] to_t /\ copy /\ Field(word, 0, 3) = 6 -> "anchor"
        [] to_t /\ copy /\ Field(word, 0, 3) = 7 -> "from_capture"
        [] to_t /\ ~(copy /\ Field(word, 0, 3) \in {6, 7}) -> "unbounded"
        [] OTHER -> "plain"

SetKind(word) ==
  CASE Field(word, 5, 3) = 1 -> "set_x"
    [] Field(word, 5, 3) = 2 -> "set_y"
    [] Field(word, 5, 3) = 4 -> "set_p"
    [] OTHER -> "plain"

\* What is added to t: a literal, x, y or p; nothing else is followed.
AluTimerKind(word) ==
  LET add == Field(word, 4, 2) = 0
      sub == Field(word, 4, 2) = 1
      register == Field(word, 3, 1) = 1
  IN  CASE add /\ ~register -> "add_imm"
        [] sub /\ ~register -> "sub_imm"
        [] add /\ register /\ Field(word, 0, 3) = 0 -> "add_x"
        [] add /\ register /\ Field(word, 0, 3) = 1 -> "add_y"
        [] add /\ register /\ Field(word, 0, 3) = 2 -> "add_p"
        [] OTHER -> "unbounded"

AluKind(word) ==
  CASE Field(word, 6, 2) = 0 -> "writes_x"
    [] Field(word, 6, 2) = 1 -> "writes_y"
    [] Field(word, 6, 2) = 2 -> "writes_p"
    [] Field(word, 6, 2) = 3 -> AluTimerKind(word)

SysKind(word) ==
  CASE Field(word, 0, 4) = 1 -> "halt"
    [] Field(word, 0, 4) = 7 -> "capture_arm"
    [] OTHER -> "plain"

Kind(word, f) ==
  CASE ~Valid(word) -> "halt"
    [] Valid(word) /\ Opcode(word) = "jmp" -> JumpKind(word)
    [] Valid(word) /\ Opcode(word) = "wait" -> WaitKind(word, f)
    [] Valid(word) /\ Opcode(word) = "in" -> "plain"
    [] Valid(word) /\ Opcode(word) = "out" -> OutKind(word)
    [] Valid(word) /\ Opcode(word) = "mov" -> MovKind(word)
    [] Valid(word) /\ Opcode(word) = "set" -> SetKind(word)
    [] Valid(word) /\ Opcode(word) = "alu" -> AluKind(word)
    [] Valid(word) /\ Opcode(word) = "sys" -> SysKind(word)

Literal(word) ==
  IF Opcode(word) = "set" THEN Field(word, 0, 5) ELSE Field(word, 0, 3)

\* A word under the configuration and premises of f, and its jump's target.
Decoded(word, f) ==
  [op |-> [kind |-> Kind(word, f), cycles |-> Cycles(word, f.side_set_count),
           imm |-> Literal(word)],
   target |-> Field(word, 0, 9)]

-----------------------------------------------------------------------------
(***************************************************************************)
(* Certificates: the counts of entries and of wide intervals, the entries  *)
(* of three words, the wide intervals of three and the narrow ones of two. *)
(***************************************************************************)

\* Three words as an entry's fields, first field highest.
UnpackedEntry(a, b, c) ==
  [pc |-> Field(a, 7, 9), captured |-> Field(a, 6, 1) = 1, awaiting |-> Field(a, 5, 1) = 1,
   phase |-> Field(a, 0, 5) * 4 + Field(b, 14, 2), arm |-> Field(b, 7, 7),
   period |-> Field(b, 0, 7), x |-> Field(c, 9, 7), y |-> Field(c, 2, 7)]

\* Two bounds of 24 bits.
UnpackedWide(a, b, c) ==
  [lo |-> a * 2^8 + Field(b, 8, 8), hi |-> Field(b, 0, 8) * 2^16 + c]

Unpacked(words) ==
  LET at(n) == words[n + 1]
      entries == at(0) % 256
      wide == at(1) % 256
      wide_at == 2 + 3 * entries
      narrow_at == wide_at + 3 * wide
      narrow == (Len(words) - narrow_at) \div 2
  IN  [entries |-> [i \in 1 .. entries |->
         UnpackedEntry(at(3 * i - 1), at(3 * i), at(3 * i + 1))],
       wide |-> [i \in 1 .. wide |->
         UnpackedWide(at(wide_at + 3 * i - 3), at(wide_at + 3 * i - 2), at(wide_at + 3 * i - 1))],
       narrow |-> [i \in 1 .. narrow |->
         [lo |-> at(narrow_at + 2 * i - 2), hi |-> at(narrow_at + 2 * i - 1)]]]
=============================================================================
