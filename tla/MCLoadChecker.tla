---------------------------- MODULE MCLoadChecker ----------------------------
(***************************************************************************)
(* The load checker for TLC.                                               *)
(***************************************************************************)
EXTENDS LoadChecker

Op(kind, cycles, imm) == [kind |-> kind, cycles |-> cycles, imm |-> imm]
At(op, target) == [op |-> op, target |-> target]

To(from, to) == [lo |-> from, hi |-> to]

Wrap(top, bottom) == [wrap_top |-> top, wrap_bottom |-> bottom]

EntryOf(p, phase, x) == [NoEntry EXCEPT !.pc = p, !.phase = phase, !.x = x]

UpTo(n, S) == UNION {[1 .. k -> S] : k \in 0 .. n}

Dictionaries(entries, wide, narrow) ==
  {[entries |-> s, wide |-> wide, narrow |-> narrow] : s \in entries}

NothingLoaded == [valid |-> FALSE, value |-> 0, floor |-> FALSE]

Found(words, configs, certs) ==
  {[instructions |-> words, config |-> f, cert |-> c] : f \in configs, c \in certs}

\* Tables in any order, for jumps to pcs with and without an entry.
OrderChecks ==
  Found({At(Op("anchor", 1, 0), 0), At(Op("add_imm", 1, 3), 0), At(Op("deadline", 1, 0), 0),
         At(Op("always", 2, 0), 0), At(Op("always", 2, 0), 2), At(Op("jump", 2, 0), 1)},
        {Wrap(3, 0), Wrap(2, 1)},
        Dictionaries(UpTo(2, {EntryOf(p, i, 0) : p \in 0 .. 3, i \in {0, 1}}),
                     <<To(6, 0), To(6, 0)>>, <<To(0, 0), To(0, 0)>>))

\* One entry with the fields that a class of word reads.
FieldCertificates(phase, arm, period, y, marks) ==
  Dictionaries(UpTo(1, [pc : {1}, captured : marks, awaiting : marks,
                        phase : phase, arm : arm, period : period, x : {0}, y : y]),
               <<To(6, 1), To(1, 1)>>, <<To(1, 1), To(1, 1)>>)

CaptureChecks ==
  Found({At(Op("capture_arm", 1, 0), 0), At(Op("capturing", 1, 0), 0),
         At(Op("from_capture", 1, 0), 0), At(Op("jump", 2, 0), 1)},
        {Wrap(2, 1)}, FieldCertificates({0, 1}, {0, 2}, {0}, {0}, BOOLEAN))

PeriodChecks ==
  Found({At(Op("set_p", 1, 1), 0), At(Op("add_p", 1, 0), 0), At(Op("anchor", 1, 0), 0),
         At(Op("jump", 2, 0), 1)},
        {Wrap(2, 1)}, FieldCertificates({0, 1}, {0}, {0, 1}, {0}, {FALSE}))

CounterChecks ==
  Found({At(Op("set_y", 1, 1), 0), At(Op("x_ne_y", 2, 0), 1), At(Op("y_dec", 2, 0), 1)},
        {Wrap(2, 1)}, FieldCertificates({0}, {0}, {0}, {0, 1}, {FALSE}))

\* A few words from an idle machine that an abort or a rejection left anywhere.
AgainChecks ==
  Found({At(Op("anchor", 1, 0), 0), At(Op("add_imm", 1, 3), 0),
         At(Op("deadline", 1, 0), 0), At(Op("jump", 2, 0), 2)},
        {Wrap(2, 1)},
        Dictionaries(UpTo(2, {EntryOf(p, 1, 0) : p \in {1, 2}}), <<To(6, 0), To(6, 0)>>,
                     <<To(0, 0), To(0, 0)>>))

AllChecks == OrderChecks \cup CaptureChecks \cup PeriodChecks \cup CounterChecks \cup AgainChecks
=============================================================================
