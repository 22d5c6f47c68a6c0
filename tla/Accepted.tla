------------------------------ MODULE Accepted ------------------------------
(***************************************************************************)
(* A core that runs one program: engine.ml's pc over Kernel_step.step,     *)
(* under a table of rows for the program's pcs.  It is Kernel with its     *)
(* choices made: the word is the program's at the core's pc and the row    *)
(* the table's, where Kernel picks any word and any row that the kernel    *)
(* accepts there.  Of a table that the load check found sound              *)
(* (LoadCheck!Certified) it makes only choices that Kernel has.            *)
(***************************************************************************)
EXTENDS Kernel, LoadCheck

CONSTANTS
  words,   \* the program memory
  config,  \* the core's configuration
  table    \* the row held at every pc

VARIABLE pc

programVars == <<vars, pc>>

Op == words[pc].op

ProgramInit == Init /\ pc = 0

\* The core goes to pc p and is under its row.
Enters(p) ==
  /\ pc' = p
  /\ row' = table[p]

\* A word that does not jump goes on; the last pc of a loop goes on to its first.
GoesOn ==
  /\ Op.kind \notin Jumps \cup {"halt"}
  /\ Executes(Op)
  /\ Enters(Following(config, pc))

\* A jump falls through to where the word goes on to, or is taken.
FallsThrough ==
  /\ Op.kind \in Jumps /\ CoreFalls(Op)
  /\ Executes(Op)
  /\ Enters(Following(config, pc))

TakesJump ==
  /\ Op.kind \in Jumps /\ CoreTakes(Op)
  /\ Executes(Op)
  /\ Enters(words[pc].target)

\* The core halts or is stopped, and is started again.
StartsAgain ==
  /\ Restart
  /\ pc' = 0

ProgramNext == GoesOn \/ FallsThrough \/ TakesJump \/ StartsAgain

ProgramSpec == ProgramInit /\ [][ProgramNext]_programVars
=============================================================================
