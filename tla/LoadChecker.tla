----------------------------- MODULE LoadChecker -----------------------------
(***************************************************************************)
(* The load checker's walk (src/load_checker.ml): a machine that reads a   *)
(* halted engine's program and its certificate and hands every pc's rows   *)
(* to the kernel, a field at a time.  It implements LoadCheck.             *)
(*                                                                         *)
(* A step is a state of the machine left for the next one: a read's words  *)
(* and its waits are one step, and reading a field and checking it are     *)
(* one.  DataMemory has the reads' timing.  A program word is picked when  *)
(* the walk reads it, and what a walk reads holds still under it (Gate).   *)
(***************************************************************************)
EXTENDS LoadCheck

CONSTANTS
  Checks,  \* what a check may find: the instructions a program is made of, the
           \* engine's configuration and the certificate in data memory
  Again    \* bound: the checks whose walks may be aborted and others follow

ASSUME LoadCheckerAssumption ==
  /\ Checks \subseteq [instructions : SUBSET Instruction, config : Config, cert : Certificate]
  /\ Again \subseteq Checks

VARIABLES
  sm, purpose, source,         \* the state machine's states
  pc, ptr, count, word,
  stored,                      \* the entry at ptr is the next pc's
  key, lo, hi, sel,            \* the search
  entry, field,                \* the row being read
  row,                         \* the row at pc
  failed_next, failed_target,  \* the conjuncts that fail on each way
  finished, accepted, reject_pc, reason,
  image,                       \* what the walk reads
  instructions,                \* the instructions its program is made of
  held                         \* history: the row the walk held at each pc

stateVars == <<sm, purpose, source>>
placeVars == <<pc, ptr, count, word, stored>>
searchVars == <<key, lo, hi, sel>>
rowVars == <<entry, field, row, failed_next, failed_target>>
verdictVars == <<finished, accepted, reject_pc, reason>>
vars == <<stateVars, placeVars, searchVars, rowVars, verdictVars, image, instructions, held>>

Fields == <<"phase", "arm", "period", "x", "y">>

Halt == [op |-> [kind |-> "halt", cycles |-> 1, imm |-> 0], target |-> 0]

NoEntry ==
  [pc |-> 0, captured |-> FALSE, awaiting |-> FALSE,
   phase |-> 0, arm |-> 0, period |-> 0, x |-> 0, y |-> 0]

NextPc == pc + 1

FallsOn == FallsToNext(image.config, pc)

NextFollowing == Following(image.config, pc)

IsJump == word.op.kind \in Jumps

EntryAt(i) == image.cert.entries[i + 1]

\* The next entry is for a later pc.
InOrder == ptr < count => EntryAt(ptr).pc > pc

FellRow == IF Falls(word.op, row) THEN Fallen(word.op, row) ELSE EmptyRow

\* The row whose fields are checked, from the dictionaries, the empty row or the
\* fall-through image.
CheckedRow ==
  CASE source = "dictionary" -> Decode(image.cert, entry)
    [] source = "empty" -> EmptyRow
    [] source = "fallen" -> FellRow

\* Mutant: the marks are never recorded.
RecordedIntervals(f) == {f}

\* The conjuncts recorded with field f: with the last one, those that use no
\* interval.
Recorded(f) ==
  IF f = "y" THEN {"y", "offset", "captured", "awaiting"} ELSE {f}

FailsNow ==
  Failing(word.op, row, CheckedRow, purpose = "target") \cap Recorded(Fields[field + 1])

-----------------------------------------------------------------------------
(***************************************************************************)
(* Moves a state of the machine makes on its way.                          *)
(***************************************************************************)

CheckFields(from) == source' = from /\ field' = 0 /\ sm' = "field"

ReadEntry(n) == sel' = n /\ sm' = "entry"

\* The full row is at pc 0, where every conjunct holds.
StartLookup(target, then) ==
  /\ key' = target
  /\ IF target = 0 THEN sm' = then /\ UNCHANGED <<lo, hi>>
     ELSE sm' = "search" /\ lo' = 0 /\ hi' = count

Reject(at, why) ==
  /\ finished' = TRUE /\ accepted' = FALSE
  /\ reject_pc' = at /\ reason' = why
  /\ sm' = "idle"

AtEnd == pc = Size - 1

\* On to the next pc with the row r for it.
NextPcOrFinish(r) ==
  /\ ptr' = ptr + (IF stored THEN 1 ELSE 0)
  /\ IF AtEnd THEN sm' = "finish" /\ UNCHANGED <<pc, held>>
     ELSE sm' = "word" /\ pc' = NextPc /\ held' = [held EXCEPT ![NextPc] = r]

\* Where a walk goes once it has a row.
AfterRow(r) ==
  CASE purpose = "target" -> sm' = "following" /\ UNCHANGED <<pc, ptr, held>>
    [] purpose = "reload" -> NextPcOrFinish(r)
    [] OTHER -> sm' = "check_next" /\ UNCHANGED <<pc, ptr, held>>

-----------------------------------------------------------------------------
(***************************************************************************)
(* The states.                                                             *)
(***************************************************************************)

\* Mutant: the first pc keeps the last row of the walk before.
FirstRowLeft == row

\* A walk starts from the row of pc 0.
FirstRow == OpenRow

Check == [instructions |-> instructions, config |-> image.config, cert |-> image.cert]

FirstWalk == ~accepted /\ reason = NoReason

\* A check begins on whatever memory holds; nothing the last walk left is used,
\* but for the words and rows a walk writes before it reads them.
Begin ==
  /\ sm = "idle"
  /\ \E c \in IF Check \in Again THEN Again ELSE {x \in {Check} : FirstWalk} :
       /\ image' = [words |-> [p \in Pcs |-> Halt], config |-> c.config, cert |-> c.cert]
       /\ instructions' = c.instructions
  /\ sm' = "header" /\ purpose' = "target" /\ source' = "dictionary"
  /\ pc' = 0 /\ ptr' = 0 /\ count' = 0 /\ stored' = FALSE
  /\ key' = 0 /\ lo' = 0 /\ hi' = 0 /\ sel' = 0 /\ field' = 0
  /\ row' = FirstRow
  /\ finished' = FALSE /\ accepted' = FALSE /\ reject_pc' = 0 /\ reason' = NoReason
  /\ held' = [p \in Pcs |-> OpenRow]
  /\ UNCHANGED <<word, entry, failed_next, failed_target>>

Header ==
  /\ sm = "header"
  /\ count' = Len(image.cert.entries)
  /\ sm' = "word"
  /\ UNCHANGED <<purpose, source, pc, ptr, word, stored, searchVars, rowVars,
                 verdictVars, image, held, instructions>>

ReadWord ==
  /\ sm = "word"
  /\ word' \in instructions
  /\ image' = [image EXCEPT !.words[pc] = word']
  /\ failed_next' = {} /\ failed_target' = {}
  /\ sm' = "head"
  /\ UNCHANGED <<purpose, source, pc, ptr, count, stored, searchVars, entry, field, row,
                 verdictVars, held, instructions>>

HeadInOrder ==
  /\ sm = "head" /\ InOrder
  /\ stored' = (ptr < count /\ EntryAt(ptr).pc = NextPc)
  /\ sm' = "target"
  /\ UNCHANGED <<purpose, source, pc, ptr, count, word, searchVars, rowVars,
                 verdictVars, image, held, instructions>>

HeadOutOfOrder ==
  /\ sm = "head" /\ ~InOrder
  /\ stored' = (EntryAt(ptr).pc = NextPc)
  /\ Reject(pc, <<"walk", "out_of_order">>)
  /\ UNCHANGED <<purpose, source, pc, ptr, count, word, searchVars, rowVars, image, held, instructions>>

Target ==
  /\ sm = "target"
  /\ IF IsJump THEN purpose' = "target" /\ StartLookup(word.target, "following")
     ELSE sm' = "following" /\ UNCHANGED <<purpose, key, lo, hi>>
  /\ UNCHANGED <<source, placeVars, sel, rowVars, verdictVars, image, held, instructions>>

SearchMissed ==
  /\ sm = "search" /\ lo >= hi
  /\ CheckFields("empty")
  /\ UNCHANGED <<purpose, placeVars, searchVars, entry, row, failed_next, failed_target,
                 verdictVars, image, held, instructions>>

\* Mutant: the search goes on at the entry it has just seen.
AboveSame(mid) == mid

Above(mid) == mid + 1

Search ==
  /\ sm = "search" /\ lo < hi
  /\ LET mid == (lo + hi) \div 2
         tag == EntryAt(mid).pc
     IN  \/ tag = key /\ ReadEntry(mid) /\ UNCHANGED <<lo, hi>>
         \/ tag < key /\ lo' = Above(mid) /\ UNCHANGED <<hi, sel, sm>>
         \/ tag > key /\ hi' = mid /\ UNCHANGED <<lo, sel, sm>>
  /\ UNCHANGED <<purpose, source, placeVars, key, rowVars, verdictVars, image, held, instructions>>

\* A reloaded row starts full.
ReadsEntry ==
  /\ sm = "entry"
  /\ entry' = EntryAt(sel)
  /\ row' = IF purpose = "reload"
            THEN [OpenRow EXCEPT !.captured = entry'.captured,
                                 !.awaiting = entry'.awaiting]
            ELSE row
  /\ CheckFields("dictionary")
  /\ UNCHANGED <<purpose, placeVars, searchVars, failed_next, failed_target, verdictVars,
                 image, held, instructions>>

\* A field is read and checked.
CheckField ==
  /\ sm = "field" /\ purpose # "reload"
  /\ IF purpose = "target"
     THEN /\ failed_target' = (failed_target \ Recorded(Fields[field + 1])) \cup FailsNow
          /\ UNCHANGED failed_next
     ELSE /\ failed_next' = (failed_next \ Recorded(Fields[field + 1])) \cup FailsNow
          /\ UNCHANGED failed_target
  /\ field' = field + 1
  /\ IF field = 4 THEN AfterRow(row) ELSE UNCHANGED <<sm, pc, ptr, held>>
  /\ UNCHANGED <<purpose, source, count, word, stored, searchVars, entry, row,
                 verdictVars, image, instructions>>

\* A reloaded field; index 0 leaves it full.
ReloadField ==
  /\ sm = "field" /\ purpose = "reload" /\ field < 5
  /\ row' = IF entry[Fields[field + 1]] = 0 THEN row
            ELSE [row EXCEPT ![Fields[field + 1]] =
                               Interval(image.cert, entry, Fields[field + 1])]
  /\ field' = field + 1
  /\ UNCHANGED <<stateVars, placeVars, searchVars, entry, failed_next, failed_target,
                 verdictVars, image, held, instructions>>

Reloaded ==
  /\ sm = "field" /\ purpose = "reload" /\ field = 5
  /\ AfterRow(row)
  /\ UNCHANGED <<purpose, source, count, word, stored, searchVars, rowVars, verdictVars,
                 image, instructions>>

FollowingRow ==
  /\ sm = "following"
  /\ CASE FallsOn /\ stored ->
            purpose' = "stored" /\ ReadEntry(ptr) /\ UNCHANGED <<source, key, lo, hi, field>>
       [] FallsOn /\ ~stored ->
            purpose' = "fallen" /\ CheckFields("fallen") /\ UNCHANGED searchVars
       [] OTHER ->
            /\ purpose' = "following" /\ StartLookup(NextFollowing, "check_next")
            /\ UNCHANGED <<source, sel, field>>
  /\ UNCHANGED <<placeVars, entry, row, failed_next, failed_target, verdictVars, image,
                 held, instructions>>

Refuses == ~InTime(word.op, row) \/ failed_next # {} \/ failed_target # {}

CheckNextRejects ==
  /\ sm = "check_next" /\ Refuses
  /\ Reject(pc, CASE ~InTime(word.op, row) -> <<"word", "in_time">>
                  [] InTime(word.op, row) /\ failed_next # {} ->
                       <<"next", First(failed_next)>>
                  [] OTHER -> <<"target", First(failed_target)>>)
  /\ UNCHANGED <<purpose, source, placeVars, searchVars, rowVars, image, held, instructions>>

CheckNext ==
  /\ sm = "check_next" /\ ~Refuses
  /\ IF stored
     THEN /\ purpose' = "reload" /\ ReadEntry(ptr)
          /\ UNCHANGED <<pc, ptr, row, held>>
     ELSE /\ row' = IF FallsOn THEN FellRow ELSE EmptyRow
          /\ NextPcOrFinish(row')
          /\ UNCHANGED <<purpose, sel>>
  /\ UNCHANGED <<source, count, word, stored, key, lo, hi, entry, field, failed_next,
                 failed_target, verdictVars, image, instructions>>

\* Every entry was some pc's row.
AllTaken == ptr = count

Finish ==
  /\ sm = "finish"
  /\ IF AllTaken
     THEN /\ finished' = TRUE /\ accepted' = TRUE /\ sm' = "idle"
          /\ UNCHANGED <<reject_pc, reason>>
     ELSE Reject(Size, <<"walk", "left_over">>)
  /\ UNCHANGED <<purpose, source, placeVars, searchVars, rowVars, image, held, instructions>>

\* The engines end a walk that something disturbs (engines.ml: abort).
Abort ==
  /\ Check \in Again /\ sm # "idle"
  /\ Reject(pc, <<"walk", "aborted">>)
  /\ UNCHANGED <<purpose, source, placeVars, searchVars, rowVars, image, held, instructions>>

\* finished is a strobe, and the machine waits.
Rest ==
  /\ sm = "idle"
  /\ finished' = FALSE
  /\ UNCHANGED <<stateVars, placeVars, searchVars, rowVars, accepted, reject_pc, reason,
                 image, held, instructions>>

Init ==
  /\ sm = "idle" /\ purpose = "target" /\ source = "dictionary"
  /\ pc = 0 /\ ptr = 0 /\ count = 0 /\ word = Halt /\ stored = FALSE
  /\ key = 0 /\ lo = 0 /\ hi = 0 /\ sel = 0
  /\ entry = NoEntry /\ field = 0 /\ row = OpenRow
  /\ failed_next = {} /\ failed_target = {}
  /\ finished = FALSE /\ accepted = FALSE /\ reject_pc = 0 /\ reason = NoReason
  /\ \E c \in Checks :
       /\ image = [words |-> [p \in Pcs |-> Halt], config |-> c.config, cert |-> c.cert]
       /\ instructions = c.instructions
  /\ held = [p \in Pcs |-> OpenRow]

Walk ==
  \/ Header \/ ReadWord \/ HeadInOrder \/ HeadOutOfOrder \/ Target \/ SearchMissed \/ Search
  \/ ReadsEntry \/ CheckField \/ ReloadField \/ Reloaded \/ FollowingRow
  \/ CheckNextRejects \/ CheckNext \/ Finish

Next == Begin \/ Walk \/ Abort \/ Rest

\* The clock does not stop.
Spec == Init /\ [][Next]_vars /\ WF_vars(Walk)

-----------------------------------------------------------------------------
\* A walk's verdict, and the pc and reason of a rejection, are those of the
\* load check's model (load_check.ml: walk), whatever an earlier walk left.
AgreesWithModel ==
  finished /\ reason # <<"walk", "aborted">> =>
    [accepted |-> accepted, reject_pc |-> reject_pc, reason |-> reason] = Verdict(image)

\* An accepted walk held, at every pc, a row that the kernel accepts against the
\* rows held where the pc's ways out lead: those of later pcs too, which it had
\* only looked up (formal/certify.sv; load_checker.ml: Head, Search, Finish).
AcceptedIsSound == accepted => Sound(image.words, image.config, held)

\* A walk ends, though the entries it searches may be in any order.
WalkEnds == sm # "idle" ~> finished
=============================================================================
