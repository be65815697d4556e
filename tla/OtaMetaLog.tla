----------------------------- MODULE OtaMetaLog -----------------------------
(***************************************************************************)
(* The boot metadata log, components/ota/include/ota/meta_log.hpp over     *)
(* platform/src/stm32/ota_meta_flash.cpp and internal_flash.cpp: an        *)
(* append-only log of CRC-protected records in two erasable flash areas.   *)
(* The newest valid record is the state; a full area ping-pongs into the   *)
(* other one, which is erased first.                                       *)
(*                                                                         *)
(* A record slot of the flash is blank (all 0xFF), torn (anything whose    *)
(* CRC does not match) or valid.  Erasing and programming are not atomic:  *)
(* each takes several steps, the power may go between any two of them, and *)
(* the flash controller may report a failure.                              *)
(***************************************************************************)
EXTENDS Naturals

CONSTANTS States,       \* logical contents of a record, OtaMetaState
          Default,      \* OtaMetaState{}: slot A active and VALID, slot B EMPTY
          NoWrite,      \* stands for "no append under way"
          SlotCount,    \* SLOT_COUNT_PER_AREA
          CounterMax    \* bound on the record counter (2^32 - 1 in the code)

ASSUME MetaLogAssumption ==
    /\ Default \in States
    /\ NoWrite \notin States
    /\ SlotCount \in Nat \ {0}
    /\ CounterMax \in Nat

VARIABLES log,      \* the flash: area -> record slot -> cell
          pc,       \* where append() stands
          target,   \* <<area, slot>> the record goes to
          record,   \* the record append() builds
          pending,  \* the state append() was given, NoWrite when none runs
          result    \* what the last append() returned, "cut" by a power loss

vars == <<log, pc, target, record, pending, result>>

Areas == 0 .. 1
RecordSlots == 0 .. SlotCount - 1

BlankCell == [kind |-> "blank", counter |-> 0, state |-> Default]
TornCell == [kind |-> "torn", counter |-> 0, state |-> Default]
ValidCell(c, s) == [kind |-> "valid", counter |-> c, state |-> s]

Cells == [kind : {"blank", "torn", "valid"}, counter : Nat, state : States]

-----------------------------------------------------------------------------
(* scanAreas(): the valid record with the highest counter.                 *)

Valid(a, i) == log[a][i].kind = "valid"

Found == \E a \in Areas, i \in RecordSlots : Valid(a, i)

IsNewest(a, i) ==
    /\ Valid(a, i)
    /\ \A b \in Areas, j \in RecordSlots :
         Valid(b, j) => log[b][j].counter <= log[a][i].counter

Newest == CHOOSE at \in Areas \X RecordSlots : IsNewest(at[1], at[2])

NewestCell == log[Newest[1]][Newest[2]]

(* read(): the newest record's content, the defaults when there is none.   *)
Current == IF Found THEN NewestCell.state ELSE Default

(* firstBlankSlot(): torn cells are skipped, never written again.          *)
FirstBlank(a, i) ==
    /\ log[a][i].kind = "blank"
    /\ \A j \in RecordSlots : j < i => log[a][j].kind # "blank"

AreaFull(a) == \A i \in RecordSlots : log[a][i].kind # "blank"

-----------------------------------------------------------------------------
Init == /\ log = [a \in Areas |-> [i \in RecordSlots |-> BlankCell]]
        /\ pc = "idle"
        /\ target = <<0, 0>>
        /\ record = BlankCell
        /\ pending = NoWrite
        /\ result = "none"

AppendArea == IF Found THEN Newest[1] ELSE 0

(* append() down to its first write to the flash: the record goes to the   *)
(* first blank slot of the newest record's area, or to the start of the    *)
(* other area, erased first, when there is none left or when reading that  *)
(* area failed.  A blank-looking virgin log is erased as well.             *)
AppendInPlace ==
    \E i \in RecordSlots :
        /\ FirstBlank(AppendArea, i)
        /\ target' = <<AppendArea, i>>
        /\ pc' = IF ~Found /\ i = 0 THEN "erase" ELSE "program"

\* Mutant: the area that is full is erased instead of the other one.
MutAppendElsewhere(readFails) ==
    /\ AreaFull(AppendArea) \/ readFails
    /\ target' = <<AppendArea, 0>>
    /\ pc' = "erase"

AppendElsewhere(readFails) ==
    /\ AreaFull(AppendArea) \/ readFails
    /\ target' = <<1 - AppendArea, 0>>
    /\ pc' = "erase"

\* Mutant: the counter of a new record repeats the newest one.
MutNextCounter == IF Found THEN NewestCell.counter ELSE 1

NextCounter == IF Found THEN NewestCell.counter + 1 ELSE 1

Append(s) ==
    /\ pc = "idle"
    /\ NextCounter <= CounterMax
    /\ record' = ValidCell(NextCounter, s)
    /\ pending' = s
    /\ result' = "busy"
    /\ \/ AppendInPlace
       \/ \E readFails \in BOOLEAN : AppendElsewhere(readFails)
    /\ UNCHANGED log

(* append() whose scan of the areas fails touches nothing.                 *)
AppendScanFails ==
    /\ pc = "idle"
    /\ result' = "failed"
    /\ UNCHANGED <<log, pc, target, record, pending>>

(* eraseSector() under way: one cell of the area at a time, in any order,  *)
(* half erased or wholly erased.                                           *)
EraseStep ==
    /\ pc = "erase"
    /\ \E i \in RecordSlots, c \in {BlankCell, TornCell} :
         /\ log[target[1]][i].kind # "blank"
         /\ log' = [log EXCEPT ![target[1]][i] = c]
    /\ UNCHANGED <<pc, target, record, pending, result>>

(* eraseSector() answers true only once the whole area reads blank.        *)
EraseDone ==
    /\ pc = "erase"
    /\ \A i \in RecordSlots : log[target[1]][i].kind = "blank"
    /\ pc' = "program"
    /\ UNCHANGED <<log, target, record, pending, result>>

(* program(): the first words land, then the last one completes the CRC.   *)
ProgramStep ==
    /\ pc = "program"
    /\ log' = [log EXCEPT ![target[1]][target[2]] = TornCell]
    /\ pc' = "programming"
    /\ UNCHANGED <<target, record, pending, result>>

ProgramLastWord ==
    /\ pc = "programming"
    /\ log' = [log EXCEPT ![target[1]][target[2]] = record]
    /\ pc' = "done"
    /\ UNCHANGED <<target, record, pending, result>>

Stop(r) == /\ pc' = "idle"
           /\ pending' = NoWrite
           /\ result' = r
           /\ UNCHANGED <<log, target, record>>

AppendReturns == pc = "done" /\ Stop("ok")

(* A flash error ends the append wherever it stands; after the last word   *)
(* the controller may still report one.                                    *)
AppendFails == pc # "idle" /\ Stop("failed")

(* The power goes; the next life starts from the flash alone.              *)
PowerCut == pc # "idle" /\ Stop("cut")

Next == \/ \E s \in States : Append(s)
        \/ AppendScanFails
        \/ EraseStep
        \/ EraseDone
        \/ ProgramStep
        \/ ProgramLastWord
        \/ AppendReturns
        \/ AppendFails
        \/ PowerCut

Spec == Init /\ [][Next]_vars

-----------------------------------------------------------------------------
TypeOK == /\ log \in [Areas -> [RecordSlots -> Cells]]
          /\ pc \in {"idle", "erase", "program", "programming", "done"}
          /\ target \in Areas \X RecordSlots
          /\ record \in Cells
          /\ pending \in States \cup {NoWrite}
          /\ result \in {"none", "busy", "ok", "failed", "cut"}

\* scanAreas() has exactly one answer: when there is a valid record there is
\* a newest one, and no two valid records carry the same counter.
NewestIsUnique ==
    /\ Found => \E a \in Areas, i \in RecordSlots : IsNewest(a, i)
    /\ \A a, b \in Areas, i, j \in RecordSlots :
         Valid(a, i) /\ Valid(b, j) /\ log[a][i].counter = log[b][j].counter
            => a = b /\ i = j

\* The area append() erases never holds the newest valid record, and the
\* cell it programs holds no record: up to the last word of the new record
\* the state a reset would read is the one that was there before.
NewestOutOfReach ==
    /\ pc = "erase" => \A i \in RecordSlots : ~IsNewest(target[1], i)
    /\ pc = "program" => log[target[1]][target[2]].kind = "blank"
    /\ pc = "programming" => log[target[1]][target[2]].kind = "torn"

\* The record being written is newer than every record in the flash until
\* it is in the flash, and then it is the newest one.
RecordIsNext ==
    /\ pc # "idle" => /\ record.kind = "valid"
                      /\ pending \in States
                      /\ record.state = pending
    /\ pc \in {"erase", "program", "programming"} =>
         \A a \in Areas, i \in RecordSlots :
            Valid(a, i) => log[a][i].counter < record.counter
    /\ pc = "done" => /\ log[target[1]][target[2]] = record
                      /\ IsNewest(target[1], target[2])
    /\ pc = "idle" <=> pending = NoWrite

\* The inductive invariant.
LogInv == TypeOK /\ NewestIsUnique /\ NewestOutOfReach /\ RecordIsNext

\* The log is an atomic register: whatever is cut or fails, and wherever, a
\* read returns the old state or the new one, and an append that returned
\* true is what a read returns.
Register == INSTANCE MetaRegister WITH stored <- Current
RegisterSpec == Register!Spec
=============================================================================
