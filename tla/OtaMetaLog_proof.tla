--------------------------- MODULE OtaMetaLog_proof ---------------------------
(***************************************************************************)
(* The metadata log implements an atomic register, for any number of       *)
(* record slots per area and any set of states.                            *)
(***************************************************************************)
EXTENDS OtaMetaLog, TLAPS

\* The CHOOSE of scanAreas() is determined: any newest record is Newest.
LEMMA NewestIs ==
    LogInv => \A a \in Areas, i \in RecordSlots :
                IsNewest(a, i) => /\ Found
                                  /\ Newest = <<a, i>>
                                  /\ Current = log[a][i].state
  <1> SUFFICES ASSUME LogInv, NEW a \in Areas, NEW i \in RecordSlots, IsNewest(a, i)
               PROVE  Found /\ Newest = <<a, i>> /\ Current = log[a][i].state
      OBVIOUS
  <1>1. Found
      BY DEF Found, IsNewest
  <1>2. <<a, i>> \in Areas \X RecordSlots /\ IsNewest(<<a, i>>[1], <<a, i>>[2])
      OBVIOUS
  <1>3. Newest \in Areas \X RecordSlots /\ IsNewest(Newest[1], Newest[2])
      BY <1>2 DEF Newest
  <1>4. PICK b \in Areas, j \in RecordSlots : Newest = <<b, j>> /\ IsNewest(b, j)
      BY <1>3
  <1>5. /\ log[a][i].counter \in Nat
        /\ log[b][j].counter \in Nat
      BY DEF LogInv, TypeOK, Cells
  <1>6. log[a][i].counter = log[b][j].counter
      BY <1>4, <1>5 DEF IsNewest
  <1>7. a = b /\ i = j
      BY <1>4, <1>6 DEF LogInv, NewestIsUnique, IsNewest
  <1> QED
      BY <1>1, <1>4, <1>7 DEF Current, NewestCell

\* The same fact in the next state.
LEMMA NewestIsNext ==
    (LogInv => \A a \in Areas, i \in RecordSlots :
                 IsNewest(a, i) => /\ Found
                                   /\ Newest = <<a, i>>
                                   /\ Current = log[a][i].state)'
  BY NewestIs, PTL

\* A non-empty log has its newest record where Newest says.
LEMMA NewestExists ==
    LogInv /\ Found => /\ Newest \in Areas \X RecordSlots
                       /\ IsNewest(Newest[1], Newest[2])
                       /\ NewestCell.counter \in Nat
                       /\ Current = NewestCell.state
  <1> SUFFICES ASSUME LogInv, Found
               PROVE  /\ Newest \in Areas \X RecordSlots
                      /\ IsNewest(Newest[1], Newest[2])
                      /\ NewestCell.counter \in Nat
                      /\ Current = NewestCell.state
      OBVIOUS
  <1>1. PICK a \in Areas, i \in RecordSlots : IsNewest(a, i)
      BY DEF LogInv, NewestIsUnique
  <1>2. Newest = <<a, i>>
      BY <1>1, NewestIs
  <1> QED
      BY <1>1, <1>2 DEF LogInv, TypeOK, Cells, NewestCell, Current

\* A step that leaves the newest record newest leaves what a read returns.
LEMMA SameNewestSameState ==
    ASSUME LogInv, LogInv', Found' <=> Found,
           \A b \in Areas, j \in RecordSlots : IsNewest(b, j)' <=> IsNewest(b, j),
           \A b \in Areas, j \in RecordSlots :
             Valid(b, j)' => Valid(b, j) /\ log'[b][j] = log[b][j]
    PROVE  Current' = Current
  <1>1. CASE Found
    <2>1. PICK d \in Areas, k \in RecordSlots : IsNewest(d, k)
        BY <1>1 DEF LogInv, NewestIsUnique
    <2>2. IsNewest(d, k)' /\ log'[d][k] = log[d][k]
        BY <2>1 DEF IsNewest
    <2>4. Current' = log'[d][k].state
        BY <2>2, NewestIsNext
    <2> QED
        BY <2>1, <2>2, <2>4, NewestIs
  <1>2. CASE ~Found
      BY <1>2 DEF Current
  <1> QED
      BY <1>1, <1>2

LEMMA NextCounterIsNext ==
    LogInv => /\ NextCounter \in Nat
              /\ \A a \in Areas, i \in RecordSlots :
                   Valid(a, i) => log[a][i].counter < NextCounter
  <1> SUFFICES ASSUME LogInv
               PROVE  /\ NextCounter \in Nat
                      /\ \A a \in Areas, i \in RecordSlots :
                           Valid(a, i) => log[a][i].counter < NextCounter
      OBVIOUS
  <1>1. CASE Found
    <2>1. PICK b \in Areas, j \in RecordSlots : IsNewest(b, j)
        BY <1>1 DEF LogInv, NewestIsUnique
    <2>2. NextCounter = log[b][j].counter + 1
        BY <1>1, <2>1, NewestIs DEF NextCounter, NewestCell
    <2>3. \A a \in Areas, i \in RecordSlots : log[a][i].counter \in Nat
        BY DEF LogInv, TypeOK, Cells
    <2> QED
        BY <2>1, <2>2, <2>3 DEF IsNewest
  <1>2. CASE ~Found
      BY <1>2 DEF NextCounter, Found
  <1> QED
      BY <1>1, <1>2

LEMMA LogInit == Init => LogInv
  BY MetaLogAssumption DEF Init, LogInv, TypeOK, NewestIsUnique, NewestOutOfReach,
     RecordIsNext, Found, IsNewest, Valid, Areas, RecordSlots, Cells, BlankCell

-----------------------------------------------------------------------------
(* The invariant is inductive: one lemma per action that touches the log.  *)

LEMMA AppendKeeps ==
    ASSUME LogInv, NEW s \in States, Append(s)
    PROVE  LogInv'
  <1>1. NextCounter \in Nat /\ \A a \in Areas, i \in RecordSlots :
                                  Valid(a, i) => log[a][i].counter < NextCounter
      BY NextCounterIsNext
  <1>2. AppendArea \in Areas
      BY NewestExists DEF AppendArea, Areas
  <1>3. target' \in Areas \X RecordSlots /\ pc' \in {"erase", "program"}
    <2>1. 0 \in RecordSlots /\ 1 - AppendArea \in Areas
        BY <1>2, MetaLogAssumption DEF RecordSlots, Areas
    <2>2. CASE AppendInPlace
        BY <2>2, <1>2 DEF AppendInPlace
    <2>3. CASE \E readFails \in BOOLEAN : AppendElsewhere(readFails)
        BY <2>1, <2>3 DEF AppendElsewhere
    <2> QED
        BY <2>2, <2>3 DEF Append
  <1>4. record' \in Cells /\ record'.kind = "valid" /\ record'.counter = NextCounter
        /\ record'.state = s /\ pending' = s /\ result' = "busy" /\ log' = log
      BY <1>1 DEF Append, ValidCell, Cells
  <1>5. TypeOK'
      BY <1>3, <1>4 DEF LogInv, TypeOK
  <1>6. NewestIsUnique'
      BY <1>4 DEF LogInv, NewestIsUnique, Found, IsNewest, Valid
  <1>7. pc' = "erase" => \A i \in RecordSlots : ~IsNewest(target'[1], i)
    <2>1. CASE AppendInPlace
      <3> SUFFICES ASSUME pc' = "erase", NEW i \in RecordSlots
                   PROVE  ~IsNewest(target'[1], i)
          OBVIOUS
      <3>1. ~Found /\ target'[1] \in Areas
          BY <2>1, <1>2 DEF AppendInPlace
      <3> QED
          BY <3>1 DEF Found, IsNewest
    <2>2. CASE \E readFails \in BOOLEAN : AppendElsewhere(readFails)
      <3>1. target'[1] = 1 - AppendArea
          BY <2>2 DEF AppendElsewhere
      <3>2. CASE Found
        <4>1. AppendArea = Newest[1]
            BY <3>2 DEF AppendArea
        <4>2. SUFFICES ASSUME NEW i \in RecordSlots, IsNewest(target'[1], i)
                       PROVE  FALSE
            OBVIOUS
        <4>3. Newest = <<target'[1], i>>
            BY <1>3, <4>2, NewestIs
        <4> QED
            BY <3>1, <4>1, <4>3, <1>2 DEF Areas
      <3>3. CASE ~Found
          BY <3>3, <1>3 DEF Found, IsNewest
      <3> QED
          BY <3>2, <3>3
    <2> QED
        BY <2>1, <2>2 DEF Append
  <1>8. pc' = "program" => log[target'[1]][target'[2]].kind = "blank"
    <2>1. CASE AppendInPlace
        BY <2>1 DEF AppendInPlace, FirstBlank
    <2>2. CASE \E readFails \in BOOLEAN : AppendElsewhere(readFails)
        BY <2>2 DEF AppendElsewhere
    <2> QED
        BY <2>1, <2>2 DEF Append
  <1>9. NewestOutOfReach'
      BY <1>3, <1>4, <1>7, <1>8 DEF NewestOutOfReach, IsNewest, Valid
  <1>10. RecordIsNext'
      BY <1>1, <1>3, <1>4, MetaLogAssumption DEF RecordIsNext, Valid
  <1> QED
      BY <1>5, <1>6, <1>9, <1>10 DEF LogInv

\* Erasing a cell of an area that does not hold the newest record, or
\* writing over a cell that holds none, moves neither the newest record nor
\* what a read returns.
LEMMA OverwriteKeeps ==
    ASSUME LogInv, NEW a \in Areas, NEW i \in RecordSlots, NEW c \in Cells,
           c.kind # "valid", ~IsNewest(a, i),
           log' = [log EXCEPT ![a][i] = c]
    PROVE  /\ NewestIsUnique'
           /\ \A b \in Areas, j \in RecordSlots : IsNewest(b, j)' <=> IsNewest(b, j)
           /\ Found' <=> Found
           /\ \A b \in Areas, j \in RecordSlots :
                Valid(b, j)' => Valid(b, j) /\ log'[b][j] = log[b][j]
           /\ log' \in [Areas -> [RecordSlots -> Cells]]
  <1>1. log \in [Areas -> [RecordSlots -> Cells]]
      BY DEF LogInv, TypeOK
  <1>2. log' \in [Areas -> [RecordSlots -> Cells]]
      BY <1>1
  <1>3. \A b \in Areas, j \in RecordSlots :
          log'[b][j] = IF b = a /\ j = i THEN c ELSE log[b][j]
      BY <1>1
  <1>4. \A b \in Areas, j \in RecordSlots :
          Valid(b, j)' => Valid(b, j) /\ log'[b][j] = log[b][j]
      BY <1>3 DEF Valid
  <1>5. \A b \in Areas, j \in RecordSlots : IsNewest(b, j) => IsNewest(b, j)'
      BY <1>3, <1>4 DEF IsNewest, Valid
  <1>6. ASSUME NEW b \in Areas, NEW j \in RecordSlots, IsNewest(b, j)'
        PROVE  IsNewest(b, j)
    <2>1. Valid(b, j) /\ log'[b][j] = log[b][j]
        BY <1>4, <1>6 DEF IsNewest
    <2>2. PICK d \in Areas, k \in RecordSlots : IsNewest(d, k)
        BY <2>1 DEF LogInv, NewestIsUnique, Found
    <2>3. IsNewest(d, k)'
        BY <1>5, <2>2
    <2>4. log[b][j].counter = log[d][k].counter
      <3>1. log'[d][k] = log[d][k]
          BY <2>3, <1>4 DEF IsNewest
      <3>2. log[b][j].counter \in Nat /\ log[d][k].counter \in Nat
          BY <1>1 DEF Cells
      <3>3. log[b][j].counter <= log[d][k].counter
          BY <2>1, <2>2 DEF IsNewest
      <3>4. log[d][k].counter <= log[b][j].counter
          BY <2>1, <2>3, <3>1, <1>6 DEF IsNewest
      <3> QED
          BY <3>2, <3>3, <3>4
    <2>5. b = d /\ j = k
        BY <2>1, <2>2, <2>4 DEF LogInv, NewestIsUnique, IsNewest
    <2> QED
        BY <2>2, <2>5
  <1>7. Found' <=> Found
    <2>1. Found' => Found
        BY <1>4 DEF Found
    <2>2. ASSUME Found PROVE Found'
        BY <1>5, <2>2 DEF LogInv, NewestIsUnique, Found, IsNewest
    <2> QED
        BY <2>1, <2>2
  <1>8. NewestIsUnique'
    <2>1. Found' => \E b \in Areas, j \in RecordSlots : IsNewest(b, j)'
        BY <1>5, <1>7 DEF LogInv, NewestIsUnique
    <2>2. \A b, d \in Areas, j, k \in RecordSlots :
            Valid(b, j)' /\ Valid(d, k)' /\ log'[b][j].counter = log'[d][k].counter
              => b = d /\ j = k
        BY <1>4 DEF LogInv, NewestIsUnique
    <2> QED
        BY <2>1, <2>2 DEF NewestIsUnique
  <1> QED
      BY <1>2, <1>4, <1>5, <1>6, <1>7, <1>8

LEMMA EraseKeeps ==
    ASSUME LogInv, EraseStep
    PROVE  LogInv' /\ Current' = Current
  <1>1. PICK i \in RecordSlots, c \in {BlankCell, TornCell} :
          log' = [log EXCEPT ![target[1]][i] = c]
      BY DEF EraseStep
  <1>2. c \in Cells /\ c.kind # "valid"
      BY MetaLogAssumption DEF BlankCell, TornCell, Cells
  <1>3. target[1] \in Areas /\ ~IsNewest(target[1], i) /\ pc = "erase"
      BY DEF LogInv, TypeOK, NewestOutOfReach, EraseStep
  <1>4. UNCHANGED <<pc, target, record, pending, result>>
      BY DEF EraseStep
  <1>5. /\ NewestIsUnique'
        /\ \A b \in Areas, j \in RecordSlots : IsNewest(b, j)' <=> IsNewest(b, j)
        /\ Found' <=> Found
        /\ \A b \in Areas, j \in RecordSlots :
             Valid(b, j)' => Valid(b, j) /\ log'[b][j] = log[b][j]
        /\ log' \in [Areas -> [RecordSlots -> Cells]]
      BY <1>1, <1>2, <1>3, OverwriteKeeps
  <1>6. TypeOK'
      BY <1>4, <1>5 DEF LogInv, TypeOK
  <1>7. NewestOutOfReach'
      BY <1>3, <1>4, <1>5 DEF LogInv, NewestOutOfReach
  <1>8. RecordIsNext'
      BY <1>3, <1>4, <1>5 DEF LogInv, RecordIsNext
  <1>9. LogInv'
      BY <1>5, <1>6, <1>7, <1>8 DEF LogInv
  <1>10. Current' = Current
      BY <1>5, <1>9, SameNewestSameState
  <1> QED
      BY <1>9, <1>10

LEMMA ProgramStepKeeps ==
    ASSUME LogInv, ProgramStep
    PROVE  LogInv' /\ Current' = Current
  <1>1. target[1] \in Areas /\ target[2] \in RecordSlots /\ pc = "program"
        /\ log[target[1]][target[2]].kind = "blank"
      BY DEF LogInv, TypeOK, NewestOutOfReach, ProgramStep
  <1>2. TornCell \in Cells /\ TornCell.kind = "torn"
      BY MetaLogAssumption DEF TornCell, Cells
  <1>3. ~IsNewest(target[1], target[2])
      BY <1>1 DEF IsNewest, Valid
  <1>4. /\ log' = [log EXCEPT ![target[1]][target[2]] = TornCell]
        /\ pc' = "programming"
        /\ UNCHANGED <<target, record, pending, result>>
      BY DEF ProgramStep
  <1>5. /\ NewestIsUnique'
        /\ \A b \in Areas, j \in RecordSlots : IsNewest(b, j)' <=> IsNewest(b, j)
        /\ Found' <=> Found
        /\ \A b \in Areas, j \in RecordSlots :
             Valid(b, j)' => Valid(b, j) /\ log'[b][j] = log[b][j]
        /\ log' \in [Areas -> [RecordSlots -> Cells]]
      BY <1>1, <1>2, <1>3, <1>4, OverwriteKeeps
  <1>6. TypeOK'
      BY <1>4, <1>5 DEF LogInv, TypeOK
  <1>7. NewestOutOfReach'
      BY <1>1, <1>2, <1>4 DEF LogInv, TypeOK, NewestOutOfReach
  <1>8. RecordIsNext'
      BY <1>1, <1>4, <1>5 DEF LogInv, RecordIsNext
  <1>9. LogInv'
      BY <1>5, <1>6, <1>7, <1>8 DEF LogInv
  <1>10. Current' = Current
      BY <1>5, <1>9, SameNewestSameState
  <1> QED
      BY <1>9, <1>10

LEMMA ProgramLastWordKeeps ==
    ASSUME LogInv, ProgramLastWord
    PROVE  LogInv' /\ Current' = pending
  <1> DEFINE A == target[1]
             I == target[2]
  <1>1. A \in Areas /\ I \in RecordSlots /\ log \in [Areas -> [RecordSlots -> Cells]]
        /\ record \in Cells
      BY DEF LogInv, TypeOK
  <1>2. /\ pc = "programming" /\ pc' = "done"
        /\ log' = [log EXCEPT ![A][I] = record]
        /\ UNCHANGED <<target, record, pending, result>>
      BY DEF ProgramLastWord
  <1>3. /\ record.kind = "valid" /\ record.state = pending /\ pending \in States
        /\ \A b \in Areas, j \in RecordSlots :
             Valid(b, j) => log[b][j].counter < record.counter
      BY <1>2 DEF LogInv, RecordIsNext
  <1>4. /\ log' \in [Areas -> [RecordSlots -> Cells]]
        /\ \A b \in Areas, j \in RecordSlots :
             log'[b][j] = IF b = A /\ j = I THEN record ELSE log[b][j]
      BY <1>1, <1>2
  <1>5. \A b \in Areas, j \in RecordSlots :
          log[b][j].counter \in Nat /\ record.counter \in Nat
      BY <1>1 DEF Cells
  <1>6. IsNewest(A, I)'
      BY <1>1, <1>2, <1>3, <1>4, <1>5 DEF IsNewest, Valid
  <1>7. NewestIsUnique'
    <2>1. \A b, d \in Areas, j, k \in RecordSlots :
            Valid(b, j)' /\ Valid(d, k)' /\ log'[b][j].counter = log'[d][k].counter
              => b = d /\ j = k
        BY <1>3, <1>4, <1>5 DEF LogInv, NewestIsUnique, Valid
    <2>2. \E b \in Areas, j \in RecordSlots : IsNewest(b, j)'
        BY <1>1, <1>2, <1>6
    <2> QED
        BY <2>1, <2>2 DEF NewestIsUnique
  <1>8. TypeOK'
      BY <1>1, <1>2, <1>4 DEF LogInv, TypeOK
  <1>9. NewestOutOfReach'
      BY <1>2 DEF NewestOutOfReach
  <1>10. RecordIsNext'
      BY <1>1, <1>2, <1>3, <1>4, <1>6, MetaLogAssumption DEF LogInv, RecordIsNext
  <1>11. LogInv'
      BY <1>7, <1>8, <1>9, <1>10 DEF LogInv
  <1>12. Current' = log'[A][I].state
      BY <1>1, <1>2, <1>6, <1>11, NewestIsNext
  <1> QED
      BY <1>1, <1>3, <1>4, <1>11, <1>12

LEMMA QuietKeeps ==
    ASSUME LogInv, UNCHANGED log, UNCHANGED <<target, record>>,
           \/ UNCHANGED <<pc, pending>> /\ result' \in {result, "failed"}
           \/ pc' = "idle" /\ pending' = NoWrite /\ result' \in {"ok", "failed", "cut"}
           \/ EraseDone
    PROVE  LogInv' /\ Current' = Current
  <1>1. /\ \A b \in Areas, j \in RecordSlots :
             (Valid(b, j)' <=> Valid(b, j)) /\ (IsNewest(b, j)' <=> IsNewest(b, j))
        /\ Found' <=> Found
      BY DEF Valid, IsNewest, Found
  <1>2. NewestIsUnique'
      BY <1>1 DEF LogInv, NewestIsUnique
  <1>3. TypeOK'
      BY DEF LogInv, TypeOK, EraseDone
  <1>4. NewestOutOfReach'
      BY <1>1 DEF LogInv, NewestOutOfReach, TypeOK, EraseDone
  <1>5. RecordIsNext'
      BY <1>1 DEF LogInv, RecordIsNext, TypeOK, EraseDone
  <1>6. Current' = Current
      BY DEF Current, Found, NewestCell, Newest, IsNewest, Valid
  <1> QED
      BY <1>2, <1>3, <1>4, <1>5, <1>6 DEF LogInv

-----------------------------------------------------------------------------
LEMMA LogStep ==
    ASSUME LogInv, [Next]_vars
    PROVE  LogInv'
  <1>1. CASE \E s \in States : Append(s)
      BY <1>1, AppendKeeps
  <1>2. CASE EraseStep
      BY <1>2, EraseKeeps
  <1>3. CASE ProgramStep
      BY <1>3, ProgramStepKeeps
  <1>4. CASE ProgramLastWord
      BY <1>4, ProgramLastWordKeeps
  <1>5. CASE AppendScanFails \/ UNCHANGED vars
      BY <1>5, QuietKeeps DEF AppendScanFails, vars
  <1>6. CASE EraseDone
      BY <1>6, QuietKeeps DEF EraseDone
  <1>7. CASE AppendReturns \/ AppendFails \/ PowerCut
      BY <1>7, QuietKeeps DEF AppendReturns, AppendFails, PowerCut, Stop
  <1> QED
      BY <1>1, <1>2, <1>3, <1>4, <1>5, <1>6, <1>7 DEF Next

\* The log is well formed in every reachable state: its newest record is
\* unique and out of reach of every erase and program of append().
THEOREM LogInvariant == Spec => []LogInv
  <1>1. LogInv /\ [Next]_vars => LogInv'
      BY LogStep
  <1> QED
      BY LogInit, <1>1, PTL DEF Spec

LEMMA RegisterInit == Init => Register!Init
  BY DEF Init, Register!Init, Current, Found, Valid, BlankCell, Areas, RecordSlots

\* Every step of the log is a step of the register or a stutter: only the
\* last word of a record changes what a read returns.
LEMMA RegisterStep ==
    ASSUME LogInv, [Next]_vars
    PROVE  [Register!Next]_(Register!vars)
  <1> USE DEF Register!Next, Register!vars
  <1>1. CASE \E s \in States : Append(s)
    <2>1. PICK s \in States : Append(s)
        BY <1>1
    <2>2. log' = log /\ pc = "idle" /\ pending' = s /\ result' = "busy"
        BY <2>1 DEF Append
    <2>3. Current' = Current
        BY <2>2 DEF Current, Found, NewestCell, Newest, IsNewest, Valid
    <2>4. pending = NoWrite
        BY <2>2 DEF LogInv, RecordIsNext
    <2> QED
        BY <2>2, <2>3, <2>4 DEF Register!Begin
  <1>2. CASE EraseStep
      BY <1>2, EraseKeeps DEF EraseStep
  <1>3. CASE ProgramStep
      BY <1>3, ProgramStepKeeps DEF ProgramStep
  <1>4. CASE ProgramLastWord
    <2>1. Current' = pending
        BY <1>4, ProgramLastWordKeeps
    <2>2. pending \in States /\ UNCHANGED <<pending, result>>
        BY <1>4 DEF ProgramLastWord, LogInv, RecordIsNext
    <2> QED
        BY <2>1, <2>2, MetaLogAssumption DEF Register!Commit
  <1>5. CASE AppendScanFails
    <2>1. Current' = Current
        BY <1>5, QuietKeeps DEF AppendScanFails
    <2>2. pending = NoWrite
        BY <1>5 DEF AppendScanFails, LogInv, RecordIsNext
    <2> QED
        BY <1>5, <2>1, <2>2 DEF AppendScanFails, Register!EndBad
  <1>6. CASE EraseDone
      BY <1>6, QuietKeeps DEF EraseDone
  <1>7. CASE AppendReturns
    <2>1. Current' = Current
        BY <1>7, QuietKeeps DEF AppendReturns, Stop
    <2>2. /\ target[1] \in Areas /\ target[2] \in RecordSlots
          /\ IsNewest(target[1], target[2])
          /\ log[target[1]][target[2]].state = pending
          /\ pending \in States
        BY <1>7 DEF AppendReturns, LogInv, RecordIsNext, TypeOK
    <2>3. Current = pending
        BY <2>2, NewestIs
    <2> QED
        BY <1>7, <2>1, <2>2, <2>3, MetaLogAssumption DEF AppendReturns, Stop, Register!EndOk
  <1>8. CASE AppendFails \/ PowerCut
    <2>1. Current' = Current
        BY <1>8, QuietKeeps DEF AppendFails, PowerCut, Stop
    <2> QED
        BY <1>8, <2>1 DEF AppendFails, PowerCut, Stop, Register!EndBad
  <1>9. CASE UNCHANGED vars
      BY <1>9, QuietKeeps DEF vars
  <1> QED
      BY <1>1, <1>2, <1>3, <1>4, <1>5, <1>6, <1>7, <1>8, <1>9 DEF Next

\* The flash log implements the atomic register: a power cut or a flash
\* error at any point of append() leaves the old state or the new one.
THEOREM LogIsRegister == Spec => RegisterSpec
  <1>1. LogInv /\ [Next]_vars => [Register!Next]_(Register!vars)
      BY RegisterStep
  <1> QED
      BY RegisterInit, LogInvariant, <1>1, PTL DEF Spec, RegisterSpec, Register!Spec
=============================================================================
