------------------------ MODULE PmacctParser_proofs ------------------------
(***************************************************************************)
(* Proofs about PmacctParser: its variables keep their types, no restart   *)
(* skips a line, what a checkpoint covers is not inserted again, and no    *)
(* truncation loses a line that was not inserted, for any number of lines, *)
(* batches and faults.                                                     *)
(***************************************************************************)
EXTENDS PmacctParser, TLAPS

(* Type correctness.  The offsets are bounded by the lines written, of which *)
(* the file holds at most as many and the begun one is still missing.        *)
FileInv ==
    /\ Len(file) <= written
    /\ tail # "none" => written < MaxLines

TypeInv == TypeOK /\ FileInv

LEMMA SizeType ==
    ASSUME TypeInv
    PROVE  /\ Size \in 0..(2 * MaxLines)
           /\ 2 * Len(file) <= Size
           /\ Size <= 2 * Len(file) + 1
           /\ Len(file) \in Nat
  <1>1. Len(file) \in Nat /\ file \in Seq(Lines \union {Fragment})
    BY DEF TypeInv, TypeOK
  <1>2. CASE tail = "half"
    BY <1>1, <1>2, ParserAssumption DEF TypeInv, TypeOK, FileInv, Size
  <1>3. CASE tail # "half"
    BY <1>1, <1>3, ParserAssumption DEF TypeInv, TypeOK, FileInv, Size
  <1> QED
    BY <1>2, <1>3

LEMMA ReadType ==
    ASSUME TypeInv, ReadLines
    PROVE  /\ offset' \in 0..(2 * MaxLines)
           /\ pending' \in 0..(2 * MaxLines)
           /\ batch' \in [Lines -> Nat]
  <1>1. ReadFrom(offset) \in 0..(2 * MaxLines)
    BY ParserAssumption, SizeType DEF TypeInv, TypeOK, ReadFrom
  <1>2. offset' \in 0..(2 * MaxLines)
    BY <1>1 DEF ReadLines
  <1>3. pending' \in 0..(2 * MaxLines)
    BY <1>1, SizeType, ParserAssumption DEF ReadLines, TypeInv, TypeOK
  <1>4. batch' \in [Lines -> Nat]
    BY DEF ReadLines, Collect, TypeInv, TypeOK
  <1> QED
    BY <1>2, <1>3, <1>4

LEMMA NoRowsType == NoRows \in [Lines -> Nat]
  BY DEF NoRows

\* Init and every action keep the types.
LEMMA TypeInit == Init => TypeInv
  <1> SUFFICES ASSUME Init
               PROVE  TypeInv
    OBVIOUS
  <1>1. file \in Seq(Lines \union {Fragment}) /\ Len(file) = 0
    BY DEF Init
  <1>2. batch \in [Lines -> Nat] /\ inserted \in [Lines -> Nat]
    BY NoRowsType DEF Init
  <1>3. saved \in {NoCheckpoint} \union 0..(2 * MaxLines)
    BY DEF Init
  <1>4. due \in BOOLEAN /\ check \in BOOLEAN /\ stale \in BOOLEAN
    BY Zenon DEF Init
  <1>5. TypeOK
    BY <1>1, <1>2, <1>3, <1>4, ParserAssumption DEF Init, TypeOK
  <1>6. FileInv
    BY <1>1 DEF Init, FileInv
  <1> QED
    BY <1>5, <1>6 DEF TypeInv

LEMMA DieType ==
    ASSUME Die
    PROVE  /\ pc' = "down"
           /\ batch' \in [Lines -> Nat]
           /\ offset' \in 0..(2 * MaxLines) /\ pending' \in 0..(2 * MaxLines)
           /\ due' \in BOOLEAN /\ check' \in BOOLEAN
  <1>1. due' \in BOOLEAN /\ check' \in BOOLEAN
    BY Zenon DEF Die
  <1> QED
    BY <1>1, ParserAssumption, NoRowsType DEF Die

LEMMA TypeNext ==
    ASSUME TypeInv, [Next]_vars
    PROVE  TypeInv'
  <1> USE DEF TypeInv, TypeOK, FileInv
  <1>1. CASE StartLine
    BY <1>1 DEF StartLine, tailer, timers, history
  <1>2. CASE EndLine
    <2>1. (IF tail = "half" THEN written + 1 ELSE Fragment) \in Lines \union {Fragment}
      BY <1>2, ParserAssumption DEF EndLine, Lines
    <2>2. file' \in Seq(Lines \union {Fragment}) /\ Len(file') = Len(file) + 1
      BY <1>2, <2>1 DEF EndLine
    <2> QED
      BY <1>2, <2>2, ParserAssumption DEF EndLine, tailer, timers, history
  <1>3. CASE Start
    <2>1. \/ UNCHANGED <<saved, waived>> /\ offset' \in 0..(2 * MaxLines) /\ pending' = 0
          \/ StartAtEnd
      BY <1>3, ParserAssumption DEF Start, Resume, StartEmpty
    <2>2. waived' \subseteq Lines
      <3>1. tail = "half" => written + 1 \in Lines
        BY ParserAssumption DEF Lines
      <3> QED
        BY <2>1, <3>1 DEF StartAtEnd
    <2>3. /\ offset' \in 0..(2 * MaxLines) /\ pending' \in 0..(2 * MaxLines)
          /\ saved' \in {NoCheckpoint} \union 0..(2 * MaxLines)
      BY <2>1, SizeType, ParserAssumption DEF StartAtEnd
    <2> QED
      BY <1>3, <2>2, <2>3, ParserAssumption, NoRowsType DEF Start, spool
  <1>4. CASE Poll \/ ReadRest
    BY <1>4, ReadType DEF Poll, ReadRest, spool, timers, history
  <1>5. CASE FlushDue \/ RotateDue
    BY <1>5 DEF FlushDue, RotateDue, spool, tailer, history
  <1>6. CASE Postpone \/ NoRotation \/ Compare
    BY <1>6 DEF Postpone, NoRotation, Compare, spool, tailer, timers, history
  <1>7. CASE Flush \/ Drain
    BY <1>7, NoRowsType DEF Flush, Drain, Store, spool, tailer, timers
  <1>8. CASE CommitFlush \/ Settle
    BY <1>8 DEF CommitFlush, Settle, Commit, spool, timers, history
  <1>9. CASE Truncate \/ Reset
    <2>1. CASE Truncate
      <3>1. file' \in Seq(Lines \union {Fragment}) /\ Len(file') = 0
        BY <2>1 DEF Truncate
      <3>2. stale' \in BOOLEAN
        BY <2>1, Zenon DEF Truncate
      <3> QED
        BY <2>1, <3>1, <3>2, ParserAssumption DEF Truncate, tailer, timers, history
    <2>2. CASE Reset
      <3>1. stale' \in BOOLEAN
        BY <2>2, Zenon DEF Reset
      <3> QED
        BY <2>2, <3>1, ParserAssumption DEF Reset, timers, history
    <2> QED
      BY <1>9, <2>1, <2>2
  <1>10. CASE Crash \/ CommitFlushFails
    <2>1. Die /\ faults' \in 0..MaxFaults /\ saved' \in {saved, NoCheckpoint}
      BY <1>10, ParserAssumption DEF Crash, CommitFlushFails, Fault, Torn
    <2>2. UNCHANGED <<spool, history>>
      BY <1>10 DEF Crash, CommitFlushFails
    <2> QED
      BY <2>1, <2>2, DieType DEF spool, history
  <1>11. CASE FlushFails
    <2>1. Die /\ faults' \in 0..MaxFaults /\ UNCHANGED <<spool, saved, waived>>
      BY <1>11, ParserAssumption DEF FlushFails, Fault
    <2>2. inserted' \in [Lines -> Nat]
      BY <1>11 DEF FlushFails, Store
    <2> QED
      BY <2>1, <2>2, DieType DEF spool
  <1>12. CASE DrainFails
    BY <1>12, ParserAssumption DEF DrainFails, Fault, Store, spool, tailer, timers
  <1>13. CASE SettleFails \/ RotationFails \/ ResetFails
    BY <1>13, ParserAssumption
       DEF SettleFails, RotationFails, ResetFails, Fault, Torn, spool, tailer, timers, history
  <1>14. CASE UNCHANGED vars
    BY <1>14 DEF vars, spool, tailer, timers, history
  <1> QED
    BY <1>1, <1>2, <1>3, <1>4, <1>5, <1>6, <1>7, <1>8, <1>9, <1>10, <1>11, <1>12,
       <1>13, <1>14 DEF Next, Parser

\* Every variable of the parser and its spool file keeps its type, whatever
\* fails; the offsets never exceed what was written.
THEOREM ParserTypeCorrect == Spec => []TypeOK
  <1>1. TypeInv => TypeOK
    BY DEF TypeInv
  <1> QED
    BY <1>1, TypeInit, TypeNext, PTL DEF Spec

(* The checkpoint.  An offset covers a line when it lies beyond its first    *)
(* half: a start at the end of the file may save the middle of a line.       *)
Covers(o, i) == 2 * i - 1 <= o

StoredBelow(o) ==
    /\ o <= Size
    /\ \A i \in DOMAIN file : Covers(o, i) => Settled(file[i])
    /\ tail = "half" /\ Covers(o, Len(file) + 1) => written + 1 \in waived

Collected(l) == Settled(l) \/ batch[l] > 0

CollectedBelow(o) ==
    /\ o <= Size
    /\ \A i \in DOMAIN file : Covers(o, i) => Collected(file[i])
    /\ tail = "half" /\ Covers(o, Len(file) + 1) => written + 1 \in waived

CheckpointInv ==
    /\ pc \in {"commit", "settle"} => batch = NoRows
    /\ pc = "reset" => stale
    /\ ~stale => StoredBelow(saved) /\ StoredBelow(offset) /\ CollectedBelow(pending)

IInv == TypeInv /\ CheckpointInv

\* An offset of nothing covers nothing.
LEMMA NothingCovered ==
    ASSUME TypeInv, NEW o \in {NoCheckpoint, 0}
    PROVE  StoredBelow(o) /\ CollectedBelow(o)
  <1>1. o <= Size /\ ~Covers(o, Len(file) + 1)
    BY SizeType DEF Covers, NoCheckpoint
  <1>2. \A i \in DOMAIN file : ~Covers(o, i)
    BY DEF Covers, NoCheckpoint, TypeInv, TypeOK
  <1> QED
    BY <1>1, <1>2 DEF StoredBelow, CollectedBelow

\* A row of the file is a line.
LEMMA RowsAreLines ==
    ASSUME TypeInv, NEW i \in DOMAIN file
    PROVE  file[i] \in Lines \/ ~IsRow(file[i])
  BY DEF TypeInv, TypeOK, IsRow

\* What is stored is collected.
LEMMA StoredIsCollected ==
    ASSUME NEW o, StoredBelow(o)
    PROVE  CollectedBelow(o)
  BY DEF StoredBelow, CollectedBelow, Collected

\* With an empty batch, what is collected is stored.
LEMMA CollectedIsStored ==
    ASSUME TypeInv, NEW o, CollectedBelow(o), batch = NoRows
    PROVE  StoredBelow(o)
  <1>1. \A i \in DOMAIN file : Collected(file[i]) => Settled(file[i])
    BY RowsAreLines DEF Collected, Settled, NoRows
  <1> QED
    BY <1>1 DEF StoredBelow, CollectedBelow

\* Storing and passing over more lines of an unchanged file.
Grows ==
    /\ UNCHANGED <<file, tail, written>>
    /\ waived \subseteq waived'
    /\ \A l \in Lines : inserted'[l] >= inserted[l]

LEMMA GrowsIsNatural ==
    ASSUME TypeInv, UNCHANGED <<file, tail, written, waived>>, Store \/ UNCHANGED inserted
    PROVE  Grows
  <1>1. CASE Store
    BY <1>1 DEF Grows, Store, TypeInv, TypeOK
  <1>2. CASE UNCHANGED inserted
    BY <1>2 DEF Grows, TypeInv, TypeOK
  <1> QED
    BY <1>1, <1>2

LEMMA StoredStays ==
    ASSUME TypeInv, inserted' \in [Lines -> Nat], Grows,
           NEW o, StoredBelow(o)
    PROVE  /\ o <= Size'
           /\ \A i \in DOMAIN file' : Covers(o, i) => Settled(file[i])'
           /\ tail' = "half" /\ Covers(o, Len(file') + 1) => written' + 1 \in waived'
  <1>1. Size' = Size
    BY DEF Size, Grows
  <1>2. ASSUME NEW i \in DOMAIN file, Settled(file[i])
        PROVE  Settled(file[i])'
    BY <1>2, RowsAreLines DEF Settled, TypeInv, TypeOK, IsRow, Grows
  <1> QED
    BY <1>1, <1>2 DEF StoredBelow, Grows

LEMMA CollectedStays ==
    ASSUME TypeInv, inserted' \in [Lines -> Nat], batch' \in [Lines -> Nat], Grows,
           \A l \in Lines : batch[l] > 0 => inserted'[l] > 0 \/ batch'[l] > 0,
           NEW o, CollectedBelow(o)
    PROVE  /\ o <= Size'
           /\ \A i \in DOMAIN file' : Covers(o, i) => Collected(file[i])'
           /\ tail' = "half" /\ Covers(o, Len(file') + 1) => written' + 1 \in waived'
  <1>1. Size' = Size
    BY DEF Size, Grows
  <1>2. ASSUME NEW i \in DOMAIN file, Collected(file[i])
        PROVE  Collected(file[i])'
    BY <1>2, RowsAreLines DEF Collected, Settled, TypeInv, TypeOK, IsRow, Grows
  <1> QED
    BY <1>1, <1>2 DEF CollectedBelow, Grows

\* An action that leaves the file alone keeps the invariant if each offset it
\* sets was good for the state before.
LEMMA GrowsKeeps ==
    ASSUME TypeInv, TypeInv', Grows,
           \A l \in Lines : batch[l] > 0 => inserted'[l] > 0 \/ batch'[l] > 0,
           StoredBelow(saved'), StoredBelow(offset'), CollectedBelow(pending')
    PROVE  StoredBelow(saved)' /\ StoredBelow(offset)' /\ CollectedBelow(pending)'
  <1>1. inserted' \in [Lines -> Nat] /\ batch' \in [Lines -> Nat]
    BY DEF TypeInv, TypeOK
  <1>2. StoredBelow(saved)'
    BY <1>1, StoredStays DEF StoredBelow, Covers
  <1>3. StoredBelow(offset)'
    BY <1>1, StoredStays DEF StoredBelow, Covers
  <1>4. CollectedBelow(pending)'
    BY <1>1, CollectedStays DEF CollectedBelow, Covers
  <1> QED
    BY <1>2, <1>3, <1>4

LEMMA ReadFromInside ==
    ASSUME NEW o \in Nat, Size \in Nat, o <= Size
    PROVE  ReadFrom(o) = o
  BY DEF ReadFrom

\* Reading collects every line between the offset and the last newline.
LEMMA ReadCollects ==
    ASSUME TypeInv, TypeInv', ReadLines, UNCHANGED <<spool, saved, history>>,
           StoredBelow(saved), StoredBelow(offset), CollectedBelow(pending)
    PROVE  StoredBelow(saved)' /\ StoredBelow(offset)' /\ CollectedBelow(pending)'
  <1>1. offset <= Size /\ offset \in Nat /\ Size \in Nat
    BY SizeType DEF StoredBelow, TypeInv, TypeOK
  <1>2. offset' = offset
    <2>1. offset' = ReadFrom(offset)
      BY Zenon DEF ReadLines
    <2> QED
      BY <1>1, <2>1, ReadFromInside
  <1>3. Grows
    BY GrowsIsNatural DEF spool, history
  <1>4. /\ \A l \in Lines : batch[l] > 0 => batch'[l] > 0
        /\ \A l \in Lines : l \in Unread(offset) /\ IsRow(l) => batch'[l] > 0
    <2>1. batch' = [l \in Lines |->
                IF l \in Unread(offset) /\ IsRow(l) THEN batch[l] + 1 ELSE batch[l]]
      BY <1>1, ReadFromInside DEF ReadLines, Collect
    <2>2. \A l \in Lines : batch[l] \in Nat
      BY DEF TypeInv, TypeOK
    <2> QED
      BY <2>1, <2>2
  <1>5. CASE CollectedBelow(pending')
    BY <1>2, <1>3, <1>4, <1>5, GrowsKeeps
  <1>6. CASE ~CollectedBelow(pending')
    <2>1. pending' = 2 * Len(file)
      BY <1>1, <1>6, ReadFromInside, StoredIsCollected DEF ReadLines
    <2>2. ASSUME NEW i \in DOMAIN file
          PROVE  Collected(file[i])'
      <3>1. i \in 1..Len(file) /\ i \in Nat
        BY DEF TypeInv, TypeOK
      <3>2. CASE 2 * (i - 1) >= offset
        <4>1. file[i] \in Unread(offset)
          BY <3>2 DEF Unread
        <4> QED
          BY <1>4, <4>1, RowsAreLines DEF Collected, Settled, spool, history, IsRow
      <3>3. CASE ~(2 * (i - 1) >= offset)
        <4>1. Settled(file[i])
          BY <1>1, <3>1, <3>3 DEF StoredBelow, Covers
        <4> QED
          BY <4>1 DEF Collected, Settled, spool, history, IsRow
      <3> QED
        BY <3>2, <3>3
    <2>3. CollectedBelow(pending)'
      BY <2>1, <2>2, SizeType DEF CollectedBelow, Covers, Size, spool, Collected
    <2>4. StoredBelow(saved)' /\ StoredBelow(offset)'
      BY <1>2 DEF StoredBelow, Settled, Covers, IsRow, Size, spool, history
    <2> QED
      BY <2>3, <2>4
  <1> QED
    BY <1>5, <1>6

\* Appending puts new lines beyond every offset; the one a start at the end of
\* the file fell into was passed over.
LEMMA AppendKeeps ==
    ASSUME TypeInv, StartLine \/ EndLine,
           NEW o \in {NoCheckpoint} \union Nat, CollectedBelow(o)
    PROVE  /\ o <= Size'
           /\ \A i \in DOMAIN file' : Covers(o, i) =>
                IF i \in DOMAIN file THEN file'[i] = file[i] ELSE Settled(file'[i])
           /\ tail' = "half" /\ Covers(o, Len(file') + 1) => written' + 1 \in waived'
  <1>1. CASE StartLine
    <2>1. Size = 2 * Len(file) /\ Size' = 2 * Len(file) + 1 /\ UNCHANGED file
      BY <1>1 DEF StartLine, Size
    <2>2. ~Covers(o, Len(file) + 1)
      BY <2>1, SizeType DEF CollectedBelow, Covers, NoCheckpoint
    <2> QED
      BY <2>1, <2>2, SizeType DEF CollectedBelow, Covers, NoCheckpoint
  <1>2. CASE EndLine
    <2> DEFINE new == IF tail = "half" THEN written + 1 ELSE Fragment
    <2>1. /\ Len(file') = Len(file) + 1
          /\ DOMAIN file' = 1..(Len(file) + 1) /\ DOMAIN file = 1..Len(file)
          /\ \A i \in DOMAIN file : file'[i] = file[i]
          /\ file'[Len(file) + 1] = new
      BY <1>2 DEF EndLine, TypeInv, TypeOK
    <2>2. tail' = "none"
      BY <1>2 DEF EndLine
    <2>3. o <= Size'
      BY <2>1, <2>2, SizeType DEF Size, CollectedBelow, NoCheckpoint
    <2>4. Covers(o, Len(file) + 1) => Settled(new)
      <3>1. CASE tail = "half"
        BY <3>1 DEF CollectedBelow, Settled
      <3>2. CASE tail # "half"
        BY <3>2 DEF Settled, IsRow
      <3> QED
        BY <3>1, <3>2
    <2>5. ASSUME NEW i \in DOMAIN file', Covers(o, i), i \notin DOMAIN file
          PROVE  Settled(file'[i])
      <3>1. i = Len(file) + 1
        BY <2>1, <2>5, SizeType
      <3> QED
        BY <2>1, <2>4, <2>5, <3>1
    <2> QED
      BY <2>1, <2>2, <2>3, <2>5
  <1> QED
    BY <1>1, <1>2

\* The invariant is inductive: first where the batch is empty and the offsets
\* are stale, then what the offsets cover.
LEMMA CheckpointInit == Init => CheckpointInv
  <1> SUFFICES ASSUME Init
               PROVE  CheckpointInv
    OBVIOUS
  <1>1. TypeInv /\ saved = NoCheckpoint /\ offset = 0 /\ pending = 0 /\ pc = "down"
    BY TypeInit DEF Init
  <1> QED
    BY <1>1, NothingCovered DEF CheckpointInv

LEMMA StageNext ==
    ASSUME IInv, [Next]_vars
    PROVE  /\ pc' \in {"commit", "settle"} => batch' = NoRows
           /\ pc' = "reset" => stale'
  <1> USE DEF IInv, CheckpointInv
  <1>1. CASE StartLine \/ EndLine \/ FlushDue \/ RotateDue \/ UNCHANGED vars
    BY <1>1 DEF StartLine, EndLine, FlushDue, RotateDue, vars, spool
  <1>2. CASE Start \/ Poll \/ Postpone \/ CommitFlush \/ NoRotation \/ ReadRest
             \/ Settle \/ Compare \/ Reset
    BY <1>2 DEF Start, Poll, Postpone, CommitFlush, NoRotation, ReadRest, Settle, Compare, Reset
  <1>3. CASE Flush \/ Drain \/ Truncate
    BY <1>3 DEF Flush, Drain, Truncate
  <1>4. CASE Crash \/ FlushFails \/ CommitFlushFails \/ DrainFails \/ SettleFails
             \/ RotationFails \/ ResetFails
    BY <1>4 DEF Crash, FlushFails, CommitFlushFails, DrainFails, SettleFails,
                RotationFails, ResetFails, Die
  <1> QED
    BY <1>1, <1>2, <1>3, <1>4 DEF Next, Parser

Below == StoredBelow(saved) /\ StoredBelow(offset) /\ CollectedBelow(pending)

LEMMA BelowNext ==
    ASSUME IInv, TypeInv', [Next]_vars, ~stale'
    PROVE  Below'
  <1>a. TypeInv
    BY DEF IInv
  <1>b. ~stale => Below
    BY DEF IInv, CheckpointInv, Below
  <1>c. StoredBelow(0) /\ StoredBelow(NoCheckpoint) /\ CollectedBelow(0)
    BY <1>a, NothingCovered
  <1>1. CASE StartLine \/ EndLine
    <2>1. Below /\ UNCHANGED <<batch, tailer, history>>
      BY <1>1, <1>b DEF StartLine, EndLine
    <2>2. /\ saved \in {NoCheckpoint} \union Nat
          /\ offset \in {NoCheckpoint} \union Nat /\ pending \in {NoCheckpoint} \union Nat
      BY <1>a DEF TypeInv, TypeOK
    <2>3. CollectedBelow(saved) /\ CollectedBelow(offset) /\ CollectedBelow(pending)
      BY <2>1, StoredIsCollected DEF Below
    <2>4. StoredBelow(saved)'
      BY <1>1, <1>a, <2>1, <2>2, <2>3, AppendKeeps
         DEF Below, StoredBelow, Covers, Settled, IsRow, tailer, history
    <2>5. StoredBelow(offset)'
      BY <1>1, <1>a, <2>1, <2>2, <2>3, AppendKeeps
         DEF Below, StoredBelow, Covers, Settled, IsRow, tailer, history
    <2>6. CollectedBelow(pending)'
      BY <1>1, <1>a, <2>1, <2>2, <2>3, AppendKeeps
         DEF CollectedBelow, Collected, Covers, Settled, IsRow, tailer, history
    <2> QED
      BY <2>4, <2>5, <2>6 DEF Below
  <1>2. CASE Start
    <2>1. Below /\ batch' = NoRows /\ UNCHANGED <<spool, inserted>>
      BY <1>2, <1>b DEF Start, spool
    <2>2. CASE StartAtEnd
      <3>1. offset' = Size /\ pending' = Size /\ saved' = Size /\ Size' = Size
        BY <2>1, <2>2 DEF StartAtEnd, spool, Size
      <3>2. /\ \A i \in DOMAIN file : Settled(file[i])'
            /\ tail = "half" => written + 1 \in waived'
        BY <1>a, <2>1, <2>2, RowsAreLines DEF StartAtEnd, Settled, spool
      <3> QED
        BY <1>a, <2>1, <3>1, <3>2, SizeType
           DEF Below, StoredBelow, CollectedBelow, Collected, Settled, spool, Size
    <2>3. CASE ~StartAtEnd
      <3>1. /\ offset' \in {saved, 0} /\ pending' = 0 /\ UNCHANGED <<saved, waived>>
        BY <1>2, <2>3 DEF Start, Resume, StartEmpty
      <3>2. StoredBelow(saved') /\ StoredBelow(offset')
        BY <1>c, <2>1, <3>1 DEF Below
      <3>3. StoredBelow(saved)' /\ StoredBelow(offset)'
        BY <2>1, <3>1, <3>2 DEF StoredBelow, Covers, Settled, IsRow, Size, spool
      <3>4. CollectedBelow(pending)'
        BY <1>c, <2>1, <3>1 DEF StoredBelow, CollectedBelow, Collected, Covers, Settled, IsRow, Size, spool
      <3> QED
        BY <3>3, <3>4 DEF Below
    <2> QED
      BY <2>2, <2>3
  <1>3. CASE Poll \/ ReadRest
    <2>1. Below /\ ReadLines /\ UNCHANGED <<spool, saved, history>>
      BY <1>3, <1>b DEF Poll, ReadRest, spool
    <2> QED
      BY <1>a, <2>1, ReadCollects DEF Below
  <1>4. CASE FlushDue \/ RotateDue \/ Postpone \/ NoRotation \/ Compare \/ RotationFails
             \/ UNCHANGED vars
    <2>1. UNCHANGED <<spool, batch, tailer, history>>
      BY <1>4 DEF FlushDue, RotateDue, Postpone, NoRotation, Compare, RotationFails, vars
    <2>2. Below
      BY <1>b, <2>1 DEF spool
    <2> QED
      BY <2>1, <2>2 DEF Below, StoredBelow, CollectedBelow, Collected, Settled, Covers, Size,
                        IsRow, spool, tailer, history
  <1>5. CASE Flush \/ Drain \/ DrainFails
    <2>1. /\ Store \/ (UNCHANGED inserted /\ UNCHANGED batch)
          /\ UNCHANGED <<spool, tailer, waived>>
      BY <1>5 DEF Flush, Drain, DrainFails
    <2>2. Below /\ Grows
      BY <1>a, <1>b, <2>1, GrowsIsNatural DEF spool
    <2>3. \A l \in Lines : batch[l] > 0 => inserted'[l] > 0 \/ batch'[l] > 0
      <3>1. \A l \in Lines : batch[l] \in Nat /\ inserted[l] \in Nat
        BY <1>a DEF TypeInv, TypeOK
      <3>2. CASE Store
        BY <3>1, <3>2 DEF Store
      <3> QED
        BY <2>1, <3>2
    <2> QED
      BY <1>a, <2>1, <2>2, <2>3, GrowsKeeps DEF Below, tailer
  <1>6. CASE CommitFlush \/ Settle \/ SettleFails
    <2>1. /\ UNCHANGED <<spool, batch, pending, history>>
          /\ pc \in {"commit", "settle"}
          /\ offset' \in {offset, pending} /\ saved' \in {saved, pending, NoCheckpoint}
      BY <1>6 DEF CommitFlush, Settle, SettleFails, Commit, Torn
    <2>2. Below /\ Grows
      BY <1>a, <1>b, <2>1, GrowsIsNatural DEF spool, history
    <2>3. StoredBelow(pending)
      BY <1>a, <2>1, <2>2, CollectedIsStored DEF Below, IInv, CheckpointInv
    <2>4. StoredBelow(saved') /\ StoredBelow(offset') /\ CollectedBelow(pending')
      BY <1>c, <2>1, <2>2, <2>3 DEF Below
    <2> QED
      BY <1>a, <2>1, <2>2, <2>4, GrowsKeeps DEF Below
  <1>7. CASE Truncate
    BY <1>7 DEF Truncate
  <1>8. CASE Reset
    <2>1. /\ offset' = 0 /\ pending' = 0 /\ saved' = 0
          /\ UNCHANGED <<file, tail, written, batch, history>>
      BY <1>8 DEF Reset
    <2> QED
      BY <1>c, <2>1 DEF Below, StoredBelow, CollectedBelow, Collected, Settled, Covers, Size,
                        IsRow, history
  <1>9. CASE Crash \/ FlushFails \/ CommitFlushFails
    <2>1. /\ Die /\ UNCHANGED <<spool, waived>>
          /\ saved' \in {saved, NoCheckpoint}
          /\ Store \/ UNCHANGED inserted
      BY <1>9 DEF Crash, FlushFails, CommitFlushFails, Torn, history
    <2>2. Below /\ Grows
      BY <1>a, <1>b, <2>1, GrowsIsNatural DEF spool
    <2>3. inserted' \in [Lines -> Nat] /\ offset' = 0 /\ pending' = 0
      BY <2>1 DEF TypeInv, TypeOK, Die
    <2>4. StoredBelow(saved)' /\ StoredBelow(offset)'
      <3>1. StoredBelow(saved') /\ StoredBelow(offset')
        BY <1>c, <2>1, <2>2, <2>3 DEF Below
      <3> QED
        BY <1>a, <2>2, <2>3, <3>1, StoredStays DEF StoredBelow, Covers
    <2>5. CollectedBelow(pending)'
      BY <2>3, <2>4 DEF StoredBelow, CollectedBelow, Collected, Covers
    <2> QED
      BY <2>4, <2>5 DEF Below
  <1>10. CASE ResetFails
    BY <1>10 DEF ResetFails, IInv, CheckpointInv, spool
  <1> QED
    BY <1>1, <1>2, <1>3, <1>4, <1>5, <1>6, <1>7, <1>8, <1>9, <1>10 DEF Next, Parser

LEMMA IInvariant == Spec => []IInv
  <1>1. Init => IInv
    BY TypeInit, CheckpointInit DEF IInv
  <1>2. IInv /\ [Next]_vars => IInv'
    BY TypeNext, StageNext, BelowNext DEF IInv, CheckpointInv, Below
  <1> QED
    BY <1>1, <1>2, PTL DEF Spec

\* No restart skips a line: what lies below the checkpoint is in flow_raw, for
\* any number of lines, batches, rotations and faults, unless a rotation ended
\* between its truncation and its reset.
THEOREM CheckpointCovered == Spec => []CheckpointIsInserted
  <1>1. IInv => CheckpointIsInserted
    BY DEF IInv, CheckpointInv, StoredBelow, Covers, CheckpointIsInserted, TypeInv, TypeOK,
           NoCheckpoint
  <1> QED
    BY <1>1, IInvariant, PTL

(* What is inserted.  A line is at one place of the file; the rows that wait *)
(* in the batch are of lines beyond the offset, which is never behind the    *)
(* checkpoint, and nothing waits between an insertion and the next reading.  *)
LinesInv ==
    /\ \A i, j \in DOMAIN file : IsRow(file[i]) /\ file[i] = file[j] => i = j
    /\ \A i \in DOMAIN file : file[i] <= written

Emptied ==
    pc \in {"down", "commit", "settle", "compare", "truncate", "reset"} => batch = NoRows

Ahead ==
    /\ saved <= offset
    /\ pending = 0 \/ offset <= pending
    /\ \A i \in DOMAIN file : 2 * i <= offset /\ IsRow(file[i]) => batch[file[i]] = 0

BatchInv ==
    /\ LinesInv
    /\ Emptied
    /\ ~stale /\ pc # "down" => Ahead

LEMMA LinesNext ==
    ASSUME TypeInv, LinesInv, [Next]_vars
    PROVE  LinesInv'
  <1>1. CASE EndLine
    <2> DEFINE new == IF tail = "half" THEN written + 1 ELSE Fragment
    <2>1. /\ DOMAIN file' = 1..(Len(file) + 1) /\ DOMAIN file = 1..Len(file)
          /\ \A i \in DOMAIN file : file'[i] = file[i]
          /\ file'[Len(file) + 1] = new /\ Len(file) \in Nat
      BY <1>1 DEF EndLine, TypeInv, TypeOK
    <2>2. written' = written + 1 /\ written \in Nat
      BY <1>1 DEF EndLine, TypeInv, TypeOK
    <2>3. \A i \in DOMAIN file : file[i] \in Int /\ file[i] < written + 1
      BY <2>2 DEF LinesInv, TypeInv, TypeOK, Lines, Fragment
    <2>4. new = written + 1 \/ ~IsRow(new)
      BY DEF IsRow
    <2>5. ~IsRow(Fragment) /\ Fragment = 0
      BY DEF IsRow, Fragment
    <2>6. \A i \in DOMAIN file' : i \in DOMAIN file \/ i = Len(file) + 1
      BY <2>1
    <2>7. new \in {written + 1, 0}
      BY <2>5
    <2> HIDE DEF new
    <2>8. \A i \in DOMAIN file' : file'[i] <= written'
      BY <2>1, <2>2, <2>3, <2>6, <2>7
    <2>9. \A i, j \in DOMAIN file' : IsRow(file'[i]) /\ file'[i] = file'[j] => i = j
      BY <2>1, <2>2, <2>3, <2>4, <2>6 DEF LinesInv
    <2> QED
      BY <2>8, <2>9 DEF LinesInv, IsRow
  <1>2. CASE Truncate
    BY <1>2 DEF Truncate, LinesInv
  <1>3. CASE UNCHANGED <<file, written>>
    BY <1>3 DEF LinesInv, IsRow
  <1> QED
    BY <1>1, <1>2, <1>3
       DEF Next, Parser, vars, spool, StartLine, FlushDue, RotateDue, Start, Poll, Postpone,
           Flush, CommitFlush, NoRotation, ReadRest, Drain, Settle, Compare, Reset, Crash,
           FlushFails, CommitFlushFails, DrainFails, SettleFails, RotationFails, ResetFails

LEMMA EmptiedNext ==
    ASSUME Emptied, [Next]_vars
    PROVE  Emptied'
  <1>1. CASE StartLine \/ EndLine \/ FlushDue \/ RotateDue \/ UNCHANGED vars
    BY <1>1 DEF Emptied, StartLine, EndLine, FlushDue, RotateDue, vars
  <1>2. CASE Start \/ Poll \/ Postpone \/ CommitFlush \/ NoRotation \/ ReadRest
             \/ Settle \/ Compare \/ Reset \/ Flush \/ Drain \/ Truncate
    BY <1>2 DEF Emptied, Start, Poll, Postpone, CommitFlush, NoRotation, ReadRest, Settle,
                Compare, Reset, Flush, Drain, Truncate
  <1>3. CASE Crash \/ FlushFails \/ CommitFlushFails \/ DrainFails \/ SettleFails
             \/ RotationFails \/ ResetFails
    BY <1>3 DEF Emptied, Crash, FlushFails, CommitFlushFails, DrainFails, SettleFails,
                RotationFails, ResetFails, Die
  <1> QED
    BY <1>1, <1>2, <1>3 DEF Next, Parser

\* Reading collects nothing of what lies below the offset.
LEMMA ReadLeavesBelow ==
    ASSUME TypeInv, LinesInv, Ahead, ReadLines, offset <= Size, UNCHANGED <<file, saved>>
    PROVE  Ahead'
  <1>1. offset \in Nat /\ Size \in Nat /\ pending \in Nat
    BY SizeType DEF TypeInv, TypeOK
  <1>2. ReadFrom(offset) = offset
    BY <1>1, ReadFromInside
  <1>3. offset' = offset /\ (pending' = 0 \/ offset' <= pending')
    BY <1>1, <1>2 DEF ReadLines, Ahead
  <1>4. batch' = [l \in Lines |->
            IF l \in Unread(offset) /\ IsRow(l) THEN batch[l] + 1 ELSE batch[l]]
    BY <1>2 DEF ReadLines, Collect
  <1>5. ASSUME NEW i \in DOMAIN file, 2 * i <= offset, IsRow(file[i])
        PROVE  batch'[file[i]] = 0
    <2>1. file[i] \in Lines /\ batch[file[i]] = 0 /\ i \in Nat
      BY <1>5, RowsAreLines DEF Ahead, TypeInv, TypeOK
    <2>2. file[i] \notin Unread(offset)
      BY <1>1, <1>5, <2>1 DEF Unread, LinesInv
    <2> QED
      BY <1>4, <2>1, <2>2
  <1> QED
    BY <1>3, <1>5 DEF Ahead, IsRow

LEMMA NoRowsIn ==
    ASSUME TypeInv, NEW i \in DOMAIN file, IsRow(file[i])
    PROVE  NoRows[file[i]] = 0
  BY RowsAreLines DEF NoRows

\* With an empty batch only the offsets matter.
LEMMA EmptyIsAhead ==
    ASSUME TypeInv', batch' = NoRows, saved' <= offset', pending' = 0 \/ offset' <= pending'
    PROVE  Ahead'
  <1>1. \A i \in DOMAIN file' : IsRow(file'[i]) => file'[i] \in Lines
    BY DEF TypeInv, TypeOK, IsRow
  <1>2. \A i \in DOMAIN file' : IsRow(file'[i]) => batch'[file'[i]] = 0
    BY <1>1 DEF NoRows
  <1> QED
    BY <1>2 DEF Ahead, IsRow

LEMMA AheadNext ==
    ASSUME IInv, BatchInv, TypeInv', Emptied', [Next]_vars, ~stale', pc' # "down"
    PROVE  Ahead'
  <1>a. /\ TypeInv /\ LinesInv /\ offset \in Nat /\ pending \in Nat /\ saved \in Int
        /\ (pc = "reset" => stale)
    BY DEF IInv, CheckpointInv, BatchInv, TypeInv, TypeOK, NoCheckpoint
  <1>b. ~stale => offset <= Size /\ saved <= Size
    BY DEF IInv, CheckpointInv, StoredBelow
  <1>1. CASE StartLine \/ EndLine
    <2>1. Ahead /\ UNCHANGED <<batch, tailer>> /\ offset <= Size
      BY <1>1, <1>b DEF StartLine, EndLine, BatchInv
    <2>2. CASE StartLine
      BY <2>1, <2>2 DEF StartLine, Ahead, IsRow, tailer
    <2>3. CASE EndLine
      <3>1. /\ DOMAIN file' = 1..(Len(file) + 1) /\ DOMAIN file = 1..Len(file)
            /\ \A i \in DOMAIN file : file'[i] = file[i]
            /\ Len(file) \in Nat
        BY <1>a, <2>3 DEF EndLine, TypeInv, TypeOK
      <3>2. ~(2 * (Len(file) + 1) <= offset)
        BY <1>a, <2>1, <3>1, SizeType
      <3>3. \A i \in DOMAIN file' : 2 * i <= offset => i \in DOMAIN file
        BY <1>a, <3>1, <3>2
      <3> QED
        BY <2>1, <3>1, <3>3 DEF Ahead, IsRow, tailer
    <2> QED
      BY <1>1, <2>2, <2>3
  <1>2. CASE Start
    <2>1. batch' = NoRows /\ ~stale
      BY <1>2 DEF Start, spool
    <2>2. saved' <= offset' /\ (pending' = 0 \/ offset' <= pending')
      BY <1>2, <1>a, SizeType DEF Start, Resume, StartAtEnd, StartEmpty, NoCheckpoint
    <2> QED
      BY <2>1, <2>2, EmptyIsAhead
  <1>3. CASE Poll \/ ReadRest
    BY <1>3, <1>a, <1>b, ReadLeavesBelow DEF Poll, ReadRest, spool, BatchInv
  <1>4. CASE FlushDue \/ RotateDue \/ Postpone \/ NoRotation \/ Compare \/ RotationFails
             \/ DrainFails \/ UNCHANGED vars
    <2>1. UNCHANGED <<spool, batch, tailer>> /\ pc # "down"
      BY <1>4 DEF FlushDue, RotateDue, Postpone, NoRotation, Compare, RotationFails, DrainFails,
                  vars
    <2> QED
      BY <2>1 DEF BatchInv, Ahead, IsRow, spool, tailer
  <1>5. CASE Flush \/ Drain
    <2>1. batch' = NoRows /\ UNCHANGED <<spool, tailer>> /\ pc # "down"
      BY <1>5 DEF Flush, Drain
    <2>2. saved' <= offset' /\ (pending' = 0 \/ offset' <= pending')
      BY <2>1 DEF BatchInv, Ahead, spool, tailer
    <2> QED
      BY <2>1, <2>2, EmptyIsAhead
  <1>6. CASE CommitFlush \/ Settle \/ SettleFails
    <2>1. /\ UNCHANGED <<spool, batch, pending>> /\ pc \in {"commit", "settle"}
          /\ IF pending > 0 THEN offset' = pending /\ saved' \in {saved, pending, NoCheckpoint}
             ELSE UNCHANGED <<offset, saved>>
      BY <1>6 DEF CommitFlush, Settle, SettleFails, Commit, Torn
    <2>2. Ahead /\ batch' = NoRows
      BY <2>1 DEF BatchInv, Emptied, spool
    <2>3. saved' <= offset' /\ (pending' = 0 \/ offset' <= pending')
      BY <1>a, <2>1, <2>2 DEF Ahead, NoCheckpoint
    <2> QED
      BY <2>2, <2>3, EmptyIsAhead
  <1>7. CASE Reset
    <2>1. batch' = NoRows
      BY <1>7 DEF Reset, BatchInv, Emptied
    <2> QED
      BY <1>7, <2>1, EmptyIsAhead DEF Reset
  <1>8. CASE Truncate \/ ResetFails
    BY <1>8, <1>a DEF Truncate, ResetFails, spool
  <1>9. CASE Crash \/ FlushFails \/ CommitFlushFails
    BY <1>9 DEF Crash, FlushFails, CommitFlushFails, Die
  <1> QED
    BY <1>1, <1>2, <1>3, <1>4, <1>5, <1>6, <1>7, <1>8, <1>9 DEF Next, Parser

LEMMA BatchInvInit == Init => BatchInv
  BY DEF Init, BatchInv, LinesInv, Emptied

\* While the file is not stale, nothing is inserted of what the checkpoint
\* covers, and the checkpoint moves on or its file is torn.
LEMMA NotAgain ==
    ASSUME IInv, BatchInv, [Next]_vars, ~stale
    PROVE  /\ \A i \in DOMAIN file :
                2 * i <= saved /\ IsRow(file[i]) => inserted'[file[i]] = inserted[file[i]]
           /\ saved' >= saved \/ saved' = NoCheckpoint
  <1>a. /\ TypeInv /\ offset \in Nat /\ pending \in Nat /\ saved \in Int
        /\ Size \in Nat /\ (pc = "reset" => stale)
    BY SizeType DEF IInv, CheckpointInv, TypeInv, TypeOK, NoCheckpoint
  <1>1. ASSUME Store, pc # "down", NEW i \in DOMAIN file, 2 * i <= saved, IsRow(file[i])
        PROVE  inserted'[file[i]] = inserted[file[i]]
    <2>1. i \in Nat /\ file[i] \in Lines /\ inserted[file[i]] \in Nat
      BY <1>a, <1>1, RowsAreLines DEF TypeInv, TypeOK
    <2>2. batch[file[i]] = 0
      BY <1>a, <1>1, <2>1 DEF BatchInv, Ahead
    <2> QED
      BY <1>1, <2>1, <2>2 DEF Store
  <1>2. CASE Flush \/ FlushFails \/ Drain \/ DrainFails
    <2>1. UNCHANGED saved /\ (Store \/ UNCHANGED inserted) /\ pc # "down"
      BY <1>2 DEF Flush, FlushFails, Drain, DrainFails, tailer
    <2> QED
      BY <1>1, <1>a, <2>1
  <1>3. CASE Start
    BY <1>3, <1>a DEF Start, Resume, StartAtEnd, StartEmpty, NoCheckpoint
  <1>4. CASE CommitFlush \/ Settle \/ SettleFails
    <2>1. /\ UNCHANGED inserted /\ pc \in {"commit", "settle"}
          /\ saved' \in {saved, NoCheckpoint} \/ (pending > 0 /\ saved' = pending)
      BY <1>4 DEF CommitFlush, Settle, SettleFails, Commit, Torn, history
    <2> QED
      BY <1>a, <2>1 DEF BatchInv, Ahead
  <1>5. CASE Reset \/ ResetFails
    BY <1>5, <1>a DEF Reset, ResetFails
  <1>6. CASE Crash \/ CommitFlushFails
    BY <1>6, <1>a DEF Crash, CommitFlushFails, Torn, history
  <1>7. CASE UNCHANGED <<saved, inserted>>
    BY <1>7, <1>a
  <1> QED
    BY <1>2, <1>3, <1>4, <1>5, <1>6, <1>7
       DEF Next, Parser, vars, tailer, history, StartLine, EndLine, FlushDue, RotateDue, Poll,
           Postpone, NoRotation, ReadRest, Compare, Truncate, RotationFails

\* What a checkpoint has covered is not inserted again, for any number of
\* lines, batches, restarts, torn checkpoints and failed insertions: what
\* waits in the batch lies beyond the offset, and the checkpoint is never
\* ahead of the offset (Tailer.read_lines, commit, the loop of main).
THEOREM InsertedOnceCovered == Spec => CheckpointedNotReinserted
  <1>1. IInv /\ BatchInv /\ [Next]_vars => BatchInv'
    <2> SUFFICES ASSUME IInv, BatchInv, [Next]_vars PROVE BatchInv'
      OBVIOUS
    <2>1. TypeInv' /\ LinesInv' /\ Emptied'
      BY TypeNext, LinesNext, EmptiedNext DEF IInv, BatchInv
    <2> QED
      BY <2>1, AheadNext DEF BatchInv
  <1>2. IInv /\ BatchInv /\ [Next]_vars =>
          [~stale =>
             /\ \A i \in DOMAIN file :
                  2 * i <= saved /\ IsRow(file[i]) => inserted'[file[i]] = inserted[file[i]]
             /\ saved' >= saved \/ saved' = NoCheckpoint]_vars
    BY NotAgain
  <1> QED
    BY <1>1, <1>2, IInvariant, BatchInvInit, PTL DEF Spec, CheckpointedNotReinserted

\* The rotation decides to truncate only what flow_raw has, for any number of
\* lines, batches and faults: the offset it compares with the size covers
\* only lines that are settled (the comparison of main before the copy).
THEOREM TruncatedIsInserted == Spec => TruncatesOnlyInserted
  <1>1. ASSUME IInv, [Next]_vars, pc = "compare", pc' = "truncate", ~stale
        PROVE  /\ \A l \in Lines : InFile(l) => Settled(l)
               /\ tail = "half" => Settled(written + 1)
    <2>1. Compare
      BY <1>1 DEF Next, Parser, vars, StartLine, EndLine, FlushDue, RotateDue, Start, Poll,
         Postpone, Flush, CommitFlush, NoRotation, ReadRest, Drain, Settle, Truncate, Reset,
         Crash, FlushFails, CommitFlushFails, DrainFails, SettleFails, RotationFails, ResetFails,
         Die
    <2>2. TypeInv /\ StoredBelow(offset) /\ offset >= Size /\ offset \in Nat /\ Size \in Nat
      BY <1>1, <2>1, SizeType DEF Compare, IInv, CheckpointInv, TypeInv, TypeOK
    <2>3. ASSUME NEW i \in DOMAIN file
          PROVE  Covers(offset, i)
      BY <2>2, SizeType DEF Covers, TypeInv, TypeOK
    <2>4. tail = "half" => Covers(offset, Len(file) + 1)
      BY <2>2, SizeType DEF Covers, Size
    <2> QED
      BY <2>2, <2>3, <2>4 DEF StoredBelow, InFile, Settled
  <1>2. IInv /\ [Next]_vars =>
          [pc = "compare" /\ pc' = "truncate" /\ ~stale =>
             /\ \A l \in Lines : InFile(l) => Settled(l)
             /\ tail = "half" => Settled(written + 1)]_vars
    BY <1>1
  <1> QED
    BY <1>2, IInvariant, PTL DEF Spec, TruncatesOnlyInserted
=============================================================================
