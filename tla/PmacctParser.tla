---------------------------- MODULE PmacctParser ----------------------------
(***************************************************************************)
(* One pmacct spool file and the parser that tails it                      *)
(* (collector/pmacct/parse_pmacct.py): nfacctd appends lines, the parser   *)
(* reads what lies past its offset, batches the rows, inserts them in      *)
(* flow_raw, saves the offset as its checkpoint, and truncates the file    *)
(* when it has grown too large.                                            *)
(*                                                                         *)
(* A line is an identifier, a row is the line it was parsed from, and      *)
(* bytes are counted in half lines, so that the end of the file can lie    *)
(* inside a line.  Left out: the parsing of a line (Skipped holds the      *)
(* lines it yields no row for), the status file, the compressed copies     *)
(* (never read again), and a spool file replaced by another program (the   *)
(* inode comparison of read_lines: rotation here keeps the inode).         *)
(***************************************************************************)
EXTENDS Integers, Sequences, Functions

CONSTANTS
    MaxLines,       \* bound: lines nfacctd writes
    Skipped,        \* lines that yield no row (header, comment, malformed)
    BatchSize,      \* PMACCT_PARSER_BATCH_SIZE
    Rotates,        \* GMJFLOW_PMACCT_ROTATE_ENABLED
    RotateSize,     \* GMJFLOW_PMACCT_ROTATE_MAX_MB, in half lines
    FaultKinds,     \* which faults may happen
    MaxFaults       \* bound: faults in a behaviour

Lines == 1..MaxLines
Fragment == 0       \* the rest of a line whose beginning was truncated away
NoCheckpoint == -1  \* no state file, or one that does not parse

ASSUME ParserAssumption ==
    /\ MaxLines \in Nat /\ RotateSize \in Nat /\ MaxFaults \in Nat
    /\ BatchSize \in Nat \ {0}
    /\ Skipped \subseteq Lines
    /\ Rotates \in BOOLEAN
    /\ FaultKinds \subseteq {"crash", "insert", "rotate", "checkpoint"}

VARIABLES
    file,       \* the complete lines of the spool file
    tail,       \* "none", "half": a line begun, "owed": its rest still to come
                \* after the truncation took its beginning
    exists,     \* whether the spool file exists
    written,    \* lines nfacctd completed
    pc,         \* where the parser stands; "down" when it does not run
    batch,      \* rows of each line read and not inserted
    offset,     \* Tailer.offset
    pending,    \* Tailer.pending_offset
    saved,      \* the offset in the state file, or NoCheckpoint
    due,        \* flush_seconds have passed since last_flush
    check,      \* rotate_check_seconds have passed since last_rotate_check
    inserted,   \* history: rows of each line in flow_raw
    waived,     \* history: lines a start at end of file passed over
    stale,      \* history: the file was truncated, its offsets not yet reset
    faults      \* faults so far

spool == <<file, tail, exists, written, stale>>
tailer == <<offset, pending, saved>>
timers == <<due, check>>
history == <<inserted, waived>>
vars == <<spool, pc, batch, tailer, timers, history, faults>>

Size == 2 * Len(file) + (IF tail = "half" THEN 1 ELSE 0)

NoRows == [l \in Lines |-> 0]

\* len(batch)
Rows(b) == FoldFunction(+, 0, b)

IsRow(line) == line \notin Skipped \union {Fragment}

Init ==
    /\ file = <<>> /\ tail = "none" /\ exists \in BOOLEAN /\ written = 0
    /\ pc = "down" /\ batch = NoRows
    /\ offset = 0 /\ pending = 0 /\ saved = NoCheckpoint
    /\ due = FALSE /\ check = FALSE
    /\ inserted = NoRows /\ waived = {} /\ stale = FALSE
    /\ faults = 0

-----------------------------------------------------------------------------
(* nfacctd, appending through a buffer that may end inside a line.         *)

StartLine ==
    /\ tail = "none"
    /\ written < MaxLines
    /\ tail' = "half"
    /\ exists' = TRUE
    /\ UNCHANGED <<file, written, stale, pc, batch, tailer, timers, history, faults>>

EndLine ==
    /\ tail # "none"
    /\ file' = Append(file, IF tail = "half" THEN written + 1 ELSE Fragment)
    /\ tail' = "none"
    /\ written' = written + 1
    /\ UNCHANGED <<exists, stale, pc, batch, tailer, timers, history, faults>>

-----------------------------------------------------------------------------
(* Tailer.  A definition marked "Slip" is a mistake the runs must notice;   *)
(* no action uses it.                                                      *)

\* Slip: the size is not looked at.
ReadFromOffset(o) == o

\* read_lines from offset o; size < o means the file was truncated.
ReadFrom(o) == IF Size < o THEN 0 ELSE o

\* The complete lines past o.  One whose beginning lies before o is a
\* fragment, which parses to no row of its line.
Unread(o) == {file[i] : i \in {k \in DOMAIN file : 2 * (k - 1) >= o}}

\* main: the rows of the lines read are appended to the batch.
Collect(o) ==
    batch' = [l \in Lines |->
        IF l \in Unread(o) /\ IsRow(l) THEN batch[l] + 1 ELSE batch[l]]

\* Slip: pending_offset counts from where the reading began.
ReadLinesRelative ==
    LET o == ReadFrom(offset) IN
    /\ offset' = o
    /\ pending' = IF 2 * Len(file) <= o THEN pending ELSE 2 * Len(file) - o
    /\ Collect(o)

\* read_lines: with no data pending_offset keeps its value, with no newline
\* it is the offset.
ReadLines ==
    LET o == ReadFrom(offset) IN
    /\ offset' = o
    /\ pending' = IF Size = o THEN pending
                  ELSE IF 2 * Len(file) <= o THEN o ELSE 2 * Len(file)
    /\ Collect(o)

\* Slip: the size of the file is saved, not the offset read to.
CommitSize == offset' = Size /\ saved' = Size

\* commit(force = FALSE): nothing read since the start, nothing saved.
Commit ==
    IF pending > 0
    THEN offset' = pending /\ saved' = pending
    ELSE UNCHANGED <<offset, saved>>

\* insert_batch: every row of the batch is one more row of its line.
Store == inserted' = [l \in Lines |-> inserted[l] + batch[l]]

-----------------------------------------------------------------------------
(* The process.                                                            *)

Fault(kind) ==
    /\ kind \in FaultKinds
    /\ faults < MaxFaults
    /\ faults' = faults + 1

\* Slip: the end of the file is taken although there is a checkpoint.
ResumeAtEnd ==
    /\ saved # NoCheckpoint
    /\ offset' = Size
    /\ pending' = 0
    /\ UNCHANGED <<saved, waived>>

\* Tailer.__init__ and the start of main: resume at the checkpoint; without
\* one, an existing file is taken up at its end and that is saved at once.
Resume ==
    /\ saved # NoCheckpoint
    /\ offset' = saved
    /\ pending' = 0
    /\ UNCHANGED <<saved, waived>>

StartAtEnd ==
    /\ saved = NoCheckpoint
    /\ exists
    /\ offset' = Size /\ pending' = Size /\ saved' = Size
    /\ waived' = waived
            \union {l \in Lines : \E i \in DOMAIN file : file[i] = l}
            \union (IF tail = "half" THEN {written + 1} ELSE {})

StartEmpty ==
    /\ saved = NoCheckpoint
    /\ ~exists
    /\ offset' = 0 /\ pending' = 0
    /\ UNCHANGED <<saved, waived>>

Start ==
    /\ pc = "down"
    /\ Resume \/ StartAtEnd \/ StartEmpty
    /\ pc' = "poll"
    /\ batch' = NoRows
    /\ due' = FALSE
    /\ check' = Rotates
    /\ UNCHANGED <<spool, inserted, faults>>

\* The process ends and what it held in memory is gone.
Die ==
    /\ pc' = "down"
    /\ batch' = NoRows
    /\ offset' = 0 /\ pending' = 0
    /\ due' = FALSE /\ check' = FALSE

\* The state file is written in place: a write that is cut short leaves it
\* empty, which load_state takes for no checkpoint.
Torn == saved' \in {saved, NoCheckpoint}

Crash ==
    /\ pc # "down"
    /\ Fault("crash")
    /\ Die
    /\ IF pc \in {"commit", "settle", "reset"} THEN Torn ELSE UNCHANGED saved
    /\ UNCHANGED <<spool, history>>

FlushDue ==
    /\ pc # "down" /\ ~due
    /\ due' = TRUE
    /\ UNCHANGED <<spool, pc, batch, tailer, check, history, faults>>

RotateDue ==
    /\ pc # "down" /\ Rotates /\ ~check
    /\ check' = TRUE
    /\ UNCHANGED <<spool, pc, batch, tailer, due, history, faults>>

-----------------------------------------------------------------------------
(* One cycle of main: poll, flush, commit, rotate.                         *)

Poll ==
    /\ pc = "poll"
    /\ ReadLines
    /\ pc' = "flush"
    /\ UNCHANGED <<spool, saved, timers, history, faults>>

MustFlush == batch # NoRows /\ (Rows(batch) >= BatchSize \/ due)

\* The rows read stay in the batch, the offset stays where it was.
Postpone ==
    /\ pc = "flush"
    /\ ~MustFlush
    /\ pc' = "rotate"
    /\ UNCHANGED <<spool, batch, tailer, timers, history, faults>>

Flush ==
    /\ pc = "flush"
    /\ MustFlush
    /\ Store
    /\ batch' = NoRows
    /\ pc' = "commit"
    /\ UNCHANGED <<spool, tailer, timers, waived, faults>>

\* insert_batch raises outside any try: the process ends, the rows may have
\* been stored (a lost answer).
FlushFails ==
    /\ pc = "flush"
    /\ MustFlush
    /\ Fault("insert")
    /\ Store \/ UNCHANGED inserted
    /\ Die
    /\ UNCHANGED <<spool, saved, waived>>

CommitFlush ==
    /\ pc = "commit"
    /\ Commit
    /\ due' = FALSE
    /\ pc' = "rotate"
    /\ UNCHANGED <<spool, batch, pending, check, history, faults>>

\* Writing the state file raises outside any try.
CommitFlushFails ==
    /\ pc = "commit"
    /\ pending > 0
    /\ Fault("checkpoint")
    /\ Torn
    /\ Die
    /\ UNCHANGED <<spool, history>>

-----------------------------------------------------------------------------
(* Rotation: read the rest, insert it, compare, copy and truncate, reset.  *)

TooLarge == exists /\ Size >= RotateSize

NoRotation ==
    /\ pc = "rotate"
    /\ ~(check /\ TooLarge)
    /\ check' = FALSE
    /\ pc' = "poll"
    /\ UNCHANGED <<spool, batch, tailer, due, history, faults>>

ReadRest ==
    /\ pc = "rotate"
    /\ check /\ TooLarge
    /\ check' = FALSE
    /\ ReadLines
    /\ pc' = "drain"
    /\ UNCHANGED <<spool, saved, due, history, faults>>

\* last_flush is not touched here.
Drain ==
    /\ pc = "drain"
    /\ Store
    /\ batch' = NoRows
    /\ pc' = "settle"
    /\ UNCHANGED <<spool, tailer, timers, waived, faults>>

\* Slip: the exception is caught around the insertion alone.
DrainFailsAndGoesOn ==
    /\ pc = "drain"
    /\ batch # NoRows
    /\ Fault("insert")
    /\ batch' = NoRows
    /\ pc' = "settle"
    /\ UNCHANGED <<spool, tailer, timers, history>>

\* The exception is caught: the batch is kept, the cycle goes on.
DrainFails ==
    /\ pc = "drain"
    /\ batch # NoRows
    /\ Fault("insert")
    /\ Store \/ UNCHANGED inserted
    /\ pc' = "poll"
    /\ UNCHANGED <<spool, batch, tailer, timers, waived>>

Settle ==
    /\ pc = "settle"
    /\ Commit
    /\ pc' = "compare"
    /\ UNCHANGED <<spool, batch, pending, timers, history, faults>>

\* commit moves the offset in memory before it writes; the exception is
\* caught.
SettleFails ==
    /\ pc = "settle"
    /\ pending > 0
    /\ Fault("checkpoint")
    /\ offset' = pending
    /\ Torn
    /\ pc' = "poll"
    /\ UNCHANGED <<spool, batch, pending, timers, history>>

\* Slip: the comparison is left out.
CompareNothing ==
    /\ pc = "compare"
    /\ pc' = "truncate"
    /\ UNCHANGED <<spool, batch, tailer, timers, history, faults>>

\* What has been appended since the reading makes the rotation wait.
Compare ==
    /\ pc = "compare"
    /\ pc' = IF offset >= Size THEN "truncate" ELSE "poll"
    /\ UNCHANGED <<spool, batch, tailer, timers, history, faults>>

Truncate ==
    /\ pc = "truncate"
    /\ file' = <<>>
    /\ tail' = IF tail = "half" THEN "owed" ELSE tail
    /\ stale' = TRUE
    /\ pc' = "reset"
    /\ UNCHANGED <<exists, written, batch, tailer, timers, history, faults>>

\* The copy failed before the truncation, or the compression after it; both
\* are caught, and the second leaves the offsets of the old contents.
RotationFails ==
    /\ pc \in {"truncate", "reset"}
    /\ Fault("rotate")
    /\ pc' = "poll"
    /\ UNCHANGED <<spool, batch, tailer, timers, history>>

Reset ==
    /\ pc = "reset"
    /\ offset' = 0 /\ pending' = 0 /\ saved' = 0
    /\ stale' = FALSE
    /\ pc' = "poll"
    /\ UNCHANGED <<file, tail, exists, written, batch, timers, history, faults>>

ResetFails ==
    /\ pc = "reset"
    /\ Fault("checkpoint")
    /\ offset' = 0 /\ pending' = 0
    /\ Torn
    /\ pc' = "poll"
    /\ UNCHANGED <<spool, batch, timers, history>>

Parser ==
    \/ Start \/ Poll \/ Postpone \/ Flush \/ CommitFlush
    \/ NoRotation \/ ReadRest \/ Drain \/ Settle \/ Compare \/ Truncate \/ Reset

Next ==
    \/ StartLine \/ EndLine
    \/ FlushDue \/ RotateDue
    \/ Parser
    \/ Crash \/ FlushFails \/ CommitFlushFails
    \/ DrainFails \/ SettleFails \/ RotationFails \/ ResetFails

Spec == Init /\ [][Next]_vars

\* The container is restarted (restart: unless-stopped), the loop of main
\* runs on, and time passes.
FairSpec == Spec /\ WF_vars(Parser) /\ WF_vars(FlushDue)

-----------------------------------------------------------------------------
(* Properties.                                                             *)

\* Every variable has its type; the offset in memory never exceeds all that
\* was ever written (Tailer, main).
TypeOK ==
    /\ file \in Seq(Lines \union {Fragment})
    /\ tail \in {"none", "half", "owed"}
    /\ exists \in BOOLEAN
    /\ written \in 0..MaxLines
    /\ pc \in {"down", "poll", "flush", "commit", "rotate", "drain", "settle",
              "compare", "truncate", "reset"}
    /\ batch \in [Lines -> Nat]
    /\ offset \in 0..(2 * MaxLines) /\ pending \in 0..(2 * MaxLines)
    /\ saved \in {NoCheckpoint} \union 0..(2 * MaxLines)
    /\ due \in BOOLEAN /\ check \in BOOLEAN
    /\ inserted \in [Lines -> Nat]
    /\ waived \subseteq Lines /\ stale \in BOOLEAN
    /\ faults \in 0..MaxFaults

InFile(l) == \E i \in DOMAIN file : file[i] = l

\* A line that needs nothing more: it is in flow_raw, yields no row, or was
\* passed over by a start at the end of the file.
Settled(l) == ~IsRow(l) \/ inserted[l] > 0 \/ l \in waived

\* A restart cannot skip a line: whatever lies below the checkpoint has been
\* inserted, whenever the process ends (insert before commit in main).  The
\* exception is a rotation that fails between the truncation and the reset
\* and leaves a checkpoint of other contents (stale), until the next one.
CheckpointIsInserted ==
    ~stale => \A i \in DOMAIN file : 2 * i <= saved => Settled(file[i])

\* What a checkpoint has covered is not inserted again, across restarts,
\* failed insertions and repeated readings: no insertion below it, and it
\* moves back only when its file is torn or the spool is truncated
\* (Tailer.load_state, read_lines, commit).
CheckpointedNotReinserted ==
    [][~stale =>
         /\ \A i \in DOMAIN file :
              2 * i <= saved /\ IsRow(file[i]) => inserted'[file[i]] = inserted[file[i]]
         /\ saved' >= saved \/ saved' = NoCheckpoint]_vars

\* The rotation decides to truncate only when every line then in the file is
\* in flow_raw, the one being written included (the comparison of main), also
\* after an insertion failed in an earlier rotation.
TruncatesOnlyInserted ==
    [][pc = "compare" /\ pc' = "truncate" /\ ~stale =>
         /\ \A l \in Lines : InFile(l) => Settled(l)
         /\ tail = "half" => Settled(written + 1)]_vars

\* Every line of the file reaches flow_raw in the end, a last small batch
\* included (flush_seconds), or was passed over at a start; unless it came
\* between the decision to truncate and the truncation, or a rotation failed
\* after it (stale).
EveryLineSettles ==
    \A l \in Lines : InFile(l) ~> Settled(l) \/ ~InFile(l) \/ stale

\* The parser never stays beyond the end of the file: after a truncation it
\* lost track of, it takes the file up from the beginning (read_lines).
FindsTheFileAgain == (offset > Size) ~> (offset <= Size)

\* A flow received once is one row (docs/collectors.md: GMJ-FLOW accounts
\* only for the flows received).
CountedOnce == \A l \in Lines : inserted[l] <= 1
=============================================================================
