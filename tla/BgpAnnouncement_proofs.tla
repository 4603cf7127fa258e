------------------------ MODULE BgpAnnouncement_proofs ------------------------
(***************************************************************************)
(* Type correctness of BgpAnnouncement, one live row per key, closed rows, *)
(* and the table the automatic mitigation worker is specified against, for *)
(* every number of rows, every set of threads and every number of faults.  *)
(***************************************************************************)
EXTENDS BgpTable, TLAPS

Pcs == {"none", "ready", "claimed", "sent", "compensate", "undo"}

(* Effects of the row updates on the row they touch. *)

LEMMA NoRowType == NoRow \in Row
<1>1. (CHOOSE n \in Nlris : TRUE) \in Nlris /\ (CHOOSE a \in Actions : TRUE) \in Actions
  BY RulesAssumption
<1>. QED
  BY <1>1 DEF NoRow, NewRow, Row, Statuses, Levels, Claims, NoClaim

LEMMA NewRowType ==
  ASSUME NEW s \in Statuses, NEW l \in Levels, NEW n \in Nlris, NEW a \in Actions,
         NEW auto \in BOOLEAN, NEW w \in BOOLEAN
  PROVE  NewRow(s, l, n, a, auto, w) \in Row
BY DEF NewRow, Row, Claims, NoClaim

LEMMA TransitionedType ==
  ASSUME NEW row \in Row, NEW s \in Statuses, NEW l \in Levels
  PROVE  /\ Transitioned(row, s, l) \in Row
         /\ Transitioned(row, s, l).status = s
         /\ Transitioned(row, s, l).level = l
         /\ Transitioned(row, s, l).nlri = row.nlri
         /\ Transitioned(row, s, l).action = row.action
         /\ Transitioned(row, s, l).withdrawOnly = row.withdrawOnly
         /\ Transitioned(row, s, l).sendToken = row.sendToken
         /\ Transitioned(row, s, l).sent = (row.sent \/ s = "sent")
         /\ Transitioned(row, s, l).advertised = (row.advertised \/ s = "advertised")
         /\ Transitioned(row, s, l).expiry = NextExpiry(row, s)
<1>1. NextExpiry(row, s) \in {"unset", "running", "elapsed"}
  BY DEF NextExpiry, Row
<1>. QED
  BY <1>1 DEF Transitioned, Row

LEMMA RowUpdates ==
  ASSUME NEW row \in Row
  PROVE  /\ [row EXCEPT !.recent = FALSE] \in Row
         /\ [row EXCEPT !.expiry = "elapsed"] \in Row
         /\ [row EXCEPT !.status = "peer_down", !.recent = TRUE] \in Row
<1>1. [row EXCEPT !.recent = FALSE] \in Row
  BY DEF Row
<1>2. [row EXCEPT !.expiry = "elapsed"] \in Row
  BY DEF Row
<1>3. [row EXCEPT !.status = "peer_down", !.recent = TRUE] \in Row
  BY DEF Row, Statuses
<1>. QED
  BY <1>1, <1>2, <1>3

LEMMA SendClaimedType ==
  ASSUME NEW row \in Row
  PROVE  LET new == SendClaimed(row) IN
         /\ new \in Row
         /\ new.status = row.status /\ new.nlri = row.nlri
         /\ new.action = row.action /\ new.withdrawOnly = row.withdrawOnly
         /\ new.sent = row.sent /\ new.advertised = row.advertised
         /\ new.level = "delivery_attempted" /\ new.sendToken
         /\ new.expiry # "unset"
<1>. DEFINE e == IF row.expiry = "unset" THEN "running" ELSE row.expiry
<1>1. e \in {"running", "elapsed"}
  BY DEF Row
<1>2. SendClaimed(row) = [row EXCEPT !.level = "delivery_attempted", !.sendToken = TRUE,
                                     !.expiry = e, !.recent = TRUE]
  BY DEF SendClaimed
<1>. HIDE DEF e
<1>. QED
  BY <1>1, <1>2 DEF Row, Levels

LEMMA TransitionType ==
  ASSUME NEW r \in Ids, ann \in [Ids -> Row], NEW s \in Statuses, NEW l \in Levels,
         Transition(r, s, l)
  PROVE  /\ ann' \in [Ids -> Row]
         /\ ann'[r] = Transitioned(ann[r], s, l)
         /\ \A q \in Ids : q # r => ann'[q] = ann[q]
BY TransitionedType DEF Transition

LEMMA CancelType ==
  ASSUME NEW r \in Ids, ann \in [Ids -> Row], NEW s \in Statuses, NEW l \in Levels,
         CancelDelivery(r, s, l)
  PROVE  /\ ann' \in [Ids -> Row]
         /\ \A q \in Ids : q # r => ann'[q] = ann[q]
         /\ ann'[r].status = s
         /\ ann'[r].level = l
         /\ ann'[r].nlri = ann[r].nlri
         /\ ann'[r].action = ann[r].action
         /\ ann'[r].withdrawOnly = ann[r].withdrawOnly
         /\ ann'[r].sent = (ann[r].sent \/ s = "sent")
         /\ ann'[r].advertised = (ann[r].advertised \/ s = "advertised")
<1>1. ann[r] \in Row
  OBVIOUS
<1>2. Transitioned(ann[r], s, l) \in Row
  BY <1>1, TransitionedType
<1>3. [Transitioned(ann[r], s, l) EXCEPT !.sendToken = FALSE] \in Row
  BY <1>2 DEF Row
<1>4. ann'[r] = [Transitioned(ann[r], s, l) EXCEPT !.sendToken = FALSE]
  BY DEF CancelDelivery
<1>5. ann' \in [Ids -> Row] /\ \A q \in Ids : q # r => ann'[q] = ann[q]
  BY <1>3 DEF CancelDelivery
<1>6. LET t == Transitioned(ann[r], s, l) IN
        /\ ann'[r].status = t.status /\ ann'[r].level = t.level
        /\ ann'[r].nlri = t.nlri /\ ann'[r].action = t.action
        /\ ann'[r].withdrawOnly = t.withdrawOnly
        /\ ann'[r].sent = t.sent /\ ann'[r].advertised = t.advertised
  BY <1>2, <1>4 DEF Row
<1>. QED
  BY <1>1, <1>5, <1>6, TransitionedType

LEMMA PersistType ==
  ASSUME NEW r \in Ids, ann \in [Ids -> Row], NEW c \in Claims, PersistIntent(r, c)
  PROVE  /\ ann' \in [Ids -> Row]
         /\ \A q \in Ids : q # r => ann'[q] = ann[q]
         /\ ann'[r].level = "withdraw_requested"
         /\ ann'[r].status = ann[r].status
         /\ ann'[r].nlri = ann[r].nlri
         /\ ann'[r].action = ann[r].action
         /\ ann'[r].withdrawOnly = ann[r].withdrawOnly
         /\ ann'[r].sendToken = ann[r].sendToken
         /\ ann'[r].sent = ann[r].sent
         /\ ann'[r].advertised = ann[r].advertised
         /\ ann'[r].expiry = ann[r].expiry
<1>1. ann[r] \in Row
  OBVIOUS
<1>. DEFINE new == [ann[r] EXCEPT !.level = "withdraw_requested",
                                  !.claim = c, !.recent = TRUE]
<1>2. new \in Row
  BY <1>1 DEF Row, Levels
<1>3. /\ new.level = "withdraw_requested" /\ new.status = ann[r].status
      /\ new.nlri = ann[r].nlri /\ new.action = ann[r].action
      /\ new.withdrawOnly = ann[r].withdrawOnly
      /\ new.sendToken = ann[r].sendToken
      /\ new.sent = ann[r].sent /\ new.advertised = ann[r].advertised
      /\ new.expiry = ann[r].expiry
  BY <1>1 DEF Row
<1>4. ann' = [ann EXCEPT ![r] = new]
  BY DEF PersistIntent
<1>. HIDE DEF new
<1>5. ann' \in [Ids -> Row] /\ ann'[r] = new /\ \A q \in Ids : q # r => ann'[q] = ann[q]
  BY <1>2, <1>4
<1>. QED
  BY <1>3, <1>5

LEMMA FinishEffect ==
  ASSUME NEW r \in Ids, ann \in [Ids -> Row], route \in [Nlris -> 0 .. MaxRows],
         faults \in 0 .. MaxFaults, NEW target \in Statuses, NEW omit \in BOOLEAN,
         FinishWithdraw(r, target, omit)
  PROVE  /\ ann' \in [Ids -> Row]
         /\ \A q \in Ids : q # r => ann'[q] = ann[q]
         /\ route' \in [Nlris -> 0 .. MaxRows]
         /\ faults' \in 0 .. MaxFaults
<1>1. ann[r].nlri \in Nlris
  BY DEF Row
<1>2. /\ ann' \in [Ids -> Row]
      /\ \A q \in Ids : q # r => ann'[q] = ann[q]
  <2>1. CASE Transition(r, target, "superseded_by_newer_delivery")
    BY <2>1, TransitionType DEF Levels
  <2>2. CASE Transition(r, target, "withdrawn")
    BY <2>2, TransitionType DEF Levels
  <2>3. CASE Transition(r, "failed_withdraw", "withdraw_failed")
    BY <2>3, TransitionType DEF Levels, Statuses
  <2>. QED
    BY <2>1, <2>2, <2>3 DEF FinishWithdraw
<1>3. route' \in [Nlris -> 0 .. MaxRows]
  BY <1>1, MaxRowsAssumption DEF FinishWithdraw, PipeWithdraw
<1>4. faults' \in 0 .. MaxFaults
  BY MaxFaultsAssumption DEF FinishWithdraw, Fault
<1>. QED
  BY <1>2, <1>3, <1>4

-----------------------------------------------------------------------------
(* Type correctness.  A thread that is not idle has a row of its own.       *)

LEMMA JobClaimed ==
  ASSUME Typed, NEW p \in Withdrawers, NEW r \in Ids, NEW seen \in Statuses,
         Claimed(p, r, seen)
  PROVE  /\ job' \in [Withdrawers -> [pc : {"idle", "inserted", "claimed"},
                                      row : 0 .. MaxRows, seen : Statuses]]
         /\ JobHasRow'
BY MaxRowsAssumption DEF Claimed, Typed, TypeOK, JobHasRow, Ids

LEMMA JobReleased ==
  ASSUME Typed, NEW p \in Withdrawers, Release(p)
  PROVE  /\ job' \in [Withdrawers -> [pc : {"idle", "inserted", "claimed"},
                                      row : 0 .. MaxRows, seen : Statuses]]
         /\ JobHasRow'
BY MaxRowsAssumption DEF Release, Idle, Typed, TypeOK, JobHasRow, Ids, Statuses

LEMMA TypedInit == Init => Typed
<1>. SUFFICES ASSUME Init PROVE Typed
  OBVIOUS
<1>1. ann \in [Ids -> Row]
  BY NoRowType DEF Init
<1>2. job \in [Withdrawers -> [pc : {"idle", "inserted", "claimed"},
                               row : 0 .. MaxRows, seen : Statuses]]
  BY MaxRowsAssumption DEF Init, Idle, Statuses
<1>3. JobHasRow
  BY DEF Init, Idle, JobHasRow
<1>. QED
  BY <1>1, <1>2, <1>3, MaxRowsAssumption, MaxFaultsAssumption DEF Init, Typed, TypeOK

LEMMA InsertTyped ==
  ASSUME Typed, NEW n \in Nlris, NEW a \in Actions, NEW auto \in BOOLEAN,
         NEW s \in Statuses, NEW l \in Levels, Insert(s, l, n, a, auto)
  PROVE  /\ ann' \in [Ids -> Row] /\ rows' \in 0 .. MaxRows /\ rows + 1 \in Ids
         /\ ann' = [ann EXCEPT ![rows + 1] = NewRow(s, l, n, a, auto, FALSE)]
<1>1. rows + 1 \in Ids /\ rows + 1 \in 0 .. MaxRows
  BY MaxRowsAssumption DEF Insert, Typed, TypeOK, Ids
<1>2. NewRow(s, l, n, a, auto, FALSE) \in Row
  BY NewRowType
<1>. QED
  BY <1>1, <1>2 DEF Insert, Typed, TypeOK

LEMMA CreationTyped ==
  ASSUME Typed, NEW n \in Nlris, NEW a \in Actions,
         \/ \E auto \in BOOLEAN : InsertQueued(n, a, auto)
         \/ InsertUndelivered(n, a)
  PROVE  Typed'
<1>1. CASE \E auto \in BOOLEAN : InsertQueued(n, a, auto)
  <2>1. PICK auto \in BOOLEAN : InsertQueued(n, a, auto)
    BY <1>1
  <2>2. ann' \in [Ids -> Row] /\ rows' \in 0 .. MaxRows /\ rows + 1 \in Ids
    BY <2>1, InsertTyped DEF InsertQueued, Statuses, Levels
  <2>3. att' \in [Ids -> Pcs] /\ UNCHANGED <<job, due, asked, route, faults>>
    BY <2>1, <2>2 DEF InsertQueued, Insert, Typed, TypeOK, Pcs
  <2>. QED
    BY <2>2, <2>3 DEF Typed, TypeOK, JobHasRow, Pcs
<1>2. CASE InsertUndelivered(n, a)
  <2>1. ann' \in [Ids -> Row] /\ rows' \in 0 .. MaxRows
    BY <1>2, InsertTyped DEF InsertUndelivered, Statuses, Levels
  <2>2. UNCHANGED <<att, job, due, asked, route, faults>>
    BY <1>2 DEF InsertUndelivered, Insert
  <2>. QED
    BY <2>1, <2>2 DEF Typed, TypeOK, JobHasRow
<1>. QED
  BY <1>1, <1>2

LEMMA DeliveryTyped ==
  ASSUME Typed, NEW r \in Ids, Delivery(r)
  PROVE  Typed'
<1>1. ann[r] \in Row /\ ann[r].nlri \in Nlris
  BY DEF Typed, TypeOK, Row
<1>2. \A pc \in Pcs : AttemptTo(r, pc) => att' \in [Ids -> Pcs]
  BY DEF AttemptTo, Typed, TypeOK, Pcs
<1>3. PipeAnnounce(r) \/ PipeWithdraw(r) \/ UNCHANGED route
        => route' \in [Nlris -> 0 .. MaxRows]
  <2>1. r \in 0 .. MaxRows /\ 0 \in 0 .. MaxRows
    BY MaxRowsAssumption DEF Ids
  <2>2. route \in [Nlris -> 0 .. MaxRows]
    BY DEF Typed, TypeOK
  <2>. QED
    BY <1>1, <2>1, <2>2 DEF PipeAnnounce, PipeWithdraw
<1>4. Fault \/ UNCHANGED faults => faults' \in 0 .. MaxFaults
  BY MaxFaultsAssumption DEF Fault, Typed, TypeOK
<1>5. CASE SendIntent(r)
  <2>1. ann' \in [Ids -> Row]
    BY <1>5, <1>1, SendClaimedType DEF SendIntent, Typed, TypeOK
  <2>. QED
    BY <1>5, <1>2, <2>1 DEF SendIntent, Pcs, Typed, TypeOK, JobHasRow
<1>6. CASE NotReady(r)
  <2>1. ann' \in [Ids -> Row]
    BY <1>6, CancelType DEF NotReady, Typed, TypeOK, Statuses, Levels
  <2>. QED
    BY <1>6, <1>2, <2>1 DEF NotReady, Pcs, Typed, TypeOK, JobHasRow
<1>7. CASE Deliver(r)
  <2>1. ann' \in [Ids -> Row]
    BY <1>7, CancelType, TransitionType DEF Deliver, Typed, TypeOK, Statuses, Levels
  <2>2. route' \in [Nlris -> 0 .. MaxRows] /\ faults' \in 0 .. MaxFaults
    BY <1>7, <1>3, <1>4 DEF Deliver
  <2>. QED
    BY <1>7, <1>2, <2>1, <2>2 DEF Deliver, Pcs, Typed, TypeOK, JobHasRow
<1>8. CASE Advertise(r)
  <2>1. ann' \in [Ids -> Row]
    BY <1>8, TransitionType DEF Advertise, Typed, TypeOK, Statuses, Levels
  <2>2. faults' \in 0 .. MaxFaults
    BY <1>8, <1>4 DEF Advertise
  <2>. QED
    BY <1>8, <1>2, <2>1, <2>2 DEF Advertise, Pcs, Typed, TypeOK, JobHasRow
<1>9. CASE Compensate(r)
  <2>1. ann' \in [Ids -> Row]
    BY <1>9, PersistType DEF Compensate, Typed, TypeOK, Claims
  <2>. QED
    BY <1>9, <1>2, <2>1 DEF Compensate, Pcs, Typed, TypeOK, JobHasRow
<1>10. CASE Undo(r)
  <2>1. ann' \in [Ids -> Row]
    BY <1>10, TransitionType DEF Undo, Typed, TypeOK, Statuses, Levels
  <2>2. route' \in [Nlris -> 0 .. MaxRows] /\ faults' \in 0 .. MaxFaults
    BY <1>10, <1>3, <1>4 DEF Undo
  <2>. QED
    BY <1>10, <1>2, <2>1, <2>2 DEF Undo, Pcs, Typed, TypeOK, JobHasRow
<1>. QED
  BY <1>5, <1>6, <1>7, <1>8, <1>9, <1>10 DEF Delivery

LEMMA ReconcileTyped ==
  ASSUME Typed, NEW p \in Reconcilers, Reconcile(p)
  PROVE  Typed'
<1>1. p \in Withdrawers
  BY DEF Withdrawers
<1>2. p \in Claims
  BY <1>1 DEF Claims
<1>3. CASE Scan(p)
  <2>1. {<<r, ann[r].status>> : r \in {q \in Existing : NeedsWithdraw(ann[q])}}
          \in SUBSET (Ids \X Statuses)
    BY DEF Existing, Typed, TypeOK, Row
  <2>2. due' \in [Reconcilers -> SUBSET (Ids \X Statuses)]
    BY <1>3, <2>1 DEF Scan, Typed, TypeOK
  <2>. QED
    BY <1>3, <2>2 DEF Scan, Typed, TypeOK, JobHasRow
<1>4. CASE \E r \in Ids, seen \in Statuses : ReconcilerClaim(p, r, seen)
  <2>1. PICK r \in Ids, seen \in Statuses : ReconcilerClaim(p, r, seen)
    BY <1>4
  <2>2. ann' \in [Ids -> Row]
    BY <2>1, <1>2, PersistType DEF ReconcilerClaim, Typed, TypeOK
  <2>3. due' \in [Reconcilers -> SUBSET (Ids \X Statuses)]
    BY <2>1 DEF ReconcilerClaim, Typed, TypeOK
  <2>4. CASE Claimed(p, r, seen)
    BY <2>1, <2>2, <2>3, <2>4, <1>1, JobClaimed DEF ReconcilerClaim, Typed, TypeOK
  <2>5. CASE UNCHANGED job
    BY <2>1, <2>2, <2>3, <2>5 DEF ReconcilerClaim, Typed, TypeOK, JobHasRow
  <2>. QED
    BY <2>1, <2>4, <2>5 DEF ReconcilerClaim
<1>5. CASE ReconcilerFinish(p)
  <2>. DEFINE r == job[p].row
             target == IF ann[r].expiry = "elapsed" THEN "expired" ELSE "withdrawn"
  <2>1. r \in Ids
    BY <1>1, <1>5 DEF ReconcilerFinish, Typed, JobHasRow
  <2>2. target \in Statuses /\ Superseded(r) \in BOOLEAN
    BY DEF Statuses, Superseded
  <2>3. \/ FinishWithdraw(r, target, Superseded(r))
        \/ UNCHANGED <<ann, route, faults>>
    BY <1>5 DEF ReconcilerFinish
  <2>. HIDE DEF r, target
  <2>4. /\ ann' \in [Ids -> Row] /\ route' \in [Nlris -> 0 .. MaxRows]
        /\ faults' \in 0 .. MaxFaults
    BY <2>1, <2>2, <2>3, FinishEffect DEF Typed, TypeOK
  <2>5. due' \in [Reconcilers -> SUBSET (Ids \X Statuses)]
    BY <1>5 DEF ReconcilerFinish, Typed, TypeOK
  <2>6. Release(p) /\ UNCHANGED <<rows, att, asked>>
    BY <1>5 DEF ReconcilerFinish
  <2>. QED
    BY <2>4, <2>5, <2>6, <1>1, JobReleased DEF Typed, TypeOK
<1>. QED
  BY <1>3, <1>4, <1>5 DEF Reconcile

LEMMA OperateTyped ==
  ASSUME Typed, NEW p \in Operators, Operate(p)
  PROVE  Typed'
<1>1. p \in Withdrawers /\ p \in Claims
  BY DEF Withdrawers, Claims
<1>2. CASE \E r \in Ids : OperatorClaim(p, r)
  <2>1. PICK r \in Ids : OperatorClaim(p, r)
    BY <1>2
  <2>2. ann' \in [Ids -> Row] /\ ann[r].status \in Statuses
    BY <2>1, <1>1, PersistType DEF OperatorClaim, Typed, TypeOK, Row
  <2>. QED
    BY <2>1, <2>2, <1>1, JobClaimed DEF OperatorClaim, Typed, TypeOK
<1>3. CASE OperatorFinish(p)
  <2>1. job[p].row \in Ids
    BY <1>1, <1>3 DEF OperatorFinish, Typed, JobHasRow
  <2>2. Superseded(job[p].row) \in BOOLEAN
    BY DEF Superseded
  <2>3. /\ ann' \in [Ids -> Row] /\ route' \in [Nlris -> 0 .. MaxRows]
        /\ faults' \in 0 .. MaxFaults
    BY <1>3, <2>1, <2>2, FinishEffect DEF OperatorFinish, Typed, TypeOK, Statuses
  <2>4. Release(p) /\ UNCHANGED <<rows, att, due, asked>>
    BY <1>3 DEF OperatorFinish
  <2>. QED
    BY <2>3, <2>4, <1>1, JobReleased DEF Typed, TypeOK
<1>. QED
  BY <1>2, <1>3 DEF Operate

LEMMA ManualWithdrawTyped ==
  ASSUME Typed, NEW p \in Testers, ManualWithdraw(p)
  PROVE  Typed'
<1>1. p \in Withdrawers /\ p \in Claims
  BY DEF Withdrawers, Claims
<1>2. CASE \E n \in Nlris, a \in Actions : TesterCheck(p, n, a)
  BY <1>2 DEF TesterCheck, Typed, TypeOK, JobHasRow
<1>3. CASE \E n \in Nlris, a \in Actions : TesterInsert(p, n, a)
  <2>1. PICK n \in Nlris, a \in Actions : TesterInsert(p, n, a)
    BY <1>3
  <2>2. rows + 1 \in Ids /\ rows' \in 0 .. MaxRows
    BY <2>1, MaxRowsAssumption DEF TesterInsert, Typed, TypeOK, Ids
  <2>3. ann' \in [Ids -> Row]
    BY <2>1, NewRowType DEF TesterInsert, Typed, TypeOK, Statuses, Levels
  <2>4. job' \in [Withdrawers -> [pc : {"idle", "inserted", "claimed"},
                                  row : 0 .. MaxRows, seen : Statuses]]
    BY <2>1, <2>2, <1>1, MaxRowsAssumption DEF TesterInsert, Typed, TypeOK, Statuses, Ids
  <2>5. JobHasRow'
    BY <2>1, <2>2, <1>1 DEF TesterInsert, Typed, TypeOK, JobHasRow
  <2>6. asked' \in [Testers -> SUBSET (Nlris \X Actions)]
    BY <2>1 DEF TesterInsert, Typed, TypeOK
  <2>. QED
    BY <2>1, <2>2, <2>3, <2>4, <2>5, <2>6 DEF TesterInsert, Typed, TypeOK
<1>4. CASE TesterClaim(p)
  <2>. DEFINE r == job[p].row
  <2>1. r \in Ids /\ "queued" \in Statuses
    BY <1>1, <1>4 DEF TesterClaim, Typed, JobHasRow, Statuses
  <2>2. ann' \in [Ids -> Row]
    BY <1>4, <2>1, <1>1, PersistType DEF TesterClaim, Typed, TypeOK
  <2>3. Claimed(p, r, "queued") \/ Release(p)
    BY <1>4 DEF TesterClaim
  <2>4. UNCHANGED <<rows, att, due, asked, route, faults>>
    BY <1>4 DEF TesterClaim
  <2>. QED
    BY <2>1, <2>2, <2>3, <2>4, <1>1, JobClaimed, JobReleased DEF Typed, TypeOK
<1>5. CASE TesterFinish(p)
  <2>1. job[p].row \in Ids
    BY <1>1, <1>5 DEF TesterFinish, Typed, JobHasRow
  <2>2. /\ ann' \in [Ids -> Row] /\ route' \in [Nlris -> 0 .. MaxRows]
        /\ faults' \in 0 .. MaxFaults
    BY <1>5, <2>1, FinishEffect DEF TesterFinish, Typed, TypeOK, Statuses
  <2>3. Release(p) /\ UNCHANGED <<rows, att, due, asked>>
    BY <1>5 DEF TesterFinish
  <2>. QED
    BY <2>2, <2>3, <1>1, JobReleased DEF Typed, TypeOK
<1>. QED
  BY <1>2, <1>3, <1>4, <1>5 DEF ManualWithdraw

LEMMA OrchestratorTyped ==
  ASSUME Typed, NEW p \in Orchestrators, OrchestratorWithdraw(p)
  PROVE  Typed'
<1>1. p \in Withdrawers /\ p \in Claims
  BY DEF Withdrawers, Claims
<1>2. CASE \E r \in Ids : OrchestratorClaim(p, r)
  <2>1. PICK r \in Ids : OrchestratorClaim(p, r)
    BY <1>2
  <2>2. ann' \in [Ids -> Row] /\ ann[r].status \in Statuses
    BY <2>1, <1>1, PersistType DEF OrchestratorClaim, Typed, TypeOK, Row
  <2>. QED
    BY <2>1, <2>2, <1>1, JobClaimed DEF OrchestratorClaim, Typed, TypeOK
<1>3. CASE OrchestratorFinish(p)
  <2>. DEFINE r == job[p].row
  <2>1. r \in Ids
    BY <1>1, <1>3 DEF OrchestratorFinish, Typed, JobHasRow
  <2>2. ann' \in [Ids -> Row]
    BY <1>3, <2>1, TransitionType DEF OrchestratorFinish, Typed, TypeOK, Statuses, Levels
  <2>3. route' \in [Nlris -> 0 .. MaxRows]
    BY <1>3, <2>1, MaxRowsAssumption DEF OrchestratorFinish, PipeWithdraw, Typed, TypeOK
  <2>4. faults' \in 0 .. MaxFaults
    BY <1>3, MaxFaultsAssumption DEF OrchestratorFinish, Fault, Typed, TypeOK
  <2>5. Release(p) /\ UNCHANGED <<rows, att, due, asked>>
    BY <1>3 DEF OrchestratorFinish
  <2>. QED
    BY <2>2, <2>3, <2>4, <2>5, <1>1, JobReleased DEF Typed, TypeOK
<1>. QED
  BY <1>2, <1>3 DEF OrchestratorWithdraw

LEMMA RowChangesTyped ==
  ASSUME Typed, Decisions \/ Time \/ MarkPeerDown
  PROVE  Typed'
<1>1. ASSUME NEW r \in Ids, Approve(r)
      PROVE  Typed'
  <2>1. ann' \in [Ids -> Row]
    BY <1>1, TransitionType DEF Approve, Typed, TypeOK, Statuses, Levels
  <2>. QED
    BY <1>1, <2>1 DEF Approve, AttemptTo, Typed, TypeOK, JobHasRow
<1>2. ASSUME NEW r \in Ids, Reject(r) \/ DropUndelivered(r)
      PROVE  Typed'
  <2>1. ann' \in [Ids -> Row]
    BY <1>2, TransitionType DEF Reject, DropUndelivered, Typed, TypeOK, Statuses, Levels
  <2>. QED
    BY <1>2, <2>1 DEF Reject, DropUndelivered, Typed, TypeOK, JobHasRow
<1>3. ASSUME NEW r \in Ids, TtlElapses(r) \/ RetryWindowElapses(r)
      PROVE  Typed'
  <2>1. [ann[r] EXCEPT !.expiry = "elapsed"] \in Row
    BY RowUpdates DEF Typed, TypeOK
  <2>2. [ann[r] EXCEPT !.recent = FALSE] \in Row
    BY RowUpdates DEF Typed, TypeOK
  <2>3. \/ ann' = [ann EXCEPT ![r] = [ann[r] EXCEPT !.expiry = "elapsed"]]
        \/ ann' = [ann EXCEPT ![r] = [ann[r] EXCEPT !.recent = FALSE]]
    BY <1>3 DEF TtlElapses, RetryWindowElapses
  <2>4. ann' \in [Ids -> Row]
    BY <2>1, <2>2, <2>3 DEF Typed, TypeOK
  <2>. QED
    BY <1>3, <2>4 DEF TtlElapses, RetryWindowElapses, Typed, TypeOK, JobHasRow
<1>4. CASE MarkPeerDown
  <2>2. \A r \in Ids : [ann[r] EXCEPT !.status = "peer_down", !.recent = TRUE] \in Row
    BY RowUpdates DEF Typed, TypeOK
  <2>1. ann' \in [Ids -> Row]
    BY <1>4, <2>2 DEF MarkPeerDown, Typed, TypeOK
  <2>. QED
    BY <1>4, <2>1 DEF MarkPeerDown, Typed, TypeOK, JobHasRow
<1>. QED
  BY <1>1, <1>2, <1>3, <1>4 DEF Decisions, Time

LEMMA CrashTyped == Typed /\ Crash => Typed'
<1>. SUFFICES ASSUME Typed, Crash PROVE Typed'
  OBVIOUS
<1>1. faults' \in 0 .. MaxFaults
  BY MaxFaultsAssumption DEF Crash, Fault, Typed, TypeOK
<1>2. job' \in [Withdrawers -> [pc : {"idle", "inserted", "claimed"},
                                row : 0 .. MaxRows, seen : Statuses]]
  BY MaxRowsAssumption DEF Crash, Idle, Statuses
<1>3. JobHasRow'
  BY DEF Crash, Idle, JobHasRow
<1>. QED
  BY <1>1, <1>2, <1>3 DEF Crash, Typed, TypeOK

LEMMA TypedStep == Typed /\ [Next]_vars => Typed'
<1>. SUFFICES ASSUME Typed, [Next]_vars PROVE Typed'
  OBVIOUS
<1>1. CASE Creation
  BY <1>1, CreationTyped DEF Creation
<1>2. CASE \E r \in Ids : Delivery(r)
  BY <1>2, DeliveryTyped
<1>3. CASE \E p \in Reconcilers : Reconcile(p)
  BY <1>3, ReconcileTyped
<1>4. CASE \E p \in Operators : Operate(p)
  BY <1>4, OperateTyped
<1>5. CASE \E p \in Testers : ManualWithdraw(p)
  BY <1>5, ManualWithdrawTyped
<1>6. CASE \E p \in Orchestrators : OrchestratorWithdraw(p)
  BY <1>6, OrchestratorTyped
<1>7. CASE Decisions \/ Time \/ MarkPeerDown
  BY <1>7, RowChangesTyped
<1>8. CASE Crash
  BY <1>8, CrashTyped
<1>9. CASE UNCHANGED vars
  BY <1>9 DEF vars, Typed, TypeOK, JobHasRow
<1>. QED
  BY <1>1, <1>2, <1>3, <1>4, <1>5, <1>6, <1>7, <1>8, <1>9 DEF Next

(* The table, the program counters, the scans and the announced routes keep *)
(* their types, and a withdraw in progress always has a row.                *)
THEOREM TypeCorrect == Spec => []TypeOK
<1>1. Typed => TypeOK
  BY DEF Typed
<1>. QED
  BY <1>1, TypedInit, TypedStep, PTL DEF Spec


-----------------------------------------------------------------------------
(* One live row per mitigation key, and closed rows stay closed: KeyInv is *)
(* inductive.  Every step but an insertion makes each row do one of a few  *)
(* moves (Moves); that each action does so is shown once, and the parts of *)
(* the invariant follow from the moves.                                    *)

SameDelivery(r) == ann'[r].sent = ann[r].sent /\ ann'[r].advertised = ann[r].advertised

Kept(r) ==
    /\ ann'[r].nlri = ann[r].nlri
    /\ ann'[r].action = ann[r].action
    /\ ann'[r].withdrawOnly = ann[r].withdrawOnly

\* the status is unchanged; a withdraw is only requested of an open row
Stays(r) ==
    /\ ann'[r].status = ann[r].status
    /\ SameDelivery(r)
    /\ ann'[r].level = "withdraw_requested"
         => ann[r].level = "withdraw_requested" \/ ann[r].status \notin Gone

Delivers(r) ==
    /\ att[r] # "none"
    /\ ann[r].status \in {"queued", "sent"}
    /\ ann'[r].status \in {"sent", "advertised", "failed", "peer_down", "failed_withdraw"}

Ends(r) ==
    /\ ann[r].status \notin Gone
    /\ ann'[r].status \in {"withdrawn", "expired", "failed_withdraw", "rejected", "dry_run"}
    /\ ann'[r].level # "withdraw_requested"
    /\ SameDelivery(r)

IsApproved(r) ==
    /\ ann[r].status = "pending_approval"
    /\ ann'[r].status = "queued"
    /\ SameDelivery(r)

GoesDown(r) ==
    /\ ann[r].status = "advertised"
    /\ ann'[r].status = "peer_down"
    /\ SameDelivery(r)

Moves(r) ==
    /\ Kept(r)
    /\ att'[r] # "none" => att[r] # "none" \/ ann[r].status = "pending_approval"
    /\ Stays(r) \/ Delivers(r) \/ Ends(r) \/ IsApproved(r) \/ GoesDown(r)

\* what a scan adds to a reconciler's list are rows that need a withdraw
DueGrows ==
    \A p \in Reconcilers : \A x \in due'[p] :
        x \in due[p] \/ \E q \in Existing : /\ NeedsWithdraw(ann[q])
                                            /\ x = <<q, ann[q].status>>

AllMove == rows' = rows /\ DueGrows /\ \A r \in Ids : Moves(r)

LEMMA StaysMoves ==
  ASSUME NEW r \in Ids, ann'[r] = ann[r], att'[r] = "none" \/ att'[r] = att[r]
  PROVE  Moves(r)
BY DEF Moves, Kept, Stays, SameDelivery

LEMMA TransitionKeeps ==
  ASSUME NEW r \in Ids, ann \in [Ids -> Row], NEW s \in Statuses, NEW l \in Levels,
         Transition(r, s, l) \/ CancelDelivery(r, s, l)
  PROVE  Kept(r) /\ ann'[r].status = s /\ \A q \in Ids : q # r => ann'[q] = ann[q]
<1>1. CASE Transition(r, s, l)
  <2>1. ann'[r] = Transitioned(ann[r], s, l) /\ ann[r] \in Row
    BY <1>1, TransitionType
  <2>2. \A q \in Ids : q # r => ann'[q] = ann[q]
    BY <1>1, TransitionType
  <2>. QED
    BY <2>1, <2>2, TransitionedType DEF Kept
<1>2. CASE CancelDelivery(r, s, l)
  BY <1>2, CancelType DEF Kept
<1>. QED
  BY <1>1, <1>2

-----------------------------------------------------------------------------
(* Each action makes every row move.                                        *)

LEMMA DeliveryMoves ==
  ASSUME Typed, KeyInv, NEW r \in Ids, Delivery(r)
  PROVE  AllMove
<1>1. ann \in [Ids -> Row] /\ ann[r] \in Row /\ att \in [Ids -> Pcs]
  BY DEF Typed, TypeOK, Pcs
<1>2. rows' = rows /\ due' = due
  BY DEF Delivery, SendIntent, NotReady, Deliver, Advertise, Compensate, Undo
<1>3. att[r] # "none"
  BY DEF Delivery, SendIntent, NotReady, Deliver, Advertise, Compensate, Undo
<1>4. \A q \in Ids : q # r => att'[q] = att[q]
  BY <1>1 DEF Delivery, SendIntent, NotReady, Deliver, Advertise, Compensate, Undo,
              AttemptTo, Pcs
<1>5. /\ Kept(r) /\ (Stays(r) \/ Delivers(r))
      /\ \A q \in Ids : q # r => ann'[q] = ann[q]
  <2>1. CASE UNCHANGED ann
    BY <2>1 DEF Kept, Stays, SameDelivery
  <2>2. ASSUME NEW s \in {"sent", "advertised", "failed", "peer_down", "failed_withdraw"},
               NEW l \in Levels, Transition(r, s, l) \/ CancelDelivery(r, s, l),
               ann[r].status \in {"queued", "sent"}
        PROVE  /\ Kept(r) /\ (Stays(r) \/ Delivers(r))
               /\ \A q \in Ids : q # r => ann'[q] = ann[q]
    <3>1. s \in Statuses
      BY DEF Statuses
    <3>. QED
      BY <1>1, <1>3, <2>2, <3>1, TransitionKeeps DEF Delivers
  <2>3. CASE SendIntent(r)
    <3>1. CASE ann' = [ann EXCEPT ![r] = SendClaimed(ann[r])]
      BY <1>1, <3>1, SendClaimedType DEF Kept, Stays, SameDelivery
    <3>. QED
      BY <2>1, <2>3, <3>1 DEF SendIntent
  <2>4. CASE NotReady(r)
    BY <2>1, <2>2, <2>4 DEF NotReady, StillClaimed, Levels
  <2>5. CASE Deliver(r)
    BY <2>1, <2>2, <2>5 DEF Deliver, StillClaimed, Levels
  <2>6. CASE Advertise(r)
    BY <2>1, <2>2, <2>6 DEF Advertise, Levels
  <2>7. CASE Compensate(r)
    <3>1. CASE PersistIntent(r, AttemptClaim) /\ ann[r].status \in {"queued", "sent"}
      BY <1>1, <3>1, PersistType DEF Kept, Stays, SameDelivery, Gone, Claims
    <3>. QED
      BY <2>1, <2>7, <3>1 DEF Compensate
  <2>8. CASE Undo(r)
    BY <2>1, <2>2, <2>8 DEF Undo, Levels
  <2>. QED
    BY <2>3, <2>4, <2>5, <2>6, <2>7, <2>8 DEF Delivery
<1>6. Moves(r)
  BY <1>3, <1>5 DEF Moves
<1>7. \A q \in Ids : Moves(q)
  BY <1>4, <1>5, <1>6, StaysMoves
<1>. QED
  BY <1>2, <1>7 DEF AllMove, DueGrows

LEMMA PersistMoves ==
  ASSUME Typed, NEW r \in Ids, NEW c \in Claims, PersistIntent(r, c),
         ann[r].status \notin Gone, att' = att
  PROVE  \A q \in Ids : Moves(q)
<1>1. ann \in [Ids -> Row]
  BY DEF Typed, TypeOK
<1>2. Moves(r)
  BY <1>1, PersistType DEF Moves, Kept, Stays, SameDelivery
<1>3. \A q \in Ids : q # r => ann'[q] = ann[q]
  BY <1>1, PersistType
<1>. QED
  BY <1>2, <1>3, StaysMoves

LEMMA TransitionMoves ==
  ASSUME Typed, NEW r \in Ids, ann[r].status \notin Gone, att' = att, NEW l \in Levels,
         NEW s \in {"withdrawn", "expired", "failed_withdraw", "rejected", "dry_run"},
         Transition(r, s, l), l # "withdraw_requested"
  PROVE  \A q \in Ids : Moves(q)
<1>1. ann \in [Ids -> Row] /\ ann[r] \in Row /\ s \in Statuses
  BY DEF Typed, TypeOK, Statuses
<1>2. Transitioned(ann[r], s, l).sent = ann[r].sent
      /\ Transitioned(ann[r], s, l).advertised = ann[r].advertised
  BY <1>1, TransitionedType DEF Row
<1>3. Moves(r)
  BY <1>1, <1>2, TransitionType, TransitionedType DEF Moves, Kept, Ends, SameDelivery
<1>4. \A q \in Ids : q # r => ann'[q] = ann[q]
  BY <1>1, TransitionType
<1>. QED
  BY <1>3, <1>4, StaysMoves

LEMMA FinishMoves ==
  ASSUME Typed, NEW r \in Ids, ann[r].status \notin Gone, att' = att,
         NEW target \in {"withdrawn", "expired"}, NEW omit, FinishWithdraw(r, target, omit)
  PROVE  \A q \in Ids : Moves(q)
<1>1. CASE UNCHANGED ann
  BY <1>1, StaysMoves
<1>2. CASE Transition(r, target, "superseded_by_newer_delivery")
  BY <1>2, TransitionMoves DEF Levels
<1>3. CASE Transition(r, target, "withdrawn")
  BY <1>3, TransitionMoves DEF Levels
<1>4. CASE Transition(r, "failed_withdraw", "withdraw_failed")
  BY <1>4, TransitionMoves DEF Levels
<1>. QED
  BY <1>1, <1>2, <1>3, <1>4 DEF FinishWithdraw

LEMMA NeedsWithdrawIsOpen ==
  ASSUME KeyInv, NEW r \in Ids, NeedsWithdraw(ann[r])
  PROVE  ann[r].status \notin Gone
BY DEF NeedsWithdraw, KeyInv, GoneHasNoRequest, Gone

LEMMA ReconcileMoves ==
  ASSUME Typed, KeyInv, NEW p \in Reconcilers, Reconcile(p)
  PROVE  AllMove
<1>1. p \in Withdrawers /\ p \in Claims
  BY DEF Withdrawers, Claims
<1>2. CASE Scan(p)
  <2>1. DueGrows
    BY <1>2 DEF Scan, DueGrows, Typed, TypeOK
  <2>. QED
    BY <1>2, <2>1, StaysMoves DEF Scan, AllMove
<1>3. CASE \E r \in Ids, seen \in Statuses : ReconcilerClaim(p, r, seen)
  <2>1. PICK r \in Ids, seen \in Statuses : ReconcilerClaim(p, r, seen)
    BY <1>3
  <2>2. rows' = rows /\ DueGrows /\ att' = att
    BY <2>1 DEF ReconcilerClaim, DueGrows, Typed, TypeOK
  <2>3. seen \notin Gone
    BY <2>1 DEF ReconcilerClaim, KeyInv, ScansSawOpenRows
  <2>4. CASE ann[r].status = seen /\ PersistIntent(r, p)
    BY <1>1, <2>2, <2>3, <2>4, PersistMoves DEF AllMove
  <2>5. CASE UNCHANGED ann
    BY <2>2, <2>5, StaysMoves DEF AllMove
  <2>. QED
    BY <2>1, <2>4, <2>5 DEF ReconcilerClaim
<1>4. CASE ReconcilerFinish(p)
  <2>. DEFINE r == job[p].row
             target == IF ann[r].expiry = "elapsed" THEN "expired" ELSE "withdrawn"
  <2>1. r \in Ids
    BY <1>1, <1>4 DEF ReconcilerFinish, Typed, JobHasRow
  <2>2. target \in {"withdrawn", "expired"}
    OBVIOUS
  <2>3. \/ HoldsIntent(p, r) /\ FinishWithdraw(r, target, Superseded(r))
        \/ UNCHANGED ann
    BY <1>4 DEF ReconcilerFinish
  <2>4. rows' = rows /\ att' = att /\ DueGrows
    BY <1>4 DEF ReconcilerFinish, DueGrows, Typed, TypeOK
  <2>. HIDE DEF r, target
  <2>5. CASE HoldsIntent(p, r) /\ FinishWithdraw(r, target, Superseded(r))
    <3>1. ann[r].status \notin Gone
      BY <2>1, <2>5 DEF HoldsIntent, KeyInv, GoneHasNoRequest
    <3>. QED
      BY <2>1, <2>2, <2>4, <2>5, <3>1, FinishMoves DEF AllMove
  <2>6. CASE UNCHANGED ann
    BY <2>4, <2>6, StaysMoves DEF AllMove
  <2>. QED
    BY <2>3, <2>5, <2>6
<1>. QED
  BY <1>2, <1>3, <1>4 DEF Reconcile

LEMMA OperateMoves ==
  ASSUME Typed, KeyInv, NEW p \in Operators, Operate(p)
  PROVE  AllMove
<1>1. p \in Withdrawers /\ p \in Claims
  BY DEF Withdrawers, Claims
<1>2. rows' = rows /\ att' = att /\ DueGrows
  BY DEF Operate, OperatorClaim, OperatorFinish, DueGrows
<1>3. CASE \E r \in Ids : OperatorClaim(p, r)
  BY <1>1, <1>2, <1>3, PersistMoves DEF OperatorClaim, AllMove, Gone
<1>4. CASE OperatorFinish(p)
  <2>1. job[p].row \in Ids
    BY <1>1, <1>4 DEF OperatorFinish, Typed, JobHasRow
  <2>2. CASE UNCHANGED ann
    BY <1>2, <2>2, StaysMoves DEF AllMove
  <2>3. CASE /\ HoldsIntent(p, job[p].row)
             /\ FinishWithdraw(job[p].row, "withdrawn", Superseded(job[p].row))
    <3>1. ann[job[p].row].status \notin Gone
      BY <2>1, <2>3 DEF HoldsIntent, KeyInv, GoneHasNoRequest
    <3>. QED
      BY <1>2, <2>1, <2>3, <3>1, FinishMoves DEF AllMove
  <2>. QED
    BY <1>4, <2>2, <2>3 DEF OperatorFinish
<1>. QED
  BY <1>3, <1>4 DEF Operate

\* all but the insertion
LEMMA ManualWithdrawMoves ==
  ASSUME Typed, KeyInv, NEW p \in Testers,
         \/ \E n \in Nlris, a \in Actions : TesterCheck(p, n, a)
         \/ TesterClaim(p)
         \/ TesterFinish(p)
  PROVE  AllMove
<1>1. p \in Withdrawers /\ p \in Claims
  BY DEF Withdrawers, Claims
<1>2. rows' = rows /\ att' = att /\ DueGrows
  BY DEF TesterCheck, TesterClaim, TesterFinish, DueGrows
<1>3. CASE UNCHANGED ann
  BY <1>2, <1>3, StaysMoves DEF AllMove
<1>4. CASE TesterClaim(p) /\ ~UNCHANGED ann
  <2>1. job[p].row \in Ids
    BY <1>1, <1>4 DEF TesterClaim, Typed, JobHasRow
  <2>2. ann[job[p].row].status = "queued" /\ PersistIntent(job[p].row, p)
    BY <1>4 DEF TesterClaim
  <2>. QED
    BY <1>1, <1>2, <2>1, <2>2, PersistMoves DEF AllMove, Gone
<1>5. CASE TesterFinish(p) /\ ~UNCHANGED ann
  <2>1. job[p].row \in Ids
    BY <1>1, <1>5 DEF TesterFinish, Typed, JobHasRow
  <2>2. /\ ann[job[p].row].status = "queued"
        /\ FinishWithdraw(job[p].row, "withdrawn", FALSE)
    BY <1>5 DEF TesterFinish
  <2>. QED
    BY <1>2, <2>1, <2>2, FinishMoves DEF AllMove, Gone
<1>. QED
  BY <1>3, <1>4, <1>5 DEF TesterCheck

LEMMA OrchestratorMoves ==
  ASSUME Typed, KeyInv, NEW p \in Orchestrators, OrchestratorWithdraw(p)
  PROVE  AllMove
<1>1. p \in Withdrawers /\ p \in Claims
  BY DEF Withdrawers, Claims
<1>2. rows' = rows /\ att' = att /\ DueGrows
  BY DEF OrchestratorWithdraw, OrchestratorClaim, OrchestratorFinish, DueGrows
<1>3. CASE \E r \in Ids : OrchestratorClaim(p, r)
  BY <1>1, <1>2, <1>3, PersistMoves DEF OrchestratorClaim, AllMove, Gone
<1>4. CASE OrchestratorFinish(p)
  <2>. DEFINE r == job[p].row
  <2>1. r \in Ids
    BY <1>1, <1>4 DEF OrchestratorFinish, Typed, JobHasRow
  <2>2. CASE UNCHANGED ann
    BY <1>2, <2>2, StaysMoves DEF AllMove
  <2>3. CASE ~UNCHANGED ann
    <3>1. /\ ann[r].level = "withdraw_requested"
          /\ \/ Transition(r, "expired", "withdrawn")
             \/ Transition(r, "failed_withdraw", "withdraw_failed")
      BY <1>4, <2>3 DEF OrchestratorFinish
    <3>2. ann[r].status \notin Gone
      BY <2>1, <3>1 DEF KeyInv, GoneHasNoRequest
    <3>. HIDE DEF r
    <3>. QED
      BY <1>2, <2>1, <3>1, <3>2, TransitionMoves DEF AllMove, Levels
  <2>. QED
    BY <2>2, <2>3
<1>. QED
  BY <1>3, <1>4 DEF OrchestratorWithdraw

LEMMA RowChangesMove ==
  ASSUME Typed, KeyInv, Decisions \/ Time \/ MarkPeerDown
  PROVE  AllMove
<1>1. rows' = rows /\ DueGrows
  BY DEF Decisions, Approve, Reject, DropUndelivered, Time, TtlElapses,
         RetryWindowElapses, MarkPeerDown, DueGrows
<1>2. ann \in [Ids -> Row] /\ att \in [Ids -> Pcs]
  BY DEF Typed, TypeOK, Pcs
<1>3. ASSUME NEW r \in Ids, Approve(r)
      PROVE  AllMove
  <2>1. CASE Transition(r, "queued", "approved") /\ AttemptTo(r, "ready")
    <3>1. \A q \in Ids : q # r => ann'[q] = ann[q] /\ att'[q] = att[q]
      BY <1>2, <2>1, TransitionType DEF AttemptTo, Statuses, Levels
    <3>2. ann'[r] = Transitioned(ann[r], "queued", "approved") /\ ann[r] \in Row
      BY <1>2, <2>1, TransitionType DEF Statuses, Levels
    <3>3. ann'[r].status = "queued" /\ Kept(r) /\ SameDelivery(r)
      <4>1. "queued" \in Statuses /\ "approved" \in Levels
        BY DEF Statuses, Levels
      <4>2. ann'[r].status = "queued" /\ Kept(r)
        BY <1>2, <2>1, <4>1, TransitionKeeps
      <4>3. SameDelivery(r)
        BY <3>2 DEF Transitioned, SameDelivery, Row
      <4>. QED
        BY <4>2, <4>3
    <3>4. Moves(r)
      BY <1>3, <3>3 DEF Approve, Moves, IsApproved
    <3>. QED
      BY <1>1, <3>1, <3>4, StaysMoves DEF AllMove
  <2>2. CASE Transition(r, "dry_run", "simulation_only") /\ UNCHANGED att
    BY <1>1, <1>3, <2>2, TransitionMoves DEF Approve, AllMove, Gone, Levels
  <2>. QED
    BY <1>3, <2>1, <2>2 DEF Approve
<1>4. ASSUME NEW r \in Ids, Reject(r)
      PROVE  AllMove
  BY <1>1, <1>4, TransitionMoves DEF Reject, Rejectable, AllMove, Gone, Levels
<1>5. ASSUME NEW r \in Ids, DropUndelivered(r)
      PROVE  AllMove
  BY <1>1, <1>5, TransitionMoves DEF DropUndelivered, AllMove, Gone, Levels
<1>6. ASSUME NEW r \in Ids, TtlElapses(r) \/ RetryWindowElapses(r)
      PROVE  AllMove
  <2>1. ann[r] \in Row /\ att' = att
    BY <1>2, <1>6 DEF TtlElapses, RetryWindowElapses
  <2>2. \/ ann' = [ann EXCEPT ![r] = [ann[r] EXCEPT !.expiry = "elapsed"]]
        \/ ann' = [ann EXCEPT ![r] = [ann[r] EXCEPT !.recent = FALSE]]
    BY <1>6 DEF TtlElapses, RetryWindowElapses
  <2>3. Kept(r) /\ Stays(r)
    BY <1>2, <2>1, <2>2 DEF Kept, Stays, SameDelivery, Row
  <2>4. \A q \in Ids : q # r => ann'[q] = ann[q]
    BY <1>2, <2>2
  <2>. QED
    BY <1>1, <2>1, <2>3, <2>4, StaysMoves DEF AllMove, Moves
<1>7. CASE MarkPeerDown
  <2>1. ASSUME NEW q \in Ids, PeerDownMarked(ann[q])
        PROVE  Moves(q)
    <3>1. ann'[q] = [ann[q] EXCEPT !.status = "peer_down", !.recent = TRUE]
      BY <1>7, <2>1 DEF MarkPeerDown
    <3>2. ann[q] \in Row /\ att' = att
      BY <1>2, <1>7 DEF MarkPeerDown
    <3>3. Kept(q) /\ GoesDown(q)
      BY <2>1, <3>1, <3>2 DEF Kept, GoesDown, SameDelivery, PeerDownMarked, Row
    <3>. QED
      BY <3>2, <3>3 DEF Moves
  <2>2. ASSUME NEW q \in Ids, ~PeerDownMarked(ann[q])
        PROVE  Moves(q)
    BY <1>7, <2>2, StaysMoves DEF MarkPeerDown
  <2>. QED
    BY <1>1, <2>1, <2>2 DEF AllMove
<1>. QED
  BY <1>3, <1>4, <1>5, <1>6, <1>7 DEF Decisions, Time

LEMMA CrashMoves == Typed /\ (Crash \/ UNCHANGED vars) => AllMove
<1>1. ASSUME Typed, Crash PROVE AllMove
  <2>1. DueGrows
    BY <1>1 DEF Crash, DueGrows
  <2>2. \A r \in Ids : ann'[r] = ann[r] /\ att'[r] = "none" /\ rows' = rows
    BY <1>1 DEF Crash
  <2>3. rows' = rows
    BY <1>1 DEF Crash
  <2>. QED
    BY <2>1, <2>2, <2>3, StaysMoves DEF AllMove
<1>2. ASSUME UNCHANGED vars PROVE AllMove
  BY <1>2, StaysMoves DEF vars, AllMove, DueGrows
<1>. QED
  BY <1>1, <1>2

-----------------------------------------------------------------------------
(* The invariant, from the moves.                                           *)

LEMMA LiveShrinks ==
  ASSUME KeyInv, NEW r \in Ids, Moves(r), Live(ann'[r])
  PROVE  Live(ann[r])
<1>1. CASE Stays(r)
  BY <1>1 DEF Moves, Kept, Stays, SameDelivery, Live, Delivered
<1>2. CASE Delivers(r)
  BY <1>2 DEF Delivers, Live, KeyInv, DeliveriesAreTracked
<1>3. CASE Ends(r)
  BY <1>3 DEF Ends, Live
<1>4. CASE IsApproved(r)
  BY <1>4 DEF IsApproved, Live, KeyInv, WithdrawOnlyIsNeverSent
<1>5. CASE GoesDown(r)
  BY <1>5 DEF GoesDown, Live, KeyInv, WithdrawOnlyIsNeverSent
<1>. QED
  BY <1>1, <1>2, <1>3, <1>4, <1>5 DEF Moves

LEMMA KeyInvMoves ==
  ASSUME Typed, KeyInv, AllMove
  PROVE  KeyInv'
<1>1. \A r \in Ids : ann'[r].status # "absent" <=> ann[r].status # "absent"
  BY DEF AllMove, Moves, Stays, Delivers, Ends, IsApproved, GoesDown, Gone
<1>2. TableInOrder'
  BY <1>1 DEF TableInOrder, KeyInv, AllMove
<1>3. GoneHasNoRequest'
  BY DEF GoneHasNoRequest, KeyInv, AllMove, Moves, Stays, Delivers, Ends, IsApproved,
         GoesDown, Gone
<1>4. ScansSawOpenRows'
  <2>. SUFFICES ASSUME NEW p \in Reconcilers, NEW x \in due'[p]
                PROVE  x[2] \notin Gone
    BY DEF ScansSawOpenRows
  <2>1. CASE x \in due[p]
    BY <2>1 DEF KeyInv, ScansSawOpenRows
  <2>2. CASE \E q \in Existing : NeedsWithdraw(ann[q]) /\ x = <<q, ann[q].status>>
    BY <2>2, NeedsWithdrawIsOpen DEF Existing
  <2>. QED
    BY <2>1, <2>2 DEF AllMove, DueGrows
<1>5. DeliveriesAreTracked'
  <2>. SUFFICES ASSUME NEW r \in Ids, att'[r] # "none"
                PROVE  ~ann'[r].withdrawOnly /\ ann'[r].status # "absent"
    BY DEF DeliveriesAreTracked
  <2>1. att[r] # "none" \/ ann[r].status = "pending_approval"
    BY DEF AllMove, Moves
  <2>2. ~ann[r].withdrawOnly /\ ann[r].status # "absent"
    BY <2>1 DEF KeyInv, DeliveriesAreTracked, WithdrawOnlyIsNeverSent
  <2>. QED
    BY <1>1, <2>2 DEF AllMove, Moves, Kept
<1>6. WithdrawOnlyIsNeverSent'
  <2>. SUFFICES ASSUME NEW r \in Ids, ann'[r].withdrawOnly
                PROVE  /\ ann'[r].status \notin {"pending_approval", "sent", "advertised"}
                       /\ ~Delivered(ann'[r])
    BY DEF WithdrawOnlyIsNeverSent
  <2>1. ann[r].withdrawOnly
    BY DEF AllMove, Moves, Kept
  <2>2. /\ ann[r].status \notin {"pending_approval", "sent", "advertised"}
        /\ ~Delivered(ann[r]) /\ att[r] = "none"
    BY <2>1 DEF KeyInv, WithdrawOnlyIsNeverSent, DeliveriesAreTracked
  <2>3. Stays(r) \/ Ends(r)
    BY <2>2 DEF AllMove, Moves, Delivers, IsApproved, GoesDown
  <2>. QED
    BY <2>2, <2>3 DEF Stays, Ends, SameDelivery, Delivered
<1>7. LiveIsYoungest'
  <2>. SUFFICES ASSUME NEW p \in Ids, NEW q \in Ids, Live(ann'[p]), q > p,
                       ann'[q].status # "absent",
                       ann'[q].nlri = ann'[p].nlri, ann'[q].action = ann'[p].action
                PROVE  ann'[q].withdrawOnly
    BY DEF LiveIsYoungest, SameKey
  <2>1. Live(ann[p])
    BY LiveShrinks DEF AllMove
  <2>2. SameKey(q, ann[p].nlri, ann[p].action)
    BY DEF AllMove, Moves, Kept, SameKey
  <2>3. ann[q].withdrawOnly
    BY <1>1, <2>1, <2>2 DEF KeyInv, LiveIsYoungest
  <2>. QED
    BY <2>3 DEF AllMove, Moves, Kept
<1>. QED
  BY <1>2, <1>3, <1>4, <1>5, <1>6, <1>7 DEF KeyInv

LEMMA LiveReserves ==
  ASSUME NEW row, Live(row)
  PROVE  Reserving(row)
BY DEF Live, Reserving

\* a new row: it is an untracked withdraw, or its key was not reserved
LEMMA KeyInvInsert ==
  ASSUME Typed, KeyInv, NEW n \in Nlris, NEW a \in Actions, NEW auto \in BOOLEAN,
         NEW w \in BOOLEAN,
         NEW s \in {"pending_approval", "queued", "dry_run", "rejected_by_policy"},
         NEW l \in {"registered", "approved", "simulation_only"},
         rows < MaxRows, rows' = rows + 1,
         ann' = [ann EXCEPT ![rows + 1] = NewRow(s, l, n, a, auto, w)],
         UNCHANGED due, w \/ ~Reserved(n, a), w => s = "queued",
         \A r \in Ids : att'[r] # "none" => att[r] # "none" \/ (r = rows + 1 /\ ~w)
  PROVE  KeyInv'
<1>1. ann \in [Ids -> Row] /\ rows \in Nat /\ rows + 1 \in Ids
  BY MaxRowsAssumption DEF Typed, TypeOK, Ids
<1>. DEFINE new == NewRow(s, l, n, a, auto, w)
<1>2. /\ new.status = s /\ new.level = l /\ new.nlri = n /\ new.action = a
      /\ new.withdrawOnly = w /\ ~Delivered(new)
  BY DEF NewRow, Delivered
<1>3. ann'[rows + 1] = new /\ \A q \in Ids : q # rows + 1 => ann'[q] = ann[q]
  BY <1>1
<1>. HIDE DEF new
<1>4. ann[rows + 1].status = "absent"
  BY <1>1 DEF KeyInv, TableInOrder
<1>5. TableInOrder'
  <2>. SUFFICES ASSUME NEW r \in Ids
                PROVE  ann'[r].status # "absent" <=> r <= rows + 1
    BY DEF TableInOrder
  <2>1. CASE r = rows + 1
    BY <1>1, <1>2, <1>3, <2>1
  <2>2. CASE r # rows + 1
    BY <1>1, <1>3, <2>2 DEF KeyInv, TableInOrder, Ids
  <2>. QED
    BY <2>1, <2>2
<1>6. GoneHasNoRequest'
  BY <1>2, <1>3 DEF KeyInv, GoneHasNoRequest
<1>7. ScansSawOpenRows'
  BY DEF KeyInv, ScansSawOpenRows
<1>8. DeliveriesAreTracked'
  <2>. SUFFICES ASSUME NEW r \in Ids, att'[r] # "none"
                PROVE  ~ann'[r].withdrawOnly /\ ann'[r].status # "absent"
    BY DEF DeliveriesAreTracked
  <2>1. CASE r = rows + 1
    <3>1. att[r] = "none"
      BY <1>4, <2>1 DEF KeyInv, DeliveriesAreTracked
    <3>. QED
      BY <1>2, <1>3, <2>1, <3>1
  <2>2. CASE r # rows + 1
    BY <1>3, <2>2 DEF KeyInv, DeliveriesAreTracked
  <2>. QED
    BY <2>1, <2>2
<1>9. WithdrawOnlyIsNeverSent'
  BY <1>2, <1>3 DEF KeyInv, WithdrawOnlyIsNeverSent
<1>10. LiveIsYoungest'
  <2>. SUFFICES ASSUME NEW p \in Ids, NEW q \in Ids, Live(ann'[p]), q > p,
                       ann'[q].status # "absent",
                       ann'[q].nlri = ann'[p].nlri, ann'[q].action = ann'[p].action
                PROVE  ann'[q].withdrawOnly
    BY DEF LiveIsYoungest, SameKey
  <2>1. q <= rows + 1
    BY <1>5 DEF TableInOrder
  <2>2. p # rows + 1 /\ ann'[p] = ann[p]
    BY <1>1, <1>3, <2>1 DEF Ids
  <2>3. CASE q # rows + 1
    BY <1>3, <2>2, <2>3 DEF KeyInv, LiveIsYoungest, SameKey
  <2>4. CASE q = rows + 1
    <3>1. p \in Existing /\ SameKey(p, n, a)
      BY <1>2, <1>3, <2>2, <2>4 DEF Existing, SameKey, Live, Delivered
    <3>2. Reserved(n, a)
      BY <2>2, <3>1, LiveReserves DEF Reserved
    <3>. QED
      BY <1>2, <1>3, <2>4, <3>2
  <2>. QED
    BY <2>3, <2>4
<1>. QED
  BY <1>5, <1>6, <1>7, <1>8, <1>9, <1>10 DEF KeyInv

LEMMA CreationKeepsKeyInv ==
  ASSUME Typed, KeyInv, Creation
  PROVE  KeyInv'
<1>1. PICK n \in Nlris, a \in Actions :
        \/ \E auto \in BOOLEAN : InsertQueued(n, a, auto)
        \/ InsertUndelivered(n, a)
  BY DEF Creation
<1>2. ASSUME NEW auto \in BOOLEAN, InsertQueued(n, a, auto)
      PROVE  KeyInv'
  <2>1. /\ rows < MaxRows /\ rows' = rows + 1 /\ ~Reserved(n, a) /\ UNCHANGED due
        /\ ann' = [ann EXCEPT ![rows + 1] =
                     NewRow("queued", "approved", n, a, auto, FALSE)]
    BY <1>2 DEF InsertQueued, Insert
  <2>2. \A r \in Ids : att'[r] # "none" => att[r] # "none" \/ r = rows + 1
    BY <1>2 DEF InsertQueued, Typed, TypeOK
  <2>. QED
    BY <2>1, <2>2, KeyInvInsert
<1>3. ASSUME NEW s \in {"pending_approval", "dry_run", "rejected_by_policy"},
             NEW l \in {"registered", "simulation_only"},
             Insert(s, l, n, a, FALSE), UNCHANGED att
      PROVE  KeyInv'
  <2>1. /\ rows < MaxRows /\ rows' = rows + 1 /\ ~Reserved(n, a) /\ UNCHANGED due
        /\ ann' = [ann EXCEPT ![rows + 1] = NewRow(s, l, n, a, FALSE, FALSE)]
    BY <1>3 DEF Insert
  <2>. QED
    BY <1>3, <2>1, KeyInvInsert
<1>. QED
  BY <1>1, <1>2, <1>3 DEF InsertUndelivered

LEMMA TesterInsertKeepsKeyInv ==
  ASSUME Typed, KeyInv, NEW p \in Testers, NEW n \in Nlris, NEW a \in Actions,
         TesterInsert(p, n, a)
  PROVE  KeyInv'
<1>1. /\ rows < MaxRows /\ rows' = rows + 1 /\ UNCHANGED <<att, due>>
      /\ ann' = [ann EXCEPT ![rows + 1] =
                   NewRow("queued", "approved", n, a, FALSE, TRUE)]
  BY DEF TesterInsert
<1>. QED
  BY <1>1, KeyInvInsert

LEMMA KeyInvInit == Init => KeyInv
<1>. SUFFICES ASSUME Init PROVE KeyInv
  OBVIOUS
<1>1. \A r \in Ids : /\ ann[r].status = "absent" /\ ann[r].level = "registered"
                     /\ ~ann[r].withdrawOnly
  BY DEF Init, NoRow, NewRow
<1>2. TableInOrder /\ GoneHasNoRequest
  BY <1>1, MaxRowsAssumption DEF Init, TableInOrder, GoneHasNoRequest, Ids
<1>3. ScansSawOpenRows /\ DeliveriesAreTracked
  BY DEF Init, ScansSawOpenRows, DeliveriesAreTracked
<1>4. WithdrawOnlyIsNeverSent /\ LiveIsYoungest
  BY <1>1 DEF WithdrawOnlyIsNeverSent, LiveIsYoungest, Live
<1>. QED
  BY <1>2, <1>3, <1>4 DEF KeyInv

LEMMA StepMovesOrInserts ==
  ASSUME Typed, KeyInv, [Next]_vars
  PROVE  \/ AllMove
         \/ Creation
         \/ \E p \in Testers, n \in Nlris, a \in Actions : TesterInsert(p, n, a)
<1>1. CASE \E p \in Testers : ManualWithdraw(p)
  BY <1>1, ManualWithdrawMoves DEF ManualWithdraw
<1>. QED
  BY <1>1, DeliveryMoves, ReconcileMoves, OperateMoves, OrchestratorMoves, RowChangesMove,
     CrashMoves DEF Next

LEMMA KeyInvStep == Typed /\ KeyInv /\ [Next]_vars => KeyInv'
BY StepMovesOrInserts, KeyInvMoves, CreationKeepsKeyInv, TesterInsertKeepsKeyInv

(* The inductive invariant of the mitigation key: ids in order, no request  *)
(* open on a closed row, no scan holding a closed row, and a live row is    *)
(* the youngest of its key but for untracked manual withdraws, which are    *)
(* never delivered (apply_mitigation_candidate, persist_bgp_withdraw_intent *)
(* and the reconciler's query together).                                    *)
THEOREM KeyInvariant == Spec => [](Typed /\ KeyInv)
BY TypedInit, TypedStep, KeyInvInit, KeyInvStep, PTL DEF Spec

(* Two live rows never share a mitigation key, for every number of rows,    *)
(* rules, request threads, reconcilers, manual withdraws and crashes: the   *)
(* check-then-insert of apply_mitigation_candidate and of the manual page   *)
(* under the writer lock, with the reservation of                           *)
(* bgp_reserving_announcement_clause.                                       *)
THEOREM OneLive == Spec => []OneLiveRowPerKey
<1>1. ASSUME Typed, KeyInv PROVE OneLiveRowPerKey
  <2>. SUFFICES ASSUME NEW q \in Existing, NEW r \in Existing, q # r,
                       SameKey(q, ann[r].nlri, ann[r].action),
                       Live(ann[q]), Live(ann[r])
                PROVE  FALSE
    BY DEF OneLiveRowPerKey
  <2>1. \A p \in Ids : Live(ann[p]) => ~ann[p].withdrawOnly
    BY <1>1 DEF Live, KeyInv, WithdrawOnlyIsNeverSent
  <2>2. q \in Ids /\ r \in Ids /\ (q < r \/ r < q)
    BY MaxRowsAssumption DEF Existing, Ids
  <2>3. ann[q].status # "absent" /\ ann[r].status # "absent"
    BY DEF Existing
  <2>. QED
    BY <1>1, <2>1, <2>2, <2>3 DEF KeyInv, LiveIsYoungest, SameKey
<1>. QED
  BY <1>1, KeyInvariant, PTL

(* A withdrawn or expired row stays so: no delivery, compensation, status   *)
(* check or second withdraw still running in another thread reopens it      *)
(* (the expected statuses of transition_bgp_announcement, and the status    *)
(* each withdraw intent compares with the one its scan or request saw).     *)
THEOREM ClosedFinal == Spec => ClosedIsFinal
<1>1. ASSUME Typed, KeyInv, [Next]_vars, NEW r \in Ids,
             ann[r].status \in {"withdrawn", "expired"}
      PROVE  ann'[r].status = ann[r].status
  <2>1. CASE AllMove
    BY <1>1, <2>1 DEF AllMove, Moves, Stays, Delivers, Ends, IsApproved, GoesDown, Gone
  <2>2. CASE ~AllMove
    <3>1. r # rows + 1
      BY <1>1 DEF KeyInv, TableInOrder, Typed, TypeOK
    <3>2. \E row : ann' = [ann EXCEPT ![rows + 1] = row]
      BY <1>1, <2>2, StepMovesOrInserts
      DEF Creation, InsertQueued, InsertUndelivered, Insert, TesterInsert
    <3>. QED
      BY <1>1, <3>1, <3>2 DEF Typed, TypeOK
  <2>. QED
    BY <2>1, <2>2
<1>2. Typed /\ KeyInv /\ [Next]_vars
        => [\A r \in Ids : ann[r].status \in {"withdrawn", "expired"}
                             => ann'[r].status = ann[r].status]_vars
  BY <1>1
<1>. QED
  BY <1>2, KeyInvariant, PTL DEF Spec, ClosedIsFinal

-----------------------------------------------------------------------------
(* The table is changed as the automatic mitigation worker takes it to be   *)
(* (KeepsTable).  Each action makes one known row move, or asks for its     *)
(* withdraw, and leaves the rest of the table alone.                        *)

RowInv(row) ==
    /\ row.status \in {"pending_approval", "queued"} => ~Delivered(row)
    /\ row.status \in {"sent", "advertised"} => row.sent
    /\ row.advertised => row.sent
    /\ row.auto => row.status # "pending_approval"

TableStep ==
    \/ UNCHANGED KnownRows
    \/ WorkerMoves /\ Table!WorkerChange
    \/ ~WorkerMoves /\ Table!OthersChange

LEMMA TableInvRows == TableInv <=> \A r \in Ids : RowInv(ann[r])
BY DEF TableInv, DeliveryIsRecorded, AutoIsQueued, RowInv

LEMMA TableInvPrimed == TableInv' <=> \A r \in Ids : RowInv(ann'[r])
BY DEF TableInv, DeliveryIsRecorded, AutoIsQueued, RowInv, Delivered

LEMMA TableInvOne ==
  ASSUME TableInv, NEW r \in Ids, RowInv(ann'[r]), \A q \in Ids : q # r => ann'[q] = ann[q]
  PROVE  TableInv'
BY TableInvRows, TableInvPrimed

LEMMA NotTheWorker ==
  ASSUME \A p \in Orchestrators : job'[p] = job[p],
         \A r \in Ids : ann'[r].auto => att'[r] = att[r]
  PROVE  ~WorkerMoves
BY DEF WorkerMoves

LEMMA TransitionFields ==
  ASSUME Typed, NEW r \in Ids, NEW s \in Statuses, NEW l \in Levels,
         Transition(r, s, l) \/ CancelDelivery(r, s, l)
  PROVE  /\ ann'[r].status = s /\ ann'[r].level = l
         /\ ann'[r].nlri = ann[r].nlri /\ ann'[r].action = ann[r].action
         /\ ann'[r].auto = ann[r].auto /\ ann'[r].claim = ann[r].claim
         /\ ann'[r].sent = (ann[r].sent \/ s = "sent")
         /\ ann'[r].advertised = (ann[r].advertised \/ s = "advertised")
         /\ \A q \in Ids : q # r => ann'[q] = ann[q]
<1>1. ann \in [Ids -> Row] /\ ann[r] \in Row
  BY DEF Typed, TypeOK
<1>. DEFINE new == Transitioned(ann[r], s, l)
<1>2. /\ new \in Row /\ new.status = s /\ new.level = l
      /\ new.nlri = ann[r].nlri /\ new.action = ann[r].action
      /\ new.sent = (ann[r].sent \/ s = "sent")
      /\ new.advertised = (ann[r].advertised \/ s = "advertised")
  BY <1>1, TransitionedType
<1>3. new.auto = ann[r].auto /\ new.claim = ann[r].claim
  BY <1>1 DEF Transitioned, Row
<1>4. CASE Transition(r, s, l)
  <2>1. ann'[r] = new /\ \A q \in Ids : q # r => ann'[q] = ann[q]
    BY <1>1, <1>4, TransitionType
  <2>. HIDE DEF new
  <2>. QED
    BY Zenon, <1>2, <1>3, <2>1
<1>5. CASE CancelDelivery(r, s, l)
  <2>1. ann' = [ann EXCEPT ![r] = [new EXCEPT !.sendToken = FALSE]]
    BY <1>5 DEF CancelDelivery
  <2>. HIDE DEF new
  <2>2. \A q \in Ids : q # r => ann'[q] = ann[q]
    BY <1>1, <2>1
  <2>3. ann'[r] = [new EXCEPT !.sendToken = FALSE]
    BY <1>1, <2>1
  <2>4. /\ ann'[r].status = new.status /\ ann'[r].level = new.level
        /\ ann'[r].nlri = new.nlri /\ ann'[r].action = new.action
        /\ ann'[r].auto = new.auto /\ ann'[r].claim = new.claim
        /\ ann'[r].sent = new.sent /\ ann'[r].advertised = new.advertised
    BY <1>2, <2>3 DEF Row
  <2>. QED
    BY Zenon, <1>2, <1>3, <2>2, <2>4
<1>. QED
  BY <1>4, <1>5

LEMMA PersistFields ==
  ASSUME Typed, NEW r \in Ids, NEW c \in Claims, PersistIntent(r, c)
  PROVE  /\ ann'[r].level = "withdraw_requested" /\ ann'[r].claim = c /\ ann'[r].recent
         /\ ann'[r].status = ann[r].status
         /\ ann'[r].nlri = ann[r].nlri /\ ann'[r].action = ann[r].action
         /\ ann'[r].auto = ann[r].auto
         /\ ann'[r].sent = ann[r].sent /\ ann'[r].advertised = ann[r].advertised
         /\ \A q \in Ids : q # r => ann'[q] = ann[q]
<1>1. ann \in [Ids -> Row] /\ ann[r] \in Row
  BY DEF Typed, TypeOK
<1>2. ann'[r] = [ann[r] EXCEPT !.level = "withdraw_requested", !.claim = c, !.recent = TRUE]
  BY <1>1 DEF PersistIntent
<1>3. \A q \in Ids : q # r => ann'[q] = ann[q]
  BY <1>1 DEF PersistIntent
<1>. QED
  BY <1>1, <1>2, <1>3 DEF Row

LEMMA KnownSame ==
  ASSUME \A q \in Ids : KnownRow(ann'[q]) = KnownRow(ann[q])
  PROVE  UNCHANGED KnownRows
BY DEF KnownRows

LEMMA KnownMoved ==
  ASSUME NEW r \in Ids, NEW s, \A q \in Ids : q # r => ann'[q] = ann[q],
         ann'[r].nlri = ann[r].nlri, ann'[r].action = ann[r].action,
         ann'[r].auto = ann[r].auto, ann'[r].level # "withdraw_requested",
         KnownStatus(ann'[r]) = s
  PROVE  Table!Moved(r, s)
<1>0. KnownRequest(ann'[r]) = "none"
  BY Zenon DEF KnownRequest
<1>1. KnownRow(ann'[r]) = [KnownRow(ann[r]) EXCEPT !.status = s, !.request = "none"]
  <2>1. KnownRow(ann'[r]) = [status |-> s, key |-> <<ann[r].nlri, ann[r].action>>,
                             auto |-> ann[r].auto, request |-> "none"]
    BY <1>0 DEF KnownRow
  <2>2. KnownRow(ann[r]) = [status |-> KnownStatus(ann[r]),
                            key |-> <<ann[r].nlri, ann[r].action>>,
                            auto |-> ann[r].auto, request |-> KnownRequest(ann[r])]
    BY DEF KnownRow
  <2>. DEFINE same == <<ann[r].nlri, ann[r].action>>
               moved == [status |-> s, key |-> same, auto |-> ann[r].auto,
                         request |-> KnownRequest(ann[r])]
  <2>3. [KnownRow(ann[r]) EXCEPT !.status = s] = moved
    BY <2>2
  <2>4. [moved EXCEPT !.request = "none"]
          = [status |-> s, key |-> same, auto |-> ann[r].auto, request |-> "none"]
    OBVIOUS
  <2>5. [KnownRow(ann[r]) EXCEPT !.status = s, !.request = "none"]
          = [[KnownRow(ann[r]) EXCEPT !.status = s] EXCEPT !.request = "none"]
    OBVIOUS
  <2>. QED
    BY Zenon, <2>1, <2>3, <2>4, <2>5
<1>2. \A q \in Ids : q # r => KnownRow(ann'[q]) = KnownRow(ann[q])
  OBVIOUS
<1>. HIDE DEF KnownRow
<1>3. KnownRows' = [KnownRows EXCEPT ![r] = [KnownRow(ann[r]) EXCEPT !.status = s,
                                                                  !.request = "none"]]
  BY <1>1, <1>2 DEF KnownRows
<1>4. KnownRows[r] = KnownRow(ann[r])
  BY DEF KnownRows
<1>. QED
  BY <1>3, <1>4 DEF Table!Moved

LEMMA KnownRequested ==
  ASSUME NEW r \in Ids, NEW owner, \A q \in Ids : q # r => ann'[q] = ann[q],
         ann'[r].nlri = ann[r].nlri, ann'[r].action = ann[r].action,
         ann'[r].auto = ann[r].auto, KnownStatus(ann'[r]) = KnownStatus(ann[r]),
         KnownRequest(ann'[r]) = owner
  PROVE  Table!Requested(r, owner)
<1>1. KnownRow(ann'[r]) = [KnownRow(ann[r]) EXCEPT !.request = owner]
  BY DEF KnownRow
<1>2. \A q \in Ids : q # r => KnownRow(ann'[q]) = KnownRow(ann[q])
  OBVIOUS
<1>. HIDE DEF KnownRow
<1>3. KnownRows' = [KnownRows EXCEPT ![r] = [KnownRow(ann[r]) EXCEPT !.request = owner]]
  BY <1>1, <1>2 DEF KnownRows
<1>4. KnownRows[r] = KnownRow(ann[r])
  BY DEF KnownRows
<1>. QED
  BY <1>3, <1>4 DEF Table!Requested

\* the fields of a known row
LEMMA KnownFields ==
  ASSUME NEW r \in Ids
  PROVE  /\ KnownRows[r].status = KnownStatus(ann[r])
         /\ KnownRows[r].request = KnownRequest(ann[r])
         /\ KnownRows[r].auto = ann[r].auto
         /\ KnownRows[r].key = <<ann[r].nlri, ann[r].action>>
         /\ r \in Table!AnnIds
BY DEF KnownRows, KnownRow, Table!AnnIds, Ids

LEMMA TableSame ==
  ASSUME TableInv, UNCHANGED ann
  PROVE  TableInv' /\ UNCHANGED KnownRows
<1>1. \A r \in Ids : RowInv(ann'[r])
  BY TableInvRows
<1>2. TableInv'
  BY <1>1, TableInvPrimed
<1>. QED
  BY <1>2, KnownSame

\* a row moved to another status
LEMMA TableMoved ==
  ASSUME Typed, TableInv, NEW r \in Ids, NEW s \in Statuses, NEW l \in Levels,
         Transition(r, s, l) \/ CancelDelivery(r, s, l),
         s # "pending_approval", l # "withdraw_requested",
         s = "queued" => ~Delivered(ann[r]),
         s = "advertised" => ann[r].sent
  PROVE  /\ TableInv'
         /\ Table!Moved(r, KnownStatus(ann'[r]))
         /\ s \notin {"rejected", "rejected_by_policy", "dry_run", "peer_down"}
              => KnownStatus(ann'[r]) = s
         /\ s \in {"rejected", "dry_run"} => KnownStatus(ann'[r]) = "failed"
<1>1. /\ ann'[r].status = s /\ ann'[r].level = l
      /\ ann'[r].nlri = ann[r].nlri /\ ann'[r].action = ann[r].action
      /\ ann'[r].auto = ann[r].auto /\ ann'[r].claim = ann[r].claim
      /\ ann'[r].sent = (ann[r].sent \/ s = "sent")
      /\ ann'[r].advertised = (ann[r].advertised \/ s = "advertised")
      /\ \A q \in Ids : q # r => ann'[q] = ann[q]
  BY TransitionFields
<1>2. RowInv(ann[r])
  BY TableInvRows
<1>3. RowInv(ann'[r])
  BY <1>1, <1>2 DEF RowInv, Delivered
<1>4. TableInv'
  BY <1>1, <1>3, TableInvOne
<1>5. Table!Moved(r, KnownStatus(ann'[r]))
  BY <1>1, KnownMoved
<1>6. s \notin {"rejected", "rejected_by_policy", "dry_run", "peer_down"}
        => KnownStatus(ann'[r]) = s
  BY <1>1 DEF KnownStatus
<1>7. s \in {"rejected", "dry_run"} => KnownStatus(ann'[r]) = "failed"
  BY <1>1 DEF KnownStatus
<1>. QED
  BY <1>4, <1>5, <1>6, <1>7

Owner(r, c) ==
    IF c \in Orchestrators \/ (c = AttemptClaim /\ ann[r].auto)
    THEN "worker" ELSE "others"

\* the withdraw of a row was asked for
LEMMA TableRequested ==
  ASSUME Typed, TableInv, NEW r \in Ids, NEW c \in Claims, PersistIntent(r, c),
         IntentAllowed(r)
  PROVE  /\ TableInv'
         /\ Table!IntentAllowed(r)
         /\ Table!Requested(r, Owner(r, c))
<1>1. /\ ann'[r].level = "withdraw_requested" /\ ann'[r].claim = c /\ ann'[r].recent
      /\ ann'[r].status = ann[r].status
      /\ ann'[r].nlri = ann[r].nlri /\ ann'[r].action = ann[r].action
      /\ ann'[r].auto = ann[r].auto
      /\ ann'[r].sent = ann[r].sent /\ ann'[r].advertised = ann[r].advertised
      /\ \A q \in Ids : q # r => ann'[q] = ann[q]
  BY PersistFields
<1>2. RowInv(ann[r])
  BY TableInvRows
<1>3. RowInv(ann'[r])
  BY <1>1, <1>2 DEF RowInv, Delivered
<1>4. TableInv'
  BY <1>1, <1>3, TableInvOne
<1>5. KnownStatus(ann'[r]) = KnownStatus(ann[r])
  BY <1>1 DEF KnownStatus, Delivered
<1>6. KnownRequest(ann'[r]) = Owner(r, c)
  BY <1>1 DEF KnownRequest, ByWorker, Owner
<1>7. Table!Requested(r, Owner(r, c))
  BY <1>1, <1>5, <1>6, KnownRequested
<1>8. KnownRequest(ann[r]) \in {"none", "stale"}
  BY DEF IntentAllowed, KnownRequest
<1>9. Table!IntentAllowed(r)
  BY <1>8, KnownFields DEF Table!IntentAllowed
<1>. QED
  BY <1>4, <1>7, <1>9

LEMMA OtherThread ==
  ASSUME NEW p \in Operators \cup Reconcilers \cup Testers
  PROVE  p \in Withdrawers /\ p \in Claims /\ p \notin Orchestrators /\ p # AttemptClaim
BY ThreadsAssumption DEF Withdrawers, Claims

\* a claim of another thread of an open row
LEMMA OthersClaim ==
  ASSUME Typed, TableInv, NEW p \in Operators \cup Reconcilers \cup Testers,
         NEW r \in Ids, PersistIntent(r, p), IntentAllowed(r),
         ann[r].status \notin Gone, ~WorkerMoves
  PROVE  TableInv' /\ TableStep
<1>1. p \in Claims /\ p \notin Orchestrators /\ p # AttemptClaim
  BY OtherThread
<1>2. TableInv' /\ Table!IntentAllowed(r) /\ Table!Requested(r, "others")
  BY <1>1, TableRequested DEF Owner
<1>3. KnownStatus(ann[r]) \notin Gone
  BY DEF KnownStatus, Gone
<1>4. Table!OthersRequest(r)
  BY <1>2, <1>3, KnownFields DEF Table!OthersRequest, Table!Closed, Gone
<1>. QED
  BY <1>2, <1>4, KnownFields DEF TableStep, Table!OthersChange

\* the end of a withdraw of another thread
LEMMA OthersFinish ==
  ASSUME Typed, TableInv, NEW p \in Operators \cup Reconcilers \cup Testers,
         NEW r \in Ids, NEW target \in {"withdrawn", "expired"}, NEW omit \in BOOLEAN,
         FinishWithdraw(r, target, omit), HoldsIntent(p, r), ~WorkerMoves
  PROVE  TableInv' /\ TableStep
<1>1. p \notin Orchestrators /\ p # AttemptClaim
  BY OtherThread
<1>2. KnownRequest(ann[r]) \in {"others", "stale"}
  BY <1>1 DEF KnownRequest, ByWorker, HoldsIntent
<1>3. ASSUME NEW s \in {"withdrawn", "expired", "failed_withdraw"}, NEW l \in Levels,
             l # "withdraw_requested", Transition(r, s, l)
      PROVE  TableInv' /\ TableStep
  <2>1. s \in Statuses
    BY DEF Statuses
  <2>2. TableInv' /\ Table!Moved(r, s)
    BY <1>3, <2>1, TableMoved
  <2>3. Table!OthersWithdraw(r, s)
    BY <1>2, <2>2, KnownFields DEF Table!OthersWithdraw
  <2>. QED
    BY <2>2, <2>3, KnownFields DEF TableStep, Table!OthersChange
<1>4. CASE UNCHANGED ann
  BY <1>4, TableSame DEF TableStep
<1>. QED
  BY <1>3, <1>4 DEF FinishWithdraw, Levels

\* a row was inserted
LEMMA TableInserted ==
  ASSUME Typed, KeyInv, TableInv, rows + 1 \in Ids,
         NEW s \in {"pending_approval", "queued", "dry_run", "rejected_by_policy"},
         NEW l \in Levels \ {"withdraw_requested"}, NEW n \in Nlris, NEW a \in Actions,
         NEW auto \in BOOLEAN, auto => s = "queued", NEW w \in BOOLEAN,
         ann' = [ann EXCEPT ![rows + 1] = NewRow(s, l, n, a, auto, w)]
  PROVE  /\ TableInv'
         /\ rows + 1 \in Table!FreeAnn
         /\ Table!Inserted(rows + 1, IF s \in {"dry_run", "rejected_by_policy"}
                                     THEN "failed" ELSE s, <<n, a>>, auto)
         /\ ann'[rows + 1].auto = auto
         /\ \A q \in Ids : q # rows + 1 => ann'[q] = ann[q]
<1>1. ann \in [Ids -> Row] /\ rows \in 0 .. MaxRows
  BY DEF Typed, TypeOK
<1>. DEFINE new == NewRow(s, l, n, a, auto, w)
            known == IF s \in {"dry_run", "rejected_by_policy"} THEN "failed" ELSE s
<1>2. /\ new.status = s /\ new.level = l /\ new.nlri = n /\ new.action = a
      /\ new.auto = auto /\ new.claim = NoClaim /\ ~new.sent /\ ~new.advertised
  BY DEF NewRow
<1>. HIDE DEF new
<1>3. ann'[rows + 1] = new /\ \A q \in Ids : q # rows + 1 => ann'[q] = ann[q]
  BY <1>1 DEF new
<1>4. RowInv(ann'[rows + 1])
  BY <1>2, <1>3 DEF RowInv, Delivered
<1>6. TableInv'
  BY <1>3, <1>4, TableInvOne
<1>7. KnownStatus(new) = known /\ KnownRequest(new) = "none"
  BY <1>2 DEF KnownStatus, KnownRequest
<1>. HIDE DEF known
<1>8. KnownRow(new) = [status |-> known, auto |-> auto, key |-> <<n, a>>, request |-> "none"]
  BY <1>2, <1>7 DEF KnownRow
<1>9. \A q \in Ids : q # rows + 1 => KnownRow(ann'[q]) = KnownRow(ann[q])
  BY <1>3
<1>10. KnownRows' = [KnownRows EXCEPT ![rows + 1] =
                       [status |-> known, auto |-> auto, key |-> <<n, a>>, request |-> "none"]]
  BY <1>3, <1>8, <1>9 DEF KnownRows
<1>11. Table!Inserted(rows + 1, known, <<n, a>>, auto)
  BY <1>10 DEF Table!Inserted
<1>12. \A q \in Ids : KnownRows[q].status = "absent" <=> q > rows
  <2>1. \A q \in Ids : ann[q].status = "absent" <=> ~(q <= rows)
    BY DEF KeyInv, TableInOrder
  <2>2. \A q \in Ids : KnownStatus(ann[q]) = "absent" <=> ann[q].status = "absent"
    BY DEF KnownStatus
  <2>3. \A q \in Ids : ~(q <= rows) <=> q > rows
    BY <1>1, MaxRowsAssumption DEF Ids
  <2>. QED
    BY <2>1, <2>2, <2>3, KnownFields
<1>13. rows + 1 \in Table!FreeAnn
  <2>1. rows + 1 > rows /\ \A q \in 1 .. (rows + 1) - 1 : q \in Ids /\ ~(q > rows)
    BY <1>1, MaxRowsAssumption DEF Ids
  <2>. QED
    BY <1>12, <2>1, KnownFields DEF Table!FreeAnn
<1>. QED
  BY <1>2, <1>3, <1>6, <1>11, <1>13 DEF known

LEMMA TableReserves ==
  ASSUME KeyInv, NEW n \in Nlris, NEW a \in Actions, ~Reserved(n, a)
  PROVE  Table!Equivalent(<<n, a>>) = {}
<1>1. ASSUME NEW r \in Ids, KnownRows[r].key = <<n, a>>
      PROVE  ~Table!AnnReserves(r)
  <2>1. ann[r].nlri = n /\ ann[r].action = a
    BY <1>1, KnownFields
  <2>2. r \notin Existing \/ ~Reserving(ann[r])
    BY <2>1 DEF Reserved, SameKey
  <2>3. ann[r].status = "absent" => ann[r].level # "withdraw_requested"
    BY DEF KeyInv, GoneHasNoRequest, Gone
  <2>4. ann[r].level # "withdraw_requested"
    BY <2>2, <2>3 DEF Reserving, Existing
  <2>5. KnownRequest(ann[r]) = "none"
    BY <2>4 DEF KnownRequest
  <2>6. KnownStatus(ann[r]) \notin {"pending_approval", "queued", "sent", "advertised",
                                    "peer_down", "failed_withdraw"}
    BY <2>2 DEF Reserving, Existing, KnownStatus
  <2>. QED
    BY <2>5, <2>6, KnownFields DEF Table!AnnReserves
<1>2. Table!AnnIds = Ids
  BY DEF Table!AnnIds, Ids
<1>. QED
  BY <1>1, <1>2 DEF Table!Equivalent

LEMMA CreationTable ==
  ASSUME Typed, KeyInv, TableInv, NEW n \in Nlris, NEW a \in Actions,
         \/ \E auto \in BOOLEAN : InsertQueued(n, a, auto)
         \/ InsertUndelivered(n, a)
  PROVE  TableInv' /\ TableStep
<1>. DEFINE r == rows + 1
<1>1. <<n, a>> \in Nlris \X Actions
  OBVIOUS
<1>2. CASE \E auto \in BOOLEAN : InsertQueued(n, a, auto)
  <2>1. PICK auto \in BOOLEAN : InsertQueued(n, a, auto)
    BY <1>2
  <2>2. /\ r \in Ids /\ Insert("queued", "approved", n, a, auto) /\ ~Reserved(n, a)
        /\ ann' = [ann EXCEPT ![r] = NewRow("queued", "approved", n, a, auto, FALSE)]
    BY <2>1, InsertTyped DEF InsertQueued, Insert, Statuses, Levels
  <2>3. "approved" \in Levels \ {"withdraw_requested"}
    BY DEF Levels
  <2>4. /\ TableInv' /\ r \in Table!FreeAnn
        /\ Table!Inserted(r, "queued", <<n, a>>, auto)
        /\ ann'[r].auto = auto /\ \A q \in Ids : q # r => ann'[q] = ann[q]
    BY <2>2, <2>3, TableInserted
  <2>5. Table!Equivalent(<<n, a>>) = {}
    BY <2>2, TableReserves
  <2>6. att \in [Ids -> Pcs] /\ att' = [att EXCEPT ![r] = "ready"] /\ UNCHANGED job
    BY <2>1 DEF InsertQueued, Insert, Typed, TypeOK, Pcs
  <2>7. CASE auto
    <3>1. ann[r].status = "absent"
      BY <2>2 DEF KeyInv, TableInOrder, Insert, Typed, TypeOK, Ids
    <3>2. att[r] = "none"
      BY <3>1, <2>2 DEF KeyInv, DeliveriesAreTracked
    <3>3. WorkerMoves
      BY <2>2, <2>4, <2>6, <2>7, <3>2 DEF WorkerMoves
    <3>4. Table!WorkerInserts(r, <<n, a>>)
      BY <2>4, <2>5, <2>7 DEF Table!WorkerInserts
    <3>5. Table!WorkerChange
      BY <1>1, <2>2, <3>4, KnownFields DEF Table!WorkerChange
    <3>. QED
      BY <2>4, <3>3, <3>5 DEF TableStep
  <2>8. CASE ~auto
    <3>1. ~WorkerMoves
      BY <2>4, <2>6, <2>8, NotTheWorker
    <3>2. Table!OthersInsert(<<n, a>>, "queued")
      BY <2>4, <2>8 DEF Table!OthersInsert
    <3>3. Table!OthersChange
      BY <1>1, <3>2 DEF Table!OthersChange
    <3>. QED
      BY <2>4, <3>1, <3>3 DEF TableStep
  <2>. QED
    BY <2>7, <2>8
<1>3. CASE InsertUndelivered(n, a)
  <2>1. ASSUME NEW s \in {"pending_approval", "dry_run", "rejected_by_policy"},
               NEW l \in {"registered", "simulation_only"}, Insert(s, l, n, a, FALSE)
        PROVE  TableInv' /\ TableStep
    <3>1. s \in Statuses /\ l \in Levels \ {"withdraw_requested"}
      BY DEF Statuses, Levels
    <3>2. /\ r \in Ids /\ ~Reserved(n, a)
          /\ ann' = [ann EXCEPT ![r] = NewRow(s, l, n, a, FALSE, FALSE)]
      BY <2>1, <3>1, InsertTyped DEF Insert
    <3>. DEFINE known == IF s \in {"dry_run", "rejected_by_policy"} THEN "failed" ELSE s
    <3>3. /\ TableInv' /\ r \in Table!FreeAnn
          /\ Table!Inserted(r, known, <<n, a>>, FALSE)
      BY <3>1, <3>2, TableInserted
    <3>4. Table!Equivalent(<<n, a>>) = {}
      BY <3>2, TableReserves
    <3>5. Table!OthersInsert(<<n, a>>, known)
      BY <3>3, <3>4 DEF Table!OthersInsert
    <3>6. known \in {"queued", "pending_approval", "failed"}
      OBVIOUS
    <3>. HIDE DEF known
    <3>7. Table!OthersChange
      BY <1>1, <3>5, <3>6 DEF Table!OthersChange
    <3>8. ~WorkerMoves
      BY <1>3, <2>1, NotTheWorker DEF InsertUndelivered, Insert
    <3>. QED
      BY <3>3, <3>7, <3>8 DEF TableStep
  <2>. QED
    BY <1>3, <2>1 DEF InsertUndelivered
<1>. QED
  BY <1>2, <1>3

\* an update the worker does not notice, or notices only of the request
LEMMA TableKeeps ==
  ASSUME TableInv, NEW r \in Ids, \A q \in Ids : q # r => ann'[q] = ann[q],
         ann'[r].status = ann[r].status, ann'[r].claim = ann[r].claim,
         ann'[r].nlri = ann[r].nlri, ann'[r].action = ann[r].action,
         ann'[r].auto = ann[r].auto,
         ann'[r].sent = ann[r].sent, ann'[r].advertised = ann[r].advertised
  PROVE  /\ TableInv'
         /\ KnownStatus(ann'[r]) = KnownStatus(ann[r])
         /\ KnownRequest(ann'[r]) = KnownRequest(ann[r]) => UNCHANGED KnownRows
<1>1. RowInv(ann[r])
  BY TableInvRows
<1>2. RowInv(ann'[r])
  BY <1>1 DEF RowInv, Delivered
<1>3. TableInv'
  BY <1>2, TableInvOne
<1>4. KnownStatus(ann'[r]) = KnownStatus(ann[r])
  BY DEF KnownStatus, Delivered
<1>5. ASSUME KnownRequest(ann'[r]) = KnownRequest(ann[r])
      PROVE  UNCHANGED KnownRows
  <2>1. KnownRow(ann'[r]) = KnownRow(ann[r])
    BY <1>4, <1>5 DEF KnownRow
  <2>. QED
    BY <2>1, KnownSame
<1>. QED
  BY <1>3, <1>4, <1>5

LEMMA TimeTable ==
  ASSUME Typed, TableInv, NEW r \in Ids, TtlElapses(r) \/ RetryWindowElapses(r)
  PROVE  TableInv' /\ TableStep
<1>1. ann \in [Ids -> Row] /\ ann[r] \in Row
  BY DEF Typed, TypeOK
<1>2. CASE TtlElapses(r)
  <2>1. ann'[r] = [ann[r] EXCEPT !.expiry = "elapsed"] /\ \A q \in Ids : q # r => ann'[q] = ann[q]
    BY <1>1, <1>2 DEF TtlElapses
  <2>2. /\ ann'[r].status = ann[r].status /\ ann'[r].claim = ann[r].claim
        /\ ann'[r].nlri = ann[r].nlri /\ ann'[r].action = ann[r].action
        /\ ann'[r].auto = ann[r].auto /\ ann'[r].level = ann[r].level
        /\ ann'[r].sent = ann[r].sent /\ ann'[r].advertised = ann[r].advertised
        /\ ann'[r].recent = ann[r].recent
    BY <1>1, <2>1 DEF Row
  <2>3. KnownRequest(ann'[r]) = KnownRequest(ann[r])
    BY <2>2 DEF KnownRequest, ByWorker
  <2>. QED
    BY <2>1, <2>2, <2>3, TableKeeps DEF TableStep
<1>3. CASE RetryWindowElapses(r)
  <2>1. ann'[r] = [ann[r] EXCEPT !.recent = FALSE] /\ \A q \in Ids : q # r => ann'[q] = ann[q]
    BY <1>1, <1>3 DEF RetryWindowElapses
  <2>2. /\ ann'[r].status = ann[r].status /\ ann'[r].claim = ann[r].claim
        /\ ann'[r].nlri = ann[r].nlri /\ ann'[r].action = ann[r].action
        /\ ann'[r].auto = ann[r].auto /\ ann'[r].level = ann[r].level
        /\ ann'[r].sent = ann[r].sent /\ ann'[r].advertised = ann[r].advertised
        /\ ~ann'[r].recent /\ ann[r].recent
    BY <1>1, <1>3, <2>1 DEF Row, RetryWindowElapses
  <2>3. /\ TableInv' /\ KnownStatus(ann'[r]) = KnownStatus(ann[r])
        /\ KnownRequest(ann'[r]) = KnownRequest(ann[r]) => UNCHANGED KnownRows
    BY <2>1, <2>2, TableKeeps
  <2>4. CASE ann[r].level # "withdraw_requested"
    BY <2>2, <2>3, <2>4 DEF KnownRequest, TableStep
  <2>5. CASE ann[r].level = "withdraw_requested"
    <3>1. KnownRequest(ann'[r]) = "stale" /\ KnownRequest(ann[r]) \in {"worker", "others"}
      BY <2>2, <2>5 DEF KnownRequest
    <3>2. Table!Requested(r, "stale")
      BY <2>1, <2>2, <2>3, <3>1, KnownRequested
    <3>3. Table!RequestLapses(r)
      BY <3>1, <3>2, KnownFields DEF Table!RequestLapses
    <3>4. Table!OthersChange
      BY <3>3, KnownFields DEF Table!OthersChange
    <3>5. ~WorkerMoves
      BY <1>3, NotTheWorker DEF RetryWindowElapses
    <3>. QED
      BY <2>3, <3>4, <3>5 DEF TableStep
  <2>. QED
    BY <2>4, <2>5
<1>. QED
  BY <1>2, <1>3

\* a delivery that goes on is the worker's when the row is its own
LEMMA DeliveryIsWorkers ==
  ASSUME Typed, NEW r \in Ids, NEW pc \in Pcs, AttemptTo(r, pc), pc # att[r],
         ann'[r].auto = ann[r].auto, UNCHANGED job
  PROVE  WorkerMoves <=> ann[r].auto
<1>1. att \in [Ids -> Pcs]
  BY DEF Typed, TypeOK, Pcs
<1>2. att'[r] = pc /\ \A q \in Ids : q # r => att'[q] = att[q]
  BY <1>1 DEF AttemptTo
<1>3. CASE ann[r].auto
  BY <1>2, <1>3 DEF WorkerMoves
<1>4. CASE ~ann[r].auto
  BY <1>2, <1>4, NotTheWorker
<1>. QED
  BY <1>3, <1>4

\* a delivery that ends, was made or was recorded
LEMMA DeliveryEndsTable ==
  ASSUME Typed, TableInv, NEW r \in Ids, NEW pc \in Pcs, AttemptTo(r, pc), pc # att[r],
         UNCHANGED job, NEW s \in Statuses, NEW l \in Levels, l # "withdraw_requested",
         Transition(r, s, l) \/ CancelDelivery(r, s, l),
         \/ /\ s \in {"sent", "failed", "peer_down"}
            /\ ann[r].status = "queued" /\ ann[r].level # "withdraw_requested"
         \/ s = "advertised" /\ ann[r].status = "sent"
  PROVE  TableInv' /\ TableStep
<1>1. RowInv(ann[r])
  BY TableInvRows
<1>2. /\ ann'[r].auto = ann[r].auto /\ ann'[r].status = s
      /\ ann'[r].sent = (ann[r].sent \/ s = "sent")
      /\ ann'[r].advertised = (ann[r].advertised \/ s = "advertised")
  BY TransitionFields
<1>3. TableInv' /\ Table!Moved(r, KnownStatus(ann'[r]))
  BY <1>1, TableMoved DEF RowInv
<1>4. WorkerMoves <=> ann[r].auto
  BY <1>2, DeliveryIsWorkers
<1>5. KnownRows[r].auto = ann[r].auto /\ r \in Table!AnnIds
  BY KnownFields
<1>6. CASE ann[r].status = "queued"
  <2>1. s \in {"sent", "failed", "peer_down"}
    BY <1>6
  <2>2. KnownStatus(ann'[r]) \in {"sent", "failed"}
    BY <1>1, <1>2, <1>6, <2>1 DEF KnownStatus, RowInv, Delivered
  <2>3. Table!Deliverable(r)
    BY <1>6, KnownFields DEF Table!Deliverable, KnownStatus, KnownRequest
  <2>4. CASE ann[r].auto
    BY <1>3, <1>4, <1>5, <2>2, <2>3, <2>4
    DEF TableStep, Table!WorkerChange, Table!WorkerDelivers
  <2>5. CASE ~ann[r].auto
    BY <1>3, <1>4, <1>5, <2>2, <2>3, <2>5
    DEF TableStep, Table!OthersChange, Table!OthersDeliver
  <2>. QED
    BY <2>4, <2>5
<1>7. CASE ann[r].status = "sent"
  <2>1. KnownStatus(ann'[r]) = "advertised"
    BY <1>2, <1>7 DEF KnownStatus
  <2>2. KnownRows[r].status = "sent"
    BY <1>7, KnownFields DEF KnownStatus
  <2>3. CASE ann[r].auto
    BY <1>3, <1>4, <1>5, <2>1, <2>2, <2>3
    DEF TableStep, Table!WorkerChange, Table!WorkerConfirms
  <2>4. CASE ~ann[r].auto
    BY <1>3, <1>4, <1>5, <2>1, <2>2, <2>4
    DEF TableStep, Table!OthersChange, Table!OthersConfirm
  <2>. QED
    BY <2>3, <2>4
<1>. QED
  BY <1>6, <1>7

LEMMA SendIntentTable ==
  ASSUME Typed, TableInv, NEW r \in Ids, SendIntent(r)
  PROVE  TableInv' /\ TableStep
<1>1. ann \in [Ids -> Row] /\ ann[r] \in Row
  BY DEF Typed, TypeOK
<1>2. CASE UNCHANGED ann
  BY <1>2, TableSame DEF TableStep
<1>3. CASE ann' = [ann EXCEPT ![r] = SendClaimed(ann[r])] /\ ann[r].level # "withdraw_requested"
  <2>1. ann'[r] = SendClaimed(ann[r]) /\ \A q \in Ids : q # r => ann'[q] = ann[q]
    BY <1>1, <1>3
  <2>2. /\ SendClaimed(ann[r]).status = ann[r].status
        /\ SendClaimed(ann[r]).claim = ann[r].claim
        /\ SendClaimed(ann[r]).nlri = ann[r].nlri
        /\ SendClaimed(ann[r]).action = ann[r].action
        /\ SendClaimed(ann[r]).auto = ann[r].auto
        /\ SendClaimed(ann[r]).sent = ann[r].sent
        /\ SendClaimed(ann[r]).advertised = ann[r].advertised
        /\ SendClaimed(ann[r]).level = "delivery_attempted"
    BY <1>1 DEF SendClaimed, Row
  <2>3. KnownRequest(ann'[r]) = "none" /\ KnownRequest(ann[r]) = "none"
    BY <1>3, <2>1, <2>2 DEF KnownRequest
  <2>. QED
    BY <2>1, <2>2, <2>3, TableKeeps DEF TableStep
<1>. QED
  BY <1>2, <1>3 DEF SendIntent

LEMMA CompensationTable ==
  ASSUME Typed, TableInv, NEW r \in Ids, Compensate(r) \/ Undo(r)
  PROVE  TableInv' /\ TableStep
<1>1. CASE UNCHANGED ann
  BY <1>1, TableSame DEF TableStep
<1>2. r \in Table!AnnIds /\ KnownRows[r].auto = ann[r].auto
  BY KnownFields
<1>3. ASSUME Compensate(r), ~UNCHANGED ann
      PROVE  TableInv' /\ TableStep
  <2>1. /\ att[r] = "compensate" /\ AttemptTo(r, "undo") /\ UNCHANGED job
        /\ ann[r].status \in {"queued", "sent"} /\ IntentAllowed(r)
        /\ PersistIntent(r, AttemptClaim)
    BY <1>3 DEF Compensate
  <2>2. AttemptClaim \in Claims /\ AttemptClaim \notin Orchestrators
    BY ThreadsAssumption DEF Claims, Withdrawers
  <2>3. ann'[r].auto = ann[r].auto
    BY <2>1, <2>2, PersistFields
  <2>4. WorkerMoves <=> ann[r].auto
    BY <2>1, <2>3, DeliveryIsWorkers DEF Pcs
  <2>5. /\ TableInv' /\ Table!IntentAllowed(r)
        /\ Table!Requested(r, IF ann[r].auto THEN "worker" ELSE "others")
    BY <2>1, <2>2, TableRequested DEF Owner
  <2>6. KnownRows[r].status \notin {"absent", "withdrawn", "expired"}
    BY <2>1, KnownFields DEF KnownStatus
  <2>7. CASE ann[r].auto
    <3>1. Table!WorkerRequests(r)
      BY <2>5, <2>6, <2>7 DEF Table!WorkerRequests, Table!Closed
    <3>. QED
      BY <1>2, <2>4, <2>5, <2>7, <3>1 DEF TableStep, Table!WorkerChange
  <2>8. CASE ~ann[r].auto
    <3>1. Table!OthersRequest(r)
      BY <2>5, <2>6, <2>8 DEF Table!OthersRequest, Table!Closed
    <3>. QED
      BY <1>2, <2>4, <2>5, <2>8, <3>1 DEF TableStep, Table!OthersChange
  <2>. QED
    BY <2>7, <2>8
<1>4. ASSUME Undo(r), ~UNCHANGED ann
      PROVE  TableInv' /\ TableStep
  <2>1. /\ att[r] = "undo" /\ AttemptTo(r, "none") /\ UNCHANGED job
        /\ ann[r].status \in {"queued", "sent"} /\ ann[r].level = "withdraw_requested"
    BY <1>4 DEF Undo
  <2>2. PICK s \in {"failed", "failed_withdraw"},
             l \in {"compensating_withdraw_delivered", "withdraw_failed"} :
               Transition(r, s, l)
    BY <1>4 DEF Undo
  <2>3. s \in Statuses /\ l \in Levels
    BY DEF Statuses, Levels
  <2>4. /\ TableInv' /\ Table!Moved(r, KnownStatus(ann'[r])) /\ KnownStatus(ann'[r]) = s
    BY <2>2, <2>3, TableMoved
  <2>5. ann'[r].auto = ann[r].auto
    BY <2>2, <2>3, TransitionFields
  <2>6. WorkerMoves <=> ann[r].auto
    BY <2>1, <2>5, DeliveryIsWorkers DEF Pcs
  <2>7. KnownRows[r].status \in {"queued", "sent"} /\ KnownRows[r].request # "none"
    BY <2>1, KnownFields DEF KnownStatus, KnownRequest
  <2>8. CASE ann[r].auto
    <3>1. Table!WorkerSettles(r, s)
      BY <2>4, <2>7 DEF Table!WorkerSettles
    <3>. QED
      BY <1>2, <2>4, <2>6, <2>8, <3>1 DEF TableStep, Table!WorkerChange
  <2>9. CASE ~ann[r].auto
    <3>1. Table!OthersWithdraw(r, s)
      BY <1>2, <2>4, <2>7, <2>9 DEF Table!OthersWithdraw
    <3>. QED
      BY <1>2, <2>4, <2>6, <2>9, <3>1 DEF TableStep, Table!OthersChange
  <2>. QED
    BY <2>8, <2>9
<1>. QED
  BY <1>1, <1>3, <1>4

LEMMA DeliveryTable ==
  ASSUME Typed, TableInv, NEW r \in Ids, Delivery(r)
  PROVE  TableInv' /\ TableStep
<1>1. CASE UNCHANGED ann
  BY <1>1, TableSame DEF TableStep
<1>2. CASE SendIntent(r)
  BY <1>2, SendIntentTable
<1>3. CASE NotReady(r) /\ ~UNCHANGED ann
  <2>1. PICK s \in {"peer_down", "failed"} : CancelDelivery(r, s, "peer_unavailable")
    BY <1>3 DEF NotReady
  <2>2. s \in Statuses /\ "peer_unavailable" \in Levels
    BY DEF Statuses, Levels
  <2>3. /\ att[r] = "claimed" /\ AttemptTo(r, "none") /\ UNCHANGED job
        /\ ann[r].status = "queued" /\ ann[r].level # "withdraw_requested"
    BY <1>3 DEF NotReady, StillClaimed
  <2>. QED
    BY <2>1, <2>2, <2>3, DeliveryEndsTable DEF Pcs
<1>4. CASE Deliver(r) /\ ~UNCHANGED ann
  <2>1. /\ att[r] = "claimed" /\ UNCHANGED job
        /\ ann[r].status = "queued" /\ ann[r].level # "withdraw_requested"
    BY <1>4 DEF Deliver, StillClaimed
  <2>2. CASE Transition(r, "sent", "delivered_to_exabgp") /\ AttemptTo(r, "sent")
    BY <2>1, <2>2, DeliveryEndsTable DEF Pcs, Statuses, Levels
  <2>3. CASE CancelDelivery(r, "failed", "peer_established") /\ AttemptTo(r, "none")
    BY <2>1, <2>3, DeliveryEndsTable DEF Pcs, Statuses, Levels
  <2>. QED
    BY <1>4, <2>2, <2>3 DEF Deliver
<1>5. CASE Advertise(r) /\ ~UNCHANGED ann
  <2>1. /\ att[r] = "sent" /\ UNCHANGED job /\ AttemptTo(r, "none")
        /\ ann[r].status = "sent"
        /\ Transition(r, "advertised", "peer_established_announce_requested")
    BY <1>5 DEF Advertise
  <2>. QED
    BY <2>1, DeliveryEndsTable DEF Pcs, Statuses, Levels
<1>6. CASE Compensate(r) \/ Undo(r)
  BY <1>6, CompensationTable
<1>. QED
  BY <1>1, <1>2, <1>3, <1>4, <1>5, <1>6 DEF Delivery

LEMMA OrchestratorsAlone ==
  ASSUME NEW p \in Operators \cup Reconcilers \cup Testers,
         Release(p) \/ UNCHANGED job \/ \E r, seen : Claimed(p, r, seen),
         Typed, UNCHANGED att
  PROVE  ~WorkerMoves
<1>1. p \notin Orchestrators /\ p \in Withdrawers
  BY OtherThread
<1>2. \A q \in Orchestrators : q \in Withdrawers
  BY DEF Withdrawers
<1>3. \A q \in Orchestrators : job'[q] = job[q]
  BY <1>1, <1>2 DEF Release, Claimed, Typed, TypeOK
<1>. QED
  BY <1>3, NotTheWorker

LEMMA ReconcileTable ==
  ASSUME Typed, KeyInv, TableInv, NEW p \in Reconcilers, Reconcile(p)
  PROVE  TableInv' /\ TableStep
<1>1. CASE UNCHANGED ann
  BY <1>1, TableSame DEF TableStep
<1>2. CASE Scan(p)
  BY <1>1, <1>2 DEF Scan
<1>3. ASSUME NEW r \in Ids, NEW seen \in Statuses, ReconcilerClaim(p, r, seen),
             ~UNCHANGED ann
      PROVE  TableInv' /\ TableStep
  <2>1. /\ <<r, seen>> \in due[p] /\ ann[r].status = seen /\ IntentAllowed(r)
        /\ PersistIntent(r, p) /\ Claimed(p, r, seen) /\ UNCHANGED att
    BY <1>3 DEF ReconcilerClaim
  <2>2. ann[r].status \notin Gone
    BY <2>1 DEF KeyInv, ScansSawOpenRows
  <2>3. ~WorkerMoves
    BY <2>1, OrchestratorsAlone
  <2>. QED
    BY <2>1, <2>2, <2>3, OthersClaim
<1>4. CASE ReconcilerFinish(p) /\ ~UNCHANGED ann
  <2>. DEFINE r == job[p].row
             target == IF ann[r].expiry = "elapsed" THEN "expired" ELSE "withdrawn"
             omit == Superseded(r)
  <2>1. /\ job[p].pc = "claimed" /\ HoldsIntent(p, r) /\ FinishWithdraw(r, target, omit)
        /\ Release(p) /\ UNCHANGED att
    BY <1>4 DEF ReconcilerFinish
  <2>2. r \in Ids /\ target \in {"withdrawn", "expired"} /\ omit \in BOOLEAN
    BY <2>1, OtherThread DEF Typed, JobHasRow, Superseded
  <2>3. ~WorkerMoves
    BY <2>1, OrchestratorsAlone
  <2>. HIDE DEF r, target, omit
  <2>. QED
    BY <2>1, <2>2, <2>3, OthersFinish
<1>. QED
  BY <1>1, <1>2, <1>3, <1>4 DEF Reconcile

LEMMA OperateTable ==
  ASSUME Typed, TableInv, NEW p \in Operators, Operate(p)
  PROVE  TableInv' /\ TableStep
<1>1. CASE UNCHANGED ann
  BY <1>1, TableSame DEF TableStep
<1>2. ASSUME NEW r \in Ids, OperatorClaim(p, r)
      PROVE  TableInv' /\ TableStep
  <2>1. /\ IntentAllowed(r) /\ PersistIntent(r, p) /\ UNCHANGED att
        /\ Claimed(p, r, ann[r].status) /\ ann[r].status \notin Gone
    BY <1>2 DEF OperatorClaim, Gone
  <2>2. ~WorkerMoves
    BY <2>1, OrchestratorsAlone
  <2>. QED
    BY <2>1, <2>2, OthersClaim
<1>3. CASE OperatorFinish(p) /\ ~UNCHANGED ann
  <2>. DEFINE r == job[p].row
             omit == Superseded(r)
  <2>1. /\ job[p].pc = "claimed" /\ HoldsIntent(p, r) /\ FinishWithdraw(r, "withdrawn", omit)
        /\ Release(p) /\ UNCHANGED att
    BY <1>3 DEF OperatorFinish
  <2>2. r \in Ids /\ omit \in BOOLEAN
    BY <2>1, OtherThread DEF Typed, JobHasRow, Superseded
  <2>3. ~WorkerMoves
    BY <2>1, OrchestratorsAlone
  <2>. HIDE DEF r, omit
  <2>. QED
    BY <2>1, <2>2, <2>3, OthersFinish
<1>. QED
  BY <1>1, <1>2, <1>3 DEF Operate

LEMMA ManualWithdrawTable ==
  ASSUME Typed, KeyInv, TableInv, NEW p \in Testers, ManualWithdraw(p)
  PROVE  TableInv' /\ TableStep
<1>1. CASE UNCHANGED ann
  BY <1>1, TableSame DEF TableStep
<1>2. p \notin Orchestrators /\ p \in Withdrawers
  BY OtherThread
<1>3. ASSUME NEW n \in Nlris, NEW a \in Actions, TesterInsert(p, n, a)
      PROVE  TableInv' /\ TableStep
  <2>. DEFINE r == rows + 1
  <2>1. r \in Ids
    BY <1>3, MaxRowsAssumption DEF TesterInsert, Typed, TypeOK, Ids
  <2>2. /\ TableInv' /\ r \in Table!FreeAnn
        /\ Table!Inserted(r, "queued", <<n, a>>, FALSE)
    <3>1. ann' = [ann EXCEPT ![r] = NewRow("queued", "approved", n, a, FALSE, TRUE)]
      BY <1>3 DEF TesterInsert
    <3>2. "approved" \in Levels \ {"withdraw_requested"}
      BY DEF Levels
    <3>. QED
      BY <2>1, <3>1, <3>2, TableInserted
  <2>3. ~WorkerMoves
    <3>1. \A q \in Orchestrators : q \in Withdrawers
      BY DEF Withdrawers
    <3>2. \A q \in Orchestrators : job'[q] = job[q]
      BY <1>2, <1>3, <3>1 DEF TesterInsert, Typed, TypeOK
    <3>. QED
      BY <1>3, <3>2, NotTheWorker DEF TesterInsert
  <2>4. Table!OthersInsert(<<n, a>>, "queued")
    BY <2>2 DEF Table!OthersInsert
  <2>5. <<n, a>> \in Nlris \X Actions
    OBVIOUS
  <2>. QED
    BY <2>2, <2>3, <2>4, <2>5 DEF TableStep, Table!OthersChange
<1>4. CASE TesterClaim(p) /\ ~UNCHANGED ann
  <2>. DEFINE r == job[p].row
  <2>1. /\ job[p].pc = "inserted" /\ ann[r].status = "queued" /\ IntentAllowed(r)
        /\ PersistIntent(r, p) /\ Claimed(p, r, "queued") /\ UNCHANGED att
    BY <1>4 DEF TesterClaim
  <2>2. r \in Ids /\ ann[r].status \notin Gone
    BY <1>2, <2>1 DEF Typed, JobHasRow, Gone
  <2>3. ~WorkerMoves
    BY <2>1, OrchestratorsAlone
  <2>. QED
    BY <2>1, <2>2, <2>3, OthersClaim
<1>5. CASE TesterFinish(p) /\ ~UNCHANGED ann
  <2>. DEFINE r == job[p].row
  <2>1. /\ job[p].pc = "claimed" /\ HoldsIntent(p, r) /\ FinishWithdraw(r, "withdrawn", FALSE)
        /\ Release(p) /\ UNCHANGED att
    BY <1>5 DEF TesterFinish
  <2>2. r \in Ids
    BY <1>2, <2>1 DEF Typed, JobHasRow
  <2>3. ~WorkerMoves
    BY <2>1, OrchestratorsAlone
  <2>. HIDE DEF r
  <2>. QED
    BY <2>1, <2>2, <2>3, OthersFinish
<1>6. ASSUME NEW n \in Nlris, NEW a \in Actions, TesterCheck(p, n, a)
      PROVE  TableInv' /\ TableStep
  BY <1>1, <1>6 DEF TesterCheck
<1>. QED
  BY <1>1, <1>3, <1>4, <1>5, <1>6 DEF ManualWithdraw

LEMMA OrchestratorTable ==
  ASSUME Typed, TableInv, NEW p \in Orchestrators, OrchestratorWithdraw(p)
  PROVE  TableInv' /\ TableStep
<1>1. CASE UNCHANGED ann
  BY <1>1, TableSame DEF TableStep
<1>2. p \in Withdrawers /\ p \in Claims
  BY DEF Withdrawers, Claims
<1>3. ASSUME NEW r \in Ids, OrchestratorClaim(p, r)
      PROVE  TableInv' /\ TableStep
  <2>1. /\ job[p].pc = "idle" /\ ann[r].status \notin Gone
        /\ IntentAllowed(r) /\ PersistIntent(r, p) /\ Claimed(p, r, ann[r].status)
    BY <1>3 DEF OrchestratorClaim, OrchestratorFree, Gone
  <2>2. TableInv' /\ Table!IntentAllowed(r) /\ Table!Requested(r, "worker")
    BY <1>2, <2>1, TableRequested DEF Owner
  <2>3. WorkerMoves
    <3>1. job'[p].pc = "claimed"
      BY <1>2, <2>1 DEF Claimed, Typed, TypeOK
    <3>. QED
      BY <2>1, <3>1 DEF WorkerMoves
  <2>4. KnownRows[r].status \notin {"absent", "withdrawn", "expired"}
    BY <2>1, KnownFields DEF KnownStatus, Gone
  <2>5. Table!WorkerRequests(r)
    BY <2>2, <2>4 DEF Table!WorkerRequests, Table!Closed
  <2>. QED
    BY <2>2, <2>3, <2>5, KnownFields DEF TableStep, Table!WorkerChange
<1>4. CASE OrchestratorFinish(p) /\ ~UNCHANGED ann
  <2>. DEFINE r == job[p].row
  <2>1. /\ job[p].pc = "claimed" /\ ann[r].level = "withdraw_requested" /\ Release(p)
    BY <1>4 DEF OrchestratorFinish
  <2>2. r \in Ids
    BY <1>2, <2>1 DEF Typed, JobHasRow
  <2>3. PICK s \in {"expired", "failed_withdraw"}, l \in {"withdrawn", "withdraw_failed"} :
               Transition(r, s, l)
    BY <1>4 DEF OrchestratorFinish
  <2>4. s \in Statuses /\ l \in Levels
    BY DEF Statuses, Levels
  <2>. HIDE DEF r
  <2>5. /\ TableInv' /\ Table!Moved(r, KnownStatus(ann'[r])) /\ KnownStatus(ann'[r]) = s
    BY <2>2, <2>3, <2>4, TableMoved
  <2>6. WorkerMoves
    <3>1. job'[p].pc = "idle"
      BY <1>2, <2>1 DEF Release, Idle, Typed, TypeOK
    <3>. QED
      BY <2>1, <3>1 DEF WorkerMoves
  <2>7. KnownRows[r].request # "none"
    BY <2>1, <2>2, KnownFields DEF KnownRequest
  <2>8. Table!WorkerSettles(r, s)
    BY <2>5, <2>7 DEF Table!WorkerSettles
  <2>. QED
    BY <2>2, <2>5, <2>6, <2>8, KnownFields DEF TableStep, Table!WorkerChange
<1>. QED
  BY <1>1, <1>3, <1>4 DEF OrchestratorWithdraw

LEMMA DecisionsTable ==
  ASSUME Typed, TableInv, NEW r \in Ids, Approve(r) \/ Reject(r) \/ DropUndelivered(r)
  PROVE  TableInv' /\ TableStep
<1>1. RowInv(ann[r])
  BY TableInvRows
<1>2. r \in Table!AnnIds /\ KnownRows[r].status = KnownStatus(ann[r])
  BY KnownFields
<1>3. CASE Approve(r)
  <2>1. /\ ann[r].status = "pending_approval" /\ UNCHANGED job
        /\ \A q \in Ids : q # r => att'[q] = att[q]
    BY <1>3 DEF Approve, AttemptTo, Typed, TypeOK
  <2>2. PICK s \in {"queued", "dry_run"}, l \in {"approved", "simulation_only"} :
               Transition(r, s, l)
    BY <1>3 DEF Approve
  <2>3. s \in Statuses /\ l \in Levels
    BY DEF Statuses, Levels
  <2>4. /\ TableInv' /\ Table!Moved(r, KnownStatus(ann'[r]))
        /\ KnownStatus(ann'[r]) \in {"queued", "failed"}
    BY <1>1, <2>1, <2>2, <2>3, TableMoved DEF RowInv
  <2>5. ~WorkerMoves
    <3>1. ann'[r].auto = ann[r].auto
      BY <2>2, <2>3, TransitionFields
    <3>. QED
      BY <1>1, <2>1, <3>1, NotTheWorker DEF RowInv
  <2>6. Table!OthersApprove(r)
    BY <1>2, <2>1, <2>4 DEF Table!OthersApprove, KnownStatus
  <2>. QED
    BY <1>2, <2>4, <2>5, <2>6 DEF TableStep, Table!OthersChange
<1>4. CASE Reject(r)
  <2>1. /\ Rejectable(ann[r]) /\ UNCHANGED <<job, att>>
        /\ Transition(r, "rejected", "operator_rejected")
    BY <1>4 DEF Reject
  <2>2. "rejected" \in Statuses /\ "operator_rejected" \in Levels
    BY DEF Statuses, Levels
  <2>3. TableInv' /\ Table!Moved(r, "failed")
    BY <2>1, <2>2, TableMoved
  <2>4. KnownStatus(ann[r]) \in {"pending_approval", "queued", "failed"}
    BY <1>1, <2>1 DEF Rejectable, RowInv, KnownStatus, Delivered
  <2>5. Table!OthersReject(r)
    BY <1>2, <2>3, <2>4 DEF Table!OthersReject
  <2>. QED
    BY <1>2, <2>1, <2>3, <2>5, NotTheWorker DEF TableStep, Table!OthersChange
<1>5. CASE DropUndelivered(r)
  <2>1. /\ ann[r].status \notin Gone /\ ~WasDelivered(ann[r]) /\ UNCHANGED <<job, att>>
        /\ Transition(r, "withdrawn", "withdrawn")
    BY <1>5 DEF DropUndelivered, Gone
  <2>2. "withdrawn" \in Statuses /\ "withdrawn" \in Levels
    BY DEF Statuses, Levels
  <2>3. TableInv' /\ Table!Moved(r, "withdrawn")
    BY <2>1, <2>2, TableMoved
  <2>4. ann[r].status \in Statuses
    BY DEF Typed, TypeOK, Row
  <2>5. KnownStatus(ann[r]) \in {"pending_approval", "queued", "failed"}
    BY <1>1, <2>1, <2>4 DEF WasDelivered, RowInv, KnownStatus, Delivered, Gone, Statuses
  <2>6. KnownRows[r].request = "none"
    BY <2>1, KnownFields DEF KnownRequest, WasDelivered
  <2>7. Table!OthersDrop(r)
    BY <1>2, <2>3, <2>5, <2>6 DEF Table!OthersDrop
  <2>. QED
    BY <1>2, <2>1, <2>3, <2>7, NotTheWorker DEF TableStep, Table!OthersChange
<1>. QED
  BY <1>3, <1>4, <1>5

LEMMA MarkPeerDownTable ==
  ASSUME Typed, TableInv, MarkPeerDown
  PROVE  TableInv' /\ TableStep
<1>1. ann \in [Ids -> Row]
  BY DEF Typed, TypeOK
<1>2. \A r \in Ids : ann'[r] = IF PeerDownMarked(ann[r])
                               THEN [ann[r] EXCEPT !.status = "peer_down", !.recent = TRUE]
                               ELSE ann[r]
  BY DEF MarkPeerDown
<1>3. ASSUME NEW r \in Ids
      PROVE  /\ RowInv(ann'[r])
             /\ KnownRow(ann'[r]) =
                  IF KnownRows[r].status = "advertised" /\ KnownRows[r].request = "none"
                  THEN [KnownRows[r] EXCEPT !.status = "peer_down"] ELSE KnownRows[r]
  <2>1. RowInv(ann[r])
    BY TableInvRows
  <2>2. KnownRows[r] = KnownRow(ann[r])
    BY DEF KnownRows
  <2>3. PeerDownMarked(ann[r])
          <=> KnownRows[r].status = "advertised" /\ KnownRows[r].request = "none"
    BY KnownFields DEF PeerDownMarked, KnownStatus, KnownRequest
  <2>4. CASE ~PeerDownMarked(ann[r])
    BY <1>2, <2>1, <2>2, <2>3, <2>4
  <2>5. CASE PeerDownMarked(ann[r])
    <3>1. ann'[r] = [ann[r] EXCEPT !.status = "peer_down", !.recent = TRUE]
      BY <1>2, <2>5
    <3>2. /\ ann'[r].status = "peer_down" /\ ann'[r].level = ann[r].level
          /\ ann'[r].nlri = ann[r].nlri /\ ann'[r].action = ann[r].action
          /\ ann'[r].auto = ann[r].auto /\ ann'[r].claim = ann[r].claim
          /\ ann'[r].sent = ann[r].sent /\ ann'[r].advertised = ann[r].advertised
      BY <1>1, <3>1 DEF Row
    <3>3. ann[r].status = "advertised" /\ ann[r].level # "withdraw_requested"
      BY <2>5 DEF PeerDownMarked
    <3>4. RowInv(ann'[r]) /\ ann[r].sent
      BY <2>1, <3>2, <3>3 DEF RowInv, Delivered
    <3>5. KnownStatus(ann'[r]) = "peer_down"
      BY <3>2, <3>4 DEF KnownStatus, Delivered
    <3>6. KnownRequest(ann'[r]) = "none" /\ KnownRequest(ann[r]) = "none"
      BY <3>2, <3>3 DEF KnownRequest
    <3>7. KnownRow(ann'[r]) = [KnownRow(ann[r]) EXCEPT !.status = "peer_down"]
      BY <3>2, <3>5, <3>6 DEF KnownRow
    <3>. QED
      BY <2>2, <2>3, <2>5, <3>4, <3>7
  <2>. QED
    BY <2>4, <2>5
<1>4. TableInv'
  BY <1>3, TableInvPrimed
<1>5. Table!OthersMarkDown
  <2>1. Table!AnnIds = Ids
    BY DEF Table!AnnIds, Ids
  <2>2. KnownRows' = [r \in Ids |-> KnownRow(ann'[r])]
    BY DEF KnownRows
  <2>3. KnownRows' = [r \in Ids |->
          IF KnownRows[r].status = "advertised" /\ KnownRows[r].request = "none"
          THEN [KnownRows[r] EXCEPT !.status = "peer_down"] ELSE KnownRows[r]]
    BY Zenon, <1>3, <2>2
  <2>. QED
    BY <2>1, <2>3 DEF Table!OthersMarkDown
<1>6. ~WorkerMoves
  BY NotTheWorker DEF MarkPeerDown
<1>. QED
  BY <1>4, <1>5, <1>6 DEF TableStep, Table!OthersChange

LEMMA TableInvInit == Init => TableInv
<1>. SUFFICES ASSUME Init, NEW r \in Ids PROVE RowInv(ann[r])
  BY TableInvRows
<1>1. ann[r] = NoRow
  BY DEF Init
<1>. QED
  BY <1>1 DEF RowInv, NoRow, NewRow, Delivered

LEMMA TableInvStep ==
  ASSUME Typed, KeyInv, TableInv, [Next]_vars
  PROVE  TableInv' /\ TableStep
<1>1. CASE Crash \/ UNCHANGED vars
  BY <1>1, TableSame DEF Crash, vars, TableStep
<1>. QED
  BY <1>1, CreationTable, DeliveryTable, ReconcileTable, OperateTable,
     ManualWithdrawTable, OrchestratorTable, DecisionsTable, MarkPeerDownTable,
     TimeTable
  DEF Next, Creation, Decisions, Time

(* The time stamps of a row agree with its status, whoever withdraws it: a  *)
(* row that waits was never delivered, one shown as delivered was, and no   *)
(* row of the orchestrator waits for an approval                            *)
(* (transition_bgp_announcement, automatic_exabgp_apply).                   *)
THEOREM TableInvariant == Spec => []TableInv
<1>1. Init => TableInv
  BY TableInvInit
<1>2. Typed /\ KeyInv /\ TableInv /\ [Next]_vars => TableInv'
  BY TableInvStep
<1>. QED
  BY <1>1, <1>2, KeyInvariant, PTL DEF Spec

(* What the automatic mitigation worker is specified against is what the    *)
(* other threads of the backend do to the announcements, and it does itself *)
(* what its specification says: every step of the life cycle of the rows,   *)
(* crashes and failed commits included, is a step of the table the module   *)
(* AutomaticMitigation works on (automatic_exabgp_apply and _withdraw       *)
(* against the endpoints, the reconciler and the status checks).            *)
THEOREM TableKept == Spec => KeepsTable
<1>1. Typed /\ KeyInv /\ TableInv /\ [Next]_vars => [TableStep]_vars
  BY TableInvStep
<1>. QED
  BY <1>1, KeyInvariant, TableInvariant, PTL DEF Spec, KeepsTable, TableStep
=============================================================================
