------------------------- MODULE BgpStatusCheck_proofs -------------------------
(***************************************************************************)
(* The status checks of BGP connectors: one probe per connector at a time, *)
(* verdicts that come from probes which ended before their deadline, and   *)
(* snapshots in the order of the leases.                                   *)
(*                                                                         *)
(* The three rest on one invariant.  CheckInv relates a check to its       *)
(* probe and its lease: until it is judged or has expired it holds a       *)
(* running lease, unless a shutdown has stopped it, and a probe that was   *)
(* not cancelled in time keeps the lease.  LeaseInv says that the holder   *)
(* of a lease is the youngest check of its connector.                      *)
(***************************************************************************)
EXTENDS BgpStatusCheck, TLAPS

Entry(t) == lease[check[t].connector]

Unjudged == {"leased", "submitted", "awaiting", "answered", "judged"}

CheckInv(t) ==
    /\ check[t].pc \in {"idle", "leased"} => future[t] = "none"
    /\ check[t].pc = "answered" => future[t] = "done"
    /\ check[t].pc \in Unjudged /\ t \notin stopped
         => Entry(t).token = t /\ Entry(t).state = "running"
    /\ check[t].pc = "cancelling" \/ future[t] = "cancelled" \/ t \in stopped
         => Entry(t).token # t \/ Entry(t).state = "timed_out"
    /\ t \in stopped => future[t] # "none"
    /\ future[t] \in {"pending", "running"} => Entry(t).token = t
    /\ future[t] \in {"done", "raised"} => t \in late \cup inTime
    /\ check[t].verdict = "answer" => t \in inTime

\* a check that has begun on connector c
Checked(t, c) == check[t].pc # "idle" /\ check[t].connector = c

LeaseInv(c) ==
    /\ lease[c].completed = "in_time" => lease[c].token \in inTime
    /\ lease[c].token # 0 =>
         /\ Checked(lease[c].token, c)
         /\ \A s \in Checks : Checked(s, c) => s <= lease[c].token

SnapshotInv(c) ==
    /\ snapshot[c].by # 0 => Checked(snapshot[c].by, c)
    /\ snapshot[c].verdict = "answer" => snapshot[c].by \in inTime

WriterInv ==
    writer # 0 =>
      /\ check[writer].pc # "idle"
      /\ writer \in stopped \/ snapshot[check[writer].connector].by <= writer

InOrder == \A s, t \in Checks : s <= t /\ check[s].pc = "idle" => check[t].pc = "idle"

StatusInv ==
    /\ StatusTypeOK
    /\ \A t \in Checks : CheckInv(t)
    /\ \A c \in Connectors : LeaseInv(c) /\ SnapshotInv(c)
    /\ WriterInv
    /\ InOrder
    /\ closing = "no" => stopped = {}

LEMMA ChecksAreNumbers == /\ \A t \in Checks : t \in Nat /\ t # 0 /\ t \in 0 .. MaxChecks
                          /\ \A t \in 0 .. MaxChecks : t # 0 => t \in Checks
BY StatusAssumption DEF Checks

-----------------------------------------------------------------------------
(* One check moves: its row, its probe and the lease of its connector.      *)

\* the row of check t, its probe and the lease of its connector are replaced
Replaced(t, row, fut, entry) ==
    /\ check' = [check EXCEPT ![t] = row]
    /\ future' = [future EXCEPT ![t] = fut]
    /\ lease' = [lease EXCEPT ![check[t].connector] = entry]

SnapshotsTyped ==
    /\ snapshot \in [Connectors -> [by : 0 .. MaxChecks,
                                    verdict : {"none", "answer", "unknown"}]]
    /\ writer \in 0 .. MaxChecks

\* what such a step keeps
Kept ==
    /\ UNCHANGED <<snapshot, writer>> => StatusInv'
    /\ SnapshotsTyped' => StatusTypeOK'
    /\ \A s \in Checks : CheckInv(s)'
    /\ \A c \in Connectors : LeaseInv(c)'
    /\ \A s \in Checks, c \in Connectors : Checked(s, c)' <=> Checked(s, c)
    /\ InOrder'

LEMMA OneMoves ==
  ASSUME StatusInv, NEW t \in Checks, check[t].pc # "idle",
         NEW row \in Check, row.pc # "idle", row.connector = check[t].connector,
         NEW fut \in Future, NEW entry \in Lease,
         Replaced(t, row, fut, entry),
         callback' \in [Checks -> {"none", "added", "called"}],
         \/ entry = Entry(t)
         \/ Entry(t).token = t /\ entry.token \in {0, t},
         entry.completed = "in_time" => entry.token \in inTime',
         late' \in {late, late \cup {t}}, inTime' \in {inTime, inTime \cup {t}},
         UNCHANGED <<closing, stopped>>,
         CheckInv(t)'
  PROVE  Kept
<1>. DEFINE k == check[t].connector
<1>1. /\ StatusTypeOK /\ k \in Connectors /\ Entry(t) = lease[k] /\ k = row.connector
      /\ inTime \subseteq inTime' /\ late \subseteq late'
      /\ inTime' \subseteq Checks /\ late' \subseteq Checks
  BY DEF StatusInv, StatusTypeOK, Check, Entry
<1>2. /\ check' \in [Checks -> Check] /\ future' \in [Checks -> Future]
      /\ lease' \in [Connectors -> Lease]
      /\ check'[t] = row /\ future'[t] = fut /\ lease'[k] = entry
      /\ \A s \in Checks \ {t} : check'[s] = check[s] /\ future'[s] = future[s]
      /\ \A c \in Connectors \ {k} : lease'[c] = lease[c]
  BY <1>1 DEF StatusTypeOK, Replaced
<1>. HIDE DEF k
<1>3. /\ SnapshotsTyped' => StatusTypeOK'
      /\ UNCHANGED <<snapshot, writer>> => StatusTypeOK'
  BY <1>1, <1>2 DEF StatusTypeOK, SnapshotsTyped
<1>4. ASSUME NEW s \in Checks, NEW c \in Connectors
      PROVE  Checked(s, c)' <=> Checked(s, c)
  BY <1>1, <1>2 DEF Checked, k
<1>5. ASSUME NEW s \in Checks
      PROVE  CheckInv(s)'
  <2>1. CASE s # t
    <3>1. /\ check'[s] = check[s] /\ future'[s] = future[s] /\ CheckInv(s)
          /\ check[s].connector \in Connectors /\ s \in Nat /\ s # 0
      BY <1>1, <1>2, <2>1, ChecksAreNumbers DEF StatusInv, StatusTypeOK, Check
    <3>2. Entry(s)' = Entry(s) \/ (Entry(s).token # s /\ Entry(s)'.token # s)
      BY <1>1, <1>2, <2>1, <3>1 DEF Entry
    <3>. QED
      BY <1>1, <2>1, <3>1, <3>2 DEF CheckInv
  <2>. QED
    BY <2>1
<1>6. ASSUME NEW c \in Connectors
      PROVE  LeaseInv(c)'
  <2>1. LeaseInv(c)
    BY DEF StatusInv
  <2>2. lease'[c].token \in {0, lease[c].token}
    BY <1>1, <1>2
  <2>3. lease'[c].completed = "in_time" => lease'[c].token \in inTime'
    BY <1>1, <1>2, <2>1 DEF LeaseInv
  <2>4. lease'[c].token # 0 => lease'[c].token \in Checks
    BY <1>2, ChecksAreNumbers DEF Lease
  <2>. QED
    BY <1>4, <2>1, <2>2, <2>3, <2>4 DEF LeaseInv
<1>7. InOrder'
  BY <1>2 DEF StatusInv, InOrder
<1>8. ASSUME UNCHANGED <<snapshot, writer>>
      PROVE  StatusInv'
  <2>1. ASSUME NEW c \in Connectors
        PROVE  SnapshotInv(c)'
    <3>1. SnapshotInv(c) /\ (snapshot[c].by # 0 => snapshot[c].by \in Checks)
      BY <1>1, ChecksAreNumbers DEF StatusInv, StatusTypeOK
    <3>. QED
      BY <1>1, <1>4, <1>8, <3>1 DEF SnapshotInv
  <2>2. WriterInv'
    <3>1. writer # 0 => /\ writer \in Checks /\ check'[writer].pc # "idle"
                        /\ check'[writer].connector = check[writer].connector
      BY <1>1, <1>2, ChecksAreNumbers DEF StatusInv, StatusTypeOK, WriterInv
    <3>. QED
      BY <1>8, <3>1 DEF StatusInv, WriterInv
  <2>3. closing' = "no" => stopped' = {}
    BY DEF StatusInv
  <2>. QED
    BY <1>3, <1>5, <1>6, <1>7, <1>8, <2>1, <2>2, <2>3 DEF StatusInv
<1>. QED
  BY <1>3, <1>4, <1>5, <1>6, <1>7, <1>8 DEF Kept

LEMMA Here ==
  ASSUME StatusInv, NEW t \in Checks
  PROVE  /\ check[t] \in Check /\ check[t].connector \in Connectors
         /\ future[t] \in Future /\ Entry(t) \in Lease
         /\ check = [check EXCEPT ![t] = check[t]]
         /\ future = [future EXCEPT ![t] = future[t]]
         /\ lease = [lease EXCEPT ![check[t].connector] = Entry(t)]
         /\ CheckInv(t) /\ LeaseInv(check[t].connector)
         /\ Entry(t) = lease[check[t].connector] /\ t # 0
         /\ Entry(t).completed = "in_time" => Entry(t).token \in inTime
BY ChecksAreNumbers DEF StatusInv, StatusTypeOK, Check, Entry, LeaseInv

LEMMA Lands ==
  ASSUME StatusInv, NEW t \in Checks,
         NEW row \in Check, row.connector = check[t].connector,
         NEW fut \in Future, NEW entry \in Lease,
         Replaced(t, row, fut, entry)
  PROVE  check'[t] = row /\ future'[t] = fut /\ Entry(t)' = entry
BY DEF StatusInv, StatusTypeOK, Check, Entry, Replaced

Pcs == {"idle", "leased", "submitted", "awaiting", "answered", "expiring",
        "cancelling", "judged", "releasing", "ended"}

\* the row of a check that goes on to pc
RowAt(t, pc) ==
    \E row \in Check : /\ check' = [check EXCEPT ![t] = row]
                       /\ row.pc = pc /\ row.connector = check[t].connector
                       /\ row.verdict = check[t].verdict

LEMMA Going ==
  ASSUME StatusInv, NEW t \in Checks, NEW pc \in Pcs, Goes(t, pc)
  PROVE  RowAt(t, pc)
<1>. DEFINE row == [check[t] EXCEPT !.pc = pc]
<1>1. row \in Check /\ row.pc = pc /\ row.connector = check[t].connector
      /\ row.verdict = check[t].verdict
  BY Here DEF Check, Pcs
<1>2. check' = [check EXCEPT ![t] = row]
  BY DEF Goes
<1>. HIDE DEF row
<1>. QED
  BY <1>1, <1>2 DEF RowAt

LEMMA Releasing ==
  ASSUME StatusInv, NEW t \in Checks, lease' = Released(lease, t), future'[t] \in Future
  PROVE  \E entry \in Lease :
           /\ lease' = [lease EXCEPT ![check[t].connector] = entry]
           /\ \/ /\ entry = Entry(t)
                 /\ Entry(t).token # t \/ future'[t] \in {"pending", "running"}
              \/ /\ entry = Idle /\ Entry(t).token = t
                 /\ future'[t] \notin {"pending", "running"}
<1>1. Idle \in Lease
  BY StatusAssumption DEF Idle, Lease
<1>2. FutureDone(t)' <=> future'[t] \in {"done", "raised", "cancelled"}
  BY DEF FutureDone
<1>3. CASE Entry(t).token = t /\ (future'[t] = "none" \/ FutureDone(t)')
  <2>1. lease' = [lease EXCEPT ![check[t].connector] = Idle]
    BY <1>3 DEF Released, Entry
  <2>. QED
    BY <1>1, <1>2, <1>3, <2>1
<1>4. CASE ~(Entry(t).token = t /\ (future'[t] = "none" \/ FutureDone(t)'))
  <2>1. lease' = [lease EXCEPT ![check[t].connector] = Entry(t)]
    BY <1>4 DEF Released, Entry
  <2>. QED
    BY <1>2, <1>4, <2>1, Here DEF Future
<1>. QED
  BY <1>3, <1>4

LEMMA CallingBack ==
  ASSUME StatusInv, NEW t \in Checks, lease' = CalledBack(lease, t), UNCHANGED future,
         FutureDone(t)
  PROVE  \E entry \in Lease :
           /\ lease' = [lease EXCEPT ![check[t].connector] = entry]
           /\ \/ entry = Entry(t) /\ Entry(t).token # t
              \/ entry = Idle /\ Entry(t).token = t /\ Entry(t).state = "timed_out"
              \/ /\ entry.token = t /\ Entry(t).token = t
                 /\ entry.state = Entry(t).state /\ Entry(t).state # "timed_out"
                 /\ entry.completed = "in_time" => t \notin late
<1>1. CASE Entry(t).token # t
  BY <1>1, Here DEF CalledBack, Entry
<1>2. CASE Entry(t).token = t /\ Entry(t).state = "timed_out"
  <2>1. lease' = Released(lease, t) /\ future'[t] \in Future
    BY <1>2, Here DEF CalledBack, Entry
  <2>2. future'[t] \notin {"pending", "running"}
    BY DEF FutureDone
  <2>. QED
    BY <1>2, <2>1, <2>2, Releasing
<1>3. CASE Entry(t).token = t /\ Entry(t).state # "timed_out"
  <2>. DEFINE how == IF t \in late THEN "late" ELSE "in_time"
  <2>. DEFINE entry == [Entry(t) EXCEPT !.completed = how]
  <2>1. how \in {"unset", "in_time", "late"} /\ (how = "in_time" => t \notin late)
    OBVIOUS
  <2>2. lease' = [lease EXCEPT ![check[t].connector] = entry]
    BY <1>3 DEF CalledBack, Entry
  <2>. HIDE DEF how
  <2>3. /\ entry \in Lease /\ entry.token = Entry(t).token
        /\ entry.state = Entry(t).state /\ entry.completed = how
    BY <2>1, Here DEF Lease
  <2>. HIDE DEF entry
  <2>. QED
    BY <1>3, <2>1, <2>2, <2>3
<1>. QED
  BY <1>1, <1>2, <1>3

-----------------------------------------------------------------------------
(* The steps of a check and of its probe. *)

\* a check goes on; its lease does not change
LEMMA GoesOn ==
  ASSUME StatusInv, NEW t \in Checks, NEW pc \in Pcs \ {"idle"}, check[t].pc # "idle",
         NEW fut \in Future, NEW entry \in Lease,
         entry = Entry(t), UNCHANGED <<late, inTime, lease, closing, stopped>>,
         RowAt(t, pc), future' = [future EXCEPT ![t] = fut],
         callback' \in [Checks -> {"none", "added", "called"}],
         pc \in Unjudged => check[t].pc \in Unjudged,
         pc = "cancelling" => entry.token # t \/ entry.state = "timed_out",
         pc = "leased" => fut = "none",
         pc = "answered" => fut = "done",
         t \in stopped => fut # "none",
         fut \in {"pending", "running"} => entry.token = t,
         fut = future[t] \/ fut \in {"pending", "running"}
  PROVE  Kept
<1>1. PICK row \in Check : /\ check' = [check EXCEPT ![t] = row]
                           /\ row.pc = pc /\ row.connector = check[t].connector
                           /\ row.verdict = check[t].verdict
  BY DEF RowAt
<1>2. /\ Replaced(t, row, fut, entry) /\ CheckInv(t)
      /\ entry.completed = "in_time" => entry.token \in inTime
  BY <1>1, Here DEF Replaced
<1>3. check'[t] = row /\ future'[t] = fut /\ Entry(t)' = entry
  BY <1>1, <1>2, Lands
<1>4. CheckInv(t)'
  BY <1>1, <1>2, <1>3 DEF CheckInv, Unjudged, Pcs
<1>. QED
  BY <1>1, <1>2, <1>4, OneMoves DEF Pcs

LEMMA SubmitKeeps ==
  ASSUME StatusInv, NEW t \in Checks, Submit(t)
  PROVE  StatusInv'
<1>. PICK entry \in Lease : entry = Entry(t)
  BY Here
<1>1. /\ check[t].pc = "leased" /\ future[t] = "none" /\ t \notin stopped
      /\ entry.token = t /\ future[t] \in Future
      /\ callback' \in [Checks -> {"none", "added", "called"}]
      /\ UNCHANGED <<late, inTime, lease, closing, stopped>>
      /\ UNCHANGED <<snapshot, writer>>
  BY Here DEF Submit, AtPc, CheckInv, Unjudged, StatusInv, StatusTypeOK
<1>2. CASE Goes(t, "submitted") /\ future' = [future EXCEPT ![t] = "pending"]
  <2>1. RowAt(t, "submitted") /\ "submitted" \in Pcs \ {"idle"} /\ "pending" \in Future
    BY <1>2, Going DEF Pcs, Future
  <2>2. Kept
    BY <1>1, <1>2, <2>1, GoesOn DEF Unjudged
  <2>. QED
    BY <1>1, <2>2 DEF Kept
<1>3. CASE Goes(t, "releasing") /\ UNCHANGED future
  <2>. PICK fut \in Future : fut = future[t]
    BY <1>1
  <2>1. /\ RowAt(t, "releasing") /\ "releasing" \in Pcs \ {"idle"}
        /\ future' = [future EXCEPT ![t] = fut]
    BY <1>3, Going, Here DEF Pcs
  <2>2. Kept
    BY <1>1, <2>1, GoesOn DEF Unjudged
  <2>. QED
    BY <1>1, <2>2 DEF Kept
<1>. QED
  BY <1>2, <1>3 DEF Submit

\* the end of a probe is reported; its check may go on at the same time
LEMMA ReportKeeps ==
  ASSUME StatusInv, NEW t \in Checks, NEW pc \in Pcs \ {"idle"}, check[t].pc # "idle",
         RowAt(t, pc), pc # check[t].pc => pc = "awaiting" /\ check[t].pc = "submitted",
         FutureDone(t), lease' = CalledBack(lease, t),
         callback' \in [Checks -> {"none", "added", "called"}],
         UNCHANGED <<future, late, inTime, snapshot, writer, closing, stopped>>
  PROVE  StatusInv'
<1>1. PICK row \in Check : /\ check' = [check EXCEPT ![t] = row]
                           /\ row.pc = pc /\ row.connector = check[t].connector
                           /\ row.verdict = check[t].verdict
  BY DEF RowAt
<1>2. PICK entry \in Lease :
           /\ lease' = [lease EXCEPT ![check[t].connector] = entry]
           /\ \/ entry = Entry(t) /\ Entry(t).token # t
              \/ entry = Idle /\ Entry(t).token = t /\ Entry(t).state = "timed_out"
              \/ /\ entry.token = t /\ Entry(t).token = t
                 /\ entry.state = Entry(t).state /\ Entry(t).state # "timed_out"
                 /\ entry.completed = "in_time" => t \notin late
  BY CallingBack
<1>3. Replaced(t, row, future[t], entry) /\ future[t] \in Future
  BY <1>1, <1>2, Here DEF Replaced
<1>4. /\ check'[t] = row /\ future'[t] = future[t] /\ Entry(t)' = entry
      /\ CheckInv(t) /\ future[t] \in Future /\ t # 0 /\ t \in Checks
      /\ Entry(t).completed = "in_time" => Entry(t).token \in inTime
  BY <1>1, <1>2, <1>3, Here, Lands
<1>5. CheckInv(t)'
  BY <1>1, <1>2, <1>4 DEF CheckInv, Unjudged, Pcs, FutureDone, Idle
<1>6. entry.completed = "in_time" => entry.token \in inTime'
  BY <1>2, <1>4 DEF CheckInv, FutureDone, Idle
<1>7. \/ entry = Entry(t)
      \/ Entry(t).token = t /\ entry.token \in {0, t}
  BY <1>2 DEF Idle
<1>. QED
  BY <1>1, <1>2, <1>3, <1>4, <1>5, <1>6, <1>7, OneMoves DEF Kept, Pcs

LEMMA AddCallbackKeeps ==
  ASSUME StatusInv, NEW t \in Checks, AddCallback(t)
  PROVE  StatusInv'
<1>. PICK entry \in Lease, fut \in Future : entry = Entry(t) /\ fut = future[t]
  BY Here
<1>1. /\ check[t].pc = "submitted" /\ RowAt(t, "awaiting") /\ UNCHANGED future
      /\ UNCHANGED <<late, inTime, snapshot, writer, closing, stopped>>
      /\ future' = [future EXCEPT ![t] = fut] /\ "awaiting" \in Pcs \ {"idle"}
      /\ CheckInv(t)
  BY Going, Here DEF AddCallback, AtPc, Pcs
<1>2. callback' \in [Checks -> {"none", "added", "called"}]
  BY DEF AddCallback, StatusInv, StatusTypeOK
<1>3. CASE FutureDone(t)
  <2>1. lease' = CalledBack(lease, t)
    BY <1>3 DEF AddCallback
  <2>. QED
    BY <1>1, <1>2, <1>3, <2>1, ReportKeeps
<1>4. CASE ~FutureDone(t)
  <2>1. UNCHANGED lease
    BY <1>4 DEF AddCallback
  <2>2. /\ t \in stopped => fut # "none"
        /\ fut \in {"pending", "running"} => entry.token = t
        /\ "awaiting" \in Unjudged => check[t].pc \in Unjudged
    BY <1>1 DEF CheckInv, Unjudged
  <2>3. Kept
    BY <1>1, <1>2, <2>1, <2>2, GoesOn
  <2>. QED
    BY <1>1, <2>3 DEF Kept
<1>. QED
  BY <1>3, <1>4

LEMMA Standing ==
  ASSUME StatusInv, NEW t \in Checks, UNCHANGED check, check[t].pc # "idle"
  PROVE  \E pc \in Pcs \ {"idle"} : pc = check[t].pc /\ RowAt(t, pc)
BY Here DEF RowAt, Check, Pcs

LEMMA CallbackKeeps ==
  ASSUME StatusInv, NEW t \in Checks, Callback(t)
  PROVE  StatusInv'
<1>1. /\ FutureDone(t) /\ lease' = CalledBack(lease, t) /\ check[t].pc # "idle"
      /\ UNCHANGED check
      /\ UNCHANGED <<future, late, inTime, snapshot, writer, closing, stopped>>
  BY Here DEF Callback, FutureDone, CheckInv
<1>2. PICK pc \in Pcs \ {"idle"} : pc = check[t].pc /\ RowAt(t, pc)
  BY <1>1, Standing
<1>3. callback' \in [Checks -> {"none", "added", "called"}]
  BY DEF Callback, StatusInv, StatusTypeOK
<1>. QED
  BY <1>1, <1>2, <1>3, ReportKeeps

LEMMA StartProbeKeeps ==
  ASSUME StatusInv, NEW t \in Checks, StartProbe(t)
  PROVE  StatusInv'
<1>. PICK entry \in Lease : entry = Entry(t)
  BY Here
<1>1. /\ future[t] = "pending" /\ "running" \in Future
      /\ future' = [future EXCEPT ![t] = "running"] /\ CheckInv(t)
      /\ UNCHANGED <<check, late, inTime, lease, closing, stopped>>
      /\ UNCHANGED <<snapshot, writer>>
  BY Here DEF StartProbe, Future
<1>2. PICK pc \in Pcs \ {"idle"} : pc = check[t].pc /\ RowAt(t, pc)
  BY <1>1, Standing DEF CheckInv
<1>3. callback' \in [Checks -> {"none", "added", "called"}]
  BY DEF StartProbe, StatusInv, StatusTypeOK
<1>4. /\ pc \notin {"idle", "leased", "answered"} /\ entry.token = t
      /\ pc = "cancelling" => entry.token # t \/ entry.state = "timed_out"
  BY <1>1, <1>2 DEF CheckInv
<1>5. Kept
  BY <1>1, <1>2, <1>3, <1>4, GoesOn
<1>. QED
  BY <1>1, <1>5 DEF Kept

LEMMA EndProbeKeeps ==
  ASSUME StatusInv, NEW t \in Checks, EndProbe(t)
  PROVE  StatusInv'
<1>. PICK entry \in Lease, row \in Check : entry = Entry(t) /\ row = check[t]
  BY Here
<1>1. PICK fut \in {"done", "raised"} : future' = [future EXCEPT ![t] = fut]
  BY DEF EndProbe
<1>2. /\ UNCHANGED <<check, callback, late, lease, closing, stopped>>
      /\ UNCHANGED <<snapshot, writer>>
      /\ inTime' \in {inTime, inTime \cup {t}} /\ t \in late \cup inTime'
      /\ future[t] = "running" /\ CheckInv(t) /\ fut \in Future
      /\ row.connector = check[t].connector
      /\ entry.completed = "in_time" => entry.token \in inTime
      /\ late' \in {late, late \cup {t}}
  BY <1>1, Here DEF EndProbe, Future
<1>3. Replaced(t, row, fut, entry)
  BY <1>1, <1>2, Here DEF Replaced
<1>4. check'[t] = row /\ future'[t] = fut /\ Entry(t)' = entry
  BY <1>2, <1>3, Lands
<1>5. CheckInv(t)' /\ row.pc # "idle"
  BY <1>2, <1>4 DEF CheckInv, Unjudged
<1>6. /\ callback' \in [Checks -> {"none", "added", "called"}]
      /\ entry.completed = "in_time" => entry.token \in inTime'
  BY <1>2 DEF StatusInv, StatusTypeOK
<1>7. Kept
  BY <1>2, <1>3, <1>5, <1>6, OneMoves
<1>. QED
  BY <1>2, <1>7 DEF Kept

LEMMA DeadlineKeeps ==
  ASSUME StatusInv, NEW t \in Checks, Deadline(t)
  PROVE  StatusInv'
<1>. PICK entry \in Lease, row \in Check, fut \in Future :
        entry = Entry(t) /\ row = check[t] /\ fut = future[t]
  BY Here
<1>1. /\ UNCHANGED <<check, future, callback, lease, closing, stopped>>
      /\ UNCHANGED <<snapshot, writer>>
      /\ late' \in {late, late \cup {t}} /\ inTime' \in {inTime, inTime \cup {t}}
      /\ inTime' = inTime /\ late \subseteq late'
      /\ CheckInv(t) /\ row.pc # "idle" /\ row.connector = check[t].connector
      /\ entry.completed = "in_time" => entry.token \in inTime'
  BY Here DEF Deadline
<1>2. Replaced(t, row, fut, entry)
  BY <1>1, Here DEF Replaced
<1>3. check'[t] = row /\ future'[t] = fut /\ Entry(t)' = entry
  BY <1>1, <1>2, Lands
<1>4. CheckInv(t)'
  BY <1>1, <1>3 DEF CheckInv, Unjudged
<1>5. callback' \in [Checks -> {"none", "added", "called"}]
  BY <1>1 DEF StatusInv, StatusTypeOK
<1>6. Kept
  BY <1>1, <1>2, <1>4, <1>5, OneMoves
<1>. QED
  BY <1>1, <1>6 DEF Kept

\* the verdict is reached
LEMMA JudgedKeeps ==
  ASSUME StatusInv, NEW t \in Checks, NEW verdict \in {"answer", "unknown"},
         check' = [check EXCEPT ![t].pc = "judged", ![t].verdict = verdict],
         UNCHANGED <<future, callback, late, inTime, lease, snapshot, writer, closing, stopped>>,
         check[t].pc \in {"awaiting", "answered"},
         verdict = "answer" => t \in inTime
  PROVE  StatusInv'
<1>. DEFINE moved == [check[t] EXCEPT !.pc = "judged", !.verdict = verdict]
<1>1. /\ check' = [check EXCEPT ![t] = moved]
      /\ moved \in Check /\ moved.pc = "judged" /\ moved.verdict = verdict
      /\ moved.connector = check[t].connector
  BY Here DEF Check
<1>. HIDE DEF moved
<1>2. PICK entry \in Lease, row \in Check, fut \in Future :
        entry = Entry(t) /\ row = moved /\ fut = future[t]
  BY <1>1, Here
<1>3. /\ Replaced(t, row, fut, entry) /\ CheckInv(t)
      /\ row.pc = "judged" /\ row.pc # "idle" /\ row.verdict = verdict
      /\ row.connector = check[t].connector /\ check[t].pc # "idle"
      /\ late' \in {late, late \cup {t}} /\ inTime' \in {inTime, inTime \cup {t}}
      /\ entry.completed = "in_time" => entry.token \in inTime'
  BY <1>1, <1>2, Here DEF Replaced
<1>4. check'[t] = row /\ future'[t] = fut /\ Entry(t)' = entry
  BY <1>3, Lands
<1>5. CheckInv(t)'
  BY <1>2, <1>3, <1>4 DEF CheckInv, Unjudged
<1>6. callback' \in [Checks -> {"none", "added", "called"}]
  BY DEF StatusInv, StatusTypeOK
<1>7. Kept
  BY <1>2, <1>3, <1>5, <1>6, OneMoves
<1>. QED
  BY <1>7 DEF Kept

\* a check goes on without its probe or its lease
LEMMA GoesKeeps ==
  ASSUME StatusInv, NEW t \in Checks, NEW pc \in Pcs \ {"idle"}, Goes(t, pc),
         check[t].pc # "idle",
         UNCHANGED <<future, callback, late, inTime, lease, closing, stopped>>,
         pc \in Unjudged => check[t].pc \in Unjudged,
         pc = "cancelling" => Entry(t).token # t \/ Entry(t).state = "timed_out",
         pc # "leased",
         pc = "answered" => future[t] = "done"
  PROVE  Kept
<1>. PICK entry \in Lease, fut \in Future : entry = Entry(t) /\ fut = future[t]
  BY Here
<1>1. RowAt(t, pc) /\ CheckInv(t) /\ future' = [future EXCEPT ![t] = fut]
  BY Going, Here
<1>2. /\ t \in stopped => fut # "none"
      /\ fut \in {"pending", "running"} => entry.token = t
  BY <1>1 DEF CheckInv
<1>3. callback' \in [Checks -> {"none", "added", "called"}]
  BY DEF StatusInv, StatusTypeOK
<1>4. UNCHANGED <<late, inTime, lease, closing, stopped>>
  OBVIOUS
<1>. QED
  BY <1>1, <1>2, <1>3, <1>4, GoesOn

LEMMA AwaitKeeps ==
  ASSUME StatusInv, NEW t \in Checks, Await(t)
  PROVE  StatusInv'
<1>1. /\ check[t].pc = "awaiting"
      /\ UNCHANGED <<future, callback, late, inTime, lease, closing, stopped>>
      /\ UNCHANGED <<snapshot, writer>>
  BY DEF Await, AtPc
<1>2. CASE future[t] = "done" /\ Goes(t, "answered")
  <2>1. Kept
    BY <1>1, <1>2, GoesKeeps DEF Pcs, Unjudged
  <2>. QED
    BY <1>1, <2>1 DEF Kept
<1>3. CASE check' = [check EXCEPT ![t].pc = "judged", ![t].verdict = "unknown"]
  BY <1>1, <1>3, JudgedKeeps
<1>4. CASE Goes(t, "expiring")
  <2>1. Kept
    BY <1>1, <1>4, GoesKeeps DEF Pcs, Unjudged
  <2>. QED
    BY <1>1, <2>1 DEF Kept
<1>. QED
  BY <1>2, <1>3, <1>4 DEF Await

LEMMA ValidateKeeps ==
  ASSUME StatusInv, NEW t \in Checks, Validate(t)
  PROVE  StatusInv'
<1>1. /\ check[t].pc = "answered"
      /\ UNCHANGED <<future, callback, late, inTime, lease, closing, stopped>>
      /\ UNCHANGED <<snapshot, writer>>
  BY DEF Validate, AtPc
<1>2. CASE Valid(t)
  <2>1. t \in inTime
    BY <1>1, <1>2, Here DEF Valid, Holds, Entry, CheckInv
  <2>2. check' = [check EXCEPT ![t].pc = "judged", ![t].verdict = "answer"]
    BY <1>2 DEF Validate
  <2>. QED
    BY <1>1, <2>1, <2>2, JudgedKeeps
<1>3. CASE ~Valid(t)
  <2>1. Goes(t, "expiring")
    BY <1>3 DEF Validate
  <2>2. Kept
    BY <1>1, <2>1, GoesKeeps DEF Pcs, Unjudged
  <2>. QED
    BY <1>1, <2>2 DEF Kept
<1>. QED
  BY <1>2, <1>3

\* a check that is not judged goes on, and its lease times out or ends
LEMMA LeaseKeeps ==
  ASSUME StatusInv, NEW t \in Checks, NEW pc \in Pcs \ {"idle"}, Goes(t, pc),
         check[t].pc # "idle", NEW entry \in Lease, NEW fut \in Future,
         lease' = [lease EXCEPT ![check[t].connector] = entry],
         future' = [future EXCEPT ![t] = fut],
         UNCHANGED <<callback, late, inTime, closing, stopped>>,
         pc \notin Unjudged,
         \/ entry = Entry(t)
         \/ Entry(t).token = t /\ entry.token \in {0, t}
              /\ (entry = Idle \/ entry.state = "timed_out"),
         entry.completed = "in_time" => entry.token \in inTime,
         pc = "cancelling" \/ fut = "cancelled" => entry.token # t \/ entry.state = "timed_out",
         t \in stopped => fut # "none",
         fut = future[t] \/ fut = "cancelled",
         fut \in {"pending", "running"} => entry.token = t
  PROVE  Kept
<1>1. PICK row \in Check : /\ check' = [check EXCEPT ![t] = row]
                           /\ row.pc = pc /\ row.connector = check[t].connector
                           /\ row.verdict = check[t].verdict
  BY Going DEF RowAt
<1>2. Replaced(t, row, fut, entry) /\ CheckInv(t) /\ t # 0
  BY <1>1, Here DEF Replaced
<1>3. check'[t] = row /\ future'[t] = fut /\ Entry(t)' = entry
  BY <1>1, <1>2, Lands
<1>4. CheckInv(t)'
  BY <1>1, <1>2, <1>3 DEF CheckInv, Unjudged, Pcs, Idle
<1>5. /\ callback' \in [Checks -> {"none", "added", "called"}]
      /\ late' \in {late, late \cup {t}} /\ inTime' \in {inTime, inTime \cup {t}}
      /\ entry.completed = "in_time" => entry.token \in inTime'
      /\ row.pc # "idle"
      /\ entry = Entry(t) \/ (Entry(t).token = t /\ entry.token \in {0, t})
      /\ UNCHANGED <<closing, stopped>>
  BY <1>1 DEF StatusInv, StatusTypeOK
<1>. QED
  BY <1>1, <1>2, <1>4, <1>5, OneMoves

LEMMA ExpireKeeps ==
  ASSUME StatusInv, NEW t \in Checks, Expire(t)
  PROVE  StatusInv'
<1>1. /\ check[t].pc = "expiring" /\ check[t].pc # "idle" /\ CheckInv(t)
      /\ UNCHANGED <<future, callback, late, inTime, closing, stopped>>
      /\ UNCHANGED <<callback, late, inTime, closing, stopped>>
      /\ UNCHANGED <<snapshot, writer>>
  BY Here DEF Expire, AtPc
<1>2. CASE Holds(t)
  <2>. DEFINE timedOut == [Entry(t) EXCEPT !.state = "timed_out"]
  <2>1. /\ timedOut \in Lease /\ timedOut.token = Entry(t).token
        /\ timedOut.state = "timed_out" /\ timedOut.completed = Entry(t).completed
        /\ Entry(t).token = t
    BY <1>2, Here DEF Lease, Holds
  <2>2. lease' = [lease EXCEPT ![check[t].connector] = timedOut]
    BY <1>2 DEF Expire, Entry
  <2>. HIDE DEF timedOut
  <2>. PICK entry \in Lease, fut \in Future : entry = timedOut /\ fut = future[t]
    BY <2>1, Here
  <2>3. /\ Goes(t, "cancelling") /\ "cancelling" \in Pcs \ {"idle"}
        /\ "cancelling" \notin Unjudged
    BY <1>2 DEF Expire, Pcs, Unjudged
  <2>4. /\ lease' = [lease EXCEPT ![check[t].connector] = entry]
        /\ future' = [future EXCEPT ![t] = fut]
    BY <1>1, <2>2, Here
  <2>5. /\ entry.token = t /\ entry.state = "timed_out" /\ Entry(t).token = t
        /\ entry.completed = "in_time" => entry.token \in inTime
        /\ t \in stopped => fut # "none"
    BY <1>1, <2>1, Here DEF CheckInv
  <2>6. Kept
    BY <1>1, <2>3, <2>4, <2>5, LeaseKeeps
  <2>. QED
    BY <1>1, <2>6 DEF Kept
<1>3. CASE ~Holds(t)
  <2>1. Goes(t, "releasing") /\ UNCHANGED lease
    BY <1>3 DEF Expire
  <2>2. Kept
    BY <1>1, <2>1, GoesKeeps DEF Pcs, Unjudged
  <2>. QED
    BY <1>1, <2>2 DEF Kept
<1>. QED
  BY <1>2, <1>3

\* the lease is given back unless the probe still runs
LEMMA GivingBack ==
  ASSUME StatusInv, NEW t \in Checks, NEW pc \in {"releasing", "ended"}, Goes(t, pc),
         check[t].pc # "idle", NEW fut \in Future,
         future' = [future EXCEPT ![t] = fut], lease' = Released(lease, t),
         UNCHANGED <<callback, late, inTime, closing, stopped>>,
         UNCHANGED <<snapshot, writer>>,
         fut = future[t] \/ (fut = "cancelled" /\ future[t] = "pending")
  PROVE  StatusInv'
<1>1. /\ future'[t] = fut /\ future'[t] \in Future /\ CheckInv(t) /\ t # 0
      /\ Entry(t).completed = "in_time" => Entry(t).token \in inTime
  BY Here DEF StatusInv, StatusTypeOK
<1>2. PICK entry \in Lease :
           /\ lease' = [lease EXCEPT ![check[t].connector] = entry]
           /\ \/ /\ entry = Entry(t)
                 /\ Entry(t).token # t \/ future'[t] \in {"pending", "running"}
              \/ /\ entry = Idle /\ Entry(t).token = t
                 /\ future'[t] \notin {"pending", "running"}
  BY <1>1, Releasing
<1>3. \/ entry = Entry(t)
      \/ Entry(t).token = t /\ entry.token \in {0, t}
           /\ (entry = Idle \/ entry.state = "timed_out")
  BY <1>2 DEF Idle
<1>4. /\ entry.completed = "in_time" => entry.token \in inTime
      /\ fut = "cancelled" => entry.token # t \/ entry.state = "timed_out"
      /\ t \in stopped => fut # "none"
      /\ fut \in {"pending", "running"} => entry.token = t
  BY <1>1, <1>2 DEF CheckInv, Idle
<1>5. pc \in Pcs \ {"idle"} /\ pc \notin Unjudged /\ pc # "cancelling"
  BY DEF Pcs, Unjudged
<1>6. Kept
  BY <1>2, <1>3, <1>4, <1>5, LeaseKeeps
<1>. QED
  BY <1>6 DEF Kept

LEMMA CancelKeeps ==
  ASSUME StatusInv, NEW t \in Checks, Cancel(t)
  PROVE  StatusInv'
<1>1. /\ check[t].pc # "idle" /\ Goes(t, "releasing") /\ lease' = Released(lease, t)
      /\ UNCHANGED <<callback, late, inTime, closing, stopped>>
      /\ UNCHANGED <<snapshot, writer>>
      /\ future' = [future EXCEPT ![t] = Cancelled(t)]
  BY DEF Cancel, AtPc
<1>2. PICK fut \in Future : fut = Cancelled(t)
  BY Here DEF Cancelled, Future
<1>3. /\ future' = [future EXCEPT ![t] = fut]
      /\ fut = future[t] \/ (fut = "cancelled" /\ future[t] = "pending")
  BY <1>1, <1>2 DEF Cancelled
<1>. QED
  BY <1>1, <1>3, GivingBack

LEMMA FinallyKeeps ==
  ASSUME StatusInv, NEW t \in Checks, Finally(t)
  PROVE  StatusInv'
<1>1. /\ check[t].pc # "idle" /\ Goes(t, "ended") /\ lease' = Released(lease, t)
      /\ UNCHANGED <<callback, late, inTime, closing, stopped>>
      /\ UNCHANGED <<snapshot, writer>>
  BY DEF Finally, AtPc
<1>2. PICK fut \in Future : fut = future[t] /\ future' = [future EXCEPT ![t] = fut]
  BY Here DEF Finally
<1>. QED
  BY <1>1, <1>2, GivingBack

-----------------------------------------------------------------------------
(* The snapshots. *)

LEMMA SnapshotKeeps ==
  ASSUME StatusInv, Kept, UNCHANGED <<closing, stopped>>, SnapshotsTyped', WriterInv',
         \A c \in Connectors : SnapshotInv(c)'
  PROVE  StatusInv'
BY DEF Kept, StatusInv

\* no check of its connector is younger than one that is judged
LEMMA JudgedIsYoungest ==
  ASSUME StatusInv, NEW t \in Checks, check[t].pc = "judged"
  PROVE  t \in stopped \/ snapshot[check[t].connector].by <= t
<1>. DEFINE k == check[t].connector
<1>1. /\ k \in Connectors /\ CheckInv(t) /\ LeaseInv(k) /\ t # 0 /\ t \in Nat
      /\ Entry(t) = lease[k]
  BY Here, ChecksAreNumbers
<1>. HIDE DEF k
<1>2. SnapshotInv(k) /\ snapshot[k].by \in 0 .. MaxChecks
  BY <1>1 DEF StatusInv, StatusTypeOK
<1>3. t \notin stopped => lease[k].token = t
  BY <1>1 DEF CheckInv, Unjudged
<1>4. snapshot[k].by # 0 => snapshot[k].by \in Checks /\ Checked(snapshot[k].by, k)
  BY <1>2, ChecksAreNumbers DEF SnapshotInv
<1>5. CASE snapshot[k].by # 0 /\ t \notin stopped
  <2>1. PICK s \in Checks : s = snapshot[k].by /\ Checked(s, k)
    BY <1>4, <1>5
  <2>2. s <= t
    BY <1>1, <1>3, <1>5, <2>1 DEF LeaseInv
  <2>. QED
    BY <2>1, <2>2 DEF k
<1>6. CASE snapshot[k].by = 0
  BY <1>1, <1>6 DEF k
<1>. QED
  BY <1>5, <1>6

LEMMA PersistKeeps ==
  ASSUME StatusInv, NEW t \in Checks, Persist(t)
  PROVE  StatusInv'
<1>1. /\ check[t].pc = "judged" /\ check[t].pc # "idle" /\ Goes(t, "releasing")
      /\ UNCHANGED <<future, callback, late, inTime, lease, closing, stopped>>
      /\ t \in Nat /\ t \in 0 .. MaxChecks
  BY ChecksAreNumbers DEF Persist, AtPc
<1>2. Kept
  BY <1>1, GoesKeeps DEF Pcs, Unjudged
<1>3. /\ \A s \in Checks, c \in Connectors : Checked(s, c)' <=> Checked(s, c)
      /\ \A s \in Checks : CheckInv(s)'
  BY <1>2 DEF Kept
<1>4. PICK k \in Connectors, verdict \in {"none", "answer", "unknown"} :
        k = check[t].connector /\ verdict = check[t].verdict
  BY Here DEF Check
<1>5. /\ Checked(t, k) /\ (verdict = "answer" => t \in inTime)
      /\ check'[t].connector = k /\ check'[t].pc # "idle"
      /\ t \in stopped \/ snapshot[k].by <= t
  BY <1>1, <1>4, Here, JudgedIsYoungest DEF Checked, CheckInv, Goes, StatusInv, StatusTypeOK, Check
<1>6. SnapshotsTyped
  BY DEF StatusInv, StatusTypeOK, SnapshotsTyped
<1>7. CASE writer = 0 /\ snapshot' = [snapshot EXCEPT ![k] = Result(t)] /\ UNCHANGED writer
  <2>. DEFINE result == [by |-> t, verdict |-> verdict]
  <2>1. /\ result \in [by : 0 .. MaxChecks, verdict : {"none", "answer", "unknown"}]
        /\ result = Result(t) /\ result.by = t /\ result.verdict = verdict
    BY <1>1, <1>4 DEF Result
  <2>. HIDE DEF result
  <2>2. SnapshotsTyped'
    BY <1>6, <1>7, <2>1 DEF SnapshotsTyped
  <2>3. ASSUME NEW c \in Connectors
        PROVE  SnapshotInv(c)'
    <3>1. /\ SnapshotInv(c) /\ (snapshot[c].by # 0 => snapshot[c].by \in Checks)
          /\ snapshot'[c] = IF c = k THEN result ELSE snapshot[c]
      BY <1>7, <2>1, ChecksAreNumbers DEF StatusInv, StatusTypeOK
    <3>. QED
      BY <1>1, <1>3, <1>5, <2>1, <3>1 DEF SnapshotInv
  <2>4. WriterInv'
    BY <1>7 DEF WriterInv
  <2>. QED
    BY <1>1, <1>2, <2>2, <2>3, <2>4, SnapshotKeeps
<1>8. CASE writer' = t /\ UNCHANGED snapshot
  <2>1. SnapshotsTyped'
    BY <1>1, <1>6, <1>8 DEF SnapshotsTyped
  <2>2. ASSUME NEW c \in Connectors
        PROVE  SnapshotInv(c)'
    <3>1. SnapshotInv(c) /\ (snapshot[c].by # 0 => snapshot[c].by \in Checks)
      BY ChecksAreNumbers DEF StatusInv, StatusTypeOK
    <3>. QED
      BY <1>1, <1>3, <1>8, <3>1 DEF SnapshotInv
  <2>3. WriterInv'
    BY <1>1, <1>5, <1>8 DEF WriterInv
  <2>. QED
    BY <1>1, <1>2, <2>1, <2>2, <2>3, SnapshotKeeps
<1>9. CASE UNCHANGED <<snapshot, writer>>
  BY <1>2, <1>9 DEF Kept
<1>. QED
  BY <1>4, <1>7, <1>8, <1>9 DEF Persist

LEMMA CallerEndsKeeps ==
  ASSUME StatusInv, CallerEnds
  PROVE  StatusInv'
<1>1. /\ writer # 0 /\ writer' = 0 /\ writer \in 0 .. MaxChecks
      /\ UNCHANGED <<check, future, callback, late, inTime, lease, closing, stopped>>
  BY DEF CallerEnds, StatusInv, StatusTypeOK
<1>2. /\ \A t \in Checks : CheckInv(t)'
      /\ \A c \in Connectors : LeaseInv(c)' /\ (SnapshotInv(c) /\ UNCHANGED snapshot => SnapshotInv(c)')
      /\ \A s \in Checks, c \in Connectors : Checked(s, c)' <=> Checked(s, c)
      /\ InOrder' /\ WriterInv' /\ (closing' = "no" => stopped' = {})
  BY <1>1 DEF StatusInv, CheckInv, Entry, LeaseInv, SnapshotInv, WriterInv, InOrder, Checked
<1>3. SnapshotsTyped' => StatusTypeOK'
  BY <1>1 DEF StatusInv, StatusTypeOK, SnapshotsTyped
<1>4. CASE UNCHANGED snapshot
  <2>1. SnapshotsTyped'
    BY <1>1, <1>4, StatusAssumption DEF StatusInv, StatusTypeOK, SnapshotsTyped
  <2>. QED
    BY <1>2, <1>3, <1>4, <2>1 DEF StatusInv
<1>5. CASE snapshot' = [snapshot EXCEPT ![check[writer].connector] = Result(writer)]
  <2>1. PICK t \in Checks : t = writer
    BY <1>1, ChecksAreNumbers
  <2>2. PICK k \in Connectors, verdict \in {"none", "answer", "unknown"} :
          k = check[t].connector /\ verdict = check[t].verdict
    BY Here DEF Check
  <2>. DEFINE result == [by |-> t, verdict |-> verdict]
  <2>3. /\ result \in [by : 0 .. MaxChecks, verdict : {"none", "answer", "unknown"}]
        /\ result = Result(writer) /\ result.by = t /\ result.verdict = verdict
    BY <1>1, <2>1, <2>2 DEF Result
  <2>. HIDE DEF result
  <2>4. snapshot' = [snapshot EXCEPT ![k] = result]
    BY <1>5, <2>1, <2>2, <2>3
  <2>5. Checked(t, k) /\ (verdict = "answer" => t \in inTime)
    BY <1>1, <2>1, <2>2, Here DEF Checked, CheckInv, StatusInv, WriterInv
  <2>6. SnapshotsTyped'
    BY <1>1, <2>3, <2>4, StatusAssumption DEF StatusInv, StatusTypeOK, SnapshotsTyped
  <2>7. ASSUME NEW c \in Connectors
        PROVE  SnapshotInv(c)'
    <3>1. SnapshotInv(c) /\ (snapshot[c].by # 0 => snapshot[c].by \in Checks)
          /\ snapshot'[c] = IF c = k THEN result ELSE snapshot[c]
      BY <2>4, ChecksAreNumbers DEF StatusInv, StatusTypeOK
    <3>. QED
      BY <1>1, <1>2, <2>3, <2>5, <3>1 DEF SnapshotInv
  <2>. QED
    BY <1>2, <1>3, <2>6, <2>7 DEF StatusInv
<1>. QED
  BY <1>4, <1>5 DEF CallerEnds

-----------------------------------------------------------------------------
(* A check begins; the executor is shut down. *)

LEMMA BeginKeeps ==
  ASSUME StatusInv, NEW t \in Checks, NEW c \in Connectors, NEW kind \in {"own", "callers"},
         Begin(t, c, kind)
  PROVE  StatusInv'
<1>. DEFINE row == [connector |-> c, kind |-> kind, pc |-> "leased", verdict |-> "none"]
            entry == [token |-> t, state |-> "running", completed |-> "unset"]
<1>1. /\ row \in Check /\ row.connector = c /\ row.pc = "leased" /\ row.verdict = "none"
      /\ entry \in Lease /\ entry.token = t /\ entry.state = "running"
      /\ entry.completed = "unset"
  BY ChecksAreNumbers DEF Check, Lease
<1>2. check' = [check EXCEPT ![t] = row] /\ lease' = [lease EXCEPT ![c] = entry]
  BY DEF Begin
<1>. HIDE DEF row, entry
<1>3. /\ check[t].pc = "idle" /\ (\A s \in 1 .. t - 1 : check[s].pc # "idle")
      /\ lease[c].token = 0 /\ t # 0 /\ t \in Nat
      /\ UNCHANGED <<future, callback, late, inTime, snapshot, writer, closing, stopped>>
  BY ChecksAreNumbers DEF Begin, AtPc
<1>4. /\ check' \in [Checks -> Check] /\ lease' \in [Connectors -> Lease]
      /\ check'[t] = row /\ lease'[c] = entry
      /\ \A s \in Checks \ {t} : check'[s] = check[s]
      /\ \A k \in Connectors \ {c} : lease'[k] = lease[k]
  BY <1>1, <1>2 DEF StatusInv, StatusTypeOK
<1>5. StatusTypeOK'
  BY <1>3, <1>4 DEF StatusInv, StatusTypeOK
<1>6. ASSUME NEW s \in Checks
      PROVE  CheckInv(s)'
  <2>1. CheckInv(s) /\ check[s].connector \in Connectors /\ s \in Nat /\ s # 0
    BY Here, ChecksAreNumbers
  <2>2. CASE s = t
    BY <1>1, <1>3, <1>4, <2>1, <2>2 DEF CheckInv, Unjudged, Entry
  <2>3. CASE s # t
    <3>1. /\ check'[s] = check[s] /\ future'[s] = future[s]
          /\ Entry(s)' = Entry(s) \/ (Entry(s).token # s /\ Entry(s)'.token # s)
      BY <1>1, <1>3, <1>4, <2>1, <2>3 DEF Entry
    <3>. QED
      BY <1>3, <2>1, <3>1 DEF CheckInv
  <2>. QED
    BY <2>2, <2>3
<1>7. ASSUME NEW s \in Checks, NEW k \in Connectors
      PROVE  /\ s # t => (Checked(s, k)' <=> Checked(s, k))
             /\ Checked(t, k)' <=> k = c
             /\ ~Checked(t, k)
  BY <1>1, <1>3, <1>4 DEF Checked
<1>8. ASSUME NEW k \in Connectors
      PROVE  LeaseInv(k)' /\ SnapshotInv(k)'
  <2>1. /\ LeaseInv(k) /\ SnapshotInv(k) /\ lease[k].token \in 0 .. MaxChecks
        /\ (lease[k].token # 0 => lease[k].token \in Checks)
        /\ snapshot[k].by # 0 => snapshot[k].by \in Checks
    BY ChecksAreNumbers DEF StatusInv, StatusTypeOK, Lease
  <2>2. SnapshotInv(k)'
    BY <1>3, <1>7, <2>1 DEF SnapshotInv
  <2>3. CASE k # c
    <3>1. lease'[k] = lease[k] /\ \A s \in Checks : Checked(s, k)' <=> Checked(s, k)
      BY <1>4, <1>7, <2>3
    <3>. QED
      BY <2>2, <1>3, <2>1, <3>1 DEF LeaseInv
  <2>4. CASE k = c
    <3>1. ASSUME NEW s \in Checks, Checked(s, c)'
          PROVE  s <= t
      <4>1. CASE s # t
        <5>1. check[s].pc # "idle" /\ s \in Nat
          BY <1>7, <3>1, <4>1, ChecksAreNumbers DEF Checked
        <5>. QED
          BY <1>3, <5>1 DEF StatusInv, InOrder
      <4>. QED
        BY <1>3, <4>1
    <3>2. lease'[c].token = t /\ lease'[c].completed = "unset" /\ Checked(t, c)'
      BY <1>1, <1>4, <1>7
    <3>. QED
      BY <2>2, <2>4, <3>1, <3>2 DEF LeaseInv
  <2>. QED
    BY <2>2, <2>3, <2>4
<1>9. WriterInv'
  <2>1. writer # 0 => writer \in Checks /\ check'[writer] = check[writer]
    BY <1>3, <1>4, ChecksAreNumbers DEF StatusInv, StatusTypeOK, WriterInv
  <2>. QED
    BY <1>3, <2>1 DEF StatusInv, WriterInv
<1>10. InOrder'
  <2>. SUFFICES ASSUME NEW s \in Checks, NEW u \in Checks, s <= u, check'[s].pc = "idle"
                PROVE  check'[u].pc = "idle"
    BY DEF InOrder
  <2>1. s # t /\ check[s].pc = "idle" /\ s \in Nat /\ u \in Nat /\ s # 0
    BY <1>1, <1>4, ChecksAreNumbers
  <2>2. s > t
    BY <1>3, <2>1
  <2>. QED
    BY <1>3, <1>4, <2>1, <2>2 DEF StatusInv, InOrder
<1>11. closing' = "no" => stopped' = {}
  BY <1>3 DEF StatusInv
<1>. QED
  BY <1>5, <1>6, <1>8, <1>9, <1>10, <1>11 DEF StatusInv

\* the leases change where a shutdown stops their checks
LEMMA ShutdownLands ==
  ASSUME StatusInv, StatusTypeOK', UNCHANGED <<check, inTime, snapshot, writer>>,
         \A t \in Checks : CheckInv(t)',
         \A c \in Connectors : \/ lease'[c].token = 0 /\ lease'[c].completed = "unset"
                               \/ /\ lease'[c].token = lease[c].token
                                  /\ lease'[c].completed = lease[c].completed,
         stopped \subseteq stopped', closing' # "no"
  PROVE  StatusInv'
<1>1. ASSUME NEW c \in Connectors
      PROVE  LeaseInv(c)' /\ SnapshotInv(c)'
  BY DEF StatusInv, LeaseInv, SnapshotInv, Checked
<1>2. WriterInv' /\ InOrder'
  BY DEF StatusInv, WriterInv, InOrder
<1>. QED
  BY <1>1, <1>2 DEF StatusInv

LEMMA ShutdownMarksKeeps ==
  ASSUME StatusInv, ShutdownMarks
  PROVE  StatusInv'
<1>. DEFINE submitted == {t \in Checks : Holds(t) /\ future[t] # "none"}
            marked(c) == [lease[c] EXCEPT !.state = "timed_out"]
<1>1. /\ stopped = {} /\ stopped' = submitted /\ closing' = "marked"
      /\ lease' = [c \in Connectors |-> IF lease[c].token \in submitted THEN marked(c)
                                        ELSE lease[c]]
      /\ UNCHANGED <<check, future, callback, late, inTime, snapshot, writer>>
  BY DEF ShutdownMarks, StatusInv
<1>2. ASSUME NEW c \in Connectors
      PROVE  /\ marked(c) \in Lease /\ marked(c).token = lease[c].token
             /\ marked(c).state = "timed_out" /\ marked(c).completed = lease[c].completed
  BY DEF StatusInv, StatusTypeOK, Lease
<1>3. \A t \in Checks : /\ t \in submitted => future[t] # "none" /\ Entry(t).token = t
                        /\ (Entry(t).token = t /\ future[t] # "none" /\ check[t].pc # "idle")
                             => t \in submitted
  BY DEF Holds, Entry
<1>4. submitted \subseteq Checks
  OBVIOUS
<1>. HIDE DEF submitted, marked
<1>5. /\ lease' \in [Connectors -> Lease]
      /\ \A c \in Connectors : /\ lease'[c].token = lease[c].token
                               /\ lease'[c].completed = lease[c].completed
                               /\ lease[c].token \in submitted => lease'[c].state = "timed_out"
                               /\ lease[c].token \notin submitted => lease'[c] = lease[c]
                               /\ lease[c].state = "timed_out" => lease'[c].state = "timed_out"
  BY <1>1, <1>2 DEF StatusInv, StatusTypeOK
<1>6. StatusTypeOK'
  BY <1>1, <1>4, <1>5 DEF StatusInv, StatusTypeOK
<1>7. ASSUME NEW t \in Checks
      PROVE  CheckInv(t)'
  <2>1. PICK k \in Connectors : Entry(t) = lease[k] /\ Entry(t)' = lease'[k]
    BY <1>1, Here DEF Entry
  <2>2. /\ Entry(t)'.token = Entry(t).token
        /\ Entry(t).token = t /\ t \in submitted => Entry(t)'.state = "timed_out"
        /\ Entry(t).token = t /\ t \notin submitted => Entry(t)' = Entry(t)
        /\ Entry(t).state = "timed_out" => Entry(t)'.state = "timed_out"
    BY <1>5, <2>1
  <2>3. CheckInv(t)
    BY Here
  <2>. QED
    BY <1>1, <1>3, <2>2, <2>3 DEF CheckInv, Unjudged
<1>8. stopped \subseteq stopped' /\ closing' # "no"
  BY <1>1
<1>. QED
  BY <1>1, <1>5, <1>6, <1>7, <1>8, ShutdownLands

LEMMA ShutdownCancelsKeeps ==
  ASSUME StatusInv, ShutdownCancels
  PROVE  StatusInv'
<1>1. /\ closing' = "waiting" /\ closing = "marked"
      /\ UNCHANGED <<check, callback, late, inTime, lease, snapshot, writer, stopped>>
      /\ future' = [t \in Checks |-> IF t \in stopped THEN Cancelled(t) ELSE future[t]]
  BY DEF ShutdownCancels
<1>2. ASSUME NEW t \in Checks
      PROVE  /\ future'[t] \in Future
             /\ future'[t] # future[t] => /\ future'[t] = "cancelled" /\ t \in stopped
                                          /\ future[t] = "pending"
  BY <1>1, Here DEF Cancelled, Future
<1>3. StatusTypeOK'
  <2>1. future' \in [Checks -> Future]
    BY <1>1, <1>2
  <2>. QED
    BY <1>1, <2>1 DEF StatusInv, StatusTypeOK
<1>4. ASSUME NEW t \in Checks
      PROVE  CheckInv(t)'
  <2>1. CheckInv(t) /\ Entry(t)' = Entry(t)
    BY <1>1, Here DEF Entry
  <2>. QED
    BY <1>1, <1>2, <2>1 DEF CheckInv, Unjudged
<1>. QED
  BY <1>1, <1>3, <1>4, ShutdownLands

LEMMA ShutdownEndsKeeps ==
  ASSUME StatusInv, ShutdownEnds
  PROVE  StatusInv'
<1>1. /\ closing' = "done" /\ closing = "waiting"
      /\ UNCHANGED <<check, future, callback, late, inTime, snapshot, writer, stopped>>
      /\ \A t \in stopped : future[t] \notin {"pending", "running"}
      /\ lease' = [c \in Connectors |-> IF lease[c].token \in stopped THEN Idle ELSE lease[c]]
  BY DEF ShutdownEnds, FutureDone
<1>2. Idle \in Lease /\ Idle.token = 0 /\ Idle.completed = "unset"
  BY StatusAssumption DEF Idle, Lease
<1>3. StatusTypeOK'
  <2>1. lease' \in [Connectors -> Lease]
    BY <1>1, <1>2 DEF StatusInv, StatusTypeOK
  <2>. QED
    BY <1>1, <2>1 DEF StatusInv, StatusTypeOK
<1>4. ASSUME NEW t \in Checks
      PROVE  CheckInv(t)'
  <2>1. /\ CheckInv(t) /\ Entry(t)' = lease'[check[t].connector] /\ t # 0
        /\ Entry(t) = lease[check[t].connector] /\ check[t].connector \in Connectors
    BY <1>1, Here DEF Entry
  <2>2. \/ Entry(t)' = Entry(t) /\ (Entry(t).token # t \/ t \notin stopped)
        \/ Entry(t)'.token # t /\ (Entry(t).token # t \/ t \in stopped)
    BY <1>1, <1>2, <2>1
  <2>. QED
    BY <1>1, <2>1, <2>2 DEF CheckInv, Unjudged
<1>. QED
  BY <1>1, <1>2, <1>3, <1>4, ShutdownLands

-----------------------------------------------------------------------------
LEMMA StatusStarts == StatusInit => StatusInv
<1>. SUFFICES ASSUME StatusInit
              PROVE  StatusInv
  OBVIOUS
<1>. DEFINE first == CHOOSE c \in Connectors : TRUE
            row == [connector |-> first, kind |-> "own", pc |-> "idle", verdict |-> "none"]
<1>1. first \in Connectors
  BY StatusAssumption
<1>. HIDE DEF first
<1>2. row \in Check /\ row.pc = "idle" /\ row.verdict = "none" /\ row.connector = first
  BY <1>1 DEF Check
<1>. HIDE DEF row
<1>3. /\ check = [t \in Checks |-> row] /\ future = [t \in Checks |-> "none"]
      /\ lease = [c \in Connectors |-> Idle] /\ writer = 0 /\ stopped = {}
      /\ snapshot = [c \in Connectors |-> [by |-> 0, verdict |-> "none"]]
      /\ late = {} /\ inTime = {} /\ closing = "no"
      /\ callback = [t \in Checks |-> "none"]
  BY DEF StatusInit, row, first
<1>4. Idle \in Lease /\ Idle.token = 0 /\ Idle.completed = "unset"
  BY StatusAssumption DEF Idle, Lease
<1>5. StatusTypeOK
  BY <1>2, <1>3, <1>4, StatusAssumption DEF StatusTypeOK, Future
<1>6. ASSUME NEW t \in Checks
      PROVE  CheckInv(t)
  BY <1>2, <1>3 DEF CheckInv, Unjudged
<1>7. ASSUME NEW c \in Connectors
      PROVE  LeaseInv(c) /\ SnapshotInv(c)
  BY <1>3, <1>4 DEF LeaseInv, SnapshotInv
<1>8. WriterInv /\ InOrder
  BY <1>2, <1>3 DEF WriterInv, InOrder
<1>. QED
  BY <1>3, <1>5, <1>6, <1>7, <1>8 DEF StatusInv

LEMMA StatusStep == StatusInv /\ [StatusNext]_statusVars => StatusInv'
<1>. SUFFICES ASSUME StatusInv, [StatusNext]_statusVars
              PROVE  StatusInv'
  OBVIOUS
<1>1. ASSUME NEW t \in Checks, Owner(t)
      PROVE  StatusInv'
  BY <1>1, SubmitKeeps, AddCallbackKeeps, AwaitKeeps, ValidateKeeps, ExpireKeeps,
     CancelKeeps, PersistKeeps, FinallyKeeps DEF Owner
<1>2. ASSUME NEW t \in Checks, Probe(t) \/ Deadline(t)
      PROVE  StatusInv'
  BY <1>2, StartProbeKeeps, EndProbeKeeps, CallbackKeeps, DeadlineKeeps DEF Probe
<1>3. CASE CallerEnds
  BY <1>3, CallerEndsKeeps
<1>4. CASE Shutdown
  BY <1>4, ShutdownMarksKeeps, ShutdownCancelsKeeps, ShutdownEndsKeeps DEF Shutdown
<1>5. CASE UNCHANGED statusVars
  BY <1>5 DEF statusVars, StatusInv, StatusTypeOK, CheckInv, Entry, LeaseInv, SnapshotInv,
              WriterInv, InOrder, Checked
<1>. QED
  BY <1>1, <1>2, <1>3, <1>4, <1>5, BeginKeeps DEF StatusNext

(* Every variable keeps its type: a lease is held by no check or by one of  *)
(* those that have begun.                                                   *)
THEOREM StatusTypeCorrect == StatusSpec => []StatusTypeOK
<1>1. StatusInv => StatusTypeOK
  BY DEF StatusInv
<1>. QED
  BY <1>1, StatusStarts, StatusStep, PTL DEF StatusSpec

(* A connector is never probed twice at a time, whatever the race of the    *)
(* deadline, the probe and a shutdown: a probe that occupies a worker or    *)
(* waits for one keeps its lease.                                           *)
THEOREM OneProbe == StatusSpec => []OneProbePerConnector
<1>1. StatusInv => OneProbePerConnector
  <2>. SUFFICES ASSUME StatusInv, NEW s \in Checks, NEW t \in Checks, s # t,
                       future[s] \in {"pending", "running"},
                       future[t] \in {"pending", "running"}
                PROVE  check[s].connector # check[t].connector
    BY DEF OneProbePerConnector
  <2>1. Entry(s).token = s /\ Entry(t).token = t
    BY Here DEF CheckInv
  <2>. QED
    BY <2>1 DEF Entry
<1>. QED
  BY <1>1, StatusStarts, StatusStep, PTL DEF StatusSpec

(* A verdict about the peer comes from a probe that ended before its        *)
(* deadline: what the callback recorded, or the answer of a future that was *)
(* validated while its deadline had not passed.                             *)
THEOREM InTime == StatusSpec => []VerdictInTime
<1>1. StatusInv => VerdictInTime
  BY DEF StatusInv, SnapshotInv, VerdictInTime
<1>. QED
  BY <1>1, StatusStarts, StatusStep, PTL DEF StatusSpec

(* The snapshot of a connector is never replaced by an older check's, not   *)
(* even by a caller who commits after the lease went to the next check: the *)
(* holder of a lease is the youngest check of its connector.                *)
THEOREM NewestSnapshot == StatusSpec => SnapshotInOrder
<1>. DEFINE Older(c) == \/ snapshot'[c].by >= snapshot[c].by
                        \/ snapshot'[c].by \in stopped
<1>1. ASSUME StatusInv, [StatusNext]_statusVars, NEW c \in Connectors
      PROVE  Older(c)
  <2>1. /\ snapshot[c].by \in Nat
        /\ snapshot \in [Connectors -> [by : 0 .. MaxChecks,
                                        verdict : {"none", "answer", "unknown"}]]
    BY <1>1 DEF StatusInv, StatusTypeOK
  <2>2. CASE UNCHANGED snapshot
    BY <2>1, <2>2
  <2>3. ASSUME NEW t \in Checks, NEW k \in Connectors, k = check[t].connector,
               snapshot' = [snapshot EXCEPT ![k] = Result(t)],
               t \in stopped \/ snapshot[k].by <= t
        PROVE  Older(c)
    <3>1. snapshot'[c] = IF c = k THEN Result(t) ELSE snapshot[c]
      BY <2>1, <2>3
    <3>2. Result(t).by = t /\ t \in Nat
      BY ChecksAreNumbers DEF Result
    <3>. QED
      BY <2>1, <2>3, <3>1, <3>2
  <2>4. ASSUME NEW t \in Checks, Persist(t)
        PROVE  Older(c)
    <3>1. check[t].pc = "judged"
      BY <2>4 DEF Persist, AtPc
    <3>2. PICK k \in Connectors : k = check[t].connector
      BY <1>1, Here
    <3>3. t \in stopped \/ snapshot[k].by <= t
      BY <1>1, <3>1, <3>2, JudgedIsYoungest
    <3>4. \/ snapshot' = [snapshot EXCEPT ![k] = Result(t)]
          \/ UNCHANGED snapshot
      BY <2>4, <3>2 DEF Persist
    <3>. QED
      BY <2>2, <2>3, <3>2, <3>3, <3>4
  <2>5. CASE CallerEnds
    <3>1. PICK t \in Checks : t = writer
      BY <1>1, <2>5, ChecksAreNumbers DEF CallerEnds, StatusInv, StatusTypeOK
    <3>2. PICK k \in Connectors : k = check[t].connector
      BY <1>1, Here
    <3>3. t \in stopped \/ snapshot[k].by <= t
      BY <1>1, <2>5, <3>1, <3>2 DEF CallerEnds, StatusInv, WriterInv
    <3>4. \/ snapshot' = [snapshot EXCEPT ![k] = Result(t)]
          \/ UNCHANGED snapshot
      BY <2>5, <3>1, <3>2 DEF CallerEnds
    <3>. QED
      BY <2>2, <2>3, <3>2, <3>3, <3>4
  <2>6. ASSUME NEW t \in Checks, Owner(t)
        PROVE  Older(c)
    <3>1. Persist(t) \/ UNCHANGED snapshot
      BY <2>6 DEF Owner, Submit, AddCallback, Await, Validate, Expire, Cancel, Finally
    <3>. QED
      BY <2>2, <2>4, <3>1
  <2>7. ASSUME NEW t \in Checks, \/ Probe(t) \/ Deadline(t)
                                 \/ \E k \in Connectors, kind \in {"own", "callers"} :
                                      Begin(t, k, kind)
        PROVE  Older(c)
    <3>1. UNCHANGED snapshot
      BY <2>7 DEF Probe, StartProbe, EndProbe, Callback, Deadline, Begin
    <3>. QED
      BY <2>2, <3>1
  <2>8. CASE Shutdown \/ UNCHANGED statusVars
    <3>1. UNCHANGED snapshot
      BY <2>8 DEF Shutdown, ShutdownMarks, ShutdownCancels, ShutdownEnds, statusVars
    <3>. QED
      BY <2>2, <3>1
  <2>. HIDE DEF Older
  <2>. QED
    BY <1>1, <2>5, <2>6, <2>7, <2>8 DEF StatusNext
<1>2. StatusInv /\ [StatusNext]_statusVars
        => [\A c \in Connectors : snapshot'[c].by >= snapshot[c].by
                                  \/ snapshot'[c].by \in stopped]_statusVars
  BY <1>1
<1>. QED
  BY <1>2, StatusStarts, StatusStep, PTL DEF StatusSpec, SnapshotInOrder
=============================================================================
