--------------------------- MODULE BgpAnnouncement ---------------------------
(***************************************************************************)
(* Life cycle of a FlowSpec announcement of GMJ-FLOW: the rows of the      *)
(* SQLite table bgp_announcements, the request threads that deliver them   *)
(* through the ExaBGP pipe, the reconciler that withdraws them when their  *)
(* TTL elapses, the operators that approve, reject and withdraw them, the  *)
(* manual FlowSpec page and the automatic orchestrator's withdraw callback.*)
(*                                                                         *)
(* One action is one SQLite transaction.  Every write transaction of the   *)
(* code runs between BEGIN IMMEDIATE and COMMIT, so it holds the writer    *)
(* lock of the database, and every pipe write happens inside one: the      *)
(* actions below are atomic for the same reason.  What is NOT atomic in    *)
(* the code is two transactions of one thread, and those are two actions   *)
(* here, with a program counter in between.                                *)
(*                                                                         *)
(* Simplifications:                                                        *)
(*  - one connector, with the exabgp backend; its being unavailable or in  *)
(*    dry-run at withdraw time is the outcome of a refused pipe write;     *)
(*  - an NLRI (the match part of a rule) and an action are values; the     *)
(*    mitigation key is the pair, and so is the text of the withdraw       *)
(*    command, which renders both;                                         *)
(*  - clocks are qualitative: an expires_at is unset, running or elapsed,  *)
(*    and a row was or was not updated in the last 30 seconds;             *)
(*  - the legacy states active and announced, which no code path writes    *)
(*    any more, and the never written state prepared are left out;         *)
(*  - ExaBGP keeps the routes it was told to announce (an ExaBGP restart   *)
(*    is outside the program).                                             *)
(***************************************************************************)
EXTENDS Naturals, FiniteSets

CONSTANTS
    MaxRows,        \* bound: rows the table may hold
    Nlris,          \* match parts of the rules
    Actions,        \* discard, rate-limit, ...
    Operators,      \* threads serving approve, reject and withdraw requests
    Reconcilers,    \* threads running process_expired_bgp_announcements
    Testers,        \* threads serving the manual FlowSpec page
    Orchestrators,  \* the automatic mitigation worker (at most one thread)
    MaxFaults       \* bound: crashes of the backend and failed commits

ASSUME MaxRowsAssumption == MaxRows \in Nat
ASSUME RulesAssumption == Nlris # {} /\ Actions # {}
ASSUME MaxFaultsAssumption == MaxFaults \in Nat

Ids == 1 .. MaxRows
Withdrawers == Operators \cup Reconcilers \cup Testers \cup Orchestrators

NoClaim == "no claim"
AttemptClaim == "attempt"     \* the claim of a compensating withdraw
Claims == Withdrawers \cup {NoClaim, AttemptClaim}

\* every claim has a token of its own
ASSUME ThreadsAssumption ==
    /\ Orchestrators \cap (Operators \cup Reconcilers \cup Testers) = {}
    /\ Testers \cap (Operators \cup Reconcilers) = {}
    /\ Withdrawers \cap {NoClaim, AttemptClaim} = {}

Statuses == {"absent", "pending_approval", "queued", "sent", "advertised",
             "peer_down", "failed", "failed_withdraw", "withdrawn", "expired",
             "rejected", "rejected_by_policy", "dry_run"}

Levels == {"registered", "approved", "simulation_only", "delivery_attempted",
           "delivered_to_exabgp", "peer_established_announce_requested",
           "peer_established", "peer_unavailable", "withdraw_requested",
           "withdrawn", "withdraw_failed", "superseded_by_newer_delivery",
           "compensating_withdraw_delivered", "operator_rejected"}

VARIABLES
    ann,      \* the table bgp_announcements
    rows,     \* number of rows inserted so far: ids are handed out in order
    att,      \* program counter of the thread delivering each row
    job,      \* program counter and claimed row of each withdrawing thread
    due,      \* rows each reconciler's scan returned and it has yet to visit
    asked,    \* untracked rule each tester found free and is about to withdraw
    route,    \* ExaBGP: the row whose rule it announces for an NLRI, or 0
    faults    \* crashes and failed commits so far

vars == <<ann, rows, att, job, due, asked, route, faults>>

-----------------------------------------------------------------------------
(* The rows. *)

Row == [status : Statuses,
        level : Levels,                       \* confirmation_level
        nlri : Nlris, action : Actions,
        auto : BOOLEAN,                       \* inserted by the orchestrator
        withdrawOnly : BOOLEAN,               \* an untracked manual withdraw
        sendToken : BOOLEAN,                  \* send_claim_token is not empty
        claim : Claims,                       \* owner of withdraw_claim_token
        sent : BOOLEAN, advertised : BOOLEAN, \* sent_at, advertised_at are set
        expiry : {"unset", "running", "elapsed"},
        recent : BOOLEAN]                     \* updated in the last 30 seconds

NewRow(status, level, nlri, action, auto, withdrawOnly) ==
    [status |-> status, level |-> level, nlri |-> nlri, action |-> action,
     auto |-> auto, withdrawOnly |-> withdrawOnly, sendToken |-> FALSE,
     claim |-> NoClaim, sent |-> FALSE, advertised |-> FALSE,
     expiry |-> "unset", recent |-> TRUE]

NoRow == NewRow("absent", "registered", CHOOSE n \in Nlris : TRUE,
                CHOOSE a \in Actions : TRUE, FALSE, FALSE)

(* The update every status change makes: which time stamps it sets, keeps  *)
(* or clears.                                                              *)
NextExpiry(row, status) ==
    CASE status = "queued" -> "unset"
      [] status \in {"sent", "advertised"} /\ row.expiry = "unset" -> "running"
      [] status \in {"peer_down", "failed"} /\ ~row.advertised -> "unset"
      [] OTHER -> row.expiry

Transitioned(row, status, level) ==
    [row EXCEPT !.status = status,
                !.level = level,
                !.sent = row.sent \/ status = "sent",
                !.advertised = row.advertised \/ status = "advertised",
                !.expiry = NextExpiry(row, status),
                !.recent = TRUE]

Transition(r, status, level) ==
    ann' = [ann EXCEPT ![r] = Transitioned(ann[r], status, level)]

(* The same transition of a delivery that is known not to have happened:   *)
(* the send claim is cleared with it.                                      *)
CancelDelivery(r, status, level) ==
    ann' = [ann EXCEPT ![r] =
              [Transitioned(ann[r], status, level) EXCEPT !.sendToken = FALSE]]

Existing == {r \in Ids : ann[r].status # "absent"}

SameKey(r, n, a) == ann[r].nlri = n /\ ann[r].action = a

Delivered(row) == row.sent \/ row.advertised

\* slip: a rule delivered and not yet confirmed releases its key
ReservingForgetsSent(row) ==
    \/ row.status \in {"pending_approval", "queued", "advertised", "failed_withdraw"}
    \/ row.status = "peer_down" /\ Delivered(row)
    \/ row.status # "absent" /\ row.level = "withdraw_requested"

\* slip: a rule whose peer went down releases its key
ReservingForgetsPeerDown(row) ==
    \/ row.status \in {"pending_approval", "queued", "sent", "advertised",
                       "failed_withdraw"}
    \/ row.status # "absent" /\ row.level = "withdraw_requested"

(* A rule that keeps the ownership of its mitigation key. *)
Reserving(row) ==
    \/ row.status \in {"pending_approval", "queued", "sent", "advertised",
                       "failed_withdraw"}
    \/ row.status = "peer_down" /\ Delivered(row)
    \/ row.status # "absent" /\ row.level = "withdraw_requested"

Reserved(n, a) == \E r \in Existing : SameKey(r, n, a) /\ Reserving(ann[r])

\* slip: a younger delivery counts only once it is confirmed
SupersededByConfirmed(r) ==
    \E q \in Existing :
        /\ q > r
        /\ SameKey(q, ann[r].nlri, ann[r].action)
        /\ \/ ann[q].status \in {"advertised", "failed_withdraw"}
           \/ ann[q].status = "peer_down" /\ Delivered(ann[q])
           \/ ann[q].level = "withdraw_requested"

(* A delivery, or possible delivery, of the same rule by a younger row. *)
Superseded(r) ==
    \E q \in Existing :
        /\ q > r
        /\ SameKey(q, ann[r].nlri, ann[r].action)
        /\ \/ ann[q].status \in {"sent", "advertised", "failed_withdraw"}
           \/ ann[q].status = "peer_down" /\ Delivered(ann[q])
           \/ ann[q].status = "queued" /\ ann[q].level = "delivery_attempted"
           \/ ann[q].level = "withdraw_requested"

-----------------------------------------------------------------------------
(* The ExaBGP pipe: an announce installs the rule of the row for its NLRI, *)
(* a withdraw removes whatever is announced for the NLRI.                  *)

PipeAnnounce(r) == route' = [route EXCEPT ![ann[r].nlri] = r]
PipeWithdraw(r) == route' = [route EXCEPT ![ann[r].nlri] = 0]

Fault == faults < MaxFaults /\ faults' = faults + 1

-----------------------------------------------------------------------------
Idle == [pc |-> "idle", row |-> 0, seen |-> "absent"]

Init ==
    /\ ann = [r \in Ids |-> NoRow]
    /\ rows = 0
    /\ att = [r \in Ids |-> "none"]
    /\ job = [p \in Withdrawers |-> Idle]
    /\ due = [p \in Reconcilers |-> {}]
    /\ asked = [p \in Testers |-> {}]
    /\ route = [n \in Nlris |-> 0]
    /\ faults = 0

-----------------------------------------------------------------------------
(* Time.  A running TTL elapses; 30 seconds pass after the last update.     *)
(* Neither is modelled of a row for which no query asks.                    *)

TtlElapses(r) ==
    /\ ann[r].expiry = "running"
    /\ ann[r].status \notin {"withdrawn", "expired"}
    /\ ann' = [ann EXCEPT ![r].expiry = "elapsed"]
    /\ UNCHANGED <<rows, att, job, due, asked, route, faults>>

RetryWindowElapses(r) ==
    /\ ann[r].recent
    /\ ann[r].level = "withdraw_requested" \/ ann[r].status = "failed_withdraw"
    /\ ann' = [ann EXCEPT ![r].recent = FALSE]
    /\ UNCHANGED <<rows, att, job, due, asked, route, faults>>

-----------------------------------------------------------------------------
(* Creation: check-then-insert in one transaction.                          *)

OrchestratorFree ==
    /\ \A p \in Orchestrators : job[p].pc = "idle"
    /\ \A r \in Existing : ann[r].auto => att[r] = "none"

\* slip: the key is not looked up again under the writer lock
InsertUnchecked(status, level, n, a, auto) ==
    /\ rows < MaxRows
    /\ auto => Orchestrators # {} /\ OrchestratorFree
    /\ rows' = rows + 1
    /\ ann' = [ann EXCEPT ![rows + 1] = NewRow(status, level, n, a, auto, FALSE)]
    /\ UNCHANGED <<job, due, asked, route, faults>>

Insert(status, level, n, a, auto) ==
    /\ rows < MaxRows
    /\ auto => Orchestrators # {} /\ OrchestratorFree
    /\ ~Reserved(n, a)
    /\ rows' = rows + 1
    /\ ann' = [ann EXCEPT ![rows + 1] = NewRow(status, level, n, a, auto, FALSE)]
    /\ UNCHANGED <<job, due, asked, route, faults>>

\* announce_now, automatic, or the announce of the manual page: the row is
\* queued, and the thread that inserted it goes on to deliver it
InsertQueued(n, a, auto) ==
    /\ Insert("queued", "approved", n, a, auto)
    /\ att' = [att EXCEPT ![rows + 1] = "ready"]

\* a proposal that waits for an operator, a simulation, a policy refusal
InsertUndelivered(n, a) ==
    /\ \/ Insert("pending_approval", "registered", n, a, FALSE)
       \/ Insert("dry_run", "simulation_only", n, a, FALSE)
       \/ Insert("rejected_by_policy", "registered", n, a, FALSE)
    /\ UNCHANGED att

-----------------------------------------------------------------------------
(* Delivery: attempt_bgp_announcement, in the thread that inserted or       *)
(* approved the row.                                                        *)

AttemptTo(r, pc) == att' = [att EXCEPT ![r] = pc]

\* slip: the expiry is only armed once the delivery is recorded
SendClaimedUnarmed(row) ==
    [row EXCEPT !.level = "delivery_attempted", !.sendToken = TRUE, !.recent = TRUE]

\* persist_bgp_send_intent: claim the delivery and arm the safety expiry
SendClaimed(row) ==
    [row EXCEPT !.level = "delivery_attempted",
                !.sendToken = TRUE,
                !.expiry = IF row.expiry = "unset" THEN "running" ELSE row.expiry,
                !.recent = TRUE]

SendIntent(r) ==
    /\ att[r] = "ready"
    /\ \/ /\ ann[r].status = "queued"
          /\ ann[r].level \notin {"delivery_attempted", "withdraw_requested"}
          /\ ~ann[r].sendToken
          /\ ann' = [ann EXCEPT ![r] = SendClaimed(ann[r])]
          /\ AttemptTo(r, "claimed")
       \/ /\ \/ ann[r].status # "queued"
             \/ ann[r].level \in {"delivery_attempted", "withdraw_requested"}
             \/ ann[r].sendToken
          /\ AttemptTo(r, "none")
          /\ UNCHANGED ann
    /\ UNCHANGED <<rows, job, due, asked, route, faults>>

StillClaimed(r) ==
    /\ ann[r].status = "queued"
    /\ ann[r].level = "delivery_attempted"

\* the readiness check had failed: no pipe write, the claim is cancelled
NotReady(r) ==
    /\ att[r] = "claimed"
    /\ \/ /\ StillClaimed(r)
          /\ \E status \in {"peer_down", "failed"} :
               CancelDelivery(r, status, "peer_unavailable")
       \/ ~StillClaimed(r) /\ UNCHANGED ann
    /\ AttemptTo(r, "none")
    /\ UNCHANGED <<rows, job, due, asked, route, faults>>

\* the claim is verified, the announce written and sent committed under one
\* writer lock; the write may be refused, or the commit fail after it
Deliver(r) ==
    /\ att[r] = "claimed"
    /\ \/ /\ StillClaimed(r) /\ ann[r].sendToken
          /\ PipeAnnounce(r)
          /\ Transition(r, "sent", "delivered_to_exabgp")
          /\ AttemptTo(r, "sent")
          /\ UNCHANGED faults
       \/ /\ StillClaimed(r) /\ ann[r].sendToken
          /\ CancelDelivery(r, "failed", "peer_established")
          /\ AttemptTo(r, "none")
          /\ UNCHANGED <<route, faults>>
       \/ /\ StillClaimed(r) /\ ann[r].sendToken
          /\ PipeAnnounce(r)
          /\ Fault
          /\ AttemptTo(r, "compensate")
          /\ UNCHANGED ann
       \/ /\ ~(StillClaimed(r) /\ ann[r].sendToken)
          /\ AttemptTo(r, "none")
          /\ UNCHANGED <<ann, route, faults>>
    /\ UNCHANGED <<rows, job, due, asked>>

\* a second transaction records advertised; it expects sent and nothing else
Advertise(r) ==
    /\ att[r] = "sent"
    /\ \/ /\ ann[r].status = "sent"
          /\ Transition(r, "advertised", "peer_established_announce_requested")
          /\ AttemptTo(r, "none")
          /\ UNCHANGED faults
       \/ /\ ann[r].status # "sent"
          /\ AttemptTo(r, "none")
          /\ UNCHANGED <<ann, faults>>
       \/ /\ Fault
          /\ AttemptTo(r, "compensate")
          /\ UNCHANGED ann
    /\ UNCHANGED <<rows, job, due, asked, route>>

-----------------------------------------------------------------------------
(* The durable withdraw intent, persisted before any withdraw is written.   *)

IntentAllowed(r) == ~(ann[r].level = "withdraw_requested" /\ ann[r].recent)

PersistIntent(r, claim) ==
    ann' = [ann EXCEPT ![r] = [@ EXCEPT !.level = "withdraw_requested",
                                        !.claim = claim, !.recent = TRUE]]

Claimed(p, r, seen) == job' = [job EXCEPT ![p] = [pc |-> "claimed", row |-> r,
                                                  seen |-> seen]]
Release(p) == job' = [job EXCEPT ![p] = Idle]

HoldsIntent(p, r) ==
    /\ ann[r].level = "withdraw_requested"
    /\ ann[r].claim = p

\* compensation of a failed commit, first transaction: the intent; that it
\* was refused is not looked at
Compensate(r) ==
    /\ att[r] = "compensate"
    /\ \/ /\ ann[r].status \in {"queued", "sent"} /\ IntentAllowed(r)
          /\ PersistIntent(r, AttemptClaim)
       \/ /\ ~(ann[r].status \in {"queued", "sent"} /\ IntentAllowed(r))
          /\ UNCHANGED ann
    /\ AttemptTo(r, "undo")
    /\ UNCHANGED <<rows, job, due, asked, route, faults>>

\* second transaction: the withdraw is written, then the row is updated if
\* it still is what the transition expects
Undo(r) ==
    LET expected == /\ ann[r].status \in {"queued", "sent"}
                    /\ ann[r].level = "withdraw_requested"
    IN
    /\ att[r] = "undo"
    /\ \/ /\ PipeWithdraw(r)
          /\ expected
          /\ Transition(r, "failed", "compensating_withdraw_delivered")
          /\ UNCHANGED faults
       \/ /\ UNCHANGED route
          /\ expected
          /\ Transition(r, "failed_withdraw", "withdraw_failed")
          /\ UNCHANGED faults
       \/ /\ PipeWithdraw(r) \/ UNCHANGED route
          /\ ~expected
          /\ UNCHANGED <<ann, faults>>
       \/ /\ PipeWithdraw(r)
          /\ expected
          /\ Fault
          /\ UNCHANGED ann
    /\ AttemptTo(r, "none")
    /\ UNCHANGED <<rows, job, due, asked>>

-----------------------------------------------------------------------------
(* The end of a withdraw whose intent is held: the row was superseded and   *)
(* nothing is written, or the withdraw is delivered, refused, or delivered  *)
(* and its commit fails.                                                    *)

FinishWithdraw(r, target, omit) ==
    \/ /\ omit
       /\ Transition(r, target, "superseded_by_newer_delivery")
       /\ UNCHANGED <<route, faults>>
    \/ /\ ~omit
       /\ PipeWithdraw(r)
       /\ Transition(r, target, "withdrawn")
       /\ UNCHANGED faults
    \/ /\ ~omit
       /\ Transition(r, "failed_withdraw", "withdraw_failed")
       /\ UNCHANGED <<route, faults>>
    \/ /\ ~omit
       /\ PipeWithdraw(r)
       /\ Fault
       /\ UNCHANGED ann

-----------------------------------------------------------------------------
(* The reconciler: process_expired_bgp_announcements.                       *)

\* slip: a delivery that was attempted and never recorded is not scanned
NeedsWithdrawIfRecorded(row) ==
    \/ /\ row.expiry = "elapsed"
       /\ \/ row.status \in {"sent", "advertised"}
          \/ row.status = "peer_down" /\ Delivered(row)
    \/ row.status = "failed_withdraw" /\ ~row.recent
    \/ row.level = "withdraw_requested" /\ ~row.recent /\ Delivered(row)

\* slip: an abandoned request is left to whoever made it
NeedsWithdrawUnrequested(row) ==
    \/ /\ row.expiry = "elapsed"
       /\ row.level # "withdraw_requested"
       /\ \/ row.status \in {"sent", "advertised"}
          \/ row.status = "queued" /\ row.level = "delivery_attempted"
          \/ row.status = "peer_down" /\ Delivered(row)
    \/ row.status = "failed_withdraw" /\ ~row.recent

NeedsWithdraw(row) ==
    \/ /\ row.expiry = "elapsed"
       /\ \/ row.status \in {"sent", "advertised"}
          \/ row.status = "queued" /\ row.level = "delivery_attempted"
          \/ row.status = "peer_down" /\ Delivered(row)
    \/ row.status = "failed_withdraw" /\ ~row.recent
    \/ /\ row.level = "withdraw_requested" /\ ~row.recent
       /\ \/ Delivered(row)
          \/ row.status \in {"queued", "sent", "advertised", "peer_down",
                             "failed_withdraw"}

\* the query, outside any transaction: the rows and the status they had
Scan(p) ==
    /\ job[p].pc = "idle" /\ due[p] = {}
    /\ \E r \in Existing : NeedsWithdraw(ann[r])
    /\ due' = [due EXCEPT ![p] = {<<r, ann[r].status>> :
                                    r \in {q \in Existing : NeedsWithdraw(ann[q])}}]
    /\ UNCHANGED <<ann, rows, att, job, asked, route, faults>>

\* the intent of the next row of the scan, or the next row is skipped
ReconcilerClaim(p, r, seen) ==
    /\ job[p].pc = "idle"
    /\ <<r, seen>> \in due[p]
    /\ due' = [due EXCEPT ![p] = @ \ {<<r, seen>>}]
    /\ \/ /\ ann[r].status = seen /\ IntentAllowed(r)
          /\ PersistIntent(r, p)
          /\ Claimed(p, r, seen)
       \/ /\ ~(ann[r].status = seen /\ IntentAllowed(r))
          /\ UNCHANGED <<ann, job>>
    /\ UNCHANGED <<rows, att, asked, route, faults>>

\* a failed commit abandons the rest of the scan
ReconcilerFinish(p) ==
    LET r == job[p].row IN
    /\ job[p].pc = "claimed"
    /\ \/ /\ HoldsIntent(p, r)
          /\ FinishWithdraw(r, IF ann[r].expiry = "elapsed" THEN "expired"
                                                            ELSE "withdrawn",
                            Superseded(r))
       \/ ~HoldsIntent(p, r) /\ UNCHANGED <<ann, route, faults>>
    /\ due' = [due EXCEPT ![p] = IF faults' = faults THEN @ ELSE {}]
    /\ Release(p)
    /\ UNCHANGED <<rows, att, asked>>

-----------------------------------------------------------------------------
(* Operators: update_bgp_announcement_status.                               *)

\* approve; the approving thread goes on to deliver the row
Approve(r) ==
    /\ ann[r].status = "pending_approval"
    /\ \/ /\ Transition(r, "queued", "approved")
          /\ AttemptTo(r, "ready")
       \/ /\ Transition(r, "dry_run", "simulation_only")
          /\ UNCHANGED att
    /\ UNCHANGED <<rows, job, due, asked, route, faults>>

\* slip: a row whose delivery is in progress can be rejected
RejectableInDelivery(row) ==
    \/ row.status \in {"pending_approval", "dry_run"}
    \/ row.status \in {"queued", "peer_down", "failed"} /\ ~row.sent

Rejectable(row) ==
    \/ row.status \in {"pending_approval", "dry_run"}
    \/ /\ row.status \in {"queued", "peer_down", "failed"}
       /\ ~row.sent
       /\ row.level # "delivery_attempted" /\ ~row.sendToken

Reject(r) ==
    /\ Rejectable(ann[r])
    /\ Transition(r, "rejected", "operator_rejected")
    /\ UNCHANGED <<rows, att, job, due, asked, route, faults>>

WasDelivered(row) ==
    \/ Delivered(row)
    \/ row.status = "failed_withdraw"
    \/ row.level \in {"delivery_attempted", "withdraw_failed", "withdraw_requested"}
    \/ row.sendToken

\* withdraw of a rule that was never delivered: nothing is written
DropUndelivered(r) ==
    /\ ann[r].status \notin {"absent", "withdrawn", "expired"}
    /\ ~WasDelivered(ann[r])
    /\ Transition(r, "withdrawn", "withdrawn")
    /\ UNCHANGED <<rows, att, job, due, asked, route, faults>>

OperatorClaim(p, r) ==
    /\ job[p].pc = "idle"
    /\ ann[r].status \notin {"absent", "withdrawn", "expired"}
    /\ WasDelivered(ann[r])
    /\ IntentAllowed(r)
    /\ PersistIntent(r, p)
    /\ Claimed(p, r, ann[r].status)
    /\ UNCHANGED <<rows, att, due, asked, route, faults>>

OperatorFinish(p) ==
    LET r == job[p].row IN
    /\ job[p].pc = "claimed"
    /\ \/ HoldsIntent(p, r) /\ FinishWithdraw(r, "withdrawn", Superseded(r))
       \/ ~HoldsIntent(p, r) /\ UNCHANGED <<ann, route, faults>>
    /\ Release(p)
    /\ UNCHANGED <<rows, att, due, asked>>

-----------------------------------------------------------------------------
(* The manual FlowSpec page: withdraw of a rule no row tracks.              *)

\* the duplicate check and the search for a tracked row run before the
\* transaction that inserts
TesterCheck(p, n, a) ==
    /\ job[p].pc = "idle" /\ asked[p] = {}
    /\ rows < MaxRows
    /\ ~Reserved(n, a)
    /\ asked' = [asked EXCEPT ![p] = {<<n, a>>}]
    /\ UNCHANGED <<ann, rows, att, job, due, route, faults>>

TesterInsert(p, n, a) ==
    /\ job[p].pc = "idle" /\ <<n, a>> \in asked[p]
    /\ rows < MaxRows
    /\ rows' = rows + 1
    /\ ann' = [ann EXCEPT ![rows + 1] =
                 NewRow("queued", "approved", n, a, FALSE, TRUE)]
    /\ job' = [job EXCEPT ![p] = [pc |-> "inserted", row |-> rows + 1,
                                  seen |-> "queued"]]
    /\ asked' = [asked EXCEPT ![p] = {}]
    /\ UNCHANGED <<att, due, route, faults>>

TesterClaim(p) ==
    LET r == job[p].row IN
    /\ job[p].pc = "inserted"
    /\ \/ /\ ann[r].status = "queued" /\ IntentAllowed(r)
          /\ PersistIntent(r, p)
          /\ Claimed(p, r, "queued")
       \/ /\ ~(ann[r].status = "queued" /\ IntentAllowed(r))
          /\ Release(p)
          /\ UNCHANGED ann
    /\ UNCHANGED <<rows, att, due, asked, route, faults>>

TesterFinish(p) ==
    LET r == job[p].row IN
    /\ job[p].pc = "claimed"
    /\ \/ /\ HoldsIntent(p, r) /\ ann[r].status = "queued"
          /\ FinishWithdraw(r, "withdrawn", FALSE)
       \/ /\ ~(HoldsIntent(p, r) /\ ann[r].status = "queued")
          /\ UNCHANGED <<ann, route, faults>>
    /\ Release(p)
    /\ UNCHANGED <<rows, att, due, asked>>

-----------------------------------------------------------------------------
(* The orchestrator's callback automatic_exabgp_withdraw: it neither reads  *)
(* its claim again nor looks for a younger delivery before it writes.       *)

StatusRank == [advertised |-> 0, sent |-> 1, queued |-> 2, failed_withdraw |-> 3,
               expired |-> 4, withdrawn |-> 5]

Rank(row) == IF row.status \in DOMAIN StatusRank THEN StatusRank[row.status] ELSE 6

FirstOfKey(r) ==
    \A q \in Existing \ {r} :
        SameKey(q, ann[r].nlri, ann[r].action) =>
            \/ Rank(ann[r]) < Rank(ann[q])
            \/ Rank(ann[r]) = Rank(ann[q]) /\ q < r

\* an execution withdraws the row recorded when its apply succeeded, its own
\* or one of another source that it shares, and expires no earlier than the
\* row; if the record was lost, it expires by its own clock and withdraws the
\* first row of its key
OrchestratorAsks(r) ==
    \/ Delivered(ann[r]) /\ (ann[r].expiry = "elapsed" \/ faults > 0)
    \/ FirstOfKey(r) /\ faults > 0

OrchestratorClaim(p, r) ==
    /\ OrchestratorFree
    /\ OrchestratorAsks(r)
    /\ ann[r].status \notin {"absent", "withdrawn", "expired"}
    /\ IntentAllowed(r)
    /\ PersistIntent(r, p)
    /\ Claimed(p, r, ann[r].status)
    /\ UNCHANGED <<rows, att, due, asked, route, faults>>

\* slip: the transition expects nothing of the row
OrchestratorFinishUnexpecting(p) ==
    LET r == job[p].row IN
    /\ job[p].pc = "claimed"
    /\ \/ PipeWithdraw(r) /\ Transition(r, "expired", "withdrawn")
       \/ UNCHANGED route /\ Transition(r, "failed_withdraw", "withdraw_failed")
    /\ Release(p)
    /\ UNCHANGED <<rows, att, due, asked, faults>>

OrchestratorFinish(p) ==
    LET r == job[p].row
        expected == /\ ann[r].status = job[p].seen
                    /\ ann[r].level = "withdraw_requested"
    IN
    /\ job[p].pc = "claimed"
    /\ \/ /\ PipeWithdraw(r)
          /\ expected
          /\ Transition(r, "expired", "withdrawn")
          /\ UNCHANGED faults
       \/ /\ UNCHANGED route
          /\ expected
          /\ Transition(r, "failed_withdraw", "withdraw_failed")
          /\ UNCHANGED faults
       \/ /\ PipeWithdraw(r) \/ UNCHANGED route
          /\ ~expected
          /\ UNCHANGED <<ann, faults>>
       \/ /\ PipeWithdraw(r)
          /\ expected
          /\ Fault
          /\ UNCHANGED ann
    /\ Release(p)
    /\ UNCHANGED <<rows, att, due, asked>>

-----------------------------------------------------------------------------
(* A finished status check that says the peer is down marks every           *)
(* advertised row of the connector, except those being withdrawn.           *)

PeerDownMarkedAnyway(row) == row.status = "advertised"

PeerDownMarked(row) ==
    /\ row.status = "advertised"
    /\ row.level # "withdraw_requested"

MarkPeerDown ==
    /\ \E r \in Ids : PeerDownMarked(ann[r])
    /\ ann' = [r \in Ids |->
                 IF PeerDownMarked(ann[r])
                 THEN [ann[r] EXCEPT !.status = "peer_down", !.recent = TRUE]
                 ELSE ann[r]]
    /\ UNCHANGED <<rows, att, job, due, asked, route, faults>>

(* The backend dies and restarts: the threads are gone, the table and       *)
(* ExaBGP are not.  Nothing resumes a delivery.                             *)
Crash ==
    /\ Fault
    /\ att' = [r \in Ids |-> "none"]
    /\ job' = [p \in Withdrawers |-> Idle]
    /\ due' = [p \in Reconcilers |-> {}]
    /\ asked' = [p \in Testers |-> {}]
    /\ UNCHANGED <<ann, rows, route>>

-----------------------------------------------------------------------------
Creation == \E n \in Nlris, a \in Actions :
    \/ \E auto \in BOOLEAN : InsertQueued(n, a, auto)
    \/ InsertUndelivered(n, a)

Delivery(r) ==
    \/ SendIntent(r) \/ NotReady(r) \/ Deliver(r) \/ Advertise(r)
    \/ Compensate(r) \/ Undo(r)

Reconcile(p) ==
    \/ Scan(p)
    \/ \E r \in Ids, seen \in Statuses : ReconcilerClaim(p, r, seen)
    \/ ReconcilerFinish(p)

Operate(p) ==
    \/ \E r \in Ids : OperatorClaim(p, r)
    \/ OperatorFinish(p)

ManualWithdraw(p) ==
    \/ \E n \in Nlris, a \in Actions : TesterCheck(p, n, a) \/ TesterInsert(p, n, a)
    \/ TesterClaim(p)
    \/ TesterFinish(p)

OrchestratorWithdraw(p) ==
    \/ \E r \in Ids : OrchestratorClaim(p, r)
    \/ OrchestratorFinish(p)

Time == \E r \in Ids : TtlElapses(r) \/ RetryWindowElapses(r)

Decisions == \E r \in Ids : Approve(r) \/ Reject(r) \/ DropUndelivered(r)

Next ==
    \/ Creation
    \/ \E r \in Ids : Delivery(r)
    \/ \E p \in Reconcilers : Reconcile(p)
    \/ \E p \in Operators : Operate(p)
    \/ \E p \in Testers : ManualWithdraw(p)
    \/ \E p \in Orchestrators : OrchestratorWithdraw(p)
    \/ Decisions
    \/ MarkPeerDown
    \/ Time
    \/ Crash

Spec == Init /\ [][Next]_vars

(* Time passes, the reconciler's loop goes on, the pipe does not refuse it  *)
(* for ever, and an operator's request that claimed a row runs to its end   *)
(* unless the backend crashes.  Nothing is assumed of what operators ask    *)
(* for, of the threads that deliver, or of the status checks.               *)
ReconcilerSucceeds(p) ==
    /\ ReconcilerFinish(p)
    /\ faults' = faults
    /\ ann'[job[p].row].status # "failed_withdraw"

Fairness ==
    /\ \A r \in Ids : WF_vars(TtlElapses(r)) /\ WF_vars(RetryWindowElapses(r))
    /\ \A p \in Reconcilers :
         /\ WF_vars(Scan(p))
         /\ WF_vars(\E r \in Ids, seen \in Statuses : ReconcilerClaim(p, r, seen))
         /\ WF_vars(ReconcilerFinish(p))
         /\ SF_vars(ReconcilerSucceeds(p))
    /\ \A p \in Operators : WF_vars(OperatorFinish(p))

FairSpec == Spec /\ Fairness

-----------------------------------------------------------------------------
(* Properties. *)

TypeOK ==
    /\ ann \in [Ids -> Row]
    /\ rows \in 0 .. MaxRows
    /\ att \in [Ids -> {"none", "ready", "claimed", "sent", "compensate", "undo"}]
    /\ job \in [Withdrawers -> [pc : {"idle", "inserted", "claimed"},
                                row : 0 .. MaxRows, seen : Statuses]]
    /\ due \in [Reconcilers -> SUBSET (Ids \X Statuses)]
    /\ asked \in [Testers -> SUBSET (Nlris \X Actions)]
    /\ route \in [Nlris -> 0 .. MaxRows]
    /\ faults \in 0 .. MaxFaults

(* A row that a later scan of the reconciler will return once its clocks    *)
(* have run out, if nobody else closes it before.                           *)
WithinReach(row) ==
    \/ /\ row.expiry # "unset"
       /\ \/ row.status \in {"sent", "advertised"}
          \/ row.status = "queued" /\ row.level = "delivery_attempted"
          \/ row.status = "peer_down" /\ Delivered(row)
    \/ row.status = "failed_withdraw"
    \/ /\ row.level = "withdraw_requested"
       /\ \/ Delivered(row)
          \/ row.status \in {"queued", "sent", "advertised", "peer_down"}

(* No rule stays announced by ExaBGP behind the application's back: a row   *)
(* with the same mitigation key reserves the key and is within the reach of *)
(* the reconciler, whatever crashed or failed between the pipe write and    *)
(* the commit that follows it (persist_bgp_send_intent, and the two         *)
(* separate SQL predicates of the reservation and of the scan).             *)
LiveRouteIsTracked ==
    \A n \in Nlris : route[n] # 0 =>
        \E q \in Existing :
            /\ SameKey(q, n, ann[route[n]].action)
            /\ Reserving(ann[q])
            /\ WithinReach(ann[q])

(* A row that has been, or may still be, delivered. *)
Live(row) ==
    \/ /\ row.status \in {"pending_approval", "queued", "sent", "advertised"}
       /\ ~row.withdrawOnly
    \/ row.status = "peer_down" /\ Delivered(row)

(* Two live rows never share a mitigation key: the check-then-insert of the *)
(* creation paths, under the writer lock, against every way a row leaves    *)
(* and keeps the reservation (bgp_reserving_announcement_clause).           *)
OneLiveRowPerKey ==
    \A q, r \in Existing :
        /\ q # r
        /\ SameKey(q, ann[r].nlri, ann[r].action)
        /\ Live(ann[q])
        => ~Live(ann[r])

(* A row that was withdrawn or that expired stays so, although a delivery,  *)
(* a compensation, a status check or a second withdraw of it may still be   *)
(* running in another thread.                                               *)
ClosedIsFinal ==
    [][\A r \in Ids : ann[r].status \in {"withdrawn", "expired"}
                        => ann'[r].status = ann[r].status]_vars

(* docs/install.md, on the reservation that outlives the TTL: it prevents a *)
(* new equivalent rule from being announced and then removed by an old      *)
(* withdraw.  A rule leaves ExaBGP only while a withdraw of its own row is  *)
(* under way or has failed, or after its row was superseded by another.     *)
(* Stated of runs without faults: after one, a compensating withdraw whose  *)
(* intent was refused does it too (attempt_bgp_announcement ignores the     *)
(* refusal).                                                                *)
NoStolenRoute ==
    [][\A n \in Nlris : route[n] # 0 /\ route'[n] = 0 /\ faults' = 0
         => ann[route[n]].level \in {"withdraw_requested", "withdraw_failed",
                                     "superseded_by_newer_delivery"}]_vars

(* A row shown as sent or advertised, with no withdraw requested, is the    *)
(* one whose rule ExaBGP announces.  Stated of runs without faults: a       *)
(* request overwritten by the delivery hides a withdraw that was written.   *)
AdvertisedIsTruthful ==
    \A r \in Existing :
        /\ faults = 0
        /\ ann[r].status \in {"sent", "advertised"}
        /\ ann[r].level # "withdraw_requested"
        => route[ann[r].nlri] = r

(* An operator's withdraw and the reconciler's remove the rule of the row   *)
(* they withdraw, and never a younger announcement of that rule, although   *)
(* the other threads, the orchestrator that writes without reading its      *)
(* claim again, a crash or a failed commit may have closed the row and      *)
(* freed its key between the claim and the write                            *)
(* (newer_equivalent_bgp_delivery, and the claim read again under the       *)
(* lock).  ExaBGP may be announcing the same traffic with another action;   *)
(* a row of the manual page withdraws whatever is announced; and a row that *)
(* such a withdraw had it believe superseded is no longer tracked.          *)
WithdrawsOwnRule ==
    [][\A p \in Operators \cup Reconcilers, n \in Nlris :
         LET r == job[p].row IN
         /\ job[p].pc = "claimed" /\ job'[p] # job[p]
         /\ route[n] # 0 /\ route'[n] # route[n]
         => \/ route[n] = r
            \/ ann[route[n]].action # ann[r].action
            \/ ann[r].withdrawOnly
            \/ ann[route[n]].level = "superseded_by_newer_delivery"]_vars

(* attempt_bgp_announcement: competing withdraw requests cannot overtake    *)
(* the attempt and later be overwritten.  A withdraw request ends with the  *)
(* row, or with a withdraw that failed.                                     *)
RequestNotOverwritten ==
    [][\A r \in Ids : ann[r].level = "withdraw_requested"
         => \/ ann'[r].level = "withdraw_requested"
            \/ ann'[r].status \in {"withdrawn", "expired", "failed",
                                   "failed_withdraw", "rejected"}]_vars

(* Every rule ExaBGP announces is withdrawn in the end, even when the       *)
(* thread that delivered it died before it recorded the delivery.           *)
LiveRouteEventuallyWithdrawn == \A n \in Nlris : route[n] # 0 ~> route[n] = 0

(* A durable withdraw request is eventually settled. *)
RequestEventuallySettled ==
    \A r \in Ids : ann[r].level = "withdraw_requested"
                     ~> ann[r].level # "withdraw_requested"

=============================================================================
