-------------------------- MODULE AutomaticMitigation --------------------------
(***************************************************************************)
(* The automatic mitigation orchestrator: detection asks for an evaluation *)
(* of an active anomaly by a persistent job; one worker thread evaluates   *)
(* it, reserves an execution per candidate rule, has the connector         *)
(* announce it, and reconciles the executions, above all those a crash or  *)
(* a TTL leaves to be withdrawn.                                           *)
(*                                                                         *)
(* One action is one SQLite transaction or one call of a connector         *)
(* callback.  The worker is the only thread that changes executions, which *)
(* is why the status conditions of their UPDATEs always hold; it is not    *)
(* the only one that changes announcements: operators, the FlowSpec page,  *)
(* the expiration loop and status checks do so between any two steps       *)
(* (OthersStep; that these are the changes they make is what BgpTable      *)
(* states of the module BgpAnnouncement).                                  *)
(*                                                                         *)
(* Simplifications:                                                        *)
(*  - the event's updated_at and a job's requested_at are the number of    *)
(*    the event's last update;                                             *)
(*  - an idempotency key stands for the whole candidate; candidates that   *)
(*    a gate, the validation or the readiness probe stops only leave a     *)
(*    blocked execution behind, and are the choice to drop them;           *)
(*  - the order in which a query returns rows is arbitrary;                *)
(*  - one connector; its executor is registered.                           *)
(***************************************************************************)
EXTENDS AnnouncementTable, FiniteSets

CONSTANTS
    Anomalies,           \* rows of anomaly_events
    MaxUpdates,          \* bound: updates of an event by detection
    MaxJobs,             \* bound: rows of automatic_mitigation_jobs
    MaxExecs,            \* bound: rows of mitigation_executions
    MaxApplyRetries,     \* GMJFLOW_AUTO_MITIGATION_MAX_RETRIES
    MaxWithdrawRetries,  \* GMJFLOW_AUTO_MITIGATION_WITHDRAW_MAX_RETRIES
    MaxFaults            \* bound: crashes and failed transactions

ASSUME BoundsAssumption ==
    /\ MaxUpdates \in Nat /\ MaxJobs \in Nat /\ MaxExecs \in Nat
    /\ MaxFaults \in Nat
ASSUME RowsAssumption == Anomalies # {}
ASSUME RetriesAssumption == MaxApplyRetries \in Nat /\ MaxWithdrawRetries \in Nat

JobIds == 1 .. MaxJobs
ExecIds == 1 .. MaxExecs

VARIABLES
    event,      \* anomaly_events: the number of the last update
    chosen,     \* events the detector's query returned and it has to enqueue
    job,        \* automatic_mitigation_jobs
    exec,       \* mitigation_executions
    worker,     \* where the worker thread stands
    dueJobs,    \* what process_jobs has read and not visited
    dueRows,    \* what reconcile has read and not visited, with the status
    announces,  \* history: announces written to the pipe for an execution
    faults

vars == <<event, chosen, job, exec, ann, worker, dueJobs, dueRows,
          announces, faults>>

-----------------------------------------------------------------------------
(* Rows.                                                                    *)

Job == [status : {"absent", "queued", "processing", "completed", "failed"},
        anomaly : Anomalies, requested : 0 .. MaxUpdates]

Exec == [status : {"absent", "queued", "applying", "active",
                   "withdraw_pending", "withdrawn", "failed"},
         key : Keys,
         link : 0 .. MaxAnns,                      \* announcement_id of apply_result
         ttl : {"unset", "running", "elapsed"},    \* apply_started_at, expires_at
         retry : {"unset", "waiting", "due"},      \* next_retry_at
         retries : 0 .. MaxApplyRetries + MaxWithdrawRetries + 1]

Worker == [pc : {"start", "sleep", "jobs", "evaluate", "candidates", "finish",
                 "reserved", "announce", "inserted", "sent", "compensate", "undo",
                 "applied", "rows", "claim", "withdraw", "write", "settle"},
           job : 0 .. MaxJobs, keys : SUBSET Keys, exec : 0 .. MaxExecs,
           ann : 0 .. MaxAnns,
           seen : {"absent", "pending_approval", "queued", "sent", "advertised",
                   "peer_down", "failed", "failed_withdraw"},  \* status the intent read
           outcome : {"none", "completed", "failed", "success", "transient", "final",
                      "in_progress"}]

Reserves(e) == exec[e].status \in {"queued", "applying", "active", "withdraw_pending"}

\* rows are inserted with ever growing ids
FreeExec == {e \in ExecIds : /\ exec[e].status = "absent"
                             /\ \A d \in 1 .. e - 1 : exec[d].status # "absent"}
FreeJob == {j \in JobIds : /\ job[j].status = "absent"
                           /\ \A i \in 1 .. j - 1 : job[i].status # "absent"}

Fault == faults < MaxFaults /\ faults' = faults + 1

-----------------------------------------------------------------------------
Asleep == [pc |-> "sleep", job |-> 0, keys |-> {}, exec |-> 0, ann |-> 0,
           seen |-> "absent", outcome |-> "none"]

Init ==
    /\ event = [a \in Anomalies |-> 0]
    /\ chosen = {}
    /\ job = [j \in JobIds |-> [status |-> "absent", requested |-> 0,
                                anomaly |-> CHOOSE a \in Anomalies : TRUE]]
    /\ exec = [e \in ExecIds |->
                 [status |-> "absent", key |-> CHOOSE k \in Keys : TRUE, link |-> 0,
                  ttl |-> "unset", retry |-> "unset", retries |-> 0]]
    /\ ann = [r \in AnnIds |-> NoAnn]
    /\ worker = Asleep
    /\ dueJobs = {}
    /\ dueRows = {}
    /\ announces = [e \in ExecIds |-> 0]
    /\ faults = 0

tables == <<job, exec, ann>>
lists == <<dueJobs, dueRows>>

-----------------------------------------------------------------------------
(* Detection.                                                               *)

Detected(a) ==
    /\ event[a] < MaxUpdates
    /\ event' = [event EXCEPT ![a] = @ + 1]
    /\ UNCHANGED <<chosen, tables, worker, lists, announces, faults>>

\* the query of enqueue_active_automatic_mitigations; the limit and the order
\* leave some of the events out, and so does the end of an anomaly
Unserved(a) ==
    event[a] > 0 /\ ~ \E j \in JobIds : /\ job[j].status # "absent"
                                        /\ job[j].anomaly = a
                                        /\ job[j].requested >= event[a]

Choose ==
    /\ chosen = {}
    /\ chosen' \in SUBSET {a \in Anomalies : Unserved(a)} \ {{}}
    /\ UNCHANGED <<event, tables, worker, lists, announces, faults>>

Pending(a) == {j \in JobIds : job[j].anomaly = a
                              /\ job[j].status \in {"queued", "processing"}}

\* enqueue: one pending job per anomaly, a new request is merged into it
Enqueue(a) ==
    /\ a \in chosen
    /\ \/ /\ Pending(a) = {}
          /\ \E j \in FreeJob :
               job' = [job EXCEPT ![j] = [status |-> "queued", anomaly |-> a,
                                          requested |-> event[a]]]
       \/ \E j \in Pending(a) : job' = [job EXCEPT ![j].requested = event[a]]
    /\ chosen' = chosen \ {a}
    /\ UNCHANGED <<event, exec, ann, worker, lists, announces, faults>>

-----------------------------------------------------------------------------
(* The worker: process_jobs.                                                *)

At(pc) == worker.pc = pc
GoTo(pc) == worker' = [worker EXCEPT !.pc = pc]

\* slip: jobs a crash left processing are not taken back
RecoverNothing ==
    /\ At("start")
    /\ worker' = Asleep
    /\ UNCHANGED <<event, chosen, tables, lists, announces, faults>>

\* recover_jobs, when the worker starts
RecoverJobs ==
    /\ At("start")
    /\ job' = [j \in JobIds |-> IF job[j].status = "processing"
                                THEN [job[j] EXCEPT !.status = "queued"] ELSE job[j]]
    /\ worker' = Asleep
    /\ UNCHANGED <<event, chosen, exec, ann, lists, announces, faults>>

Wake ==
    /\ At("sleep")
    /\ dueJobs' = {j \in JobIds : job[j].status = "queued"}
    /\ dueRows' = {}
    /\ GoTo("jobs")
    /\ UNCHANGED <<event, chosen, tables, announces, faults>>

ClaimJob(j) ==
    /\ At("jobs") /\ j \in dueJobs
    /\ dueJobs' = dueJobs \ {j}
    /\ job' = [job EXCEPT ![j].status = "processing"]
    /\ worker' = [worker EXCEPT !.pc = "evaluate", !.job = j]
    /\ UNCHANGED <<event, chosen, exec, ann, dueRows, announces, faults>>

\* the evaluator finds the candidates of the event, none once it has ended,
\* or raises
Evaluate ==
    /\ At("evaluate")
    /\ \/ \E keys \in SUBSET Keys :
            worker' = [worker EXCEPT !.pc = "candidates", !.keys = keys,
                                     !.outcome = "completed"]
       \/ worker' = [worker EXCEPT !.pc = "finish", !.outcome = "failed"]
    /\ UNCHANGED <<event, chosen, tables, lists, announces, faults>>

\* _insert_blocked, or _reserve when an execution has the key already
DropCandidate(k) ==
    /\ At("candidates") /\ k \in worker.keys
    /\ worker' = [worker EXCEPT !.keys = @ \ {k}]
    /\ UNCHANGED <<event, chosen, tables, lists, announces, faults>>

\* slip: only active executions keep a key
ReserveUnlessActive(k) ==
    /\ At("candidates") /\ k \in worker.keys
    /\ ~ \E e \in ExecIds : exec[e].key = k /\ exec[e].status = "active"
    /\ \E e \in FreeExec :
         /\ exec' = [exec EXCEPT ![e].status = "queued", ![e].key = k]
         /\ worker' = [worker EXCEPT !.pc = "reserved", !.keys = @ \ {k}, !.exec = e]
    /\ UNCHANGED <<event, chosen, job, ann, lists, announces, faults>>

\* _reserve
Reserve(k) ==
    /\ At("candidates") /\ k \in worker.keys
    /\ ~ \E e \in ExecIds : exec[e].key = k /\ Reserves(e)
    /\ \E e \in FreeExec :
         /\ exec' = [exec EXCEPT ![e].status = "queued", ![e].key = k]
         /\ worker' = [worker EXCEPT !.pc = "reserved", !.keys = @ \ {k}, !.exec = e]
    /\ UNCHANGED <<event, chosen, job, ann, lists, announces, faults>>

EvaluationEnds ==
    /\ At("candidates") /\ worker.keys = {}
    /\ GoTo("finish")
    /\ UNCHANGED <<event, chosen, tables, lists, announces, faults>>

FinishJob ==
    /\ At("finish")
    /\ job' = [job EXCEPT ![worker.job].status = worker.outcome]
    /\ worker' = [Asleep EXCEPT !.pc = "jobs"]
    /\ UNCHANGED <<event, chosen, exec, ann, lists, announces, faults>>

-----------------------------------------------------------------------------
(* _apply and the callback automatic_exabgp_apply.                          *)

StartApply ==
    /\ At("reserved")
    /\ exec' = [exec EXCEPT ![worker.exec].status = "applying",
                            ![worker.exec].ttl = IF @ = "unset" THEN "running" ELSE @]
    /\ GoTo("announce")
    /\ UNCHANGED <<event, chosen, job, ann, lists, announces, faults>>

Applied(outcome, r) ==
    worker' = [worker EXCEPT !.pc = "applied", !.outcome = outcome, !.ann = r]

\* the equivalent rows a lookup returns first, if they were delivered
Delivered(k) ==
    LET shown(status) == {r \in Equivalent(k) : ann[r].status = status}
    IN  IF shown("advertised") # {} THEN shown("advertised") ELSE shown("sent")

Refused(k) ==
    IF Delivered(k) = {} THEN Applied("final", 0)
                         ELSE \E r \in Delivered(k) : Applied("success", r)

\* an equivalent announcement is shared if it was delivered
ShareAnnouncement ==
    /\ At("announce")
    /\ Equivalent(exec[worker.exec].key) # {}
    /\ Refused(exec[worker.exec].key)
    /\ UNCHANGED <<event, chosen, tables, lists, announces, faults>>

\* apply_mitigation_candidate refuses, or inserts a queued row
InsertAnnouncement ==
    LET k == exec[worker.exec].key IN
    /\ At("announce")
    /\ \/ \E r \in FreeAnn :
            /\ WorkerInserts(r, k)
            /\ worker' = [worker EXCEPT !.pc = "inserted", !.ann = r]
       \/ /\ Equivalent(k) = {}
          /\ \E outcome \in {"transient", "final"} : Applied(outcome, 0)
          /\ UNCHANGED ann
    /\ UNCHANGED <<event, chosen, job, exec, lists, announces, faults>>

\* attempt_bgp_announcement up to the commit of sent, which may fail after
\* the pipe was written; the answer 409 of a claim that was lost has the
\* callback look for an equivalent row again
DeliverAnnouncement ==
    LET r == worker.ann IN
    /\ At("inserted")
    /\ \/ /\ WorkerDelivers(r, "sent")
          /\ announces' = [announces EXCEPT ![worker.exec] = @ + 1]
          /\ GoTo("sent")
          /\ UNCHANGED faults
       \/ /\ WorkerDelivers(r, "failed")
          /\ Applied("transient", 0)
          /\ UNCHANGED <<announces, faults>>
       \/ /\ Deliverable(r) /\ Fault
          /\ announces' = [announces EXCEPT ![worker.exec] = @ + 1]
          /\ GoTo("compensate")
          /\ UNCHANGED ann
       \/ /\ ~Deliverable(r)
          /\ Refused(exec[worker.exec].key)
          /\ UNCHANGED <<ann, announces, faults>>
    /\ UNCHANGED <<event, chosen, job, exec, lists>>

\* ... and the commit of advertised, which asks for sent only
ConfirmAnnouncement ==
    LET r == worker.ann IN
    /\ At("sent")
    /\ \/ WorkerConfirms(r) /\ Applied("success", r) /\ UNCHANGED faults
       \/ /\ ann[r].status # "sent"
          /\ Refused(exec[worker.exec].key)
          /\ UNCHANGED <<ann, faults>>
       \/ Fault /\ GoTo("compensate") /\ UNCHANGED ann
    /\ UNCHANGED <<event, chosen, job, exec, lists, announces>>

Undelivered(r) == ann[r].status \in {"queued", "sent"}

\* the compensating withdraw of a delivery whose commit failed: its intent
CompensateAnnouncement ==
    LET r == worker.ann IN
    /\ At("compensate")
    /\ IF Undelivered(r) /\ IntentAllowed(r) THEN WorkerRequests(r) ELSE UNCHANGED ann
    /\ GoTo("undo")
    /\ UNCHANGED <<event, chosen, job, exec, lists, announces, faults>>

\* ... and its write and record.  A rule taken back is a transient failure,
\* and so is the answer 500 when that is not recorded either; what failed
\* before it is no longer counted
UndoAnnouncement ==
    LET r == worker.ann
        expected == Undelivered(r) /\ ann[r].request # "none"
        takenBack == announces' = [announces EXCEPT ![worker.exec] = 0]
    IN
    /\ At("undo")
    /\ \/ /\ expected /\ WorkerSettles(r, "failed")
          /\ Applied("transient", 0) /\ takenBack
          /\ UNCHANGED faults
       \/ /\ expected /\ WorkerSettles(r, "failed_withdraw")
          /\ Applied("final", 0)
          /\ UNCHANGED <<announces, faults>>
       \/ /\ expected /\ Fault
          /\ Applied("transient", 0) /\ takenBack
          /\ UNCHANGED ann
       \/ /\ ~expected
          /\ Refused(exec[worker.exec].key)
          /\ UNCHANGED <<ann, announces, faults>>
    /\ UNCHANGED <<event, chosen, job, exec, lists>>

\* back to the candidates of a job, or to the rows of reconcile
Return == [worker EXCEPT !.pc = IF worker.job = 0 THEN "rows" ELSE "candidates",
                         !.exec = 0, !.ann = 0, !.seen = "absent",
                         !.outcome = IF worker.job = 0 THEN "none" ELSE "completed"]

\* the second transaction of _apply
RecordApply ==
    LET e == worker.exec
        retries == exec[e].retries + 1
        retry == worker.outcome = "transient" /\ retries <= MaxApplyRetries
    IN
    /\ At("applied")
    /\ exec' = [exec EXCEPT ![e] =
         IF worker.outcome = "success"
         THEN [@ EXCEPT !.status = "active", !.ttl = "running", !.retry = "unset",
                        !.link = worker.ann]
         ELSE [@ EXCEPT !.status = IF retry THEN "queued" ELSE "failed",
                        !.retry = IF retry THEN "waiting" ELSE "unset",
                        !.retries = retries]]
    /\ worker' = Return
    /\ UNCHANGED <<event, chosen, job, ann, lists, announces, faults>>

-----------------------------------------------------------------------------
(* reconcile.                                                               *)

ReconcileReads ==
    /\ At("jobs") /\ dueJobs = {}
    /\ dueRows' = {e \in ExecIds :
                     \/ exec[e].status = "active" /\ exec[e].ttl = "elapsed"
                     \/ exec[e].status = "queued" /\ exec[e].retry = "due"
                     \/ exec[e].status \in {"applying", "withdraw_pending"}}
    /\ GoTo("rows")
    /\ UNCHANGED <<event, chosen, tables, dueJobs, announces, faults>>

\* automatic_execution_announcement_id: the one recorded, else the one of
\* this execution or key that ranks first by status
Rank(status) ==
    CASE status = "advertised" -> 0
      [] status = "sent" -> 1
      [] status = "queued" -> 2
      [] status = "failed_withdraw" -> 3
      [] status = "expired" -> 4
      [] status = "withdrawn" -> 5
      [] OTHER -> 6

Linked(e) ==
    LET own == {r \in AnnIds : ann[r].status # "absent" /\ ann[r].key = exec[e].key}
    IN  IF exec[e].link # 0 THEN {exec[e].link}
        ELSE {r \in own : \A q \in own \ {r} :
                \/ Rank(ann[r].status) < Rank(ann[q].status)
                \/ Rank(ann[r].status) = Rank(ann[q].status) /\ q < r}

Visit(e, status) == At("rows") /\ e \in dueRows /\ exec[e].status = status
Visited(e) == dueRows' = dueRows \ {e}

RetryApply(e) ==
    /\ Visit(e, "queued") /\ Visited(e)
    /\ worker' = [worker EXCEPT !.pc = "reserved", !.exec = e]
    /\ UNCHANGED <<event, chosen, tables, dueJobs, announces, faults>>

ProbeSays(e, statuses) == \E r \in Linked(e) : ann[r].status \in statuses

\* slip: an execution found applying is applied again
ReapplyApplying(e) ==
    /\ Visit(e, "applying") /\ Visited(e)
    /\ worker' = [worker EXCEPT !.pc = "announce", !.exec = e]
    /\ UNCHANGED <<event, chosen, tables, dueJobs, announces, faults>>

\* an apply nobody recorded: the connector is asked, it is never re-applied
ProbeApplying(e) ==
    /\ Visit(e, "applying") /\ Visited(e)
    /\ \/ /\ ProbeSays(e, {"advertised"})
          /\ \E r \in Linked(e) :
               exec' = [exec EXCEPT ![e].status = "active", ![e].link = r]
          /\ UNCHANGED worker
       \/ /\ ProbeSays(e, {"withdrawn", "expired"})
          /\ exec' = [exec EXCEPT ![e].status = "withdrawn"]
          /\ UNCHANGED worker
       \/ /\ ~ProbeSays(e, {"advertised", "withdrawn", "expired"})
          /\ IF exec[e].ttl = "elapsed"
             THEN worker' = [worker EXCEPT !.pc = "claim", !.exec = e]
             ELSE UNCHANGED worker
          /\ UNCHANGED exec
    /\ UNCHANGED <<event, chosen, job, ann, dueJobs, announces, faults>>

VisitActive(e) ==
    /\ Visit(e, "active") /\ Visited(e)
    /\ worker' = [worker EXCEPT !.pc = "claim", !.exec = e]
    /\ UNCHANGED <<event, chosen, tables, dueJobs, announces, faults>>

VisitPending(e) ==
    /\ Visit(e, "withdraw_pending") /\ Visited(e)
    /\ worker' = [worker EXCEPT !.pc = "withdraw", !.exec = e]
    /\ UNCHANGED <<event, chosen, tables, dueJobs, announces, faults>>

\* _claim_withdraw
ClaimWithdraw ==
    /\ At("claim")
    /\ exec' = [exec EXCEPT ![worker.exec].status = "withdraw_pending"]
    /\ GoTo("withdraw")
    /\ UNCHANGED <<event, chosen, job, ann, lists, announces, faults>>

Withdrawn(outcome) == worker' = [worker EXCEPT !.pc = "settle", !.outcome = outcome]

\* automatic_exabgp_withdraw, up to its intent
WithdrawIntent ==
    LET linked == Linked(worker.exec) IN
    /\ At("withdraw")
    /\ \/ linked = {} /\ Withdrawn("final") /\ UNCHANGED ann
       \/ \E r \in linked : Closed(r) /\ Withdrawn("success") /\ UNCHANGED ann
       \/ /\ \E r \in linked : ~Closed(r)      \* the connector is not usable
          /\ Withdrawn("transient")
          /\ UNCHANGED ann
       \/ /\ \E r \in linked : ~Closed(r) /\ ~IntentAllowed(r)
          /\ Withdrawn("in_progress")
          /\ UNCHANGED ann
       \/ \E r \in linked :
            /\ WorkerRequests(r)
            /\ worker' = [worker EXCEPT !.pc = "write", !.ann = r,
                                        !.seen = ann[r].status]
    /\ UNCHANGED <<event, chosen, job, exec, lists, announces, faults>>

\* the withdraw is written; both transitions ask for the status seen and for
\* the open request, and only the one after a refused write is caught
WithdrawWrite ==
    LET r == worker.ann
        expected == ann[r].status = worker.seen /\ ann[r].request # "none"
    IN
    /\ At("write")
    /\ \/ /\ IF expected THEN WorkerSettles(r, "expired") ELSE UNCHANGED ann
          /\ Withdrawn(IF expected THEN "success" ELSE "final")
       \/ /\ IF expected THEN WorkerSettles(r, "failed_withdraw") ELSE UNCHANGED ann
          /\ Withdrawn("transient")
    /\ UNCHANGED <<event, chosen, job, exec, lists, announces, faults>>

\* slip: a failed withdraw is recorded like a successful one
SettleAlwaysWithdrawn ==
    /\ At("settle")
    /\ exec' = [exec EXCEPT ![worker.exec].status = "withdrawn"]
    /\ worker' = Return
    /\ UNCHANGED <<event, chosen, job, ann, lists, announces, faults>>

\* slip: a withdraw that fails stays pending whatever it returned
SettleForEver ==
    /\ At("settle")
    /\ exec' = [exec EXCEPT ![worker.exec].status =
                  IF worker.outcome = "success" THEN "withdrawn" ELSE @]
    /\ worker' = Return
    /\ UNCHANGED <<event, chosen, job, ann, lists, announces, faults>>

\* the end of _withdraw
SettleWithdraw ==
    LET e == worker.exec
        retries == exec[e].retries + 1
        retry == worker.outcome = "transient" /\ retries <= MaxWithdrawRetries
    IN
    /\ At("settle")
    /\ exec' = CASE worker.outcome = "success" -> [exec EXCEPT ![e].status = "withdrawn"]
                 [] worker.outcome = "in_progress" -> exec
                 [] OTHER -> [exec EXCEPT ![e].retries = retries,
                                          ![e].status = IF retry THEN @ ELSE "failed"]
    /\ worker' = Return
    /\ UNCHANGED <<event, chosen, job, ann, lists, announces, faults>>

ReconcileEnds ==
    /\ At("rows") /\ dueRows = {}
    /\ worker' = Asleep
    /\ UNCHANGED <<event, chosen, tables, lists, announces, faults>>

-----------------------------------------------------------------------------
(* Faults.                                                                  *)

Crash ==
    /\ Fault
    /\ worker' = [Asleep EXCEPT !.pc = "start"]
    /\ chosen' = {} /\ dueJobs' = {} /\ dueRows' = {}
    /\ UNCHANGED <<event, tables, announces>>

\* the next transaction raises (the database stays locked).  A connector
\* callback that raises has failed for good, an evaluation fails its job,
\* anything else ends this round of the worker's loop
TransactionFails ==
    /\ Fault
    /\ worker' = CASE worker.pc \in {"announce", "inserted", "compensate"} ->
                        [worker EXCEPT !.pc = "applied", !.outcome = "final", !.ann = 0]
                   [] worker.pc \in {"withdraw", "write"} ->
                        [worker EXCEPT !.pc = "settle", !.outcome = "final"]
                   [] worker.job # 0 /\ worker.pc # "finish" ->
                        [Asleep EXCEPT !.pc = "finish", !.job = worker.job,
                                       !.outcome = "failed"]
                   [] OTHER -> Asleep
    /\ worker.pc \notin {"start", "sleep", "sent", "undo"}
    /\ UNCHANGED <<event, chosen, tables, lists, announces>>

-----------------------------------------------------------------------------
(* The clocks, and the other threads that work on announcements.            *)

TtlElapses(e) ==
    /\ exec[e].ttl = "running" /\ exec[e].status \in {"applying", "active"}
    /\ exec' = [exec EXCEPT ![e].ttl = "elapsed"]
    /\ UNCHANGED <<event, chosen, job, ann, worker, lists, announces, faults>>

BackoffElapses(e) ==
    /\ exec[e].retry = "waiting"
    /\ exec' = [exec EXCEPT ![e].retry = "due"]
    /\ UNCHANGED <<event, chosen, job, ann, worker, lists, announces, faults>>

OnAnns(change) == change /\ UNCHANGED <<event, chosen, job, exec, worker, lists,
                                        announces, faults>>

OthersStep == OnAnns(OthersChange)

-----------------------------------------------------------------------------
Detection == (\E a \in Anomalies : Detected(a) \/ Enqueue(a)) \/ Choose

ProcessJobs ==
    \/ RecoverJobs \/ Wake \/ Evaluate \/ EvaluationEnds \/ FinishJob
    \/ \E j \in JobIds : ClaimJob(j)
    \/ \E k \in Keys : DropCandidate(k) \/ Reserve(k)

Apply ==
    \/ StartApply \/ ShareAnnouncement \/ InsertAnnouncement
    \/ DeliverAnnouncement \/ ConfirmAnnouncement \/ CompensateAnnouncement
    \/ UndoAnnouncement \/ RecordApply

Reconcile ==
    \/ ReconcileReads \/ ClaimWithdraw \/ WithdrawIntent \/ WithdrawWrite
    \/ SettleWithdraw \/ ReconcileEnds
    \/ \E e \in ExecIds : \/ RetryApply(e) \/ ProbeApplying(e)
                          \/ VisitActive(e) \/ VisitPending(e)

WorkerStep == ProcessJobs \/ Apply \/ Reconcile

Clocks == \E e \in ExecIds : TtlElapses(e) \/ BackoffElapses(e)

Next == Detection \/ WorkerStep \/ Clocks \/ OthersStep \/ Crash \/ TransactionFails

Spec == Init /\ [][Next]_vars

(* The worker's loop goes on, clocks run, and whoever asked for a withdraw  *)
(* gets it written in the end.                                              *)
Fairness ==
    /\ WF_vars(WorkerStep)
    /\ \A e \in ExecIds : WF_vars(TtlElapses(e)) /\ WF_vars(BackoffElapses(e))
    /\ \A r \in AnnIds :
         /\ WF_vars(OnAnns(RequestLapses(r)))
         /\ SF_vars(OnAnns(\/ OthersWithdraw(r, "withdrawn")
                           \/ OthersWithdraw(r, "expired")))

FairSpec == Spec /\ Fairness

-----------------------------------------------------------------------------
(* Properties. *)

TypeOK ==
    /\ event \in [Anomalies -> 0 .. MaxUpdates]
    /\ chosen \subseteq Anomalies
    /\ job \in [JobIds -> Job]
    /\ exec \in [ExecIds -> Exec]
    /\ ann \in [AnnIds -> Ann]
    /\ worker \in Worker
    /\ dueJobs \subseteq JobIds /\ dueRows \subseteq ExecIds
    /\ announces \in [ExecIds -> Nat]
    /\ faults \in 0 .. MaxFaults

(* One execution holds a key: the check of _reserve, the retries, and       *)
(* everything that settles an execution after a crash agree on which        *)
(* statuses keep it (RESERVING_STATUSES and its partial unique index).      *)
OneReservationPerKey ==
    \A d, e \in ExecIds : d # e /\ Reserves(d) /\ Reserves(e)
                            => exec[d].key # exec[e].key

(* reconcile: unknown delivery is deliberately not re-applied.  However     *)
(* often the worker crashes and retries, and whoever withdraws the rule in  *)
(* the meantime, an execution has it written to the pipe once, and once     *)
(* more only after the connector reported that the delivery before failed.  *)
AnnouncedOnce == \A e \in ExecIds : announces[e] <= 1

(* An execution that was linked to an announcement and ends as withdrawn    *)
(* leaves it withdrawn or expired, whoever did it, and it stays so.         *)
WithdrawnIsClosed ==
    \A e \in ExecIds : exec[e].status = "withdrawn" /\ exec[e].link # 0
                         => Closed(exec[e].link)

(* An execution nothing will select again: reserved by an evaluation that   *)
(* was cut before its first step.                                           *)
Stranded(e) ==
    exec[e].status = "queued" /\ exec[e].retry = "unset" /\ worker.exec # e

(* Every execution ends, or was stranded between _reserve and _apply; no    *)
(* crash elsewhere, no withdraw that others are busy with and no connector  *)
(* that fails keeps a key reserved for ever.                                *)
ExecutionEnds ==
    \A e \in ExecIds : Reserves(e) ~> ~Reserves(e) \/ Stranded(e)

(* A job is taken up if it is queued, in the hands of the worker, or found  *)
(* by a worker that starts again; one that a failed transaction left behind *)
(* waits for that restart.                                                  *)
InHand(j) ==
    \/ job[j].status = "queued"
    \/ job[j].status = "processing" /\ (worker.job = j \/ worker.pc = "start")

(* A job that is in hand after the last fault is completed or fails:        *)
(* recover_jobs loses none that a crash cut.                                *)
JobEnds ==
    \A j \in JobIds :
        InHand(j) /\ faults = MaxFaults ~> job[j].status \in {"completed", "failed"}
=============================================================================
