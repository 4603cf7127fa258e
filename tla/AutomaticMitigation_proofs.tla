---------------------- MODULE AutomaticMitigation_proofs ----------------------
(***************************************************************************)
(* Proofs about the automatic mitigation worker, for any number of         *)
(* anomalies, keys, jobs, executions, announcements, retries and faults.   *)
(*                                                                         *)
(* The invariant says where the worker stands: at each point of its code   *)
(* the execution in its hands has the one status that point works on, as   *)
(* no other thread changes executions.  A crash only forgets where it      *)
(* stood.                                                                  *)
(***************************************************************************)
EXTENDS AutomaticMitigation, TLAPS

InHands(statuses) == worker.exec \in ExecIds /\ exec[worker.exec].status \in statuses

\* in the connector's callback that announces
CallPcs == {"announce", "inserted", "sent", "compensate", "undo"}

(* Where the worker stands, and the row it holds.                           *)
WorkerInv ==
    /\ worker.pc = "reserved" => InHands({"queued"})
    /\ worker.pc \in {"announce", "inserted", "sent", "compensate", "undo", "applied"} =>
          InHands({"applying"})
    /\ worker.pc = "claim" => InHands({"applying", "active"})
    /\ worker.pc \in {"withdraw", "write", "settle"} => InHands({"withdraw_pending"})
    /\ worker.pc \in {"inserted", "sent", "compensate", "undo", "write"}
         => worker.ann \in AnnIds
    /\ worker.pc \in {"evaluate", "candidates", "finish"} => worker.job \in JobIds
    /\ worker.pc = "candidates" => worker.outcome = "completed"
    /\ worker.pc = "finish" => worker.outcome \in {"completed", "failed"}

RetriesInv ==
    \A e \in ExecIds : exec[e].status # "failed"
                         => exec[e].retries <= MaxApplyRetries + MaxWithdrawRetries

TypeInv == TypeOK /\ WorkerInv /\ RetriesInv

(* What has not been written to the pipe: executions not yet handed to the  *)
(* connector, or that it refused and may be asked again.                    *)
OnceInv ==
    /\ AnnouncedOnce
    /\ \A e \in ExecIds : exec[e].status \in {"absent", "queued"} => announces[e] = 0
    /\ \/ worker.pc \in {"announce", "inserted"}
       \/ worker.pc = "applied" /\ worker.outcome = "transient"
       => announces[worker.exec] = 0

(* An execution has no announcement before its apply is recorded, and the   *)
(* one a withdraw works on is the one recorded.                             *)
LinkInv ==
    /\ \A e \in ExecIds : exec[e].status \in {"absent", "queued", "applying"}
                            => exec[e].link = 0
    /\ worker.pc = "write" /\ exec[worker.exec].link # 0
         => worker.ann = exec[worker.exec].link
    /\ worker.pc = "settle" /\ worker.outcome = "success" /\ exec[worker.exec].link # 0
         => Closed(exec[worker.exec].link)
    /\ WithdrawnIsClosed

-----------------------------------------------------------------------------
USE BoundsAssumption, RetriesAssumption, TableAssumption

(* The rows a new id can be taken from are rows.                            *)
LEMMA FreeRows ==
    /\ FreeAnn \subseteq AnnIds /\ FreeExec \subseteq ExecIds /\ FreeJob \subseteq JobIds
    /\ \A r \in FreeAnn : ann[r].status = "absent"
    /\ \A e \in FreeExec : exec[e].status = "absent"
  BY DEF FreeAnn, FreeExec, FreeJob

(* Ids are in the ranges the worker's fields allow, which include zero.     *)
LEMMA IdRanges ==
    /\ \A j \in JobIds : j \in 0 .. MaxJobs
    /\ \A e \in ExecIds : e \in 0 .. MaxExecs
    /\ \A r \in AnnIds : r \in 0 .. MaxAnns
    /\ 0 \in 0 .. MaxJobs /\ 0 \in 0 .. MaxExecs /\ 0 \in 0 .. MaxAnns
  BY DEF JobIds, ExecIds, AnnIds

LEMMA JobOfWorker ==
    ASSUME worker \in Worker, worker.job # 0
    PROVE  worker.job \in JobIds
  <1>1. worker.job \in 0 .. MaxJobs
    BY DEF Worker
  <1> QED BY <1>1 DEF JobIds

(* A change of the table keeps the types of its rows, and leaves closed     *)
(* rows alone: every write to one asks for a status or for an open request  *)
(* that a closed row does not have.                                         *)
Idle == \A r \in AnnIds : Closed(r) => ann[r].request = "none"
StaysClosed == \A r \in AnnIds : Closed(r) => ann'[r] = ann[r]
TableKept == ann' \in [AnnIds -> Ann] /\ (Idle => Idle' /\ StaysClosed)

LEMMA TableMoves ==
    ASSUME ann \in [AnnIds -> Ann], NEW r \in AnnIds, NEW s, Moved(r, s),
           s \in {"queued", "sent", "advertised", "peer_down", "failed",
                  "failed_withdraw", "withdrawn", "expired"},
           ~Closed(r) \/ ann[r].request # "none"
    PROVE  TableKept
  <1>1. ann' \in [AnnIds -> Ann]
    BY DEF Moved, Ann
  <1>2. ann'[r].request = "none" /\ \A q \in AnnIds : q # r => ann'[q] = ann[q]
    BY DEF Moved, Ann
  <1>3. Idle => ~Closed(r)
    BY DEF Idle
  <1> QED BY <1>1, <1>2, <1>3 DEF TableKept, Idle, StaysClosed, Closed

LEMMA TableRequests ==
    ASSUME ann \in [AnnIds -> Ann], NEW r \in AnnIds, NEW owner, Requested(r, owner),
           owner \in {"worker", "others", "stale"},
           ~Closed(r) \/ ann[r].request # "none"
    PROVE  TableKept
  <1>1. ann' \in [AnnIds -> Ann]
    BY DEF Requested, Ann
  <1>2. \A q \in AnnIds : ann'[q].status = ann[q].status /\ (q # r => ann'[q] = ann[q])
    BY DEF Requested, Ann
  <1>3. Idle => ~Closed(r)
    BY DEF Idle
  <1> QED BY <1>1, <1>2, <1>3 DEF TableKept, Idle, StaysClosed, Closed

LEMMA TableInserts ==
    ASSUME ann \in [AnnIds -> Ann], NEW r \in FreeAnn, NEW k \in Keys, NEW auto \in BOOLEAN,
           NEW s \in {"queued", "pending_approval", "failed"}, Inserted(r, s, k, auto)
    PROVE  TableKept
  <1>1. ann' \in [AnnIds -> Ann]
    BY FreeRows DEF Inserted, Ann
  <1>2. /\ ann[r].status = "absent" /\ ann'[r].request = "none"
        /\ \A q \in AnnIds : q # r => ann'[q] = ann[q]
    BY FreeRows DEF Inserted
  <1> QED BY <1>1, <1>2 DEF TableKept, Idle, StaysClosed, Closed

LEMMA TableMarks ==
    ASSUME ann \in [AnnIds -> Ann], OthersMarkDown
    PROVE  TableKept
  <1>1. ASSUME NEW r \in AnnIds
        PROVE  ann'[r] \in Ann /\ (ann'[r] = ann[r] \/ (~Closed(r) /\ ann'[r].status = "peer_down"))
    BY DEF OthersMarkDown, Ann, Closed
  <1>2. ann' \in [AnnIds -> Ann]
    BY <1>1 DEF OthersMarkDown
  <1> QED BY <1>1, <1>2 DEF TableKept, Idle, StaysClosed, Closed

LEMMA WorkerChangeKeeps ==
    ASSUME ann \in [AnnIds -> Ann], WorkerChange
    PROVE  TableKept
  <1> PICK r \in AnnIds :
        \/ \E k \in Keys : WorkerInserts(r, k)
        \/ \E status \in {"sent", "failed"} : WorkerDelivers(r, status)
        \/ WorkerConfirms(r) \/ WorkerRequests(r)
        \/ \E status \in {"expired", "failed_withdraw", "failed"} : WorkerSettles(r, status)
    BY DEF WorkerChange
  <1>1. CASE \E k \in Keys : WorkerInserts(r, k)
    BY <1>1, TableInserts DEF WorkerInserts
  <1>2. CASE \E status \in {"sent", "failed"} : WorkerDelivers(r, status)
    BY <1>2, TableMoves DEF WorkerDelivers, Deliverable, Closed
  <1>3. CASE WorkerConfirms(r)
    BY <1>3, TableMoves DEF WorkerConfirms, Closed
  <1>4. CASE WorkerRequests(r)
    BY <1>4, TableRequests DEF WorkerRequests
  <1>5. CASE \E status \in {"expired", "failed_withdraw", "failed"} : WorkerSettles(r, status)
    BY <1>5, TableMoves DEF WorkerSettles
  <1> QED BY <1>1, <1>2, <1>3, <1>4, <1>5

LEMMA OthersChangeKeeps ==
    ASSUME ann \in [AnnIds -> Ann], OthersChange
    PROVE  TableKept
  <1>1. CASE \E k \in Keys, status \in {"queued", "pending_approval", "failed"} :
               OthersInsert(k, status)
    BY <1>1, TableInserts DEF OthersInsert
  <1>2. ASSUME NEW r \in AnnIds,
               \/ OthersApprove(r) \/ OthersReject(r) \/ OthersDeliver(r)
               \/ OthersConfirm(r) \/ OthersDrop(r)
        PROVE  TableKept
    <2>1. ~Closed(r) /\ \E s \in {"queued", "sent", "advertised", "failed", "withdrawn"} :
            Moved(r, s)
      BY <1>2 DEF OthersApprove, OthersReject, OthersDeliver, Deliverable, OthersConfirm,
                  OthersDrop, Closed
    <2> QED BY <2>1, TableMoves
  <1>3. ASSUME NEW r \in AnnIds, RequestLapses(r) \/ OthersRequest(r)
        PROVE  TableKept
    BY <1>3, TableRequests DEF RequestLapses, OthersRequest
  <1>4. ASSUME NEW r \in AnnIds,
               NEW status \in {"withdrawn", "expired", "failed_withdraw", "failed"},
               OthersWithdraw(r, status)
        PROVE  TableKept
    BY <1>4, TableMoves DEF OthersWithdraw
  <1>5. CASE OthersMarkDown
    BY <1>5, TableMarks
  <1> QED BY <1>1, <1>2, <1>3, <1>4, <1>5 DEF OthersChange

(* The changes of the worker's record that its steps make keep it a record   *)
(* of its type.                                                             *)
LEMMA RecordMoves ==
    ASSUME worker \in Worker
    PROVE  /\ \A r \in 0 .. MaxAnns : \A o \in {"success", "transient", "final"} :
                 Applied(o, r) => /\ worker' \in Worker /\ worker'.exec = worker.exec
                                  /\ worker'.pc = "applied" /\ worker'.outcome = o
           /\ \A o \in {"final", "success", "transient", "in_progress"} :
                 Withdrawn(o) => worker' \in Worker
           /\ \A pc \in CallPcs :
                 GoTo(pc) => /\ worker' \in Worker /\ worker'.exec = worker.exec
                             /\ worker'.pc = pc /\ worker'.ann = worker.ann
           /\ \A r \in 0 .. MaxAnns :
                 worker' = [worker EXCEPT !.pc = "inserted", !.ann = r]
                   => /\ worker' \in Worker /\ worker'.exec = worker.exec
                      /\ worker'.pc = "inserted" /\ worker'.ann = r
  <1>1. ASSUME NEW r \in 0 .. MaxAnns, NEW o \in {"success", "transient", "final"},
               Applied(o, r)
        PROVE  /\ worker' \in Worker /\ worker'.exec = worker.exec
               /\ worker'.pc = "applied" /\ worker'.outcome = o
    BY <1>1 DEF Applied, Worker
  <1>2. ASSUME NEW o \in {"final", "success", "transient", "in_progress"}, Withdrawn(o)
        PROVE  worker' \in Worker
    BY <1>2 DEF Withdrawn, Worker
  <1>3. ASSUME NEW pc \in CallPcs, GoTo(pc)
        PROVE  /\ worker' \in Worker /\ worker'.exec = worker.exec
               /\ worker'.pc = pc /\ worker'.ann = worker.ann
    BY <1>3 DEF GoTo, Worker, CallPcs
  <1>4. ASSUME NEW r \in 0 .. MaxAnns, worker' = [worker EXCEPT !.pc = "inserted", !.ann = r]
        PROVE  /\ worker' \in Worker /\ worker'.exec = worker.exec
               /\ worker'.pc = "inserted" /\ worker'.ann = r
    BY <1>4 DEF Worker
  <1> QED BY <1>1, <1>2, <1>3, <1>4

(* What an execution is linked to is a row.                                 *)
LEMMA LinkedRows ==
    ASSUME TypeOK, NEW e \in ExecIds
    PROVE  /\ Linked(e) \subseteq AnnIds \cup {exec[e].link}
           /\ exec[e].link # 0 => Linked(e) = {exec[e].link} /\ exec[e].link \in AnnIds
           /\ Linked(e) \subseteq AnnIds
  <1>1. exec[e].link \in 0 .. MaxAnns
    BY DEF TypeOK, Exec
  <1>2. CASE exec[e].link = 0
    BY <1>2 DEF Linked
  <1>3. CASE exec[e].link # 0
    BY <1>1, <1>3 DEF Linked, AnnIds
  <1> QED BY <1>2, <1>3

-----------------------------------------------------------------------------
(* Type correctness.                                                        *)

LEMMA TypeInit == Init => TypeInv
  <1> SUFFICES ASSUME Init PROVE TypeInv
    OBVIOUS
  <1>1. TypeOK
    <2>1. (CHOOSE a \in Anomalies : TRUE) \in Anomalies
      BY RowsAssumption
    <2>2. (CHOOSE k \in Keys : TRUE) \in Keys
      OBVIOUS
    <2>3. job \in [JobIds -> Job]
      BY <2>1 DEF Init, Job
    <2>4. exec \in [ExecIds -> Exec]
      <3>1. \A k \in Keys : [status |-> "absent", key |-> k, link |-> 0, ttl |-> "unset",
                             retry |-> "unset", retries |-> 0] \in Exec
        BY DEF Exec
      <3> QED BY <2>2, <3>1, Zenon DEF Init
    <2>5. ann \in [AnnIds -> Ann]
      BY <2>2 DEF Init, NoAnn, Ann
    <2>6. worker \in Worker
      BY DEF Init, Worker, Asleep
    <2>7. /\ event \in [Anomalies -> 0 .. MaxUpdates] /\ chosen \subseteq Anomalies
          /\ dueJobs \subseteq JobIds /\ dueRows \subseteq ExecIds
          /\ announces \in [ExecIds -> Nat] /\ faults \in 0 .. MaxFaults
      BY DEF Init
    <2> QED BY <2>3, <2>4, <2>5, <2>6, <2>7 DEF TypeOK
  <1>2. WorkerInv
    BY DEF Init, WorkerInv, Asleep
  <1>3. RetriesInv
    BY DEF Init, RetriesInv
  <1> QED BY <1>1, <1>2, <1>3 DEF TypeInv

LEMMA TypeDetection ==
    ASSUME TypeInv, Detection
    PROVE  TypeInv'
  <1>0. /\ worker \in Worker /\ WorkerInv /\ RetriesInv
        /\ exec \in [ExecIds -> Exec] /\ ann \in [AnnIds -> Ann] /\ job \in [JobIds -> Job]
        /\ announces \in [ExecIds -> Nat]
    BY DEF TypeInv, TypeOK
  <1>1. CASE \E a \in Anomalies : Detected(a)
    <2> PICK a \in Anomalies : Detected(a)
      BY <1>1
    <2> QED BY <1>0
         DEF TypeInv, TypeOK, Detected, WorkerInv, RetriesInv, InHands, tables, lists
  <1>2. CASE Choose
    <2>1. chosen' \subseteq Anomalies
      BY <1>2 DEF Choose
    <2> QED BY <1>0, <1>2, <2>1
         DEF TypeInv, TypeOK, Choose, WorkerInv, RetriesInv, InHands, tables, lists
  <1>3. CASE \E a \in Anomalies : Enqueue(a)
    <2> PICK a \in Anomalies : Enqueue(a)
      BY <1>3
    <2>1. job' \in [JobIds -> Job]
      BY <1>0, FreeRows DEF Enqueue, Job, WorkerInv, At, Pending, TypeInv, TypeOK
    <2> QED BY <1>0, <2>1
         DEF TypeInv, TypeOK, Enqueue, WorkerInv, RetriesInv, InHands, tables, lists
  <1> QED BY <1>1, <1>2, <1>3 DEF Detection

LEMMA TypeProcessJobs ==
    ASSUME TypeInv, ProcessJobs
    PROVE  TypeInv'
  <1>0. /\ worker \in Worker /\ WorkerInv /\ RetriesInv
        /\ exec \in [ExecIds -> Exec] /\ ann \in [AnnIds -> Ann] /\ job \in [JobIds -> Job]
        /\ announces \in [ExecIds -> Nat]
    BY DEF TypeInv, TypeOK
  <1>1. CASE RecoverJobs
    <2>1. worker' \in Worker
      BY <1>0, <1>1 DEF RecoverJobs, Worker, GoTo, At, Asleep
    <2>2. job' \in [JobIds -> Job]
      BY <1>0, <1>1 DEF RecoverJobs, Job, WorkerInv, At
    <2>3. WorkerInv'
      BY <1>0, <1>1 DEF RecoverJobs, WorkerInv, InHands, Worker, Exec, GoTo, At, Asleep
    <2> QED BY <1>0, <1>1, <2>1, <2>2, <2>3
         DEF TypeInv, TypeOK, RecoverJobs, WorkerInv, RetriesInv, InHands, tables, lists
  <1>2. CASE Wake
    <2>1. worker' \in Worker
      BY <1>0, <1>2 DEF Wake, Worker, GoTo, At
    <2>2. WorkerInv'
      BY <1>0, <1>2 DEF Wake, WorkerInv, InHands, Worker, Exec, GoTo, At
    <2> QED BY <1>0, <1>2, <2>1, <2>2
         DEF TypeInv, TypeOK, Wake, WorkerInv, RetriesInv, InHands, tables, lists
  <1>3. CASE Evaluate
    <2>1. worker' \in Worker
      <3>1. CASE \E keys \in SUBSET Keys :
                   worker' = [worker EXCEPT !.pc = "candidates", !.keys = keys,
                                            !.outcome = "completed"]
        BY <1>0, <3>1 DEF Worker
      <3>2. CASE worker' = [worker EXCEPT !.pc = "finish", !.outcome = "failed"]
        BY <1>0, <3>2 DEF Worker
      <3> QED BY <1>3, <3>1, <3>2 DEF Evaluate
    <2>2. /\ worker'.job = worker.job
          /\ \/ worker'.pc = "candidates" /\ worker'.outcome = "completed"
             \/ worker'.pc = "finish" /\ worker'.outcome = "failed"
      BY <1>0, <1>3 DEF Evaluate, Worker, GoTo, At
    <2>3. WorkerInv'
      BY <1>0, <1>3, <2>2 DEF Evaluate, WorkerInv, InHands, At
    <2> QED BY <1>0, <1>3, <2>1, <2>3
         DEF TypeInv, TypeOK, Evaluate, WorkerInv, RetriesInv, InHands, tables, lists
  <1>4. CASE EvaluationEnds
    <2>1. worker' \in Worker
      BY <1>0, <1>4 DEF EvaluationEnds, Worker, GoTo, At
    <2>2. WorkerInv'
      BY <1>0, <1>4 DEF EvaluationEnds, WorkerInv, InHands, Worker, Exec, GoTo, At
    <2> QED BY <1>0, <1>4, <2>1, <2>2
         DEF TypeInv, TypeOK, EvaluationEnds, WorkerInv, RetriesInv, InHands, tables, lists
  <1>5. CASE FinishJob
    <2>1. worker' \in Worker
      BY <1>0, <1>5 DEF FinishJob, Worker, GoTo, At, Asleep
    <2>2. job' \in [JobIds -> Job]
      BY <1>0, <1>5 DEF FinishJob, Job, WorkerInv, At
    <2>3. WorkerInv'
      BY <1>0, <1>5 DEF FinishJob, WorkerInv, InHands, Worker, Exec, GoTo, At, Asleep
    <2> QED BY <1>0, <1>5, <2>1, <2>2, <2>3
         DEF TypeInv, TypeOK, FinishJob, WorkerInv, RetriesInv, InHands, tables, lists
  <1>6. CASE \E j \in JobIds : ClaimJob(j)
    <2> PICK j \in JobIds : ClaimJob(j)
      BY <1>6
    <2>1. worker' \in Worker
      BY <1>0, IdRanges DEF ClaimJob, Worker, GoTo, At
    <2>2. job' \in [JobIds -> Job]
      BY <1>0 DEF ClaimJob, Job, WorkerInv, At
    <2>3. WorkerInv'
      BY <1>0 DEF ClaimJob, WorkerInv, InHands, Worker, Exec, GoTo, At
    <2> QED BY <1>0, <2>1, <2>2, <2>3
         DEF TypeInv, TypeOK, ClaimJob, WorkerInv, RetriesInv, InHands, tables, lists
  <1>7. CASE \E k \in Keys : DropCandidate(k)
    <2> PICK k \in Keys : DropCandidate(k)
      BY <1>7
    <2>1. worker' \in Worker
      BY <1>0 DEF DropCandidate, Worker, GoTo, At
    <2>2. WorkerInv'
      BY <1>0 DEF DropCandidate, WorkerInv, InHands, Worker, Exec, GoTo, At
    <2> QED BY <1>0, <2>1, <2>2
         DEF TypeInv, TypeOK, DropCandidate, WorkerInv, RetriesInv, InHands, tables, lists
  <1>8. CASE \E k \in Keys : Reserve(k)
    <2> PICK k \in Keys : Reserve(k)
      BY <1>8
    <2>1. PICK e \in ExecIds :
             /\ exec[e].status = "absent"
             /\ exec' = [exec EXCEPT ![e].status = "queued", ![e].key = k]
             /\ worker' = [worker EXCEPT !.pc = "reserved", !.keys = @ \ {k}, !.exec = e]
      BY FreeRows DEF Reserve
    <2>2. worker' \in Worker
      BY <1>0, <2>1, IdRanges DEF Reserve, Worker, GoTo, At
    <2>3. exec' \in [ExecIds -> Exec]
      BY <1>0, <2>1 DEF Reserve, Exec, WorkerInv, InHands, At
    <2>4. RetriesInv'
      BY <1>0, <2>1 DEF Reserve, RetriesInv, Exec, WorkerInv, InHands, At
    <2>5. /\ worker'.pc = "reserved" /\ worker'.exec = e
          /\ exec'[e].status = "queued"
      BY <1>0, <2>1 DEF Reserve, Worker, GoTo, At, Exec
    <2>6. WorkerInv'
      BY <1>0, <2>5 DEF Reserve, WorkerInv, InHands, At
    <2> QED BY <1>0, <2>2, <2>3, <2>4, <2>6
         DEF TypeInv, TypeOK, Reserve, WorkerInv, RetriesInv, InHands, tables, lists
  <1> QED BY <1>1, <1>2, <1>3, <1>4, <1>5, <1>6, <1>7, <1>8 DEF ProcessJobs

(* What a call of the connector's callback that announces does: it works on  *)
(* the table as the worker may, and only its answer ends it.                *)
Calls ==
    \/ ShareAnnouncement \/ InsertAnnouncement \/ DeliverAnnouncement
    \/ ConfirmAnnouncement \/ CompensateAnnouncement \/ UndoAnnouncement

Announced(n) == announces' = [announces EXCEPT ![worker.exec] = n]

\* one step of a call goes on, or ends with an answer
CallGoesOn ==
    /\ worker'.ann \in AnnIds
    /\ \/ /\ worker.pc = "announce" /\ worker'.pc = "inserted" /\ UNCHANGED announces
       \/ /\ worker.pc = "inserted" /\ worker'.pc \in {"sent", "compensate"}
          /\ Announced(announces[worker.exec] + 1)
       \/ /\ worker.pc \in {"sent", "compensate"}
          /\ worker'.pc \in {"compensate", "undo"} /\ UNCHANGED announces

CallEnds ==
    /\ worker'.pc = "applied"
    /\ \/ worker'.outcome \in {"success", "final"} /\ UNCHANGED announces
       \/ /\ worker.pc \in {"announce", "inserted"}
          /\ worker'.outcome = "transient" /\ UNCHANGED announces
       \/ worker.pc = "undo" /\ worker'.outcome = "transient" /\ Announced(0)

CallStep ==
    /\ UNCHANGED <<event, chosen, job, exec, dueJobs, dueRows>>
    /\ UNCHANGED ann \/ WorkerChange
    /\ faults' \in 0 .. MaxFaults
    /\ worker.pc \in CallPcs
    /\ worker' \in Worker /\ worker'.exec = worker.exec
    /\ CallGoesOn \/ CallEnds

LEMMA RefusedEnds ==
    ASSUME worker \in Worker, NEW k, Refused(k), UNCHANGED announces
    PROVE  worker' \in Worker /\ worker'.exec = worker.exec /\ CallEnds
  <1>1. Delivered(k) \subseteq AnnIds
    BY DEF Delivered, Equivalent
  <1>2. \E r \in 0 .. MaxAnns, o \in {"success", "final"} : Applied(o, r)
    BY <1>1, IdRanges DEF Refused
  <1> QED BY <1>2, RecordMoves DEF CallEnds

LEMMA FaultBound == TypeOK /\ (Fault \/ UNCHANGED faults) => faults' \in 0 .. MaxFaults
  BY DEF TypeOK, Fault

LEMMA CallSteps ==
    ASSUME TypeInv, Calls
    PROVE  CallStep
  <1>0. /\ worker \in Worker /\ WorkerInv /\ TypeOK
        /\ exec \in [ExecIds -> Exec] /\ ann \in [AnnIds -> Ann]
    BY DEF TypeInv, TypeOK
  <1>1. CASE ShareAnnouncement
    <2>1. worker' \in Worker /\ worker'.exec = worker.exec /\ CallEnds
      BY <1>0, <1>1, RefusedEnds DEF ShareAnnouncement
    <2> QED BY <1>0, <1>1, <2>1, FaultBound
         DEF ShareAnnouncement, CallStep, At, CallPcs, tables, lists
  <1>2. CASE InsertAnnouncement
    <2>1. exec[worker.exec].key \in Keys
      BY <1>0, <1>2 DEF InsertAnnouncement, WorkerInv, CallPcs, InHands, At, Exec
    <2>2. UNCHANGED ann \/ WorkerChange
      BY <1>2, <2>1, FreeRows DEF InsertAnnouncement, WorkerChange
    <2>3. worker' \in Worker /\ worker'.exec = worker.exec /\ (CallGoesOn \/ CallEnds)
      <3>1. CASE \E r \in FreeAnn : worker' = [worker EXCEPT !.pc = "inserted", !.ann = r]
        BY <1>0, <1>2, <3>1, FreeRows, IdRanges, RecordMoves
           DEF InsertAnnouncement, CallGoesOn, At
      <3>2. CASE \E outcome \in {"transient", "final"} : Applied(outcome, 0)
        BY <1>0, <1>2, <3>2, IdRanges, RecordMoves DEF InsertAnnouncement, CallEnds, At
      <3> QED BY <1>2, <3>1, <3>2 DEF InsertAnnouncement
    <2> QED BY <1>0, <1>2, <2>2, <2>3, FaultBound
         DEF InsertAnnouncement, CallStep, At, CallPcs, lists
  <1>3. CASE DeliverAnnouncement
    <2>1. worker.pc = "inserted" /\ worker.ann \in AnnIds
      BY <1>0, <1>3 DEF DeliverAnnouncement, At, WorkerInv
    <2>2. UNCHANGED ann \/ WorkerChange
      BY <1>3, <2>1 DEF DeliverAnnouncement, WorkerChange
    <2>3. faults' \in 0 .. MaxFaults
      BY <1>0, <1>3, FaultBound DEF DeliverAnnouncement
    <2>4. worker' \in Worker /\ worker'.exec = worker.exec /\ (CallGoesOn \/ CallEnds)
      <3>1. CASE /\ announces' = [announces EXCEPT ![worker.exec] = @ + 1]
                 /\ GoTo("sent") \/ GoTo("compensate")
        BY <1>0, <2>1, <3>1, RecordMoves DEF CallGoesOn, CallPcs, Announced
      <3>2. CASE Applied("transient", 0) /\ UNCHANGED announces
        BY <1>0, <2>1, <3>2, IdRanges, RecordMoves DEF CallEnds
      <3>3. CASE Refused(exec[worker.exec].key) /\ UNCHANGED announces
        BY <1>0, <3>3, RefusedEnds
      <3> QED BY <1>3, <3>1, <3>2, <3>3 DEF DeliverAnnouncement
    <2> QED BY <1>3, <2>1, <2>2, <2>3, <2>4 DEF DeliverAnnouncement, CallStep, CallPcs, lists
  <1>4. CASE ConfirmAnnouncement
    <2>1. worker.pc = "sent" /\ worker.ann \in AnnIds
      BY <1>0, <1>4 DEF ConfirmAnnouncement, At, WorkerInv
    <2>2. UNCHANGED ann \/ WorkerChange
      BY <1>4, <2>1 DEF ConfirmAnnouncement, WorkerChange
    <2>3. faults' \in 0 .. MaxFaults
      BY <1>0, <1>4, FaultBound DEF ConfirmAnnouncement
    <2>4. worker' \in Worker /\ worker'.exec = worker.exec /\ (CallGoesOn \/ CallEnds)
      <3>1. CASE GoTo("compensate") /\ UNCHANGED announces
        BY <1>0, <2>1, <3>1, RecordMoves DEF CallGoesOn, CallPcs
      <3>2. CASE Applied("success", worker.ann) /\ UNCHANGED announces
        BY <1>0, <2>1, <3>2, IdRanges, RecordMoves DEF CallEnds
      <3>3. CASE Refused(exec[worker.exec].key) /\ UNCHANGED announces
        BY <1>0, <3>3, RefusedEnds
      <3> QED BY <1>4, <3>1, <3>2, <3>3 DEF ConfirmAnnouncement
    <2> QED BY <1>4, <2>1, <2>2, <2>3, <2>4 DEF ConfirmAnnouncement, CallStep, CallPcs, lists
  <1>5. CASE CompensateAnnouncement
    <2>1. worker.pc = "compensate" /\ worker.ann \in AnnIds
      BY <1>0, <1>5 DEF CompensateAnnouncement, At, WorkerInv
    <2>2. UNCHANGED ann \/ WorkerChange
      BY <1>5, <2>1 DEF CompensateAnnouncement, WorkerChange
    <2>3. worker' \in Worker /\ worker'.exec = worker.exec /\ CallGoesOn
      BY <1>0, <1>5, <2>1, RecordMoves DEF CompensateAnnouncement, CallGoesOn, CallPcs
    <2> QED BY <1>0, <1>5, <2>1, <2>2, <2>3, FaultBound
         DEF CompensateAnnouncement, CallStep, CallPcs, lists
  <1>6. CASE UndoAnnouncement
    <2>1. worker.pc = "undo" /\ worker.ann \in AnnIds
      BY <1>0, <1>6 DEF UndoAnnouncement, At, WorkerInv
    <2>2. UNCHANGED ann \/ WorkerChange
      BY <1>6, <2>1 DEF UndoAnnouncement, WorkerChange
    <2>3. faults' \in 0 .. MaxFaults
      BY <1>0, <1>6, FaultBound DEF UndoAnnouncement
    <2>4. worker' \in Worker /\ worker'.exec = worker.exec /\ CallEnds
      <3>1. CASE Applied("transient", 0) /\ Announced(0)
        BY <1>0, <2>1, <3>1, IdRanges, RecordMoves DEF CallEnds
      <3>2. CASE Applied("final", 0) /\ UNCHANGED announces
        BY <1>0, <2>1, <3>2, IdRanges, RecordMoves DEF CallEnds
      <3>3. CASE Refused(exec[worker.exec].key) /\ UNCHANGED announces
        BY <1>0, <3>3, RefusedEnds
      <3> QED BY <1>6, <3>1, <3>2, <3>3 DEF UndoAnnouncement, Announced
    <2> QED BY <1>6, <2>1, <2>2, <2>3, <2>4 DEF UndoAnnouncement, CallStep, CallPcs, lists
  <1> QED BY <1>1, <1>2, <1>3, <1>4, <1>5, <1>6 DEF Calls

LEMMA TypeApply ==
    ASSUME TypeInv, Apply
    PROVE  TypeInv'
  <1>0. /\ worker \in Worker /\ WorkerInv /\ RetriesInv
        /\ exec \in [ExecIds -> Exec] /\ ann \in [AnnIds -> Ann] /\ job \in [JobIds -> Job]
        /\ announces \in [ExecIds -> Nat]
    BY DEF TypeInv, TypeOK
  <1>1. CASE StartApply
    <2>1. worker' \in Worker
      BY <1>0, <1>1 DEF StartApply, Worker, GoTo, At
    <2>2. exec' \in [ExecIds -> Exec]
      BY <1>0, <1>1 DEF StartApply, Exec, WorkerInv, InHands, At
    <2>3. RetriesInv'
      BY <1>0, <1>1 DEF StartApply, RetriesInv, Exec, WorkerInv, InHands, At
    <2>4. WorkerInv'
      BY <1>0, <1>1 DEF StartApply, WorkerInv, InHands, Worker, Exec, GoTo, At
    <2> QED BY <1>0, <1>1, <2>1, <2>2, <2>3, <2>4
         DEF TypeInv, TypeOK, StartApply, WorkerInv, RetriesInv, InHands, tables, lists
  <1>2. CASE Calls
    <2>1. CallStep
      BY <1>2, CallSteps
    <2>2. ann' \in [AnnIds -> Ann]
      BY <1>0, <2>1, WorkerChangeKeeps DEF CallStep, TableKept
    <2>3. announces' \in [ExecIds -> Nat]
      <3>1. worker.exec \in ExecIds /\ announces[worker.exec] \in Nat
        BY <1>0, <2>1 DEF CallStep, CallPcs, WorkerInv, InHands
      <3> QED BY <1>0, <2>1, <3>1 DEF CallStep, CallGoesOn, CallEnds, Announced
    <2>4. WorkerInv'
      <3>1. InHands({"applying"})'
        BY <1>0, <2>1 DEF CallStep, CallPcs, WorkerInv, InHands
      <3>2. worker'.pc \in (CallPcs \ {"announce"}) \cup {"applied"}
        BY <2>1 DEF CallStep, CallGoesOn, CallEnds, CallPcs
      <3>3. worker'.pc # "applied" => worker'.ann \in AnnIds
        BY <2>1 DEF CallStep, CallGoesOn, CallEnds
      <3> QED BY <3>1, <3>2, <3>3 DEF WorkerInv, CallPcs
    <2> QED BY <1>0, <2>1, <2>2, <2>3, <2>4 DEF CallStep, TypeInv, TypeOK, RetriesInv
  <1>6. CASE RecordApply
    <2> DEFINE e == worker.exec
    <2>1. e \in ExecIds /\ exec[e] \in Exec /\ exec[e].status = "applying"
      BY <1>0, <1>6 DEF RecordApply, WorkerInv, InHands, At
    <2>2. exec[e].retries \in Nat /\ exec[e].retries <= MaxApplyRetries + MaxWithdrawRetries
      BY <1>0, <2>1 DEF Exec, RetriesInv
    <2>3. exec'[e] \in Exec /\ (exec'[e].status # "failed" =>
              exec'[e].retries <= MaxApplyRetries + MaxWithdrawRetries)
      <3>1. CASE worker.outcome = "success"
        <4>1. exec'[e] = [exec[e] EXCEPT !.status = "active", !.ttl = "running",
                                         !.retry = "unset", !.link = worker.ann]
          BY <1>0, <1>6, <2>1, <3>1 DEF RecordApply
        <4> QED BY <1>0, <2>1, <2>2, <4>1 DEF Exec, Worker
      <3>2. CASE worker.outcome # "success"
        <4>1. \/ /\ exec[e].retries + 1 <= MaxApplyRetries
                 /\ exec'[e] = [exec[e] EXCEPT !.status = "queued", !.retry = "waiting",
                                               !.retries = exec[e].retries + 1]
              \/ exec'[e] = [exec[e] EXCEPT !.status = "failed", !.retry = "unset",
                                            !.retries = exec[e].retries + 1]
          BY <1>0, <1>6, <2>1, <3>2 DEF RecordApply
        <4>2. exec[e].retries + 1 \in 0 .. MaxApplyRetries + MaxWithdrawRetries + 1
          BY <2>2
        <4>3. MaxApplyRetries <= MaxApplyRetries + MaxWithdrawRetries
          OBVIOUS
        <4>4. CASE exec'[e] = [exec[e] EXCEPT !.status = "failed", !.retry = "unset",
                                              !.retries = exec[e].retries + 1]
          BY <2>1, <4>2, <4>4 DEF Exec
        <4>5. CASE exec'[e] = [exec[e] EXCEPT !.status = "queued", !.retry = "waiting",
                                              !.retries = exec[e].retries + 1]
                   /\ exec[e].retries + 1 <= MaxApplyRetries
          <5>1. exec[e].retries + 1 <= MaxApplyRetries + MaxWithdrawRetries
            BY <2>2, <4>3, <4>5
          <5>2. exec'[e] \in Exec
            BY <2>1, <4>2, <4>5 DEF Exec
          <5>3. exec'[e].retries = exec[e].retries + 1
            BY <2>1, <4>5 DEF Exec
          <5> QED BY <5>1, <5>2, <5>3
        <4> QED BY <4>1, <4>4, <4>5
      <3> QED BY <3>1, <3>2
    <2> HIDE DEF e
    <2>4. worker' \in Worker
      BY <1>0, <1>6, IdRanges DEF RecordApply, Worker, GoTo, At, Return
    <2>5. exec' \in [ExecIds -> Exec]
      BY <1>0, <1>6, <2>1, <2>3 DEF RecordApply, Exec, WorkerInv, InHands, At, e
    <2>6. RetriesInv'
      BY <1>0, <1>6, <2>1, <2>3 DEF RecordApply, RetriesInv, Exec, WorkerInv, InHands, At, e
    <2>7. /\ worker'.pc \in {"rows", "candidates"}
          /\ worker'.job = worker.job
          /\ worker'.pc = "candidates" =>
               worker.job # 0 /\ worker'.outcome = "completed"
      BY <1>0, <1>6 DEF RecordApply, Worker, GoTo, At, Return
    <2>8. WorkerInv'
      BY <1>0, <1>6, <2>7, JobOfWorker DEF RecordApply, WorkerInv, InHands, At
    <2> QED BY <1>0, <1>6, <2>4, <2>5, <2>6, <2>8
         DEF TypeInv, TypeOK, RecordApply, WorkerInv, RetriesInv, InHands, tables, lists
  <1> QED BY <1>1, <1>2, <1>6 DEF Apply, Calls

(* The withdraw callback works on the table as the worker may.               *)
LEMMA IntentChanges ==
    ASSUME TypeInv, WithdrawIntent
    PROVE  UNCHANGED ann \/ WorkerChange
  <1>1. worker.exec \in ExecIds
    BY DEF WithdrawIntent, At, TypeInv, WorkerInv, InHands
  <1>2. Linked(worker.exec) \subseteq AnnIds
    BY <1>1, LinkedRows DEF TypeInv
  <1> QED BY <1>2 DEF WithdrawIntent, WorkerChange

LEMMA WriteChanges ==
    ASSUME TypeInv, WithdrawWrite
    PROVE  UNCHANGED ann \/ WorkerChange
  <1>1. worker.ann \in AnnIds
    BY DEF WithdrawWrite, At, TypeInv, WorkerInv
  <1> QED BY <1>1 DEF WithdrawWrite, WorkerChange

LEMMA TypeReconcile ==
    ASSUME TypeInv, Reconcile
    PROVE  TypeInv'
  <1>0. /\ worker \in Worker /\ WorkerInv /\ RetriesInv
        /\ exec \in [ExecIds -> Exec] /\ ann \in [AnnIds -> Ann] /\ job \in [JobIds -> Job]
        /\ announces \in [ExecIds -> Nat]
    BY DEF TypeInv, TypeOK
  <1>1. CASE ReconcileReads
    <2>1. worker' \in Worker
      BY <1>0, <1>1 DEF ReconcileReads, Worker, GoTo, At
    <2>2. WorkerInv'
      BY <1>0, <1>1 DEF ReconcileReads, WorkerInv, InHands, Worker, Exec, GoTo, At
    <2> QED BY <1>0, <1>1, <2>1, <2>2
         DEF TypeInv, TypeOK, ReconcileReads, WorkerInv, RetriesInv, InHands, tables, lists
  <1>2. CASE ClaimWithdraw
    <2>1. worker' \in Worker
      BY <1>0, <1>2 DEF ClaimWithdraw, Worker, GoTo, At
    <2>2. exec' \in [ExecIds -> Exec]
      BY <1>0, <1>2 DEF ClaimWithdraw, Exec, WorkerInv, InHands, At
    <2>3. RetriesInv'
      BY <1>0, <1>2 DEF ClaimWithdraw, RetriesInv, Exec, WorkerInv, InHands, At
    <2>4. WorkerInv'
      BY <1>0, <1>2 DEF ClaimWithdraw, WorkerInv, InHands, Worker, Exec, GoTo, At
    <2> QED BY <1>0, <1>2, <2>1, <2>2, <2>3, <2>4
         DEF TypeInv, TypeOK, ClaimWithdraw, WorkerInv, RetriesInv, InHands, tables, lists
  <1>3. CASE WithdrawIntent
    <2>1. Linked(worker.exec) \subseteq AnnIds
      BY <1>0, <1>3, LinkedRows DEF WithdrawIntent, WorkerInv, InHands, At, TypeInv
    <2>2. \A r \in AnnIds : ~Closed(r) =>
              ann[r].status \in {"absent", "pending_approval", "queued", "sent",
                                "advertised", "peer_down", "failed", "failed_withdraw"}
      BY <1>0 DEF Ann, Closed
    <2>3. \/ \E o \in {"final", "success", "transient", "in_progress"} : Withdrawn(o)
          \/ \E r \in AnnIds :
               /\ ~Closed(r)
               /\ worker' = [worker EXCEPT !.pc = "write", !.ann = r,
                                           !.seen = ann[r].status]
      BY <1>3, <2>1 DEF WithdrawIntent, WorkerRequests
    <2>4. worker' \in Worker
      <3>1. ASSUME NEW r \in AnnIds, ~Closed(r),
                   worker' = [worker EXCEPT !.pc = "write", !.ann = r, !.seen = ann[r].status]
            PROVE  worker' \in Worker
        <4>1. /\ r \in 0 .. MaxAnns
              /\ ann[r].status \in {"absent", "pending_approval", "queued", "sent",
                                    "advertised", "peer_down", "failed", "failed_withdraw"}
          BY <2>2, <3>1, IdRanges
        <4> QED BY <1>0, <3>1, <4>1 DEF Worker
      <3>2. CASE \E o \in {"final", "success", "transient", "in_progress"} : Withdrawn(o)
        BY <1>0, <3>2, RecordMoves
      <3> QED BY <2>3, <3>1, <3>2
    <2>5. ann' \in [AnnIds -> Ann]
      BY <1>0, <1>3, IntentChanges, WorkerChangeKeeps DEF TableKept
    <2>6. /\ worker'.exec = worker.exec
          /\ \/ worker'.pc = "settle"
             \/ worker'.pc = "write" /\ worker'.ann \in AnnIds
      BY <1>0, <2>3 DEF Worker, Withdrawn
    <2>7. WorkerInv'
      BY <1>0, <1>3, <2>6 DEF WithdrawIntent, WorkerInv, InHands, At
    <2> QED BY <1>0, <1>3, <2>4, <2>5, <2>7
         DEF TypeInv, TypeOK, WithdrawIntent, WorkerInv, RetriesInv, InHands, tables, lists
  <1>4. CASE WithdrawWrite
    <2>1. worker' \in Worker
      <3>1. \E o \in {"success", "final", "transient"} : Withdrawn(o)
        BY <1>4 DEF WithdrawWrite
      <3> QED BY <1>0, <3>1, RecordMoves
    <2>2. ann' \in [AnnIds -> Ann]
      BY <1>0, <1>4, WriteChanges, WorkerChangeKeeps DEF TableKept
    <2>3. worker'.exec = worker.exec /\ worker'.pc = "settle"
      BY <1>0, <1>4 DEF WithdrawWrite, Worker, GoTo, At, Withdrawn
    <2>4. WorkerInv'
      BY <1>0, <1>4, <2>3 DEF WithdrawWrite, WorkerInv, InHands, At
    <2> QED BY <1>0, <1>4, <2>1, <2>2, <2>4
         DEF TypeInv, TypeOK, WithdrawWrite, WorkerInv, RetriesInv, InHands, tables, lists
  <1>5. CASE SettleWithdraw
    <2>1. worker' \in Worker
      BY <1>0, <1>5, IdRanges DEF SettleWithdraw, Worker, Return
    <2> DEFINE e == worker.exec
    <2>2. e \in ExecIds /\ exec[e] \in Exec /\ exec[e].status = "withdraw_pending"
      BY <1>0, <1>5 DEF SettleWithdraw, WorkerInv, InHands, At
    <2>3. exec[e].retries \in Nat /\ exec[e].retries <= MaxApplyRetries + MaxWithdrawRetries
      BY <1>0, <2>2 DEF Exec, RetriesInv
    <2>4. \/ exec' = exec
          \/ exec' = [exec EXCEPT ![e].status = "withdrawn"]
          \/ /\ exec[e].retries + 1 <= MaxWithdrawRetries
             /\ exec' = [exec EXCEPT ![e].retries = exec[e].retries + 1,
                                     ![e].status = @]
          \/ exec' = [exec EXCEPT ![e].retries = exec[e].retries + 1,
                                  ![e].status = "failed"]
      BY <1>5 DEF SettleWithdraw
    <2>5. exec[e].retries + 1 \in 0 .. MaxApplyRetries + MaxWithdrawRetries + 1
      BY <2>3
    <2>6. exec' \in [ExecIds -> Exec]
      <3>1. CASE exec' = exec
        BY <1>0, <3>1
      <3>2. CASE exec' = [exec EXCEPT ![e].status = "withdrawn"]
        BY <1>0, <2>2, <3>2 DEF Exec
      <3>3. CASE exec' = [exec EXCEPT ![e].retries = exec[e].retries + 1, ![e].status = @]
        BY <1>0, <2>2, <2>5, <3>3 DEF Exec
      <3>4. CASE exec' = [exec EXCEPT ![e].retries = exec[e].retries + 1,
                                      ![e].status = "failed"]
        BY <1>0, <2>2, <2>5, <3>4 DEF Exec
      <3> QED BY <2>4, <3>1, <3>2, <3>3, <3>4
    <2>7. RetriesInv'
      BY <1>0, <2>2, <2>3, <2>4 DEF RetriesInv, Exec
    <2>8. /\ worker'.pc \in {"rows", "candidates"}
          /\ worker'.job = worker.job
          /\ worker'.pc = "candidates" =>
               worker.job # 0 /\ worker'.outcome = "completed"
      BY <1>0, <1>5 DEF SettleWithdraw, Worker, Return
    <2>9. WorkerInv'
      BY <1>0, <1>5, <2>8, JobOfWorker DEF SettleWithdraw, WorkerInv, InHands, At
    <2> QED BY <1>0, <1>5, <2>1, <2>6, <2>7, <2>9
         DEF TypeInv, TypeOK, SettleWithdraw, tables, lists
  <1>6. CASE ReconcileEnds
    <2>1. worker' \in Worker
      BY <1>0, <1>6 DEF ReconcileEnds, Worker, GoTo, At, Asleep
    <2>2. WorkerInv'
      BY <1>0, <1>6 DEF ReconcileEnds, WorkerInv, InHands, Worker, Exec, GoTo, At, Asleep
    <2> QED BY <1>0, <1>6, <2>1, <2>2
         DEF TypeInv, TypeOK, ReconcileEnds, WorkerInv, RetriesInv, InHands, tables, lists
  <1>7. CASE \E e \in ExecIds : RetryApply(e)
    <2> PICK e \in ExecIds : RetryApply(e)
      BY <1>7
    <2>1. worker' \in Worker
      BY <1>0, IdRanges DEF RetryApply, Worker, GoTo, At
    <2>2. worker'.pc = "reserved" /\ worker'.exec = e
      BY <1>0 DEF RetryApply, Worker, GoTo, At
    <2>3. WorkerInv'
      BY <1>0, <2>2 DEF RetryApply, WorkerInv, InHands, At, Visit, tables
    <2> QED BY <1>0, <2>1, <2>3
         DEF TypeInv, TypeOK, RetryApply, WorkerInv, RetriesInv, InHands, tables, lists, Visited
  <1>8. CASE \E e \in ExecIds : ProbeApplying(e)
    <2> PICK e \in ExecIds : ProbeApplying(e)
      BY <1>8
    <2>1. exec[e].status = "applying" /\ At("rows")
      BY DEF ProbeApplying, Visit
    <2>2. Linked(e) \subseteq AnnIds
      BY LinkedRows DEF TypeInv
    <2>3. \/ /\ UNCHANGED worker
             /\ \E r \in AnnIds :
                  exec' = [exec EXCEPT ![e].status = "active", ![e].link = r]
          \/ UNCHANGED worker /\ exec' = [exec EXCEPT ![e].status = "withdrawn"]
          \/ UNCHANGED <<exec, worker>>
          \/ UNCHANGED exec /\ worker' = [worker EXCEPT !.pc = "claim", !.exec = e]
      BY <2>2 DEF ProbeApplying
    <2>4. worker' \in Worker
      BY <1>0, <2>3, IdRanges DEF Worker
    <2>5. exec' \in [ExecIds -> Exec]
      BY <1>0, <2>3, IdRanges DEF Exec
    <2>6. RetriesInv'
      <3>1. \A x \in ExecIds : /\ exec'[x].retries = exec[x].retries
                               /\ exec'[x].status = exec[x].status
                                  \/ exec[x].status = "applying"
        BY <1>0, <2>1, <2>3 DEF Exec
      <3> QED BY <1>0, <3>1 DEF RetriesInv
    <2>7. \/ UNCHANGED worker
          \/ worker'.pc = "claim" /\ worker'.exec = e /\ UNCHANGED exec
      BY <1>0, <2>3 DEF Worker
    <2>8. WorkerInv'
      BY <1>0, <2>1, <2>7 DEF WorkerInv, InHands, At
    <2> QED BY <1>0, <2>4, <2>5, <2>6, <2>8
         DEF TypeInv, TypeOK, ProbeApplying, Visited, lists
  <1>9. CASE \E e \in ExecIds : VisitActive(e)
    <2> PICK e \in ExecIds : VisitActive(e)
      BY <1>9
    <2>1. worker' \in Worker
      BY <1>0, IdRanges DEF VisitActive, Worker, GoTo, At
    <2>2. worker'.pc = "claim" /\ worker'.exec = e
      BY <1>0 DEF VisitActive, Worker, GoTo, At
    <2>3. WorkerInv'
      BY <1>0, <2>2 DEF VisitActive, WorkerInv, InHands, At, Visit, tables
    <2> QED BY <1>0, <2>1, <2>3
         DEF TypeInv, TypeOK, VisitActive, WorkerInv, RetriesInv, InHands, tables, lists, Visited
  <1>10. CASE \E e \in ExecIds : VisitPending(e)
    <2> PICK e \in ExecIds : VisitPending(e)
      BY <1>10
    <2>1. worker' \in Worker
      BY <1>0, IdRanges DEF VisitPending, Worker, GoTo, At
    <2>2. worker'.pc = "withdraw" /\ worker'.exec = e
      BY <1>0 DEF VisitPending, Worker, GoTo, At
    <2>3. WorkerInv'
      BY <1>0, <2>2 DEF VisitPending, WorkerInv, InHands, At, Visit, tables
    <2> QED BY <1>0, <2>1, <2>3
         DEF TypeInv, TypeOK, VisitPending, WorkerInv, RetriesInv, InHands, tables, lists, Visited
  <1> QED BY <1>1, <1>2, <1>3, <1>4, <1>5, <1>6, <1>7, <1>8, <1>9, <1>10 DEF Reconcile

(* The other threads change announcements only.                             *)
LEMMA TypeOthers ==
    ASSUME TypeInv, OthersStep
    PROVE  TypeInv'
  <1>0. ann \in [AnnIds -> Ann]
    BY DEF TypeInv, TypeOK
  <1>1. UNCHANGED <<event, chosen, job, exec, worker, dueJobs, dueRows, announces, faults>>
    BY DEF OthersStep, OnAnns, lists
  <1>2. ann' \in [AnnIds -> Ann]
    BY <1>0, OthersChangeKeeps DEF OthersStep, OnAnns, TableKept
  <1> QED BY <1>1, <1>2 DEF TypeInv, TypeOK, WorkerInv, RetriesInv, InHands

LEMMA TypeClocks ==
    ASSUME TypeInv, Clocks
    PROVE  TypeInv'
  <1>0. exec \in [ExecIds -> Exec] /\ WorkerInv /\ RetriesInv
    BY DEF TypeInv, TypeOK
  <1> PICK e \in ExecIds : TtlElapses(e) \/ BackoffElapses(e)
    BY DEF Clocks
  <1>1. \/ exec' = [exec EXCEPT ![e].ttl = "elapsed"]
        \/ exec' = [exec EXCEPT ![e].retry = "due"]
    BY DEF TtlElapses, BackoffElapses
  <1>2. UNCHANGED <<event, chosen, job, ann, worker, dueJobs, dueRows, announces, faults>>
    BY DEF TtlElapses, BackoffElapses, lists
  <1>3. exec' \in [ExecIds -> Exec]
    BY <1>0, <1>1 DEF Exec
  <1>4. \A d \in ExecIds : exec'[d].status = exec[d].status
                           /\ exec'[d].retries = exec[d].retries
    BY <1>0, <1>1 DEF Exec
  <1> QED BY <1>0, <1>2, <1>3, <1>4 DEF TypeInv, TypeOK, WorkerInv, RetriesInv, InHands

LEMMA TypeFaults ==
    ASSUME TypeInv, Crash \/ TransactionFails
    PROVE  TypeInv'
  <1>0. worker \in Worker /\ WorkerInv /\ faults' \in 0 .. MaxFaults
    BY DEF TypeInv, TypeOK, Crash, TransactionFails, Fault
  <1>1. CASE Crash
    <2>1. worker' \in Worker /\ worker'.pc = "start"
      BY <1>1, IdRanges DEF Crash, Asleep, Worker
    <2>2. WorkerInv'
      BY <2>1 DEF WorkerInv
    <2> QED BY <1>0, <1>1, <2>1, <2>2 DEF Crash, TypeInv, TypeOK, RetriesInv, tables
  <1>2. CASE TransactionFails
    <2>1. \/ /\ worker.pc \in {"announce", "inserted", "compensate"}
             /\ worker' = [worker EXCEPT !.pc = "applied", !.outcome = "final", !.ann = 0]
          \/ /\ worker.pc \in {"withdraw", "write"}
             /\ worker' = [worker EXCEPT !.pc = "settle", !.outcome = "final"]
          \/ /\ worker.job # 0
             /\ worker' = [Asleep EXCEPT !.pc = "finish", !.job = worker.job,
                                         !.outcome = "failed"]
          \/ worker' = Asleep
      BY <1>2 DEF TransactionFails
    <2>2. /\ worker' \in Worker
          /\ \/ /\ worker.pc \in {"announce", "inserted", "compensate"}
                /\ worker'.pc = "applied" /\ worker'.exec = worker.exec
             \/ /\ worker.pc \in {"withdraw", "write"}
                /\ worker'.pc = "settle" /\ worker'.exec = worker.exec
             \/ /\ worker.job # 0 /\ worker'.pc = "finish"
                /\ worker'.job = worker.job /\ worker'.outcome = "failed"
             \/ worker'.pc = "sleep"
      <3>1. CASE worker.pc \in {"announce", "inserted", "compensate"}
                 /\ worker' = [worker EXCEPT !.pc = "applied", !.outcome = "final", !.ann = 0]
        BY <1>0, <3>1, IdRanges DEF Worker
      <3>2. CASE worker.pc \in {"withdraw", "write"}
                 /\ worker' = [worker EXCEPT !.pc = "settle", !.outcome = "final"]
        BY <1>0, <3>2 DEF Worker
      <3>3. CASE worker.job # 0
                 /\ worker' = [Asleep EXCEPT !.pc = "finish", !.job = worker.job,
                                             !.outcome = "failed"]
        <4>1. worker.job \in 0 .. MaxJobs
          BY <1>0 DEF Worker
        <4>2. worker' = [pc |-> "finish", job |-> worker.job, keys |-> {}, exec |-> 0,
                         ann |-> 0, seen |-> "absent", outcome |-> "failed"]
          BY <3>3 DEF Asleep
        <4>3. worker' \in Worker
          BY <4>1, <4>2, IdRanges DEF Worker
        <4> QED BY <3>3, <4>2, <4>3
      <3>4. CASE worker' = Asleep
        BY <3>4, IdRanges DEF Worker, Asleep
      <3> QED BY <2>1, <3>1, <3>2, <3>3, <3>4
    <2>3. worker' \in Worker
      BY <2>2
    <2>4. UNCHANGED exec
      BY <1>2 DEF TransactionFails, tables
    <2>5. WorkerInv'
      BY <1>0, <2>2, <2>4, JobOfWorker DEF WorkerInv, CallPcs, InHands
    <2> QED BY <1>0, <1>2, <2>3, <2>5
            DEF TransactionFails, TypeInv, TypeOK, RetriesInv, tables, lists
  <1> QED BY <1>1, <1>2

(* Every variable stays in its type and the worker where its code is.  Of   *)
(* the types, the bound of the retries and the statuses the worker finds    *)
(* need the invariant.                                                      *)
LEMMA TypeNext == TypeInv /\ [Next]_vars => TypeInv'
  <1> SUFFICES ASSUME TypeInv, [Next]_vars PROVE TypeInv'
    OBVIOUS
  <1>1. CASE UNCHANGED vars
    BY <1>1 DEF vars, TypeInv, TypeOK, WorkerInv, RetriesInv, InHands
  <1> QED BY <1>1, TypeDetection, TypeProcessJobs, TypeApply, TypeReconcile, TypeClocks,
             TypeOthers, TypeFaults DEF Next, WorkerStep

(* The types of the rows and of the worker, for all bounds.                 *)
THEOREM AutoTypeCorrect == Spec => []TypeOK
  <1>1. TypeInv => TypeOK
    BY DEF TypeInv
  <1> QED BY TypeInit, TypeNext, <1>1, PTL DEF Spec

-----------------------------------------------------------------------------
(* One reservation per key.                                                 *)

(* Where the worker stands makes each of its writes to an execution one     *)
(* that reserves no key anew, but for _reserve.                             *)
KeepsReservations ==
    \A e \in ExecIds : exec'[e].key = exec[e].key /\ (Reserves(e)' => Reserves(e))

LEMMA SameExec == exec' = exec => KeepsReservations
  BY DEF KeepsReservations, Reserves

LEMMA ReservationMoves ==
    ASSUME TypeInv, [Next]_vars
    PROVE  KeepsReservations \/ \E k \in Keys : Reserve(k)
  <1>0. worker \in Worker /\ WorkerInv /\ exec \in [ExecIds -> Exec]
    BY DEF TypeInv, TypeOK
  <1>1. CASE exec' = exec
    BY <1>1, SameExec
  <1>2. CASE StartApply
    BY <1>0, <1>2 DEF StartApply, KeepsReservations, Reserves, WorkerInv, InHands, At, Exec
  <1>3. CASE RecordApply
    BY <1>0, <1>3 DEF RecordApply, KeepsReservations, Reserves, WorkerInv, InHands, At, Exec
  <1>4. CASE \E e \in ExecIds : ProbeApplying(e)
    BY <1>0, <1>4 DEF ProbeApplying, Visit, KeepsReservations, Reserves, Exec
  <1>5. CASE ClaimWithdraw
    BY <1>0, <1>5 DEF ClaimWithdraw, KeepsReservations, Reserves, WorkerInv, InHands, At,
                      Exec
  <1>6. CASE SettleWithdraw
    BY <1>0, <1>6 DEF SettleWithdraw, KeepsReservations, Reserves, WorkerInv, InHands, At,
                      Exec
  <1>7. CASE Clocks
    BY <1>0, <1>7 DEF Clocks, TtlElapses, BackoffElapses, KeepsReservations, Reserves, Exec
  <1>8. CASE OthersStep
    BY <1>8, SameExec DEF OthersStep, OnAnns
  <1>9. CASE Detection \/ Crash \/ TransactionFails \/ UNCHANGED vars
    BY <1>9, SameExec DEF Detection, Detected, Choose, Enqueue, Crash, TransactionFails,
              vars, tables
  <1>10. CASE ProcessJobs
    BY <1>10, SameExec DEF ProcessJobs, RecoverJobs, Wake, Evaluate, EvaluationEnds, FinishJob,
               ClaimJob, DropCandidate, tables
  <1>11. CASE Calls
    BY <1>11, SameExec, CallSteps DEF CallStep
  <1>12. CASE ReconcileReads \/ WithdrawIntent \/ WithdrawWrite \/ ReconcileEnds
              \/ \E e \in ExecIds : RetryApply(e) \/ VisitActive(e) \/ VisitPending(e)
    BY <1>12, SameExec DEF ReconcileReads, WithdrawIntent, WithdrawWrite, ReconcileEnds,
               RetryApply, VisitActive, VisitPending, tables
  <1> QED BY <1>2, <1>3, <1>4, <1>5, <1>6, <1>7, <1>8, <1>9, <1>10, <1>11, <1>12
          DEF Next, WorkerStep, Apply, Calls, Reconcile

LEMMA ReservationNext ==
    ASSUME TypeInv, OneReservationPerKey, [Next]_vars
    PROVE  OneReservationPerKey'
  <1>1. CASE KeepsReservations
    BY <1>1 DEF KeepsReservations, OneReservationPerKey
  <1>2. CASE \E k \in Keys : Reserve(k)
    <2> PICK k \in Keys : Reserve(k)
      BY <1>2
    <2>1. PICK e \in ExecIds :
             exec' = [exec EXCEPT ![e].status = "queued", ![e].key = k]
      BY FreeRows DEF Reserve
    <2>2. exec \in [ExecIds -> Exec]
      BY DEF TypeInv, TypeOK
    <2>3. \A d \in ExecIds : Reserves(d) => exec[d].key # k
      BY DEF Reserve
    <2>4. exec'[e].key = k /\ \A d \in ExecIds \ {e} : exec'[d] = exec[d]
      BY <2>1, <2>2 DEF Exec
    <2>5. \A d \in ExecIds \ {e} : Reserves(d)' => Reserves(d) /\ exec'[d].key # k
                                              /\ exec'[d].key = exec[d].key
      BY <2>3, <2>4 DEF Reserves
    <2> QED BY <2>4, <2>5 DEF OneReservationPerKey
  <1> QED BY <1>1, <1>2, ReservationMoves

(* No two executions hold the same idempotency key, whatever crashes, fails *)
(* and is retried.                                                          *)
THEOREM OneReservation == Spec => []OneReservationPerKey
  <1>1. Init => OneReservationPerKey
    BY DEF Init, OneReservationPerKey, Reserves
  <1>2. TypeInv /\ OneReservationPerKey /\ [Next]_vars => OneReservationPerKey'
    BY ReservationNext
  <1> QED BY <1>1, <1>2, TypeInit, TypeNext, PTL DEF Spec

-----------------------------------------------------------------------------
(* Announced once.                                                          *)

LEMMA OnceNext ==
    ASSUME TypeInv, OnceInv, [Next]_vars
    PROVE  OnceInv'
  <1>0. /\ worker \in Worker /\ WorkerInv /\ exec \in [ExecIds -> Exec]
        /\ announces \in [ExecIds -> Nat]
    BY DEF TypeInv, TypeOK
  <1>1. ASSUME UNCHANGED <<exec, announces>>,
               \/ UNCHANGED worker
               \/ worker'.pc \notin {"announce", "inserted", "applied"}
               \/ worker'.pc = "applied" /\ worker'.outcome # "transient"
        PROVE  OnceInv'
    BY <1>1 DEF OnceInv, AnnouncedOnce
  <1>2. CASE StartApply
    <2>1. /\ worker'.pc = "announce" /\ worker'.exec = worker.exec
          /\ \A e \in ExecIds : exec'[e].status # exec[e].status => exec'[e].status = "applying"
      BY <1>0, <1>2 DEF StartApply, GoTo, Worker, Exec
    <2> QED BY <1>0, <1>2, <2>1 DEF StartApply, OnceInv, AnnouncedOnce, WorkerInv, InHands, At
  <1>3. CASE RecordApply
    <2>1. worker'.pc \in {"rows", "candidates"}
      BY <1>0, <1>3 DEF RecordApply, Return, Worker
    <2>2. \A e \in ExecIds :
             exec'[e].status # exec[e].status =>
                 e = worker.exec /\ (exec'[e].status = "queued" => worker.outcome = "transient")
                 /\ exec'[e].status # "absent"
      BY <1>0, <1>3 DEF RecordApply, Exec
    <2> QED BY <1>0, <1>3, <2>1, <2>2 DEF RecordApply, OnceInv, AnnouncedOnce, WorkerInv,
                                          InHands, At
  <1>4. CASE \E k \in Keys : Reserve(k)
    <2>1. worker'.pc = "reserved"
      BY <1>0, <1>4 DEF Reserve, Worker
    <2>2. \A e \in ExecIds : exec'[e].status # exec[e].status => exec[e].status = "absent"
      BY <1>0, <1>4, FreeRows DEF Reserve, Exec
    <2> QED BY <1>4, <2>1, <2>2 DEF Reserve, OnceInv, AnnouncedOnce
  <1>5. CASE (\E e \in ExecIds : ProbeApplying(e)) \/ ClaimWithdraw \/ SettleWithdraw
    <2>1. worker'.pc \in {"rows", "claim", "withdraw", "candidates"}
      <3>1. CASE \E e \in ExecIds : ProbeApplying(e)
        BY <1>0, <3>1 DEF ProbeApplying, Visit, At, Worker
      <3>2. CASE ClaimWithdraw \/ SettleWithdraw
        BY <1>0, <3>2 DEF ClaimWithdraw, SettleWithdraw, GoTo, Return, Worker
      <3> QED BY <1>5, <3>1, <3>2
    <2>2. \A e \in ExecIds : exec'[e].status # exec[e].status =>
                 exec'[e].status \notin {"absent", "queued"}
      <3>1. CASE \E e \in ExecIds : ProbeApplying(e)
        BY <1>0, <3>1 DEF ProbeApplying, Exec
      <3>2. CASE ClaimWithdraw
        BY <1>0, <3>2 DEF ClaimWithdraw, Exec
      <3>3. CASE SettleWithdraw
        <4>1. exec[worker.exec].status = "withdraw_pending" /\ worker.exec \in ExecIds
          BY <1>0, <3>3 DEF SettleWithdraw, WorkerInv, InHands, At
        <4> QED BY <1>0, <3>3, <4>1 DEF SettleWithdraw, Exec
      <3> QED BY <1>5, <3>1, <3>2, <3>3
    <2>3. announces' = announces
      BY <1>5 DEF ProbeApplying, ClaimWithdraw, SettleWithdraw
    <2> QED BY <2>1, <2>2, <2>3 DEF OnceInv, AnnouncedOnce
  <1>6. CASE Clocks
    <2>1. \A e \in ExecIds : exec'[e].status = exec[e].status
      BY <1>0, <1>6 DEF Clocks, TtlElapses, BackoffElapses, Exec
    <2> QED BY <1>6, <2>1 DEF Clocks, TtlElapses, BackoffElapses, OnceInv, AnnouncedOnce
  <1>7. CASE OthersStep
    BY <1>1, <1>7 DEF OthersStep, OnAnns
  <1>8. CASE Detection \/ UNCHANGED vars
    BY <1>1, <1>8 DEF Detection, Detected, Choose, Enqueue, vars, tables
  <1>9. CASE ProcessJobs /\ UNCHANGED exec
    <2>1. worker'.pc \notin {"announce", "inserted", "applied"}
      <3>1. CASE RecoverJobs \/ FinishJob
        BY <3>1 DEF RecoverJobs, FinishJob, Asleep
      <3>2. CASE Wake \/ EvaluationEnds
        BY <1>0, <3>2 DEF Wake, EvaluationEnds, GoTo, Worker
      <3>3. CASE Evaluate
        BY <1>0, <3>3 DEF Evaluate, Worker
      <3>4. CASE \E j \in JobIds : ClaimJob(j)
        BY <1>0, <3>4 DEF ClaimJob, Worker
      <3>5. CASE \E k \in Keys : DropCandidate(k)
        BY <1>0, <3>5 DEF DropCandidate, At, Worker
      <3>6. CASE \E k \in Keys : Reserve(k)
        BY <1>0, <3>6 DEF Reserve, Worker
      <3> QED BY <1>9, <3>1, <3>2, <3>3, <3>4, <3>5, <3>6 DEF ProcessJobs
    <2>2. announces' = announces
      BY <1>9 DEF ProcessJobs, RecoverJobs, Wake, Evaluate, EvaluationEnds, FinishJob,
                  ClaimJob, DropCandidate, Reserve
    <2> QED BY <1>1, <1>9, <2>1, <2>2
  <1>10. CASE Calls
    <2>1. CallStep
      BY <1>10, CallSteps
    <2>2. /\ worker.exec \in ExecIds /\ exec[worker.exec].status = "applying"
          /\ worker'.exec = worker.exec /\ exec' = exec
      BY <1>0, <2>1 DEF CallStep, CallPcs, WorkerInv, InHands
    <2>3. \/ UNCHANGED announces
          \/ Announced(1) /\ worker'.pc \in {"sent", "compensate"}
          \/ Announced(0)
      BY <2>1 DEF CallStep, CallGoesOn, CallEnds, OnceInv
    <2>4. AnnouncedOnce'
      BY <1>0, <2>2, <2>3 DEF OnceInv, AnnouncedOnce, Announced
    <2>5. \A e \in ExecIds : exec'[e].status \in {"absent", "queued"} => announces'[e] = 0
      BY <1>0, <2>2, <2>3 DEF OnceInv, Announced
    <2>6. \/ worker'.pc = "inserted"
          \/ worker'.pc = "applied" /\ worker'.outcome = "transient"
          => announces'[worker.exec] = 0
      <3>1. CASE CallGoesOn
        BY <3>1 DEF CallGoesOn, OnceInv
      <3>2. CASE CallEnds
        BY <1>0, <2>2, <3>2 DEF CallEnds, OnceInv, Announced
      <3> QED BY <2>1, <3>1, <3>2 DEF CallStep
    <2>7. worker'.pc # "announce"
      BY <2>1 DEF CallStep, CallGoesOn, CallEnds
    <2> QED BY <2>2, <2>4, <2>5, <2>6, <2>7 DEF OnceInv
  <1>14. CASE ReconcileReads \/ WithdrawIntent \/ WithdrawWrite \/ ReconcileEnds
              \/ \E e \in ExecIds : RetryApply(e) \/ VisitActive(e) \/ VisitPending(e)
    <2>1. worker'.pc \notin {"announce", "inserted", "applied"}
      <3>1. CASE ReconcileReads \/ ReconcileEnds
        BY <1>0, <3>1 DEF ReconcileReads, ReconcileEnds, GoTo, Asleep, Worker
      <3>2. CASE WithdrawIntent
        BY <1>0, <3>2 DEF WithdrawIntent, Withdrawn, Worker
      <3>3. CASE WithdrawWrite
        BY <1>0, <3>3 DEF WithdrawWrite, Withdrawn, Worker
      <3>4. CASE \E e \in ExecIds : RetryApply(e) \/ VisitActive(e) \/ VisitPending(e)
        BY <1>0, <3>4 DEF RetryApply, VisitActive, VisitPending, Worker
      <3> QED BY <1>14, <3>1, <3>2, <3>3, <3>4
    <2> QED BY <1>1, <1>14, <2>1 DEF ReconcileReads, WithdrawIntent, WithdrawWrite,
               ReconcileEnds, RetryApply, VisitActive, VisitPending, tables
  <1>15. CASE Crash
    BY <1>1, <1>15 DEF Crash, Asleep, tables
  <1>16. CASE TransactionFails
    <2>1. worker'.outcome # "transient" /\ worker'.pc \notin {"announce", "inserted"}
      BY <1>0, <1>16 DEF TransactionFails, Asleep, Worker
    <2> QED BY <1>1, <1>16, <2>1 DEF TransactionFails, tables
  <1>17. ProcessJobs => UNCHANGED exec \/ \E k \in Keys : Reserve(k)
    BY DEF ProcessJobs, RecoverJobs, Wake, Evaluate, EvaluationEnds, FinishJob, ClaimJob,
           DropCandidate, tables
  <1> QED BY <1>2, <1>3, <1>4, <1>5, <1>6, <1>7, <1>8, <1>9, <1>10, <1>14, <1>15, <1>16,
             <1>17
          DEF Next, WorkerStep, Apply, Calls, Reconcile

(* No execution is announced twice: what a crash leaves without an answer   *)
(* is looked up and never applied again, and a retry follows a refusal.     *)
THEOREM Once == Spec => []AnnouncedOnce
  <1>1. Init => OnceInv
    BY DEF Init, OnceInv, AnnouncedOnce, Asleep
  <1>2. TypeInv /\ OnceInv /\ [Next]_vars => OnceInv'
    BY OnceNext
  <1>3. OnceInv => AnnouncedOnce
    BY DEF OnceInv
  <1> QED BY <1>1, <1>2, <1>3, TypeInit, TypeNext, PTL DEF Spec

-----------------------------------------------------------------------------
(* What is recorded as withdrawn is closed.                                 *)

LEMMA ClosedNext ==
    ASSUME TypeInv, Idle, [Next]_vars
    PROVE  Idle' /\ StaysClosed
  <1>0. ann \in [AnnIds -> Ann] /\ WorkerInv
    BY DEF TypeInv, TypeOK
  <1>1. CASE ann' = ann
    BY <1>1 DEF Idle, StaysClosed, Closed
  <1>2. CASE Calls
    BY <1>0, <1>1, <1>2, CallSteps, WorkerChangeKeeps DEF CallStep, TableKept
  <1>3. CASE WithdrawIntent
    BY <1>0, <1>1, <1>3, IntentChanges, WorkerChangeKeeps DEF TableKept
  <1>4. CASE WithdrawWrite
    BY <1>0, <1>1, <1>4, WriteChanges, WorkerChangeKeeps DEF TableKept
  <1>5. CASE OthersStep
    BY <1>0, <1>5, OthersChangeKeeps DEF OthersStep, OnAnns, TableKept
  <1>8. CASE Detection \/ Clocks \/ Crash \/ TransactionFails \/ UNCHANGED vars
    BY <1>1, <1>8 DEF Detection, Detected, Choose, Enqueue, Crash, TransactionFails, Clocks,
              TtlElapses, BackoffElapses, vars, tables
  <1>9. CASE ProcessJobs
    BY <1>1, <1>9 DEF ProcessJobs, RecoverJobs, Wake, Evaluate, EvaluationEnds, FinishJob,
               ClaimJob, DropCandidate, Reserve, tables
  <1>10. CASE StartApply \/ RecordApply
    BY <1>1, <1>10 DEF StartApply, RecordApply
  <1>11. CASE ReconcileReads \/ ClaimWithdraw \/ SettleWithdraw \/ ReconcileEnds
              \/ \E e \in ExecIds : RetryApply(e) \/ ProbeApplying(e) \/ VisitActive(e)
                                    \/ VisitPending(e)
    BY <1>1, <1>11 DEF ReconcileReads, ClaimWithdraw, SettleWithdraw, ReconcileEnds,
               RetryApply, ProbeApplying, VisitActive, VisitPending, tables
  <1> QED BY <1>2, <1>3, <1>4, <1>5, <1>8, <1>9, <1>10, <1>11
          DEF Next, WorkerStep, Apply, Calls, Reconcile

LinkFacts ==
    /\ \A e \in ExecIds : exec[e].link # 0 => exec[e].link \in AnnIds
    /\ \A r \in AnnIds : ann[r].status \in {"withdrawn", "expired"}
                          => ann'[r].status \in {"withdrawn", "expired"}

(* A step that links nothing and withdraws nothing.                         *)
LEMMA LinkRest ==
    ASSUME LinkInv, LinkFacts,
           \A e \in ExecIds :
             /\ exec'[e].link = exec[e].link
             /\ exec'[e].status \in {"absent", "queued", "applying"} => exec[e].link = 0
             /\ exec'[e].status = "withdrawn" => exec[e].status = "withdrawn",
           worker'.pc \notin {"write", "settle"} \/ worker' = worker,
           worker.pc \in {"write", "settle"} => worker.exec \in ExecIds
    PROVE  LinkInv'
  <1>1. WithdrawnIsClosed'
    BY DEF LinkInv, LinkFacts, WithdrawnIsClosed, Closed
  <1>2. CASE worker'.pc \notin {"write", "settle"}
    BY <1>1, <1>2 DEF LinkInv
  <1>3. CASE worker' = worker
    BY <1>1, <1>3 DEF LinkInv, LinkFacts, Closed
  <1> QED BY <1>2, <1>3

LEMMA LinkNext ==
    ASSUME TypeInv, Idle, LinkInv, [Next]_vars
    PROVE  LinkInv'
  <1>0. /\ worker \in Worker /\ WorkerInv /\ exec \in [ExecIds -> Exec]
        /\ ann \in [AnnIds -> Ann] /\ StaysClosed
    BY ClosedNext DEF TypeInv, TypeOK
  <1>a. LinkFacts
    BY <1>0 DEF LinkFacts, Exec, AnnIds, StaysClosed, Closed
  <1>b. worker.pc \in {"write", "settle"} => worker.exec \in ExecIds
    BY <1>0 DEF WorkerInv, InHands
  <1>1. ASSUME exec' = exec, worker' = worker \/ worker'.pc \notin {"write", "settle"}
        PROVE  LinkInv'
    BY <1>a, <1>b, <1>1, LinkRest DEF LinkInv
  <1>2. CASE StartApply
    <2>1. worker'.pc = "announce"
      BY <1>0, <1>2 DEF StartApply, GoTo, Worker
    <2>2. /\ worker.exec \in ExecIds /\ exec[worker.exec].link = 0
          /\ \A e \in ExecIds : /\ exec'[e].link = exec[e].link
                                /\ e # worker.exec => exec'[e].status = exec[e].status
      BY <1>0, <1>2 DEF StartApply, WorkerInv, InHands, At, LinkInv, Exec
    <2>3. \A e \in ExecIds :
             /\ exec'[e].link = exec[e].link
             /\ exec'[e].status \in {"absent", "queued", "applying"} => exec[e].link = 0
             /\ exec'[e].status = "withdrawn" => exec[e].status = "withdrawn"
      BY <1>0, <1>2, <2>2 DEF StartApply, LinkInv, Exec
    <2> QED BY <1>a, <1>b, <2>1, <2>3, LinkRest
  <1>3. CASE RecordApply
    <2>1. worker'.pc \in {"rows", "candidates"}
      BY <1>0, <1>3 DEF RecordApply, Return, Worker
    <2>2. worker.exec \in ExecIds /\ exec[worker.exec].link = 0
      BY <1>0, <1>3 DEF RecordApply, WorkerInv, InHands, At, LinkInv
    <2>3. \A e \in ExecIds : e # worker.exec => exec'[e] = exec[e]
      BY <1>0, <1>3 DEF RecordApply
    <2>4. \/ exec'[worker.exec].status = "active"
          \/ /\ exec'[worker.exec].status \in {"queued", "failed"}
             /\ exec'[worker.exec].link = 0
      BY <1>0, <1>3, <2>2 DEF RecordApply, Exec
    <2> QED BY <1>a, <2>1, <2>2, <2>3, <2>4 DEF LinkInv, LinkFacts, WithdrawnIsClosed, Closed
  <1>4. CASE \E k \in Keys : Reserve(k)
    <2>1. worker'.pc = "reserved"
      BY <1>0, <1>4 DEF Reserve, Worker
    <2>2. \A e \in ExecIds : /\ exec'[e].link = exec[e].link
                             /\ \/ exec'[e].status = exec[e].status
                                \/ exec'[e].status = "queued" /\ exec[e].link = 0
      BY <1>0, <1>4, FreeRows DEF Reserve, Exec, LinkInv
    <2>3. \A e \in ExecIds :
             /\ exec'[e].link = exec[e].link
             /\ exec'[e].status \in {"absent", "queued", "applying"} => exec[e].link = 0
             /\ exec'[e].status = "withdrawn" => exec[e].status = "withdrawn"
      BY <2>2 DEF LinkInv
    <2> QED BY <1>a, <1>b, <2>1, <2>3, LinkRest
  <1>5. CASE \E e \in ExecIds : ProbeApplying(e)
    <2> PICK e \in ExecIds : ProbeApplying(e)
      BY <1>5
    <2>1. exec[e].status = "applying" /\ exec[e].link = 0 /\ worker.pc = "rows"
      BY DEF ProbeApplying, Visit, At, LinkInv
    <2>2. worker'.pc \in {"rows", "claim"}
      BY <1>0, <2>1 DEF ProbeApplying, Worker
    <2>3. \/ \E r \in Linked(e) : exec' = [exec EXCEPT ![e].status = "active", ![e].link = r]
          \/ exec' = [exec EXCEPT ![e].status = "withdrawn"]
          \/ exec' = exec
      BY DEF ProbeApplying
    <2>4. /\ \A d \in ExecIds \ {e} : exec'[d] = exec[d]
          /\ exec'[e].status = "active" \/ exec'[e].link = 0
      BY <1>0, <2>1, <2>3 DEF Exec
    <2> QED BY <1>a, <2>1, <2>2, <2>4 DEF LinkInv, LinkFacts, WithdrawnIsClosed, Closed
  <1>6. CASE ClaimWithdraw
    <2>1. worker'.pc = "withdraw"
      BY <1>0, <1>6 DEF ClaimWithdraw, GoTo, Worker
    <2>2. \A e \in ExecIds : /\ exec'[e].link = exec[e].link
                             /\ \/ exec'[e].status = exec[e].status
                                \/ exec'[e].status = "withdraw_pending"
      BY <1>0, <1>6 DEF ClaimWithdraw, Exec
    <2>3. \A e \in ExecIds :
             /\ exec'[e].link = exec[e].link
             /\ exec'[e].status \in {"absent", "queued", "applying"} => exec[e].link = 0
             /\ exec'[e].status = "withdrawn" => exec[e].status = "withdrawn"
      BY <2>2 DEF LinkInv
    <2> QED BY <1>a, <1>b, <2>1, <2>3, LinkRest
  <1>7. CASE WithdrawIntent
    <2>1. worker.exec \in ExecIds /\ exec' = exec
      BY <1>7 DEF WithdrawIntent, WorkerInv, InHands, At, TypeInv
    <2>2. exec[worker.exec].link # 0 => Linked(worker.exec) = {exec[worker.exec].link}
      BY <2>1, LinkedRows DEF TypeInv
    <2>3. \/ /\ worker'.pc = "settle" /\ worker'.exec = worker.exec
             /\ \/ worker'.outcome # "success"
                \/ \E r \in Linked(worker.exec) : Closed(r) /\ ann' = ann
          \/ /\ worker'.pc = "write" /\ worker'.exec = worker.exec
             /\ worker'.ann \in Linked(worker.exec)
      <3>1. CASE \E r \in Linked(worker.exec) :
                   worker' = [worker EXCEPT !.pc = "write", !.ann = r,
                                            !.seen = ann[r].status]
        BY <1>0, <3>1 DEF Worker
      <3>2. CASE \E o \in {"final", "transient", "in_progress"} : Withdrawn(o)
        BY <1>0, <3>2 DEF Withdrawn, Worker
      <3>3. CASE /\ \E r \in Linked(worker.exec) : Closed(r)
                 /\ Withdrawn("success") /\ UNCHANGED ann
        BY <1>0, <3>3 DEF Withdrawn, Worker
      <3> QED BY <1>7, <3>1, <3>2, <3>3 DEF WithdrawIntent
    <2> QED BY <1>a, <2>1, <2>2, <2>3 DEF LinkInv, LinkFacts, WithdrawnIsClosed, Closed
  <1>8. CASE WithdrawWrite
    <2>1. /\ worker.exec \in ExecIds /\ exec' = exec /\ worker.pc = "write"
          /\ worker.ann \in AnnIds
      BY <1>8 DEF WithdrawWrite, WorkerInv, InHands, At, TypeInv
    <2>2. worker'.pc = "settle" /\ worker'.exec = worker.exec
      BY <1>0, <1>8 DEF WithdrawWrite, Withdrawn, Worker
    <2>3. worker'.outcome = "success" => ann'[worker.ann].status = "expired"
      <3>1. \/ Moved(worker.ann, "expired")
            \/ \E o \in {"final", "transient"} : Withdrawn(o)
        BY <1>8 DEF WithdrawWrite, WorkerSettles
      <3>2. CASE Moved(worker.ann, "expired")
        BY <1>0, <2>1, <3>2 DEF Moved, Ann
      <3>3. CASE \E o \in {"final", "transient"} : Withdrawn(o)
        BY <1>0, <3>3 DEF Withdrawn, Worker
      <3> QED BY <3>1, <3>2, <3>3
    <2> QED BY <1>a, <2>1, <2>2, <2>3 DEF LinkInv, LinkFacts, WithdrawnIsClosed, Closed
  <1>9. CASE SettleWithdraw
    <2>1. worker.exec \in ExecIds /\ exec[worker.exec].status = "withdraw_pending"
          /\ worker.pc = "settle"
      BY <1>9 DEF SettleWithdraw, WorkerInv, InHands, At, TypeInv
    <2>2. worker'.pc \in {"rows", "candidates"}
      BY <1>0, <1>9 DEF SettleWithdraw, Return, Worker
    <2>3. \A e \in ExecIds : /\ exec'[e].link = exec[e].link
                             /\ e # worker.exec => exec'[e].status = exec[e].status
      BY <1>0, <1>9 DEF SettleWithdraw, Exec
    <2>4. \/ worker.outcome = "success"
          \/ exec'[worker.exec].status \in {"failed", "withdraw_pending"}
      BY <1>0, <1>9, <2>1 DEF SettleWithdraw, Exec
    <2>5. exec[worker.exec].link # 0 /\ worker.outcome = "success"
            => ann[exec[worker.exec].link].status \in {"withdrawn", "expired"}
      BY <2>1 DEF LinkInv, Closed
    <2>6. exec'[worker.exec].status \in {"withdrawn", "failed", "withdraw_pending"}
      BY <1>0, <1>9, <2>1 DEF SettleWithdraw, Exec
    <2>7. WithdrawnIsClosed'
      <3>1. ASSUME NEW e \in ExecIds, exec'[e].status = "withdrawn", exec'[e].link # 0
            PROVE  ann[exec[e].link].status \in {"withdrawn", "expired"}
        <4>1. CASE e = worker.exec
          BY <2>3, <2>4, <2>5, <3>1, <4>1
        <4>2. CASE e # worker.exec
          BY <2>3, <3>1, <4>2 DEF LinkInv, WithdrawnIsClosed, Closed
        <4> QED BY <4>1, <4>2
      <3> QED BY <1>a, <2>3, <3>1 DEF LinkFacts, WithdrawnIsClosed, Closed
    <2>8. \A e \in ExecIds : exec'[e].status \in {"absent", "queued", "applying"}
                             => exec'[e].link = 0
      <3>1. ASSUME NEW e \in ExecIds,
                   exec'[e].status \in {"absent", "queued", "applying"}
            PROVE  exec'[e].link = 0
        <4>1. e # worker.exec
          BY <2>6, <3>1
        <4> QED BY <2>3, <3>1, <4>1 DEF LinkInv
      <3> QED BY <3>1
    <2> QED BY <2>2, <2>7, <2>8 DEF LinkInv
  <1>10. CASE Clocks
    <2>1. \A e \in ExecIds : exec'[e].status = exec[e].status /\ exec'[e].link = exec[e].link
      BY <1>0, <1>10 DEF Clocks, TtlElapses, BackoffElapses, Exec
    <2>2. worker' = worker /\ ann' = ann
      BY <1>10 DEF Clocks, TtlElapses, BackoffElapses
    <2> QED BY <1>a, <1>b, <2>1, <2>2, LinkRest DEF LinkInv
  <1>11. CASE OthersStep \/ Detection \/ UNCHANGED vars
    BY <1>1, <1>11 DEF OthersStep, OnAnns, Detection, Detected, Choose, Enqueue, vars, tables
  <1>12. CASE ProcessJobs /\ UNCHANGED exec
    <2>1. worker'.pc \notin {"write", "settle"}
      <3>1. CASE RecoverJobs \/ FinishJob
        BY <3>1 DEF RecoverJobs, FinishJob, Asleep
      <3>2. CASE Wake \/ EvaluationEnds
        BY <1>0, <3>2 DEF Wake, EvaluationEnds, GoTo, Worker
      <3>3. CASE Evaluate
        BY <1>0, <3>3 DEF Evaluate, Worker
      <3>4. CASE \E j \in JobIds : ClaimJob(j)
        BY <1>0, <3>4 DEF ClaimJob, Worker
      <3>5. CASE \E k \in Keys : DropCandidate(k) \/ Reserve(k)
        BY <1>0, <3>5 DEF DropCandidate, Reserve, At, Worker
      <3> QED BY <1>12, <3>1, <3>2, <3>3, <3>4, <3>5 DEF ProcessJobs
    <2> QED BY <1>1, <1>12, <2>1
  <1>13. CASE Calls
    <2>1. CallStep
      BY <1>13, CallSteps
    <2>2. worker'.pc \notin {"write", "settle"} /\ exec' = exec
      BY <2>1 DEF CallStep, CallGoesOn, CallEnds
    <2> QED BY <1>1, <2>2
  <1>14. CASE ReconcileReads \/ ReconcileEnds
              \/ \E e \in ExecIds : RetryApply(e) \/ VisitActive(e) \/ VisitPending(e)
    <2>1. worker'.pc \notin {"write", "settle"}
      <3>1. CASE ReconcileReads \/ ReconcileEnds
        BY <1>0, <3>1 DEF ReconcileReads, ReconcileEnds, GoTo, Asleep, Worker
      <3>2. CASE \E e \in ExecIds : RetryApply(e) \/ VisitActive(e) \/ VisitPending(e)
        BY <1>0, <3>2 DEF RetryApply, VisitActive, VisitPending, Worker
      <3> QED BY <1>14, <3>1, <3>2
    <2> QED BY <1>1, <1>14, <2>1 DEF ReconcileReads, ReconcileEnds, RetryApply, VisitActive,
               VisitPending, tables
  <1>15. CASE Crash
    BY <1>1, <1>15 DEF Crash, Asleep, tables
  <1>16. CASE TransactionFails
    <2>1. /\ exec' = exec /\ ann' = ann
          /\ worker'.outcome # "success" /\ worker'.pc # "write"
      BY <1>0, <1>16 DEF TransactionFails, Asleep, Worker, tables
    <2> QED BY <1>a, <2>1 DEF LinkInv, LinkFacts, WithdrawnIsClosed, Closed
  <1>17. ProcessJobs => UNCHANGED exec \/ \E k \in Keys : Reserve(k)
    BY DEF ProcessJobs, RecoverJobs, Wake, Evaluate, EvaluationEnds, FinishJob, ClaimJob,
           DropCandidate, tables
  <1> QED BY <1>2, <1>3, <1>4, <1>5, <1>6, <1>7, <1>8, <1>9, <1>10, <1>11, <1>12, <1>13,
             <1>14, <1>15, <1>16, <1>17
          DEF Next, WorkerStep, Apply, Calls, Reconcile

(* An execution ends as withdrawn only when the announcement it recorded is *)
(* closed, whoever closed it, and that announcement stays so.               *)
THEOREM WithdrawnClosed == Spec => []WithdrawnIsClosed
  <1>1. Init => Idle /\ LinkInv
    <2> SUFFICES ASSUME Init PROVE Idle /\ LinkInv
      OBVIOUS
    <2>1. Idle
      <3>1. NoAnn.status = "absent"
        BY Zenon DEF NoAnn
      <3>2. \A r \in AnnIds : ann[r] = NoAnn
        BY Zenon DEF Init
      <3> QED BY <3>1, <3>2 DEF Idle, Closed
    <2>2. \A e \in ExecIds : exec[e].status = "absent" /\ exec[e].link = 0
      BY DEF Init
    <2>3. worker.pc = "sleep"
      BY DEF Init, Asleep
    <2> QED BY <2>1, <2>2, <2>3 DEF LinkInv, WithdrawnIsClosed
  <1>2. TypeInv /\ Idle /\ LinkInv /\ [Next]_vars => Idle' /\ LinkInv'
    BY ClosedNext, LinkNext
  <1>3. LinkInv => WithdrawnIsClosed
    BY DEF LinkInv
  <1> QED BY <1>1, <1>2, <1>3, TypeInit, TypeNext, PTL DEF Spec

===============================================================================
