--------------------------- MODULE AnnouncementTable ---------------------------
(***************************************************************************)
(* The table bgp_announcements as the automatic mitigation worker knows    *)
(* it: what the worker may do to a row, and what every other thread of the *)
(* backend may do to it between two steps of the worker.  The worker is    *)
(* specified over this table (AutomaticMitigation), and the life cycle of  *)
(* the rows is shown to keep to it (BgpTable).                             *)
(*                                                                         *)
(* Of a row it keeps what the worker's queries tell apart.  The status     *)
(* failed stands for every one that neither keeps the key of the rule nor  *)
(* is a withdraw: failed, rejected, rejected_by_policy, dry_run, and a     *)
(* peer_down that was never delivered.                                     *)
(***************************************************************************)
EXTENDS Naturals

CONSTANTS
    Keys,      \* mitigation keys
    MaxAnns    \* bound: rows of bgp_announcements

ASSUME TableAssumption == Keys # {} /\ MaxAnns \in Nat

VARIABLE ann

AnnIds == 1 .. MaxAnns

Ann == [status : {"absent", "pending_approval", "queued", "sent", "advertised",
                  "peer_down", "failed", "failed_withdraw", "withdrawn", "expired"},
        key : Keys,
        auto : BOOLEAN,                            \* source automatic_orchestrator
        request : {"none", "worker", "others", "stale"}]  \* withdraw_requested

NoAnn == [status |-> "absent", auto |-> FALSE, request |-> "none",
          key |-> CHOOSE k \in Keys : TRUE]

Closed(r) == ann[r].status \in {"withdrawn", "expired"}

AnnReserves(r) ==
    \/ ann[r].status \in {"pending_approval", "queued", "sent", "advertised",
                          "peer_down", "failed_withdraw"}
    \/ ann[r].request # "none"

Equivalent(k) == {r \in AnnIds : ann[r].key = k /\ AnnReserves(r)}

\* rows are inserted with ever growing ids
FreeAnn == {r \in AnnIds : /\ ann[r].status = "absent"
                           /\ \A q \in 1 .. r - 1 : ann[q].status # "absent"}

Inserted(r, status, k, auto) ==
    ann' = [ann EXCEPT ![r] = [status |-> status, auto |-> auto, key |-> k,
                               request |-> "none"]]

\* a change of status ends the request that was open
Moved(r, status) == ann' = [ann EXCEPT ![r].status = status, ![r].request = "none"]

Requested(r, owner) == ann' = [ann EXCEPT ![r].request = owner]

IntentAllowed(r) == ann[r].request \in {"none", "stale"}

-----------------------------------------------------------------------------
(* The worker.                                                              *)

WorkerInserts(r, k) ==
    Equivalent(k) = {} /\ r \in FreeAnn /\ Inserted(r, "queued", k, TRUE)

Deliverable(r) == ann[r].status = "queued" /\ ann[r].request = "none"

WorkerDelivers(r, status) ==
    /\ Deliverable(r)
    /\ status \in {"sent", "failed"} /\ Moved(r, status)

WorkerConfirms(r) == ann[r].status = "sent" /\ Moved(r, "advertised")

WorkerRequests(r) == ~Closed(r) /\ IntentAllowed(r) /\ Requested(r, "worker")

\* a withdraw, or the compensation of a delivery that could not be recorded
WorkerSettles(r, status) ==
    /\ ann[r].request # "none"
    /\ \/ status \in {"expired", "failed_withdraw"}
       \/ status = "failed" /\ ann[r].status \in {"queued", "sent"}
    /\ Moved(r, status)

WorkerChange ==
    \E r \in AnnIds :
        \/ \E k \in Keys : WorkerInserts(r, k)
        \/ \E status \in {"sent", "failed"} : WorkerDelivers(r, status)
        \/ WorkerConfirms(r) \/ WorkerRequests(r)
        \/ \E status \in {"expired", "failed_withdraw", "failed"} :
             WorkerSettles(r, status)

-----------------------------------------------------------------------------
(* The other threads: operators, the manual FlowSpec page, the loop that    *)
(* expires announcements and the status checks.                             *)

\* a request not renewed for 30 seconds can be taken over
RequestLapses(r) == ann[r].request \in {"worker", "others"} /\ Requested(r, "stale")

\* what the manual page inserts to withdraw a rule was looked up before
OthersInsert(k, status) ==
    /\ status # "queued" => Equivalent(k) = {}
    /\ \E r \in FreeAnn : Inserted(r, status, k, FALSE)

\* an approved proposal is queued, or is only a simulation
OthersApprove(r) ==
    /\ ann[r].status = "pending_approval"
    /\ \E status \in {"queued", "failed"} : Moved(r, status)

\* a rejection asks for no request
OthersReject(r) ==
    ann[r].status \in {"pending_approval", "queued", "failed"} /\ Moved(r, "failed")

OthersDeliver(r) ==
    /\ Deliverable(r) /\ ~ann[r].auto
    /\ \E status \in {"sent", "failed"} : Moved(r, status)

\* the commit of advertised asks for sent only: a request made meanwhile is
\* overwritten
OthersConfirm(r) == ann[r].status = "sent" /\ ~ann[r].auto /\ Moved(r, "advertised")

OthersDrop(r) ==
    /\ ann[r].status \in {"pending_approval", "queued", "failed"}
    /\ ann[r].request = "none" /\ Moved(r, "withdrawn")

\* every advertised row of the connector at once
OthersMarkDown ==
    ann' = [r \in AnnIds |->
              IF ann[r].status = "advertised" /\ ann[r].request = "none"
              THEN [ann[r] EXCEPT !.status = "peer_down"] ELSE ann[r]]

OthersRequest(r) ==
    /\ ann[r].status # "absent" /\ ~Closed(r)
    /\ IntentAllowed(r) /\ Requested(r, "others")

\* the compensation of a delivery asks for a request, whoever made it
OthersWithdraw(r, status) ==
    /\ ann[r].request # "none"
    /\ status = "failed" => ~ann[r].auto /\ ann[r].status \in {"queued", "sent"}
    /\ ann[r].request = "worker" =>
         /\ ~ann[r].auto /\ ann[r].status \in {"queued", "sent"}
         /\ status \in {"failed", "failed_withdraw"}
    /\ Moved(r, status)

OthersChange ==
    \/ \E k \in Keys, status \in {"queued", "pending_approval", "failed"} :
         OthersInsert(k, status)
    \/ \E r \in AnnIds :
         \/ RequestLapses(r) \/ OthersApprove(r) \/ OthersReject(r)
         \/ OthersDeliver(r) \/ OthersConfirm(r) \/ OthersDrop(r) \/ OthersRequest(r)
         \/ \E status \in {"withdrawn", "expired", "failed_withdraw", "failed"} :
              OthersWithdraw(r, status)
    \/ OthersMarkDown
=============================================================================
