------------------------------- MODULE BgpTable -------------------------------
(***************************************************************************)
(* The announcement rows change only as the automatic mitigation worker    *)
(* takes them to change: the assumption the module AutomaticMitigation     *)
(* makes about every other thread, and what it says of the worker itself,  *)
(* hold of the life cycle of the rows.                                     *)
(***************************************************************************)
EXTENDS BgpReservation

\* statuses the worker's queries do not tell apart are one
KnownStatus(row) ==
    IF \/ row.status \in {"rejected", "rejected_by_policy", "dry_run"}
       \/ row.status = "peer_down" /\ ~Delivered(row)
    THEN "failed" ELSE row.status

\* the worker's requests: its withdraws, of whichever row, and the compensation
\* of a delivery that it was making
ByWorker(row) ==
    \/ row.claim \in Orchestrators
    \/ row.claim = AttemptClaim /\ row.auto

KnownRequest(row) ==
    IF row.level # "withdraw_requested" THEN "none"
    ELSE IF ~row.recent THEN "stale"
    ELSE IF ByWorker(row) THEN "worker" ELSE "others"

KnownRow(row) ==
    [status |-> KnownStatus(row), key |-> <<row.nlri, row.action>>,
     auto |-> row.auto, request |-> KnownRequest(row)]

KnownRows == [r \in Ids |-> KnownRow(ann[r])]

Table == INSTANCE AnnouncementTable
         WITH Keys <- Nlris \X Actions, MaxAnns <- MaxRows, ann <- KnownRows

\* the worker withdraws a row, or goes on with the delivery of one it inserted
WorkerMoves ==
    \/ \E p \in Orchestrators : job'[p] # job[p]
    \/ \E r \in Ids : ann'[r].auto /\ att'[r] # att[r]

(* What the worker is specified against is what the other threads do: a     *)
(* transaction of an operator, the manual page, the reconciler, a status    *)
(* check or a delivery for one of them changes the table as OthersChange    *)
(* says, and one of the worker as WorkerChange says, requests overwritten   *)
(* by a late advertised, compensations and crashes included.                *)
KeepsTable ==
    [][\/ UNCHANGED KnownRows
       \/ WorkerMoves /\ Table!WorkerChange
       \/ ~WorkerMoves /\ Table!OthersChange]_vars
=============================================================================
