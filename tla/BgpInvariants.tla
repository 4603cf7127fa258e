---------------------------- MODULE BgpInvariants ----------------------------
(***************************************************************************)
(* The inductive invariants behind the safety properties of                *)
(* BgpAnnouncement.  TLC checks them on the small instances;               *)
(* BgpAnnouncement_proofs proves that every step keeps them.               *)
(***************************************************************************)
EXTENDS BgpAnnouncement

(* A thread that is not idle has a row. *)
JobHasRow == \A p \in Withdrawers : job[p].pc # "idle" => job[p].row \in Ids

Typed == TypeOK /\ JobHasRow

-----------------------------------------------------------------------------
(* Closed rows, and the invariant behind ClosedIsFinal: no request is open  *)
(* on a closed row, and no scan returned one as closed.                     *)

Gone == {"absent", "withdrawn", "expired"}

TableInOrder == \A r \in Ids : ann[r].status # "absent" <=> r <= rows

GoneHasNoRequest ==
    \A r \in Ids : ann[r].status \in Gone => ann[r].level # "withdraw_requested"

ScansSawOpenRows == \A p \in Reconcilers : \A x \in due[p] : x[2] \notin Gone

-----------------------------------------------------------------------------
(* The invariant behind OneLiveRowPerKey: every row younger than a live row *)
(* of the same key is an untracked manual withdraw, which is never          *)
(* delivered.                                                               *)

DeliveriesAreTracked ==
    \A r \in Ids : att[r] # "none" => /\ ~ann[r].withdrawOnly
                                      /\ ann[r].status # "absent"

WithdrawOnlyIsNeverSent ==
    \A r \in Ids : ann[r].withdrawOnly =>
        /\ ann[r].status \notin {"pending_approval", "sent", "advertised"}
        /\ ~Delivered(ann[r])

LiveIsYoungest ==
    \A p, q \in Ids :
        /\ Live(ann[p])
        /\ q > p
        /\ ann[q].status # "absent"
        /\ SameKey(q, ann[p].nlri, ann[p].action)
        => ann[q].withdrawOnly

(* Under its key a live row is the youngest but for untracked withdraws, no *)
(* closed row has an open request, and no scan still holds a closed row:    *)
(* what keeps one live row per key and closed rows closed from step to step *)
(* (bgp_reserving_announcement_clause, persist_bgp_withdraw_intent and the  *)
(* query of process_expired_bgp_announcements).                             *)
KeyInv ==
    /\ TableInOrder
    /\ GoneHasNoRequest
    /\ ScansSawOpenRows
    /\ DeliveriesAreTracked
    /\ WithdrawOnlyIsNeverSent
    /\ LiveIsYoungest

-----------------------------------------------------------------------------
(* The invariant behind KeepsTable: a row that waits was never delivered,   *)
(* one shown as delivered was, and the orchestrator makes no proposals.     *)

DeliveryIsRecorded ==
    \A r \in Ids :
        /\ ann[r].status \in {"pending_approval", "queued"} => ~Delivered(ann[r])
        /\ ann[r].status \in {"sent", "advertised"} => ann[r].sent
        /\ ann[r].advertised => ann[r].sent

AutoIsQueued == \A r \in Ids : ann[r].auto => ann[r].status # "pending_approval"

(* The time stamps of a row agree with its status, and no row of the        *)
(* orchestrator waits for an approval (transition_bgp_announcement,         *)
(* automatic_exabgp_apply).                                                 *)
TableInv == DeliveryIsRecorded /\ AutoIsQueued

-----------------------------------------------------------------------------
(* The invariant behind WithdrawsOwnRule, and behind LiveRouteIsTracked     *)
(* when nobody uses the withdraw of the manual FlowSpec page: ExaBGP        *)
(* announces the rule of a row that still answers for it, and that no       *)
(* younger row has superseded.                                              *)

Held(row) ==
    \/ /\ row.status = "queued"
       /\ row.level \in {"delivery_attempted", "withdraw_requested"}
       /\ row.sendToken
       /\ row.expiry # "unset"
    \/ /\ row.status \in {"sent", "advertised", "peer_down"}
       /\ row.sent
       /\ row.expiry # "unset"
    \/ row.status = "failed_withdraw"

(* Closed without a pipe write, on account of a younger row that a withdraw *)
(* of the manual page inserted.                                             *)
Overtaken(r) ==
    /\ ann[r].status \in {"withdrawn", "expired"}
    /\ ann[r].level = "superseded_by_newer_delivery"
    /\ \E q \in Existing : ann[q].withdrawOnly

Answering(r) == Held(ann[r]) \/ Overtaken(r)

RouteIsHeld ==
    \A n \in Nlris : route[n] # 0 => /\ ann[route[n]].nlri = n
                                     /\ ~ann[route[n]].withdrawOnly
                                     /\ Answering(route[n])

RouteIsYoungest ==
    \A n \in Nlris : route[n] # 0 =>
        \A q \in Ids : /\ q > route[n]
                       /\ ann[q].status # "absent"
                       /\ SameKey(q, n, ann[route[n]].action)
                       /\ Held(ann[route[n]])
                       => ann[q].withdrawOnly

NotYetAnnounced ==
    \A r \in Ids : att[r] \in {"ready", "claimed"} => route[ann[r].nlri] # r

AttemptIsArmed ==
    \A r \in Ids : ann[r].level = "delivery_attempted" => ann[r].expiry # "unset"

(* The rule ExaBGP announces is that of a row that still answers for it,    *)
(* from the send intent that precedes the pipe write to the withdraw that   *)
(* is confirmed, and only a withdraw of the manual page is younger under    *)
(* its key (persist_bgp_send_intent, attempt_bgp_announcement,              *)
(* process_expired_bgp_announcements).                                      *)
RouteInv ==
    /\ RouteIsHeld
    /\ RouteIsYoungest
    /\ NotYetAnnounced
    /\ AttemptIsArmed

(* Nobody withdraws by the manual page a rule that no row tracks.           *)
NoWithdrawOnly == \A r \in Ids : ~ann[r].withdrawOnly

=============================================================================
