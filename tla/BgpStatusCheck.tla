---------------------------- MODULE BgpStatusCheck ----------------------------
(***************************************************************************)
(* The status checks of BGP connectors: a lease per connector, one bounded *)
(* executor for the probes, a deadline after which the lease counts as     *)
(* timed out although its probe may still be running, and the snapshot a   *)
(* finished check leaves in bgp_connectors.                                *)
(*                                                                         *)
(* A check is known by the token of its lease; tokens grow with the order  *)
(* in which leases are taken.  One action is one section under             *)
(* BGP_STATUS_CHECK_LOCKS_GUARD, one call on the future, or one commit.    *)
(* A lease entry unused for 300 seconds is dropped and made again: it is   *)
(* the same as an idle one (cleanup_bgp_status_check_locks).  What the     *)
(* snapshot does to announcements is MarkPeerDown of BgpAnnouncement.      *)
(***************************************************************************)
EXTENDS Naturals

CONSTANTS
    Connectors,     \* rows of bgp_connectors
    MaxChecks       \* bound: checks made

ASSUME StatusAssumption ==
    Connectors # {} /\ MaxChecks \in Nat

Checks == 1 .. MaxChecks

VARIABLES
    check,      \* the thread that makes the check
    future,     \* its probe
    callback,   \* whether bgp_status_check_future_done has been called for it
    late,       \* checks whose deadline has passed
    inTime,     \* history: probes that ended before the deadline
    lease,      \* BGP_STATUS_CHECK_LOCKS
    snapshot,   \* the last snapshot committed: its check and verdict
    writer,     \* the caller's transaction that holds an uncommitted snapshot
    closing,    \* shutdown_bgp_status_check_executor
    stopped     \* the executions it stops

statusVars == <<check, future, callback, late, inTime, lease, snapshot, writer,
                closing, stopped>>

Check == [connector : Connectors,
          kind : {"own", "callers"},       \* whose transaction persists it
          pc : {"idle", "leased", "submitted", "awaiting", "answered", "expiring",
                "cancelling", "judged", "releasing", "ended"},
          verdict : {"none", "answer", "unknown"}]

Future == {"none", "pending", "running", "done", "raised", "cancelled"}

Lease == [token : 0 .. MaxChecks,          \* 0: the lock is not held
          state : {"idle", "running", "timed_out"},
          completed : {"unset", "in_time", "late"}]

Idle == [token |-> 0, state |-> "idle", completed |-> "unset"]

FutureDone(t) == future[t] \in {"done", "raised", "cancelled"}

Holds(t) == check[t].pc # "idle" /\ lease[check[t].connector].token = t

Goes(t, pc) == check' = [check EXCEPT ![t].pc = pc]
AtPc(t, pc) == check[t].pc = pc

StatusInit ==
    /\ check = [t \in Checks |-> [connector |-> CHOOSE c \in Connectors : TRUE,
                                  kind |-> "own", pc |-> "idle", verdict |-> "none"]]
    /\ future = [t \in Checks |-> "none"]
    /\ callback = [t \in Checks |-> "none"]
    /\ late = {} /\ inTime = {}
    /\ lease = [c \in Connectors |-> Idle]
    /\ snapshot = [c \in Connectors |-> [by |-> 0, verdict |-> "none"]]
    /\ writer = 0
    /\ closing = "no" /\ stopped = {}

-----------------------------------------------------------------------------
(* The lease. *)

\* slip: a lease is released while its probe runs
ReleasedUnfinished(l, t) ==
    [l EXCEPT ![check[t].connector] = IF @.token = t THEN Idle ELSE @]

\* release_bgp_status_check_lock: only its own lease, and not under a probe
Released(l, t) ==
    [l EXCEPT ![check[t].connector] =
        IF @.token = t /\ (future'[t] = "none" \/ FutureDone(t)') THEN Idle ELSE @]

\* acquire_bgp_status_check_lock does not wait for a lease that is held
Begin(t, c, kind) ==
    /\ AtPc(t, "idle") /\ \A s \in 1 .. t - 1 : ~AtPc(s, "idle")
    /\ lease[c].token = 0
    /\ lease' = [lease EXCEPT ![c] = [token |-> t, state |-> "running",
                                      completed |-> "unset"]]
    /\ check' = [check EXCEPT ![t] = [connector |-> c, kind |-> kind, pc |-> "leased",
                                      verdict |-> "none"]]
    /\ UNCHANGED <<future, callback, late, inTime, snapshot, writer, closing, stopped>>

\* an executor that is shutting down refuses the probe
Submit(t) ==
    /\ AtPc(t, "leased")
    /\ \/ Goes(t, "submitted") /\ future' = [future EXCEPT ![t] = "pending"]
       \/ closing # "no" /\ Goes(t, "releasing") /\ UNCHANGED future
    /\ UNCHANGED <<callback, late, inTime, lease, snapshot, writer, closing, stopped>>

\* slip: the end of a probe whose lease timed out does not release it
CallbackForgetsTimeout(l, t) ==
    IF l[check[t].connector].token # t THEN l
    ELSE [l EXCEPT ![check[t].connector].completed =
                       IF t \in late THEN "late" ELSE "in_time"]

\* bgp_status_check_future_done
CalledBack(l, t) ==
    LET entry == l[check[t].connector] IN
    IF entry.token # t THEN l
    ELSE IF entry.state = "timed_out" THEN Released(l, t)
    ELSE [l EXCEPT ![check[t].connector].completed =
                       IF t \in late THEN "late" ELSE "in_time"]

\* add_done_callback calls at once when the probe has ended
AddCallback(t) ==
    /\ AtPc(t, "submitted")
    /\ Goes(t, "awaiting")
    /\ UNCHANGED future
    /\ IF FutureDone(t)
       THEN /\ callback' = [callback EXCEPT ![t] = "called"]
            /\ lease' = CalledBack(lease, t)
       ELSE /\ callback' = [callback EXCEPT ![t] = "added"]
            /\ UNCHANGED lease
    /\ UNCHANGED <<late, inTime, snapshot, writer, closing, stopped>>

-----------------------------------------------------------------------------
(* The executor; how many threads it has decides how long a probe is         *)
(* pending, which may be arbitrarily long here.                              *)

StartProbe(t) ==
    /\ future[t] = "pending"
    /\ future' = [future EXCEPT ![t] = "running"]
    /\ UNCHANGED <<check, callback, late, inTime, lease, snapshot, writer, closing, stopped>>

\* bgp_connector_status returns what it has seen of the peer, or raises
EndProbe(t) ==
    /\ future[t] = "running"
    /\ \E end \in {"done", "raised"} : future' = [future EXCEPT ![t] = end]
    /\ inTime' = IF t \in late THEN inTime ELSE inTime \cup {t}
    /\ UNCHANGED <<check, callback, late, lease, snapshot, writer, closing, stopped>>

\* the thread that ended or cancelled the probe calls what was added
Callback(t) ==
    /\ callback[t] = "added" /\ FutureDone(t)
    /\ callback' = [callback EXCEPT ![t] = "called"]
    /\ UNCHANGED future
    /\ lease' = CalledBack(lease, t)
    /\ UNCHANGED <<check, late, inTime, snapshot, writer, closing, stopped>>

\* matters until the check is judged or the end of its probe recorded
Deadline(t) ==
    /\ check[t].pc \in {"leased", "submitted", "awaiting", "answered"}
    /\ callback[t] # "called" /\ t \notin late
    /\ late' = late \cup {t}
    /\ UNCHANGED <<check, future, callback, inTime, lease, snapshot, writer, closing, stopped>>

-----------------------------------------------------------------------------
(* await_bgp_connector_status_check and expire_bgp_status_check. *)

\* a probe that raised is judged at once: only answers are validated
Await(t) ==
    /\ AtPc(t, "awaiting")
    /\ \/ future[t] = "done" /\ Goes(t, "answered")
       \/ /\ future[t] = "raised"
          /\ check' = [check EXCEPT ![t].pc = "judged", ![t].verdict = "unknown"]
       \/ future[t] = "cancelled" /\ Goes(t, "expiring")
       \/ ~FutureDone(t) /\ t \in late /\ Goes(t, "expiring")
    /\ UNCHANGED <<future, callback, late, inTime, lease, snapshot, writer, closing, stopped>>

\* slip: the time at which the probe ended is not looked at
ValidWhileRunning(t) == Holds(t) /\ lease[check[t].connector].state = "running"

Valid(t) ==
    LET entry == lease[check[t].connector] IN
    /\ Holds(t) /\ entry.state = "running"
    /\ \/ entry.completed = "in_time"
       \/ entry.completed = "unset" /\ t \notin late

\* slip: the lease is given back with the answer, before it is persisted
ValidateReleases(t) ==
    /\ AtPc(t, "answered")
    /\ IF Valid(t)
       THEN /\ check' = [check EXCEPT ![t].pc = "judged", ![t].verdict = "answer"]
            /\ lease' = [lease EXCEPT ![check[t].connector] = Idle]
       ELSE Goes(t, "expiring") /\ UNCHANGED lease
    /\ UNCHANGED <<future, callback, late, inTime, snapshot, writer, closing, stopped>>

Validate(t) ==
    /\ AtPc(t, "answered")
    /\ IF Valid(t)
       THEN check' = [check EXCEPT ![t].pc = "judged", ![t].verdict = "answer"]
       ELSE Goes(t, "expiring")
    /\ UNCHANGED <<future, callback, late, inTime, lease, snapshot, writer, closing, stopped>>

Expire(t) ==
    /\ AtPc(t, "expiring")
    /\ IF Holds(t)
       THEN /\ lease' = [lease EXCEPT ![check[t].connector].state = "timed_out"]
            /\ Goes(t, "cancelling")
       ELSE Goes(t, "releasing") /\ UNCHANGED lease
    /\ UNCHANGED <<future, callback, late, inTime, snapshot, writer, closing, stopped>>

Cancelled(t) == IF future[t] = "pending" THEN "cancelled" ELSE future[t]

\* a probe that runs goes on, and keeps the lease
Cancel(t) ==
    /\ AtPc(t, "cancelling")
    /\ future' = [future EXCEPT ![t] = Cancelled(t)]
    /\ lease' = Released(lease, t)
    /\ Goes(t, "releasing")
    /\ UNCHANGED <<callback, late, inTime, snapshot, writer, closing, stopped>>

-----------------------------------------------------------------------------
(* The snapshot, and the end of the check. *)

\* slip: what the probe ended with is persisted as it is
ResultRaw(t) == [by |-> t, verdict |-> future[t]]

Result(t) == [by |-> t, verdict |-> check[t].verdict]

\* finish_bgp_connector_status_check commits; check_bgp_connector_readiness
\* updates in its caller's transaction; either may find the database locked
Persist(t) ==
    /\ AtPc(t, "judged")
    /\ Goes(t, "releasing")
    /\ \/ /\ writer = 0 /\ check[t].kind = "own"
          /\ snapshot' = [snapshot EXCEPT ![check[t].connector] = Result(t)]
          /\ UNCHANGED writer
       \/ /\ writer = 0 /\ check[t].kind = "callers"
          /\ writer' = t
          /\ UNCHANGED snapshot
       \/ UNCHANGED <<snapshot, writer>>
    /\ UNCHANGED <<future, callback, late, inTime, lease, closing, stopped>>

CallerEnds ==
    /\ writer # 0
    /\ writer' = 0
    /\ \/ snapshot' = [snapshot EXCEPT ![check[writer].connector] = Result(writer)]
       \/ UNCHANGED snapshot
    /\ UNCHANGED <<check, future, callback, late, inTime, lease, closing, stopped>>

Finally(t) ==
    /\ AtPc(t, "releasing")
    /\ Goes(t, "ended")
    /\ UNCHANGED future
    /\ lease' = Released(lease, t)
    /\ UNCHANGED <<callback, late, inTime, snapshot, writer, closing, stopped>>

-----------------------------------------------------------------------------
(* shutdown_bgp_status_check_executor. *)

ShutdownMarks ==
    LET submitted == {t \in Checks : Holds(t) /\ future[t] # "none"} IN
    /\ closing = "no"
    /\ closing' = "marked"
    /\ stopped' = submitted
    /\ lease' = [c \in Connectors |-> IF lease[c].token \in submitted
                                      THEN [lease[c] EXCEPT !.state = "timed_out"]
                                      ELSE lease[c]]
    /\ UNCHANGED <<check, future, callback, late, inTime, snapshot, writer>>

ShutdownCancels ==
    /\ closing = "marked"
    /\ closing' = "waiting"
    /\ future' = [t \in Checks |-> IF t \in stopped THEN Cancelled(t) ELSE future[t]]
    /\ UNCHANGED <<check, callback, late, inTime, lease, snapshot, writer, stopped>>

\* shutdown(wait = TRUE): a check that begins later finds a new executor
ShutdownEnds ==
    /\ closing = "waiting"
    /\ \A t \in stopped : FutureDone(t)
    /\ closing' = "done"
    /\ UNCHANGED future
    /\ lease' = [c \in Connectors |-> IF lease[c].token \in stopped THEN Idle ELSE lease[c]]
    /\ UNCHANGED <<check, callback, late, inTime, snapshot, writer, stopped>>

-----------------------------------------------------------------------------
Owner(t) ==
    \/ Submit(t) \/ AddCallback(t) \/ Await(t) \/ Validate(t) \/ Expire(t)
    \/ Cancel(t) \/ Persist(t) \/ Finally(t)

Probe(t) == StartProbe(t) \/ EndProbe(t) \/ Callback(t)

Shutdown == ShutdownMarks \/ ShutdownCancels \/ ShutdownEnds

StatusNext ==
    \/ \E t \in Checks : \/ Owner(t) \/ Probe(t) \/ Deadline(t)
                         \/ \E c \in Connectors, kind \in {"own", "callers"} :
                              Begin(t, c, kind)
    \/ CallerEnds
    \/ Shutdown

StatusSpec == StatusInit /\ [][StatusNext]_statusVars

(* Threads run, and a probe ends: every read and every command in it has a  *)
(* timeout of its own.  Nothing is assumed of how long it takes.            *)
StatusFairness ==
    \A t \in Checks : /\ WF_statusVars(Owner(t)) /\ WF_statusVars(Deadline(t))
                      /\ WF_statusVars(StartProbe(t)) /\ WF_statusVars(EndProbe(t))
                      /\ WF_statusVars(Callback(t))

StatusFairSpec == StatusSpec /\ StatusFairness

-----------------------------------------------------------------------------
(* Properties. *)

StatusTypeOK ==
    /\ check \in [Checks -> Check]
    /\ future \in [Checks -> Future]
    /\ callback \in [Checks -> {"none", "added", "called"}]
    /\ late \subseteq Checks /\ inTime \subseteq Checks
    /\ lease \in [Connectors -> Lease]
    /\ snapshot \in [Connectors -> [by : 0 .. MaxChecks,
                                    verdict : {"none", "answer", "unknown"}]]
    /\ writer \in 0 .. MaxChecks
    /\ closing \in {"no", "marked", "waiting", "done"} /\ stopped \subseteq Checks

(* A connector is never probed twice at a time: a check that timed out      *)
(* keeps its lease for as long as its probe occupies a worker.              *)
OneProbePerConnector ==
    \A s, t \in Checks :
        /\ s # t
        /\ future[s] \in {"pending", "running"} /\ future[t] \in {"pending", "running"}
        => check[s].connector # check[t].connector

(* The snapshot of a connector is never replaced by that of an older check, *)
(* although callers commit after they have released the lease; a shutdown   *)
(* gives up that order for the executions it stops.                         *)
SnapshotInOrder ==
    [][\A c \in Connectors : snapshot'[c].by >= snapshot[c].by
                             \/ snapshot'[c].by \in stopped]_statusVars

(* A verdict about the peer comes from a probe that ended before its        *)
(* deadline: the answer of a check that timed out is thrown away            *)
(* (test_late_execution_has_no_persistent_or_operational_effect).           *)
VerdictInTime ==
    \A c \in Connectors : snapshot[c].verdict = "answer"
                            => snapshot[c].by \in inTime

(* The same of every snapshot, as the comment of                            *)
(* finish_bgp_connector_status_check has it: coordination timeouts keep the *)
(* last valid snapshot.                                                     *)
LateCheckKeepsSnapshot ==
    \A c \in Connectors : snapshot[c].by # 0 => snapshot[c].by \in inTime

(* Whatever the race of the deadline, the end of the probe and its callback *)
(* is, the lease is released in the end and the connector checked again.    *)
LeaseEnds == \A t \in Checks : Holds(t) ~> ~Holds(t)
=============================================================================
