--------------------------- MODULE AnomalyDetection ---------------------------
(***************************************************************************)
(* The life of the anomaly events of one conversation under a detection    *)
(* rule: the detection loop and operators that run the rules at once query *)
(* the flows of the rule's window, open or refresh the event of the        *)
(* conversation, and the loop ends events that are no longer seen and      *)
(* requests their automatic mitigation; a worker judges the evidence.      *)
(*                                                                         *)
(* Time is discrete, and a time stamp is kept as its age.  ClickHouse sums *)
(* the flows by buckets of the clock as long as the window, so a window    *)
(* covers the end of one bucket and the start of the next.  Only events    *)
(* that are active are kept: the code never makes one active again.        *)
(***************************************************************************)
EXTENDS Naturals, Sequences, SequencesExt, Subsequences

CONSTANTS
    Scans,       \* threads that run the rules
    Loop,        \* the one that is the detection loop
    Volumes,     \* traffic of the conversation in a unit of time
    Window,      \* window_seconds of the rule
    Warning,     \* its thresholds, as sums over the window; the automatic
    Critical,    \*   threshold is the critical one
    Required,    \* points of evidence that automatic mitigation needs
    CloseAfter,  \* GMJFLOW_ANOMALY_CLOSE_AFTER_SECONDS
    MaxEvents,   \* bound: rows that are active or that a thread knows
    MaxDelay,    \* bound: how long a scan takes
    MaxUpsets    \* bound: failed queries, rolled back scans, runs and acts of operators

ASSUME ScansAssumption == IsFiniteSet(Scans)
ASSUME DetectionAssumption ==
    /\ Loop \in Scans /\ "unlocked" \notin Scans
    /\ Volumes \subseteq Nat /\ 0 \in Volumes /\ Window \in Nat \ {0}
    /\ Warning \in Nat \ {0} /\ Critical \in Nat /\ Warning <= Critical
    /\ Required \in Nat \ {0, 1} /\ CloseAfter \in Nat \ {0}
    /\ MaxEvents \in Nat /\ MaxDelay \in Nat /\ MaxUpsets \in Nat

VARIABLES
    phase,       \* units of time since the bucket of the clock began
    traffic,     \* the flows of the conversation, by age
    events,      \* the committed active rows of anomaly_events, by id
    jobOf,       \* automatic_mitigation_jobs of an event
    scan,        \* the threads
    draft,       \* what the writer sees of events
    dbWriter,    \* the thread that holds SQLite's writer lock
    backdated,   \* history: since the loop began, an operator's run has written
                 \* flows it saw longer ago than CloseAfter
    upsets

detectionVars == <<phase, traffic, events, jobOf, scan, draft, dbWriter, backdated,
                   upsets>>

Unlocked == "unlocked"

\* ages from which on an event is stale however long the loop takes, and no
\* flow that a thread has seen is as old, are not told apart
MaxAge == MaxDelay + IF CloseAfter < Window THEN Window ELSE CloseAfter + 1

EventIds == 1 .. MaxEvents

Event == [id : EventIds,
          age : 0 .. MaxAge,             \* of last_seen_at, and of updated_at
          critical : BOOLEAN,            \* severity
          points : 1 .. Required]        \* temporal_evidence.points_count

Job == [age : 0 .. MaxAge + 1,           \* of requested_at; MaxAge + 1: no job
        queued : BOOLEAN]

NoJob == [age |-> MaxAge + 1, queued |-> FALSE]

Item == [age : 0 .. MaxAge, critical : BOOLEAN]

Active(id, rows) == \E i \in DOMAIN rows : rows[i].id = id

Resting == [pc |-> "idle", items |-> <<>>, read |-> 0, wrote |-> 0, end |-> 0]

DetectionInit ==
    /\ phase \in 0 .. Window - 1
    /\ traffic = [a \in 0 .. Window - 1 |-> 0]
    /\ events = <<>> /\ draft = <<>>
    /\ jobOf = [id \in EventIds |-> NoJob]
    /\ scan = [t \in Scans |-> Resting]
    /\ dbWriter = Unlocked
    /\ backdated = FALSE /\ upsets = 0

ScanAt(t, pc) == scan[t].pc = pc
Upset == upsets < MaxUpsets /\ upsets' = upsets + 1
Database == <<events, jobOf, draft, dbWriter>>

-----------------------------------------------------------------------------
(* query_detection_rule_candidates. *)

Buckets == {{a \in 0 .. Window - 1 : a <= phase}, {a \in 0 .. Window - 1 : a > phase}}

VolumeOf(bucket) == MapThenSumSet(LAMBDA a : traffic[a], bucket)

\* GROUP BY bucket: without flows, no row; the rate of a bucket is its sum
\* over the whole window
MatchedBuckets ==
    {b \in Buckets : (\E a \in b : traffic[a] > 0) /\ VolumeOf(b) >= Warning}

ItemOf(bucket) ==
    [age |-> CHOOSE a \in bucket : /\ traffic[a] > 0
                                   /\ \A b \in bucket : traffic[b] > 0 => a <= b,
     critical |-> VolumeOf(bucket) >= Critical]

\* ORDER BY metric_value DESC
Observations ==
    {[i \in DOMAIN order |-> ItemOf(order[i])] :
       order \in {s \in SetToSeqs(MatchedBuckets) :
                   \A i, j \in DOMAIN s : i < j => VolumeOf(s[i]) >= VolumeOf(s[j])}}

Starts(t, items) ==
    scan' = [scan EXCEPT ![t] = [Resting EXCEPT !.pc = IF items = <<>> THEN "runtime" ELSE "select",
                                                !.items = items]]

\* a query that fails is caught, and the rule skipped
StartScan(t) ==
    /\ ScanAt(t, "idle")
    /\ \/ /\ \E items \in Observations : Starts(t, items)
          /\ IF t = Loop THEN UNCHANGED upsets ELSE Upset
       \/ Starts(t, <<>>) /\ Upset
    /\ backdated' = (t # Loop /\ backdated)
    /\ UNCHANGED <<phase, traffic, Database>>

-----------------------------------------------------------------------------
(* upsert_detection_template_dns_anomaly_event. *)

Seen(t) == IF dbWriter = t THEN draft ELSE events

\* slip: the row is looked for outside the transaction that writes
SelectCommitted(t) ==
    /\ ScanAt(t, "select")
    /\ scan' = [scan EXCEPT ![t].pc = "write",
                            ![t].read = IF events = <<>> THEN 0 ELSE Last(events).id]
    /\ UNCHANGED <<phase, traffic, Database, upsets, backdated>>

\* the newest active row; before its first write a thread is in no transaction
Select(t) ==
    /\ ScanAt(t, "select")
    /\ scan' = [scan EXCEPT ![t].pc = "write",
                            ![t].read = IF Seen(t) = <<>> THEN 0 ELSE Last(Seen(t)).id]
    /\ UNCHANGED <<phase, traffic, Database, upsets, backdated>>

InUse == {events[i].id : i \in DOMAIN events} \cup {draft[i].id : i \in DOMAIN draft}
           \cup {scan[t].read : t \in Scans} \cup {scan[t].wrote : t \in Scans}

\* slip: the severity is that of the first observation
RefreshedKeepsSeverity(event, item) ==
    [event EXCEPT !.age = item.age,
                  !.points = IF item.age = event.age \/ @ = Required THEN @ ELSE @ + 1]

\* build_detection_threshold_state: a new last_seen is a new point
Refreshed(event, item) ==
    [event EXCEPT !.age = item.age, !.critical = item.critical,
                  !.points = IF item.age = event.age \/ @ = Required THEN @ ELSE @ + 1]

Opened(new, item) ==
    [id |-> new, age |-> item.age, critical |-> item.critical, points |-> 1]

\* slip: every active row of the key is refreshed
UpsertedAll(rows, id, new, item) ==
    IF id = 0 THEN Append(rows, Opened(new, item))
    ELSE [i \in DOMAIN rows |-> Refreshed(rows[i], item)]

Upserted(rows, id, new, item) ==
    IF id = 0 THEN Append(rows, Opened(new, item))
    ELSE [i \in DOMAIN rows |-> IF rows[i].id = id THEN Refreshed(rows[i], item)
                                                   ELSE rows[i]]

\* an UPDATE of a row that is no longer active changes nothing that matters
Write(t) ==
    LET item == Head(scan[t].items)
        rest == Tail(scan[t].items)
        new == CHOOSE id \in EventIds : id \notin InUse
    IN
    /\ ScanAt(t, "write") /\ dbWriter \in {Unlocked, t}
    /\ scan[t].read = 0 => EventIds \ InUse # {}
    /\ dbWriter' = t
    /\ draft' = Upserted(Seen(t), scan[t].read, new, item)
    /\ scan' = [scan EXCEPT ![t].pc = IF rest = <<>> THEN "runtime" ELSE "select",
                            ![t].items = rest, ![t].read = 0,
                            ![t].wrote = IF t # Loop THEN 0
                                         ELSE IF scan[t].read = 0 THEN new ELSE scan[t].read]
    /\ backdated' = (backdated \/ (t # Loop /\ item.age > CloseAfter))
    /\ UNCHANGED <<phase, traffic, events, jobOf, upsets>>

\* record_detection_rule_runtime writes too; then the commit
CommitScan(t) ==
    /\ ScanAt(t, "runtime") /\ dbWriter \in {Unlocked, t}
    /\ events' = Seen(t) /\ draft' = <<>> /\ dbWriter' = Unlocked
    /\ scan' = [scan EXCEPT ![t] = IF t = Loop THEN [@ EXCEPT !.pc = "close"] ELSE Resting]
    /\ UNCHANGED <<phase, traffic, jobOf, upsets, backdated>>

\* the lock is not had in 30 seconds, or something raises: all is rolled
\* back, and the loop goes on with what follows
Rollback(t) ==
    /\ scan[t].pc \in {"select", "write", "runtime"} /\ Upset
    /\ scan' = [scan EXCEPT ![t] = IF t = Loop THEN [@ EXCEPT !.pc = "close", !.items = <<>>,
                                                              !.read = 0, !.wrote = 0]
                                               ELSE Resting]
    /\ IF dbWriter = t THEN draft' = <<>> /\ dbWriter' = Unlocked
                       ELSE UNCHANGED <<draft, dbWriter>>
    /\ UNCHANGED <<phase, traffic, events, jobOf, backdated>>

-----------------------------------------------------------------------------
(* The rest of detect_anomalies_once. *)

\* the jobs of ended events are of no more interest
JobsOf(rows) == [id \in EventIds |-> IF Active(id, rows) THEN jobOf[id] ELSE NoJob]

\* slip: the age of an event is taken when it is closed
StaleNow(event) == event.age > CloseAfter

\* the cut-off counts from the time at which the loop began
Stale(event) == event.age > CloseAfter + scan[Loop].end

\* close_stale_anomaly_events
CloseStale ==
    /\ ScanAt(Loop, "close") /\ dbWriter = Unlocked
    /\ events' = LeftAt(events, {i \in DOMAIN events : ~Stale(events[i])})
    /\ jobOf' = JobsOf(events')
    /\ scan' = [scan EXCEPT ![Loop].pc = "enqueue", ![Loop].wrote = 0]
    /\ UNCHANGED <<phase, traffic, draft, dbWriter, upsets, backdated>>

\* no job was requested since the event was updated
NeedsJob(event) == jobOf[event.id].age > event.age

\* enqueue_active_automatic_mitigations
EnqueueActive ==
    /\ ScanAt(Loop, "enqueue") /\ dbWriter = Unlocked
    /\ jobOf' = [id \in EventIds |->
         IF \E i \in DOMAIN events : events[i].id = id /\ NeedsJob(events[i])
         THEN [jobOf[id] EXCEPT !.age = 0, !.queued = TRUE] ELSE jobOf[id]]
    /\ scan' = [scan EXCEPT ![Loop] = Resting]
    /\ UNCHANGED <<phase, traffic, events, draft, dbWriter, upsets, backdated>>

\* detection_automatic_policy_gate
Allowed(event) == event.critical /\ event.points >= Required

\* process_anomaly of the orchestrator reads what is committed
Judge(i) ==
    /\ dbWriter = Unlocked
    /\ jobOf[events[i].id].queued
    /\ jobOf' = [jobOf EXCEPT ![events[i].id].queued = FALSE]
    /\ UNCHANGED <<phase, traffic, events, scan, draft, dbWriter, upsets, backdated>>

\* acknowledge_anomaly and close_anomaly
OperatorEnds(i) ==
    /\ dbWriter = Unlocked /\ Upset
    /\ events' = RemoveAt(events, i)
    /\ jobOf' = JobsOf(events')
    /\ UNCHANGED <<phase, traffic, scan, draft, dbWriter, backdated>>

-----------------------------------------------------------------------------
Older(age, most) == IF age < most THEN age + 1 ELSE most
OlderRows(rows) == [i \in DOMAIN rows |-> [rows[i] EXCEPT !.age = Older(@, MaxAge)]]

Tock(volume) ==
    /\ \A t \in Scans : ~ScanAt(t, "idle") => scan[t].end < MaxDelay
    /\ phase' = (phase + 1) % Window
    /\ traffic' = [a \in 0 .. Window - 1 |-> IF a = 0 THEN volume ELSE traffic[a - 1]]
    /\ events' = OlderRows(events) /\ draft' = OlderRows(draft)
    /\ jobOf' = [id \in EventIds |-> [jobOf[id] EXCEPT !.age = Older(@, MaxAge + 1)]]
    /\ scan' = [t \in Scans |->
         IF ScanAt(t, "idle") THEN scan[t]
         ELSE [scan[t] EXCEPT !.end = @ + 1, !.items = OlderRows(@)]]
    /\ UNCHANGED <<dbWriter, upsets, backdated>>

ScanStep(t) ==
    \/ Select(t) \/ Write(t) \/ CommitScan(t)
    \/ t = Loop /\ (CloseStale \/ EnqueueActive)

DetectionNext ==
    \/ \E t \in Scans : StartScan(t) \/ ScanStep(t) \/ Rollback(t)
    \/ \E i \in DOMAIN events : Judge(i) \/ OperatorEnds(i)
    \/ \E volume \in Volumes : Tock(volume)

DetectionSpec == DetectionInit /\ [][DetectionNext]_detectionVars

(* The loop runs again and again, time passes, scans end, and the worker    *)
(* takes up what is queued; the writer lock is got in the end.              *)
DetectionFairness ==
    /\ WF_detectionVars(StartScan(Loop))
    /\ WF_detectionVars(\E volume \in Volumes : Tock(volume))
    /\ \A t \in Scans : SF_detectionVars(ScanStep(t))
    /\ SF_detectionVars(\E i \in DOMAIN events : Judge(i))

DetectionFairSpec == DetectionSpec /\ DetectionFairness

-----------------------------------------------------------------------------
(* Properties. *)

DetectionTypeOK ==
    /\ phase \in 0 .. Window - 1
    /\ traffic \in [0 .. Window - 1 -> Volumes]
    /\ events \in Seq(Event) /\ draft \in Seq(Event)
    /\ jobOf \in [EventIds -> Job]
    /\ \A t \in Scans : scan[t].items \in Seq(Item) /\ scan[t].end \in 0 .. MaxDelay
    /\ dbWriter \in Scans \cup {Unlocked}
    /\ upsets \in 0 .. MaxUpsets

(* Scans that overlap may each open an event of one conversation, having    *)
(* seen none; but none opens a second, nor beside one it has seen: there    *)
(* are never more active events than threads that run the rules, whatever   *)
(* is rolled back, closed or ended by hand in between                       *)
(* (upsert_detection_template_dns_anomaly_event).                           *)
EventPerScan == Len(events) <= Cardinality(Scans)

(* The loop never ends an event that it has just refreshed, however long    *)
(* its queries and its wait for the lock take.  An operator's run that      *)
(* takes longer than CloseAfter can make it: it dates the event back to     *)
(* the flows it saw.                                                        *)
MatchedIsKept ==
    [][CloseStale /\ ~backdated /\ Active(scan[Loop].wrote, events)
         => Active(scan[Loop].wrote, events')]_detectionVars

(* Two scans may open two events of one conversation, but not for good: the *)
(* older one is no longer refreshed and ends, although the attack goes on.  *)
DuplicateEnds == Len(events) > 1 ~> Len(events) <= 1

(* A conversation that each run of the loop finds to be critical, in every  *)
(* bucket of the clock it matches, meets the conditions of automatic        *)
(* mitigation again and again, whatever was seen, failed or was closed      *)
(* before: its evidence adds up, a refreshment raises the severity, and     *)
(* each one requests a new judgement.  A critical rate over the window is   *)
(* not enough: split over two buckets it makes warnings, and where one is   *)
(* critical the other, written last, lowers the severity of the event.      *)
SeenCritical(items) == items # <<>> /\ \A i \in DOMAIN items : items[i].critical
Authorises == \E i \in DOMAIN events : Judge(i) /\ Allowed(events[i])
AttackIsAuthorised ==
    <>[][StartScan(Loop) => SeenCritical(scan'[Loop].items)]_detectionVars
        => []<><<Authorises>>_detectionVars

(* One active event per deduplication key: a scan creates or refreshes the  *)
(* active anomaly (docs/anomalies.md).                                      *)
OneActiveEvent == Len(events) <= 1

(* Rates are taken over the window that is evaluated (docs/anomalies.md): a *)
(* window whose flows reach the threshold is matched.                       *)
HotWindowIsMatched ==
    [][\A t \in Scans :
         StartScan(t) /\ upsets' = upsets /\ VolumeOf(0 .. Window - 1) >= Warning
           => scan'[t].items # <<>>]_detectionVars
=============================================================================
