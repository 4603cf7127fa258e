# GMJ-FLOW: formal models

TLA+ models of GMJ-FLOW, the TLC configurations that check them, and TLAPS
proofs of what matters most. GMJ-FLOW collects flows, detects anomalies and
answers them with BGP FlowSpec rules it delivers to ExaBGP through a named
pipe. The models follow the code at `src/`; `PROJECT.json` names the lines of
code every definition stands for.

    tlc -workers 2 -config BgpFaults.cfg MCBgpAnnouncement.tla
    tlapm BgpAnnouncement_proofs.tla

## 1. The system

| Component | State | Operations | Hard behaviour | What makes it correct |
|---|---|---|---|---|
| BGP announcement life cycle (`main.py`) | SQLite table `bgp_announcements` (status, confirmation level, claim tokens, time stamps); ExaBGP's announced routes | create, approve, reject, deliver, compensate, withdraw, expire, mark peer down | many threads, two transactions per operation, a pipe that SQLite cannot roll back, crashes between the two | no rule announced untracked; one live row per rule; closed rows stay closed; a withdraw removes no younger announcement; every rule is withdrawn in the end |
| Mitigation candidates, playbook and validator (`main.py`) | BGP settings, connectors, zones, whitelists, response and vector profiles; the proposal stored with an anomaly | show candidates, generate the automatic proposal, apply a candidate | three evaluations of the same candidate at three moments, settings edited in between, several connectors in one request | what is sent was defensible when sent; what the page offers the endpoint does; a candidate is applied once |
| Automatic mitigation orchestrator (`services/automatic_mitigation.py`) | tables `mitigation_executions`, `automatic_mitigation_jobs` | enqueue, process jobs, reserve, apply, reconcile, withdraw, recover | crash between reserve and apply, jobs merged while processing, retries | one reservation per key; an unknown delivery is never announced again; executions end |
| BGP connector status checks (`main.py`) | per-connector lease with token and owner; bounded executor | begin, probe, time out, complete, persist, shut down | a late check against a younger one; deadline, probe and callback race | one probe per connector; verdicts in order and in time; leases end |
| Dashboard cache (`services/dashboard_cache.py`) | entries, byte count, flights | get, set, single flight, publish, fail, shrink | waiters that time out, an owner replaced by another, a budget that shrinks | bytes within budget; one computation per key; every request is answered |
| Peak Hunter runs (`services/peak_hunter_runner.py`) | jobs, runs, cases | run due jobs, run now, save | a manual run beside the scheduler, one transaction over many jobs | one saved case per peak; runs are counted; due jobs run |
| Anomaly detection (`main.py`) | `anomaly_events`, evidence, jobs requested | detect, open, refresh, close, judge | slow queries, windows across buckets, two scans at once | what is seen is kept; duplicates end; what the runs find critical is authorised |
| pmacct spool parser (`collector/pmacct/parse_pmacct.py`) | file offset, inode, batch | read, insert, rotate, restart | truncation behind the reader, crash between insert and offset | no line lost, none inserted twice |
| CGNAT mapping (`services/cgnat_mapping.py`) | import batches, raw, preview and published mappings | upload, parse, approve, activate, deactivate, reject, resolve | checks before the first write, replacement of active imports, a refused parse that marks an import failed | a lookup has one answer; the mappings in service are those of the active imports |
| Grafana API limiter, ASN resolver, AI integration, host agent | see section 7 | | | |
| Dashboards, ClickHouse access, frontend, scripts | - | queries and presentation | - | - |

How they interact: detection opens an event; the detection loop enqueues a job
for it; the orchestrator's worker evaluates the event, generates the automatic
proposal, reserves an execution and, through the callbacks of `main.py`,
applies the proposal: connectors are resolved, policy and validation run again
under SQLite's writer lock, and an announcement is created and delivered.
Operators apply candidates from the anomaly's page by the same function; the
manual FlowSpec page and the AI integration create announcements too. The
expiration loop, every 30 seconds, withdraws what has outlived its TTL; the
orchestrator withdraws what it announced. Status checks of the connectors, made
by threads of their own, mark advertised rows as down. All of them meet in one
SQLite database, whose single writer lock is the only lock they share, and in
one pipe per connector.

## 2. Modules

| Module | Holds |
|---|---|
| `BgpAnnouncement` | the life cycle of an announcement: state, actions, fairness and properties |
| `BgpInvariants` | the inductive invariants behind its safety properties |
| `RuleReservation` | the abstract specification: rules that are reserved and announced |
| `BgpReservation` | the refinement mapping from rows to reserved rules |
| `AnnouncementTable` | the announcement rows as the orchestrator's worker knows them: what it may do to one, and what every other thread may |
| `BgpTable` | the rows of `BgpAnnouncement` seen as that table, and the property that they keep to it |
| `MCBgpAnnouncement` | the module the Bgp configurations check |
| `BgpAnnouncement_proofs`, `BgpRoute_proofs` | type correctness, one live row per key, closed rows, the table the orchestrator assumes; what ExaBGP announces and what the table says of it, and the refinement |
| `MitigationApply`, `MitigationApply_proofs` | the way of a candidate from the page, or from the worker, to its rows; its theorems |
| `AutomaticMitigation`, `AutomaticMitigation_proofs` | jobs and executions of the orchestrator; its theorems |
| `BgpStatusCheck`, `BgpStatusCheck_proofs` | leases, probes and snapshots of connectors; its theorems |
| `DashboardCache` | entries, budget and shared computations |
| `PeakHunterRunner` | scheduled and manual runs |
| `CgnatMapping`, `CgnatMapping_proofs` | imports of CGNAT mappings, from upload to lookup; its theorems |
| `AnomalyDetection` | the events of one conversation under a rule |
| `Subsequences` | what is left of a sequence when elements are removed, in its order |
| `Services_proofs` | the theorems of `DashboardCache`, `PeakHunterRunner` and `AnomalyDetection` |
| `MCServices` | `BgpStatusCheck`, `DashboardCache`, `PeakHunterRunner`, `MitigationApply` and `CgnatMapping` for one run of TLC |
| `PmacctParser`, `PmacctParser_proofs` | the spool file of one sensor and the parser that tails it; its theorems |

What links them: `AutomaticMitigation` is specified over `AnnouncementTable`,
which says how other threads change announcements, and `BgpTable` states of
`BgpAnnouncement` that they do; a candidate is a key there; `MitigationApply` says how a candidate becomes rows and
treats a delivery as one step; `BgpStatusCheck` ends where `MarkPeerDown` of
`BgpAnnouncement` begins; `AnomalyDetection` ends at the judgement with which
`Detected` and `Enqueue` of `AutomaticMitigation` begin. `MCServices` puts five
services that share no state in one state space: a behaviour chooses which of
them moves, and the others rest in an initial state in which no fair action of
theirs is enabled, so that the result is that of five separate runs.

### BgpAnnouncement

| Variable | Code |
|---|---|
| `ann` | the rows of `bgp_announcements`; `level` is `confirmation_level`; `sendToken` and `claim` are `send_claim_token` and `withdraw_claim_token` of `status_details_json`; `sent`, `advertised` and `expiry` are the time stamps `sent_at`, `advertised_at`, `expires_at`; `recent` says whether the last update is less than 30 seconds old |
| `rows` | the autoincrement id |
| `att` | where the thread inside `attempt_bgp_announcement` stands, for each row |
| `job` | where a thread that withdraws stands (an operator's request, the reconciler, the manual page, the orchestrator), its row, and the status it saw there |
| `due` | what the reconciler's query returned and it has not visited |
| `asked` | what the manual page found untracked before it inserts |
| `route` | ExaBGP: the row whose rule is announced for an NLRI |
| `faults` | crashes and failed commits so far |

Each action is one transaction. Every write of the code is between BEGIN
IMMEDIATE and COMMIT, and the pipe is written with that lock held, so a
transaction is atomic for every other thread; two transactions of one thread
are two actions. The actions are `InsertQueued` and `InsertUndelivered`
(creation), `SendIntent`, `NotReady`, `Deliver`, `Advertise`, `Compensate`,
`Undo` (`attempt_bgp_announcement`), `Scan`, `ReconcilerClaim`,
`ReconcilerFinish` (`process_expired_bgp_announcements`), `Approve`, `Reject`,
`DropUndelivered`, `OperatorClaim`, `OperatorFinish`
(`update_bgp_announcement_status`), `TesterCheck` to `TesterFinish`
(`test_bgp_connector_flowspec`), `OrchestratorClaim` and `OrchestratorFinish`
(`automatic_exabgp_withdraw`), `MarkPeerDown`, the two clocks, and `Crash`.

A crash stops every thread and keeps the table and ExaBGP's routes. A failed
commit after a pipe write is the other fault. The two are counted together by
`faults`, bounded by `MaxFaults`.

What is abstracted: one connector of the ExaBGP backend; a rule is an NLRI and
an action; clocks are qualitative; policy, validation and limits are the choice
between the creation actions; the states `active`, `announced` and `prepared`,
which no code path writes, are left out; ExaBGP does not restart. The bounds are
`MaxRows` and `MaxFaults`, and the sets of threads.

### RuleReservation and BgpReservation

`RuleReservation` is what the application promises of a rule, which matches
traffic and treats it: it is announced only while it is reserved, by one
announcement at a time; announcing it takes the place of any other treatment of
the same traffic; its reservation ends when nothing announces it. The mapping
(`BgpReservation`): a rule is reserved when `bgp_reserving_announcement_clause`
finds a row of its key (`Reserved`), and announced by the row in `route` with
its action. Every transaction of `BgpAnnouncement` is one abstract step or a
stutter (`KeepsReservations`); a superseding insertion, which closes a row and
reserves its key at once, keeps the rule reserved.

### AnnouncementTable and BgpTable

The orchestrator's worker reads and writes the announcement rows that operators,
the manual page, the reconciler and status checks change between any two of its
steps. `AnnouncementTable` has what it can tell of a row: its key, whether it
inserted the row, the status, and whether the withdraw request that is open on
it is its own, another's, or older than 30 seconds (`stale`).
`WorkerChange` is what the worker does to the table and `OthersChange` what
the others do; the actions of `AutomaticMitigation` use the parts of both.

`BgpTable` maps the rows of `BgpAnnouncement` to such a table (`KnownRows`):
statuses no query of the worker tells apart are one (`KnownStatus`), and a
request is read from the confirmation level, the age of the last update and the
claim (`KnownRequest`). Its property `KeepsTable` says that every transaction
leaves the table alone, or is a `WorkerChange` if the orchestrator made it
(`WorkerMoves`), or is an `OthersChange`. A worker's request may stand on any row
of its rule: an apply that finds an equivalent row already delivered, by an
operator or the manual page, shares it (`automatic_exabgp_apply`), and its
execution then withdraws it (`OrchestratorAsks`). So what `AutomaticMitigation` takes for
granted of the rest of the program is a theorem of the module of that rest
(`TableKept`), where the two would otherwise only have been written to agree. A
delivery by the orchestrator that a crash interrupts, a request that a late
commit of `advertised` overwrites, an operator's compensation that settles the
request the worker has on a row they share, and a withdraw finished after
another thread took it over are among the steps it covers.

### AutomaticMitigation

| Variable | Code |
|---|---|
| `event`, `chosen` | `anomaly_events.updated_at`, as a number; the events the detector's query returned and it has to enqueue |
| `job` | `automatic_mitigation_jobs`: status, anomaly, `requested_at` |
| `exec` | `mitigation_executions`: status, key, the announcement it is linked to, TTL, `next_retry_at` and the retry counter |
| `ann` | `bgp_announcements`, the table of `AnnouncementTable` |
| `worker` | where the worker thread stands, its job, candidate and execution |
| `dueJobs`, `dueRows` | what `process_jobs` and `reconcile` have read and not visited, with the status that was read |
| `announces` | history: how often an execution's rule was written to the pipe since the last time it was taken back |

Actions: `Choose`, `Enqueue` (detector); `RecoverJobs`, `ClaimJob`, `Evaluate`,
`Reserve`, `FinishJob` (`process_jobs`, `process_anomaly`, `_reserve`);
`StartApply`, `ShareAnnouncement` to `ConfirmAnnouncement`, `RecordApply`
(`_apply` and its callback), with `CompensateAnnouncement` and `UndoAnnouncement`
for a rule that was written to the pipe and whose commit failed; `ReconcileReads` and the `Visit...`, `RetryApply`,
`Reapply...`, `Probe...` actions (`reconcile`, one per status and outcome);
`ClaimWithdraw` to `SettleWithdraw` (`_claim_withdraw`, `_withdraw` and
`automatic_exabgp_withdraw`); `Crash`, `TransactionFails`; the clocks; and
`OthersStep`, any `OthersChange` of the table. The worker is the only thread that changes executions, so that
the status conditions of their UPDATEs always hold. Simplifications: candidates
that a gate, the validation or the readiness probe stops only leave a blocked
execution behind and are the choice to drop them; queries return rows in any
order; one connector.

What the model shows of the code besides its properties: a crash, or a locked
database, between `_reserve` and `_apply` strands an execution as queued with
no retry time, which `reconcile` never selects, and its key stays reserved for
operators too (`main.py:20608`), for which `ExecutionEnds` makes its exception
(`Stranded`); a job whose last transaction fails is processing until the worker
is started again; an enqueue that merges into a job being processed is answered
by an evaluation that may have begun before it; apply and withdraw share one
retry counter; an execution stays active, and keeps its key, after an operator
withdrew its announcement, until the next pass sees it.

### MitigationApply

| Variable | Code |
|---|---|
| `candidate` | what detection and the builder of its kind fixed: kind, `strict` flags, evidence, whether its address is direct, shared by CGNAT or unresolved |
| `conf` | settings as committed: each connector's state and mode, the zone's and the preferred connectors, whether the origin is authorised, protected prefixes and whitelist, the vector's mode, response profile |
| `rules` | the rows each actor inserted for the candidate, by connector |
| `handRules`, `byHand` | rows of other matches announced by the manual page, and the one under way |
| `task` | per actor (administrators' requests, the orchestrator), where its application stands and what it read |
| `dbWriter` | who holds SQLite's writer lock |

`ShowPage` and `SubmitApply` are the page and the endpoint; `Generate`,
`Accept`, `Block`, `Reserve`, `ApplyStored`, `CloseExecution` are the
orchestrator's proposal and the executor's checks; `Examine`, `Refuse`,
`Insert`, `Queue`, `Deliver`, `Finish` are `apply_mitigation_candidate`, which
serves one connector after the other; `EditSettings` is an administrator's edit,
between any two of these. The operators `Resolved`, `Decision`, `ValidRule`,
`Offered`, `Eligible` are the resolution, the policy, the validator, the page's
and the orchestrator's gate, each with the code's order of early returns.
Bounds: `MaxEdits`, `MaxTries`, and the sets of kinds and connectors.
Simplifications: one candidate with a response profile and the action discard;
durations, rates, cooldowns and the AI answer are left out; the endpoint's
evaluation and the resolution that follows read the same settings.

### BgpStatusCheck

| Variable | Code |
|---|---|
| `check` | the thread that makes a check: its connector, whether it commits its own snapshot or leaves it to its caller's transaction, where it stands, its verdict |
| `future`, `callback` | the probe in the bounded executor; whether `bgp_status_check_future_done` has been added or called |
| `late`, `inTime` | checks whose deadline has passed; history: probes that ended before it |
| `lease` | `BGP_STATUS_CHECK_LOCKS`: token, state, when the probe completed |
| `snapshot`, `writer` | the snapshot in `bgp_connectors`; the caller's transaction that holds one uncommitted |
| `closing`, `stopped` | `shutdown_bgp_status_check_executor` and the executions it stops |

One action is one section under `BGP_STATUS_CHECK_LOCKS_GUARD`, one call on the
future, or one commit. Tokens grow with the order in which leases are taken.
The executor may leave a probe pending for as long as it likes, which stands for
any number of workers. What ExaBGP answers is a choice; what the snapshot does
to announcements is `MarkPeerDown` of `BgpAnnouncement`. `MaxChecks` bounds the
checks. Late checks do overwrite a snapshot with `unknown`, although the comment
of `finish_bgp_connector_status_check` says that time-outs keep the last valid
one: `LateCheckKeepsSnapshot` states that and TLC refutes it.

### DashboardCache

`lru`, `stored`, `bytes` are the ordered entries, their sizes and the account of
them; `expired` the entries whose TTL has run out and that nobody has purged;
`budget` is `_effective_max_bytes`; `flight`, `aged` are `_flights` and those
older than the single-flight time-out; `request` are the threads. One action is
one section under the cache's lock, one test made outside it (`CheckSize`), or
one computation. `Compute` has an outcome for each way a computation may fail:
reported for the key (`fail_flight`), for all flights of the thread
(`fail_thread_flights`), or not at all. `MemoryCheck` is the memory monitor.
Statistics and the measuring of memory are left out; sizes are small numbers.

### PeakHunterRunner

`peakJob`, `runRows`, `cases` are the committed rows; `runner` are the scheduler
and the operators with what they have not committed, since each does all its
work in one SQLite transaction whose first insertion takes the writer lock
(`peakWriter`). `Tick`, `RunNow`, `StartJob`, `CreateRun`, `Analyse`,
`UpdateJob`, `Commit` are the steps of a round; `Abandon` is whatever rolls it
back. An analysis finds a peak, none, or fails: its arithmetic over ClickHouse
rows is a choice. Bounds: `Combinations`, `MaxRuns`, `MaxFailures`.

### AnomalyDetection

The events of one conversation under one detection rule. Time is discrete and a
time stamp is kept as its age. `phase` and `traffic` are the clock and the
flows; `events` and `draft` the committed active rows and what the thread that
holds `dbWriter` sees; `jobOf` the job of an event; `scan` the detection loop
and operators that run the rules at once. `StartScan` is the query, which sums
flows by buckets of the clock; `Select`, `Write`, `CommitScan`, `Rollback` are
the upsert and its transaction, whose read comes before the lock; `CloseStale`
and `EnqueueActive` the rest of the loop; `Judge` the worker that evaluates the
evidence; `OperatorEnds` an acknowledgement or a close by hand. Attack vectors
of the older engine and security anomalies follow the same life cycle and are
not modelled. `MaxDelay` bounds how long a scan takes, `MaxUpsets` the failures
and acts of operators, `MaxEvents` the rows at a time; no run reaches it.

### CgnatMapping

`import` holds each batch with its terms (connector and period), preview, stored
mappings and those in service (`live`); `serving` the requests with what they
read before their first write; `approvals` numbers the approvals, which the code
dates; `unsound` is history: the imports a request wrote on a reading out of
date, or that a refused parse marked failed. `Upload`, `StartParse`,
`StorePreview`, `FailParse`, `Approve`, `Activate`, `Deactivate`, `Reject` are
the handlers' transactions, each after an `Ask...` that reads. `ValidRows` is the
conflict check within a file, `Conflicting` the one between imports, and
`Resolution` the lookup with its ranking. The parsers of the file formats are a
choice among sets of records (`Payloads`). `MaxParses` bounds the parses.

### PmacctParser

| Variable | Code |
|---|---|
| `file`, `tail`, `exists`, `written` | the spool file: complete lines, and whether a line is begun or its beginning was truncated away; nfacctd's progress |
| `pc`, `batch`, `due`, `check` | `main`: where its loop stands, `batch`, and whether `flush_seconds` and `rotate_check_seconds` have passed |
| `offset`, `pending`, `saved` | `Tailer.offset`, `Tailer.pending_offset`, the offset in the state file |
| `inserted`, `waived` | history: rows per line in `flow_raw`; lines a start at the end of the file passed over |
| `stale` | history: a rotation has truncated the file and not reset the offsets since |
| `faults` | faults so far, bounded by `MaxFaults` |

One cycle of `main` is `Poll`, then `Postpone` or `Flush` and `CommitFlush`,
then `NoRotation` or `ReadRest`, `Drain`, `Settle`, `Compare`, `Truncate`,
`Reset`; between any two of these nfacctd may append half a line
(`StartLine`, `EndLine`). Faults by kind (`FaultKinds`): the process ends
anywhere (`crash`), an insertion raises with or without having stored its rows
(`insert`), the copy or the compression of a rotation fails (`rotate`), the
state file cannot be written or is left cut short (`checkpoint`). Outside the
rotation an exception ends the process, inside it the exception is caught; the
`...Fails` actions say which.

Offsets count half lines, so that a read, a start or a truncation can fall
inside a line. `read_lines` looks at the size and then reads, in the model at
once: only nfacctd acts in between, and it only appends. All lines have the
same length, and what is left of a line cut by a truncation (`Fragment`) counts
as one. The parser starts at the end of the file when it has no checkpoint
(`PMACCT_PARSER_START_FROM_END_IF_NO_STATE`, true by default). Left out: the
fields of a line, the status file, the compressed copies, which nothing reads
again, and the replacement of the spool file by another program.

### MCServices

One run for five modules that share nothing. Besides the constants it restricts
their inputs, for the run only, and names each restriction: `Varied` leaves out
candidates that differ from the usual in several flags at once, or in flags
nothing reads; `MCPayloads` and `MCTerms` are the files and terms of imports;
two requests on imports overlap only where the imports are alike (`Plain`,
`Alone`), imports are uploaded in order (`InOrder`), and no step is taken once
no import is sound. The theorems of section 4 know none of these restrictions.

## 3. Properties

Of announcements:

- `LiveRouteIsTracked`: for every rule ExaBGP announces, a row of the same
  mitigation key reserves the key and will be found by the reconciler, whatever
  crashed between the pipe and the commit.
- `OneLiveRowPerKey`: two rows that were or may be delivered never share a key.
- `ClosedIsFinal`: withdrawn and expired rows are never reopened by a thread
  that still works on them.
- `WithdrawsOwnRule`: the withdraw of an operator or of the reconciler never
  removes a younger announcement of its rule, although other threads may have
  closed its row and freed its key between its claim and its write; a route of
  another action, a row the manual page inserted to withdraw whatever is announced,
  and a row believed superseded by such a withdraw are excepted.
- `NoStolenRoute`: a rule leaves ExaBGP only through a withdraw of its own row,
  whoever withdraws (violated by the orchestrator, see below).
- `AdvertisedIsTruthful`: until the first fault, a row shown as sent or advertised
  is the one announced.
- `KeepsReservations`: every transaction is a step of `RuleReservation`.
- `KeepsTable`: every transaction changes the rows as the specification of the
  orchestrator assumes of its own thread and of the others.
- `LiveRouteEventuallyWithdrawn`, `RequestEventuallySettled`: liveness.

Of the orchestrator: `OneReservationPerKey`; `AnnouncedOnce`, the rule of an
execution is written to the pipe once, whatever crashes, and once more only
after the connector reported the write before as taken back; `WithdrawnIsClosed`, a
withdrawn execution leaves its announcement closed for good; `ExecutionEnds` and
`JobEnds`.

Of candidates:

- `AppliedOnce`: one row per candidate and connector, one automatic row in all.
- `LimitOnlyByHand`: applying a candidate never exceeds `max_active_rules`; the
  manual page, which checks the limit before it takes the lock, may.
- `SentIsDefensible`: what an actor sends has an address, is no analysis-only
  candidate, is not whitelisted DNS, and its origin is authorised where demanded.
- `PageIsHonoured`: what the page offers, the endpoint does.
- `AutomaticAsValidated`: the automatic rule goes to the connector it was
  validated and reserved for, an automatic one, although it is resolved anew.

Of status checks: `OneProbePerConnector`, `VerdictInTime`, `SnapshotInOrder`,
`LeaseEnds`. Of the cache: `BudgetKept`, `OneComputation`, `Answered`. Of Peak
Hunter: `PeakSavedOnce`, `RunsAreCounted`, `DueJobRuns`. Of detection:
`EventPerScan`, one conversation never has more active events than threads run
the rules, since a scan opens none beside one it has seen; `MatchedIsKept`, the loop never ends an event it has just refreshed;
`DuplicateEnds`, two events of one conversation do not last; `AttackIsAuthorised`,
a conversation that each run of the loop finds critical, in every bucket of the
clock it matches, meets the conditions of automatic mitigation again and again,
although it was only a warning before. Of
CGNAT imports: `OneSubscriber`, a lookup has one answer; `LiveIsActive`, the
mappings in service are those of the active imports. Of the parser:

- `CheckpointIsInserted`: what lies below the checkpoint is stored, so that no
  restart skips a line.
- `CheckpointedNotReinserted`: what a checkpoint has covered is never stored
  again, and the checkpoint moves back only when it is lost or the file is
  truncated.
- `EveryLineSettles`: every line of the file is stored in the end.
- `TruncatesOnlyInserted`: the decision to truncate is taken when everything in
  the file is stored.
- `FindsTheFileAgain`: an offset beyond the end of the file is given up.
- `CountedOnce`: a line is stored at most once (violated, see below).

### Runs that pass

| Run | Instance | Shows |
|---|---|---|
| `BgpFaults` | 2 rows, 1 rule, operator, reconciler, 2 faults | `LiveRouteIsTracked`, `AdvertisedIsTruthful`, `KeepsReservations` |
| `BgpWithdrawals` | 2 rows, reconciler, orchestrator, manual page, 1 fault | neither the orchestrator's unread claim nor the manual page's extra row breaks `OneLiveRowPerKey` or `ClosedIsFinal`, all keep to the orchestrator's table (`KeepsTable`), and the reconciler removes no younger announcement (`WithdrawsOwnRule`) |
| `BgpLiveness` | 2 rows, reconciler, 1 fault, fair | both liveness properties |
| `AutoSafety` | 1 anomaly, 1 key, 1 job, 2 executions and announcements, 1 fault | `OneReservationPerKey`, `AnnouncedOnce`, `WithdrawnIsClosed` |
| `AutoLiveness` | 1 job, execution and announcement, 2 updates of the event, a retry of each kind, 2 faults, fair | `ExecutionEnds`, `JobEnds` |
| `Services` | 2 checks of a connector; 2 requests, 2 keys; 2 jobs, 1 peak, a scheduler and an operator; 2 connectors, an administrator and the orchestrator, 1 edit; 2 imports, 2 administrators | the safety properties of the five modules |
| `ServicesLiveness` | 1 check; 2 requests of one key; 2 jobs | `LeaseEnds`, `Answered`, `DueJobRuns` |
| `Detection` | the loop and an operator, windows of 2 units, a volume of 0 or 1 in each, 1 upset, fair | `EventPerScan`, `MatchedIsKept`, `DuplicateEnds`, `AttackIsAuthorised` |
| `Pmacct` | 3 lines, one of them a header, batches of 2, rotation, 2 faults of any kind, fair | all properties of the parser but `CountedOnce` |

Why these bounds are enough to be of interest. Announcements interact in pairs,
an older delivery and a younger one of the same rule; one operator, one
reconciler and a delivering thread per row already put three threads on one
row, and two faults give a crash during the recovery from another. With one
action, an NLRI is a mitigation key. `BgpWithdrawals` explores what follows a
fault only where the manual page has withdrawn no untracked rule
(`FaultsWithoutManualPage`, half a million states with it): the two are combined
by the theorems `OneLive`, `ClosedFinal`, `TableKept` and `WithdrawsOwn` alone,
which cover all four properties of the run without that bound. The clocks of a row move only
where a query asks for them: a TTL on a row that is not closed, the 30 seconds on
one with a request or a failed withdraw. Two executions are one that is stranded or
retried and a younger one of its key. Two checks are a late one and its
successor; two requests an owner and a waiter; two runners the scheduler and an
operator that runs the same job; two imports one in service and the one that
replaces it. One edit of settings falls between any two of the three evaluations
of a candidate. Budgets of 0, 1 and 2, under which an
item has the size 1, make the memory monitor empty the cache, evict one of two
entries, and a store displace the other key's entry; an item that displaces two at once takes a
third key and larger budgets, and is left to the theorem `BudgetAlwaysKept`. The imports whose requests overlap have identical
contents (`Plain`), and `OneSubscriberAlways` is proved for any. A window of two
units has a bucket boundary inside; with a warning at a sum of 1 and critical at
2, traffic in both units makes one critical observation when they lie in one
bucket and two warnings when the boundary is between them, so that an event
gathers points at either severity before it is judged. For the parser, a batch of two with three lines gives a full
batch, a batch that waits for its timer and a line read in two pieces, and a
rotation size of one line lets the file be truncated twice. The theorems remove
the bounds. Deadlock is checked for the parser, whose loop never stops; the
other instances come to rest when their bounds are used up.

The lines a start at the end of the file passes over are excused (`waived`);
that start also happens after a checkpoint is torn, or when the first insertion
fails before there is one, and then loses lines that had been read. A rotation
that ends between `Truncate` and `Reset` leaves offsets of contents that are
gone, and lines are lost once the file has outgrown them; the properties say
nothing from there to the next rotation (`stale`).

### Fairness

Of announcements: weak fairness of the clocks, and, of the reconciler, weak
fairness of its steps and strong fairness of a withdraw that succeeds: the
expiration loop is a daemon thread that catches every exception and runs again
(`bgp_expiration_loop`), and a pipe that refuses for ever can withdraw nothing.
Nothing is assumed of deliveries, checks or of what operators ask for; an
operator's request that holds a claim runs to its end unless the backend
crashes. `BgpLiveness` has no operator: one that asks again at each expiry of
the 30 second window, with a pipe that refuses each of those requests, keeps the
reconciler from the row, and `LiveRouteEventuallyWithdrawn` then rightly fails.

Of the orchestrator: weak fairness of the worker's steps, of TTL and backoff and
of the 30 second window, and strong fairness of the withdraw another thread has
asked for. Of status checks: weak fairness of the owner's steps, the deadline,
and the start, end and callback of a probe; nothing is assumed of how long a
probe takes. Of the cache: weak fairness of each request. Of Peak Hunter: weak
fairness of the scheduler's tick and strong fairness of each runner, since a
writer that always finds others must get SQLite's lock again and again. Of
detection: weak fairness of the loop's start and of time, strong fairness of a
scan's steps and of the worker. Of the parser: weak fairness of its steps, the
restart among them (`restart: unless-stopped`), and of `flush_seconds`. Faults
are bounded, and nothing is assumed of them.

### Runs that show a disagreement

Each of these runs checks one property and TLC finds it violated by what the
code does; `PROJECT.json` quotes the statement of the repository it contradicts.

| Run | What happens |
|---|---|
| `BgpLateOrchestrator` | the orchestrator's withdraw stalls for 30 seconds after its intent; the reconciler takes over and closes the row; the rule is announced anew and the late write removes it (`NoStolenRoute`) |
| `PmacctReread` | a batch that is not flushed yet is read again by the next poll, because reading starts at the committed offset: its rows are stored more than once, without any fault (`CountedOnce`) |
| `MitigationPlaybook` | a candidate marked `manual_only` takes the mode of its vector's profile and is announced automatically (`ManualOnlyNeverAutomatic`) |

### What the models show besides

Announcements. After a fault, a compensating withdraw whose intent was refused
removes a younger announcement (`attempt_bgp_announcement` ignores the refusal),
which is why `AdvertisedIsTruthful` and `NoStolenRoute` speak of runs without
faults and `WithdrawsOwnRule` of operators and the reconciler. A withdraw requested between `sent` and `advertised` is overwritten
(`RequestNotOverwritten`). With the manual page, a delivered row can be
superseded by the queued row of a manual withdraw which is then rejected: the
rule stays announced and nothing reserves it. With a second action,
`NoStolenRoute` and `AdvertisedIsTruthful` fail: the mitigation key contains the
action, a FlowSpec withdraw does not; `WithdrawsOwnRule` excepts a route of
another action by name. An execution that shares an operator's announcement
withdraws it when the TTL has run out; if its record was lost in a crash, it
withdraws the first row of its key by status and age, whoever inserted it and
whatever its TTL (`automatic_execution_announcement_id`).

Candidates. The evidence gate overwrites a denial on the page, which then offers
what the endpoint rejects (`PageIsHonoured` speaks of candidates with evidence);
the page denies a vector that is disabled and the endpoint evaluates it as
manual; a whitelist hit or low confidence turns a denial into an approval by hand
(`main.py:14675`); the reflection policy overwrites a denial (`main.py:11246`);
an ambiguous resolution makes the endpoint serve every active connector, and one
that fails leaves the others served (`main.py:20594`); the playbook wants DNS
rules approved by hand and `DNS_SINGLE_FLOW` is automatic; a later attempt
overwrites the recorded outcome of an earlier one. `process_anomaly_mitigation`
(`main.py:21465`) is called by tests only.

Detection. `OneActiveEvent` (`docs/anomalies.md:101`): a run by hand beside the
loop opens two events, which `DuplicateEnds` shows to be repaired; without runs
by hand it holds (`OneEventByLoop`).
`HotWindowIsMatched` (`docs/anomalies.md:106`, `main.py:25782`): a window covers
parts of two buckets of the clock, each compared by itself, so that a window
above the threshold may match nothing, and one run may add two points of
evidence. The buckets of one run are written in the order of their sums, the
smallest last, and each write sets the severity: an attack at the critical rate
that is split over two buckets is two warnings, and one whose larger part is
critical ends the run as a warning (`main.py:25888`). Such an attack may never be
authorised, which is why `AttackIsAuthorised` speaks of what the runs find and
not of the rate. A rule's window may be up to a day (`main.py:1086`) while events are
closed after 120 seconds by default (`main.py:29798`), and the cut-off is
compared with the time of the flows: with a window longer than that, the loop
opens or refreshes an event by older flows and ends it in the same pass, although
only events that do not appear again should end (`docs/anomalies.md:104`). TLC
finds it in `Detection` with `Window = 3`; it is why `MatchedKept` has its
hypothesis. A slow run by hand dates an event back; failed queries for longer than
the close-after time end active events; the consecutive windows of a rule need
not follow each other.

CGNAT. A parse of an approved, active, superseded or rejected import is refused
(`main.py:4570`), and the handler then marks the import failed (`main.py:4763`):
its live mappings no longer resolve, still conflict, cannot be deactivated, and
the import can be parsed and approved again beside its stale rows. Checks come
before the first write, so that two activations, or an approval and a parse, may
both go through. The approval publishes the preview it reads, not the one that
was shown. The ranking puts the exact protocol before the exact connector, and
lookups do not filter by connector. A rejected file cannot be uploaded again.

Leases and caches aside, two components without a module have findings of
reading only: the ASN resolver compares old attempts with new ones in one UPDATE
of its IP branch (`main.py:35157`), so that an address out of attempts stays
queued; and saving a dashboard's layout reads a version before its UPDATE
(`services/dashboard_widgets.py:1793`), so that the later of two saves wins.

## 4. Proofs

TLC checks the instances of section 3; the theorems hold for every value of the
constants: any number of rows, rules, threads, lines, files and faults. Every
safety invariant and every safety property of a step that the passing runs check
has its theorem, `AdvertisedIsTruthful` excepted, and so has the type invariant
of each component. Each module
of proofs EXTENDS the module it is about. `tlapm` checks each from nothing in
less than half an hour.

    tlapm CgnatMapping_proofs.tla

### What is assumed

The named assumptions of each module, which TLC evaluates on every run, say that
bounds are natural numbers, that a few sets are not empty, and that model values
such as `Unlocked` are none of the threads. `ThreadsAssumption` says that the
orchestrator's threads are not also operators, reconcilers or testers, that
testers, whose rows are withdraws, are neither operators nor reconcilers, and that
a delivery's claim is no thread's: tokens are drawn anew for each claim.
`TableAssumption`, of `AnnouncementTable`, asks for a key, and `ScansAssumption`
for finitely many threads that run the rules. `MitigationAssumption` asks for a
finite set of connector ids above 0, and the theorems about candidates for at
least one connector: without one, `CHOOSE` of the only connector means nothing.
Theorems with a hypothesis of their own:

| Theorem | Hypothesis | Why |
|---|---|---|
| `Tracked`, `ReservationsKept` | `Testers = {}` | a manual withdraw that is rejected refutes both (section 3) |
| `OneEventByLoop` | `Scans = {Loop}` | the loop and a run by hand may each open an event, having seen none (section 3) |
| `MatchedKept` | `Window <= CloseAfter + 1` | a rule may have a longer window than the close-after time, and then the property fails (section 3) |

The code guarantees none of them: each names a use of the program for which the
property, or the invariant behind it, fails.

### Theorems and their invariants

| Module | Theorem | Property | Inductive invariant |
|---|---|---|---|
| `BgpAnnouncement_proofs` | `TypeCorrect` | `TypeOK` | `Typed`: a withdraw in progress has a row |
| | `KeyInvariant`, `OneLive`, `ClosedFinal` | `OneLiveRowPerKey`, `ClosedIsFinal` | `KeyInv` |
| | `TableInvariant`, `TableKept` | `KeepsTable` | `KeyInv`, `TableInv` |
| `BgpRoute_proofs` | `Tracked` | `LiveRouteIsTracked` | `RouteInv`, `NoWithdrawOnly` |
| | `ReservationsKept` | `KeepsReservations` | `RouteInv`, `NoWithdrawOnly`, `TableInv` |
| | `WithdrawsOwn` | `WithdrawsOwnRule` | `KeyInv`, `RouteInv` |
| `AutomaticMitigation_proofs` | `AutoTypeCorrect`, `OneReservation` | `OneReservationPerKey` | `TypeInv` |
| | `Once` | `AnnouncedOnce` | `OnceInv` |
| | `WithdrawnClosed` | `WithdrawnIsClosed` | `LinkInv` |
| `PmacctParser_proofs` | `ParserTypeCorrect` | `TypeOK` | `TypeInv` |
| | `CheckpointCovered`, `TruncatedIsInserted` | `CheckpointIsInserted`, `TruncatesOnlyInserted` | `CheckpointInv` |
| | `InsertedOnceCovered` | `CheckpointedNotReinserted` | `BatchInv` |
| `CgnatMapping_proofs` | `CgnatTypeCorrect`, `LiveActive`, `OneSubscriberAlways` | `LiveIsActive`, `OneSubscriber` | `CgnatInv` |
| `MitigationApply_proofs` | `MitigationTypeCorrect` | | `ApplyInv`, `TriesInv`, `HandsInv` |
| | `AppliedOnceAlways` | `AppliedOnce` | `ApplyInv` |
| | `LimitHolds`, `Defended` | `LimitOnlyByHand`, `SentIsDefensible` | `SentInv` |
| | `SentAsValidated` | `AutomaticAsValidated` | `StoredInv` |
| | `OffersAreHonoured` | `PageIsHonoured` | `PagesInv` |
| `BgpStatusCheck_proofs` | `StatusTypeCorrect`, `OneProbe`, `InTime`, `NewestSnapshot` | `OneProbePerConnector`, `VerdictInTime`, `SnapshotInOrder` | `StatusInv` |
| `Services_proofs` | `SavedOnce`, `RunsCounted` | `PeakSavedOnce`, `RunsAreCounted` | `PeakInv` |
| | `PeakTypeCorrect` | | `PeakInv`, `PeakBounds` |
| | `ComputedOnce` | `OneComputation` | `FlightInv` |
| | `BudgetAlwaysKept`, `CacheTypeCorrect` | `BudgetKept` | `BudgetInv`, `FlightInv` |
| | `DetectionTypeCorrect`, `MatchedKept` | `MatchedIsKept` | `DetectionTyped`, `KeptInv` |
| | `EventsCounted`, `OneEventByLoop` | `EventPerScan`, `OneActiveEvent` | `OpenInv` |

Why the invariants are what they are:

- `KeyInv`. That two live rows differ in their keys is not inductive: an insert
  only supersedes rows it sees as closed, so the invariant says that a live row
  is the youngest of its key, but for the manual page's withdraw rows, which are
  never sent; that a request is open only on a row that is not closed; and that
  scans hold only rows that were open. All steps but insertions move one row
  along few lines (`Moves`), so that the proof is done once for these.
- `RouteInv`. The route is that of the youngest row of its key, and that row
  still answers for it (`Held`): after the send intent, which precedes the write
  to the pipe, it has an expiry and a status that the reconciler's query finds,
  so that a crash anywhere leaves it to be found. It is inductive whoever runs:
  the one way in which a row stops answering for a rule that stays announced is
  that it was closed as superseded by a row of the manual page (`Overtaken`).
  `WithdrawsOwn` follows without a hypothesis: a thread that finds its request
  still open, and no younger delivery, either owns the route or has nothing to
  remove. Without testers no row is of that kind (`NoWithdrawOnly`), which gives
  `Tracked` and the refinement.
- `TableInv`. The time stamps of a row agree with its status: what waits was
  never delivered, what is shown as sent or advertised was. Hence a row that is
  marked as down was delivered, as the refinement needs, and a row that is
  `failed` for the worker is one that nothing announces. Whose row it is does not
  matter but in one place: the orchestrator makes no proposals that wait for an
  approval. `TableKept` then has one step per action, by three lemmas on what a
  change of status, a new request and an insertion are in the table's terms.
- `OnceInv`. Nothing was written to the pipe for an execution that is queued, or
  whose worker has not come to the write, or has a refusal, or a write that was taken back, in hand. `LinkInv`: an
  execution has no announcement before its apply is recorded, the one a withdraw
  works on is the one recorded, and a withdraw that succeeded closed it; that
  it stays closed rests on the table, in which no closed row has a request
  (`Idle`), and is proved once for `WorkerChange` and once for `OthersChange`.
  `WorkerInv` and `RetriesInv`, in `TypeInv`, say in which states an execution may
  be while the worker stands where it stands.
- `CheckpointInv`. What lies below the offset is stored or in the batch; what
  lies below the checkpoint is stored. One lemma says that inserting keeps it
  (`AppendKeeps`), one that reading does (`ReadCollects`), one that the growth of
  the file does (`GrowsKeeps`). `BatchInv` adds that a line is at one place of
  the file and that the batch lies beyond the offset, which is never behind the
  checkpoint.
- `CgnatInv`. What a request established when it read (`AskedInv`); imports in
  service have no endpoint in common (`NoClash`), within a file none has two
  subscribers (`CleanInv`), and approvals are numbered (`Numbered`), so that a
  lookup that ranks by them has one best answer. Imports that a request wrote on a
  reading that no longer held are `unsound`, and nothing is claimed of them.
- `ApplyInv` and those above it. Who holds the lock still sees what it read
  under it; the policy's decision belongs to the settings of that moment
  (`GrantInv`); rules by hand grow only outside it (`HandInv`). `StoredInv`
  follows a proposal to its connector: the resolution that is made anew, with the
  stored connector named, returns that connector (`ResolvedAgain`). `PagesInv`
  relates what the page resolved to what the endpoint resolves while nothing is
  edited (`SameView`). For the types, whoever may still try again has not used up
  its tries (`TriesInv`), and the manual page, which announces one rule here, has
  announced none before (`HandsInv`).
- `StatusInv`. A check that is not judged holds a running lease (`CheckInv`), a
  probe that was not cancelled in time keeps its lease, and the holder of a lease
  is the youngest check of its connector (`LeaseInv`).
- `PeakInv`. Only the holder of the writer lock has something uncommitted, and
  what it found is new; a runner that still works has combinations left
  (`PeakBounds`). `FlightInv`: until a time-out, whoever works on a key
  owns its flight. `BudgetInv`: the sizes of a sequence of distinct entries add up
  to what is accounted for; dropping, moving, putting and shrinking keep it
  (`AddsUp`). `KeptInv`: what the loop wrote and has not yet looked at again is no
  older than its window and its own delay, and its cut-off moves with the delay.
  `OpenInv`: the events there are after the writer's commit, and the threads that
  saw none and are about to open one, are together no more than the threads
  (`Counted`); a thread that has written sees what it wrote (`WriterSees`).

Operators of the models get lemmas of their own. The account of the cache is a
sum over a finite set, defined by a recursive choice of an element; that it does
not depend on the choice (`SumLaws`) and splits at any subset (`SumSplits`) is
proved, and so is that what is left of a sequence is in order and holds every
element that is kept, once (`LeftOrder`, `KeptKeys`). These are inductions: the
library's induction theorems take a predicate as a parameter, which cannot be
instantiated, and the proofs take the least number for which a statement fails
instead (`LeastNatural`, from the well-foundedness of the natural numbers).

### What is only model-checked

- `AdvertisedIsTruthful`. It holds in `BgpFaults`, without the orchestrator, the
  manual page, a second action and a fault before, and TLC finds it violated with
  any of them: a theorem about that instance would say little of the program.
- Liveness, since fairness and ENABLED are beyond the prover:
  `LiveRouteEventuallyWithdrawn`, `RequestEventuallySettled`, `ExecutionEnds`,
  `JobEnds`, `EveryLineSettles`, `FindsTheFileAgain`, `LeaseEnds`, `Answered`,
  `DueJobRuns`, `DuplicateEnds`, `AttackIsAuthorised`.

## 5. Hazards

`PROJECT.json` lists forty, at their lines, with the properties that would catch
each going wrong: windows between the two transactions of a delivery, crashes
between pipe and commit, stale scans, claims older than 30 seconds, a refused
intent nobody looks at, checks made before the lock, requests no query selects;
jobs merged while processed and executions stranded; settings edited between
evaluations; deadlines, probes and callbacks that race; flights left behind;
rounds rolled back; events dated back; a parser that re-reads, rotates and
restarts. A withdraw requested between `sent` and `advertised` is overwritten, so
that no property forbids it; `AdvertisedIsTruthful` shows that the request, once
overwritten, is not written to the pipe either, and `KeepsTable` that the
orchestrator's theorems count with it. Four have no property, since the code does not
prevent what they speak of: a compensation that goes on after its intent was
refused; two actions for one match, which share a route; a
crash between the commit of `queued` and the send intent, after which only an
operator's withdraw frees the key; and a request merged into a job that is being
processed.

## 6. What could be added

Attack vectors of the older engine and security anomalies, which follow the life
cycle of `AnomalyDetection`; the way back of the composition, that what
`AutomaticMitigation` does to the table is a step of `BgpAnnouncement`; the queue of the ASN resolver and the
sliding window of the Grafana limiter, each a small module of its own.

## 7. Not modelled

- Query building for ClickHouse, widgets, aggregates and the Grafana endpoints:
  text built from parameters, without state. Their answers are choices.
- The Grafana limiter: a list of times under one lock; its only property is the
  comparison it makes.
- The ASN resolver: independent of all that is modelled; see section 3 for what
  reading it shows.
- Dashboards and layouts: create, read, update and delete of rows by single
  statements; the lost update of a layout is told in section 3.
- AI integration: calls to a language model service. Its effect on
  announcements, a proposal that is never delivered, is `InsertUndelivered`.
- Candidate building and scoring, Peak Hunter's analyses, the field parsing of
  pmacct and of CGNAT files: functions of data; the models choose their results.
- The host agent probes systemd, sockets and the pipe and keeps no state but a
  lock around a recovery.
- ClickHouse access and retention, the frontend, installation scripts: input and
  output, presentation, commands around docker compose.
