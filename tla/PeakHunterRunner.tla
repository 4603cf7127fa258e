--------------------------- MODULE PeakHunterRunner ---------------------------
(***************************************************************************)
(* The automatic runs of Peak Hunter: a scheduler that visits the jobs     *)
(* that are due, and operators that run a job at once.  Each works in one  *)
(* SQLite transaction over all it does; the first insertion takes the      *)
(* writer lock, and what was read before it may be out of date.            *)
(*                                                                         *)
(* An analysis of one combination of interface, direction and metric finds *)
(* a peak worth a case, finds none, or fails; a peak stands for what the   *)
(* search for duplicates treats as equal (same place, class and time).     *)
(***************************************************************************)
EXTENDS Naturals, FiniteSets

CONSTANTS
    PeakJobs,     \* rows of peak_hunter_jobs
    Peaks,        \* peaks in the traffic
    Runners,      \* the scheduler and the operators
    Scheduler,    \* the thread of peak_hunter_runner_loop
    Combinations, \* bound: combinations of a job
    MaxRuns,      \* bound: rows of peak_hunter_job_runs of a job
    MaxFailures   \* bound: crashes, failed queries of interfaces, lock time-outs

Free == "free"

ASSUME PeakAssumption ==
    /\ Scheduler \in Runners /\ Free \notin Runners /\ PeakJobs # {}
    /\ Combinations \in Nat \ {0} /\ MaxRuns \in Nat /\ MaxFailures \in Nat

VARIABLES
    peakJob,   \* the committed rows of peak_hunter_jobs
    runRows,   \* the committed rows of peak_hunter_job_runs, by job
    cases,     \* the committed rows of peak_analysis, by peak
    runner,    \* the threads, with what they have not committed
    peakWriter,\* who holds the writer lock
    failures

peakVars == <<peakJob, runRows, cases, runner, peakWriter, failures>>

None == [j \in PeakJobs |-> 0]

Waiting == [pc |-> "idle", todo |-> {}, job |-> CHOOSE j \in PeakJobs : TRUE, left |-> 0,
            seen |-> None, runs |-> None, done |-> {}, found |-> [p \in Peaks |-> 0]]

PeakInit ==
    /\ peakJob \in [PeakJobs -> [due : BOOLEAN, runs : {0}]]
    /\ runRows = None
    /\ cases = [p \in Peaks |-> 0]
    /\ runner = [t \in Runners |-> Waiting]
    /\ peakWriter = Free
    /\ failures = 0

committed == <<peakJob, runRows, cases>>

RunnerAt(t, pc) == runner[t].pc = pc

Fails == failures < MaxFailures /\ failures' = failures + 1

Begins(t, jobs) ==
    runner' = [runner EXCEPT ![t] =
        [Waiting EXCEPT !.pc = "jobs", !.todo = jobs,
                        !.seen = [j \in PeakJobs |-> peakJob[j].runs]]]

-----------------------------------------------------------------------------
\* run_due_peak_hunter_jobs reads the jobs that are enabled and due
Tick ==
    /\ RunnerAt(Scheduler, "idle")
    /\ \E j \in PeakJobs : peakJob[j].due
    /\ Begins(Scheduler, {j \in PeakJobs : peakJob[j].due})
    /\ UNCHANGED <<committed, peakWriter, failures>>

\* run_peak_hunter_job_now
RunNow(t, j) ==
    /\ t # Scheduler /\ RunnerAt(t, "idle")
    /\ Begins(t, {j})
    /\ UNCHANGED <<committed, peakWriter, failures>>

\* expand_job_interfaces
StartJob(t, j) ==
    /\ RunnerAt(t, "jobs") /\ j \in runner[t].todo
    /\ \E n \in 0 .. Combinations :
         /\ n = 0 \/ runRows[j] + n <= MaxRuns
         /\ runner' = [runner EXCEPT ![t].pc = IF n = 0 THEN "update" ELSE "create",
                                     ![t].todo = @ \ {j}, ![t].job = j, ![t].left = n]
    /\ UNCHANGED <<committed, peakWriter, failures>>

\* slip: the lock is only taken to commit
CreateRunUnlocked(t) ==
    /\ RunnerAt(t, "create")
    /\ runner' = [runner EXCEPT ![t].pc = "analyse", ![t].runs[runner[t].job] = @ + 1]
    /\ UNCHANGED <<committed, peakWriter, failures>>

\* create_run: the first insertion of the transaction takes the lock
CreateRun(t) ==
    /\ RunnerAt(t, "create") /\ peakWriter \in {Free, t}
    /\ peakWriter' = t
    /\ runner' = [runner EXCEPT ![t].pc = "analyse", ![t].runs[runner[t].job] = @ + 1]
    /\ UNCHANGED <<committed, failures>>

Following(t) == IF runner[t].left = 1 THEN "update" ELSE "create"

\* duplicate_peak_analysis_id reads the cases committed and its own
Duplicate(t, p) == cases[p] + runner[t].found[p] > 0

\* run_job_combination; its errors are caught and recorded
Analyse(t) ==
    /\ RunnerAt(t, "analyse")
    /\ \/ runner' = [runner EXCEPT ![t].pc = Following(t), ![t].left = @ - 1]
       \/ \E p \in Peaks :
            /\ ~Duplicate(t, p)
            /\ runner' = [runner EXCEPT ![t].pc = Following(t), ![t].left = @ - 1,
                                        ![t].found[p] = @ + 1]
    /\ UNCHANGED <<committed, peakWriter, failures>>

\* the end of run_peak_hunter_job, in the same transaction
UpdateJob(t) ==
    /\ RunnerAt(t, "update") /\ peakWriter \in {Free, t}
    /\ peakWriter' = t
    /\ runner' = [runner EXCEPT ![t].pc = IF runner[t].todo = {} THEN "commit" ELSE "jobs",
                                ![t].done = @ \cup {runner[t].job}]
    /\ UNCHANGED <<committed, failures>>

\* slip: runs_count is what the job was read with, and the new runs
UpdatedAbsolute(t, j) ==
    [due |-> FALSE, runs |-> runner[t].seen[j] + runner[t].runs[j]]

\* slip: last_run_at is the time of the last case
UpdatedWithCase(t, j) ==
    [due |-> \A p \in Peaks : runner[t].found[p] = 0,
     runs |-> peakJob[j].runs + runner[t].runs[j]]

\* the UPDATE counts on from the row it finds
Updated(t, j) ==
    [due |-> FALSE, runs |-> peakJob[j].runs + runner[t].runs[j]]

Commit(t) ==
    /\ RunnerAt(t, "commit") /\ peakWriter \in {Free, t}
    /\ peakWriter' = Free
    /\ peakJob' = [j \in PeakJobs |->
                     IF j \in runner[t].done THEN Updated(t, j) ELSE peakJob[j]]
    /\ runRows' = [j \in PeakJobs |-> runRows[j] + runner[t].runs[j]]
    /\ cases' = [p \in Peaks |-> cases[p] + runner[t].found[p]]
    /\ runner' = [runner EXCEPT ![t] = Waiting]
    /\ UNCHANGED failures

\* the query of the interfaces raises, the lock is not had in 30 seconds, or
\* the process ends: all the thread has done is rolled back
Abandon(t) ==
    /\ Fails
    /\ ~RunnerAt(t, "idle")
    /\ runner' = [runner EXCEPT ![t] = Waiting]
    /\ peakWriter' = IF peakWriter = t THEN Free ELSE peakWriter
    /\ UNCHANGED committed

IntervalElapses(j) ==
    /\ ~peakJob[j].due /\ runRows[j] < MaxRuns
    /\ peakJob' = [peakJob EXCEPT ![j].due = TRUE]
    /\ UNCHANGED <<runRows, cases, runner, peakWriter, failures>>

-----------------------------------------------------------------------------
Runs(t) ==
    \/ CreateRun(t) \/ Analyse(t) \/ UpdateJob(t) \/ Commit(t)
    \/ \E j \in PeakJobs : StartJob(t, j)

PeakNext ==
    \/ Tick
    \/ \E t \in Runners : Runs(t) \/ Abandon(t) \/ \E j \in PeakJobs : RunNow(t, j)
    \/ \E j \in PeakJobs : IntervalElapses(j)

PeakSpec == PeakInit /\ [][PeakNext]_peakVars

(* The scheduler's loop goes on and transactions come to their end.  The    *)
(* lock is not fair: a writer that always finds others has to get it again  *)
(* and again.                                                               *)
PeakFairness == WF_peakVars(Tick) /\ \A t \in Runners : SF_peakVars(Runs(t))

PeakFairSpec == PeakSpec /\ PeakFairness

-----------------------------------------------------------------------------
(* Properties. *)

PeakTypeOK ==
    /\ \A j \in PeakJobs : peakJob[j].due \in BOOLEAN /\ peakJob[j].runs \in Nat
    /\ runRows \in [PeakJobs -> Nat] /\ cases \in [Peaks -> Nat]
    /\ peakWriter \in Runners \cup {Free}
    /\ \A t \in Runners :
         /\ runner[t].pc \in {"idle", "jobs", "create", "analyse", "update", "commit"}
         /\ runner[t].left \in 0 .. Combinations
         /\ RunnerAt(t, "analyse") => peakWriter = t
    /\ failures \in 0 .. MaxFailures

(* A peak becomes one case, however often its window is analysed: by        *)
(* overlapping lookbacks, by another job on the same interface, or by an    *)
(* operator beside the scheduler (duplicate_peak_analysis_id).              *)
PeakSavedOnce == \A p \in Peaks : cases[p] <= 1

(* runs_count, which paces the negative samples, is the number of runs that *)
(* were recorded, although each thread works on a job it read earlier.      *)
RunsAreCounted == \A j \in PeakJobs : peakJob[j].runs = runRows[j]

(* A job that is due is run in the end: what other jobs and operators do,   *)
(* and a transaction that is rolled back, only delay it.                    *)
DueJobRuns == \A j \in PeakJobs : peakJob[j].due ~> ~peakJob[j].due
=============================================================================
