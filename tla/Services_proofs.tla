---------------------------- MODULE Services_proofs ----------------------------
(***************************************************************************)
(* Peak Hunter saves a peak once and counts its runs, for any jobs, peaks, *)
(* runners and failures; the dashboard cache computes a key once and stays *)
(* within its budget, for any requests, keys, sizes and budgets; anomaly   *)
(* detection never ends an event it has just refreshed, for any threads,   *)
(* thresholds, delays and traffic.                                         *)
(***************************************************************************)
EXTENDS PeakHunterRunner, DashboardCache, AnomalyDetection, Integers, TLAPS,
        FiniteSetTheorems, WellFoundedInduction

-----------------------------------------------------------------------------
(* Natural numbers and sequences.                                           *)

(* The induction that the proofs use: a set of numbers has a least one, so  *)
(* what fails for some number fails for a least one.                        *)
LEMMA LeastNatural ==
  ASSUME NEW T \in SUBSET Nat, T # {}
  PROVE  \E a \in T : \A b \in T : a <= b
<1>1. PICK a \in T : \A b \in T : ~ (<<b, a>> \in OpToRel(<, Nat))
  BY NatLessThanWellFounded, WFMin, Zenon
<1>2. ASSUME NEW b \in T PROVE a <= b
  <2>1. <<b, a>> \notin OpToRel(<, Nat)
    BY <1>1
  <2>2. a \in Nat /\ b \in Nat
    OBVIOUS
  <2>3. ~(b < a)
    BY <2>1, <2>2, Zenon DEF OpToRel
  <2>. QED
    BY <2>2, <2>3
<1>. QED
  BY <1>1, <1>2

LEMMA CountTo ==
  ASSUME NEW n \in Nat
  PROVE  IsFiniteSet(1 .. n) /\ Cardinality(1 .. n) = n
<1>1. /\ IsFiniteSet(1 .. n)
      /\ Cardinality(1 .. n) = IF 1 > n THEN 0 ELSE n - 1 + 1
  BY FS_Interval
<1>. QED
  BY <1>1

(* Every finite set of numbers has an order, by induction over a bound: the *)
(* least bound of a set without one would not be the least.                 *)
HasOrder(places) ==
    \E f \in [1 .. Cardinality(places) -> places] : Increasing(f)

LEMMA OrderExists ==
  ASSUME NEW n \in Nat, NEW places \in SUBSET (1 .. n)
  PROVE  HasOrder(places)
<1>. DEFINE Ordered(m) == \A p \in SUBSET (1 .. m) : HasOrder(p)
            T == {m \in Nat : ~Ordered(m)}
<1>1. SUFFICES ASSUME T # {} PROVE FALSE
  <2>. HIDE DEF Ordered
  <2>. QED
    BY <1>1 DEF Ordered
<1>2. PICK m \in T : \A k \in T : m <= k
  <2>. HIDE DEF Ordered
  <2>. QED
    BY <1>1, LeastNatural
<1>3. m \in Nat /\ \A k \in Nat : k < m => Ordered(k)
  <2>. HIDE DEF Ordered
  <2>. QED
    BY <1>2
<1>4. PICK p \in SUBSET (1 .. m) : ~HasOrder(p)
  BY <1>2
<1>5. IsFiniteSet(p)
  <2>1. IsFiniteSet(1 .. m)
    BY <1>3, FS_Interval
  <2>. QED
    BY <2>1, FS_Subset
<1>6. CASE m = 0
  <2>1. p = {}
    BY <1>3, <1>6
  <2>2. Cardinality(p) = 0
    BY <2>1, FS_EmptySet
  <2>3. [i \in 1 .. 0 |-> 0] \in [1 .. Cardinality(p) -> p]
    BY <2>1, <2>2
  <2>4. Increasing([i \in 1 .. 0 |-> 0])
    BY DEF Increasing
  <2>. QED
    BY <1>4, <2>3, <2>4 DEF HasOrder
<1>7. CASE m # 0 /\ m \notin p
  <2>1. p \in SUBSET (1 .. m - 1) /\ m - 1 \in Nat /\ m - 1 < m
    BY <1>3, <1>7
  <2>2. Ordered(m - 1)
    BY <1>3, <2>1
  <2>. QED
    BY <1>4, <2>1, <2>2
<1>8. CASE m # 0 /\ m \in p
  <2>1. m - 1 \in Nat /\ p \ {m} \in SUBSET (1 .. m - 1) /\ m - 1 < m
    <3>1. m - 1 \in Nat /\ m - 1 < m
      BY <1>3, <1>8
    <3>2. \A i \in p \ {m} : i \in 1 .. m - 1
      BY <1>3
    <3>. QED
      BY <3>1, <3>2
  <2>2. Ordered(m - 1)
    BY <1>3, <2>1
  <2>3. PICK f \in [1 .. Cardinality(p \ {m}) -> p \ {m}] : Increasing(f)
    BY <2>1, <2>2 DEF HasOrder
  <2>. DEFINE c == Cardinality(p)
              g == [i \in 1 .. c |-> IF i < c THEN f[i] ELSE m]
  <2>4. c \in Nat /\ Cardinality(p \ {m}) = c - 1 /\ c - 1 \in Nat
    <3>1. IsFiniteSet(p \ {m}) /\ Cardinality(p \ {m}) = c - 1
      BY <1>5, <1>8, FS_RemoveElement
    <3>2. c \in Nat /\ Cardinality(p \ {m}) \in Nat
      BY <1>5, <3>1, FS_CardinalityType
    <3>. QED
      BY <3>1, <3>2
  <2>. HIDE DEF c, T, Ordered
  <2>5. ASSUME NEW i \in 1 .. c, i < c PROVE i \in 1 .. c - 1 /\ f[i] \in p \ {m} /\ f[i] < m
    <3>1. i \in 1 .. c - 1
      BY <2>4, <2>5
    <3>2. f[i] \in p \ {m} /\ f[i] \in 1 .. m - 1
      BY <2>1, <2>3, <2>4, <3>1
    <3>. QED
      BY <1>3, <3>1, <3>2
  <2>6. g \in [1 .. c -> p]
    BY <1>8, <2>5
  <2>7. ASSUME NEW i \in 1 .. c, NEW j \in 1 .. c, i < j PROVE g[i] < g[j]
    <3>1. i < c /\ i \in 1 .. c - 1 /\ g[i] = f[i] /\ f[i] < m
      <4>1. i < c
        BY <2>4, <2>7
      <4>. QED
        BY <2>5, <4>1
    <3>2. CASE j < c
      <4>1. j \in 1 .. c - 1 /\ g[j] = f[j]
        BY <2>4, <2>5, <3>2
      <4>. QED
        BY <2>3, <2>4, <2>7, <3>1, <4>1 DEF Increasing
    <3>3. CASE ~(j < c)
      BY <3>1, <3>3
    <3>. QED
      BY <3>2, <3>3
  <2>8. Increasing(g)
    BY <2>7 DEF Increasing
  <2>. QED
    BY <1>4, <2>6, <2>8 DEF HasOrder, c
<1>. QED
  BY <1>6, <1>7, <1>8

(* What is left of a sequence is its elements at the places that are kept,  *)
(* each once.                                                               *)
LEMMA LeftOrder ==
  ASSUME NEW S, NEW seq \in Seq(S), NEW places \in SUBSET DOMAIN seq
  PROVE  /\ Cardinality(places) \in Nat /\ Cardinality(places) <= Len(seq)
         /\ \E f \in [1 .. Cardinality(places) -> places] :
              /\ Increasing(f)
              /\ \A p \in places : \E i \in 1 .. Cardinality(places) : f[i] = p
              /\ LeftAt(seq, places) = [i \in 1 .. Cardinality(places) |-> seq[f[i]]]
<1>. DEFINE c == Cardinality(places)
            f == CHOOSE g \in [1 .. c -> places] : Increasing(g)
<1>1. places \in SUBSET (1 .. Len(seq)) /\ Len(seq) \in Nat
  OBVIOUS
<1>2. f \in [1 .. c -> places] /\ Increasing(f)
  BY <1>1, OrderExists DEF HasOrder
<1>3. IsFiniteSet(places) /\ c \in Nat /\ c <= Len(seq)
  <2>1. IsFiniteSet(1 .. Len(seq)) /\ Cardinality(1 .. Len(seq)) = Len(seq)
    BY <1>1, CountTo
  <2>. QED
    BY <1>1, <2>1, FS_Subset, FS_CardinalityType
<1>4. LeftAt(seq, places) = [i \in 1 .. c |-> seq[f[i]]]
  BY DEF LeftAt
<1>. HIDE DEF f
<1>5. \A p \in places : \E i \in 1 .. c : f[i] = p
  <2>1. \A i, j \in 1 .. c : f[i] = f[j] => i = j
    <3>1. ASSUME NEW i \in 1 .. c, NEW j \in 1 .. c, i < j PROVE f[i] # f[j]
      <4>1. f[i] < f[j] /\ f[i] \in Nat
        BY <1>1, <1>2, <3>1 DEF Increasing
      <4>. QED
        BY <4>1
    <3>. QED
      BY <1>3, <3>1
  <2>2. f \in Injection(1 .. c, places)
    BY <1>2, <2>1 DEF Injection, IsInjective
  <2>3. Cardinality(1 .. c) = c
    BY <1>3, FS_Interval
  <2>4. f \in Surjection(1 .. c, places)
    BY <1>3, <2>2, <2>3, FS_Injection
  <2>. QED
    BY <2>4 DEF Surjection
<1>. QED
  BY <1>2, <1>3, <1>4, <1>5

-----------------------------------------------------------------------------
(* Peak Hunter. *)

Counts(S) == [S -> Nat]

Runner ==
    [pc : {"idle", "jobs", "create", "analyse", "update", "commit"},
     todo : SUBSET PeakJobs, job : PeakJobs, left : Int,
     seen : Counts(PeakJobs), runs : Counts(PeakJobs), done : SUBSET PeakJobs,
     found : Counts(Peaks)]

PeakTyped ==
    /\ peakJob \in [PeakJobs -> [due : BOOLEAN, runs : Nat]]
    /\ runRows \in Counts(PeakJobs) /\ cases \in Counts(Peaks)
    /\ runner \in [Runners -> Runner]

\* nothing is uncommitted
Clean(t) ==
    /\ runner[t].done = {} /\ runner[t].pc \notin {"analyse", "commit"}
    /\ \A j \in PeakJobs : runner[t].runs[j] = 0
    /\ \A p \in Peaks : runner[t].found[p] = 0

\* uncommitted runs are those of a job that is done or in hand
RunsOfDone(t) ==
    \A j \in PeakJobs : runner[t].runs[j] > 0 =>
        \/ j \in runner[t].done
        \/ runner[t].pc \in {"create", "analyse", "update"} /\ j = runner[t].job

NewPeaks(t) == \A p \in Peaks : cases[p] + runner[t].found[p] <= 1

\* what a thread is about to commit, and only the one that holds the lock
RunnerInv(t) ==
    /\ peakWriter # t => Clean(t)
    /\ RunsOfDone(t)
    /\ NewPeaks(t)

PeakInv ==
    /\ PeakTyped
    /\ \A t \in Runners : RunnerInv(t)
    /\ RunsAreCounted

LEMMA WaitingTyped ==
  /\ Waiting \in Runner /\ Waiting.done = {} /\ Waiting.pc = "idle"
  /\ Waiting.runs = None /\ Waiting.found = [p \in Peaks |-> 0]
<1>1. (CHOOSE j \in PeakJobs : TRUE) \in PeakJobs
  BY PeakAssumption
<1>2. None \in Counts(PeakJobs) /\ [p \in Peaks |-> 0] \in Counts(Peaks)
  BY DEF None, Counts
<1>. QED
  BY <1>1, <1>2 DEF Waiting, Runner

LEMMA BegunTyped ==
  ASSUME PeakTyped, NEW t \in Runners, NEW jobs \in SUBSET PeakJobs
  PROVE  LET begun == [Waiting EXCEPT !.pc = "jobs", !.todo = jobs,
                         !.seen = [j \in PeakJobs |-> peakJob[j].runs]]
         IN  /\ begun \in Runner /\ begun.done = {} /\ begun.pc = "jobs"
             /\ begun.runs = None /\ begun.found = [p \in Peaks |-> 0]
<1>1. [j \in PeakJobs |-> peakJob[j].runs] \in Counts(PeakJobs)
  BY DEF PeakTyped, Counts
<1>. QED
  BY <1>1, WaitingTyped DEF Runner

\* a thread that begins, or ends without a commit
LEMMA FreshKeeps ==
  ASSUME PeakInv, NEW t \in Runners, NEW fresh \in Runner,
         fresh.done = {}, fresh.pc \in {"idle", "jobs"}, fresh.runs = None,
         fresh.found = [p \in Peaks |-> 0],
         runner' = [runner EXCEPT ![t] = fresh], UNCHANGED committed,
         peakWriter' = peakWriter \/ (peakWriter = t /\ peakWriter' = Free)
  PROVE  PeakInv'
<1>1. PeakTyped'
  BY DEF PeakInv, PeakTyped, committed
<1>2. RunnerInv(t)'
  <2>1. runner'[t] = fresh
    BY DEF PeakInv, PeakTyped
  <2>2. /\ \A j \in PeakJobs : fresh.runs[j] = 0
        /\ \A p \in Peaks : fresh.found[p] = 0 /\ cases[p] \in Nat /\ runner[t].found[p] \in Nat
    BY DEF None, PeakInv, PeakTyped, Counts, Runner
  <2>3. \A p \in Peaks : cases[p] <= 1
    BY <2>2 DEF PeakInv, RunnerInv, NewPeaks
  <2>. QED
    BY <2>1, <2>2, <2>3 DEF RunnerInv, Clean, RunsOfDone, NewPeaks, committed
<1>3. ASSUME NEW u \in Runners, u # t
      PROVE  RunnerInv(u)'
  <2>1. runner'[u] = runner[u] /\ RunnerInv(u)
    BY <1>3 DEF PeakInv, PeakTyped
  <2>2. peakWriter' # u => peakWriter # u
    BY <1>3
  <2>3. Clean(u) => Clean(u)'
    BY <2>1 DEF Clean
  <2>4. RunsOfDone(u)' /\ NewPeaks(u)'
    BY <2>1 DEF RunnerInv, RunsOfDone, NewPeaks, committed
  <2>. QED
    BY <2>1, <2>2, <2>3, <2>4 DEF RunnerInv
<1>4. RunsAreCounted'
  BY DEF PeakInv, RunsAreCounted, committed
<1>. QED
  BY <1>1, <1>2, <1>3, <1>4 DEF PeakInv

\* a thread whose transaction goes on; the lock may pass to it when it is free
LEMMA StepKeeps ==
  ASSUME PeakInv, NEW t \in Runners, NEW next \in Runner,
         runner' = [runner EXCEPT ![t] = next], UNCHANGED committed,
         \/ peakWriter' = peakWriter
         \/ peakWriter \in {Free, t} /\ peakWriter' = t,
         peakWriter' # t =>
           /\ next.done = {} /\ next.pc \notin {"analyse", "commit"}
           /\ \A j \in PeakJobs : next.runs[j] = 0
           /\ \A p \in Peaks : next.found[p] = 0,
         \A j \in PeakJobs : next.runs[j] > 0 =>
           \/ j \in next.done
           \/ next.pc \in {"create", "analyse", "update"} /\ j = next.job,
         \A p \in Peaks : cases[p] + next.found[p] <= 1
  PROVE  PeakInv'
<1>1. PeakTyped'
  BY DEF PeakInv, PeakTyped, committed
<1>2. runner'[t] = next
  BY DEF PeakInv, PeakTyped
<1>3. Clean(t)' \/ peakWriter' = t
  BY <1>2 DEF Clean
<1>4. RunsOfDone(t)' /\ NewPeaks(t)'
  BY <1>2 DEF RunsOfDone, NewPeaks, committed
<1>5. RunnerInv(t)'
  BY <1>3, <1>4 DEF RunnerInv
<1>6. ASSUME NEW u \in Runners, u # t
      PROVE  RunnerInv(u)'
  <2>1. runner'[u] = runner[u] /\ RunnerInv(u)
    BY <1>6 DEF PeakInv, PeakTyped
  <2>2. peakWriter' # u => peakWriter # u
    BY <1>6, PeakAssumption
  <2>3. Clean(u) => Clean(u)'
    BY <2>1 DEF Clean
  <2>4. RunsOfDone(u)' /\ NewPeaks(u)'
    BY <2>1 DEF RunnerInv, RunsOfDone, NewPeaks, committed
  <2>. QED
    BY <2>1, <2>2, <2>3, <2>4 DEF RunnerInv
<1>7. RunsAreCounted'
  BY DEF PeakInv, RunsAreCounted, committed
<1>. QED
  BY <1>1, <1>5, <1>6, <1>7 DEF PeakInv

LEMMA BeginKeeps ==
  ASSUME PeakInv, Tick \/ \E t \in Runners, j \in PeakJobs : RunNow(t, j)
  PROVE  PeakInv'
<1>1. ASSUME NEW t \in Runners, NEW jobs \in SUBSET PeakJobs, Begins(t, jobs),
             UNCHANGED <<committed, peakWriter>>
      PROVE  PeakInv'
  <2>. DEFINE begun == [Waiting EXCEPT !.pc = "jobs", !.todo = jobs,
                          !.seen = [j \in PeakJobs |-> peakJob[j].runs]]
  <2>1. /\ begun \in Runner /\ begun.done = {} /\ begun.pc = "jobs"
        /\ begun.runs = None /\ begun.found = [p \in Peaks |-> 0]
    BY BegunTyped DEF PeakInv
  <2>2. runner' = [runner EXCEPT ![t] = begun]
    BY <1>1 DEF Begins
  <2>3. /\ UNCHANGED committed /\ peakWriter' = peakWriter
    BY <1>1
  <2>. HIDE DEF begun
  <2>. QED
    BY <2>1, <2>2, <2>3, FreshKeeps
<1>2. CASE Tick
  BY <1>1, <1>2, PeakAssumption DEF Tick
<1>3. CASE \E t \in Runners, j \in PeakJobs : RunNow(t, j)
  BY <1>1, <1>3 DEF RunNow
<1>. QED
  BY <1>2, <1>3

LEMMA AbandonKeeps ==
  ASSUME PeakInv, NEW t \in Runners, Abandon(t)
  PROVE  PeakInv'
<1>1. /\ runner' = [runner EXCEPT ![t] = Waiting] /\ UNCHANGED committed
      /\ peakWriter' = peakWriter \/ (peakWriter = t /\ peakWriter' = Free)
  BY DEF Abandon
<1>. QED
  BY <1>1, WaitingTyped, FreshKeeps

LEMMA StartJobKeeps ==
  ASSUME PeakInv, NEW t \in Runners, NEW j \in PeakJobs, StartJob(t, j)
  PROVE  PeakInv'
<1>1. PICK n \in 0 .. Combinations :
        runner' = [runner EXCEPT ![t].pc = IF n = 0 THEN "update" ELSE "create",
                                 ![t].todo = @ \ {j}, ![t].job = j, ![t].left = n]
  BY DEF StartJob
<1>. DEFINE next == [runner[t] EXCEPT !.pc = IF n = 0 THEN "update" ELSE "create",
                                      !.todo = @ \ {j}, !.job = j, !.left = n]
<1>2. runner[t] \in Runner /\ RunnerInv(t) /\ runner[t].pc = "jobs"
  BY DEF PeakInv, PeakTyped, StartJob, RunnerAt
<1>3. /\ next \in Runner /\ next.done = runner[t].done /\ next.runs = runner[t].runs
      /\ next.found = runner[t].found /\ next.pc \in {"update", "create"}
  <2>. DEFINE pc == IF n = 0 THEN "update" ELSE "create"
              todo == runner[t].todo \ {j}
  <2>1. /\ n \in Int /\ todo \in SUBSET PeakJobs /\ pc \in {"update", "create"}
    BY <1>2, PeakAssumption DEF Runner
  <2>2. next = [runner[t] EXCEPT !.pc = pc, !.todo = todo, !.job = j, !.left = n]
    BY <1>2 DEF Runner
  <2>. HIDE DEF next, pc, todo
  <2>. QED
    BY <1>2, <2>1, <2>2 DEF Runner
<1>4. runner' = [runner EXCEPT ![t] = next]
  BY <1>1
<1>5. UNCHANGED <<committed, peakWriter>>
  BY DEF StartJob
<1>. HIDE DEF next
<1>6. /\ peakWriter # t => /\ next.done = {} /\ next.pc \notin {"analyse", "commit"}
                           /\ \A i \in PeakJobs : next.runs[i] = 0
                           /\ \A p \in Peaks : next.found[p] = 0
      /\ \A i \in PeakJobs : next.runs[i] > 0 => i \in next.done
      /\ \A p \in Peaks : cases[p] + next.found[p] <= 1
  BY <1>2, <1>3 DEF RunnerInv, Clean, RunsOfDone, NewPeaks
<1>. QED
  BY <1>3, <1>4, <1>5, <1>6, StepKeeps

LEMMA CreateRunKeeps ==
  ASSUME PeakInv, NEW t \in Runners, CreateRun(t)
  PROVE  PeakInv'
<1>. DEFINE next == [runner[t] EXCEPT !.pc = "analyse", !.runs[runner[t].job] = @ + 1]
<1>1. runner[t] \in Runner /\ RunnerInv(t) /\ runner[t].pc = "create"
  BY DEF PeakInv, PeakTyped, CreateRun, RunnerAt
<1>2. /\ next \in Runner /\ next.done = runner[t].done /\ next.job = runner[t].job
      /\ next.found = runner[t].found /\ next.pc = "analyse"
      /\ \A j \in PeakJobs : j # next.job => next.runs[j] = runner[t].runs[j]
  <2>. DEFINE runs == [runner[t].runs EXCEPT ![runner[t].job] = @ + 1]
  <2>1. runner[t].runs \in [PeakJobs -> Nat] /\ runner[t].job \in PeakJobs
    BY <1>1 DEF Runner, Counts
  <2>2. runs \in Counts(PeakJobs)
        /\ \A j \in PeakJobs : j # runner[t].job => runs[j] = runner[t].runs[j]
    BY <2>1 DEF Counts
  <2>3. next = [runner[t] EXCEPT !.pc = "analyse", !.runs = runs]
    BY <1>1 DEF Runner
  <2>. HIDE DEF next, runs
  <2>. QED
    BY <1>1, <2>2, <2>3 DEF Runner
<1>3. runner' = [runner EXCEPT ![t] = next]
  BY DEF CreateRun
<1>4. UNCHANGED committed /\ peakWriter \in {Free, t} /\ peakWriter' = t
  BY DEF CreateRun
<1>. HIDE DEF next
<1>5. \A j \in PeakJobs : next.runs[j] > 0 => j \in next.done \/ j = next.job
  BY <1>1, <1>2 DEF RunnerInv, RunsOfDone
<1>6. \A p \in Peaks : cases[p] + next.found[p] <= 1
  BY <1>1, <1>2 DEF RunnerInv, NewPeaks
<1>. QED
  BY <1>2, <1>3, <1>4, <1>5, <1>6, StepKeeps

LEMMA AnalyseKeeps ==
  ASSUME PeakInv, NEW t \in Runners, Analyse(t)
  PROVE  PeakInv'
<1>1. runner[t] \in Runner /\ RunnerInv(t) /\ runner[t].pc = "analyse" /\ peakWriter = t
  BY DEF PeakInv, PeakTyped, Analyse, RunnerAt, RunnerInv, Clean
<1>2. UNCHANGED <<committed, peakWriter>> /\ Following(t) \in {"update", "create"}
  BY DEF Analyse, Following
<1>3. ASSUME NEW found \in Counts(Peaks), \A p \in Peaks : cases[p] + found[p] <= 1,
             runner' = [runner EXCEPT ![t] = [runner[t] EXCEPT !.pc = Following(t),
                                                !.left = @ - 1, !.found = found]]
      PROVE  PeakInv'
  <2>. DEFINE next == [runner[t] EXCEPT !.pc = Following(t), !.left = @ - 1, !.found = found]
  <2>1. /\ next \in Runner /\ next.done = runner[t].done /\ next.job = runner[t].job
        /\ next.found = found /\ next.pc \in {"update", "create"}
        /\ next.runs = runner[t].runs
    <3>. DEFINE left == runner[t].left - 1
    <3>1. left \in Int
      BY <1>1 DEF Runner
    <3>2. next = [runner[t] EXCEPT !.pc = Following(t), !.left = left, !.found = found]
      BY <1>1 DEF Runner
    <3>. HIDE DEF next, left
    <3>. QED
      BY <1>1, <1>2, <1>3, <3>1, <3>2 DEF Runner
  <2>2. runner' = [runner EXCEPT ![t] = next]
    BY <1>3
  <2>. HIDE DEF next
  <2>. QED
    BY <1>1, <1>2, <1>3, <2>1, <2>2, StepKeeps DEF RunnerInv, RunsOfDone
<1>4. CASE runner' = [runner EXCEPT ![t].pc = Following(t), ![t].left = @ - 1]
  <2>1. runner[t].found \in Counts(Peaks) /\ \A p \in Peaks : cases[p] + runner[t].found[p] <= 1
    BY <1>1 DEF Runner, RunnerInv, NewPeaks
  <2>2. runner' = [runner EXCEPT ![t] = [runner[t] EXCEPT !.pc = Following(t),
                                           !.left = @ - 1, !.found = runner[t].found]]
    BY <1>1, <1>4 DEF Runner
  <2>. QED
    BY <1>3, <2>1, <2>2
<1>5. ASSUME NEW p \in Peaks, ~Duplicate(t, p),
             runner' = [runner EXCEPT ![t].pc = Following(t), ![t].left = @ - 1,
                                      ![t].found[p] = @ + 1]
      PROVE  PeakInv'
  <2>. DEFINE found == [runner[t].found EXCEPT ![p] = @ + 1]
  <2>1. runner[t].found \in Counts(Peaks) /\ cases \in Counts(Peaks)
    BY <1>1 DEF Runner, PeakInv, PeakTyped
  <2>2. found \in Counts(Peaks) /\ \A q \in Peaks : cases[q] + found[q] <= 1
    BY <1>1, <1>5, <2>1 DEF Counts, Duplicate, RunnerInv, NewPeaks
  <2>3. runner' = [runner EXCEPT ![t] = [runner[t] EXCEPT !.pc = Following(t),
                                           !.left = @ - 1, !.found = found]]
    BY <1>5
  <2>. HIDE DEF found
  <2>. QED
    BY <1>3, <2>2, <2>3
<1>. QED
  BY <1>4, <1>5 DEF Analyse

LEMMA UpdateJobKeeps ==
  ASSUME PeakInv, NEW t \in Runners, UpdateJob(t)
  PROVE  PeakInv'
<1>. DEFINE next == [runner[t] EXCEPT !.pc = IF runner[t].todo = {} THEN "commit" ELSE "jobs",
                                      !.done = @ \cup {runner[t].job}]
<1>1. runner[t] \in Runner /\ RunnerInv(t) /\ runner[t].pc = "update"
  BY DEF PeakInv, PeakTyped, UpdateJob, RunnerAt
<1>2. /\ next \in Runner /\ next.done = runner[t].done \cup {runner[t].job}
      /\ next.found = runner[t].found /\ next.runs = runner[t].runs
  BY <1>1 DEF Runner
<1>3. runner' = [runner EXCEPT ![t] = next]
  BY DEF UpdateJob
<1>4. UNCHANGED committed /\ peakWriter \in {Free, t} /\ peakWriter' = t
  BY DEF UpdateJob
<1>. HIDE DEF next
<1>. QED
  BY <1>1, <1>2, <1>3, <1>4, StepKeeps DEF RunnerInv, RunsOfDone, NewPeaks

LEMMA CommitKeeps ==
  ASSUME PeakInv, NEW t \in Runners, Commit(t)
  PROVE  PeakInv'
<1>1. /\ runner[t] \in Runner /\ RunnerInv(t) /\ runner[t].pc = "commit" /\ peakWriter = t
      /\ PeakTyped /\ RunsAreCounted
  BY DEF PeakInv, PeakTyped, Commit, RunnerAt, RunnerInv, Clean
<1>2. /\ runner' = [runner EXCEPT ![t] = Waiting] /\ peakWriter' = Free
      /\ peakJob' = [j \in PeakJobs |->
                       IF j \in runner[t].done THEN Updated(t, j) ELSE peakJob[j]]
      /\ runRows' = [j \in PeakJobs |-> runRows[j] + runner[t].runs[j]]
      /\ cases' = [p \in Peaks |-> cases[p] + runner[t].found[p]]
  BY DEF Commit
<1>3. PeakTyped'
  <2>1. /\ \A j \in PeakJobs : runRows[j] \in Nat /\ runner[t].runs[j] \in Nat
        /\ \A p \in Peaks : cases[p] \in Nat /\ runner[t].found[p] \in Nat
        /\ \A j \in PeakJobs : peakJob[j].due \in BOOLEAN /\ peakJob[j].runs \in Nat
    BY <1>1 DEF PeakTyped, Runner, Counts
  <2>2. runRows' \in Counts(PeakJobs) /\ cases' \in Counts(Peaks)
    BY <1>2, <2>1 DEF Counts
  <2>3. \A j \in PeakJobs : Updated(t, j) \in [due : BOOLEAN, runs : Nat]
    BY <2>1 DEF Updated
  <2>4. peakJob' \in [PeakJobs -> [due : BOOLEAN, runs : Nat]]
    BY <1>1, <1>2, <2>3 DEF PeakTyped
  <2>5. runner' \in [Runners -> Runner]
    BY <1>1, <1>2, WaitingTyped DEF PeakTyped
  <2>. QED
    BY <2>2, <2>4, <2>5 DEF PeakTyped
<1>4. \A p \in Peaks : cases'[p] \in Nat /\ cases'[p] <= 1
  BY <1>1, <1>2, <1>3 DEF RunnerInv, NewPeaks, PeakTyped, Counts
<1>5. ASSUME NEW u \in Runners
      PROVE  RunnerInv(u)'
  <2>1. Clean(u)'
    <3>1. CASE u = t
      <4>1. runner'[u] = Waiting
        BY <1>1, <1>2, <3>1 DEF PeakTyped
      <4>. QED
        BY <4>1, WaitingTyped DEF Clean, None
    <3>2. CASE u # t
      <4>1. runner'[u] = runner[u] /\ Clean(u)
        BY <1>1, <1>2, <3>2 DEF PeakTyped, PeakInv, RunnerInv
      <4>. QED
        BY <4>1 DEF Clean
    <3>. QED
      BY <3>1, <3>2
  <2>. QED
    BY <1>4, <2>1 DEF RunnerInv, Clean, RunsOfDone, NewPeaks
<1>6. RunsAreCounted'
  <2>1. ASSUME NEW j \in PeakJobs
        PROVE  peakJob'[j].runs = runRows'[j]
    <3>1. /\ peakJob[j].runs = runRows[j] /\ runner[t].runs[j] \in Nat
          /\ runRows[j] \in Nat
      BY <1>1 DEF RunsAreCounted, PeakTyped, Runner, Counts
    <3>2. CASE j \in runner[t].done
      BY <1>2, <3>1, <3>2 DEF Updated
    <3>3. CASE j \notin runner[t].done
      BY <1>1, <1>2, <3>1, <3>3 DEF RunnerInv, RunsOfDone
    <3>. QED
      BY <3>2, <3>3
  <2>. QED
    BY <2>1 DEF RunsAreCounted
<1>. QED
  BY <1>3, <1>5, <1>6 DEF PeakInv

LEMMA IntervalKeeps ==
  ASSUME PeakInv, NEW j \in PeakJobs, IntervalElapses(j)
  PROVE  PeakInv'
<1>1. /\ peakJob' = [peakJob EXCEPT ![j].due = TRUE]
      /\ UNCHANGED <<runRows, cases, runner, peakWriter>>
  BY DEF IntervalElapses
<1>2. /\ peakJob' \in [PeakJobs -> [due : BOOLEAN, runs : Nat]]
      /\ \A i \in PeakJobs : peakJob'[i].runs = peakJob[i].runs
  BY <1>1 DEF PeakInv, PeakTyped
<1>. QED
  BY <1>1, <1>2 DEF PeakInv, PeakTyped, RunnerInv, Clean, RunsOfDone, NewPeaks, RunsAreCounted

LEMMA PeakStep == PeakInv /\ [PeakNext]_peakVars => PeakInv'
<1>. SUFFICES ASSUME PeakInv, [PeakNext]_peakVars
              PROVE  PeakInv'
  OBVIOUS
<1>1. ASSUME NEW t \in Runners, Runs(t)
      PROVE  PeakInv'
  BY <1>1, CreateRunKeeps, AnalyseKeeps, UpdateJobKeeps, CommitKeeps, StartJobKeeps DEF Runs
<1>2. CASE UNCHANGED peakVars
  BY <1>2 DEF peakVars, PeakInv, PeakTyped, RunnerInv, Clean, RunsOfDone, NewPeaks,
              RunsAreCounted
<1>. QED
  BY <1>1, <1>2, BeginKeeps, AbandonKeeps, IntervalKeeps DEF PeakNext

LEMMA PeakStarts == PeakInit => PeakInv
<1>. SUFFICES ASSUME PeakInit
              PROVE  PeakInv
  OBVIOUS
<1>1. /\ runner = [t \in Runners |-> Waiting] /\ runRows = None
      /\ cases = [p \in Peaks |-> 0] /\ peakJob \in [PeakJobs -> [due : BOOLEAN, runs : {0}]]
  BY DEF PeakInit
<1>2. PeakTyped
  BY <1>1, WaitingTyped DEF PeakTyped, None, Counts
<1>3. ASSUME NEW t \in Runners
      PROVE  Clean(t) /\ NewPeaks(t)
  BY <1>1, WaitingTyped DEF Clean, None, NewPeaks
<1>4. \A t \in Runners : RunnerInv(t)
  BY <1>3 DEF RunnerInv, RunsOfDone, Clean
<1>5. RunsAreCounted
  BY <1>1 DEF RunsAreCounted, None
<1>. QED
  BY <1>2, <1>4, <1>5 DEF PeakInv

(* A peak becomes one case: only the thread that holds the writer lock has *)
(* cases and runs to commit, so that what duplicate_peak_analysis_id reads *)
(* is still true when run_peak_hunter_job commits.                         *)
THEOREM SavedOnce == PeakSpec => []PeakSavedOnce
<1>1. PeakInv => PeakSavedOnce
  <2>. SUFFICES ASSUME PeakInv, NEW p \in Peaks
                PROVE  cases[p] <= 1
    BY DEF PeakSavedOnce
  <2>1. /\ NewPeaks(Scheduler) /\ runner[Scheduler].found[p] \in Nat /\ cases[p] \in Nat
    BY PeakAssumption DEF PeakInv, RunnerInv, PeakTyped, Runner, Counts
  <2>. QED
    BY <2>1 DEF NewPeaks
<1>. QED
  BY <1>1, PeakStarts, PeakStep, PTL DEF PeakSpec

(* runs_count is the number of the runs that were recorded: the UPDATE      *)
(* counts on from the row it finds, and every run created in a transaction *)
(* is of a job that the same transaction updates.                          *)
THEOREM RunsCounted == PeakSpec => []RunsAreCounted
<1>1. PeakInv => RunsAreCounted
  BY DEF PeakInv
<1>. QED
  BY <1>1, PeakStarts, PeakStep, PTL DEF PeakSpec

(* Where a run stands within the combinations of its job. *)
InCombinations(left, pc) ==
    /\ left \in 0 .. Combinations
    /\ pc \in {"create", "analyse"} => left # 0

PeakBounds ==
    /\ peakWriter \in Runners \cup {Free} /\ failures \in 0 .. MaxFailures
    /\ \A t \in Runners : InCombinations(runner[t].left, runner[t].pc)

LEMMA BoundsMove ==
  ASSUME PeakInv, PeakBounds, NEW t \in Runners, NEW next,
         runner' = [runner EXCEPT ![t] = next], InCombinations(next.left, next.pc),
         peakWriter' \in {peakWriter, t, Free}, failures' = failures \/ Fails
  PROVE  PeakBounds'
<1>1. failures' \in 0 .. MaxFailures
  BY PeakAssumption DEF PeakBounds, Fails
<1>2. peakWriter' \in Runners \cup {Free}
  BY DEF PeakBounds
<1>3. ASSUME NEW u \in Runners
      PROVE  InCombinations(runner'[u].left, runner'[u].pc)
  <2>1. runner'[u] = IF u = t THEN next ELSE runner[u]
    BY DEF PeakInv, PeakTyped
  <2>. QED
    BY <2>1 DEF PeakBounds
<1>. QED
  BY <1>1, <1>2, <1>3 DEF PeakBounds

LEMMA WaitingBounds == InCombinations(Waiting.left, Waiting.pc)
BY PeakAssumption DEF InCombinations, Waiting

LEMMA BeginBounds ==
  ASSUME PeakInv, PeakBounds, Tick \/ \E t \in Runners, j \in PeakJobs : RunNow(t, j)
  PROVE  PeakBounds'
<1>1. PICK t \in Runners, jobs \in SUBSET PeakJobs : Begins(t, jobs)
  BY PeakAssumption, {j \in PeakJobs : peakJob[j].due} \in SUBSET PeakJobs DEF Tick, RunNow
<1>. DEFINE begun == [Waiting EXCEPT !.pc = "jobs", !.todo = jobs,
                                     !.seen = [j \in PeakJobs |-> peakJob[j].runs]]
<1>2. begun.left = 0 /\ begun.pc = "jobs"
  BY DEF Waiting
<1>3. runner' = [runner EXCEPT ![t] = begun] /\ UNCHANGED <<peakWriter, failures>>
  BY <1>1 DEF Begins, Tick, RunNow
<1>. HIDE DEF begun
<1>4. InCombinations(begun.left, begun.pc)
  BY <1>2, PeakAssumption DEF InCombinations
<1>. QED
  BY <1>3, <1>4, BoundsMove

LEMMA StartJobBounds ==
  ASSUME PeakInv, PeakBounds, NEW t \in Runners, NEW j \in PeakJobs, StartJob(t, j)
  PROVE  PeakBounds'
<1>1. runner[t] \in Runner /\ UNCHANGED <<peakWriter, failures>>
  BY DEF PeakInv, PeakTyped, StartJob
<1>2. PICK n \in 0 .. Combinations :
        runner' = [runner EXCEPT ![t].pc = IF n = 0 THEN "update" ELSE "create",
                                 ![t].todo = @ \ {j}, ![t].job = j, ![t].left = n]
  BY DEF StartJob
<1>. DEFINE next == [runner[t] EXCEPT !.pc = IF n = 0 THEN "update" ELSE "create",
                                      !.todo = @ \ {j}, !.job = j, !.left = n]
<1>3. next.left = n /\ next.pc = IF n = 0 THEN "update" ELSE "create"
  BY <1>1 DEF Runner
<1>4. runner' = [runner EXCEPT ![t] = next]
  BY <1>2
<1>. HIDE DEF next
<1>. QED
  BY <1>1, <1>3, <1>4, BoundsMove DEF InCombinations

LEMMA RunBounds ==
  ASSUME PeakInv, PeakBounds, NEW t \in Runners,
         CreateRun(t) \/ UpdateJob(t) \/ Commit(t) \/ Abandon(t)
  PROVE  PeakBounds'
<1>1. runner[t] \in Runner /\ InCombinations(runner[t].left, runner[t].pc)
  BY DEF PeakInv, PeakTyped, PeakBounds
<1>2. CASE CreateRun(t)
  <2>. DEFINE next == [runner[t] EXCEPT !.pc = "analyse", !.runs[runner[t].job] = @ + 1]
  <2>1. next.left = runner[t].left
    BY <1>1 DEF Runner
  <2>2. runner[t].pc = "create" /\ runner' = [runner EXCEPT ![t] = next]
        /\ peakWriter' = t /\ UNCHANGED failures
    BY <1>2 DEF CreateRun, RunnerAt
  <2>. HIDE DEF next
  <2>. QED
    BY <1>1, <2>1, <2>2, BoundsMove DEF InCombinations
<1>3. CASE UpdateJob(t)
  <2>. DEFINE next == [runner[t] EXCEPT !.pc = IF runner[t].todo = {} THEN "commit" ELSE "jobs",
                                        !.done = @ \cup {runner[t].job}]
  <2>1. next.left = runner[t].left /\ next.pc \in {"commit", "jobs"}
    BY <1>1 DEF Runner
  <2>2. runner' = [runner EXCEPT ![t] = next] /\ peakWriter' = t /\ UNCHANGED failures
    BY <1>3 DEF UpdateJob
  <2>. HIDE DEF next
  <2>. QED
    BY <1>1, <2>1, <2>2, BoundsMove DEF InCombinations
<1>4. CASE Commit(t) \/ Abandon(t)
  BY <1>4, WaitingTyped, WaitingBounds, BoundsMove DEF Commit, Abandon
<1>. QED
  BY <1>2, <1>3, <1>4

LEMMA AnalyseBounds ==
  ASSUME PeakInv, PeakBounds, NEW t \in Runners, Analyse(t)
  PROVE  PeakBounds'
<1>1. /\ runner[t].left \in 1 .. Combinations /\ UNCHANGED <<peakWriter, failures>>
      /\ runner[t] \in Runner
  BY DEF PeakInv, PeakTyped, PeakBounds, InCombinations, Analyse, RunnerAt
<1>2. /\ Following(t) \in {"update", "create"}
      /\ Following(t) = "create" => runner[t].left # 1
  BY DEF Following
<1>3. /\ runner'[t].left = runner[t].left - 1 /\ runner'[t].pc = Following(t)
      /\ \A u \in Runners : u # t => runner'[u] = runner[u]
  BY <1>1 DEF Analyse, PeakInv, PeakTyped, Runner
<1>4. InCombinations(runner'[t].left, runner'[t].pc)
  BY <1>1, <1>2, <1>3, PeakAssumption DEF InCombinations
<1>. QED
  BY <1>1, <1>3, <1>4 DEF PeakBounds

LEMMA BoundsStep == PeakInv /\ PeakBounds /\ [PeakNext]_peakVars => PeakBounds'
<1>. SUFFICES ASSUME PeakInv, PeakBounds, [PeakNext]_peakVars
              PROVE  PeakBounds'
  OBVIOUS
<1>1. ASSUME NEW t \in Runners, Runs(t)
      PROVE  PeakBounds'
  BY <1>1, RunBounds, AnalyseBounds, StartJobBounds DEF Runs
<1>2. CASE UNCHANGED <<runner, peakWriter, failures>>
  BY <1>2 DEF PeakBounds
<1>3. CASE UNCHANGED peakVars
  BY <1>2, <1>3 DEF peakVars
<1>4. ASSUME NEW j \in PeakJobs, IntervalElapses(j)
      PROVE  PeakBounds'
  BY <1>2, <1>4 DEF IntervalElapses
<1>. QED
  BY <1>1, <1>3, <1>4, BeginBounds, RunBounds DEF PeakNext

(* The rows of Peak Hunter, its threads and its writer lock keep their      *)
(* types: a thread that analyses holds the lock its create_run took, and   *)
(* never goes past the combinations of its job.                            *)
THEOREM PeakTypeCorrect == PeakSpec => []PeakTypeOK
<1>1. PeakInit => PeakInv /\ PeakBounds
  <2>. SUFFICES ASSUME PeakInit PROVE PeakBounds
    BY PeakStarts
  <2>1. \A t \in Runners : runner[t] = Waiting
    BY DEF PeakInit
  <2>. QED
    BY <2>1, WaitingBounds, PeakAssumption DEF PeakInit, PeakBounds
<1>2. PeakInv /\ PeakBounds => PeakTypeOK
  <2>. SUFFICES ASSUME PeakInv, PeakBounds PROVE PeakTypeOK
    OBVIOUS
  <2>1. \A j \in PeakJobs : peakJob[j].due \in BOOLEAN /\ peakJob[j].runs \in Nat
    BY DEF PeakInv, PeakTyped
  <2>2. \A t \in Runners :
          /\ runner[t].pc \in {"idle", "jobs", "create", "analyse", "update", "commit"}
          /\ runner[t].left \in 0 .. Combinations
          /\ RunnerAt(t, "analyse") => peakWriter = t
    BY DEF PeakInv, PeakTyped, Runner, RunnerInv, Clean, RunnerAt, PeakBounds, InCombinations
  <2>. QED
    BY <2>1, <2>2 DEF PeakTypeOK, PeakInv, PeakTyped, Counts, PeakBounds
<1>. QED
  BY <1>1, <1>2, PeakStep, BoundsStep, PTL DEF PeakSpec

-----------------------------------------------------------------------------
(* The dashboard cache. *)

Pcs == {"idle", "lookup", "reserve", "wait", "stranded", "compute", "size", "store",
        "publish"}

\* a request from the beginning of its computation to the end of its publication
Working(t) == request[t].pc \in {"compute", "size", "store", "publish"}

FlightTyped ==
    /\ flight \in [CacheKeys -> Requests \cup {Nobody}]
    /\ request \in [Requests -> Request]
    /\ aged \subseteq lapsed

\* whoever works on a key owns its flight, until a time-out
WorkersFly ==
    \A t \in Requests : Working(t) /\ KeyOf(t) \notin lapsed => flight[KeyOf(t)] = t

FlightInv == FlightTyped /\ WorkersFly

LEMMA AtRestTyped == AtRest \in Request /\ AtRest.pc = "idle"
<1>1. (CHOOSE k \in CacheKeys : TRUE) \in CacheKeys
  BY CacheAssumption
<1>. QED
  BY <1>1 DEF AtRest, Request

\* one request moves and no flight changes
LEMMA MoveFlies ==
  ASSUME FlightInv, NEW t \in Requests, NEW next \in Request,
         request' = [request EXCEPT ![t] = next], UNCHANGED flights,
         lapsed \subseteq lapsed',
         next.pc \in {"compute", "size", "store", "publish"} /\ next.key \notin lapsed'
           => flight[next.key] = t
  PROVE  FlightInv'
<1>1. FlightTyped'
  BY DEF FlightInv, FlightTyped, flights
<1>2. ASSUME NEW u \in Requests, Working(u)', KeyOf(u)' \notin lapsed'
      PROVE  flight'[KeyOf(u)'] = u
  <2>1. CASE u = t
    BY <1>2, <2>1 DEF FlightInv, FlightTyped, Working, KeyOf, flights
  <2>2. CASE u # t
    <3>1. request'[u] = request[u]
      BY <2>2 DEF FlightInv, FlightTyped
    <3>. QED
      BY <1>2, <3>1 DEF FlightInv, WorkersFly, Working, KeyOf, flights
  <2>. QED
    BY <2>1, <2>2
<1>. QED
  BY <1>1, <1>2 DEF FlightInv, WorkersFly

LEMMA RequestFacts ==
  ASSUME FlightInv, NEW t \in Requests
  PROVE  /\ request[t] \in Request /\ KeyOf(t) \in CacheKeys
         /\ \A pc \in Pcs : [request[t] EXCEPT !.pc = pc] \in Request
         /\ \A pc \in Pcs : [request[t] EXCEPT !.pc = pc].pc = pc
         /\ \A pc \in Pcs : [request[t] EXCEPT !.pc = pc].key = KeyOf(t)
BY DEF FlightInv, FlightTyped, Request, KeyOf, Pcs

LEMMA SizedTyped ==
  ASSUME NEW r \in Request, NEW pc \in Pcs, NEW size \in ItemSizes \cup {0}
  PROVE  /\ [r EXCEPT !.pc = pc, !.size = size] \in Request
         /\ [r EXCEPT !.pc = pc, !.size = size].key = r.key
<1>. DEFINE sizes == ItemSizes \cup {0}
<1>. DEFINE next == [r EXCEPT !.pc = pc, !.size = size]
<1>1. r \in [pc : Pcs, key : CacheKeys, size : sizes] /\ size \in sizes
  BY DEF Request, Pcs
<1>. HIDE DEF sizes
<1>2. next \in [pc : Pcs, key : CacheKeys, size : sizes] /\ next.key = r.key
  BY <1>1
<1>. HIDE DEF next
<1>3. next \in Request
  BY <1>2 DEF sizes, Request, Pcs
<1>. QED
  BY <1>2, <1>3 DEF next

LEMMA OwnsFlies ==
  ASSUME FlightInv, NEW t \in Requests, Owns(t), UNCHANGED lapsed,
         flight[KeyOf(t)] = Nobody \/ KeyOf(t) \in aged
  PROVE  FlightInv'
<1>. DEFINE k == KeyOf(t)
<1>1. /\ k \in CacheKeys /\ request[t] \in Request
      /\ flight' = [flight EXCEPT ![k] = t] /\ aged' = aged \ {k}
  BY RequestFacts DEF Owns
<1>2. \A u \in Requests :
        /\ request'[u] \in Request /\ KeyOf(u)' = KeyOf(u)
        /\ u # t /\ Working(u)' => Working(u)
  <2>1. ASSUME NEW u \in Requests
        PROVE  request'[u] = IF u = t THEN [request[t] EXCEPT !.pc = "compute"]
                             ELSE IF Is(u, "wait") /\ KeyOf(u) = KeyOf(t)
                                  THEN [request[u] EXCEPT !.pc = "stranded"] ELSE request[u]
    BY DEF Owns
  <2>2. ASSUME NEW u \in Requests
        PROVE  /\ request'[u] \in Request /\ KeyOf(u)' = KeyOf(u)
               /\ u # t /\ Working(u)' => Working(u)
    <3>1. /\ request[u] \in Request
          /\ \A pc \in Pcs : /\ [request[u] EXCEPT !.pc = pc] \in Request
                             /\ [request[u] EXCEPT !.pc = pc].pc = pc
                             /\ [request[u] EXCEPT !.pc = pc].key = KeyOf(u)
      BY RequestFacts
    <3>2. ASSUME NEW pc \in Pcs, request'[u] = [request[u] EXCEPT !.pc = pc],
                 u = t \/ pc = "stranded"
          PROVE  /\ request'[u] \in Request /\ KeyOf(u)' = KeyOf(u)
                 /\ u # t /\ Working(u)' => Working(u)
      <4>1. /\ request'[u] \in Request /\ request'[u].pc = pc /\ request'[u].key = KeyOf(u)
        BY <3>1, <3>2
      <4>. QED
        BY <3>2, <4>1 DEF KeyOf, Working
    <3>3. CASE u = t
      BY <2>1, <3>2, <3>3 DEF Pcs
    <3>4. CASE u # t /\ Is(u, "wait") /\ KeyOf(u) = KeyOf(t)
      BY <2>1, <3>2, <3>4 DEF Pcs
    <3>5. CASE u # t /\ ~(Is(u, "wait") /\ KeyOf(u) = KeyOf(t))
      BY <2>1, <3>1, <3>5 DEF KeyOf, Working
    <3>. QED
      BY <3>3, <3>4, <3>5
  <2>. QED
    BY <2>2
<1>3. DOMAIN request' = Requests /\ request' = [u \in Requests |-> request'[u]]
  BY DEF Owns
<1>4. FlightTyped'
  BY <1>1, <1>2, <1>3 DEF FlightInv, FlightTyped
<1>5. ASSUME NEW u \in Requests, Working(u)', KeyOf(u)' \notin lapsed'
      PROVE  flight'[KeyOf(u)'] = u
  <2>1. CASE u = t
    BY <1>1, <1>2, <2>1 DEF FlightInv, FlightTyped
  <2>2. CASE u # t
    <3>1. KeyOf(u) \notin lapsed /\ Working(u) /\ KeyOf(u)' = KeyOf(u) /\ flight[KeyOf(u)] = u
      BY <1>2, <1>5, <2>2 DEF FlightInv, WorkersFly
    <3>2. KeyOf(u) # k
      BY <3>1, CacheAssumption DEF FlightInv, FlightTyped
    <3>. QED
      BY <1>1, <3>1, <3>2 DEF FlightInv, FlightTyped
  <2>. QED
    BY <2>1, <2>2
<1>. QED
  BY <1>4, <1>5 DEF FlightInv, WorkersFly

LEMMA LandFlies ==
  ASSUME FlightInv, NEW t \in Requests, NEW keys \in SUBSET CacheKeys, Land(t, keys),
         UNCHANGED lapsed,
         \A k \in keys : k \notin lapsed => flight[k] = t
  PROVE  FlightInv'
<1>1. /\ flight' = [k \in CacheKeys |-> IF k \in keys THEN Nobody ELSE flight[k]]
      /\ aged' = aged \ keys /\ lapsed' = lapsed
  BY DEF Land
<1>2. \A u \in Requests :
        /\ request'[u] \in Request
        /\ Working(u)' => u # t /\ request'[u] = request[u]
  <2>1. ASSUME NEW u \in Requests
        PROVE  request'[u] = IF u = t \/ (Is(u, "wait") /\ KeyOf(u) \in keys)
                             THEN AtRest ELSE request[u]
    BY DEF Land
  <2>2. ASSUME NEW u \in Requests
        PROVE  /\ request'[u] \in Request
               /\ Working(u)' => u # t /\ request'[u] = request[u]
    BY <2>1, AtRestTyped, RequestFacts DEF Working
  <2>. QED
    BY <2>2
<1>3. request' = [u \in Requests |-> request'[u]]
  BY DEF Land
<1>4. FlightTyped'
  BY <1>1, <1>2, <1>3 DEF FlightInv, FlightTyped
<1>5. ASSUME NEW u \in Requests, Working(u)', KeyOf(u)' \notin lapsed'
      PROVE  flight'[KeyOf(u)'] = u
  <2>1. /\ u # t /\ Working(u) /\ KeyOf(u)' = KeyOf(u) /\ KeyOf(u) \notin lapsed
        /\ KeyOf(u) \in CacheKeys
    BY <1>1, <1>2, <1>5, RequestFacts DEF Working, KeyOf
  <2>2. flight[KeyOf(u)] = u
    BY <2>1 DEF FlightInv, WorkersFly
  <2>. QED
    BY <1>1, <2>1, <2>2
<1>. QED
  BY <1>4, <1>5 DEF FlightInv, WorkersFly

LEMMA ShareFlies ==
  ASSUME FlightInv, NEW t \in Requests, Share(t)
  PROVE  FlightInv'
<1>1. CASE (flight[KeyOf(t)] = Nobody \/ KeyOf(t) \in aged) /\ Owns(t)
  BY <1>1, OwnsFlies DEF Share
<1>2. ASSUME NEW pc \in {"compute", "wait"}, Moves(t, pc), UNCHANGED flights,
             pc = "compute" => flight[KeyOf(t)] = t
      PROVE  FlightInv'
  <2>1. lapsed' = lapsed
    BY DEF Share
  <2>2. [request[t] EXCEPT !.pc = pc].pc = pc /\ [request[t] EXCEPT !.pc = pc].key = KeyOf(t)
        /\ [request[t] EXCEPT !.pc = pc] \in Request
    BY RequestFacts DEF Pcs
  <2>3. request' = [request EXCEPT ![t] = [request[t] EXCEPT !.pc = pc]]
    BY <1>2 DEF Moves
  <2>. DEFINE next == [request[t] EXCEPT !.pc = pc]
  <2>. HIDE DEF next
  <2>4. /\ next.pc = pc /\ next.key = KeyOf(t) /\ next \in Request
        /\ request' = [request EXCEPT ![t] = next]
    BY <2>2, <2>3 DEF next
  <2>. QED
    BY <1>2, <2>1, <2>4, MoveFlies
<1>. QED
  BY <1>1, <1>2 DEF Share

\* the other steps of a request, which leave the flights alone
LEMMA RequestFlies ==
  ASSUME FlightInv, NEW t \in Requests,
         Lookup(t) \/ GiveUp(t) \/ CheckSize(t) \/ Store(t)
           \/ (\E k \in CacheKeys : Arrive(t, k))
  PROVE  FlightInv'
<1>1. ASSUME NEW next \in Request, request' = [request EXCEPT ![t] = next],
             UNCHANGED flights, lapsed \subseteq lapsed',
             \/ next.pc \in {"idle", "lookup", "reserve"}
             \/ next.pc = "compute" /\ next.key \in lapsed'
             \/ next.key = KeyOf(t) /\ Working(t)
      PROVE  FlightInv'
  BY <1>1, MoveFlies DEF FlightInv, WorkersFly
<1>2. ASSUME NEW pc \in Pcs, Moves(t, pc)
      PROVE  \E next \in Request : /\ request' = [request EXCEPT ![t] = next]
                                   /\ next.pc = pc /\ next.key = KeyOf(t)
  BY <1>2, RequestFacts DEF Moves
<1>3. CASE Lookup(t)
  <2>1. UNCHANGED <<flights, lapsed>>
    BY <1>3 DEF Lookup
  <2>2. Moves(t, "reserve") \/ request' = [request EXCEPT ![t] = AtRest]
    BY <1>3 DEF Lookup
  <2>. QED
    BY <1>1, <1>2, <2>1, <2>2, AtRestTyped DEF Pcs
<1>4. CASE GiveUp(t)
  <2>1. Moves(t, "compute") /\ UNCHANGED flights /\ lapsed' = lapsed \cup {KeyOf(t)}
    BY <1>4 DEF GiveUp
  <2>. QED
    BY <1>1, <1>2, <2>1 DEF Pcs
<1>5. ASSUME Stored(t), Working(t), UNCHANGED <<flights, lapsed>>
      PROVE  FlightInv'
  <2>. DEFINE next == [request[t] EXCEPT !.pc = "publish", !.size = 0]
  <2>1. next \in Request /\ next.key = KeyOf(t)
    <3>1. request[t] \in Request /\ "publish" \in Pcs /\ 0 \in ItemSizes \cup {0}
      BY RequestFacts DEF Pcs
    <3>. QED
      BY <3>1, SizedTyped, Zenon DEF KeyOf
  <2>2. request' = [request EXCEPT ![t] = next]
    BY <1>5 DEF Stored
  <2>. HIDE DEF next
  <2>. QED
    BY <1>1, <1>5, <2>1, <2>2
<1>6. CASE CheckSize(t)
  <2>1. Working(t) /\ UNCHANGED <<flights, lapsed>> /\ (Moves(t, "store") \/ Stored(t))
    BY <1>6 DEF CheckSize, Working, Is
  <2>. QED
    BY <1>1, <1>2, <1>5, <2>1 DEF Pcs
<1>7. CASE Store(t)
  BY <1>5, <1>7 DEF Store, Working, Is
<1>8. ASSUME NEW k \in CacheKeys, Arrive(t, k)
      PROVE  FlightInv'
  <2>1. [pc |-> "lookup", key |-> k, size |-> 0] \in Request
    BY DEF Request
  <2>. QED
    BY <1>1, <1>8, <2>1 DEF Arrive
<1>. QED
  BY <1>3, <1>4, <1>6, <1>7, <1>8

LEMMA ComputeFlies ==
  ASSUME FlightInv, NEW t \in Requests, Compute(t) \/ Publish(t)
  PROVE  FlightInv'
<1>1. /\ KeyOf(t) \notin lapsed => flight[KeyOf(t)] = t
      /\ KeyOf(t) \in CacheKeys /\ lapsed' = lapsed
  BY RequestFacts DEF Compute, Publish, Is, FlightInv, WorkersFly, Working
<1>2. CASE Land(t, {KeyOf(t)})
  BY <1>1, <1>2, LandFlies
<1>3. CASE Land(t, {k \in CacheKeys : flight[k] = t})
  BY <1>1, <1>3, LandFlies
<1>4. CASE request' = [request EXCEPT ![t] = AtRest] /\ UNCHANGED flights
  BY <1>1, <1>4, AtRestTyped, MoveFlies
<1>5. ASSUME NEW size \in ItemSizes, UNCHANGED flights,
             request' = [request EXCEPT ![t].pc = "size", ![t].size = size]
      PROVE  FlightInv'
  <2>. DEFINE next == [request[t] EXCEPT !.pc = "size", !.size = size]
  <2>1. next \in Request /\ next.key = KeyOf(t)
    <3>1. request[t] \in Request /\ "size" \in Pcs /\ size \in ItemSizes \cup {0}
      BY RequestFacts DEF Pcs
    <3>. QED
      BY <3>1, SizedTyped, Zenon DEF KeyOf
  <2>2. request' = [request EXCEPT ![t] = next]
    BY <1>5
  <2>. HIDE DEF next
  <2>. QED
    BY <1>1, <1>5, <2>1, <2>2, MoveFlies
<1>. QED
  BY <1>2, <1>3, <1>4, <1>5 DEF Compute, Publish

LEMMA FlightStep == FlightInv /\ [CacheNext]_cacheVars => FlightInv'
<1>. SUFFICES ASSUME FlightInv, [CacheNext]_cacheVars
              PROVE  FlightInv'
  OBVIOUS
<1>1. ASSUME NEW t \in Requests, Answering(t) \/ \E k \in CacheKeys : Arrive(t, k)
      PROVE  FlightInv'
  BY <1>1, ShareFlies, RequestFlies, ComputeFlies DEF Answering
<1>2. CASE UNCHANGED <<flights, request, lapsed>>
  BY <1>2 DEF flights, FlightInv, FlightTyped, WorkersFly, Working, KeyOf
<1>3. ASSUME NEW k \in CacheKeys, FlightAges(k)
      PROVE  FlightInv'
  BY <1>3 DEF FlightAges, FlightInv, FlightTyped, WorkersFly, Working, KeyOf
<1>4. ASSUME NEW k \in CacheKeys, Expires(k) \/ Invalidate({k})
      PROVE  FlightInv'
  BY <1>2, <1>4 DEF Expires, Invalidate
<1>5. ASSUME Clear \/ \E effective \in Budgets : MemoryCheck(effective)
      PROVE  FlightInv'
  BY <1>2, <1>5 DEF Clear, MemoryCheck
<1>6. CASE UNCHANGED cacheVars
  BY <1>2, <1>6 DEF cacheVars
<1>. QED
  BY <1>1, <1>3, <1>4, <1>5, <1>6 DEF CacheNext

(* Without a time-out of a flight or of a wait, one request at a time       *)
(* computes a key: whoever computes owns the flight that _flight registered, *)
(* and only its owner lands it, however its computation fails.              *)
THEOREM ComputedOnce == CacheSpec => []OneComputation
<1>1. CacheInit => FlightInv
  BY AtRestTyped DEF CacheInit, FlightInv, FlightTyped, WorkersFly, Working
<1>2. FlightInv => OneComputation
  BY DEF FlightInv, WorkersFly, OneComputation, Working, Is
<1>. QED
  BY <1>1, <1>2, FlightStep, PTL DEF CacheSpec

(* Sums over finite sets, as the fold of the community modules takes them:  *)
(* an element of the set is chosen, and the rest is summed.                 *)

Picked(set) == CHOOSE x \in set : TRUE

SumStep(size, sum, set) ==
    IF set = {} THEN 0 ELSE size[Picked(set)] + sum[set \ {Picked(set)}]

Sums(size, S) == CHOOSE sum : sum = [s \in SUBSET S |-> SumStep(size, sum, s)]

LEMMA SumUnfolds ==
  ASSUME NEW size, NEW S
  PROVE  SumOf(size, S) = Sums(size, S)[S]
BY Zenon DEF SumOf, MapThenSumSet, MapThenFoldSet, Sums, SumStep, Picked

LEMMA Smaller ==
  ASSUME NEW S, IsFiniteSet(S), NEW s \in SUBSET S
  PROVE  /\ IsFiniteSet(s) /\ Cardinality(s) \in Nat /\ Cardinality(s) <= Cardinality(S)
         /\ \A x \in s : /\ IsFiniteSet(s \ {x}) /\ Cardinality(s \ {x}) \in Nat
                        /\ Cardinality(s \ {x}) = Cardinality(s) - 1
         /\ Cardinality(s) = 0 <=> s = {}
         /\ s # {} => Picked(s) \in s
<1>1. IsFiniteSet(s) /\ Cardinality(s) <= Cardinality(S) /\ Cardinality(s) \in Nat
  BY FS_Subset, FS_CardinalityType
<1>2. ASSUME NEW x \in s
      PROVE  /\ IsFiniteSet(s \ {x}) /\ Cardinality(s \ {x}) \in Nat
             /\ Cardinality(s \ {x}) = Cardinality(s) - 1
  BY <1>1, FS_RemoveElement, FS_CardinalityType
<1>3. Cardinality(s) = 0 <=> s = {}
  BY <1>1, FS_EmptySet
<1>. QED
  BY <1>1, <1>2, <1>3 DEF Picked

(* The recursion has a solution, built over the sizes of the subsets.       *)
LEMMA SumsStep ==
  ASSUME NEW size, NEW S, IsFiniteSet(S)
  PROVE  \A s \in SUBSET S : Sums(size, S)[s] = SumStep(size, Sums(size, S), s)
<1>. DEFINE Upto(n) == {s \in SUBSET S : Cardinality(s) <= n}
            Solved(n) == \E f : f = [s \in Upto(n) |-> SumStep(size, f, s)]
            T == {n \in Nat : ~Solved(n)}
<1>1. T = {}
  <2>1. SUFFICES ASSUME T # {} PROVE FALSE
    <3>. HIDE DEF Solved
    <3>. QED
      BY <2>1
  <2>2. PICK m \in T : \A k \in T : m <= k
    <3>. HIDE DEF Solved
    <3>. QED
      BY <2>1, LeastNatural
  <2>3. m \in Nat /\ ~Solved(m) /\ \A k \in Nat : k < m => Solved(k)
    <3>. HIDE DEF Solved
    <3>. QED
      BY <2>2
  <2>. HIDE DEF T
  <2>4. CASE m = 0
    <3>. DEFINE f == [s \in Upto(m) |-> 0]
    <3>1. \A s \in Upto(m) : s = {}
      BY <2>4, Smaller
    <3>2. f = [s \in Upto(m) |-> SumStep(size, f, s)]
      BY <3>1 DEF SumStep
    <3>. QED
      BY <2>3, <3>2
  <2>5. CASE m # 0
    <3>1. m - 1 \in Nat /\ m - 1 < m
      BY <2>3, <2>5
    <3>2. PICK f : f = [s \in Upto(m - 1) |-> SumStep(size, f, s)]
      BY <2>3, <3>1
    <3>. DEFINE g == [s \in Upto(m) |-> IF s \in Upto(m - 1) THEN f[s] ELSE SumStep(size, f, s)]
    <3>3. ASSUME NEW s \in Upto(m)
          PROVE  g[s] = SumStep(size, g, s)
      <4>1. CASE s = {}
        BY <4>1, <3>2 DEF SumStep
      <4>2. CASE s # {}
        <5>1. s \ {Picked(s)} \in Upto(m - 1)
          BY <2>3, <4>2, Smaller
        <5>2. s \ {Picked(s)} \in Upto(m)
          BY <2>3, <4>2, Smaller
        <5>3. g[s \ {Picked(s)}] = f[s \ {Picked(s)}]
          BY <5>1, <5>2
        <5>4. SumStep(size, g, s) = SumStep(size, f, s)
          BY <4>2, <5>3 DEF SumStep
        <5>5. g[s] = SumStep(size, f, s)
          <6>1. s \in Upto(m - 1) => f[s] = SumStep(size, f, s)
            BY <3>2
          <6>. HIDE DEF Upto
          <6>. QED
            BY <6>1
        <5>. QED
          BY <5>4, <5>5
      <4>. QED
        BY <4>1, <4>2
    <3>4. g = [s \in Upto(m) |-> SumStep(size, g, s)]
      <4>1. \A s \in Upto(m) : g[s] = SumStep(size, g, s)
        BY <3>3
      <4>. HIDE DEF Upto
      <4>2. g = [s \in Upto(m) |-> g[s]]
        OBVIOUS
      <4>. HIDE DEF g
      <4>. QED
        BY <4>1, <4>2
    <3>. QED
      BY <2>3, <3>4
  <2>. QED
    BY <2>4, <2>5
<1>2. Cardinality(S) \in Nat /\ Upto(Cardinality(S)) = SUBSET S
  BY Smaller
<1>3. Solved(Cardinality(S))
  <2>. HIDE DEF Solved
  <2>. QED
    BY <1>1, <1>2
<1>4. \E f : f = [s \in SUBSET S |-> SumStep(size, f, s)]
  BY <1>2, <1>3
<1>5. Sums(size, S) = [s \in SUBSET S |-> SumStep(size, Sums(size, S), s)]
  BY <1>4, Zenon DEF Sums
<1>. DEFINE sum == Sums(size, S)
            step(u) == SumStep(size, sum, u)
<1>6. sum = [u \in SUBSET S |-> step(u)]
  BY <1>5
<1>. HIDE DEF sum, step
<1>7. \A s \in SUBSET S : sum[s] = step(s)
  BY <1>6
<1>. QED
  BY <1>7 DEF sum, step

LEMMA SumsAgree ==
  ASSUME NEW size, NEW S, IsFiniteSet(S), NEW U \in SUBSET S
  PROVE  \A s \in SUBSET U : Sums(size, U)[s] = Sums(size, S)[s]
<1>. DEFINE Agree(n) == \A s \in SUBSET U : Cardinality(s) = n => Sums(size, U)[s] = Sums(size, S)[s]
            T == {n \in Nat : ~Agree(n)}
<1>0. IsFiniteSet(U)
  BY FS_Subset
<1>1. T = {}
  <2>1. SUFFICES ASSUME T # {} PROVE FALSE
    <3>. HIDE DEF Agree
    <3>. QED
      BY <2>1
  <2>2. PICK m \in T : \A k \in T : m <= k
    <3>. HIDE DEF Agree
    <3>. QED
      BY <2>1, LeastNatural
  <2>3. m \in Nat /\ ~Agree(m) /\ \A k \in Nat : k < m => Agree(k)
    <3>. HIDE DEF Agree
    <3>. QED
      BY <2>2
  <2>. HIDE DEF T
  <2>4. PICK s \in SUBSET U : Cardinality(s) = m /\ Sums(size, U)[s] # Sums(size, S)[s]
    BY <2>3
  <2>5. /\ Sums(size, U)[s] = SumStep(size, Sums(size, U), s)
        /\ Sums(size, S)[s] = SumStep(size, Sums(size, S), s)
    BY <1>0, SumsStep
  <2>6. s # {}
    BY <2>4, <2>5 DEF SumStep
  <2>7. /\ Cardinality(s \ {Picked(s)}) \in Nat /\ Cardinality(s \ {Picked(s)}) < m
        /\ s \ {Picked(s)} \in SUBSET U
    BY <1>0, <2>4, <2>6, Smaller
  <2>8. Sums(size, U)[s \ {Picked(s)}] = Sums(size, S)[s \ {Picked(s)}]
    BY <2>3, <2>7
  <2>. QED
    BY <2>4, <2>5, <2>6, <2>8 DEF SumStep
<1>2. ASSUME NEW s \in SUBSET U PROVE Sums(size, U)[s] = Sums(size, S)[s]
  <2>1. Cardinality(s) \in Nat
    BY <1>0, Smaller
  <2>2. Agree(Cardinality(s))
    <3>. HIDE DEF Agree
    <3>. QED
      BY <1>1, <2>1
  <2>. QED
    BY <2>2
<1>. QED
  BY <1>2

LEMMA SumPicks ==
  ASSUME NEW size, NEW S, IsFiniteSet(S)
  PROVE  /\ SumOf(size, {}) = 0
         /\ S # {} => SumOf(size, S) = size[Picked(S)] + SumOf(size, S \ {Picked(S)})
<1>1. SumOf(size, {}) = 0
  <2>1. IsFiniteSet({})
    BY FS_EmptySet
  <2>2. Sums(size, {})[{}] = SumStep(size, Sums(size, {}), {})
    BY <2>1, SumsStep
  <2>. QED
    BY <2>2, SumUnfolds DEF SumStep
<1>2. ASSUME S # {}
      PROVE  SumOf(size, S) = size[Picked(S)] + SumOf(size, S \ {Picked(S)})
  <2>. DEFINE U == S \ {Picked(S)}
  <2>1. Sums(size, S)[S] = SumStep(size, Sums(size, S), S)
    BY SumsStep
  <2>2. Sums(size, U)[U] = Sums(size, S)[U]
    BY SumsAgree
  <2>3. SumOf(size, S) = Sums(size, S)[S] /\ SumOf(size, U) = Sums(size, U)[U]
    BY SumUnfolds
  <2>. QED
    BY <1>2, <2>1, <2>2, <2>3 DEF SumStep
<1>. QED
  BY <1>1, <1>2

(* A sum is a number and the order in which it is taken does not matter.    *)
LEMMA SumLaws ==
  ASSUME NEW S, IsFiniteSet(S), NEW size, \A x \in S : size[x] \in Nat
  PROVE  /\ SumOf(size, S) \in Nat
         /\ \A x \in S : SumOf(size, S) = size[x] + SumOf(size, S \ {x})
         /\ \A other : (\A x \in S : other[x] = size[x]) => SumOf(other, S) = SumOf(size, S)
<1>. DEFINE Law(s) == /\ SumOf(size, s) \in Nat
                      /\ \A x \in s : SumOf(size, s) = size[x] + SumOf(size, s \ {x})
                      /\ \A other : (\A x \in s : other[x] = size[x])
                                     => SumOf(other, s) = SumOf(size, s)
            Laws(n) == \A s \in SUBSET S : Cardinality(s) = n => Law(s)
            T == {n \in Nat : ~Laws(n)}
<1>1. T = {}
  <2>1. SUFFICES ASSUME T # {} PROVE FALSE
    <3>. HIDE DEF Laws
    <3>. QED
      BY <2>1
  <2>2. PICK m \in T : \A k \in T : m <= k
    <3>. HIDE DEF Laws
    <3>. QED
      BY <2>1, LeastNatural
  <2>3. m \in Nat /\ ~Laws(m) /\ \A k \in Nat : k < m => Laws(k)
    <3>. HIDE DEF Laws
    <3>. QED
      BY <2>2
  <2>. HIDE DEF T
  <2>4. PICK s \in SUBSET S : Cardinality(s) = m /\ ~Law(s)
    <3>. HIDE DEF Law
    <3>. QED
      BY <2>3
  <2>5. CASE s = {}
    <3>1. IsFiniteSet({})
      BY FS_EmptySet
    <3>2. \A other : SumOf(other, s) = 0
      BY <2>5, <3>1, SumPicks
    <3>. QED
      BY <2>4, <2>5, <3>2
  <2>6. CASE s # {}
    <3>. DEFINE c == Picked(s)
                rest == s \ {c}
    <3>0. IsFiniteSet(s) /\ c \in s
      BY <2>6, Smaller
    <3>1. ASSUME NEW x \in s PROVE Law(s \ {x})
      <4>1. Cardinality(s \ {x}) \in Nat /\ Cardinality(s \ {x}) < m /\ s \ {x} \in SUBSET S
        BY <2>4, Smaller
      <4>. HIDE DEF Law
      <4>. QED
        BY <2>3, <4>1
    <3>2. SumOf(size, s) = size[c] + SumOf(size, rest) /\ SumOf(size, rest) \in Nat /\ size[c] \in Nat
      BY <2>6, <3>0, <3>1, SumPicks
    <3>. HIDE DEF c
    <3>3. SumOf(size, s) \in Nat
      BY <3>2
    <3>4. ASSUME NEW x \in s PROVE SumOf(size, s) = size[x] + SumOf(size, s \ {x})
      <4>1. CASE x = c
        BY <3>2, <4>1
      <4>2. CASE x # c
        <5>. DEFINE both == s \ {x, c}
        <5>1. SumOf(size, rest) = size[x] + SumOf(size, rest \ {x})
          BY <3>0, <3>1, <4>2
        <5>2. SumOf(size, s \ {x}) = size[c] + SumOf(size, (s \ {x}) \ {c})
          BY <3>0, <3>1, <4>2
        <5>3. rest \ {x} = both /\ (s \ {x}) \ {c} = both
          OBVIOUS
        <5>4. Law(rest) /\ rest \in SUBSET S /\ x \in rest
          BY <3>0, <3>1, <4>2
        <5>5. SumOf(size, both) \in Nat
          <6>1. IsFiniteSet(rest)
            BY <3>0, FS_RemoveElement
          <6>2. Cardinality(both) \in Nat /\ Cardinality(both) < m
            <7>1. /\ Cardinality(rest) = m - 1 /\ Cardinality(rest) \in Nat
              BY <2>4, <3>0, Smaller
            <7>2. Cardinality(rest \ {x}) \in Nat /\ Cardinality(rest \ {x}) = Cardinality(rest) - 1
              BY <6>1, <5>4, Smaller
            <7>3. Cardinality(both) = Cardinality(rest \ {x})
              BY <5>3
            <7>4. \A a, b, n \in Nat : a = n - 1 /\ b = a - 1 => b < n
              OBVIOUS
            <7>. HIDE DEF both, rest
            <7>. QED
              BY <2>3, <7>1, <7>2, <7>3, <7>4
          <6>3. Law(both)
            <7>. HIDE DEF Law
            <7>. QED
              BY <2>3, <6>2
          <6>. QED
            BY <6>3
        <5>6. size[x] \in Nat /\ size[c] \in Nat
          BY <3>0
        <5>7. SumOf(size, rest) = size[x] + SumOf(size, both)
          BY <5>1, <5>3
        <5>8. SumOf(size, s \ {x}) = size[c] + SumOf(size, both)
          BY <5>2, <5>3
        <5>. HIDE DEF both, rest, Law
        <5>. QED
          BY <3>2, <5>5, <5>6, <5>7, <5>8
      <4>. QED
        BY <4>1, <4>2
    <3>5. ASSUME NEW other, \A x \in s : other[x] = size[x]
          PROVE  SumOf(other, s) = SumOf(size, s)
      <4>1. SumOf(other, s) = other[c] + SumOf(other, rest)
        BY <2>6, <3>0, SumPicks DEF c
      <4>2. SumOf(other, rest) = SumOf(size, rest)
        BY <3>0, <3>1, <3>5
      <4>. QED
        BY <3>0, <3>2, <3>5, <4>1, <4>2
    <3>. QED
      BY <2>4, <3>3, <3>4, <3>5
  <2>. QED
    BY <2>5, <2>6
<1>2. Cardinality(S) \in Nat
  BY FS_CardinalityType
<1>3. Laws(Cardinality(S))
  <2>. HIDE DEF Laws
  <2>. QED
    BY <1>1, <1>2
<1>. QED
  BY <1>3

(* The sum over a set is that over a part of it and over the rest.          *)
LEMMA SumSplits ==
  ASSUME NEW S, IsFiniteSet(S), NEW size, \A x \in S : size[x] \in Nat, NEW U \in SUBSET S
  PROVE  /\ SumOf(size, U) \in Nat /\ SumOf(size, S \ U) \in Nat
         /\ SumOf(size, S) = SumOf(size, U) + SumOf(size, S \ U)
<1>. DEFINE Splits(n) == \A s \in SUBSET U : Cardinality(s) = n =>
                           SumOf(size, S) = SumOf(size, s) + SumOf(size, S \ s)
            T == {n \in Nat : ~Splits(n)}
<1>0. IsFiniteSet(U)
  BY FS_Subset
<1>1. T = {}
  <2>1. SUFFICES ASSUME T # {} PROVE FALSE
    <3>. HIDE DEF Splits
    <3>. QED
      BY <2>1
  <2>2. PICK m \in T : \A k \in T : m <= k
    <3>. HIDE DEF Splits
    <3>. QED
      BY <2>1, LeastNatural
  <2>3. m \in Nat /\ ~Splits(m) /\ \A k \in Nat : k < m => Splits(k)
    <3>. HIDE DEF Splits
    <3>. QED
      BY <2>2
  <2>. HIDE DEF T
  <2>4. PICK s \in SUBSET U : /\ Cardinality(s) = m
                              /\ SumOf(size, S) # SumOf(size, s) + SumOf(size, S \ s)
    BY <2>3
  <2>5. CASE s = {}
    <3>1. SumOf(size, s) = 0 /\ S \ s = S
      BY <2>5, SumPicks
    <3>2. SumOf(size, S) \in Nat
      BY SumLaws
    <3>. QED
      BY <2>4, <3>1, <3>2
  <2>6. CASE s # {}
    <3>1. PICK x \in s : TRUE
      BY <2>6
    <3>2. /\ IsFiniteSet(s) /\ Cardinality(s \ {x}) \in Nat /\ Cardinality(s \ {x}) < m
          /\ s \ {x} \in SUBSET U /\ IsFiniteSet(s \ {x})
      BY <1>0, <2>4, Smaller
    <3>3. SumOf(size, S) = SumOf(size, s \ {x}) + SumOf(size, S \ (s \ {x}))
      BY <2>3, <3>2
    <3>4. SumOf(size, s) = size[x] + SumOf(size, s \ {x})
      BY <3>2, SumLaws
    <3>5. IsFiniteSet(S \ (s \ {x})) /\ IsFiniteSet(S \ s) /\ x \in S \ (s \ {x})
      BY FS_Subset
    <3>6. SumOf(size, S \ (s \ {x})) = size[x] + SumOf(size, (S \ (s \ {x})) \ {x})
      BY <3>5, SumLaws
    <3>7. (S \ (s \ {x})) \ {x} = S \ s
      OBVIOUS
    <3>8. size[x] \in Nat /\ SumOf(size, s \ {x}) \in Nat /\ SumOf(size, S \ s) \in Nat
      <4>1. size[x] \in Nat
        OBVIOUS
      <4>2. SumOf(size, s \ {x}) \in Nat
        BY <3>2, SumLaws
      <4>3. SumOf(size, S \ s) \in Nat
        BY <3>5, SumLaws
      <4>. QED
        BY <4>1, <4>2, <4>3
    <3>9. SumOf(size, S \ (s \ {x})) = size[x] + SumOf(size, S \ s)
      BY <3>6, <3>7
    <3>10. SumOf(size, S) = SumOf(size, s) + SumOf(size, S \ s)
      BY <3>3, <3>4, <3>8, <3>9
    <3>. QED
      BY <2>4, <3>10
  <2>. QED
    BY <2>5, <2>6
<1>2. Cardinality(U) \in Nat
  BY <1>0, FS_CardinalityType
<1>3. Splits(Cardinality(U))
  <2>. HIDE DEF Splits
  <2>. QED
    BY <1>1, <1>2
<1>4. SumOf(size, U) \in Nat
  BY <1>0, SumLaws
<1>5. SumOf(size, S \ U) \in Nat
  <2>1. IsFiniteSet(S \ U)
    BY FS_Subset
  <2>. QED
    BY <2>1, SumLaws
<1>. QED
  BY <1>3, <1>4, <1>5

-----------------------------------------------------------------------------
(* The table of entries.                                                    *)

LEMMA ElementsOf ==
  ASSUME NEW S, NEW seq \in Seq(S)
  PROVE  /\ ToSet(seq) \in SUBSET S /\ IsFiniteSet(ToSet(seq))
         /\ ToSet(<<>>) = {}
<1>1. ToSet(seq) = {seq[i] : i \in 1 .. Len(seq)} /\ ToSet(<<>>) = {}
  BY DEF ToSet
<1>2. ToSet(seq) \in SUBSET S
  BY <1>1
<1>3. Len(seq) \in Nat /\ DOMAIN seq = 1 .. Len(seq)
  OBVIOUS
<1>4. IsFiniteSet(1 .. Len(seq))
  BY <1>3, FS_Interval
<1>5. IsFiniteSet({seq[i] : i \in 1 .. Len(seq)})
  <2>. DEFINE f == [i \in 1 .. Len(seq) |-> seq[i]]
              img == {seq[i] : i \in 1 .. Len(seq)}
  <2>1. f \in Surjection(1 .. Len(seq), img)
    BY DEF Surjection
  <2>. HIDE DEF f, img
  <2>2. IsFiniteSet(img)
    BY <1>4, <2>1, FS_Surjection
  <2>. QED
    BY <2>2 DEF img
<1>. QED
  BY <1>1, <1>2, <1>5

PlacesOf(seq, keys) == {i \in DOMAIN seq : seq[i] \in keys}

LEMMA KeptKeys ==
  ASSUME NEW S, NEW seq \in Seq(S), IsInjective(seq), NEW keys,
         NEW rest, rest = LeftAt(seq, PlacesOf(seq, keys))
  PROVE  /\ rest \in Seq(S) /\ IsInjective(rest)
         /\ ToSet(rest) = ToSet(seq) \cap keys
         /\ Len(rest) <= Len(seq)
         /\ \A i \in DOMAIN seq : seq[i] \notin keys => Len(rest) + 1 <= Len(seq)
<1>. DEFINE places == {i \in DOMAIN seq : seq[i] \in keys}
            c == Cardinality(places)
<1>1. /\ c \in Nat /\ c <= Len(seq)
      /\ \E f \in [1 .. c -> places] :
           /\ Increasing(f)
           /\ \A p \in places : \E i \in 1 .. c : f[i] = p
           /\ LeftAt(seq, places) = [i \in 1 .. c |-> seq[f[i]]]
  <2>1. places \in SUBSET DOMAIN seq
    OBVIOUS
  <2>. HIDE DEF places
  <2>. QED
    BY <2>1, LeftOrder
<1>. HIDE DEF c
<1>2. PICK f \in [1 .. c -> places] :
           /\ Increasing(f)
           /\ \A p \in places : \E i \in 1 .. c : f[i] = p
           /\ rest = [i \in 1 .. c |-> seq[f[i]]]
  BY <1>1 DEF PlacesOf
<1>3. \A i \in 1 .. c : f[i] \in DOMAIN seq /\ seq[f[i]] \in keys /\ seq[f[i]] \in S
  BY <1>2
<1>4. rest \in Seq(S) /\ Len(rest) = c
  BY <1>1, <1>2, <1>3
<1>5. IsInjective(rest)
  <2>1. ASSUME NEW i \in 1 .. c, NEW j \in 1 .. c, i < j PROVE f[i] # f[j]
    <3>1. f[i] < f[j]
      BY <1>2, <2>1 DEF Increasing
    <3>2. f[i] \in Nat /\ f[j] \in Nat
      BY <1>3
    <3>. QED
      BY <3>1, <3>2
  <2>2. \A i, j \in 1 .. c : f[i] = f[j] => i = j
    BY <1>1, <2>1
  <2>3. ASSUME NEW i \in 1 .. c, NEW j \in 1 .. c, rest[i] = rest[j] PROVE i = j
    <3>1. seq[f[i]] = seq[f[j]]
      BY <1>2, <2>3
    <3>2. f[i] = f[j]
      BY <1>3, <3>1 DEF IsInjective
    <3>. QED
      BY <2>2, <3>2
  <2>. QED
    BY <1>2, <2>3 DEF IsInjective
<1>6. ToSet(rest) = ToSet(seq) \cap keys
  <2>1. ASSUME NEW x \in ToSet(rest) PROVE x \in ToSet(seq) \cap keys
    <3>1. DOMAIN rest = 1 .. c
      BY <1>2
    <3>2. PICK i \in 1 .. c : x = rest[i]
      BY <2>1, <3>1 DEF ToSet
    <3>3. x = seq[f[i]]
      BY <1>2, <3>2
    <3>. QED
      BY <1>3, <3>3 DEF ToSet
  <2>2. ASSUME NEW x \in ToSet(seq) \cap keys PROVE x \in ToSet(rest)
    <3>1. PICK p \in places : x = seq[p]
      BY <2>2 DEF ToSet
    <3>2. PICK i \in 1 .. c : f[i] = p
      BY <1>2, <3>1
    <3>. QED
      BY <1>2, <3>1, <3>2 DEF ToSet
  <2>. QED
    BY <2>1, <2>2
<1>7. ASSUME NEW p \in DOMAIN seq, seq[p] \notin keys PROVE c + 1 <= Len(seq)
  <2>1. Len(seq) \in Nat /\ DOMAIN seq = 1 .. Len(seq)
    OBVIOUS
  <2>2. IsFiniteSet(1 .. Len(seq)) /\ Cardinality(1 .. Len(seq)) = Len(seq)
    BY <2>1, CountTo
  <2>3. IsFiniteSet((1 .. Len(seq)) \ {p}) /\ Cardinality((1 .. Len(seq)) \ {p}) = Len(seq) - 1
    <3>1. p \in 1 .. Len(seq) /\ Len(seq) \in Nat
      BY <1>7, <2>1
    <3>. DEFINE all == 1 .. Len(seq)
    <3>2. p \in all /\ IsFiniteSet(all) /\ Cardinality(all) = Len(seq)
      BY <2>2, <3>1
    <3>. HIDE DEF all
    <3>3. IsFiniteSet(all \ {p}) /\ Cardinality(all \ {p}) = Cardinality(all) - 1
      BY <3>2, FS_RemoveElement
    <3>. QED
      BY <3>2, <3>3 DEF all
  <2>4. places \in SUBSET ((1 .. Len(seq)) \ {p})
    BY <1>7, <2>1
  <2>5. c <= Len(seq) - 1
    BY <2>3, <2>4, FS_Subset DEF c
  <2>. QED
    BY <1>1, <2>1, <2>5
<1>. QED
  BY <1>1, <1>4, <1>5, <1>6, <1>7

\* a sequence of entries whose sizes add up to a sum
AddsUp(seq, size, sum) ==
    /\ seq \in Seq(CacheKeys) /\ IsInjective(seq)
    /\ size \in [CacheKeys -> ItemSizes \cup {0}]
    /\ sum = SumOf(size, ToSet(seq))

\* the entries that are left keep their sizes
LEMMA SizesKept ==
  ASSUME NEW keys \in SUBSET CacheKeys, IsFiniteSet(keys), 
         NEW size \in [CacheKeys -> ItemSizes \cup {0}]
  PROVE  /\ SizesOf(keys, size) \in [CacheKeys -> ItemSizes \cup {0}]
         /\ SumOf(SizesOf(keys, size), keys) = SumOf(size, keys)
         /\ SumOf(size, keys) \in Nat
<1>1. \A k \in keys : SizesOf(keys, size)[k] = size[k] /\ size[k] \in Nat
  BY CacheAssumption DEF SizesOf, CacheAssumption
<1>2. SizesOf(keys, size) \in [CacheKeys -> ItemSizes \cup {0}]
  BY DEF SizesOf
<1>3. SumOf(SizesOf(keys, size), keys) = SumOf(size, keys) /\ SumOf(size, keys) \in Nat
  BY <1>1, SumLaws
<1>. QED
  BY <1>2, <1>3

\* what is accounted for after some entries are removed
LEMMA Removed ==
  ASSUME NEW seq, NEW size, NEW sum, AddsUp(seq, size, sum),
         NEW keys \in SUBSET ToSet(seq)
  PROVE  /\ SumOf(size, keys) \in Nat /\ SumOf(size, ToSet(seq) \ keys) \in Nat
         /\ Greater(sum, SumOf(size, keys)) - SumOf(size, keys)
               = SumOf(size, ToSet(seq) \ keys)
         /\ SumOf(size, ToSet(seq) \ keys) <= sum
<1>1. IsFiniteSet(ToSet(seq)) /\ ToSet(seq) \in SUBSET CacheKeys
  BY ElementsOf DEF AddsUp
<1>2. \A k \in ToSet(seq) : size[k] \in Nat
  BY <1>1, CacheAssumption DEF AddsUp, CacheAssumption
<1>3. /\ SumOf(size, keys) \in Nat /\ SumOf(size, ToSet(seq) \ keys) \in Nat
      /\ SumOf(size, ToSet(seq)) = SumOf(size, keys) + SumOf(size, ToSet(seq) \ keys)
  BY <1>1, <1>2, SumSplits
<1>4. sum = SumOf(size, ToSet(seq))
  BY DEF AddsUp
<1>. QED
  BY <1>3, <1>4 DEF Greater

LEMMA ShrunkAddsUp ==
  ASSUME NEW seq, NEW size, NEW sum, AddsUp(seq, size, sum), NEW target \in Nat,
         Shrunk(seq, size, sum, target)
  PROVE  /\ AddsUp(lru', stored', bytes')
         /\ bytes' \in Nat /\ bytes' <= target /\ Len(lru') <= MaxEntries
<1>. DEFINE N == Len(seq)
            first(n) == {seq[i] : i \in 1 .. n}
            left(n) == sum - SumOf(size, first(n))
            fits(n) == left(n) <= target /\ Len(seq) - n <= MaxEntries
            ends(n) == (fits(n) \/ n = Len(seq)) /\ \A m \in 0 .. n - 1 : ~fits(m)
            gone == CHOOSE n \in 0 .. Len(seq) : ends(n)
<1>1. /\ lru' = SubSeq(seq, gone + 1, Len(seq))
      /\ stored' = SizesOf(ToSet(lru'), size)
      /\ bytes' = left(gone)
  BY Zenon DEF Shrunk
<1>2. seq \in Seq(CacheKeys) /\ N \in Nat /\ size \in [CacheKeys -> ItemSizes \cup {0}] /\ IsInjective(seq)
      /\ DOMAIN seq = 1 .. N
  BY DEF AddsUp
<1>2a. N \in Nat
  BY <1>2
<1>3. \E n \in 0 .. N : ends(n)
  <2>. DEFINE T == {n \in 0 .. N : fits(n) \/ n = N}
  <2>. HIDE DEF fits
  <2>1. T \in SUBSET Nat /\ N \in T
    BY <1>2
  <2>. HIDE DEF T
  <2>2. PICK n \in T : \A m \in T : n <= m
    BY <2>1, LeastNatural
  <2>. USE DEF T
  <2>3. n \in 0 .. N /\ (fits(n) \/ n = N)
    BY <2>2
  <2>4. ASSUME NEW m \in 0 .. n - 1 PROVE ~fits(m)
    <3>1. n \in Nat /\ n <= N /\ m \in Nat /\ m < n /\ m \in 0 .. N
      BY <1>2a, <2>3
    <3>2. m \notin T
      BY <2>2, <3>1
    <3>. QED
      BY <3>1, <3>2
  <2>. QED
    BY <2>3, <2>4
<1>4. gone \in 0 .. N /\ (fits(gone) \/ gone = N)
  <2>. HIDE DEF fits
  <2>. QED
    BY <1>3
<1>. HIDE DEF gone
<1>. DEFINE rest == SubSeq(seq, gone + 1, N)
<1>5. /\ rest \in Seq(CacheKeys) /\ Len(rest) = N - gone
      /\ \A i \in 1 .. Len(rest) : rest[i] = seq[gone + i] /\ gone + i \in 1 .. N
  <2>1. seq \in Seq(CacheKeys)
    BY <1>2
  <2>2. gone \in Nat /\ gone <= N
    BY <1>2a, <1>4
  <2>. DEFINE start == gone + 1
  <2>3. start \in Nat /\ start >= 1 /\ start <= N + 1 /\ N \in Nat
    BY <1>2a, <2>2
  <2>4. /\ rest \in Seq(CacheKeys) /\ Len(rest) = IF start <= N THEN N - start + 1 ELSE 0
        /\ \A i \in 1 .. N - start + 1 : rest[i] = seq[start + i - 1]
    BY <2>1, <2>3
  <2>5. Len(rest) = N - gone
    BY <2>2, <2>3, <2>4
  <2>6. ASSUME NEW i \in 1 .. Len(rest)
        PROVE  rest[i] = seq[gone + i] /\ gone + i \in 1 .. N
    <3>. HIDE DEF rest
    <3>1. i \in 1 .. N - start + 1 /\ start + i - 1 = gone + i /\ gone + i \in 1 .. N
      BY <2>2, <2>3, <2>5
    <3>. QED
      BY <2>4, <3>1
  <2>. QED
    BY <2>4, <2>5, <2>6
<1>6. IsInjective(rest)
  <2>1. DOMAIN rest = 1 .. Len(rest)
    BY <1>5
  <2>2. ASSUME NEW i \in 1 .. Len(rest), NEW j \in 1 .. Len(rest), rest[i] = rest[j]
        PROVE  i = j
    <3>1. gone + i = gone + j
      BY <1>2, <1>5, <2>2 DEF IsInjective
    <3>. QED
      BY <1>4, <3>1
  <2>. HIDE DEF rest
  <2>. QED
    BY <2>1, <2>2 DEF IsInjective
<1>7. ToSet(rest) = ToSet(seq) \ first(gone) /\ first(gone) \in SUBSET ToSet(seq)
  <2>1. first(gone) \in SUBSET ToSet(seq)
    <3>1. \A i \in 1 .. gone : i \in 1 .. N
      BY <1>2a, <1>4
    <3>2. \A i \in 1 .. N : seq[i] \in ToSet(seq)
      BY <1>2 DEF ToSet
    <3>. QED
      BY <3>1, <3>2
  <2>2. ASSUME NEW x \in ToSet(rest) PROVE x \in ToSet(seq) \ first(gone)
    <3>0. DOMAIN rest = 1 .. Len(rest)
      BY <1>5
    <3>1. PICK i \in 1 .. Len(rest) : x = seq[gone + i] /\ gone + i \in 1 .. N
      <4>. HIDE DEF rest
      <4>. QED
        BY <1>5, <2>2, <3>0 DEF ToSet
    <3>2. x \in ToSet(seq)
      BY <1>2, <3>1 DEF ToSet
    <3>3. ASSUME NEW j \in 1 .. gone, x = seq[j] PROVE FALSE
      <4>1. j \in 1 .. N
        BY <1>2a, <1>4
      <4>2. j = gone + i
        BY <1>2, <3>1, <3>3, <4>1 DEF IsInjective
      <4>. QED
        BY <1>4, <3>1, <4>2
    <3>. QED
      BY <3>2, <3>3
  <2>3. ASSUME NEW x \in ToSet(seq) \ first(gone) PROVE x \in ToSet(rest)
    <3>1. PICK j \in 1 .. N : x = seq[j]
      BY <1>2, <2>3 DEF ToSet
    <3>2. ~(j \in 1 .. gone)
      BY <2>3, <3>1
    <3>3. j - gone \in 1 .. Len(rest) /\ gone + (j - gone) = j
      <4>1. Len(rest) = N - gone
        BY <1>5
      <4>. HIDE DEF rest
      <4>. QED
        BY <1>2a, <1>4, <3>1, <3>2, <4>1
    <3>4. rest[j - gone] = x
      BY <1>5, <3>1, <3>3
    <3>5. DOMAIN rest = 1 .. Len(rest)
      BY <1>5
    <3>. HIDE DEF rest
    <3>. QED
      BY <3>3, <3>4, <3>5 DEF ToSet
  <2>. QED
    BY <2>1, <2>2, <2>3
<1>. HIDE DEF rest, first
<1>8. IsFiniteSet(ToSet(seq)) /\ ToSet(seq) \in SUBSET CacheKeys /\ sum = SumOf(size, ToSet(seq))
  BY <1>2, ElementsOf DEF AddsUp
<1>9. /\ SumOf(size, first(gone)) \in Nat /\ SumOf(size, ToSet(rest)) \in Nat
      /\ sum = SumOf(size, first(gone)) + SumOf(size, ToSet(rest))
  <2>1. \A k \in ToSet(seq) : size[k] \in Nat
    BY <1>2, <1>8, CacheAssumption DEF CacheAssumption
  <2>. QED
    BY <1>7, <1>8, <2>1, SumSplits
<1>10. left(gone) = SumOf(size, ToSet(rest))
  BY <1>9
<1>11. IsFiniteSet(ToSet(rest)) /\ ToSet(rest) \in SUBSET CacheKeys
  BY <1>5, ElementsOf
<1>12. lru' = rest /\ stored' = SizesOf(ToSet(rest), size) /\ bytes' = SumOf(size, ToSet(rest))
  BY <1>1, <1>10 DEF rest
<1>13. AddsUp(rest, SizesOf(ToSet(rest), size), SumOf(size, ToSet(rest)))
  BY <1>2, <1>5, <1>6, <1>11, SizesKept DEF AddsUp
<1>14. left(gone) <= target /\ N - gone <= MaxEntries
  <2>1. CASE fits(gone)
    BY <2>1
  <2>2. CASE gone = N
    <3>1. rest = <<>>
      BY <1>2, <1>5, <2>2
    <3>2. SumOf(size, ToSet(rest)) = 0
      <4>1. ToSet(rest) = {}
        BY <3>1 DEF ToSet
      <4>2. IsFiniteSet({})
        BY FS_EmptySet
      <4>3. SumOf(size, {}) = 0
        BY <4>2, SumPicks
      <4>. QED
        BY <4>1, <4>3
    <3>3. N - gone = 0 /\ MaxEntries \in Nat
      BY <1>2a, <2>2, CacheAssumption DEF CacheAssumption
    <3>. HIDE DEF left
    <3>. QED
      BY <1>10, <3>2, <3>3
  <2>. QED
    BY <1>4, <2>1, <2>2
<1>. QED
  BY <1>5, <1>9, <1>10, <1>12, <1>13, <1>14

(* What the cache accounts for, and the room it has for it.                 *)
BudgetInv ==
    /\ AddsUp(lru, stored, bytes) /\ expired \subseteq Entries
    /\ budget \in Budgets /\ bytes <= budget /\ Len(lru) <= MaxEntries

LEMMA BudgetFacts ==
  ASSUME BudgetInv
  PROVE  /\ lru \in Seq(CacheKeys) /\ IsInjective(lru)
         /\ Entries = ToSet(lru) /\ Entries \in SUBSET CacheKeys /\ IsFiniteSet(Entries)
         /\ stored \in [CacheKeys -> ItemSizes \cup {0}]
         /\ bytes \in Nat /\ budget \in Nat /\ MaxEntries \in Nat /\ Len(lru) \in Nat
         /\ bytes = SumOf(stored, Entries)
<1>1. /\ lru \in Seq(CacheKeys) /\ IsInjective(lru) /\ Entries = ToSet(lru)
      /\ stored \in [CacheKeys -> ItemSizes \cup {0}] /\ bytes = SumOf(stored, Entries)
  BY DEF BudgetInv, AddsUp, Entries
<1>2. Entries \in SUBSET CacheKeys /\ IsFiniteSet(Entries)
  BY <1>1, ElementsOf
<1>3. bytes \in Nat
  BY <1>1, <1>2, SizesKept
<1>4. budget \in Nat /\ MaxEntries \in Nat /\ Len(lru) \in Nat
  BY <1>1, CacheAssumption DEF BudgetInv, CacheAssumption
<1>. QED
  BY <1>1, <1>2, <1>3, <1>4

\* an entry is put at the end of the others
LEMMA PutLast ==
  ASSUME NEW seq \in Seq(CacheKeys), IsInjective(seq), NEW k \in CacheKeys, k \notin ToSet(seq)
  PROVE  /\ Append(seq, k) \in Seq(CacheKeys) /\ IsInjective(Append(seq, k))
         /\ ToSet(Append(seq, k)) = ToSet(seq) \cup {k}
         /\ Len(Append(seq, k)) = Len(seq) + 1
<1>. DEFINE long == Append(seq, k)
            N == Len(seq)
<1>1. N \in Nat /\ DOMAIN seq = 1 .. N
  OBVIOUS
<1>2. /\ long \in Seq(CacheKeys) /\ Len(long) = N + 1 /\ DOMAIN long = 1 .. N + 1
      /\ \A i \in 1 .. N : long[i] = seq[i]
      /\ long[N + 1] = k
  OBVIOUS
<1>. HIDE DEF long, N
<1>3. \A i \in 1 .. N + 1 : i \in 1 .. N \/ i = N + 1
  BY <1>1
<1>4. \A i \in 1 .. N : i \in 1 .. N + 1 /\ seq[i] \in ToSet(seq)
  <2>1. \A i \in 1 .. N : i \in 1 .. N + 1
    BY <1>1
  <2>. QED
    BY <1>1, <2>1 DEF ToSet
<1>5. IsInjective(long)
  <2>1. ASSUME NEW i \in 1 .. N + 1, NEW j \in 1 .. N + 1, long[i] = long[j]
        PROVE  i = j
    <3>1. CASE i \in 1 .. N /\ j \in 1 .. N
      BY <1>1, <1>2, <2>1, <3>1 DEF IsInjective
    <3>2. CASE i \in 1 .. N /\ j = N + 1
      BY <1>2, <1>4, <2>1, <3>2
    <3>3. CASE i = N + 1 /\ j \in 1 .. N
      BY <1>2, <1>4, <2>1, <3>3
    <3>. QED
      BY <1>3, <3>1, <3>2, <3>3
  <2>. QED
    BY <1>2, <2>1 DEF IsInjective
<1>6. ToSet(long) = ToSet(seq) \cup {k}
  <2>1. ASSUME NEW x \in ToSet(long) PROVE x \in ToSet(seq) \cup {k}
    <3>1. PICK i \in 1 .. N + 1 : x = long[i]
      BY <1>2, <2>1 DEF ToSet
    <3>. QED
      BY <1>2, <1>3, <1>4, <3>1
  <2>2. ASSUME NEW x \in ToSet(seq) PROVE x \in ToSet(long)
    <3>1. PICK i \in 1 .. N : x = seq[i]
      BY <1>1, <2>2 DEF ToSet
    <3>2. x = long[i] /\ i \in 1 .. N + 1
      BY <1>2, <1>4, <3>1
    <3>. QED
      BY <1>2, <3>2 DEF ToSet
  <2>3. k \in ToSet(long)
    <3>1. N + 1 \in 1 .. N + 1
      BY <1>1
    <3>. QED
      BY <1>2, <3>1 DEF ToSet
  <2>. QED
    BY <2>1, <2>2, <2>3
<1>. QED
  BY <1>2, <1>5, <1>6 DEF long, N

LEMMA DropKeeps ==
  ASSUME BudgetInv, NEW keys, Drop(keys), UNCHANGED budget
  PROVE  BudgetInv'
<1>1. lru \in Seq(CacheKeys) /\ IsInjective(lru) /\ AddsUp(lru, stored, bytes)
  BY BudgetFacts DEF BudgetInv
<1>2. lru' = LeftAt(lru, PlacesOf(lru, CacheKeys \ keys))
  BY DEF Drop, Keep, PlacesOf
<1>3. /\ lru' \in Seq(CacheKeys) /\ IsInjective(lru')
      /\ ToSet(lru') = ToSet(lru) \cap (CacheKeys \ keys) /\ Len(lru') <= Len(lru)
  BY <1>1, <1>2, KeptKeys
<1>4. ToSet(lru) \cap (CacheKeys \ keys) = Entries \ keys /\ Entries \ keys \in SUBSET CacheKeys
  BY BudgetFacts
<1>5. IsFiniteSet(Entries \ keys)
  BY BudgetFacts, FS_Subset
<1>. DEFINE out == Entries \cap keys
<1>6. out \in SUBSET ToSet(lru) /\ ToSet(lru) \ out = Entries \ keys
  BY BudgetFacts
<1>7. bytes' = SumOf(stored, Entries \ keys) /\ bytes' <= bytes /\ bytes' \in Nat
  <2>1. bytes' = Greater(bytes, SumOf(stored, out)) - SumOf(stored, out)
    BY DEF Drop, BytesOf
  <2>. HIDE DEF out
  <2>2. /\ Greater(bytes, SumOf(stored, out)) - SumOf(stored, out) = SumOf(stored, ToSet(lru) \ out)
        /\ SumOf(stored, ToSet(lru) \ out) <= bytes /\ SumOf(stored, ToSet(lru) \ out) \in Nat
    BY <1>1, <1>6, Removed
  <2>. QED
    BY <1>6, <2>1, <2>2
<1>8. stored' = SizesOf(Entries \ keys, stored) /\ expired' = expired \ keys
  BY DEF Drop
<1>9. /\ stored' \in [CacheKeys -> ItemSizes \cup {0}]
      /\ SumOf(stored', Entries \ keys) = SumOf(stored, Entries \ keys)
  BY <1>4, <1>5, <1>8, BudgetFacts, SizesKept
<1>10. AddsUp(lru', stored', bytes') /\ Entries' = Entries \ keys
  BY <1>3, <1>4, <1>7, <1>9 DEF AddsUp, Entries
<1>11. expired' \subseteq Entries'
  BY <1>8, <1>10 DEF BudgetInv
<1>12. bytes' <= budget' /\ Len(lru') <= MaxEntries
  <2>1. bytes <= budget /\ Len(lru) <= MaxEntries
    BY DEF BudgetInv
  <2>2. bytes \in Nat /\ budget \in Nat /\ MaxEntries \in Nat /\ Len(lru) \in Nat
    BY BudgetFacts
  <2>3. Len(lru') \in Nat
    BY <1>3
  <2>. QED
    BY <1>3, <1>7, <2>1, <2>2, <2>3
<1>. QED
  BY <1>10, <1>11, <1>12 DEF BudgetInv

LEMMA LookupKeeps ==
  ASSUME BudgetInv, NEW t \in Requests, KeyOf(t) \in CacheKeys, Lookup(t)
  PROVE  BudgetInv'
<1>. DEFINE k == KeyOf(t)
            live == Entries \ expired
<1>1. CASE UNCHANGED <<lru, stored, expired, bytes, budget>>
  BY <1>1 DEF BudgetInv, Entries
<1>2. CASE Drop(expired) /\ UNCHANGED budget
  BY <1>2, DropKeeps
<1>3. ASSUME k \in live, lru' = Append(Keep(live \ {k}), k),
             bytes' = Greater(bytes, BytesOf(expired)) - BytesOf(expired),
             expired' = {}, stored' = SizesOf(live, stored), budget' = budget
      PROVE  BudgetInv'
  <2>1. lru \in Seq(CacheKeys) /\ IsInjective(lru) /\ AddsUp(lru, stored, bytes)
    BY BudgetFacts DEF BudgetInv
  <2>2. expired \in SUBSET ToSet(lru) /\ ToSet(lru) \ expired = live
    BY BudgetFacts DEF BudgetInv
  <2>. DEFINE rest == Keep(live \ {k})
  <2>3. /\ rest \in Seq(CacheKeys) /\ IsInjective(rest)
        /\ ToSet(rest) = ToSet(lru) \cap (live \ {k})
        /\ \A i \in DOMAIN lru : lru[i] \notin live \ {k} => Len(rest) + 1 <= Len(lru)
    <3>1. rest = LeftAt(lru, PlacesOf(lru, live \ {k}))
      BY DEF Keep, PlacesOf
    <3>. HIDE DEF rest
    <3>. QED
      BY <2>1, <3>1, KeptKeys
  <2>. HIDE DEF rest
  <2>4. ToSet(rest) = live \ {k} /\ live \in SUBSET CacheKeys /\ IsFiniteSet(live)
    BY <2>3, BudgetFacts, FS_Subset
  <2>5. /\ lru' \in Seq(CacheKeys) /\ IsInjective(lru')
        /\ ToSet(lru') = live /\ Len(lru') = Len(rest) + 1
    <3>1. lru' = Append(rest, k) /\ k \notin ToSet(rest) /\ (live \ {k}) \cup {k} = live
      BY <1>3, <2>4 DEF rest
    <3>. QED
      BY <2>3, <2>4, <3>1, PutLast
  <2>6. Len(lru') <= Len(lru)
    <3>1. PICK i \in DOMAIN lru : lru[i] = k
      BY <1>3 DEF Entries, ToSet
    <3>. QED
      BY <2>3, <2>5, <3>1
  <2>7. bytes' = SumOf(stored, live) /\ bytes' <= bytes /\ bytes' \in Nat
    <3>1. /\ Greater(bytes, SumOf(stored, expired)) - SumOf(stored, expired)
               = SumOf(stored, ToSet(lru) \ expired)
          /\ SumOf(stored, ToSet(lru) \ expired) <= bytes
          /\ SumOf(stored, ToSet(lru) \ expired) \in Nat
      BY <2>1, <2>2, Removed
    <3>. QED
      BY <1>3, <2>2, <3>1 DEF BytesOf
  <2>8. stored' \in [CacheKeys -> ItemSizes \cup {0}] /\ SumOf(stored', live) = SumOf(stored, live)
    BY <1>3, <2>4, BudgetFacts, SizesKept
  <2>9. AddsUp(lru', stored', bytes') /\ expired' \subseteq Entries'
    BY <1>3, <2>5, <2>7, <2>8 DEF AddsUp
  <2>10. bytes' <= budget' /\ Len(lru') <= MaxEntries
    <3>1. bytes <= budget /\ Len(lru) <= MaxEntries
      BY DEF BudgetInv
    <3>2. bytes \in Nat /\ budget \in Nat /\ MaxEntries \in Nat /\ Len(lru) \in Nat
      BY BudgetFacts
    <3>3. Len(lru') \in Nat
      BY <2>5
    <3>. QED
      BY <1>3, <2>6, <2>7, <3>1, <3>2, <3>3
  <2>. QED
    BY <1>3, <2>9, <2>10 DEF BudgetInv
<1>. QED
  BY <1>1, <1>2, <1>3 DEF Lookup

LEMMA StoreKeeps ==
  ASSUME BudgetInv, NEW t \in Requests, KeyOf(t) \in CacheKeys,
         request[t].size \in ItemSizes \cup {0}, Store(t)
  PROVE  BudgetInv'
<1>. DEFINE k == KeyOf(t)
            size == [stored EXCEPT ![k] = request[t].size]
            gone == expired \cup (Entries \cap {k})
            sum == Greater(bytes, BytesOf(gone)) - BytesOf(gone)
            rest == Keep(Entries \ gone)
            seq == Append(rest, k)
<1>1. Shrunk(seq, size, sum + size[k], budget) /\ expired' = {} /\ budget' = budget
  BY Zenon DEF Store
<1>2. lru \in Seq(CacheKeys) /\ IsInjective(lru) /\ AddsUp(lru, stored, bytes)
  BY BudgetFacts DEF BudgetInv
<1>3. gone \in SUBSET ToSet(lru) /\ ToSet(lru) \ gone = Entries \ gone /\ k \notin Entries \ gone
  BY BudgetFacts DEF BudgetInv
<1>4. rest \in Seq(CacheKeys) /\ IsInjective(rest) /\ ToSet(rest) = ToSet(lru) \cap (Entries \ gone)
  <2>1. rest = LeftAt(lru, PlacesOf(lru, Entries \ gone))
    BY DEF Keep, PlacesOf
  <2>. HIDE DEF rest, gone
  <2>. QED
    BY <1>2, <2>1, KeptKeys
<1>5. size \in [CacheKeys -> ItemSizes \cup {0}] /\ \A x \in CacheKeys : size[x] \in Nat
  <2>1. size \in [CacheKeys -> ItemSizes \cup {0}]
    BY BudgetFacts
  <2>. HIDE DEF size
  <2>. QED
    BY <2>1, CacheAssumption DEF CacheAssumption
<1>. DEFINE left == Entries \ gone
<1>6. /\ left \in SUBSET CacheKeys /\ IsFiniteSet(left) /\ ToSet(rest) = left /\ k \notin left
      /\ IsFiniteSet(left \cup {k}) /\ (left \cup {k}) \ {k} = left
  <2>1. left \in SUBSET CacheKeys /\ IsFiniteSet(left) /\ k \notin left
    BY <1>3, BudgetFacts, FS_Subset
  <2>2. ToSet(rest) = left
    BY <1>4, BudgetFacts
  <2>3. IsFiniteSet(left \cup {k})
    <3>. HIDE DEF left
    <3>. QED
      BY <2>1, FS_AddElement
  <2>. HIDE DEF left, rest
  <2>. QED
    BY <2>1, <2>2, <2>3
<1>7. sum = SumOf(stored, left)
  <2>1. Greater(bytes, SumOf(stored, gone)) - SumOf(stored, gone) = SumOf(stored, ToSet(lru) \ gone)
    <3>. HIDE DEF gone
    <3>. QED
      BY <1>2, <1>3, Removed
  <2>. HIDE DEF gone
  <2>. QED
    BY <1>3, <2>1 DEF BytesOf
<1>8. SumOf(size, left) = SumOf(stored, left)
  <2>1. \A x \in left : size[x] = stored[x] /\ stored[x] \in Nat
    BY <1>5, <1>6, BudgetFacts
  <2>. HIDE DEF left, size
  <2>. QED
    BY <1>6, <2>1, SumLaws
<1>9. SumOf(size, left \cup {k}) = sum + size[k]
  <2>1. SumOf(size, left \cup {k}) = size[k] + SumOf(size, (left \cup {k}) \ {k})
    <3>1. k \in left \cup {k} /\ \A x \in left \cup {k} : size[x] \in Nat
      BY <1>5, <1>6
    <3>. HIDE DEF left, size
    <3>. QED
      BY <1>6, <3>1, SumLaws
  <2>2. SumOf(size, left) \in Nat /\ size[k] \in Nat
    <3>1. \A x \in left : size[x] \in Nat
      BY <1>5, <1>6
    <3>. HIDE DEF left, size
    <3>. QED
      BY <1>5, <1>6, <3>1, SumLaws
  <2>3. SumOf(size, left \cup {k}) = size[k] + SumOf(size, left)
    <3>1. (left \cup {k}) \ {k} = left
      BY <1>6
    <3>. HIDE DEF left, size
    <3>. QED
      BY <2>1, <3>1
  <2>4. sum = SumOf(size, left)
    <3>. HIDE DEF left, size, sum
    <3>. QED
      BY <1>7, <1>8
  <2>. HIDE DEF left, size, sum
  <2>. QED
    BY <2>2, <2>3, <2>4
<1>10. seq \in Seq(CacheKeys) /\ IsInjective(seq) /\ ToSet(seq) = left \cup {k}
  <2>1. k \in CacheKeys /\ k \notin ToSet(rest)
    BY <1>6
  <2>. HIDE DEF rest, left, k
  <2>. QED
    BY <1>4, <1>6, <2>1, PutLast
<1>. HIDE DEF seq, size, sum, left, k
<1>11. AddsUp(seq, size, sum + size[k])
  BY <1>5, <1>9, <1>10 DEF AddsUp
<1>12. AddsUp(lru', stored', bytes') /\ bytes' <= budget /\ Len(lru') <= MaxEntries
  BY <1>1, <1>11, BudgetFacts, ShrunkAddsUp
<1>. QED
  BY <1>1, <1>12 DEF BudgetInv

LEMMA MemoryCheckKeeps ==
  ASSUME BudgetInv, NEW effective \in Budgets, MemoryCheck(effective)
  PROVE  BudgetInv'
<1>1. effective \in Nat /\ AddsUp(lru, stored, bytes)
  BY CacheAssumption DEF CacheAssumption, BudgetInv
<1>2. AddsUp(lru', stored', bytes') /\ bytes' <= effective /\ Len(lru') <= MaxEntries
  <2>1. CASE effective < budget
    <3>1. Shrunk(lru, stored, bytes, effective)
      BY <2>1 DEF MemoryCheck
    <3>. QED
      BY <1>1, <3>1, ShrunkAddsUp
  <2>2. CASE ~(effective < budget)
    <3>1. lru' = lru /\ stored' = stored /\ bytes' = bytes
      BY <2>2 DEF MemoryCheck
    <3>2. bytes <= effective
      BY <1>1, <2>2, BudgetFacts DEF BudgetInv
    <3>. QED
      BY <1>1, <3>1, <3>2 DEF BudgetInv
  <2>. QED
    BY <2>1, <2>2
<1>3. budget' = effective /\ expired' \subseteq Entries'
  BY DEF MemoryCheck, Entries
<1>. QED
  BY <1>2, <1>3 DEF BudgetInv

\* nothing is left, and nothing is accounted for
LEMMA NothingAddsUp ==
  ASSUME NEW size \in [CacheKeys -> ItemSizes \cup {0}]
  PROVE  AddsUp(<<>>, size, 0)
<1>1. IsFiniteSet({}) /\ ToSet(<<>>) = {}
  BY FS_EmptySet DEF ToSet
<1>2. SumOf(size, {}) = 0
  BY <1>1, SumPicks
<1>. QED
  BY <1>1, <1>2 DEF AddsUp, IsInjective

LEMMA ClearKeeps ==
  ASSUME BudgetInv, Clear
  PROVE  BudgetInv'
<1>1. lru' = <<>> /\ bytes' = 0 /\ expired' = {} /\ stored' = SizesOf({}, stored) /\ budget' = budget
  BY DEF Clear
<1>2. stored' \in [CacheKeys -> ItemSizes \cup {0}]
  BY <1>1 DEF SizesOf
<1>3. AddsUp(lru', stored', bytes')
  BY <1>1, <1>2, NothingAddsUp
<1>4. bytes' <= budget' /\ Len(lru') <= MaxEntries
  BY <1>1, BudgetFacts
<1>. QED
  BY <1>1, <1>3, <1>4 DEF BudgetInv

LEMMA BudgetStep ==
  ASSUME BudgetInv, request \in [Requests -> Request], [CacheNext]_cacheVars
  PROVE  BudgetInv'
<1>0. \A t \in Requests : KeyOf(t) \in CacheKeys /\ request[t].size \in ItemSizes \cup {0}
  BY DEF Request, KeyOf
<1>1. CASE UNCHANGED table
  BY <1>1 DEF table, BudgetInv, Entries
<1>2. ASSUME NEW t \in Requests, Answering(t)
      PROVE  BudgetInv'
  <2>1. CASE Share(t) \/ GiveUp(t) \/ Compute(t) \/ CheckSize(t) \/ Publish(t)
    BY <1>1, <2>1 DEF Share, GiveUp, Compute, CheckSize, Publish
  <2>. QED
    BY <1>0, <1>2, <2>1, LookupKeeps, StoreKeeps DEF Answering
<1>3. ASSUME NEW k \in CacheKeys, Expires(k)
      PROVE  BudgetInv'
  BY <1>3 DEF Expires, BudgetInv, Entries
<1>4. ASSUME NEW k \in CacheKeys, Invalidate({k})
      PROVE  BudgetInv'
  BY <1>4, DropKeeps DEF Invalidate
<1>5. ASSUME (\E t \in Requests : \E k \in CacheKeys : Arrive(t, k))
               \/ (\E k \in CacheKeys : FlightAges(k)) \/ UNCHANGED cacheVars
      PROVE  BudgetInv'
  BY <1>1, <1>5 DEF Arrive, FlightAges, cacheVars
<1>. QED
  BY <1>2, <1>3, <1>4, <1>5, ClearKeeps, MemoryCheckKeeps DEF CacheNext

LEMMA BudgetStarts == CacheInit => BudgetInv
<1>. SUFFICES ASSUME CacheInit PROVE BudgetInv
  OBVIOUS
<1>1. lru = <<>> /\ bytes = 0 /\ expired = {} /\ budget \in Budgets
      /\ stored \in [CacheKeys -> ItemSizes \cup {0}]
  BY DEF CacheInit
<1>2. AddsUp(lru, stored, bytes)
  BY <1>1, NothingAddsUp
<1>3. bytes <= budget /\ Len(lru) <= MaxEntries
  BY <1>1, CacheAssumption DEF CacheAssumption
<1>. QED
  BY <1>1, <1>2, <1>3 DEF BudgetInv

(* The sizes that are accounted for are those of the entries, and they stay *)
(* within the budget of the moment: insertions, replacements, expiry,       *)
(* invalidation and a memory check that shrinks the budget between the test *)
(* of a size and the insertion all leave it so (DashboardCache.set,         *)
(* _shrink_to_locked, evaluate_memory_pressure).                            *)
THEOREM BudgetAlwaysKept == CacheSpec => []BudgetKept
<1>1. CacheInit => FlightInv /\ BudgetInv
  BY BudgetStarts, AtRestTyped DEF CacheInit, FlightInv, FlightTyped, WorkersFly, Working
<1>2. FlightInv /\ BudgetInv /\ [CacheNext]_cacheVars => FlightInv' /\ BudgetInv'
  BY FlightStep, BudgetStep DEF FlightInv, FlightTyped
<1>3. BudgetInv => BudgetKept
  BY BudgetFacts DEF BudgetInv, BudgetKept, BytesOf
<1>. QED
  BY <1>1, <1>2, <1>3, PTL DEF CacheSpec

LapsedTyped == lapsed \subseteq CacheKeys

(* Every variable of the cache has its type, and an OrderedDict holds a key *)
(* once.                                                                    *)
THEOREM CacheTypeCorrect == CacheSpec => []CacheTypeOK
<1>1. CacheInit => FlightInv /\ BudgetInv /\ LapsedTyped
  BY BudgetStarts, AtRestTyped DEF LapsedTyped, CacheInit, FlightInv, FlightTyped, WorkersFly, Working
<1>2. FlightInv /\ BudgetInv /\ [CacheNext]_cacheVars => FlightInv' /\ BudgetInv'
  BY FlightStep, BudgetStep DEF FlightInv, FlightTyped
<1>3. FlightInv /\ LapsedTyped /\ [CacheNext]_cacheVars => LapsedTyped'
  <2>. SUFFICES ASSUME FlightInv, LapsedTyped, [CacheNext]_cacheVars
                PROVE  LapsedTyped'
    OBVIOUS
  <2>1. \A t \in Requests : KeyOf(t) \in CacheKeys
    BY RequestFacts
  <2>2. lapsed' = lapsed \/ \E k \in CacheKeys : lapsed' = lapsed \cup {k}
    <3>1. CASE UNCHANGED lapsed
      BY <3>1
    <3>2. ASSUME NEW t \in Requests, GiveUp(t)
          PROVE  \E k \in CacheKeys : lapsed' = lapsed \cup {k}
      BY <2>1, <3>2 DEF GiveUp
    <3>3. ASSUME NEW k \in CacheKeys, FlightAges(k)
          PROVE  lapsed' = lapsed \cup {k}
      BY <3>3 DEF FlightAges
    <3>4. ASSUME NEW t \in Requests, Answering(t) \/ \E k \in CacheKeys : Arrive(t, k)
          PROVE  lapsed' = lapsed \/ \E k \in CacheKeys : lapsed' = lapsed \cup {k}
      BY <3>2, <3>4 DEF Answering, Arrive, Lookup, Share, Compute, CheckSize, Store, Publish
    <3>5. CASE UNCHANGED cacheVars
      BY <3>5 DEF cacheVars
    <3>. QED
      BY <3>3, <3>4, <3>5 DEF CacheNext, Expires, Invalidate, Clear, MemoryCheck
  <2>. QED
    BY <2>2 DEF LapsedTyped
<1>4. BudgetInv => Len(lru) = Cardinality(Entries)
  <2>. SUFFICES ASSUME BudgetInv PROVE Len(lru) = Cardinality(Entries)
    OBVIOUS
  <2>1. lru \in Seq(CacheKeys) /\ IsInjective(lru) /\ Entries = ToSet(lru) /\ Len(lru) \in Nat
    BY BudgetFacts
  <2>2. DOMAIN lru = 1 .. Len(lru) /\ lru = [i \in 1 .. Len(lru) |-> lru[i]]
    BY <2>1
  <2>. DEFINE places == 1 .. Len(lru)
  <2>3. IsFiniteSet(places) /\ Cardinality(places) = Len(lru)
    BY <2>1, CountTo
  <2>4. \A i \in places : lru[i] \in Entries
    BY <2>1, <2>2 DEF ToSet
  <2>5. \A x \in Entries : \E i \in places : lru[i] = x
    BY <2>1, <2>2 DEF ToSet
  <2>. HIDE DEF places
  <2>6. lru \in [places -> Entries]
    BY <2>2, <2>4 DEF places
  <2>7. lru \in Surjection(places, Entries) /\ lru \in Injection(places, Entries)
    BY <2>1, <2>5, <2>6 DEF Surjection, Injection
  <2>8. Cardinality(Entries) = Cardinality(places)
    BY <2>3, <2>7, FS_Surjection
  <2>. QED
    BY <2>3, <2>8
<1>5. FlightInv /\ BudgetInv /\ LapsedTyped => CacheTypeOK
  BY <1>4, BudgetFacts DEF LapsedTyped, FlightInv, FlightTyped, BudgetInv, CacheTypeOK
<1>. QED
  BY <1>1, <1>2, <1>3, <1>5, PTL DEF CacheSpec

-----------------------------------------------------------------------------
(* Anomaly detection. *)

Thread ==
    [pc : {"idle", "select", "write", "runtime", "close", "enqueue"},
     items : Seq(Item), read : EventIds \cup {0}, wrote : EventIds \cup {0},
     end : 0 .. MaxDelay]

Writing == {"select", "write", "runtime"}

DetectionTyped ==
    /\ DetectionTypeOK
    /\ scan \in [Scans -> Thread]
    /\ \A t \in Scans : scan[t].pc \in {"select", "write"} => scan[t].items # <<>>

\* who holds the lock is between its first write and its commit
WriterWrites ==
    /\ dbWriter = Unlocked => draft = <<>>
    /\ dbWriter # Unlocked => scan[dbWriter].pc \in Writing

\* the loop's flows are of its window, which moves on while it works
SeenInWindow ==
    \A i \in DOMAIN scan[Loop].items :
        scan[Loop].items[i].age < Window + scan[Loop].end

\* what the loop has written it has not committed, or not yet looked at again
WroteLately ==
    scan[Loop].wrote # 0 =>
        \/ scan[Loop].pc = "close"
        \/ dbWriter = Loop

Recent(rows) ==
    \A i \in DOMAIN rows : rows[i].id = scan[Loop].wrote => ~Stale(rows[i])

\* the row the loop wrote is recent for every thread that can see the write
WrittenIsRecent ==
    scan[Loop].wrote # 0 /\ ~backdated =>
        Recent(draft) /\ (dbWriter # Loop => Recent(events))

KeptInv ==
    /\ DetectionTyped
    /\ WriterWrites
    /\ SeenInWindow
    /\ WroteLately
    /\ WrittenIsRecent

LEMMA AgesTyped ==
  /\ MaxAge \in Nat /\ 0 .. Window - 1 \subseteq 0 .. MaxAge
  /\ \A a \in 0 .. MaxAge : Older(a, MaxAge) \in 0 .. MaxAge /\ Older(a, MaxAge) <= a + 1
  /\ \A a \in 0 .. MaxAge + 1 : Older(a, MaxAge + 1) \in 0 .. MaxAge + 1
BY DetectionAssumption DEF MaxAge, Older

LEMMA ItemTyped ==
  ASSUME DetectionTypeOK, NEW b \in MatchedBuckets
  PROVE  ItemOf(b) \in Item /\ ItemOf(b).age < Window
<1>. DEFINE T == {a \in b : traffic[a] > 0}
<1>1. b \subseteq 0 .. Window - 1 /\ \E a \in b : traffic[a] > 0
  BY DEF MatchedBuckets, Buckets
<1>2. T \subseteq Nat /\ T # {}
  <2>1. 0 .. Window - 1 \subseteq Nat
    BY DetectionAssumption
  <2>. QED
    BY <1>1, <2>1
<1>3. \E a \in T : \A c \in T : a <= c
  BY <1>2, LeastNatural
<1>4. ItemOf(b).age \in T
  BY <1>3 DEF ItemOf
<1>5. ItemOf(b).age \in 0 .. Window - 1
  BY <1>1, <1>4
<1>6. ItemOf(b).age \in 0 .. MaxAge /\ ItemOf(b).critical \in BOOLEAN
  BY <1>5, AgesTyped DEF ItemOf
<1>. QED
  BY <1>5, <1>6, DetectionAssumption DEF ItemOf, Item

(* What a query returns is a sequence of samples of its window.             *)
LEMMA ObservationTyped ==
  ASSUME DetectionTypeOK, NEW items \in Observations
  PROVE  items \in Seq(Item) /\ \A i \in DOMAIN items : items[i].age < Window
<1>1. PICK order \in SetToSeqs(MatchedBuckets) :
        items = [i \in DOMAIN order |-> ItemOf(order[i])]
  BY DEF Observations
<1>2. IsFiniteSet(Buckets)
  <2>. DEFINE A == {a \in 0 .. Window - 1 : a <= phase}
              B == {a \in 0 .. Window - 1 : a > phase}
  <2>1. IsFiniteSet({A}) /\ IsFiniteSet({B})
    BY FS_Singleton
  <2>2. IsFiniteSet({A} \cup {B})
    BY <2>1, FS_Union, Zenon
  <2>3. Buckets = {A} \cup {B}
    BY DEF Buckets
  <2>. QED
    BY <2>2, <2>3, Zenon
<1>3. Cardinality(MatchedBuckets) \in Nat
  BY <1>2, FS_Subset, FS_CardinalityType DEF MatchedBuckets
<1>4. order \in [1 .. Cardinality(MatchedBuckets) -> MatchedBuckets]
  BY <1>1 DEF SetToSeqs
<1>5. \A i \in 1 .. Cardinality(MatchedBuckets) :
        items[i] \in Item /\ items[i].age < Window
  BY <1>1, <1>4, ItemTyped
<1>. QED
  BY <1>1, <1>3, <1>4, <1>5

LEMMA UpsertedTyped ==
  ASSUME NEW rows \in Seq(Event), NEW id \in EventIds \cup {0}, NEW new \in EventIds,
         NEW item \in Item
  PROVE  Upserted(rows, id, new, item) \in Seq(Event)
<1>1. Opened(new, item) \in Event
  BY DetectionAssumption DEF Opened, Event, Item
<1>2. ASSUME NEW event \in Event
      PROVE  Refreshed(event, item) \in Event
  <2>1. event.points \in 1 .. Required /\ item.age \in 0 .. MaxAge /\ item.critical \in BOOLEAN
    BY DEF Event, Item
  <2>2. (IF item.age = event.age \/ event.points = Required
         THEN event.points ELSE event.points + 1) \in 1 .. Required
    BY <2>1, DetectionAssumption
  <2>. QED
    BY <2>1, <2>2 DEF Refreshed, Event
<1>3. \A i \in DOMAIN rows : Refreshed(rows[i], item) \in Event
  BY <1>2
<1>. QED
  BY <1>1, <1>3 DEF Upserted

(* The rows that are left are rows of before, and all that were kept.       *)
LEMMA LeftRows ==
  ASSUME NEW rows \in Seq(Event), NEW kept \in SUBSET DOMAIN rows,
         NEW rest, rest = LeftAt(rows, kept)
  PROVE  /\ rest \in Seq(Event)
         /\ \A i \in kept : \E k \in DOMAIN rest : rest[k] = rows[i]
         /\ \A k \in DOMAIN rest : \E i \in kept : rest[k] = rows[i]
<1>. DEFINE c == Cardinality(kept)
<1>1. /\ c \in Nat
      /\ \E f \in [1 .. c -> kept] :
           /\ Increasing(f)
           /\ \A p \in kept : \E i \in 1 .. c : f[i] = p
           /\ LeftAt(rows, kept) = [i \in 1 .. c |-> rows[f[i]]]
  BY LeftOrder
<1>. HIDE DEF c
<1>2. PICK f \in [1 .. c -> kept] :
        /\ \A p \in kept : \E i \in 1 .. c : f[i] = p
        /\ rest = [i \in 1 .. c |-> rows[f[i]]]
  BY <1>1
<1>3. DOMAIN rest = 1 .. c /\ \A k \in 1 .. c : rest[k] = rows[f[k]] /\ rest[k] \in Event
  BY <1>2
<1>4. rest \in Seq(Event)
  BY <1>1, <1>2, <1>3
<1>. QED
  BY <1>2, <1>3, <1>4

LEMMA RemoveAtRows ==
  ASSUME NEW rows \in Seq(Event), NEW i \in DOMAIN rows
  PROVE  /\ RemoveAt(rows, i) \in Seq(Event)
         /\ \A k \in DOMAIN RemoveAt(rows, i) :
              \E j \in DOMAIN rows : RemoveAt(rows, i)[k] = rows[j]
<1>. DEFINE a == SubSeq(rows, 1, i - 1)
            b == SubSeq(rows, i + 1, Len(rows))
<1>1. a \in Seq(Event) /\ Len(a) = i - 1 /\ \A k \in 1 .. i - 1 : a[k] = rows[k]
  OBVIOUS
<1>2. /\ b \in Seq(Event) /\ Len(b) = Len(rows) - i
      /\ \A k \in 1 .. Len(rows) - i : b[k] = rows[i + k]
  OBVIOUS
<1>. HIDE DEF a, b
<1>3. /\ a \o b \in Seq(Event) /\ Len(a \o b) = Len(rows) - 1
      /\ \A k \in 1 .. Len(rows) - 1 : (a \o b)[k] = IF k < i THEN rows[k] ELSE rows[k + 1]
  <2>1. a \o b \in Seq(Event) /\ Len(a \o b) = Len(rows) - 1
    BY <1>1, <1>2
  <2>2. ASSUME NEW k \in 1 .. Len(rows) - 1
        PROVE  (a \o b)[k] = IF k < i THEN rows[k] ELSE rows[k + 1]
    <3>1. (a \o b)[k] = IF k <= Len(a) THEN a[k] ELSE b[k - Len(a)]
      BY <1>1, <1>2
    <3>2. CASE k < i
      BY <3>1, <3>2, <1>1
    <3>3. CASE ~(k < i)
      <4>1. k - (i - 1) \in 1 .. Len(rows) - i /\ i + (k - (i - 1)) = k + 1
        BY <3>3
      <4>. QED
        BY <3>1, <3>3, <4>1, <1>1, <1>2
    <3>. QED
      BY <3>2, <3>3
  <2>. QED
    BY <2>1, <2>2
<1>4. RemoveAt(rows, i) = a \o b
  BY DEF RemoveAt, a, b
<1>5. \A k \in 1 .. Len(rows) - 1 : \E j \in DOMAIN rows : (a \o b)[k] = rows[j]
  <2>1. \A k \in 1 .. Len(rows) - 1 : k \in DOMAIN rows /\ k + 1 \in DOMAIN rows
    OBVIOUS
  <2>. QED
    BY <1>3, <2>1
<1>6. DOMAIN (a \o b) = 1 .. Len(rows) - 1
  BY <1>3
<1>. QED
  BY <1>3, <1>4, <1>5, <1>6

LEMMA OlderRowsTyped ==
  ASSUME NEW rows \in Seq(Event)
  PROVE  /\ OlderRows(rows) \in Seq(Event) /\ DOMAIN OlderRows(rows) = DOMAIN rows
         /\ \A i \in DOMAIN rows : /\ OlderRows(rows)[i].id = rows[i].id
                                  /\ OlderRows(rows)[i].age <= rows[i].age + 1
<1>1. ASSUME NEW event \in Event
      PROVE  /\ [event EXCEPT !.age = Older(@, MaxAge)] \in Event
             /\ [event EXCEPT !.age = Older(@, MaxAge)].id = event.id
             /\ [event EXCEPT !.age = Older(@, MaxAge)].age <= event.age + 1
  <2>1. Older(event.age, MaxAge) \in 0 .. MaxAge /\ Older(event.age, MaxAge) <= event.age + 1
    BY AgesTyped DEF Event
  <2>. QED
    BY <2>1 DEF Event
<1>2. OlderRows(rows) = [i \in 1 .. Len(rows) |-> [rows[i] EXCEPT !.age = Older(@, MaxAge)]]
  BY DEF OlderRows
<1>3. OlderRows(rows) \in [1 .. Len(rows) -> Event]
  BY <1>1, <1>2
<1>4. OlderRows(rows) \in Seq(Event)
  BY <1>3
<1>5. \A i \in 1 .. Len(rows) : /\ OlderRows(rows)[i].id = rows[i].id
                               /\ OlderRows(rows)[i].age <= rows[i].age + 1
  <2>1. ASSUME NEW i \in 1 .. Len(rows)
        PROVE  OlderRows(rows)[i].id = rows[i].id /\ OlderRows(rows)[i].age <= rows[i].age + 1
    <3>1. rows[i] \in Event /\ OlderRows(rows)[i] = [rows[i] EXCEPT !.age = Older(@, MaxAge)]
      BY <1>2
    <3>. QED
      BY <3>1, <1>1
  <2>. QED
    BY <2>1
<1>. QED
  BY <1>3, <1>4, <1>5

LEMMA RestingTyped ==
  Resting \in Thread /\ Resting.pc = "idle" /\ Resting.items = <<>> /\ Resting.end = 0
    /\ Resting.wrote = 0
<1>1. <<>> \in Seq(Item) /\ 0 \in 0 .. MaxDelay
  BY DetectionAssumption
<1>. QED
  BY <1>1 DEF Resting, Thread

LEMMA DetectionTypedInit == DetectionInit => DetectionTyped
<1>. SUFFICES ASSUME DetectionInit PROVE DetectionTyped
  OBVIOUS
<1>1. NoJob \in Job
  BY AgesTyped DEF NoJob, Job
<1>2. scan \in [Scans -> Thread] /\ \A t \in Scans : scan[t] = Resting
  BY RestingTyped DEF DetectionInit
<1>3. \A t \in Scans : /\ scan[t].items \in Seq(Item) /\ scan[t].end \in 0 .. MaxDelay
                      /\ scan[t].pc = "idle"
  BY <1>2, RestingTyped DEF Thread
<1>4. traffic \in [0 .. Window - 1 -> Volumes]
  BY DetectionAssumption DEF DetectionInit
<1>5. upsets \in 0 .. MaxUpsets /\ jobOf \in [EventIds -> Job]
  BY <1>1, DetectionAssumption DEF DetectionInit
<1>. QED
  BY <1>2, <1>3, <1>4, <1>5 DEF DetectionInit, DetectionTyped, DetectionTypeOK

(* Every transaction keeps the types.                                       *)
LEMMA StartScanTyped ==
  ASSUME DetectionTyped, NEW t \in Scans, StartScan(t)
  PROVE  DetectionTyped'
<1>1. ASSUME NEW items \in Seq(Item), Starts(t, items)
      PROVE  /\ scan' \in [Scans -> Thread]
             /\ \A u \in Scans : scan'[u].pc \in {"select", "write"} => scan'[u].items # <<>>
             /\ \A u \in Scans : scan'[u].items \in Seq(Item) /\ scan'[u].end \in 0 .. MaxDelay
  <2>1. scan'[t].items = items /\ scan'[t] \in Thread
        /\ (scan'[t].pc \in {"select", "write"} => items # <<>>)
    <3>1. scan'[t] = [Resting EXCEPT !.pc = IF items = <<>> THEN "runtime" ELSE "select",
                                     !.items = items]
      BY <1>1 DEF Starts, DetectionTyped
    <3>. QED
      BY <1>1, <3>1, RestingTyped DEF Thread
  <2>2. \A u \in Scans \ {t} : scan'[u] = scan[u]
    BY <1>1 DEF Starts, DetectionTyped
  <2>3. scan' \in [Scans -> Thread]
    BY <1>1, <2>1, <2>2 DEF Starts, DetectionTyped
  <2>. QED
    BY <1>1, <2>1, <2>2, <2>3 DEF DetectionTyped, Thread
<1>2. <<>> \in Seq(Item)
  OBVIOUS
<1>3. /\ scan' \in [Scans -> Thread]
      /\ \A u \in Scans : scan'[u].pc \in {"select", "write"} => scan'[u].items # <<>>
      /\ \A u \in Scans : scan'[u].items \in Seq(Item) /\ scan'[u].end \in 0 .. MaxDelay
  BY <1>1, <1>2, ObservationTyped DEF StartScan, DetectionTyped
<1>4. upsets' \in 0 .. MaxUpsets
  BY DetectionAssumption DEF StartScan, Upset, DetectionTyped, DetectionTypeOK
<1>. QED
  BY <1>3, <1>4 DEF StartScan, DetectionTyped, DetectionTypeOK, Database

LEMMA SelectTyped ==
  ASSUME DetectionTyped, NEW t \in Scans, Select(t)
  PROVE  DetectionTyped'
<1>1. Seen(t) \in Seq(Event)
  BY DEF Seen, DetectionTyped, DetectionTypeOK
<1>2. (IF Seen(t) = <<>> THEN 0 ELSE Last(Seen(t)).id) \in EventIds \cup {0}
  <2>1. CASE Seen(t) # <<>>
    <3>1. Last(Seen(t)) \in Event
      BY <1>1, <2>1 DEF Last
    <3>. QED
      BY <2>1, <3>1 DEF Event
  <2>. QED
    BY <2>1
<1>3. scan' \in [Scans -> Thread]
  BY <1>2 DEF Select, DetectionTyped, Thread
<1>4. \A u \in Scans : /\ scan'[u].items = scan[u].items /\ scan'[u].end = scan[u].end
                       /\ (scan'[u].pc \in {"select", "write"} => scan[u].pc \in {"select", "write"})
  BY DEF Select, ScanAt, DetectionTyped
<1>. QED
  BY <1>3, <1>4 DEF Select, DetectionTyped, DetectionTypeOK, Database

(* What a write does to the thread and to what it sees.                     *)
LEMMA WriteTyped ==
  ASSUME DetectionTyped, NEW t \in Scans, Write(t)
  PROVE  /\ DetectionTyped'
         /\ Seen(t) \in Seq(Event)
         /\ Head(scan[t].items) \in Item
<1>1. Seen(t) \in Seq(Event) /\ scan[t].items \in Seq(Item) /\ scan[t].items # <<>>
      /\ scan[t].read \in EventIds \cup {0} /\ scan[t] \in Thread
  BY DEF Seen, DetectionTyped, DetectionTypeOK, Write, ScanAt, Thread
<1>. DEFINE item == Head(scan[t].items)
            rest == Tail(scan[t].items)
            new == CHOOSE id \in EventIds : id \notin InUse
<1>2. item \in Item /\ rest \in Seq(Item)
  BY <1>1
<1>3. scan[t].read = 0 => new \in EventIds
  BY DEF Write
<1>4. Upserted(Seen(t), scan[t].read, new, item) \in Seq(Event)
  <2>1. CASE scan[t].read = 0
    BY <1>1, <1>2, <1>3, <2>1, UpsertedTyped
  <2>2. CASE scan[t].read # 0
    <3>1. Upserted(Seen(t), scan[t].read, new, item)
            = Upserted(Seen(t), scan[t].read, scan[t].read, item)
      BY <2>2 DEF Upserted
    <3>. HIDE DEF new, item
    <3>. QED
      BY <1>1, <1>2, <2>2, <3>1, UpsertedTyped
  <2>. QED
    BY <2>1, <2>2
<1>5. draft' \in Seq(Event)
  BY <1>4 DEF Write
<1>6. scan' \in [Scans -> Thread]
  <2>1. (IF t # Loop THEN 0 ELSE IF scan[t].read = 0 THEN new ELSE scan[t].read)
          \in EventIds \cup {0}
    BY <1>1, <1>3
  <2>. HIDE DEF new, item, rest
  <2>2. scan' = [scan EXCEPT ![t].pc = IF rest = <<>> THEN "runtime" ELSE "select",
                            ![t].items = rest, ![t].read = 0,
                            ![t].wrote = IF t # Loop THEN 0
                                         ELSE IF scan[t].read = 0 THEN new ELSE scan[t].read]
    BY DEF Write, new, rest
  <2>. QED
    BY <1>1, <1>2, <2>1, <2>2 DEF DetectionTyped, Thread
<1>7. \A u \in Scans : scan'[u].pc \in {"select", "write"} => scan'[u].items # <<>>
  <2>1. \A u \in Scans \ {t} : scan'[u] = scan[u]
    BY DEF Write, DetectionTyped
  <2>2. scan'[t].items = rest /\ scan'[t].pc = IF rest = <<>> THEN "runtime" ELSE "select"
    BY DEF Write, DetectionTyped, Thread
  <2>. QED
    BY <2>1, <2>2 DEF DetectionTyped
<1>8. \A u \in Scans : scan'[u].items \in Seq(Item) /\ scan'[u].end \in 0 .. MaxDelay
  BY <1>6 DEF Thread
<1>. QED
  BY <1>1, <1>2, <1>5, <1>6, <1>7, <1>8 DEF Write, DetectionTyped, DetectionTypeOK

LEMMA CommitTyped ==
  ASSUME DetectionTyped, NEW t \in Scans, CommitScan(t)
  PROVE  DetectionTyped'
<1>1. events' \in Seq(Event) /\ draft' \in Seq(Event)
  BY DEF CommitScan, Seen, DetectionTyped, DetectionTypeOK
<1>2. [scan[t] EXCEPT !.pc = "close"] \in Thread /\ [scan[t] EXCEPT !.pc = "close"].pc = "close"
  BY DEF Thread, DetectionTyped
<1>3. scan' \in [Scans -> Thread]
  BY <1>2, RestingTyped DEF CommitScan, DetectionTyped
<1>4. \A u \in Scans : scan'[u].pc \in {"select", "write"} => scan'[u] = scan[u]
  BY <1>2, RestingTyped DEF CommitScan, DetectionTyped
<1>5. \A u \in Scans : scan'[u].items \in Seq(Item) /\ scan'[u].end \in 0 .. MaxDelay
  BY <1>3 DEF Thread
<1>. QED
  BY <1>1, <1>3, <1>4, <1>5 DEF CommitScan, DetectionTyped, DetectionTypeOK

LEMMA RollbackTyped ==
  ASSUME DetectionTyped, NEW t \in Scans, Rollback(t)
  PROVE  DetectionTyped'
<1>1. draft' \in Seq(Event) /\ dbWriter' \in Scans \cup {Unlocked}
  <2>1. <<>> \in Seq(Event)
    OBVIOUS
  <2>2. CASE dbWriter = t
    BY <2>1, <2>2 DEF Rollback
  <2>3. CASE dbWriter # t
    BY <2>3 DEF Rollback, DetectionTyped, DetectionTypeOK
  <2>. QED
    BY <2>2, <2>3
<1>6. upsets' \in 0 .. MaxUpsets
  BY DetectionAssumption DEF Rollback, Upset, DetectionTyped, DetectionTypeOK
<1>. DEFINE gone == [scan[t] EXCEPT !.pc = "close", !.items = <<>>, !.read = 0, !.wrote = 0]
<1>2. gone \in Thread /\ gone.pc = "close"
  <2>1. scan[t] \in Thread /\ <<>> \in Seq(Item)
    BY DEF DetectionTyped
  <2>. QED
    BY <2>1 DEF Thread
<1>3. scan' \in [Scans -> Thread]
  BY <1>2, RestingTyped DEF Rollback, DetectionTyped
<1>4. \A u \in Scans : scan'[u].pc \in {"select", "write"} => scan'[u] = scan[u]
  BY <1>2, RestingTyped DEF Rollback, DetectionTyped
<1>5. \A u \in Scans : scan'[u].items \in Seq(Item) /\ scan'[u].end \in 0 .. MaxDelay
  BY <1>3 DEF Thread
<1>. QED
  BY <1>1, <1>3, <1>4, <1>5, <1>6 DEF Rollback, DetectionTyped, DetectionTypeOK

LEMMA JobsTyped ==
  ASSUME DetectionTyped, NEW rows
  PROVE  JobsOf(rows) \in [EventIds -> Job]
<1>1. NoJob \in Job
  BY AgesTyped DEF NoJob, Job
<1>. QED
  BY <1>1 DEF JobsOf, DetectionTyped, DetectionTypeOK

LEMMA CloseTyped ==
  ASSUME DetectionTyped, CloseStale
  PROVE  DetectionTyped'
<1>1. events' \in Seq(Event)
  <2>. DEFINE kept == {i \in DOMAIN events : ~Stale(events[i])}
  <2>1. kept \in SUBSET DOMAIN events /\ events' = LeftAt(events, kept) /\ events \in Seq(Event)
    BY DEF CloseStale, DetectionTyped, DetectionTypeOK
  <2>. HIDE DEF kept
  <2>. QED
    BY <2>1, LeftRows
<1>2. jobOf' \in [EventIds -> Job]
  BY JobsTyped DEF CloseStale
<1>3. scan' \in [Scans -> Thread]
  BY DEF CloseStale, DetectionTyped, Thread
<1>4. \A u \in Scans : scan'[u].pc \in {"select", "write"} => scan'[u] = scan[u]
  BY DEF CloseStale, DetectionTyped
<1>5. \A u \in Scans : scan'[u].items \in Seq(Item) /\ scan'[u].end \in 0 .. MaxDelay
  BY <1>3 DEF Thread
<1>. QED
  BY <1>1, <1>2, <1>3, <1>4, <1>5 DEF CloseStale, DetectionTyped, DetectionTypeOK

LEMMA EnqueueActiveTyped ==
  ASSUME DetectionTyped, EnqueueActive
  PROVE  DetectionTyped'
<1>1. ASSUME NEW job \in Job PROVE [job EXCEPT !.age = 0, !.queued = TRUE] \in Job
  <2>1. 0 \in 0 .. MaxAge + 1
    BY AgesTyped
  <2>. QED
    BY <2>1 DEF Job
<1>2. jobOf' \in [EventIds -> Job]
  BY <1>1 DEF EnqueueActive, DetectionTyped, DetectionTypeOK
<1>3. scan' \in [Scans -> Thread]
  BY RestingTyped DEF EnqueueActive, DetectionTyped
<1>4. \A u \in Scans : scan'[u].pc \in {"select", "write"} => scan'[u] = scan[u]
  BY RestingTyped DEF EnqueueActive, DetectionTyped
<1>5. \A u \in Scans : scan'[u].items \in Seq(Item) /\ scan'[u].end \in 0 .. MaxDelay
  BY <1>3 DEF Thread
<1>. QED
  BY <1>2, <1>3, <1>4, <1>5 DEF EnqueueActive, DetectionTyped, DetectionTypeOK

LEMMA JudgeTyped ==
  ASSUME DetectionTyped, NEW i \in DOMAIN events, Judge(i)
  PROVE  DetectionTyped'
<1>1. jobOf' \in [EventIds -> Job]
  BY DEF Judge, Job, DetectionTyped, DetectionTypeOK
<1>. QED
  BY <1>1 DEF Judge, DetectionTyped, DetectionTypeOK

LEMMA OperatorTyped ==
  ASSUME DetectionTyped, NEW i \in DOMAIN events, OperatorEnds(i)
  PROVE  DetectionTyped'
<1>1. events' \in Seq(Event)
  BY RemoveAtRows DEF OperatorEnds, DetectionTyped, DetectionTypeOK
<1>2. jobOf' \in [EventIds -> Job]
  BY JobsTyped DEF OperatorEnds
<1>3. upsets' \in 0 .. MaxUpsets
  BY DetectionAssumption DEF OperatorEnds, Upset, DetectionTyped, DetectionTypeOK
<1>. QED
  BY <1>1, <1>2, <1>3 DEF OperatorEnds, DetectionTyped, DetectionTypeOK

LEMMA TockTyped ==
  ASSUME DetectionTyped, NEW volume \in Volumes, Tock(volume)
  PROVE  /\ DetectionTyped'
         /\ \A t \in Scans : ScanAt(t, "idle") => scan'[t] = scan[t]
         /\ \A t \in Scans : ~ScanAt(t, "idle") =>
              /\ scan'[t].end = scan[t].end + 1
              /\ scan'[t].pc = scan[t].pc /\ scan'[t].wrote = scan[t].wrote
              /\ DOMAIN scan'[t].items = DOMAIN scan[t].items
              /\ \A i \in DOMAIN scan[t].items :
                   scan'[t].items[i].age <= scan[t].items[i].age + 1
<1>1. ASSUME NEW item \in Item
      PROVE  /\ [item EXCEPT !.age = Older(@, MaxAge)] \in Item
             /\ [item EXCEPT !.age = Older(@, MaxAge)].age <= item.age + 1
  <2>1. Older(item.age, MaxAge) \in 0 .. MaxAge /\ Older(item.age, MaxAge) <= item.age + 1
    BY AgesTyped DEF Item
  <2>. QED
    BY <2>1 DEF Item
<1>2. ASSUME NEW items \in Seq(Item)
      PROVE  /\ OlderRows(items) \in Seq(Item) /\ DOMAIN OlderRows(items) = DOMAIN items
             /\ \A i \in DOMAIN items : OlderRows(items)[i].age <= items[i].age + 1
  <2>1. OlderRows(items)
          = [i \in 1 .. Len(items) |-> [items[i] EXCEPT !.age = Older(@, MaxAge)]]
    BY DEF OlderRows
  <2>2. OlderRows(items) \in [1 .. Len(items) -> Item]
    BY <1>1, <2>1
  <2>3. ASSUME NEW i \in 1 .. Len(items) PROVE OlderRows(items)[i].age <= items[i].age + 1
    <3>1. items[i] \in Item /\ OlderRows(items)[i] = [items[i] EXCEPT !.age = Older(@, MaxAge)]
      BY <2>1
    <3>. QED
      BY <1>1, <3>1
  <2>4. OlderRows(items) \in Seq(Item) /\ DOMAIN OlderRows(items) = DOMAIN items
    BY <2>2
  <2>. QED
    BY <2>3, <2>4
<1>3. ASSUME NEW t \in Scans, ~ScanAt(t, "idle")
      PROVE  /\ scan'[t] = [scan[t] EXCEPT !.end = @ + 1, !.items = OlderRows(@)]
             /\ scan[t].items \in Seq(Item) /\ scan[t].end + 1 \in 0 .. MaxDelay
             /\ scan[t] \in Thread
  <2>1. scan'[t] = [scan[t] EXCEPT !.end = @ + 1, !.items = OlderRows(@)]
    BY <1>3 DEF Tock
  <2>2. scan[t].items \in Seq(Item) /\ scan[t] \in Thread
    BY DEF DetectionTyped, Thread
  <2>3. scan[t].end \in 0 .. MaxDelay /\ scan[t].end < MaxDelay
    BY <1>3 DEF DetectionTyped, Thread, Tock
  <2>4. scan[t].end + 1 \in 0 .. MaxDelay
    BY <2>3, DetectionAssumption
  <2>. QED
    BY <2>1, <2>2, <2>4
<1>4. ASSUME NEW t \in Scans, ~ScanAt(t, "idle")
      PROVE  /\ scan'[t] \in Thread /\ scan'[t].end = scan[t].end + 1
             /\ scan'[t].pc = scan[t].pc /\ scan'[t].wrote = scan[t].wrote
             /\ scan'[t].items = OlderRows(scan[t].items)
  <2>1. OlderRows(scan[t].items) \in Seq(Item)
    BY <1>2, <1>3, <1>4
  <2>. QED
    BY <1>3, <1>4, <2>1 DEF Thread
<1>5. ASSUME NEW t \in Scans, ScanAt(t, "idle")
      PROVE  scan'[t] = scan[t]
  BY <1>5 DEF Tock
<1>6. ASSUME NEW t \in Scans, ~ScanAt(t, "idle")
      PROVE  /\ DOMAIN scan'[t].items = DOMAIN scan[t].items
             /\ \A i \in DOMAIN scan[t].items :
                  scan'[t].items[i].age <= scan[t].items[i].age + 1
  BY <1>2, <1>3, <1>4, <1>6
<1>7. scan' \in [Scans -> Thread]
  <2>1. \A t \in Scans : scan'[t] \in Thread
    BY <1>4, <1>5 DEF DetectionTyped
  <2>. QED
    BY <2>1 DEF Tock
<1>8. \A t \in Scans : scan'[t].pc \in {"select", "write"} => scan'[t].items # <<>>
  <2>1. ASSUME NEW t \in Scans, scan'[t].pc \in {"select", "write"}
        PROVE  scan'[t].items # <<>>
    <3>1. CASE ScanAt(t, "idle")
      BY <2>1, <3>1, <1>5 DEF DetectionTyped
    <3>2. CASE ~ScanAt(t, "idle")
      <4>1. scan[t].items # <<>> /\ scan[t].items \in Seq(Item) /\ scan'[t].items \in Seq(Item)
        BY <2>1, <3>2, <1>4, <1>7 DEF DetectionTyped, Thread
      <4>2. DOMAIN scan[t].items # {} /\ DOMAIN scan'[t].items # {}
        BY <4>1, <1>6, <3>2
      <4>. QED
        BY <4>2
    <3>. QED
      BY <3>1, <3>2
  <2>. QED
    BY <2>1
<1>9. events' \in Seq(Event) /\ draft' \in Seq(Event)
  BY OlderRowsTyped DEF Tock, DetectionTyped, DetectionTypeOK
<1>10. jobOf' \in [EventIds -> Job]
  <2>1. ASSUME NEW j \in Job
        PROVE [j EXCEPT !.age = Older(@, MaxAge + 1)] \in Job
    BY AgesTyped DEF Job
  <2>. QED
    BY <2>1 DEF Tock, DetectionTyped, DetectionTypeOK
<1>11. phase' \in 0 .. Window - 1
  <2>1. phase \in 0 .. Window - 1 /\ Window \in Nat \ {0}
    BY DetectionAssumption DEF DetectionTyped, DetectionTypeOK
  <2>2. phase' = (phase + 1) % Window
    BY DEF Tock
  <2>3. \A a \in Nat, n \in Nat \ {0} : a % n \in 0 .. n - 1
    OBVIOUS
  <2>4. phase + 1 \in Nat
    BY <2>1
  <2>. QED
    BY <2>1, <2>2, <2>3, <2>4
<1>12. traffic' \in [0 .. Window - 1 -> Volumes]
  <2>1. \A a \in 0 .. Window - 1 : a # 0 => a - 1 \in 0 .. Window - 1
    BY DetectionAssumption
  <2>. QED
    BY <2>1 DEF Tock, DetectionTyped, DetectionTypeOK
<1>13. \A t \in Scans : scan'[t].items \in Seq(Item) /\ scan'[t].end \in 0 .. MaxDelay
  BY <1>7 DEF Thread
<1>14. DetectionTyped'
  BY <1>7, <1>8, <1>9, <1>10, <1>11, <1>12, <1>13
     DEF Tock, DetectionTyped, DetectionTypeOK
<1>. QED
  BY <1>4, <1>5, <1>6, <1>14

LEMMA DetectionTypedInvariant == DetectionSpec => []DetectionTyped
<1>1. DetectionInit => DetectionTyped
  BY DetectionTypedInit
<1>2. DetectionTyped /\ [DetectionNext]_detectionVars => DetectionTyped'
  <2>. SUFFICES ASSUME DetectionTyped, [DetectionNext]_detectionVars
                PROVE  DetectionTyped'
    OBVIOUS
  <2>1. CASE UNCHANGED detectionVars
    BY <2>1 DEF detectionVars, DetectionTyped, DetectionTypeOK
  <2>2. ASSUME NEW t \in Scans, StartScan(t) \/ ScanStep(t) \/ Rollback(t)
        PROVE  DetectionTyped'
    BY <2>2, StartScanTyped, SelectTyped, WriteTyped, CommitTyped, RollbackTyped, CloseTyped,
       EnqueueActiveTyped DEF ScanStep
  <2>3. ASSUME NEW i \in DOMAIN events, Judge(i) \/ OperatorEnds(i)
        PROVE  DetectionTyped'
    BY <2>3, JudgeTyped, OperatorTyped
  <2>4. ASSUME NEW volume \in Volumes, Tock(volume)
        PROVE  DetectionTyped'
    BY <2>4, TockTyped
  <2>. QED
    BY <2>1, <2>2, <2>3, <2>4 DEF DetectionNext
<1>. QED
  BY <1>1, <1>2, PTL DEF DetectionSpec

(* Whatever scans, operators and failures do, every variable of detection   *)
(* keeps its type: an event has an id of the pool and evidence of 1 to      *)
(* Required points, and no age passes the bound after which it is closed.   *)
THEOREM DetectionTypeCorrect == DetectionSpec => []DetectionTypeOK
<1>1. DetectionTyped => DetectionTypeOK
  BY DEF DetectionTyped
<1>. QED
  BY <1>1, DetectionTypedInvariant, PTL

LEMMA UpsertedRows ==
  ASSUME NEW rows \in Seq(Event), NEW id, NEW new, NEW item,
         NEW k \in DOMAIN Upserted(rows, id, new, item)
  PROVE  \/ /\ Upserted(rows, id, new, item)[k].age = item.age
            /\ Upserted(rows, id, new, item)[k].id = (IF id = 0 THEN new ELSE id)
         \/ /\ k \in DOMAIN rows /\ Upserted(rows, id, new, item)[k] = rows[k]
            /\ rows[k].id # id
<1>1. CASE id = 0
  <2>1. Upserted(rows, id, new, item) = Append(rows, Opened(new, item))
    BY <1>1 DEF Upserted
  <2>2. CASE k = Len(rows) + 1
    BY <1>1, <2>1, <2>2 DEF Opened
  <2>3. CASE k # Len(rows) + 1
    <3>1. k \in DOMAIN rows /\ Upserted(rows, id, new, item)[k] = rows[k] /\ rows[k] \in Event
      BY <2>1, <2>3
    <3>. QED
      BY <1>1, <3>1 DEF Event, EventIds
  <2>. QED
    BY <2>2, <2>3
<1>2. CASE id # 0
  <2>1. /\ k \in DOMAIN rows /\ rows[k] \in Event
        /\ Upserted(rows, id, new, item)[k]
             = IF rows[k].id = id THEN Refreshed(rows[k], item) ELSE rows[k]
    BY <1>2 DEF Upserted
  <2>2. CASE rows[k].id = id
    <3>1. Refreshed(rows[k], item).age = item.age /\ Refreshed(rows[k], item).id = rows[k].id
      BY <2>1 DEF Refreshed, Event
    <3>. QED
      BY <1>2, <2>1, <2>2, <3>1
  <2>3. CASE rows[k].id # id
    BY <2>1, <2>3
  <2>. QED
    BY <2>2, <2>3
<1>. QED
  BY <1>1, <1>2

LEMMA KeptInit == DetectionInit => KeptInv
<1>. SUFFICES ASSUME DetectionInit PROVE KeptInv
  OBVIOUS
<1>1. scan[Loop] = Resting
  BY DetectionAssumption DEF DetectionInit
<1>. QED
  BY <1>1, RestingTyped, DetectionTypedInit
     DEF DetectionInit, KeptInv, WriterWrites, SeenInWindow, WroteLately, WrittenIsRecent

(* A step of another thread leaves the loop's sample, clock and write alone.*)
LEMMA ScanStartKeeps ==
  ASSUME KeptInv, NEW t \in Scans, StartScan(t)
  PROVE  KeptInv'
<1>1. DetectionTyped'
  BY StartScanTyped DEF KeptInv
<1>2. PICK items : /\ items \in Observations \/ items = <<>>
                   /\ Starts(t, items)
  BY DEF StartScan
<1>3. \A i \in DOMAIN items : items[i].age < Window
  BY <1>2, ObservationTyped DEF KeptInv, DetectionTyped
<1>4. /\ scan'[t] = [Resting EXCEPT !.pc = IF items = <<>> THEN "runtime" ELSE "select",
                                  !.items = items]
      /\ \A u \in Scans \ {t} : scan'[u] = scan[u]
  BY <1>2 DEF Starts, KeptInv, DetectionTyped
<1>5. scan'[t].items = items /\ scan'[t].end = 0 /\ scan'[t].wrote = 0
  BY <1>4 DEF Resting
<1>6. UNCHANGED <<events, draft, dbWriter>> /\ scan[t].pc = "idle"
  BY DEF StartScan, Database, ScanAt
<1>7. WriterWrites'
  <2>1. dbWriter # t
    BY <1>6, DetectionAssumption DEF KeptInv, WriterWrites, Writing, Unlocked
  <2>. QED
    BY <1>4, <1>6, <2>1 DEF KeptInv, WriterWrites, DetectionTyped, DetectionTypeOK
<1>8. SeenInWindow'
  <2>1. CASE t = Loop
    BY <2>1, <1>3, <1>5, DetectionAssumption, ObservationTyped, <1>2
       DEF SeenInWindow, KeptInv, DetectionTyped, Item
  <2>2. CASE t # Loop
    BY <2>2, <1>4, DetectionAssumption DEF KeptInv, SeenInWindow
  <2>. QED
    BY <2>1, <2>2
<1>9. WroteLately' /\ WrittenIsRecent'
  <2>1. CASE t = Loop
    BY <2>1, <1>5 DEF WroteLately, WrittenIsRecent
  <2>2. CASE t # Loop
    <3>1. scan'[Loop] = scan[Loop] /\ (backdated => backdated')
      BY <2>2, <1>4, DetectionAssumption DEF StartScan
    <3>. QED
      BY <3>1, <1>6 DEF KeptInv, WroteLately, WrittenIsRecent, Recent, Stale
  <2>. QED
    BY <2>1, <2>2
<1>. QED
  BY <1>1, <1>7, <1>8, <1>9 DEF KeptInv

LEMMA ScanSelectKeeps ==
  ASSUME KeptInv, NEW t \in Scans, Select(t)
  PROVE  KeptInv'
<1>1. DetectionTyped'
  BY SelectTyped DEF KeptInv
<1>2. /\ \A u \in Scans : /\ scan'[u].items = scan[u].items /\ scan'[u].end = scan[u].end
                          /\ scan'[u].wrote = scan[u].wrote
                          /\ u # t => scan'[u] = scan[u]
      /\ scan[t].pc = "select" /\ scan'[t].pc = "write"
      /\ UNCHANGED <<events, draft, dbWriter, backdated>>
  BY DEF Select, Database, ScanAt, KeptInv, DetectionTyped, Thread
<1>3. WriterWrites'
  BY <1>2 DEF KeptInv, WriterWrites, Writing, DetectionTyped, DetectionTypeOK
<1>4. SeenInWindow' /\ WrittenIsRecent'
  BY <1>2, DetectionAssumption DEF KeptInv, SeenInWindow, WrittenIsRecent, Recent, Stale
<1>5. WroteLately'
  BY <1>2, DetectionAssumption DEF KeptInv, WroteLately
<1>. QED
  BY <1>1, <1>3, <1>4, <1>5 DEF KeptInv

(* A write makes a row of its own age: in the loop's window for the loop,   *)
(* and younger than CloseAfter, or counted as dated back, for an operator.  *)
LEMMA ScanWriteKeeps ==
  ASSUME KeptInv, Window <= CloseAfter + 1, NEW t \in Scans, Write(t)
  PROVE  KeptInv'
<1>. DEFINE item == Head(scan[t].items)
            rest == Tail(scan[t].items)
            new == CHOOSE id \in EventIds : id \notin InUse
            written == IF scan[t].read = 0 THEN new ELSE scan[t].read
<1>1. DetectionTyped' /\ Seen(t) \in Seq(Event) /\ item \in Item
  BY WriteTyped DEF KeptInv
<1>2. /\ draft' = Upserted(Seen(t), scan[t].read, new, item)
      /\ scan' = [scan EXCEPT ![t].pc = IF rest = <<>> THEN "runtime" ELSE "select",
                            ![t].items = rest, ![t].read = 0,
                            ![t].wrote = IF t # Loop THEN 0 ELSE written]
      /\ dbWriter \in {Unlocked, t} /\ dbWriter' = t /\ events' = events
      /\ scan[t].pc = "write"
  BY DEF Write, ScanAt
<1>3. /\ (backdated => backdated')
      /\ (t # Loop /\ item.age > CloseAfter => backdated')
  BY DEF Write
<1>4. scan[t].read = 0 => new \notin InUse
  BY DEF Write
<1>5. scan[t] \in Thread /\ scan[Loop] \in Thread /\ scan[t].items \in Seq(Item)
      /\ scan[t].items # <<>> /\ t # Unlocked /\ Loop # Unlocked /\ Loop \in Scans
      /\ t \in Scans
  BY <1>2, DetectionAssumption DEF KeptInv, DetectionTyped, Thread, Unlocked
<1>. HIDE DEF item, new
<1>6. \A k \in DOMAIN draft' :
        \/ draft'[k].age = item.age /\ draft'[k].id = written
        \/ k \in DOMAIN Seen(t) /\ draft'[k] = Seen(t)[k] /\ draft'[k].id # scan[t].read
  <2>. DEFINE U == Upserted(Seen(t), scan[t].read, new, item)
  <2>1. ASSUME NEW k \in DOMAIN U
        PROVE  \/ U[k].age = item.age /\ U[k].id = written
               \/ k \in DOMAIN Seen(t) /\ U[k] = Seen(t)[k] /\ U[k].id # scan[t].read
    BY <1>1, UpsertedRows
  <2>2. draft' = U
    BY <1>2
  <2>. HIDE DEF U, written
  <2>. QED
    BY <2>1, <2>2
<1>. HIDE DEF rest
<1>7. /\ scan'[t].end = scan[t].end /\ scan'[t].items = rest
      /\ scan'[t].pc \in {"select", "runtime"}
      /\ scan'[t].wrote = IF t # Loop THEN 0 ELSE written
      /\ \A u \in Scans \ {t} : scan'[u] = scan[u]
  BY <1>2, <1>5 DEF KeptInv, DetectionTyped, Thread
<1>8. WriterWrites'
  BY <1>2, <1>5, <1>7 DEF WriterWrites, Writing
<1>9. SeenInWindow'
  <2>1. CASE t = Loop
    <3>1. \A i \in DOMAIN rest : i + 1 \in DOMAIN scan[t].items /\ rest[i] = scan[t].items[i + 1]
      BY <1>5 DEF rest
    <3>. QED
      BY <2>1, <3>1, <1>7 DEF KeptInv, SeenInWindow
  <2>2. CASE t # Loop
    BY <2>2, <1>5, <1>7 DEF KeptInv, SeenInWindow
  <2>. QED
    BY <2>1, <2>2
<1>10. WroteLately'
  <2>1. CASE t = Loop
    BY <2>1, <1>2 DEF WroteLately
  <2>2. CASE t # Loop
    BY <2>2, <1>2, <1>5, <1>7 DEF KeptInv, WroteLately
  <2>. QED
    BY <2>1, <2>2
<1>11. WrittenIsRecent'
  <2>1. CASE t = Loop
    <3>1. item.age <= CloseAfter + scan[Loop].end
      <4>1. 1 \in DOMAIN scan[t].items /\ item = scan[t].items[1]
        BY <1>5 DEF item
      <4>2. item.age < Window + scan[Loop].end /\ item.age \in Nat /\ scan[Loop].end \in Nat
        BY <2>1, <4>1, <1>1, <1>5 DEF KeptInv, SeenInWindow, Item, Thread
      <4>. QED
        BY <4>2, DetectionAssumption
    <3>2. \A k \in DOMAIN Seen(t) : Seen(t)[k].id \in InUse
      BY DEF Seen, InUse
    <3>3. ASSUME NEW k \in DOMAIN draft', draft'[k].id = written
          PROVE  draft'[k].age = item.age
      BY <1>4, <1>6, <3>2, <3>3
    <3>4. draft' \in Seq(Event)
      BY <1>1 DEF DetectionTyped, DetectionTypeOK
    <3>5. \A k \in DOMAIN draft' : draft'[k].id = written => ~(draft'[k].age > CloseAfter + scan'[Loop].end)
      <4>1. item.age \in Nat /\ scan[Loop].end \in Nat /\ CloseAfter \in Nat
        BY <1>1, <1>5, DetectionAssumption DEF Item, Thread
      <4>. QED
        BY <2>1, <3>1, <3>3, <4>1, <1>7
    <3>6. scan'[Loop].wrote = written /\ dbWriter' = Loop
      BY <2>1, <1>2, <1>7
    <3>. HIDE DEF written
    <3>. QED
      BY <3>5, <3>6 DEF WrittenIsRecent, Recent, Stale
  <2>2. CASE t # Loop
    <3>. SUFFICES ASSUME scan[Loop].wrote # 0, ~backdated'
                  PROVE  /\ \A k \in DOMAIN draft' : draft'[k].id = scan[Loop].wrote =>
                              ~(draft'[k].age > CloseAfter + scan[Loop].end)
                         /\ \A k \in DOMAIN events : events[k].id = scan[Loop].wrote =>
                              ~(events[k].age > CloseAfter + scan[Loop].end)
      BY <2>2, <1>2, <1>5, <1>7 DEF WrittenIsRecent, Recent, Stale
    <3>1. Recent(draft) /\ Recent(events)
      BY <2>2, <1>2, <1>3, <1>5 DEF KeptInv, WrittenIsRecent
    <3>2. item.age <= CloseAfter /\ item.age \in Nat /\ scan[Loop].end \in Nat /\ CloseAfter \in Nat
      BY <2>2, <1>1, <1>3, <1>5, DetectionAssumption DEF Item, Thread
    <3>3. ~(item.age > CloseAfter + scan[Loop].end)
      BY <3>2
    <3>4. Recent(Seen(t))
      BY <3>1 DEF Seen
    <3>. QED
      BY <1>6, <3>1, <3>3, <3>4 DEF Recent, Stale
  <2>. QED
    BY <2>1, <2>2
<1>. QED
  BY <1>1, <1>8, <1>9, <1>10, <1>11 DEF KeptInv

LEMMA ScanCommitKeeps ==
  ASSUME KeptInv, NEW t \in Scans, CommitScan(t)
  PROVE  KeptInv'
<1>1. DetectionTyped'
  BY CommitTyped DEF KeptInv
<1>2. /\ events' = Seen(t) /\ draft' = <<>> /\ dbWriter' = Unlocked /\ backdated' = backdated
      /\ dbWriter \in {Unlocked, t} /\ scan[t].pc = "runtime"
      /\ scan' = [scan EXCEPT ![t] = IF t = Loop THEN [@ EXCEPT !.pc = "close"] ELSE Resting]
  BY DEF CommitScan, ScanAt
<1>3. Loop \in Scans /\ Loop # Unlocked /\ scan[Loop] \in Thread /\ scan \in [Scans -> Thread]
  BY DetectionAssumption DEF KeptInv, DetectionTyped, Unlocked
<1>4. /\ scan'[Loop].items = scan[Loop].items /\ scan'[Loop].end = scan[Loop].end
      /\ scan'[Loop].wrote = scan[Loop].wrote
      /\ (t = Loop => scan'[Loop].pc = "close") /\ (t # Loop => scan'[Loop] = scan[Loop])
  BY <1>2, <1>3 DEF Thread
<1>5. WriterWrites' /\ SeenInWindow'
  BY <1>2, <1>4 DEF WriterWrites, KeptInv, SeenInWindow
<1>6. WroteLately'
  BY <1>2, <1>3, <1>4 DEF WroteLately, KeptInv
<1>7. WrittenIsRecent'
  BY <1>2, <1>3, <1>4 DEF WrittenIsRecent, KeptInv, Recent, Stale, Seen
<1>. QED
  BY <1>1, <1>5, <1>6, <1>7 DEF KeptInv

LEMMA ScanRollbackKeeps ==
  ASSUME KeptInv, NEW t \in Scans, Rollback(t)
  PROVE  KeptInv'
<1>1. DetectionTyped'
  BY RollbackTyped DEF KeptInv
<1>2. /\ UNCHANGED <<events, backdated>>
      /\ dbWriter = t => draft' = <<>> /\ dbWriter' = Unlocked
      /\ dbWriter # t => UNCHANGED <<draft, dbWriter>>
      /\ scan' = [scan EXCEPT ![t] = IF t = Loop THEN [@ EXCEPT !.pc = "close", !.items = <<>>,
                                                              !.read = 0, !.wrote = 0]
                                               ELSE Resting]
  BY DEF Rollback
<1>3. Loop \in Scans /\ Loop # Unlocked /\ scan[Loop] \in Thread /\ scan \in [Scans -> Thread]
  BY DetectionAssumption DEF KeptInv, DetectionTyped, Unlocked
<1>4. /\ t = Loop => scan'[Loop].wrote = 0 /\ scan'[Loop].items = <<>>
      /\ \A u \in Scans \ {t} : scan'[u] = scan[u]
  BY <1>2, <1>3 DEF Thread
<1>5. WriterWrites'
  BY <1>2, <1>4 DEF WriterWrites, KeptInv, DetectionTyped, DetectionTypeOK
<1>6. SeenInWindow' /\ WroteLately'
  BY <1>2, <1>3, <1>4 DEF SeenInWindow, WroteLately, KeptInv
<1>7. WrittenIsRecent'
  BY <1>2, <1>3, <1>4 DEF WrittenIsRecent, KeptInv, Recent, Stale
<1>. QED
  BY <1>1, <1>5, <1>6, <1>7 DEF KeptInv

LEMMA CloseKeeps ==
  ASSUME KeptInv, CloseStale
  PROVE  KeptInv'
<1>1. DetectionTyped'
  BY CloseTyped DEF KeptInv
<1>2. Loop \in Scans /\ Loop # Unlocked /\ scan[Loop] \in Thread /\ scan \in [Scans -> Thread]
  BY DetectionAssumption DEF KeptInv, DetectionTyped, Unlocked
<1>3. scan' = [scan EXCEPT ![Loop].pc = "enqueue", ![Loop].wrote = 0]
      /\ UNCHANGED <<draft, dbWriter>> /\ dbWriter = Unlocked
  BY DEF CloseStale
<1>4. scan'[Loop].wrote = 0 /\ scan'[Loop].items = scan[Loop].items
      /\ scan'[Loop].end = scan[Loop].end
  BY <1>2, <1>3 DEF Thread
<1>. QED
  BY <1>1, <1>3, <1>4 DEF KeptInv, WriterWrites, SeenInWindow, WroteLately, WrittenIsRecent

LEMMA EnqueueActiveKeeps ==
  ASSUME KeptInv, EnqueueActive
  PROVE  KeptInv'
<1>1. DetectionTyped'
  BY EnqueueActiveTyped DEF KeptInv
<1>2. scan'[Loop] = Resting /\ UNCHANGED <<draft, dbWriter>> /\ dbWriter = Unlocked
  BY DetectionAssumption DEF EnqueueActive, KeptInv, DetectionTyped
<1>. QED
  BY <1>1, <1>2, RestingTyped
     DEF KeptInv, WriterWrites, SeenInWindow, WroteLately, WrittenIsRecent

LEMMA OperatorKeeps ==
  ASSUME KeptInv, NEW i \in DOMAIN events, OperatorEnds(i)
  PROVE  KeptInv'
<1>1. DetectionTyped'
  BY OperatorTyped DEF KeptInv
<1>2. events' = RemoveAt(events, i) /\ UNCHANGED <<scan, draft, dbWriter, backdated>>
  BY DEF OperatorEnds
<1>3. \A k \in DOMAIN events' : \E j \in DOMAIN events : events'[k] = events[j]
  BY <1>2, RemoveAtRows DEF KeptInv, DetectionTyped, DetectionTypeOK
<1>. QED
  BY <1>1, <1>2, <1>3
     DEF KeptInv, WriterWrites, SeenInWindow, WroteLately, WrittenIsRecent, Recent, Stale

LEMMA LessThanAged ==
  \A old, new, most, end \in Nat :
    new <= old + 1 =>
      /\ old < most + end => new < most + (end + 1)
      /\ ~(old > most + end) => ~(new > most + (end + 1))
OBVIOUS

(* Rows age with the loop that wrote one of them, and its cut-off with it.  *)
LEMMA TockKeeps ==
  ASSUME KeptInv, NEW volume \in Volumes, Tock(volume)
  PROVE  KeptInv'
<1>1. DetectionTyped'
  BY TockTyped DEF KeptInv
<1>2. Loop \in Scans /\ Loop # Unlocked /\ scan[Loop] \in Thread /\ scan'[Loop] \in Thread
      /\ scan[Loop].end \in Nat /\ CloseAfter \in Nat /\ Window \in Nat
      /\ events \in Seq(Event) /\ draft \in Seq(Event)
      /\ events' \in Seq(Event) /\ draft' \in Seq(Event)
  BY <1>1, DetectionAssumption DEF KeptInv, DetectionTyped, DetectionTypeOK, Unlocked, Thread
<1>3. events' = OlderRows(events) /\ draft' = OlderRows(draft) /\ UNCHANGED <<dbWriter, backdated>>
  BY DEF Tock
<1>7. scan[Loop].end \in Nat /\ CloseAfter \in Nat /\ Window \in Nat
  BY <1>2
<1>8. DOMAIN draft' = DOMAIN draft /\ draft \in Seq(Event) /\ draft' \in Seq(Event)
  BY <1>2, <1>3, OlderRowsTyped
<1>4. WriterWrites'
  <2>1. \A t \in Scans : scan'[t].pc = scan[t].pc
    BY TockTyped DEF KeptInv
  <2>2. dbWriter \in Scans \cup {Unlocked}
    BY DEF KeptInv, DetectionTyped, DetectionTypeOK
  <2>3. draft = <<>> => draft' = <<>>
    BY <1>8
  <2>. QED
    BY <1>3, <2>1, <2>2, <2>3 DEF KeptInv, WriterWrites
<1>5. CASE ScanAt(Loop, "idle")
  <2>1. scan'[Loop] = scan[Loop]
    BY <1>2, <1>5, TockTyped DEF KeptInv
  <2>2. scan[Loop].wrote = 0
    BY <1>2, <1>5 DEF ScanAt, KeptInv, WroteLately, WriterWrites, Writing
  <2>. QED
    BY <1>1, <1>4, <2>1, <2>2 DEF SeenInWindow, WroteLately, WrittenIsRecent, KeptInv
<1>6. CASE ~ScanAt(Loop, "idle")
  <2>1. /\ scan'[Loop].end = scan[Loop].end + 1
        /\ scan'[Loop].pc = scan[Loop].pc /\ scan'[Loop].wrote = scan[Loop].wrote
        /\ DOMAIN scan'[Loop].items = DOMAIN scan[Loop].items
        /\ \A i \in DOMAIN scan[Loop].items :
             scan'[Loop].items[i].age <= scan[Loop].items[i].age + 1
    BY <1>2, <1>6, TockTyped DEF KeptInv
  <2>2. SeenInWindow'
    <3>1. ASSUME NEW i \in DOMAIN scan'[Loop].items
          PROVE  scan'[Loop].items[i].age < Window + scan'[Loop].end
      <4>1. scan'[Loop].items[i] \in Item /\ scan[Loop].items[i] \in Item
        BY <1>2, <2>1 DEF Thread
      <4>2. scan'[Loop].items[i].age \in Nat /\ scan[Loop].items[i].age \in Nat
        BY <4>1 DEF Item
      <4>3. scan[Loop].items[i].age < Window + scan[Loop].end
        BY <2>1 DEF KeptInv, SeenInWindow
      <4>4. scan'[Loop].items[i].age <= scan[Loop].items[i].age + 1
        BY <2>1
      <4>. QED
        BY <1>7, <2>1, <4>2, <4>3, <4>4, LessThanAged
    <3>. QED
      BY <3>1 DEF SeenInWindow
  <2>3. ASSUME NEW rows \in Seq(Event), Recent(rows),
               NEW k \in DOMAIN OlderRows(rows), OlderRows(rows)[k].id = scan[Loop].wrote
        PROVE  ~(OlderRows(rows)[k].age > CloseAfter + (scan[Loop].end + 1))
    <3>1. /\ k \in DOMAIN rows /\ rows[k].id = scan[Loop].wrote
          /\ OlderRows(rows)[k].age <= rows[k].age + 1
          /\ rows[k] \in Event /\ OlderRows(rows)[k] \in Event
      BY <2>3, OlderRowsTyped
    <3>2. ~(rows[k].age > CloseAfter + scan[Loop].end)
      BY <2>3, <3>1 DEF Recent, Stale
    <3>3. rows[k].age \in Nat /\ OlderRows(rows)[k].age \in Nat
      BY <3>1 DEF Event
    <3>. QED
      BY <1>7, <3>1, <3>2, <3>3, LessThanAged
  <2>4. WrittenIsRecent'
    <3>. SUFFICES ASSUME scan[Loop].wrote # 0, ~backdated
                  PROVE  /\ Recent(draft)'
                         /\ dbWriter # Loop => Recent(events)'
      BY <1>3, <2>1 DEF WrittenIsRecent
    <3>1. Recent(draft) /\ (dbWriter # Loop => Recent(events))
      BY DEF KeptInv, WrittenIsRecent
    <3>2. Recent(draft)'
      BY <1>2, <1>3, <2>1, <2>3, <3>1 DEF Recent, Stale
    <3>3. Recent(events) => Recent(events)'
      BY <1>2, <1>3, <2>1, <2>3 DEF Recent, Stale
    <3>. QED
      BY <3>1, <3>2, <3>3
  <2>5. WroteLately'
    BY <1>3, <2>1 DEF KeptInv, WroteLately
  <2>. QED
    BY <1>1, <1>4, <2>2, <2>4, <2>5 DEF KeptInv
<1>. QED
  BY <1>5, <1>6

(* As long as a rule's window is not longer than the time after which       *)
(* events are closed, the detection loop never ends an event it has just    *)
(* refreshed, whatever operators run or close beside it and however long    *)
(* its queries take: what it wrote ages no faster than its cut-off, which   *)
(* is taken from the time the loop began (detect_anomalies_once,            *)
(* close_stale_anomaly_events).                                             *)
THEOREM MatchedKept ==
  ASSUME Window <= CloseAfter + 1
  PROVE  DetectionSpec => MatchedIsKept
<1>1. DetectionInit => KeptInv
  BY KeptInit
<1>2. KeptInv /\ [DetectionNext]_detectionVars => KeptInv'
  <2>. SUFFICES ASSUME KeptInv, [DetectionNext]_detectionVars
                PROVE  KeptInv'
    OBVIOUS
  <2>1. CASE UNCHANGED detectionVars
    BY <2>1 DEF detectionVars, KeptInv, DetectionTyped, DetectionTypeOK, WriterWrites,
                SeenInWindow, WroteLately, WrittenIsRecent, Recent, Stale
  <2>2. ASSUME NEW t \in Scans, StartScan(t) \/ ScanStep(t) \/ Rollback(t)
        PROVE  KeptInv'
    BY <2>2, ScanStartKeeps, ScanSelectKeeps, ScanWriteKeeps, ScanCommitKeeps, ScanRollbackKeeps, CloseKeeps,
       EnqueueActiveKeeps DEF ScanStep
  <2>3. ASSUME NEW i \in DOMAIN events, Judge(i) \/ OperatorEnds(i)
        PROVE  KeptInv'
    <3>1. CASE Judge(i)
      BY <3>1, JudgeTyped DEF Judge, KeptInv, WriterWrites, SeenInWindow, WroteLately,
                              WrittenIsRecent, Recent, Stale
    <3>. QED
      BY <2>3, <3>1, OperatorKeeps
  <2>4. ASSUME NEW volume \in Volumes, Tock(volume)
        PROVE  KeptInv'
    BY <2>4, TockKeeps
  <2>. QED
    BY <2>1, <2>2, <2>3, <2>4 DEF DetectionNext
<1>3. KeptInv /\ CloseStale /\ ~backdated /\ Active(scan[Loop].wrote, events)
        => Active(scan[Loop].wrote, events')
  <2>. SUFFICES ASSUME KeptInv, CloseStale, ~backdated,
                       NEW i \in DOMAIN events, events[i].id = scan[Loop].wrote
                PROVE  \E k \in DOMAIN events' : events'[k].id = scan[Loop].wrote
    BY DEF Active
  <2>. DEFINE kept == {j \in DOMAIN events : ~Stale(events[j])}
  <2>1. events \in Seq(Event) /\ events[i] \in Event /\ dbWriter = Unlocked /\ Loop # Unlocked
    BY DetectionAssumption DEF KeptInv, DetectionTyped, DetectionTypeOK, CloseStale, Unlocked
  <2>2. scan[Loop].wrote # 0
    BY <2>1 DEF Event, EventIds
  <2>3. i \in kept
    BY <2>1, <2>2 DEF KeptInv, WrittenIsRecent, Recent
  <2>4. events' = LeftAt(events, kept) /\ kept \in SUBSET DOMAIN events
    BY DEF CloseStale
  <2>. HIDE DEF kept
  <2>5. \E k \in DOMAIN events' : events'[k] = events[i]
    BY <2>1, <2>3, <2>4, LeftRows
  <2>. QED
    BY <2>5
<1>4. KeptInv /\ [DetectionNext]_detectionVars =>
        [CloseStale /\ ~backdated /\ Active(scan[Loop].wrote, events)
           => Active(scan[Loop].wrote, events')]_detectionVars
  BY <1>3
<1>. QED
  BY <1>1, <1>2, <1>4, PTL DEF DetectionSpec, MatchedIsKept
-----------------------------------------------------------------------------
(* Who is about to open an event, having seen none. *)
Opens(t) == scan[t].pc = "write" /\ scan[t].read = 0
Openers == {t \in Scans : Opens(t)}

\* the events there are once the writer has committed
Pending == IF dbWriter = Unlocked THEN events ELSE draft

(* The writer sees what it has written, and opens nothing beside it; so     *)
(* events and those who will open one are never more than the threads.      *)
WriterSees ==
    dbWriter # Unlocked =>
        /\ Opens(dbWriter) => draft = <<>>
        /\ Len(events) <= Len(draft) /\ Len(draft) <= Len(events) + 1

Counted == Len(Pending) + Cardinality(Openers) <= Cardinality(Scans)

OpenInv == DetectionTyped /\ WriterSees /\ Counted

LEMMA ThreadCount ==
  /\ IsFiniteSet(Openers) /\ Cardinality(Openers) \in Nat
  /\ Cardinality(Scans) \in Nat /\ Cardinality(Openers) <= Cardinality(Scans)
  /\ \A t \in Scans : t \notin Openers => Cardinality(Openers) + 1 <= Cardinality(Scans)
<1>1. Openers \subseteq Scans /\ IsFiniteSet(Scans)
  BY ScansAssumption DEF Openers
<1>2. IsFiniteSet(Openers) /\ Cardinality(Openers) <= Cardinality(Scans)
  BY <1>1, FS_Subset
<1>3. Cardinality(Openers) \in Nat /\ Cardinality(Scans) \in Nat
  BY <1>1, <1>2, FS_CardinalityType
<1>4. ASSUME NEW t \in Scans, t \notin Openers
      PROVE  Cardinality(Openers) + 1 <= Cardinality(Scans)
  <2>1. IsFiniteSet(Scans \ {t}) /\ Cardinality(Scans \ {t}) = Cardinality(Scans) - 1
    BY <1>1, FS_RemoveElement
  <2>2. Openers \subseteq Scans \ {t}
    BY <1>1, <1>4
  <2>3. Cardinality(Openers) <= Cardinality(Scans \ {t})
    BY <2>1, <2>2, FS_Subset
  <2>. QED
    BY <1>3, <2>1, <2>3
<1>. QED
  BY <1>2, <1>3, <1>4

(* Nobody new is about to open an event.                                    *)
LEMMA FewerOpen ==
  ASSUME \A t \in Scans : Opens(t)' => Opens(t)
  PROVE  /\ Cardinality(Openers)' <= Cardinality(Openers) /\ Cardinality(Openers)' \in Nat
         /\ \A t \in Scans : Opens(t) /\ ~Opens(t)'
              => Cardinality(Openers)' + 1 <= Cardinality(Openers)
<1>1. Openers' \subseteq Openers
  BY DEF Openers
<1>2. IsFiniteSet(Openers) /\ Cardinality(Openers) \in Nat
  BY ThreadCount
<1>3. /\ Cardinality(Openers') <= Cardinality(Openers) /\ IsFiniteSet(Openers')
      /\ Cardinality(Openers') \in Nat
  BY <1>1, <1>2, FS_Subset, FS_CardinalityType
<1>4. ASSUME NEW t \in Scans, Opens(t), ~Opens(t)'
      PROVE  Cardinality(Openers') + 1 <= Cardinality(Openers)
  <2>1. t \in Openers /\ t \notin Openers'
    BY <1>4 DEF Openers
  <2>2. IsFiniteSet(Openers \ {t}) /\ Cardinality(Openers \ {t}) = Cardinality(Openers) - 1
    BY <1>2, <2>1, FS_RemoveElement
  <2>3. Openers' \subseteq Openers \ {t}
    BY <1>1, <2>1
  <2>4. Cardinality(Openers') <= Cardinality(Openers \ {t})
    BY <2>2, <2>3, FS_Subset
  <2>. QED
    BY <1>2, <1>3, <2>2, <2>4
<1>. QED
  BY <1>3, <1>4

LEMMA RowCounts ==
  ASSUME DetectionTyped
  PROVE  /\ Len(events) \in Nat /\ Len(draft) \in Nat /\ Len(Pending) \in Nat
         /\ (events = <<>> <=> Len(events) = 0) /\ (draft = <<>> <=> Len(draft) = 0)
BY DEF DetectionTyped, DetectionTypeOK, Pending

LEMMA UpsertedCount ==
  ASSUME NEW rows \in Seq(Event), NEW id, NEW new, NEW item
  PROVE  Len(Upserted(rows, id, new, item)) = IF id = 0 THEN Len(rows) + 1 ELSE Len(rows)
<1>1. CASE id = 0
  BY <1>1 DEF Upserted
<1>2. CASE id # 0
  <2>1. Upserted(rows, id, new, item)
          = [i \in 1 .. Len(rows) |-> IF rows[i].id = id THEN Refreshed(rows[i], item)
                                                        ELSE rows[i]]
    BY <1>2 DEF Upserted
  <2>. QED
    BY <1>2, <2>1
<1>. QED
  BY <1>1, <1>2

LEMMA OlderCount ==
  ASSUME NEW rows \in Seq(Event)
  PROVE  Len(OlderRows(rows)) = Len(rows)
<1>1. OlderRows(rows) = [i \in 1 .. Len(rows) |-> [rows[i] EXCEPT !.age = Older(@, MaxAge)]]
  BY DEF OlderRows
<1>. QED
  BY <1>1

(* A step after which the rows are no more, and nobody new will open one.   *)
LEMMA NoneOpened ==
  ASSUME OpenInv, DetectionTyped', \A t \in Scans : Opens(t)' => Opens(t),
         Len(Pending)' <= Len(Pending)
  PROVE  Counted'
<1>1. Cardinality(Openers)' <= Cardinality(Openers) /\ Cardinality(Openers)' \in Nat
      /\ Cardinality(Openers) \in Nat
  BY FewerOpen, ThreadCount
<1>2. Len(Pending) \in Nat /\ Len(Pending)' \in Nat
  <2>1. Len(Pending)' \in Nat
    BY DEF DetectionTyped, DetectionTypeOK, Pending
  <2>. QED
    BY <2>1, RowCounts DEF OpenInv
<1>. QED
  BY <1>1, <1>2, ThreadCount DEF OpenInv, Counted

LEMMA SelectOpens ==
  ASSUME OpenInv, NEW t \in Scans, Select(t)
  PROVE  OpenInv'
<1>1. DetectionTyped'
  BY SelectTyped DEF OpenInv
<1>2. UNCHANGED <<events, draft, dbWriter>> /\ Pending' = Pending
  BY DEF Select, Database, Pending
<1>3. /\ \A u \in Scans \ {t} : scan'[u] = scan[u]
      /\ Opens(t)' => Seen(t) = <<>>
  <2>1. scan'[t].read = IF Seen(t) = <<>> THEN 0 ELSE Last(Seen(t)).id
    BY DEF Select, OpenInv, DetectionTyped, Thread
  <2>2. Seen(t) # <<>> => Last(Seen(t)).id # 0
    <3>1. Seen(t) \in Seq(Event)
      BY DEF Seen, OpenInv, DetectionTyped, DetectionTypeOK
    <3>2. Seen(t) # <<>> => Last(Seen(t)) \in Event
      BY <3>1 DEF Last
    <3>. QED
      BY <3>2 DEF Event, EventIds
  <2>. QED
    BY <2>1, <2>2 DEF Select, OpenInv, DetectionTyped, Opens
<1>4. ~Opens(t)
  BY DEF Select, ScanAt, Opens
<1>5. \A u \in Scans \ {t} : Opens(u)' <=> Opens(u)
  BY <1>3 DEF Opens
<1>6. WriterSees'
  <2>1. CASE dbWriter = t
    BY <1>2, <1>3, <2>1 DEF OpenInv, WriterSees, Seen
  <2>2. CASE dbWriter # t
    BY <1>2, <1>5, <2>2 DEF OpenInv, WriterSees, DetectionTyped, DetectionTypeOK, Opens
  <2>. QED
    BY <2>1, <2>2
<1>7. Counted'
  <2>1. CASE Seen(t) # <<>>
    <3>1. \A u \in Scans : Opens(u)' => Opens(u)
      BY <1>3, <1>5, <2>1
    <3>. QED
      BY <1>1, <1>2, <3>1, RowCounts, NoneOpened DEF OpenInv
  <2>2. CASE Seen(t) = <<>> /\ Pending = <<>>
    <3>1. Cardinality(Openers)' <= Cardinality(Scans) /\ Cardinality(Openers)' \in Nat
          /\ Cardinality(Scans) \in Nat
      <4>1. Openers' \subseteq Scans
        BY DEF Openers
      <4>. QED
        BY <4>1, ScansAssumption, FS_Subset, FS_CardinalityType
    <3>. QED
      BY <1>2, <2>2, <3>1 DEF Counted
  <2>3. CASE Seen(t) = <<>> /\ Pending # <<>>
    <3>1. dbWriter # Unlocked /\ dbWriter # t /\ dbWriter \in Scans /\ events = <<>> /\ draft # <<>>
      <4>1. t # Unlocked
        BY DetectionAssumption DEF Unlocked
      <4>2. dbWriter \in Scans \cup {Unlocked}
        BY DEF OpenInv, DetectionTyped, DetectionTypeOK
      <4>. QED
        BY <2>3, <4>1, <4>2 DEF Seen, Pending
    <3>2. ~Opens(dbWriter) /\ Len(draft) = 1
      <4>1. ~Opens(dbWriter) /\ Len(draft) <= Len(events) + 1
        BY <3>1 DEF OpenInv, WriterSees
      <4>2. Len(events) = 0 /\ Len(draft) \in Nat /\ Len(draft) # 0
        BY <3>1, RowCounts DEF OpenInv
      <4>3. Len(draft) <= 0 + 1
        BY <4>1, <4>2
      <4>4. Len(draft) = 1
        BY <4>2, <4>3
      <4>. QED
        BY <4>1, <4>4, Zenon
    <3>3. dbWriter \notin Openers'
      BY <1>5, <3>1, <3>2 DEF Openers
    <3>4. Cardinality(Openers)' + 1 <= Cardinality(Scans) /\ Cardinality(Openers)' \in Nat
          /\ Cardinality(Scans) \in Nat
      <4>1. Openers' \subseteq Scans \ {dbWriter} /\ IsFiniteSet(Scans)
        BY <3>3, ScansAssumption DEF Openers
      <4>2. /\ IsFiniteSet(Scans \ {dbWriter})
            /\ Cardinality(Scans \ {dbWriter}) = Cardinality(Scans) - 1
        BY <3>1, <4>1, FS_RemoveElement
      <4>3. Cardinality(Openers') <= Cardinality(Scans \ {dbWriter}) /\ IsFiniteSet(Openers')
        BY <4>1, <4>2, FS_Subset
      <4>4. Cardinality(Openers') \in Nat /\ Cardinality(Scans) \in Nat
        BY <4>1, <4>3, FS_CardinalityType
      <4>. QED
        BY <4>2, <4>3, <4>4
    <3>5. Len(Pending)' = 1
      BY <1>2, <3>1, <3>2 DEF Pending
    <3>. QED
      BY <3>4, <3>5 DEF Counted
  <2>. QED
    BY <2>1, <2>2, <2>3
<1>. QED
  BY <1>1, <1>6, <1>7 DEF OpenInv

LEMMA WriteOpens ==
  ASSUME OpenInv, NEW t \in Scans, Write(t)
  PROVE  OpenInv'
<1>1. DetectionTyped' /\ Seen(t) \in Seq(Event)
  BY WriteTyped DEF OpenInv
<1>2. /\ dbWriter' = t /\ dbWriter \in {Unlocked, t} /\ t # Unlocked /\ events' = events
      /\ Pending' = draft'
  BY DetectionAssumption DEF Write, Pending, Unlocked
<1>3. /\ \A u \in Scans \ {t} : scan'[u] = scan[u]
      /\ scan'[t].pc # "write"
  BY DEF Write, OpenInv, DetectionTyped, Thread
<1>4. ~Opens(t)' /\ \A u \in Scans : Opens(u)' => Opens(u)
  BY <1>3 DEF Opens
<1>5. Len(draft') = IF scan[t].read = 0 THEN Len(Seen(t)) + 1 ELSE Len(Seen(t))
  <2>. DEFINE item == Head(scan[t].items)
              new == CHOOSE id \in EventIds : id \notin InUse
  <2>1. draft' = Upserted(Seen(t), scan[t].read, new, item)
    BY DEF Write
  <2>. HIDE DEF item, new
  <2>. QED
    BY <1>1, <2>1, UpsertedCount
<1>6. Opens(t) <=> scan[t].read = 0
  BY DEF Write, ScanAt, Opens
<1>7. CASE dbWriter = t
  <2>1. Seen(t) = draft /\ Pending = draft
    BY <1>2, <1>7 DEF Seen, Pending
  <2>2. WriterSees'
    BY <1>2, <1>4, <1>5, <1>6, <1>7, <2>1, RowCounts DEF OpenInv, WriterSees
  <2>3. Counted'
    <3>1. CASE scan[t].read # 0
      <4>1. Len(Pending)' <= Len(Pending)
        BY <1>2, <1>5, <2>1, <3>1, RowCounts DEF OpenInv
      <4>. QED
        BY <1>1, <1>4, <4>1, NoneOpened
    <3>2. CASE scan[t].read = 0
      <4>1. Len(Pending)' = Len(Pending) + 1
        BY <1>2, <1>5, <2>1, <3>2
      <4>2. Cardinality(Openers)' + 1 <= Cardinality(Openers) /\ Cardinality(Openers)' \in Nat
        BY <1>4, <1>6, <3>2, FewerOpen
      <4>. QED
        BY <4>1, <4>2, ThreadCount, RowCounts DEF OpenInv, Counted
    <3>. QED
      BY <3>1, <3>2
  <2>. QED
    BY <1>1, <2>2, <2>3 DEF OpenInv
<1>8. CASE dbWriter = Unlocked
  <2>1. Seen(t) = events /\ Pending = events
    BY <1>2, <1>8 DEF Seen, Pending
  <2>2. WriterSees'
    BY <1>2, <1>4, <1>5, <2>1, RowCounts DEF OpenInv, WriterSees
  <2>3. Counted'
    <3>1. CASE scan[t].read # 0
      <4>1. Len(Pending)' <= Len(Pending)
        BY <1>2, <1>5, <2>1, <3>1, RowCounts DEF OpenInv
      <4>. QED
        BY <1>1, <1>4, <4>1, NoneOpened
    <3>2. CASE scan[t].read = 0
      <4>1. Len(Pending)' = Len(Pending) + 1
        BY <1>2, <1>5, <2>1, <3>2
      <4>2. Cardinality(Openers)' + 1 <= Cardinality(Openers) /\ Cardinality(Openers)' \in Nat
        BY <1>4, <1>6, <3>2, FewerOpen
      <4>. QED
        BY <4>1, <4>2, ThreadCount, RowCounts DEF OpenInv, Counted
    <3>. QED
      BY <3>1, <3>2
  <2>. QED
    BY <1>1, <2>2, <2>3 DEF OpenInv
<1>. QED
  BY <1>2, <1>7, <1>8

(* A commit or a rollback ends what the thread saw.                         *)
LEMMA CommitOpens ==
  ASSUME OpenInv, NEW t \in Scans, CommitScan(t) \/ Rollback(t)
  PROVE  OpenInv'
<1>1. DetectionTyped'
  BY CommitTyped, RollbackTyped DEF OpenInv
<1>2. scan'[t].pc # "write" /\ \A u \in Scans \ {t} : scan'[u] = scan[u]
  <2>1. scan[t] \in Thread /\ Resting.pc = "idle"
    BY RestingTyped DEF OpenInv, DetectionTyped
  <2>2. /\ [scan[t] EXCEPT !.pc = "close"].pc = "close"
        /\ [scan[t] EXCEPT !.pc = "close", !.items = <<>>, !.read = 0, !.wrote = 0].pc = "close"
    BY <2>1 DEF Thread
  <2>3. scan'[t].pc \in {"idle", "close"}
    BY <2>1, <2>2 DEF CommitScan, Rollback, OpenInv, DetectionTyped
  <2>4. \A u \in Scans \ {t} : scan'[u] = scan[u]
    BY DEF CommitScan, Rollback, OpenInv, DetectionTyped
  <2>. QED
    BY <2>3, <2>4
<1>3. ~Opens(t)' /\ \A u \in Scans : Opens(u)' => Opens(u)
  BY <1>2 DEF Opens
<1>4. t # Unlocked
  BY DetectionAssumption DEF Unlocked
<1>5. WriterSees' /\ Len(Pending)' <= Len(Pending)
  <2>1. CASE CommitScan(t)
    <3>1. dbWriter' = Unlocked /\ Pending' = events' /\ events' = Pending
      BY <1>4, <2>1 DEF CommitScan, Pending, Seen
    <3>. QED
      BY <3>1, RowCounts DEF WriterSees, OpenInv
  <2>2. CASE Rollback(t) /\ dbWriter = t
    <3>1. dbWriter' = Unlocked /\ events' = events /\ Pending' = events /\ Pending = draft
      BY <1>4, <2>2 DEF Rollback, Pending
    <3>. QED
      BY <1>4, <2>2, <3>1 DEF WriterSees, OpenInv
  <2>3. CASE Rollback(t) /\ dbWriter # t
    <3>1. UNCHANGED <<events, draft, dbWriter>> /\ Pending' = Pending
      BY <2>3 DEF Rollback, Pending
    <3>2. dbWriter # Unlocked => dbWriter \in Scans
      BY DEF OpenInv, DetectionTyped, DetectionTypeOK
    <3>. QED
      BY <1>3, <3>1, <3>2, RowCounts DEF WriterSees, OpenInv, Opens
  <2>. QED
    BY <2>1, <2>2, <2>3
<1>. QED
  BY <1>1, <1>3, <1>5, NoneOpened DEF OpenInv

(* Nothing is opened outside of a scan.                                     *)
LEMMA OthersOpen ==
  ASSUME OpenInv, DetectionTyped', \A t \in Scans : Opens(t)' => Opens(t),
         \/ /\ UNCHANGED dbWriter
            /\ Len(events') = Len(events)
            /\ Len(draft') = Len(draft)
         \/ /\ dbWriter = Unlocked /\ UNCHANGED dbWriter
            /\ Len(events') <= Len(events)
  PROVE  OpenInv'
<1>1. Len(Pending)' <= Len(Pending)
  BY RowCounts DEF Pending, OpenInv
<1>2. WriterSees'
  <2>1. CASE dbWriter = Unlocked
    BY <2>1 DEF WriterSees
  <2>2. CASE dbWriter # Unlocked
    <3>1. dbWriter \in Scans /\ dbWriter' = dbWriter
          /\ Len(events') = Len(events) /\ Len(draft') = Len(draft)
      BY <2>2 DEF OpenInv, DetectionTyped, DetectionTypeOK
    <3>2. Opens(dbWriter)' => draft' = <<>>
      <4>1. Opens(dbWriter)' => Opens(dbWriter)
        BY <3>1 DEF Opens
      <4>2. draft' = <<>> <=> Len(draft') = 0
        BY DEF DetectionTyped, DetectionTypeOK
      <4>. QED
        BY <2>2, <3>1, <4>1, <4>2, RowCounts DEF OpenInv, WriterSees
    <3>. QED
      BY <2>2, <3>1, <3>2 DEF OpenInv, WriterSees, Opens
  <2>. QED
    BY <2>1, <2>2
<1>. QED
  BY <1>1, <1>2, NoneOpened DEF OpenInv

LEMMA OpenStep ==
  ASSUME OpenInv, [DetectionNext]_detectionVars, DetectionTyped'
  PROVE  OpenInv'
<1>1. CASE UNCHANGED detectionVars
  BY <1>1, OthersOpen DEF detectionVars, Opens
<1>2. ASSUME NEW t \in Scans, StartScan(t)
      PROVE  OpenInv'
  <2>1. scan'[t].pc # "write" /\ \A u \in Scans \ {t} : scan'[u] = scan[u]
    BY <1>2 DEF StartScan, Starts, OpenInv, DetectionTyped, Resting
  <2>2. UNCHANGED <<events, draft, dbWriter>>
    BY <1>2 DEF StartScan, Database
  <2>. QED
    BY <2>1, <2>2, OthersOpen DEF Opens
<1>3. ASSUME NEW t \in Scans, ScanStep(t) \/ Rollback(t)
      PROVE  OpenInv'
  <2>1. CASE CloseStale
    <3>. DEFINE kept == {i \in DOMAIN events : ~Stale(events[i])}
    <3>1. /\ kept \in SUBSET DOMAIN events /\ events' = LeftAt(events, kept)
          /\ events \in Seq(Event) /\ dbWriter = Unlocked /\ UNCHANGED dbWriter
      BY <2>1 DEF CloseStale, OpenInv, DetectionTyped, DetectionTypeOK
    <3>2. \A u \in Scans : Opens(u)' => Opens(u)
      BY <2>1 DEF CloseStale, ScanAt, Opens, OpenInv, DetectionTyped
    <3>. HIDE DEF kept
    <3>3. Len(events') <= Len(events)
      <4>1. /\ Cardinality(kept) \in Nat /\ Cardinality(kept) <= Len(events)
            /\ \E f \in [1 .. Cardinality(kept) -> kept] :
                 LeftAt(events, kept) = [i \in 1 .. Cardinality(kept) |-> events[f[i]]]
        BY <3>1, LeftOrder
      <4>2. Len(LeftAt(events, kept)) = Cardinality(kept)
        BY <4>1
      <4>. QED
        BY <3>1, <4>1, <4>2
    <3>. QED
      BY <3>1, <3>2, <3>3, OthersOpen
  <2>2. CASE EnqueueActive
    <3>1. \A u \in Scans : Opens(u)' => Opens(u)
      BY <2>2 DEF EnqueueActive, Resting, Opens, OpenInv, DetectionTyped
    <3>. QED
      BY <2>2, <3>1, OthersOpen DEF EnqueueActive
  <2>. QED
    BY <1>3, <2>1, <2>2, SelectOpens, WriteOpens, CommitOpens DEF ScanStep
<1>4. ASSUME NEW i \in DOMAIN events, Judge(i)
      PROVE  OpenInv'
  BY <1>4, OthersOpen DEF Judge, Opens
<1>5. ASSUME NEW i \in DOMAIN events, OperatorEnds(i)
      PROVE  OpenInv'
  <2>1. events \in Seq(Event) /\ events' = RemoveAt(events, i)
        /\ UNCHANGED <<scan, dbWriter>> /\ dbWriter = Unlocked
    BY <1>5 DEF OperatorEnds, OpenInv, DetectionTyped, DetectionTypeOK
  <2>2. Len(RemoveAt(events, i)) = Len(events) - 1
    <3>1. /\ SubSeq(events, 1, i - 1) \in Seq(Event) /\ Len(SubSeq(events, 1, i - 1)) = i - 1
          /\ SubSeq(events, i + 1, Len(events)) \in Seq(Event)
          /\ Len(SubSeq(events, i + 1, Len(events))) = Len(events) - i
      BY <2>1
    <3>. DEFINE a == SubSeq(events, 1, i - 1)
                b == SubSeq(events, i + 1, Len(events))
    <3>2. RemoveAt(events, i) = a \o b
      BY DEF RemoveAt
    <3>5. a \in Seq(Event) /\ b \in Seq(Event) /\ Len(a) = i - 1 /\ Len(b) = Len(events) - i
      BY <3>1
    <3>. HIDE DEF a, b
    <3>3. a \in Seq(Event) /\ b \in Seq(Event) => Len(a \o b) = Len(a) + Len(b)
      OBVIOUS
    <3>4. i \in Nat /\ Len(events) \in Nat
      BY <2>1
    <3>. QED
      BY <3>2, <3>3, <3>4, <3>5
  <2>3. Len(events') <= Len(events)
    BY <2>1, <2>2
  <2>. QED
    BY <2>1, <2>3, OthersOpen DEF Opens
<1>6. ASSUME NEW volume \in Volumes, Tock(volume)
      PROVE  OpenInv'
  <2>1. Len(events') = Len(events) /\ Len(draft') = Len(draft) /\ UNCHANGED dbWriter
    BY <1>6, OlderCount DEF Tock, OpenInv, DetectionTyped, DetectionTypeOK
  <2>2. \A t \in Scans : scan'[t].pc = scan[t].pc /\ scan'[t].read = scan[t].read
    BY <1>6 DEF Tock, OpenInv, DetectionTyped, Thread
  <2>. QED
    BY <2>1, <2>2, OthersOpen DEF Opens
<1>. QED
  BY <1>1, <1>2, <1>3, <1>4, <1>5, <1>6 DEF DetectionNext

(* There are never more active events of a conversation than threads that   *)
(* run the rules: one that has seen an event refreshes it, whatever is      *)
(* rolled back, closed or ended by hand before it gets to write.            *)
THEOREM EventsCounted == DetectionSpec => []EventPerScan
<1>1. DetectionInit => OpenInv
  <2>. SUFFICES ASSUME DetectionInit PROVE OpenInv
    OBVIOUS
  <2>1. Pending = <<>> /\ dbWriter = Unlocked
    BY DEF DetectionInit, Pending
  <2>. QED
    BY <2>1, DetectionTypedInit, ThreadCount DEF OpenInv, WriterSees, Counted
<1>2. OpenInv /\ [DetectionNext]_detectionVars /\ DetectionTyped' => OpenInv'
  BY OpenStep
<1>3. OpenInv => EventPerScan
  <2>. SUFFICES ASSUME OpenInv PROVE Len(events) <= Cardinality(Scans)
    BY DEF EventPerScan
  <2>1. Len(events) <= Len(Pending)
    BY RowCounts DEF OpenInv, WriterSees, Pending
  <2>. QED
    BY <2>1, RowCounts, ThreadCount DEF OpenInv, Counted
<1>. QED
  BY <1>1, <1>2, <1>3, DetectionTypedInvariant, PTL DEF DetectionSpec

(* Without runs by hand there is one active event per deduplication key.    *)
THEOREM OneEventByLoop ==
  ASSUME Scans = {Loop}
  PROVE  DetectionSpec => []OneActiveEvent
<1>1. Cardinality(Scans) = 1
  BY FS_Singleton
<1>2. EventPerScan => OneActiveEvent
  BY <1>1 DEF EventPerScan, OneActiveEvent
<1>. QED
  BY <1>2, EventsCounted, PTL
=============================================================================
