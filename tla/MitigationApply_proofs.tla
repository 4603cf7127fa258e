------------------------ MODULE MitigationApply_proofs ------------------------
(***************************************************************************)
(* The five safety properties of MitigationApply, for any connectors,      *)
(* administrators, kinds, limits, edits of settings and retries.  Each has *)
(* an inductive invariant of its own beside ApplyInv, which holds the      *)
(* critical section together.                                              *)
(***************************************************************************)
EXTENDS MitigationApply, FiniteSetTheorems, WellFoundedInduction, TLAPS

\* a task, its tries not bounded
Task ==
    [pc : Pcs, mode : {"manual_approval", "announce_now", "automatic"},
     choice : BgpConnectors \cup {NoConnector}, stored : BgpConnectors \cup {NoConnector},
     todo : SUBSET BgpConnectors, seen : [BgpConnectors -> ConnectorModes],
     seenProfile : BOOLEAN, verdict : Verdicts, result : {"none", "sent", "unsent"},
     current : BOOLEAN, tries : Nat]

Typed ==
    /\ conf \in Settings
    /\ rules \in [Actors -> [BgpConnectors -> RuleStates]]
    /\ task \in [Actors -> Task]
    /\ dbWriter \in Actors \cup {"nobody"}

\* what an actor knows between its checks and its rows
ActorInv(a) ==
    /\ task[a].pc \in {"examined", "delivering"} => task[a].todo # {}
    /\ task[a].pc = "examined" => dbWriter = a
    /\ task[a].pc = "examined" /\ task[a].verdict \in {"pending_approval", "queued"} =>
         \A b \in Actors : ~Reserving(b, NextConnector(a))
    /\ task[a].pc = "delivering" => rules[a][NextConnector(a)] = "queued"

NoAutomaticRule == \A c \in BgpConnectors : ~Reserving(Orchestrator, c)

\* the automatic rule: one connector to serve, and nothing reserved before
AutomaticInv ==
    LET t == task[Orchestrator] IN
    /\ t.pc \in {"resolved", "examined", "delivering"} => \A x, y \in t.todo : x = y
    /\ \/ t.pc \in {"idle", "generated", "accepted", "queued", "examined"}
       \/ t.pc = "resolved" /\ t.todo # {}
       => NoAutomaticRule /\ t.result = "none"
    /\ t.pc = "resolved" /\ t.result = "unsent" => NoAutomaticRule
    /\ t.pc = "delivering" =>
         \A c \in BgpConnectors : Reserving(Orchestrator, c) => c = NextConnector(Orchestrator)

OnceInv == (\A a \in Actors : ActorInv(a)) /\ AutomaticInv /\ AppliedOnce
ApplyInv == Typed /\ OnceInv

-----------------------------------------------------------------------------
(* Connectors                                                              *)

LEMMA LeastIsMember ==
  ASSUME NEW S, S \subseteq Nat, S # {}
  PROVE  Min(S) \in S
<1> DEFINE R == {p \in Nat \X Nat : p[1] < p[2]}
<1>1. \A x, y \in Nat : <<x, y>> \in R <=> x < y
  OBVIOUS
<1>2. IsWellFoundedOn(R, Nat)
  BY NatLessThanWellFounded DEF OpToRel
<1> HIDE DEF R
<1>3. \E x \in S : \A y \in S : ~(<<y, x>> \in R)
  BY <1>2, WFMin
<1>4. \E x \in S : \A y \in S : x <= y
  <2>1. PICK x \in S : \A y \in S : ~(<<y, x>> \in R)
    BY <1>3
  <2>2. ASSUME NEW y \in S
        PROVE  x <= y
    <3>1. x \in Nat /\ y \in Nat /\ ~(y < x)
      BY <1>1, <2>1
    <3>. QED
      BY <3>1
  <2>. QED
    BY <2>1, <2>2
<1>5. Min(S) = CHOOSE x \in S : \A y \in S : x <= y
  BY Zenon DEF Min
<1>. QED
  BY <1>4, <1>5, Zenon

LEMMA OneElement ==
  ASSUME NEW S \in SUBSET BgpConnectors, Cardinality(S) = 1
  PROVE  \A x, y \in S : x = y
<1>1. IsFiniteSet(S)
  BY MitigationAssumption, FS_Subset
<1>2. PICK x : S = {x}
  BY <1>1, FS_Singleton
<1>. QED
  BY <1>2

LEMMA NextIsServed ==
  ASSUME Typed, NEW a \in Actors, task[a].todo # {}
  PROVE  NextConnector(a) \in task[a].todo /\ NextConnector(a) \in BgpConnectors
<1>1. task[a].todo \subseteq BgpConnectors
  BY DEF Typed, Task
<1>2. task[a].todo \subseteq Nat
  BY <1>1, MitigationAssumption
<1>3. Min(task[a].todo) \in task[a].todo
  BY <1>2, LeastIsMember, Zenon
<1>. QED
  BY <1>1, <1>3, Zenon DEF NextConnector

-----------------------------------------------------------------------------
(* Steps of a task                                                         *)

\* the fields of b's task that the invariant looks at stay
Same(b) ==
    /\ task'[b].pc = task[b].pc /\ task'[b].todo = task[b].todo
    /\ task'[b].verdict = task[b].verdict /\ task'[b].result = task[b].result

LEMMA Outdating ==
  ASSUME NEW tasks \in [Actors -> Task], NEW actors
  PROVE  /\ Outdated(tasks, actors) \in [Actors -> Task]
         /\ \A b \in Actors : /\ Outdated(tasks, actors)[b].pc = tasks[b].pc
                              /\ Outdated(tasks, actors)[b].todo = tasks[b].todo
                              /\ Outdated(tasks, actors)[b].verdict = tasks[b].verdict
                              /\ Outdated(tasks, actors)[b].result = tasks[b].result
<1>1. \A t \in Task : LET u == [t EXCEPT !.current = FALSE]
                      IN /\ u \in Task /\ u.pc = t.pc /\ u.todo = t.todo
                         /\ u.verdict = t.verdict /\ u.result = t.result
  BY DEF Task
<1>. QED
  BY <1>1 DEF Outdated

LEMMA TaskMoves ==
  ASSUME Typed, NEW a \in Actors, NEW t \in Task, MovesTo(a, t) \/ MovesShared(a, t)
  PROVE  /\ task' \in [Actors -> Task]
         /\ task'[a].pc = t.pc /\ task'[a].todo = t.todo
         /\ task'[a].verdict = t.verdict /\ task'[a].result = t.result
         /\ \A b \in Actors : b # a => Same(b)
<1> DEFINE tasks == [task EXCEPT ![a] = t]
<1>1. tasks \in [Actors -> Task] /\ tasks[a] = t
      /\ \A b \in Actors : b # a => tasks[b] = task[b]
  BY DEF Typed
<1> HIDE DEF tasks
<1>2. CASE MovesTo(a, t)
  BY <1>1, <1>2 DEF MovesTo, Same, tasks
<1>3. CASE MovesShared(a, t)
  <2>1. task' = Outdated(tasks, Operators \ {a})
    BY <1>3 DEF MovesShared, tasks
  <2>. QED
    BY <1>1, <2>1, Outdating DEF Same
<1>. QED
  BY <1>2, <1>3

\* another actor's task is unharmed: its own rows stay, and no row appears
\* while it holds the lock
LEMMA OthersKeep ==
  ASSUME Typed, NEW b \in Actors, ActorInv(b), Same(b),
         \A c \in BgpConnectors : rules'[b][c] = rules[b][c],
         task[b].pc = "examined" =>
           /\ dbWriter' = dbWriter
           /\ \A d \in Actors, c \in BgpConnectors :
                rules'[d][c] # "none" => rules[d][c] # "none"
  PROVE  ActorInv(b)'
<1>1. NextConnector(b)' = NextConnector(b)
  BY DEF NextConnector, Same
<1>2. task[b].todo # {} => NextConnector(b) \in BgpConnectors
  BY NextIsServed
<1>. QED
  BY <1>1, <1>2 DEF ActorInv, Same, Reserving

LEMMA AutomaticKeeps ==
  ASSUME AutomaticInv, AppliedOnce, Same(Orchestrator),
         \A c \in BgpConnectors : rules'[Orchestrator][c] = rules[Orchestrator][c]
  PROVE  AutomaticInv'
<1>1. NextConnector(Orchestrator)' = NextConnector(Orchestrator)
  BY DEF NextConnector, Same
<1>2. NoAutomaticRule' <=> NoAutomaticRule
  BY DEF NoAutomaticRule, Reserving
<1>. QED
  BY <1>1, <1>2 DEF AutomaticInv, Same, Reserving

LEMMA OnceKeeps ==
  ASSUME AppliedOnce, \A a \in Actors, c \in BgpConnectors :
                        rules'[a][c] # "none" => rules[a][c] # "none"
  PROVE  AppliedOnce'
<1>1. Orchestrator \in Actors
  BY DEF Actors
<1>. QED
  BY <1>1 DEF AppliedOnce, Reserving

LEMMA ActorsApart ==
  /\ Orchestrator \in Actors /\ Orchestrator \notin Operators
  /\ "nobody" \notin Actors /\ \A a \in Operators : a \in Actors /\ a # Orchestrator
BY MitigationAssumption DEF Actors, Orchestrator

LEMMA NoTaskTyped ==
  NoTask \in Task
BY DEF NoTask, Task, Pcs, ConnectorModes, Verdicts

LEMMA OverTyped ==
  ASSUME Typed, NEW a \in Actors, NEW pc \in Pcs
  PROVE  /\ Over(a, pc) \in Task
         /\ Over(a, pc).pc = pc /\ Over(a, pc).todo = {} /\ Over(a, pc).result = "none"
<1>1. task[a] \in Task
  BY DEF Typed
<1>2. /\ task[a].stored \in BgpConnectors \cup {NoConnector}
      /\ task[a].verdict \in Verdicts /\ task[a].current \in BOOLEAN
  BY <1>1 DEF Task
<1>3. /\ NoTask \in Task /\ NoTask.todo = {} /\ NoTask.result = "none"
      /\ "todo" \in DOMAIN NoTask
  BY NoTaskTyped DEF NoTask
<1>. QED
  BY <1>2, <1>3 DEF Over, Task

LEMMA BegunTyped ==
  ASSUME Typed, NEW t \in Task, NEW found \in SUBSET BgpConnectors
  PROVE  /\ Begun(t, found) \in Task
         /\ Begun(t, found).pc = "resolved" /\ Begun(t, found).todo = found
         /\ Begun(t, found).result = t.result
<1>1. conf.profileOn \in BOOLEAN /\ \A c \in BgpConnectors : conf.mode[c] \in ConnectorModes
  BY DEF Typed, Settings
<1>2. [c \in BgpConnectors |-> IF c \in found THEN conf.mode[c] ELSE "off"]
        \in [BgpConnectors -> ConnectorModes]
  BY <1>1 DEF ConnectorModes
<1>3. "resolved" \in Pcs
  BY DEF Pcs
<1>. QED
  BY <1>1, <1>2, <1>3 DEF Begun, Task

LEMMA ResolvedServes ==
  ASSUME NEW choice, NEW explicit
  PROVE  Resolved(choice, explicit) \in SUBSET BgpConnectors
BY DEF Resolved, OperatorMayUse, ActiveConnectors

\* a step of a's task that touches no row
LEMMA QuietMove ==
  ASSUME ApplyInv, NEW a \in Actors, NEW t \in Task, MovesTo(a, t) \/ MovesShared(a, t),
         UNCHANGED <<conf, rules>>, dbWriter' \in Actors \cup {"nobody"},
         \A b \in Actors : b # a /\ task[b].pc = "examined" => dbWriter' = dbWriter,
         ActorInv(a)', a = Orchestrator => AutomaticInv'
  PROVE  ApplyInv'
<1>1. /\ task' \in [Actors -> Task]
      /\ \A b \in Actors : b # a => Same(b)
  BY TaskMoves DEF ApplyInv
<1>2. Typed'
  BY <1>1 DEF ApplyInv, Typed
<1>3. \A b \in Actors : ActorInv(b)'
  <2>1. ASSUME NEW b \in Actors, b # a
        PROVE  ActorInv(b)'
    BY <1>1, <2>1, OthersKeep DEF ApplyInv, OnceInv
  <2>. QED
    BY <2>1
<1>4. AutomaticInv'
  BY <1>1, AutomaticKeeps, ActorsApart DEF ApplyInv, OnceInv
<1>5. AppliedOnce'
  BY OnceKeeps DEF ApplyInv, OnceInv
<1>. QED
  BY <1>2, <1>3, <1>4, <1>5 DEF ApplyInv, OnceInv

\* outside the critical section an actor knows nothing that can go stale
LEMMA AtRest ==
  ASSUME NEW a \in Actors, task'[a].pc \notin {"examined", "delivering"}
  PROVE  ActorInv(a)'
BY DEF ActorInv

-----------------------------------------------------------------------------
(* Requests and the automatic rule, before the connectors are served       *)

LEMMA ShowKeeps ==
  ASSUME ApplyInv, NEW a \in Operators, NEW choice \in BgpConnectors \cup {NoConnector},
         NEW mode \in {"manual_approval", "announce_now"}, ShowPage(a, choice, mode)
  PROVE  ApplyInv'
<1> DEFINE t == [NoTask EXCEPT !.pc = "shown", !.choice = choice, !.mode = mode,
                               !.current = Offered(choice, mode)]
<1>1. Offered(choice, mode) \in BOOLEAN
  BY DEF Offered
<1>2. t \in Task /\ t.pc = "shown"
  BY <1>1, NoTaskTyped DEF Task, Pcs
<1>3. MovesTo(a, t) /\ UNCHANGED <<conf, rules, dbWriter>>
  BY DEF ShowPage
<1> HIDE DEF t
<1>4. task'[a].pc = "shown"
  BY <1>2, <1>3, TaskMoves, ActorsApart DEF ApplyInv
<1>. QED
  BY <1>2, <1>3, <1>4, QuietMove, AtRest, ActorsApart DEF ApplyInv, Typed

LEMMA SubmitKeeps ==
  ASSUME ApplyInv, NEW a \in Operators, SubmitApply(a)
  PROVE  ApplyInv'
<1> DEFINE found == Resolved(task[a].choice, NoConnector)
           t == [Begun(task[a], found) EXCEPT !.choice = NoConnector]
<1>1. Typed /\ a \in Actors /\ a # Orchestrator /\ task[a] \in Task
  BY ActorsApart DEF ApplyInv, Typed
<1>2. Begun(task[a], found) \in Task /\ Begun(task[a], found).pc = "resolved"
  BY <1>1, ResolvedServes, BegunTyped
<1>3. t \in Task /\ t.pc = "resolved"
  BY <1>2 DEF Task
<1>4. "answered" \in Pcs
  BY DEF Pcs
<1>5. Over(a, "answered") \in Task /\ Over(a, "answered").pc = "answered"
  BY <1>1, <1>4, OverTyped
<1>6. (MovesTo(a, Over(a, "answered")) \/ MovesTo(a, t)) /\ UNCHANGED <<conf, rules, dbWriter>>
  BY DEF SubmitApply
<1> HIDE DEF t, found
<1>7. task'[a].pc \in {"answered", "resolved"}
  BY <1>1, <1>3, <1>5, <1>6, TaskMoves
<1>8. ActorInv(a)' /\ dbWriter' \in Actors \cup {"nobody"}
  BY <1>1, <1>6, <1>7, AtRest DEF Typed
<1>. QED
  BY <1>1, <1>3, <1>5, <1>6, <1>8, QuietMove

LEMMA AutomaticRests ==
  ASSUME task'[Orchestrator].pc \in {"active", "failed", "closed"}
  PROVE  AutomaticInv'
BY DEF AutomaticInv

LEMMA AutomaticEarly ==
  ASSUME UNCHANGED rules, NoAutomaticRule,
         task'[Orchestrator].pc \in {"idle", "generated", "accepted", "queued"},
         task'[Orchestrator].result = "none"
  PROVE  AutomaticInv'
<1>1. NoAutomaticRule'
  BY DEF NoAutomaticRule, Reserving
<1>. QED
  BY <1>1 DEF AutomaticInv

LEMMA AutomaticBegins ==
  ASSUME UNCHANGED rules, NoAutomaticRule, task'[Orchestrator].pc = "resolved",
         task'[Orchestrator].result = "none",
         \A x, y \in task'[Orchestrator].todo : x = y
  PROVE  AutomaticInv'
<1>1. NoAutomaticRule'
  BY DEF NoAutomaticRule, Reserving
<1>. QED
  BY <1>1 DEF AutomaticInv

\* the worker's task moves on, and no row changes
LEMMA WorkerMoves ==
  ASSUME ApplyInv, NEW t \in Task,
         MovesTo(Orchestrator, t) \/ MovesShared(Orchestrator, t),
         UNCHANGED <<conf, rules, dbWriter>>,
         \/ t.pc \in {"active", "failed", "closed"}
         \/ /\ t.pc \in {"idle", "generated", "accepted", "queued"}
            /\ t.result = "none" /\ NoAutomaticRule
         \/ /\ t.pc = "resolved" /\ t.result = "none" /\ NoAutomaticRule
            /\ \A x, y \in t.todo : x = y
  PROVE  ApplyInv'
<1>1. /\ task'[Orchestrator].pc = t.pc /\ task'[Orchestrator].todo = t.todo
      /\ task'[Orchestrator].result = t.result /\ Orchestrator \in Actors
  BY TaskMoves, ActorsApart DEF ApplyInv
<1>2. ActorInv(Orchestrator)'
  BY <1>1, AtRest
<1>3. AutomaticInv'
  BY <1>1, AutomaticRests, AutomaticEarly, AutomaticBegins
<1>4. dbWriter' \in Actors \cup {"nobody"}
  BY DEF ApplyInv, Typed
<1>. QED
  BY <1>1, <1>2, <1>3, <1>4, QuietMove

LEMMA WorkerKeeps ==
  ASSUME ApplyInv,
         \/ \E c \in BgpConnectors : Generate(c)
         \/ Accept \/ Reserve \/ Block \/ ApplyStored \/ CloseExecution
  PROVE  ApplyInv'
<1> DEFINE o == task[Orchestrator]
<1>0. /\ Typed /\ AutomaticInv /\ Orchestrator \in Actors /\ o \in Task
      /\ {"generated", "accepted", "queued", "active", "failed", "closed"} \subseteq Pcs
  BY ActorsApart DEF ApplyInv, OnceInv, Typed, Pcs
<1>1. o.pc \in {"idle", "generated", "accepted", "queued"} =>
         NoAutomaticRule /\ o.result = "none"
  BY <1>0 DEF AutomaticInv
<1>2. ASSUME NEW c \in BgpConnectors, Generate(c)
      PROVE  ApplyInv'
  <2> DEFINE t == [NoTask EXCEPT !.pc = "generated", !.mode = "automatic",
                                 !.stored = c, !.current = TRUE]
  <2>1. t \in Task /\ t.pc = "generated" /\ t.result = "none"
    BY <1>0, NoTaskTyped DEF Task, NoTask
  <2>2. MovesTo(Orchestrator, t) /\ UNCHANGED <<conf, rules, dbWriter>> /\ o.pc = "idle"
    BY <1>2 DEF Generate
  <2> HIDE DEF t
  <2>. QED
    BY <1>1, <2>1, <2>2, WorkerMoves
<1>3. CASE Accept
  <2> DEFINE t == [o EXCEPT !.pc = "accepted"]
  <2>1. MovesTo(Orchestrator, t) /\ UNCHANGED <<conf, rules, dbWriter>> /\ o.pc = "generated"
    BY <1>3 DEF Accept
  <2>2. t \in Task /\ t.pc = "accepted" /\ t.result = o.result
    BY <1>0 DEF Task
  <2> HIDE DEF t
  <2>. QED
    BY <1>1, <2>1, <2>2, WorkerMoves
<1>4. CASE Reserve
  <2> DEFINE t == [o EXCEPT !.pc = "queued"]
  <2>1. MovesShared(Orchestrator, t) /\ UNCHANGED <<conf, rules, dbWriter>> /\ o.pc = "accepted"
    BY <1>4 DEF Reserve
  <2>2. t \in Task /\ t.pc = "queued" /\ t.result = o.result
    BY <1>0 DEF Task
  <2> HIDE DEF t
  <2>. QED
    BY <1>1, <2>1, <2>2, WorkerMoves
<1>5. CASE Block
  <2>1. NoTask \in Task /\ NoTask.pc = "idle" /\ NoTask.result = "none"
    BY NoTaskTyped DEF NoTask
  <2>2. MovesTo(Orchestrator, NoTask) /\ UNCHANGED <<conf, rules, dbWriter>> /\ o.pc = "generated"
    BY <1>5 DEF Block
  <2>. QED
    BY <1>1, <2>1, <2>2, WorkerMoves
<1>6. CASE ApplyStored
  <2> DEFINE found == Resolved(NoConnector, o.stored)
             t == [Begun(o, found) EXCEPT !.tries = @ + 1]
  <2>1. /\ UNCHANGED <<conf, rules, dbWriter>> /\ o.pc = "queued"
        /\ \/ \E pc \in {"active", "failed"} : MovesShared(Orchestrator, Over(Orchestrator, pc))
           \/ MovesTo(Orchestrator, t) /\ Cardinality(found) = 1
    BY <1>6 DEF ApplyStored
  <2>2. ASSUME NEW pc \in {"active", "failed"}, MovesShared(Orchestrator, Over(Orchestrator, pc))
        PROVE  ApplyInv'
    <3>1. Over(Orchestrator, pc) \in Task /\ Over(Orchestrator, pc).pc = pc
      BY <1>0, <2>2, OverTyped
    <3>. QED
      BY <2>1, <2>2, <3>1, WorkerMoves
  <2>3. CASE MovesTo(Orchestrator, t) /\ Cardinality(found) = 1
    <3>1. found \in SUBSET BgpConnectors
      BY ResolvedServes
    <3>2. /\ Begun(o, found) \in Task /\ Begun(o, found).pc = "resolved"
          /\ Begun(o, found).todo = found /\ Begun(o, found).result = o.result
      BY <1>0, <3>1, BegunTyped
    <3>3. /\ t \in Task /\ t.pc = "resolved" /\ t.todo = found /\ t.result = o.result
      BY <3>2 DEF Task
    <3>4. \A x, y \in found : x = y
      BY <2>3, <3>1, OneElement
    <3> HIDE DEF t, found
    <3>. QED
      BY <1>1, <2>1, <2>3, <3>3, <3>4, WorkerMoves
  <2>. QED
    BY <2>1, <2>2, <2>3
<1>7. CASE CloseExecution
  <2>1. Over(Orchestrator, "closed") \in Task /\ Over(Orchestrator, "closed").pc = "closed"
    BY <1>0, OverTyped
  <2>. QED
    BY <1>7, <2>1, WorkerMoves DEF CloseExecution
<1>. QED
  BY <1>2, <1>3, <1>4, <1>5, <1>6, <1>7

-----------------------------------------------------------------------------
(* The connectors served, one after the other                              *)

\* an actor with work to do, and the connector it is about
LEMMA Working ==
  ASSUME ApplyInv, NEW a \in Actors
  PROVE  /\ Typed /\ ActorInv(a) /\ AutomaticInv /\ AppliedOnce /\ task[a] \in Task
         /\ task[a].todo \subseteq BgpConnectors
         /\ task[a].pc \in {"examined", "delivering"} \/ task[a].todo # {} =>
              /\ NextConnector(a) \in task[a].todo /\ NextConnector(a) \in BgpConnectors
BY NextIsServed DEF ApplyInv, OnceInv, ActorInv, Typed, Task

LEMMA VerdictIsOne ==
  ASSUME NEW a, NEW c
  PROVE  /\ Verdict(a, c) \in Verdicts
         /\ Verdict(a, c) \in {"pending_approval", "queued"} => ~Equivalent(c)
BY DEF Verdict, Verdicts

LEMMA ExamineKeeps ==
  ASSUME ApplyInv, NEW a \in Actors, Examine(a)
  PROVE  ApplyInv'
<1> DEFINE c == NextConnector(a)
           v == Verdict(a, c)
           t == [task[a] EXCEPT !.pc = "examined", !.seen[c] = "off", !.verdict = v]
<1>1. /\ Typed /\ AutomaticInv /\ task[a] \in Task /\ task[a].pc = "resolved"
      /\ task[a].todo # {} /\ c \in BgpConnectors
  BY Working DEF Examine
<1>2. /\ v \in Verdicts
      /\ v \in {"pending_approval", "queued"} => \A b \in Actors : ~Reserving(b, c)
  BY VerdictIsOne DEF Equivalent
<1>3. /\ MovesTo(a, t) /\ UNCHANGED <<conf, rules>>
      /\ dbWriter' = a /\ dbWriter \in {"nobody", a}
  BY DEF Examine, MayWrite
<1> HIDE DEF v
<1>4. /\ t \in Task /\ t.pc = "examined" /\ t.todo = task[a].todo /\ t.verdict = v
      /\ t.result = task[a].result
  <2>1. "off" \in ConnectorModes /\ "examined" \in Pcs
    BY DEF ConnectorModes, Pcs
  <2>2. [task[a].seen EXCEPT ![c] = "off"] \in [BgpConnectors -> ConnectorModes]
    BY <1>1, <2>1 DEF Task
  <2>. QED
    BY <1>1, <1>2, <2>1, <2>2 DEF Task
<1> HIDE DEF t
<1>5. /\ task'[a].pc = "examined" /\ task'[a].todo = task[a].todo /\ task'[a].verdict = v
      /\ task'[a].result = task[a].result
  BY <1>1, <1>3, <1>4, TaskMoves
<1>6. NextConnector(a)' = c
  BY <1>5 DEF NextConnector
<1>7. ActorInv(a)'
  BY <1>1, <1>2, <1>3, <1>5, <1>6 DEF ActorInv, Reserving
<1>8. ASSUME a = Orchestrator
      PROVE  AutomaticInv'
  <2>1. NoAutomaticRule' <=> NoAutomaticRule
    BY <1>3 DEF NoAutomaticRule, Reserving
  <2>. QED
    BY <1>1, <1>5, <1>8, <2>1 DEF AutomaticInv
<1>9. \A b \in Actors : b # a => task[b].pc # "examined"
  BY <1>3, Working, ActorsApart DEF ActorInv
<1>. QED
  BY <1>3, <1>4, <1>7, <1>8, <1>9, QuietMove

LEMMA HolderOnly ==
  ASSUME ApplyInv, NEW a \in Actors, dbWriter = a
  PROVE  \A b \in Actors : b # a => task[b].pc # "examined"
BY Working DEF ActorInv

LEMMA RefuseKeeps ==
  ASSUME ApplyInv, NEW a \in Actors, Refuse(a)
  PROVE  ApplyInv'
<1>1. Typed /\ task[a].pc = "examined" /\ dbWriter = a
  BY Working DEF Refuse, ActorInv
<1>2. PICK pc \in {"answered", "active", "failed"} :
        /\ MovesShared(a, Over(a, pc))
        /\ a = Orchestrator => pc \in {"active", "failed"}
  BY DEF Refuse
<1>3. Over(a, pc) \in Task /\ Over(a, pc).pc = pc
  BY <1>1, OverTyped DEF Pcs
<1>4. UNCHANGED <<conf, rules>> /\ dbWriter' = "nobody"
  BY DEF Refuse
<1>5. task'[a].pc = pc
  BY <1>1, <1>2, <1>3, TaskMoves
<1>6. ActorInv(a)' /\ (a = Orchestrator => AutomaticInv')
  BY <1>2, <1>5, AtRest, AutomaticRests
<1>7. \A b \in Actors : b # a /\ task[b].pc = "examined" => dbWriter' = dbWriter
  BY <1>1, HolderOnly
<1>. QED
  BY <1>2, <1>3, <1>4, <1>6, <1>7, QuietMove

LEMMA FinishKeeps ==
  ASSUME ApplyInv, NEW a \in Actors, Finish(a)
  PROVE  ApplyInv'
<1> DEFINE again == [task[a] EXCEPT !.pc = "queued", !.result = "none"]
<1>1. /\ Typed /\ AutomaticInv /\ task[a] \in Task /\ task[a].pc = "resolved"
      /\ UNCHANGED <<conf, rules>>
      /\ dbWriter' = IF dbWriter = a THEN "nobody" ELSE dbWriter
  BY Working DEF Finish
<1>2. \A b \in Actors : b # a /\ task[b].pc = "examined" => dbWriter' = dbWriter
  BY <1>1, HolderOnly
<1>3. dbWriter' \in Actors \cup {"nobody"}
  BY <1>1 DEF Typed
<1>4. \/ \E pc \in {"answered", "active", "failed"} :
           /\ MovesShared(a, Over(a, pc))
           /\ a = Orchestrator => pc \in {"active", "failed"}
      \/ a = Orchestrator /\ task[a].result = "unsent" /\ MovesShared(a, again)
  BY DEF Finish
<1>5. ASSUME NEW pc \in {"answered", "active", "failed"}, MovesShared(a, Over(a, pc)),
             a = Orchestrator => pc \in {"active", "failed"}
      PROVE  ApplyInv'
  <2>1. Over(a, pc) \in Task /\ Over(a, pc).pc = pc
    BY <1>1, OverTyped DEF Pcs
  <2>2. task'[a].pc = pc
    BY <1>1, <1>5, <2>1, TaskMoves
  <2>3. ActorInv(a)' /\ (a = Orchestrator => AutomaticInv')
    BY <1>5, <2>2, AtRest, AutomaticRests
  <2>. QED
    BY <1>1, <1>2, <1>3, <1>5, <2>1, <2>3, QuietMove
<1>6. CASE a = Orchestrator /\ task[a].result = "unsent" /\ MovesShared(a, again)
  <2>1. again \in Task /\ again.pc = "queued" /\ again.result = "none"
    BY <1>1 DEF Task, Pcs
  <2> HIDE DEF again
  <2>2. task'[a].pc = "queued" /\ task'[a].result = "none"
    BY <1>1, <1>6, <2>1, TaskMoves
  <2>3. NoAutomaticRule
    BY <1>1, <1>6 DEF AutomaticInv
  <2>4. ActorInv(a)' /\ AutomaticInv'
    BY <1>1, <1>6, <2>2, <2>3, AtRest, AutomaticEarly
  <2>. QED
    BY <1>1, <1>2, <1>3, <1>6, <2>1, <2>4, QuietMove
<1>. QED
  BY <1>4, <1>5, <1>6

\* a step of a's task that writes a's row on connector c
LEMMA RowMove ==
  ASSUME ApplyInv, NEW a \in Actors, NEW t \in Task, MovesShared(a, t),
         NEW c \in BgpConnectors, NEW x \in RuleStates,
         rules' = [rules EXCEPT ![a][c] = x], UNCHANGED conf,
         dbWriter' \in Actors \cup {"nobody"},
         \A b \in Actors : b # a => task[b].pc # "examined",
         x # "none" => \A b \in Actors : b # a => ~Reserving(b, c),
         a = Orchestrator /\ x # "none" =>
           \A d \in BgpConnectors : Reserving(Orchestrator, d) => d = c,
         ActorInv(a)', a = Orchestrator => AutomaticInv'
  PROVE  ApplyInv'
<1>1. /\ task' \in [Actors -> Task]
      /\ \A b \in Actors : b # a => Same(b)
  BY TaskMoves DEF ApplyInv
<1>2. /\ rules' \in [Actors -> [BgpConnectors -> RuleStates]]
      /\ rules'[a][c] = x
      /\ \A d \in BgpConnectors : d # c => rules'[a][d] = rules[a][d]
      /\ \A b \in Actors : b # a => rules'[b] = rules[b]
  BY DEF ApplyInv, Typed
<1>3. Typed'
  BY <1>1, <1>2 DEF ApplyInv, Typed
<1>4. \A b \in Actors : ActorInv(b)'
  <2>1. ASSUME NEW b \in Actors, b # a
        PROVE  ActorInv(b)'
    BY <1>1, <1>2, <2>1, OthersKeep DEF ApplyInv, OnceInv
  <2>. QED
    BY <2>1
<1>5. AutomaticInv'
  <2>1. CASE a = Orchestrator
    BY <2>1
  <2>2. CASE a # Orchestrator
    BY <1>1, <1>2, <2>2, AutomaticKeeps, ActorsApart DEF ApplyInv, OnceInv
  <2>. QED
    BY <2>1, <2>2
<1>6. AppliedOnce'
  <2>1. AppliedOnce
    BY DEF ApplyInv, OnceInv
  <2>2. ASSUME NEW d \in BgpConnectors, NEW b \in Actors, NEW e \in Actors,
               Reserving(b, d)', Reserving(e, d)'
        PROVE  b = e
    <3>1. CASE d = c
      BY <1>2, <2>1, <2>2, <3>1 DEF AppliedOnce, Reserving
    <3>2. CASE d # c
      BY <1>2, <2>1, <2>2, <3>2 DEF AppliedOnce, Reserving
    <3>. QED
      BY <3>1, <3>2
  <2>3. ASSUME NEW d \in BgpConnectors, NEW e \in BgpConnectors,
               Reserving(Orchestrator, d)', Reserving(Orchestrator, e)'
        PROVE  d = e
    <3>1. CASE a # Orchestrator
      BY <1>2, <2>1, <2>3, <3>1, ActorsApart DEF AppliedOnce, Reserving
    <3>2. CASE a = Orchestrator
      BY <1>2, <2>1, <2>3, <3>2 DEF AppliedOnce, Reserving
    <3>. QED
      BY <3>1, <3>2
  <2>. QED
    BY <2>2, <2>3 DEF AppliedOnce
<1>. QED
  BY <1>3, <1>4, <1>5, <1>6 DEF ApplyInv, OnceInv

LEMMA InsertKeeps ==
  ASSUME ApplyInv, NEW a \in Actors, Insert(a)
  PROVE  ApplyInv'
<1> DEFINE c == NextConnector(a)
           t == [task[a] EXCEPT !.pc = "resolved", !.todo = @ \ {c}]
<1>1. /\ Typed /\ ActorInv(a) /\ AutomaticInv /\ task[a] \in Task /\ task[a].pc = "examined"
      /\ c \in task[a].todo /\ c \in BgpConnectors /\ dbWriter = a
  BY Working DEF Insert, ActorInv
<1>2. /\ MovesShared(a, t) /\ UNCHANGED <<conf, dbWriter>>
      /\ rules' = IF task[a].verdict = "pending_approval"
                  THEN [rules EXCEPT ![a][c] = "pending_approval"] ELSE rules
  BY DEF Insert
<1>3. /\ t \in Task /\ t.pc = "resolved" /\ t.todo = task[a].todo \ {c}
      /\ t.result = task[a].result
  BY <1>1 DEF Task, Pcs
<1> HIDE DEF t
<1>4. /\ task'[a].pc = "resolved" /\ task'[a].todo = task[a].todo \ {c}
      /\ task'[a].result = task[a].result
  BY <1>1, <1>2, <1>3, TaskMoves
<1>5. ActorInv(a)'
  BY <1>4, AtRest
<1>6. a = Orchestrator =>
        NoAutomaticRule /\ task'[Orchestrator].todo = {} /\ task'[Orchestrator].result = "none"
  BY <1>1, <1>4 DEF AutomaticInv
<1>7. a = Orchestrator => AutomaticInv'
  BY <1>4, <1>6 DEF AutomaticInv
<1>8. \A b \in Actors : b # a => task[b].pc # "examined"
  BY <1>1, HolderOnly
<1>9. dbWriter' \in Actors \cup {"nobody"}
  BY <1>1, <1>2
<1>10. CASE task[a].verdict = "pending_approval"
  <2>1. rules' = [rules EXCEPT ![a][c] = "pending_approval"]
    BY <1>2, <1>10
  <2>2. \A b \in Actors : ~Reserving(b, c)
    BY <1>1, <1>10 DEF ActorInv
  <2>3. "pending_approval" \in RuleStates
    BY DEF RuleStates
  <2>4. a = Orchestrator => \A d \in BgpConnectors : ~Reserving(Orchestrator, d)
    BY <1>6 DEF NoAutomaticRule
  <2> HIDE DEF c
  <2>. QED
    BY <1>1, <1>2, <1>3, <1>5, <1>7, <1>8, <1>9, <2>1, <2>2, <2>3, <2>4, RowMove
<1>11. CASE task[a].verdict # "pending_approval"
  BY <1>2, <1>3, <1>5, <1>7, <1>8, <1>9, <1>11, QuietMove
<1>. QED
  BY <1>10, <1>11

LEMMA QueueKeeps ==
  ASSUME ApplyInv, NEW a \in Actors, Queue(a)
  PROVE  ApplyInv'
<1> DEFINE c == NextConnector(a)
           t == [task[a] EXCEPT !.pc = "delivering"]
<1>1. /\ Typed /\ ActorInv(a) /\ AutomaticInv /\ task[a] \in Task /\ task[a].pc = "examined"
      /\ c \in task[a].todo /\ c \in BgpConnectors /\ dbWriter = a
      /\ \A b \in Actors : ~Reserving(b, c)
  BY Working DEF Queue, ActorInv
<1>2. /\ MovesShared(a, t) /\ UNCHANGED conf /\ dbWriter' = "nobody"
      /\ rules' = [rules EXCEPT ![a][c] = "queued"]
  BY DEF Queue
<1>3. t \in Task /\ t.pc = "delivering" /\ t.todo = task[a].todo
  BY <1>1 DEF Task, Pcs
<1> HIDE DEF t
<1>4. task'[a].pc = "delivering" /\ task'[a].todo = task[a].todo
  BY <1>1, <1>2, <1>3, TaskMoves
<1>5. NextConnector(a)' = c
  BY <1>4 DEF NextConnector
<1>6. /\ rules'[a][c] = "queued"
      /\ \A d \in BgpConnectors : d # c => rules'[a][d] = rules[a][d]
  BY <1>1, <1>2 DEF Typed
<1>7. ActorInv(a)'
  BY <1>1, <1>4, <1>5, <1>6 DEF ActorInv
<1>8. a = Orchestrator => NoAutomaticRule
  BY <1>1 DEF AutomaticInv
<1>9. ASSUME a = Orchestrator
      PROVE  AutomaticInv'
  <2>1. \A d \in BgpConnectors : Reserving(Orchestrator, d)' => d = c
    BY <1>6, <1>8, <1>9 DEF NoAutomaticRule, Reserving
  <2>2. \A x, y \in task[a].todo : x = y
    BY <1>1, <1>9 DEF AutomaticInv
  <2>. QED
    BY <1>4, <1>5, <1>9, <2>1, <2>2 DEF AutomaticInv
<1>10. \A b \in Actors : b # a => task[b].pc # "examined"
  BY <1>1, HolderOnly
<1>11. /\ "queued" \in RuleStates
       /\ a = Orchestrator => \A d \in BgpConnectors : ~Reserving(Orchestrator, d)
  BY <1>8 DEF RuleStates, NoAutomaticRule
<1> HIDE DEF c
<1>. QED
  BY <1>1, <1>2, <1>3, <1>7, <1>9, <1>10, <1>11, RowMove

LEMMA DeliverKeeps ==
  ASSUME ApplyInv, NEW a \in Actors, NEW sent \in BOOLEAN, Deliver(a, sent)
  PROVE  ApplyInv'
<1> DEFINE c == NextConnector(a)
           x == IF sent THEN "advertised" ELSE "none"
           t == [task[a] EXCEPT !.pc = "resolved", !.todo = @ \ {c},
                                !.result = IF sent THEN "sent" ELSE "unsent"]
<1>1. /\ Typed /\ ActorInv(a) /\ AutomaticInv /\ AppliedOnce /\ task[a] \in Task
      /\ task[a].pc = "delivering" /\ c \in task[a].todo /\ c \in BgpConnectors
      /\ dbWriter = "nobody" /\ rules[a][c] = "queued"
  BY Working DEF Deliver, ActorInv
<1>2. /\ MovesShared(a, t) /\ UNCHANGED <<conf, dbWriter>>
      /\ rules' = [rules EXCEPT ![a][c] = x]
  BY DEF Deliver
<1>3. /\ t \in Task /\ t.pc = "resolved" /\ t.todo = task[a].todo \ {c}
      /\ t.result = IF sent THEN "sent" ELSE "unsent"
  BY <1>1 DEF Task, Pcs
<1>4. x \in RuleStates /\ (x # "none" => sent)
  BY DEF RuleStates
<1> HIDE DEF t, x
<1>5. /\ task'[a].pc = "resolved" /\ task'[a].todo = task[a].todo \ {c}
      /\ task'[a].result = IF sent THEN "sent" ELSE "unsent"
  BY <1>1, <1>2, <1>3, TaskMoves
<1>6. ActorInv(a)'
  BY <1>5, AtRest
<1>7. /\ rules'[a][c] = x
      /\ \A d \in BgpConnectors : d # c => rules'[a][d] = rules[a][d]
  BY <1>1, <1>2 DEF Typed
<1>8. a = Orchestrator => /\ task[a].todo \ {c} = {}
                          /\ \A d \in BgpConnectors : Reserving(Orchestrator, d) => d = c
  BY <1>1 DEF AutomaticInv
<1>9. ASSUME a = Orchestrator
      PROVE  AutomaticInv'
  <2>1. ~sent => NoAutomaticRule'
    BY <1>7, <1>8, <1>9 DEF NoAutomaticRule, Reserving, x
  <2>. QED
    BY <1>5, <1>8, <1>9, <2>1 DEF AutomaticInv
<1>10. \A b \in Actors : b # a => task[b].pc # "examined" /\ ~Reserving(b, c)
  <2>1. \A b \in Actors : task[b].pc # "examined"
    BY <1>1, Working, ActorsApart DEF ActorInv
  <2>2. Reserving(a, c)
    BY <1>1 DEF Reserving
  <2>. QED
    BY <1>1, <2>1, <2>2 DEF AppliedOnce
<1>11. dbWriter' \in Actors \cup {"nobody"}
  BY <1>1, <1>2
<1> HIDE DEF c
<1>. QED
  BY <1>1, <1>2, <1>3, <1>4, <1>6, <1>8, <1>9, <1>10, <1>11, RowMove

-----------------------------------------------------------------------------
(* What happens beside the tasks                                           *)

LEMMA BesideKeeps ==
  ASSUME ApplyInv, NEW shown, task' = task \/ task' = Outdated(task, shown),
         conf' \in Settings, UNCHANGED dbWriter,
         rules' \in [Actors -> [BgpConnectors -> RuleStates]],
         \A b \in Actors, c \in BgpConnectors :
           \/ rules'[b][c] = rules[b][c]
           \/ rules'[b][c] = "none" /\ rules[b][c] # "queued"
  PROVE  ApplyInv'
<1>1. task' \in [Actors -> Task] /\ \A b \in Actors : Same(b)
  BY Outdating DEF ApplyInv, Typed, Same
<1>2. Typed'
  BY <1>1 DEF ApplyInv, Typed
<1>3. ASSUME NEW b \in Actors
      PROVE  ActorInv(b)'
  <2>1. /\ NextConnector(b)' = NextConnector(b)
        /\ task[b].pc \in {"examined", "delivering"} => NextConnector(b) \in BgpConnectors
    BY <1>1, Working DEF NextConnector, Same
  <2>2. ActorInv(b)
    BY Working
  <2>. QED
    BY <1>1, <2>1, <2>2 DEF ActorInv, Same, Reserving
<1>4. AutomaticInv'
  <2>1. NextConnector(Orchestrator)' = NextConnector(Orchestrator)
    BY <1>1, ActorsApart DEF NextConnector, Same
  <2>2. NoAutomaticRule => NoAutomaticRule'
    BY ActorsApart DEF NoAutomaticRule, Reserving
  <2>3. \A c \in BgpConnectors : Reserving(Orchestrator, c)' => Reserving(Orchestrator, c)
    BY ActorsApart DEF Reserving
  <2>. QED
    BY <1>1, <2>1, <2>2, <2>3, ActorsApart DEF ApplyInv, OnceInv, AutomaticInv, Same
<1>5. AppliedOnce'
  BY OnceKeeps DEF ApplyInv, OnceInv
<1>. QED
  BY <1>2, <1>3, <1>4, <1>5 DEF ApplyInv, OnceInv

LEMMA EndRuleKeeps ==
  ASSUME ApplyInv, NEW a \in Actors, NEW c \in BgpConnectors, EndRule(a, c)
  PROVE  ApplyInv'
<1>1. /\ rules \in [Actors -> [BgpConnectors -> RuleStates]] /\ conf \in Settings
      /\ "none" \in RuleStates
  BY DEF ApplyInv, Typed, RuleStates
<1>2. /\ rules[a][c] # "queued" /\ rules' = [rules EXCEPT ![a][c] = "none"]
      /\ task' = Outdated(task, Operators) /\ UNCHANGED <<conf, dbWriter>>
  BY DEF EndRule
<1>3. /\ rules' \in [Actors -> [BgpConnectors -> RuleStates]]
      /\ \A b \in Actors, d \in BgpConnectors :
           \/ rules'[b][d] = rules[b][d]
           \/ rules'[b][d] = "none" /\ rules[b][d] # "queued"
  BY <1>1, <1>2
<1>. QED
  BY <1>1, <1>2, <1>3, BesideKeeps

LEMMA EditedIsSettings ==
  ASSUME conf \in Settings
  PROVE  Edited \subseteq Settings
<1>1. \A c \in BgpConnectors, m \in ConnectorModes : [conf EXCEPT !.mode[c] = m] \in Settings
  BY DEF Settings
<1>2. \A z \in SUBSET BgpConnectors :
        [conf EXCEPT !.zone = z, !.authorized = (z # {} \/ @)] \in Settings
  BY DEF Settings
<1>3. \A p \in SUBSET BgpConnectors : [conf EXCEPT !.preferred = p] \in Settings
  BY DEF Settings
<1>4. /\ [conf EXCEPT !.zone = {}, !.authorized = ~@] \in Settings
      /\ [conf EXCEPT !.protected = ~@] \in Settings
      /\ [conf EXCEPT !.listed = ~@] \in Settings
      /\ [conf EXCEPT !.profileAuto = ~@] \in Settings
      /\ [conf EXCEPT !.profileOn = ~@] \in Settings
  BY DEF Settings
<1>5. \A v \in {"automatic", "manual_approval", "disabled"} :
        [conf EXCEPT !.vector = v] \in Settings
  BY DEF Settings
<1>6. {{}} \cup {{c} : c \in BgpConnectors} \subseteq SUBSET BgpConnectors
  OBVIOUS
<1>. DEFINE Modes == {[conf EXCEPT !.mode[c] = m] : c \in BgpConnectors, m \in ConnectorModes}
            Zones == {[conf EXCEPT !.zone = z, !.authorized = (z # {} \/ @)] :
                        z \in {{}} \cup {{c} : c \in BgpConnectors}}
            Preferences == {[conf EXCEPT !.preferred = p] : p \in SUBSET BgpConnectors}
            Flags == {[conf EXCEPT !.zone = {}, !.authorized = ~@],
                      [conf EXCEPT !.protected = ~@], [conf EXCEPT !.listed = ~@],
                      [conf EXCEPT !.profileAuto = ~@], [conf EXCEPT !.profileOn = ~@]}
            Vectors == {[conf EXCEPT !.vector = v] :
                          v \in {"automatic", "manual_approval", "disabled"}}
<1>7. Edited = Modes \cup Zones \cup Preferences \cup Flags \cup Vectors
  BY DEF Edited
<1>8. Modes \subseteq Settings
  BY <1>1
<1>9. Zones \subseteq Settings
  <2>1. ASSUME NEW z \in {{}} \cup {{c} : c \in BgpConnectors}
        PROVE  [conf EXCEPT !.zone = z, !.authorized = (z # {} \/ @)] \in Settings
    <3>1. z \in SUBSET BgpConnectors
      BY <1>6
    <3>. QED
      BY <1>2, <3>1
  <2>. QED
    BY <2>1
<1>10. Preferences \subseteq Settings
  BY <1>3
<1>11. Flags \subseteq Settings
  BY <1>4
<1>12. Vectors \subseteq Settings
  BY <1>5
<1>. HIDE DEF Modes, Zones, Preferences, Flags, Vectors
<1>. QED
  BY <1>7, <1>8, <1>9, <1>10, <1>11, <1>12

LEMMA BesideSteps ==
  ASSUME ApplyInv,
         EditSettings \/ AnnounceByHand \/ (\E c \in BgpConnectors : CheckByHand(c))
           \/ UNCHANGED mitigationVars
  PROVE  ApplyInv'
<1>1. conf \in Settings /\ rules \in [Actors -> [BgpConnectors -> RuleStates]]
  BY DEF ApplyInv, Typed
<1>2. CASE EditSettings
  <2>1. conf' \in Settings
    BY <1>1, <1>2, EditedIsSettings DEF EditSettings
  <2>. QED
    BY <1>1, <1>2, <2>1, BesideKeeps DEF EditSettings
<1>3. CASE AnnounceByHand
  BY <1>1, <1>3, BesideKeeps DEF AnnounceByHand
<1>4. CASE \E c \in BgpConnectors : CheckByHand(c)
  BY <1>1, <1>4, BesideKeeps DEF CheckByHand
<1>5. CASE UNCHANGED mitigationVars
  BY <1>1, <1>5, BesideKeeps DEF mitigationVars
<1>. QED
  BY <1>2, <1>3, <1>4, <1>5

LEMMA ApplyNext ==
  ASSUME ApplyInv, [MitigationNext]_mitigationVars
  PROVE  ApplyInv'
<1>1. ASSUME NEW a \in Actors, ApplyStep(a)
      PROVE  ApplyInv'
  BY <1>1, ExamineKeeps, RefuseKeeps, InsertKeeps, QueueKeeps, FinishKeeps, DeliverKeeps
  DEF ApplyStep
<1>. QED
  BY <1>1, ShowKeeps, SubmitKeeps, WorkerKeeps, EndRuleKeeps, BesideSteps DEF MitigationNext

LEMMA ApplyInit ==
  ASSUME MitigationInit, BgpConnectors # {}
  PROVE  ApplyInv
<1>1. Min(BgpConnectors) \in BgpConnectors
  BY MitigationAssumption, LeastIsMember
<1>2. Typed
  <2>1. conf \in Settings
    <3>1. {Min(BgpConnectors)} \in SUBSET BgpConnectors
      BY <1>1
    <3>2. [c \in BgpConnectors |-> "automatic"] \in [BgpConnectors -> ConnectorModes]
      BY DEF ConnectorModes
    <3>3. PICK listed \in BOOLEAN :
            conf = [mode |-> [c \in BgpConnectors |-> "automatic"], zone |-> {},
                    preferred |-> {Min(BgpConnectors)}, authorized |-> TRUE,
                    protected |-> TRUE, listed |-> listed, vector |-> "automatic",
                    profileAuto |-> TRUE, profileOn |-> TRUE]
      BY DEF MitigationInit
    <3>. DEFINE modes == [c \in BgpConnectors |-> "automatic"]
                first == {Min(BgpConnectors)}
    <3>4. modes \in [BgpConnectors -> ConnectorModes] /\ first \in SUBSET BgpConnectors
      BY <3>1, <3>2
    <3>5. conf = [mode |-> modes, zone |-> {}, preferred |-> first, authorized |-> TRUE,
                  protected |-> TRUE, listed |-> listed, vector |-> "automatic",
                  profileAuto |-> TRUE, profileOn |-> TRUE]
      BY <3>3
    <3>. HIDE DEF modes, first
    <3>. QED
      BY <3>4, <3>5 DEF Settings
  <2>2. rules \in [Actors -> [BgpConnectors -> RuleStates]]
    BY DEF MitigationInit, RuleStates
  <2>. QED
    BY <2>1, <2>2, NoTaskTyped DEF MitigationInit, Typed
<1>3. /\ \A a \in Actors : task[a] = NoTask
      /\ \A a \in Actors, c \in BgpConnectors : ~Reserving(a, c)
  BY DEF MitigationInit, Reserving
<1>4. \A a \in Actors : ActorInv(a)
  BY <1>3 DEF ActorInv, NoTask
<1>5. AutomaticInv
  BY <1>3, ActorsApart DEF AutomaticInv, NoAutomaticRule, NoTask
<1>6. AppliedOnce
  BY <1>3, ActorsApart DEF AppliedOnce
<1>. QED
  BY <1>2, <1>4, <1>5, <1>6 DEF ApplyInv, OnceInv

-----------------------------------------------------------------------------
(* A candidate has at most one row per connector, and the automatic rule   *)
(* at most one in all: apply_mitigation_candidate looks for an equivalent  *)
(* rule and inserts its own under one writer lock, and the automatic       *)
(* worker resolves its connector again only when nothing of it is left.    *)
THEOREM AppliedOnceAlways ==
  ASSUME BgpConnectors # {}
  PROVE  MitigationSpec => []AppliedOnce
<1>1. MitigationInit => ApplyInv
  BY ApplyInit
<1>2. ApplyInv => AppliedOnce
  BY DEF ApplyInv, OnceInv
<1>. QED
  BY <1>1, <1>2, ApplyNext, PTL DEF MitigationSpec

-----------------------------------------------------------------------------
(* What is sent, and how many rules a connector carries.                   *)

\* an automatic rule or a request under way
UnderWay == {"generated", "accepted", "queued", "resolved", "examined", "delivering"}
InHand(a) == task[a].pc \in UnderWay

Granted(a) ==
    task[a].pc = "examined" /\ task[a].verdict \in {"pending_approval", "queued"}

Defensible ==
    /\ HasScope /\ ~NeverAnnounce
    /\ ~(conf.listed /\ DnsSingleFlow)
    /\ Outbound /\ ~conf.authorized =>
         ~candidate.profileStrict /\ (candidate.strict => conf.listed)

\* a row that is granted is defensible and has room, until it is inserted
GrantInv(a) ==
    /\ InHand(a) => ~NeverAnnounce
    /\ Granted(a) => Defensible /\ handRules[NextConnector(a)] < MaxRules

\* one announcement by hand, made once it has been validated
HandInv ==
    /\ handRules \in [BgpConnectors -> {0, 1}]
    /\ byHand \in [pc : {"idle", "validated", "announced"},
                   on : BgpConnectors \cup {NoConnector}, late : BOOLEAN]
    /\ \A c \in BgpConnectors :
         handRules[c] = 1 => byHand.pc = "announced" /\ byHand.on = c

\* a row of the candidate beside too many others was there before the last of them
Crowded(c) == Equivalent(c) /\ handRules[c] >= MaxRules

SentInv ==
    /\ \A a \in Actors : GrantInv(a)
    /\ HandInv
    /\ \A c \in BgpConnectors : Crowded(c) => byHand.on = c /\ byHand.late

LEMMA CountOfRules ==
  ASSUME AppliedOnce, NEW c \in BgpConnectors
  PROVE  /\ Equivalent(c) => Cardinality({a \in Actors : Reserving(a, c)}) = 1
         /\ ~Equivalent(c) => Cardinality({a \in Actors : Reserving(a, c)}) = 0
<1>. DEFINE holders == {a \in Actors : Reserving(a, c)}
<1>1. ASSUME Equivalent(c)
      PROVE  Cardinality(holders) = 1
  <2>1. PICK a \in Actors : Reserving(a, c)
    BY <1>1 DEF Equivalent
  <2>2. holders = {a}
    BY <2>1 DEF AppliedOnce
  <2>. QED
    BY <2>2, FS_Singleton
<1>2. ASSUME ~Equivalent(c)
      PROVE  Cardinality(holders) = 0
  <2>1. holders = {}
    BY <1>2 DEF Equivalent
  <2>. QED
    BY <2>1, FS_EmptySet
<1>. QED
  BY <1>1, <1>2

LEMMA Turned ==
  ASSUME Typed, NEW a \in Actors, NEW t, MovesTo(a, t) \/ MovesShared(a, t)
  PROVE  /\ task'[a] = t
         /\ \A b \in Actors : b # a =>
              /\ Same(b)
              /\ b = Orchestrator => task'[b] = task[b]
              /\ b \in Operators =>
                   \/ task'[b].current = FALSE
                   \/ MovesTo(a, t) /\ task'[b] = task[b]
<1>. DEFINE tasks == [task EXCEPT ![a] = t]
<1>1. tasks[a] = t /\ DOMAIN tasks = Actors /\ \A b \in Actors : b # a => tasks[b] = task[b]
  BY DEF Typed
<1>. HIDE DEF tasks
<1>2. CASE MovesTo(a, t)
  BY <1>1, <1>2 DEF MovesTo, Same, tasks
<1>3. CASE MovesShared(a, t)
  <2>1. task' = Outdated(tasks, Operators \ {a})
    BY <1>3 DEF MovesShared, tasks
  <2>2. ASSUME NEW b \in Actors
        PROVE  /\ b \notin Operators \ {a} => task'[b] = tasks[b]
               /\ b \in Operators \ {a} => task'[b] = [tasks[b] EXCEPT !.current = FALSE]
    BY <2>1 DEF Outdated
  <2>3. ASSUME NEW b \in Actors, b # a
        PROVE  /\ Same(b)
               /\ b = Orchestrator => task'[b] = task[b]
               /\ b \in Operators => task'[b].current = FALSE
    <3>1. task[b] \in Task /\ tasks[b] = task[b]
      BY <1>1, <2>3 DEF Typed
    <3>2. CASE b \in Operators
      <4>1. task'[b] = [task[b] EXCEPT !.current = FALSE]
        BY <2>2, <2>3, <3>1, <3>2
      <4>. QED
        BY <3>1, <3>2, <4>1, ActorsApart DEF Same, Task
    <3>3. CASE b \notin Operators
      BY <2>2, <3>1, <3>3 DEF Same
    <3>. QED
      BY <3>2, <3>3
  <2>. QED
    BY <1>1, <2>2, <2>3, ActorsApart
<1>. QED
  BY <1>2, <1>3

\* a's turn; the settings and the rows by hand stay
LEMMA TurnSends ==
  ASSUME ApplyInv, SentInv, NEW a \in Actors, NEW t, MovesTo(a, t) \/ MovesShared(a, t),
         UNCHANGED <<candidate, conf, handRules, byHand>>,
         t.pc # "examined" \/ GrantInv(a)',
         t.pc \in UnderWay => InHand(a) \/ ~NeverAnnounce,
         \A b \in Actors, c \in BgpConnectors :
           rules'[b][c] # "none" => \/ rules[b][c] # "none"
                                    \/ Granted(a) /\ c = NextConnector(a)
  PROVE  SentInv'
<1>1. task'[a] = t /\ \A b \in Actors : b # a => Same(b)
  BY Turned DEF ApplyInv
<1>2. ASSUME NEW b \in Actors
      PROVE  GrantInv(b)'
  <2>1. NeverAnnounce' <=> NeverAnnounce
    BY DEF NeverAnnounce
  <2>2. CASE b = a
    BY <1>1, <2>1, <2>2 DEF GrantInv, InHand, Granted, SentInv
  <2>3. CASE b # a
    <3>1. NextConnector(b)' = NextConnector(b) /\ Same(b) /\ GrantInv(b)
      BY <1>1, <2>3 DEF NextConnector, Same, SentInv
    <3>2. Defensible' <=> Defensible
      BY DEF Defensible, HasScope, NeverAnnounce, DnsSingleFlow, Outbound
    <3>. QED
      BY <2>1, <3>1, <3>2 DEF GrantInv, InHand, Granted, Same
  <2>. QED
    BY <2>2, <2>3
<1>3. HandInv'
  BY DEF SentInv, HandInv
<1>4. ASSUME NEW c \in BgpConnectors, Crowded(c)'
      PROVE  byHand'.on = c /\ byHand'.late
  <2>1. handRules[c] >= MaxRules /\ handRules[c] \in {0, 1} /\ MaxRules \in Nat
    BY <1>4, MitigationAssumption DEF Crowded, SentInv, HandInv
  <2>2. ~(Granted(a) /\ c = NextConnector(a))
    BY <2>1 DEF SentInv, GrantInv
  <2>3. Crowded(c)
    BY <1>4, <2>1, <2>2 DEF Crowded, Equivalent, Reserving
  <2>. QED
    BY <2>3 DEF SentInv
<1>. QED
  BY <1>2, <1>3, <1>4 DEF SentInv

\* a turn that writes no row
LEMMA QuietSends ==
  ASSUME ApplyInv, SentInv, NEW a \in Actors, NEW t, MovesTo(a, t) \/ MovesShared(a, t),
         UNCHANGED <<candidate, conf, rules, handRules, byHand>>, t.pc # "examined",
         t.pc \in UnderWay => InHand(a) \/ ~NeverAnnounce
  PROVE  SentInv'
BY TurnSends

LEMMA OverPc ==
  ASSUME NEW a, NEW pc
  PROVE  Over(a, pc).pc = pc
BY DEF Over, NoTask

LEMMA RequestSends ==
  ASSUME ApplyInv, SentInv, NEW a \in Operators,
         \/ \E choice \in BgpConnectors \cup {NoConnector},
               mode \in {"manual_approval", "announce_now"} : ShowPage(a, choice, mode)
         \/ SubmitApply(a)
  PROVE  SentInv'
<1>1. a \in Actors
  BY ActorsApart
<1>2. ASSUME NEW choice, NEW mode, ShowPage(a, choice, mode)
      PROVE  SentInv'
  <2>. DEFINE t == [NoTask EXCEPT !.pc = "shown", !.choice = choice, !.mode = mode,
                                  !.current = Offered(choice, mode)]
  <2>1. t.pc = "shown"
    BY DEF NoTask
  <2>2. MovesTo(a, t) /\ UNCHANGED <<candidate, conf, rules, handRules, byHand>>
    BY <1>2 DEF ShowPage
  <2>. HIDE DEF t
  <2>. QED
    BY <1>1, <2>1, <2>2, QuietSends DEF UnderWay
<1>3. CASE SubmitApply(a)
  <2>. DEFINE found == Resolved(task[a].choice, NoConnector)
              t == [Begun(task[a], found) EXCEPT !.choice = NoConnector]
  <2>1. /\ MovesTo(a, Over(a, "answered")) \/ (MovesTo(a, t) /\ ~NeverAnnounce)
        /\ UNCHANGED <<candidate, conf, rules, handRules, byHand>>
    BY <1>3 DEF SubmitApply
  <2>2. Over(a, "answered").pc = "answered"
    BY OverPc
  <2>3. t.pc = "resolved"
    <3>1. Begun(task[a], found) \in Task /\ Begun(task[a], found).pc = "resolved"
      BY <1>1, ResolvedServes, BegunTyped DEF ApplyInv, Typed
    <3>. QED
      BY <3>1 DEF Task
  <2>. HIDE DEF t, found
  <2>. QED
    BY <1>1, <2>1, <2>2, <2>3, QuietSends DEF UnderWay
<1>. QED
  BY <1>2, <1>3

LEMMA WorkerSends ==
  ASSUME ApplyInv, SentInv,
         \/ \E c \in BgpConnectors : Generate(c)
         \/ Accept \/ Reserve \/ Block \/ ApplyStored \/ CloseExecution
  PROVE  SentInv'
<1>. DEFINE o == task[Orchestrator]
<1>0. Orchestrator \in Actors /\ o \in Task /\ Typed
  BY ActorsApart DEF ApplyInv, Typed
<1>1. ASSUME NEW c \in BgpConnectors, Generate(c)
      PROVE  SentInv'
  <2>. DEFINE t == [NoTask EXCEPT !.pc = "generated", !.mode = "automatic",
                                  !.stored = c, !.current = TRUE]
  <2>1. MovesTo(Orchestrator, t) /\ UNCHANGED <<candidate, conf, rules, handRules, byHand>>
    BY <1>1 DEF Generate
  <2>2. t.pc = "generated"
    BY DEF NoTask
  <2>3. ~NeverAnnounce
    BY <1>1 DEF Generate, Eligible, CandidateMode
  <2>. HIDE DEF t
  <2>. QED
    BY <1>0, <2>1, <2>2, <2>3, QuietSends
<1>2. CASE Accept
  <2>. DEFINE t == [o EXCEPT !.pc = "accepted"]
  <2>1. /\ MovesTo(Orchestrator, t) /\ UNCHANGED <<candidate, conf, rules, handRules, byHand>>
        /\ InHand(Orchestrator) /\ t.pc = "accepted"
    BY <1>0, <1>2 DEF Accept, InHand, Task, UnderWay
  <2>. HIDE DEF t
  <2>. QED
    BY <1>0, <2>1, QuietSends
<1>3. CASE Reserve
  <2>. DEFINE t == [o EXCEPT !.pc = "queued"]
  <2>1. /\ MovesShared(Orchestrator, t) /\ UNCHANGED <<candidate, conf, rules, handRules, byHand>>
        /\ InHand(Orchestrator) /\ t.pc = "queued"
    BY <1>0, <1>3 DEF Reserve, InHand, Task, UnderWay
  <2>. HIDE DEF t
  <2>. QED
    BY <1>0, <2>1, QuietSends
<1>4. CASE Block
  <2>1. /\ MovesTo(Orchestrator, NoTask) /\ NoTask.pc = "idle"
        /\ UNCHANGED <<candidate, conf, rules, handRules, byHand>>
    BY <1>4 DEF Block, NoTask
  <2>. QED
    BY <1>0, <2>1, QuietSends DEF UnderWay
<1>5. CASE ApplyStored
  <2>. DEFINE found == Resolved(NoConnector, o.stored)
              t == [Begun(o, found) EXCEPT !.tries = @ + 1]
  <2>1. /\ UNCHANGED <<candidate, conf, rules, handRules, byHand>> /\ InHand(Orchestrator)
        /\ \/ \E pc \in {"active", "failed"} : MovesShared(Orchestrator, Over(Orchestrator, pc))
           \/ MovesTo(Orchestrator, t)
    BY <1>5 DEF ApplyStored, InHand, UnderWay
  <2>2. Begun(o, found) \in Task /\ Begun(o, found).pc = "resolved"
    BY <1>0, ResolvedServes, BegunTyped
  <2>3. t.pc = "resolved"
    BY <2>2 DEF Task
  <2>. HIDE DEF t, found
  <2>4. ASSUME NEW pc \in {"active", "failed"}, MovesShared(Orchestrator, Over(Orchestrator, pc))
        PROVE  SentInv'
    BY <1>0, <2>1, <2>4, OverPc, QuietSends
  <2>. QED
    BY <1>0, <2>1, <2>3, <2>4, QuietSends
<1>6. CASE CloseExecution
  BY <1>0, <1>6, OverPc, QuietSends DEF CloseExecution, UnderWay
<1>. QED
  BY <1>1, <1>2, <1>3, <1>4, <1>5, <1>6

-----------------------------------------------------------------------------
(* Rows granted under the lock                                             *)

LEMMA ValidRuleHasRoom ==
  ASSUME Typed, AppliedOnce, HandInv, NEW c \in BgpConnectors, NEW mode, NEW on,
         ValidRule(c, mode, on), ~Equivalent(c)
  PROVE  handRules[c] < MaxRules
<1>1. handRules[c] \in Nat /\ MaxRules \in Nat
  BY MitigationAssumption DEF HandInv
<1>2. Cardinality({b \in Actors : Reserving(b, c)}) = 0
  BY CountOfRules
<1>3. Cardinality({b \in Actors : Reserving(b, c)}) + handRules[c] < MaxRules
  BY DEF ValidRule, HasRoom, RulesOn
<1>. QED
  BY <1>1, <1>2, <1>3

LEMMA VerdictIsDefensible ==
  ASSUME NEW a, NEW c, ~NeverAnnounce, Verdict(a, c) \in {"pending_approval", "queued"}
  PROVE  /\ Defensible /\ ~Equivalent(c)
         /\ ValidRule(c, task[a].seen[c], task[a].seenProfile)
<1>. DEFINE decision == Decision(IF a = Orchestrator THEN "automatic" ELSE "manual_approval")
<1>1. /\ ~Equivalent(c) /\ decision # "deny"
      /\ ValidRule(c, task[a].seen[c], task[a].seenProfile)
  BY DEF Verdict
<1>2. HasScope /\ (candidate.profileStrict /\ Outbound => conf.authorized)
  BY <1>1 DEF ValidRule
<1>3. /\ ~(conf.listed /\ DnsSingleFlow)
      /\ conf.listed \/ ~(candidate.strict /\ Outbound /\ ~conf.authorized)
  BY <1>1 DEF Decision, Denied
<1>. QED
  BY <1>1, <1>2, <1>3 DEF Defensible

LEMMA ExamineSends ==
  ASSUME ApplyInv, SentInv, NEW a \in Actors, Examine(a)
  PROVE  SentInv'
<1>. DEFINE c == NextConnector(a)
            v == Verdict(a, c)
            t == [task[a] EXCEPT !.pc = "examined", !.seen[c] = "off", !.verdict = v]
<1>1. /\ Typed /\ AppliedOnce /\ task[a] \in Task /\ task[a].pc = "resolved"
      /\ c \in BgpConnectors /\ InHand(a) /\ ~NeverAnnounce
  BY Working DEF Examine, InHand, SentInv, GrantInv, UnderWay
<1>2. /\ MovesTo(a, t)
      /\ UNCHANGED <<candidate, conf, rules, handRules, byHand>>
  BY DEF Examine
<1>3. t.pc = "examined" /\ t.todo = task[a].todo /\ t.verdict = v
  BY <1>1 DEF Task
<1>4. v \in {"pending_approval", "queued"} => Defensible /\ handRules[c] < MaxRules
  BY <1>1, VerdictIsDefensible, ValidRuleHasRoom DEF SentInv
<1>. HIDE DEF t, v, c
<1>5. task'[a] = t
  BY <1>1, <1>2, Turned
<1>6. NextConnector(a)' = c
  BY <1>3, <1>5 DEF NextConnector, c
<1>7. Defensible' <=> Defensible
  BY <1>2 DEF Defensible, HasScope, NeverAnnounce, DnsSingleFlow, Outbound
<1>8. ~NeverAnnounce'
  BY <1>1, <1>2 DEF NeverAnnounce
<1>9. GrantInv(a)'
  BY <1>2, <1>3, <1>4, <1>5, <1>6, <1>7, <1>8 DEF GrantInv, Granted
<1>. QED
  BY <1>1, <1>2, <1>9, TurnSends

LEMMA RefuseSends ==
  ASSUME ApplyInv, SentInv, NEW a \in Actors, Refuse(a)
  PROVE  SentInv'
<1>1. PICK pc \in {"answered", "active", "failed"} : MovesShared(a, Over(a, pc))
  BY DEF Refuse
<1>2. UNCHANGED <<candidate, conf, rules, handRules, byHand>>
  BY DEF Refuse
<1>. QED
  BY <1>1, <1>2, OverPc, QuietSends DEF UnderWay

LEMMA FinishSends ==
  ASSUME ApplyInv, SentInv, NEW a \in Actors, Finish(a)
  PROVE  SentInv'
<1>. DEFINE again == [task[a] EXCEPT !.pc = "queued", !.result = "none"]
<1>1. /\ task[a] \in Task /\ InHand(a)
      /\ UNCHANGED <<candidate, conf, rules, handRules, byHand>>
  BY Working DEF Finish, InHand, UnderWay
<1>2. \/ \E pc \in {"answered", "active", "failed"} : MovesShared(a, Over(a, pc))
      \/ MovesShared(a, again)
  BY DEF Finish
<1>3. again.pc = "queued"
  BY <1>1 DEF Task
<1>. HIDE DEF again
<1>4. ASSUME NEW pc \in {"answered", "active", "failed"}, MovesShared(a, Over(a, pc))
      PROVE  SentInv'
  BY <1>1, <1>4, OverPc, QuietSends
<1>. QED
  BY <1>1, <1>2, <1>3, <1>4, QuietSends

LEMMA RowSends ==
  ASSUME ApplyInv, SentInv, NEW a \in Actors,
         Insert(a) \/ Queue(a) \/ \E sent \in BOOLEAN : Deliver(a, sent)
  PROVE  SentInv'
<1>. DEFINE c == NextConnector(a)
<1>1. /\ Typed /\ ActorInv(a) /\ task[a] \in Task /\ c \in BgpConnectors /\ InHand(a)
      /\ rules \in [Actors -> [BgpConnectors -> RuleStates]]
      /\ UNCHANGED <<candidate, conf, handRules, byHand>>
  BY Working DEF Insert, Queue, Deliver, InHand, Typed, UnderWay
<1>2. CASE Insert(a)
  <2>. DEFINE t == [task[a] EXCEPT !.pc = "resolved", !.todo = @ \ {c}]
  <2>1. MovesShared(a, t) /\ t.pc = "resolved"
    BY <1>1, <1>2 DEF Insert, Task
  <2>2. \A b \in Actors, d \in BgpConnectors :
          rules'[b][d] # "none" => \/ rules[b][d] # "none"
                                   \/ Granted(a) /\ d = NextConnector(a)
    BY <1>1, <1>2 DEF Insert, Granted
  <2>. HIDE DEF t
  <2>. QED
    BY <1>1, <2>1, <2>2, TurnSends
<1>3. CASE Queue(a)
  <2>. DEFINE t == [task[a] EXCEPT !.pc = "delivering"]
  <2>1. MovesShared(a, t) /\ t.pc = "delivering"
    BY <1>1, <1>3 DEF Queue, Task
  <2>2. \A b \in Actors, d \in BgpConnectors :
          rules'[b][d] # "none" => \/ rules[b][d] # "none"
                                   \/ Granted(a) /\ d = NextConnector(a)
    BY <1>1, <1>3 DEF Queue, Granted
  <2>. HIDE DEF t
  <2>. QED
    BY <1>1, <2>1, <2>2, TurnSends
<1>4. ASSUME NEW sent \in BOOLEAN, Deliver(a, sent)
      PROVE  SentInv'
  <2>. DEFINE t == [task[a] EXCEPT !.pc = "resolved", !.todo = @ \ {c},
                                   !.result = IF sent THEN "sent" ELSE "unsent"]
  <2>1. MovesShared(a, t) /\ t.pc = "resolved"
    BY <1>1, <1>4 DEF Deliver, Task
  <2>2. rules[a][c] = "queued"
    BY <1>1, <1>4 DEF Deliver, ActorInv
  <2>3. \A b \in Actors, d \in BgpConnectors : rules'[b][d] # "none" => rules[b][d] # "none"
    BY <1>1, <1>4, <2>2 DEF Deliver
  <2>. HIDE DEF t
  <2>. QED
    BY <1>1, <2>1, <2>3, TurnSends
<1>. QED
  BY <1>2, <1>3, <1>4

-----------------------------------------------------------------------------
(* Beside the tasks                                                        *)

LEMMA NobodyExamines ==
  ASSUME ApplyInv, dbWriter = "nobody"
  PROVE  \A a \in Actors : task[a].pc # "examined"
BY Working, ActorsApart DEF ActorInv

\* the tasks stay, the rules by hand and the rows leave nothing crowded anew
LEMMA BesideSends ==
  ASSUME ApplyInv, SentInv, NEW shown, task' = task \/ task' = Outdated(task, shown),
         UNCHANGED candidate, HandInv',
         \/ \A a \in Actors : task[a].pc # "examined"
         \/ UNCHANGED <<conf, handRules>>,
         \A c \in BgpConnectors : Crowded(c)' => byHand'.on = c /\ byHand'.late
  PROVE  SentInv'
<1>1. \A a \in Actors : Same(a)
  BY Outdating DEF ApplyInv, Typed, Same
<1>2. ASSUME NEW a \in Actors
      PROVE  GrantInv(a)'
  <2>1. /\ NeverAnnounce' <=> NeverAnnounce
        /\ InHand(a)' <=> InHand(a)
        /\ Granted(a)' <=> Granted(a)
        /\ NextConnector(a)' = NextConnector(a)
    BY <1>1 DEF NeverAnnounce, InHand, Granted, NextConnector, Same
  <2>2. GrantInv(a)
    BY DEF SentInv
  <2>3. CASE \A b \in Actors : task[b].pc # "examined"
    BY <2>1, <2>2, <2>3 DEF GrantInv, Granted
  <2>4. CASE UNCHANGED <<conf, handRules>>
    <3>1. Defensible' <=> Defensible
      BY <2>4 DEF Defensible, HasScope, NeverAnnounce, DnsSingleFlow, Outbound
    <3>. QED
      BY <2>1, <2>2, <2>4, <3>1 DEF GrantInv
  <2>. QED
    BY <2>3, <2>4
<1>. QED
  BY <1>2 DEF SentInv

LEMMA EditSends ==
  ASSUME ApplyInv, SentInv, EditSettings
  PROVE  SentInv'
<1>1. \A a \in Actors : task[a].pc # "examined"
  BY NobodyExamines DEF EditSettings
<1>2. /\ task' = Outdated(task, Actors)
      /\ UNCHANGED <<candidate, rules, handRules, byHand>>
  BY DEF EditSettings
<1>3. HandInv' /\ \A c \in BgpConnectors : Crowded(c)' => byHand'.on = c /\ byHand'.late
  BY <1>2 DEF SentInv, HandInv, Crowded, Equivalent, Reserving
<1>. QED
  BY <1>1, <1>2, <1>3, BesideSends

LEMMA EndSends ==
  ASSUME ApplyInv, SentInv, NEW a \in Actors, NEW c \in BgpConnectors, EndRule(a, c)
  PROVE  SentInv'
<1>1. /\ task' = Outdated(task, Operators) /\ rules' = [rules EXCEPT ![a][c] = "none"]
      /\ UNCHANGED <<candidate, conf, handRules, byHand>>
  BY DEF EndRule
<1>2. rules \in [Actors -> [BgpConnectors -> RuleStates]]
  BY DEF ApplyInv, Typed
<1>3. \A b \in Actors, d \in BgpConnectors : rules'[b][d] # "none" => rules[b][d] # "none"
  BY <1>1, <1>2
<1>4. HandInv' /\ \A d \in BgpConnectors : Crowded(d)' => Crowded(d)
  BY <1>1, <1>3 DEF SentInv, HandInv, Crowded, Equivalent, Reserving
<1>5. \A d \in BgpConnectors : Crowded(d)' => byHand'.on = d /\ byHand'.late
  BY <1>1, <1>4 DEF SentInv
<1>. QED
  BY <1>1, <1>4, <1>5, BesideSends

LEMMA CheckSends ==
  ASSUME ApplyInv, SentInv, NEW c \in BgpConnectors, CheckByHand(c)
  PROVE  SentInv'
<1>1. /\ byHand.pc = "idle" /\ byHand' = [byHand EXCEPT !.pc = "validated", !.on = c]
      /\ UNCHANGED <<candidate, conf, rules, handRules, task>>
  BY DEF CheckByHand
<1>2. \A d \in BgpConnectors : handRules[d] = 0
  BY <1>1 DEF SentInv, HandInv
<1>3. HandInv'
  BY <1>1, <1>2 DEF SentInv, HandInv
<1>4. \A d \in BgpConnectors : ~Crowded(d)'
  BY <1>1, <1>2, MitigationAssumption DEF Crowded
<1>. QED
  BY <1>1, <1>3, <1>4, BesideSends

\* announced in spite of a row that came since the validation: late
LEMMA AnnounceSends ==
  ASSUME ApplyInv, SentInv, AnnounceByHand
  PROVE  SentInv'
<1>. DEFINE on == byHand.on
<1>1. /\ byHand.pc = "validated" /\ task' = Outdated(task, Operators)
      /\ handRules' = [handRules EXCEPT ![on] = @ + 1]
      /\ byHand' = [byHand EXCEPT !.pc = "announced", !.late = ~HasRoom(on)]
      /\ UNCHANGED <<candidate, conf, rules>>
      /\ \A a \in Actors : task[a].pc # "examined"
  BY NobodyExamines DEF AnnounceByHand
<1>2. /\ handRules \in [BgpConnectors -> {0, 1}] /\ \A d \in BgpConnectors : handRules[d] = 0
      /\ byHand \in [pc : {"idle", "validated", "announced"},
                     on : BgpConnectors \cup {NoConnector}, late : BOOLEAN]
  BY <1>1 DEF SentInv, HandInv
<1>3. /\ handRules' \in [BgpConnectors -> {0, 1}]
      /\ \A d \in BgpConnectors : handRules'[d] = IF d = on THEN 1 ELSE 0
  <2>1. handRules' = [d \in BgpConnectors |-> IF d = on THEN handRules[d] + 1 ELSE handRules[d]]
    BY <1>1, <1>2
  <2>2. handRules' = [d \in BgpConnectors |-> IF d = on THEN 1 ELSE 0]
    BY <1>2, <2>1
  <2>. QED
    BY <2>2
<1>4. HasRoom(on) \in BOOLEAN
  BY DEF HasRoom
<1>5. byHand'.pc = "announced" /\ byHand'.on = on /\ byHand'.late = ~HasRoom(on)
  BY <1>1, <1>2
<1>6. byHand' \in [pc : {"idle", "validated", "announced"},
                   on : BgpConnectors \cup {NoConnector}, late : BOOLEAN]
  BY <1>1, <1>2, <1>4
<1>7. HandInv'
  BY <1>3, <1>5, <1>6 DEF HandInv
<1>8. ASSUME NEW d \in BgpConnectors, Crowded(d)'
      PROVE  byHand'.on = d /\ byHand'.late
  <2>1. MaxRules = 1 /\ d = on
    BY <1>3, <1>8, MitigationAssumption DEF Crowded
  <2>2. Equivalent(d)
    BY <1>1, <1>8 DEF Crowded, Equivalent, Reserving
  <2>3. Cardinality({a \in Actors : Reserving(a, d)}) = 1
    BY <2>2, CountOfRules DEF ApplyInv, OnceInv
  <2>4. ~HasRoom(on)
    BY <1>2, <2>1, <2>3 DEF HasRoom, RulesOn
  <2>. QED
    BY <1>5, <2>1, <2>4
<1>. QED
  BY <1>1, <1>7, <1>8, BesideSends

LEMMA SentNext ==
  ASSUME ApplyInv, SentInv, [MitigationNext]_mitigationVars
  PROVE  SentInv'
<1>1. ASSUME UNCHANGED mitigationVars
      PROVE  SentInv'
  BY <1>1 DEF mitigationVars, SentInv, GrantInv, HandInv, Crowded, Granted, InHand, Defensible,
              HasScope, NeverAnnounce, DnsSingleFlow, Outbound, NextConnector, Equivalent,
              Reserving
<1>2. ASSUME NEW a \in Actors, ApplyStep(a)
      PROVE  SentInv'
  BY <1>2, ExamineSends, RefuseSends, RowSends, FinishSends DEF ApplyStep
<1>. QED
  BY <1>1, <1>2, RequestSends, WorkerSends, EditSends, EndSends, CheckSends, AnnounceSends
  DEF MitigationNext

LEMMA SentInit ==
  ASSUME MitigationInit
  PROVE  SentInv
<1>1. \A a \in Actors : task[a].pc = "idle"
  BY DEF MitigationInit, NoTask
<1>2. \A a \in Actors : GrantInv(a)
  BY <1>1 DEF GrantInv, InHand, Granted, UnderWay
<1>3. HandInv
  BY DEF MitigationInit, HandInv
<1>4. \A c \in BgpConnectors : ~Crowded(c)
  BY MitigationAssumption DEF MitigationInit, Crowded
<1>. QED
  BY <1>2, <1>3, <1>4 DEF SentInv

LEMMA RoomForOne ==
  ASSUME AppliedOnce, SentInv
  PROVE  LimitOnlyByHand
<1>1. ASSUME NEW c \in BgpConnectors, RulesOn(c) > MaxRules
      PROVE  Crowded(c)
  <2>. DEFINE n == Cardinality({a \in Actors : Reserving(a, c)})
  <2>1. /\ n \in {0, 1} /\ (n = 1 => Equivalent(c))
        /\ handRules[c] \in {0, 1} /\ MaxRules \in Nat \ {0} /\ n + handRules[c] > MaxRules
    BY <1>1, CountOfRules, MitigationAssumption DEF SentInv, HandInv, RulesOn
  <2>. HIDE DEF n
  <2>. QED
    BY <2>1 DEF Crowded
<1>. QED
  BY <1>1 DEF LimitOnlyByHand, SentInv

-----------------------------------------------------------------------------
(* However requests, retries and edits interleave, applying a candidate    *)
(* never overfills a connector: a row is inserted only where no other row  *)
(* of it is and no rule by hand already fills the limit, and both are      *)
(* looked up under the lock that is still held.                            *)
THEOREM LimitHolds ==
  ASSUME BgpConnectors # {}
  PROVE  MitigationSpec => []LimitOnlyByHand
<1>1. MitigationInit => ApplyInv /\ SentInv
  BY ApplyInit, SentInit
<1>2. ApplyInv /\ SentInv => LimitOnlyByHand
  BY RoomForOne DEF ApplyInv, OnceInv
<1>3. (ApplyInv /\ SentInv) /\ [MitigationNext]_mitigationVars => (ApplyInv /\ SentInv)'
  BY ApplyNext, SentNext
<1>. QED
  BY <1>1, <1>2, <1>3, PTL DEF MitigationSpec

(* Whatever is edited between the page and the request, a row is granted   *)
(* only to a candidate that the settings of that moment defend: the policy *)
(* is evaluated again under the lock, and no edit commits while it is held. *)
THEOREM Defended ==
  ASSUME BgpConnectors # {}
  PROVE  MitigationSpec => []SentIsDefensible
<1>1. MitigationInit => ApplyInv /\ SentInv
  BY ApplyInit, SentInit
<1>2. SentInv => SentIsDefensible
  BY DEF SentInv, GrantInv, Granted, Defensible, SentIsDefensible
<1>3. (ApplyInv /\ SentInv) /\ [MitigationNext]_mitigationVars => (ApplyInv /\ SentInv)'
  BY ApplyNext, SentNext
<1>. QED
  BY <1>1, <1>2, <1>3, PTL DEF MitigationSpec

-----------------------------------------------------------------------------
(* The connector the automatic rule was validated for.                     *)

\* the rule's connector is the only one its proposal resolves to, and automatic
Validated(t) ==
    /\ t.stored \in BgpConnectors
    /\ Resolved(NoConnector, NoConnector) = {t.stored}
    /\ conf.mode[t.stored] = "automatic"
    /\ t.todo \subseteq {t.stored}

StoredInv ==
    LET t == task[Orchestrator] IN t.current /\ t.pc \in UnderWay => Validated(t)

\* naming the connector it resolved to does not change the resolution
LEMMA ResolvedAgain ==
  ASSUME NEW c \in BgpConnectors, Resolved(NoConnector, NoConnector) = {c}
  PROVE  Resolved(NoConnector, c) = {c}
<1>. DEFINE zone == conf.zone \cap ActiveConnectors
            preferred == conf.preferred \cap ActiveConnectors
<1>1. {NoConnector} \cap ActiveConnectors = {}
  BY MitigationAssumption DEF ActiveConnectors, NoConnector
<1>2. /\ ~(Outbound /\ ~conf.authorized)
      /\ {c} = IF zone # {} THEN zone
               ELSE IF preferred # {} THEN preferred
               ELSE ActiveConnectors
  BY <1>1 DEF Resolved
<1>3. Resolved(NoConnector, c) =
        IF zone # {} THEN zone
        ELSE IF preferred # {} THEN preferred
        ELSE IF {c} \cap ActiveConnectors # {} THEN {c} \cap ActiveConnectors
        ELSE ActiveConnectors
  BY <1>2 DEF Resolved
<1>. QED
  BY <1>2, <1>3

\* the worker's turn
LEMMA StoredMoves ==
  ASSUME Typed, NEW t, MovesTo(Orchestrator, t) \/ MovesShared(Orchestrator, t),
         UNCHANGED <<candidate, conf>>,
         t.current /\ t.pc \in UnderWay => Validated(t)
  PROVE  StoredInv'
<1>1. task'[Orchestrator] = t
  BY Turned, ActorsApart
<1>2. Resolved(NoConnector, NoConnector)' = Resolved(NoConnector, NoConnector)
  BY DEF Resolved, OperatorMayUse, ActiveConnectors, Outbound
<1>. QED
  BY <1>1, <1>2 DEF StoredInv, Validated

\* any other step that leaves the settings
LEMMA StoredStays ==
  ASSUME StoredInv, task'[Orchestrator] = task[Orchestrator], UNCHANGED <<candidate, conf>>
  PROVE  StoredInv'
<1>1. Resolved(NoConnector, NoConnector)' = Resolved(NoConnector, NoConnector)
  BY DEF Resolved, OperatorMayUse, ActiveConnectors, Outbound
<1>. QED
  BY <1>1 DEF StoredInv, Validated

LEMMA OverIsDone ==
  ASSUME NEW a, NEW pc \in {"answered", "active", "failed", "closed"}
  PROVE  Over(a, pc).pc \notin UnderWay
BY DEF Over, NoTask, UnderWay

LEMMA WorkerStores ==
  ASSUME ApplyInv, StoredInv,
         \/ \E c \in BgpConnectors : Generate(c)
         \/ Accept \/ Reserve \/ Block \/ ApplyStored \/ CloseExecution
  PROVE  StoredInv'
<1>. DEFINE o == task[Orchestrator]
<1>0. Orchestrator \in Actors /\ o \in Task /\ Typed
  BY ActorsApart DEF ApplyInv, Typed
<1>1. ASSUME NEW c \in BgpConnectors, Generate(c)
      PROVE  StoredInv'
  <2>. DEFINE t == [NoTask EXCEPT !.pc = "generated", !.mode = "automatic",
                                  !.stored = c, !.current = TRUE]
  <2>1. MovesTo(Orchestrator, t) /\ UNCHANGED <<candidate, conf>>
    BY <1>1 DEF Generate
  <2>2. t.stored = c /\ t.todo = {}
    BY DEF NoTask
  <2>3. Resolved(NoConnector, NoConnector) = {c} /\ conf.mode[c] = "automatic"
    BY <1>1 DEF Generate, Eligible
  <2>. HIDE DEF t
  <2>4. Validated(t)
    BY <2>2, <2>3 DEF Validated
  <2>. QED
    BY <1>0, <2>1, <2>4, StoredMoves
<1>2. ASSUME NEW pc \in UnderWay, o.pc \in UnderWay,
             LET t == [o EXCEPT !.pc = pc]
             IN MovesTo(Orchestrator, t) \/ MovesShared(Orchestrator, t),
             UNCHANGED <<candidate, conf>>
      PROVE  StoredInv'
  <2>. DEFINE t == [o EXCEPT !.pc = pc]
  <2>1. t.stored = o.stored /\ t.todo = o.todo /\ t.current = o.current
    BY <1>0 DEF Task
  <2>2. MovesTo(Orchestrator, t) \/ MovesShared(Orchestrator, t)
    BY <1>2
  <2>. HIDE DEF t
  <2>3. t.current => Validated(t)
    BY <1>2, <2>1 DEF StoredInv, Validated
  <2>. QED
    BY <1>0, <1>2, <2>2, <2>3, StoredMoves
<1>3. CASE Accept
  BY <1>2, <1>3 DEF Accept, UnderWay
<1>4. CASE Reserve
  BY <1>2, <1>4 DEF Reserve, UnderWay
<1>5. CASE Block
  <2>1. MovesTo(Orchestrator, NoTask) /\ NoTask.pc = "idle" /\ UNCHANGED <<candidate, conf>>
    BY <1>5 DEF Block, NoTask
  <2>. QED
    BY <1>0, <2>1, StoredMoves DEF UnderWay
<1>6. CASE ApplyStored
  <2>. DEFINE found == Resolved(NoConnector, o.stored)
              t == [Begun(o, found) EXCEPT !.tries = @ + 1]
  <2>1. /\ UNCHANGED <<candidate, conf>> /\ o.pc \in UnderWay
        /\ \/ \E pc \in {"active", "failed"} : MovesShared(Orchestrator, Over(Orchestrator, pc))
           \/ MovesTo(Orchestrator, t)
    BY <1>6 DEF ApplyStored, UnderWay
  <2>2. Begun(o, found) \in Task /\ Begun(o, found).todo = found
    BY <1>0, ResolvedServes, BegunTyped
  <2>3. Begun(o, found).stored = o.stored /\ Begun(o, found).current = o.current
    BY <1>0 DEF Begun, Task
  <2>4. t.todo = found /\ t.stored = o.stored /\ t.current = o.current
    BY <2>2, <2>3 DEF Task
  <2>5. Validated(o) => found = {o.stored}
    BY ResolvedAgain DEF Validated
  <2>. HIDE DEF t, found
  <2>6. t.current => Validated(t)
    BY <2>1, <2>4, <2>5 DEF StoredInv, Validated
  <2>7. ASSUME NEW pc \in {"active", "failed"}, MovesShared(Orchestrator, Over(Orchestrator, pc))
        PROVE  StoredInv'
    BY <1>0, <2>1, <2>7, OverIsDone, StoredMoves
  <2>. QED
    BY <1>0, <2>1, <2>6, <2>7, StoredMoves
<1>7. CASE CloseExecution
  BY <1>0, <1>7, OverIsDone, StoredMoves DEF CloseExecution
<1>. QED
  BY <1>1, <1>3, <1>4, <1>5, <1>6, <1>7

LEMMA ServingStores ==
  ASSUME ApplyInv, StoredInv, ApplyStep(Orchestrator)
  PROVE  StoredInv'
<1>. DEFINE o == task[Orchestrator]
            c == NextConnector(Orchestrator)
<1>0. Orchestrator \in Actors /\ o \in Task /\ Typed
  BY ActorsApart DEF ApplyInv, Typed
\* the rule keeps its connector, and never has more to serve
<1>1. ASSUME NEW t, t.stored = o.stored, t.todo \subseteq o.todo, t.current = o.current,
             o.pc \in UnderWay,
             MovesTo(Orchestrator, t) \/ MovesShared(Orchestrator, t),
             UNCHANGED <<candidate, conf>>
      PROVE  StoredInv'
  <2>1. t.current => Validated(t)
    BY <1>1 DEF StoredInv, Validated
  <2>. QED
    BY <1>0, <1>1, <2>1, StoredMoves
<1>2. ASSUME NEW pc \in {"active", "failed"}, MovesShared(Orchestrator, Over(Orchestrator, pc)),
             UNCHANGED <<candidate, conf>>
      PROVE  StoredInv'
  BY <1>0, <1>2, OverIsDone, StoredMoves
<1>3. CASE Examine(Orchestrator)
  <2>. DEFINE t == [o EXCEPT !.pc = "examined", !.seen[c] = "off",
                             !.verdict = Verdict(Orchestrator, c)]
  <2>1. /\ MovesTo(Orchestrator, t) /\ UNCHANGED <<candidate, conf>> /\ o.pc \in UnderWay
    BY <1>3 DEF Examine, UnderWay
  <2>2. t.stored = o.stored /\ t.todo \subseteq o.todo /\ t.current = o.current
    BY <1>0 DEF Task
  <2>. HIDE DEF t
  <2>. QED
    BY <1>1, <2>1, <2>2
<1>4. CASE Refuse(Orchestrator)
  <2>1. /\ UNCHANGED <<candidate, conf>>
        /\ \E pc \in {"active", "failed"} : MovesShared(Orchestrator, Over(Orchestrator, pc))
    BY <1>4 DEF Refuse
  <2>. QED
    BY <1>2, <2>1
<1>5. CASE Insert(Orchestrator)
  <2>. DEFINE t == [o EXCEPT !.pc = "resolved", !.todo = @ \ {c}]
  <2>1. MovesShared(Orchestrator, t) /\ UNCHANGED <<candidate, conf>> /\ o.pc \in UnderWay
    BY <1>5 DEF Insert, UnderWay
  <2>2. t.stored = o.stored /\ t.todo \subseteq o.todo /\ t.current = o.current
    BY <1>0 DEF Task
  <2>. HIDE DEF t
  <2>. QED
    BY <1>1, <2>1, <2>2
<1>6. CASE Queue(Orchestrator)
  <2>. DEFINE t == [o EXCEPT !.pc = "delivering"]
  <2>1. MovesShared(Orchestrator, t) /\ UNCHANGED <<candidate, conf>> /\ o.pc \in UnderWay
    BY <1>6 DEF Queue, UnderWay
  <2>2. t.stored = o.stored /\ t.todo \subseteq o.todo /\ t.current = o.current
    BY <1>0 DEF Task
  <2>. HIDE DEF t
  <2>. QED
    BY <1>1, <2>1, <2>2
<1>7. CASE Finish(Orchestrator)
  <2>. DEFINE t == [o EXCEPT !.pc = "queued", !.result = "none"]
  <2>1. /\ UNCHANGED <<candidate, conf>> /\ o.pc \in UnderWay
        /\ \/ \E pc \in {"active", "failed"} : MovesShared(Orchestrator, Over(Orchestrator, pc))
           \/ MovesShared(Orchestrator, t)
    BY <1>7 DEF Finish, UnderWay
  <2>2. t.stored = o.stored /\ t.todo \subseteq o.todo /\ t.current = o.current
    BY <1>0 DEF Task
  <2>. HIDE DEF t
  <2>. QED
    BY <1>1, <1>2, <2>1, <2>2
<1>8. ASSUME NEW sent \in BOOLEAN, Deliver(Orchestrator, sent)
      PROVE  StoredInv'
  <2>. DEFINE t == [o EXCEPT !.pc = "resolved", !.todo = @ \ {c},
                             !.result = IF sent THEN "sent" ELSE "unsent"]
  <2>1. MovesShared(Orchestrator, t) /\ UNCHANGED <<candidate, conf>> /\ o.pc \in UnderWay
    BY <1>8 DEF Deliver, UnderWay
  <2>2. t.stored = o.stored /\ t.todo \subseteq o.todo /\ t.current = o.current
    BY <1>0 DEF Task
  <2>. HIDE DEF t
  <2>. QED
    BY <1>1, <2>1, <2>2
<1>. QED
  BY <1>3, <1>4, <1>5, <1>6, <1>7, <1>8 DEF ApplyStep

\* a step of an administrator's request moves that request only
LEMMA OperatorTurn ==
  ASSUME NEW a \in Operators,
         \/ \E choice \in BgpConnectors \cup {NoConnector},
               mode \in {"manual_approval", "announce_now"} : ShowPage(a, choice, mode)
         \/ SubmitApply(a)
         \/ ApplyStep(a)
  PROVE  /\ UNCHANGED <<candidate, conf>>
         /\ \E t : MovesTo(a, t) \/ MovesShared(a, t)
<1>1. ASSUME NEW choice, NEW mode, ShowPage(a, choice, mode)
      PROVE  UNCHANGED <<candidate, conf>> /\ \E t : MovesTo(a, t) \/ MovesShared(a, t)
  BY <1>1, Zenon DEF ShowPage
<1>2. CASE SubmitApply(a)
  BY <1>2, Zenon DEF SubmitApply
<1>3. CASE Examine(a)
  BY <1>3, Zenon DEF Examine
<1>4. CASE Refuse(a)
  BY <1>4, Zenon DEF Refuse
<1>5. CASE Insert(a)
  BY <1>5, Zenon DEF Insert
<1>6. CASE Queue(a)
  BY <1>6, Zenon DEF Queue
<1>7. CASE Finish(a)
  BY <1>7, Zenon DEF Finish
<1>8. ASSUME NEW sent \in BOOLEAN, Deliver(a, sent)
      PROVE  UNCHANGED <<candidate, conf>> /\ \E t : MovesTo(a, t) \/ MovesShared(a, t)
  BY <1>8, Zenon DEF Deliver
<1>. QED
  BY <1>1, <1>2, <1>3, <1>4, <1>5, <1>6, <1>7, <1>8 DEF ApplyStep

LEMMA StoredNext ==
  ASSUME ApplyInv, StoredInv, [MitigationNext]_mitigationVars
  PROVE  StoredInv'
<1>0. Typed /\ Orchestrator \in Actors
  BY ActorsApart DEF ApplyInv
<1>1. ASSUME NEW a \in Operators,
             \/ \E choice \in BgpConnectors \cup {NoConnector},
                   mode \in {"manual_approval", "announce_now"} : ShowPage(a, choice, mode)
             \/ SubmitApply(a)
             \/ ApplyStep(a)
      PROVE  StoredInv'
  <2>1. UNCHANGED <<candidate, conf>> /\ \E t : MovesTo(a, t) \/ MovesShared(a, t)
    BY <1>1, OperatorTurn
  <2>2. task'[Orchestrator] = task[Orchestrator]
    BY <1>0, <2>1, Turned, ActorsApart
  <2>. QED
    BY <2>1, <2>2, StoredStays
<1>2. CASE EditSettings
  <2>1. task' = Outdated(task, Actors) /\ task[Orchestrator] \in Task
    BY <1>0, <1>2 DEF EditSettings, Typed
  <2>2. task'[Orchestrator] = [task[Orchestrator] EXCEPT !.current = FALSE]
    BY <1>0, <2>1 DEF Outdated
  <2>3. task'[Orchestrator].current = FALSE
    BY <2>1, <2>2 DEF Task
  <2>. QED
    BY <2>3 DEF StoredInv
<1>3. ASSUME task' = task \/ task' = Outdated(task, Operators), UNCHANGED <<candidate, conf>>
      PROVE  StoredInv'
  <2>1. task'[Orchestrator] = task[Orchestrator]
    BY <1>0, <1>3, ActorsApart DEF Outdated
  <2>. QED
    BY <1>3, <2>1, StoredStays
<1>4. ASSUME NEW a \in Actors, NEW c \in BgpConnectors, EndRule(a, c)
      PROVE  StoredInv'
  BY <1>3, <1>4 DEF EndRule
<1>5. ASSUME NEW c \in BgpConnectors, CheckByHand(c)
      PROVE  StoredInv'
  BY <1>3, <1>5 DEF CheckByHand
<1>6. CASE AnnounceByHand
  BY <1>3, <1>6 DEF AnnounceByHand
<1>7. CASE UNCHANGED mitigationVars
  BY <1>3, <1>7 DEF mitigationVars
<1>8. ASSUME NEW a \in Actors, ApplyStep(a)
      PROVE  StoredInv'
  BY <1>1, <1>8, ServingStores DEF Actors
<1>. QED
  BY <1>1, <1>2, <1>4, <1>5, <1>6, <1>7, <1>8, WorkerStores DEF MitigationNext

LEMMA StoredServes ==
  ASSUME ApplyInv, StoredInv
  PROVE  AutomaticAsValidated
<1>. DEFINE o == task[Orchestrator]
<1>1. ASSUME o.pc = "delivering", o.current
      PROVE  NextConnector(Orchestrator) = o.stored /\ conf.mode[o.stored] = "automatic"
  <2>1. Validated(o)
    BY <1>1 DEF StoredInv, UnderWay
  <2>2. NextConnector(Orchestrator) \in o.todo
    BY <1>1, Working, ActorsApart
  <2>. QED
    BY <2>1, <2>2 DEF Validated
<1>. QED
  BY <1>1 DEF AutomaticAsValidated

(* The automatic rule goes to the connector it was validated for, as long  *)
(* as no setting was edited since: the resolution that apply_mitigation_-  *)
(* candidate repeats at every try, with the stored connector named, finds  *)
(* that connector alone.                                                   *)
THEOREM SentAsValidated ==
  ASSUME BgpConnectors # {}
  PROVE  MitigationSpec => []AutomaticAsValidated
<1>1. MitigationInit => ApplyInv /\ StoredInv
  <2>1. MitigationInit => StoredInv
    BY ActorsApart DEF MitigationInit, StoredInv, NoTask
  <2>. QED
    BY <2>1, ApplyInit
<1>2. ApplyInv /\ StoredInv => AutomaticAsValidated
  BY StoredServes
<1>3. (ApplyInv /\ StoredInv) /\ [MitigationNext]_mitigationVars => (ApplyInv /\ StoredInv)'
  BY ApplyNext, StoredNext
<1>. QED
  BY <1>1, <1>2, <1>3, PTL DEF MitigationSpec

-----------------------------------------------------------------------------
(* What the page offered, until it is answered.                            *)

Granting == {"pending_approval", "queued"}

\* connector c, as the request read it, would be granted
Ready(t, c) ==
    /\ ~Reserves(c) /\ ~Equivalent(c)
    /\ Decision("manual_approval") # "deny"
    /\ ValidRule(c, t.seen[c], t.seenProfile)
    /\ t.mode = "announce_now" => t.seen[c] \notin {"dry_run", "other_backend"}

\* a request that was offered, and nothing changed since: it has the one connector
\* of the offer to serve, and once that was examined, it was granted
Page(t) ==
    t.current /\ candidate.evidence =>
      /\ t.mode \in {"manual_approval", "announce_now"}
      /\ t.pc = "shown" => Offered(t.choice, t.mode)
      /\ t.pc = "resolved" /\ t.todo # {} =>
           \E c \in BgpConnectors : t.todo = {c} /\ Ready(t, c)
      /\ t.pc \in {"examined", "delivering"} => \E c \in BgpConnectors : t.todo = {c}
      /\ \/ t.pc \in {"examined", "delivering", "answered"}
         \/ t.pc = "resolved" /\ t.todo = {}
         => t.verdict \in Granting

PagesInv == \A a \in Operators : \A t \in Task : t = task[a] => Page(t)

\* what a page shows is a function of the settings, the rows and the reservation
LEMMA SameView ==
  ASSUME NEW t, UNCHANGED <<candidate, conf, rules, handRules>>,
         \A c : Reserves(c)' <=> Reserves(c)
  PROVE  Page(t)' <=> Page(t)
<1>1. \A choice : Resolved(choice, NoConnector)' = Resolved(choice, NoConnector)
  BY DEF Resolved, OperatorMayUse, ActiveConnectors, Outbound
<1>2. \A m : Decision(m)' = Decision(m)
  BY DEF Decision, Denied, Doubtful, DnsSingleFlow, HasScope, HostScope, Outbound
<1>3. /\ CandidateMode' = CandidateMode
      /\ NeverAnnounce' <=> NeverAnnounce
  BY DEF CandidateMode, NeverAnnounce, CgnatBlocks
<1>4. PageDecision' = PageDecision
  BY <1>2, <1>3 DEF PageDecision
<1>5. \A c : /\ Equivalent(c)' <=> Equivalent(c)
             /\ HasRoom(c)' <=> HasRoom(c)
  BY DEF Equivalent, HasRoom, RulesOn, Reserving
<1>6. \A c, m, on : ValidRule(c, m, on)' <=> ValidRule(c, m, on)
  BY <1>5 DEF ValidRule, HasScope, Outbound
<1>7. \A choice : Actionable(choice)' <=> Actionable(choice)
  BY <1>1, <1>3, <1>4, <1>5, <1>6 DEF Actionable
<1>8. \A choice, m : Offered(choice, m)' <=> Offered(choice, m)
  BY <1>1, <1>7 DEF Offered
<1>9. \A c : Ready(t, c)' <=> Ready(t, c)
  BY <1>2, <1>5, <1>6 DEF Ready
<1>. QED
  BY <1>8, <1>9 DEF Page

LEMMA SharingOutdates ==
  ASSUME Typed, NEW a \in Actors, NEW t, MovesShared(a, t), NEW b \in Operators, b # a
  PROVE  task'[b].current = FALSE
<1>. DEFINE tasks == [task EXCEPT ![a] = t]
<1>1. tasks[b] = task[b] /\ task[b] \in Task /\ b \in DOMAIN tasks /\ DOMAIN tasks = Actors
  BY ActorsApart DEF Typed
<1>. HIDE DEF tasks
<1>2. task' = Outdated(tasks, Operators \ {a})
  BY DEF MovesShared, tasks
<1>3. task'[b] = [task[b] EXCEPT !.current = FALSE]
  BY <1>1, <1>2, ActorsApart DEF Outdated
<1>. QED
  BY <1>1, <1>3 DEF Task

\* a's turn: the other pages show what they showed, or are known to be stale
LEMMA PagesTurn ==
  ASSUME Typed, PagesInv, NEW a \in Actors, NEW t,
         \/ MovesTo(a, t) /\ UNCHANGED rules /\ \A c : Reserves(c)' <=> Reserves(c)
         \/ MovesShared(a, t),
         UNCHANGED <<candidate, conf, handRules>>,
         a \in Operators => Page(t)'
  PROVE  PagesInv'
<1>1. task'[a] = t
  BY Turned
<1>2. ASSUME NEW b \in Operators, b # a, NEW u \in Task, u = task'[b]
      PROVE  Page(u)'
  <2>1. CASE MovesShared(a, t)
    <3>1. u.current = FALSE
      BY <1>2, <2>1, SharingOutdates
    <3>. QED
      BY <3>1 DEF Page
  <2>2. CASE MovesTo(a, t) /\ UNCHANGED rules /\ \A c : Reserves(c)' <=> Reserves(c)
    <3>1. task'[b] = task[b]
      BY <1>2, <2>2, ActorsApart DEF MovesTo, Typed
    <3>2. Page(u)
      BY <1>2, <3>1 DEF PagesInv
    <3>. QED
      BY <2>2, <3>2, SameView
  <2>. QED
    BY <2>1, <2>2
<1>3. ASSUME NEW b \in Operators, NEW u \in Task, u = task'[b]
      PROVE  Page(u)'
  BY <1>1, <1>2, <1>3
<1>. QED
  BY <1>3 DEF PagesInv

\* a step of a request that writes no row
LEMMA RequestTurn ==
  ASSUME Typed, PagesInv, NEW a \in Operators, NEW t,
         MovesTo(a, t) \/ MovesShared(a, t),
         UNCHANGED <<candidate, conf, rules, handRules>>, Page(t)
  PROVE  PagesInv'
<1>1. a \in Actors /\ a # Orchestrator /\ Orchestrator \in Actors
  BY ActorsApart
<1>2. task'[Orchestrator] = task[Orchestrator]
  BY <1>1, Turned
<1>3. \A c : Reserves(c)' <=> Reserves(c)
  BY <1>2 DEF Reserves
<1>4. Page(t)'
  BY <1>3, SameView
<1>. QED
  BY <1>1, <1>3, <1>4, PagesTurn

LEMMA OverCarries ==
  ASSUME NEW a, NEW pc
  PROVE  /\ Over(a, pc).pc = pc /\ Over(a, pc).mode = "manual_approval"
         /\ Over(a, pc).verdict = task[a].verdict /\ Over(a, pc).current = task[a].current
BY DEF Over, NoTask

LEMMA ShowPages ==
  ASSUME ApplyInv, PagesInv, NEW a \in Operators, NEW choice \in BgpConnectors \cup {NoConnector},
         NEW mode \in {"manual_approval", "announce_now"}, ShowPage(a, choice, mode)
  PROVE  PagesInv'
<1>. DEFINE t == [NoTask EXCEPT !.pc = "shown", !.choice = choice, !.mode = mode,
                                !.current = Offered(choice, mode)]
<1>1. /\ t.pc = "shown" /\ t.choice = choice /\ t.mode = mode
      /\ t.current = Offered(choice, mode)
  BY DEF NoTask
<1>2. MovesTo(a, t) /\ UNCHANGED <<candidate, conf, rules, handRules>>
  BY DEF ShowPage
<1>. HIDE DEF t
<1>3. Page(t)
  BY <1>1 DEF Page
<1>. QED
  BY <1>2, <1>3, RequestTurn DEF ApplyInv

\* the offer names one connector, on which nothing stands in the way
LEMMA OfferIsReady ==
  ASSUME NEW choice, NEW mode, Offered(choice, mode), candidate.evidence
  PROVE  /\ ~NeverAnnounce /\ Decision("manual_approval") # "deny"
         /\ \E c \in BgpConnectors :
              /\ Resolved(choice, NoConnector) = {c}
              /\ ~Reserves(c) /\ ~Equivalent(c)
              /\ ValidRule(c, conf.mode[c], conf.profileOn)
              /\ mode = "announce_now" => conf.mode[c] \notin {"dry_run", "other_backend"}
<1>. DEFINE found == Resolved(choice, NoConnector)
<1>1. /\ Cardinality(found) = 1 /\ Decision(CandidateMode) # "deny" /\ ~NeverAnnounce
      /\ \A c \in found :
           /\ ~Reserves(c) /\ ~Equivalent(c)
           /\ ValidRule(c, conf.mode[c], conf.profileOn)
           /\ mode = "announce_now" => conf.mode[c] \notin {"dry_run", "other_backend"}
  BY DEF Offered, Actionable, PageDecision
<1>2. found \in SUBSET BgpConnectors
  BY ResolvedServes
<1>. HIDE DEF found
<1>3. PICK c : found = {c}
  BY <1>1, <1>2, MitigationAssumption, FS_Subset, FS_Singleton
<1>4. Decision("manual_approval") # "deny"
  BY <1>1 DEF Decision, Denied
<1>. QED
  BY <1>1, <1>2, <1>3, <1>4 DEF found

LEMMA SubmitPages ==
  ASSUME ApplyInv, PagesInv, NEW a \in Operators, SubmitApply(a)
  PROVE  PagesInv'
<1>. DEFINE o == task[a]
            found == Resolved(o.choice, NoConnector)
            begun == Begun(o, found)
            t == [begun EXCEPT !.choice = NoConnector]
<1>1. /\ o \in Task /\ o.pc = "shown" /\ Page(o) /\ Typed
      /\ UNCHANGED <<candidate, conf, rules, handRules>>
      /\ IF NeverAnnounce \/ found = {} THEN MovesTo(a, Over(a, "answered")) ELSE MovesTo(a, t)
  BY ActorsApart DEF SubmitApply, ApplyInv, Typed, PagesInv
<1>2. o.current /\ candidate.evidence =>
        /\ o.mode \in {"manual_approval", "announce_now"}
        /\ Offered(o.choice, o.mode)
  BY <1>1 DEF Page
<1>3. CASE NeverAnnounce \/ found = {}
  <2>1. ~(o.current /\ candidate.evidence)
    BY <1>2, <1>3, OfferIsReady
  <2>2. Page(Over(a, "answered"))
    BY <2>1, OverCarries DEF Page
  <2>. QED
    BY <1>1, <1>3, <2>2, RequestTurn
<1>4. CASE ~(NeverAnnounce \/ found = {})
  <2>1. begun \in Task /\ begun.pc = "resolved" /\ begun.todo = found
    BY <1>1, ResolvedServes, BegunTyped
  <2>2. /\ begun.seenProfile = conf.profileOn
        /\ begun.seen = [c \in BgpConnectors |-> IF c \in found THEN conf.mode[c] ELSE "off"]
        /\ begun.mode = o.mode /\ begun.current = o.current
    BY <1>1 DEF Begun, Task
  <2>. HIDE DEF begun
  <2>3. /\ t.pc = "resolved" /\ t.todo = found /\ t.mode = o.mode /\ t.current = o.current
        /\ t.seenProfile = conf.profileOn
        /\ \A c \in BgpConnectors \cap found : t.seen[c] = conf.mode[c]
    BY <2>1, <2>2 DEF Task
  <2>. HIDE DEF t
  <2>4. ASSUME o.current, candidate.evidence
        PROVE  \E c \in BgpConnectors : t.todo = {c} /\ Ready(t, c)
    <3>1. PICK c \in BgpConnectors :
            /\ found = {c} /\ ~Reserves(c) /\ ~Equivalent(c)
            /\ ValidRule(c, conf.mode[c], conf.profileOn)
            /\ o.mode = "announce_now" => conf.mode[c] \notin {"dry_run", "other_backend"}
      BY <1>2, <2>4, OfferIsReady
    <3>2. Decision("manual_approval") # "deny"
      BY <1>2, <2>4, OfferIsReady
    <3>3. t.seen[c] = conf.mode[c] /\ t.seenProfile = conf.profileOn
      BY <2>3, <3>1
    <3>4. Ready(t, c)
      BY <2>3, <3>1, <3>2, <3>3 DEF Ready
    <3>. QED
      BY <2>3, <3>1, <3>4
  <2>5. Page(t)
    BY <1>2, <2>3, <2>4 DEF Page
  <2>. QED
    BY <1>1, <1>4, <2>5, RequestTurn
<1>. QED
  BY <1>3, <1>4

\* the checks under the lock grant what is ready
LEMMA ReadyIsGranted ==
  ASSUME NEW a \in Operators, NEW c, Ready(task[a], c),
         task[a].mode \in {"manual_approval", "announce_now"}
  PROVE  Verdict(a, c) \in Granting
BY ActorsApart DEF Ready, Verdict, Granting

LEMMA ExaminePages ==
  ASSUME ApplyInv, PagesInv, NEW a \in Operators, Examine(a)
  PROVE  PagesInv'
<1>. DEFINE o == task[a]
            c == NextConnector(a)
            t == [o EXCEPT !.pc = "examined", !.seen[c] = "off", !.verdict = Verdict(a, c)]
<1>1. /\ o \in Task /\ o.pc = "resolved" /\ o.todo # {} /\ Page(o) /\ Typed
      /\ MovesTo(a, t) /\ UNCHANGED <<candidate, conf, rules, handRules>>
  BY ActorsApart DEF Examine, ApplyInv, Typed, PagesInv
<1>2. c \in o.todo
  BY <1>1, Working, ActorsApart
<1>3. o.current /\ candidate.evidence =>
        /\ o.mode \in {"manual_approval", "announce_now"}
        /\ o.todo = {c} /\ Ready(o, c) /\ c \in BgpConnectors
  BY <1>1, <1>2 DEF Page
<1>4. /\ t.pc = "examined" /\ t.todo = o.todo /\ t.verdict = Verdict(a, c)
      /\ t.mode = o.mode /\ t.current = o.current
  BY <1>1 DEF Task
<1>. HIDE DEF t, c
<1>5. Page(t)
  BY <1>3, <1>4, ReadyIsGranted DEF Page
<1>. QED
  BY <1>1, <1>5, RequestTurn

LEMMA EndPages ==
  ASSUME ApplyInv, PagesInv, NEW a \in Operators, Refuse(a) \/ Finish(a)
  PROVE  PagesInv'
<1>. DEFINE o == task[a]
<1>1. /\ o \in Task /\ Page(o) /\ Typed
      /\ MovesShared(a, Over(a, "answered")) /\ UNCHANGED <<candidate, conf, rules, handRules>>
      /\ \/ o.pc = "examined" /\ o.verdict = "refused"
         \/ o.pc = "resolved" /\ o.todo = {}
  BY ActorsApart DEF Refuse, Finish, ApplyInv, Typed, PagesInv
<1>2. o.current /\ candidate.evidence => o.verdict \in Granting
  BY <1>1 DEF Page
<1>3. Page(Over(a, "answered"))
  BY <1>2, OverCarries DEF Page
<1>. QED
  BY <1>1, <1>3, RequestTurn

LEMMA RowPages ==
  ASSUME ApplyInv, PagesInv, NEW a \in Operators,
         Insert(a) \/ Queue(a) \/ \E sent \in BOOLEAN : Deliver(a, sent)
  PROVE  PagesInv'
<1>. DEFINE o == task[a]
            c == NextConnector(a)
<1>1. /\ o \in Task /\ Page(o) /\ Typed /\ a \in Actors
      /\ o.pc \in {"examined", "delivering"} /\ c \in o.todo
      /\ UNCHANGED <<candidate, conf, handRules>>
  BY Working, ActorsApart DEF Insert, Queue, Deliver, ApplyInv, Typed, PagesInv
<1>2. o.current /\ candidate.evidence =>
        /\ o.mode \in {"manual_approval", "announce_now"} /\ o.verdict \in Granting
        /\ o.todo = {c} /\ c \in BgpConnectors
  BY <1>1 DEF Page
<1>. HIDE DEF c
<1>3. ASSUME NEW t, MovesShared(a, t), t.mode = o.mode, t.verdict = o.verdict,
             t.current = o.current,
             \/ t.pc = "delivering" /\ t.todo = o.todo
             \/ t.pc = "resolved" /\ t.todo = o.todo \ {c}
      PROVE  PagesInv'
  <2>1. Page(t)'
    BY <1>1, <1>2, <1>3 DEF Page
  <2>. QED
    BY <1>1, <1>3, <2>1, PagesTurn
<1>4. CASE Insert(a)
  <2>. DEFINE t == [o EXCEPT !.pc = "resolved", !.todo = @ \ {c}]
  <2>1. MovesShared(a, t)
    BY <1>4 DEF Insert, c
  <2>2. /\ t.mode = o.mode /\ t.verdict = o.verdict /\ t.current = o.current
        /\ t.pc = "resolved" /\ t.todo = o.todo \ {c}
    BY <1>1 DEF Task
  <2>. HIDE DEF t
  <2>. QED
    BY <1>3, <2>1, <2>2
<1>5. CASE Queue(a)
  <2>. DEFINE t == [o EXCEPT !.pc = "delivering"]
  <2>1. MovesShared(a, t)
    BY <1>5 DEF Queue
  <2>2. /\ t.mode = o.mode /\ t.verdict = o.verdict /\ t.current = o.current
        /\ t.pc = "delivering" /\ t.todo = o.todo
    BY <1>1 DEF Task
  <2>. HIDE DEF t
  <2>. QED
    BY <1>3, <2>1, <2>2
<1>6. ASSUME NEW sent \in BOOLEAN, Deliver(a, sent)
      PROVE  PagesInv'
  <2>. DEFINE t == [o EXCEPT !.pc = "resolved", !.todo = @ \ {c},
                             !.result = IF sent THEN "sent" ELSE "unsent"]
  <2>1. MovesShared(a, t)
    BY <1>6 DEF Deliver, c
  <2>2. /\ t.mode = o.mode /\ t.verdict = o.verdict /\ t.current = o.current
        /\ t.pc = "resolved" /\ t.todo = o.todo \ {c}
    BY <1>1 DEF Task
  <2>. HIDE DEF t
  <2>. QED
    BY <1>3, <2>1, <2>2
<1>. QED
  BY <1>4, <1>5, <1>6

-----------------------------------------------------------------------------
(* The worker, and what happens beside the pages                           *)

\* the worker keeps its reservation to itself, or shows it to every page
LEMMA WorkerTurn ==
  ASSUME Typed, PagesInv, NEW t, UNCHANGED <<candidate, conf, handRules>>,
         \/ MovesShared(Orchestrator, t)
         \/ /\ MovesTo(Orchestrator, t) /\ UNCHANGED rules
            /\ LET reserving == {"queued", "resolved", "examined", "delivering", "active"}
                   o == task[Orchestrator]
               IN \/ t.pc \notin reserving /\ o.pc \notin reserving
                  \/ t.pc \in reserving /\ o.pc \in reserving /\ t.stored = o.stored
  PROVE  PagesInv'
<1>1. Orchestrator \in Actors /\ Orchestrator \notin Operators
  BY ActorsApart
<1>2. task'[Orchestrator] = t
  BY <1>1, Turned
<1>3. MovesShared(Orchestrator, t) \/ \A c : Reserves(c)' <=> Reserves(c)
  BY <1>2 DEF Reserves
<1>. QED
  BY <1>1, <1>3, PagesTurn

LEMMA WorkerPages ==
  ASSUME ApplyInv, PagesInv,
         \/ \E c \in BgpConnectors : Generate(c)
         \/ Accept \/ Reserve \/ Block \/ ApplyStored \/ CloseExecution
         \/ ApplyStep(Orchestrator)
  PROVE  PagesInv'
<1>. DEFINE o == task[Orchestrator]
            c == NextConnector(Orchestrator)
<1>0. Orchestrator \in Actors /\ o \in Task /\ Typed
  BY ActorsApart DEF ApplyInv, Typed
<1>1. ASSUME NEW d \in BgpConnectors, Generate(d)
      PROVE  PagesInv'
  <2>. DEFINE t == [NoTask EXCEPT !.pc = "generated", !.mode = "automatic",
                                  !.stored = d, !.current = TRUE]
  <2>1. /\ MovesTo(Orchestrator, t) /\ UNCHANGED <<candidate, conf, rules, handRules>>
        /\ o.pc = "idle"
    BY <1>1 DEF Generate
  <2>2. t.pc = "generated"
    BY DEF NoTask
  <2>. HIDE DEF t
  <2>. QED
    BY <1>0, <2>1, <2>2, WorkerTurn
<1>2. CASE Accept
  <2>. DEFINE t == [o EXCEPT !.pc = "accepted"]
  <2>1. /\ MovesTo(Orchestrator, t) /\ UNCHANGED <<candidate, conf, rules, handRules>>
        /\ o.pc = "generated" /\ t.pc = "accepted"
    BY <1>0, <1>2 DEF Accept, Task
  <2>. HIDE DEF t
  <2>. QED
    BY <1>0, <2>1, WorkerTurn
<1>3. CASE Block
  <2>1. /\ MovesTo(Orchestrator, NoTask) /\ UNCHANGED <<candidate, conf, rules, handRules>>
        /\ o.pc = "generated" /\ NoTask.pc = "idle"
    BY <1>3 DEF Block, NoTask
  <2>. QED
    BY <1>0, <2>1, WorkerTurn
<1>4. CASE ApplyStored
  <2>. DEFINE found == Resolved(NoConnector, o.stored)
              t == [Begun(o, found) EXCEPT !.tries = @ + 1]
  <2>1. /\ UNCHANGED <<candidate, conf, rules, handRules>> /\ o.pc = "queued"
        /\ (\E u : MovesShared(Orchestrator, u)) \/ MovesTo(Orchestrator, t)
    BY <1>4 DEF ApplyStored
  <2>2. /\ Begun(o, found) \in Task /\ Begun(o, found).pc = "resolved"
        /\ Begun(o, found).stored = o.stored
    <3>1. Begun(o, found) \in Task /\ Begun(o, found).pc = "resolved"
      BY <1>0, ResolvedServes, BegunTyped
    <3>. QED
      BY <1>0, <3>1 DEF Begun, Task
  <2>3. t.pc = "resolved" /\ t.stored = o.stored
    BY <2>2 DEF Task
  <2>. HIDE DEF t, found
  <2>. QED
    BY <1>0, <2>1, <2>3, WorkerTurn
<1>5. CASE Examine(Orchestrator)
  <2>. DEFINE t == [o EXCEPT !.pc = "examined", !.seen[c] = "off",
                             !.verdict = Verdict(Orchestrator, c)]
  <2>1. /\ MovesTo(Orchestrator, t) /\ UNCHANGED <<candidate, conf, rules, handRules>>
        /\ o.pc = "resolved"
    BY <1>5 DEF Examine
  <2>2. t.pc = "examined" /\ t.stored = o.stored
    BY <1>0 DEF Task
  <2>. HIDE DEF t
  <2>. QED
    BY <1>0, <2>1, <2>2, WorkerTurn
<1>6. ASSUME NEW sent \in BOOLEAN,
             \/ Reserve \/ CloseExecution
             \/ Refuse(Orchestrator) \/ Insert(Orchestrator) \/ Queue(Orchestrator)
             \/ Finish(Orchestrator) \/ Deliver(Orchestrator, sent)
      PROVE  PagesInv'
  <2>1. /\ UNCHANGED <<candidate, conf, handRules>>
        /\ \E t : MovesShared(Orchestrator, t)
    BY <1>6, Zenon DEF Reserve, CloseExecution, Refuse, Insert, Queue, Finish, Deliver
  <2>. QED
    BY <1>0, <2>1, WorkerTurn
<1>. QED
  BY <1>1, <1>2, <1>3, <1>4, <1>5, <1>6 DEF ApplyStep

LEMMA BesidePages ==
  ASSUME ApplyInv, PagesInv,
         \/ EditSettings \/ AnnounceByHand
         \/ \E c \in BgpConnectors : CheckByHand(c)
         \/ \E a \in Actors, c \in BgpConnectors : EndRule(a, c)
         \/ UNCHANGED mitigationVars
  PROVE  PagesInv'
<1>1. ASSUME NEW shown, Operators \subseteq shown, task' = Outdated(task, shown)
      PROVE  PagesInv'
  <2>1. ASSUME NEW a \in Operators
        PROVE  task'[a].current = FALSE
    <3>1. task[a] \in Task /\ a \in Actors
      BY ActorsApart DEF ApplyInv, Typed
    <3>2. task'[a] = [task[a] EXCEPT !.current = FALSE]
      BY <1>1, <3>1 DEF Outdated, Typed, ApplyInv
    <3>. QED
      BY <3>1, <3>2 DEF Task
  <2>. QED
    BY <2>1 DEF PagesInv, Page
<1>2. ASSUME UNCHANGED <<candidate, conf, rules, handRules, task>>
      PROVE  PagesInv'
  <2>1. \A c : Reserves(c)' <=> Reserves(c)
    BY <1>2 DEF Reserves
  <2>2. \A t \in Task : Page(t)' <=> Page(t)
    BY <1>2, <2>1, SameView
  <2>. QED
    BY <1>2, <2>2 DEF PagesInv
<1>3. CASE EditSettings
  BY <1>1, <1>3, ActorsApart DEF EditSettings
<1>4. CASE AnnounceByHand
  BY <1>1, <1>4 DEF AnnounceByHand
<1>5. ASSUME NEW c \in BgpConnectors, CheckByHand(c)
      PROVE  PagesInv'
  BY <1>2, <1>5 DEF CheckByHand
<1>6. ASSUME NEW a \in Actors, NEW c \in BgpConnectors, EndRule(a, c)
      PROVE  PagesInv'
  BY <1>1, <1>6 DEF EndRule
<1>7. CASE UNCHANGED mitigationVars
  BY <1>2, <1>7 DEF mitigationVars
<1>. QED
  BY <1>3, <1>4, <1>5, <1>6, <1>7

LEMMA PagesNext ==
  ASSUME ApplyInv, PagesInv, [MitigationNext]_mitigationVars
  PROVE  PagesInv'
<1>1. ASSUME NEW a \in Actors, ApplyStep(a)
      PROVE  PagesInv'
  <2>1. CASE a = Orchestrator
    BY <1>1, <2>1, WorkerPages
  <2>2. CASE a \in Operators
    BY <1>1, <2>2, ExaminePages, EndPages, RowPages DEF ApplyStep
  <2>. QED
    BY <2>1, <2>2 DEF Actors
<1>. QED
  BY <1>1, ShowPages, SubmitPages, WorkerPages, BesidePages DEF MitigationNext

(* An action the page offers is what the endpoint does: while nothing      *)
(* changes, the one connector of the offer, its mode and the policy are    *)
(* found again by every later reading, under the lock too, and the request *)
(* ends with a row, whatever the other requests and the worker do.         *)
THEOREM OffersAreHonoured ==
  ASSUME BgpConnectors # {}
  PROVE  MitigationSpec => []PageIsHonoured
<1>1. MitigationInit => ApplyInv /\ PagesInv
  <2>1. MitigationInit => PagesInv
    BY ActorsApart DEF MitigationInit, PagesInv, Page, NoTask
  <2>. QED
    BY <2>1, ApplyInit
<1>2. ApplyInv /\ PagesInv => PageIsHonoured
  <2>1. ASSUME ApplyInv, PagesInv, NEW a \in Operators
        PROVE  Page(task[a])
    BY <2>1, ActorsApart DEF ApplyInv, Typed, PagesInv
  <2>. QED
    BY <2>1 DEF PageIsHonoured, Page, Granting
<1>3. (ApplyInv /\ PagesInv) /\ [MitigationNext]_mitigationVars => (ApplyInv /\ PagesInv)'
  BY ApplyNext, PagesNext
<1>. QED
  BY <1>1, <1>2, <1>3, PTL DEF MitigationSpec

-----------------------------------------------------------------------------
(* Types: the tries of the automatic rule, and the rules by other ways.    *)

InTries(tries, pc) ==
    /\ tries \in 0 .. MaxTries
    /\ pc \in {"generated", "accepted", "queued"} => tries # MaxTries

TriesInv == \A a \in Actors : InTries(task[a].tries, task[a].pc)

HandsInv ==
    /\ candidate \in Candidates /\ edits \in 0 .. MaxEdits
    /\ handRules \in [BgpConnectors -> 0..1]
    /\ byHand \in [pc : {"idle", "validated", "announced"},
                   on : BgpConnectors \cup {NoConnector}, late : BOOLEAN]
    /\ byHand.pc # "announced" => \A c \in BgpConnectors : handRules[c] = 0
    /\ byHand.pc = "validated" => byHand.on \in BgpConnectors

LEMMA TriesOutdated ==
  ASSUME Typed, TriesInv, NEW shown, task' = task \/ task' = Outdated(task, shown)
  PROVE  TriesInv'
<1>1. CASE task' = task
  BY <1>1 DEF TriesInv
<1>2. CASE task' = Outdated(task, shown)
  <2>1. ASSUME NEW a \in Actors
        PROVE  task'[a].tries = task[a].tries /\ task'[a].pc = task[a].pc
    <3>1. task[a] \in Task
      BY DEF Typed
    <3>2. task'[a] = task[a] \/ task'[a] = [task[a] EXCEPT !.current = FALSE]
      BY <1>2 DEF Outdated
    <3>. QED
      BY <3>1, <3>2 DEF Task
  <2>. QED
    BY <2>1 DEF TriesInv
<1>. QED
  BY <1>1, <1>2

LEMMA TriesMove ==
  ASSUME Typed, TriesInv, NEW a \in Actors, NEW t, MovesTo(a, t) \/ MovesShared(a, t),
         InTries(t.tries, t.pc)
  PROVE  TriesInv'
<1>1. task \in [Actors -> Task]
  BY DEF Typed
<1>2. task'[a] = t
  BY <1>1 DEF MovesTo, MovesShared, Outdated
<1>3. ASSUME NEW b \in Actors, b # a
      PROVE  task'[b].tries = task[b].tries /\ task'[b].pc = task[b].pc
  <2>1. task'[b] = task[b] \/ task'[b] = [task[b] EXCEPT !.current = FALSE]
    BY <1>1, <1>3 DEF MovesTo, MovesShared, Outdated
  <2>2. task[b] \in Task
    BY <1>1
  <2>. QED
    BY <2>1, <2>2 DEF Task
<1>. QED
  BY <1>2, <1>3 DEF TriesInv

LEMMA TriesAnew ==
  /\ NoTask.tries = 0 /\ NoTask.pc = "idle"
  /\ \A pc : InTries(0, pc)
  /\ \A a, pc : Over(a, pc).tries = 0 /\ Over(a, pc).pc = pc
BY MitigationAssumption DEF InTries, NoTask, Over

\* what only moves on within its pass
LEMMA TriesGoOn ==
  ASSUME NEW tries, NEW pc, InTries(tries, pc), NEW to,
         \/ to \notin {"generated", "accepted", "queued"}
         \/ pc \in {"generated", "accepted", "queued"}
  PROVE  InTries(tries, to)
BY DEF InTries

LEMMA TriesRequest ==
  ASSUME ApplyInv, TriesInv, NEW a \in Operators,
         \/ SubmitApply(a)
         \/ \E choice \in BgpConnectors \cup {NoConnector},
               mode \in {"manual_approval", "announce_now"} : ShowPage(a, choice, mode)
  PROVE  TriesInv'
<1>1. Typed /\ a \in Actors /\ task[a] \in Task /\ InTries(task[a].tries, task[a].pc)
  BY ActorsApart DEF ApplyInv, Typed, TriesInv
<1>2. CASE SubmitApply(a)
  <2>. DEFINE found == Resolved(task[a].choice, NoConnector)
              t == [Begun(task[a], found) EXCEPT !.choice = NoConnector]
  <2>1. MovesTo(a, Over(a, "answered")) \/ MovesTo(a, t)
    BY <1>2 DEF SubmitApply
  <2>2. t.tries = task[a].tries /\ t.pc = "resolved"
    BY <1>1 DEF Begun, Task
  <2>. HIDE DEF t
  <2>. QED
    BY <1>1, <2>1, <2>2, TriesMove, TriesAnew, TriesGoOn
<1>3. ASSUME NEW choice, NEW mode, ShowPage(a, choice, mode)
      PROVE  TriesInv'
  <2>. DEFINE t == [NoTask EXCEPT !.pc = "shown", !.choice = choice, !.mode = mode,
                                  !.current = Offered(choice, mode)]
  <2>1. MovesTo(a, t)
    BY <1>3 DEF ShowPage
  <2>2. t.tries = 0
    BY DEF NoTask
  <2>. HIDE DEF t
  <2>. QED
    BY <1>1, <2>1, <2>2, TriesMove, TriesAnew
<1>. QED
  BY <1>2, <1>3

LEMMA TriesWorker ==
  ASSUME ApplyInv, TriesInv,
         \/ \E c \in BgpConnectors : Generate(c)
         \/ Accept \/ Reserve \/ Block \/ ApplyStored \/ CloseExecution
  PROVE  TriesInv'
<1> DEFINE o == task[Orchestrator]
<1>0. /\ Typed /\ Orchestrator \in Actors /\ o \in Task /\ InTries(o.tries, o.pc)
  BY ActorsApart DEF ApplyInv, Typed, TriesInv
<1>1. ASSUME NEW c \in BgpConnectors, Generate(c)
      PROVE  TriesInv'
  <2> DEFINE t == [NoTask EXCEPT !.pc = "generated", !.mode = "automatic",
                                 !.stored = c, !.current = TRUE]
  <2>1. MovesTo(Orchestrator, t)
    BY <1>1 DEF Generate
  <2>2. t.tries = 0
    BY DEF NoTask
  <2> HIDE DEF t
  <2>. QED
    BY <1>0, <2>1, <2>2, TriesMove, TriesAnew
<1>2. ASSUME NEW to \in {"accepted", "queued"}, o.pc \in {"generated", "accepted"},
             \/ MovesTo(Orchestrator, [o EXCEPT !.pc = to])
             \/ MovesShared(Orchestrator, [o EXCEPT !.pc = to])
      PROVE  TriesInv'
  <2>1. [o EXCEPT !.pc = to].tries = o.tries /\ [o EXCEPT !.pc = to].pc = to
    BY <1>0 DEF Task
  <2>2. InTries(o.tries, to)
    BY <1>0, <1>2 DEF InTries
  <2>. QED
    BY <1>0, <1>2, <2>1, <2>2, TriesMove
<1>3. CASE Block
  BY <1>0, <1>3, TriesMove, TriesAnew DEF Block
<1>4. CASE ApplyStored
  <2> DEFINE found == Resolved(NoConnector, o.stored)
             t == [Begun(o, found) EXCEPT !.tries = @ + 1]
  <2>1. /\ o.pc = "queued"
        /\ \/ \E pc \in {"active", "failed"} : MovesShared(Orchestrator, Over(Orchestrator, pc))
           \/ MovesTo(Orchestrator, t)
    BY <1>4 DEF ApplyStored
  <2>2. t.tries = o.tries + 1 /\ t.pc = "resolved"
    BY <1>0 DEF Begun, Task
  <2>3. InTries(t.tries, t.pc)
    BY <1>0, <2>1, <2>2, MitigationAssumption DEF InTries
  <2> HIDE DEF t
  <2>. QED
    BY <1>0, <2>1, <2>3, TriesMove, TriesAnew
<1>5. CASE CloseExecution
  BY <1>0, <1>5, TriesMove, TriesAnew DEF CloseExecution
<1>6. CASE Accept
  BY <1>2, <1>6 DEF Accept
<1>7. CASE Reserve
  BY <1>2, <1>7 DEF Reserve
<1>. QED
  BY <1>1, <1>3, <1>4, <1>5, <1>6, <1>7

LEMMA TriesServing ==
  ASSUME ApplyInv, TriesInv, NEW a \in Actors, ApplyStep(a)
  PROVE  TriesInv'
<1> DEFINE c == NextConnector(a)
<1>0. Typed /\ task[a] \in Task /\ InTries(task[a].tries, task[a].pc)
  BY DEF ApplyInv, Typed, TriesInv
<1>1. CASE Examine(a)
  <2>. DEFINE t == [task[a] EXCEPT !.pc = "examined", !.seen[c] = "off",
                                   !.verdict = Verdict(a, c)]
  <2>1. MovesTo(a, t)
    BY <1>1 DEF Examine
  <2>2. t.tries = task[a].tries /\ t.pc = "examined"
    BY <1>0 DEF Task
  <2>. HIDE DEF t, c
  <2>. QED
    BY <1>0, <2>1, <2>2, TriesMove, TriesGoOn
<1>2. CASE Refuse(a)
  BY <1>0, <1>2, TriesMove, TriesAnew DEF Refuse
<1>3. CASE Insert(a)
  <2>. DEFINE t == [task[a] EXCEPT !.pc = "resolved", !.todo = @ \ {c}]
  <2>1. MovesShared(a, t)
    BY <1>3 DEF Insert
  <2>2. t.tries = task[a].tries /\ t.pc = "resolved"
    BY <1>0 DEF Task
  <2>. HIDE DEF t, c
  <2>. QED
    BY <1>0, <2>1, <2>2, TriesMove, TriesGoOn
<1>4. CASE Queue(a)
  <2>. DEFINE t == [task[a] EXCEPT !.pc = "delivering"]
  <2>1. MovesShared(a, t)
    BY <1>4 DEF Queue
  <2>2. t.tries = task[a].tries /\ t.pc = "delivering"
    BY <1>0 DEF Task
  <2>. HIDE DEF t, c
  <2>. QED
    BY <1>0, <2>1, <2>2, TriesMove, TriesGoOn
<1>5. ASSUME NEW sent \in BOOLEAN, Deliver(a, sent)
      PROVE  TriesInv'
  <2>. DEFINE t == [task[a] EXCEPT !.pc = "resolved", !.todo = @ \ {c},
                                   !.result = IF sent THEN "sent" ELSE "unsent"]
  <2>1. MovesShared(a, t)
    BY <1>5 DEF Deliver
  <2>2. t.tries = task[a].tries /\ t.pc = "resolved"
    BY <1>0 DEF Task
  <2>. HIDE DEF t, c
  <2>. QED
    BY <1>0, <2>1, <2>2, TriesMove, TriesGoOn
<1>6. CASE Finish(a)
  <2>. DEFINE again == [task[a] EXCEPT !.pc = "queued", !.result = "none"]
  <2>1. \/ \E pc \in {"answered", "active", "failed"} : MovesShared(a, Over(a, pc))
        \/ task[a].tries < MaxTries /\ MovesShared(a, again)
    BY <1>6 DEF Finish
  <2>2. again.tries = task[a].tries /\ again.pc = "queued"
    BY <1>0 DEF Task
  <2>3. task[a].tries < MaxTries => InTries(task[a].tries, "queued")
    BY <1>0, MitigationAssumption DEF InTries
  <2>. HIDE DEF again, c
  <2>. QED
    BY <1>0, <2>1, <2>2, <2>3, TriesMove, TriesAnew
<1>. QED
  BY <1>1, <1>2, <1>3, <1>4, <1>5, <1>6 DEF ApplyStep

LEMMA TriesNext ==
  ASSUME ApplyInv, TriesInv, [MitigationNext]_mitigationVars
  PROVE  TriesInv'
<1>1. ASSUME NEW shown, task' = task \/ task' = Outdated(task, shown)
      PROVE  TriesInv'
  BY <1>1, TriesOutdated DEF ApplyInv
<1>2. ASSUME NEW a \in Actors, NEW c \in BgpConnectors, EndRule(a, c)
      PROVE  TriesInv'
  BY <1>1, <1>2 DEF EndRule
<1>3. ASSUME NEW c \in BgpConnectors, CheckByHand(c)
      PROVE  TriesInv'
  BY <1>1, <1>3 DEF CheckByHand
<1>4. CASE EditSettings
  BY <1>1, <1>4 DEF EditSettings
<1>5. CASE AnnounceByHand
  BY <1>1, <1>5 DEF AnnounceByHand
<1>6. CASE UNCHANGED mitigationVars
  BY <1>1, <1>6 DEF mitigationVars
<1>. QED
  BY <1>2, <1>3, <1>4, <1>5, <1>6, TriesRequest, TriesWorker, TriesServing
  DEF MitigationNext

LEMMA HandsNext ==
  ASSUME HandsInv, [MitigationNext]_mitigationVars
  PROVE  HandsInv'
<1>1. CASE UNCHANGED <<candidate, handRules, byHand, edits>>
  BY <1>1 DEF HandsInv
<1>2. CASE EditSettings
  <2>1. edits' \in 0 .. MaxEdits
    BY <1>2, MitigationAssumption DEF EditSettings, HandsInv
  <2>. QED
    BY <1>2, <2>1 DEF EditSettings, HandsInv
<1>3. ASSUME NEW c \in BgpConnectors, CheckByHand(c)
      PROVE  HandsInv'
  <2>1. /\ byHand.pc = "idle" /\ byHand' = [byHand EXCEPT !.pc = "validated", !.on = c]
        /\ UNCHANGED <<candidate, handRules, edits>>
    BY <1>3 DEF CheckByHand
  <2>. QED
    BY <2>1 DEF HandsInv
<1>4. CASE AnnounceByHand
  <2>. DEFINE late == ~HasRoom(byHand.on)
  <2>1. /\ byHand.pc = "validated" /\ handRules' = [handRules EXCEPT ![byHand.on] = @ + 1]
        /\ byHand' = [byHand EXCEPT !.pc = "announced", !.late = late]
        /\ UNCHANGED <<candidate, edits>> /\ late \in BOOLEAN
    BY <1>4 DEF AnnounceByHand
  <2>. HIDE DEF late
  <2>2. /\ byHand.on \in BgpConnectors /\ handRules \in [BgpConnectors -> 0..1]
        /\ handRules[byHand.on] = 0
    BY <2>1 DEF HandsInv
  <2>3. handRules' \in [BgpConnectors -> 0..1]
    BY <2>1, <2>2
  <2>4. /\ byHand' \in [pc : {"idle", "validated", "announced"},
                        on : BgpConnectors \cup {NoConnector}, late : BOOLEAN]
        /\ byHand'.pc = "announced"
    BY <2>1 DEF HandsInv
  <2>. QED
    BY <2>1, <2>3, <2>4 DEF HandsInv
<1>5. ASSUME NEW a \in Actors, ApplyStep(a)
      PROVE  UNCHANGED <<candidate, handRules, byHand, edits>>
  BY <1>5 DEF ApplyStep, Examine, Refuse, Insert, Queue, Deliver, Finish
<1>6. ASSUME NEW a \in Operators,
             \/ SubmitApply(a)
             \/ \E choice \in BgpConnectors \cup {NoConnector},
                   mode \in {"manual_approval", "announce_now"} : ShowPage(a, choice, mode)
      PROVE  UNCHANGED <<candidate, handRules, byHand, edits>>
  BY <1>6 DEF SubmitApply, ShowPage
<1>7. ASSUME \/ \E c \in BgpConnectors : Generate(c)
             \/ Accept \/ Reserve \/ Block \/ ApplyStored \/ CloseExecution
      PROVE  UNCHANGED <<candidate, handRules, byHand, edits>>
  BY <1>7 DEF Generate, Accept, Reserve, Block, ApplyStored, CloseExecution
<1>8. ASSUME NEW a \in Actors, NEW c \in BgpConnectors, EndRule(a, c)
      PROVE  UNCHANGED <<candidate, handRules, byHand, edits>>
  BY <1>8 DEF EndRule
<1>. QED
  BY <1>1, <1>2, <1>3, <1>4, <1>5, <1>6, <1>7, <1>8 DEF MitigationNext, mitigationVars

LEMMA TypesInit == MitigationInit => TriesInv /\ HandsInv
<1>. SUFFICES ASSUME MitigationInit PROVE TriesInv /\ HandsInv
  OBVIOUS
<1>1. TriesInv
  BY TriesAnew DEF MitigationInit, TriesInv
<1>. QED
  BY <1>1, MitigationAssumption DEF MitigationInit, HandsInv

(* The settings, the rows, the tasks and the lock keep their types: the     *)
(* automatic rule is tried at most as often as the retries allow, although *)
(* the tries are counted in one step and compared in another, and an       *)
(* announcement by hand goes on with the connector it was checked for.     *)
THEOREM MitigationTypeCorrect ==
  ASSUME BgpConnectors # {}
  PROVE  MitigationSpec => []MitigationTypeOK
<1>1. MitigationInit => ApplyInv /\ TriesInv /\ HandsInv
  BY ApplyInit, TypesInit
<1>2. /\ ApplyInv /\ TriesInv /\ HandsInv /\ [MitigationNext]_mitigationVars
      => ApplyInv' /\ TriesInv' /\ HandsInv'
  BY ApplyNext, TriesNext, HandsNext
<1>3. ApplyInv /\ TriesInv /\ HandsInv => MitigationTypeOK
  <2>. SUFFICES ASSUME ApplyInv, TriesInv, HandsInv PROVE MitigationTypeOK
    OBVIOUS
  <2>1. \A a \in Actors : task[a] \in Task /\ task[a].tries \in 0..MaxTries
    BY DEF ApplyInv, Typed, TriesInv, InTries
  <2>2. task \in [Actors -> Tasks]
    <3>1. \A t \in Task : t.tries \in 0..MaxTries => t \in Tasks
      BY DEF Task, Tasks
    <3>. QED
      BY <2>1, <3>1 DEF ApplyInv, Typed
  <2>. QED
    BY <2>2 DEF MitigationTypeOK, ApplyInv, Typed, HandsInv
<1>. QED
  BY <1>1, <1>2, <1>3, PTL DEF MitigationSpec

=============================================================================
