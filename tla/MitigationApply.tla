--------------------------- MODULE MitigationApply ---------------------------
(***************************************************************************)
(* How a mitigation candidate of an anomaly becomes a FlowSpec rule:       *)
(* connector resolution, policy and validation, run once to show the       *)
(* candidate on the page, once to generate the automatic proposal, and     *)
(* again, under SQLite's writer lock, when it is applied                   *)
(* (apply_mitigation_candidate in src/backend/app/main.py).  Administrators *)
(* edit settings between any two of these steps.                           *)
(*                                                                         *)
(* Simplifications: one candidate, with a response profile and the action  *)
(* discard; durations, rate limits, cooldowns and the AI answer are left    *)
(* out; the endpoint's evaluation and the resolution that follows read the *)
(* same settings.  What happens to a row once it is inserted is            *)
(* BgpAnnouncement's subject: here it is delivered or not, and may end.    *)
(***************************************************************************)
EXTENDS Integers, FiniteSets, FiniteSetsExt

CONSTANTS BgpConnectors,  \* ids, the order in which they are served
          Operators,      \* administrators' requests to apply the candidate
          Kinds,          \* candidates to check, of AllKinds
          MaxRules,       \* max_active_rules of a connector
          MaxEdits,       \* bound on the edits of settings
          MaxTries        \* bound on the applications of the automatic rule

AllKinds == {"automatic_dns", "session", "dns_destination", "dns_conversation",
             "dns_source", "destination_port", "target_prefix", "port_only"}

ASSUME MitigationAssumption ==
    /\ BgpConnectors \subseteq Nat \ {0} /\ IsFiniteSet(BgpConnectors)
    /\ Kinds \subseteq AllKinds
    /\ MaxRules \in Nat \ {0} /\ MaxEdits \in Nat /\ MaxTries \in Nat \ {0}
    /\ "orchestrator" \notin Operators /\ "nobody" \notin Operators

Orchestrator == "orchestrator"
Actors == Operators \cup {Orchestrator}
NoConnector == 0

VARIABLES candidate,   \* what the detection fixed: kind, flags, evidence
          conf,        \* settings, as committed
          rules,       \* the rows each actor inserted, by connector
          handRules,   \* rows of other matches announced by hand
          byHand,      \* the announcement by hand in progress
          task,        \* per actor, where its application stands
          dbWriter,    \* who holds SQLite's writer lock
          edits        \* edits so far

mitigationVars ==
    <<candidate, conf, rules, handRules, byHand, task, dbWriter, edits>>

ConnectorModes == {"off", "detection_only", "dry_run", "other_backend",
                   "manual_approval", "automatic"}
Candidates ==
    [kind: Kinds, strict: BOOLEAN, profileStrict: BOOLEAN, evidence: BOOLEAN,
     addressing: {"direct", "shared", "unresolved"}]
Settings ==
    [mode: [BgpConnectors -> ConnectorModes], zone: SUBSET BgpConnectors,
     preferred: SUBSET BgpConnectors, authorized: BOOLEAN, protected: BOOLEAN,
     listed: BOOLEAN, vector: {"automatic", "manual_approval", "disabled"},
     profileAuto: BOOLEAN, profileOn: BOOLEAN]
RuleStates == {"none", "pending_approval", "queued", "advertised"}
Verdicts == {"refused", "rejected_by_policy", "pending_approval", "dry_run", "queued"}

-----------------------------------------------------------------------------
(* The candidate                                                           *)

DnsSingleFlow == candidate.kind \in {"automatic_dns", "session"}
Outbound == candidate.kind \in {"automatic_dns", "session", "dns_destination",
                                "dns_conversation", "destination_port"}
NeverAnnounce == candidate.kind = "dns_source"
HasScope == candidate.kind # "port_only"  \* a critical port, of any address
HostScope == HasScope /\ candidate.kind # "target_prefix"

\* the subscriber behind a shared or unknown address: a destination-only DNS
\* rule touches no subscriber, and conversations are exempt
CgnatBlocks ==
    /\ candidate.kind \notin {"session", "dns_conversation"}
    /\ \/ candidate.addressing = "unresolved"
       \/ /\ candidate.addressing = "shared"
          /\ candidate.kind \notin {"automatic_dns", "dns_destination"}

\* mitigation_mode, as the builders leave it
CandidateMode ==
    IF NeverAnnounce THEN "analysis_only"
    ELSE IF candidate.kind = "session" \/ CgnatBlocks THEN "manual_approval"
    ELSE conf.vector

-----------------------------------------------------------------------------
(* Resolution, policy and validation                                       *)

ActiveConnectors == {c \in BgpConnectors : conf.mode[c] # "off"}

OperatorMayUse(c) ==
    /\ c \in ActiveConnectors
    /\ Outbound =>
         /\ conf.authorized
         /\ conf.zone \cap ActiveConnectors # {} => c \in conf.zone

\* the connectors a rule goes to: the operator's choice, or the first of these
\* that names an active one
Resolved(choice, explicit) ==
    LET zone == conf.zone \cap ActiveConnectors
        preferred == conf.preferred \cap ActiveConnectors
        own == {explicit} \cap ActiveConnectors
    IN IF choice # NoConnector
       THEN {c \in {choice} : OperatorMayUse(c)}
       ELSE IF Outbound /\ ~conf.authorized THEN {}
       ELSE IF zone # {} THEN zone
       ELSE IF preferred # {} THEN preferred
       ELSE IF own # {} THEN own
       ELSE ActiveConnectors

Denied(mode) ==
    \/ mode = "disabled"
    \/ ~HasScope
    \/ candidate.strict /\ Outbound /\ ~conf.authorized

Doubtful(mode) ==
    \/ mode # "automatic"
    \/ ~HostScope
    \/ candidate.strict /\ ~Outbound /\ ~conf.protected

\* slip: a whitelist hit always leaves the rule to an administrator
DecisionByHand(mode) ==
    IF conf.listed THEN "require_manual_approval"
    ELSE IF Denied(mode) THEN "deny"
    ELSE IF Doubtful(mode) THEN "require_manual_approval"
    ELSE "allow_auto"

\* a whitelist hit has the last word, over a denial too
Decision(mode) ==
    IF conf.listed
    THEN IF DnsSingleFlow THEN "deny" ELSE "require_manual_approval"
    ELSE IF Denied(mode) THEN "deny"
    ELSE IF Doubtful(mode) THEN "require_manual_approval"
    ELSE "allow_auto"

Reserving(a, c) == rules[a][c] # "none"
RulesOn(c) == Cardinality({a \in Actors : Reserving(a, c)}) + handRules[c]
Equivalent(c) == \E a \in Actors : Reserving(a, c)
Advertised(c) == \E a \in Actors : rules[a][c] = "advertised"
\* slip: only rules already sent count against the limit
HasRoomForSent(c) ==
    Cardinality({a \in Actors : rules[a][c] = "advertised"}) + handRules[c] < MaxRules

HasRoom(c) == RulesOn(c) < MaxRules

\* no error of validate_mitigation_candidate but the duplicate's, for the mode
\* and the profile state the caller read
ValidRule(c, mode, profileOn) ==
    /\ mode \notin {"off", "detection_only"}
    /\ profileOn
    /\ HasScope
    /\ candidate.profileStrict /\ Outbound => conf.authorized
    /\ HasRoom(c)

-----------------------------------------------------------------------------
(* The proposals: what the page offers, what the worker generates          *)

\* an automatic candidate short of evidence is one to approve by hand
PageDecision ==
    IF candidate.evidence THEN Decision(CandidateMode) ELSE "require_manual_approval"

Actionable(choice) ==
    LET found == Resolved(choice, NoConnector) IN
    /\ Cardinality(found) = 1
    /\ PageDecision # "deny"
    /\ ~NeverAnnounce
    /\ \A c \in found : ValidRule(c, conf.mode[c], conf.profileOn) /\ ~Equivalent(c)

\* an execution that reserves the key of this candidate on connector c
Reserves(c) ==
    /\ task[Orchestrator].pc \in {"queued", "resolved", "examined", "delivering", "active"}
    /\ task[Orchestrator].stored = c
\* slip: the page does not look at the executions that reserve the key
OfferedUnreserved(choice, mode) ==
    /\ Actionable(choice)
    /\ \A c \in Resolved(choice, NoConnector) :
         mode = "announce_now" => conf.mode[c] \notin {"dry_run", "other_backend"}

Offered(choice, mode) ==
    /\ Actionable(choice)
    /\ \A c \in Resolved(choice, NoConnector) :
         /\ ~Reserves(c)
         /\ mode = "announce_now" => conf.mode[c] \notin {"dry_run", "other_backend"}

DnsGate ==
    /\ candidate.kind = "automatic_dns" =>
         ~conf.listed /\ candidate.addressing # "unresolved"
    /\ candidate.evidence

\* slip: the proposal names an automatic connector without resolving it
EligibleUnresolved(c) ==
    /\ DnsGate /\ ~CgnatBlocks
    /\ CandidateMode = "automatic" /\ conf.profileAuto
    /\ Decision("automatic") = "allow_auto"
    /\ ValidRule(c, conf.mode[c], conf.profileOn) /\ conf.mode[c] = "automatic"

\* the gates of the automatic proposal, on the only connector it resolves to;
\* an equivalent rule does not stop it here
Eligible(c) ==
    /\ DnsGate
    /\ ~CgnatBlocks
    /\ CandidateMode = "automatic"
    /\ conf.profileAuto
    /\ Resolved(NoConnector, NoConnector) = {c}
    /\ Decision("automatic") = "allow_auto"
    /\ ValidRule(c, conf.mode[c], conf.profileOn)
    /\ conf.mode[c] = "automatic"

-----------------------------------------------------------------------------
NoTask ==
    [pc |-> "idle", mode |-> "manual_approval", choice |-> NoConnector,
     stored |-> NoConnector, todo |-> {}, seen |-> [c \in BgpConnectors |-> "off"],
     seenProfile |-> FALSE, verdict |-> "refused", result |-> "none", current |-> FALSE,
     tries |-> 0]

MitigationInit ==
    /\ candidate \in Candidates
    /\ conf \in {[mode |-> [c \in BgpConnectors |-> "automatic"], zone |-> {},
                 preferred |-> {Min(BgpConnectors)}, authorized |-> TRUE,
                 protected |-> TRUE, listed |-> listed, vector |-> "automatic",
                 profileAuto |-> TRUE, profileOn |-> TRUE] : listed \in BOOLEAN}
    /\ rules = [a \in Actors |-> [c \in BgpConnectors |-> "none"]]
    /\ handRules = [c \in BgpConnectors |-> 0]
    /\ byHand = [pc |-> "idle", on |-> NoConnector, late |-> FALSE]
    /\ task = [a \in Actors |-> NoTask]
    /\ dbWriter = "nobody"
    /\ edits = 0

\* the tasks, with what these actors were shown no longer the present state
Outdated(tasks, actors) ==
    [a \in Actors |-> IF a \in actors THEN [tasks[a] EXCEPT !.current = FALSE] ELSE tasks[a]]

\* the end of a's task, with the verdict on the last connector
Over(a, pc) ==
    [NoTask EXCEPT !.pc = pc, !.stored = task[a].stored,
                   !.verdict = task[a].verdict, !.current = task[a].current]

\* a's task moves on; when rows or reservations change, the pages of the
\* other operators no longer show the present state
MovesTo(a, t) == task' = [task EXCEPT ![a] = t]
MovesShared(a, t) == task' = Outdated([task EXCEPT ![a] = t], Operators \ {a})

-----------------------------------------------------------------------------
(* Settings                                                                *)

Edited ==
    {[conf EXCEPT !.mode[c] = m] : c \in BgpConnectors, m \in ConnectorModes}
      \cup {[conf EXCEPT !.zone = z, !.authorized = (z # {} \/ @)] :
               z \in {{}} \cup {{c} : c \in BgpConnectors}}
      \cup {[conf EXCEPT !.preferred = p] : p \in SUBSET BgpConnectors}
      \cup {[conf EXCEPT !.zone = {}, !.authorized = ~@],
            [conf EXCEPT !.protected = ~@], [conf EXCEPT !.listed = ~@],
            [conf EXCEPT !.profileAuto = ~@], [conf EXCEPT !.profileOn = ~@]}
      \cup {[conf EXCEPT !.vector = v] :
               v \in {"automatic", "manual_approval", "disabled"}}

EditSettings ==
    /\ edits < MaxEdits
    /\ dbWriter = "nobody"
    /\ conf' \in Edited \ {conf}
    /\ edits' = edits + 1
    /\ task' = Outdated(task, Actors)
    /\ UNCHANGED <<candidate, rules, handRules, byHand, dbWriter>>

\* the connectors and the profile are read before the writer lock is taken
Begun(t, found) ==
    [t EXCEPT !.pc = "resolved", !.todo = found, !.seenProfile = conf.profileOn,
              !.seen = [c \in BgpConnectors |->
                          IF c \in found THEN conf.mode[c] ELSE "off"]]

-----------------------------------------------------------------------------
(* A request of an administrator                                           *)

ShowPage(a, choice, mode) ==
    /\ task[a].pc = "idle"
    /\ MovesTo(a, [NoTask EXCEPT !.pc = "shown", !.choice = choice, !.mode = mode,
                                 !.current = Offered(choice, mode)])
    /\ UNCHANGED <<candidate, conf, rules, handRules, byHand, dbWriter, edits>>

\* the endpoint takes any candidate of the page, offered or not
SubmitApply(a) ==
    LET found == Resolved(task[a].choice, NoConnector) IN
    /\ task[a].pc = "shown"
    /\ IF NeverAnnounce \/ found = {}
       THEN MovesTo(a, Over(a, "answered"))
       ELSE MovesTo(a, [Begun(task[a], found) EXCEPT !.choice = NoConnector])
    /\ UNCHANGED <<candidate, conf, rules, handRules, byHand, dbWriter, edits>>

-----------------------------------------------------------------------------
(* The automatic rule                                                      *)

Generate(c) ==
    /\ task[Orchestrator].pc = "idle"
    /\ Eligible(c)
    /\ MovesTo(Orchestrator, [NoTask EXCEPT !.pc = "generated", !.mode = "automatic",
                                            !.stored = c, !.current = TRUE])
    /\ UNCHANGED <<candidate, conf, rules, handRules, byHand, dbWriter, edits>>

\* the executor's own validation and readiness
Accept ==
    LET c == task[Orchestrator].stored IN
    /\ task[Orchestrator].pc = "generated"
    /\ conf.mode[c] = "automatic"
    /\ ValidRule(c, conf.mode[c], conf.profileOn)
    /\ ~Equivalent(c)
    /\ MovesTo(Orchestrator, [task[Orchestrator] EXCEPT !.pc = "accepted"])
    /\ UNCHANGED <<candidate, conf, rules, handRules, byHand, dbWriter, edits>>

\* the key is looked up among the executions, not among the announcements
Reserve ==
    /\ task[Orchestrator].pc = "accepted"
    /\ dbWriter = "nobody"
    /\ MovesShared(Orchestrator, [task[Orchestrator] EXCEPT !.pc = "queued"])
    /\ UNCHANGED <<candidate, conf, rules, handRules, byHand, dbWriter, edits>>

\* refused, or the connector is not ready: the next pass generates again
Block ==
    /\ task[Orchestrator].pc = "generated"
    /\ MovesTo(Orchestrator, NoTask)
    /\ UNCHANGED <<candidate, conf, rules, handRules, byHand, dbWriter, edits>>

\* the stored proposal is applied, now and at every retry: its connector is
\* resolved again, its executor's validation is not repeated
ApplyStored ==
    LET t == task[Orchestrator]
        found == Resolved(NoConnector, t.stored)
    IN /\ t.pc = "queued"
       /\ \/ /\ Equivalent(t.stored)
             /\ MovesShared(Orchestrator,
                   Over(Orchestrator, IF Advertised(t.stored) THEN "active" ELSE "failed"))
          \/ /\ ~Equivalent(t.stored)
             /\ ~conf.profileAuto \/ Cardinality(found) # 1
             /\ MovesShared(Orchestrator, Over(Orchestrator, "failed"))
          \/ /\ ~Equivalent(t.stored)
             /\ conf.profileAuto /\ Cardinality(found) = 1
             /\ MovesTo(Orchestrator, [Begun(t, found) EXCEPT !.tries = @ + 1])
       /\ UNCHANGED <<candidate, conf, rules, handRules, byHand, dbWriter, edits>>

\* its announcement ended: the execution follows
CloseExecution ==
    /\ task[Orchestrator].pc = "active"
    /\ ~Equivalent(task[Orchestrator].stored)
    /\ MovesShared(Orchestrator, Over(Orchestrator, "closed"))
    /\ UNCHANGED <<candidate, conf, rules, handRules, byHand, dbWriter, edits>>

-----------------------------------------------------------------------------
(* apply_mitigation_candidate, one connector after the other               *)

\* what the checks under the writer lock conclude, in the order of the code
Verdict(a, c) ==
    LET t == task[a]
        decision == Decision(IF a = Orchestrator THEN "automatic" ELSE "manual_approval")
    IN IF a # Orchestrator /\ Reserves(c) THEN "refused"
       ELSE IF Equivalent(c) THEN "refused"
       ELSE IF decision = "deny" THEN "rejected_by_policy"
       ELSE IF ~ValidRule(c, t.seen[c], t.seenProfile) THEN "refused"
       ELSE IF t.mode = "automatic" /\ decision # "allow_auto" THEN "refused"
       ELSE IF t.mode = "manual_approval" THEN "pending_approval"
       ELSE IF t.seen[c] = "dry_run" THEN "dry_run"
       ELSE IF t.seen[c] = "other_backend" THEN "refused"
       ELSE "queued"

NextConnector(a) == Min(task[a].todo)

\* slip: the checks do not take the writer lock
MayWriteAnyway(a) == dbWriter \in Actors \cup {"nobody"}

\* BEGIN IMMEDIATE unless the transaction of the previous connector is open
MayWrite(a) == dbWriter \in {"nobody", a}

Examine(a) ==
    /\ task[a].pc = "resolved"
    /\ task[a].todo # {}
    /\ MayWrite(a)
    /\ dbWriter' = a
    /\ MovesTo(a, [task[a] EXCEPT !.pc = "examined",
                                  !.seen[NextConnector(a)] = "off",
                                  !.verdict = Verdict(a, NextConnector(a))])
    /\ UNCHANGED <<candidate, conf, rules, handRules, byHand, edits>>

\* the connectors left are not served: the HTTP error ends the request
Refuse(a) ==
    /\ task[a].pc = "examined"
    /\ task[a].verdict = "refused"
    /\ dbWriter' = "nobody"
    /\ MovesShared(a, Over(a, IF a # Orchestrator THEN "answered"
                              ELSE IF Advertised(task[a].stored) THEN "active"
                              ELSE "failed"))
    /\ UNCHANGED <<candidate, conf, rules, handRules, byHand, edits>>

\* rejected and dry-run rows reserve nothing
Insert(a) ==
    LET c == NextConnector(a) IN
    /\ task[a].pc = "examined"
    /\ task[a].verdict \in {"rejected_by_policy", "dry_run", "pending_approval"}
    /\ rules' = IF task[a].verdict = "pending_approval"
                THEN [rules EXCEPT ![a][c] = "pending_approval"] ELSE rules
    /\ MovesShared(a, [task[a] EXCEPT !.pc = "resolved", !.todo = @ \ {c}])
    /\ UNCHANGED <<candidate, conf, handRules, byHand, dbWriter, edits>>

\* the queued row is committed before anything is sent
Queue(a) ==
    /\ task[a].pc = "examined"
    /\ task[a].verdict = "queued"
    /\ rules' = [rules EXCEPT ![a][NextConnector(a)] = "queued"]
    /\ dbWriter' = "nobody"
    /\ MovesShared(a, [task[a] EXCEPT !.pc = "delivering"])
    /\ UNCHANGED <<candidate, conf, handRules, byHand, edits>>

\* attempt_bgp_announcement: advertised, or failed and no longer reserving
Deliver(a, sent) ==
    LET c == NextConnector(a) IN
    /\ task[a].pc = "delivering"
    /\ dbWriter = "nobody"
    /\ rules' = [rules EXCEPT ![a][c] = IF sent THEN "advertised" ELSE "none"]
    /\ MovesShared(a, [task[a] EXCEPT !.pc = "resolved", !.todo = @ \ {c},
                                      !.result = IF sent THEN "sent" ELSE "unsent"])
    /\ UNCHANGED <<candidate, conf, handRules, byHand, dbWriter, edits>>

\* every connector served; only a failed delivery of the automatic rule is
\* tried again
Finish(a) ==
    LET t == task[a]
        next == IF a # Orchestrator THEN Over(a, "answered")
                ELSE IF t.result = "sent" THEN Over(a, "active")
                ELSE IF t.result = "unsent" /\ t.tries < MaxTries
                THEN [t EXCEPT !.pc = "queued", !.result = "none"]
                ELSE Over(a, "failed")
    IN
    /\ t.pc = "resolved"
    /\ t.todo = {}
    /\ dbWriter' = IF dbWriter = a THEN "nobody" ELSE dbWriter
    /\ MovesShared(a, next)
    /\ UNCHANGED <<candidate, conf, rules, handRules, byHand, edits>>

-----------------------------------------------------------------------------
(* Rules by other ways                                                     *)

\* withdrawn, expired or cancelled
EndRule(a, c) ==
    /\ rules[a][c] \in {"pending_approval", "advertised"}
    /\ dbWriter = "nobody"
    /\ rules' = [rules EXCEPT ![a][c] = "none"]
    /\ task' = Outdated(task, Operators)
    /\ UNCHANGED <<candidate, conf, handRules, byHand, dbWriter, edits>>

\* a rule of another match, announced by hand: validated, then, once the lock
\* is taken, only looked up by its key
CheckByHand(c) ==
    /\ byHand.pc = "idle"
    /\ conf.mode[c] \in {"manual_approval", "automatic"}
    /\ HasRoom(c)
    /\ byHand' = [byHand EXCEPT !.pc = "validated", !.on = c]
    /\ UNCHANGED <<candidate, conf, rules, handRules, task, dbWriter, edits>>

AnnounceByHand ==
    /\ byHand.pc = "validated"
    /\ dbWriter = "nobody"
    /\ handRules' = [handRules EXCEPT ![byHand.on] = @ + 1]
    /\ byHand' = [byHand EXCEPT !.pc = "announced", !.late = ~HasRoom(byHand.on)]
    /\ task' = Outdated(task, Operators)
    /\ UNCHANGED <<candidate, conf, rules, dbWriter, edits>>

-----------------------------------------------------------------------------
ApplyStep(a) ==
    \/ Examine(a) \/ Refuse(a) \/ Insert(a) \/ Queue(a) \/ Finish(a)
    \/ \E sent \in BOOLEAN : Deliver(a, sent)

MitigationNext ==
    \/ EditSettings
    \/ \E a \in Operators, choice \in BgpConnectors \cup {NoConnector},
          mode \in {"manual_approval", "announce_now"} : ShowPage(a, choice, mode)
    \/ \E a \in Operators : SubmitApply(a)
    \/ \E c \in BgpConnectors : Generate(c) \/ CheckByHand(c)
    \/ Accept \/ Reserve \/ Block \/ ApplyStored \/ CloseExecution
    \/ \E a \in Actors : ApplyStep(a)
    \/ \E a \in Actors, c \in BgpConnectors : EndRule(a, c)
    \/ AnnounceByHand

MitigationSpec == MitigationInit /\ [][MitigationNext]_mitigationVars

-----------------------------------------------------------------------------
(* Types                                                                   *)

Pcs == {"idle", "shown", "resolved", "examined", "delivering", "answered",
        "generated", "accepted", "queued", "active", "failed", "closed"}
Tasks ==
    [pc: Pcs, mode: {"manual_approval", "announce_now", "automatic"},
     choice: BgpConnectors \cup {NoConnector}, stored: BgpConnectors \cup {NoConnector},
     todo: SUBSET BgpConnectors, seen: [BgpConnectors -> ConnectorModes],
     seenProfile: BOOLEAN, verdict: Verdicts, result: {"none", "sent", "unsent"},
     current: BOOLEAN, tries: 0..MaxTries]

(* The type invariant of the state of this module. *)
MitigationTypeOK ==
    /\ candidate \in Candidates /\ conf \in Settings
    /\ rules \in [Actors -> [BgpConnectors -> RuleStates]]
    /\ handRules \in [BgpConnectors -> 0..1]
    /\ byHand \in [pc: {"idle", "validated", "announced"},
                   on: BgpConnectors \cup {NoConnector}, late: BOOLEAN]
    /\ task \in [Actors -> Tasks]
    /\ dbWriter \in Actors \cup {"nobody"}
    /\ edits \in 0..MaxEdits

-----------------------------------------------------------------------------
(* Properties                                                              *)

(* A candidate is applied once: two requests, or a request and the         *)
(* automatic rule, never hold two rows of it on one connector, because the *)
(* checks and the insertion of apply_mitigation_candidate are one critical *)
(* section; and the automatic rule never has rows on two connectors,       *)
(* whatever the retries and the resolutions in between.                    *)
AppliedOnce ==
    /\ \A c \in BgpConnectors, a, b \in Actors :
         Reserving(a, c) /\ Reserving(b, c) => a = b
    /\ \A c, d \in BgpConnectors :
         Reserving(Orchestrator, c) /\ Reserving(Orchestrator, d) => c = d

(* A connector carries more rules than max_active_rules only where an      *)
(* announcement by hand, whose limit was checked before the lock, came     *)
(* too late; applying a candidate never overfills it.                      *)
LimitOnlyByHand ==
    \A c \in BgpConnectors : RulesOn(c) > MaxRules => byHand.on = c /\ byHand.late

(* What the administrator sends, in any mode and with any connector chosen, *)
(* has an address, is no analysis-only candidate and no whitelisted DNS    *)
(* destination; from an origin no longer authorized it can only leave when *)
(* neither flag demands the origin, or when a whitelist hit, which turns   *)
(* any denial into an approval by hand, replaced the vector's denial.      *)
SentIsDefensible ==
    \A a \in Actors :
      task[a].pc = "examined" /\ task[a].verdict \in {"pending_approval", "queued"} =>
        /\ HasScope /\ ~NeverAnnounce
        /\ ~(conf.listed /\ DnsSingleFlow)
        /\ Outbound /\ ~conf.authorized =>
             ~candidate.profileStrict /\ (candidate.strict => conf.listed)

(* What the page offers for a candidate with evidence is what the endpoint *)
(* does: if nothing changed in between, an offered action is neither       *)
(* refused nor rejected, although it is decided by another evaluation, for *)
(* another mode and connector.  Without evidence the page's gate replaces  *)
(* a denial by its own offer (README).                                     *)
PageIsHonoured ==
    \A a \in Operators :
      task[a].pc = "answered" /\ task[a].current /\ candidate.evidence =>
        task[a].verdict \in {"pending_approval", "queued"}

(* With no edit since its proposal was generated, the automatic rule is    *)
(* sent to the connector the proposal was validated and reserved for, an   *)
(* automatic one, although the connector is resolved anew.                 *)
AutomaticAsValidated ==
    LET t == task[Orchestrator] IN
    t.pc = "delivering" /\ t.current =>
      NextConnector(Orchestrator) = t.stored /\ conf.mode[t.stored] = "automatic"

(* docs/mitigation-playbook.md: candidates that are manual_only are never  *)
(* announced automatically.                                                *)
ManualOnlyNeverAutomatic ==
    candidate.kind = "destination_port" =>
      \A c \in BgpConnectors : rules[Orchestrator][c] # "advertised"
=============================================================================
