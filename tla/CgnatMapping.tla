----------------------------- MODULE CgnatMapping -----------------------------
(***************************************************************************)
(* The imports of CGNAT mappings: a file is uploaded, parsed into a preview, *)
(* approved, activated, replaced by a later one, and looked up by public    *)
(* address, port and protocol to find the subscriber behind it              *)
(* (src/backend/app/services/cgnat_mapping.py).                             *)
(*                                                                         *)
(* A request reads the import first and writes later, in one transaction    *)
(* that no other request interleaves with, but that does not read again;    *)
(* other requests may write in between.                                     *)
(*                                                                         *)
(* Simplifications: the parsers are a choice among the sets of records of   *)
(* Payloads (a record repeated in a file is one member), checks of a single *)
(* record against the text of the file are left out, and so are subscriber  *)
(* names, confidence and notes.  An import is one file; approvals are        *)
(* numbered instead of dated.                                               *)
(***************************************************************************)
EXTENDS Naturals, FiniteSets

CONSTANTS
    Imports,    \* rows of cgnat_import_batches
    Admins,     \* threads that serve requests of administrators
    Payloads,   \* sets of records that a file can be parsed to
    Terms,      \* connectors and periods given with an upload
    MaxParses   \* bound: times an import is parsed

AnyProtocol == "any"
AnyConnector == 0
Open == 0       \* no valid_from, no valid_until

ASSUME CgnatAssumption ==
    /\ MaxParses \in Nat
    /\ Terms \subseteq [connector : Nat, from : Nat, until : Nat]
    /\ \A p \in Payloads : \A r \in p :
         /\ DOMAIN r = {"public", "private", "protocol", "first", "last"}
         /\ r.first \in Nat /\ r.last \in Nat

VARIABLES
    import,     \* the committed rows, with their preview and their mappings
    serving,    \* the requests, with what they have read
    approvals,  \* the time of approved_at: how often an import was approved
    unsound     \* history: imports that a request wrote on a reading out of date, or
                \* that a refused parse marked failed

cgnatVars == <<import, serving, approvals, unsound>>

Published == {"approved", "active", "superseded"}
Statuses == {"none", "uploaded", "processing", "awaiting_approval", "validation_failed",
             "failed", "rejected"} \cup Published
Operations == {"parse", "parsing", "refused", "approve", "activate", "deactivate", "reject"}
Records == UNION Payloads

NoImport(t) ==
    [status |-> "none", terms |-> t, preview |-> {}, mappings |-> {}, live |-> {},
     approved |-> 0, parses |-> 0]

AtEase == [op |-> "none"]

CgnatInit ==
    /\ \E t \in [Imports -> Terms] : import = [b \in Imports |-> NoImport(t[b])]
    /\ serving = [a \in Admins |-> AtEase]
    /\ approvals = 0 /\ unsound = {}

-----------------------------------------------------------------------------
(* Records and mappings                                                    *)

ProtocolsOverlap(p, q) == p = q \/ p = AnyProtocol \/ q = AnyProtocol
RangesOverlap(r, s) == r.first <= s.last /\ s.first <= r.last

\* slip: records of protocol any are taken for a protocol of its own
SameEndpointExact(r, s) ==
    r.public = s.public /\ r.protocol = s.protocol /\ RangesOverlap(r, s)

SameEndpoint(r, s) ==
    r.public = s.public /\ ProtocolsOverlap(r.protocol, s.protocol) /\ RangesOverlap(r, s)

\* one private address behind one public range, told by protocol
SplitByProtocol(r, s) ==
    /\ r.public = s.public /\ r.first = s.first /\ r.last = s.last
    /\ r.protocol # s.protocol

\* validate_cgnat_records: both sides of a conflict are left out, first of the
\* conflicts of a public address, then, of what is left, those of a private one
ValidRows(payload) ==
    LET clear == {r \in payload :
                    ~\E s \in payload : SameEndpoint(r, s) /\ r.private # s.private}
    IN {r \in clear :
          ~\E s \in clear \ {r} : /\ r.private = s.private
                                  /\ ProtocolsOverlap(r.protocol, s.protocol)
                                  /\ RangesOverlap(r, s)
                                  /\ ~SplitByProtocol(r, s)}

ConnectorsOverlap(t, u) ==
    t.connector = u.connector \/ t.connector = AnyConnector \/ u.connector = AnyConnector

Meets(until, from) == until = Open \/ from = Open \/ until >= from
PeriodsOverlap(t, u) == Meets(t.until, u.from) /\ Meets(u.until, t.from)

\* conflicting_active_batch_ids: it asks for live mappings, whatever the status
Conflicting(b) ==
    {c \in Imports \ {b} :
       /\ ConnectorsOverlap(import[b].terms, import[c].terms)
       /\ PeriodsOverlap(import[b].terms, import[c].terms)
       /\ \E r \in import[b].mappings, s \in import[c].live : SameEndpoint(r, s)}

-----------------------------------------------------------------------------
(* Requests                                                                *)

\* create_cgnat_import_batch
Upload(b) ==
    /\ import[b].status = "none"
    /\ import' = [import EXCEPT ![b].status = "uploaded"]
    /\ UNCHANGED <<serving, approvals, unsound>>

Allowed(op, b) ==
    CASE op = "parse" -> ~(import[b].status \in Published \cup {"rejected"})
      [] op = "approve" -> import[b].status = "awaiting_approval" /\ import[b].preview # {}
      [] op = "activate" -> import[b].status = "approved" /\ import[b].mappings # {}
      [] op = "deactivate" -> import[b].status = "active"
      [] op = "reject" -> ~(import[b].status \in {"active", "superseded"})

Reads(a, op, b) ==
    serving' = [serving EXCEPT ![a] =
        [op |-> op, on |-> b, status |-> import[b].status,
         preview |-> IF op = "approve" THEN import[b].preview ELSE {},
         conflicts |-> IF op = "activate" THEN Conflicting(b) ELSE {}]]

\* what the request reads, and its checks
Ask(a, op, b) ==
    /\ serving[a] = AtEase /\ import[b].status # "none"
    /\ Allowed(op, b)
    /\ op = "parse" => import[b].parses < MaxParses
    /\ Reads(a, op, b)
    /\ UNCHANGED <<import, approvals, unsound>>

AskActivate(a, b, replace) ==
    /\ serving[a] = AtEase
    /\ Allowed("activate", b)
    /\ Conflicting(b) # {} => replace
    /\ Reads(a, "activate", b)
    /\ UNCHANGED <<import, approvals, unsound>>

\* batch_cannot_be_reparsed
AskRefused(a, b) ==
    /\ serving[a] = AtEase /\ import[b].status # "none"
    /\ ~Allowed("parse", b)
    /\ Reads(a, "refused", b)
    /\ UNCHANGED <<import, approvals, unsound>>

-----------------------------------------------------------------------------
(* What the request writes                                                 *)

OutOfDate(s) ==
    \/ import[s.on].status # s.status
    \/ s.op = "approve" /\ import[s.on].preview # s.preview
    \/ s.op = "activate" /\ ~(Conflicting(s.on) \subseteq s.conflicts)

Marked(s) ==
    IF s.op = "refused" \/ OutOfDate(s) THEN unsound \cup {s.on} ELSE unsound

\* request a ends, leaving the imports as in `after'
Answers(a, after) ==
    /\ import' = after
    /\ serving' = [serving EXCEPT ![a] = AtEase]
    /\ unsound' = Marked(serving[a])

\* 'processing' is committed when the preview's schema check runs its script
StartParse(a) ==
    LET s == serving[a] IN
    /\ s.op = "parse"
    /\ import' = [import EXCEPT ![s.on].status = "processing", ![s.on].parses = @ + 1]
    /\ serving' = [serving EXCEPT ![a].op = "parsing", ![a].status = "processing"]
    /\ unsound' = Marked(s)
    /\ UNCHANGED approvals

\* store_cgnat_preview, which does not look at the status again
StorePreview(a, payload) ==
    LET s == serving[a] IN
    /\ s.op = "parsing"
    /\ Answers(a, [import EXCEPT
                     ![s.on].preview = ValidRows(payload),
                     ![s.on].status = IF ValidRows(payload) = {} THEN "validation_failed"
                                      ELSE "awaiting_approval"])
    /\ UNCHANGED approvals

\* the endpoint marks the import failed whatever the parse complained of
FailParse(a) ==
    LET s == serving[a] IN
    /\ s.op \in {"parse", "parsing", "refused"}
    /\ Answers(a, [import EXCEPT ![s.on].status = "failed"])
    /\ UNCHANGED approvals

\* the rows it has read, published inactive
Approve(a) ==
    LET s == serving[a] IN
    /\ s.op = "approve"
    /\ Answers(a, [import EXCEPT ![s.on].mappings = @ \cup s.preview,
                                 ![s.on].status = "approved",
                                 ![s.on].approved = approvals + 1])
    /\ approvals' = approvals + 1

\* slip: the mappings of the imports replaced stay live
ReplacedLive(conflicts) ==
    [b \in Imports |->
       IF b \notin conflicts THEN import[b]
       ELSE [import[b] EXCEPT !.status = IF @ = "active" THEN "superseded" ELSE @]]

\* the imports, with those found in conflict put out of service
Replaced(conflicts) ==
    [b \in Imports |->
       IF b \notin conflicts THEN import[b]
       ELSE [import[b] EXCEPT !.live = {},
                              !.status = IF @ = "active" THEN "superseded" ELSE @]]

Activate(a) ==
    LET s == serving[a] IN
    /\ s.op = "activate"
    /\ Answers(a, [Replaced(s.conflicts) EXCEPT ![s.on].live = import[s.on].mappings,
                                                ![s.on].status = "active"])
    /\ UNCHANGED approvals

Deactivate(a) ==
    LET s == serving[a] IN
    /\ s.op = "deactivate"
    /\ Answers(a, [import EXCEPT ![s.on].live = {}, ![s.on].status = "approved"])
    /\ UNCHANGED approvals

Reject(a) ==
    LET s == serving[a] IN
    /\ s.op = "reject"
    /\ Answers(a, [import EXCEPT ![s.on].status = "rejected"])
    /\ UNCHANGED approvals

\* an error, or the process ends: what is not committed is rolled back
Dropped(a) ==
    /\ serving[a] # AtEase
    /\ serving' = [serving EXCEPT ![a] = AtEase]
    /\ UNCHANGED <<import, approvals, unsound>>

Serve(a) ==
    \/ StartParse(a) \/ FailParse(a) \/ Approve(a) \/ Activate(a)
    \/ Deactivate(a) \/ Reject(a) \/ Dropped(a)
    \/ \E payload \in Payloads : StorePreview(a, payload)

CgnatNext ==
    \/ \E b \in Imports : Upload(b)
    \/ \E a \in Admins, b \in Imports :
         \/ \E op \in {"parse", "approve", "deactivate", "reject"} : Ask(a, op, b)
         \/ \E replace \in BOOLEAN : AskActivate(a, b, replace)
         \/ AskRefused(a, b)
    \/ \E a \in Admins : Serve(a)

CgnatSpec == CgnatInit /\ [][CgnatNext]_cgnatVars

-----------------------------------------------------------------------------
(* Looking up a subscriber                                                 *)

\* what a lookup can see: mappings in service of imports in service
Visible == UNION {{<<b, r>> : r \in import[b].live} :
                    b \in {c \in Imports : import[c].status = "active"}}

Within(time, t) == (t.from = Open \/ t.from <= time) /\ (t.until = Open \/ time <= t.until)

Found(public, port, protocol, time) ==
    {m \in Visible : /\ m[2].public = public
                     /\ m[2].protocol \in {protocol, AnyProtocol}
                     /\ m[2].first <= port /\ port <= m[2].last
                     /\ Within(time, import[m[1]].terms)}

\* the rank of a mapping: exact protocol, exact connector, last approval
Outranks(m, n, protocol, connector) ==
    LET sameProtocol == (m[2].protocol = protocol) = (n[2].protocol = protocol)
        own(x) == connector # AnyConnector /\ import[x[1]].terms.connector = connector
    IN \/ m[2].protocol = protocol /\ n[2].protocol # protocol
       \/ sameProtocol /\ own(m) /\ ~own(n)
       \/ /\ sameProtocol /\ own(m) = own(n)
          /\ import[m[1]].approved > import[n[1]].approved

\* resolve_cgnat_subscriber: more than one answer is ambiguous
Resolution(public, port, protocol, time, connector) ==
    LET found == Found(public, port, protocol, time)
        best == {m \in found : ~\E n \in found : Outranks(n, m, protocol, connector)}
    IN {[private |-> m[2].private, first |-> m[2].first, last |-> m[2].last] : m \in best}

-----------------------------------------------------------------------------
(* Properties                                                              *)

(* The type invariant of the state of this module. *)
CgnatTypeOK ==
    /\ import \in [Imports -> [status : Statuses, terms : Terms,
                               preview : SUBSET Records, mappings : SUBSET Records,
                               live : SUBSET Records, approved : Nat, parses : Nat]]
    /\ serving \in [Admins -> {AtEase} \cup
                               [op : Operations, on : Imports, status : Statuses,
                                preview : SUBSET Records, conflicts : SUBSET Imports]]
    /\ approvals \in Nat /\ unsound \subseteq Imports
    /\ \A b \in Imports : import[b].live \subseteq import[b].mappings

Sound == Imports \ unsound

(* A public endpoint belongs, for each connector and at each time, to one   *)
(* subscriber: the conflicts between imports are found when one is          *)
(* activated, those within an import when it is parsed.  A lookup is never  *)
(* ambiguous, and a mapping of its protocol and connector is the one it     *)
(* answers.  It fails only for imports written on a reading that was out of *)
(* date, or marked failed by a refused parse and then parsed again.         *)
OneSubscriber ==
    \A m \in Visible : \A port \in m[2].first .. m[2].last :
      \A protocol \in {r.protocol : r \in Records} :
      \A time \in UNION {{t.from, t.until} : t \in Terms} \ {Open} :
      \A connector \in {t.connector : t \in Terms} :
        LET found == Found(m[2].public, port, protocol, time)
            fitting == {n \in found : import[n[1]].terms.connector \in {connector, AnyConnector}}
            exact == {n \in fitting : /\ n[2].protocol = protocol
                                      /\ import[n[1]].terms.connector = connector}
            answers == Resolution(m[2].public, port, protocol, time, connector)
        IN {n[1] : n \in found} \subseteq Sound =>
             /\ Cardinality({n[2].private : n \in fitting}) <= 1
             /\ Cardinality(answers) <= 1
             /\ \A n \in exact : \A x \in answers : x.private = n[2].private

(* The mappings in service are exactly those of the imports that are        *)
(* active: superseding, deactivating and activating leave none behind.      *)
(* Only a request that wrote on a reading out of date, or a parse that was  *)
(* refused and marked the import failed, breaks it.                         *)
LiveIsActive ==
    \A b \in Sound :
      import[b].live = IF import[b].status = "active" THEN import[b].mappings ELSE {}
=============================================================================
