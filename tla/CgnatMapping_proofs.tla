-------------------------- MODULE CgnatMapping_proofs --------------------------
(***************************************************************************)
(* Proofs about the imports of CGNAT mappings, for any number of imports   *)
(* and administrators, any contents of files, connectors and periods.      *)
(***************************************************************************)
EXTENDS CgnatMapping, FiniteSetTheorems, TLAPS

Row == [status : Statuses, terms : Terms, preview : SUBSET Records,
        mappings : SUBSET Records, live : SUBSET Records, approved : Nat, parses : Nat]
Request == [op : Operations, on : Imports, status : Statuses, preview : SUBSET Records,
            conflicts : SUBSET Imports]

\* records of one endpoint are of one subscriber and one range
Clean(rows) ==
    \A r, s \in rows : SameEndpoint(r, s) =>
        r.private = s.private /\ r.first = s.first /\ r.last = s.last

\* what the checks of a request established of what it read
Asked(s) ==
    \/ s = AtEase
    \/ /\ s \in Request
       /\ s.op = "parse" => s.status \notin Published \cup {"rejected"}
       /\ s.op = "parsing" => s.status = "processing"
       /\ s.op = "approve" => s.status = "awaiting_approval"
       /\ s.op = "activate" => s.status = "approved"
       /\ s.op = "deactivate" => s.status = "active"
       /\ s.op = "reject" => s.status \notin {"active", "superseded"}
       /\ Clean(s.preview)

AskedInv == serving \in [Admins -> {AtEase} \cup Request] /\ \A a \in Admins : Asked(serving[a])

\* nothing is published before the approval, and each approval has its number
UnpublishedEmpty ==
    \A b \in Sound : import[b].status \notin Published \cup {"rejected"} => import[b].mappings = {}
Numbered ==
    \A b \in Imports :
      /\ import[b].approved <= approvals
      /\ import[b].mappings # {} => import[b].approved > 0
      /\ \A c \in Imports \ {b} : import[b].approved = import[c].approved => import[b].approved = 0

CleanInv ==
    /\ \A b \in Imports : Clean(import[b].preview)
    /\ \A b \in Sound : Clean(import[b].mappings)

\* imports in service at the same time have no endpoint in common
NoClash ==
    \A b, c \in Sound :
      /\ b # c
      /\ ConnectorsOverlap(import[b].terms, import[c].terms)
      /\ PeriodsOverlap(import[b].terms, import[c].terms)
      => \A r \in import[b].live, s \in import[c].live : ~SameEndpoint(r, s)

RowsTyped ==
    /\ import \in [Imports -> Row]
    /\ approvals \in Nat /\ unsound \subseteq Imports
    /\ \A b \in Imports : import[b].live \subseteq import[b].mappings

RowsInv == RowsTyped /\ LiveIsActive /\ UnpublishedEmpty /\ Numbered /\ CleanInv /\ NoClash
CgnatInv == AskedInv /\ RowsInv

-----------------------------------------------------------------------------
(* Records                                                                 *)

LEMMA RecordFacts ==
  ASSUME NEW r \in Records
  PROVE  r.first \in Nat /\ r.last \in Nat
BY CgnatAssumption DEF Records

LEMMA Symmetry ==
  /\ \A r, s : SameEndpoint(r, s) <=> SameEndpoint(s, r)
  /\ \A t, u : ConnectorsOverlap(t, u) <=> ConnectorsOverlap(u, t)
  /\ \A t, u : PeriodsOverlap(t, u) <=> PeriodsOverlap(u, t)
BY DEF SameEndpoint, ProtocolsOverlap, RangesOverlap, ConnectorsOverlap, PeriodsOverlap

\* what a parse leaves of a file has one subscriber and one range per endpoint
LEMMA ValidIsClean ==
  ASSUME NEW payload \in Payloads
  PROVE  ValidRows(payload) \subseteq Records /\ Clean(ValidRows(payload))
<1>1. ValidRows(payload) \subseteq payload /\ payload \subseteq Records
  BY DEF ValidRows, Records
<1>2. ASSUME NEW r \in ValidRows(payload), NEW s \in ValidRows(payload), SameEndpoint(r, s)
      PROVE  r.private = s.private /\ r.first = s.first /\ r.last = s.last
  <2>1. r.private = s.private
    BY <1>1, <1>2 DEF ValidRows
  <2>2. ProtocolsOverlap(r.protocol, s.protocol) /\ RangesOverlap(r, s)
    BY <1>2 DEF SameEndpoint
  <2>3. r = s \/ SplitByProtocol(r, s)
    BY <2>1, <2>2 DEF ValidRows
  <2>. QED
    BY <2>1, <2>3 DEF SplitByProtocol
<1>. QED
  BY <1>1, <1>2 DEF Clean

LEMMA CleanUnion ==
  Clean({}) /\ \A rows : {} \cup rows = rows
BY DEF Clean

-----------------------------------------------------------------------------
(* The requests                                                            *)

LEMMA AskedTyped ==
  ASSUME AskedInv, NEW a \in Admins, serving[a].op \in Operations
  PROVE  /\ serving[a] \in Request /\ Asked(serving[a]) /\ serving[a] # AtEase
         /\ serving[a].on \in Imports
BY DEF AskedInv, Asked, AtEase, Operations, Request

LEMMA AskedEnds ==
  ASSUME AskedInv, NEW a \in Admins, serving' = [serving EXCEPT ![a] = AtEase]
  PROVE  AskedInv'
BY DEF AskedInv, Asked, AtEase, Operations, Request

LEMMA AskedBegins ==
  ASSUME AskedInv, RowsInv, NEW a \in Admins, NEW op \in Operations, NEW b \in Imports,
         op \in {"parsing", "refused"} \/ Allowed(op, b), op # "parsing", Reads(a, op, b)
  PROVE  AskedInv'
<1> DEFINE s == [op |-> op, on |-> b, status |-> import[b].status,
                 preview |-> IF op = "approve" THEN import[b].preview ELSE {},
                 conflicts |-> IF op = "activate" THEN Conflicting(b) ELSE {}]
<1>1. s \in Request
  BY DEF RowsInv, RowsTyped, Row, Request, Conflicting
<1>2. Clean(s.preview)
  BY CleanUnion DEF RowsInv, CleanInv
<1>3. Asked(s)
  <2>1. op # "refused" => Allowed(op, b)
    OBVIOUS
  <2>. QED
    BY <1>1, <1>2, <2>1 DEF Asked, Allowed, Operations
<1>. QED
  BY <1>1, <1>3 DEF AskedInv, Reads

-----------------------------------------------------------------------------
(* The rows                                                                *)

\* a step that publishes nothing: at most the status and the preview of b change
Quiet(b) ==
    /\ import' \in [Imports -> Row]
    /\ \A c \in Imports : /\ import'[c].terms = import[c].terms
                          /\ import'[c].mappings = import[c].mappings
                          /\ import'[c].live = import[c].live
                          /\ import'[c].approved = import[c].approved
                          /\ Clean(import'[c].preview)
                          /\ c # b => import'[c].status = import[c].status
    /\ approvals' = approvals
    /\ unsound \subseteq unsound' /\ unsound' \subseteq unsound \cup {b}
    /\ b \notin unsound' =>
         /\ import[b].status # "active" /\ import'[b].status # "active"
         /\ import'[b].status \in Published \cup {"rejected"} \/ import[b].mappings = {}

LEMMA QuietKeeps ==
  ASSUME RowsInv, NEW b \in Imports, Quiet(b)
  PROVE  RowsInv'
<1>1. RowsTyped'
  BY DEF RowsInv, RowsTyped, Quiet
<1>2. LiveIsActive'
  BY DEF RowsInv, LiveIsActive, Quiet, Sound
<1>3. UnpublishedEmpty'
  BY DEF RowsInv, UnpublishedEmpty, Quiet, Sound
<1>4. Numbered'
  BY DEF RowsInv, Numbered, Quiet
<1>5. CleanInv'
  BY DEF RowsInv, CleanInv, Quiet, Sound
<1>6. NoClash'
  BY DEF RowsInv, NoClash, Quiet, Sound
<1>. QED
  BY <1>1, <1>2, <1>3, <1>4, <1>5, <1>6 DEF RowsInv

LEMMA RowChanged ==
  ASSUME import \in [Imports -> Row], NEW b \in Imports, NEW row \in Row,
         import' = [import EXCEPT ![b] = row]
  PROVE  /\ import' \in [Imports -> Row] /\ import'[b] = row
         /\ \A c \in Imports : c # b => import'[c] = import[c]
OBVIOUS

LEMMA RestKeeps ==
  ASSUME RowsInv, UNCHANGED <<import, approvals, unsound>>
  PROVE  RowsInv'
BY DEF RowsInv, RowsTyped, LiveIsActive, UnpublishedEmpty, Numbered, CleanInv, NoClash, Sound,
       Conflicting

LEMMA UploadKeeps ==
  ASSUME RowsInv, NEW b \in Imports, Upload(b)
  PROVE  RowsInv'
<1>1. b \notin unsound => import[b].mappings = {}
  BY DEF RowsInv, UnpublishedEmpty, Sound, Upload, Published
<1>2. Quiet(b)
  BY <1>1 DEF Quiet, Upload, RowsInv, RowsTyped, CleanInv, Row, Statuses
<1>. QED
  BY <1>2, QuietKeeps

\* what a request that is not marked knows of its import
LEMMA StillAsRead ==
  ASSUME NEW a \in Admins, unsound' = Marked(serving[a]), serving[a].on \in Imports
  PROVE  /\ unsound \subseteq unsound' /\ unsound' \subseteq unsound \cup {serving[a].on}
         /\ serving[a].on \notin unsound' => /\ serving[a].op # "refused"
                                             /\ ~OutOfDate(serving[a])
                                             /\ import[serving[a].on].status = serving[a].status
BY DEF Marked, OutOfDate

LEMMA StartParseKeeps ==
  ASSUME AskedInv, RowsInv, NEW a \in Admins, StartParse(a)
  PROVE  AskedInv' /\ RowsInv'
<1> DEFINE s == serving[a]
           b == s.on
<1>1. s \in Request /\ Asked(s) /\ b \in Imports
  BY AskedTyped DEF StartParse, Operations
<1>2. AskedInv'
  <2> DEFINE q == [s EXCEPT !.op = "parsing", !.status = "processing"]
  <2>1. /\ "parsing" \in Operations /\ "processing" \in Statuses
        /\ s.op = "parse" /\ Clean(s.preview)
    BY <1>1 DEF StartParse, Asked, AtEase, Operations, Statuses
  <2>2. q \in Request /\ q.op = "parsing" /\ q.status = "processing" /\ q.preview = s.preview
    BY <1>1, <2>1 DEF Request
  <2>3. Asked(q)
    BY <2>1, <2>2 DEF Asked
  <2>4. serving' = [serving EXCEPT ![a] = q]
    BY DEF StartParse
  <2>. QED
    BY <2>2, <2>3, <2>4 DEF AskedInv
<1>3. Quiet(b)
  <2>1. b \notin unsound' => b \notin unsound /\ import[b].status \notin Published \cup {"rejected"}
    BY <1>1, StillAsRead DEF StartParse, Asked, AtEase
  <2>2. b \notin unsound' => import[b].mappings = {}
    BY <1>1, <2>1 DEF RowsInv, UnpublishedEmpty, Sound
  <2>3. /\ import' = [import EXCEPT ![b] = [import[b] EXCEPT !.status = "processing",
                                                              !.parses = import[b].parses + 1]]
        /\ unsound' = Marked(s) /\ approvals' = approvals
    BY DEF StartParse
  <2>4. /\ import \in [Imports -> Row] /\ import[b] \in Row
        /\ \A c \in Imports : Clean(import[c].preview)
    BY <1>1 DEF RowsInv, RowsTyped, CleanInv
  <2>5. [import[b] EXCEPT !.status = "processing", !.parses = import[b].parses + 1] \in Row
    <3>1. "processing" \in Statuses /\ import[b].parses + 1 \in Nat
      BY <2>4 DEF Row, Statuses
    <3>. QED
      BY <2>4, <3>1 DEF Row
  <2>. QED
    BY <1>1, <2>1, <2>2, <2>3, <2>4, <2>5, StillAsRead DEF Quiet, Row, Published
<1>. QED
  BY <1>1, <1>2, <1>3, QuietKeeps

LEMMA StorePreviewKeeps ==
  ASSUME AskedInv, RowsInv, NEW a \in Admins, NEW payload \in Payloads, StorePreview(a, payload)
  PROVE  AskedInv' /\ RowsInv'
<1> DEFINE s == serving[a]
           b == s.on
<1>1. s \in Request /\ Asked(s) /\ b \in Imports
  BY AskedTyped DEF StorePreview, Operations
<1>2. AskedInv'
  BY AskedEnds DEF StorePreview, Answers
<1>3. Quiet(b)
  <2>1. b \notin unsound' => b \notin unsound /\ import[b].status = "processing"
    BY <1>1, StillAsRead DEF StorePreview, Answers, Asked, AtEase
  <2>2. b \notin unsound' => import[b].mappings = {}
    BY <1>1, <2>1 DEF RowsInv, UnpublishedEmpty, Sound, Published
  <2> DEFINE status == IF ValidRows(payload) = {} THEN "validation_failed"
                       ELSE "awaiting_approval"
             row == [import[b] EXCEPT !.preview = ValidRows(payload), !.status = status]
  <2>3. import' = [import EXCEPT ![b] = row] /\ unsound' = Marked(s) /\ approvals' = approvals
    BY DEF StorePreview, Answers
  <2>4. /\ import \in [Imports -> Row] /\ import[b] \in Row
        /\ \A c \in Imports : Clean(import[c].preview)
    BY <1>1 DEF RowsInv, RowsTyped, CleanInv
  <2>5. status \in Statuses /\ status # "active" /\ ValidRows(payload) \in SUBSET Records
    BY ValidIsClean DEF Statuses
  <2>6. /\ row \in Row /\ row.status = status /\ row.preview = ValidRows(payload)
        /\ row.terms = import[b].terms /\ row.mappings = import[b].mappings
        /\ row.live = import[b].live /\ row.approved = import[b].approved
    BY <2>4, <2>5 DEF Row
  <2> HIDE DEF row, status
  <2>7. /\ import' \in [Imports -> Row] /\ import'[b] = row
        /\ \A c \in Imports : c # b => import'[c] = import[c]
    BY <1>1, <2>3, <2>4, <2>6, RowChanged
  <2>. QED
    BY <1>1, <2>1, <2>2, <2>3, <2>4, <2>5, <2>6, <2>7, StillAsRead, ValidIsClean DEF Quiet
<1>. QED
  BY <1>1, <1>2, <1>3, QuietKeeps

LEMMA FailParseKeeps ==
  ASSUME AskedInv, RowsInv, NEW a \in Admins, FailParse(a)
  PROVE  AskedInv' /\ RowsInv'
<1> DEFINE s == serving[a]
           b == s.on
<1>1. s \in Request /\ Asked(s) /\ b \in Imports
  BY AskedTyped DEF FailParse, Operations
<1>2. AskedInv'
  BY AskedEnds DEF FailParse, Answers
<1>3. Quiet(b)
  <2>1. b \notin unsound' => b \notin unsound /\ import[b].status \notin Published \cup {"rejected"}
    BY <1>1, StillAsRead DEF FailParse, Answers, Asked, AtEase, Published
  <2>2. b \notin unsound' => import[b].mappings = {}
    BY <1>1, <2>1 DEF RowsInv, UnpublishedEmpty, Sound
  <2>. QED
    BY <1>1, <2>1, <2>2, StillAsRead
    DEF Quiet, FailParse, Answers, RowsInv, RowsTyped, CleanInv, Row, Statuses, Published
<1>. QED
  BY <1>1, <1>2, <1>3, QuietKeeps

LEMMA RejectKeeps ==
  ASSUME AskedInv, RowsInv, NEW a \in Admins, Reject(a)
  PROVE  AskedInv' /\ RowsInv'
<1> DEFINE s == serving[a]
           b == s.on
<1>1. s \in Request /\ Asked(s) /\ b \in Imports
  BY AskedTyped DEF Reject, Operations
<1>2. AskedInv'
  BY AskedEnds DEF Reject, Answers
<1>3. Quiet(b)
  <2>1. b \notin unsound' => b \notin unsound /\ import[b].status # "active"
    BY <1>1, StillAsRead DEF Reject, Answers, Asked, AtEase
  <2>. QED
    BY <1>1, <2>1, StillAsRead
    DEF Quiet, Reject, Answers, RowsInv, RowsTyped, CleanInv, Row, Statuses, Published
<1>. QED
  BY <1>1, <1>2, <1>3, QuietKeeps

LEMMA ApproveKeeps ==
  ASSUME AskedInv, RowsInv, NEW a \in Admins, Approve(a)
  PROVE  AskedInv' /\ RowsInv'
<1> DEFINE s == serving[a]
           b == s.on
<1>1. s \in Request /\ Asked(s) /\ b \in Imports /\ s.op = "approve"
  BY AskedTyped DEF Approve, Operations
<1>2. AskedInv'
  BY AskedEnds DEF Approve, Answers
<1>3. /\ Clean(s.preview) /\ s.preview \subseteq Records
      /\ import \in [Imports -> Row] /\ approvals \in Nat
      /\ "approved" \in Statuses /\ "approved" \in Published
      /\ b \notin unsound' => b \notin unsound /\ import[b].status = "awaiting_approval"
  BY <1>1, StillAsRead DEF Approve, Answers, Asked, AtEase, Request, RowsInv, RowsTyped,
                           Statuses, Published
<1>4. /\ \A c \in Imports : c # b => import'[c] = import[c]
      /\ import'[b] \in Row
      /\ import'[b].status = "approved" /\ import'[b].approved = approvals + 1
      /\ import'[b].mappings = import[b].mappings \cup s.preview
      /\ import'[b].live = import[b].live /\ import'[b].preview = import[b].preview
      /\ import'[b].terms = import[b].terms
      /\ import' \in [Imports -> Row] /\ approvals' = approvals + 1
      /\ unsound \subseteq unsound' /\ unsound' \subseteq Imports
  <2> DEFINE row == [import[b] EXCEPT !.mappings = import[b].mappings \cup s.preview,
                                      !.status = "approved", !.approved = approvals + 1]
  <2>1. /\ import' = [import EXCEPT ![b] = row]
        /\ unsound' = Marked(s) /\ approvals' = approvals + 1
    BY DEF Approve, Answers
  <2>2. import[b].mappings \cup s.preview \in SUBSET Records /\ approvals + 1 \in Nat
        /\ import[b] \in Row
    BY <1>1, <1>3 DEF Row
  <2>3. unsound \subseteq unsound' /\ unsound' \subseteq Imports
    BY <1>1, <2>1, StillAsRead DEF RowsInv, RowsTyped
  <2>4. /\ row \in Row /\ row.status = "approved" /\ row.approved = approvals + 1
        /\ row.mappings = import[b].mappings \cup s.preview
        /\ row.live = import[b].live /\ row.preview = import[b].preview
        /\ row.terms = import[b].terms
    BY <1>3, <2>2 DEF Row
  <2> HIDE DEF row
  <2>. QED
    BY <1>1, <1>3, <2>1, <2>3, <2>4, RowChanged
<1>5. b \notin unsound' => import[b].mappings = {} /\ import[b].live = {}
  BY <1>1, <1>3 DEF RowsInv, RowsTyped, UnpublishedEmpty, Sound, Published
<1>6. RowsTyped'
  BY <1>1, <1>3, <1>4 DEF RowsInv, RowsTyped
<1>7. LiveIsActive'
  <2>1. \A c \in Sound' : c \in Sound /\ c \in Imports
    BY <1>4 DEF Sound
  <2>2. \A c \in Sound' : c # b => import'[c] = import[c]
    BY <1>4, <2>1
  <2>3. b \in Sound' => import'[b].live = {} /\ import'[b].status # "active"
    BY <1>4, <1>5 DEF Sound
  <2>. QED
    BY <2>1, <2>2, <2>3 DEF RowsInv, LiveIsActive
<1>8. UnpublishedEmpty'
  BY <1>1, <1>3, <1>4 DEF RowsInv, UnpublishedEmpty, Sound
<1>9. Numbered'
  <2>1. \A c \in Imports : import[c].approved \in Nat /\ import[c].approved <= approvals
    BY <1>3 DEF RowsInv, Numbered, Row
  <2>. QED
    BY <1>1, <1>3, <1>4, <2>1 DEF RowsInv, Numbered
<1>10. CleanInv'
  <2>1. b \notin unsound' => import'[b].mappings = s.preview
    BY <1>4, <1>5
  <2>. QED
    BY <1>1, <1>3, <1>4, <2>1 DEF RowsInv, CleanInv, Sound
<1>11. NoClash'
  <2>1. \A c \in Imports : import'[c].terms = import[c].terms /\ import'[c].live = import[c].live
    BY <1>4
  <2>. QED
    BY <1>4, <2>1 DEF RowsInv, NoClash, Sound
<1>. QED
  BY <1>2, <1>6, <1>7, <1>8, <1>9, <1>10, <1>11 DEF RowsInv

LEMMA DeactivateKeeps ==
  ASSUME AskedInv, RowsInv, NEW a \in Admins, Deactivate(a)
  PROVE  AskedInv' /\ RowsInv'
<1> DEFINE s == serving[a]
           b == s.on
<1>1. s \in Request /\ b \in Imports
  BY AskedTyped DEF Deactivate, Operations
<1>2. AskedInv'
  BY AskedEnds DEF Deactivate, Answers
<1>3. /\ import' = [import EXCEPT ![b] = [import[b] EXCEPT !.live = {}, !.status = "approved"]]
      /\ unsound' = Marked(s) /\ approvals' = approvals
  BY DEF Deactivate, Answers
<1>4. import \in [Imports -> Row] /\ "approved" \in Statuses /\ "approved" \in Published
      /\ {} \in SUBSET Records
  BY DEF RowsInv, RowsTyped, Statuses, Published
<1>5. /\ \A c \in Imports : c # b => import'[c] = import[c]
      /\ import'[b].status = "approved" /\ import'[b].live = {}
      /\ import'[b].approved = import[b].approved /\ import'[b].preview = import[b].preview
      /\ import'[b].mappings = import[b].mappings /\ import'[b].terms = import[b].terms
      /\ import' \in [Imports -> Row]
  <2> DEFINE row == [import[b] EXCEPT !.live = {}, !.status = "approved"]
  <2>1. import' = [import EXCEPT ![b] = row]
    BY <1>3
  <2>2. /\ row \in Row /\ row.status = "approved" /\ row.live = {}
        /\ row.approved = import[b].approved /\ row.preview = import[b].preview
        /\ row.mappings = import[b].mappings /\ row.terms = import[b].terms
    BY <1>1, <1>4 DEF Row
  <2> HIDE DEF row
  <2>. QED
    BY <1>1, <1>4, <2>1, <2>2, RowChanged
<1>6. unsound \subseteq unsound' /\ unsound' \subseteq Imports
  BY <1>1, <1>3, StillAsRead DEF RowsInv, RowsTyped
<1>7. RowsTyped'
  BY <1>1, <1>3, <1>5, <1>6 DEF RowsInv, RowsTyped
<1>8. LiveIsActive' /\ UnpublishedEmpty'
  <2>1. \A c \in Sound' : c \in Sound /\ c \in Imports
    BY <1>6 DEF Sound
  <2>2. \A c \in Sound' : c # b => import'[c] = import[c]
    BY <1>5, <2>1
  <2>3. /\ import'[b].live = {} /\ import'[b].status # "active"
        /\ import'[b].status \in Published
    BY <1>4, <1>5
  <2>4. LiveIsActive'
    BY <2>1, <2>2, <2>3 DEF RowsInv, LiveIsActive
  <2>5. UnpublishedEmpty'
    BY <2>1, <2>2, <2>3 DEF RowsInv, UnpublishedEmpty
  <2>. QED
    BY <2>4, <2>5
<1>9. Numbered' /\ CleanInv'
  BY <1>1, <1>3, <1>5, <1>6 DEF RowsInv, Numbered, CleanInv, Sound
<1>10. NoClash'
  <2>1. \A c \in Imports : import'[c].terms = import[c].terms
                             /\ import'[c].live \subseteq import[c].live
    BY <1>5
  <2>. QED
    BY <1>6, <2>1 DEF RowsInv, NoClash, Sound
<1>. QED
  BY <1>2, <1>7, <1>8, <1>9, <1>10 DEF RowsInv

\* the only step that puts mappings in service: those it found in conflict leave
LEMMA ActivateKeeps ==
  ASSUME AskedInv, RowsInv, NEW a \in Admins, Activate(a)
  PROVE  AskedInv' /\ RowsInv'
<1> DEFINE s == serving[a]
           b == s.on
<1>1. s \in Request /\ b \in Imports /\ s.op = "activate" /\ s.conflicts \subseteq Imports
  BY AskedTyped DEF Activate, Operations, Request
<1>2. AskedInv'
  BY AskedEnds DEF Activate, Answers
<1>3. /\ import' = [Replaced(s.conflicts) EXCEPT ![b].live = import[b].mappings,
                                                  ![b].status = "active"]
      /\ unsound' = Marked(s) /\ approvals' = approvals
  BY DEF Activate, Answers
<1>4. /\ import \in [Imports -> Row] /\ {} \in SUBSET Records
      /\ {"active", "superseded"} \subseteq Statuses /\ {"active", "superseded"} \subseteq Published
  BY DEF RowsInv, RowsTyped, Statuses, Published
<1>5. \A c \in Imports :
        /\ Replaced(s.conflicts)[c] \in Row
        /\ c \notin s.conflicts => Replaced(s.conflicts)[c] = import[c]
        /\ c \in s.conflicts =>
             /\ Replaced(s.conflicts)[c].live = {}
             /\ Replaced(s.conflicts)[c].status # "active"
             /\ Replaced(s.conflicts)[c].status \in {import[c].status, "superseded"}
             /\ import[c].status = "active" => Replaced(s.conflicts)[c].status = "superseded"
             /\ import[c].status # "active" =>
                    Replaced(s.conflicts)[c].status = import[c].status
             /\ Replaced(s.conflicts)[c].mappings = import[c].mappings
             /\ Replaced(s.conflicts)[c].preview = import[c].preview
             /\ Replaced(s.conflicts)[c].approved = import[c].approved
             /\ Replaced(s.conflicts)[c].terms = import[c].terms
  BY <1>1, <1>4 DEF Replaced, Row
<1>6. Replaced(s.conflicts) \in [Imports -> Row]
  BY <1>5 DEF Replaced
<1>7. /\ import' \in [Imports -> Row]
      /\ import'[b].live = import[b].mappings /\ import'[b].status = "active"
      /\ \A c \in Imports : c # b => import'[c] = Replaced(s.conflicts)[c]
      /\ \A c \in Imports : /\ import'[c].mappings = import[c].mappings
                            /\ import'[c].preview = import[c].preview
                            /\ import'[c].approved = import[c].approved
                            /\ import'[c].terms = import[c].terms
  <2> DEFINE row == [Replaced(s.conflicts)[b] EXCEPT !.live = import[b].mappings,
                                                     !.status = "active"]
  <2>1. import' = [Replaced(s.conflicts) EXCEPT ![b] = row]
    BY <1>3
  <2>2. import[b].mappings \in SUBSET Records /\ Replaced(s.conflicts)[b] \in Row
    BY <1>1, <1>4, <1>5 DEF Row
  <2>3. /\ row \in Row /\ row.live = import[b].mappings /\ row.status = "active"
        /\ row.mappings = Replaced(s.conflicts)[b].mappings
        /\ row.preview = Replaced(s.conflicts)[b].preview
        /\ row.approved = Replaced(s.conflicts)[b].approved
        /\ row.terms = Replaced(s.conflicts)[b].terms
    BY <1>4, <2>2 DEF Row
  <2> HIDE DEF row
  <2>4. /\ import' \in [Imports -> Row] /\ import'[b] = row
        /\ \A c \in Imports : c # b => import'[c] = Replaced(s.conflicts)[c]
    BY <1>1, <1>6, <2>1, <2>3
  <2>5. ASSUME NEW c \in Imports
        PROVE  /\ import'[c].mappings = import[c].mappings
               /\ import'[c].preview = import[c].preview
               /\ import'[c].approved = import[c].approved
               /\ import'[c].terms = import[c].terms
    <3>1. import'[c].mappings = Replaced(s.conflicts)[c].mappings
          /\ import'[c].preview = Replaced(s.conflicts)[c].preview
          /\ import'[c].approved = Replaced(s.conflicts)[c].approved
          /\ import'[c].terms = Replaced(s.conflicts)[c].terms
      BY <2>3, <2>4
    <3>. QED
      BY <1>5, <3>1
  <2>. QED
    BY <2>3, <2>4, <2>5
<1>8. unsound \subseteq unsound' /\ unsound' \subseteq Imports
  BY <1>1, <1>3, StillAsRead DEF RowsInv, RowsTyped
<1>9. \A c \in Imports : c # b =>
        /\ c \in s.conflicts => import'[c].live = {} /\ import'[c].status # "active"
        /\ c \notin s.conflicts => /\ import'[c].live = import[c].live
                                  /\ import'[c].status = import[c].status
        /\ import'[c].status \notin Published => import[c].status = import'[c].status
  BY <1>4, <1>5, <1>7
<1>10. RowsTyped'
  <2>1. \A c \in Imports : import'[c].live \subseteq import'[c].mappings
    <3>1. \A c \in Imports : import[c].live \subseteq import[c].mappings
      BY DEF RowsInv, RowsTyped
    <3>2. \A c \in Imports : c # b => import'[c].live \subseteq import[c].live
      BY <1>9
    <3>. QED
      BY <1>7, <3>1, <3>2
  <2>2. approvals \in Nat
    BY DEF RowsInv, RowsTyped
  <2>. QED
    BY <1>3, <1>7, <1>8, <2>1, <2>2 DEF RowsTyped
<1>11. LiveIsActive'
  <2>1. ASSUME NEW c \in Imports, c \notin unsound'
        PROVE  import'[c].live = IF import'[c].status = "active" THEN import'[c].mappings ELSE {}
    <3>1. c \notin unsound =>
            import[c].live = IF import[c].status = "active" THEN import[c].mappings ELSE {}
      BY DEF RowsInv, LiveIsActive, Sound
    <3>2. CASE c = b
      BY <1>7, <3>2
    <3>3. CASE c # b
      BY <1>7, <1>8, <1>9, <2>1, <3>1, <3>3
    <3>. QED
      BY <3>2, <3>3
  <2>. QED
    BY <2>1 DEF LiveIsActive, Sound
<1>12. UnpublishedEmpty'
  <2>1. \A c \in Sound' : c \in Sound
    BY <1>8 DEF Sound
  <2>2. \A c \in Sound' : import'[c].status \notin Published =>
                            import[c].status = import'[c].status
    BY <1>4, <1>7, <1>9 DEF Sound
  <2>. QED
    BY <1>7, <2>1, <2>2 DEF RowsInv, UnpublishedEmpty, Sound
<1>13. Numbered'
  <2>1. /\ approvals' = approvals
        /\ \A c \in Imports : /\ import'[c].mappings = import[c].mappings
                              /\ import'[c].approved = import[c].approved
    BY <1>3, <1>7
  <2>. QED
    BY <2>1 DEF RowsInv, Numbered
<1>14. CleanInv'
  BY <1>7, <1>8 DEF RowsInv, CleanInv, Sound
<1>15. NoClash'
  <2>1. \A c \in Imports : c # b =>
          /\ import'[c].live \subseteq import[c].live
          /\ c \in s.conflicts => import'[c].live = {}
    BY <1>9
  <2>2. b \notin unsound' => Conflicting(b) \subseteq s.conflicts
    BY <1>1, <1>3, StillAsRead DEF OutOfDate
  <2>3. ASSUME NEW c \in Imports, c # b, b \notin unsound',
               ConnectorsOverlap(import[b].terms, import[c].terms),
               PeriodsOverlap(import[b].terms, import[c].terms),
               NEW r, NEW q, r \in import'[b].live, q \in import'[c].live,
               SameEndpoint(r, q)
        PROVE  FALSE
    <3>1. r \in import[b].mappings /\ q \in import[c].live
      BY <1>7, <2>1, <2>3
    <3>2. c \in Conflicting(b)
      BY <1>1, <2>3, <3>1 DEF Conflicting
    <3>. QED
      BY <2>1, <2>2, <2>3, <3>2
  <2>4. ASSUME NEW c \in Imports, NEW d \in Imports, c \notin unsound', d \notin unsound', c # d,
               ConnectorsOverlap(import[c].terms, import[d].terms),
               PeriodsOverlap(import[c].terms, import[d].terms),
               NEW r, NEW q, r \in import'[c].live, q \in import'[d].live,
               SameEndpoint(r, q)
        PROVE  FALSE
    <3>1. CASE c = b
      BY <2>3, <2>4, <3>1
    <3>2. CASE d = b
      BY <2>3, <2>4, <3>2, Symmetry
    <3>3. CASE c # b /\ d # b
      <4>1. r \in import[c].live /\ q \in import[d].live /\ c \in Sound /\ d \in Sound
        BY <1>8, <2>1, <2>4, <3>3 DEF Sound
      <4>. QED
        BY <2>4, <4>1 DEF RowsInv, NoClash
    <3>. QED
      BY <3>1, <3>2, <3>3
  <2>5. \A c \in Imports : import'[c].terms = import[c].terms
    BY <1>7
  <2>. QED
    BY <2>4, <2>5 DEF NoClash, Sound
<1>. QED
  BY <1>2, <1>10, <1>11, <1>12, <1>13, <1>14, <1>15 DEF RowsInv

LEMMA NextKeeps ==
  ASSUME CgnatInv, [CgnatNext]_cgnatVars
  PROVE  CgnatInv'
<1>0. AskedInv /\ RowsInv
  BY DEF CgnatInv
<1>1. ASSUME NEW b \in Imports, Upload(b)
      PROVE  CgnatInv'
  BY <1>0, <1>1, UploadKeeps DEF CgnatInv, Upload, AskedInv
<1>2. ASSUME NEW a \in Admins, NEW b \in Imports,
             NEW op \in {"parse", "approve", "deactivate", "reject"}, Ask(a, op, b)
      PROVE  CgnatInv'
  <2>1. op \in Operations /\ op # "parsing" /\ Allowed(op, b) /\ Reads(a, op, b)
    BY <1>2 DEF Ask, Operations
  <2>. QED
    BY <1>0, <1>2, <2>1, AskedBegins, RestKeeps DEF CgnatInv, Ask
<1>3. ASSUME NEW a \in Admins, NEW b \in Imports, NEW replace \in BOOLEAN,
             AskActivate(a, b, replace)
      PROVE  CgnatInv'
  BY <1>0, <1>3, AskedBegins, RestKeeps DEF CgnatInv, AskActivate, Operations
<1>4. ASSUME NEW a \in Admins, NEW b \in Imports, AskRefused(a, b)
      PROVE  CgnatInv'
  BY <1>0, <1>4, AskedBegins, RestKeeps DEF CgnatInv, AskRefused, Operations
<1>5. ASSUME NEW a \in Admins, Serve(a)
      PROVE  CgnatInv'
  <2>1. CASE Dropped(a)
    BY <1>0, <2>1, AskedEnds, RestKeeps DEF CgnatInv, Dropped
  <2>2. CASE \E payload \in Payloads : StorePreview(a, payload)
    BY <1>0, <2>2, StorePreviewKeeps DEF CgnatInv
  <2>. QED
    BY <1>0, <1>5, <2>1, <2>2, StartParseKeeps, FailParseKeeps, ApproveKeeps, ActivateKeeps,
       DeactivateKeeps, RejectKeeps DEF CgnatInv, Serve
<1>6. CASE UNCHANGED cgnatVars
  BY <1>0, <1>6, RestKeeps DEF CgnatInv, AskedInv, cgnatVars
<1>. QED
  BY <1>1, <1>2, <1>3, <1>4, <1>5, <1>6 DEF CgnatNext

LEMMA InitHolds ==
  ASSUME CgnatInit
  PROVE  CgnatInv
<1>1. PICK t \in [Imports -> Terms] : import = [b \in Imports |-> NoImport(t[b])]
  BY DEF CgnatInit
<1>2. \A b \in Imports : /\ import[b] \in Row /\ import[b].status = "none"
                          /\ import[b].mappings = {} /\ import[b].live = {}
                          /\ import[b].preview = {} /\ import[b].approved = 0
  BY <1>1 DEF NoImport, Row, Statuses
<1>3. RowsInv
  <2>1. RowsTyped
    BY <1>1, <1>2 DEF CgnatInit, RowsTyped
  <2>2. LiveIsActive /\ UnpublishedEmpty /\ NoClash
    BY <1>2 DEF LiveIsActive, UnpublishedEmpty, NoClash, Sound
  <2>3. Numbered
    BY <1>2 DEF CgnatInit, Numbered
  <2>4. CleanInv
    BY <1>2, CleanUnion DEF CleanInv, Sound
  <2>. QED
    BY <2>1, <2>2, <2>3, <2>4 DEF RowsInv
<1>4. AskedInv
  BY DEF CgnatInit, AskedInv, Asked
<1>. QED
  BY <1>3, <1>4 DEF CgnatInv

LEMMA AlwaysInv == CgnatSpec => []CgnatInv
<1>. QED
  BY InitHolds, NextKeeps, PTL DEF CgnatSpec

-----------------------------------------------------------------------------
(* Lookups                                                                 *)

LEMMA AtMostOne ==
  ASSUME NEW S, \A x, y \in S : x = y
  PROVE  Cardinality(S) <= 1
<1>1. CASE S = {}
  BY <1>1, FS_EmptySet
<1>2. CASE S # {}
  <2>1. PICK x : x \in S
    BY <1>2
  <2>2. S = {x}
    BY <2>1
  <2>. QED
    BY <2>2, FS_Singleton
<1>. QED
  BY <1>1, <1>2

\* m, a pair of an import and a record, answers for the port at the time
Serves(m, public, port, protocol, time) ==
    /\ m[1] \in Imports /\ import[m[1]].status = "active" /\ m[2] \in import[m[1]].live
    /\ m[2].public = public /\ m[2].protocol \in {protocol, AnyProtocol}
    /\ m[2].first <= port /\ port <= m[2].last
    /\ Within(time, import[m[1]].terms)

LEMMA FoundServes ==
  ASSUME NEW public, NEW port, NEW protocol, NEW time,
         NEW m \in Found(public, port, protocol, time)
  PROVE  Serves(m, public, port, protocol, time)
<1>1. PICK b \in Imports : import[b].status = "active" /\ \E r \in import[b].live : m = <<b, r>>
  BY DEF Found, Visible
<1>. QED
  BY <1>1 DEF Found, Serves

LEMMA LiveRecords ==
  ASSUME RowsInv, NEW b \in Imports, NEW r \in import[b].live
  PROVE  r \in import[b].mappings /\ r.first \in Nat /\ r.last \in Nat
<1>1. r \in import[b].mappings /\ import[b].mappings \subseteq Records
  BY DEF RowsInv, RowsTyped, Row
<1>. QED
  BY <1>1, RecordFacts

LEMMA SharedEndpoint ==
  ASSUME RowsInv, NEW public, NEW port \in Int, NEW protocol, NEW time \in Nat, NEW m, NEW n,
         Serves(m, public, port, protocol, time), Serves(n, public, port, protocol, time)
  PROVE  /\ SameEndpoint(m[2], n[2])
         /\ PeriodsOverlap(import[m[1]].terms, import[n[1]].terms)
<1>1. /\ m[2].first \in Nat /\ m[2].last \in Nat /\ n[2].first \in Nat /\ n[2].last \in Nat
      /\ m[2].first <= port /\ port <= m[2].last /\ n[2].first <= port /\ port <= n[2].last
  BY LiveRecords DEF Serves
<1>2. RangesOverlap(m[2], n[2])
  BY <1>1 DEF RangesOverlap
<1>3. m[2].public = n[2].public /\ ProtocolsOverlap(m[2].protocol, n[2].protocol)
  BY DEF Serves, ProtocolsOverlap
<1>4. \A t, u \in Terms : Within(time, t) /\ Within(time, u) => Meets(t.until, u.from)
  BY CgnatAssumption DEF Within, Meets
<1>5. import[m[1]].terms \in Terms /\ import[n[1]].terms \in Terms
  BY DEF RowsInv, RowsTyped, Row, Serves
<1>. QED
  BY <1>2, <1>3, <1>4, <1>5 DEF SameEndpoint, PeriodsOverlap, Serves

LEMMA OneImportAgrees ==
  ASSUME RowsInv, NEW public, NEW port \in Int, NEW protocol, NEW time \in Nat, NEW m, NEW n,
         Serves(m, public, port, protocol, time), Serves(n, public, port, protocol, time),
         m[1] = n[1], m[1] \in Sound
  PROVE  m[2].private = n[2].private /\ m[2].first = n[2].first /\ m[2].last = n[2].last
<1>1. SameEndpoint(m[2], n[2])
  BY SharedEndpoint
<1>2. m[2] \in import[m[1]].mappings /\ n[2] \in import[m[1]].mappings
  BY LiveRecords DEF Serves
<1>. QED
  BY <1>1, <1>2 DEF RowsInv, CleanInv, Clean

LEMMA OverlappingAreOne ==
  ASSUME RowsInv, NEW public, NEW port \in Int, NEW protocol, NEW time \in Nat, NEW m, NEW n,
         Serves(m, public, port, protocol, time), Serves(n, public, port, protocol, time),
         m[1] \in Sound, n[1] \in Sound,
         ConnectorsOverlap(import[m[1]].terms, import[n[1]].terms)
  PROVE  m[1] = n[1]
<1>1. SameEndpoint(m[2], n[2]) /\ PeriodsOverlap(import[m[1]].terms, import[n[1]].terms)
  BY SharedEndpoint
<1>2. m[2] \in import[m[1]].live /\ n[2] \in import[n[1]].live
  BY DEF Serves
<1>. QED
  BY <1>1, <1>2 DEF RowsInv, NoClash

\* of two mappings of different imports, one outranks the other
LEMMA RanksDiffer ==
  ASSUME RowsInv, NEW public, NEW port, NEW protocol, NEW time, NEW connector, NEW m, NEW n,
         Serves(m, public, port, protocol, time), Serves(n, public, port, protocol, time),
         ~Outranks(m, n, protocol, connector), ~Outranks(n, m, protocol, connector)
  PROVE  m[1] = n[1]
<1>1. /\ m[1] \in Imports /\ import[m[1]].mappings # {}
      /\ n[1] \in Imports /\ import[n[1]].mappings # {}
  BY LiveRecords DEF Serves
<1>2. /\ import[m[1]].approved \in Nat /\ import[m[1]].approved > 0
      /\ import[n[1]].approved \in Nat /\ import[n[1]].approved > 0
  BY <1>1 DEF RowsInv, RowsTyped, Row, Numbered
<1>3. ~(import[m[1]].approved > import[n[1]].approved)
      /\ ~(import[n[1]].approved > import[m[1]].approved)
  BY DEF Outranks
<1>. QED
  BY <1>1, <1>2, <1>3 DEF RowsInv, Numbered

LEMMA LookupsAgree ==
  ASSUME CgnatInv
  PROVE  OneSubscriber
<1> SUFFICES ASSUME NEW m \in Visible, NEW port \in m[2].first .. m[2].last,
                    NEW protocol \in {r.protocol : r \in Records},
                    NEW time \in UNION {{t.from, t.until} : t \in Terms} \ {Open},
                    NEW connector \in {t.connector : t \in Terms},
                    {n[1] : n \in Found(m[2].public, port, protocol, time)} \subseteq Sound
             PROVE  LET found == Found(m[2].public, port, protocol, time)
                        fitting == {n \in found :
                                      import[n[1]].terms.connector \in {connector, AnyConnector}}
                        exact == {n \in fitting : /\ n[2].protocol = protocol
                                                  /\ import[n[1]].terms.connector = connector}
                        answers == Resolution(m[2].public, port, protocol, time, connector)
                    IN  /\ Cardinality({n[2].private : n \in fitting}) <= 1
                        /\ Cardinality(answers) <= 1
                        /\ \A n \in exact : \A x \in answers : x.private = n[2].private
  BY DEF OneSubscriber
<1> DEFINE found == Found(m[2].public, port, protocol, time)
           fitting == {n \in found : import[n[1]].terms.connector \in {connector, AnyConnector}}
           exact == {n \in fitting : /\ n[2].protocol = protocol
                                     /\ import[n[1]].terms.connector = connector}
           best == {n \in found : ~\E o \in found : Outranks(o, n, protocol, connector)}
           answers == Resolution(m[2].public, port, protocol, time, connector)
<1>1. RowsInv
  BY DEF CgnatInv
<1>2. port \in Int /\ time \in Nat
  BY CgnatAssumption
<1>3. \A n \in found : n[1] \in Sound /\ Serves(n, m[2].public, port, protocol, time)
  BY FoundServes
<1>4. answers = {[private |-> n[2].private, first |-> n[2].first, last |-> n[2].last] : n \in best}
  BY DEF Resolution
<1>5. Cardinality({n[2].private : n \in fitting}) <= 1
  <2>1. ASSUME NEW n \in fitting, NEW o \in fitting
        PROVE  n[2].private = o[2].private
    <3>1. ConnectorsOverlap(import[n[1]].terms, import[o[1]].terms)
      BY DEF ConnectorsOverlap
    <3>2. n[1] = o[1]
      BY <1>1, <1>2, <1>3, <3>1, OverlappingAreOne
    <3>. QED
      BY <1>1, <1>2, <1>3, <3>2, OneImportAgrees
  <2>. QED
    BY <2>1, AtMostOne
<1>6. Cardinality(answers) <= 1
  <2>1. ASSUME NEW n \in best, NEW o \in best
        PROVE  n[2].private = o[2].private /\ n[2].first = o[2].first /\ n[2].last = o[2].last
    <3>1. n[1] = o[1]
      BY <1>1, <1>3, RanksDiffer
    <3>. QED
      BY <1>1, <1>2, <1>3, <3>1, OneImportAgrees
  <2>2. \A x, y \in answers : x = y
    BY <1>4, <2>1
  <2>. QED
    BY <2>2, AtMostOne
<1>7. ASSUME NEW n \in exact, NEW o \in best
      PROVE  o[2].private = n[2].private
  <2>1. ~Outranks(n, o, protocol, connector)
    OBVIOUS
  <2>2. o[2].protocol = protocol
    BY <2>1 DEF Outranks
  <2>3. connector = AnyConnector \/ import[o[1]].terms.connector = connector
    BY <2>1, <2>2 DEF Outranks
  <2>4. ConnectorsOverlap(import[n[1]].terms, import[o[1]].terms)
    BY <2>3 DEF ConnectorsOverlap
  <2>5. n[1] = o[1]
    BY <1>1, <1>2, <1>3, <2>4, OverlappingAreOne
  <2>. QED
    BY <1>1, <1>2, <1>3, <2>5, OneImportAgrees
<1>8. \A n \in exact : \A x \in answers : x.private = n[2].private
  BY <1>4, <1>7
<1>. QED
  BY <1>5, <1>6, <1>8

-----------------------------------------------------------------------------
(* Theorems                                                                *)

(* The variables of the model keep their types.                            *)
THEOREM CgnatTypeCorrect == CgnatSpec => []CgnatTypeOK
<1>1. CgnatInv => CgnatTypeOK
  BY DEF CgnatInv, AskedInv, RowsInv, RowsTyped, CgnatTypeOK, Row, Request
<1>. QED
  BY <1>1, AlwaysInv, PTL

(* The mappings in service are those of the active imports, for any number *)
(* of imports, requests and parses: a request whose reading still holds    *)
(* when it writes keeps them together (activate_cgnat_batch and its kin).  *)
THEOREM LiveActive == CgnatSpec => []LiveIsActive
<1>1. CgnatInv => LiveIsActive
  BY DEF CgnatInv, RowsInv
<1>. QED
  BY <1>1, AlwaysInv, PTL

(* A lookup has one answer, that of the subscriber whose mapping has its   *)
(* protocol and connector, whatever the files, connectors and periods      *)
(* (resolve_cgnat_subscriber).                                             *)
THEOREM OneSubscriberAlways == CgnatSpec => []OneSubscriber
<1>. QED
  BY LookupsAgree, AlwaysInv, PTL

=============================================================================
