------------------------------ MODULE MCServices ------------------------------
(***************************************************************************)
(* The services of the backend that share neither state nor steps, for one *)
(* run of TLC: a behaviour chooses the service that moves, and the others  *)
(* rest in their initial state.                                            *)
(***************************************************************************)
EXTENDS BgpStatusCheck, DashboardCache, PeakHunterRunner, MitigationApply,
        CgnatMapping

VARIABLE moving

servicesVars == <<statusVars, cacheVars, peakVars, mitigationVars, cgnatVars, moving>>

\* candidates whose flags nothing reads are left out, and of the others those
\* where several flags differ from the usual
Varied ==
    LET odd == {flag \in {"strict", "profileStrict"} : candidate[flag]}
                 \cup {flag \in {"evidence"} : ~candidate[flag]}
    IN /\ Cardinality(odd) <= 1
       /\ candidate.kind \notin {"automatic_dns", "destination_port"} => odd = {}
       /\ candidate.kind = "automatic_dns" => odd \subseteq {"evidence"}
       /\ candidate.kind = "destination_port" => candidate.evidence
       /\ conf.listed => candidate.strict
       /\ candidate.addressing =
            IF candidate.kind = "dns_destination" THEN "unresolved"
            ELSE IF candidate.kind = "destination_port" /\ odd = {} THEN "direct"
            ELSE "shared"

\* what files are parsed to, and for which connectors and periods: ranges that
\* meet at their bounds, the protocol any, a conflict within a file
Tcp(first, last, private) ==
    [public |-> "nat", protocol |-> "tcp", first |-> first, last |-> last, private |-> private]
Every(first, last, private) == [Tcp(first, last, private) EXCEPT !.protocol = "any"]
MCPayloads ==
    {{Every(1, 2, "b")}, {Tcp(1, 2, "a"), Every(2, 2, "b")},
     {Tcp(2, 2, "a"), Every(2, 2, "a")}}
Everywhere == [connector |-> 0, from |-> 0, until |-> 1]
MCTerms ==
    {Everywhere, [connector |-> 1, from |-> 1, until |-> 0],
     [connector |-> 2, from |-> 2, until |-> 0]}

\* requests overlap where the imports are alike, until one has been overtaken;
\* nothing is left to check once no import is sound
Plain ==
    \A b \in Imports : /\ import[b].terms = Everywhere
                      /\ import[b].preview \subseteq {Every(1, 2, "b")}
InOrder == \A i, j \in Imports : i < j /\ import[i].status = "none" => import[j].status = "none"
Alone == Cardinality({a \in Admins : serving[a] # AtEase}) <= 1

Resting(service) ==
    \/ service = "cache" /\ budget = 0
    \/ service = "peak" /\ \A j \in PeakJobs : ~peakJob[j].due
    \/ service = "imports" /\ \A b \in Imports : import[b].terms = CHOOSE t \in Terms : TRUE
    \/ service = "apply" /\ ~conf.listed /\ candidate = CHOOSE c \in Candidates : TRUE

ServicesInit ==
    /\ moving \in {"status", "cache", "peak", "apply", "imports"}
    /\ StatusInit /\ CacheInit /\ PeakInit /\ MitigationInit /\ CgnatInit
    /\ \A service \in {"cache", "peak", "apply", "imports"} \ {moving} : Resting(service)
    /\ moving = "apply" => Varied

ServicesNext ==
    \/ /\ moving = "status" /\ StatusNext
       /\ UNCHANGED <<cacheVars, peakVars, mitigationVars, cgnatVars, moving>>
    \/ /\ moving = "cache" /\ CacheNext
       /\ UNCHANGED <<statusVars, peakVars, mitigationVars, cgnatVars, moving>>
    \/ /\ moving = "peak" /\ PeakNext
       /\ UNCHANGED <<statusVars, cacheVars, mitigationVars, cgnatVars, moving>>
    \/ /\ moving = "apply" /\ MitigationNext
       /\ UNCHANGED <<statusVars, cacheVars, peakVars, cgnatVars, moving>>
    \/ /\ moving = "imports" /\ CgnatNext
       /\ Sound # {} /\ InOrder' /\ (Alone' \/ (unsound = {} /\ Plain'))
       /\ UNCHANGED <<statusVars, cacheVars, peakVars, mitigationVars, moving>>

ServicesSpec == ServicesInit /\ [][ServicesNext]_servicesVars

\* no fair action of a service is enabled in the state it rests in
ServicesFairSpec ==
    ServicesSpec /\ StatusFairness /\ CacheFairness /\ PeakFairness
=============================================================================
