-------------------------- MODULE MCBgpAnnouncement --------------------------
(***************************************************************************)
(* TLC instances of BgpAnnouncement.  The configurations give the sets of  *)
(* threads; rows are inserted one after the other, so two rows are an old  *)
(* delivery and a younger one of the same rule.                            *)
(***************************************************************************)
EXTENDS BgpTable

(* Bound of BgpWithdrawals: what follows a crash or a failed commit is      *)
(* explored only where the manual page has withdrawn no untracked rule.     *)
FaultsWithoutManualPage ==
    faults = 0 \/ (NoWithdrawOnly /\ \A p \in Testers : asked[p] = {})
=============================================================================
