---------------------------- MODULE BgpReservation ----------------------------
(***************************************************************************)
(* The announcement rows implement the reservation of rules.               *)
(***************************************************************************)
EXTENDS BgpInvariants

ReservedRules == {rule \in Nlris \X Actions : Reserved(rule[1], rule[2])}

AnnouncerOf ==
    [rule \in Nlris \X Actions |->
       IF route[rule[1]] # 0 /\ ann[route[rule[1]]].action = rule[2]
       THEN route[rule[1]] ELSE 0]

Promise == INSTANCE RuleReservation
           WITH Matches <- Nlris, Treatments <- Actions, Announcers <- Ids,
                reserved <- ReservedRules, announcer <- AnnouncerOf

(* Whatever threads deliver, compensate, mark, decide and withdraw, and     *)
(* wherever the backend dies, every transaction is a step of the            *)
(* reservation: bgp_reserving_announcement_clause gives a key away only     *)
(* when ExaBGP announces its rule no more, and no row is announced over     *)
(* another of its rule.                                                     *)
KeepsReservations == Promise!ReservationSpec
=============================================================================
