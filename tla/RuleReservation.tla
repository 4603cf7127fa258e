--------------------------- MODULE RuleReservation ---------------------------
(***************************************************************************)
(* What the application promises of a mitigation rule, whatever tables,    *)
(* threads and crashes stand behind it: a rule, which matches traffic and  *)
(* treats it, is announced only while it is reserved, by one announcement  *)
(* at a time, and its reservation ends when nothing announces it any more. *)
(* Routers know a rule by what it matches, so that an announcement takes   *)
(* the place of any other treatment of the same traffic.                   *)
(***************************************************************************)
EXTENDS Naturals

CONSTANTS
    Matches,     \* what a rule matches
    Treatments,  \* what it does with it
    Announcers   \* the announcements that may be made, numbered from 1

VARIABLES
    reserved,    \* the rules that are reserved
    announcer    \* the announcement a rule is announced by, or 0

Rules == Matches \X Treatments

ReservationInit ==
    /\ reserved = {}
    /\ announcer = [rule \in Rules |-> 0]

Silenced(match) ==
    [rule \in Rules |-> IF rule[1] = match THEN 0 ELSE announcer[rule]]

Reserve(rule) ==
    /\ rule \notin reserved
    /\ reserved' = reserved \cup {rule}
    /\ UNCHANGED announcer

Announce(rule, id) ==
    /\ rule \in reserved /\ announcer[rule] = 0
    /\ announcer' = [Silenced(rule[1]) EXCEPT ![rule] = id]
    /\ UNCHANGED reserved

Withdraw(match) ==
    /\ announcer' = Silenced(match)
    /\ UNCHANGED reserved

Release(rule) ==
    /\ rule \in reserved
    /\ reserved' = reserved \ {rule}
    /\ announcer' \in {announcer, Silenced(rule[1])}
    /\ announcer'[rule] = 0

ReservationNext ==
    \/ \E match \in Matches : Withdraw(match)
    \/ \E rule \in Rules :
         Reserve(rule) \/ Release(rule) \/ \E id \in Announcers : Announce(rule, id)

ReservationSpec ==
    ReservationInit /\ [][ReservationNext]_<<reserved, announcer>>
=============================================================================
