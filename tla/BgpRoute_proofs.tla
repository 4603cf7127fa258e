--------------------------- MODULE BgpRoute_proofs ----------------------------
(***************************************************************************)
(* Who answers for the rules ExaBGP announces.  RouteInv is inductive,     *)
(* whoever runs and whatever fails; from it, the withdraw of an operator   *)
(* or of the reconciler removes the rule of its own row.  When nobody uses *)
(* the withdraw of the manual FlowSpec page, no row is closed on account   *)
(* of one, so that no rule stays announced behind the application's back   *)
(* and the rows implement the reservation of rules.                        *)
(***************************************************************************)
EXTENDS BgpAnnouncement_proofs

\* a row becomes ready for delivery only when it is inserted or approved
AttKept ==
    \A q \in Ids : att'[q] \in {"ready", "claimed"} =>
        att[q] \in {"ready", "claimed"} \/ ann[q].status = "pending_approval"

\* the row answers for its rule in the next state
StillAnswers(r) ==
    \/ Held(ann'[r])
    \/ /\ ann'[r].status \in {"withdrawn", "expired"}
       /\ ann'[r].level = "superseded_by_newer_delivery"
       /\ \E q \in Ids : ann'[q].status # "absent" /\ ann'[q].withdrawOnly

\* the owner of an announced rule answers for it, or is a row just delivered
OwnersHold ==
    \A n \in Nlris : route'[n] # 0 =>
        \/ route'[n] = route[n] /\ StillAnswers(route[n])
        \/ \E o \in Ids : /\ route'[n] = o /\ att[o] # "none"
                          /\ ann[o].nlri = n /\ Live(ann[o])
                          /\ Held(ann'[o])
                          /\ att'[o] \notin {"ready", "claimed"}

Armed == \A q \in Ids : ann'[q].level = "delivery_attempted" => ann'[q].expiry # "unset"

LEMMA OwnerFacts ==
  ASSUME Typed, RouteInv, NEW n \in Nlris, route[n] # 0
  PROVE  /\ route[n] \in Ids /\ ann[route[n]].nlri = n
         /\ ~ann[route[n]].withdrawOnly /\ Answering(route[n])
BY MaxRowsAssumption DEF Typed, TypeOK, RouteInv, RouteIsHeld, Ids

\* an owner that is not closed still answers for its rule
LEMMA OpenOwnerHeld ==
  ASSUME Typed, RouteInv, NEW r \in Ids, ann[r].status \notin {"withdrawn", "expired"},
         route[ann[r].nlri] = r
  PROVE  Held(ann[r])
<1>1. ann[r].nlri \in Nlris /\ r # 0
  BY DEF Typed, TypeOK, Row, Ids
<1>. QED
  BY <1>1, OwnerFacts DEF Answering, Overtaken

LEMMA AnsweringKept ==
  ASSUME AllMove, NEW o \in Ids, ann'[o] = ann[o], Answering(o)
  PROVE  StillAnswers(o)
<1>1. CASE Held(ann[o])
  BY <1>1 DEF StillAnswers
<1>2. CASE Overtaken(o)
  <2>1. PICK q \in Ids : ann[q].status # "absent" /\ ann[q].withdrawOnly
    BY <1>2 DEF Overtaken, Existing
  <2>2. ann'[q].status # "absent" /\ ann'[q].withdrawOnly
    BY <2>1 DEF AllMove, Moves, Kept, Stays, Delivers, Ends, IsApproved, GoesDown, Gone
  <2>. QED
    BY <1>2, <2>2 DEF StillAnswers, Overtaken
<1>. QED
  BY <1>1, <1>2 DEF Answering

LEMMA RouteInvMoves ==
  ASSUME Typed, KeyInv, RouteInv, AllMove, AttKept, OwnersHold, Armed
  PROVE  RouteInv'
<1>1. \A r \in Ids : ann'[r].status # "absent" <=> ann[r].status # "absent"
  BY DEF AllMove, Moves, Stays, Delivers, Ends, IsApproved, GoesDown, Gone
<1>2. \A r \in Ids : Kept(r)
  BY DEF AllMove, Moves
<1>3. AttemptIsArmed'
  BY DEF Armed, AttemptIsArmed
<1>4. ASSUME NEW n \in Nlris, route'[n] # 0, route'[n] = route[n], StillAnswers(route[n])
      PROVE  /\ route'[n] \in Ids /\ ann[route'[n]].nlri = n
             /\ ~ann[route'[n]].withdrawOnly /\ StillAnswers(route'[n])
             /\ Held(ann'[route'[n]]) =>
                  \A q \in Ids : /\ q > route'[n] /\ ann[q].status # "absent"
                                 /\ SameKey(q, n, ann[route'[n]].action)
                                 => ann[q].withdrawOnly
  <2>. DEFINE o == route[n]
  <2>1. o \in Ids /\ ann[o].nlri = n /\ ~ann[o].withdrawOnly /\ Answering(o)
    BY <1>4, OwnerFacts
  <2>2. ASSUME Held(ann'[o]) PROVE Held(ann[o])
    <3>1. ann'[o].status \notin Gone
      BY <2>2 DEF Held, Gone
    <3>2. ann[o].status \notin {"withdrawn", "expired"}
      BY <2>1, <3>1
         DEF AllMove, Moves, Stays, Delivers, Ends, IsApproved, GoesDown, Gone
    <3>. QED
      BY <2>1, <3>2 DEF Answering, Overtaken
  <2>. QED
    BY <1>4, <2>1, <2>2 DEF RouteInv, RouteIsYoungest
<1>5. ASSUME NEW n \in Nlris, NEW o \in Ids, route'[n] = o, att[o] # "none",
             ann[o].nlri = n, Live(ann[o]), Held(ann'[o])
      PROVE  /\ route'[n] \in Ids /\ ann[route'[n]].nlri = n
             /\ ~ann[route'[n]].withdrawOnly /\ StillAnswers(route'[n])
             /\ Held(ann'[route'[n]]) =>
                  \A q \in Ids : /\ q > route'[n] /\ ann[q].status # "absent"
                                 /\ SameKey(q, n, ann[route'[n]].action)
                                 => ann[q].withdrawOnly
  <2>1. ~ann[o].withdrawOnly
    BY <1>5 DEF KeyInv, DeliveriesAreTracked
  <2>3. StillAnswers(route'[n])
    BY <1>5 DEF StillAnswers
  <2>. QED
    BY <1>5, <2>1, <2>3 DEF KeyInv, LiveIsYoungest
<1>6. \A n \in Nlris : route'[n] # 0 =>
        /\ route'[n] \in Ids /\ ann[route'[n]].nlri = n
        /\ ~ann[route'[n]].withdrawOnly /\ StillAnswers(route'[n])
        /\ Held(ann'[route'[n]]) =>
             \A q \in Ids : /\ q > route'[n] /\ ann[q].status # "absent"
                            /\ SameKey(q, n, ann[route'[n]].action)
                            => ann[q].withdrawOnly
  BY <1>4, <1>5 DEF OwnersHold
<1>7. RouteIsHeld'
  BY <1>2, <1>6 DEF RouteIsHeld, Kept, StillAnswers, Answering, Overtaken, Existing
<1>8. RouteIsYoungest'
  BY <1>1, <1>2, <1>6 DEF RouteIsYoungest, Kept, SameKey
<1>9. NotYetAnnounced'
  <2>. SUFFICES ASSUME NEW r \in Ids, att'[r] \in {"ready", "claimed"},
                       route'[ann[r].nlri] = r
                PROVE  FALSE
    BY <1>2 DEF NotYetAnnounced, Kept
  <2>1. ann[r].nlri \in Nlris /\ r # 0
    BY DEF Typed, TypeOK, Row, Ids
  <2>2. route[ann[r].nlri] = r
    BY <2>1 DEF OwnersHold
  <2>3. ann[r].status = "pending_approval"
    BY <2>2 DEF AttKept, RouteInv, NotYetAnnounced
  <2>. QED
    BY <2>2, <2>3, OpenOwnerHeld DEF Held
<1>. QED
  BY <1>3, <1>7, <1>8, <1>9 DEF RouteInv

\* one row changes, and its rule is withdrawn or the row still answers for it
LEMMA OneRowChanges ==
  ASSUME Typed, KeyInv, RouteInv, AllMove, AttKept, NEW r \in Ids,
         \A q \in Ids : q # r => ann'[q] = ann[q],
         \/ PipeWithdraw(r)
         \/ UNCHANGED route /\ (route[ann[r].nlri] = r => StillAnswers(r)),
         ann'[r].level = "delivery_attempted" => ann'[r].expiry # "unset"
  PROVE  RouteInv'
<1>1. Armed
  BY DEF Armed, RouteInv, AttemptIsArmed
<1>2. ann[r].nlri \in Nlris /\ route \in [Nlris -> 0 .. MaxRows]
  BY DEF Typed, TypeOK, Row
<1>3. ASSUME NEW n \in Nlris, route'[n] # 0
      PROVE  route'[n] = route[n] /\ StillAnswers(route[n])
  <2>1. route'[n] = route[n]
    BY <1>2, <1>3 DEF PipeWithdraw
  <2>2. route[n] \in Ids /\ ann[route[n]].nlri = n /\ Answering(route[n])
    BY <1>3, <2>1, OwnerFacts
  <2>3. CASE route[n] # r
    BY <2>1, <2>2, <2>3, AnsweringKept
  <2>4. CASE route[n] = r
    BY <1>2, <1>3, <2>1, <2>2, <2>4 DEF PipeWithdraw
  <2>. QED
    BY <2>3, <2>4
<1>4. OwnersHold
  BY <1>3 DEF OwnersHold
<1>. QED
  BY <1>1, <1>4, RouteInvMoves

LEMMA NoRowChanges ==
  ASSUME Typed, KeyInv, RouteInv, AllMove, AttKept, UNCHANGED <<ann, route>>
  PROVE  RouteInv'
<1>1. Armed
  BY DEF Armed, RouteInv, AttemptIsArmed
<1>2. OwnersHold
  BY OwnerFacts, AnsweringKept DEF OwnersHold
<1>. QED
  BY <1>1, <1>2, RouteInvMoves

-----------------------------------------------------------------------------
(* What the updates do to the row's answer for its rule.                    *)

LEMMA TransitionEffect ==
  ASSUME NEW r \in Ids, ann \in [Ids -> Row], NEW s \in Statuses, NEW l \in Levels,
         Transition(r, s, l)
  PROVE  /\ \A q \in Ids : q # r => ann'[q] = ann[q]
         /\ ann'[r].status = s /\ ann'[r].level = l
         /\ s = "sent" => Held(ann'[r])
         /\ s = "advertised" /\ ann[r].status = "sent" /\ Held(ann[r]) => Held(ann'[r])
         /\ s = "failed_withdraw" => Held(ann'[r])
<1>. DEFINE t == Transitioned(ann[r], s, l)
<1>1. ann[r] \in Row /\ ann'[r] = t /\ \A q \in Ids : q # r => ann'[q] = ann[q]
  BY TransitionType
<1>2. t.status = s /\ t.level = l /\ t.expiry = NextExpiry(ann[r], s)
  BY <1>1, TransitionedType
<1>3. s = "sent" => t.sent /\ t.expiry # "unset"
  BY <1>1, <1>2 DEF Transitioned, NextExpiry, Row
<1>4. s = "advertised" /\ ann[r].sent => t.sent
  BY <1>1 DEF Transitioned, Row
<1>5. s = "advertised" => t.expiry # "unset"
  BY <1>1, <1>2 DEF NextExpiry, Row
<1>. HIDE DEF t
<1>. QED
  BY <1>1, <1>2, <1>3, <1>4, <1>5 DEF Held

LEMMA HeldAnswers == ASSUME NEW r \in Ids, Held(ann'[r]) PROVE StillAnswers(r)
BY DEF StillAnswers

\* the transitions that leave the route alone and still answer for it
LEMMA TransitionKeepsRoute ==
  ASSUME Typed, KeyInv, RouteInv, AllMove, AttKept, NEW r \in Ids, NEW s \in Statuses,
         NEW l \in Levels, Transition(r, s, l), l # "delivery_attempted",
         \/ PipeWithdraw(r)
         \/ UNCHANGED route /\ s \in {"sent", "failed_withdraw"}
         \/ UNCHANGED route /\ s = "advertised" /\ ann[r].status = "sent"
         \/ UNCHANGED route /\ route[ann[r].nlri] # r
  PROVE  RouteInv'
<1>1. ann \in [Ids -> Row] /\ ann[r].nlri \in Nlris /\ r # 0
  BY DEF Typed, TypeOK, Row, Ids
<1>2. (\A q \in Ids : q # r => ann'[q] = ann[q]) /\ ann'[r].level = l
  BY <1>1, TransitionEffect
<1>3. CASE PipeWithdraw(r)
  BY <1>2, <1>3, OneRowChanges
<1>4. CASE UNCHANGED route /\ s \in {"sent", "failed_withdraw"}
  <2>1. Held(ann'[r])
    BY <1>1, <1>4, TransitionEffect
  <2>. QED
    BY <1>2, <1>4, <2>1, HeldAnswers, OneRowChanges
<1>5. CASE UNCHANGED route /\ s = "advertised" /\ ann[r].status = "sent"
  <2>1. route[ann[r].nlri] = r => Held(ann[r])
    BY <1>5, OpenOwnerHeld
  <2>2. Held(ann[r]) => Held(ann'[r])
    BY <1>1, <1>5, TransitionEffect
  <2>. QED
    BY <1>2, <1>5, <2>1, <2>2, HeldAnswers, OneRowChanges
<1>6. CASE UNCHANGED route /\ route[ann[r].nlri] # r
  BY <1>2, <1>6, OneRowChanges
<1>. QED
  BY <1>3, <1>4, <1>5, <1>6

LEMMA PersistHeld ==
  ASSUME NEW r \in Ids, ann \in [Ids -> Row], NEW c \in Claims, PersistIntent(r, c)
  PROVE  /\ \A q \in Ids : q # r => ann'[q] = ann[q]
         /\ Held(ann[r]) => Held(ann'[r])
         /\ ann'[r].level = "withdraw_requested"
BY PersistType DEF Held

LEMMA PersistKeepsRoute ==
  ASSUME Typed, KeyInv, RouteInv, AllMove, AttKept, NEW r \in Ids, NEW c \in Claims,
         PersistIntent(r, c), ann[r].status \notin Gone, UNCHANGED route
  PROVE  RouteInv'
<1>1. ann \in [Ids -> Row]
  BY DEF Typed, TypeOK
<1>2. route[ann[r].nlri] = r => Held(ann[r])
  BY OpenOwnerHeld DEF Gone
<1>. QED
  BY <1>1, <1>2, PersistHeld, HeldAnswers, OneRowChanges

\* a row closed as superseded although it is announced was overtaken by a
\* withdraw of the manual page
LEMMA FinishKeepsRoute ==
  ASSUME Typed, KeyInv, RouteInv, AllMove, AttKept, NEW r \in Ids,
         ann[r].status \notin Gone,
         NEW target \in {"withdrawn", "expired"}, NEW omit,
         omit => Superseded(r), FinishWithdraw(r, target, omit)
  PROVE  RouteInv'
<1>1. ann \in [Ids -> Row] /\ ann[r].nlri \in Nlris /\ r # 0 /\ target \in Statuses
  BY DEF Typed, TypeOK, Row, Ids, Statuses
<1>2. CASE omit /\ UNCHANGED route /\ Transition(r, target, "superseded_by_newer_delivery")
  <2>1. "superseded_by_newer_delivery" \in Levels
    BY DEF Levels
  <2>2. /\ \A q \in Ids : q # r => ann'[q] = ann[q]
        /\ ann'[r].status = target /\ ann'[r].level = "superseded_by_newer_delivery"
    BY <1>1, <1>2, <2>1, TransitionEffect
  <2>3. ASSUME route[ann[r].nlri] = r PROVE StillAnswers(r)
    <3>1. Held(ann[r])
      BY <2>3, OpenOwnerHeld DEF Gone
    <3>2. PICK q \in Ids : /\ ann[q].status # "absent" /\ q > r
                           /\ SameKey(q, ann[r].nlri, ann[r].action)
      BY <1>2 DEF Superseded, Existing
    <3>3. ann[q].withdrawOnly
      BY <1>1, <2>3, <3>1, <3>2 DEF RouteInv, RouteIsYoungest
    <3>4. ann'[q].status # "absent" /\ ann'[q].withdrawOnly
      BY <2>2, <3>2, <3>3 DEF Ids
    <3>. QED
      BY <2>2, <3>4 DEF StillAnswers
  <2>. QED
    BY <1>2, <2>2, <2>3, OneRowChanges
<1>3. CASE PipeWithdraw(r) /\ Transition(r, target, "withdrawn")
  BY <1>1, <1>3, TransitionKeepsRoute DEF Levels
<1>4. CASE UNCHANGED route /\ Transition(r, "failed_withdraw", "withdraw_failed")
  BY <1>1, <1>4, TransitionKeepsRoute DEF Levels, Statuses
<1>5. CASE PipeWithdraw(r) /\ UNCHANGED ann
  BY <1>1, <1>5, OneRowChanges DEF RouteInv, AttemptIsArmed
<1>. QED
  BY <1>2, <1>3, <1>4, <1>5 DEF FinishWithdraw

\* no intent is held on a closed row
LEMMA IntentIsOpen ==
  ASSUME KeyInv, NEW r \in Ids, ann[r].level = "withdraw_requested"
  PROVE  ann[r].status \notin Gone
BY DEF KeyInv, GoneHasNoRequest

-----------------------------------------------------------------------------
(* Each action keeps the invariant.                                         *)

LEMMA DeliveryKeepsRoute ==
  ASSUME Typed, KeyInv, RouteInv, NEW r \in Ids, Delivery(r)
  PROVE  RouteInv'
<1>1. /\ ann \in [Ids -> Row] /\ ann[r] \in Row /\ ann[r].nlri \in Nlris /\ r # 0
      /\ att \in [Ids -> Pcs] /\ route \in [Nlris -> 0 .. MaxRows]
  BY DEF Typed, TypeOK, Row, Ids, Pcs
<1>2. AllMove
  BY DeliveryMoves
<1>3. \A q \in Ids : q # r => att'[q] = att[q]
  BY <1>1 DEF Delivery, SendIntent, NotReady, Deliver, Advertise, Compensate, Undo,
              AttemptTo, Pcs
<1>4. CASE SendIntent(r)
  <2>1. AttKept
    BY <1>1, <1>3, <1>4 DEF SendIntent, AttKept
  <2>2. CASE ann' = [ann EXCEPT ![r] = SendClaimed(ann[r])] /\ ann[r].status = "queued"
    <3>1. /\ \A q \in Ids : q # r => ann'[q] = ann[q]
          /\ ann'[r] = SendClaimed(ann[r])
      BY <1>1, <2>2
    <3>2. ann'[r].expiry # "unset" /\ Held(ann'[r])
      BY <1>1, <2>2, <3>1, SendClaimedType DEF Held
    <3>. QED
      BY <1>2, <1>4, <2>1, <3>1, <3>2, HeldAnswers, OneRowChanges DEF SendIntent
  <2>3. CASE UNCHANGED ann
    BY <1>2, <1>4, <2>1, <2>3, NoRowChanges DEF SendIntent
  <2>. QED
    BY <1>4, <2>2, <2>3 DEF SendIntent
<1>5. CASE NotReady(r)
  <2>1. AttKept
    BY <1>1, <1>3, <1>5 DEF NotReady, AttKept, AttemptTo
  <2>2. route[ann[r].nlri] # r
    BY <1>5 DEF NotReady, RouteInv, NotYetAnnounced
  <2>3. ASSUME NEW s \in {"peer_down", "failed"}, CancelDelivery(r, s, "peer_unavailable")
        PROVE  RouteInv'
    <3>1. s \in Statuses /\ "peer_unavailable" \in Levels
      BY DEF Statuses, Levels
    <3>2. (\A q \in Ids : q # r => ann'[q] = ann[q]) /\ ann'[r].level = "peer_unavailable"
      BY <1>1, <2>3, <3>1, CancelType
    <3>. QED
      BY <1>2, <1>5, <2>1, <2>2, <3>2, OneRowChanges DEF NotReady
  <2>4. CASE UNCHANGED ann
    BY <1>2, <1>5, <2>1, <2>4, NoRowChanges DEF NotReady
  <2>. QED
    BY <1>5, <2>3, <2>4 DEF NotReady
<1>6. CASE Deliver(r)
  <2>1. AttKept /\ att'[r] \notin {"ready", "claimed"}
    BY <1>1, <1>3, <1>6 DEF Deliver, AttKept, AttemptTo
  <2>2. CASE /\ StillClaimed(r) /\ ann[r].sendToken /\ PipeAnnounce(r)
             /\ Transition(r, "sent", "delivered_to_exabgp") \/ UNCHANGED ann
    <3>1. ~ann[r].withdrawOnly /\ att[r] # "none"
      BY <1>6 DEF Deliver, KeyInv, DeliveriesAreTracked
    <3>2. Live(ann[r])
      BY <2>2, <3>1 DEF Live, StillClaimed
    <3>3. Held(ann'[r]) /\ \A q \in Ids : q # r => ann'[q] = ann[q]
      <4>1. CASE Transition(r, "sent", "delivered_to_exabgp")
        BY <1>1, <4>1, TransitionEffect DEF Statuses, Levels
      <4>2. CASE UNCHANGED ann
        BY <2>2, <4>2 DEF Held, StillClaimed, RouteInv, AttemptIsArmed
      <4>. QED
        BY <2>2, <4>1, <4>2
    <3>4. Armed
      <4>1. CASE Transition(r, "sent", "delivered_to_exabgp")
        <5>1. ann'[r].level = "delivered_to_exabgp"
          BY <1>1, <4>1, TransitionEffect DEF Statuses, Levels
        <5>. QED
          BY <3>3, <5>1 DEF Armed, RouteInv, AttemptIsArmed
      <4>2. CASE UNCHANGED ann
        BY <4>2 DEF Armed, RouteInv, AttemptIsArmed
      <4>. QED
        BY <2>2, <4>1, <4>2
    <3>5. OwnersHold
      <4>1. ASSUME NEW n \in Nlris, route'[n] # 0, n # ann[r].nlri
            PROVE  route'[n] = route[n] /\ StillAnswers(route[n])
        <5>1. route'[n] = route[n]
          BY <1>1, <2>2, <4>1 DEF PipeAnnounce
        <5>. QED
          BY <1>2, <3>3, <4>1, <5>1, OwnerFacts, AnsweringKept
      <4>2. route'[ann[r].nlri] = r
        BY <1>1, <2>2 DEF PipeAnnounce
      <4>. QED
        BY <2>1, <3>1, <3>2, <3>3, <4>1, <4>2 DEF OwnersHold
    <3>. QED
      BY <1>2, <2>1, <3>4, <3>5, RouteInvMoves
  <2>3. CASE CancelDelivery(r, "failed", "peer_established") /\ UNCHANGED route
    <3>1. route[ann[r].nlri] # r
      BY <1>6 DEF Deliver, RouteInv, NotYetAnnounced
    <3>2. "failed" \in Statuses /\ "peer_established" \in Levels
      BY DEF Statuses, Levels
    <3>3. (\A q \in Ids : q # r => ann'[q] = ann[q]) /\ ann'[r].level = "peer_established"
      BY <1>1, <2>3, <3>2, CancelType
    <3>. QED
      BY <1>2, <2>1, <2>3, <3>1, <3>3, OneRowChanges
  <2>4. CASE UNCHANGED <<ann, route>>
    BY <1>2, <2>1, <2>4, NoRowChanges
  <2>. QED
    BY <1>6, <2>2, <2>3, <2>4 DEF Deliver
<1>7. CASE Advertise(r)
  <2>1. AttKept
    BY <1>1, <1>3, <1>7 DEF Advertise, AttKept, AttemptTo
  <2>2. CASE /\ ann[r].status = "sent"
             /\ Transition(r, "advertised", "peer_established_announce_requested")
    BY <1>2, <1>7, <2>1, <2>2, TransitionKeepsRoute DEF Advertise, Statuses, Levels
  <2>3. CASE UNCHANGED ann
    BY <1>2, <1>7, <2>1, <2>3, NoRowChanges DEF Advertise
  <2>. QED
    BY <1>7, <2>2, <2>3 DEF Advertise
<1>8. CASE Compensate(r)
  <2>1. AttKept
    BY <1>1, <1>3, <1>8 DEF Compensate, AttKept, AttemptTo
  <2>2. CASE UNCHANGED ann
    BY <1>2, <1>8, <2>1, <2>2, NoRowChanges DEF Compensate
  <2>3. CASE PersistIntent(r, AttemptClaim) /\ ann[r].status \in {"queued", "sent"}
    BY <1>2, <1>8, <2>1, <2>3, PersistKeepsRoute DEF Compensate, Claims, Gone
  <2>. QED
    BY <1>8, <2>2, <2>3 DEF Compensate
<1>9. CASE Undo(r)
  <2>1. AttKept
    BY <1>1, <1>3, <1>9 DEF Undo, AttKept, AttemptTo
  <2>2. CASE PipeWithdraw(r) /\ Transition(r, "failed", "compensating_withdraw_delivered")
    BY <1>2, <2>1, <2>2, TransitionKeepsRoute DEF Statuses, Levels
  <2>3. CASE UNCHANGED route /\ Transition(r, "failed_withdraw", "withdraw_failed")
    BY <1>2, <2>1, <2>3, TransitionKeepsRoute DEF Statuses, Levels
  <2>4. CASE PipeWithdraw(r) /\ UNCHANGED ann
    BY <1>1, <1>2, <2>1, <2>4, OneRowChanges DEF RouteInv, AttemptIsArmed
  <2>5. CASE UNCHANGED <<ann, route>>
    BY <1>2, <2>1, <2>5, NoRowChanges
  <2>. QED
    BY <1>9, <2>2, <2>3, <2>4, <2>5 DEF Undo
<1>. QED
  BY <1>4, <1>5, <1>6, <1>7, <1>8, <1>9 DEF Delivery

LEMMA ReconcileKeepsRoute ==
  ASSUME Typed, KeyInv, RouteInv, NEW p \in Reconcilers, Reconcile(p)
  PROVE  RouteInv'
<1>1. p \in Withdrawers /\ p \in Claims
  BY DEF Withdrawers, Claims
<1>2. AllMove
  BY ReconcileMoves
<1>3. AttKept
  BY DEF Reconcile, Scan, ReconcilerClaim, ReconcilerFinish, AttKept
<1>4. CASE Scan(p)
  BY <1>2, <1>3, <1>4, NoRowChanges DEF Scan
<1>5. CASE \E r \in Ids, seen \in Statuses : ReconcilerClaim(p, r, seen)
  <2>1. PICK r \in Ids, seen \in Statuses : ReconcilerClaim(p, r, seen)
    BY <1>5
  <2>2. /\ UNCHANGED route
        /\ \/ PersistIntent(r, p) /\ ann[r].status \notin Gone
           \/ UNCHANGED ann
    BY <2>1 DEF ReconcilerClaim, KeyInv, ScansSawOpenRows
  <2>. QED
    BY <1>1, <1>2, <1>3, <2>2, NoRowChanges, PersistKeepsRoute
<1>6. CASE ReconcilerFinish(p)
  <2>. DEFINE r == job[p].row
             target == IF ann[r].expiry = "elapsed" THEN "expired" ELSE "withdrawn"
  <2>1. r \in Ids
    BY <1>1, <1>6 DEF ReconcilerFinish, Typed, JobHasRow
  <2>2. target \in {"withdrawn", "expired"}
    OBVIOUS
  <2>3. \/ /\ FinishWithdraw(r, target, Superseded(r))
           /\ ann[r].level = "withdraw_requested"
        \/ UNCHANGED <<ann, route>>
    BY <1>6 DEF ReconcilerFinish, HoldsIntent
  <2>. HIDE DEF r, target
  <2>. QED
    BY <1>2, <1>3, <2>1, <2>2, <2>3, NoRowChanges, IntentIsOpen, FinishKeepsRoute
<1>. QED
  BY <1>4, <1>5, <1>6 DEF Reconcile

LEMMA OperateKeepsRoute ==
  ASSUME Typed, KeyInv, RouteInv, NEW p \in Operators, Operate(p)
  PROVE  RouteInv'
<1>1. p \in Withdrawers /\ p \in Claims
  BY DEF Withdrawers, Claims
<1>2. AllMove
  BY OperateMoves
<1>3. AttKept
  BY DEF Operate, OperatorClaim, OperatorFinish, AttKept
<1>4. CASE \E r \in Ids : OperatorClaim(p, r)
  BY <1>1, <1>2, <1>3, <1>4, PersistKeepsRoute DEF OperatorClaim, Gone
<1>5. CASE OperatorFinish(p)
  <2>1. job[p].row \in Ids
    BY <1>1, <1>5 DEF OperatorFinish, Typed, JobHasRow
  <2>2. \/ /\ FinishWithdraw(job[p].row, "withdrawn", Superseded(job[p].row))
           /\ ann[job[p].row].level = "withdraw_requested"
        \/ UNCHANGED <<ann, route>>
    BY <1>5 DEF OperatorFinish, HoldsIntent
  <2>. QED
    BY <1>2, <1>3, <2>1, <2>2, NoRowChanges, IntentIsOpen, FinishKeepsRoute
<1>. QED
  BY <1>4, <1>5 DEF Operate

LEMMA OrchestratorKeepsRoute ==
  ASSUME Typed, KeyInv, RouteInv, NEW p \in Orchestrators, OrchestratorWithdraw(p)
  PROVE  RouteInv'
<1>1. p \in Withdrawers /\ p \in Claims
  BY DEF Withdrawers, Claims
<1>2. AllMove
  BY OrchestratorMoves
<1>3. AttKept
  BY DEF OrchestratorWithdraw, OrchestratorClaim, OrchestratorFinish, AttKept
<1>4. CASE \E r \in Ids : OrchestratorClaim(p, r)
  BY <1>1, <1>2, <1>3, <1>4, PersistKeepsRoute DEF OrchestratorClaim, Gone
<1>5. CASE OrchestratorFinish(p)
  <2>. DEFINE r == job[p].row
  <2>1. r \in Ids /\ ann \in [Ids -> Row]
    BY <1>1, <1>5 DEF OrchestratorFinish, Typed, TypeOK, JobHasRow
  <2>2. \/ PipeWithdraw(r) /\ Transition(r, "expired", "withdrawn")
        \/ UNCHANGED route /\ Transition(r, "failed_withdraw", "withdraw_failed")
        \/ PipeWithdraw(r) /\ UNCHANGED ann
        \/ UNCHANGED <<ann, route>>
    BY <1>5 DEF OrchestratorFinish
  <2>. HIDE DEF r
  <2>3. CASE PipeWithdraw(r) /\ Transition(r, "expired", "withdrawn")
    BY <1>2, <1>3, <2>1, <2>3, TransitionKeepsRoute DEF Statuses, Levels
  <2>4. CASE UNCHANGED route /\ Transition(r, "failed_withdraw", "withdraw_failed")
    BY <1>2, <1>3, <2>1, <2>4, TransitionKeepsRoute DEF Statuses, Levels
  <2>5. CASE PipeWithdraw(r) /\ UNCHANGED ann
    BY <1>2, <1>3, <2>1, <2>5, OneRowChanges DEF RouteInv, AttemptIsArmed
  <2>6. CASE UNCHANGED <<ann, route>>
    BY <1>2, <1>3, <2>6, NoRowChanges
  <2>. QED
    BY <2>2, <2>3, <2>4, <2>5, <2>6
<1>. QED
  BY <1>4, <1>5 DEF OrchestratorWithdraw

\* all but the insertion; a row of the page is withdrawn whatever is younger
LEMMA ManualKeepsRoute ==
  ASSUME Typed, KeyInv, RouteInv, NEW p \in Testers,
         \/ \E n \in Nlris, a \in Actions : TesterCheck(p, n, a)
         \/ TesterClaim(p)
         \/ TesterFinish(p)
  PROVE  RouteInv'
<1>1. p \in Withdrawers /\ p \in Claims
  BY DEF Withdrawers, Claims
<1>2. AllMove
  BY ManualWithdrawMoves
<1>3. AttKept
  BY DEF TesterCheck, TesterClaim, TesterFinish, AttKept
<1>4. CASE UNCHANGED <<ann, route>>
  BY <1>2, <1>3, <1>4, NoRowChanges
<1>5. CASE TesterClaim(p)
  <2>1. job[p].row \in Ids
    BY <1>1, <1>5 DEF TesterClaim, Typed, JobHasRow
  <2>2. \/ /\ PersistIntent(job[p].row, p) /\ UNCHANGED route
           /\ ann[job[p].row].status \notin Gone
        \/ UNCHANGED <<ann, route>>
    BY <1>5 DEF TesterClaim, Gone
  <2>. QED
    BY <1>1, <1>2, <1>3, <1>4, <2>1, <2>2, PersistKeepsRoute
<1>6. CASE TesterFinish(p)
  <2>1. job[p].row \in Ids
    BY <1>1, <1>6 DEF TesterFinish, Typed, JobHasRow
  <2>2. \/ /\ FinishWithdraw(job[p].row, "withdrawn", FALSE)
           /\ ann[job[p].row].status \notin Gone
        \/ UNCHANGED <<ann, route>>
    BY <1>6 DEF TesterFinish, Gone
  <2>. QED
    BY <1>2, <1>3, <1>4, <2>1, <2>2, FinishKeepsRoute
<1>. QED
  BY <1>4, <1>5, <1>6 DEF TesterCheck

LEMMA DecisionsKeepRoute ==
  ASSUME Typed, KeyInv, RouteInv, Decisions
  PROVE  RouteInv'
<1>1. AllMove
  BY RowChangesMove
<1>2. PICK r \in Ids : Approve(r) \/ Reject(r) \/ DropUndelivered(r)
  BY DEF Decisions
<1>3. ann \in [Ids -> Row] /\ ann[r].nlri \in Nlris /\ r # 0 /\ att \in [Ids -> Pcs]
  BY DEF Typed, TypeOK, Row, Ids, Pcs
<1>4. ~Held(ann[r]) /\ ann[r].status \notin {"withdrawn", "expired"}
  BY <1>2 DEF Approve, Reject, Rejectable, DropUndelivered, WasDelivered, Delivered, Held
<1>5. route[ann[r].nlri] # r
  BY <1>4, OpenOwnerHeld
<1>6. AttKept /\ UNCHANGED route
  BY <1>2, <1>3 DEF Approve, Reject, DropUndelivered, AttemptTo, AttKept
<1>7. \E s \in Statuses, l \in {"approved", "simulation_only", "operator_rejected",
                                "withdrawn"} : Transition(r, s, l)
  BY <1>2 DEF Approve, Reject, DropUndelivered, Statuses
<1>. QED
  BY <1>1, <1>5, <1>6, <1>7, TransitionKeepsRoute DEF Levels

LEMMA TimeKeepsRoute ==
  ASSUME Typed, KeyInv, RouteInv, Time
  PROVE  RouteInv'
<1>1. AllMove
  BY RowChangesMove
<1>2. PICK r \in Ids : TtlElapses(r) \/ RetryWindowElapses(r)
  BY DEF Time
<1>3. ann \in [Ids -> Row] /\ ann[r] \in Row /\ ann[r].nlri \in Nlris /\ r # 0
  BY DEF Typed, TypeOK, Row, Ids
<1>4. \/ ann' = [ann EXCEPT ![r] = [ann[r] EXCEPT !.expiry = "elapsed"]]
      \/ ann' = [ann EXCEPT ![r] = [ann[r] EXCEPT !.recent = FALSE]]
  BY <1>2 DEF TtlElapses, RetryWindowElapses
<1>5. AttKept /\ UNCHANGED route
  BY <1>2 DEF TtlElapses, RetryWindowElapses, AttKept
<1>6. \A q \in Ids : q # r => ann'[q] = ann[q]
  BY <1>3, <1>4
<1>7. Held(ann[r]) => Held(ann'[r])
  BY <1>3, <1>4 DEF Held, Row
<1>8. ann'[r].level = "delivery_attempted" => ann'[r].expiry # "unset"
  BY <1>3, <1>4 DEF RouteInv, AttemptIsArmed, Row
<1>9. ASSUME route[ann[r].nlri] = r PROVE StillAnswers(r)
  <2>1. CASE Held(ann[r])
    BY <1>7, <2>1, HeldAnswers
  <2>2. CASE ann[r].status \in {"withdrawn", "expired"}
    <3>1. Overtaken(r)
      BY <1>3, <1>9, <2>2, OwnerFacts DEF Answering, Held
    <3>2. ann[r].level # "superseded_by_newer_delivery"
      BY <1>2, <2>2 DEF TtlElapses, RetryWindowElapses
    <3>. QED
      BY <3>1, <3>2 DEF Overtaken
  <2>. QED
    BY <1>9, <2>1, <2>2, OpenOwnerHeld
<1>. QED
  BY <1>1, <1>5, <1>6, <1>8, <1>9, OneRowChanges

LEMMA PeerDownKeepsRoute ==
  ASSUME Typed, KeyInv, RouteInv, MarkPeerDown
  PROVE  RouteInv'
<1>1. AllMove
  BY RowChangesMove
<1>2. AttKept /\ UNCHANGED route
  BY DEF MarkPeerDown, AttKept
<1>3. ASSUME NEW q \in Ids
      PROVE  /\ Held(ann[q]) => Held(ann'[q])
             /\ ann'[q].level = ann[q].level /\ ann'[q].expiry = ann[q].expiry
             /\ ann[q].status \in {"withdrawn", "expired"} => ann'[q] = ann[q]
  <2>1. ann[q] \in Row
    BY DEF Typed, TypeOK
  <2>2. CASE PeerDownMarked(ann[q])
    <3>1. ann'[q] = [ann[q] EXCEPT !.status = "peer_down", !.recent = TRUE]
      BY <2>2 DEF MarkPeerDown
    <3>. QED
      BY <2>1, <2>2, <3>1 DEF PeerDownMarked, Held, Row
  <2>3. CASE ~PeerDownMarked(ann[q])
    BY <2>3 DEF MarkPeerDown
  <2>. QED
    BY <2>2, <2>3
<1>4. Armed
  BY <1>3 DEF Armed, RouteInv, AttemptIsArmed
<1>5. OwnersHold
  <2>. SUFFICES ASSUME NEW n \in Nlris, route[n] # 0
                PROVE  StillAnswers(route[n])
    BY <1>2 DEF OwnersHold
  <2>1. route[n] \in Ids /\ Answering(route[n])
    BY OwnerFacts
  <2>2. CASE Held(ann[route[n]])
    BY <1>3, <2>1, <2>2 DEF StillAnswers
  <2>3. CASE Overtaken(route[n])
    BY <1>1, <1>3, <2>1, <2>3, AnsweringKept DEF Overtaken
  <2>. QED
    BY <2>1, <2>2, <2>3 DEF Answering
<1>. QED
  BY <1>1, <1>2, <1>4, <1>5, RouteInvMoves

LEMMA CrashKeepsRoute ==
  ASSUME Typed, KeyInv, RouteInv, Crash \/ UNCHANGED vars
  PROVE  RouteInv'
<1>1. AllMove
  BY CrashMoves
<1>2. AttKept /\ UNCHANGED <<ann, route>>
  BY DEF Crash, vars, AttKept
<1>. QED
  BY <1>1, <1>2, NoRowChanges

LEMMA HeldReserves ==
  ASSUME NEW row, Held(row)
  PROVE  Reserving(row) /\ WithinReach(row) /\ row.status # "absent"
BY DEF Held, Reserving, WithinReach, Delivered

\* no key that a row holds is free, so a new row supersedes none, but for the
\* withdraws of the manual page
LEMMA RouteInvInsert ==
  ASSUME Typed, KeyInv, RouteInv, NEW n \in Nlris, NEW a \in Actions, NEW auto \in BOOLEAN,
         NEW w \in BOOLEAN, w \/ ~Reserved(n, a), rows < MaxRows,
         NEW s \in {"pending_approval", "queued", "dry_run", "rejected_by_policy"},
         NEW l \in {"registered", "approved", "simulation_only"},
         ann' = [ann EXCEPT ![rows + 1] = NewRow(s, l, n, a, auto, w)], UNCHANGED route,
         att' = [att EXCEPT ![rows + 1] = "ready"] \/ UNCHANGED att
  PROVE  RouteInv'
<1>1. /\ ann \in [Ids -> Row] /\ att \in [Ids -> Pcs] /\ rows \in Nat /\ rows + 1 \in Ids
  BY MaxRowsAssumption DEF Typed, TypeOK, Ids, Pcs
<1>2. ann[rows + 1].status = "absent"
  BY <1>1 DEF KeyInv, TableInOrder
<1>3. /\ \A q \in Ids : q # rows + 1 => ann'[q] = ann[q]
      /\ ann'[rows + 1].nlri = n /\ ann'[rows + 1].action = a
      /\ ann'[rows + 1].withdrawOnly = w
      /\ ann'[rows + 1].level # "delivery_attempted"
  BY <1>1 DEF NewRow
<1>4. \A m \in Nlris : route[m] # 0 =>
        route[m] \in Ids /\ route[m] # rows + 1 /\ ann'[route[m]] = ann[route[m]]
  BY <1>2, <1>3, OwnerFacts DEF Answering, Overtaken, Held
<1>5. \A o \in Ids : o # rows + 1 /\ Answering(o) => StillAnswers(o)
  BY <1>2, <1>3 DEF Answering, Overtaken, Existing, StillAnswers
<1>6. RouteIsHeld'
  <2>. SUFFICES ASSUME NEW m \in Nlris, route[m] # 0
                PROVE  /\ ann'[route[m]].nlri = m /\ ~ann'[route[m]].withdrawOnly
                       /\ StillAnswers(route[m])
    BY DEF RouteIsHeld, StillAnswers, Answering, Overtaken, Existing
  <2>. QED
    BY <1>4, <1>5, OwnerFacts
<1>7. RouteIsYoungest'
  <2>. SUFFICES ASSUME NEW m \in Nlris, route[m] # 0, NEW q \in Ids, q > route[m],
                       ann'[q].status # "absent", ann'[q].nlri = m,
                       ann'[q].action = ann'[route[m]].action, Held(ann'[route[m]])
                PROVE  ann'[q].withdrawOnly
    BY DEF RouteIsYoungest, SameKey
  <2>1. ann'[route[m]] = ann[route[m]] /\ route[m] \in Ids /\ ann[route[m]].nlri = m
    BY <1>4, OwnerFacts
  <2>2. CASE q # rows + 1
    BY <1>3, <2>1, <2>2 DEF RouteInv, RouteIsYoungest, SameKey
  <2>3. CASE q = rows + 1
    <3>1. SameKey(route[m], n, a)
      BY <1>3, <2>1, <2>3 DEF SameKey
    <3>2. Reserving(ann[route[m]]) /\ route[m] \in Existing
      BY <2>1, HeldReserves DEF Existing
    <3>3. w
      BY <3>1, <3>2 DEF Reserved
    <3>. QED
      BY <1>3, <2>3, <3>3
  <2>. QED
    BY <2>2, <2>3
<1>8. NotYetAnnounced'
  <2>. SUFFICES ASSUME NEW r \in Ids, att'[r] \in {"ready", "claimed"},
                       route[ann'[r].nlri] = r
                PROVE  FALSE
    BY DEF NotYetAnnounced
  <2>1. CASE r = rows + 1
    BY <1>1, <1>3, <1>4, <2>1
  <2>2. CASE r # rows + 1
    BY <1>1, <1>3, <2>2 DEF RouteInv, NotYetAnnounced
  <2>. QED
    BY <2>1, <2>2
<1>9. AttemptIsArmed'
  BY <1>3 DEF RouteInv, AttemptIsArmed
<1>. QED
  BY <1>6, <1>7, <1>8, <1>9 DEF RouteInv

LEMMA CreationKeepsRoute ==
  ASSUME Typed, KeyInv, RouteInv, Creation
  PROVE  RouteInv'
<1>1. PICK n \in Nlris, a \in Actions :
        \/ \E auto \in BOOLEAN : InsertQueued(n, a, auto)
        \/ InsertUndelivered(n, a)
  BY DEF Creation
<1>2. /\ rows < MaxRows /\ ~Reserved(n, a) /\ UNCHANGED route
      /\ \E s \in {"pending_approval", "queued", "dry_run", "rejected_by_policy"},
            l \in {"registered", "approved", "simulation_only"}, auto \in BOOLEAN :
            ann' = [ann EXCEPT ![rows + 1] = NewRow(s, l, n, a, auto, FALSE)]
      /\ att' = [att EXCEPT ![rows + 1] = "ready"] \/ UNCHANGED att
  BY <1>1 DEF InsertQueued, InsertUndelivered, Insert
<1>3. PICK s \in {"pending_approval", "queued", "dry_run", "rejected_by_policy"},
           l \in {"registered", "approved", "simulation_only"}, auto \in BOOLEAN :
        ann' = [ann EXCEPT ![rows + 1] = NewRow(s, l, n, a, auto, FALSE)]
  BY <1>2
<1>. QED
  BY <1>2, <1>3, RouteInvInsert

LEMMA TesterInsertKeepsRoute ==
  ASSUME Typed, KeyInv, RouteInv, NEW p \in Testers, NEW n \in Nlris, NEW a \in Actions,
         TesterInsert(p, n, a)
  PROVE  RouteInv'
<1>1. /\ rows < MaxRows /\ UNCHANGED <<att, route>>
      /\ ann' = [ann EXCEPT ![rows + 1] =
                   NewRow("queued", "approved", n, a, FALSE, TRUE)]
  BY DEF TesterInsert
<1>. QED
  BY <1>1, RouteInvInsert

-----------------------------------------------------------------------------
LEMMA RouteInvInit == Init => RouteInv
<1>. SUFFICES ASSUME Init PROVE RouteInv
  OBVIOUS
<1>1. \A r \in Ids : ann[r].level = "registered"
  BY DEF Init, NoRow, NewRow
<1>2. RouteIsHeld /\ RouteIsYoungest
  BY DEF Init, RouteIsHeld, RouteIsYoungest
<1>3. NotYetAnnounced
  BY DEF Init, NotYetAnnounced
<1>. QED
  BY <1>1, <1>2, <1>3 DEF RouteInv, AttemptIsArmed

LEMMA RouteInvStep == Typed /\ KeyInv /\ RouteInv /\ [Next]_vars => RouteInv'
<1>. SUFFICES ASSUME Typed, KeyInv, RouteInv, [Next]_vars PROVE RouteInv'
  OBVIOUS
<1>1. CASE Creation
  BY <1>1, CreationKeepsRoute
<1>2. CASE \E r \in Ids : Delivery(r)
  BY <1>2, DeliveryKeepsRoute
<1>3. CASE \E p \in Reconcilers : Reconcile(p)
  BY <1>3, ReconcileKeepsRoute
<1>4. CASE \E p \in Operators : Operate(p)
  BY <1>4, OperateKeepsRoute
<1>5. CASE \E p \in Testers : ManualWithdraw(p)
  BY <1>5, ManualKeepsRoute, TesterInsertKeepsRoute DEF ManualWithdraw
<1>6. CASE \E p \in Orchestrators : OrchestratorWithdraw(p)
  BY <1>6, OrchestratorKeepsRoute
<1>7. CASE Decisions \/ Time \/ MarkPeerDown
  BY <1>7, DecisionsKeepRoute, TimeKeepsRoute, PeerDownKeepsRoute
<1>8. CASE Crash \/ UNCHANGED vars
  BY <1>8, CrashKeepsRoute
<1>. QED
  BY <1>1, <1>2, <1>3, <1>4, <1>5, <1>6, <1>7, <1>8 DEF Next

-----------------------------------------------------------------------------
(* A withdraw removes the rule of its own row.                              *)

\* a withdraw that looked for a younger delivery of its rule and found none
LEMMA WithdrawOfOwner ==
  ASSUME Typed, KeyInv, RouteInv, NEW r \in Ids, ann[r].status \notin Gone,
         ~Superseded(r), NEW n \in Nlris, n = ann[r].nlri, route[n] # 0,
         ann[route[n]].action = ann[r].action,
         ann[route[n]].level # "superseded_by_newer_delivery"
  PROVE  route[n] = r \/ ann[r].withdrawOnly
<1>. DEFINE o == route[n]
<1>1. /\ o \in Ids /\ ann[o].nlri = ann[r].nlri /\ ann[o].action = ann[r].action
      /\ Held(ann[o])
  BY OwnerFacts DEF Answering, Overtaken
<1>2. ann[o].status # "absent"
  BY <1>1, HeldReserves
<1>3. ~(o > r)
  <2>. SUFFICES ASSUME o > r PROVE Superseded(r)
    OBVIOUS
  <2>1. \/ ann[o].status \in {"sent", "advertised", "failed_withdraw"}
        \/ ann[o].status = "peer_down" /\ Delivered(ann[o])
        \/ ann[o].status = "queued" /\ ann[o].level = "delivery_attempted"
        \/ ann[o].level = "withdraw_requested"
    BY <1>1 DEF Held, Delivered
  <2>. HIDE DEF o
  <2>. QED
    BY <1>1, <1>2, <2>1 DEF Superseded, Existing, SameKey
<1>4. r > o => ann[r].withdrawOnly
  BY <1>1 DEF RouteInv, RouteIsYoungest, SameKey, Gone
<1>. QED
  BY <1>1, <1>3, <1>4, MaxRowsAssumption DEF Ids

\* the job of p ends with its own finish, or with a crash
LEMMA JobEnds ==
  ASSUME Typed, NEW p \in Operators \cup Reconcilers, [Next]_vars,
         job[p].pc = "claimed", job'[p] # job[p], ~UNCHANGED route
  PROVE  \/ p \in Operators /\ OperatorFinish(p)
         \/ p \in Reconcilers /\ ReconcilerFinish(p)
<1>1. /\ p \in Withdrawers /\ p \notin Testers /\ p \notin Orchestrators
      /\ DOMAIN job = Withdrawers
  BY ThreadsAssumption DEF Withdrawers, Typed, TypeOK
<1>2. ~UNCHANGED job
  OBVIOUS
<1>3. ~Crash /\ ~MarkPeerDown /\ ~Time /\ ~Decisions /\ ~Creation
  BY <1>2 DEF Crash, MarkPeerDown, Time, TtlElapses, RetryWindowElapses, Decisions,
              Approve, Reject, DropUndelivered, Creation, InsertQueued,
              InsertUndelivered, Insert
<1>4. ASSUME NEW r \in Ids PROVE ~Delivery(r)
  BY <1>2 DEF Delivery, SendIntent, NotReady, Deliver, Advertise, Compensate, Undo
<1>5. ASSUME NEW q \in Reconcilers, Reconcile(q)
      PROVE  p \in Reconcilers /\ ReconcilerFinish(p)
  <2>1. CASE q = p
    BY <1>2, <1>5, <2>1 DEF Reconcile, Scan, ReconcilerClaim
  <2>2. CASE q # p
    BY <1>1, <1>2, <1>5, <2>2
       DEF Reconcile, Scan, ReconcilerClaim, ReconcilerFinish, Claimed, Release
  <2>. QED
    BY <2>1, <2>2
<1>6. ASSUME NEW q \in Operators, Operate(q)
      PROVE  p \in Operators /\ OperatorFinish(p)
  <2>1. CASE q = p
    BY <1>6, <2>1 DEF Operate, OperatorClaim
  <2>2. CASE q # p
    BY <1>1, <1>6, <2>2 DEF Operate, OperatorClaim, OperatorFinish, Claimed, Release
  <2>. QED
    BY <2>1, <2>2
<1>7. ASSUME NEW q \in Testers PROVE ~ManualWithdraw(q)
  BY <1>1, <1>2 DEF ManualWithdraw, TesterCheck, TesterInsert, TesterClaim, TesterFinish,
                    Claimed, Release
<1>8. ASSUME NEW q \in Orchestrators PROVE ~OrchestratorWithdraw(q)
  BY <1>1 DEF OrchestratorWithdraw, OrchestratorClaim, OrchestratorFinish, Claimed, Release
<1>9. ~UNCHANGED vars
  BY <1>2 DEF vars
<1>. QED
  BY <1>3, <1>4, <1>5, <1>6, <1>7, <1>8, <1>9 DEF Next

(* Whatever crashes or fails, and whoever else runs, the withdraw of an     *)
(* operator or of the reconciler removes the rule of its own row, never a   *)
(* younger announcement of it: the reservation kept while a request is      *)
(* open, the claim read again under the lock, and the search for a younger  *)
(* delivery (newer_equivalent_bgp_delivery) leave no gap.  The exceptions   *)
(* are those the property names.                                            *)
THEOREM WithdrawsOwn == Spec => WithdrawsOwnRule
<1>. DEFINE Own(p, n) ==
       LET r == job[p].row IN
       /\ job[p].pc = "claimed" /\ job'[p] # job[p]
       /\ route[n] # 0 /\ route'[n] # route[n]
       => \/ route[n] = r
          \/ ann[route[n]].action # ann[r].action
          \/ ann[r].withdrawOnly
          \/ ann[route[n]].level = "superseded_by_newer_delivery"
<1>1. ASSUME Typed, KeyInv, RouteInv, [Next]_vars,
             NEW p \in Operators \cup Reconcilers, NEW n \in Nlris
      PROVE  Own(p, n)
  <2>. DEFINE r == job[p].row
  <2>. SUFFICES ASSUME job[p].pc = "claimed", job'[p] # job[p],
                       route[n] # 0, route'[n] # route[n],
                       ann[route[n]].action = ann[r].action,
                       ann[route[n]].level # "superseded_by_newer_delivery"
                PROVE  route[n] = r \/ ann[r].withdrawOnly
    OBVIOUS
  <2>1. r \in Ids
    BY <1>1 DEF Typed, JobHasRow, Withdrawers
  <2>2. OperatorFinish(p) \/ ReconcilerFinish(p)
    BY <1>1, JobEnds
  <2>3. PipeWithdraw(r) /\ ~Superseded(r) /\ ann[r].level = "withdraw_requested"
    BY <2>2 DEF OperatorFinish, ReconcilerFinish, FinishWithdraw, HoldsIntent
  <2>4. n = ann[r].nlri
    BY <1>1, <2>3 DEF PipeWithdraw, Typed, TypeOK
  <2>. HIDE DEF r
  <2>. QED
    BY <1>1, <2>1, <2>3, <2>4, IntentIsOpen, WithdrawOfOwner
<1>2. Typed /\ KeyInv /\ RouteInv /\ [Next]_vars
        => [\A p \in Operators \cup Reconcilers, n \in Nlris : Own(p, n)]_vars
  BY <1>1
<1>. QED
  BY <1>2, RouteInvInit, RouteInvStep, KeyInvariant, PTL DEF Spec, WithdrawsOwnRule

-----------------------------------------------------------------------------
(* When nobody uses the withdraw of the manual page no row is overtaken.    *)

LEMMA NoWithdrawOnlyInit == Init => NoWithdrawOnly
BY DEF Init, NoRow, NewRow, NoWithdrawOnly

LEMMA NoWithdrawOnlyStep ==
  ASSUME Testers = {}
  PROVE  Typed /\ KeyInv /\ NoWithdrawOnly /\ [Next]_vars => NoWithdrawOnly'
<1>. SUFFICES ASSUME Typed, KeyInv, NoWithdrawOnly, [Next]_vars PROVE NoWithdrawOnly'
  OBVIOUS
<1>1. CASE AllMove
  BY <1>1 DEF AllMove, Moves, Kept, NoWithdrawOnly
<1>2. CASE Creation
  <2>1. PICK n \in Nlris, a \in Actions :
          \/ \E auto \in BOOLEAN : InsertQueued(n, a, auto)
          \/ InsertUndelivered(n, a)
    BY <1>2 DEF Creation
  <2>2. PICK s \in {"pending_approval", "queued", "dry_run", "rejected_by_policy"},
             l \in {"registered", "approved", "simulation_only"}, auto \in BOOLEAN :
          ann' = [ann EXCEPT ![rows + 1] = NewRow(s, l, n, a, auto, FALSE)]
    BY <2>1 DEF InsertQueued, InsertUndelivered, Insert
  <2>. QED
    BY <2>2 DEF NewRow, NoWithdrawOnly, Typed, TypeOK
<1>. QED
  BY <1>1, <1>2, StepMovesOrInserts

LEMMA OwnerIsHeld ==
  ASSUME Typed, RouteInv, NoWithdrawOnly, NEW n \in Nlris, route[n] # 0
  PROVE  route[n] \in Ids /\ ann[route[n]].nlri = n /\ Held(ann[route[n]])
BY OwnerFacts DEF Answering, Overtaken, Existing, NoWithdrawOnly

(* As long as nobody withdraws an untracked rule on the manual page, every  *)
(* rule ExaBGP announces belongs to a row that reserves its mitigation key  *)
(* and that the reconciler will find, whatever crashes, and whatever write  *)
(* or commit fails: the send intent that arms the expiry before the pipe is *)
(* written (persist_bgp_send_intent), the compensation, the reservation and *)
(* the scan's query.                                                        *)
THEOREM Tracked ==
  ASSUME Testers = {}
  PROVE  Spec => []LiveRouteIsTracked
<1>1. ASSUME Typed, RouteInv, NoWithdrawOnly PROVE LiveRouteIsTracked
  <2>. SUFFICES ASSUME NEW n \in Nlris, route[n] # 0
                PROVE  \E q \in Existing : /\ SameKey(q, n, ann[route[n]].action)
                                           /\ Reserving(ann[q])
                                           /\ WithinReach(ann[q])
    BY DEF LiveRouteIsTracked
  <2>. QED
    BY <1>1, OwnerIsHeld, HeldReserves DEF Existing, SameKey
<1>2. Typed /\ KeyInv /\ NoWithdrawOnly /\ [Next]_vars => NoWithdrawOnly'
  BY NoWithdrawOnlyStep
<1>. QED
  BY <1>1, <1>2, NoWithdrawOnlyInit, RouteInvInit, RouteInvStep, KeyInvariant, PTL DEF Spec


-----------------------------------------------------------------------------
(* The announcement rows implement the reservation of rules, as long as    *)
(* nobody uses the withdraw of the manual FlowSpec page.  A transaction    *)
(* that changes one row reserves, releases or withdraws its rule; the one  *)
(* that delivers announces it.                                             *)

AbstractStep == [Promise!ReservationNext]_<<ReservedRules, AnnouncerOf>>

RuleOf(r) == <<ann'[r].nlri, ann'[r].action>>

\* at most r changes, and it stays a row of its rule once it exists
OnlyRow(r) ==
    /\ \A q \in Ids : q # r => ann'[q] = ann[q]
    /\ ann[r].status # "absent" => /\ ann'[r].status # "absent"
                                   /\ RuleOf(r) = <<ann[r].nlri, ann[r].action>>

LEMMA MembersReserved ==
  ASSUME NEW rule \in Nlris \X Actions
  PROVE  /\ rule \in ReservedRules <=>
              \E q \in Ids : /\ ann[q].status # "absent" /\ Reserving(ann[q])
                             /\ ann[q].nlri = rule[1] /\ ann[q].action = rule[2]
         /\ rule \in ReservedRules' <=>
              \E q \in Ids : /\ ann'[q].status # "absent" /\ Reserving(ann'[q])
                             /\ ann'[q].nlri = rule[1] /\ ann'[q].action = rule[2]
BY DEF ReservedRules, Reserved, Existing, SameKey, Reserving, Delivered

LEMMA OtherRulesStay ==
  ASSUME NEW r \in Ids, OnlyRow(r), NEW rule \in Nlris \X Actions, rule # RuleOf(r)
  PROVE  rule \in ReservedRules' <=> rule \in ReservedRules
<1>1. rule = <<rule[1], rule[2]>>
  OBVIOUS
<1>2. ~(ann'[r].nlri = rule[1] /\ ann'[r].action = rule[2])
  BY <1>1 DEF RuleOf
<1>3. ann[r].status # "absent" => ~(ann[r].nlri = rule[1] /\ ann[r].action = rule[2])
  BY <1>2 DEF OnlyRow, RuleOf
<1>. QED
  BY <1>2, <1>3, MembersReserved DEF OnlyRow

LEMMA OwnerKept ==
  ASSUME Typed, RouteInv, NoWithdrawOnly, NEW r \in Ids, OnlyRow(r),
         NEW n \in Nlris, route[n] # 0
  PROVE  route[n] \in Ids /\ ann'[route[n]].action = ann[route[n]].action
<1>1. route[n] \in Ids /\ ann[route[n]].status # "absent"
  BY OwnerIsHeld, HeldReserves
<1>. QED
  BY <1>1 DEF OnlyRow, RuleOf

LEMMA AnnouncerStays ==
  ASSUME Typed, RouteInv, NoWithdrawOnly, NEW r \in Ids, OnlyRow(r), UNCHANGED route
  PROVE  AnnouncerOf' = AnnouncerOf
<1>1. \A rule \in Nlris \X Actions : rule[1] \in Nlris
  OBVIOUS
<1>. QED
  BY <1>1, OwnerKept DEF AnnouncerOf

LEMMA AnnouncerSilenced ==
  ASSUME Typed, RouteInv, NoWithdrawOnly, NEW r \in Ids, OnlyRow(r), PipeWithdraw(r)
  PROVE  AnnouncerOf' = Promise!Silenced(ann[r].nlri)
<1>1. ann[r].nlri \in Nlris /\ route \in [Nlris -> 0 .. MaxRows]
  BY DEF Typed, TypeOK, Row
<1>2. \A n \in Nlris : route'[n] = IF n = ann[r].nlri THEN 0 ELSE route[n]
  BY <1>1 DEF PipeWithdraw
<1>3. \A rule \in Nlris \X Actions : rule[1] \in Nlris
  OBVIOUS
<1>. QED
  BY <1>2, <1>3, OwnerKept DEF AnnouncerOf, Promise!Silenced, Promise!Rules

\* what is announced is reserved
LEMMA ReleasedIsSilent ==
  ASSUME LiveRouteIsTracked', NEW rule \in Nlris \X Actions, rule \notin ReservedRules'
  PROVE  AnnouncerOf'[rule] = 0
<1>1. rule[1] \in Nlris
  OBVIOUS
<1>2. ASSUME route'[rule[1]] # 0, ann'[route'[rule[1]]].action = rule[2]
      PROVE  FALSE
  <2>1. PICK q \in Ids : /\ ann'[q].status # "absent" /\ Reserving(ann'[q])
                         /\ ann'[q].nlri = rule[1] /\ ann'[q].action = rule[2]
    BY <1>1, <1>2 DEF LiveRouteIsTracked, Existing, SameKey, Reserving, Delivered
  <2>. QED
    BY <2>1, MembersReserved
<1>. QED
  BY <1>2 DEF AnnouncerOf

-----------------------------------------------------------------------------
(* Transactions that announce nothing. *)

LEMMA RowStep ==
  ASSUME Typed, RouteInv, NoWithdrawOnly, Typed', LiveRouteIsTracked', NEW r \in Ids,
         OnlyRow(r),
         \/ UNCHANGED route
         \/ PipeWithdraw(r) /\ ~Reserving(ann'[r]) /\ ann[r].status # "absent"
  PROVE  AbstractStep
<1>. DEFINE rule == RuleOf(r)
<1>1. rule \in Nlris \X Actions
  BY DEF RuleOf, Typed, TypeOK, Row
<1>2. ReservedRules \subseteq Nlris \X Actions /\ ReservedRules' \subseteq Nlris \X Actions
  BY DEF ReservedRules
<1>3. \A other \in Nlris \X Actions :
        other # rule => (other \in ReservedRules' <=> other \in ReservedRules)
  BY OtherRulesStay
<1>4. \/ AnnouncerOf' = AnnouncerOf /\ UNCHANGED route
      \/ AnnouncerOf' = Promise!Silenced(rule[1]) /\ ~Reserving(ann'[r])
  <2>1. ann[r].status # "absent" => rule[1] = ann[r].nlri
    BY DEF OnlyRow, RuleOf
  <2>. QED
    BY <2>1, AnnouncerStays, AnnouncerSilenced
<1>5. CASE rule \in ReservedRules /\ rule \notin ReservedRules'
  <2>1. ReservedRules' = ReservedRules \ {rule}
    BY <1>2, <1>3, <1>5
  <2>2. AnnouncerOf'[rule] = 0
    BY <1>1, <1>5, ReleasedIsSilent
  <2>3. Promise!Release(rule)
    BY <1>4, <1>5, <2>1, <2>2 DEF Promise!Release
  <2>. QED
    BY <1>1, <2>3 DEF AbstractStep, Promise!ReservationNext, Promise!Rules
<1>6. CASE rule \notin ReservedRules /\ rule \in ReservedRules'
  <2>1. ReservedRules' = ReservedRules \cup {rule}
    BY <1>2, <1>3, <1>6
  <2>2. Reserving(ann'[r])
    <3>1. PICK q \in Ids : /\ ann'[q].status # "absent" /\ Reserving(ann'[q])
                           /\ ann'[q].nlri = rule[1] /\ ann'[q].action = rule[2]
      BY <1>1, <1>6, MembersReserved
    <3>2. ~(ann'[q] = ann[q])
      BY <1>1, <1>6, <3>1, MembersReserved
    <3>. QED
      BY <3>1, <3>2 DEF OnlyRow
  <2>3. Promise!Reserve(rule)
    BY <1>4, <1>6, <2>1, <2>2 DEF Promise!Reserve
  <2>. QED
    BY <1>1, <2>3 DEF AbstractStep, Promise!ReservationNext, Promise!Rules
<1>7. CASE rule \in ReservedRules <=> rule \in ReservedRules'
  <2>1. ReservedRules' = ReservedRules
    BY <1>2, <1>3, <1>7
  <2>2. CASE AnnouncerOf' = AnnouncerOf
    BY <2>1, <2>2 DEF AbstractStep
  <2>3. CASE AnnouncerOf' = Promise!Silenced(rule[1])
    <3>1. Promise!Withdraw(rule[1])
      BY <2>1, <2>3 DEF Promise!Withdraw
    <3>. QED
      BY <1>1, <3>1 DEF AbstractStep, Promise!ReservationNext
  <2>. QED
    BY <1>4, <2>2, <2>3
<1>. QED
  BY <1>5, <1>6, <1>7

LEMMA SameReserved == ASSUME UNCHANGED ann PROVE ReservedRules' = ReservedRules
BY DEF ReservedRules, Reserved, Existing, SameKey, Reserving, Delivered

\* a withdraw that is written and not recorded
LEMMA PipeStep ==
  ASSUME Typed, RouteInv, NoWithdrawOnly, NEW r \in Ids, UNCHANGED ann,
         PipeWithdraw(r) \/ UNCHANGED route
  PROVE  AbstractStep
<1>1. OnlyRow(r)
  BY DEF OnlyRow, RuleOf
<1>2. CASE PipeWithdraw(r)
  <2>1. Promise!Withdraw(ann[r].nlri) /\ ann[r].nlri \in Nlris
    BY <1>1, <1>2, AnnouncerSilenced, SameReserved DEF Promise!Withdraw, Typed, TypeOK, Row
  <2>. QED
    BY <2>1 DEF AbstractStep, Promise!ReservationNext
<1>3. CASE UNCHANGED route
  BY <1>1, <1>3, AnnouncerStays, SameReserved DEF AbstractStep
<1>. QED
  BY <1>2, <1>3

LEMMA MoveStep ==
  ASSUME Typed, RouteInv, NoWithdrawOnly, Typed', LiveRouteIsTracked', AllMove,
         NEW r \in Ids,
         \A q \in Ids : q # r => ann'[q] = ann[q],
         \/ UNCHANGED route
         \/ PipeWithdraw(r) /\ ~Reserving(ann'[r]) /\ ann[r].status # "absent"
  PROVE  AbstractStep
<1>1. Moves(r)
  BY DEF AllMove
<1>2. OnlyRow(r)
  BY <1>1 DEF OnlyRow, RuleOf, Moves, Kept, Stays, Delivers, Ends, IsApproved, GoesDown, Gone
<1>. QED
  BY <1>2, RowStep

-----------------------------------------------------------------------------
(* What the updates do. *)

LEMMA PersistStep ==
  ASSUME Typed, RouteInv, NoWithdrawOnly, Typed', LiveRouteIsTracked', AllMove,
         NEW r \in Ids, NEW c \in Claims, PersistIntent(r, c), UNCHANGED route
  PROVE  AbstractStep
BY PersistType, MoveStep DEF Typed, TypeOK

\* a status that ends the row's reservation, unless a request is open
Ended == {"withdrawn", "expired", "failed", "rejected", "dry_run"}

LEMMA TransitionStep ==
  ASSUME Typed, RouteInv, NoWithdrawOnly, Typed', LiveRouteIsTracked', AllMove,
         NEW r \in Ids, NEW s \in Statuses, NEW l \in Levels, Transition(r, s, l),
         \/ UNCHANGED route
         \/ /\ PipeWithdraw(r) /\ ann[r].status # "absent"
            /\ s \in Ended /\ l # "withdraw_requested"
  PROVE  AbstractStep
<1>1. /\ \A q \in Ids : q # r => ann'[q] = ann[q]
      /\ ann'[r].status = s /\ ann'[r].level = l
  BY TransitionEffect DEF Typed, TypeOK
<1>2. s \in Ended /\ l # "withdraw_requested" => ~Reserving(ann'[r])
  BY <1>1 DEF Reserving, Ended
<1>. QED
  BY <1>1, <1>2, MoveStep

LEMMA CancelStep ==
  ASSUME Typed, RouteInv, NoWithdrawOnly, Typed', LiveRouteIsTracked', AllMove,
         UNCHANGED route,
         NEW r \in Ids, NEW s \in Statuses, NEW l \in Levels, CancelDelivery(r, s, l)
  PROVE  AbstractStep
BY CancelType, MoveStep DEF Typed, TypeOK

LEMMA FinishStep ==
  ASSUME Typed, RouteInv, NoWithdrawOnly, Typed', LiveRouteIsTracked', AllMove,
         NEW r \in Ids, ann[r].status # "absent",
         NEW target \in {"withdrawn", "expired"}, NEW omit, FinishWithdraw(r, target, omit)
  PROVE  AbstractStep
<1>1. target \in Statuses /\ target \in Ended
  BY DEF Statuses, Ended
<1>2. CASE UNCHANGED route /\ Transition(r, target, "superseded_by_newer_delivery")
  BY <1>1, <1>2, TransitionStep DEF Levels
<1>3. CASE PipeWithdraw(r) /\ Transition(r, target, "withdrawn")
  BY <1>1, <1>3, TransitionStep DEF Levels
<1>4. CASE UNCHANGED route /\ Transition(r, "failed_withdraw", "withdraw_failed")
  BY <1>4, TransitionStep DEF Levels, Statuses
<1>5. CASE PipeWithdraw(r) /\ UNCHANGED ann
  BY <1>5, PipeStep
<1>. QED
  BY <1>2, <1>3, <1>4, <1>5 DEF FinishWithdraw

-----------------------------------------------------------------------------
(* Each action is a step of the reservation. *)

LEMMA AnnounceStep ==
  ASSUME Typed, KeyInv, RouteInv, NoWithdrawOnly, Typed', AllMove, NEW r \in Ids,
         att[r] = "claimed",
         StillClaimed(r), PipeAnnounce(r),
         Transition(r, "sent", "delivered_to_exabgp") \/ UNCHANGED ann
  PROVE  AbstractStep
<1>. DEFINE rule == <<ann[r].nlri, ann[r].action>>
<1>1. /\ rule \in Nlris \X Actions /\ ann[r].nlri \in Nlris
      /\ ann \in [Ids -> Row] /\ route \in [Nlris -> 0 .. MaxRows] /\ r # 0
  <2>1. ann \in [Ids -> Row] /\ route \in [Nlris -> 0 .. MaxRows] /\ ann[r] \in Row
    BY DEF Typed, TypeOK
  <2>2. r # 0
    BY DEF Ids
  <2>. QED
    BY <2>1, <2>2 DEF Row
<1>2. /\ \A q \in Ids : q # r => ann'[q] = ann[q]
      /\ ann'[r].status \in {"sent", "queued"}
      /\ ann'[r].nlri = ann[r].nlri /\ ann'[r].action = ann[r].action
  <2>1. CASE Transition(r, "sent", "delivered_to_exabgp")
    BY <1>1, <2>1, TransitionKeeps DEF Kept, Statuses, Levels
  <2>2. CASE UNCHANGED ann
    BY <2>2 DEF StillClaimed
  <2>. QED
    BY <2>1, <2>2
<1>3. ann[r].status = "queued" /\ Reserving(ann[r]) /\ Reserving(ann'[r])
  BY <1>2 DEF StillClaimed, Reserving
<1>4. OnlyRow(r) /\ RuleOf(r) = rule
  BY <1>2 DEF OnlyRow, RuleOf
<1>5. rule \in ReservedRules /\ rule \in ReservedRules'
  BY <1>1, <1>2, <1>3, MembersReserved
<1>6. ReservedRules' = ReservedRules
  <2>1. ReservedRules \subseteq Nlris \X Actions /\ ReservedRules' \subseteq Nlris \X Actions
    BY DEF ReservedRules
  <2>2. \A other \in Nlris \X Actions :
          other # rule => (other \in ReservedRules' <=> other \in ReservedRules)
    BY <1>4, OtherRulesStay
  <2>. QED
    BY <1>5, <2>1, <2>2
<1>7. AnnouncerOf[rule] = 0
  <2>. SUFFICES ASSUME route[ann[r].nlri] # 0,
                       ann[route[ann[r].nlri]].action = ann[r].action
                PROVE  FALSE
    BY <1>1 DEF AnnouncerOf
  <2>. DEFINE o == route[ann[r].nlri]
  <2>1. /\ o \in Ids /\ ann[o].nlri = ann[r].nlri /\ ann[o].status # "absent"
    BY <1>1, OwnerIsHeld, HeldReserves
  <2>2. o # r
    BY <1>1 DEF RouteInv, NotYetAnnounced
  <2>3. ~(o < r)
    BY <1>1, <1>3, <2>1, OwnerIsHeld
       DEF RouteInv, RouteIsYoungest, SameKey, Ids, NoWithdrawOnly
  <2>4. Live(ann[r])
    BY <1>3 DEF Live, RouteInv, NoWithdrawOnly
  <2>5. ~(o > r)
    BY <2>1, <2>4 DEF KeyInv, LiveIsYoungest, SameKey, RouteInv, NoWithdrawOnly
  <2>. QED
    BY <2>1, <2>2, <2>3, <2>5, MaxRowsAssumption DEF Ids
<1>8. AnnouncerOf' = [Promise!Silenced(rule[1]) EXCEPT ![rule] = r]
  <2>1. \A n \in Nlris : route'[n] = IF n = ann[r].nlri THEN r ELSE route[n]
    BY <1>1 DEF PipeAnnounce
  <2>2. ASSUME NEW other \in Nlris \X Actions
        PROVE  AnnouncerOf'[other] = [Promise!Silenced(rule[1]) EXCEPT ![rule] = r][other]
    <3>1. other = <<other[1], other[2]>> /\ other[1] \in Nlris
      OBVIOUS
    <3>2. CASE other[1] = ann[r].nlri
      BY <1>1, <1>2, <2>1, <3>1, <3>2 DEF AnnouncerOf, Promise!Silenced, Promise!Rules
    <3>3. CASE other[1] # ann[r].nlri
      BY <1>1, <1>4, <2>1, <3>1, <3>3, OwnerKept
         DEF AnnouncerOf, Promise!Silenced, Promise!Rules
    <3>. QED
      BY <3>2, <3>3
  <2>. QED
    BY <2>2 DEF AnnouncerOf, Promise!Silenced, Promise!Rules
<1>9. Promise!Announce(rule, r)
  BY <1>5, <1>6, <1>7, <1>8 DEF Promise!Announce
<1>. QED
  BY <1>1, <1>9 DEF AbstractStep, Promise!ReservationNext, Promise!Rules

LEMMA DeliveryStep ==
  ASSUME Typed, KeyInv, RouteInv, NoWithdrawOnly, Typed', LiveRouteIsTracked',
         NEW r \in Ids, Delivery(r)
  PROVE  AbstractStep
<1>1. AllMove /\ ann \in [Ids -> Row] /\ ann[r] \in Row
  BY DeliveryMoves DEF Typed, TypeOK
<1>2. att[r] # "none" => ann[r].status # "absent"
  BY DEF KeyInv, DeliveriesAreTracked
<1>3. CASE UNCHANGED ann /\ (UNCHANGED route \/ PipeWithdraw(r))
  BY <1>3, PipeStep
<1>4. CASE SendIntent(r)
  <2>1. CASE ann' = [ann EXCEPT ![r] = SendClaimed(ann[r])]
    BY <1>1, <1>4, <2>1, MoveStep DEF SendIntent
  <2>. QED
    BY <1>3, <1>4, <2>1 DEF SendIntent
<1>5. CASE NotReady(r)
  <2>1. ASSUME NEW status \in {"peer_down", "failed"},
               CancelDelivery(r, status, "peer_unavailable")
        PROVE  AbstractStep
    BY <1>1, <1>5, <2>1, CancelStep DEF NotReady, Statuses, Levels
  <2>. QED
    BY <1>3, <1>5, <2>1 DEF NotReady
<1>6. CASE Deliver(r)
  <2>1. CASE CancelDelivery(r, "failed", "peer_established") /\ UNCHANGED route
    BY <1>1, <2>1, CancelStep DEF Statuses, Levels
  <2>2. CASE /\ StillClaimed(r) /\ PipeAnnounce(r)
             /\ Transition(r, "sent", "delivered_to_exabgp") \/ UNCHANGED ann
    BY <1>1, <1>6, <2>2, AnnounceStep DEF Deliver
  <2>. QED
    BY <1>3, <1>6, <2>1, <2>2 DEF Deliver
<1>7. CASE Advertise(r)
  <2>1. CASE Transition(r, "advertised", "peer_established_announce_requested")
    BY <1>1, <1>7, <2>1, TransitionStep DEF Advertise, Statuses, Levels
  <2>. QED
    BY <1>3, <1>7, <2>1 DEF Advertise
<1>8. CASE Compensate(r)
  <2>1. CASE PersistIntent(r, AttemptClaim)
    BY <1>1, <1>8, <2>1, PersistStep DEF Compensate, Claims
  <2>. QED
    BY <1>3, <1>8, <2>1 DEF Compensate
<1>9. CASE Undo(r)
  <2>1. CASE PipeWithdraw(r) /\ Transition(r, "failed", "compensating_withdraw_delivered")
    BY <1>1, <1>2, <1>9, <2>1, TransitionStep DEF Undo, Statuses, Levels, Ended
  <2>2. CASE UNCHANGED route /\ Transition(r, "failed_withdraw", "withdraw_failed")
    BY <1>1, <2>2, TransitionStep DEF Statuses, Levels
  <2>. QED
    BY <1>3, <1>9, <2>1, <2>2 DEF Undo
<1>. QED
  BY <1>4, <1>5, <1>6, <1>7, <1>8, <1>9 DEF Delivery

LEMMA ReconcileStep ==
  ASSUME Typed, KeyInv, RouteInv, NoWithdrawOnly, Typed', LiveRouteIsTracked',
         NEW p \in Reconcilers,
         Reconcile(p)
  PROVE  AbstractStep
<1>1. AllMove /\ p \in Claims
  BY ReconcileMoves DEF Claims, Withdrawers
<1>2. CASE Scan(p)
  <2>1. PICK r \in Ids : TRUE
    BY <1>2 DEF Scan, Existing
  <2>. QED
    BY <1>2, <2>1, PipeStep DEF Scan
<1>3. ASSUME NEW r \in Ids, NEW seen \in Statuses, ReconcilerClaim(p, r, seen)
      PROVE  AbstractStep
  BY <1>1, <1>3, PersistStep, PipeStep DEF ReconcilerClaim
<1>4. CASE ReconcilerFinish(p)
  <2>. DEFINE r == job[p].row
  <2>1. r \in Ids
    BY <1>4 DEF ReconcilerFinish, Typed, JobHasRow, Withdrawers
  <2>2. CASE UNCHANGED <<ann, route>>
    BY <2>1, <2>2, PipeStep
  <2>3. CASE /\ HoldsIntent(p, r)
             /\ FinishWithdraw(r, IF ann[r].expiry = "elapsed" THEN "expired" ELSE "withdrawn",
                               Superseded(r))
    <3>1. ann[r].status # "absent"
      BY <2>1, <2>3 DEF HoldsIntent, KeyInv, GoneHasNoRequest, Gone
    <3>. QED
      BY <1>1, <2>1, <2>3, <3>1, FinishStep
  <2>. QED
    BY <1>4, <2>2, <2>3 DEF ReconcilerFinish
<1>. QED
  BY <1>2, <1>3, <1>4 DEF Reconcile

LEMMA OperateStep ==
  ASSUME Typed, KeyInv, RouteInv, NoWithdrawOnly, Typed', LiveRouteIsTracked',
         NEW p \in Operators,
         Operate(p)
  PROVE  AbstractStep
<1>1. AllMove /\ p \in Claims
  BY OperateMoves DEF Claims, Withdrawers
<1>2. ASSUME NEW r \in Ids, OperatorClaim(p, r)
      PROVE  AbstractStep
  BY <1>1, <1>2, PersistStep DEF OperatorClaim
<1>3. CASE OperatorFinish(p)
  <2>. DEFINE r == job[p].row
  <2>1. r \in Ids
    BY <1>3 DEF OperatorFinish, Typed, JobHasRow, Withdrawers
  <2>2. CASE UNCHANGED <<ann, route>>
    BY <2>1, <2>2, PipeStep
  <2>3. CASE HoldsIntent(p, r) /\ FinishWithdraw(r, "withdrawn", Superseded(r))
    <3>1. ann[r].status # "absent"
      BY <2>1, <2>3 DEF HoldsIntent, KeyInv, GoneHasNoRequest, Gone
    <3>. QED
      BY <1>1, <2>1, <2>3, <3>1, FinishStep
  <2>. QED
    BY <1>3, <2>2, <2>3 DEF OperatorFinish
<1>. QED
  BY <1>2, <1>3 DEF Operate

LEMMA OrchestratorStep ==
  ASSUME Typed, KeyInv, RouteInv, NoWithdrawOnly, Typed', LiveRouteIsTracked',
         NEW p \in Orchestrators,
         OrchestratorWithdraw(p)
  PROVE  AbstractStep
<1>1. AllMove /\ p \in Claims
  BY OrchestratorMoves DEF Claims, Withdrawers
<1>2. ASSUME NEW r \in Ids, OrchestratorClaim(p, r)
      PROVE  AbstractStep
  BY <1>1, <1>2, PersistStep DEF OrchestratorClaim
<1>3. CASE OrchestratorFinish(p)
  <2>. DEFINE r == job[p].row
  <2>1. r \in Ids
    BY <1>3 DEF OrchestratorFinish, Typed, JobHasRow, Withdrawers
  <2>2. CASE UNCHANGED ann /\ (UNCHANGED route \/ PipeWithdraw(r))
    BY <2>1, <2>2, PipeStep
  <2>3. CASE /\ PipeWithdraw(r) /\ ann[r].level = "withdraw_requested"
             /\ Transition(r, "expired", "withdrawn")
    <3>1. ann[r].status # "absent"
      BY <2>1, <2>3 DEF KeyInv, GoneHasNoRequest, Gone
    <3>. QED
      BY <1>1, <2>1, <2>3, <3>1, TransitionStep DEF Statuses, Levels, Ended
  <2>4. CASE UNCHANGED route /\ Transition(r, "failed_withdraw", "withdraw_failed")
    BY <1>1, <2>1, <2>4, TransitionStep DEF Statuses, Levels
  <2>. QED
    BY <1>3, <2>2, <2>3, <2>4 DEF OrchestratorFinish
<1>. QED
  BY <1>2, <1>3 DEF OrchestratorWithdraw

LEMMA DecisionsStep ==
  ASSUME Typed, KeyInv, RouteInv, NoWithdrawOnly, Typed', LiveRouteIsTracked', Decisions
  PROVE  AbstractStep
<1>1. AllMove
  BY RowChangesMove
<1>2. PICK r \in Ids : Approve(r) \/ Reject(r) \/ DropUndelivered(r)
  BY DEF Decisions
<1>. QED
  BY <1>1, <1>2, TransitionStep
     DEF Approve, Reject, DropUndelivered, Statuses, Levels

LEMMA TimeStep ==
  ASSUME Typed, KeyInv, RouteInv, NoWithdrawOnly, Typed', LiveRouteIsTracked', Time
  PROVE  AbstractStep
<1>1. AllMove /\ ann \in [Ids -> Row]
  BY RowChangesMove DEF Typed, TypeOK
<1>2. PICK r \in Ids : TtlElapses(r) \/ RetryWindowElapses(r)
  BY DEF Time
<1>3. UNCHANGED route /\ \A q \in Ids : q # r => ann'[q] = ann[q]
  BY <1>1, <1>2 DEF TtlElapses, RetryWindowElapses
<1>. QED
  BY <1>1, <1>3, MoveStep

LEMMA CreationStep ==
  ASSUME Typed, KeyInv, RouteInv, NoWithdrawOnly, Typed', LiveRouteIsTracked', Creation
  PROVE  AbstractStep
<1>1. PICK n \in Nlris, a \in Actions :
        \/ \E auto \in BOOLEAN : InsertQueued(n, a, auto)
        \/ InsertUndelivered(n, a)
  BY DEF Creation
<1>2. /\ rows < MaxRows /\ UNCHANGED route
      /\ \E s \in {"pending_approval", "queued", "dry_run", "rejected_by_policy"},
            l \in {"registered", "approved", "simulation_only"}, auto \in BOOLEAN :
            ann' = [ann EXCEPT ![rows + 1] = NewRow(s, l, n, a, auto, FALSE)]
  BY <1>1 DEF InsertQueued, InsertUndelivered, Insert
<1>3. /\ ann \in [Ids -> Row] /\ rows \in Nat /\ rows + 1 \in Ids
  BY <1>2, MaxRowsAssumption DEF Typed, TypeOK, Ids
<1>4. ann[rows + 1].status = "absent"
  BY <1>3 DEF KeyInv, TableInOrder
<1>5. OnlyRow(rows + 1)
  BY <1>2, <1>3, <1>4 DEF OnlyRow
<1>. QED
  BY <1>2, <1>3, <1>5, RowStep

-----------------------------------------------------------------------------
(* A row that was advertised is known as delivered, so that it keeps its    *)
(* reservation when its peer goes down.                                     *)

LEMMA PeerDownStep ==
  ASSUME Typed, KeyInv, RouteInv, NoWithdrawOnly, TableInv, MarkPeerDown
  PROVE  AbstractStep
<1>1. ASSUME NEW q \in Ids
      PROVE  /\ Reserving(ann'[q]) <=> Reserving(ann[q])
             /\ ann'[q].status = "absent" <=> ann[q].status = "absent"
             /\ ann'[q].nlri = ann[q].nlri /\ ann'[q].action = ann[q].action
  <2>1. ann[q] \in Row
    BY DEF Typed, TypeOK
  <2>2. CASE PeerDownMarked(ann[q])
    <3>1. ann'[q] = [ann[q] EXCEPT !.status = "peer_down", !.recent = TRUE]
      BY <2>2 DEF MarkPeerDown
    <3>2. /\ ann'[q].status = "peer_down" /\ ann'[q].sent = ann[q].sent
          /\ ann'[q].nlri = ann[q].nlri /\ ann'[q].action = ann[q].action
      BY <2>1, <3>1 DEF Row
    <3>3. ann[q].status = "advertised" /\ ann[q].sent
      BY <2>2 DEF PeerDownMarked, TableInv, DeliveryIsRecorded
    <3>. QED
      BY <3>2, <3>3 DEF Reserving, Delivered
  <2>3. CASE ~PeerDownMarked(ann[q])
    BY <2>3 DEF MarkPeerDown
  <2>. QED
    BY <2>2, <2>3
<1>2. ReservedRules' = ReservedRules
  <2>1. ReservedRules \subseteq Nlris \X Actions /\ ReservedRules' \subseteq Nlris \X Actions
    BY DEF ReservedRules
  <2>2. \A rule \in Nlris \X Actions : rule \in ReservedRules' <=> rule \in ReservedRules
    BY <1>1, MembersReserved
  <2>. QED
    BY <2>1, <2>2
<1>3. AnnouncerOf' = AnnouncerOf
  <2>1. \A rule \in Nlris \X Actions :
          route[rule[1]] # 0 => /\ route[rule[1]] \in Ids
                                /\ ann'[route[rule[1]]].action = ann[route[rule[1]]].action
    BY <1>1, OwnerIsHeld
  <2>2. UNCHANGED route
    BY DEF MarkPeerDown
  <2>. QED
    BY <2>1, <2>2 DEF AnnouncerOf
<1>. QED
  BY <1>2, <1>3 DEF AbstractStep

-----------------------------------------------------------------------------
(* The specification of the announcements implements that of the            *)
(* reservation. *)

LEMMA ReservationStarts == Init => Promise!ReservationInit
<1>. SUFFICES ASSUME Init PROVE Promise!ReservationInit
  OBVIOUS
<1>1. Existing = {}
  BY DEF Init, Existing, NoRow, NewRow
<1>2. ReservedRules = {}
  BY <1>1 DEF ReservedRules, Reserved
<1>3. \A rule \in Nlris \X Actions : route[rule[1]] = 0
  BY DEF Init
<1>. QED
  BY <1>2, <1>3 DEF AnnouncerOf, Promise!ReservationInit, Promise!Rules

LEMMA StepImplements ==
  ASSUME Testers = {}, Typed, KeyInv, RouteInv, NoWithdrawOnly, TableInv, Typed',
         LiveRouteIsTracked', [Next]_vars
  PROVE  AbstractStep
<1>1. CASE Creation
  BY <1>1, CreationStep
<1>2. CASE \E r \in Ids : Delivery(r)
  BY <1>2, DeliveryStep
<1>3. CASE \E p \in Reconcilers : Reconcile(p)
  BY <1>3, ReconcileStep
<1>4. CASE \E p \in Operators : Operate(p)
  BY <1>4, OperateStep
<1>5. CASE \E p \in Orchestrators : OrchestratorWithdraw(p)
  BY <1>5, OrchestratorStep
<1>6. CASE Decisions
  BY <1>6, DecisionsStep
<1>7. CASE MarkPeerDown
  BY <1>7, PeerDownStep
<1>8. CASE Time
  BY <1>8, TimeStep
<1>9. CASE UNCHANGED <<ann, route>>
  <2>1. AnnouncerOf' = AnnouncerOf
    BY <1>9 DEF AnnouncerOf
  <2>. QED
    BY <1>9, <2>1, SameReserved DEF AbstractStep
<1>10. Crash \/ UNCHANGED vars => UNCHANGED <<ann, route>>
  BY DEF Crash, vars
<1>. QED
  BY <1>1, <1>2, <1>3, <1>4, <1>5, <1>6, <1>7, <1>8, <1>9, <1>10 DEF Next

(* Without the withdraw of untracked rules, every transaction of every      *)
(* thread, and every crash, is a step of the reservation of rules           *)
(* (apply_mitigation_candidate, attempt_bgp_announcement,                   *)
(* process_expired_bgp_announcements, update_bgp_announcement_status).      *)
THEOREM ReservationsKept ==
  ASSUME Testers = {}
  PROVE  Spec => KeepsReservations
<1>1. Typed /\ KeyInv /\ NoWithdrawOnly /\ [Next]_vars => NoWithdrawOnly'
  BY NoWithdrawOnlyStep
<1>2. /\ Typed /\ KeyInv /\ RouteInv /\ NoWithdrawOnly /\ TableInv
      /\ Typed' /\ LiveRouteIsTracked' /\ [Next]_vars
      => [Promise!ReservationNext]_<<ReservedRules, AnnouncerOf>>
  BY StepImplements DEF AbstractStep
<1>. QED
  BY <1>1, <1>2, RouteInvInit, RouteInvStep, NoWithdrawOnlyInit, KeyInvariant,
     TableInvariant, Tracked, ReservationStarts, PTL
     DEF Spec, KeepsReservations, Promise!ReservationSpec

=============================================================================
