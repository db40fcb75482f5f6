----------------------------- MODULE MCServices -----------------------------
(***************************************************************************)
(* The services beside payments and stock, one in each part: the outbox    *)
(* with any handlers ("events"); the outbox with the rewards handler,      *)
(* where two drains overlap beside an expiry of points ("points"),         *)
(* or one drain works beside two counters that redeem or expire            *)
(* ("counters"); keyed requests; outgoing webhooks; SMS and WhatsApp       *)
(* campaigns.                                                              *)
(***************************************************************************)
EXTENDS Outbox, Rewards, Idempotency, Webhooks, SmsCampaigns, WhatsAppCampaigns

CONSTANTS Parts, c1, c2, d2, g1, g2, g3

VARIABLE part

(* Two requests with one key, and a third that has its own.                *)
MCKeyOf == [g \in {g1, g2, g3} |-> IF g = g3 THEN 2 ELSE 1]

rest == <<idempotencyVars, webhookVars, smsVars, blastVars>>

----------------------------------------------------------------------------
(* "points" and "counters": a PaymentCompleted event is handed to          *)
(* earnForPayment, which runs in the drain that delivers it; a crash ends  *)
(* both.                                                                   *)

EventSide ==
    \/ \E e \in Payments : EmitEvent(e) /\ UNCHANGED rewardVars
    \/ \E d \in Drains :
         \/ (TakeBatch(d) \/ RecordPublished(d) \/ RecordFailure(d)) /\ UNCHANGED rewardVars
         \/ /\ Deliver(d)
            /\ IF drain'[d].step = "handlers" THEN Earn(d, drain'[d].e) ELSE UNCHANGED rewardVars
         \/ \E ok \in BOOLEAN :
              /\ till[d] = DoneTill(ok) /\ HandlersReturn(d, ok) /\ Heard(d)

(* One counter asks for all the points of a payment, the other for one or  *)
(* for an expiry; a millisecond matters once its key is used; one failure. *)
CounterSide ==
    /\ \/ Redeem(c1, Points) \/ Redeem(c2, 1) \/ ExpireStale(c2)
       \/ \E j \in {c1, c2} : Heard(j)
       \/ credited[clock] # 0 /\ MillisecondPasses
    /\ UNCHANGED outboxVars

PointsNext ==
    \/ EventSide \/ CounterSide
    \/ \E j \in Tills : TillStep(j) /\ UNCHANGED outboxVars
    \/ OutboxCrash /\ RewardsCrash

(* Two drains, with an expiry and no redemption; or one drain, with two    *)
(* redemptions or an expiry at once.  One failing statement or crash.      *)
OverlappingDrains == redeems' = 0 /\ till'[c1] = NoTill
OneDrain == drain'[d2] = drain[d2]

----------------------------------------------------------------------------
(* "whatsapp": a resume, a refused dispatch, or the switch off and on      *)
(* again; one of the recipients may opt out; once two passes overlap       *)
(* nothing follows.                                                        *)
Undemanding ==
    /\ Undisturbed
    /\ 2 * (tally'.resumes + tally'.refusals) + tally'.switches <= 2
    /\ Recipients \ optedIn' \subseteq {1}

MCInit ==
    /\ OutboxInit /\ RewardsInit /\ IdempotencyInit /\ WebhookInit /\ SmsInit /\ WhatsAppInit
    /\ part \in Parts

MCNext ==
    /\ UNCHANGED part
    /\ \/ part = "events" /\ OutboxNext /\ UNCHANGED <<rewardVars, rest>>
       \/ part = "points" /\ PointsNext /\ breaks' <= 1 /\ OverlappingDrains /\ UNCHANGED rest
       \/ part = "counters" /\ PointsNext /\ breaks' <= 1 /\ OneDrain /\ UNCHANGED rest
       \/ part = "requests" /\ IdempotencyNext
          /\ UNCHANGED <<outboxVars, rewardVars, webhookVars, smsVars, blastVars>>
       \/ part = "webhooks" /\ WebhookNext /\ (mishaps' = 0 \/ ~closed')
          /\ UNCHANGED <<outboxVars, rewardVars, idempotencyVars, smsVars, blastVars>>
       \/ part = "sms" /\ SmsNext
          /\ UNCHANGED <<outboxVars, rewardVars, idempotencyVars, webhookVars, blastVars>>
       \/ part = "whatsapp" /\ WhatsAppNext /\ Undemanding
          /\ UNCHANGED <<outboxVars, rewardVars, idempotencyVars, webhookVars, smsVars>>

MCSpec == MCInit /\ [][MCNext]_<<outboxVars, rewardVars, rest, part>>
FairMCSpec == MCSpec /\ OutboxFairness /\ WhatsAppFairness /\ SmsFairness
=============================================================================
