--------------------------- MODULE PaymentIntents ---------------------------
(***************************************************************************)
(* Money coming in: the Payment Intents raised for one order, the gateway  *)
(* sessions opened for them, and the four ways a payment is recognised:    *)
(* the gateway's webhook, the customer's browser returning, the            *)
(* reconciliation sweep, and the customer's own wallet.  All four book     *)
(* through applyTransaction and fan out through settlePaymentIntent.       *)
(*                                                                         *)
(* applyTransaction is one database transaction that starts by locking the *)
(* intent row, so it is one step here; every other statement and gateway   *)
(* call is an await, and a step of its own.  A job is one running          *)
(* execution; a crash ends all of them where they are.                     *)
(***************************************************************************)
EXTENDS Integers, FiniteSets, FiniteSetsExt

CONSTANTS
    MaxIntents,   \* Payment Intents that can be raised for the order
    MaxSessions,  \* gateway sessions that can be opened for one intent
    Total,        \* what the order costs
    Asks,         \* amounts callers raise an intent for
    AllowPartial, \* whether the customer may choose a smaller amount
    Expires,      \* whether the business lets intents expire (expiryMinutes > 0)
    HasWallet,    \* whether the customer has a wallet to pay from
    MaxTries,     \* how often a failed webhook event is processed
    Jobs,
    MaxCrashes

ASSUME IntentAssumption ==
    /\ MaxIntents \in Nat \ {0} /\ MaxSessions \in Nat \ {0} /\ Total \in Nat \ {0}
    /\ Asks \subseteq Nat \ {0} /\ {AllowPartial, Expires, HasWallet} \subseteq BOOLEAN
    /\ MaxTries \in Nat \ {0} /\ MaxCrashes \in Nat
    /\ IsFiniteSet(Jobs)

VARIABLES
    intent,   \* the PaymentIntent rows, numbered as they are created
    charge,   \* the gateway's charges, by intent and session
    wallet,   \* what the ledger transaction payintent:<id> took, 0 if there is none
    booked,   \* the PaymentTransaction rows
    event,    \* the InboundWebhookEvent row of each charge
    order,    \* payment status of the order, whether it was released
    fannedOut, \* how often the once-only part of settlePaymentIntent ran
    job,
    crashes

vars == <<intent, charge, wallet, booked, event, order, fannedOut, job, crashes>>

Intents == 1 .. MaxIntents
Charges == Intents \X (1 .. MaxSessions)
Wallet == 0 \* providerRef <<i, Wallet>>: the wallet's ledger transaction

Reusable == {"AWAITING_PAYMENT", "PROCESSING", "PARTIALLY_PAID"}
Terminal == {"PAID", "CANCELLED", "EXPIRED"}

Exists(i) == intent[i].status # "ABSENT"
Outstanding(i) == IF intent[i].amount > intent[i].paid THEN intent[i].amount - intent[i].paid ELSE 0

(* isPayable, and the expiry check of the public page. *)
Payable(i) == /\ Exists(i) /\ intent[i].status \notin Terminal
              /\ ~intent[i].due
              /\ Outstanding(i) > 0

(* The status implied by the money booked so far, when there is some. *)
StatusForAmounts(amount, paid) ==
    IF paid > amount THEN "OVERPAID" ELSE IF paid = amount THEN "PAID" ELSE "PARTIALLY_PAID"

Idle == [op |-> "none", step |-> "idle", i |-> 0, n |-> 0, sum |-> 0, seen |-> 0,
         flag |-> FALSE]

Start(j, op, step, i, n, sum) ==
    /\ job[j] = Idle
    /\ job' = [job EXCEPT ![j] = [op |-> op, step |-> step, i |-> i, n |-> n, sum |-> sum,
                                  seen |-> 0, flag |-> FALSE]]
At(j, step) == job[j].step = step
Goto(j, step) == job' = [job EXCEPT ![j].step = step]
End(j) == job' = [job EXCEPT ![j] = Idle]

(* A webhook job still has to record what became of its event. *)
Return(j) == IF job[j].op = "webhook"
             THEN job' = [job EXCEPT ![j].step = "processed", ![j].sum = 0, ![j].flag = FALSE]
             ELSE End(j)

----------------------------------------------------------------------------
(* create: reuse the newest open intent if it is for the same amount and   *)
(* not past its expiry, otherwise stand a stale one down and insert.       *)

Raise(j, amount) ==
    LET open == {i \in Intents : intent[i].status \in Reusable}
        newest == Max(open)
        same == open # {} /\ intent[newest].amount = amount
        raising == {k \in Jobs : job[k].op = "raise"}
    IN  /\ Cardinality({i \in Intents : ~Exists(i)}) > Cardinality(raising) \* bound: MaxIntents
        /\ \/ ~same /\ Start(j, "raise", "create", 0, 0, amount)
           \/ same /\ intent[newest].due /\ Start(j, "raise", "stand down", newest, 0, amount)
        /\ UNCHANGED <<intent, charge, wallet, booked, event, order, fannedOut, crashes>>

StandDown(j) ==
    /\ At(j, "stand down")
    /\ intent' = [intent EXCEPT ![job[j].i].status = "EXPIRED"]
    /\ Goto(j, "create")
    /\ UNCHANGED <<charge, wallet, booked, event, order, fannedOut, crashes>>

CreateIntent(j) ==
    LET free == {i \in Intents : ~Exists(i)} IN
    /\ At(j, "create")
    /\ intent' = [intent EXCEPT ![Min(free)].status = "AWAITING_PAYMENT",
                                ![Min(free)].amount = job[j].sum]
    /\ End(j)
    /\ UNCHANGED <<charge, wallet, booked, event, order, fannedOut, crashes>>

----------------------------------------------------------------------------
(* initiatePublicPayment: check and choose the amount, keep the customer's  *)
(* address (which writes back the metadata as first read), find a          *)
(* reference for the session, open it at the gateway, then write           *)
(* PROCESSING and hand the page to the customer.  session and asked stand  *)
(* for the metadata's last attempt and the amount it was opened for.       *)

OpenCheckout(j, i) ==
    /\ Payable(i) /\ job[j] = Idle
    /\ \E sum \in 1 .. Outstanding(i) :
         /\ ~AllowPartial => sum = Outstanding(i)
         /\ job' = [job EXCEPT ![j] = [op |-> "checkout", step |-> "email", i |-> i,
                                       n |-> intent[i].session, sum |-> sum,
                                       seen |-> intent[i].asked, flag |-> FALSE]]
    /\ UNCHANGED <<intent, charge, wallet, booked, event, order, fannedOut, crashes>>

RememberEmail(j) ==
    /\ At(j, "email")
    /\ intent' = [intent EXCEPT ![job[j].i].session = job[j].n, ![job[j].i].asked = job[j].seen]
    /\ job' = [job EXCEPT ![j].step = "reference", ![j].n = 0, ![j].seen = 0]
    /\ UNCHANGED <<charge, wallet, booked, event, order, fannedOut, crashes>>

(* nextGatewayReference, the read: the previous session when it was for    *)
(* the same amount, else the next attempt.                                 *)
ChooseReference(j) ==
    LET row == intent[job[j].i] IN
    /\ At(j, "reference")
    /\ IF row.session # 0 /\ row.asked = job[j].sum
       THEN job' = [job EXCEPT ![j].n = row.session, ![j].step = "initialize"]
       ELSE IF row.session < MaxSessions \* bound: else the customer gives up
       THEN job' = [job EXCEPT ![j].n = row.session + 1, ![j].step = "remember"]
       ELSE End(j)
    /\ UNCHANGED <<intent, charge, wallet, booked, event, order, fannedOut, crashes>>

RememberSession(j) ==
    LET i == job[j].i IN
    /\ At(j, "remember")
    /\ intent' = [intent EXCEPT ![i].session = job[j].n, ![i].asked = job[j].sum]
    /\ Goto(j, "initialize")
    /\ UNCHANGED <<charge, wallet, booked, event, order, fannedOut, crashes>>

(* The gateway opens a session, or is asked for a reference it knows and   *)
(* refuses or returns the session it has.                                  *)
Initialize(j) ==
    LET c == <<job[j].i, job[j].n>> IN
    /\ At(j, "initialize")
    /\ \/ /\ charge[c].state = "none"
          /\ charge' = [charge EXCEPT ![c] = [state |-> "open", amount |-> job[j].sum]]
          /\ Goto(j, "hand over")
       \/ charge[c].state \in {"open", "offered"} /\ Goto(j, "hand over") /\ UNCHANGED charge
       \/ charge[c].state # "none" /\ End(j) /\ UNCHANGED charge
    /\ UNCHANGED <<intent, wallet, booked, event, order, fannedOut, crashes>>

HandOver(j) ==
    LET c == <<job[j].i, job[j].n>> IN
    /\ At(j, "hand over")
    /\ intent' = [intent EXCEPT ![job[j].i].status = "PROCESSING", ![job[j].i].engaged = TRUE]
    /\ charge' = IF charge[c].state = "open" THEN [charge EXCEPT ![c].state = "offered"] ELSE charge
    /\ End(j)
    /\ UNCHANGED <<wallet, booked, event, order, fannedOut, crashes>>

CustomerPays(c) ==
    /\ charge[c].state = "offered"
    /\ charge' = [charge EXCEPT ![c].state = "taken"]
    /\ UNCHANGED <<intent, wallet, booked, event, order, fannedOut, job, crashes>>

----------------------------------------------------------------------------
(* Four ways to recognise a payment. *)

(* ingest: the event is recorded first; seen again it is a duplicate. *)
Deliver(j, c) ==
    /\ charge[c].state = "taken" /\ event[c].status = "none"
    /\ event' = [event EXCEPT ![c].status = "RECEIVED"]
    /\ Start(j, "webhook", "find", c[1], c[2], charge[c].amount)
    /\ UNCHANGED <<intent, charge, wallet, booked, order, fannedOut, crashes>>

(* retryFailed: failed events, a bounded number of times. *)
RetryEvent(j, c) ==
    /\ event[c].status = "FAILED" /\ event[c].tries < MaxTries
    /\ Start(j, "webhook", "find", c[1], c[2], charge[c].amount)
    /\ UNCHANGED <<intent, charge, wallet, booked, event, order, fannedOut, crashes>>

(* process: the event's reference is looked up among the intents'; only    *)
(* the first session's is one.  Then the gateway is asked.                 *)
FindIntent(j) ==
    LET c == <<job[j].i, job[j].n>> IN
    /\ At(j, "find")
    /\ IF job[j].n # 1
       THEN event' = [event EXCEPT ![c].status = "IGNORED"] /\ End(j)
       ELSE \/ Goto(j, "apply") /\ UNCHANGED event
            \/ event' = [event EXCEPT ![c] = [status |-> "FAILED", tries |-> @.tries + 1]] /\ End(j)
    /\ UNCHANGED <<intent, charge, wallet, booked, order, fannedOut, crashes>>

MarkProcessed(j) ==
    /\ At(j, "processed")
    /\ event' = [event EXCEPT ![<<job[j].i, job[j].n>>].status = "PROCESSED"]
    /\ End(j)
    /\ UNCHANGED <<intent, charge, wallet, booked, order, fannedOut, crashes>>

(* verifyPublicPayment: the browser comes back with the intent's own       *)
(* reference or its latest session's, and the gateway confirms the charge. *)
BrowserReturns(j, c) ==
    /\ charge[c].state = "taken" /\ intent[c[1]].engaged
    /\ c[2] \in {1, intent[c[1]].session}
    /\ Start(j, "browser", "apply", c[1], c[2], charge[c].amount)
    /\ UNCHANGED <<intent, charge, wallet, booked, event, order, fannedOut, crashes>>

SweepAwaitingOnly(j, i) == \* mistake: intents in PROCESSING are not asked about
    LET c == <<i, 1>> IN
    /\ intent[i].status \in {"AWAITING_PAYMENT", "PARTIALLY_PAID"} /\ intent[i].engaged
    /\ charge[c].state = "taken"
    /\ Start(j, "sweep", "apply", i, 1, charge[c].amount)
    /\ UNCHANGED <<intent, charge, wallet, booked, event, order, fannedOut, crashes>>

(* reconcilePayments: the gateway is asked about the intent's reference. *)
Sweep(j, i) ==
    LET c == <<i, 1>> IN
    /\ intent[i].status \in {"AWAITING_PAYMENT", "PROCESSING", "PARTIALLY_PAID"}
    /\ intent[i].engaged
    /\ charge[c].state = "taken"
    /\ Start(j, "sweep", "apply", i, 1, charge[c].amount)
    /\ UNCHANGED <<intent, charge, wallet, booked, event, order, fannedOut, crashes>>

(* payLinkWithWallet: what is outstanding is read, then posted to the      *)
(* ledger under the intent's key, then booked under the transaction's id.  *)
PayWithWallet(j, i) ==
    /\ HasWallet
    /\ Exists(i) /\ intent[i].status \notin {"PAID", "OVERPAID", "CANCELLED", "EXPIRED"}
    /\ ~intent[i].due /\ Outstanding(i) > 0
    /\ Start(j, "wallet", "post", i, Wallet, Outstanding(i))
    /\ UNCHANGED <<intent, charge, wallet, booked, event, order, fannedOut, crashes>>

PostToLedger(j) ==
    LET i == job[j].i IN
    /\ At(j, "post")
    /\ \/ /\ wallet' = IF wallet[i] = 0 THEN [wallet EXCEPT ![i] = job[j].sum] ELSE wallet
          /\ Goto(j, "apply")
       \/ wallet[i] = 0 /\ UNCHANGED wallet /\ End(j) \* refused: too little in the wallet
    /\ UNCHANGED <<intent, charge, booked, event, order, fannedOut, crashes>>

----------------------------------------------------------------------------
(* applyTransaction: the provider reference is the idempotency anchor.     *)

SumOf(rows) == SumFunction([t \in rows |-> t.sum])

ApplyAgain(j) == \* mistake: the amount is added without looking for the reference
    LET i == job[j].i
        paid == intent[i].paid + job[j].sum
        status == StatusForAmounts(intent[i].amount, paid)
    IN  /\ At(j, "apply")
        /\ booked' = booked \cup {[i |-> i, n |-> job[j].n, sum |-> job[j].sum]}
        /\ intent' = [intent EXCEPT ![i].paid = paid, ![i].status = status]
        /\ job' = [job EXCEPT ![j].step = "order",
                              ![j].flag = status \in {"PAID", "OVERPAID"}
                                          /\ intent[i].status \notin {"PAID", "OVERPAID"}]
        /\ UNCHANGED <<charge, wallet, event, order, fannedOut, crashes>>

Apply(j) ==
    LET i == job[j].i
        rows == booked \cup {[i |-> i, n |-> job[j].n, sum |-> job[j].sum]}
        paid == SumOf({t \in rows : t.i = i})
        status == StatusForAmounts(intent[i].amount, paid)
    IN  /\ At(j, "apply")
        /\ IF \E t \in booked : t.i = i /\ t.n = job[j].n
           THEN Return(j) /\ UNCHANGED <<intent, booked>>
           ELSE /\ booked' = rows
                /\ intent' = [intent EXCEPT ![i].paid = paid, ![i].status = status]
                /\ job' = [job EXCEPT ![j].step = "order",
                                      ![j].flag = status \in {"PAID", "OVERPAID"}
                                                  /\ intent[i].status \notin {"PAID", "OVERPAID"}]
        /\ UNCHANGED <<charge, wallet, event, order, fannedOut, crashes>>

----------------------------------------------------------------------------
(* settlePaymentIntent: what all the order's intents have been paid is     *)
(* added up, the order written, and released when it is paid in full; the  *)
(* rest runs only on the transition into paid.                             *)

ReadOrderAsked(j) == \* mistake: what was asked for is added up, not what was paid
    /\ At(j, "order")
    /\ job' = [job EXCEPT ![j].step = "write order",
                          ![j].sum = SumFunction([i \in Intents |-> intent[i].amount])]
    /\ UNCHANGED <<intent, charge, wallet, booked, event, order, fannedOut, crashes>>

ReadOrder(j) ==
    /\ At(j, "order")
    /\ job' = [job EXCEPT ![j].step = "write order",
                          ![j].sum = SumFunction([i \in Intents |-> intent[i].paid])]
    /\ UNCHANGED <<intent, charge, wallet, booked, event, order, fannedOut, crashes>>

WriteOrderOnTransition(j) == \* mistake: a paid intent is taken for a paid order
    LET full == job[j].flag IN
    /\ At(j, "write order")
    /\ order' = [order EXCEPT !.pay = IF full THEN "PAID" ELSE "PARTIALLY_PAID"]
    /\ Goto(j, IF full THEN "release" ELSE "fan out")
    /\ UNCHANGED <<intent, charge, wallet, booked, event, fannedOut, crashes>>

WriteOrder(j) ==
    LET full == job[j].sum >= Total IN
    /\ At(j, "write order")
    /\ order' = [order EXCEPT !.pay = IF full THEN "PAID" ELSE "PARTIALLY_PAID"]
    /\ Goto(j, IF full THEN "release" ELSE "fan out")
    /\ UNCHANGED <<intent, charge, wallet, booked, event, fannedOut, crashes>>

ReleaseOrder(j) ==
    /\ At(j, "release")
    /\ order' = [order EXCEPT !.released = TRUE]
    /\ Goto(j, "fan out")
    /\ UNCHANGED <<intent, charge, wallet, booked, event, fannedOut, crashes>>

(* Each step of the fan-out is isolated: one that fails is passed over.    *)
OrderFails(j) ==
    /\ job[j].step \in {"order", "write order", "release"}
    /\ Goto(j, "fan out")
    /\ UNCHANGED <<intent, charge, wallet, booked, event, order, fannedOut, crashes>>

FanOut(j) ==
    LET i == job[j].i IN
    /\ At(j, "fan out")
    /\ fannedOut' = IF job[j].flag THEN fannedOut \cup {i} ELSE fannedOut
    /\ Return(j)
    /\ UNCHANGED <<intent, charge, wallet, booked, event, order, crashes>>

----------------------------------------------------------------------------
(* cancel, expiry, crashes. *)

Cancel(j, i) ==
    /\ Exists(i) /\ intent[i].status \notin Terminal
    /\ Start(j, "cancel", "cancel", i, 0, 0)
    /\ UNCHANGED <<intent, charge, wallet, booked, event, order, fannedOut, crashes>>

WriteCancelled(j) ==
    /\ At(j, "cancel")
    /\ intent' = [intent EXCEPT ![job[j].i].status = "CANCELLED"]
    /\ End(j)
    /\ UNCHANGED <<charge, wallet, booked, event, order, fannedOut, crashes>>

(* expiresAt passes. *)
FallDue(i) ==
    /\ Expires /\ intent[i].status \in Reusable /\ ~intent[i].due
    /\ intent' = [intent EXCEPT ![i].due = TRUE]
    /\ UNCHANGED <<charge, wallet, booked, event, order, fannedOut, job, crashes>>

(* expireOverdue, one guarded updateMany. *)
ExpireOverdue(i) ==
    /\ intent[i].due /\ intent[i].status \in {"AWAITING_PAYMENT", "PROCESSING"}
    /\ intent[i].paid = 0
    /\ intent' = [intent EXCEPT ![i].status = "EXPIRED"]
    /\ UNCHANGED <<charge, wallet, booked, event, order, fannedOut, job, crashes>>

Crash ==
    /\ crashes < MaxCrashes
    /\ \E j \in Jobs : job[j] # Idle
    /\ job' = [j \in Jobs |-> Idle]
    /\ crashes' = crashes + 1
    /\ UNCHANGED <<intent, charge, wallet, booked, event, order, fannedOut>>

----------------------------------------------------------------------------
Init ==
    /\ intent = [i \in Intents |-> [status |-> "ABSENT", amount |-> 0, paid |-> 0, due |-> FALSE,
                                    engaged |-> FALSE, session |-> 0, asked |-> 0]]
    /\ charge = [c \in Charges |-> [state |-> "none", amount |-> 0]]
    /\ wallet = [i \in Intents |-> 0]
    /\ booked = {}
    /\ event = [c \in Charges |-> [status |-> "none", tries |-> 0]]
    /\ order = [pay |-> "PENDING", released |-> FALSE]
    /\ fannedOut = {}
    /\ job = [j \in Jobs |-> Idle]
    /\ crashes = 0

Step(j) == \/ StandDown(j) \/ CreateIntent(j)
           \/ RememberEmail(j) \/ ChooseReference(j) \/ RememberSession(j) \/ Initialize(j) \/ HandOver(j)
           \/ FindIntent(j) \/ MarkProcessed(j) \/ PostToLedger(j) \/ Apply(j)
           \/ ReadOrder(j) \/ WriteOrder(j) \/ ReleaseOrder(j) \/ OrderFails(j) \/ FanOut(j)
           \/ WriteCancelled(j)

Next ==
    \/ \E j \in Jobs :
         \/ Step(j)
         \/ \E amount \in Asks : Raise(j, amount)
         \/ \E i \in Intents : OpenCheckout(j, i) \/ Sweep(j, i) \/ PayWithWallet(j, i) \/ Cancel(j, i)
         \/ \E c \in Charges : Deliver(j, c) \/ RetryEvent(j, c) \/ BrowserReturns(j, c)
    \/ \E i \in Intents : FallDue(i) \/ ExpireOverdue(i)
    \/ \E c \in Charges : CustomerPays(c)
    \/ Crash

Spec == Init /\ [][Next]_vars

(* The event loop finishes what it started and the sweep comes round to    *)
(* every intent whenever it is free.  Nothing is asked of the webhooks,    *)
(* the browser or the customer.                                            *)
IntentFairness ==
    /\ \A j \in Jobs : WF_vars(Step(j))
    /\ \A i \in Intents : SF_vars(\E j \in Jobs : Sweep(j, i))

FairSpec == Spec /\ IntentFairness

----------------------------------------------------------------------------
(* Properties. *)

TakenCharges(i) == {c \in Charges : c[1] = i /\ charge[c].state = "taken"}
TakenByGateway(i) == SumFunction([c \in TakenCharges(i) |-> charge[c].amount])
Taken(i) == wallet[i] + TakenByGateway(i)
TakenInAll == SumFunction([i \in Intents |-> Taken(i)])

(* "A gateway that retries a webhook five times books once": whatever      *)
(* webhooks, sweeps and returning browsers report, in whatever order, what *)
(* an intent shows as paid through a gateway was taken by the gateway.     *)
ChargesBookOnce == \A i \in Intents :
    intent[i].paid - SumOf({t \in booked : t.i = i /\ t.n = Wallet}) <= TakenByGateway(i)

(* "The ledger transaction is the trusted reference": the same when the    *)
(* customer's wallet pays too.                                             *)
BookedWasTaken == \A i \in Intents : intent[i].paid <= Taken(i)

(* An order is shown as paid and released, and the effects of a full       *)
(* payment run, only when the money for it has been taken, although the    *)
(* totals are read in one statement and acted on in later ones.            *)
ReleasedWasTaken == order.pay = "PAID" \/ order.released => TakenInAll >= Total
FannedOutWasTaken == \A i \in fannedOut : Taken(i) >= intent[i].amount

NothingUnpaidIsReleased == ReleasedWasTaken /\ FannedOutWasTaken

(* "A customer who has genuinely paid" does not sit "in front of an order  *)
(* that still says unpaid": a charge taken under an intent's reference is  *)
(* booked although no webhook arrives and no browser returns, unless the   *)
(* intent is closed some other way first.                                  *)
ChargesAreBooked == \A i \in Intents :
    charge[<<i, 1>>].state = "taken"
        ~> ((\E t \in booked : t.i = i /\ t.n = 1) \/ intent[i].status \notin Reusable)
=============================================================================
