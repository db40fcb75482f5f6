---------------------------- MODULE SmsCampaigns ----------------------------
(***************************************************************************)
(* SMS campaigns and the prepaid credit they are paid from.  A campaign is *)
(* sent by a member of staff or, when it was scheduled, by a sweep; the    *)
(* delivery runs inside that call, or in a worker when there is a queue.   *)
(* The whole cost is reserved before anything leaves, and what the         *)
(* provider rejects is given back.                                         *)
(***************************************************************************)
EXTENDS Integers, FiniteSetsExt

CONSTANTS
    Campaigns,
    Senders,        \* executions that may run at once: requests, the sweep, the worker
    Scheduled,      \* campaigns that have a date; the others are drafts
    Cost,           \* credits a campaign needs
    OpeningCredit,
    Package,        \* credits in the package that can be bought
    Receipts,       \* gateway references of purchases
    HasQueue,       \* whether Redis is configured
    QueueAttempts,  \* how often the queue runs a job
    MaxStops        \* bound: process exits, and statements that fail once credit is reserved

ASSUME SmsAssumption ==
    /\ Scheduled \subseteq Campaigns /\ HasQueue \in BOOLEAN
    /\ {Cost, OpeningCredit, Package, QueueAttempts, MaxStops} \subseteq Nat /\ Cost > 0
    /\ IsFiniteSet(Campaigns) /\ IsFiniteSet(Senders)

VARIABLES
    credit,     \* the SmsWallet balance
    campaign,   \* status of the Campaign rows
    late,       \* campaigns still SCHEDULED GRACE_HOURS after their date
    refused,    \* campaigns one of whose sends threw after SENDING was written
    send,       \* the running executions
    jobs,       \* queued jobs: campaign and runs left
    approved,   \* whether the Sender ID is approved
    delivered,  \* messages the provider accepted, by campaign
    unpaid,     \* messages the provider accepted and whose credit was given back
    kept,       \* credit reserved by a send that ended without settling it
    bought,     \* gateway references with a PURCHASE entry
    stops

smsVars == <<credit, campaign, late, refused, send, jobs, approved, delivered, unpaid, kept, bought, stops>>

NoSend == [step |-> "idle", c |-> "none", runs |-> 0, accepted |-> 0]
Doing(s, step) == send[s].step = step
On(s) == send[s].c
Begin(s, step, c, runs) ==
    /\ send[s] = NoSend
    /\ send' = [send EXCEPT ![s] = [step |-> step, c |-> c, runs |-> runs, accepted |-> 0]]
ThenDo(s, step) == send' = [send EXCEPT ![s].step = step]
Close(s) == send' = [send EXCEPT ![s] = NoSend]

(* What an execution has taken from the credit and neither settled nor     *)
(* given back; what the provider answered for is spent already.            *)
Outstanding(e) ==
    CASE e.step \in {"record", "provider", "refund all"} -> Cost
      [] e.step = "settle" -> Cost - e.accepted
      [] OTHER -> 0

----------------------------------------------------------------------------
(* create writes a draft; rows with a date come to the sweep SCHEDULED.    *)
NewCampaign(c) ==
    /\ campaign[c] = "NONE"
    /\ campaign' = [campaign EXCEPT ![c] = IF c \in Scheduled THEN "SCHEDULED" ELSE "DRAFT"]
    /\ UNCHANGED <<credit, late, refused, send, jobs, approved, delivered, unpaid, kept, bought, stops>>

(* send: the status, then the quote, then SENDING whatever the row says.   *)

StartSend(s, c) ==
    /\ campaign[c] \in {"DRAFT", "SCHEDULED"}
    /\ Begin(s, "quote", c, 1)
    /\ UNCHANGED <<credit, campaign, late, refused, jobs, approved, delivered, unpaid, kept, bought, stops>>

MarkSendingFirst(s) == \* mistake: SENDING is written before the balance is looked at
    /\ Doing(s, "quote")
    /\ campaign' = [campaign EXCEPT ![On(s)] = "SENDING"]
    /\ IF credit >= Cost THEN ThenDo(s, "hand over") ELSE Close(s)
    /\ UNCHANGED <<credit, late, refused, jobs, approved, delivered, unpaid, kept, bought, stops>>

Quote(s) ==
    /\ Doing(s, "quote")
    /\ IF credit >= Cost THEN ThenDo(s, "mark") ELSE Close(s)
    /\ UNCHANGED <<credit, campaign, late, refused, jobs, approved, delivered, unpaid, kept, bought, stops>>

MarkSending(s) ==
    /\ Doing(s, "mark")
    /\ campaign' = [campaign EXCEPT ![On(s)] = "SENDING"]
    /\ ThenDo(s, "hand over")
    /\ UNCHANGED <<credit, late, refused, jobs, approved, delivered, unpaid, kept, bought, stops>>

(* enqueue, or the delivery inline when there is no queue or it fails.     *)
HandToQueue(s) ==
    /\ Doing(s, "hand over") /\ HasQueue
    /\ jobs' = jobs \cup {[c |-> On(s), runs |-> QueueAttempts, by |-> s]}
    /\ Close(s)
    /\ UNCHANGED <<credit, campaign, late, refused, approved, delivered, unpaid, kept, bought, stops>>

HandToSelf(s) ==
    /\ Doing(s, "hand over")
    /\ ThenDo(s, "sender")
    /\ UNCHANGED <<credit, campaign, late, refused, jobs, approved, delivered, unpaid, kept, bought, stops>>

WorkerTakes(s, job) ==
    /\ job \in jobs /\ jobs' = jobs \ {job}
    /\ Begin(s, "sender", job.c, job.runs)
    /\ UNCHANGED <<credit, campaign, late, refused, approved, delivered, unpaid, kept, bought, stops>>

----------------------------------------------------------------------------
(* sendNow: the Sender ID, the reservation, the provider, the refund.      *)

(* A send that throws is run again by the queue while it has runs left;    *)
(* the sweep and the request just end.                                     *)
Throw(s) ==
    /\ refused' = refused \cup {On(s)}
    /\ jobs' = IF send[s].runs > 1 THEN jobs \cup {[c |-> On(s), runs |-> send[s].runs - 1, by |-> s]} ELSE jobs
    /\ Close(s)

RequireApproved(s) ==
    /\ Doing(s, "sender")
    /\ IF approved THEN ThenDo(s, "reserve") /\ UNCHANGED <<refused, jobs>> ELSE Throw(s)
    /\ UNCHANGED <<credit, campaign, late, approved, delivered, unpaid, kept, bought, stops>>

ReserveUnguarded(s) == \* mistake: the balance is checked in the quote only
    /\ Doing(s, "reserve")
    /\ credit' = credit - Cost /\ ThenDo(s, "record")
    /\ UNCHANGED <<campaign, late, refused, jobs, approved, delivered, unpaid, kept, bought, stops>>

Reserve(s) ==
    /\ Doing(s, "reserve")
    /\ IF credit >= Cost
       THEN credit' = credit - Cost /\ ThenDo(s, "record") /\ UNCHANGED <<refused, jobs>>
       ELSE Throw(s) /\ UNCHANGED credit
    /\ UNCHANGED <<campaign, late, approved, delivered, unpaid, kept, bought, stops>>

(* smsMessage.createMany, after the reservation and before the try.        *)
RecordMessages(s) ==
    /\ Doing(s, "record")
    /\ ThenDo(s, "provider")
    /\ UNCHANGED <<credit, campaign, late, refused, jobs, approved, delivered, unpaid, kept, bought, stops>>

(* The provider takes n of the messages and answers for some of them; one  *)
(* whose answer is lost counts as rejected.  Or the call fails as a whole. *)
CallProvider(s) ==
    /\ Doing(s, "provider")
    /\ \E n \in 0 .. Cost :
         /\ delivered' = [delivered EXCEPT ![On(s)] = @ + n]
         /\ \/ \E answered \in 0 .. n :
                 /\ send' = [send EXCEPT ![s].step = "settle", ![s].accepted = answered]
                 /\ unpaid' = unpaid + (n - answered)
            \/ ThenDo(s, "refund all") /\ unpaid' = unpaid + n
    /\ UNCHANGED <<credit, campaign, late, refused, jobs, approved, kept, bought, stops>>

SettleTwice(s) == \* mistake: the refund of the rejected is added to one of everything
    /\ Doing(s, "settle")
    /\ credit' = credit + (Cost - send[s].accepted) + (IF send[s].accepted = 0 THEN Cost ELSE 0)
    /\ ThenDo(s, "mark sent")
    /\ UNCHANGED <<campaign, late, refused, jobs, approved, delivered, unpaid, kept, bought, stops>>

SettleReservation(s) ==
    /\ Doing(s, "settle")
    /\ credit' = credit + (Cost - send[s].accepted)
    /\ ThenDo(s, "mark sent")
    /\ UNCHANGED <<campaign, late, refused, jobs, approved, delivered, unpaid, kept, bought, stops>>

RefundAll(s) ==
    /\ Doing(s, "refund all")
    /\ credit' = credit + Cost
    /\ Throw(s)
    /\ UNCHANGED <<campaign, late, approved, delivered, unpaid, kept, bought, stops>>

(* Recording what was accepted fails: the catch gives everything back.     *)
AnswerLost(s) ==
    /\ Doing(s, "settle")
    /\ stops < MaxStops /\ stops' = stops + 1
    /\ ThenDo(s, "refund all")
    /\ unpaid' = unpaid + send[s].accepted
    /\ UNCHANGED <<credit, campaign, late, refused, jobs, approved, delivered, kept, bought>>

(* A statement outside the try fails: the message rows, the settlement, or *)
(* the refund in the catch.  What is reserved stays taken.                 *)
ReservationStays(s) ==
    /\ send[s].step \in {"record", "settle", "refund all"}
    /\ stops < MaxStops /\ stops' = stops + 1
    /\ kept' = kept + Outstanding(send[s])
    /\ Throw(s)
    /\ UNCHANGED <<credit, campaign, late, approved, delivered, unpaid, bought>>

MarkSent(s) ==
    /\ Doing(s, "mark sent")
    /\ campaign' = [campaign EXCEPT ![On(s)] = "SENT"]
    /\ Close(s)
    /\ UNCHANGED <<credit, late, refused, jobs, approved, delivered, unpaid, kept, bought, stops>>

(* A statement fails on the way to SENT: a queued job runs once more, and  *)
(* sends everything again.                                                 *)
MarkSentFails(s) ==
    /\ Doing(s, "mark sent")
    /\ Throw(s)
    /\ UNCHANGED <<credit, campaign, late, approved, delivered, unpaid, kept, bought, stops>>

----------------------------------------------------------------------------
(* verifyPurchase, by the webhook and by the returning browser: look for   *)
(* the reference, then credit under the unique index.                      *)

VerifyPurchase(s, ref) ==
    /\ ref \notin bought
    /\ Begin(s, "buy", ref, 1)
    /\ UNCHANGED <<credit, campaign, late, refused, jobs, approved, delivered, unpaid, kept, bought, stops>>

CreditAgain(s) == \* mistake: no unique reference, the first look-up is trusted
    /\ Doing(s, "buy")
    /\ credit' = credit + Package /\ bought' = bought \cup {On(s)}
    /\ Close(s)
    /\ UNCHANGED <<campaign, late, refused, jobs, approved, delivered, unpaid, kept, stops>>

CreditPurchase(s) ==
    /\ Doing(s, "buy")
    /\ credit' = IF On(s) \in bought THEN credit ELSE credit + Package
    /\ bought' = bought \cup {On(s)}
    /\ Close(s)
    /\ UNCHANGED <<campaign, late, refused, jobs, approved, delivered, unpaid, kept, stops>>

(* The Sender ID is suspended, or approved again.                          *)
ReviewSender ==
    /\ approved' = ~approved
    /\ UNCHANGED <<credit, campaign, late, refused, send, jobs, delivered, unpaid, kept, bought, stops>>

SmsCrash ==
    /\ stops < MaxStops /\ stops' = stops + 1
    /\ \E s \in Senders : send[s] # NoSend
    /\ send' = [s \in Senders |-> NoSend]
    /\ kept' = kept + SumFunction([s \in Senders |-> Outstanding(send[s])])
    /\ UNCHANGED <<credit, campaign, late, refused, jobs, approved, delivered, unpaid, bought>>

SmsInit ==
    /\ credit = OpeningCredit
    /\ campaign = [c \in Campaigns |-> "NONE"]
    /\ late = {} /\ refused = {} /\ jobs = {} /\ approved = TRUE
    /\ send = [s \in Senders |-> NoSend]
    /\ delivered = [c \in Campaigns |-> 0]
    /\ unpaid = 0 /\ kept = 0 /\ bought = {} /\ stops = 0

(* runScheduledCampaigns, for one campaign that is due: it is sent while   *)
(* its grace lasts; after that it is left to a member of staff.            *)
SweepScheduled(s, c) == campaign[c] = "SCHEDULED" /\ c \notin late /\ StartSend(s, c)

GraceEnds(c) ==
    /\ campaign[c] = "SCHEDULED" /\ late' = late \cup {c}
    /\ UNCHANGED <<credit, campaign, refused, send, jobs, approved, delivered, unpaid, kept, bought, stops>>

SendStep(s) ==
    \/ Quote(s) \/ MarkSending(s) \/ HandToQueue(s) \/ HandToSelf(s) \/ RequireApproved(s)
    \/ Reserve(s) \/ RecordMessages(s) \/ CallProvider(s) \/ SettleReservation(s) \/ RefundAll(s) \/ MarkSent(s)
    \/ CreditPurchase(s)

SmsNext ==
    \/ \E s \in Senders :
         \/ SendStep(s) \/ AnswerLost(s) \/ ReservationStays(s) \/ MarkSentFails(s)
         \/ \E c \in Campaigns : StartSend(s, c) \/ SweepScheduled(s, c)
         \/ \E job \in jobs : WorkerTakes(s, job)
         \/ \E ref \in Receipts : VerifyPurchase(s, ref)
    \/ \E c \in Campaigns : NewCampaign(c) \/ GraceEnds(c)
    \/ ReviewSender \/ SmsCrash

(* What has begun goes on, the worker takes jobs, the sweep comes round.   *)
SmsFairness ==
    /\ \A s \in Senders : WF_smsVars(SendStep(s))
    /\ \A c \in Campaigns :
         /\ SF_smsVars(\E s \in Senders : SweepScheduled(s, c))
         /\ SF_smsVars(\E s \in Senders, job \in jobs : job.c = c /\ WorkerTakes(s, job))

----------------------------------------------------------------------------
(* "The business must not pay for a send that never left": with nothing in *)
(* flight, the credit is what was there and what was bought less exactly   *)
(* the messages that the provider accepted, however sends, purchases,      *)
(* retries, refusals, failing statements and process exits overlap; and it *)
(* is never negative.  The two ways in which the code departs from that    *)
(* are counted: unpaid, messages that went out and were refunded, because  *)
(* the provider's answer was lost or could not be recorded; and kept,      *)
(* credit that a send cut off between its reservation and its settlement   *)
(* never gave back.                                                        *)
CreditsExplained ==
    /\ credit >= 0
    /\ (\A s \in Senders : send[s] = NoSend) =>
         credit + kept = OpeningCredit + Package * Cardinality(bought) - (SumFunction(delivered) - unpaid)
    /\ stops = 0 => kept = 0

(* "Left SCHEDULED deliberately ... a balance that ran out ... after which *)
(* the next sweep sends it": once the balance stays sufficient while it    *)
(* waits, a scheduled campaign is sent, or is left SCHEDULED for a human   *)
(* because its six hours of grace ended.  (Or it is left SENDING, which no *)
(* sweep looks at, when its send threw, for a suspended Sender ID or for a *)
(* balance that ran out meanwhile, or was killed after that status.)       *)
ScheduledIsSent == \A c \in Scheduled :
    <>[](credit >= Cost \/ campaign[c] # "SCHEDULED") =>
        (campaign[c] = "SCHEDULED" ~>
            \/ campaign[c] = "SENT"
            \/ campaign[c] = "SCHEDULED" /\ c \in late
            \/ campaign[c] = "SENDING" /\ (c \in refused \/ stops > 0))
=============================================================================
