------------------------------- MODULE Payouts -------------------------------
(***************************************************************************)
(* Money leaving the platform: payoutService with the bank transfer        *)
(* gateway, the transfer webhook and the reconciliation sweep.             *)
(*                                                                         *)
(* A payout is created either by a customer's withdrawal request or by the *)
(* settlement engine (module Settlements).  Ledger postings are one step   *)
(* each, as module WalletLedger shows they may be taken to be; every other *)
(* database statement and the gateway call are steps of their own, because *)
(* each is an await at which other requests, webhooks and sweeps run.      *)
(*                                                                         *)
(* A job is one running execution: an HTTP request, a webhook being        *)
(* processed after it was acknowledged, or one payout looked at by the     *)
(* sweep.  A crash of the Node process ends all of them where they are.    *)
(***************************************************************************)
EXTENDS Integers, FiniteSets

CONSTANTS
    Withdrawals,     \* withdrawal requests, each an HTTP request of its own
    Settlements,     \* settlements, each paid by at most one payout
    ClientKey,       \* the idempotency key a withdrawal request carries
    NoKey,           \* it carries none: the server makes a reference up
    Amount,          \* what each withdrawal asks for
    Opening,         \* the customer's balance at the start
    MerchantOpening, \* the business's
    Staff, Nobody,   \* users of the business, who approve settlements
    NoPayout,
    Jobs,            \* how many executions can overlap
    GatewayAnswers,  \* what initiateTransfer may do, see Send
    MaxCrashes

ASSUME PayoutAssumption ==
    /\ Withdrawals \cap Settlements = {}
    /\ NoPayout \notin Withdrawals \cup Settlements
    /\ \A w \in Withdrawals : Amount[w] \in Nat \ {0}
    /\ \A w \in Withdrawals : ClientKey[w] \notin Withdrawals \cup Settlements
    /\ Opening \in Nat /\ MerchantOpening \in Nat /\ MaxCrashes \in Nat
    /\ Nobody \notin Staff
    /\ GatewayAnswers \subseteq {"accepts", "pays", "declines", "errors", "times out"}

VARIABLES
    funds,       \* ledger balances: customer, merchant, payable, clearing
    booked,      \* idempotency keys of the ledger transactions posted
    payout,      \* the Payout rows, named by the request or settlement that created them
    bank,        \* the bank's own view of each transfer
    sent,        \* how many transfers the bank was given for each payout
    settled,     \* status of each settlement
    asked,       \* withdrawal requests received
    job,
    crashes

payoutVars == <<funds, booked, payout, bank, sent, settled, asked, job, crashes>>

Payees == Withdrawals \cup Settlements

Idle == [op |-> "none", step |-> "idle", p |-> NoPayout, said |-> "PROCESSING",
         caught |-> FALSE, read |-> 0, by |-> Nobody, seen |-> Nobody]

Start(j, op, step, p) == /\ job[j] = Idle
                         /\ job' = [job EXCEPT ![j] = [Idle EXCEPT !.op = op, !.step = step, !.p = p]]

At(j, step) == job[j].step = step
Goto(j, step) == job' = [job EXCEPT ![j].step = step]

(* dispatch returns to its caller: a request ends, the settlement engine   *)
(* goes on with what dispatch returned or threw.                           *)
Finish(j) == job' = [job EXCEPT ![j] =
                IF @.op = "execute"
                THEN [@ EXCEPT !.step = IF job[j].caught THEN "settle failed" ELSE "settle paid"]
                ELSE Idle]

(* Ledger transactions, named by their idempotency keys. *)
DebitKey(p) == IF p \in Settlements THEN <<"settlement-payout", p>>
               ELSE <<"wd", IF ClientKey[p] = NoKey THEN p ELSE ClientKey[p]>>
ReversalKey(p) == <<"payout-reversal", p>>

(* payout.idempotencyKey: unique, and the client's when it gave one. *)
RowKey(p) == IF p \in Withdrawals /\ ClientKey[p] # NoKey THEN ClientKey[p] ELSE p

(* The gateway knows a transfer by the reference dispatch sent it.  Only   *)
(* for a withdrawal without a client key is that also the row's key.       *)
KeyIsReference(p) == p \in Withdrawals /\ ClientKey[p] = NoKey

Exists(p) == payout[p].status # "ABSENT"

----------------------------------------------------------------------------
(* Customer withdrawal. *)

Withdraw(j, w) ==
    /\ w \notin asked
    /\ asked' = asked \cup {w}
    /\ Start(j, "withdraw", "debit", w)
    /\ UNCHANGED <<funds, booked, payout, bank, sent, settled, crashes>>

DebitUserAnyway(j) == \* mistake: a refused debit does not end the request
    LET w == job[j].p IN
    /\ job[j].op = "withdraw" /\ At(j, "debit")
    /\ IF DebitKey(w) \in booked \/ funds.user < Amount[w] THEN UNCHANGED <<funds, booked>>
       ELSE /\ funds' = [funds EXCEPT !.user = @ - Amount[w], !.clearing = @ + Amount[w]]
            /\ booked' = booked \cup {DebitKey(w)}
    /\ Goto(j, "create")
    /\ UNCHANGED <<payout, bank, sent, settled, asked, crashes>>

(* The ledger debit, taken before the bank is asked. *)
DebitUser(j) ==
    LET w == job[j].p IN
    /\ job[j].op = "withdraw" /\ At(j, "debit")
    /\ \/ DebitKey(w) \in booked
          /\ Goto(j, "create") /\ UNCHANGED <<funds, booked>>
       \/ DebitKey(w) \notin booked /\ funds.user >= Amount[w]
          /\ funds' = [funds EXCEPT !.user = @ - Amount[w], !.clearing = @ + Amount[w]]
          /\ booked' = booked \cup {DebitKey(w)}
          /\ Goto(j, "create")
       \/ DebitKey(w) \notin booked /\ funds.user < Amount[w]
          /\ job' = [job EXCEPT ![j] = Idle] /\ UNCHANGED <<funds, booked>>
    /\ UNCHANGED <<payout, bank, sent, settled, asked, crashes>>

CreateDuplicate(j) == \* mistake: payout.idempotencyKey and settlementId are not unique
    LET p == job[j].p IN
    /\ At(j, "create")
    /\ payout' = [payout EXCEPT ![p] = [status |-> "PROCESSING", coded |-> FALSE,
                     amount |-> IF p \in Withdrawals THEN Amount[p] ELSE job[j].read]]
    /\ Goto(j, IF job[j].op = "manual" THEN "mark processing" ELSE "send")
    /\ UNCHANGED <<funds, booked, bank, sent, settled, asked, crashes>>

(* payout.create; a second row with the key of an existing one is P2002. *)
CreatePayout(j) ==
    LET p == job[j].p IN
    /\ At(j, "create")
    /\ IF \E q \in Payees : Exists(q) /\ RowKey(q) = RowKey(p)
       THEN /\ IF job[j].op = "execute" THEN Goto(j, "settle failed")
               ELSE job' = [job EXCEPT ![j] = Idle]
            /\ UNCHANGED payout
       ELSE /\ payout' = [payout EXCEPT ![p] =
                            [status |-> "PROCESSING", coded |-> FALSE,
                             amount |-> IF p \in Withdrawals THEN Amount[p] ELSE job[j].read]]
            /\ Goto(j, IF job[j].op = "manual" THEN "mark processing" ELSE "send")
    /\ UNCHANGED <<funds, booked, bank, sent, settled, asked, crashes>>

----------------------------------------------------------------------------
(* dispatch. *)

(* provider.initiateTransfer: the bank takes the transfer (accepts), has   *)
(* already paid it (pays) or declined it (declines), and says so; or the   *)
(* call throws because it was refused (errors) or because the answer was   *)
(* lost after the bank took the transfer (times out).                      *)
Send(j) ==
    LET p == job[j].p IN
    /\ At(j, "send")
    /\ \E a \in GatewayAnswers :
         /\ bank' = [bank EXCEPT ![p] = CASE a = "pays" -> "paid"
                                          [] a = "declines" -> "failed"
                                          [] a = "errors" -> bank[p]
                                          [] OTHER -> "pending"]
         /\ sent' = IF a = "errors" THEN sent ELSE [sent EXCEPT ![p] = @ + 1]
         /\ job' = [job EXCEPT ![j] =
              IF a \in {"errors", "times out"}
              THEN [@ EXCEPT !.step = "mark failed", !.caught = TRUE]
              ELSE [@ EXCEPT !.step = "record",
                             !.said = CASE a = "pays" -> "PAID" [] a = "declines" -> "FAILED"
                                        [] OTHER -> "PROCESSING"]]
    /\ UNCHANGED <<funds, booked, payout, settled, asked, crashes>>

(* The unconditional payout.update with what the gateway said. *)
Record(j) ==
    LET p == job[j].p IN
    /\ At(j, "record")
    /\ payout' = [payout EXCEPT ![p].status = job[j].said, ![p].coded = TRUE]
    /\ CASE job[j].said = "PAID" -> Goto(j, "mark paid")
         [] job[j].said = "FAILED" -> Goto(j, "mark failed")
         [] OTHER -> Finish(j)
    /\ UNCHANGED <<funds, booked, bank, sent, settled, asked, crashes>>

(* markPaid: the guarded updateMany, then the settlement. *)
MarkPaid(j) ==
    LET p == job[j].p IN
    /\ At(j, "mark paid")
    /\ IF payout[p].status = "PROCESSING"
       THEN payout' = [payout EXCEPT ![p].status = "PAID"] /\ Goto(j, "pay settlement")
       ELSE Finish(j) /\ UNCHANGED payout
    /\ UNCHANGED <<funds, booked, bank, sent, settled, asked, crashes>>

PaySettlement(j) ==
    LET p == job[j].p IN
    /\ At(j, "pay settlement")
    /\ settled' = [s \in Settlements |-> IF s = p THEN "PAID" ELSE settled[s]]
    /\ Finish(j)
    /\ UNCHANGED <<funds, booked, payout, bank, sent, asked, crashes>>

MarkFailedOnly(j) == \* mistake: the row fails but nothing is given back
    LET p == job[j].p IN
    /\ At(j, "mark failed")
    /\ IF payout[p].status = "PROCESSING"
       THEN payout' = [payout EXCEPT ![p].status = "FAILED"] /\ Goto(j, "fail settlement")
       ELSE Finish(j) /\ UNCHANGED payout
    /\ UNCHANGED <<funds, booked, bank, sent, settled, asked, crashes>>

(* markFailed: the guarded updateMany, the reversal, the settlement. *)
MarkFailed(j) ==
    LET p == job[j].p IN
    /\ At(j, "mark failed")
    /\ IF payout[p].status = "PROCESSING"
       THEN payout' = [payout EXCEPT ![p].status = "FAILED"] /\ Goto(j, "reverse")
       ELSE Finish(j) /\ UNCHANGED payout
    /\ UNCHANGED <<funds, booked, bank, sent, settled, asked, crashes>>

ReverseAgain(j) == \* mistake: the reversal is posted without a key
    LET p == job[j].p
        n == payout[p].amount IN
    /\ At(j, "reverse")
    /\ funds' = IF p \in Withdrawals
                THEN [funds EXCEPT !.clearing = @ - n, !.user = @ + n]
                ELSE [funds EXCEPT !.clearing = @ - n, !.payable = @ + n]
    /\ booked' = booked \cup {ReversalKey(p)}
    /\ Goto(j, "fail settlement")
    /\ UNCHANGED <<payout, bank, sent, settled, asked, crashes>>

Reverse(j) ==
    LET p == job[j].p
        n == payout[p].amount IN
    /\ At(j, "reverse")
    /\ IF ReversalKey(p) \in booked THEN UNCHANGED <<funds, booked>>
       ELSE /\ funds' = IF p \in Withdrawals
                        THEN [funds EXCEPT !.clearing = @ - n, !.user = @ + n]
                        ELSE [funds EXCEPT !.clearing = @ - n, !.payable = @ + n]
            /\ booked' = booked \cup {ReversalKey(p)}
    /\ Goto(j, "fail settlement")
    /\ UNCHANGED <<payout, bank, sent, settled, asked, crashes>>

FailSettlement(j) ==
    /\ At(j, "fail settlement")
    /\ settled' = [s \in Settlements |-> IF s = job[j].p THEN "FAILED" ELSE settled[s]]
    /\ Finish(j)
    /\ UNCHANGED <<funds, booked, payout, bank, sent, asked, crashes>>

----------------------------------------------------------------------------
(* The bank, its webhook, and the sweep. *)

BankResolves(p) ==
    /\ bank[p] = "pending"
    /\ \E outcome \in {"paid", "failed"} : bank' = [bank EXCEPT ![p] = outcome]
    /\ UNCHANGED <<funds, booked, payout, sent, settled, asked, job, crashes>>

(* handleTransferEvent: a transfer.success/failed/reversed event, found by *)
(* its reference or by the transfer code once dispatch has recorded it.    *)
(* The event may come at any time after the outcome, again, or never.      *)
TransferEvent(j, p) ==
    /\ bank[p] \in {"paid", "failed"}
    /\ Exists(p) /\ (KeyIsReference(p) \/ payout[p].coded)
    /\ Start(j, "webhook", IF bank[p] = "paid" THEN "mark paid" ELSE "mark failed", p)
    /\ UNCHANGED <<funds, booked, payout, bank, sent, settled, asked, crashes>>

(* reconcilePending: a payout still PROCESSING is picked, then verified    *)
(* under its row key, which the gateway may not know it by.                *)
Reconcile(j, p) ==
    /\ payout[p].status = "PROCESSING"
    /\ Start(j, "sweep", "verify", p)
    /\ UNCHANGED <<funds, booked, payout, bank, sent, settled, asked, crashes>>

VerifyImpatient(j) == \* mistake: a transfer still pending at the bank counts as failed
    LET p == job[j].p IN
    /\ At(j, "verify")
    /\ IF KeyIsReference(p) /\ bank[p] # "none"
       THEN Goto(j, IF bank[p] = "paid" THEN "mark paid" ELSE "mark failed")
       ELSE job' = [job EXCEPT ![j] = Idle]
    /\ UNCHANGED <<funds, booked, payout, bank, sent, settled, asked, crashes>>

VerifyPaidOnly(j) == \* mistake: the sweep ignores a failed transfer
    LET p == job[j].p IN
    /\ At(j, "verify")
    /\ IF KeyIsReference(p) /\ bank[p] = "paid"
       THEN Goto(j, "mark paid")
       ELSE job' = [job EXCEPT ![j] = Idle]
    /\ UNCHANGED <<funds, booked, payout, bank, sent, settled, asked, crashes>>

Verify(j) ==
    LET p == job[j].p
        known == KeyIsReference(p) IN
    /\ At(j, "verify")
    /\ \/ known /\ bank[p] = "paid" /\ Goto(j, "mark paid")
       \/ known /\ bank[p] = "failed" /\ Goto(j, "mark failed")
       \/ (known => bank[p] \notin {"paid", "failed"}) /\ job' = [job EXCEPT ![j] = Idle]
    /\ UNCHANGED <<funds, booked, payout, bank, sent, settled, asked, crashes>>

Crash ==
    /\ crashes < MaxCrashes
    /\ \E j \in Jobs : job[j] # Idle
    /\ job' = [j \in Jobs |-> Idle]
    /\ crashes' = crashes + 1
    /\ UNCHANGED <<funds, booked, payout, bank, sent, settled, asked>>

----------------------------------------------------------------------------
PayoutInit ==
    /\ funds = [user |-> Opening, merchant |-> MerchantOpening, payable |-> 0, clearing |-> 0]
    /\ booked = {}
    /\ payout = [p \in Payees |-> [status |-> "ABSENT", coded |-> FALSE, amount |-> 0]]
    /\ bank = [p \in Payees |-> "none"]
    /\ settled = [s \in Settlements |-> "ABSENT"]
    /\ sent = [p \in Payees |-> 0]
    /\ asked = {}
    /\ job = [j \in Jobs |-> Idle]
    /\ crashes = 0

DispatchStep(j) == Send(j) \/ Record(j) \/ MarkPaid(j) \/ PaySettlement(j)
                   \/ MarkFailed(j) \/ Reverse(j) \/ FailSettlement(j)

PayoutStep(j) == DebitUser(j) \/ CreatePayout(j) \/ DispatchStep(j) \/ Verify(j)

PayoutNext ==
    \/ \E j \in Jobs :
         \/ PayoutStep(j)
         \/ \E w \in Withdrawals : Withdraw(j, w)
         \/ \E p \in Payees : TransferEvent(j, p) \/ Reconcile(j, p)
    \/ \E p \in Payees : BankResolves(p)
    \/ Crash

PayoutSpec == PayoutInit /\ [][PayoutNext]_payoutVars

(* The event loop finishes what it started, the bank decides, and the      *)
(* sweep, on its timer, comes round to every payout still in flight        *)
(* whenever it is free.  Webhooks are not counted on.                      *)
PayoutFairness ==
    /\ \A j \in Jobs : WF_payoutVars(PayoutStep(j))
    /\ \A p \in Payees : /\ WF_payoutVars(BankResolves(p))
                         /\ SF_payoutVars(\E j \in Jobs : Reconcile(j, p))

FairPayoutSpec == PayoutSpec /\ PayoutFairness

----------------------------------------------------------------------------
(* Properties. *)

Ops == {"none", "withdraw", "webhook", "sweep", "execute", "manual", "cancel",
        "approve", "calculate", "reserve"}
Steps == {"idle", "debit", "create", "send", "record", "mark paid", "pay settlement",
          "mark failed", "reverse", "fail settlement", "verify", "mark processing",
          "settle paid", "settle failed", "read", "move", "write"}
Job == [op : Ops, step : Steps, p : Payees \cup {NoPayout},
        said : {"PROCESSING", "PAID", "FAILED"}, caught : BOOLEAN, read : Int,
        by : Staff \cup {Nobody}, seen : Staff \cup {Nobody}]

SettlementStatus == {"ABSENT", "ON_HOLD", "AWAITING_APPROVAL", "PENDING", "PROCESSING",
                     "PAID", "FAILED", "CANCELLED"}

Funds == [user : Int, merchant : Int, payable : Int, clearing : Int]

RowStatus == {"ABSENT", "PROCESSING", "PAID", "FAILED"}
Row == [status : RowStatus, coded : BOOLEAN, amount : Int]

BankStatus == {"none", "pending", "paid", "failed"}

(* Type correctness of the ledger, the rows, the bank and the jobs. *)
PayoutTypeOK ==
    /\ funds \in Funds
    /\ payout \in [Payees -> Row]
    /\ bank \in [Payees -> BankStatus]
    /\ settled \in [Settlements -> SettlementStatus]
    /\ sent \in [Payees -> Nat]
    /\ asked \subseteq Withdrawals
    /\ job \in [Jobs -> Job]
    /\ crashes \in 0 .. MaxCrashes

(* "Funds are debited from the ledger first (so the balance can't be spent *)
(* twice while a transfer is in flight)": whatever is retried, raced or    *)
(* cut off by a crash, the bank gets at most one transfer per idempotency  *)
(* key, and never one whose debit is not in the ledger.                    *)
OneTransferPerKey == \A p, q \in Payees :
    sent[p] > 0 => /\ sent[p] = 1 /\ DebitKey(p) \in booked
                   /\ sent[q] > 0 /\ DebitKey(q) = DebitKey(p) => p = q

(* "reversed if the gateway rejects it": money is given back only for a    *)
(* transfer the bank does not pay.                                         *)
RefundedIsNotPaid == \A p \in Payees : ReversalKey(p) \in booked => bank[p] # "paid"

Handled(p) == \A j \in Jobs : job[j].p # p

(* "A synchronous failure reverses the ledger immediately": once nothing   *)
(* works on a FAILED payout any more, its debit has been reversed.         *)
FailedIsReversed == \A p \in Payees :
    payout[p].status = "FAILED" /\ Handled(p) => ReversalKey(p) \in booked

Resolves(p) == (payout[p].status = "PROCESSING" /\ bank[p] # "none")
                  ~> payout[p].status \in {"PAID", "FAILED"}

(* "Runs on an interval so a missed webhook can't strand a payout": every  *)
(* payout taken by the bank reaches a final status without any webhook.    *)
EveryPayoutResolves == \A p \in Payees : Resolves(p)

(* The same of the payouts whose row key is the reference the bank knows.  *)
ReferencedPayoutResolves == \A p \in {q \in Payees : KeyIsReference(q)} : Resolves(p)
=============================================================================
