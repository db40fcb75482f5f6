---------------------------- MODULE Settlements ----------------------------
(***************************************************************************)
(* The settlement engine: what a business has earned is moved from its     *)
(* MERCHANT wallet to its SETTLEMENT_PAYABLE wallet, approved where the    *)
(* rule asks for it, paid out to a bank through Payouts, and its reserve   *)
(* given back later.  Staff requests, the due-run sweep and the reserve    *)
(* sweep run as jobs beside the payout jobs; each database statement is a  *)
(* step of its own.                                                        *)
(***************************************************************************)
EXTENDS Payouts, Functions

CONSTANTS
    Fee,            \* fees and tax taken off a settlement
    Reserve,        \* reserve held back from it
    ReserveDays,    \* how long; 0 is the default rule
    DualApproval,   \* the settlements whose rule has requiresDualApproval
    Asks,           \* amounts a settlement is asked for, besides "everything"
    MaxCancels,     \* how many cancel requests are made
    PlainRoute      \* whether POST /settlements of the pay routes is used

ASSUME SettlementAssumption ==
    /\ Fee \in Nat /\ Reserve \in Nat /\ ReserveDays \in Nat
    /\ DualApproval \subseteq Settlements /\ PlainRoute \in BOOLEAN
    /\ Asks \subseteq Nat \ {0} /\ MaxCancels \in Nat

(* A deployment has finitely many of each: what they add up to is a sum. *)
ASSUME SettlementsAreFinite ==
    IsFiniteSet(Withdrawals) /\ IsFiniteSet(Settlements) /\ IsFiniteSet(Jobs)

VARIABLES
    sheet,      \* the other columns of each Settlement row
    approvals,  \* who has approved each settlement (history)
    cancels     \* cancel requests so far

vars == <<funds, booked, payout, bank, sent, settled, asked, job, crashes,
          sheet, approvals, cancels>>

Blank == [gross |-> 0, net |-> 0, held |-> FALSE, destination |-> FALSE, approvedBy |-> Nobody]

ReleaseKey(s) == <<"reserve-release", s>>

End(j) == job' = [job EXCEPT ![j] = Idle]
Doing(j, op, step) == job[j].op = op /\ job[j].step = step

SetStatus(s, status) == settled' = [settled EXCEPT ![s] = status]

----------------------------------------------------------------------------
(* calculate, and createSettlement of the pay routes: read the balance,    *)
(* move the gross amount, create the row.                                  *)

(* The balance is read; an amount within it that leaves something to pay   *)
(* out is settled.  s is the id the row will get.                          *)
Calculate(j, s) ==
    /\ settled[s] = "ABSENT" /\ \A i \in Jobs : job[i].p # s
    /\ job[j] = Idle
    /\ \E gross \in Asks \cup {funds.merchant}, plain \in BOOLEAN :
         /\ gross \in 1 .. funds.merchant
         /\ IF plain THEN PlainRoute /\ gross = funds.merchant ELSE gross > Fee + Reserve
         /\ job' = [job EXCEPT ![j] = [Idle EXCEPT !.op = "calculate", !.step = "move",
                                       !.p = s, !.read = gross, !.caught = plain]]
    /\ UNCHANGED <<funds, booked, payout, bank, sent, settled, asked, crashes,
                   sheet, approvals, cancels>>

MoveToPayable(j) ==
    LET gross == job[j].read IN
    /\ Doing(j, "calculate", "move")
    /\ IF funds.merchant >= gross
       THEN /\ funds' = [funds EXCEPT !.merchant = @ - gross, !.payable = @ + gross]
            /\ Goto(j, "write")
       ELSE End(j) /\ UNCHANGED funds
    /\ UNCHANGED <<booked, payout, bank, sent, settled, asked, crashes,
                   sheet, approvals, cancels>>

CreateForNet(j) == \* mistake: the row records the net for the gross amount
    LET s == job[j].p
        gross == job[j].read
        plain == job[j].caught
        verdicts == IF plain THEN {"PENDING"}
                    ELSE {"ON_HOLD", "AWAITING_APPROVAL"} \cup (IF s \in DualApproval THEN {} ELSE {"PENDING"})
    IN  /\ Doing(j, "calculate", "write")
        /\ \E destination \in BOOLEAN, verdict \in verdicts :
             /\ plain => ~destination
             /\ SetStatus(s, IF destination \/ plain THEN verdict ELSE "ON_HOLD")
             /\ sheet' = [sheet EXCEPT ![s] =
                  [Blank EXCEPT !.gross = IF plain THEN gross ELSE gross - Fee - Reserve, !.net = IF plain THEN gross ELSE gross - Fee - Reserve,
                                !.held = ~plain /\ ReserveDays > 0, !.destination = destination]]
        /\ End(j)
        /\ UNCHANGED <<funds, booked, payout, bank, sent, asked, crashes, approvals, cancels>>

CreateNeverReleased(j) == \* mistake: no release date is set for the reserve
    LET s == job[j].p
        gross == job[j].read
        plain == job[j].caught
        verdicts == IF plain THEN {"PENDING"}
                    ELSE {"ON_HOLD", "AWAITING_APPROVAL"} \cup (IF s \in DualApproval THEN {} ELSE {"PENDING"})
    IN  /\ Doing(j, "calculate", "write")
        /\ \E destination \in BOOLEAN, verdict \in verdicts :
             /\ plain => ~destination
             /\ SetStatus(s, IF destination \/ plain THEN verdict ELSE "ON_HOLD")
             /\ sheet' = [sheet EXCEPT ![s] =
                  [Blank EXCEPT !.gross = gross, !.net = IF plain THEN gross ELSE gross - Fee - Reserve,
                                !.held = FALSE, !.destination = destination]]
        /\ End(j)
        /\ UNCHANGED <<funds, booked, payout, bank, sent, asked, crashes, approvals, cancels>>

(* Without a destination, or on a high risk score, the row is held; a rule *)
(* may ask for approval; the pay route sets nothing and gets the defaults. *)
CreateSettlement(j) ==
    LET s == job[j].p
        gross == job[j].read
        plain == job[j].caught
        verdicts == IF plain THEN {"PENDING"}
                    ELSE {"ON_HOLD", "AWAITING_APPROVAL"} \cup (IF s \in DualApproval THEN {} ELSE {"PENDING"})
    IN  /\ Doing(j, "calculate", "write")
        /\ \E destination \in BOOLEAN, verdict \in verdicts :
             /\ plain => ~destination
             /\ SetStatus(s, IF destination \/ plain THEN verdict ELSE "ON_HOLD")
             /\ sheet' = [sheet EXCEPT ![s] =
                  [Blank EXCEPT !.gross = gross, !.net = IF plain THEN gross ELSE gross - Fee - Reserve,
                                !.held = ~plain /\ ReserveDays > 0, !.destination = destination]]
        /\ End(j)
        /\ UNCHANGED <<funds, booked, payout, bank, sent, asked, crashes, approvals, cancels>>

----------------------------------------------------------------------------
(* approve: the row is read and checked, then written.                     *)

ApproveTwice(j, s, u) == \* mistake: the second approver may be the first
    /\ settled[s] \in {"AWAITING_APPROVAL", "ON_HOLD"}
    /\ job[j] = Idle
    /\ job' = [job EXCEPT ![j] = [Idle EXCEPT !.op = "approve", !.step = "write", !.p = s,
                                  !.by = u, !.seen = sheet[s].approvedBy]]
    /\ UNCHANGED <<funds, booked, payout, bank, sent, settled, asked, crashes,
                   sheet, approvals, cancels>>

Approve(j, s, u) ==
    /\ settled[s] \in {"AWAITING_APPROVAL", "ON_HOLD"}
    /\ s \in DualApproval => sheet[s].approvedBy # u
    /\ job[j] = Idle
    /\ job' = [job EXCEPT ![j] = [Idle EXCEPT !.op = "approve", !.step = "write", !.p = s,
                                  !.by = u, !.seen = sheet[s].approvedBy]]
    /\ UNCHANGED <<funds, booked, payout, bank, sent, settled, asked, crashes,
                   sheet, approvals, cancels>>

WriteApproval(j) ==
    LET s == job[j].p IN
    /\ Doing(j, "approve", "write")
    /\ IF s \in DualApproval /\ job[j].seen # Nobody
       THEN SetStatus(s, "PENDING") /\ UNCHANGED sheet
       ELSE /\ sheet' = [sheet EXCEPT ![s].approvedBy = job[j].by]
            /\ IF s \in DualApproval THEN UNCHANGED settled ELSE SetStatus(s, "PENDING")
    /\ approvals' = [approvals EXCEPT ![s] = @ \cup {job[j].by}]
    /\ End(j)
    /\ UNCHANGED <<funds, booked, payout, bank, sent, asked, crashes, cancels>>

(* cancel: anything but PAID; the gross amount goes back, without a key.   *)

Cancel(j, s) ==
    /\ cancels < MaxCancels /\ cancels' = cancels + 1
    /\ settled[s] \notin {"ABSENT", "PAID"}
    /\ Start(j, "cancel", "move", s)
    /\ UNCHANGED <<funds, booked, payout, bank, sent, settled, asked, crashes,
                   sheet, approvals>>

MoveBack(j) ==
    LET gross == sheet[job[j].p].gross IN
    /\ Doing(j, "cancel", "move")
    /\ funds' = [funds EXCEPT !.payable = @ - gross, !.merchant = @ + gross]
    /\ Goto(j, "write")
    /\ UNCHANGED <<booked, payout, bank, sent, settled, asked, crashes,
                   sheet, approvals, cancels>>

WriteCancelled(j) ==
    /\ Doing(j, "cancel", "write")
    /\ SetStatus(job[j].p, "CANCELLED")
    /\ End(j)
    /\ UNCHANGED <<funds, booked, payout, bank, sent, asked, crashes,
                   sheet, approvals, cancels>>

----------------------------------------------------------------------------
(* execute, by a user or by the due run: claim the row, pay it out through *)
(* disburseSettlement, write the outcome.  There may be no settlement      *)
(* account, or disburseSettlement may find it unusable.                    *)

Execute(j, s) ==
    /\ settled[s] = "PENDING"
    /\ SetStatus(s, "PROCESSING")
    /\ job[j] = Idle
    /\ \E step \in {"debit", "settle failed"} :
         /\ step = "debit" => sheet[s].destination
         /\ job' = [job EXCEPT ![j] = [Idle EXCEPT !.op = "execute", !.p = s,
                                       !.read = sheet[s].net, !.step = step]]
    /\ UNCHANGED <<funds, booked, payout, bank, sent, asked, crashes,
                   sheet, approvals, cancels>>

(* payoutSettlement: a user pays a PENDING settlement out by hand. *)
PayoutSettlement(j, s) ==
    /\ settled[s] = "PENDING" /\ ~Exists(s)
    /\ job[j] = Idle
    /\ job' = [job EXCEPT ![j] = [Idle EXCEPT !.op = "manual", !.p = s, !.read = sheet[s].net,
                                  !.step = "debit"]]
    /\ UNCHANGED <<funds, booked, payout, bank, sent, settled, asked, crashes,
                   sheet, approvals, cancels>>

(* Both debit the payable wallet under the settlement's key. *)
DebitPayable(j) ==
    LET s == job[j].p
        net == job[j].read IN
    /\ job[j].op \in {"execute", "manual"} /\ At(j, "debit")
    /\ IF DebitKey(s) \in booked THEN UNCHANGED <<funds, booked>>
       ELSE /\ funds' = [funds EXCEPT !.payable = @ - net, !.clearing = @ + net]
            /\ booked' = booked \cup {DebitKey(s)}
    /\ Goto(j, "create")
    /\ UNCHANGED <<payout, bank, sent, settled, asked, crashes, sheet, approvals, cancels>>

MarkProcessing(j) ==
    /\ At(j, "mark processing")
    /\ SetStatus(job[j].p, "PROCESSING")
    /\ Goto(j, "send")
    /\ UNCHANGED <<funds, booked, payout, bank, sent, asked, crashes,
                   sheet, approvals, cancels>>

WriteOutcome(j) ==
    /\ job[j].step \in {"settle paid", "settle failed"}
    /\ SetStatus(job[j].p, IF At(j, "settle paid") THEN "PAID" ELSE "FAILED")
    /\ End(j)
    /\ UNCHANGED <<funds, booked, payout, bank, sent, asked, crashes,
                   sheet, approvals, cancels>>

----------------------------------------------------------------------------
(* releaseMaturedReserves: PAID settlements whose reserveReleaseAt has     *)
(* passed; the release is keyed, then the date is cleared.                 *)

ReleaseReserve(j, s) ==
    /\ settled[s] = "PAID" /\ sheet[s].held /\ Reserve > 0
    /\ Start(j, "reserve", "move", s)
    /\ UNCHANGED <<funds, booked, payout, bank, sent, settled, asked, crashes,
                   sheet, approvals, cancels>>

MoveReserveAgain(j) == \* mistake: the release is posted without a key
    LET s == job[j].p IN
    /\ Doing(j, "reserve", "move")
    /\ funds' = [funds EXCEPT !.payable = @ - Reserve, !.merchant = @ + Reserve]
    /\ booked' = booked \cup {ReleaseKey(s)}
    /\ Goto(j, "write")
    /\ UNCHANGED <<payout, bank, sent, settled, asked, crashes, sheet, approvals, cancels>>

MoveReserve(j) ==
    LET s == job[j].p IN
    /\ Doing(j, "reserve", "move")
    /\ IF ReleaseKey(s) \in booked THEN UNCHANGED <<funds, booked>>
       ELSE /\ funds' = [funds EXCEPT !.payable = @ - Reserve, !.merchant = @ + Reserve]
            /\ booked' = booked \cup {ReleaseKey(s)}
    /\ Goto(j, "write")
    /\ UNCHANGED <<payout, bank, sent, settled, asked, crashes, sheet, approvals, cancels>>

ClearReserve(j) ==
    /\ Doing(j, "reserve", "write")
    /\ sheet' = [sheet EXCEPT ![job[j].p].held = FALSE]
    /\ End(j)
    /\ UNCHANGED <<funds, booked, payout, bank, sent, settled, asked, crashes,
                   approvals, cancels>>

----------------------------------------------------------------------------
Init == /\ PayoutInit
        /\ sheet = [s \in Settlements |-> Blank]
        /\ approvals = [s \in Settlements |-> {}]
        /\ cancels = 0

SettlementStep(j) ==
    \/ MoveToPayable(j) \/ CreateSettlement(j) \/ WriteApproval(j)
    \/ MoveBack(j) \/ WriteCancelled(j)
    \/ DebitPayable(j) \/ MarkProcessing(j) \/ WriteOutcome(j)
    \/ MoveReserve(j) \/ ClearReserve(j)

JobStep(j) == SettlementStep(j) \/ (PayoutStep(j) /\ UNCHANGED <<sheet, approvals, cancels>>)

Next ==
    \/ \E j \in Jobs : SettlementStep(j)
    \/ \E j \in Jobs, s \in Settlements :
         \/ Calculate(j, s) \/ Cancel(j, s) \/ Execute(j, s)
         \/ PayoutSettlement(j, s) \/ ReleaseReserve(j, s)
         \/ \E u \in Staff : Approve(j, s, u)
    \/ PayoutNext /\ UNCHANGED <<sheet, approvals, cancels>>

Spec == Init /\ [][Next]_vars

(* The event loop finishes every job, the bank decides every transfer (it  *)
(* gets at most one per payee), the payout sweep comes round to every      *)
(* payout in flight and the reserve sweep to what has matured.             *)
SettlementFairness ==
    /\ \A j \in Jobs : WF_vars(JobStep(j))
    /\ WF_vars((\E p \in Payees : BankResolves(p)) /\ UNCHANGED <<sheet, approvals, cancels>>)
    /\ \A p \in {q \in Payees : KeyIsReference(q)} :
         SF_vars((\E j \in Jobs : Reconcile(j, p)) /\ UNCHANGED <<sheet, approvals, cancels>>)
    /\ SF_vars(\E j \in Jobs, s \in Settlements : ReleaseReserve(j, s))

FairSpec == Spec /\ SettlementFairness

----------------------------------------------------------------------------
(* The same behaviours, watched by a history variable. *)

VARIABLE
    clean  \* so far no crash, no transfer declined in its answer, no answer lost

(* A transfer the gateway refused is one the bank never had: the answer to *)
(* one it has was lost.                                                    *)
Untroubled == /\ crashes = 0
              /\ \A j \in Jobs : /\ job[j].said # "FAILED"
                                 /\ job[j].caught => bank[job[j].p] = "none"

WatchedInit == Init /\ clean = TRUE
WatchedNext == Next /\ clean' = (clean /\ Untroubled')
WatchedSpec == WatchedInit /\ [][WatchedNext]_<<vars, clean>>

----------------------------------------------------------------------------
(* Properties. *)

(* "Dual approval needs two different people": where the rule asks for it, *)
(* no settlement is released for payment before two users approved it,     *)
(* however their requests overlap with each other and with cancellations.  *)
TwoApprovers == \A s \in DualApproval :
    settled[s] \in {"PENDING", "PROCESSING", "PAID"} => \E u, v \in approvals[s] : u # v

(* The reserve of a settlement recorded as paid goes back to the business  *)
(* in the end, unless the payout turns out to have failed: a reserve that  *)
(* is "simply lost to the business" is, for the release sweep, "the one    *)
(* outcome a reserve must never produce".                                  *)
ReserveReturned == \A s \in Settlements :
    (settled[s] = "PAID" /\ sheet[s].net < sheet[s].gross /\ Reserve > 0)
       ~> (ReleaseKey(s) \in booked \/ settled[s] # "PAID")

AtRest == /\ \A j \in Jobs : job[j] = Idle
          /\ \A p \in Payees : bank[p] # "pending" /\ payout[p].status # "PROCESSING"

(* When every execution has ended and the bank has decided every transfer  *)
(* it has, a customer is short of exactly what the bank paid out.          *)
BooksMatchBank == clean /\ AtRest =>
    funds.user = Opening - SumFunctionOnSet(Amount, {w \in Withdrawals : bank[w] = "paid"})

(* Where no answer was lost, money is given back only for a transfer the   *)
(* bank does not pay ("reversed if the gateway rejects it").               *)
RefundedWasNotPaid == clean => RefundedIsNotPaid

(* ... and "a synchronous failure reverses the ledger immediately".        *)
FailedWasReversed == clean => FailedIsReversed

Gross == [s \in Settlements |-> sheet[s].gross]
PaidOut == [s \in Settlements |-> payout[s].amount]
Made == {s \in Settlements : settled[s] # "ABSENT"}
Released == {s \in Settlements : ReleaseKey(s) \in booked}
AtTheBank == {s \in Settlements : bank[s] \in {"pending", "paid"}}

(* "The balance a business sees as available and what is queued to pay out *)
(* can never double-count": what the wallet shows and what the bank has    *)
(* been told to pay never add up to more than the business earned.  (With  *)
(* a cancellation it does not hold.)                                       *)
NeverDoubleCounted == funds.merchant + SumFunctionOnSet(PaidOut, AtTheBank) <= MerchantOpening
NoDoubleCount == cancels = 0 => NeverDoubleCounted

(* The money leaves the spendable balance "as the settlement is recorded,  *)
(* in one transaction": with no job running and none killed, what is       *)
(* missing from the wallet is what settlement rows account for.            *)
MoveIsRecorded == crashes = 0 /\ cancels = 0 /\ (\A j \in Jobs : job[j] = Idle) =>
    funds.merchant = MerchantOpening - SumFunctionOnSet(Gross, Made) + Reserve * Cardinality(Released)

Promised == INSTANCE Disbursements WITH
    Payouts <- Payees,
    DebitOf <- [p \in Payees |-> DebitKey(p)],
    debited <- {key \in booked : \E p \in Payees : key = DebitKey(p)},
    fate <- bank,
    refunded <- {p \in Payees : ReversalKey(p) \in booked}

(* Requests, retries, webhooks, sweeps, the engine and crashes together    *)
(* are a system that debits first ("the money is committed before we ask   *)
(* the bank to move it"), tells the bank of each debit once, and gives     *)
(* back last.                                                              *)
DisbursesAsPromised == Promised!Spec
=============================================================================
