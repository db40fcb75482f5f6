--------------------------- MODULE PayoutsProofs ---------------------------
(***************************************************************************)
(* The bank is given at most one transfer per withdrawal request key, for  *)
(* every set of requests, jobs, gateway answers and number of crashes.     *)
(*                                                                         *)
(* OneTransferPerKey is not inductive: what stops a second transfer is the *)
(* unique key of the Payout row, so Inv says that rows are unique, that a  *)
(* job about to send owns a row nothing has been sent for, that no two     *)
(* jobs are about to send for one row, and that a job past the ledger      *)
(* debit has its debit booked.                                             *)
(***************************************************************************)
EXTENDS Payouts, TLAPS

Sending(j) == job[j].step \in {"send", "mark processing"}

JobsOK == \A j \in Jobs :
    /\ job[j].step # "idle" => job[j].p \in Payees
    /\ job[j].op = "withdraw" => job[j].p \in Withdrawals
    /\ job[j].step = "create" => DebitKey(job[j].p) \in booked
    /\ Sending(j) => Exists(job[j].p) /\ sent[job[j].p] = 0
    /\ job[j].step = "record" => Exists(job[j].p)

OneSender == \A i, j \in Jobs : Sending(i) /\ Sending(j) /\ job[i].p = job[j].p => i = j

RowsUnique == \A p, q \in Payees : Exists(p) /\ Exists(q) /\ RowKey(p) = RowKey(q) => p = q

RowsDebited == \A p \in Payees : Exists(p) => DebitKey(p) \in booked

SentOnce == \A p \in Payees : sent[p] > 0 => sent[p] = 1 /\ Exists(p)

Safe == JobsOK /\ OneSender /\ RowsUnique /\ RowsDebited /\ SentOnce

Inv == PayoutTypeOK /\ Safe

----------------------------------------------------------------------------
(* Requests whose debits share a ledger key would share a row. *)
LEMMA SameDebitSameRow ==
    ASSUME NEW p \in Payees, NEW q \in Payees, DebitKey(p) = DebitKey(q)
    PROVE  RowKey(p) = RowKey(q)
<1>1. p \in Settlements <=> q \in Settlements
  BY DEF DebitKey
<1>2. CASE p \in Settlements
  BY <1>1, <1>2, PayoutAssumption DEF DebitKey, RowKey
<1>3. CASE p \notin Settlements
  BY <1>1, <1>3, PayoutAssumption DEF DebitKey, RowKey, Payees
<1> QED
  BY <1>2, <1>3

LEMMA SafeSuffices == ASSUME Inv PROVE OneTransferPerKey
<1>1. ASSUME NEW p \in Payees, NEW q \in Payees, sent[p] > 0
      PROVE  /\ sent[p] = 1 /\ DebitKey(p) \in booked
             /\ sent[q] > 0 /\ DebitKey(q) = DebitKey(p) => p = q
  <2>1. sent[p] = 1 /\ DebitKey(p) \in booked
    BY <1>1 DEF Inv, Safe, SentOnce, RowsDebited
  <2>2. ASSUME sent[q] > 0, DebitKey(q) = DebitKey(p) PROVE p = q
    <3>1. RowKey(p) = RowKey(q)
      BY <2>2, SameDebitSameRow
    <3> QED
      BY <1>1, <2>2, <3>1 DEF Inv, Safe, SentOnce, RowsUnique
  <2> QED
    BY <2>1, <2>2
<1> QED
  BY <1>1 DEF OneTransferPerKey

----------------------------------------------------------------------------
LEMMA InitInv == PayoutInit => Inv
<1> SUFFICES ASSUME PayoutInit PROVE Inv
  OBVIOUS
<1>1. Opening \in Nat /\ MerchantOpening \in Nat /\ MaxCrashes \in Nat
  BY Zenon, PayoutAssumption
<1>2. Idle \in Job /\ Idle.step = "idle" /\ Idle.op = "none"
  BY DEF Idle, Job, Ops, Steps
<1>3. job = [j \in Jobs |-> Idle]
  BY DEF PayoutInit
<1>4. PayoutTypeOK
  <2>1. funds \in Funds
    BY <1>1 DEF PayoutInit, Funds
  <2>2. payout \in [Payees -> Row]
    BY DEF PayoutInit, Row, RowStatus
  <2>3. bank \in [Payees -> BankStatus] /\ sent \in [Payees -> Nat]
    BY DEF PayoutInit, BankStatus
  <2>4. settled \in [Settlements -> SettlementStatus] /\ asked \subseteq Withdrawals
    BY DEF PayoutInit, SettlementStatus
  <2>5. job \in [Jobs -> Job]
    BY <1>2, <1>3
  <2>6. crashes \in 0 .. MaxCrashes
    BY <1>1 DEF PayoutInit
  <2> QED
    BY <2>1, <2>2, <2>3, <2>4, <2>5, <2>6 DEF PayoutTypeOK
<1>5. \A j \in Jobs : job[j].step = "idle" /\ job[j].op = "none"
  BY <1>2, <1>3
<1>6. \A p \in Payees : ~Exists(p) /\ ~(sent[p] > 0)
  BY DEF Exists, PayoutInit
<1>7. JobsOK /\ OneSender
  BY <1>5 DEF JobsOK, OneSender, Sending
<1>8. RowsUnique /\ RowsDebited /\ SentOnce
  BY <1>6 DEF RowsUnique, RowsDebited, SentOnce
<1> QED
  BY <1>4, <1>7, <1>8 DEF Inv, Safe

----------------------------------------------------------------------------
(* Type correctness, action by action. *)

LEMMA JobFields ==
    ASSUME PayoutTypeOK, NEW j \in Jobs
    PROVE  /\ job \in [Jobs -> Job] /\ job[j] \in Job
           /\ \A s \in Steps : [job[j] EXCEPT !.step = s] \in Job
  BY DEF PayoutTypeOK, Job

LEMMA IdleType == Idle \in Job /\ Idle.step = "idle" /\ Idle.op = "none"
  BY DEF Idle, Job, Ops, Steps

LEMMA StartType ==
    ASSUME PayoutTypeOK, NEW j \in Jobs, NEW op \in Ops, NEW s \in Steps, NEW p \in Payees,
           Start(j, op, s, p)
    PROVE  job' \in [Jobs -> Job]
<1>1. [Idle EXCEPT !.op = op, !.step = s, !.p = p] \in Job
  BY IdleType DEF Job
<1> QED
  BY <1>1, JobFields DEF Start

LEMMA FinishType ==
    ASSUME PayoutTypeOK, NEW j \in Jobs, Finish(j)
    PROVE  job' \in [Jobs -> Job]
<1>1. "settle failed" \in Steps /\ "settle paid" \in Steps
  BY DEF Steps
<1>2. /\ [job[j] EXCEPT !.step = "settle failed"] \in Job
      /\ [job[j] EXCEPT !.step = "settle paid"] \in Job
  BY <1>1, JobFields
<1>3. job' = [job EXCEPT ![j] = IF job[j].op = "execute"
                 THEN [job[j] EXCEPT !.step = IF job[j].caught THEN "settle failed" ELSE "settle paid"]
                 ELSE Idle]
  BY JobFields DEF Finish
<1> QED
  BY <1>2, <1>3, JobFields, IdleType

LEMMA GotoType ==
    ASSUME PayoutTypeOK, NEW j \in Jobs, NEW s \in Steps, Goto(j, s)
    PROVE  job' \in [Jobs -> Job]
<1>1. job' = [job EXCEPT ![j] = [job[j] EXCEPT !.step = s]]
  BY JobFields DEF Goto, Job
<1> QED
  BY <1>1, JobFields

LEMMA EndType ==
    ASSUME PayoutTypeOK, NEW j \in Jobs, job' = [job EXCEPT ![j] = Idle]
    PROVE  job' \in [Jobs -> Job]
  BY JobFields, IdleType

LEMMA RowType ==
    ASSUME PayoutTypeOK, NEW p \in Payees
    PROVE  /\ payout \in [Payees -> Row] /\ payout[p] \in Row /\ payout[p].amount \in Int
           /\ \A s \in RowStatus : [payout[p] EXCEPT !.status = s] \in Row
           /\ \A s \in RowStatus : [payout[p] EXCEPT !.status = s, !.coded = TRUE] \in Row
  BY DEF PayoutTypeOK, Row

LEMMA PutRow ==
    ASSUME PayoutTypeOK, NEW p \in Payees, NEW r \in Row, payout' = [payout EXCEPT ![p] = r]
    PROVE  payout' \in [Payees -> Row]
  BY DEF PayoutTypeOK

LEMMA FundsType ==
    ASSUME funds \in Funds, NEW n \in Int
    PROVE  /\ [funds EXCEPT !.user = funds.user - n, !.clearing = funds.clearing + n] \in Funds
           /\ [funds EXCEPT !.clearing = funds.clearing - n, !.user = funds.user + n] \in Funds
           /\ [funds EXCEPT !.clearing = funds.clearing - n, !.payable = funds.payable + n] \in Funds
<1>1. /\ funds.user - n \in Int /\ funds.user + n \in Int /\ funds.payable + n \in Int
      /\ funds.clearing - n \in Int /\ funds.clearing + n \in Int
  BY DEF Funds
<1>2. \A x, y \in Int : /\ [funds EXCEPT !.user = x, !.clearing = y] \in Funds
                        /\ [funds EXCEPT !.clearing = x, !.user = y] \in Funds
                        /\ [funds EXCEPT !.clearing = x, !.payable = y] \in Funds
  BY DEF Funds
<1> QED
  BY <1>1, <1>2

LEMMA TypeStep == ASSUME Inv, PayoutNext PROVE PayoutTypeOK'
<1> PayoutTypeOK /\ Safe
  BY DEF Inv
<1>1. /\ funds \in Funds
      /\ payout \in [Payees -> Row]
      /\ bank \in [Payees -> BankStatus] /\ sent \in [Payees -> Nat]
      /\ settled \in [Settlements -> SettlementStatus] /\ asked \subseteq Withdrawals
      /\ crashes \in 0 .. MaxCrashes
  BY DEF PayoutTypeOK
<1>2. \A w \in Withdrawals : Amount[w] \in Nat
  BY Zenon, PayoutAssumption
<1>3. \A s \in {"idle", "debit", "create", "send", "record", "mark paid", "pay settlement",
               "mark failed", "reverse", "fail settlement", "verify", "mark processing",
               "settle paid", "settle failed"} : s \in Steps
  BY DEF Steps
<1>4. {"withdraw", "webhook", "sweep"} \subseteq Ops
  BY DEF Ops
<1>5. \A j \in Jobs : job[j].step # "idle" => job[j].p \in Payees
  BY DEF Safe, JobsOK
<1>6. Withdrawals \subseteq Payees
  BY DEF Payees
<1>10. ASSUME NEW j \in Jobs, NEW w \in Withdrawals, Withdraw(j, w) PROVE PayoutTypeOK'
  <2>1. job' \in [Jobs -> Job]
    BY <1>3, <1>4, <1>6, <1>10, StartType DEF Withdraw
  <2> QED
    BY <1>1, <1>10, <2>1 DEF Withdraw, PayoutTypeOK
<1>11. ASSUME NEW j \in Jobs, DebitUser(j) PROVE PayoutTypeOK'
  <2>1. job' \in [Jobs -> Job]
    BY <1>3, <1>11, GotoType, EndType DEF DebitUser
  <2>2. Amount[job[j].p] \in Int
    BY <1>2, <1>11 DEF DebitUser, Safe, JobsOK
  <2>3. \/ funds' = funds
        \/ funds' = [funds EXCEPT !.user = funds.user - Amount[job[j].p],
                                  !.clearing = funds.clearing + Amount[job[j].p]]
    BY <1>11 DEF DebitUser
  <2>4. funds' \in Funds
    BY <1>1, <2>2, <2>3, FundsType
  <2> QED
    BY <1>1, <1>11, <2>1, <2>4 DEF DebitUser, PayoutTypeOK
<1>12. ASSUME NEW j \in Jobs, CreatePayout(j) PROVE PayoutTypeOK'
  <2>1. job' \in [Jobs -> Job]
    BY <1>3, <1>12, GotoType, EndType DEF CreatePayout
  <2>2. job[j].p \in Payees /\ job[j].read \in Int
    BY <1>5, <1>12, JobFields DEF CreatePayout, At, Job
  <2> DEFINE amount == IF job[j].p \in Withdrawals THEN Amount[job[j].p] ELSE job[j].read
  <2>3. amount \in Int
    BY <1>2, <2>2
  <2>4. \/ payout' = payout
        \/ payout' = [payout EXCEPT ![job[j].p] =
                        [status |-> "PROCESSING", coded |-> FALSE, amount |-> amount]]
    BY <1>12 DEF CreatePayout
  <2> HIDE DEF amount
  <2>5. payout' \in [Payees -> Row]
    <3>1. [status |-> "PROCESSING", coded |-> FALSE, amount |-> amount] \in Row
      BY <2>3 DEF Row, RowStatus
    <3> QED
      BY <1>1, <2>2, <2>4, <3>1, PutRow
  <2> QED
    BY <1>1, <1>12, <2>1, <2>5 DEF CreatePayout, PayoutTypeOK
<1>13. ASSUME NEW j \in Jobs, Send(j) PROVE PayoutTypeOK'
  <2>1. job[j] \in Job /\ "mark failed" \in Steps /\ "record" \in Steps
    BY JobFields DEF Steps
  <2>2. PICK a \in GatewayAnswers :
          /\ bank' = [bank EXCEPT ![job[j].p] = CASE a = "pays" -> "paid"
                                                  [] a = "declines" -> "failed"
                                                  [] a = "errors" -> bank[job[j].p]
                                                  [] OTHER -> "pending"]
          /\ sent' = IF a = "errors" THEN sent ELSE [sent EXCEPT ![job[j].p] = @ + 1]
          /\ job' = [job EXCEPT ![j] =
               IF a \in {"errors", "times out"}
               THEN [@ EXCEPT !.step = "mark failed", !.caught = TRUE]
               ELSE [@ EXCEPT !.step = "record",
                              !.said = CASE a = "pays" -> "PAID" [] a = "declines" -> "FAILED"
                                         [] OTHER -> "PROCESSING"]]
    BY <1>13 DEF Send
  <2>3. [job[j] EXCEPT !.step = "mark failed", !.caught = TRUE] \in Job
    BY <2>1 DEF Job
  <2>4. \A said \in {"PROCESSING", "PAID", "FAILED"} :
          [job[j] EXCEPT !.step = "record", !.said = said] \in Job
    BY <2>1 DEF Job
  <2>5. job' \in [Jobs -> Job]
    BY <2>2, <2>3, <2>4, JobFields
  <2>6. job[j].p \in Payees
    BY <1>5, <1>13 DEF Send, At
  <2>7. bank' \in [Payees -> BankStatus]
    <3>1. PICK b \in BankStatus : bank' = [bank EXCEPT ![job[j].p] = b]
      BY <1>1, <2>2, <2>6 DEF BankStatus
    <3> QED
      BY <1>1, <3>1
  <2>8. sent' \in [Payees -> Nat]
    <3>1. sent' = sent \/ sent' = [sent EXCEPT ![job[j].p] = sent[job[j].p] + 1]
      BY <2>2
    <3>2. sent[job[j].p] + 1 \in Nat
      BY <1>1, <2>6
    <3> QED
      BY <1>1, <3>1, <3>2
  <2> QED
    BY <1>1, <1>13, <2>5, <2>7, <2>8 DEF Send, PayoutTypeOK
<1>14. ASSUME NEW j \in Jobs, Record(j) PROVE PayoutTypeOK'
  <2>1. job' \in [Jobs -> Job]
    BY <1>3, <1>14, GotoType, FinishType DEF Record
  <2>2. job[j].p \in Payees /\ job[j].said \in {"PROCESSING", "PAID", "FAILED"}
    BY <1>5, <1>14, JobFields DEF Record, At, Job
  <2>3. payout' \in [Payees -> Row]
    <3>1. payout' = [payout EXCEPT ![job[j].p] =
                        [payout[job[j].p] EXCEPT !.status = job[j].said, !.coded = TRUE]]
      BY <1>14 DEF Record
    <3>2. job[j].said \in RowStatus
      BY <2>2 DEF RowStatus
    <3> QED
      BY <2>2, <3>1, <3>2, RowType, PutRow
  <2> QED
    BY <1>1, <1>14, <2>1, <2>3 DEF Record, PayoutTypeOK
<1>15. ASSUME NEW j \in Jobs, MarkPaid(j) PROVE PayoutTypeOK'
  <2>1. job' \in [Jobs -> Job]
    BY <1>3, <1>15, GotoType, FinishType DEF MarkPaid
  <2>2. payout' \in [Payees -> Row]
    <3>1. job[j].p \in Payees
      BY <1>5, <1>15 DEF MarkPaid, At
    <3>2. \/ payout' = payout
          \/ payout' = [payout EXCEPT ![job[j].p] = [payout[job[j].p] EXCEPT !.status = "PAID"]]
      BY <1>15 DEF MarkPaid
    <3>3. "PAID" \in RowStatus
      BY DEF RowStatus
    <3> QED
      BY <1>1, <3>1, <3>2, <3>3, RowType, PutRow
  <2> QED
    BY <1>1, <1>15, <2>1, <2>2 DEF MarkPaid, PayoutTypeOK
<1>16. ASSUME NEW j \in Jobs, PaySettlement(j) PROVE PayoutTypeOK'
  <2>1. job' \in [Jobs -> Job]
    BY <1>16, FinishType DEF PaySettlement
  <2>2. settled' \in [Settlements -> SettlementStatus]
    BY <1>1, <1>16 DEF PaySettlement, SettlementStatus
  <2> QED
    BY <1>1, <1>16, <2>1, <2>2 DEF PaySettlement, PayoutTypeOK
<1>17. ASSUME NEW j \in Jobs, MarkFailed(j) PROVE PayoutTypeOK'
  <2>1. job' \in [Jobs -> Job]
    BY <1>3, <1>17, GotoType, FinishType DEF MarkFailed
  <2>2. payout' \in [Payees -> Row]
    <3>1. job[j].p \in Payees
      BY <1>5, <1>17 DEF MarkFailed, At
    <3>2. \/ payout' = payout
          \/ payout' = [payout EXCEPT ![job[j].p] = [payout[job[j].p] EXCEPT !.status = "FAILED"]]
      BY <1>17 DEF MarkFailed
    <3>3. "FAILED" \in RowStatus
      BY DEF RowStatus
    <3> QED
      BY <1>1, <3>1, <3>2, <3>3, RowType, PutRow
  <2> QED
    BY <1>1, <1>17, <2>1, <2>2 DEF MarkFailed, PayoutTypeOK
<1>18. ASSUME NEW j \in Jobs, Reverse(j) PROVE PayoutTypeOK'
  <2>1. job' \in [Jobs -> Job]
    BY <1>3, <1>18, GotoType DEF Reverse
  <2>2. job[j].p \in Payees
    BY <1>5, <1>18 DEF Reverse, At
  <2>3. payout[job[j].p].amount \in Int
    BY <2>2, RowType
  <2>4. funds' \in Funds
    <3> DEFINE n == payout[job[j].p].amount
    <3>1. \/ funds' = funds
          \/ funds' = [funds EXCEPT !.clearing = funds.clearing - n, !.user = funds.user + n]
          \/ funds' = [funds EXCEPT !.clearing = funds.clearing - n, !.payable = funds.payable + n]
      BY <1>18 DEF Reverse
    <3>2. n \in Int
      BY <2>3
    <3> HIDE DEF n
    <3> QED
      BY <1>1, <3>1, <3>2, FundsType
  <2> QED
    BY <1>1, <1>18, <2>1, <2>4 DEF Reverse, PayoutTypeOK
<1>19. ASSUME NEW j \in Jobs, FailSettlement(j) PROVE PayoutTypeOK'
  <2>1. job' \in [Jobs -> Job]
    BY <1>19, FinishType DEF FailSettlement
  <2>2. settled' \in [Settlements -> SettlementStatus]
    BY <1>1, <1>19 DEF FailSettlement, SettlementStatus
  <2> QED
    BY <1>1, <1>19, <2>1, <2>2 DEF FailSettlement, PayoutTypeOK
<1>20. ASSUME NEW j \in Jobs, Verify(j) PROVE PayoutTypeOK'
  <2>1. job' \in [Jobs -> Job]
    BY <1>3, <1>20, GotoType, EndType DEF Verify
  <2> QED
    BY <1>1, <1>20, <2>1 DEF Verify, PayoutTypeOK
<1>21. ASSUME NEW j \in Jobs, NEW p \in Payees, TransferEvent(j, p) \/ Reconcile(j, p)
       PROVE  PayoutTypeOK'
  <2>1. job' \in [Jobs -> Job]
    BY <1>3, <1>4, <1>21, StartType DEF TransferEvent, Reconcile
  <2> QED
    BY <1>1, <1>21, <2>1 DEF TransferEvent, Reconcile, PayoutTypeOK
<1>22. ASSUME NEW p \in Payees, BankResolves(p) PROVE PayoutTypeOK'
  <2>1. bank' \in [Payees -> BankStatus]
    BY <1>1, <1>22 DEF BankResolves, BankStatus
  <2> QED
    BY <1>1, <1>22, <2>1 DEF BankResolves, PayoutTypeOK
<1>23. ASSUME Crash PROVE PayoutTypeOK'
  <2>1. job' \in [Jobs -> Job]
    BY <1>23, IdleType DEF Crash
  <2>2. MaxCrashes \in Nat
    BY Zenon, PayoutAssumption
  <2>3. crashes' \in 0 .. MaxCrashes
    BY <1>1, <1>23, <2>2 DEF Crash
  <2> QED
    BY <1>1, <1>23, <2>1, <2>3 DEF Crash, PayoutTypeOK
<1> QED
  BY <1>10, <1>11, <1>12, <1>13, <1>14, <1>15, <1>16, <1>17, <1>18, <1>19, <1>20, <1>21,
     <1>22, <1>23 DEF PayoutNext, PayoutStep, DispatchStep
----------------------------------------------------------------------------
(* Where a step takes a job. *)

Others(j) == \A i \in Jobs \ {j} : job'[i] = job[i]

LEMMA GotoJob ==
    ASSUME PayoutTypeOK, NEW j \in Jobs, NEW s, Goto(j, s)
    PROVE  Others(j) /\ job'[j].step = s /\ job'[j].p = job[j].p /\ job'[j].op = job[j].op
<1>1. job' = [job EXCEPT ![j] = [job[j] EXCEPT !.step = s]]
  BY JobFields DEF Goto, Job
<1>2. job'[j] = [job[j] EXCEPT !.step = s] /\ Others(j)
  BY <1>1, JobFields DEF Others
<1>3. job[j] \in Job
  BY JobFields
<1> QED
  BY <1>2, <1>3 DEF Job

LEMMA EndJob ==
    ASSUME PayoutTypeOK, NEW j \in Jobs, job' = [job EXCEPT ![j] = Idle]
    PROVE  Others(j) /\ job'[j] = Idle
  BY JobFields DEF Others

LEMMA FinishJob ==
    ASSUME PayoutTypeOK, NEW j \in Jobs, Finish(j)
    PROVE  /\ Others(j)
           /\ \/ job'[j] = Idle
              \/ /\ job'[j].p = job[j].p /\ job'[j].op = job[j].op
                 /\ job'[j].step \in {"settle failed", "settle paid"}
<1>1. job' = [job EXCEPT ![j] = IF job[j].op = "execute"
                 THEN [job[j] EXCEPT !.step = IF job[j].caught THEN "settle failed" ELSE "settle paid"]
                 ELSE Idle]
  BY JobFields DEF Finish
<1>2. Others(j)
  BY <1>1, JobFields DEF Others
<1>3. \/ job'[j] = Idle
      \/ job'[j] = [job[j] EXCEPT !.step = "settle failed"]
      \/ job'[j] = [job[j] EXCEPT !.step = "settle paid"]
  BY <1>1, JobFields
<1>4. job[j] \in Job
  BY JobFields
<1> QED
  BY <1>2, <1>3, <1>4 DEF Job

LEMMA StartJob ==
    ASSUME PayoutTypeOK, NEW j \in Jobs, NEW op, NEW s, NEW p, Start(j, op, s, p)
    PROVE  Others(j) /\ job'[j].step = s /\ job'[j].p = p /\ job'[j].op = op
<1>1. job'[j] = [Idle EXCEPT !.op = op, !.step = s, !.p = p] /\ Others(j)
  BY JobFields DEF Start, Others
<1> QED
  BY <1>1 DEF Idle

----------------------------------------------------------------------------
(* A step that creates no row and sends nothing is quiet: it preserves     *)
(* Safe as long as every job it moves lands where Safe asks little of it.  *)

Lands(i) ==
    /\ job'[i].step \notin {"send", "mark processing", "record"}
    /\ job'[i].step # "idle" => job'[i].p \in Payees
    /\ job'[i].op = "withdraw" => job'[i].p \in Withdrawals
    /\ job'[i].step = "create" => DebitKey(job'[i].p) \in booked'

Quiet ==
    /\ booked \subseteq booked' /\ sent' = sent
    /\ \A p \in Payees : payout'[p].status = "ABSENT" <=> payout[p].status = "ABSENT"
    /\ \A i \in Jobs : job'[i] = job[i] \/ Lands(i)

LEMMA QuietStep == ASSUME Safe, Quiet PROVE Safe'
<1>1. \A p \in Payees : Exists(p)' <=> Exists(p)
  BY DEF Quiet, Exists
<1>2. JobsOK'
  <2> SUFFICES ASSUME NEW j \in Jobs
               PROVE  /\ job'[j].step # "idle" => job'[j].p \in Payees
                      /\ job'[j].op = "withdraw" => job'[j].p \in Withdrawals
                      /\ job'[j].step = "create" => DebitKey(job'[j].p) \in booked'
                      /\ job'[j].step \in {"send", "mark processing"}
                            => payout'[job'[j].p].status # "ABSENT" /\ sent'[job'[j].p] = 0
                      /\ job'[j].step = "record" => payout'[job'[j].p].status # "ABSENT"
    BY DEF JobsOK, Sending, Exists, DebitKey
  <2>1. CASE job'[j] = job[j]
    BY <2>1 DEF Safe, JobsOK, Sending, Quiet, Exists
  <2>2. CASE Lands(j)
    BY <2>2 DEF Lands
  <2> QED
    BY <2>1, <2>2 DEF Quiet
<1>3. OneSender'
  BY DEF Safe, OneSender, Sending, Quiet, Lands
<1>4. RowsUnique'
  BY <1>1 DEF Safe, RowsUnique, RowKey
<1>5. RowsDebited'
  BY <1>1 DEF Safe, RowsDebited, Quiet, DebitKey
<1>6. SentOnce'
  BY <1>1 DEF Safe, SentOnce, Quiet
<1> QED
  BY <1>2, <1>3, <1>4, <1>5, <1>6 DEF Safe

----------------------------------------------------------------------------
(* Safety, action by action: all but two of them are quiet. *)

LEMMA Settled ==
    ASSUME NEW j \in Jobs, Others(j), Lands(j), booked \subseteq booked', sent' = sent,
           \A p \in Payees : payout'[p].status = "ABSENT" <=> payout[p].status = "ABSENT"
    PROVE  Quiet
  BY DEF Quiet, Others

LEMMA LandsIdle == ASSUME NEW j \in Jobs, job'[j] = Idle PROVE Lands(j)
  BY IdleType DEF Lands

(* A job that only goes on to a step of little consequence. *)
LEMMA Advance ==
    ASSUME PayoutTypeOK, Safe, NEW j \in Jobs, job[j].step # "idle",
           \/ Finish(j)
           \/ job' = [job EXCEPT ![j] = Idle]
           \/ \E s \in {"mark paid", "pay settlement", "mark failed", "reverse",
                       "fail settlement", "settle failed"} : Goto(j, s)
    PROVE  Others(j) /\ Lands(j)
<1>1. job[j].p \in Payees /\ (job[j].op = "withdraw" => job[j].p \in Withdrawals)
  BY DEF Safe, JobsOK
<1>2. CASE Finish(j)
  BY <1>1, <1>2, FinishJob, LandsIdle DEF Lands
<1>3. CASE job' = [job EXCEPT ![j] = Idle]
  BY <1>3, EndJob, LandsIdle
<1>4. ASSUME NEW s \in {"mark paid", "pay settlement", "mark failed", "reverse",
                       "fail settlement", "settle failed"}, Goto(j, s)
      PROVE  Others(j) /\ Lands(j)
  BY <1>1, <1>4, GotoJob DEF Lands
<1> QED
  BY <1>2, <1>3, <1>4

LEMMA NatZero == \A m \in Nat : ~(m > 0) => m = 0
  OBVIOUS

LEMMA CreateStep == ASSUME PayoutTypeOK, Safe, NEW j \in Jobs, CreatePayout(j) PROVE Safe'
<1> DEFINE p == job[j].p
<1>1. /\ p \in Payees /\ DebitKey(p) \in booked /\ job[j].step = "create"
      /\ (job[j].op = "withdraw" => p \in Withdrawals) /\ booked' = booked /\ sent' = sent
  BY DEF Safe, JobsOK, CreatePayout, At
<1>2. CASE payout' = payout /\ (Goto(j, "settle failed") \/ job' = [job EXCEPT ![j] = Idle])
  <2>1. Others(j) /\ Lands(j)
    BY <1>1, <1>2, Advance
  <2> QED
    BY <1>1, <1>2, <2>1, Settled, QuietStep
<1>3. ASSUME NEW n, NEW s \in {"mark processing", "send"},
             ~\E q \in Payees : Exists(q) /\ RowKey(q) = RowKey(p),
             payout' = [payout EXCEPT ![p] = [status |-> "PROCESSING", coded |-> FALSE, amount |-> n]],
             Goto(j, s)
      PROVE  Safe'
  <2>1. /\ Others(j) /\ job'[j].step = s /\ job'[j].p = p /\ job'[j].op = job[j].op
    BY <1>3, GotoJob
  <2>2. /\ payout'[p].status = "PROCESSING"
        /\ \A q \in Payees : q # p => payout'[q] = payout[q]
    BY <1>1, <1>3, RowType
  <2>3. ~Exists(p) /\ sent[p] = 0
    <3>1. ~Exists(p)
      BY <1>1, <1>3
    <3>2. sent[p] \in Nat /\ ~(sent[p] > 0)
      BY <1>1, <3>1 DEF Safe, SentOnce, PayoutTypeOK
    <3> HIDE DEF p
    <3>3. sent[p] = 0
      BY <3>2, NatZero
    <3> QED
      BY <3>1, <3>3
  <2>4. \A q \in Payees : Exists(q)' <=> Exists(q) \/ q = p
    BY <2>2 DEF Exists
  <2>5. \A i \in Jobs : i # j => job'[i] = job[i]
    BY <2>1 DEF Others
  <2> HIDE DEF p
  <2>6. JobsOK'
    <3> SUFFICES ASSUME NEW i \in Jobs
                 PROVE  /\ job'[i].step # "idle" => job'[i].p \in Payees
                        /\ job'[i].op = "withdraw" => job'[i].p \in Withdrawals
                        /\ job'[i].step = "create" => DebitKey(job'[i].p) \in booked'
                        /\ job'[i].step \in {"send", "mark processing"}
                              => payout'[job'[i].p].status # "ABSENT" /\ sent'[job'[i].p] = 0
                        /\ job'[i].step = "record" => payout'[job'[i].p].status # "ABSENT"
      BY DEF JobsOK, Sending, Exists, DebitKey
    <3>1. CASE i = j
      BY <1>1, <2>1, <2>2, <2>3, <3>1 DEF p
    <3>2. CASE i # j
      BY <1>1, <2>4, <2>5, <3>2 DEF Safe, JobsOK, Sending, Exists
    <3> QED
      BY <3>1, <3>2
  <2>7. OneSender'
    <3>1. \A i \in Jobs : i # j /\ Sending(i) => job[i].p # p
      BY <2>3 DEF Safe, JobsOK
    <3> QED
      BY <2>1, <2>5, <3>1 DEF Safe, OneSender, Sending
  <2>8. RowsUnique'
    <3>1. \A q \in Payees : Exists(q) => RowKey(q) # RowKey(p)
      BY <1>3 DEF p
    <3>2. \A q, r \in Payees : Exists(q)' /\ Exists(r)' /\ RowKey(q) = RowKey(r) => q = r
      BY <2>4, <3>1 DEF Safe, RowsUnique
    <3> QED
      BY <3>2 DEF RowsUnique, RowKey
  <2>9. RowsDebited'
    BY <1>1, <2>4 DEF Safe, RowsDebited, DebitKey, p
  <2>10. SentOnce'
    BY <1>1, <2>4 DEF Safe, SentOnce
  <2> QED
    BY <2>6, <2>7, <2>8, <2>9, <2>10 DEF Safe
<1> QED
  BY <1>2, <1>3 DEF CreatePayout

LEMMA SendStep == ASSUME PayoutTypeOK, Safe, NEW j \in Jobs, Send(j) PROVE Safe'
<1> DEFINE p == job[j].p
<1>1. p \in Payees /\ Exists(p) /\ sent[p] = 0 /\ Sending(j)
  BY DEF Safe, JobsOK, Send, At, Sending
<1>2. booked' = booked /\ payout' = payout
  BY DEF Send
<1>3. sent' = sent \/ sent' = [sent EXCEPT ![p] = sent[p] + 1]
  BY DEF Send
<1>4. /\ \A q \in Payees : q # p => sent'[q] = sent[q]
      /\ sent'[p] \in {0, 1}
  BY <1>1, <1>3 DEF PayoutTypeOK
<1>5. /\ job'[j].p = p /\ job'[j].op = job[j].op
      /\ job'[j].step \in {"mark failed", "record"}
      /\ \A i \in Jobs : i # j => job'[i] = job[i]
  <2>1. PICK said : job' = [job EXCEPT ![j] = [job[j] EXCEPT !.step = "mark failed", !.caught = TRUE]]
                 \/ job' = [job EXCEPT ![j] = [job[j] EXCEPT !.step = "record", !.said = said]]
    BY DEF Send
  <2>2. job \in [Jobs -> Job] /\ job[j] \in Job
    BY JobFields
  <2>3. /\ \/ job'[j] = [job[j] EXCEPT !.step = "mark failed", !.caught = TRUE]
           \/ job'[j] = [job[j] EXCEPT !.step = "record", !.said = said]
        /\ \A i \in Jobs : i # j => job'[i] = job[i]
    BY <2>1, <2>2
  <2> QED
    BY <2>2, <2>3 DEF Job
<1>6. \A q \in Payees : Exists(q)' <=> Exists(q)
  BY <1>2 DEF Exists
<1> HIDE DEF p
<1>7. JobsOK'
  <2> SUFFICES ASSUME NEW i \in Jobs
               PROVE  /\ job'[i].step # "idle" => job'[i].p \in Payees
                      /\ job'[i].op = "withdraw" => job'[i].p \in Withdrawals
                      /\ job'[i].step = "create" => DebitKey(job'[i].p) \in booked'
                      /\ job'[i].step \in {"send", "mark processing"}
                            => payout'[job'[i].p].status # "ABSENT" /\ sent'[job'[i].p] = 0
                      /\ job'[i].step = "record" => payout'[job'[i].p].status # "ABSENT"
    BY DEF JobsOK, Sending, Exists, DebitKey
  <2>1. CASE i = j
    BY <1>1, <1>2, <1>5, <2>1 DEF Safe, JobsOK, Exists, p
  <2>2. CASE i # j
    <3>1. job'[i] = job[i]
      BY <1>5, <2>2
    <3>2. Sending(i) => job[i].p \in Payees /\ job[i].p # p
      BY <1>1, <2>2 DEF Safe, JobsOK, OneSender, Sending, p
    <3> QED
      BY <1>2, <1>4, <3>1, <3>2 DEF Safe, JobsOK, Sending, Exists
  <2> QED
    BY <2>1, <2>2
<1>8. OneSender'
  BY <1>5 DEF Safe, OneSender, Sending
<1>9. RowsUnique'
  BY <1>6 DEF Safe, RowsUnique, RowKey
<1>10. RowsDebited'
  BY <1>2, <1>6 DEF Safe, RowsDebited, DebitKey
<1>11. SentOnce'
  BY <1>1, <1>4, <1>6 DEF Safe, SentOnce
<1> QED
  BY <1>7, <1>8, <1>9, <1>10, <1>11 DEF Safe

LEMMA DebitStep == ASSUME PayoutTypeOK, Safe, NEW j \in Jobs, DebitUser(j) PROVE Safe'
<1>1. /\ job[j].step = "debit" /\ job[j].p \in Payees /\ job[j].p \in Withdrawals
      /\ payout' = payout /\ sent' = sent /\ booked \subseteq booked'
  BY DEF Safe, JobsOK, DebitUser, At, Payees
<1>2. CASE job' = [job EXCEPT ![j] = Idle]
  BY <1>1, <1>2, Advance, Settled, QuietStep
<1>3. CASE Goto(j, "create") /\ DebitKey(job[j].p) \in booked'
  <2>1. /\ Others(j) /\ job'[j].step = "create" /\ job'[j].p = job[j].p
        /\ job'[j].op = job[j].op
    BY <1>3, GotoJob
  <2>2. Lands(j)
    BY <1>1, <1>3, <2>1 DEF Lands
  <2> QED
    BY <1>1, <2>1, <2>2, Settled, QuietStep
<1> QED
  BY <1>2, <1>3 DEF DebitUser

(* An event, a sweep or a request that begins. *)
LEMMA BeginStep ==
    ASSUME PayoutTypeOK, Safe, NEW j \in Jobs, NEW p \in Payees,
           \/ p \in Withdrawals /\ Withdraw(j, p)
           \/ TransferEvent(j, p) \/ Reconcile(j, p)
    PROVE  Safe'
<1>1. \E op \in {"withdraw", "webhook", "sweep"},
         s \in {"debit", "mark paid", "mark failed", "verify"} :
           Start(j, op, s, p) /\ (op = "withdraw" => p \in Withdrawals)
  BY DEF Withdraw, TransferEvent, Reconcile
<1>2. ASSUME NEW op \in {"withdraw", "webhook", "sweep"},
             NEW s \in {"debit", "mark paid", "mark failed", "verify"},
             Start(j, op, s, p), op = "withdraw" => p \in Withdrawals
      PROVE  Others(j) /\ Lands(j)
  BY <1>2, StartJob DEF Lands
<1>3. Others(j) /\ Lands(j)
  BY <1>1, <1>2
<1>4. booked' = booked /\ sent' = sent /\ payout' = payout
  BY DEF Withdraw, TransferEvent, Reconcile
<1> QED
  BY <1>3, <1>4, Settled, QuietStep

(* What dispatch does once the bank has answered, and the sweep's verdict. *)
LEMMA AfterSendStep ==
    ASSUME PayoutTypeOK, Safe, NEW j \in Jobs,
           \/ Record(j) \/ MarkPaid(j) \/ PaySettlement(j)
           \/ MarkFailed(j) \/ Reverse(j) \/ FailSettlement(j) \/ Verify(j)
    PROVE  Safe'
<1> DEFINE p == job[j].p
<1>1. job[j].step # "idle" /\ p \in Payees
  BY DEF Safe, JobsOK, Record, MarkPaid, PaySettlement, MarkFailed, Reverse, FailSettlement,
         Verify, At
<1>2. booked \subseteq booked' /\ sent' = sent
  BY DEF Record, MarkPaid, PaySettlement, MarkFailed, Reverse, FailSettlement, Verify
<1>3. Others(j) /\ Lands(j)
  <2>1. CASE Record(j)
    BY <1>1, <2>1, Advance DEF Record
  <2>2. CASE MarkPaid(j) \/ MarkFailed(j)
    BY <1>1, <2>2, Advance DEF MarkPaid, MarkFailed
  <2>3. CASE PaySettlement(j) \/ FailSettlement(j)
    BY <1>1, <2>3, Advance DEF PaySettlement, FailSettlement
  <2>4. CASE Reverse(j)
    <3>1. Goto(j, "fail settlement")
      BY <2>4 DEF Reverse
    <3> QED
      BY <1>1, <3>1, Advance
  <2>5. CASE Verify(j)
    BY <1>1, <2>5, Advance DEF Verify
  <2> QED
    BY <2>1, <2>2, <2>3, <2>4, <2>5
<1>4. \A q \in Payees : payout'[q].status = "ABSENT" <=> payout[q].status = "ABSENT"
  <2>1. CASE payout' = payout
    BY <2>1
  <2>2. ASSUME NEW r \in Row, payout' = [payout EXCEPT ![p] = r],
               r.status # "ABSENT", payout[p].status # "ABSENT"
        PROVE  \A q \in Payees : payout'[q].status = "ABSENT" <=> payout[q].status = "ABSENT"
    BY <1>1, <2>2, RowType
  <2>3. ASSUME NEW s \in {"PAID", "FAILED"}, payout[p].status = "PROCESSING",
               payout' = [payout EXCEPT ![p] = [payout[p] EXCEPT !.status = s]]
        PROVE  \A q \in Payees : payout'[q].status = "ABSENT" <=> payout[q].status = "ABSENT"
    <3>1. s \in RowStatus /\ payout[p] \in Row
      BY <1>1, RowType DEF RowStatus
    <3>2. [payout[p] EXCEPT !.status = s].status = s
      BY <3>1 DEF Row
    <3> QED
      BY <1>1, <2>2, <2>3, <3>1, <3>2, RowType
  <2>4. CASE Record(j)
    <3>1. /\ job[j].said \in {"PROCESSING", "PAID", "FAILED"} /\ payout[p] \in Row
          /\ payout[p].status # "ABSENT"
      BY <1>1, <2>4, JobFields, RowType DEF Job, Record, At, Safe, JobsOK, Exists
    <3>2. payout' = [payout EXCEPT ![p] =
                       [payout[p] EXCEPT !.status = job[j].said, !.coded = TRUE]]
      BY <2>4 DEF Record
    <3>3. job[j].said \in RowStatus
      BY <3>1 DEF RowStatus
    <3>4. [payout[p] EXCEPT !.status = job[j].said, !.coded = TRUE].status # "ABSENT"
      BY <3>1 DEF Row
    <3> QED
      BY <1>1, <2>2, <3>1, <3>2, <3>3, <3>4, RowType
  <2>5. CASE MarkPaid(j)
    BY <2>1, <2>3, <2>5 DEF MarkPaid
  <2>6. CASE MarkFailed(j)
    BY <2>1, <2>3, <2>6 DEF MarkFailed
  <2>7. CASE PaySettlement(j) \/ Reverse(j) \/ FailSettlement(j) \/ Verify(j)
    BY <2>1, <2>7 DEF PaySettlement, Reverse, FailSettlement, Verify
  <2> QED
    BY <2>4, <2>5, <2>6, <2>7
<1> QED
  BY <1>2, <1>3, <1>4, Settled, QuietStep

LEMMA SafeStep == ASSUME Inv, PayoutNext PROVE Safe'
<1> PayoutTypeOK /\ Safe
  BY DEF Inv
<1>1. ASSUME NEW j \in Jobs, PayoutStep(j) PROVE Safe'
  BY <1>1, DebitStep, CreateStep, SendStep, AfterSendStep DEF PayoutStep, DispatchStep
<1>2. ASSUME NEW j \in Jobs, NEW w \in Withdrawals, Withdraw(j, w) PROVE Safe'
  BY <1>2, BeginStep DEF Payees
<1>3. ASSUME NEW j \in Jobs, NEW p \in Payees, TransferEvent(j, p) \/ Reconcile(j, p) PROVE Safe'
  BY <1>3, BeginStep
<1>4. ASSUME NEW p \in Payees, BankResolves(p) PROVE Safe'
  BY <1>4, QuietStep DEF BankResolves, Quiet
<1>5. CASE Crash
  <2>1. \A i \in Jobs : Lands(i)
    BY <1>5, IdleType DEF Crash, Lands
  <2> QED
    BY <1>5, <2>1, QuietStep DEF Crash, Quiet
<1> QED
  BY <1>1, <1>2, <1>3, <1>4, <1>5 DEF PayoutNext

----------------------------------------------------------------------------
LEMMA InvHolds == PayoutSpec => []Inv
<1>1. PayoutInit => Inv
  BY InitInv
<1>2. Inv /\ [PayoutNext]_payoutVars => Inv'
  <2> SUFFICES ASSUME Inv, [PayoutNext]_payoutVars PROVE Inv'
    OBVIOUS
  <2>1. CASE PayoutNext
    BY <2>1, TypeStep, SafeStep DEF Inv
  <2>2. CASE UNCHANGED payoutVars
    <3>1. PayoutTypeOK'
      BY <2>2 DEF Inv, PayoutTypeOK, payoutVars
    <3>2. Safe'
      BY <2>2, QuietStep DEF Inv, Quiet, payoutVars
    <3> QED
      BY <3>1, <3>2 DEF Inv
  <2> QED
    BY <2>1, <2>2
<1> QED
  BY <1>1, <1>2, PTL DEF PayoutSpec

(* Ledger, rows, bank and jobs of payoutService keep their types, for every *)
(* set of requests and settlements, every gateway and any number of crashes. *)
THEOREM PayoutsTypeCorrect == PayoutSpec => []PayoutTypeOK
<1>1. Inv => PayoutTypeOK
  BY DEF Inv
<1> QED
  BY <1>1, InvHolds, PTL

(* However requests are retried, raced or cut off, and whatever the gateway *)
(* answers, dispatch gives the bank at most one transfer per ledger debit,  *)
(* and only when that debit is booked.                                      *)
THEOREM OneTransferPerKeyAlways == PayoutSpec => []OneTransferPerKey
<1>1. Inv => OneTransferPerKey
  BY SafeSuffices
<1> QED
  BY <1>1, InvHolds, PTL
=============================================================================
