------------------------- MODULE SettlementsProofs -------------------------
(***************************************************************************)
(* The settlement engine on top of the payouts: the bank still gets one    *)
(* transfer per ledger debit, and where a rule asks for two approvers two  *)
(* different people have approved, for every set of settlements, staff and *)
(* overlapping jobs, every gateway answer and any number of crashes.       *)
(*                                                                         *)
(* The engine never touches a payout row or the bank, so its steps are     *)
(* quiet in the sense of PayoutsProofs; only the manual payout moves a job *)
(* from one sending step to the next.  For the approvals, the invariant    *)
(* follows a settlement past its status: whoever works on a settlement     *)
(* that was released, or holds a payout row of one, does so after two      *)
(* people approved; and an approver about to write is not the one it read. *)
(*                                                                         *)
(* Then the money.  For the business, every move is between three places:  *)
(* the merchant wallet, what a settlement keeps, and what a calculation    *)
(* has taken and not yet written.  For the customer, the wallet is the     *)
(* opening balance less what the booked debit keys are worth, plus the     *)
(* amounts of the booked reversals; which of those there are is tied to    *)
(* the bank by what rows and jobs say of it.                               *)
(*                                                                         *)
(* Last, the refinement: paying out does what Disbursements promises.      *)
(***************************************************************************)
EXTENDS Settlements, PayoutsProofs, FiniteSums

Sheet == [gross : Int, net : Int, held : BOOLEAN, destination : BOOLEAN,
          approvedBy : Staff \cup {Nobody}]

(* Operations on a settlement that has not been released yet. *)
Desk == {"calculate", "approve", "cancel"}

SheetTypeOK ==
    /\ sheet \in [Settlements -> Sheet]
    /\ approvals \in [Settlements -> SUBSET Staff]

DeskOK == \A j \in Jobs :
    /\ job[j].op \in Desk => /\ job[j].step \in {"move", "write"}
                             /\ job[j].p \in Settlements
    /\ job[j].op = "approve" => job[j].by \in Staff
    /\ job[j].op = "calculate" /\ job[j].caught => PlainRoute

Ledger == PayoutTypeOK /\ Safe /\ SheetTypeOK /\ DeskOK

Pair(S) == \E u, v \in S : u # v

Cleared == {"PENDING", "PROCESSING", "PAID"}

ReleasedOK == \A s \in DualApproval : settled[s] \in Cleared \/ Exists(s) => Pair(approvals[s])

(* A job past the desk works on a settlement two people approved. *)
WorkOK == \A j \in Jobs :
    job[j].p \in DualApproval /\ job[j].op \notin Desk => Pair(approvals[job[j].p])

ApproverOK(c, S) == c.op = "approve" /\ c.p \in DualApproval =>
    c.by # c.seen /\ c.seen \in S \cup {Nobody}

ApproversOK ==
    /\ \A s \in Settlements : sheet[s].approvedBy \in approvals[s] \cup {Nobody}
    /\ \A j \in Jobs : ApproverOK(job[j], approvals[job[j].p])

Approved == ReleasedOK /\ WorkOK /\ ApproversOK

(* The plain settlement route of the pay routes asks nobody to approve. *)
NoBypass == PlainRoute => DualApproval = {}

EngineInv == Ledger /\ (NoBypass => Approved)

----------------------------------------------------------------------------
LEMMA Sets ==
    /\ DualApproval \subseteq Settlements /\ Settlements \subseteq Payees
    /\ Withdrawals \cap DualApproval = {} /\ NoPayout \notin DualApproval
    /\ Nobody \notin Staff /\ Fee \in Int /\ Reserve \in Int /\ PlainRoute \in BOOLEAN
<1>1. /\ DualApproval \subseteq Settlements /\ Withdrawals \cap Settlements = {}
      /\ NoPayout \notin Settlements /\ Nobody \notin Staff
  BY PayoutAssumption, SettlementAssumption, Zenon
<1>2. Fee \in Int /\ Reserve \in Int
  BY SettlementAssumption
<1>3. PlainRoute \in BOOLEAN
  BY SettlementAssumption, Zenon
<1> QED
  BY <1>1, <1>2, <1>3 DEF Payees

LEMMA IdleJob ==
    /\ Idle.op = "none" /\ Idle.step = "idle" /\ Idle.p = NoPayout /\ Idle.op \notin Desk
    /\ Idle \in Job
  BY IdleType DEF Idle, Desk

LEMMA ApproverIdle == \A S : ApproverOK(Idle, S)
  BY IdleJob DEF ApproverOK

LEMMA EngineInitInv == Init => EngineInv
<1> SUFFICES ASSUME Init PROVE EngineInv
  OBVIOUS
<1>1. PayoutTypeOK /\ Safe
  BY InitInv DEF Init, Inv
<1>2. \A j \in Jobs : job[j] = Idle
  BY DEF Init, PayoutInit
<1>3. SheetTypeOK
  <2>1. Blank \in Sheet
    BY DEF Blank, Sheet
  <2> QED
    BY <2>1 DEF Init, SheetTypeOK
<1>4. DeskOK
  BY <1>2, IdleJob DEF DeskOK, Desk
<1>5. ReleasedOK
  BY Sets DEF Init, PayoutInit, ReleasedOK, Cleared, Exists
<1>6. WorkOK
  BY <1>2, IdleJob, Sets DEF WorkOK
<1>7. ApproversOK
  BY <1>2, IdleJob DEF Init, ApproversOK, ApproverOK, Blank
<1> QED
  BY <1>1, <1>3, <1>4, <1>5, <1>6, <1>7 DEF EngineInv, Ledger, Approved

----------------------------------------------------------------------------
(* One job of the engine moves on to c.                                    *)

(* What the ledger, the rows and the bank ask of it. *)
LEMMA LedgerMoves ==
    ASSUME Ledger, NEW j \in Jobs, NEW c \in Job, job' = [job EXCEPT ![j] = c],
           UNCHANGED <<payout, bank, sent, asked, crashes>>, booked \subseteq booked',
           funds' \in Funds, settled' \in [Settlements -> SettlementStatus], SheetTypeOK',
           \/ /\ c.step \notin {"send", "mark processing", "record"}
              /\ c.step # "idle" => c.p \in Payees
              /\ c.op # "withdraw"
              /\ c.step = "create" => DebitKey(c.p) \in booked'
           \/ /\ job[j].step = "mark processing" /\ c.step = "send"
              /\ c.p = job[j].p /\ c.op = job[j].op,
           c.op \in Desk => c.step \in {"move", "write"} /\ c.p \in Settlements,
           c.op = "approve" => c.by \in Staff,
           c.op = "calculate" /\ c.caught => PlainRoute
    PROVE  Ledger'
<1> USE DEF Ledger
<1>1. /\ job' \in [Jobs -> Job] /\ job'[j] = c
      /\ \A i \in Jobs : i # j => job'[i] = job[i]
  BY JobFields
<1>2. PayoutTypeOK'
  BY <1>1 DEF PayoutTypeOK
<1>3. DeskOK'
  BY <1>1 DEF DeskOK
<1>4. Safe'
  <2>1. CASE /\ c.step \notin {"send", "mark processing", "record"}
             /\ c.step # "idle" => c.p \in Payees
             /\ c.op # "withdraw"
             /\ c.step = "create" => DebitKey(c.p) \in booked'
    <3>1. Lands(j) /\ Others(j)
      BY <1>1, <2>1, Sets DEF Lands, Others
    <3> QED
      BY <3>1, Settled, QuietStep
  <2>2. CASE /\ job[j].step = "mark processing" /\ c.step = "send"
             /\ c.p = job[j].p /\ c.op = job[j].op
    <3>1. \A i \in Jobs : /\ job'[i].p = job[i].p /\ job'[i].op = job[i].op
                          /\ Sending(i)' <=> Sending(i)
                          /\ job'[i].step # job[i].step => i = j /\ job'[i].step = "send"
      BY <1>1, <2>2 DEF Sending
    <3>2. JobsOK'
      <4> SUFFICES ASSUME NEW i \in Jobs
                   PROVE  /\ job'[i].step # "idle" => job'[i].p \in Payees
                          /\ job'[i].op = "withdraw" => job'[i].p \in Withdrawals
                          /\ job'[i].step = "create" => DebitKey(job'[i].p) \in booked'
                          /\ job'[i].step \in {"send", "mark processing"}
                                => payout'[job'[i].p].status # "ABSENT" /\ sent'[job'[i].p] = 0
                          /\ job'[i].step = "record" => payout'[job'[i].p].status # "ABSENT"
        BY DEF JobsOK, Sending, Exists, DebitKey
      <4> QED
        BY <1>1, <2>2 DEF Safe, JobsOK, Sending, Exists
    <3>3. OneSender'
      BY <3>1 DEF Safe, OneSender
    <3>4. RowsUnique' /\ RowsDebited' /\ SentOnce'
      BY DEF Safe, RowsUnique, RowsDebited, SentOnce, Exists, RowKey, DebitKey
    <3> QED
      BY <3>2, <3>3, <3>4 DEF Safe
  <2> QED
    BY <2>1, <2>2
<1> QED
  BY <1>2, <1>3, <1>4

(* Approvals are only added. *)
LEMMA PairGrows == ASSUME NEW S, NEW T, S \subseteq T, Pair(S) PROVE Pair(T)
  BY DEF Pair

(* What the approvals ask of it; rows have appeared, and settlements been  *)
(* released, only where two people had approved.                           *)
LEMMA ApprovedMoves ==
    ASSUME Ledger, Approved, NEW j \in Jobs, NEW c, job'[j] = c, Others(j),
           \A s \in Settlements : approvals[s] \subseteq approvals'[s],
           \A s \in Settlements : sheet'[s].approvedBy \in approvals'[s] \cup {Nobody},
           \A s \in DualApproval : settled'[s] \in Cleared => settled[s] \in Cleared \/ Pair(approvals'[s]),
           payout' = payout,
           c.p \in DualApproval /\ c.op \notin Desk => Pair(approvals'[c.p]),
           ApproverOK(c, approvals'[c.p])
    PROVE  Approved'
<1> USE DEF Approved
<1>1. \A s \in DualApproval : Pair(approvals[s]) => Pair(approvals'[s])
  BY PairGrows, Sets
<1>2. ReleasedOK'
  BY <1>1 DEF ReleasedOK, Exists
<1>3. \A i \in Jobs : job'[i].p \in DualApproval /\ job'[i].op \notin Desk
                        => Pair(approvals'[job'[i].p])
  BY <1>1 DEF WorkOK, Others
<1>4. \A i \in Jobs : ApproverOK(job'[i], approvals'[job'[i].p])
  <2> SUFFICES ASSUME NEW i \in Jobs PROVE ApproverOK(job'[i], approvals'[job'[i].p])
    OBVIOUS
  <2>1. CASE i = j
    BY <2>1
  <2>2. CASE i # j
    <3>1. job'[i] = job[i] /\ ApproverOK(job[i], approvals[job[i].p])
      BY <2>2 DEF Others, ApproversOK
    <3>2. job[i].p \in DualApproval => approvals[job[i].p] \subseteq approvals'[job[i].p]
      BY Sets
    <3> QED
      BY <3>1, <3>2 DEF ApproverOK
  <2> QED
    BY <2>1, <2>2
<1>5. WorkOK'
  BY <1>3 DEF WorkOK
<1>6. ApproversOK'
  BY <1>4 DEF ApproversOK, ApproverOK
<1> QED
  BY <1>2, <1>5, <1>6

LEMMA MovedJob ==
    ASSUME PayoutTypeOK, NEW j \in Jobs, NEW c, job' = [job EXCEPT ![j] = c]
    PROVE  Others(j) /\ job'[j] = c
  BY JobFields DEF Others

LEMMA GotoMove ==
    ASSUME PayoutTypeOK, NEW j \in Jobs, NEW s \in Steps, Goto(j, s)
    PROVE  \E c \in Job : /\ job' = [job EXCEPT ![j] = c] /\ c.step = s
                          /\ c.op = job[j].op /\ c.p = job[j].p /\ c.by = job[j].by
                          /\ c.seen = job[j].seen /\ c.caught = job[j].caught
<1> DEFINE c == [job[j] EXCEPT !.step = s]
<1>1. job' = [job EXCEPT ![j] = c]
  BY JobFields DEF Goto, Job
<1>2. /\ c \in Job /\ c.step = s /\ c.op = job[j].op /\ c.p = job[j].p /\ c.by = job[j].by
      /\ c.seen = job[j].seen /\ c.caught = job[j].caught
  BY JobFields DEF Job
<1> QED
  BY <1>1, <1>2

LEMMA EndMove ==
    ASSUME NEW j, End(j)
    PROVE  /\ job' = [job EXCEPT ![j] = Idle]
           /\ Idle.op = "none" /\ Idle.step = "idle" /\ Idle.p \notin DualApproval
           /\ Idle.op \notin Desk /\ Idle \in Job
  BY IdleJob, Sets DEF End

----------------------------------------------------------------------------
(* The engine, action by action. *)

LEMMA Typed ==
    ASSUME EngineInv
    PROVE  /\ PayoutTypeOK /\ Ledger
           /\ funds \in Funds /\ settled \in [Settlements -> SettlementStatus]
           /\ sheet \in [Settlements -> Sheet] /\ approvals \in [Settlements -> SUBSET Staff]
           /\ \A s \in Settlements : sheet[s] \in Sheet
           /\ \A j \in Jobs : job[j] \in Job
  BY JobFields DEF EngineInv, Ledger, SheetTypeOK, PayoutTypeOK

LEMMA Moved ==
    ASSUME funds \in Funds, NEW n \in Int
    PROVE  /\ [funds EXCEPT !.merchant = funds.merchant - n, !.payable = funds.payable + n] \in Funds
           /\ [funds EXCEPT !.payable = funds.payable - n, !.merchant = funds.merchant + n] \in Funds
           /\ [funds EXCEPT !.payable = funds.payable - n, !.clearing = funds.clearing + n] \in Funds
<1>1. /\ funds.merchant - n \in Int /\ funds.merchant + n \in Int /\ funds.payable - n \in Int
      /\ funds.payable + n \in Int /\ funds.clearing + n \in Int
  BY DEF Funds
<1>2. \A x, y \in Int : /\ [funds EXCEPT !.merchant = x, !.payable = y] \in Funds
                        /\ [funds EXCEPT !.payable = x, !.merchant = y] \in Funds
                        /\ [funds EXCEPT !.payable = x, !.clearing = y] \in Funds
  BY DEF Funds
<1> QED
  BY <1>1, <1>2

LEMMA CalculateStep ==
    ASSUME EngineInv, NEW j \in Jobs, NEW s \in Settlements, Calculate(j, s)
    PROVE  EngineInv'
<1>1. PICK c \in Job : /\ job' = [job EXCEPT ![j] = c] /\ c.op = "calculate"
                       /\ c.step = "move" /\ c.p = s /\ (c.caught => PlainRoute)
  <2>1. PICK gross \in Asks \cup {funds.merchant}, plain \in BOOLEAN :
          /\ gross \in 1 .. funds.merchant
          /\ plain => PlainRoute
          /\ job' = [job EXCEPT ![j] = [Idle EXCEPT !.op = "calculate", !.step = "move",
                                        !.p = s, !.read = gross, !.caught = plain]]
    BY DEF Calculate
  <2> DEFINE c == [Idle EXCEPT !.op = "calculate", !.step = "move",
                               !.p = s, !.read = gross, !.caught = plain]
  <2>2. funds.merchant \in Int
    BY Typed DEF Funds
  <2>3. gross \in Int
    BY <2>1, <2>2
  <2>4. s \in Payees /\ "calculate" \in Ops /\ "move" \in Steps
    BY DEF Payees, Ops, Steps
  <2>5. c \in Job /\ c.op = "calculate" /\ c.step = "move" /\ c.p = s /\ c.caught = plain
    BY <2>3, <2>4, IdleJob DEF Job
  <2> QED
    BY <2>1, <2>5
<1>2. Ledger'
  BY <1>1, Typed, Sets, LedgerMoves DEF Calculate, SheetTypeOK, Desk
<1>3. ASSUME NoBypass PROVE Approved'
  <2>1. Approved /\ Others(j) /\ job'[j] = c
    BY <1>1, <1>3, Typed, MovedJob DEF EngineInv
  <2> QED
    BY <1>1, <2>1, Typed, ApprovedMoves DEF Calculate, Approved, ApproversOK, ApproverOK, Desk
<1> QED
  BY <1>2, <1>3 DEF EngineInv, NoBypass

LEMMA ToPayableStep ==
    ASSUME EngineInv, NEW j \in Jobs, MoveToPayable(j)
    PROVE  EngineInv'
<1>1. /\ job[j].op = "calculate" /\ job[j].step = "move" /\ job[j].p \in Settlements
      /\ (job[j].caught => PlainRoute)
  BY DEF MoveToPayable, Doing, EngineInv, Ledger, DeskOK, Desk
<1>2. PICK c \in Job : /\ job' = [job EXCEPT ![j] = c]
                       /\ \/ c = Idle
                          \/ /\ c.op = "calculate" /\ c.step = "write" /\ c.p = job[j].p
                             /\ c.caught = job[j].caught
  <2>1. "write" \in Steps
    BY DEF Steps
  <2>2. CASE Goto(j, "write")
    BY <1>1, <2>1, <2>2, Typed, GotoMove
  <2>3. CASE End(j)
    BY <2>3, EndMove
  <2> QED
    BY <2>2, <2>3 DEF MoveToPayable
<1>3. funds' \in Funds
  <2>1. job[j].read \in Int
    BY Typed DEF Job
  <2>2. \/ funds' = funds
        \/ funds' = [funds EXCEPT !.merchant = funds.merchant - job[j].read,
                                  !.payable = funds.payable + job[j].read]
    BY DEF MoveToPayable
  <2> QED
    BY <2>1, <2>2, Typed, Moved
<1>4. Ledger'
  BY <1>1, <1>2, <1>3, Typed, IdleJob, Sets, LedgerMoves DEF MoveToPayable, SheetTypeOK, Desk
<1>5. ASSUME NoBypass PROVE Approved'
  <2>1. Approved /\ Others(j) /\ job'[j] = c
    BY <1>2, <1>5, Typed, MovedJob DEF EngineInv
  <2> QED
    BY <1>1, <1>2, <2>1, Typed, IdleJob, Sets, ApprovedMoves
       DEF MoveToPayable, Approved, ApproversOK, ApproverOK, Desk
<1> QED
  BY <1>4, <1>5 DEF EngineInv, NoBypass

LEMMA CreateSettlementStep ==
    ASSUME EngineInv, NEW j \in Jobs, CreateSettlement(j)
    PROVE  EngineInv'
<1> DEFINE s == job[j].p
<1>1. /\ job[j].op = "calculate" /\ s \in Settlements /\ (job[j].caught => PlainRoute)
  BY DEF CreateSettlement, Doing, EngineInv, Ledger, DeskOK, Desk
<1>2. job' = [job EXCEPT ![j] = Idle]
  BY EndMove DEF CreateSettlement
<1>3. PICK verdict, r :
        /\ settled' = [settled EXCEPT ![s] = verdict]
        /\ sheet' = [sheet EXCEPT ![s] = r]
        /\ verdict \in {"ON_HOLD", "AWAITING_APPROVAL", "PENDING"}
        /\ verdict = "PENDING" => job[j].caught \/ s \notin DualApproval
        /\ r \in Sheet /\ r.approvedBy = Nobody
  <2>1. PICK destination \in BOOLEAN, v \in {"ON_HOLD", "AWAITING_APPROVAL", "PENDING"} :
          /\ v = "PENDING" => job[j].caught \/ s \notin DualApproval
          /\ job[j].caught => v = "PENDING"
          /\ SetStatus(s, IF destination \/ job[j].caught THEN v ELSE "ON_HOLD")
          /\ sheet' = [sheet EXCEPT ![s] =
                  [Blank EXCEPT !.gross = job[j].read,
                                !.net = IF job[j].caught THEN job[j].read
                                        ELSE job[j].read - Fee - Reserve,
                                !.held = ~job[j].caught /\ ReserveDays > 0,
                                !.destination = destination]]
    BY DEF CreateSettlement
  <2> DEFINE r == [Blank EXCEPT !.gross = job[j].read,
                                !.net = IF job[j].caught THEN job[j].read
                                        ELSE job[j].read - Fee - Reserve,
                                !.held = ~job[j].caught /\ ReserveDays > 0,
                                !.destination = destination]
             verdict == IF destination \/ job[j].caught THEN v ELSE "ON_HOLD"
  <2>2. /\ job[j].read \in Int /\ job[j].read - Fee - Reserve \in Int
    BY Typed, Sets DEF Job
  <2>3. r \in Sheet /\ r.approvedBy = Nobody
    BY <2>1, <2>2 DEF Blank, Sheet
  <2>4. /\ settled' = [settled EXCEPT ![s] = verdict] /\ sheet' = [sheet EXCEPT ![s] = r]
    BY <2>1 DEF SetStatus
  <2>5. /\ verdict \in {"ON_HOLD", "AWAITING_APPROVAL", "PENDING"}
        /\ verdict = "PENDING" => job[j].caught \/ s \notin DualApproval
    BY <2>1
  <2> HIDE DEF r, verdict
  <2> QED
    BY <2>3, <2>4, <2>5
<1>4. /\ settled' \in [Settlements -> SettlementStatus]
      /\ sheet' \in [Settlements -> Sheet] /\ approvals' = approvals
  BY <1>3, Typed DEF CreateSettlement, SettlementStatus
<1>5. UNCHANGED <<funds, booked, payout, bank, sent, asked, crashes>>
  BY DEF CreateSettlement
<1> HIDE DEF s
<1>6. Ledger'
  BY <1>2, <1>4, <1>5, Typed, IdleJob, LedgerMoves DEF SheetTypeOK, Desk
<1>7. ASSUME NoBypass PROVE Approved'
  <2>1. Approved /\ Others(j) /\ job'[j] = Idle
    BY <1>2, <1>7, Typed, MovedJob DEF EngineInv
  <2>2. s \in DualApproval => verdict # "PENDING"
    BY <1>1, <1>3, <1>7 DEF NoBypass, s
  <2>3. /\ \A t \in DualApproval : settled'[t] \in Cleared => settled[t] \in Cleared
        /\ \A t \in Settlements : sheet'[t].approvedBy \in approvals[t] \cup {Nobody}
    BY <1>1, <1>3, <2>1, <2>2, Typed, Sets DEF Approved, ApproversOK, Cleared
  <2> QED
    BY <1>4, <1>5, <2>1, <2>3, Typed, IdleJob, Sets, ApprovedMoves DEF ApproverOK, Desk
<1> QED
  BY <1>6, <1>7 DEF EngineInv, NoBypass

(* A request or a sweep that begins, with the row as it reads it. *)
LEMMA ApproveStep ==
    ASSUME EngineInv, NEW j \in Jobs, NEW s \in Settlements, NEW u \in Staff, Approve(j, s, u)
    PROVE  EngineInv'
<1>1. PICK c \in Job : /\ job' = [job EXCEPT ![j] = c] /\ c.op = "approve" /\ c.step = "write"
                       /\ c.p = s /\ c.by = u /\ c.seen = sheet[s].approvedBy
  <2> DEFINE c == [Idle EXCEPT !.op = "approve", !.step = "write", !.p = s,
                               !.by = u, !.seen = sheet[s].approvedBy]
  <2>1. s \in Payees /\ "approve" \in Ops /\ "write" \in Steps
    BY DEF Payees, Ops, Steps
  <2>2. sheet[s].approvedBy \in Staff \cup {Nobody}
    BY Typed DEF Sheet
  <2>3. /\ c \in Job /\ c.op = "approve" /\ c.step = "write" /\ c.p = s /\ c.by = u
        /\ c.seen = sheet[s].approvedBy
    BY <2>1, <2>2, IdleJob DEF Job
  <2> QED
    BY <2>3 DEF Approve
<1>2. Ledger'
  BY <1>1, Typed, Sets, LedgerMoves DEF Approve, SheetTypeOK, Desk
<1>3. ASSUME NoBypass PROVE Approved'
  <2>1. Approved /\ Others(j) /\ job'[j] = c
    BY <1>1, <1>3, Typed, MovedJob DEF EngineInv
  <2>2. ApproverOK(c, approvals[c.p])
    BY <1>1, <2>1 DEF Approve, Approved, ApproversOK, ApproverOK
  <2> QED
    BY <1>1, <2>1, <2>2, Typed, ApprovedMoves DEF Approve, Approved, ApproversOK, Desk
<1> QED
  BY <1>2, <1>3 DEF EngineInv, NoBypass

LEMMA WriteApprovalStep ==
    ASSUME EngineInv, NEW j \in Jobs, WriteApproval(j)
    PROVE  EngineInv'
<1> DEFINE s == job[j].p
<1>1. job[j].op = "approve" /\ s \in Settlements /\ job[j].by \in Staff
  BY DEF WriteApproval, Doing, EngineInv, Ledger, DeskOK, Desk
<1>2. job' = [job EXCEPT ![j] = Idle]
  BY EndMove DEF WriteApproval
<1>3. /\ UNCHANGED <<funds, booked, payout, bank, sent, asked, crashes>>
      /\ approvals' = [approvals EXCEPT ![s] = @ \cup {job[j].by}]
      /\ \/ /\ s \in DualApproval /\ job[j].seen # Nobody
            /\ settled' = [settled EXCEPT ![s] = "PENDING"] /\ sheet' = sheet
         \/ /\ s \in DualApproval \/ settled' = [settled EXCEPT ![s] = "PENDING"]
            /\ s \in DualApproval => settled' = settled
            /\ sheet' = [sheet EXCEPT ![s] = [sheet[s] EXCEPT !.approvedBy = job[j].by]]
  BY DEF WriteApproval, SetStatus
<1>4. [sheet[s] EXCEPT !.approvedBy = job[j].by] \in Sheet
      /\ [sheet[s] EXCEPT !.approvedBy = job[j].by].approvedBy = job[j].by
  BY <1>1, Typed DEF Sheet
<1> HIDE DEF s
<1>5. /\ settled' \in [Settlements -> SettlementStatus] /\ sheet' \in [Settlements -> Sheet]
      /\ approvals' \in [Settlements -> SUBSET Staff]
  BY <1>1, <1>3, <1>4, Typed DEF SettlementStatus
<1>6. Ledger'
  BY <1>2, <1>3, <1>5, Typed, IdleJob, LedgerMoves DEF SheetTypeOK, Desk
<1>7. ASSUME NoBypass PROVE Approved'
  <2>1. Approved /\ Others(j) /\ job'[j] = Idle
    BY <1>2, <1>7, Typed, MovedJob DEF EngineInv
  <2>2. /\ \A t \in Settlements : approvals[t] \subseteq approvals'[t]
        /\ approvals'[s] = approvals[s] \cup {job[j].by}
    BY <1>1, <1>3, Typed
  <2>3. \A t \in Settlements : sheet'[t].approvedBy \in approvals'[t] \cup {Nobody}
    BY <1>1, <1>3, <1>4, <2>1, <2>2, Typed DEF Approved, ApproversOK
  <2>4. \A t \in DualApproval : settled'[t] \in Cleared => settled[t] \in Cleared \/ Pair(approvals'[t])
    <3>1. CASE s \in DualApproval /\ job[j].seen # Nobody
      <4>1. job[j].by # job[j].seen /\ job[j].seen \in approvals[s]
        BY <1>1, <2>1, <3>1 DEF Approved, ApproversOK, ApproverOK, s
      <4>2. Pair(approvals'[s])
        BY <2>2, <4>1 DEF Pair
      <4> QED
        BY <1>1, <1>3, <4>2, Typed, Sets
    <3>2. CASE ~(s \in DualApproval /\ job[j].seen # Nobody)
      BY <1>1, <1>3, <3>2, Typed, Sets
    <3> QED
      BY <3>1, <3>2
  <2> QED
    BY <1>3, <2>1, <2>2, <2>3, <2>4, Typed, IdleJob, Sets, ApproverIdle, ApprovedMoves
<1> QED
  BY <1>6, <1>7 DEF EngineInv, NoBypass

----------------------------------------------------------------------------
(* The other steps of the engine leave the approvals alone. *)

LEMMA PlainMoves ==
    ASSUME EngineInv, NEW j \in Jobs, NEW c \in Job, job' = [job EXCEPT ![j] = c],
           UNCHANGED <<payout, bank, sent, asked, crashes, approvals>>, booked \subseteq booked',
           funds' \in Funds, settled' \in [Settlements -> SettlementStatus],
           sheet' \in [Settlements -> Sheet],
           \A s \in Settlements : sheet'[s].approvedBy = sheet[s].approvedBy,
           \/ /\ c.step \notin {"send", "mark processing", "record"}
              /\ c.step # "idle" => c.p \in Payees
              /\ c.op # "withdraw"
              /\ c.step = "create" => DebitKey(c.p) \in booked'
           \/ /\ job[j].step = "mark processing" /\ c.step = "send"
              /\ c.p = job[j].p /\ c.op = job[j].op,
           c.op \in Desk => c.step \in {"move", "write"} /\ c.p \in Settlements,
           c.op \notin {"approve", "calculate"},
           Approved => \A s \in DualApproval :
                          settled'[s] \in Cleared => settled[s] \in Cleared \/ Pair(approvals[s]),
           Approved /\ c.p \in DualApproval /\ c.op \notin Desk => Pair(approvals[c.p])
    PROVE  EngineInv'
<1>1. SheetTypeOK' /\ Ledger
  BY Typed DEF SheetTypeOK, EngineInv
<1>2. Ledger'
  BY <1>1, LedgerMoves
<1>3. ASSUME NoBypass PROVE Approved'
  <2>1. Approved /\ Others(j) /\ job'[j] = c
    BY <1>3, Typed, MovedJob DEF EngineInv
  <2>2. ApproverOK(c, approvals'[c.p])
    BY DEF ApproverOK
  <2>3. \A s \in Settlements : sheet'[s].approvedBy \in approvals'[s] \cup {Nobody}
    BY <2>1 DEF Approved, ApproversOK
  <2>4. /\ \A s \in Settlements : approvals[s] \subseteq approvals'[s]
        /\ \A s \in DualApproval : settled'[s] \in Cleared => settled[s] \in Cleared \/ Pair(approvals'[s])
        /\ c.p \in DualApproval /\ c.op \notin Desk => Pair(approvals'[c.p])
    BY <2>1
  <2> QED
    BY <1>1, <2>1, <2>2, <2>3, <2>4, ApprovedMoves
<1> QED
  BY <1>2, <1>3 DEF EngineInv, NoBypass

(* Who is past the desk is at a settlement two people approved. *)
LEMMA PastTheDesk ==
    ASSUME EngineInv, NEW j \in Jobs, Approved, job[j].op \notin Desk, job[j].p \in DualApproval
    PROVE  Pair(approvals[job[j].p])
  BY DEF Approved, WorkOK

LEMMA Names ==
    /\ "move" \in Steps /\ "write" \in Steps /\ "debit" \in Steps /\ "create" \in Steps
    /\ "send" \in Steps /\ "settle failed" \in Steps
    /\ "cancel" \in Ops /\ "reserve" \in Ops /\ "execute" \in Ops /\ "manual" \in Ops
  BY DEF Steps, Ops

LEMMA StartMove ==
    ASSUME EngineInv, NEW j \in Jobs, NEW op \in Ops, NEW step \in Steps, NEW s \in Settlements,
           Start(j, op, step, s)
    PROVE  \E c \in Job : job' = [job EXCEPT ![j] = c] /\ c.op = op /\ c.step = step /\ c.p = s
<1> DEFINE c == [Idle EXCEPT !.op = op, !.step = step, !.p = s]
<1>1. c \in Job /\ c.op = op /\ c.step = step /\ c.p = s
  BY IdleJob, Sets DEF Job
<1> QED
  BY <1>1 DEF Start

LEMMA CancelStep ==
    ASSUME EngineInv, NEW j \in Jobs, NEW s \in Settlements, Cancel(j, s)
    PROVE  EngineInv'
<1>1. PICK c \in Job : job' = [job EXCEPT ![j] = c] /\ c.op = "cancel" /\ c.step = "move" /\ c.p = s
  <2>1. Start(j, "cancel", "move", s) /\ "cancel" \in Ops /\ "move" \in Steps
    BY Names DEF Cancel
  <2> QED
    BY <2>1, StartMove
<1> QED
  BY <1>1, Typed, Sets, PlainMoves DEF Cancel, Desk

LEMMA MoveBackStep ==
    ASSUME EngineInv, NEW j \in Jobs, MoveBack(j)
    PROVE  EngineInv'
<1>1. job[j].op = "cancel" /\ job[j].p \in Settlements
  BY DEF MoveBack, Doing, EngineInv, Ledger, DeskOK, Desk
<1>2. PICK c \in Job : /\ job' = [job EXCEPT ![j] = c] /\ c.op = "cancel" /\ c.step = "write"
                       /\ c.p = job[j].p
  <2>1. Goto(j, "write") /\ "write" \in Steps
    BY Names DEF MoveBack
  <2> QED
    BY <1>1, <2>1, Typed, GotoMove
<1>3. funds' \in Funds
  <2> DEFINE n == sheet[job[j].p].gross
  <2>1. n \in Int
    BY <1>1, Typed DEF Sheet
  <2>2. funds' = [funds EXCEPT !.payable = funds.payable - n, !.merchant = funds.merchant + n]
    BY DEF MoveBack
  <2> HIDE DEF n
  <2> QED
    BY <2>1, <2>2, Typed, Moved
<1> QED
  BY <1>1, <1>2, <1>3, Typed, Sets, PlainMoves DEF MoveBack, Desk

LEMMA CancelledStep ==
    ASSUME EngineInv, NEW j \in Jobs, WriteCancelled(j)
    PROVE  EngineInv'
<1>1. job' = [job EXCEPT ![j] = Idle] /\ settled' = [settled EXCEPT ![job[j].p] = "CANCELLED"]
  BY EndMove DEF WriteCancelled, SetStatus
<1>2. /\ settled' \in [Settlements -> SettlementStatus]
      /\ \A t \in Settlements : settled'[t] \in Cleared => settled[t] \in Cleared
  BY <1>1, Typed DEF SettlementStatus, Cleared
<1> QED
  BY <1>1, <1>2, Typed, Sets, IdleJob, PlainMoves DEF WriteCancelled

LEMMA ReserveStep ==
    ASSUME EngineInv, NEW j \in Jobs, NEW s \in Settlements, ReleaseReserve(j, s)
    PROVE  EngineInv'
<1>1. PICK c \in Job : job' = [job EXCEPT ![j] = c] /\ c.op = "reserve" /\ c.step = "move" /\ c.p = s
  <2>1. Start(j, "reserve", "move", s) /\ "reserve" \in Ops /\ "move" \in Steps
    BY Names DEF ReleaseReserve
  <2> QED
    BY <2>1, StartMove
<1>2. Approved /\ s \in DualApproval => Pair(approvals[s])
  BY DEF ReleaseReserve, Approved, ReleasedOK, Cleared
<1> QED
  BY <1>1, <1>2, Typed, Sets, PlainMoves DEF ReleaseReserve, Desk

LEMMA MoveReserveStep ==
    ASSUME EngineInv, NEW j \in Jobs, MoveReserve(j)
    PROVE  EngineInv'
<1>1. job[j].op = "reserve" /\ job[j].p \in Payees /\ job[j].op \notin Desk
  BY DEF MoveReserve, Doing, EngineInv, Ledger, Safe, JobsOK, Desk
<1>2. PICK c \in Job : /\ job' = [job EXCEPT ![j] = c] /\ c.op = "reserve" /\ c.step = "write"
                       /\ c.p = job[j].p
  <2>1. Goto(j, "write") /\ "write" \in Steps
    BY Names DEF MoveReserve
  <2> QED
    BY <1>1, <2>1, Typed, GotoMove
<1>3. funds' \in Funds /\ booked \subseteq booked'
  <2>1. /\ \/ funds' = funds
           \/ funds' = [funds EXCEPT !.payable = funds.payable - Reserve,
                                     !.merchant = funds.merchant + Reserve]
        /\ booked \subseteq booked'
    BY DEF MoveReserve
  <2> QED
    BY <2>1, Typed, Sets, Moved
<1> QED
  BY <1>1, <1>2, <1>3, Typed, Sets, PastTheDesk, PlainMoves DEF MoveReserve

LEMMA ClearReserveStep ==
    ASSUME EngineInv, NEW j \in Jobs, ClearReserve(j)
    PROVE  EngineInv'
<1> DEFINE s == job[j].p
<1>1. job' = [job EXCEPT ![j] = Idle] /\ sheet' = [sheet EXCEPT ![s] = [sheet[s] EXCEPT !.held = FALSE]]
  BY EndMove DEF ClearReserve
<1>2. s \in Settlements => /\ [sheet[s] EXCEPT !.held = FALSE] \in Sheet
                           /\ [sheet[s] EXCEPT !.held = FALSE].approvedBy = sheet[s].approvedBy
  BY Typed DEF Sheet
<1> HIDE DEF s
<1>3. /\ sheet' \in [Settlements -> Sheet]
      /\ \A t \in Settlements : sheet'[t].approvedBy = sheet[t].approvedBy
  BY <1>1, <1>2, Typed
<1> QED
  BY <1>1, <1>3, Typed, Sets, IdleJob, PlainMoves DEF ClearReserve

(* Both ways to pay a settlement out start from a row that is PENDING. *)
LEMMA ExecuteStep ==
    ASSUME EngineInv, NEW j \in Jobs, NEW s \in Settlements, Execute(j, s)
    PROVE  EngineInv'
<1>1. PICK c \in Job : /\ job' = [job EXCEPT ![j] = c] /\ c.op = "execute" /\ c.p = s
                       /\ c.step \in {"debit", "settle failed"}
  <2>1. PICK step \in {"debit", "settle failed"} :
          job' = [job EXCEPT ![j] = [Idle EXCEPT !.op = "execute", !.p = s,
                                                 !.read = sheet[s].net, !.step = step]]
    BY DEF Execute
  <2> DEFINE c == [Idle EXCEPT !.op = "execute", !.p = s, !.read = sheet[s].net, !.step = step]
  <2>2. sheet[s].net \in Int
    BY Typed DEF Sheet
  <2>3. c \in Job /\ c.op = "execute" /\ c.p = s /\ c.step = step
    BY <2>1, <2>2, Names, IdleJob, Sets DEF Job
  <2> QED
    BY <2>1, <2>3
<1>2. settled[s] = "PENDING" /\ settled' = [settled EXCEPT ![s] = "PROCESSING"]
  BY DEF Execute, SetStatus
<1>3. /\ settled' \in [Settlements -> SettlementStatus]
      /\ \A t \in Settlements : settled'[t] \in Cleared => settled[t] \in Cleared
  BY <1>2, Typed DEF SettlementStatus, Cleared
<1>4. Approved /\ s \in DualApproval => Pair(approvals[s])
  BY <1>2 DEF Approved, ReleasedOK, Cleared
<1> QED
  BY <1>1, <1>3, <1>4, Typed, Sets, PlainMoves DEF Execute, Desk

LEMMA PayByHandStep ==
    ASSUME EngineInv, NEW j \in Jobs, NEW s \in Settlements, PayoutSettlement(j, s)
    PROVE  EngineInv'
<1>1. PICK c \in Job : /\ job' = [job EXCEPT ![j] = c] /\ c.op = "manual" /\ c.p = s
                       /\ c.step = "debit"
  <2> DEFINE c == [Idle EXCEPT !.op = "manual", !.p = s, !.read = sheet[s].net, !.step = "debit"]
  <2>1. sheet[s].net \in Int
    BY Typed DEF Sheet
  <2>2. c \in Job /\ c.op = "manual" /\ c.p = s /\ c.step = "debit"
    BY <2>1, Names, IdleJob, Sets DEF Job
  <2> QED
    BY <2>2 DEF PayoutSettlement
<1>2. Approved /\ s \in DualApproval => Pair(approvals[s])
  BY DEF PayoutSettlement, Approved, ReleasedOK, Cleared
<1> QED
  BY <1>1, <1>2, Typed, Sets, PlainMoves DEF PayoutSettlement, Desk

LEMMA DebitPayableStep ==
    ASSUME EngineInv, NEW j \in Jobs, DebitPayable(j)
    PROVE  EngineInv'
<1>1. job[j].op \in {"execute", "manual"} /\ job[j].p \in Payees /\ job[j].op \notin Desk
  BY DEF DebitPayable, At, EngineInv, Ledger, Safe, JobsOK, Desk
<1>2. PICK c \in Job : /\ job' = [job EXCEPT ![j] = c] /\ c.op = job[j].op /\ c.step = "create"
                       /\ c.p = job[j].p
  <2>1. Goto(j, "create") /\ "create" \in Steps
    BY Names DEF DebitPayable
  <2> QED
    BY <1>1, <2>1, Typed, GotoMove
<1>3. funds' \in Funds /\ booked \subseteq booked' /\ DebitKey(c.p) \in booked'
  <2>1. /\ \/ funds' = funds
           \/ funds' = [funds EXCEPT !.payable = funds.payable - job[j].read,
                                     !.clearing = funds.clearing + job[j].read]
        /\ booked \subseteq booked' /\ DebitKey(c.p) \in booked'
    BY <1>2 DEF DebitPayable
  <2>2. job[j].read \in Int
    BY Typed DEF Job
  <2> QED
    BY <2>1, <2>2, Typed, Moved
<1> QED
  BY <1>1, <1>2, <1>3, Typed, PastTheDesk, PlainMoves DEF DebitPayable

LEMMA MarkProcessingStep ==
    ASSUME EngineInv, NEW j \in Jobs, MarkProcessing(j)
    PROVE  EngineInv'
<1>1. job[j].step = "mark processing" /\ job[j].op \notin Desk
  BY DEF MarkProcessing, At, EngineInv, Ledger, DeskOK
<1>2. PICK c \in Job : /\ job' = [job EXCEPT ![j] = c] /\ c.op = job[j].op /\ c.step = "send"
                       /\ c.p = job[j].p
  <2>1. Goto(j, "send") /\ "send" \in Steps
    BY Names DEF MarkProcessing
  <2> QED
    BY <2>1, Typed, GotoMove
<1>3. settled' = [settled EXCEPT ![job[j].p] = "PROCESSING"]
  BY DEF MarkProcessing, SetStatus
<1>4. settled' \in [Settlements -> SettlementStatus]
  BY <1>3, Typed DEF SettlementStatus
<1>5. Approved => \A t \in DualApproval :
        settled'[t] \in Cleared => settled[t] \in Cleared \/ Pair(approvals[t])
  BY <1>1, <1>3, Typed, Sets, PastTheDesk
<1>6. c.op \notin {"approve", "calculate"} /\ c.op \notin Desk
  BY <1>1, <1>2 DEF Desk
<1> QED
  BY <1>1, <1>2, <1>4, <1>5, <1>6, Typed, PastTheDesk, PlainMoves DEF MarkProcessing

LEMMA OutcomeStep ==
    ASSUME EngineInv, NEW j \in Jobs, WriteOutcome(j)
    PROVE  EngineInv'
<1>1. job[j].step \in {"settle paid", "settle failed"} /\ job[j].op \notin Desk
  BY DEF WriteOutcome, EngineInv, Ledger, DeskOK
<1>2. PICK status \in {"PAID", "FAILED"} :
        job' = [job EXCEPT ![j] = Idle] /\ settled' = [settled EXCEPT ![job[j].p] = status]
  BY EndMove DEF WriteOutcome, SetStatus
<1>3. settled' \in [Settlements -> SettlementStatus]
  BY <1>2, Typed DEF SettlementStatus
<1>4. Approved => \A t \in DualApproval :
        settled'[t] \in Cleared => settled[t] \in Cleared \/ Pair(approvals[t])
  BY <1>1, <1>2, Typed, Sets, PastTheDesk
<1> QED
  BY <1>2, <1>3, <1>4, Typed, Sets, IdleJob, PlainMoves DEF WriteOutcome

----------------------------------------------------------------------------
(* What a step of the payouts means for the approvals: a job ends, goes on *)
(* with the payout it had, or starts on a withdrawal or an existing row.   *)

Follows(i) ==
    \/ job'[i] = job[i] \/ job'[i] = Idle
    \/ /\ job[i].step \notin {"idle", "move", "write"}
       /\ job'[i].op = job[i].op /\ job'[i].p = job[i].p
    \/ /\ job'[i].op \in {"withdraw", "webhook", "sweep"}
       /\ job'[i].p \in Withdrawals \/ Exists(job'[i].p)

LEMMA Advances ==
    ASSUME PayoutTypeOK, NEW j \in Jobs, job[j].step \notin {"idle", "move", "write"},
           \/ Finish(j) \/ job' = [job EXCEPT ![j] = Idle]
           \/ \E s \in Steps : Goto(j, s)
    PROVE  \A i \in Jobs : Follows(i)
<1>1. Others(j) /\ (job'[j] = Idle \/ (job'[j].op = job[j].op /\ job'[j].p = job[j].p))
  <2>1. CASE Finish(j)
    BY <2>1, FinishJob
  <2>2. CASE job' = [job EXCEPT ![j] = Idle]
    BY <2>2, EndJob
  <2>3. ASSUME NEW s \in Steps, Goto(j, s)
        PROVE  Others(j) /\ job'[j].op = job[j].op /\ job'[j].p = job[j].p
    BY <2>3, GotoJob
  <2> QED
    BY <2>1, <2>2, <2>3
<1> QED
  BY <1>1 DEF Follows, Others

LEMMA JobsFollow ==
    ASSUME PayoutTypeOK, PayoutNext
    PROVE  \A i \in Jobs : Follows(i)
<1>1. \A s \in {"create", "send", "mark processing", "mark paid", "mark failed", "pay settlement",
               "reverse", "fail settlement", "settle failed"} : s \in Steps
  BY DEF Steps
<1>2. ASSUME NEW j \in Jobs, DebitUser(j) \/ CreatePayout(j) \/ Verify(j)
      PROVE  \A i \in Jobs : Follows(i)
  BY <1>1, <1>2, Advances DEF DebitUser, CreatePayout, Verify, At
<1>3. ASSUME NEW j \in Jobs, Record(j) \/ MarkPaid(j) \/ MarkFailed(j)
      PROVE  \A i \in Jobs : Follows(i)
  BY <1>1, <1>3, Advances DEF Record, MarkPaid, MarkFailed, At
<1>4. ASSUME NEW j \in Jobs, PaySettlement(j) \/ FailSettlement(j) \/ Reverse(j)
      PROVE  \A i \in Jobs : Follows(i)
  BY <1>1, <1>4, Advances DEF PaySettlement, FailSettlement, Reverse, At
<1>5. ASSUME NEW j \in Jobs, Send(j)
      PROVE  \A i \in Jobs : Follows(i)
  <2>1. job[j].step = "send"
    BY <1>5 DEF Send, At
  <2>2. PICK said : job' = [job EXCEPT ![j] = [job[j] EXCEPT !.step = "mark failed", !.caught = TRUE]]
                 \/ job' = [job EXCEPT ![j] = [job[j] EXCEPT !.step = "record", !.said = said]]
    BY <1>5 DEF Send
  <2>3. job \in [Jobs -> Job] /\ job[j] \in Job
    BY JobFields
  <2>4. /\ job'[j] = [job[j] EXCEPT !.step = "mark failed", !.caught = TRUE]
           \/ job'[j] = [job[j] EXCEPT !.step = "record", !.said = said]
        /\ \A i \in Jobs : i # j => job'[i] = job[i]
    BY <2>2, <2>3
  <2>5. job'[j].op = job[j].op /\ job'[j].p = job[j].p
    BY <2>3, <2>4 DEF Job
  <2> QED
    BY <2>1, <2>4, <2>5 DEF Follows
<1>6. ASSUME NEW j \in Jobs, NEW w \in Withdrawals, Withdraw(j, w)
      PROVE  \A i \in Jobs : Follows(i)
  <2>1. Others(j) /\ job'[j].op = "withdraw" /\ job'[j].p = w
    BY <1>6, StartJob DEF Withdraw
  <2> QED
    BY <2>1 DEF Follows, Others
<1>7. ASSUME NEW j \in Jobs, NEW p \in Payees, TransferEvent(j, p) \/ Reconcile(j, p)
      PROVE  \A i \in Jobs : Follows(i)
  <2>1. Exists(p)
    BY <1>7 DEF TransferEvent, Reconcile, Exists
  <2>2. Others(j) /\ job'[j].op \in {"webhook", "sweep"} /\ job'[j].p = p
    BY <1>7, StartJob DEF TransferEvent, Reconcile
  <2> QED
    BY <2>1, <2>2 DEF Follows, Others
<1>8. CASE (\E p \in Payees : BankResolves(p)) \/ Crash
  BY <1>8 DEF BankResolves, Crash, Follows
<1> QED
  BY <1>2, <1>3, <1>4, <1>5, <1>6, <1>7, <1>8 DEF PayoutNext, PayoutStep, DispatchStep

(* A row appears where it was about to be created. *)
LEMMA RowsFollow ==
    ASSUME PayoutTypeOK, Safe, PayoutNext, NEW p \in Payees, payout'[p].status # "ABSENT"
    PROVE  Exists(p) \/ \E j \in Jobs : job[j].p = p /\ job[j].step = "create"
<1>1. ASSUME NEW j \in Jobs, CreatePayout(j)
      PROVE  Exists(p) \/ (job[j].p = p /\ job[j].step = "create")
  <2> DEFINE r == [status |-> "PROCESSING", coded |-> FALSE,
                   amount |-> IF job[j].p \in Withdrawals THEN Amount[job[j].p] ELSE job[j].read]
  <2>1. payout' = payout \/ payout' = [payout EXCEPT ![job[j].p] = r]
    BY <1>1 DEF CreatePayout
  <2> HIDE DEF r
  <2>2. job[j].step = "create"
    BY <1>1 DEF CreatePayout, At
  <2> QED
    BY <2>1, <2>2 DEF Exists, PayoutTypeOK
<1>2. ASSUME NEW j \in Jobs, Record(j) \/ MarkPaid(j) \/ MarkFailed(j)
      PROVE  Exists(p)
  <2>1. Exists(job[j].p) \/ payout' = payout
    BY <1>2 DEF Record, MarkPaid, MarkFailed, At, Safe, JobsOK, Exists
  <2>2. PICK r : payout' = payout \/ payout' = [payout EXCEPT ![job[j].p] = r]
    BY <1>2 DEF Record, MarkPaid, MarkFailed
  <2> QED
    BY <2>1, <2>2 DEF Exists, PayoutTypeOK
<1>3. CASE payout' = payout
  BY <1>3 DEF Exists
<1> QED
  BY <1>1, <1>2, <1>3
     DEF PayoutNext, PayoutStep, DispatchStep, DebitUser, Send, PaySettlement, Reverse,
         FailSettlement, Verify, Withdraw, TransferEvent, Reconcile, BankResolves, Crash

(* A settlement is released where its payout was just marked paid. *)
LEMMA SettledFollows ==
    ASSUME PayoutTypeOK, PayoutNext, NEW s \in Settlements, settled'[s] \in Cleared
    PROVE  settled[s] \in Cleared \/ \E j \in Jobs : job[j].p = s /\ job[j].step = "pay settlement"
<1>1. ASSUME NEW j \in Jobs, PaySettlement(j)
      PROVE  settled[s] \in Cleared \/ (job[j].p = s /\ job[j].step = "pay settlement")
  BY <1>1 DEF PaySettlement, At
<1>2. ASSUME NEW j \in Jobs, FailSettlement(j)
      PROVE  settled[s] \in Cleared
  BY <1>2 DEF FailSettlement, Cleared
<1>3. CASE settled' = settled
  BY <1>3
<1> QED
  BY <1>1, <1>2, <1>3
     DEF PayoutNext, PayoutStep, DispatchStep, DebitUser, CreatePayout, Send, Record, MarkPaid,
         MarkFailed, Reverse, Verify, Withdraw, TransferEvent, Reconcile, BankResolves, Crash

LEMMA PayoutsStep ==
    ASSUME EngineInv, PayoutNext, UNCHANGED <<sheet, approvals, cancels>>
    PROVE  EngineInv'
<1>1. PayoutTypeOK /\ Safe /\ SheetTypeOK /\ DeskOK /\ PayoutTypeOK' /\ Safe' /\ SheetTypeOK'
  BY TypeStep, SafeStep DEF EngineInv, Ledger, Inv, SheetTypeOK
<1>2. \A i \in Jobs : Follows(i)
  BY <1>1, JobsFollow
<1>3. ASSUME NEW i \in Jobs PROVE job'[i] = job[i] \/ job'[i].op \notin Desk
  BY <1>1, <1>2, IdleJob DEF Follows, DeskOK, Desk
<1>4. DeskOK'
  BY <1>1, <1>3 DEF DeskOK, Desk
<1>5. ASSUME Approved PROVE Approved'
  <2>1. \A s \in DualApproval : Exists(s) => Pair(approvals[s])
    BY <1>5 DEF Approved, ReleasedOK
  <2>2. \A i \in Jobs : job'[i].p \in DualApproval /\ job'[i].op \notin Desk
                          => Pair(approvals[job'[i].p])
    <3> SUFFICES ASSUME NEW i \in Jobs, job'[i].p \in DualApproval, job'[i].op \notin Desk
                 PROVE  Pair(approvals[job'[i].p])
      OBVIOUS
    <3>1. job'[i] # Idle /\ job'[i].p \notin Withdrawals
      BY IdleJob, Sets
    <3>2. CASE Exists(job'[i].p)
      BY <2>1, <3>2
    <3>3. CASE job'[i].op = job[i].op /\ job'[i].p = job[i].p
      BY <1>5, <3>3 DEF Approved, WorkOK
    <3> QED
      BY <1>2, <3>1, <3>2, <3>3 DEF Follows
  <2>3. \A j \in Jobs : job[j].step \in {"create", "pay settlement"} /\ job[j].p \in DualApproval
                          => Pair(approvals[job[j].p])
    BY <1>1, <1>5 DEF DeskOK, Approved, WorkOK
  <2>4. ReleasedOK'
    <3> SUFFICES ASSUME NEW s \in DualApproval, settled'[s] \in Cleared \/ payout'[s].status # "ABSENT"
                 PROVE  Pair(approvals[s])
      BY DEF ReleasedOK, Exists
    <3>1. s \in Settlements /\ s \in Payees
      BY Sets
    <3>2. CASE settled'[s] \in Cleared
      <4>1. settled[s] \in Cleared \/ \E j \in Jobs : job[j].p = s /\ job[j].step = "pay settlement"
        BY <1>1, <3>1, <3>2, SettledFollows
      <4> QED
        BY <1>5, <2>3, <4>1 DEF Approved, ReleasedOK
    <3>3. CASE payout'[s].status # "ABSENT"
      <4>1. Exists(s) \/ \E j \in Jobs : job[j].p = s /\ job[j].step = "create"
        BY <1>1, <3>1, <3>3, RowsFollow
      <4> QED
        BY <2>1, <2>3, <4>1
    <3> QED
      BY <3>2, <3>3
  <2>5. WorkOK'
    BY <2>2 DEF WorkOK
  <2>6. ASSUME NEW i \in Jobs PROVE ApproverOK(job'[i], approvals[job'[i].p])
    <3>1. CASE job'[i] = job[i]
      BY <1>5, <3>1 DEF Approved, ApproversOK
    <3>2. CASE job'[i].op \notin Desk
      BY <3>2 DEF ApproverOK, Desk
    <3> QED
      BY <1>3, <3>1, <3>2
  <2>7. ApproversOK'
    BY <1>5, <2>6 DEF Approved, ApproversOK, ApproverOK
  <2> QED
    BY <2>4, <2>5, <2>7 DEF Approved
<1> QED
  BY <1>1, <1>4, <1>5 DEF EngineInv, Ledger, NoBypass

----------------------------------------------------------------------------
LEMMA EngineNext == ASSUME EngineInv, Next PROVE EngineInv'
<1>1. ASSUME NEW j \in Jobs, SettlementStep(j) PROVE EngineInv'
  BY <1>1, ToPayableStep, CreateSettlementStep, WriteApprovalStep, MoveBackStep, CancelledStep,
     DebitPayableStep, MarkProcessingStep, OutcomeStep, MoveReserveStep, ClearReserveStep
     DEF SettlementStep
<1>2. ASSUME NEW j \in Jobs, NEW s \in Settlements,
             \/ Calculate(j, s) \/ Cancel(j, s) \/ Execute(j, s)
             \/ PayoutSettlement(j, s) \/ ReleaseReserve(j, s)
             \/ \E u \in Staff : Approve(j, s, u)
      PROVE  EngineInv'
  BY <1>2, CalculateStep, CancelStep, ExecuteStep, PayByHandStep, ReserveStep, ApproveStep
<1>3. CASE PayoutNext /\ UNCHANGED <<sheet, approvals, cancels>>
  BY <1>3, PayoutsStep
<1> QED
  BY <1>1, <1>2, <1>3 DEF Next

LEMMA EngineInvHolds == Spec => []EngineInv
<1>1. Init => EngineInv
  BY EngineInitInv
<1>2. EngineInv /\ [Next]_vars => EngineInv'
  <2> SUFFICES ASSUME EngineInv, [Next]_vars PROVE EngineInv'
    OBVIOUS
  <2>1. CASE Next
    BY <2>1, EngineNext
  <2>2. CASE UNCHANGED vars
    <3>1. PayoutTypeOK' /\ SheetTypeOK' /\ DeskOK'
      BY <2>2 DEF EngineInv, Ledger, PayoutTypeOK, SheetTypeOK, DeskOK, vars
    <3>2. Safe'
      BY <2>2, QuietStep DEF EngineInv, Ledger, Quiet, vars
    <3>3. ASSUME Approved PROVE Approved'
      BY <2>2, <3>3 DEF Approved, ReleasedOK, WorkOK, ApproversOK, ApproverOK, Exists, vars
    <3> QED
      BY <3>1, <3>2, <3>3 DEF EngineInv, Ledger, NoBypass
  <2> QED
    BY <2>1, <2>2
<1> QED
  BY <1>1, <1>2, PTL DEF Spec

(* With the settlement engine on top of them the payouts keep their types: *)
(* ledger, rows, settlements and jobs of both services.                    *)
THEOREM EngineTypeCorrect == Spec => []PayoutTypeOK
<1>1. EngineInv => PayoutTypeOK
  BY DEF EngineInv, Ledger
<1> QED
  BY <1>1, EngineInvHolds, PTL

(* execute, the due run and the manual payout all go through the payout    *)
(* row: however they race with each other, with webhooks and sweeps or are *)
(* killed, the bank gets at most one transfer per ledger debit.            *)
THEOREM EngineSendsOnce == Spec => []OneTransferPerKey
<1>1. EngineInv => OneTransferPerKey
  BY SafeSuffices DEF EngineInv, Ledger, Inv
<1> QED
  BY <1>1, EngineInvHolds, PTL

(* approve's dual-approval rule: no settlement under it is released before *)
(* two different people approved, for any number of them, of overlapping   *)
(* requests and of crashes, as long as no settlement under the rule is     *)
(* created by the pay route, which does not look at the rule.              *)
THEOREM EngineTwoApprovers == Spec => [](NoBypass => TwoApprovers)
<1>1. EngineInv => (NoBypass => TwoApprovers)
  BY DEF EngineInv, Approved, ReleasedOK, Cleared, Pair, TwoApprovers
<1> QED
  BY <1>1, EngineInvHolds, PTL

----------------------------------------------------------------------------
(* Where a step takes a job, with all it carries. *)

Same(c, d) == /\ c.op = d.op /\ c.p = d.p /\ c.read = d.read
              /\ c.caught = d.caught /\ c.said = d.said

LEMMA GotoAll ==
    ASSUME PayoutTypeOK, NEW j \in Jobs, NEW s, Goto(j, s)
    PROVE  Others(j) /\ job'[j].step = s /\ Same(job'[j], job[j])
<1>1. job' = [job EXCEPT ![j] = [job[j] EXCEPT !.step = s]]
  BY JobFields DEF Goto, Job
<1>2. job'[j] = [job[j] EXCEPT !.step = s] /\ Others(j)
  BY <1>1, JobFields DEF Others
<1>3. job[j] \in Job
  BY JobFields
<1> QED
  BY <1>2, <1>3 DEF Job, Same

LEMMA FinishAll ==
    ASSUME PayoutTypeOK, NEW j \in Jobs, Finish(j)
    PROVE  /\ Others(j)
           /\ \/ job'[j] = Idle
              \/ Same(job'[j], job[j]) /\ job'[j].step \in {"settle failed", "settle paid"}
<1>1. job' = [job EXCEPT ![j] = IF job[j].op = "execute"
                 THEN [job[j] EXCEPT !.step = IF job[j].caught THEN "settle failed" ELSE "settle paid"]
                 ELSE Idle]
  BY JobFields DEF Finish
<1>2. Others(j)
  BY <1>1, JobFields DEF Others
<1>3. \/ job'[j] = Idle
      \/ job'[j] = [job[j] EXCEPT !.step = "settle failed"]
      \/ job'[j] = [job[j] EXCEPT !.step = "settle paid"]
  BY <1>1, JobFields
<1>4. job[j] \in Job
  BY JobFields
<1> QED
  BY <1>2, <1>3, <1>4 DEF Job, Same

LEMMA StartAll ==
    ASSUME PayoutTypeOK, NEW j \in Jobs, NEW op, NEW s, NEW p, Start(j, op, s, p)
    PROVE  /\ Others(j) /\ job[j] = Idle
           /\ job'[j].step = s /\ job'[j].p = p /\ job'[j].op = op
           /\ job'[j].read = 0 /\ job'[j].caught = FALSE /\ job'[j].said = "PROCESSING"
<1>1. job'[j] = [Idle EXCEPT !.op = op, !.step = s, !.p = p] /\ Others(j) /\ job[j] = Idle
  BY JobFields DEF Start, Others
<1> QED
  BY <1>1 DEF Idle

(* Send leaves the job waiting to record the answer, or to mark a failure. *)
LEMMA SendJob ==
    ASSUME PayoutTypeOK, NEW j \in Jobs, Send(j)
    PROVE  /\ Others(j) /\ job[j].step = "send" /\ job'[j].p = job[j].p
           /\ job'[j].op = job[j].op /\ job'[j].read = job[j].read
           /\ \/ /\ job'[j].step = "mark failed" /\ job'[j].caught
                 /\ job'[j].said = job[j].said
              \/ /\ job'[j].step = "record" /\ job'[j].caught = job[j].caught
                 /\ job'[j].said = "PAID" => bank' = [bank EXCEPT ![job[j].p] = "paid"]
<1>1. job \in [Jobs -> Job] /\ job[j] \in Job /\ job[j].step = "send"
  BY JobFields DEF Send, At
<1>2. PICK a \in GatewayAnswers :
        /\ bank' = [bank EXCEPT ![job[j].p] = CASE a = "pays" -> "paid"
                                                [] a = "declines" -> "failed"
                                                [] a = "errors" -> bank[job[j].p]
                                                [] OTHER -> "pending"]
        /\ job' = [job EXCEPT ![j] =
             IF a \in {"errors", "times out"}
             THEN [@ EXCEPT !.step = "mark failed", !.caught = TRUE]
             ELSE [@ EXCEPT !.step = "record",
                            !.said = CASE a = "pays" -> "PAID" [] a = "declines" -> "FAILED"
                                       [] OTHER -> "PROCESSING"]]
  BY DEF Send
<1>3. CASE a \in {"errors", "times out"}
  <2>1. Others(j) /\ job'[j] = [job[j] EXCEPT !.step = "mark failed", !.caught = TRUE]
    BY <1>1, <1>2, <1>3 DEF Others
  <2> QED
    BY <1>1, <2>1 DEF Job
<1>4. CASE a \notin {"errors", "times out"}
  <2>1. PICK said : /\ said = CASE a = "pays" -> "PAID" [] a = "declines" -> "FAILED"
                                [] OTHER -> "PROCESSING"
    OBVIOUS
  <2>2. Others(j) /\ job'[j] = [job[j] EXCEPT !.step = "record", !.said = said]
    BY <1>1, <1>2, <1>4, <2>1 DEF Others
  <2>3. said = "PAID" => a = "pays"
    BY <2>1
  <2>4. said = "PAID" => bank' = [bank EXCEPT ![job[j].p] = "paid"]
    BY <1>2, <2>3
  <2> QED
    BY <1>1, <2>2, <2>4 DEF Job
<1> QED
  BY <1>3, <1>4

----------------------------------------------------------------------------
(* The account of the business.  A settlement keeps its gross amount, less *)
(* the reserve once that is given back; what the merchant wallet shows,    *)
(* what the settlements keep and what a calculation has taken and not yet  *)
(* recorded add up to what the business earned.                            *)

(* A settlement that has no row yet: only a calculation is about it. *)
Fresh(s) == /\ sheet[s] = Blank /\ ~Exists(s) /\ ReleaseKey(s) \notin booked
            /\ \A j \in Jobs : job[j].p = s => job[j].op = "calculate"

(* What was held back from a settlement is there to be given back. *)
Holds(s) == sheet[s].net + Reserve <= sheet[s].gross

SheetOK == \A s \in Settlements :
    /\ sheet[s].net \in Nat /\ sheet[s].gross \in Nat /\ sheet[s].net <= sheet[s].gross
    /\ settled[s] = "ABSENT" => Fresh(s)
    /\ Exists(s) => payout[s].amount = sheet[s].net
    /\ ~Exists(s) => payout[s].amount = 0
    /\ sheet[s].held \/ ReleaseKey(s) \in booked => Holds(s)

DealOK(j) ==
    LET c == job[j] IN
    /\ c.op = "calculate" => /\ c.p \in Settlements /\ settled[c.p] = "ABSENT" /\ c.read \in Nat
                             /\ ~c.caught => Fee + Reserve <= c.read
                             /\ \A i \in Jobs : job[i].p = c.p => i = j
    /\ c.op \in {"execute", "manual"} => c.p \in Settlements /\ c.read = sheet[c.p].net
    /\ c.step = "create" => c.op \in {"withdraw", "execute", "manual"}
    /\ c.op = "reserve" => c.p \in Settlements /\ Holds(c.p)
    /\ c.op = "cancel" => cancels > 0

(* What a settlement keeps from the business, and what is on its way into  *)
(* a row that is not written yet.                                          *)
Kept == [s \in Settlements |-> sheet[s].gross - IF ReleaseKey(s) \in booked THEN Reserve ELSE 0]
Moving(c) == IF c.op = "calculate" /\ c.step = "write" THEN c.read ELSE 0
Transit == [j \in Jobs |-> Moving(job[j])]

Earned == funds.merchant + SumFunctionOnSet(Kept, Settlements) + SumFunctionOnSet(Transit, Jobs)

MerchantAccount == cancels = 0 => /\ Earned <= MerchantOpening
                                  /\ crashes = 0 => Earned = MerchantOpening

BusinessInv == cancels \in Nat /\ SheetOK /\ (\A j \in Jobs : DealOK(j)) /\ MerchantAccount

(* What a job that has moved must look like, the sheets being what they    *)
(* were: a calculation goes on with what it read, every other operation is *)
(* about a withdrawal or a settlement that has its row.                    *)
FitsDeal(c, d) ==
    /\ c.op = "calculate" => d.op = "calculate" /\ c.p = d.p /\ c.read = d.read /\ c.caught = d.caught
    /\ c.op # "calculate" /\ c.p \in Settlements => settled[c.p] # "ABSENT"
    /\ c.op \in {"execute", "manual"} => c.p \in Settlements /\ c.read = sheet[c.p].net
    /\ c.step = "create" => c.op \in {"withdraw", "execute", "manual"}
    /\ c.op = "reserve" => c.p \in Settlements /\ Holds(c.p)
    /\ c.op = "cancel" => cancels' > 0

SheetsKept == \A s \in Settlements :
    /\ sheet'[s].net = sheet[s].net /\ sheet'[s].gross = sheet[s].gross
    /\ sheet'[s].held => sheet[s].held
    /\ settled[s] = "ABSENT" => sheet'[s] = sheet[s]
    /\ settled'[s] = "ABSENT" <=> settled[s] = "ABSENT"
    /\ ReleaseKey(s) \in booked' => ReleaseKey(s) \in booked \/ (settled[s] # "ABSENT" /\ Holds(s))
    /\ \/ (payout'[s].status # "ABSENT" <=> Exists(s)) /\ payout'[s].amount = payout[s].amount
       \/ /\ settled[s] # "ABSENT" /\ payout'[s].status # "ABSENT"
          /\ payout'[s].amount = sheet[s].net

Deals == SheetOK /\ \A j \in Jobs : DealOK(j)

(* A step keeps the deals when the sheets are what the jobs were about and *)
(* each job fits what it was.                                              *)
LEMMA DealsCarry ==
    ASSUME Deals, SheetsKept, \A i \in Jobs : job'[i] = job[i] \/ FitsDeal(job'[i], job[i]),
           cancels > 0 => cancels' > 0
    PROVE  Deals'
<1>1. \A s \in Settlements : Holds(s)' <=> Holds(s)
  BY DEF Holds, SheetsKept
<1>2. ASSUME NEW s \in Settlements, settled[s] = "ABSENT" PROVE Fresh(s)'
  <2>1. Fresh(s) /\ sheet'[s] = sheet[s] /\ ReleaseKey(s) \notin booked' /\ payout'[s].status = "ABSENT"
    BY <1>2 DEF Deals, SheetOK, SheetsKept, Fresh, Exists
  <2>2. ASSUME NEW i \in Jobs, job'[i].p = s PROVE job'[i].op = "calculate"
    BY <1>2, <2>1, <2>2 DEF FitsDeal, Fresh
  <2> QED
    BY <2>1, <2>2 DEF Fresh, Exists, Blank, ReleaseKey
<1>3. SheetOK'
  <2> SUFFICES ASSUME NEW s \in Settlements
               PROVE  /\ sheet'[s].net \in Nat /\ sheet'[s].gross \in Nat
                      /\ sheet'[s].net <= sheet'[s].gross
                      /\ settled'[s] = "ABSENT" => Fresh(s)'
                      /\ payout'[s].status # "ABSENT" => payout'[s].amount = sheet'[s].net
                      /\ ~(payout'[s].status # "ABSENT") => payout'[s].amount = 0
                      /\ sheet'[s].held \/ ReleaseKey(s) \in booked' => Holds(s)'
    BY DEF SheetOK, Exists, ReleaseKey
  <2>1. settled'[s] = "ABSENT" => Fresh(s)'
    BY <1>2 DEF SheetsKept
  <2>2. sheet'[s].held \/ ReleaseKey(s) \in booked' => Holds(s)'
    BY <1>1 DEF SheetsKept, Deals, SheetOK
  <2>3. /\ payout'[s].status # "ABSENT" => payout'[s].amount = sheet'[s].net
        /\ ~(payout'[s].status # "ABSENT") => payout'[s].amount = 0
    BY DEF SheetsKept, Deals, SheetOK, Exists
  <2>4. /\ sheet'[s].net \in Nat /\ sheet'[s].gross \in Nat /\ sheet'[s].net <= sheet'[s].gross
    BY DEF SheetsKept, Deals, SheetOK
  <2> QED
    BY <2>1, <2>2, <2>3, <2>4
<1>4. ASSUME NEW i \in Jobs PROVE DealOK(i)'
  <2> DEFINE c == job'[i]
  <2>1. DealOK(i)
    BY DEF Deals
  <2>2. c.op = "calculate" => /\ job[i].op = "calculate" /\ c.p = job[i].p
                              /\ c.read = job[i].read /\ c.caught = job[i].caught
    BY DEF FitsDeal
  <2>3. ASSUME c.op = "calculate"
        PROVE  /\ c.p \in Settlements /\ settled'[c.p] = "ABSENT" /\ c.read \in Nat
               /\ ~c.caught => Fee + Reserve <= c.read
               /\ \A h \in Jobs : job'[h].p = c.p => h = i
    <3>1. /\ c.p \in Settlements /\ settled[c.p] = "ABSENT" /\ c.read \in Nat /\ (~c.caught => Fee + Reserve <= c.read)
          /\ \A h \in Jobs : job[h].p = c.p => h = i
      BY <2>1, <2>2, <2>3 DEF DealOK
    <3>2. ASSUME NEW h \in Jobs, job'[h].p = c.p PROVE h = i
      BY <2>3, <3>1, <3>2 DEF FitsDeal
    <3> QED
      BY <2>3, <3>1, <3>2 DEF SheetsKept
  <2>4. CASE c = job[i]
    BY <1>1, <2>1, <2>3, <2>4 DEF DealOK, SheetsKept
  <2>5. CASE FitsDeal(c, job[i])
    <3>1. /\ c.op \in {"execute", "manual"} => c.p \in Settlements /\ c.read = sheet'[c.p].net
          /\ c.step = "create" => c.op \in {"withdraw", "execute", "manual"}
          /\ c.op = "reserve" => c.p \in Settlements
          /\ c.op = "reserve" => sheet'[c.p].net + Reserve <= sheet'[c.p].gross
          /\ c.op = "cancel" => cancels' > 0
      BY <2>5 DEF FitsDeal, SheetsKept, Holds
    <3> QED
      BY <2>3, <3>1 DEF DealOK, Holds
  <2> QED
    BY <2>4, <2>5
<1> QED
  BY <1>3, <1>4 DEF Deals

LEMMA IdleFits == ASSUME NEW d PROVE FitsDeal(Idle, d)
<1>1. Idle.op = "none" /\ Idle.p = NoPayout /\ Idle.step = "idle" /\ NoPayout \notin Settlements
  BY IdleJob, PayoutAssumption, Zenon
<1> QED
  BY <1>1 DEF FitsDeal

(* A job past the desk goes on with its settlement. *)
LEMMA WorkFits ==
    ASSUME DeskOK, Deals, NEW j \in Jobs, job[j].step \notin {"idle", "move", "write"},
           NEW c, Same(c, job[j]), c.step = "create" => c.op \in {"withdraw", "execute", "manual"}
    PROVE  FitsDeal(c, job[j])
<1>1. job[j].op \notin Desk /\ job[j].op # "calculate" /\ job[j].op # "cancel"
  BY DEF DeskOK, Desk
<1>2. c.op = job[j].op /\ c.p = job[j].p /\ c.read = job[j].read
  BY DEF Same
<1>3. c.p \in Settlements => settled[c.p] # "ABSENT"
  BY <1>1, <1>2 DEF Deals, SheetOK, Fresh
<1>4. DealOK(j)
  BY DEF Deals
<1> QED
  BY <1>1, <1>2, <1>3, <1>4 DEF FitsDeal, DealOK

LEMMA AdvancesFit ==
    ASSUME PayoutTypeOK, DeskOK, Deals, NEW j \in Jobs,
           job[j].step \notin {"idle", "move", "write"},
           \/ Finish(j) \/ job' = [job EXCEPT ![j] = Idle]
           \/ \E s : Goto(j, s) /\ (s = "create" => job[j].op \in {"withdraw", "execute", "manual"})
    PROVE  \A i \in Jobs : job'[i] = job[i] \/ FitsDeal(job'[i], job[i])
<1>1. Others(j) /\ FitsDeal(job'[j], job[j])
  <2>1. CASE Finish(j)
    <3>1. /\ Others(j)
          /\ \/ job'[j] = Idle
             \/ Same(job'[j], job[j]) /\ job'[j].step \in {"settle failed", "settle paid"}
      BY <2>1, FinishAll
    <3>2. CASE job'[j] = Idle
      BY <3>1, <3>2, IdleFits
    <3>3. CASE Same(job'[j], job[j]) /\ job'[j].step \in {"settle failed", "settle paid"}
      <4>1. job'[j].step # "create"
        BY <3>3
      <4> QED
        BY <3>1, <3>3, <4>1, WorkFits
    <3> QED
      BY <3>1, <3>2, <3>3
  <2>2. CASE job' = [job EXCEPT ![j] = Idle]
    BY <2>2, EndJob, IdleFits
  <2>3. ASSUME NEW s, Goto(j, s), s = "create" => job[j].op \in {"withdraw", "execute", "manual"}
        PROVE  Others(j) /\ FitsDeal(job'[j], job[j])
    <3>1. Others(j) /\ job'[j].step = s /\ Same(job'[j], job[j])
      BY <2>3, GotoAll
    <3>2. job'[j].step = "create" => job'[j].op \in {"withdraw", "execute", "manual"}
      BY <2>3, <3>1 DEF Same
    <3> QED
      BY <3>1, <3>2, WorkFits
  <2> QED
    BY <2>1, <2>2, <2>3
<1> QED
  BY <1>1 DEF Others

LEMMA StartFits ==
    ASSUME Deals, NEW c, NEW d, c.op \in {"withdraw", "webhook", "sweep"}, c.step # "create",
           c.p \in Withdrawals \/ Exists(c.p)
    PROVE  FitsDeal(c, d)
<1>1. Withdrawals \cap Settlements = {}
  BY PayoutAssumption, Zenon
<1>2. c.p \in Settlements => settled[c.p] # "ABSENT"
  BY <1>1 DEF Deals, SheetOK, Fresh
<1> QED
  BY <1>2 DEF FitsDeal

LEMMA PayoutJobsFit ==
    ASSUME PayoutTypeOK, Safe, DeskOK, Deals, PayoutNext
    PROVE  \A i \in Jobs : job'[i] = job[i] \/ FitsDeal(job'[i], job[i])
<1> DEFINE AllFit == \A i \in Jobs : job'[i] = job[i] \/ FitsDeal(job'[i], job[i])
<1>1. ASSUME NEW j \in Jobs, DebitUser(j) PROVE AllFit
  <2>1. job[j].step = "debit" /\ job[j].op = "withdraw"
    BY <1>1 DEF DebitUser, At
  <2>2. Goto(j, "create") \/ job' = [job EXCEPT ![j] = Idle]
    BY <1>1 DEF DebitUser
  <2> QED
    BY <2>1, <2>2, AdvancesFit
<1>2. ASSUME NEW j \in Jobs, CreatePayout(j) \/ Verify(j) \/ Reverse(j) PROVE AllFit
  <2>1. job[j].step \in {"create", "verify", "reverse"}
    BY <1>2 DEF CreatePayout, Verify, Reverse, At
  <2>2. \/ job' = [job EXCEPT ![j] = Idle]
        \/ \E s \in {"settle failed", "mark processing", "send", "mark paid", "mark failed",
                     "fail settlement"} : Goto(j, s)
    BY <1>2 DEF CreatePayout, Verify, Reverse
  <2>3. \/ job' = [job EXCEPT ![j] = Idle]
        \/ \E s : Goto(j, s) /\ s # "create"
    BY <2>2
  <2>4. job[j].step \notin {"idle", "move", "write"}
    BY <2>1
  <2> QED
    BY <2>3, <2>4, AdvancesFit
<1>3. ASSUME NEW j \in Jobs, Record(j) \/ MarkPaid(j) \/ MarkFailed(j) PROVE AllFit
  <2>1. job[j].step \in {"record", "mark paid", "mark failed"}
    BY <1>3 DEF Record, MarkPaid, MarkFailed, At
  <2>2. Finish(j) \/ \E s \in {"mark paid", "mark failed", "pay settlement", "reverse"} : Goto(j, s)
    BY <1>3 DEF Record, MarkPaid, MarkFailed
  <2>3. Finish(j) \/ \E s : Goto(j, s) /\ s # "create"
    BY <2>2
  <2>4. job[j].step \notin {"idle", "move", "write"}
    BY <2>1
  <2> QED
    BY <2>3, <2>4, AdvancesFit
<1>4. ASSUME NEW j \in Jobs, PaySettlement(j) \/ FailSettlement(j) PROVE AllFit
  <2>1. job[j].step \in {"pay settlement", "fail settlement"} /\ Finish(j)
    BY <1>4 DEF PaySettlement, FailSettlement, At
  <2>2. job[j].step \notin {"idle", "move", "write"}
    BY <2>1
  <2> QED
    BY <2>1, <2>2, AdvancesFit
<1>5. ASSUME NEW j \in Jobs, Send(j) PROVE AllFit
  <2>1. /\ Others(j) /\ job[j].step = "send" /\ job'[j].p = job[j].p
        /\ job'[j].op = job[j].op /\ job'[j].read = job[j].read /\ job'[j].step # "create"
    BY <1>5, SendJob
  <2>2. job[j].op \notin Desk /\ job[j].op # "calculate" /\ job[j].op # "cancel"
    BY <2>1 DEF DeskOK, Desk
  <2>3. job[j].p \in Settlements => settled[job[j].p] # "ABSENT"
    BY <2>2 DEF Deals, SheetOK, Fresh
  <2>4. DealOK(j)
    BY DEF Deals
  <2>5. FitsDeal(job'[j], job[j])
    BY <2>1, <2>2, <2>3, <2>4 DEF FitsDeal, DealOK
  <2> QED
    BY <2>1, <2>5 DEF Others
<1>6. ASSUME NEW j \in Jobs, NEW w \in Withdrawals, Withdraw(j, w) PROVE AllFit
  <2>1. Others(j) /\ job'[j].op = "withdraw" /\ job'[j].p = w /\ job'[j].step = "debit"
    BY <1>6, StartAll DEF Withdraw
  <2> QED
    BY <2>1, StartFits DEF Others
<1>7. ASSUME NEW j \in Jobs, NEW p \in Payees, TransferEvent(j, p) \/ Reconcile(j, p) PROVE AllFit
  <2>1. Exists(p)
    BY <1>7 DEF TransferEvent, Reconcile, Exists
  <2>2. PICK op, s : /\ op \in {"webhook", "sweep"} /\ s \in {"mark paid", "mark failed", "verify"}
                     /\ Start(j, op, s, p)
    BY <1>7 DEF TransferEvent, Reconcile
  <2>3. s # "create"
    BY <2>2
  <2>4. Others(j) /\ job'[j].op \in {"webhook", "sweep"} /\ job'[j].p = p /\ job'[j].step # "create"
    BY <2>2, <2>3, StartAll
  <2> QED
    BY <2>1, <2>4, StartFits DEF Others
<1>8. ASSUME NEW p \in Payees, BankResolves(p) PROVE AllFit
  BY <1>8 DEF BankResolves
<1>9. CASE Crash
  BY <1>9, IdleFits DEF Crash
<1> QED
  BY <1>1, <1>2, <1>3, <1>4, <1>5, <1>6, <1>7, <1>8, <1>9 DEF PayoutNext, PayoutStep, DispatchStep

(* The ledger keys of debits, reversals and releases never meet.           *)
LEMMA KeysDiffer ==
    /\ \A s, p : ReleaseKey(s) # ReversalKey(p) /\ ReleaseKey(s) # DebitKey(p)
    /\ \A p, q : ReversalKey(p) # DebitKey(q)
    /\ \A p, q : ReversalKey(p) = ReversalKey(q) => p = q
    /\ \A s, t : ReleaseKey(s) = ReleaseKey(t) => s = t
  BY DEF ReleaseKey, ReversalKey, DebitKey

(* What a step of the payouts books, and whom it pays. *)
LEMMA PayoutBooks ==
    ASSUME PayoutTypeOK, PayoutNext
    PROVE  /\ \A s \in Settlements : ReleaseKey(s) \in booked' <=> ReleaseKey(s) \in booked
           /\ funds'.merchant = funds.merchant
<1>1. funds \in Funds
  BY DEF PayoutTypeOK
<1>2. ASSUME NEW j \in Jobs, DebitUser(j) \/ Reverse(j)
      PROVE  /\ \E p : booked' \in {booked, booked \cup {DebitKey(p)}, booked \cup {ReversalKey(p)}}
             /\ funds'.merchant = funds.merchant
  BY <1>1, <1>2 DEF DebitUser, Reverse, Funds
<1>3. ASSUME NEW p, booked' \in {booked, booked \cup {DebitKey(p)}, booked \cup {ReversalKey(p)}}
      PROVE  \A s \in Settlements : ReleaseKey(s) \in booked' <=> ReleaseKey(s) \in booked
  BY <1>3, KeysDiffer
<1>4. CASE booked' = booked /\ funds' = funds
  BY <1>4
<1>5. \/ \E j \in Jobs : DebitUser(j) \/ Reverse(j)
      \/ booked' = booked /\ funds' = funds
  BY DEF PayoutNext, PayoutStep, DispatchStep, CreatePayout, Send, Record, MarkPaid, PaySettlement,
         MarkFailed, FailSettlement, Verify, Withdraw, TransferEvent, Reconcile, BankResolves, Crash
<1> QED
  BY <1>2, <1>3, <1>4, <1>5

(* Rows keep their amounts; a new one is for the net amount of its sheet. *)
LEMMA PayoutAmounts ==
    ASSUME PayoutTypeOK, Safe, DeskOK, Deals, PayoutNext, NEW s \in Settlements
    PROVE  \/ (payout'[s].status # "ABSENT" <=> Exists(s)) /\ payout'[s].amount = payout[s].amount
           \/ /\ settled[s] # "ABSENT" /\ payout'[s].status # "ABSENT"
              /\ payout'[s].amount = sheet[s].net
<1> DEFINE Kept1 == (payout'[s].status # "ABSENT" <=> Exists(s)) /\ payout'[s].amount = payout[s].amount
<1>0. s \in Payees /\ s \notin Withdrawals /\ payout[s] \in Row
  <2>1. s \in Payees /\ s \notin Withdrawals
    BY PayoutAssumption, Zenon DEF Payees
  <2> QED
    BY <2>1, RowType
<1>1. ASSUME NEW j \in Jobs, CreatePayout(j)
      PROVE  \/ Kept1
             \/ /\ settled[s] # "ABSENT" /\ payout'[s].status # "ABSENT"
                /\ payout'[s].amount = sheet[s].net
  <2>1. job[j].step = "create" /\ job[j].p \in Payees
    BY <1>1 DEF CreatePayout, At, Safe, JobsOK
  <2> DEFINE r == [status |-> "PROCESSING", coded |-> FALSE,
                   amount |-> IF job[j].p \in Withdrawals THEN Amount[job[j].p] ELSE job[j].read]
  <2>2. payout' = payout \/ payout' = [payout EXCEPT ![job[j].p] = r]
    BY <1>1 DEF CreatePayout
  <2>3. r.status = "PROCESSING" /\ (job[j].p \notin Withdrawals => r.amount = job[j].read)
    OBVIOUS
  <2> HIDE DEF r
  <2>4. CASE payout' = payout \/ job[j].p # s
    <3>1. payout'[s] = payout[s]
      BY <1>0, <2>2, <2>4 DEF PayoutTypeOK
    <3> QED
      BY <3>1 DEF Exists
  <2>5. CASE payout' = [payout EXCEPT ![job[j].p] = r] /\ job[j].p = s
    <3>1. job[j].op \in {"execute", "manual"}
      BY <1>0, <2>1, <2>5 DEF Deals, DealOK, Safe, JobsOK
    <3>2. job[j].read = sheet[s].net /\ settled[s] # "ABSENT"
      BY <2>5, <3>1 DEF Deals, DealOK, SheetOK, Fresh
    <3>3. payout'[s] = r
      BY <1>0, <2>5 DEF PayoutTypeOK
    <3> QED
      BY <1>0, <2>3, <2>5, <3>2, <3>3
  <2> QED
    BY <2>2, <2>4, <2>5
<1>2. ASSUME NEW j \in Jobs, Record(j) \/ MarkPaid(j) \/ MarkFailed(j)
      PROVE  Kept1
  <2>1. PICK status, coded :
          /\ \/ payout' = payout
             \/ payout' = [payout EXCEPT ![job[j].p] = [payout[job[j].p] EXCEPT !.status = status]]
             \/ payout' = [payout EXCEPT ![job[j].p] =
                              [payout[job[j].p] EXCEPT !.status = status, !.coded = coded]]
          /\ status # "ABSENT" /\ (payout' = payout \/ Exists(job[j].p))
    <3>1. CASE Record(j)
      <4>1. job[j].said # "ABSENT" /\ Exists(job[j].p)
        BY <3>1, JobFields DEF Record, At, Safe, JobsOK, Job
      <4>2. payout' = [payout EXCEPT ![job[j].p] =
                           [payout[job[j].p] EXCEPT !.status = job[j].said, !.coded = TRUE]]
        BY <3>1 DEF Record
      <4> QED
        BY <4>1, <4>2
    <3>2. CASE MarkPaid(j)
      <4>1. \/ payout' = payout
            \/ /\ Exists(job[j].p)
               /\ payout' = [payout EXCEPT ![job[j].p] = [payout[job[j].p] EXCEPT !.status = "PAID"]]
        BY <3>2 DEF MarkPaid, Exists
      <4> WITNESS "PAID", TRUE
      <4> QED
        BY <4>1
    <3>3. CASE MarkFailed(j)
      <4>1. \/ payout' = payout
            \/ /\ Exists(job[j].p)
               /\ payout' = [payout EXCEPT ![job[j].p] = [payout[job[j].p] EXCEPT !.status = "FAILED"]]
        BY <3>3 DEF MarkFailed, Exists
      <4> WITNESS "FAILED", TRUE
      <4> QED
        BY <4>1
    <3> QED
      BY <1>2, <3>1, <3>2, <3>3
  <2>2. CASE payout'[s] = payout[s]
    BY <2>2 DEF Exists
  <2>3. CASE payout'[s] # payout[s]
    <3>1. job[j].p = s /\ payout' # payout
      BY <1>0, <2>1, <2>3 DEF PayoutTypeOK
    <3>2. \/ payout'[s] = [payout[s] EXCEPT !.status = status]
          \/ payout'[s] = [payout[s] EXCEPT !.status = status, !.coded = coded]
      BY <1>0, <2>1, <3>1 DEF PayoutTypeOK
    <3>3. payout'[s].status = status /\ payout'[s].amount = payout[s].amount
      BY <1>0, <3>2 DEF Row
    <3> QED
      BY <2>1, <3>1, <3>3
  <2> QED
    BY <2>2, <2>3
<1>3. CASE payout' = payout
  BY <1>3 DEF Exists
<1> QED
  BY <1>1, <1>2, <1>3
     DEF PayoutNext, PayoutStep, DispatchStep, DebitUser, Send, PaySettlement, Reverse,
         FailSettlement, Verify, Withdraw, TransferEvent, Reconcile, BankResolves, Crash

(* What the payouts do to the status of a settlement: they only touch one  *)
(* that has its row.                                                       *)
LEMMA PayoutSettles ==
    ASSUME PayoutTypeOK, DeskOK, Deals, PayoutNext, NEW s \in Settlements
    PROVE  settled'[s] = "ABSENT" <=> settled[s] = "ABSENT"
<1>1. ASSUME NEW j \in Jobs, PaySettlement(j) \/ FailSettlement(j)
      PROVE  settled'[s] = "ABSENT" <=> settled[s] = "ABSENT"
  <2>1. job[j].step \notin {"move", "write"}
    BY <1>1 DEF PaySettlement, FailSettlement, At
  <2>2. job[j].op # "calculate"
    BY <2>1 DEF DeskOK, Desk
  <2>3. job[j].p = s => settled[s] # "ABSENT"
    BY <2>2 DEF Deals, SheetOK, Fresh
  <2>4. PICK status \in {"PAID", "FAILED"} :
          settled' = [t \in Settlements |-> IF t = job[j].p THEN status ELSE settled[t]]
    BY <1>1 DEF PaySettlement, FailSettlement
  <2> QED
    BY <2>3, <2>4
<1>2. CASE settled' = settled
  BY <1>2
<1> QED
  BY <1>1, <1>2
     DEF PayoutNext, PayoutStep, DispatchStep, DebitUser, CreatePayout, Send, Record, MarkPaid,
         MarkFailed, Reverse, Verify, Withdraw, TransferEvent, Reconcile, BankResolves, Crash

(* No step of the payouts breaks a deal.                                   *)
LEMMA PayoutDeals ==
    ASSUME PayoutTypeOK, Safe, DeskOK, Deals, PayoutNext, UNCHANGED <<sheet, cancels>>
    PROVE  Deals'
<1>1. SheetsKept
  BY PayoutBooks, PayoutAmounts, PayoutSettles DEF SheetsKept
<1> QED
  BY <1>1, PayoutJobsFit, DealsCarry

----------------------------------------------------------------------------
(* The same of the engine's own steps. *)

(* A job about a settlement other than a calculation finds its row. *)
LEMMA HasRow ==
    ASSUME Deals, NEW j \in Jobs, job[j].op # "calculate", job[j].p \in Settlements
    PROVE  settled[job[j].p] # "ABSENT"
  BY DEF Deals, SheetOK, Fresh

(* A step that leaves keys and payouts alone, and gives no status to a     *)
(* settlement without a row.                                               *)
LEMMA QuietSheets ==
    ASSUME Deals, UNCHANGED <<booked, payout>>,
           \A s \in Settlements : /\ sheet'[s].net = sheet[s].net /\ sheet'[s].gross = sheet[s].gross
                                  /\ sheet'[s].held => sheet[s].held
                                  /\ settled[s] = "ABSENT" => sheet'[s] = sheet[s]
                                  /\ settled'[s] = "ABSENT" <=> settled[s] = "ABSENT"
    PROVE  SheetsKept
  BY DEF SheetsKept, Exists

LEMMA StatusKept ==
    ASSUME settled \in [Settlements -> SettlementStatus], NEW p, NEW status, status # "ABSENT",
           p \in Settlements => settled[p] # "ABSENT", SetStatus(p, status)
    PROVE  \A s \in Settlements : settled'[s] = "ABSENT" <=> settled[s] = "ABSENT"
  BY DEF SetStatus

(* One job moves on. *)
LEMMA OneFits ==
    ASSUME Deals, SheetsKept, cancels \in Nat, cancels' \in {cancels, cancels + 1},
           NEW j \in Jobs, Others(j), FitsDeal(job'[j], job[j])
    PROVE  Deals'
<1>1. \A i \in Jobs : job'[i] = job[i] \/ FitsDeal(job'[i], job[i])
  BY DEF Others
<1>2. cancels > 0 => cancels' > 0
  OBVIOUS
<1> QED
  BY <1>1, <1>2, DealsCarry

LEMMA EndFits ==
    ASSUME EngineInv, NEW j \in Jobs, End(j)
    PROVE  Others(j) /\ FitsDeal(job'[j], job[j])
<1>1. Others(j) /\ job'[j] = Idle
  BY Typed, EndJob DEF End
<1> QED
  BY <1>1, IdleFits

(* The engine, one operation at a time.                                    *)
LEMMA MoveToPayableDeals ==
    ASSUME EngineInv, Deals, cancels \in Nat, NEW j \in Jobs, MoveToPayable(j) PROVE Deals'
<1>1. SheetsKept /\ cancels' = cancels
  BY QuietSheets DEF MoveToPayable
<1>2. Others(j) /\ FitsDeal(job'[j], job[j])
  <2>1. CASE End(j)
    BY <2>1, EndFits
  <2>2. CASE Goto(j, "write")
    <3>1. Others(j) /\ job'[j].step = "write" /\ Same(job'[j], job[j])
      BY <2>2, Typed, GotoAll
    <3> QED
      BY <3>1 DEF MoveToPayable, Doing, Same, FitsDeal
  <2> QED
    BY <2>1, <2>2 DEF MoveToPayable
<1> QED
  BY <1>1, <1>2, OneFits

LEMMA ApprovalDeals ==
    ASSUME EngineInv, Deals, cancels \in Nat, NEW j \in Jobs, WriteApproval(j) PROVE Deals'
<1>1. job[j].op = "approve" /\ job[j].p \in Settlements /\ settled[job[j].p] # "ABSENT"
  BY HasRow DEF WriteApproval, Doing, EngineInv, Ledger, DeskOK, Desk
<1>2. \A s \in Settlements : settled'[s] = "ABSENT" <=> settled[s] = "ABSENT"
  BY <1>1, Typed, StatusKept DEF WriteApproval
<1>3. \A s \in Settlements : /\ sheet'[s].net = sheet[s].net /\ sheet'[s].gross = sheet[s].gross
                             /\ sheet'[s].held = sheet[s].held
                             /\ s # job[j].p => sheet'[s] = sheet[s]
  BY Typed DEF WriteApproval, Sheet
<1>4. SheetsKept
  BY <1>1, <1>2, <1>3, QuietSheets DEF WriteApproval
<1>5. Others(j) /\ FitsDeal(job'[j], job[j]) /\ cancels' = cancels
  BY EndFits DEF WriteApproval
<1> QED
  BY <1>4, <1>5, OneFits

LEMMA MoveBackDeals ==
    ASSUME EngineInv, Deals, cancels \in Nat, NEW j \in Jobs, MoveBack(j) PROVE Deals'
<1>1. SheetsKept /\ cancels' = cancels
  BY QuietSheets DEF MoveBack
<1>2. Others(j) /\ job'[j].step = "write" /\ Same(job'[j], job[j]) /\ job[j].op = "cancel"
  BY Typed, GotoAll DEF MoveBack, Doing
<1>3. cancels > 0 /\ (job[j].p \in Settlements => settled[job[j].p] # "ABSENT")
  BY <1>2, HasRow DEF Deals, DealOK
<1>4. FitsDeal(job'[j], job[j])
  BY <1>1, <1>2, <1>3 DEF Same, FitsDeal
<1> QED
  BY <1>1, <1>2, <1>4, OneFits

(* WriteCancelled and WriteOutcome set a status and end. *)
LEMMA StatusDeals ==
    ASSUME EngineInv, Deals, cancels \in Nat, NEW j \in Jobs, job[j].op # "calculate",
           NEW status, status # "ABSENT", SetStatus(job[j].p, status),
           UNCHANGED <<booked, payout, sheet, cancels>>,
           End(j) \/ (Goto(j, "send") /\ job[j].op \notin Desk)
    PROVE  Deals'
<1>1. job[j].p \in Settlements => settled[job[j].p] # "ABSENT"
  BY HasRow
<1>2. SheetsKept
  BY <1>1, Typed, StatusKept, QuietSheets
<1>3. Others(j) /\ FitsDeal(job'[j], job[j])
  <2>1. CASE End(j)
    BY <2>1, EndFits
  <2>2. CASE Goto(j, "send") /\ job[j].op \notin Desk
    <3>1. Others(j) /\ job'[j].step = "send" /\ Same(job'[j], job[j])
      BY <2>2, Typed, GotoAll
    <3>2. DealOK(j) /\ job[j].op # "cancel"
      BY <2>2 DEF Deals, Desk
    <3> QED
      BY <1>1, <3>1, <3>2 DEF Same, FitsDeal, DealOK
  <2> QED
    BY <2>1, <2>2
<1> QED
  BY <1>2, <1>3, OneFits

LEMMA CancelledDeals ==
    ASSUME EngineInv, Deals, cancels \in Nat, NEW j \in Jobs, WriteCancelled(j) PROVE Deals'
  BY StatusDeals DEF WriteCancelled, Doing

LEMMA OutcomeDeals ==
    ASSUME EngineInv, Deals, cancels \in Nat, NEW j \in Jobs, WriteOutcome(j) PROVE Deals'
<1>1. PICK status : status # "ABSENT" /\ SetStatus(job[j].p, status)
  BY DEF WriteOutcome
<1>2. job[j].step \notin {"move", "write"}
  BY DEF WriteOutcome
<1>3. job[j].op # "calculate"
  BY <1>2 DEF EngineInv, Ledger, DeskOK, Desk
<1>4. End(j) /\ UNCHANGED <<booked, payout, sheet, cancels>>
  BY DEF WriteOutcome
<1> QED
  BY <1>1, <1>3, <1>4, StatusDeals

LEMMA ProcessingDeals ==
    ASSUME EngineInv, Deals, cancels \in Nat, NEW j \in Jobs, MarkProcessing(j) PROVE Deals'
<1>1. job[j].step \notin {"move", "write"}
  BY DEF MarkProcessing, At
<1>2. job[j].op \notin Desk /\ job[j].op # "calculate"
  BY <1>1 DEF EngineInv, Ledger, DeskOK, Desk
<1>3. Goto(j, "send") /\ SetStatus(job[j].p, "PROCESSING") /\ UNCHANGED <<booked, payout, sheet, cancels>>
  BY DEF MarkProcessing
<1> QED
  BY <1>2, <1>3, StatusDeals

LEMMA DebitDeals ==
    ASSUME EngineInv, Deals, cancels \in Nat, NEW j \in Jobs, DebitPayable(j) PROVE Deals'
<1>1. job[j].op \in {"execute", "manual"} /\ job[j].step = "debit" /\ DealOK(j)
  BY DEF DebitPayable, At, Deals
<1>2. SheetsKept
  <2>1. booked' \subseteq booked \cup {DebitKey(job[j].p)} /\ UNCHANGED <<payout, settled, sheet>>
    BY DEF DebitPayable
  <2>2. \A s : ReleaseKey(s) \in booked' => ReleaseKey(s) \in booked
    BY <2>1, KeysDiffer
  <2> QED
    BY <2>1, <2>2 DEF SheetsKept, Exists
<1>3. Others(j) /\ job'[j].step = "create" /\ Same(job'[j], job[j]) /\ cancels' = cancels
  BY Typed, GotoAll DEF DebitPayable
<1>4. job[j].p \in Settlements => settled[job[j].p] # "ABSENT"
  BY <1>1, HasRow
<1>5. FitsDeal(job'[j], job[j])
  BY <1>1, <1>3, <1>4 DEF Same, FitsDeal, DealOK
<1> QED
  BY <1>2, <1>3, <1>5, OneFits

LEMMA ReleaseDeals ==
    ASSUME EngineInv, Deals, cancels \in Nat, NEW j \in Jobs, MoveReserve(j) PROVE Deals'
<1>1. job[j].op = "reserve" /\ job[j].p \in Settlements /\ Holds(job[j].p)
  BY DEF MoveReserve, Doing, Deals, DealOK
<1>2. settled[job[j].p] # "ABSENT"
  BY <1>1, HasRow
<1>3. SheetsKept
  <2>1. booked' \subseteq booked \cup {ReleaseKey(job[j].p)} /\ UNCHANGED <<payout, settled, sheet>>
    BY DEF MoveReserve
  <2>2. \A s : ReleaseKey(s) \in booked' => ReleaseKey(s) \in booked \/ s = job[j].p
    BY <2>1, KeysDiffer
  <2> QED
    BY <1>1, <1>2, <2>1, <2>2 DEF SheetsKept, Exists
<1>4. Others(j) /\ job'[j].step = "write" /\ Same(job'[j], job[j]) /\ cancels' = cancels
  BY Typed, GotoAll DEF MoveReserve
<1>5. FitsDeal(job'[j], job[j])
  BY <1>1, <1>2, <1>4 DEF Same, FitsDeal
<1> QED
  BY <1>3, <1>4, <1>5, OneFits

LEMMA ClearDeals ==
    ASSUME EngineInv, Deals, cancels \in Nat, NEW j \in Jobs, ClearReserve(j) PROVE Deals'
<1>1. job[j].op = "reserve" /\ job[j].p \in Settlements
  BY DEF ClearReserve, Doing, Deals, DealOK
<1>2. settled[job[j].p] # "ABSENT"
  BY <1>1, HasRow
<1>3. \A s \in Settlements : /\ sheet'[s].net = sheet[s].net /\ sheet'[s].gross = sheet[s].gross
                             /\ sheet'[s].held => sheet[s].held
                             /\ s # job[j].p => sheet'[s] = sheet[s]
  BY Typed DEF ClearReserve, Sheet
<1>4. SheetsKept
  BY <1>2, <1>3, QuietSheets DEF ClearReserve
<1>5. Others(j) /\ FitsDeal(job'[j], job[j]) /\ cancels' = cancels
  BY EndFits DEF ClearReserve
<1> QED
  BY <1>4, <1>5, OneFits

(* The requests about a settlement that has its row. *)
LEMMA RequestDeals ==
    ASSUME EngineInv, Deals, cancels \in Nat, NEW j \in Jobs, NEW s \in Settlements,
           \/ Cancel(j, s) \/ Execute(j, s) \/ PayoutSettlement(j, s) \/ ReleaseReserve(j, s)
           \/ \E u \in Staff : Approve(j, s, u)
    PROVE  Deals'
<1>1. settled[s] # "ABSENT"
  BY DEF Cancel, Execute, PayoutSettlement, ReleaseReserve, Approve
<1>2. SheetsKept
  <2>1. UNCHANGED <<booked, payout, sheet>>
    BY DEF Cancel, Execute, PayoutSettlement, ReleaseReserve, Approve
  <2>2. settled' = settled \/ SetStatus(s, "PROCESSING")
    BY DEF Cancel, Execute, PayoutSettlement, ReleaseReserve, Approve
  <2>3. \A t \in Settlements : settled'[t] = "ABSENT" <=> settled[t] = "ABSENT"
    BY <1>1, <2>2, Typed, StatusKept
  <2> QED
    BY <2>1, <2>3, QuietSheets
<1>3. cancels' \in {cancels, cancels + 1}
  BY DEF Cancel, Execute, PayoutSettlement, ReleaseReserve, Approve
<1>4. Others(j) /\ FitsDeal(job'[j], job[j])
  <2>1. CASE Cancel(j, s)
    <3>1. Others(j) /\ job'[j].op = "cancel" /\ job'[j].p = s /\ job'[j].step = "move"
      BY <2>1, Typed, StartAll DEF Cancel
    <3>2. cancels' > 0
      BY <2>1 DEF Cancel
    <3> QED
      BY <1>1, <3>1, <3>2 DEF FitsDeal
  <2>2. CASE Execute(j, s) \/ PayoutSettlement(j, s)
    <3>1. PICK op \in {"execute", "manual"} : \E step : step # "create" /\
            job' = [job EXCEPT ![j] = [Idle EXCEPT !.op = op, !.p = s, !.read = sheet[s].net, !.step = step]]
      <4>1. CASE Execute(j, s)
        BY <4>1 DEF Execute
      <4>2. CASE PayoutSettlement(j, s)
        BY <4>2 DEF PayoutSettlement, Idle
      <4> QED
        BY <2>2, <4>1, <4>2
    <3>2. PICK step : /\ step # "create" /\ Others(j)
                      /\ job'[j] = [Idle EXCEPT !.op = op, !.p = s, !.read = sheet[s].net, !.step = step]
      BY <3>1, Typed, MovedJob
    <3>3. job'[j].op = op /\ job'[j].p = s /\ job'[j].read = sheet[s].net /\ job'[j].step # "create"
      BY <3>1, <3>2 DEF Idle
    <3> QED
      BY <1>1, <3>2, <3>3 DEF FitsDeal
  <2>3. CASE ReleaseReserve(j, s)
    <3>1. Others(j) /\ job'[j].op = "reserve" /\ job'[j].p = s /\ job'[j].step = "move"
      BY <2>3, Typed, StartAll DEF ReleaseReserve
    <3>2. Holds(s)
      BY <2>3 DEF ReleaseReserve, Deals, SheetOK
    <3> QED
      BY <1>1, <3>1, <3>2 DEF FitsDeal
  <2>4. ASSUME NEW u \in Staff, Approve(j, s, u) PROVE Others(j) /\ FitsDeal(job'[j], job[j])
    <3>1. Others(j) /\ job'[j] = [Idle EXCEPT !.op = "approve", !.step = "write", !.p = s,
                                  !.by = u, !.seen = sheet[s].approvedBy]
      BY <2>4, Typed, MovedJob DEF Approve
    <3>2. job'[j].op = "approve" /\ job'[j].p = s /\ job'[j].step = "write"
      BY <3>1 DEF Idle
    <3> QED
      BY <1>1, <3>1, <3>2 DEF FitsDeal
  <2> QED
    BY <2>1, <2>2, <2>3, <2>4
<1> QED
  BY <1>2, <1>3, <1>4, OneFits

LEMMA CalculateDeals ==
    ASSUME EngineInv, Deals, NEW j \in Jobs, NEW s \in Settlements, Calculate(j, s) PROVE Deals'
<1> DEFINE c == job'[j]
<1>1. /\ Others(j) /\ c.op = "calculate" /\ c.p = s /\ c.read \in Nat /\ c.step = "move"
      /\ ~c.caught => Fee + Reserve <= c.read
  <2>1. PICK gross \in Asks \cup {funds.merchant}, plain \in BOOLEAN :
          /\ gross \in 1 .. funds.merchant
          /\ ~plain => gross > Fee + Reserve
          /\ job' = [job EXCEPT ![j] = [Idle EXCEPT !.op = "calculate", !.step = "move",
                                        !.p = s, !.read = gross, !.caught = plain]]
    BY DEF Calculate
  <2>2. Others(j) /\ c = [Idle EXCEPT !.op = "calculate", !.step = "move",
                                      !.p = s, !.read = gross, !.caught = plain]
    BY <2>1, Typed, MovedJob
  <2>3. c.op = "calculate" /\ c.p = s /\ c.read = gross /\ c.caught = plain /\ c.step = "move"
    BY <2>2 DEF Idle
  <2>4. gross \in Nat /\ Fee \in Int /\ Reserve \in Int
    BY <2>1, Sets, Typed DEF Funds
  <2> QED
    BY <2>1, <2>2, <2>3, <2>4
<1>2. /\ settled[s] = "ABSENT" /\ \A i \in Jobs : job[i].p # s
      /\ UNCHANGED <<booked, payout, settled, sheet, cancels>>
  BY DEF Calculate
<1>3. ASSUME NEW t \in Settlements PROVE Fresh(t) => Fresh(t)'
  <2>1. ASSUME Fresh(t), NEW i \in Jobs, job'[i].p = t PROVE job'[i].op = "calculate"
    BY <1>1, <2>1 DEF Fresh, Others
  <2> QED
    BY <1>2, <2>1 DEF Fresh, Exists, Blank, ReleaseKey
<1>4. SheetOK'
  BY <1>2, <1>3 DEF Deals, SheetOK, Exists, Holds, ReleaseKey
<1>5. ASSUME NEW i \in Jobs PROVE DealOK(i)'
  <2>1. CASE i = j
    <3>1. ASSUME NEW h \in Jobs, job'[h].p = s PROVE h = j
      BY <1>1, <1>2, <3>1 DEF Others
    <3> QED
      BY <1>1, <1>2, <2>1, <3>1 DEF DealOK
  <2>2. CASE i # j
    <3>1. job'[i] = job[i] /\ DealOK(i)
      BY <1>1, <2>2 DEF Others, Deals
    <3>2. ASSUME job[i].op = "calculate", NEW h \in Jobs, job'[h].p = job[i].p PROVE h = i
      BY <1>1, <1>2, <3>1, <3>2 DEF Others, DealOK
    <3> QED
      BY <1>2, <3>1, <3>2 DEF DealOK, Holds
  <2> QED
    BY <2>1, <2>2
<1> QED
  BY <1>4, <1>5 DEF Deals

(* The row that is written: what it keeps is what was read. *)
LEMMA NewRow ==
    ASSUME EngineInv, Deals, NEW j \in Jobs, CreateSettlement(j)
    PROVE  LET s == job[j].p IN
           /\ s \in Settlements /\ settled[s] = "ABSENT" /\ job[j].op = "calculate" /\ job[j].step = "write"
           /\ sheet'[s].gross = job[j].read /\ sheet'[s].net \in Nat /\ job[j].read \in Nat
           /\ sheet'[s].net <= job[j].read
           /\ sheet'[s].held => sheet'[s].net + Reserve <= sheet'[s].gross
           /\ settled'[s] # "ABSENT"
           /\ \A t \in Settlements \ {s} : sheet'[t] = sheet[t] /\ settled'[t] = settled[t]
<1> DEFINE s == job[j].p
           gross == job[j].read
           plain == job[j].caught
           net == IF plain THEN gross ELSE gross - Fee - Reserve
<1>1. /\ job[j].op = "calculate" /\ job[j].step = "write" /\ s \in Settlements /\ settled[s] = "ABSENT"
      /\ gross \in Nat /\ (~plain => Fee + Reserve <= gross)
  BY DEF CreateSettlement, Doing, Deals, DealOK
<1>2. Fee \in Nat /\ Reserve \in Nat
  BY SettlementAssumption
<1>3. PICK destination \in BOOLEAN, verdict \in {"PENDING", "ON_HOLD", "AWAITING_APPROVAL"} :
        /\ SetStatus(s, IF destination \/ plain THEN verdict ELSE "ON_HOLD")
        /\ sheet' = [sheet EXCEPT ![s] =
             [Blank EXCEPT !.gross = gross, !.net = net,
                           !.held = ~plain /\ ReserveDays > 0, !.destination = destination]]
  BY Zenon DEF CreateSettlement
<1>4. /\ net \in Nat /\ net <= gross /\ (~plain => net + Reserve <= gross)
  BY <1>1, <1>2
<1>5. /\ settled'[s] # "ABSENT"
      /\ \A t \in Settlements \ {s} : settled'[t] = settled[t]
  BY <1>1, <1>3, Typed DEF SetStatus
<1> HIDE DEF net
<1>6. /\ sheet'[s] = [Blank EXCEPT !.gross = gross, !.net = net,
                                   !.held = ~plain /\ ReserveDays > 0, !.destination = destination]
      /\ \A t \in Settlements \ {s} : sheet'[t] = sheet[t]
  BY <1>1, <1>3, Typed
<1>7. /\ sheet'[s].gross = gross /\ sheet'[s].net = net /\ (sheet'[s].held => ~plain)
  BY <1>6 DEF Blank
<1> QED
  BY <1>1, <1>4, <1>5, <1>6, <1>7

(* calculate writes the settlement: the row of a Fresh settlement gets     *)
(* what was moved for it.                                                  *)
LEMMA NewRowDeals ==
    ASSUME EngineInv, Deals, NEW j \in Jobs, CreateSettlement(j) PROVE Deals'
<1> DEFINE s == job[j].p
<1>1. /\ s \in Settlements /\ settled[s] = "ABSENT" /\ job[j].op = "calculate"
      /\ sheet'[s].gross = job[j].read /\ sheet'[s].net \in Nat /\ job[j].read \in Nat
      /\ sheet'[s].net <= job[j].read
      /\ sheet'[s].held => sheet'[s].net + Reserve <= sheet'[s].gross
      /\ settled'[s] # "ABSENT"
      /\ \A t \in Settlements \ {s} : sheet'[t] = sheet[t] /\ settled'[t] = settled[t]
  BY NewRow
<1>2. Others(j) /\ job'[j] = Idle /\ UNCHANGED <<booked, payout, cancels>>
  BY Typed, EndJob DEF CreateSettlement, End
<1>3. /\ Fresh(s) /\ DealOK(j) /\ \A i \in Jobs : job[i].p = s => i = j
  BY <1>1 DEF Deals, SheetOK, DealOK
<1>4. Idle.op = "none" /\ Idle.p = NoPayout /\ Idle.step = "idle" /\ NoPayout \notin Settlements
  BY IdleJob, PayoutAssumption, Zenon
<1>5. ASSUME NEW t \in Settlements
      PROVE  /\ sheet'[t].net \in Nat /\ sheet'[t].gross \in Nat
             /\ sheet'[t].net <= sheet'[t].gross
             /\ settled'[t] = "ABSENT" => Fresh(t)'
             /\ payout'[t].status # "ABSENT" => payout'[t].amount = sheet'[t].net
             /\ ~(payout'[t].status # "ABSENT") => payout'[t].amount = 0
             /\ sheet'[t].held \/ ReleaseKey(t) \in booked' => sheet'[t].net + Reserve <= sheet'[t].gross
  <2>1. CASE t = s
    BY <1>1, <1>2, <1>3, <2>1 DEF Fresh, Deals, SheetOK, Exists
  <2>2. CASE t # s
    <3>1. sheet'[t] = sheet[t] /\ settled'[t] = settled[t]
      BY <1>1, <2>2
    <3>2. ASSUME Fresh(t), NEW i \in Jobs, job'[i].p = t PROVE job'[i].op = "calculate"
      BY <1>2, <1>4, <3>2 DEF Fresh, Others
    <3>3. Fresh(t) => Fresh(t)'
      BY <1>2, <3>1, <3>2 DEF Fresh, Exists, Blank, ReleaseKey
    <3> QED
      BY <1>2, <3>1, <3>3 DEF Deals, SheetOK, Exists, Holds
  <2> QED
    BY <2>1, <2>2
<1>6. SheetOK'
  BY <1>5 DEF SheetOK, Exists, ReleaseKey, Holds
<1>7. ASSUME NEW i \in Jobs PROVE DealOK(i)'
  <2>1. CASE i = j
    BY <1>2, <1>4, <2>1 DEF DealOK
  <2>2. CASE i # j
    <3>1. job'[i] = job[i] /\ DealOK(i) /\ job[i].p # s
      BY <1>2, <1>3, <2>2 DEF Others, Deals
    <3>2. ASSUME job[i].op = "calculate", NEW h \in Jobs, job'[h].p = job[i].p PROVE h = i
      BY <1>2, <1>4, <3>1, <3>2 DEF Others, DealOK
    <3>3. job[i].p \in Settlements => sheet'[job[i].p] = sheet[job[i].p] /\ settled'[job[i].p] = settled[job[i].p]
      BY <1>1, <3>1
    <3> QED
      BY <1>2, <3>1, <3>2, <3>3 DEF DealOK, Holds
  <2> QED
    BY <2>1, <2>2
<1> QED
  BY <1>6, <1>7 DEF Deals

----------------------------------------------------------------------------
(* What is left of the business's earnings, step by step. *)

LEMMA AccountTypes ==
    ASSUME EngineInv, Deals
    PROVE  /\ \A s \in Settlements : Kept[s] \in Nat /\ payout[s].amount \in Nat /\ payout[s].amount <= Kept[s]
           /\ \A j \in Jobs : Moving(job[j]) \in Nat /\ Transit[j] = Moving(job[j])
           /\ funds.merchant \in Int /\ MerchantOpening \in Nat /\ Reserve \in Nat
<1>1. Reserve \in Nat /\ MerchantOpening \in Nat /\ funds.merchant \in Int
  <2>1. MerchantOpening \in Nat
    BY PayoutAssumption, Zenon
  <2> QED
    BY <2>1, SettlementAssumption, Typed DEF Funds
<1>2. ASSUME NEW s \in Settlements PROVE Kept[s] \in Nat /\ payout[s].amount \in Nat /\ payout[s].amount <= Kept[s]
  <2>1. /\ sheet[s].net \in Nat /\ sheet[s].gross \in Nat /\ sheet[s].net <= sheet[s].gross
        /\ payout[s].amount \in {0, sheet[s].net}
        /\ ReleaseKey(s) \in booked => sheet[s].net + Reserve <= sheet[s].gross
    BY DEF Deals, SheetOK, Holds
  <2>2. Kept[s] = sheet[s].gross - IF ReleaseKey(s) \in booked THEN Reserve ELSE 0
    BY DEF Kept
  <2> QED
    BY <1>1, <2>1, <2>2
<1>3. ASSUME NEW j \in Jobs PROVE Moving(job[j]) \in Nat /\ Transit[j] = Moving(job[j])
  <2>1. Transit[j] = Moving(job[j])
    BY DEF Transit
  <2> QED
    BY <2>1 DEF Deals, DealOK, Moving
<1> QED
  BY <1>1, <1>2, <1>3

(* Kept and Transit after the step, as functions of the next state. *)
KeptNext == [s \in Settlements |-> sheet'[s].gross - IF ReleaseKey(s) \in booked' THEN Reserve ELSE 0]
TransitNext == [j \in Jobs |-> Moving(job'[j])]
EarnedNext == funds'.merchant + SumFunctionOnSet(KeptNext, Settlements) + SumFunctionOnSet(TransitNext, Jobs)

LEMMA NextAccount ==
    ASSUME cancels' = 0 => /\ EarnedNext <= MerchantOpening
                           /\ crashes' = 0 => EarnedNext = MerchantOpening
    PROVE  MerchantAccount'
  BY DEF MerchantAccount, Earned, Kept, Transit, KeptNext, TransitNext, EarnedNext, Moving, ReleaseKey

LEMMA Cancelled ==
    ASSUME cancels' # 0 PROVE MerchantAccount'
  BY DEF MerchantAccount

LEMMA SumsAreInts ==
    ASSUME EngineInv, Deals
    PROVE  /\ SumFunctionOnSet(Kept, Settlements) \in Nat
           /\ SumFunctionOnSet(Transit, Jobs) \in Nat
  BY AccountTypes, SettlementsAreFinite, SumNat

(* A step that moves no money of the business. *)
LEMMA AccountCarry ==
    ASSUME MerchantAccount, funds'.merchant = funds.merchant, UNCHANGED <<cancels, crashes>>,
           \A s \in Settlements : /\ sheet'[s].gross = sheet[s].gross
                                  /\ (ReleaseKey(s) \in booked' <=> ReleaseKey(s) \in booked),
           \A j \in Jobs : Moving(job'[j]) = Moving(job[j])
    PROVE  MerchantAccount'
<1>1. KeptNext = Kept
  BY DEF KeptNext, Kept
<1>2. TransitNext = Transit
  BY DEF TransitNext, Transit
<1>3. EarnedNext = Earned
  BY <1>1, <1>2 DEF EarnedNext, Earned
<1> QED
  BY <1>3, NextAccount DEF MerchantAccount

LEMMA PayoutsMoveNothing ==
    ASSUME PayoutTypeOK, DeskOK, PayoutNext, crashes' = crashes
    PROVE  \A i \in Jobs : Moving(job'[i]) = Moving(job[i])
<1> DEFINE Kept1 == \A i \in Jobs : Moving(job'[i]) = Moving(job[i])
<1>1. \A i \in Jobs : Follows(i)
  BY JobsFollow
<1>2. \A i \in Jobs : job'[i] = job[i] \/ job'[i].op # "calculate"
  BY <1>1, IdleJob DEF Follows, DeskOK, Desk
<1>3. ASSUME NEW j \in Jobs, Others(j), job[j].step # "write" PROVE Kept1
  <2>1. \A i \in Jobs : job'[i] = job[i] \/ (Moving(job[i]) = 0 /\ Moving(job'[i]) = 0)
    BY <1>2, <1>3 DEF Others, Moving
  <2> QED
    BY <2>1
<1>4. ASSUME NEW j \in Jobs, DebitUser(j) \/ CreatePayout(j) \/ Verify(j) \/ Reverse(j) PROVE Kept1
  <2>1. job[j].step \in {"debit", "create", "verify", "reverse"}
    BY <1>4 DEF DebitUser, CreatePayout, Verify, Reverse, At
  <2>2. job' = [job EXCEPT ![j] = Idle] \/ \E s : Goto(j, s)
    BY <1>4 DEF DebitUser, CreatePayout, Verify, Reverse
  <2>3. Others(j)
    BY <2>2, EndJob, GotoJob
  <2> QED
    BY <1>3, <2>1, <2>3
<1>5. ASSUME NEW j \in Jobs, \/ Record(j) \/ MarkPaid(j) \/ MarkFailed(j)
                             \/ PaySettlement(j) \/ FailSettlement(j)
      PROVE  Kept1
  <2>1. job[j].step # "write"
    BY <1>5 DEF Record, MarkPaid, MarkFailed, PaySettlement, FailSettlement, At
  <2>2. Finish(j) \/ \E s : Goto(j, s)
    BY <1>5 DEF Record, MarkPaid, MarkFailed, PaySettlement, FailSettlement
  <2>3. Others(j)
    BY <2>2, FinishJob, GotoJob
  <2> QED
    BY <1>3, <2>1, <2>3
<1>6. ASSUME NEW j \in Jobs, Send(j) PROVE Kept1
  BY <1>3, <1>6, SendJob
<1>7. ASSUME NEW j \in Jobs, NEW op, NEW s, NEW p, Start(j, op, s, p) PROVE Kept1
  <2>1. Others(j) /\ job[j].step # "write"
    BY <1>7, StartAll, IdleJob
  <2> QED
    BY <1>3, <2>1
<1>8. ASSUME NEW p \in Payees, BankResolves(p) PROVE Kept1
  BY <1>8 DEF BankResolves
<1>9. crashes \in Int
  BY DEF PayoutTypeOK
<1>10. ~Crash
  BY <1>9 DEF Crash
<1>11. ASSUME NEW j \in Jobs, NEW w \in Withdrawals, Withdraw(j, w) PROVE Kept1
  BY <1>7, <1>11 DEF Withdraw
<1>12. ASSUME NEW j \in Jobs, NEW p \in Payees, TransferEvent(j, p) \/ Reconcile(j, p) PROVE Kept1
  BY <1>7, <1>12 DEF TransferEvent, Reconcile
<1> QED
  BY <1>4, <1>5, <1>6, <1>8, <1>10, <1>11, <1>12 DEF PayoutNext, PayoutStep, DispatchStep

(* No step of the payouts moves money of the business.                     *)
LEMMA PayoutAccount ==
    ASSUME EngineInv, Deals, MerchantAccount, PayoutNext, UNCHANGED <<sheet, approvals, cancels>>
    PROVE  MerchantAccount'
<1>1. PayoutTypeOK /\ DeskOK
  BY DEF EngineInv, Ledger
<1>2. /\ \A s \in Settlements : ReleaseKey(s) \in booked' <=> ReleaseKey(s) \in booked
      /\ funds'.merchant = funds.merchant
  BY <1>1, PayoutBooks
<1>3. CASE crashes' = crashes
  BY <1>1, <1>2, <1>3, PayoutsMoveNothing, AccountCarry
<1>4. CASE crashes' # crashes
  <2>1. Crash
    BY <1>4 DEF PayoutNext, PayoutStep, DispatchStep, DebitUser, CreatePayout, Send, Record, MarkPaid,
                PaySettlement, MarkFailed, Reverse, FailSettlement, Verify, Withdraw, TransferEvent,
                Reconcile, BankResolves
  <2>2. crashes' # 0
    BY <1>1, <2>1 DEF Crash, PayoutTypeOK
  <2>3. KeptNext = Kept
    BY <1>2 DEF KeptNext, Kept
  <2>4. \A j \in Jobs : TransitNext[j] = 0
    BY <2>1, IdleJob DEF Crash, TransitNext, Moving
  <2>5. SumFunctionOnSet(TransitNext, Jobs) = 0
    BY <2>4, SettlementsAreFinite, SumZero
  <2>6. EarnedNext <= Earned /\ EarnedNext \in Int /\ Earned \in Int
    BY <1>2, <2>3, <2>5, SumsAreInts, AccountTypes DEF EarnedNext, Earned
  <2> QED
    BY <2>2, <2>6, NextAccount, AccountTypes DEF MerchantAccount
<1> QED
  BY <1>3, <1>4

(* The steps that do move it, each against the sum it goes to: calculate   *)
(* takes from the wallet into transit, the new row keeps what was in       *)
(* transit, a release pays back what the row no longer keeps.              *)
LEMMA ToPayableAccount ==
    ASSUME EngineInv, Deals, MerchantAccount, NEW j \in Jobs, MoveToPayable(j) PROVE MerchantAccount'
<1> DEFINE gross == job[j].read
<1>1. job[j].op = "calculate" /\ job[j].step = "move" /\ gross \in Nat
  BY DEF MoveToPayable, Doing, Deals, DealOK
<1>2. Moving(job[j]) = 0
  BY <1>1 DEF Moving
<1>3. CASE UNCHANGED funds /\ End(j)
  <2>1. Others(j) /\ job'[j] = Idle
    BY <1>3, Typed, EndJob DEF End
  <2>2. \A i \in Jobs : Moving(job'[i]) = Moving(job[i])
    BY <1>2, <2>1, IdleJob DEF Others, Moving
  <2> QED
    BY <1>3, <2>2, AccountCarry DEF MoveToPayable
<1>4. CASE funds' = [funds EXCEPT !.merchant = @ - gross, !.payable = @ + gross] /\ Goto(j, "write")
  <2>1. Others(j) /\ job'[j].step = "write" /\ Same(job'[j], job[j])
    BY <1>4, Typed, GotoAll
  <2>2. funds'.merchant = funds.merchant - gross
    BY <1>4, Typed DEF Funds
  <2>3. KeptNext = Kept
    BY DEF MoveToPayable, KeptNext, Kept
  <2>4. TransitNext[j] = gross /\ Transit[j] = 0 /\ \A i \in Jobs \ {j} : TransitNext[i] = Transit[i]
    BY <1>1, <1>2, <2>1 DEF TransitNext, Transit, Same, Others, Moving
  <2>5. (\A i \in Jobs : Transit[i] \in Int) /\ \A i \in Jobs : TransitNext[i] \in Int
    BY <1>1, <2>4, AccountTypes
  <2>6. SumFunctionOnSet(TransitNext, Jobs) = SumFunctionOnSet(Transit, Jobs) - Transit[j] + TransitNext[j]
    BY <2>4, <2>5, SettlementsAreFinite, SumChange
  <2>7. EarnedNext = Earned
    BY <1>1, <2>2, <2>3, <2>4, <2>6, SumsAreInts, AccountTypes DEF EarnedNext, Earned
  <2> QED
    BY <2>7, NextAccount DEF MerchantAccount, MoveToPayable
<1> QED
  BY <1>3, <1>4 DEF MoveToPayable

LEMMA NewRowAccount ==
    ASSUME EngineInv, Deals, MerchantAccount, NEW j \in Jobs, CreateSettlement(j) PROVE MerchantAccount'
<1> DEFINE s == job[j].p
           gross == job[j].read
<1>1. /\ s \in Settlements /\ settled[s] = "ABSENT" /\ job[j].op = "calculate" /\ job[j].step = "write"
      /\ sheet'[s].gross = gross /\ gross \in Nat
      /\ \A t \in Settlements \ {s} : sheet'[t] = sheet[t]
  BY NewRow
<1>2. Others(j) /\ job'[j] = Idle /\ UNCHANGED <<funds, booked, cancels, crashes>>
  BY Typed, EndJob DEF CreateSettlement, End
<1>3. ReleaseKey(s) \notin booked /\ sheet[s].gross = 0
  BY <1>1 DEF Deals, SheetOK, Fresh, Blank
<1>4. /\ KeptNext[s] = gross /\ Kept[s] = 0
      /\ \A t \in Settlements \ {s} : KeptNext[t] = Kept[t]
  BY <1>1, <1>2, <1>3 DEF KeptNext, Kept
<1>5. (\A t \in Settlements : Kept[t] \in Int) /\ \A t \in Settlements : KeptNext[t] \in Int
  BY <1>1, <1>4, AccountTypes
<1>6. SumFunctionOnSet(KeptNext, Settlements) = SumFunctionOnSet(Kept, Settlements) - Kept[s] + KeptNext[s]
  BY <1>1, <1>4, <1>5, SettlementsAreFinite, SumChange
<1>7. TransitNext[j] = 0 /\ Transit[j] = gross /\ \A i \in Jobs \ {j} : TransitNext[i] = Transit[i]
  BY <1>1, <1>2, IdleJob DEF TransitNext, Transit, Others, Moving
<1>8. (\A i \in Jobs : Transit[i] \in Int) /\ \A i \in Jobs : TransitNext[i] \in Int
  BY <1>1, <1>7, AccountTypes
<1>9. SumFunctionOnSet(TransitNext, Jobs) = SumFunctionOnSet(Transit, Jobs) - Transit[j] + TransitNext[j]
  BY <1>7, <1>8, SettlementsAreFinite, SumChange
<1>10. EarnedNext = Earned
  BY <1>1, <1>2, <1>4, <1>6, <1>7, <1>9, SumsAreInts, AccountTypes DEF EarnedNext, Earned
<1> QED
  BY <1>2, <1>10, NextAccount DEF MerchantAccount

LEMMA ReleaseAccount ==
    ASSUME EngineInv, Deals, MerchantAccount, NEW j \in Jobs, MoveReserve(j) PROVE MerchantAccount'
<1> DEFINE s == job[j].p
<1>1. job[j].op = "reserve" /\ s \in Settlements
  BY DEF MoveReserve, Doing, Deals, DealOK
<1>2. Others(j) /\ Same(job'[j], job[j])
  BY Typed, GotoAll DEF MoveReserve
<1>3. \A i \in Jobs : Moving(job'[i]) = Moving(job[i])
  BY <1>1, <1>2 DEF Same, Others, Moving
<1>4. UNCHANGED <<sheet, cancels, crashes>>
  BY DEF MoveReserve
<1>5. CASE UNCHANGED <<funds, booked>>
  BY <1>3, <1>4, <1>5, AccountCarry
<1>6. CASE /\ ReleaseKey(s) \notin booked
           /\ funds' = [funds EXCEPT !.payable = @ - Reserve, !.merchant = @ + Reserve]
           /\ booked' = booked \cup {ReleaseKey(s)}
  <2>1. funds'.merchant = funds.merchant + Reserve
    BY <1>6, Typed DEF Funds
  <2>2. \A t \in Settlements \ {s} : ReleaseKey(t) \in booked' <=> ReleaseKey(t) \in booked
    BY <1>6, KeysDiffer
  <2>3. /\ KeptNext[s] = Kept[s] - Reserve
        /\ \A t \in Settlements \ {s} : KeptNext[t] = Kept[t]
    <3>1. Kept[s] = sheet[s].gross - 0 /\ KeptNext[s] = sheet[s].gross - Reserve
      BY <1>1, <1>4, <1>6 DEF Kept, KeptNext
    <3>2. sheet[s].gross \in Nat
      BY <1>1 DEF Deals, SheetOK
    <3> QED
      BY <1>4, <2>2, <3>1, <3>2, AccountTypes DEF Kept, KeptNext
  <2>4. (\A t \in Settlements : Kept[t] \in Int) /\ \A t \in Settlements : KeptNext[t] \in Int
    BY <1>1, <2>3, AccountTypes
  <2>5. SumFunctionOnSet(KeptNext, Settlements) = SumFunctionOnSet(Kept, Settlements) - Kept[s] + KeptNext[s]
    BY <1>1, <2>3, <2>4, SettlementsAreFinite, SumChange
  <2>6. TransitNext = Transit
    BY <1>3 DEF TransitNext, Transit
  <2>7. EarnedNext = Earned
    BY <1>1, <2>1, <2>3, <2>4, <2>5, <2>6, SumsAreInts, AccountTypes DEF EarnedNext, Earned
  <2> QED
    BY <1>4, <2>7, NextAccount DEF MerchantAccount
<1> QED
  BY <1>5, <1>6 DEF MoveReserve

(* The steps of a job that move none of the business's earnings. *)
LEMMA StillAccount ==
    ASSUME EngineInv, Deals, MerchantAccount, NEW j \in Jobs,
           \/ WriteApproval(j) \/ WriteCancelled(j) \/ DebitPayable(j)
           \/ MarkProcessing(j) \/ WriteOutcome(j) \/ ClearReserve(j)
    PROVE  MerchantAccount'
<1>1. job[j].op # "calculate"
  <2>1. job[j].op \in {"approve", "cancel", "execute", "manual", "reserve"} \/ job[j].step \notin {"move", "write"}
    BY DEF WriteApproval, WriteCancelled, DebitPayable, MarkProcessing, WriteOutcome, ClearReserve, Doing, At
  <2> QED
    BY <2>1 DEF EngineInv, Ledger, DeskOK, Desk
<1>2. End(j) \/ \E s : Goto(j, s)
  BY DEF WriteApproval, WriteCancelled, DebitPayable, MarkProcessing, WriteOutcome, ClearReserve
<1>3. Others(j) /\ (job'[j] = Idle \/ Same(job'[j], job[j]))
  BY <1>2, Typed, EndJob, GotoAll DEF End
<1>4. \A i \in Jobs : Moving(job'[i]) = Moving(job[i])
  BY <1>1, <1>3, IdleJob DEF Others, Same, Moving
<1>5. \A s \in Settlements : sheet'[s].gross = sheet[s].gross
  <2>1. \/ sheet' = sheet
        \/ sheet' = [sheet EXCEPT ![job[j].p].approvedBy = job[j].by]
        \/ sheet' = [sheet EXCEPT ![job[j].p].held = FALSE]
    BY DEF WriteApproval, WriteCancelled, DebitPayable, MarkProcessing, WriteOutcome, ClearReserve
  <2> QED
    BY <2>1, Typed DEF Sheet
<1>6. funds'.merchant = funds.merchant
  BY Typed DEF WriteApproval, WriteCancelled, DebitPayable, MarkProcessing, WriteOutcome, ClearReserve, Funds
<1>7. \A s \in Settlements : ReleaseKey(s) \in booked' <=> ReleaseKey(s) \in booked
  <2>1. booked' = booked \/ booked' = booked \cup {DebitKey(job[j].p)}
    BY DEF WriteApproval, WriteCancelled, DebitPayable, MarkProcessing, WriteOutcome, ClearReserve
  <2> QED
    BY <2>1, KeysDiffer
<1>8. UNCHANGED <<cancels, crashes>>
  BY DEF WriteApproval, WriteCancelled, DebitPayable, MarkProcessing, WriteOutcome, ClearReserve
<1> QED
  BY <1>4, <1>5, <1>6, <1>7, <1>8, AccountCarry

(* Neither does a request that only starts a job. *)
LEMMA RequestAccount ==
    ASSUME EngineInv, Deals, MerchantAccount, NEW j \in Jobs, NEW s \in Settlements,
           \/ Calculate(j, s) \/ Execute(j, s) \/ PayoutSettlement(j, s) \/ ReleaseReserve(j, s)
           \/ \E u \in Staff : Approve(j, s, u)
    PROVE  MerchantAccount'
<1>1. job[j] = Idle
  BY DEF Calculate, Execute, PayoutSettlement, ReleaseReserve, Approve, Start
<1>2. Others(j) /\ (job'[j].op # "calculate" \/ job'[j].step = "move")
  <2>1. CASE ReleaseReserve(j, s)
    BY <2>1, Typed, StartAll DEF ReleaseReserve
  <2>2. CASE Calculate(j, s)
    <3>1. PICK gross, plain : job' = [job EXCEPT ![j] = [Idle EXCEPT !.op = "calculate", !.step = "move",
                                        !.p = s, !.read = gross, !.caught = plain]]
      BY <2>2 DEF Calculate
    <3>2. Others(j) /\ job'[j] = [Idle EXCEPT !.op = "calculate", !.step = "move",
                                        !.p = s, !.read = gross, !.caught = plain]
      BY <3>1, Typed, MovedJob
    <3> QED
      BY <3>2 DEF Idle
  <2>3. CASE Execute(j, s) \/ PayoutSettlement(j, s)
    <3>1. PICK op \in {"execute", "manual"} : \E step :
            job' = [job EXCEPT ![j] = [Idle EXCEPT !.op = op, !.p = s, !.read = sheet[s].net, !.step = step]]
      <4>1. CASE Execute(j, s)
        BY <4>1 DEF Execute
      <4>2. CASE PayoutSettlement(j, s)
        BY <4>2 DEF PayoutSettlement, Idle
      <4> QED
        BY <2>3, <4>1, <4>2
    <3>2. PICK step : /\ Others(j)
                      /\ job'[j] = [Idle EXCEPT !.op = op, !.p = s, !.read = sheet[s].net, !.step = step]
      BY <3>1, Typed, MovedJob
    <3> QED
      BY <3>2 DEF Idle
  <2>4. ASSUME NEW u \in Staff, Approve(j, s, u)
        PROVE  Others(j) /\ (job'[j].op # "calculate" \/ job'[j].step = "move")
    <3>1. Others(j) /\ job'[j] = [Idle EXCEPT !.op = "approve", !.step = "write", !.p = s,
                                  !.by = u, !.seen = sheet[s].approvedBy]
      BY <2>4, Typed, MovedJob DEF Approve
    <3> QED
      BY <3>1 DEF Idle
  <2> QED
    BY <2>1, <2>2, <2>3, <2>4
<1>3. \A i \in Jobs : Moving(job'[i]) = Moving(job[i])
  BY <1>1, <1>2, IdleJob DEF Others, Moving
<1>4. UNCHANGED <<funds, booked, sheet, cancels, crashes>>
  BY DEF Calculate, Execute, PayoutSettlement, ReleaseReserve, Approve
<1> QED
  BY <1>3, <1>4, AccountCarry

(* A cancelled row goes on keeping what was given back: nothing is claimed *)
(* once a cancellation was asked for.                                      *)
LEMMA CancelAccount ==
    ASSUME Deals, cancels \in Nat, NEW j \in Jobs, MoveBack(j) \/ \E s \in Settlements : Cancel(j, s)
    PROVE  MerchantAccount'
<1>1. cancels' # 0
  <2>1. CASE MoveBack(j)
    BY <2>1 DEF MoveBack, Doing, Deals, DealOK
  <2>2. CASE \E s \in Settlements : Cancel(j, s)
    BY <2>2 DEF Cancel
  <2> QED
    BY <2>1, <2>2
<1> QED
  BY <1>1, Cancelled

LEMMA BusinessInit == Init => BusinessInv
<1> SUFFICES ASSUME Init PROVE BusinessInv
  OBVIOUS
<1>1. \A j \in Jobs : job[j] = Idle
  BY DEF Init, PayoutInit
<1>2. Idle.op = "none" /\ Idle.p = NoPayout /\ Idle.step = "idle" /\ NoPayout \notin Settlements
  BY IdleJob, PayoutAssumption, Zenon
<1>3. \A j \in Jobs : DealOK(j)
  BY <1>1, <1>2 DEF DealOK
<1>4. \A s \in Settlements : /\ s \in Payees /\ sheet[s] = Blank /\ ~Exists(s) /\ payout[s].amount = 0
                             /\ ReleaseKey(s) \notin booked
  BY Sets DEF Init, PayoutInit, Exists
<1>5. SheetOK
  <2>1. Blank.net = 0 /\ Blank.gross = 0 /\ Blank.held = FALSE
    BY DEF Blank
  <2> QED
    BY <1>1, <1>2, <1>4, <2>1 DEF SheetOK, Fresh
<1>6. MerchantAccount
  <2>1. \A s \in Settlements : Kept[s] = 0
    BY <1>4 DEF Kept, Blank
  <2>2. \A j \in Jobs : Transit[j] = 0
    BY <1>1, <1>2 DEF Transit, Moving
  <2>3. SumFunctionOnSet(Kept, Settlements) = 0 /\ SumFunctionOnSet(Transit, Jobs) = 0
    BY <2>1, <2>2, SettlementsAreFinite, SumZero
  <2>4. funds.merchant = MerchantOpening /\ MerchantOpening \in Int
    <3>1. MerchantOpening \in Nat
      BY PayoutAssumption, Zenon
    <3> QED
      BY <3>1 DEF Init, PayoutInit
  <2>5. Earned = MerchantOpening
    BY <2>3, <2>4 DEF Earned
  <2> QED
    BY <2>4, <2>5 DEF MerchantAccount
<1> QED
  BY <1>3, <1>5, <1>6 DEF BusinessInv, Init

(* Every step of the system keeps the account of the business.             *)
LEMMA BusinessNext == ASSUME EngineInv, BusinessInv, Next PROVE BusinessInv'
<1>1. Deals /\ cancels \in Nat /\ MerchantAccount /\ PayoutTypeOK /\ Safe /\ DeskOK
  BY DEF BusinessInv, Deals, EngineInv, Ledger
<1>2. ASSUME NEW j \in Jobs, SettlementStep(j) PROVE Deals' /\ MerchantAccount' /\ cancels' = cancels
  <2>1. Deals'
    BY <1>1, <1>2, MoveToPayableDeals, NewRowDeals, ApprovalDeals, MoveBackDeals, CancelledDeals,
       DebitDeals, ProcessingDeals, OutcomeDeals, ReleaseDeals, ClearDeals DEF SettlementStep
  <2>2. MerchantAccount'
    BY <1>1, <1>2, ToPayableAccount, NewRowAccount, ReleaseAccount, StillAccount, CancelAccount
       DEF SettlementStep
  <2>3. cancels' = cancels
    BY <1>2 DEF SettlementStep, MoveToPayable, CreateSettlement, WriteApproval, MoveBack, WriteCancelled,
                DebitPayable, MarkProcessing, WriteOutcome, MoveReserve, ClearReserve
  <2> QED
    BY <2>1, <2>2, <2>3
<1>3. ASSUME NEW j \in Jobs, NEW s \in Settlements,
             \/ Calculate(j, s) \/ Cancel(j, s) \/ Execute(j, s)
             \/ PayoutSettlement(j, s) \/ ReleaseReserve(j, s)
             \/ \E u \in Staff : Approve(j, s, u)
      PROVE  Deals' /\ MerchantAccount' /\ cancels' \in {cancels, cancels + 1}
  <2>1. Deals'
    BY <1>1, <1>3, CalculateDeals, RequestDeals
  <2>2. MerchantAccount'
    BY <1>1, <1>3, RequestAccount, CancelAccount
  <2>3. cancels' \in {cancels, cancels + 1}
    BY <1>3 DEF Calculate, Cancel, Execute, PayoutSettlement, ReleaseReserve, Approve
  <2> QED
    BY <2>1, <2>2, <2>3
<1>4. ASSUME PayoutNext, UNCHANGED <<sheet, approvals, cancels>>
      PROVE  Deals' /\ MerchantAccount' /\ cancels' = cancels
  BY <1>1, <1>4, PayoutDeals, PayoutAccount
<1>5. Deals' /\ MerchantAccount' /\ cancels' \in {cancels, cancels + 1}
  BY <1>2, <1>3, <1>4 DEF Next
<1>6. cancels' \in Nat
  BY <1>1, <1>5
<1> QED
  BY <1>5, <1>6 DEF BusinessInv, Deals

LEMMA BusinessStutters == ASSUME BusinessInv, UNCHANGED vars PROVE BusinessInv'
<1>1. \A s \in Settlements : Fresh(s) => Fresh(s)'
  BY DEF Fresh, Exists, Blank, ReleaseKey, vars
<1>2. SheetOK'
  BY <1>1 DEF BusinessInv, SheetOK, Exists, Holds, ReleaseKey, vars
<1>3. \A j \in Jobs : DealOK(j)'
  BY DEF BusinessInv, DealOK, Holds, vars
<1>4. MerchantAccount'
  BY AccountCarry DEF BusinessInv, vars
<1> QED
  BY <1>2, <1>3, <1>4 DEF BusinessInv, vars

LEMMA BusinessInvHolds == Spec => [](EngineInv /\ BusinessInv)
<1>1. EngineInv /\ BusinessInv /\ [Next]_vars => BusinessInv'
  BY BusinessNext, BusinessStutters
<1> QED
  BY <1>1, BusinessInit, EngineInvHolds, PTL DEF Spec

(* "The balance a business sees as available and what is queued to pay out *)
(* can never double-count": while nothing is cancelled, what the merchant  *)
(* wallet shows and what the bank has been told to pay stay within what    *)
(* the business earned, for any number of settlements, payouts by hand and *)
(* by the engine, reserve sweeps, overlapping jobs and crashes.            *)
THEOREM EngineCountsOnce == Spec => []NoDoubleCount
<1>1. ASSUME EngineInv, BusinessInv PROVE NoDoubleCount
  <2>1. Deals /\ MerchantAccount
    BY <1>1 DEF BusinessInv, Deals
  <2>2. \A s \in Settlements : PaidOut[s] \in Nat /\ PaidOut[s] \in Int /\ Kept[s] \in Int /\ PaidOut[s] <= Kept[s]
    BY <1>1, <2>1, AccountTypes DEF PaidOut
  <2>3. AtTheBank \subseteq Settlements
    BY DEF AtTheBank
  <2>4. SumFunctionOnSet(PaidOut, AtTheBank) <= SumFunctionOnSet(PaidOut, Settlements)
    BY <2>2, <2>3, SettlementsAreFinite, SumSubset
  <2>5. SumFunctionOnSet(PaidOut, Settlements) <= SumFunctionOnSet(Kept, Settlements)
    BY <2>2, SettlementsAreFinite, SumMonotone
  <2>6. SumFunctionOnSet(PaidOut, AtTheBank) \in Nat /\ SumFunctionOnSet(PaidOut, Settlements) \in Nat
    <3>1. IsFiniteSet(AtTheBank)
      BY <2>3, SettlementsAreFinite, FS_Subset
    <3> QED
      BY <2>2, <2>3, <3>1, SettlementsAreFinite, SumNat
  <2>7. cancels = 0 => Earned <= MerchantOpening
    BY <2>1 DEF MerchantAccount
  <2> QED
    BY <1>1, <2>1, <2>4, <2>5, <2>6, <2>7, SumsAreInts, AccountTypes DEF NoDoubleCount, NeverDoubleCounted, Earned
<1> QED
  BY <1>1, BusinessInvHolds, PTL

(* calculate moves the money "as the settlement is recorded, in one        *)
(* transaction": with no job running and none killed or cancelled, what is *)
(* missing from the merchant wallet is what settlement rows account for,   *)
(* less the reserves given back, for any number of settlements.            *)
THEOREM EngineRecordsMoves == Spec => []MoveIsRecorded
<1>1. ASSUME EngineInv, BusinessInv PROVE MoveIsRecorded
  <2> SUFFICES ASSUME crashes = 0, cancels = 0, \A j \in Jobs : job[j] = Idle
               PROVE  funds.merchant = MerchantOpening - SumFunctionOnSet(Gross, Made)
                                       + Reserve * Cardinality(Released)
    BY DEF MoveIsRecorded
  <2> DEFINE Back == [s \in Settlements |-> IF ReleaseKey(s) \in booked THEN Reserve ELSE 0]
  <2>1. Deals /\ MerchantAccount
    BY <1>1 DEF BusinessInv, Deals
  <2>2. Earned = MerchantOpening
    BY <2>1 DEF MerchantAccount
  <2>3. SumFunctionOnSet(Transit, Jobs) = 0
    <3>1. \A j \in Jobs : Transit[j] = 0
      BY IdleJob DEF Transit, Moving
    <3> QED
      BY <3>1, SettlementsAreFinite, SumZero
  <2>4. /\ \A s \in Settlements : /\ Back[s] \in Int /\ Kept[s] \in Int /\ Gross[s] \in Int
                                  /\ Gross[s] = Kept[s] + Back[s]
        /\ \A s \in Settlements \ Released : Back[s] = 0
        /\ \A s \in Released : Back[s] = Reserve
        /\ \A s \in Settlements \ Made : Gross[s] = 0
        /\ Made \subseteq Settlements /\ Released \subseteq Settlements
    <3>1. \A s \in Settlements : sheet[s].gross \in Nat /\ (settled[s] = "ABSENT" => sheet[s].gross = 0)
      BY <2>1 DEF Deals, SheetOK, Fresh, Blank
    <3>2. Reserve \in Nat
      BY SettlementAssumption
    <3> QED
      BY <3>1, <3>2 DEF Gross, Kept, Made, Released
  <2> HIDE DEF Back
  <2>5. SumFunctionOnSet(Gross, Settlements) = SumFunctionOnSet(Kept, Settlements) + SumFunctionOnSet(Back, Settlements)
    BY <2>4, SettlementsAreFinite, SumPlus
  <2>6. SumFunctionOnSet(Back, Settlements) = SumFunctionOnSet(Back, Released)
    BY <2>4, SettlementsAreFinite, SumSupport
  <2>7. SumFunctionOnSet(Back, Released) = Reserve * Cardinality(Released)
    BY <2>4, SettlementsAreFinite, FS_Subset, SumConstant, Sets
  <2>8. SumFunctionOnSet(Gross, Settlements) = SumFunctionOnSet(Gross, Made)
    BY <2>4, SettlementsAreFinite, SumSupport
  <2>9. PICK n \in Int : n = SumFunctionOnSet(Back, Released)
    <3>1. IsFiniteSet(Released) /\ \A s \in Released : Back[s] \in Int
      BY <2>4, SettlementsAreFinite, FS_Subset
    <3> QED
      BY <3>1, SumRemove
  <2>10. funds.merchant = MerchantOpening - SumFunctionOnSet(Gross, Made) + n
    <3>1. SumFunctionOnSet(Kept, Settlements) \in Int /\ funds.merchant \in Int /\ MerchantOpening \in Int
      BY <1>1, <2>1, SumsAreInts, AccountTypes
    <3> QED
      BY <2>2, <2>3, <2>5, <2>6, <2>8, <2>9, <3>1 DEF Earned
  <2> QED
    BY <2>7, <2>9, <2>10
<1> QED
  BY <1>1, BusinessInvHolds, PTL

----------------------------------------------------------------------------
(* The account of the customer.  What rows and jobs say of the bank is so  *)
(* (Answers); while nothing went wrong unseen a refund is of a transfer    *)
(* the bank refused and no debit is left behind (Honest); and a customer   *)
(* has what debits and refunds leave (UserAccount).                        *)

(* A client key stands for one request: every withdrawal that carries it   *)
(* asks for the same amount.                                               *)
OneAmountPerKey == \A v, w \in Withdrawals : DebitKey(v) = DebitKey(w) => Amount[v] = Amount[w]

Reversed(p) == ReversalKey(p) \in booked

Sends(c) == c.step \in {"send", "mark processing"}

(* The bank has not paid p and will not: it declined it, or never had it   *)
(* and nobody is left to send it.                                          *)
Refused(p) == /\ bank[p] \in {"none", "failed"} /\ Exists(p)
              /\ \A j \in Jobs : Sends(job[j]) => job[j].p # p

BankOK == \A p \in Payees : bank[p] # "none" => sent[p] > 0

SaysPaid(c) == c.step = "mark paid" \/ (c.step = "record" /\ c.said = "PAID")

PaidOK == /\ \A p \in Payees : payout[p].status = "PAID" => bank[p] = "paid"
          /\ \A j \in Jobs : SaysPaid(job[j]) => bank[job[j].p] = "paid"

(* A reversal is of a row that is there. *)
Backed == \A j \in Jobs : job[j].step = "reverse" => Exists(job[j].p)

AmountsOK == \A w \in Withdrawals : Exists(w) => payout[w].amount = Amount[w]

Failing(c) == c.step \in {"mark failed", "reverse"}

RefundsOK == /\ \A p \in Payees : Reversed(p) => Refused(p)
             /\ \A j \in Jobs : Failing(job[j]) => Refused(job[j].p)

Reversing(p) == \E j \in Jobs : job[j].step = "reverse" /\ job[j].p = p
FailedOK == \A p \in Payees : payout[p].status = "FAILED" => Reversed(p) \/ Reversing(p)

Creating(p) == \E j \in Jobs : job[j].step = "create" /\ job[j].p = p
DebitsOK == \A w \in Withdrawals : DebitKey(w) \in booked =>
    \E v \in Withdrawals : DebitKey(v) = DebitKey(w) /\ (Exists(v) \/ Creating(v))

DebitKeys == {DebitKey(w) : w \in Withdrawals}
Price == [key \in DebitKeys |-> Amount[CHOOSE w \in Withdrawals : DebitKey(w) = key]]
Debits == {key \in DebitKeys : key \in booked}
Refunds == {w \in Withdrawals : Reversed(w)}
UserAccount == funds.user = Opening - SumFunctionOnSet(Price, Debits) + SumFunctionOnSet(Amount, Refunds)

Answers == BankOK /\ PaidOK /\ AmountsOK
Honest == Untroubled /\ RefundsOK /\ FailedOK /\ DebitsOK
CashInv == Answers /\ Backed /\ (clean => Honest) /\ (OneAmountPerKey => UserAccount)

(* Steps that say nothing about the bank. *)
Plain(c) == c.step \notin {"mark paid", "record", "mark failed", "reverse", "send", "mark processing"}

LEMMA PlainFacts == \A c : Plain(c) => ~SaysPaid(c) /\ ~Failing(c) /\ ~Sends(c)
                                  /\ c.step \notin {"reverse", "record"}
  BY Zenon DEF Plain, SaysPaid, Failing, Sends

LEMMA PlainIdle == Plain(Idle) /\ Idle.step # "create" /\ Idle.p = NoPayout
<1>1. Idle.step = "idle" /\ Idle.p = NoPayout
  BY IdleJob
<1>2. Idle.step # "create"
  BY <1>1
<1>3. Plain(Idle)
  BY <1>1, Zenon DEF Plain
<1> QED
  BY <1>1, <1>2, <1>3

(* Whoever is about to send has a row, and is alone with it.               *)
LEMMA SenderFacts ==
    ASSUME Safe
    PROVE  /\ \A j \in Jobs : Sends(job[j]) => /\ job[j].p \in Payees /\ Exists(job[j].p)
                                               /\ sent[job[j].p] = 0
           /\ \A i, j \in Jobs : Sends(job[i]) /\ Sends(job[j]) /\ job[i].p = job[j].p => i = j
<1>1. \A j \in Jobs : Sends(job[j]) <=> Sending(j)
  BY DEF Sends, Sending
<1>2. \A j \in Jobs : Sends(job[j]) => job[j].step # "idle"
  BY DEF Sends
<1> QED
  BY <1>1, <1>2 DEF Safe, JobsOK, OneSender

(* A withdrawal's debit is no settlement's. *)
LEMMA CashKeys ==
    /\ \A w \in Withdrawals : w \in Payees /\ w \notin Settlements /\ Amount[w] \in Nat
    /\ \A w \in Withdrawals, s \in Settlements : DebitKey(w) # DebitKey(s)
    /\ \A p, q \in Payees : p \in Withdrawals /\ RowKey(p) = RowKey(q) =>
          q \in Withdrawals /\ DebitKey(p) = DebitKey(q)
    /\ \A p \in Payees : p \notin Withdrawals => p \in Settlements
<1>1. /\ \A w \in Withdrawals : w \in Payees /\ w \notin Settlements
      /\ \A p \in Payees : p \notin Withdrawals => p \in Settlements
  BY PayoutAssumption, Zenon DEF Payees
<1>2. \A w \in Withdrawals : Amount[w] \in Nat
  BY PayoutAssumption, Zenon
<1>3. \A w \in Withdrawals, s \in Settlements : DebitKey(w) # DebitKey(s)
  BY <1>1 DEF DebitKey
<1>4. \A w \in Withdrawals : ClientKey[w] \notin Withdrawals \cup Settlements
  BY PayoutAssumption, Zenon
<1>5. ASSUME NEW p \in Payees, NEW q \in Payees, p \in Withdrawals, RowKey(p) = RowKey(q)
      PROVE  q \in Withdrawals /\ DebitKey(p) = DebitKey(q)
  <2>1. q \in Withdrawals
    BY <1>1, <1>4, <1>5 DEF RowKey
  <2> QED
    BY <1>1, <1>4, <1>5, <2>1 DEF RowKey, DebitKey
<1> QED
  BY <1>1, <1>2, <1>3, <1>5

(* What a step changes of a row, if anything. *)
LEMMA BankTypes ==
    ASSUME PayoutTypeOK
    PROVE  /\ bank \in [Payees -> BankStatus] /\ sent \in [Payees -> Nat] /\ payout \in [Payees -> Row]
           /\ \A p \in Payees : bank[p] \in BankStatus /\ sent[p] \in Nat /\ payout[p] \in Row
           /\ job \in [Jobs -> Job] /\ funds \in Funds
  BY DEF PayoutTypeOK

----------------------------------------------------------------------------
(* What the rows and the jobs say of the bank. *)

LEMMA AnswersCarry ==
    ASSUME Answers, UNCHANGED <<payout, bank, sent>>,
           \A i \in Jobs : job'[i] = job[i] \/ (SaysPaid(job'[i]) => bank[job'[i].p] = "paid")
    PROVE  Answers'
  BY DEF Answers, BankOK, PaidOK, AmountsOK, Exists

(* Rows change, what they say is true. *)
LEMMA AnswersRow ==
    ASSUME PayoutTypeOK, Answers, UNCHANGED <<bank, sent>>, NEW j \in Jobs, Others(j),
           SaysPaid(job'[j]) => bank[job'[j].p] = "paid",
           NEW p \in Payees, NEW r, payout' = [payout EXCEPT ![p] = r], r.status = "PAID" => bank[p] = "paid",
           p \in Withdrawals => r.amount = Amount[p]
    PROVE  Answers'
<1>1. payout'[p] = r /\ \A q \in Payees \ {p} : payout'[q] = payout[q]
  BY BankTypes
<1>2. \A q \in Payees : payout'[q].status = "PAID" => bank[q] = "paid"
  BY <1>1 DEF Answers, PaidOK
<1>3. \A i \in Jobs : SaysPaid(job'[i]) => bank[job'[i].p] = "paid"
  BY DEF Answers, PaidOK, Others
<1>4. \A w \in Withdrawals : payout'[w].status # "ABSENT" => payout'[w].amount = Amount[w]
  BY <1>1, CashKeys DEF Answers, AmountsOK, Exists
<1> QED
  BY <1>2, <1>3, <1>4 DEF Answers, BankOK, PaidOK, AmountsOK, Exists

LEMMA CreateAnswers ==
    ASSUME EngineInv, Answers, NEW j \in Jobs, CreatePayout(j) PROVE Answers'
<1>1. PayoutTypeOK /\ job[j].step = "create" /\ job[j].p \in Payees /\ UNCHANGED <<bank, sent>>
  BY DEF CreatePayout, At, EngineInv, Ledger, Safe, JobsOK
<1>2. Others(j) /\ ~SaysPaid(job'[j])
  <2>1. job' = [job EXCEPT ![j] = Idle] \/ Goto(j, "settle failed") \/ Goto(j, "mark processing") \/ Goto(j, "send")
    BY DEF CreatePayout
  <2>2. Others(j) /\ job'[j].step \in {"idle", "settle failed", "mark processing", "send"}
    BY <1>1, <2>1, EndJob, GotoJob, IdleJob
  <2> QED
    BY <2>2, Zenon DEF SaysPaid
<1>3. CASE payout' = payout
  BY <1>1, <1>2, <1>3, AnswersCarry DEF Others
<1>4. CASE payout' # payout
  <2> DEFINE r == [status |-> "PROCESSING", coded |-> FALSE,
                   amount |-> IF job[j].p \in Withdrawals THEN Amount[job[j].p] ELSE job[j].read]
  <2>1. payout' = [payout EXCEPT ![job[j].p] = r]
    BY <1>4 DEF CreatePayout
  <2>2. r.status = "PROCESSING" /\ (job[j].p \in Withdrawals => r.amount = Amount[job[j].p])
    OBVIOUS
  <2> HIDE DEF r
  <2> QED
    BY <1>1, <1>2, <2>1, <2>2, AnswersRow
<1> QED
  BY <1>3, <1>4

(* The status of a row changes. *)
LEMMA StatusAnswers ==
    ASSUME PayoutTypeOK, Answers, UNCHANGED <<bank, sent>>, NEW j \in Jobs, Others(j),
           SaysPaid(job'[j]) => bank[job'[j].p] = "paid",
           NEW p \in Payees, Exists(p), NEW status, NEW coded, status = "PAID" => bank[p] = "paid",
           payout' \in {[payout EXCEPT ![p].status = status],
                        [payout EXCEPT ![p].status = status, ![p].coded = coded]}
    PROVE  Answers'
<1>1. PICK r : /\ payout' = [payout EXCEPT ![p] = r] /\ r.status = status
               /\ r.amount = payout[p].amount
  <2>1. CASE payout' = [payout EXCEPT ![p].status = status]
    <3> WITNESS [payout[p] EXCEPT !.status = status]
    <3> QED
      BY <2>1, BankTypes DEF Row
  <2>2. CASE payout' = [payout EXCEPT ![p].status = status, ![p].coded = coded]
    <3> WITNESS [payout[p] EXCEPT !.status = status, !.coded = coded]
    <3> QED
      BY <2>2, BankTypes DEF Row
  <2> QED
    BY <2>1, <2>2
<1>2. p \in Withdrawals => r.amount = Amount[p]
  BY <1>1 DEF Answers, AmountsOK
<1> QED
  BY <1>1, <1>2, AnswersRow

LEMMA FinishPlain ==
    ASSUME PayoutTypeOK, NEW j \in Jobs, Finish(j) \/ job' = [job EXCEPT ![j] = Idle]
    PROVE  Others(j) /\ Plain(job'[j]) /\ job'[j].step # "create"
<1>1. Others(j) /\ (job'[j] = Idle \/ job'[j].step \in {"settle failed", "settle paid"})
  BY FinishJob, EndJob
<1>2. CASE job'[j] = Idle
  BY <1>1, <1>2, PlainIdle
<1>3. CASE job'[j].step \in {"settle failed", "settle paid"}
  <2>1. Plain(job'[j])
    BY <1>3, Zenon DEF Plain
  <2>2. job'[j].step # "create"
    BY <1>3
  <2> QED
    BY <1>1, <2>1, <2>2
<1> QED
  BY <1>1, <1>2, <1>3

LEMMA GotoPlain ==
    ASSUME PayoutTypeOK, NEW j \in Jobs,
           NEW s \in {"create", "pay settlement", "fail settlement", "write"}, Goto(j, s)
    PROVE  Others(j) /\ Plain(job'[j]) /\ job'[j].step = s /\ job'[j].p = job[j].p
<1>1. Others(j) /\ job'[j].step = s /\ job'[j].p = job[j].p
  BY GotoJob
<1>2. Plain(job'[j])
  BY <1>1, Zenon DEF Plain
<1> QED
  BY <1>1, <1>2

LEMMA StartPlain ==
    ASSUME PayoutTypeOK, NEW j \in Jobs, NEW op, NEW s \in {"debit", "verify", "move"}, NEW p,
           Start(j, op, s, p)
    PROVE  /\ Others(j) /\ Plain(job'[j]) /\ job'[j].step = s /\ job'[j].p = p
           /\ job[j] = Idle
<1>1. Others(j) /\ job'[j].step = s /\ job'[j].p = p /\ job[j] = Idle
  BY StartAll
<1>2. Plain(job'[j])
  BY <1>1, Zenon DEF Plain
<1> QED
  BY <1>1, <1>2

(* The bank has the transfer: it was sent, and the row is there. *)
LEMMA Taken ==
    ASSUME PayoutTypeOK, Safe, BankOK, NEW p \in Payees, bank[p] # "none"
    PROVE  Exists(p) /\ \A j \in Jobs : Sends(job[j]) => job[j].p # p
<1>1. sent[p] > 0 /\ sent[p] \in Nat
  BY BankTypes DEF BankOK
<1>2. Exists(p)
  BY <1>1 DEF Safe, SentOnce
<1> QED
  BY <1>1, <1>2, SenderFacts

LEMMA WordOfBank ==
    ASSUME PaidOK, NEW j \in Jobs, \/ job[j].step = "mark paid"
                                   \/ job[j].step = "record" /\ job[j].said = "PAID"
    PROVE  bank[job[j].p] = "paid"
<1>1. SaysPaid(job[j])
  BY Zenon DEF SaysPaid
<1> QED
  BY <1>1 DEF PaidOK

(* Record goes on with what the gateway said, or is done.                  *)
LEMMA RecordJob ==
    ASSUME PayoutTypeOK, NEW j \in Jobs, Record(j)
    PROVE  /\ Others(j) /\ job[j].step = "record"
           /\ \/ job[j].said = "PAID" /\ job'[j].step = "mark paid" /\ job'[j].p = job[j].p
              \/ job[j].said = "FAILED" /\ job'[j].step = "mark failed" /\ job'[j].p = job[j].p
              \/ Plain(job'[j]) /\ job'[j].step # "create"
<1>1. \/ job[j].said = "PAID" /\ Goto(j, "mark paid")
      \/ job[j].said = "FAILED" /\ Goto(j, "mark failed")
      \/ Finish(j)
  BY DEF Record
<1>2. CASE job[j].said = "PAID" /\ Goto(j, "mark paid")
  <2>1. Others(j) /\ job'[j].step = "mark paid" /\ job'[j].p = job[j].p
    BY <1>2, GotoJob
  <2> QED
    BY <1>2, <2>1, Zenon DEF Record, At
<1>3. CASE job[j].said = "FAILED" /\ Goto(j, "mark failed")
  <2>1. Others(j) /\ job'[j].step = "mark failed" /\ job'[j].p = job[j].p
    BY <1>3, GotoJob
  <2> QED
    BY <1>3, <2>1, Zenon DEF Record, At
<1>4. CASE Finish(j)
  <2>1. Others(j) /\ Plain(job'[j]) /\ job'[j].step # "create"
    BY <1>4, FinishPlain
  <2> QED
    BY <2>1, Zenon DEF Record, At
<1> QED
  BY <1>1, <1>2, <1>3, <1>4, Zenon

LEMMA RecordAnswers ==
    ASSUME EngineInv, Answers, NEW j \in Jobs, Record(j) PROVE Answers'
<1>1. PayoutTypeOK /\ job[j].step = "record" /\ job[j].p \in Payees /\ Exists(job[j].p) /\ UNCHANGED <<bank, sent>>
  BY DEF Record, At, EngineInv, Ledger, Safe, JobsOK
<1>2. job[j].said = "PAID" => bank[job[j].p] = "paid"
  BY <1>1, WordOfBank DEF Answers
<1>3. Others(j) /\ (SaysPaid(job'[j]) => bank[job'[j].p] = "paid")
  <2>1. job'[j].step = "mark failed" => ~SaysPaid(job'[j])
    BY Zenon DEF SaysPaid
  <2> QED
    BY <1>1, <1>2, <2>1, RecordJob, PlainFacts, Zenon
<1>4. payout' = [payout EXCEPT ![job[j].p].status = job[j].said, ![job[j].p].coded = TRUE]
  BY DEF Record
<1> QED
  BY <1>1, <1>2, <1>3, <1>4, StatusAnswers

(* markPaid and markFailed. *)
LEMMA MarkJob ==
    ASSUME PayoutTypeOK, NEW j \in Jobs, MarkPaid(j) \/ MarkFailed(j)
    PROVE  /\ Others(j) /\ job'[j].step # "create" /\ ~SaysPaid(job'[j]) /\ ~Sends(job'[j])
           /\ \/ Plain(job'[j])
              \/ MarkFailed(j) /\ job'[j].step = "reverse" /\ job'[j].p = job[j].p
           /\ job[j].step \in {"mark paid", "mark failed"}
           /\ \/ payout' = payout
              \/ /\ Exists(job[j].p) /\ payout[job[j].p].status = "PROCESSING"
                 /\ \/ /\ job[j].step = "mark paid"
                       /\ payout' = [payout EXCEPT ![job[j].p].status = "PAID"]
                    \/ /\ job[j].step = "mark failed" /\ job'[j].step = "reverse" /\ job'[j].p = job[j].p
                       /\ payout' = [payout EXCEPT ![job[j].p].status = "FAILED"]
<1>1. CASE Finish(j) /\ payout' = payout /\ job[j].step \in {"mark paid", "mark failed"}
  <2>1. Others(j) /\ job'[j].step # "create" /\ Plain(job'[j])
    BY <1>1, FinishPlain
  <2> QED
    BY <1>1, <2>1, PlainFacts, Zenon
<1>2. CASE /\ job[j].step = "mark paid" /\ Goto(j, "pay settlement") /\ payout[job[j].p].status = "PROCESSING"
           /\ payout' = [payout EXCEPT ![job[j].p].status = "PAID"]
  <2>1. Others(j) /\ Plain(job'[j]) /\ job'[j].step = "pay settlement"
    BY <1>2, GotoPlain
  <2>2. job'[j].step # "create" /\ Exists(job[j].p)
    BY <1>2, <2>1, Zenon DEF Exists
  <2> QED
    BY <1>2, <2>1, <2>2, PlainFacts, Zenon
<1>3. CASE /\ MarkFailed(j) /\ job[j].step = "mark failed" /\ Goto(j, "reverse") /\ payout[job[j].p].status = "PROCESSING"
           /\ payout' = [payout EXCEPT ![job[j].p].status = "FAILED"]
  <2>1. Others(j) /\ job'[j].step = "reverse" /\ job'[j].p = job[j].p
    BY <1>3, GotoJob
  <2>2. job'[j].step # "create" /\ Exists(job[j].p)
    BY <1>3, <2>1, Zenon DEF Exists
  <2>3. ~SaysPaid(job'[j]) /\ ~Sends(job'[j])
    BY <2>1, Zenon DEF SaysPaid, Sends
  <2> QED
    BY <1>3, <2>1, <2>2, <2>3, Zenon
<1>4. CASE MarkPaid(j)
  BY <1>1, <1>2, <1>4, Zenon DEF MarkPaid, At
<1>5. CASE MarkFailed(j)
  BY <1>1, <1>3, <1>5, Zenon DEF MarkFailed, At
<1> QED
  BY <1>4, <1>5

LEMMA MarkAnswers ==
    ASSUME EngineInv, Answers, NEW j \in Jobs, MarkPaid(j) \/ MarkFailed(j) PROVE Answers'
<1>1. UNCHANGED <<bank, sent>> /\ PayoutTypeOK
  BY DEF MarkPaid, MarkFailed, EngineInv, Ledger
<1>2. Others(j) /\ ~SaysPaid(job'[j])
  BY <1>1, MarkJob
<1>3. CASE payout' = payout
  BY <1>1, <1>2, <1>3, AnswersCarry DEF Others
<1>4. CASE payout' # payout
  <2>1. job[j].step \in {"mark paid", "mark failed"} /\ Exists(job[j].p)
    BY <1>1, <1>4, MarkJob, Zenon
  <2>2. job[j].step # "idle"
    BY <2>1, Zenon
  <2>3. job[j].p \in Payees
    BY <2>2 DEF EngineInv, Ledger, Safe, JobsOK
  <2>4. job[j].step = "mark paid" => bank[job[j].p] = "paid"
    BY WordOfBank, Zenon DEF Answers
  <2>5. PICK status : /\ payout' = [payout EXCEPT ![job[j].p].status = status]
                      /\ status = "PAID" => bank[job[j].p] = "paid"
    <3>1. "FAILED" # "PAID"
      OBVIOUS
    <3> QED
      BY <1>1, <1>4, <2>4, <3>1, MarkJob, Zenon
  <2> QED
    BY <1>1, <1>2, <2>1, <2>3, <2>5, StatusAnswers
<1> QED
  BY <1>3, <1>4

----------------------------------------------------------------------------
(* Most steps leave rows and bank alone, and the job they move says of     *)
(* them what is so.                                                        *)

Heeds(j) ==
    /\ Others(j) /\ UNCHANGED <<payout, bank, sent>>
    /\ SaysPaid(job'[j]) => bank[job'[j].p] = "paid"
    /\ Failing(job'[j]) => job'[j].p \in Payees /\ bank[job'[j].p] = "failed"
    /\ Sends(job'[j]) => Sends(job[j]) /\ job'[j].p = job[j].p
    /\ job'[j].step # "record"

(* They leave the customer's money alone, too. *)
Still(j) ==
    /\ Heeds(j) /\ job[j].step \notin {"reverse", "create"} /\ funds'.user = funds.user
    /\ \A w \in Withdrawals : DebitKey(w) \in booked' <=> DebitKey(w) \in booked
    /\ \A p \in Payees : ReversalKey(p) \in booked' <=> ReversalKey(p) \in booked

LEMMA HeedsPlain ==
    ASSUME NEW j \in Jobs, Others(j), Plain(job'[j]), UNCHANGED <<payout, bank, sent>>
    PROVE  Heeds(j)
  BY PlainFacts DEF Heeds

LEMMA HeedsAnswers ==
    ASSUME Answers, NEW j \in Jobs, Heeds(j) PROVE Answers'
  BY AnswersCarry DEF Heeds, Others

LEMMA StillPlain ==
    ASSUME NEW j \in Jobs, Others(j), Plain(job'[j]), job[j].step \notin {"reverse", "create"},
           UNCHANGED <<funds, booked, payout, bank, sent>>
    PROVE  Still(j)
  BY HeedsPlain DEF Still

LEMMA PayoutStill ==
    ASSUME PayoutTypeOK, Safe, NEW j \in Jobs,
           \/ PaySettlement(j) \/ FailSettlement(j) \/ Verify(j)
           \/ \E w \in Withdrawals : Withdraw(j, w)
           \/ \E p \in Payees : TransferEvent(j, p) \/ Reconcile(j, p)
    PROVE  Still(j)
<1>1. ASSUME PaySettlement(j) \/ FailSettlement(j) PROVE Still(j)
  <2>1. Finish(j) /\ UNCHANGED <<funds, booked, payout, bank, sent>>
    BY <1>1 DEF PaySettlement, FailSettlement
  <2>2. job[j].step \notin {"reverse", "create"}
    BY <1>1 DEF PaySettlement, FailSettlement, At
  <2>3. Others(j) /\ Plain(job'[j])
    BY <2>1, FinishPlain
  <2> QED
    BY <2>1, <2>2, <2>3, StillPlain
<1>2. ASSUME NEW w \in Withdrawals, Withdraw(j, w) PROVE Still(j)
  <2>1. Others(j) /\ Plain(job'[j]) /\ job[j] = Idle /\ UNCHANGED <<funds, booked, payout, bank, sent>>
    BY <1>2, StartPlain DEF Withdraw
  <2> QED
    BY <2>1, StillPlain, IdleJob
<1>3. ASSUME NEW p \in Payees, Reconcile(j, p) PROVE Still(j)
  <2>1. Others(j) /\ Plain(job'[j]) /\ job[j] = Idle /\ UNCHANGED <<funds, booked, payout, bank, sent>>
    BY <1>3, StartPlain DEF Reconcile
  <2> QED
    BY <2>1, StillPlain, IdleJob
<1>4. ASSUME NEW p \in Payees, NEW s, Others(j), job'[j].step = s, job'[j].p = p,
             \/ s = "mark paid" /\ bank[p] = "paid"
             \/ s = "mark failed" /\ bank[p] = "failed",
             job[j].step \notin {"reverse", "create"}, UNCHANGED <<funds, booked, payout, bank, sent>>
      PROVE  Still(j)
  <2>1. ~Sends(job'[j])
    BY <1>4, Zenon DEF Sends
  <2>2. SaysPaid(job'[j]) => bank[p] = "paid"
    BY <1>4, Zenon DEF SaysPaid
  <2>3. Failing(job'[j]) => bank[p] = "failed"
    BY <1>4, Zenon DEF Failing
  <2>4. job'[j].step # "record"
    BY <1>4, Zenon
  <2> QED
    BY <1>4, <2>1, <2>2, <2>3, <2>4, Zenon DEF Still, Heeds
<1>5. ASSUME NEW p \in Payees, TransferEvent(j, p) PROVE Still(j)
  <2>1. PICK s : /\ Start(j, "webhook", s, p)
                 /\ \/ s = "mark paid" /\ bank[p] = "paid"
                    \/ s = "mark failed" /\ bank[p] = "failed"
    <3>1. CASE bank[p] = "paid"
      BY <1>5, <3>1, Zenon DEF TransferEvent
    <3>2. CASE bank[p] # "paid"
      <4>1. bank[p] = "failed" /\ Start(j, "webhook", "mark failed", p)
        BY <1>5, <3>2, Zenon DEF TransferEvent
      <4> QED
        BY <4>1, Zenon
    <3> QED
      BY <3>1, <3>2
  <2>2. Others(j) /\ job'[j].step = s /\ job'[j].p = p /\ job[j] = Idle
    BY <2>1, StartAll
  <2>3. job[j].step \notin {"reverse", "create"}
    BY <2>2, IdleJob
  <2>4. UNCHANGED <<funds, booked, payout, bank, sent>>
    BY <1>5 DEF TransferEvent
  <2> QED
    BY <1>4, <2>1, <2>2, <2>3, <2>4, Zenon
<1>6. ASSUME Verify(j) PROVE Still(j)
  <2>1. UNCHANGED <<funds, booked, payout, bank, sent>> /\ job[j].step = "verify"
    BY <1>6 DEF Verify, At
  <2>2. job[j].p \in Payees /\ job[j].step \notin {"reverse", "create"}
    BY <2>1 DEF Safe, JobsOK
  <2>3. CASE job' = [job EXCEPT ![j] = Idle]
    BY <2>1, <2>2, <2>3, FinishPlain, StillPlain
  <2>4. ASSUME NEW s, Goto(j, s), \/ s = "mark paid" /\ bank[job[j].p] = "paid"
                                  \/ s = "mark failed" /\ bank[job[j].p] = "failed"
        PROVE  Still(j)
    <3>1. Others(j) /\ job'[j].step = s /\ job'[j].p = job[j].p
      BY <2>4, GotoJob
    <3> QED
      BY <1>4, <2>1, <2>2, <2>4, <3>1, Zenon
  <2> QED
    BY <1>6, <2>3, <2>4, Zenon DEF Verify
<1> QED
  BY <1>1, <1>2, <1>3, <1>5, <1>6

(* The engine's steps. *)
LEMMA EngineStill ==
    ASSUME EngineInv, Deals, NEW j \in Jobs, SettlementStep(j) PROVE Still(j)
<1>1. PayoutTypeOK /\ UNCHANGED <<payout, bank, sent>>
  BY DEF EngineInv, Ledger, SettlementStep, MoveToPayable, CreateSettlement, WriteApproval, MoveBack,
         WriteCancelled, DebitPayable, MarkProcessing, WriteOutcome, MoveReserve, ClearReserve
<1>2. job[j].step \notin {"reverse", "create"}
  BY DEF SettlementStep, MoveToPayable, CreateSettlement, WriteApproval, MoveBack, WriteCancelled,
         DebitPayable, MarkProcessing, WriteOutcome, MoveReserve, ClearReserve, Doing, At
<1>3. funds'.user = funds.user
  BY Typed DEF SettlementStep, MoveToPayable, CreateSettlement, WriteApproval, MoveBack, WriteCancelled,
         DebitPayable, MarkProcessing, WriteOutcome, MoveReserve, ClearReserve, Funds
<1>4. \/ booked' = booked \/ booked' = booked \cup {ReleaseKey(job[j].p)}
      \/ job[j].p \in Settlements /\ booked' = booked \cup {DebitKey(job[j].p)}
  <2>1. DebitPayable(j) => job[j].p \in Settlements
    BY DEF DebitPayable, Deals, DealOK
  <2> QED
    BY <2>1 DEF SettlementStep, MoveToPayable, CreateSettlement, WriteApproval, MoveBack, WriteCancelled,
         DebitPayable, MarkProcessing, WriteOutcome, MoveReserve, ClearReserve
<1>5. /\ \A w \in Withdrawals : DebitKey(w) \in booked' <=> DebitKey(w) \in booked
      /\ \A p \in Payees : ReversalKey(p) \in booked' <=> ReversalKey(p) \in booked
  BY <1>4, KeysDiffer, CashKeys
<1>6. Heeds(j)
  <2>1. CASE MarkProcessing(j)
    <3>1. Others(j) /\ job'[j].step = "send" /\ job'[j].p = job[j].p /\ job[j].step = "mark processing"
      BY <1>1, <2>1, GotoJob DEF MarkProcessing, At
    <3>2. ~SaysPaid(job'[j]) /\ ~Failing(job'[j]) /\ Sends(job[j]) /\ job'[j].step # "record"
      BY <3>1, Zenon DEF SaysPaid, Failing, Sends
    <3> QED
      BY <1>1, <3>1, <3>2, Zenon DEF Heeds
  <2>2. CASE ~MarkProcessing(j)
    <3>1. job' = [job EXCEPT ![j] = Idle] \/ Goto(j, "write") \/ Goto(j, "create")
      BY <2>2 DEF SettlementStep, MoveToPayable, CreateSettlement, WriteApproval, MoveBack, WriteCancelled,
         DebitPayable, WriteOutcome, MoveReserve, ClearReserve, End
    <3>2. Others(j) /\ Plain(job'[j])
      BY <1>1, <3>1, FinishPlain, GotoPlain
    <3> QED
      BY <1>1, <3>2, HeedsPlain
  <2> QED
    BY <2>1, <2>2
<1> QED
  BY <1>2, <1>3, <1>5, <1>6 DEF Still

LEMMA RequestStill ==
    ASSUME EngineInv, NEW j \in Jobs, NEW s \in Settlements,
           \/ Calculate(j, s) \/ Cancel(j, s) \/ Execute(j, s)
           \/ PayoutSettlement(j, s) \/ ReleaseReserve(j, s)
           \/ \E u \in Staff : Approve(j, s, u)
    PROVE  Still(j)
<1>1. UNCHANGED <<funds, booked, payout, bank, sent>>
  BY DEF Calculate, Cancel, Execute, PayoutSettlement, ReleaseReserve, Approve
<1>2. job[j] = Idle
  BY DEF Calculate, Cancel, Execute, PayoutSettlement, ReleaseReserve, Approve, Start
<1>3. Others(j) /\ Plain(job'[j])
  <2>1. CASE Cancel(j, s) \/ ReleaseReserve(j, s)
    BY <2>1, Typed, StartPlain DEF Cancel, ReleaseReserve
  <2>2. ASSUME NEW c, job' = [job EXCEPT ![j] = c],
               c.step \in {"move", "write", "debit", "settle failed"}
        PROVE  Others(j) /\ Plain(job'[j])
    <3>1. Others(j) /\ job'[j] = c
      BY <2>2, Typed, MovedJob
    <3> QED
      BY <2>2, <3>1, Zenon DEF Plain
  <2>3. CASE Calculate(j, s)
    <3>1. PICK gross, plain : job' = [job EXCEPT ![j] = [Idle EXCEPT !.op = "calculate", !.step = "move",
                                        !.p = s, !.read = gross, !.caught = plain]]
      BY <2>3 DEF Calculate
    <3> DEFINE c == [Idle EXCEPT !.op = "calculate", !.step = "move", !.p = s, !.read = gross, !.caught = plain]
    <3>2. c.step = "move"
      BY DEF Idle
    <3> QED
      BY <2>2, <3>1, <3>2, Zenon
  <2>4. CASE Execute(j, s)
    <3>1. PICK step \in {"debit", "settle failed"} :
            job' = [job EXCEPT ![j] = [Idle EXCEPT !.op = "execute", !.p = s, !.read = sheet[s].net, !.step = step]]
      BY <2>4 DEF Execute
    <3> DEFINE c == [Idle EXCEPT !.op = "execute", !.p = s, !.read = sheet[s].net, !.step = step]
    <3>2. c.step = step
      BY DEF Idle
    <3>3. c.step \in {"move", "write", "debit", "settle failed"}
      BY <3>2, Zenon
    <3> HIDE DEF c
    <3> QED
      BY <2>2, <3>1, <3>3, Zenon DEF c
  <2>5. CASE PayoutSettlement(j, s)
    <3> DEFINE c == [Idle EXCEPT !.op = "manual", !.p = s, !.read = sheet[s].net, !.step = "debit"]
    <3>1. job' = [job EXCEPT ![j] = c]
      BY <2>5 DEF PayoutSettlement
    <3>2. c.step = "debit"
      BY DEF Idle
    <3> QED
      BY <2>2, <3>1, <3>2, Zenon
  <2>6. ASSUME NEW u \in Staff, Approve(j, s, u) PROVE Others(j) /\ Plain(job'[j])
    <3> DEFINE c == [Idle EXCEPT !.op = "approve", !.step = "write", !.p = s,
                                 !.by = u, !.seen = sheet[s].approvedBy]
    <3>1. job' = [job EXCEPT ![j] = c]
      BY <2>6 DEF Approve
    <3>2. c.step = "write"
      BY DEF Idle
    <3> QED
      BY <2>2, <3>1, <3>2, Zenon
  <2> QED
    BY <2>1, <2>3, <2>4, <2>5, <2>6
<1>4. job[j].step \notin {"reverse", "create"}
  BY <1>2, IdleJob
<1> QED
  BY <1>1, <1>3, <1>4, StillPlain

(* What Send does at the bank, and what it makes of the answer. *)
LEMMA SendFacts ==
    ASSUME PayoutTypeOK, Safe, BankOK, NEW j \in Jobs, Send(j)
    PROVE  LET p == job[j].p IN
           /\ p \in Payees /\ Exists(p) /\ bank[p] = "none" /\ Sends(job[j])
           /\ \A i \in Jobs \ {j} : Sends(job[i]) => job[i].p # p
           /\ \A q \in Payees \ {p} : bank'[q] = bank[q] /\ sent'[q] = sent[q]
           /\ bank'[p] \in BankStatus /\ (bank'[p] # "none" => sent'[p] > 0)
           /\ Others(j) /\ job'[j].p = p /\ ~Sends(job'[j]) /\ job[j].step = "send"
           /\ SaysPaid(job'[j]) => bank'[p] = "paid"
           /\ Failing(job'[j]) => job'[j].caught
           /\ job'[j].step \notin {"create", "reverse"}
<1> DEFINE p == job[j].p
<1>1. Sends(job[j]) /\ job[j].step = "send"
  BY DEF Send, At, Sends
<1>2. p \in Payees /\ Exists(p) /\ sent[p] = 0 /\ \A i \in Jobs \ {j} : Sends(job[i]) => job[i].p # p
  BY <1>1, SenderFacts
<1>3. bank[p] = "none"
  <2>1. ~(sent[p] > 0)
    BY <1>2
  <2> QED
    BY <1>2, <2>1 DEF BankOK
<1>4. PICK v \in BankStatus : /\ bank' = [bank EXCEPT ![p] = v]
                              /\ \/ v = "none" /\ sent' = sent
                                 \/ sent' = [sent EXCEPT ![p] = @ + 1]
  <2>1. PICK a \in GatewayAnswers :
          /\ bank' = [bank EXCEPT ![p] = CASE a = "pays" -> "paid"
                                          [] a = "declines" -> "failed"
                                          [] a = "errors" -> bank[p]
                                          [] OTHER -> "pending"]
          /\ sent' = IF a = "errors" THEN sent ELSE [sent EXCEPT ![p] = @ + 1]
    BY DEF Send
  <2>2. PICK v : v = CASE a = "pays" -> "paid"
                       [] a = "declines" -> "failed"
                       [] a = "errors" -> bank[p]
                       [] OTHER -> "pending"
    OBVIOUS
  <2>3. v \in BankStatus /\ (a = "errors" => v = "none")
    BY <1>3, <2>2 DEF BankStatus
  <2> QED
    BY <2>1, <2>2, <2>3
<1>5. /\ bank'[p] = v /\ \A q \in Payees \ {p} : bank'[q] = bank[q] /\ sent'[q] = sent[q]
      /\ v # "none" => sent'[p] = sent[p] + 1
  BY <1>2, <1>4, BankTypes
<1>6. v # "none" => sent'[p] > 0
  BY <1>2, <1>5
<1>7. /\ Others(j) /\ job'[j].p = p
      /\ \/ job'[j].step = "mark failed" /\ job'[j].caught
         \/ /\ job'[j].step = "record"
            /\ job'[j].said = "PAID" => bank' = [bank EXCEPT ![p] = "paid"]
  BY SendJob
<1>8. /\ ~Sends(job'[j]) /\ (Failing(job'[j]) => job'[j].caught)
      /\ SaysPaid(job'[j]) => bank' = [bank EXCEPT ![p] = "paid"]
      /\ job'[j].step \notin {"create", "reverse"}
  <2>1. CASE job'[j].step = "mark failed" /\ job'[j].caught
    BY <2>1, Zenon DEF Sends, SaysPaid, Failing
  <2>2. CASE /\ job'[j].step = "record"
             /\ job'[j].said = "PAID" => bank' = [bank EXCEPT ![p] = "paid"]
    BY <2>2, Zenon DEF Sends, SaysPaid, Failing
  <2> QED
    BY <1>7, <2>1, <2>2
<1>9. SaysPaid(job'[j]) => bank'[p] = "paid"
  BY <1>2, <1>8, BankTypes
<1> QED
  BY <1>1, <1>2, <1>3, <1>4, <1>5, <1>6, <1>7, <1>8, <1>9

LEMMA SendAnswers ==
    ASSUME EngineInv, Answers, NEW j \in Jobs, Send(j) PROVE Answers'
<1> DEFINE p == job[j].p
<1>1. PayoutTypeOK /\ Safe /\ BankOK
  BY DEF EngineInv, Ledger, Answers
<1>2. /\ p \in Payees /\ bank[p] = "none"
      /\ \A q \in Payees \ {p} : bank'[q] = bank[q] /\ sent'[q] = sent[q]
      /\ (bank'[p] # "none" => sent'[p] > 0)
      /\ Others(j) /\ job'[j].p = p /\ (SaysPaid(job'[j]) => bank'[p] = "paid")
  BY <1>1, SendFacts
<1>3. payout' = payout
  BY DEF Send
<1>4. \A q \in Payees : bank'[q] # "none" => sent'[q] > 0
  BY <1>1, <1>2 DEF BankOK
<1>5. \A q \in Payees : payout'[q].status = "PAID" => bank'[q] = "paid"
  BY <1>2, <1>3 DEF Answers, PaidOK
<1>6. ASSUME NEW i \in Jobs, SaysPaid(job'[i]) PROVE bank'[job'[i].p] = "paid"
  <2>1. CASE i = j
    BY <1>2, <1>6, <2>1
  <2>2. CASE i # j
    <3>1. job'[i] = job[i] /\ bank[job[i].p] = "paid"
      BY <1>2, <1>6, <2>2 DEF Answers, PaidOK, Others
    <3>2. job[i].step # "idle"
      BY <1>6, <3>1, Zenon DEF SaysPaid
    <3>3. job[i].p \in Payees /\ job[i].p # p
      BY <1>1, <1>2, <3>1, <3>2 DEF Safe, JobsOK
    <3> QED
      BY <1>2, <3>1, <3>3
  <2> QED
    BY <2>1, <2>2
<1> QED
  BY <1>3, <1>4, <1>5, <1>6 DEF Answers, BankOK, PaidOK, AmountsOK, Exists

(* The bank decides a pending transfer.                                    *)
LEMMA ResolveFacts ==
    ASSUME PayoutTypeOK, NEW p \in Payees, BankResolves(p)
    PROVE  /\ bank[p] = "pending" /\ bank'[p] \in {"paid", "failed"}
           /\ \A q \in Payees \ {p} : bank'[q] = bank[q]
           /\ UNCHANGED <<funds, booked, payout, sent, job, crashes>>
  BY BankTypes DEF BankResolves

LEMMA ResolveAnswers ==
    ASSUME EngineInv, Answers, NEW p \in Payees, BankResolves(p) PROVE Answers'
<1>1. /\ bank[p] = "pending" /\ UNCHANGED <<payout, sent, job>>
      /\ \A q \in Payees \ {p} : bank'[q] = bank[q]
  BY ResolveFacts DEF EngineInv, Ledger
<1>2. \A q \in Payees : bank'[q] # "none" => sent'[q] > 0
  BY <1>1 DEF Answers, BankOK
<1>3. \A q \in Payees : payout'[q].status = "PAID" => bank'[q] = "paid"
  BY <1>1 DEF Answers, PaidOK
<1>4. ASSUME NEW i \in Jobs, SaysPaid(job'[i]) PROVE bank'[job'[i].p] = "paid"
  <2>1. job'[i] = job[i] /\ bank[job[i].p] = "paid"
    BY <1>1, <1>4 DEF Answers, PaidOK
  <2>2. job[i].step # "idle"
    BY <1>4, <2>1, Zenon DEF SaysPaid
  <2>3. job[i].p \in Payees /\ job[i].p # p
    BY <1>1, <2>1, <2>2 DEF EngineInv, Ledger, Safe, JobsOK
  <2> QED
    BY <1>1, <2>1, <2>3
<1> QED
  BY <1>1, <1>2, <1>3, <1>4 DEF Answers, BankOK, PaidOK, AmountsOK, Exists

LEMMA CrashAnswers ==
    ASSUME Answers, Crash PROVE Answers'
<1>1. \A i \in Jobs : ~SaysPaid(job'[i])
  BY PlainIdle, PlainFacts DEF Crash
<1> QED
  BY <1>1, AnswersCarry DEF Crash

LEMMA LedgerHeeds ==
    ASSUME PayoutTypeOK, NEW j \in Jobs, DebitUser(j) \/ Reverse(j) PROVE Heeds(j)
<1>1. UNCHANGED <<payout, bank, sent>>
  BY DEF DebitUser, Reverse
<1>2. job' = [job EXCEPT ![j] = Idle] \/ Goto(j, "create") \/ Goto(j, "fail settlement")
  BY DEF DebitUser, Reverse
<1>3. Others(j) /\ Plain(job'[j])
  BY <1>2, FinishPlain, GotoPlain
<1> QED
  BY <1>1, <1>3, HeedsPlain

(* Every step keeps rows and jobs true to the bank.                        *)
LEMMA AnswersNext ==
    ASSUME EngineInv, Deals, Answers, Next PROVE Answers'
<1>1. PayoutTypeOK /\ Safe
  BY DEF EngineInv, Ledger
<1>2. ASSUME NEW j \in Jobs, Still(j) PROVE Answers'
  BY <1>2, HeedsAnswers DEF Still
<1>3. ASSUME NEW j \in Jobs, SettlementStep(j) PROVE Answers'
  BY <1>2, <1>3, EngineStill
<1>4. ASSUME NEW j \in Jobs, NEW s \in Settlements,
             \/ Calculate(j, s) \/ Cancel(j, s) \/ Execute(j, s)
             \/ PayoutSettlement(j, s) \/ ReleaseReserve(j, s)
             \/ \E u \in Staff : Approve(j, s, u)
      PROVE  Answers'
  BY <1>2, <1>4, RequestStill
<1>5. ASSUME NEW j \in Jobs, PayoutStep(j) PROVE Answers'
  BY <1>1, <1>2, <1>5, LedgerHeeds, HeedsAnswers, CreateAnswers, SendAnswers, RecordAnswers, MarkAnswers, PayoutStill
     DEF PayoutStep, DispatchStep
<1>6. ASSUME NEW j \in Jobs, \/ \E w \in Withdrawals : Withdraw(j, w)
                             \/ \E p \in Payees : TransferEvent(j, p) \/ Reconcile(j, p)
      PROVE  Answers'
  BY <1>1, <1>2, <1>6, PayoutStill
<1>7. ASSUME PayoutNext PROVE Answers'
  BY <1>5, <1>6, <1>7, ResolveAnswers, CrashAnswers DEF PayoutNext
<1> QED
  BY <1>3, <1>4, <1>7 DEF Next

----------------------------------------------------------------------------
(* Refunds and debits, as long as nothing goes wrong unseen. *)

RefusedNext(p) == /\ bank'[p] \in {"none", "failed"} /\ payout'[p].status # "ABSENT"
                  /\ \A j \in Jobs : Sends(job'[j]) => job'[j].p # p

LEMMA RefundsFollow ==
    ASSUME RefundsOK, Safe,
           \A p \in Payees : Refused(p) => RefusedNext(p),
           \A p \in Payees : ReversalKey(p) \in booked' => Reversed(p) \/ RefusedNext(p),
           \A i \in Jobs : job'[i] = job[i] \/ (Failing(job'[i]) => RefusedNext(job'[i].p))
    PROVE  RefundsOK'
<1>1. \A p \in Payees : ReversalKey(p) \in booked' => RefusedNext(p)
  BY DEF RefundsOK
<1>2. \A i \in Jobs : Failing(job[i]) => job[i].step # "idle"
  BY Zenon DEF Failing
<1>3. \A i \in Jobs : Failing(job[i]) => RefusedNext(job[i].p)
  BY <1>2 DEF RefundsOK, Safe, JobsOK
<1>4. \A i \in Jobs : Failing(job'[i]) => RefusedNext(job'[i].p)
  BY <1>3
<1> QED
  BY <1>1, <1>4 DEF RefundsOK, RefusedNext, Refused, Reversed, ReversalKey, Exists

(* A transfer that was refused stays so. *)
LEMMA RefusedStays ==
    ASSUME NEW p \in Payees, Refused(p), bank'[p] = bank[p], payout'[p].status # "ABSENT",
           \A i \in Jobs : Sends(job'[i]) => \/ job'[i].p # p
                                             \/ Sends(job[i]) /\ job[i].p = job'[i].p
    PROVE  RefusedNext(p)
  BY DEF Refused, RefusedNext

LEMMA DebitsFollow ==
    ASSUME DebitsOK,
           \A w \in Withdrawals : Exists(w) => payout'[w].status # "ABSENT",
           \A w \in Withdrawals : DebitKey(w) \in booked' =>
               \/ DebitKey(w) \in booked
               \/ \E i \in Jobs : /\ job'[i].step = "create" /\ job'[i].p \in Withdrawals
                                 /\ DebitKey(job'[i].p) = DebitKey(w),
           \A i \in Jobs : \/ job[i].step = "create" => job'[i] = job[i]
                           \/ \A w \in Withdrawals : job[i].p = w =>
                                 \E v \in Withdrawals : DebitKey(v) = DebitKey(w) /\ payout'[v].status # "ABSENT"
    PROVE  DebitsOK'
<1> SUFFICES ASSUME NEW w \in Withdrawals, DebitKey(w) \in booked'
             PROVE  \E v \in Withdrawals :
                       /\ DebitKey(v) = DebitKey(w)
                       /\ \/ payout'[v].status # "ABSENT"
                          \/ \E i \in Jobs : job'[i].step = "create" /\ job'[i].p = v
  BY DEF DebitsOK, DebitKey, Exists, Creating
<1>1. CASE DebitKey(w) \in booked
  <2>1. PICK v \in Withdrawals : DebitKey(v) = DebitKey(w) /\ (Exists(v) \/ Creating(v))
    BY <1>1 DEF DebitsOK
  <2>2. CASE Exists(v)
    BY <2>1, <2>2
  <2>3. CASE Creating(v)
    <3>1. PICK i \in Jobs : job[i].step = "create" /\ job[i].p = v
      BY <2>3 DEF Creating
    <3>2. CASE job'[i] = job[i]
      BY <2>1, <3>1, <3>2
    <3>3. CASE \A u \in Withdrawals : job[i].p = u =>
                 \E t \in Withdrawals : DebitKey(t) = DebitKey(u) /\ payout'[t].status # "ABSENT"
      <4>1. PICK t \in Withdrawals : DebitKey(t) = DebitKey(v) /\ payout'[t].status # "ABSENT"
        BY <3>1, <3>3
      <4> QED
        BY <2>1, <4>1
    <3> QED
      BY <3>1, <3>2, <3>3
  <2> QED
    BY <2>1, <2>2, <2>3
<1>2. CASE DebitKey(w) \notin booked
  BY <1>2
<1> QED
  BY <1>1, <1>2

(* A failed row is reversed, or about to be. *)
LEMMA FailedFollow ==
    ASSUME FailedOK,
           \A p \in Payees : payout'[p].status = "FAILED" =>
               \/ payout[p].status = "FAILED"
               \/ \E i \in Jobs : job'[i].step = "reverse" /\ job'[i].p = p,
           \A p \in Payees : Reversed(p) => ReversalKey(p) \in booked',
           \A i \in Jobs : job[i].step = "reverse" => job'[i] = job[i] \/ ReversalKey(job[i].p) \in booked'
    PROVE  FailedOK'
<1> SUFFICES ASSUME NEW p \in Payees, payout'[p].status = "FAILED"
             PROVE  ReversalKey(p) \in booked' \/ \E i \in Jobs : job'[i].step = "reverse" /\ job'[i].p = p
  BY DEF FailedOK, Reversed, ReversalKey, Reversing
<1> QED
  BY DEF FailedOK, Reversed, Reversing

LEMMA HeedsHonest ==
    ASSUME PayoutTypeOK, Safe, Answers, Honest, Untroubled', NEW j \in Jobs, Heeds(j),
           job[j].step # "create",
           \A p \in Payees : ReversalKey(p) \in booked' => Reversed(p) \/ Refused(p),
           \A p \in Payees : Reversed(p) => ReversalKey(p) \in booked',
           job[j].step = "reverse" => ReversalKey(job[j].p) \in booked',
           \A w \in Withdrawals : DebitKey(w) \in booked' =>
               \/ DebitKey(w) \in booked
               \/ /\ job'[j].step = "create" /\ job'[j].p \in Withdrawals
                  /\ DebitKey(job'[j].p) = DebitKey(w)
    PROVE  Honest'
<1>1. Others(j) /\ UNCHANGED <<payout, bank, sent>>
  BY DEF Heeds
<1>2. ASSUME NEW p \in Payees, Refused(p) PROVE RefusedNext(p)
  <2>1. payout'[p].status # "ABSENT" /\ bank'[p] = bank[p]
    BY <1>1, <1>2 DEF Refused, Exists
  <2>2. \A i \in Jobs : Sends(job'[i]) => Sends(job[i]) /\ job[i].p = job'[i].p
    BY <1>1 DEF Heeds, Others
  <2> QED
    BY <1>2, <2>1, <2>2, RefusedStays
<1>3. Failing(job'[j]) => RefusedNext(job'[j].p)
  <2> SUFFICES ASSUME Failing(job'[j]) PROVE RefusedNext(job'[j].p)
    OBVIOUS
  <2>1. job'[j].p \in Payees /\ bank[job'[j].p] = "failed"
    BY DEF Heeds
  <2>2. Refused(job'[j].p)
    BY <2>1, Taken DEF Answers, Refused
  <2> QED
    BY <1>2, <2>1, <2>2
<1>4. RefundsOK'
  BY <1>1, <1>2, <1>3, RefundsFollow DEF Honest, Others
<1>5. FailedOK'
  BY <1>1, FailedFollow DEF Honest, Others
<1>6. DebitsOK'
  BY <1>1, DebitsFollow DEF Honest, Others, Exists
<1> QED
  BY <1>4, <1>5, <1>6 DEF Honest

LEMMA StillHonest ==
    ASSUME PayoutTypeOK, Safe, Answers, Honest, Untroubled', NEW j \in Jobs, Still(j)
    PROVE  Honest'
<1>1. Heeds(j) /\ job[j].step # "create" /\ job[j].step # "reverse"
  BY DEF Still
<1>2. /\ \A p \in Payees : ReversalKey(p) \in booked' <=> Reversed(p)
      /\ \A w \in Withdrawals : DebitKey(w) \in booked' <=> DebitKey(w) \in booked
  BY DEF Still, Reversed
<1> QED
  BY <1>1, <1>2, HeedsHonest

LEMMA DebitHonest ==
    ASSUME PayoutTypeOK, Safe, Answers, Honest, Untroubled', NEW j \in Jobs, DebitUser(j)
    PROVE  Honest'
<1>1. Heeds(j)
  BY LedgerHeeds
<1>2. job[j].step = "debit"
  BY DEF DebitUser, At
<1>3. \/ booked' = booked
      \/ /\ booked' = booked \cup {DebitKey(job[j].p)} /\ Goto(j, "create")
  BY DEF DebitUser
<1>4. \A p \in Payees : ReversalKey(p) \in booked' <=> Reversed(p)
  BY <1>3, KeysDiffer DEF Reversed
<1>5. ASSUME NEW w \in Withdrawals, DebitKey(w) \in booked'
      PROVE  \/ DebitKey(w) \in booked
             \/ /\ job'[j].step = "create" /\ job'[j].p \in Withdrawals
                /\ DebitKey(job'[j].p) = DebitKey(w)
  <2>1. CASE booked' = booked
    BY <1>5, <2>1
  <2>2. CASE booked' = booked \cup {DebitKey(job[j].p)} /\ Goto(j, "create")
    <3>1. job'[j].step = "create" /\ job'[j].p = job[j].p
      BY <2>2, GotoJob
    <3>2. job[j].p \in Withdrawals
      BY DEF DebitUser, Safe, JobsOK
    <3> QED
      BY <1>5, <2>2, <3>1, <3>2
  <2> QED
    BY <1>3, <2>1, <2>2
<1> QED
  BY <1>1, <1>2, <1>4, <1>5, HeedsHonest

LEMMA ReverseHonest ==
    ASSUME PayoutTypeOK, Safe, Answers, Honest, Untroubled', NEW j \in Jobs, Reverse(j)
    PROVE  Honest'
<1>1. Heeds(j)
  BY LedgerHeeds
<1>2. job[j].step = "reverse"
  BY DEF Reverse, At
<1>3. Refused(job[j].p)
  <2>1. Failing(job[j])
    BY <1>2, Zenon DEF Failing
  <2> QED
    BY <2>1 DEF Honest, RefundsOK
<1>4. /\ ReversalKey(job[j].p) \in booked'
      /\ booked' = booked \/ booked' = booked \cup {ReversalKey(job[j].p)}
  BY DEF Reverse
<1>5. ASSUME NEW p \in Payees, ReversalKey(p) \in booked' PROVE Reversed(p) \/ Refused(p)
  BY <1>3, <1>4, <1>5, KeysDiffer DEF Reversed
<1>6. \A p \in Payees : Reversed(p) => ReversalKey(p) \in booked'
  BY <1>4 DEF Reversed
<1>7. \A w \in Withdrawals : DebitKey(w) \in booked' => DebitKey(w) \in booked
  BY <1>4, KeysDiffer
<1> QED
  BY <1>1, <1>2, <1>4, <1>5, <1>6, <1>7, HeedsHonest

LEMMA CreateJob ==
    ASSUME PayoutTypeOK, NEW j \in Jobs, CreatePayout(j)
    PROVE  /\ Others(j) /\ job[j].step = "create" /\ ~Failing(job'[j])
           /\ \/ /\ \E q \in Payees : Exists(q) /\ RowKey(q) = RowKey(job[j].p)
                 /\ payout' = payout /\ ~Sends(job'[j])
              \/ /\ ~\E q \in Payees : Exists(q) /\ RowKey(q) = RowKey(job[j].p)
                 /\ \E r : /\ payout' = [payout EXCEPT ![job[j].p] = r] /\ r.status = "PROCESSING"
                           /\ job[j].p \in Withdrawals => r.amount = Amount[job[j].p]
                 /\ job'[j].p = job[j].p
<1> DEFINE p == job[j].p
           r == [status |-> "PROCESSING", coded |-> FALSE,
                 amount |-> IF p \in Withdrawals THEN Amount[p] ELSE job[j].read]
<1>1. job[j].step = "create"
  BY DEF CreatePayout, At
<1>2. CASE \E q \in Payees : Exists(q) /\ RowKey(q) = RowKey(p)
  <2>1. payout' = payout /\ (job' = [job EXCEPT ![j] = Idle] \/ Goto(j, "settle failed"))
    BY <1>2 DEF CreatePayout
  <2>2. Others(j) /\ job'[j].step \in {"idle", "settle failed"}
    BY <2>1, EndJob, GotoJob, IdleJob
  <2>3. ~Failing(job'[j]) /\ ~Sends(job'[j])
    BY <2>2, Zenon DEF Failing, Sends
  <2> QED
    BY <1>1, <1>2, <2>1, <2>2, <2>3
<1>3. CASE ~\E q \in Payees : Exists(q) /\ RowKey(q) = RowKey(p)
  <2>1. payout' = [payout EXCEPT ![p] = r] /\ (Goto(j, "mark processing") \/ Goto(j, "send"))
    BY <1>3 DEF CreatePayout
  <2>2. Others(j) /\ job'[j].step \in {"mark processing", "send"} /\ job'[j].p = p
    BY <2>1, GotoJob
  <2>3. ~Failing(job'[j])
    BY <2>2, Zenon DEF Failing
  <2>4. r.status = "PROCESSING" /\ (p \in Withdrawals => r.amount = Amount[p])
    OBVIOUS
  <2>5. \E x : /\ payout' = [payout EXCEPT ![p] = x] /\ x.status = "PROCESSING"
               /\ p \in Withdrawals => x.amount = Amount[p]
    <3> HIDE DEF r
    <3> QED
      BY <2>1, <2>4
  <2> QED
    BY <1>1, <1>3, <2>2, <2>3, <2>5
<1> QED
  BY <1>2, <1>3

LEMMA CreateHonest ==
    ASSUME PayoutTypeOK, Safe, Answers, Honest, Untroubled', NEW j \in Jobs, CreatePayout(j)
    PROVE  Honest'
<1> DEFINE p == job[j].p
           Taken1 == \E q \in Payees : Exists(q) /\ RowKey(q) = RowKey(p)
<1>1. /\ Others(j) /\ job[j].step = "create" /\ ~Failing(job'[j]) /\ UNCHANGED <<bank, booked>> /\ p \in Payees
  BY CreateJob DEF CreatePayout, Safe, JobsOK
<1>2. \/ Taken1 /\ payout' = payout /\ ~Sends(job'[j])
      \/ /\ ~Taken1 /\ job'[j].p = p /\ payout'[p].status = "PROCESSING"
         /\ \A q \in Payees \ {p} : payout'[q] = payout[q]
  BY <1>1, CreateJob, BankTypes
<1>3. \A q \in Payees : Exists(q) => payout'[q].status # "ABSENT"
  BY <1>2 DEF Exists
<1>4. ASSUME NEW q \in Payees, Refused(q) PROVE RefusedNext(q)
  <2>1. Exists(q) /\ payout'[q].status # "ABSENT"
    BY <1>3, <1>4 DEF Refused
  <2>2. ASSUME NEW i \in Jobs, Sends(job'[i]), job'[i].p = q
        PROVE  Sends(job[i]) /\ job[i].p = job'[i].p
    <3>1. CASE i # j
      BY <1>1, <2>2, <3>1 DEF Others
    <3>2. CASE i = j
      BY <1>2, <2>1, <2>2, <3>2
    <3> QED
      BY <3>1, <3>2
  <2> QED
    BY <1>1, <1>4, <2>1, <2>2, RefusedStays
<1>5. RefundsOK'
  BY <1>1, <1>4, RefundsFollow DEF Honest, Reversed, Others
<1>6. FailedOK'
  <2>1. \A q \in Payees : payout'[q].status = "FAILED" => payout[q].status = "FAILED"
    BY <1>2
  <2> QED
    BY <1>1, <2>1, FailedFollow DEF Honest, Reversed, Others
<1>7. DebitsOK'
  <2>1. ASSUME p \in Withdrawals
        PROVE  \E v \in Withdrawals : DebitKey(v) = DebitKey(p) /\ payout'[v].status # "ABSENT"
    <3>1. CASE Taken1
      <4>1. PICK q \in Payees : Exists(q) /\ RowKey(q) = RowKey(p)
        BY <3>1
      <4>2. q \in Withdrawals /\ DebitKey(q) = DebitKey(p)
        BY <1>1, <2>1, <4>1, CashKeys
      <4> QED
        BY <1>3, <4>1, <4>2
    <3>2. CASE ~Taken1
      BY <1>2, <2>1, <3>2
    <3> QED
      BY <3>1, <3>2
  <2>2. \A i \in Jobs : \/ job[i].step = "create" => job'[i] = job[i]
                        \/ \A w \in Withdrawals : job[i].p = w =>
                              \E v \in Withdrawals : DebitKey(v) = DebitKey(w) /\ payout'[v].status # "ABSENT"
    BY <1>1, <2>1 DEF Others
  <2>3. \A w \in Withdrawals : Exists(w) => payout'[w].status # "ABSENT"
    BY <1>3, CashKeys
  <2> QED
    BY <1>1, <2>2, <2>3, DebitsFollow DEF Honest
<1> QED
  BY <1>5, <1>6, <1>7 DEF Honest

LEMMA SendHonest ==
    ASSUME PayoutTypeOK, Safe, Answers, Honest, Untroubled', NEW j \in Jobs, Send(j)
    PROVE  Honest'
<1> DEFINE p == job[j].p
<1>1. /\ p \in Payees /\ Exists(p) /\ Sends(job[j])
      /\ \A i \in Jobs \ {j} : Sends(job[i]) => job[i].p # p
      /\ \A q \in Payees \ {p} : bank'[q] = bank[q]
      /\ Others(j) /\ job'[j].p = p /\ ~Sends(job'[j]) /\ job[j].step = "send"
      /\ Failing(job'[j]) => job'[j].caught
  BY SendFacts DEF Answers
<1>2. UNCHANGED <<payout, booked>>
  BY DEF Send
<1>3. ASSUME NEW q \in Payees, Refused(q) PROVE RefusedNext(q)
  <2>1. q # p
    BY <1>1, <1>3 DEF Refused
  <2>2. \A i \in Jobs : Sends(job'[i]) => Sends(job[i]) /\ job[i].p = job'[i].p
    BY <1>1 DEF Others
  <2>3. payout'[q].status # "ABSENT" /\ bank'[q] = bank[q]
    BY <1>1, <1>2, <1>3, <2>1 DEF Refused, Exists
  <2> QED
    BY <1>3, <2>2, <2>3, RefusedStays
<1>4. Failing(job'[j]) => RefusedNext(job'[j].p)
  <2>1. Failing(job'[j]) => bank'[p] = "none"
    BY <1>1 DEF Untroubled
  <2>2. \A i \in Jobs : Sends(job'[i]) => job'[i].p # p
    BY <1>1 DEF Others
  <2> QED
    BY <1>1, <1>2, <2>1, <2>2 DEF RefusedNext, Exists
<1>5. RefundsOK'
  BY <1>1, <1>2, <1>3, <1>4, RefundsFollow DEF Honest, Reversed, Others
<1>6. FailedOK'
  BY <1>1, <1>2, FailedFollow DEF Honest, Reversed, Others
<1>7. DebitsOK'
  BY <1>1, <1>2, DebitsFollow DEF Honest, Others, Exists
<1> QED
  BY <1>5, <1>6, <1>7 DEF Honest

LEMMA RecordHonest ==
    ASSUME PayoutTypeOK, Safe, Answers, Honest, Untroubled', NEW j \in Jobs, Record(j)
    PROVE  Honest'
<1> DEFINE p == job[j].p
<1>1. /\ Others(j) /\ job[j].step = "record" /\ p \in Payees /\ Exists(p)
      /\ job[j].said \in {"PROCESSING", "PAID"} /\ UNCHANGED <<bank, booked>>
  BY RecordJob, JobFields DEF Record, Safe, JobsOK, Honest, Untroubled, Job
<1>2. ~Failing(job'[j]) /\ ~Sends(job'[j])
  <2>1. job[j].said # "FAILED"
    BY <1>1
  <2>2. job'[j].step = "mark paid" => ~Failing(job'[j]) /\ ~Sends(job'[j])
    BY Zenon DEF Failing, Sends
  <2> QED
    BY <2>1, <2>2, RecordJob, PlainFacts, Zenon
<1>3. /\ payout'[p].status = job[j].said
      /\ \A q \in Payees \ {p} : payout'[q] = payout[q]
  BY <1>1, BankTypes DEF Record, Row
<1>4. \A q \in Payees : Exists(q) => payout'[q].status # "ABSENT"
  BY <1>1, <1>3 DEF Exists
<1>5. ASSUME NEW q \in Payees, Refused(q) PROVE RefusedNext(q)
  <2>1. \A i \in Jobs : Sends(job'[i]) => Sends(job[i]) /\ job[i].p = job'[i].p
    BY <1>1, <1>2 DEF Others
  <2> QED
    BY <1>1, <1>4, <1>5, <2>1, RefusedStays DEF Refused
<1>6. RefundsOK'
  BY <1>1, <1>2, <1>5, RefundsFollow DEF Honest, Reversed, Others
<1>7. FailedOK'
  <2>1. \A q \in Payees : payout'[q].status = "FAILED" => payout[q].status = "FAILED"
    BY <1>1, <1>3
  <2> QED
    BY <1>1, <2>1, FailedFollow DEF Honest, Reversed, Others
<1>8. DebitsOK'
  BY <1>1, <1>4, DebitsFollow, CashKeys DEF Honest, Others
<1> QED
  BY <1>6, <1>7, <1>8 DEF Honest

LEMMA MarkHonest ==
    ASSUME PayoutTypeOK, Safe, Answers, Honest, Untroubled', NEW j \in Jobs, MarkPaid(j) \/ MarkFailed(j)
    PROVE  Honest'
<1> DEFINE p == job[j].p
<1>1. /\ Others(j) /\ ~Sends(job'[j]) /\ UNCHANGED <<bank, booked>>
      /\ job[j].step # "create" /\ job[j].step # "reverse" /\ p \in Payees
  <2>1. job[j].step # "create" /\ job[j].step # "reverse" /\ job[j].step # "idle"
    BY MarkJob, Zenon
  <2> QED
    BY <2>1, MarkJob DEF MarkPaid, MarkFailed, Safe, JobsOK
<1>2. Failing(job'[j]) => Failing(job[j]) /\ job'[j].p = p
  <2>1. MarkFailed(j) => Failing(job[j])
    BY Zenon DEF MarkFailed, At, Failing
  <2> QED
    BY <2>1, MarkJob, PlainFacts, Zenon
<1>3. \/ payout' = payout
      \/ /\ \A q \in Payees \ {p} : payout'[q] = payout[q]
         /\ \/ payout'[p].status = "PAID"
            \/ payout'[p].status = "FAILED" /\ job'[j].step = "reverse" /\ job'[j].p = p
  <2>1. \/ payout' = payout
        \/ payout' = [payout EXCEPT ![p].status = "PAID"]
        \/ /\ payout' = [payout EXCEPT ![p].status = "FAILED"]
           /\ job'[j].step = "reverse" /\ job'[j].p = p
    BY MarkJob, Zenon
  <2> QED
    BY <1>1, <2>1, BankTypes DEF Row
<1>4. \A q \in Payees : Exists(q) => payout'[q].status # "ABSENT"
  BY <1>3 DEF Exists
<1>5. ASSUME NEW q \in Payees, Refused(q) PROVE RefusedNext(q)
  <2>1. \A i \in Jobs : Sends(job'[i]) => Sends(job[i]) /\ job[i].p = job'[i].p
    BY <1>1 DEF Others
  <2> QED
    BY <1>1, <1>4, <1>5, <2>1, RefusedStays DEF Refused
<1>6. Failing(job'[j]) => RefusedNext(job'[j].p)
  BY <1>1, <1>2, <1>5 DEF Honest, RefundsOK
<1>7. RefundsOK'
  BY <1>1, <1>5, <1>6, RefundsFollow DEF Honest, Reversed, Others
<1>8. FailedOK'
  <2>1. \A q \in Payees : payout'[q].status = "FAILED" =>
            \/ payout[q].status = "FAILED"
            \/ \E i \in Jobs : job'[i].step = "reverse" /\ job'[i].p = q
    BY <1>1, <1>3
  <2> QED
    BY <1>1, <2>1, FailedFollow DEF Honest, Reversed, Others
<1>9. DebitsOK'
  BY <1>1, <1>4, DebitsFollow, CashKeys DEF Honest, Others
<1> QED
  BY <1>7, <1>8, <1>9 DEF Honest

LEMMA ResolveHonest ==
    ASSUME PayoutTypeOK, Safe, Answers, Honest, Untroubled', NEW p \in Payees, BankResolves(p)
    PROVE  Honest'
<1>1. /\ bank[p] = "pending" /\ UNCHANGED <<payout, booked, job>>
      /\ \A q \in Payees \ {p} : bank'[q] = bank[q]
  BY ResolveFacts
<1>2. ASSUME NEW q \in Payees, Refused(q) PROVE RefusedNext(q)
  BY <1>1, <1>2 DEF Refused, RefusedNext, Exists
<1>3. RefundsOK'
  BY <1>1, <1>2, RefundsFollow DEF Honest, Reversed
<1>4. FailedOK'
  BY <1>1, FailedFollow DEF Honest, Reversed
<1>5. DebitsOK'
  BY <1>1, DebitsFollow DEF Honest, Exists
<1> QED
  BY <1>3, <1>4, <1>5 DEF Honest

(* Every step after which nothing has gone wrong keeps refunds and debits  *)
(* honest.                                                                 *)
LEMMA HonestNext ==
    ASSUME EngineInv, Deals, Answers, Honest, Untroubled', Next PROVE Honest'
<1>1. PayoutTypeOK /\ Safe
  BY DEF EngineInv, Ledger
<1>2. ASSUME NEW j \in Jobs, Still(j) PROVE Honest'
  BY <1>1, <1>2, StillHonest
<1>3. ASSUME NEW j \in Jobs, SettlementStep(j) PROVE Honest'
  BY <1>2, <1>3, EngineStill
<1>4. ASSUME NEW j \in Jobs, NEW s \in Settlements,
             \/ Calculate(j, s) \/ Cancel(j, s) \/ Execute(j, s)
             \/ PayoutSettlement(j, s) \/ ReleaseReserve(j, s)
             \/ \E u \in Staff : Approve(j, s, u)
      PROVE  Honest'
  BY <1>2, <1>4, RequestStill
<1>5. ASSUME NEW j \in Jobs, PayoutStep(j) PROVE Honest'
  BY <1>1, <1>2, <1>5, DebitHonest, CreateHonest, SendHonest, RecordHonest, MarkHonest, ReverseHonest, PayoutStill
     DEF PayoutStep, DispatchStep
<1>6. ASSUME NEW j \in Jobs, \/ \E w \in Withdrawals : Withdraw(j, w)
                             \/ \E p \in Payees : TransferEvent(j, p) \/ Reconcile(j, p)
      PROVE  Honest'
  BY <1>1, <1>2, <1>6, PayoutStill
<1>7. ~Crash
  BY <1>1 DEF Crash, Untroubled, PayoutTypeOK
<1>8. ASSUME PayoutNext PROVE Honest'
  BY <1>1, <1>5, <1>6, <1>7, <1>8, ResolveHonest DEF PayoutNext
<1> QED
  BY <1>3, <1>4, <1>8 DEF Next

----------------------------------------------------------------------------
(* What the customer has. *)

(* Rows do not disappear, and what is reversed is the amount of a row. *)
LEMMA RowsRemain ==
    ASSUME PayoutTypeOK, Safe, PayoutNext, NEW p \in Payees, Exists(p)
    PROVE  payout'[p].status # "ABSENT"
<1>1. ASSUME NEW j \in Jobs, CreatePayout(j) PROVE payout'[p].status # "ABSENT"
  <2>1. \/ payout' = payout
        \/ \E r : payout' = [payout EXCEPT ![job[j].p] = r] /\ r.status = "PROCESSING"
    BY <1>1, CreateJob
  <2> QED
    BY <2>1, BankTypes DEF Exists
<1>2. ASSUME NEW j \in Jobs, Record(j) PROVE payout'[p].status # "ABSENT"
  <2>1. job[j].said # "ABSENT"
    BY JobFields DEF Job
  <2> QED
    BY <1>2, <2>1, BankTypes DEF Record, Exists, Row
<1>3. ASSUME NEW j \in Jobs, MarkPaid(j) \/ MarkFailed(j) PROVE payout'[p].status # "ABSENT"
  <2>1. \/ payout' = payout
        \/ payout' = [payout EXCEPT ![job[j].p].status = "PAID"]
        \/ payout' = [payout EXCEPT ![job[j].p].status = "FAILED"]
    BY <1>3, MarkJob, Zenon
  <2> QED
    BY <2>1, BankTypes DEF Exists, Row
<1>4. CASE payout' = payout
  BY <1>4 DEF Exists
<1> QED
  BY <1>1, <1>2, <1>3, <1>4
     DEF PayoutNext, PayoutStep, DispatchStep, DebitUser, Send, PaySettlement, Reverse,
         FailSettlement, Verify, Withdraw, TransferEvent, Reconcile, BankResolves, Crash

LEMMA BackedCarry ==
    ASSUME Backed, Safe, \A p \in Payees : Exists(p) => payout'[p].status # "ABSENT",
           \A i \in Jobs : \/ job'[i] = job[i] \/ job'[i].step # "reverse"
                           \/ job'[i].p \in Payees /\ Exists(job'[i].p)
    PROVE  Backed'
<1> SUFFICES ASSUME NEW i \in Jobs, job'[i].step = "reverse" PROVE payout'[job'[i].p].status # "ABSENT"
  BY DEF Backed, Exists
<1>1. CASE job'[i] = job[i]
  <2>1. Exists(job[i].p) /\ job[i].p \in Payees
    BY <1>1 DEF Backed, Safe, JobsOK
  <2> QED
    BY <1>1, <2>1
<1>2. CASE job'[i].p \in Payees /\ Exists(job'[i].p)
  BY <1>2
<1> QED
  BY <1>1, <1>2

LEMMA HeedsBacked ==
    ASSUME PayoutTypeOK, Safe, Answers, Backed, NEW j \in Jobs, Heeds(j) PROVE Backed'
<1>1. job'[j].step = "reverse" => job'[j].p \in Payees /\ Exists(job'[j].p)
  <2>1. job'[j].step = "reverse" => Failing(job'[j])
    BY Zenon DEF Failing
  <2>2. Failing(job'[j]) => job'[j].p \in Payees /\ bank[job'[j].p] # "none"
    BY DEF Heeds
  <2> QED
    BY <2>1, <2>2, Taken DEF Answers
<1>2. Others(j) /\ payout' = payout
  BY DEF Heeds
<1> QED
  BY <1>1, <1>2, BackedCarry DEF Others, Exists

(* Every step keeps reversals to payouts that have a row.                  *)
LEMMA BackedNext ==
    ASSUME EngineInv, Deals, Answers, Backed, Next PROVE Backed'
<1>1. PayoutTypeOK /\ Safe
  BY DEF EngineInv, Ledger
<1>2. ASSUME NEW j \in Jobs, Still(j) PROVE Backed'
  BY <1>1, <1>2, HeedsBacked DEF Still
<1>3. ASSUME NEW j \in Jobs, SettlementStep(j) PROVE Backed'
  BY <1>2, <1>3, EngineStill
<1>4. ASSUME NEW j \in Jobs, NEW s \in Settlements,
             \/ Calculate(j, s) \/ Cancel(j, s) \/ Execute(j, s)
             \/ PayoutSettlement(j, s) \/ ReleaseReserve(j, s)
             \/ \E u \in Staff : Approve(j, s, u)
      PROVE  Backed'
  BY <1>2, <1>4, RequestStill
<1>5. ASSUME PayoutNext, NEW j \in Jobs, Others(j),
             job'[j].step # "reverse" \/ (job'[j].p \in Payees /\ Exists(job'[j].p))
      PROVE  Backed'
  BY <1>1, <1>5, RowsRemain, BackedCarry DEF Others
<1>6. ASSUME PayoutNext, NEW j \in Jobs, CreatePayout(j) \/ Send(j) \/ Record(j) PROVE Backed'
  <2>1. job'[j].step = "reverse" => Failing(job'[j])
    BY Zenon DEF Failing
  <2>2. CASE CreatePayout(j)
    BY <1>1, <1>5, <1>6, <2>1, <2>2, CreateJob
  <2>3. CASE Send(j)
    BY <1>1, <1>5, <1>6, <2>3, SendFacts DEF Answers
  <2>4. CASE Record(j)
    <3>1. Others(j) /\ job'[j].step # "reverse"
      BY <1>1, <2>4, RecordJob, PlainFacts, Zenon
    <3> QED
      BY <1>5, <1>6, <3>1
  <2> QED
    BY <1>6, <2>2, <2>3, <2>4
<1>7. ASSUME PayoutNext, NEW j \in Jobs, MarkPaid(j) \/ MarkFailed(j) PROVE Backed'
  <2>1. Others(j) /\ (job'[j].step # "reverse" \/ (job'[j].p = job[j].p /\ MarkFailed(j)))
    BY <1>1, <1>7, MarkJob, PlainFacts, Zenon
  <2>2. ASSUME MarkFailed(j) PROVE job'[j].step # "reverse" \/ Exists(job[j].p)
    <3>1. CASE Finish(j)
      BY <1>1, <3>1, FinishPlain, PlainFacts
    <3>2. CASE payout[job[j].p].status = "PROCESSING"
      BY <3>2 DEF Exists
    <3> QED
      BY <2>2, <3>1, <3>2, Zenon DEF MarkFailed
  <2>3. job[j].p \in Payees
    <3>1. job[j].step # "idle"
      BY <1>1, <1>7, MarkJob, Zenon
    <3> QED
      BY <1>1, <3>1 DEF Safe, JobsOK
  <2> QED
    BY <1>5, <1>7, <2>1, <2>2, <2>3
<1>8. ASSUME PayoutNext, NEW j \in Jobs, PayoutStep(j) PROVE Backed'
  BY <1>1, <1>2, <1>6, <1>7, <1>8, LedgerHeeds, HeedsBacked, PayoutStill DEF PayoutStep, DispatchStep
<1>9. ASSUME NEW j \in Jobs, \/ \E w \in Withdrawals : Withdraw(j, w)
                             \/ \E p \in Payees : TransferEvent(j, p) \/ Reconcile(j, p)
      PROVE  Backed'
  BY <1>1, <1>2, <1>9, PayoutStill
<1>10. ASSUME NEW p \in Payees, BankResolves(p) PROVE Backed'
  BY <1>1, <1>10, ResolveFacts, BackedCarry DEF Exists
<1>11. CASE Crash
  <2>1. \A i \in Jobs : job'[i].step # "reverse"
    BY <1>11, PlainIdle, PlainFacts DEF Crash
  <2> QED
    BY <1>1, <1>11, <2>1, BackedCarry DEF Crash, Exists
<1>12. ASSUME PayoutNext PROVE Backed'
  BY <1>8, <1>9, <1>10, <1>11, <1>12 DEF PayoutNext
<1> QED
  BY <1>3, <1>4, <1>12 DEF Next

----------------------------------------------------------------------------
DebitsNext == {key \in DebitKeys : key \in booked'}
RefundsNext == {w \in Withdrawals : ReversalKey(w) \in booked'}

(* The account after a step, from the keys that are booked then.           *)
LEMMA NextUser ==
    ASSUME funds'.user = Opening - SumFunctionOnSet(Price, DebitsNext) + SumFunctionOnSet(Amount, RefundsNext)
    PROVE  UserAccount'
<1>1. Debits' = DebitsNext /\ Refunds' = RefundsNext
  BY DEF Debits, Refunds, DebitsNext, RefundsNext, Reversed, ReversalKey, DebitKeys, DebitKey
<1>2. Price' = Price
  BY DEF Price, DebitKeys, DebitKey
<1> QED
  BY <1>1, <1>2 DEF UserAccount

LEMMA UserCarry ==
    ASSUME UserAccount, funds'.user = funds.user,
           \A w \in Withdrawals : DebitKey(w) \in booked' <=> DebitKey(w) \in booked,
           \A w \in Withdrawals : ReversalKey(w) \in booked' <=> ReversalKey(w) \in booked
    PROVE  UserAccount'
<1>1. DebitsNext = Debits
  BY DEF DebitsNext, Debits, DebitKeys
<1>2. RefundsNext = Refunds
  BY DEF RefundsNext, Refunds, Reversed
<1> QED
  BY <1>1, <1>2, NextUser DEF UserAccount

(* Keys, their prices and their sums. *)
LEMMA Prices ==
    /\ IsFiniteSet(DebitKeys) /\ IsFiniteSet(Debits) /\ IsFiniteSet(Refunds)
    /\ \A key \in DebitKeys : Price[key] \in Nat
    /\ \A w \in Withdrawals : DebitKey(w) \in DebitKeys
    /\ OneAmountPerKey => \A w \in Withdrawals : Price[DebitKey(w)] = Amount[w]
    /\ SumFunctionOnSet(Price, Debits) \in Int /\ SumFunctionOnSet(Amount, Refunds) \in Int
    /\ Opening \in Int
<1>1. IsFiniteSet(DebitKeys)
  <2>1. [w \in Withdrawals |-> DebitKey(w)] \in Surjection(Withdrawals, DebitKeys)
    BY DEF Surjection, DebitKeys
  <2> QED
    BY <2>1, SettlementsAreFinite, FS_Surjection
<1>2. Debits \subseteq DebitKeys /\ Refunds \subseteq Withdrawals
  BY DEF Debits, Refunds
<1>3. IsFiniteSet(Debits) /\ IsFiniteSet(Refunds)
  BY <1>1, <1>2, SettlementsAreFinite, FS_Subset
<1>4. ASSUME NEW key \in DebitKeys
      PROVE  \E w \in Withdrawals : DebitKey(w) = key /\ Price[key] = Amount[w]
  <2>1. \E w \in Withdrawals : DebitKey(w) = key
    BY DEF DebitKeys
  <2>2. Price[key] = Amount[CHOOSE w \in Withdrawals : DebitKey(w) = key]
    BY DEF Price
  <2> QED
    BY <2>1, <2>2
<1>5. \A key \in DebitKeys : Price[key] \in Nat
  BY <1>4, CashKeys
<1>6. \A w \in Withdrawals : DebitKey(w) \in DebitKeys
  BY DEF DebitKeys
<1>7. OneAmountPerKey => \A w \in Withdrawals : Price[DebitKey(w)] = Amount[w]
  BY <1>4, <1>6 DEF OneAmountPerKey
<1>8. SumFunctionOnSet(Price, Debits) \in Int
  BY <1>2, <1>3, <1>5, SumNat
<1>9. SumFunctionOnSet(Amount, Refunds) \in Int
  BY <1>2, <1>3, CashKeys, SumNat
<1>10. Opening \in Int
  <2>1. Opening \in Nat
    BY PayoutAssumption, Zenon
  <2> QED
    BY <2>1
<1> QED
  BY <1>1, <1>3, <1>5, <1>6, <1>7, <1>8, <1>9, <1>10

(* A debit takes the price of its key, once; a reversal gives back the     *)
(* amount of its row, once.                                                *)
LEMMA DebitUserAccount ==
    ASSUME PayoutTypeOK, Safe, OneAmountPerKey, UserAccount, NEW j \in Jobs, DebitUser(j)
    PROVE  UserAccount'
<1> DEFINE w == job[j].p
<1>1. w \in Withdrawals
  BY DEF DebitUser, Safe, JobsOK
<1>2. CASE UNCHANGED <<funds, booked>>
  BY <1>2, UserCarry
<1>3. CASE /\ DebitKey(w) \notin booked
           /\ funds' = [funds EXCEPT !.user = @ - Amount[w], !.clearing = @ + Amount[w]]
           /\ booked' = booked \cup {DebitKey(w)}
  <2>1. funds'.user = funds.user - Amount[w] /\ funds.user \in Int /\ Amount[w] \in Int
    BY <1>1, <1>3, BankTypes, CashKeys DEF Funds
  <2>2. DebitsNext = Debits \cup {DebitKey(w)} /\ DebitKey(w) \notin Debits /\ DebitKey(w) \in DebitKeys
    BY <1>1, <1>3, Prices DEF DebitsNext, Debits
  <2>3. RefundsNext = Refunds
    BY <1>3, KeysDiffer DEF RefundsNext, Refunds, Reversed
  <2>4. \A key \in Debits \cup {DebitKey(w)} : Price[key] \in Int
    BY <2>2, Prices DEF Debits
  <2>5. SumFunctionOnSet(Price, Debits \cup {DebitKey(w)}) = SumFunctionOnSet(Price, Debits) + Price[DebitKey(w)]
    <3>1. IsFiniteSet(Debits)
      BY Prices
    <3> HIDE DEF w
    <3> QED
      BY <2>2, <2>4, <3>1, SumAdd
  <2>6. Price[DebitKey(w)] = Amount[w]
    BY <1>1, Prices
  <2>7. SumFunctionOnSet(Price, DebitsNext) = SumFunctionOnSet(Price, Debits) + Amount[w]
    BY <2>2, <2>5, <2>6
  <2> QED
    BY <2>1, <2>3, <2>7, Prices, NextUser DEF UserAccount
<1> QED
  BY <1>2, <1>3 DEF DebitUser

LEMMA ReverseAccount ==
    ASSUME PayoutTypeOK, Safe, AmountsOK, Backed, UserAccount, NEW j \in Jobs, Reverse(j)
    PROVE  UserAccount'
<1> DEFINE p == job[j].p
           n == payout[p].amount
<1>1. p \in Payees /\ Exists(p)
  BY DEF Reverse, At, Backed, Safe, JobsOK
<1>2. CASE UNCHANGED <<funds, booked>>
  BY <1>2, UserCarry
<1>3. CASE /\ ReversalKey(p) \notin booked /\ booked' = booked \cup {ReversalKey(p)}
           /\ funds' = IF p \in Withdrawals
                       THEN [funds EXCEPT !.clearing = @ - n, !.user = @ + n]
                       ELSE [funds EXCEPT !.clearing = @ - n, !.payable = @ + n]
  <2>1. DebitsNext = Debits
    BY <1>3, KeysDiffer DEF DebitsNext, Debits, DebitKeys
  <2>2. CASE p \in Withdrawals
    <3>1. funds'.user = funds.user + Amount[p] /\ funds.user \in Int /\ Amount[p] \in Int
      BY <1>1, <1>3, <2>2, BankTypes, CashKeys DEF Funds, AmountsOK
    <3>2. RefundsNext = Refunds \cup {p} /\ p \notin Refunds
      BY <1>3, <2>2, KeysDiffer DEF RefundsNext, Refunds, Reversed
    <3>3. \A w \in Refunds \cup {p} : Amount[w] \in Int
      BY <2>2, CashKeys DEF Refunds
    <3>4. SumFunctionOnSet(Amount, Refunds \cup {p}) = SumFunctionOnSet(Amount, Refunds) + Amount[p]
      <4>1. IsFiniteSet(Refunds)
        BY Prices
      <4> HIDE DEF p
      <4> QED
        BY <3>2, <3>3, <4>1, SumAdd
    <3>5. SumFunctionOnSet(Amount, RefundsNext) = SumFunctionOnSet(Amount, Refunds) + Amount[p]
      BY <3>2, <3>4
    <3> QED
      BY <2>1, <3>1, <3>5, Prices, NextUser DEF UserAccount
  <2>3. CASE p \notin Withdrawals
    <3>1. funds'.user = funds.user
      BY <1>3, <2>3, BankTypes DEF Funds
    <3>2. RefundsNext = Refunds
      BY <1>3, <2>3, KeysDiffer DEF RefundsNext, Refunds, Reversed
    <3> QED
      BY <2>1, <3>1, <3>2, NextUser DEF UserAccount
  <2> QED
    BY <2>2, <2>3
<1> QED
  BY <1>2, <1>3 DEF Reverse

(* Every step keeps the account of the customer.                           *)
LEMMA UserNext ==
    ASSUME EngineInv, Deals, Answers, Backed, OneAmountPerKey, UserAccount, Next PROVE UserAccount'
<1>1. PayoutTypeOK /\ Safe /\ AmountsOK
  BY DEF EngineInv, Ledger, Answers
<1>2. ASSUME NEW j \in Jobs, Still(j) PROVE UserAccount'
  BY <1>2, UserCarry, CashKeys DEF Still
<1>3. ASSUME NEW j \in Jobs, SettlementStep(j) PROVE UserAccount'
  BY <1>2, <1>3, EngineStill
<1>4. ASSUME NEW j \in Jobs, NEW s \in Settlements,
             \/ Calculate(j, s) \/ Cancel(j, s) \/ Execute(j, s)
             \/ PayoutSettlement(j, s) \/ ReleaseReserve(j, s)
             \/ \E u \in Staff : Approve(j, s, u)
      PROVE  UserAccount'
  BY <1>2, <1>4, RequestStill
<1>5. CASE UNCHANGED <<funds, booked>>
  BY <1>5, UserCarry
<1>6. ASSUME PayoutNext PROVE UserAccount'
  BY <1>1, <1>5, <1>6, DebitUserAccount, ReverseAccount
     DEF PayoutNext, PayoutStep, DispatchStep, CreatePayout, Send, Record, MarkPaid, PaySettlement,
         MarkFailed, FailSettlement, Verify, Withdraw, TransferEvent, Reconcile, BankResolves, Crash
<1> QED
  BY <1>3, <1>4, <1>6 DEF Next

----------------------------------------------------------------------------
(* The customers' side of the books, from the first state on. *)

LEMMA CashInit == WatchedInit => CashInv
<1> SUFFICES ASSUME WatchedInit PROVE CashInv
  OBVIOUS
<1>1. /\ \A j \in Jobs : job[j] = Idle
      /\ \A p \in Payees : payout[p].status = "ABSENT" /\ bank[p] = "none" /\ sent[p] = 0
      /\ booked = {} /\ crashes = 0 /\ funds.user = Opening
  BY DEF WatchedInit, Init, PayoutInit
<1>2. Idle.said = "PROCESSING" /\ Idle.caught = FALSE
  BY DEF Idle
<1>3. Plain(Idle) /\ Idle.step # "create"
  BY PlainIdle
<1>4. \A j \in Jobs : ~SaysPaid(job[j]) /\ ~Failing(job[j]) /\ job[j].step # "reverse"
  BY <1>1, <1>3, PlainFacts
<1>5. Answers /\ Backed
  BY <1>1, <1>4, CashKeys DEF Answers, BankOK, PaidOK, AmountsOK, Exists, Backed
<1>6. Honest
  BY <1>1, <1>2, <1>4, CashKeys DEF Honest, Untroubled, RefundsOK, FailedOK, DebitsOK, Reversed
<1>7. UserAccount
  <2>1. Debits = {} /\ Refunds = {}
    BY <1>1 DEF Debits, Refunds, Reversed
  <2>2. SumFunctionOnSet(Price, {}) = 0 /\ SumFunctionOnSet(Amount, {}) = 0
    BY SumEmpty
  <2> QED
    BY <1>1, <2>1, <2>2, Prices DEF UserAccount
<1> QED
  BY <1>5, <1>6, <1>7 DEF CashInv

LEMMA CashNext == ASSUME EngineInv, BusinessInv, CashInv, WatchedNext PROVE CashInv'
<1>1. Next /\ Deals /\ Answers /\ Backed
  BY DEF WatchedNext, BusinessInv, Deals, CashInv
<1>2. Answers' /\ Backed'
  BY <1>1, AnswersNext, BackedNext
<1>3. clean' => Honest'
  <2>1. clean' => clean /\ Untroubled'
    BY DEF WatchedNext
  <2> QED
    BY <1>1, <2>1, HonestNext DEF CashInv
<1>4. OneAmountPerKey => UserAccount'
  BY <1>1, UserNext DEF CashInv
<1>5. OneAmountPerKey' <=> OneAmountPerKey
  BY DEF OneAmountPerKey, DebitKey
<1> QED
  BY <1>2, <1>3, <1>4, <1>5 DEF CashInv

LEMMA CashStutters == ASSUME CashInv, UNCHANGED <<vars, clean>> PROVE CashInv'
<1>1. UNCHANGED <<funds, booked, payout, bank, sent, job, crashes, clean>>
  BY DEF vars
<1>2. Answers' /\ Backed'
  BY <1>1 DEF CashInv, Answers, BankOK, PaidOK, AmountsOK, Exists, Backed
<1>3. clean' => Honest'
  <2> SUFFICES ASSUME Honest PROVE Honest'
    BY <1>1 DEF CashInv
  <2>2. RefundsOK'
    <3>1. \A p \in Payees : Reversed(p)' <=> Reversed(p)
      BY <1>1 DEF Reversed, ReversalKey
    <3>2. \A p \in Payees : Refused(p)' <=> Refused(p)
      BY <1>1 DEF Refused, Exists
    <3>3. job' = job
      BY <1>1
    <3>4. \A j \in Jobs : Failing(job[j]) => Refused(job[j].p)'
      BY <1>1 DEF Honest, RefundsOK, Refused, Exists
    <3> QED
      BY <3>1, <3>2, <3>3, <3>4 DEF Honest, RefundsOK
  <2>3. FailedOK'
    BY <1>1 DEF Honest, FailedOK, Reversed, Reversing, ReversalKey
  <2>4. DebitsOK'
    <3>1. booked' = booked /\ job' = job /\ payout' = payout
      BY <1>1
    <3>2. DebitsOK /\ \A w \in Withdrawals : Exists(w) => payout'[w].status # "ABSENT"
      BY <3>1 DEF Honest, Exists
    <3> QED
      BY <3>1, <3>2, DebitsFollow
  <2>5. Untroubled'
    BY <1>1 DEF Honest, Untroubled
  <2> QED
    BY <2>2, <2>3, <2>4, <2>5 DEF Honest
<1>4. OneAmountPerKey' => UserAccount'
  <2>1. OneAmountPerKey' => OneAmountPerKey
    BY DEF OneAmountPerKey, DebitKey
  <2> QED
    BY <1>1, <2>1, UserCarry DEF CashInv
<1> QED
  BY <1>2, <1>3, <1>4 DEF CashInv

(* Watching changes nothing: the watched behaviours are behaviours of the  *)
(* system.                                                                 *)
LEMMA WatchedImplementsSpec == WatchedSpec => Spec
<1>1. WatchedInit => Init
  BY DEF WatchedInit
<1>2. [WatchedNext]_<<vars, clean>> => [Next]_vars
  BY DEF WatchedNext
<1> QED
  BY <1>1, <1>2, PTL DEF WatchedSpec, Spec

LEMMA CashInvHolds == WatchedSpec => [](EngineInv /\ BusinessInv /\ CashInv)
<1>1. EngineInv /\ BusinessInv /\ CashInv /\ [WatchedNext]_<<vars, clean>> => CashInv'
  BY CashNext, CashStutters
<1> QED
  BY <1>1, CashInit, WatchedImplementsSpec, BusinessInvHolds, PTL DEF WatchedSpec

(* "Reversed if the gateway rejects it": as long as no answer of the       *)
(* gateway was lost and nothing was killed, a debit is given back only for *)
(* a transfer the bank does not pay, for any number of payouts, however    *)
(* requests, webhooks and the sweep overlap.                               *)
THEOREM RefundsAreOfUnpaid == WatchedSpec => []RefundedWasNotPaid
<1>1. ASSUME CashInv PROVE RefundedWasNotPaid
  <2>1. ASSUME clean, NEW p \in Payees, ReversalKey(p) \in booked PROVE bank[p] # "paid"
    <3>1. Refused(p)
      BY <1>1, <2>1 DEF CashInv, Honest, RefundsOK, Reversed
    <3> QED
      BY <3>1 DEF Refused
  <2> QED
    BY <2>1 DEF RefundedWasNotPaid, RefundedIsNotPaid
<1> QED
  BY <1>1, CashInvHolds, PTL

(* "A synchronous failure reverses the ledger immediately": under the same *)
(* conditions a payout recorded as FAILED that nothing works on any more   *)
(* has had its debit reversed.                                             *)
THEOREM FailuresAreReversed == WatchedSpec => []FailedWasReversed
<1>1. ASSUME CashInv PROVE FailedWasReversed
  <2>1. ASSUME clean, NEW p \in Payees, payout[p].status = "FAILED", Handled(p)
        PROVE  ReversalKey(p) \in booked
    <3>1. Reversed(p) \/ Reversing(p)
      BY <1>1, <2>1 DEF CashInv, Honest, FailedOK
    <3>2. ~Reversing(p)
      BY <2>1 DEF Handled, Reversing
    <3> QED
      BY <3>1, <3>2 DEF Reversed
  <2> QED
    BY <2>1 DEF FailedWasReversed, FailedIsReversed
<1> QED
  BY <1>1, CashInvHolds, PTL

----------------------------------------------------------------------------
(* At rest, the withdrawals that have a row are those the bank paid and    *)
(* those that were refunded, and they are what was debited.                *)

Paid == {w \in Withdrawals : bank[w] = "paid"}
Standing == {w \in Withdrawals : Exists(w)}

LEMMA RowsAtRest ==
    ASSUME EngineInv, CashInv, clean, AtRest
    PROVE  /\ Standing = Paid \cup Refunds /\ Paid \cap Refunds = {}
           /\ Debits = {DebitKey(w) : w \in Standing}
<1>1. PayoutTypeOK /\ Safe /\ Answers /\ Honest
  BY DEF EngineInv, Ledger, CashInv
<1>2. \A j \in Jobs : job[j].step \notin {"create", "reverse"}
  <2>1. Idle.step = "idle"
    BY IdleJob
  <2> QED
    BY <2>1 DEF AtRest
<1>3. \A w \in Withdrawals : bank[w] = "paid" => Exists(w)
  BY <1>1, CashKeys, BankTypes DEF Answers, BankOK, Safe, SentOnce
<1>4. \A w \in Withdrawals : Reversed(w) => Exists(w) /\ bank[w] # "paid"
  BY <1>1, CashKeys DEF Honest, RefundsOK, Refused
<1>5. ASSUME NEW w \in Withdrawals, Exists(w) PROVE bank[w] = "paid" \/ Reversed(w)
  <2>1. w \in Payees /\ payout[w].status \in {"PAID", "FAILED"}
    <3>1. w \in Payees
      BY CashKeys
    <3>2. payout[w].status # "PROCESSING" /\ payout[w].status # "ABSENT"
      BY <1>5, <3>1 DEF AtRest, Exists
    <3>3. payout[w].status \in RowStatus
      BY <1>1, <3>1, BankTypes DEF Row
    <3> QED
      BY <3>1, <3>2, <3>3 DEF RowStatus
  <2>2. payout[w].status = "FAILED" => Reversed(w)
    BY <1>1, <1>2, <2>1 DEF Honest, FailedOK, Reversing
  <2> QED
    BY <1>1, <2>1, <2>2 DEF Answers, PaidOK
<1>6. \A w \in Withdrawals : Exists(w) => DebitKey(w) \in booked
  BY <1>1, CashKeys DEF Safe, RowsDebited
<1>7. \A w \in Withdrawals : DebitKey(w) \in booked =>
         \E v \in Withdrawals : DebitKey(v) = DebitKey(w) /\ Exists(v)
  BY <1>1, <1>2 DEF Honest, DebitsOK, Creating
<1> QED
  BY <1>3, <1>4, <1>5, <1>6, <1>7 DEF Standing, Paid, Refunds, Debits, DebitKeys

(* Where a client key stands for one amount, the books match the bank:     *)
(* once every job has ended and the bank has decided every transfer, a     *)
(* customer is short of exactly what the bank paid out, for any number of  *)
(* withdrawals, repeated requests and settlement payouts among them.       *)
THEOREM BooksBalanceAtRest == WatchedSpec => [](OneAmountPerKey => BooksMatchBank)
<1>1. ASSUME EngineInv, CashInv, OneAmountPerKey PROVE BooksMatchBank
  <2> SUFFICES ASSUME clean, AtRest
               PROVE  funds.user = Opening - SumFunctionOnSet(Amount, Paid)
    BY DEF BooksMatchBank, Paid
  <2> DEFINE key == [w \in Standing |-> DebitKey(w)]
  <2>1. /\ Standing = Paid \cup Refunds /\ Paid \cap Refunds = {}
        /\ Debits = {DebitKey(w) : w \in Standing}
    BY <1>1, RowsAtRest
  <2>2. Standing \subseteq Withdrawals /\ IsFiniteSet(Standing) /\ IsFiniteSet(Paid) /\ IsFiniteSet(Refunds)
    <3>1. Standing \subseteq Withdrawals /\ Paid \subseteq Withdrawals /\ Refunds \subseteq Withdrawals
      BY DEF Standing, Paid, Refunds
    <3> QED
      BY <3>1, SettlementsAreFinite, FS_Subset
  <2>3. \A v, w \in Standing : DebitKey(v) = DebitKey(w) => v = w
    <3>1. \A v, w \in Standing : v \in Payees /\ w \in Payees /\ Exists(v) /\ Exists(w)
      BY CashKeys DEF Standing
    <3> QED
      BY <1>1, <3>1, SameDebitSameRow DEF EngineInv, Ledger, Safe, RowsUnique
  <2>4. \A w \in Standing : Amount[w] \in Int /\ Price[DebitKey(w)] = Amount[w]
    BY <1>1, <2>2, Prices, CashKeys
  <2>5. SumFunctionOnSet(Price, Debits) = SumFunctionOnSet(Amount, Standing)
    <3>1. \A v, w \in Standing : key[v] = key[w] => v = w
      BY <2>3
    <3>2. \A w \in Standing : Price[key[w]] = Amount[w]
      BY <2>4
    <3>3. Debits = {key[w] : w \in Standing}
      BY <2>1
    <3> HIDE DEF key
    <3> QED
      BY <2>2, <2>4, <3>1, <3>2, <3>3, SumReindex
  <2>6. SumFunctionOnSet(Amount, Standing)
           = SumFunctionOnSet(Amount, Paid) + SumFunctionOnSet(Amount, Refunds)
    <3>1. \A w \in Paid \cup Refunds : Amount[w] \in Int
      BY <2>1, <2>4
    <3>2. SumFunctionOnSet(Amount, Paid \cup Refunds)
             = SumFunctionOnSet(Amount, Paid) + SumFunctionOnSet(Amount, Refunds)
      BY <2>1, <2>2, <3>1, SumUnion
    <3> QED
      BY <2>1, <3>2
  <2>7. SumFunctionOnSet(Amount, Paid) \in Int
    <3>1. \A w \in Paid : Amount[w] \in Int
      BY <2>1, <2>4
    <3> QED
      BY <2>2, <3>1, SumRemove
  <2> QED
    BY <1>1, <2>5, <2>6, <2>7, Prices DEF CashInv, UserAccount
<1>2. EngineInv /\ CashInv => (OneAmountPerKey => BooksMatchBank)
  BY <1>1
<1> QED
  BY <1>2, CashInvHolds, PTL

----------------------------------------------------------------------------
(* Paying out implements Disbursements.  Troubled or not, what is given    *)
(* back, or may be, has a row and nobody who is left to send it; and who   *)
(* records an answer sent before.                                          *)

Spent(p) == Exists(p) /\ \A j \in Jobs : Sends(job[j]) => job[j].p # p

RefundsLast == /\ \A p \in Payees : Reversed(p) => Spent(p)
               /\ \A j \in Jobs : job[j].step = "record" => sent[job[j].p] > 0
               /\ \A j \in Jobs : Failing(job[j]) => Spent(job[j].p)

SpentNext(p) == payout'[p].status # "ABSENT" /\ \A j \in Jobs : Sends(job'[j]) => job'[j].p # p

(* A step keeps refunds last if whatever has nobody to send it stays so.   *)
LEMMA LastFollows ==
    ASSUME RefundsLast, Safe,
           \A p \in Payees : Spent(p) => SpentNext(p),
           \A p \in Payees : sent[p] > 0 => sent'[p] > 0,
           \A p \in Payees : ReversalKey(p) \in booked' => Reversed(p) \/ SpentNext(p),
           \A i \in Jobs : job'[i] = job[i] \/ (Failing(job'[i]) => SpentNext(job'[i].p)),
           \A i \in Jobs : job'[i] = job[i] \/ (job'[i].step = "record" => sent'[job'[i].p] > 0)
    PROVE  RefundsLast'
<1>1. \A p \in Payees : ReversalKey(p) \in booked' => SpentNext(p)
  BY DEF RefundsLast
<1>2. \A i \in Jobs : Failing(job[i]) => job[i].step # "idle"
  BY Zenon DEF Failing
<1>3. \A i \in Jobs : Failing(job[i]) => SpentNext(job[i].p)
  BY <1>2 DEF RefundsLast, Safe, JobsOK
<1>4. \A i \in Jobs : Failing(job'[i]) => SpentNext(job'[i].p)
  BY <1>3
<1>5. \A i \in Jobs : job'[i].step = "record" => sent'[job'[i].p] > 0
  BY DEF RefundsLast, Safe, JobsOK
<1> QED
  BY <1>1, <1>4, <1>5 DEF RefundsLast, SpentNext, Spent, Reversed, ReversalKey, Exists

(* Who may still send is not made more by a step that lets nobody begin.   *)
LEMMA SpentStays ==
    ASSUME NEW p \in Payees, Spent(p), payout'[p].status # "ABSENT",
           \A i \in Jobs : Sends(job'[i]) => \/ job'[i].p # p
                                             \/ Sends(job[i]) /\ job[i].p = job'[i].p
    PROVE  SpentNext(p)
  BY DEF Spent, SpentNext

(* What the bank has, nobody sends again. *)
LEMMA TakenIsSpent ==
    ASSUME PayoutTypeOK, Safe, NEW p \in Payees, sent[p] > 0
    PROVE  Spent(p)
<1>1. Exists(p)
  BY DEF Safe, SentOnce
<1>2. \A j \in Jobs : Sends(job[j]) => job[j].p # p
  BY SenderFacts
<1> QED
  BY <1>1, <1>2 DEF Spent

(* Who begins to fail a payout heard of it from the bank, which has it.    *)
LEMMA HeedsLast ==
    ASSUME PayoutTypeOK, Safe, Answers, RefundsLast, NEW j \in Jobs, Heeds(j),
           \A p \in Payees : ReversalKey(p) \in booked' => Reversed(p) \/ Spent(p)
    PROVE  RefundsLast'
<1>1. Others(j) /\ UNCHANGED <<payout, bank, sent>>
  BY DEF Heeds
<1>2. ASSUME NEW p \in Payees, Spent(p) PROVE SpentNext(p)
  <2>1. \A i \in Jobs : Sends(job'[i]) => Sends(job[i]) /\ job[i].p = job'[i].p
    BY <1>1 DEF Heeds, Others
  <2> QED
    BY <1>1, <1>2, <2>1, SpentStays DEF Spent, Exists
<1>3. Failing(job'[j]) => SpentNext(job'[j].p)
  <2>1. Failing(job'[j]) => job'[j].p \in Payees /\ bank[job'[j].p] # "none"
    BY DEF Heeds
  <2>2. Failing(job'[j]) => Spent(job'[j].p)
    BY <2>1, Taken DEF Answers, Spent
  <2> QED
    BY <1>2, <2>1, <2>2
<1>4. \A i \in Jobs : job'[i] = job[i] \/ job'[i].step # "record"
  BY <1>1 DEF Heeds, Others
<1>5. \A i \in Jobs : job'[i] = job[i] \/ (Failing(job'[i]) => SpentNext(job'[i].p))
  BY <1>1, <1>3 DEF Others
<1> QED
  BY <1>1, <1>2, <1>4, <1>5, LastFollows

LEMMA StillLast ==
    ASSUME PayoutTypeOK, Safe, Answers, RefundsLast, NEW j \in Jobs, Still(j) PROVE RefundsLast'
<1>1. Heeds(j) /\ \A p \in Payees : ReversalKey(p) \in booked' => Reversed(p)
  BY DEF Still, Reversed
<1> QED
  BY <1>1, HeedsLast

LEMMA LedgerLast ==
    ASSUME PayoutTypeOK, Safe, Answers, RefundsLast, NEW j \in Jobs, DebitUser(j) \/ Reverse(j)
    PROVE  RefundsLast'
<1>1. Heeds(j)
  BY LedgerHeeds
<1>2. CASE DebitUser(j)
  <2>1. booked' = booked \/ booked' = booked \cup {DebitKey(job[j].p)}
    BY <1>2 DEF DebitUser
  <2> QED
    BY <1>1, <2>1, HeedsLast, KeysDiffer DEF Reversed
<1>3. CASE Reverse(j)
  <2>1. booked' = booked \/ booked' = booked \cup {ReversalKey(job[j].p)}
    BY <1>3 DEF Reverse
  <2>2. Failing(job[j])
    BY <1>3, Zenon DEF Reverse, At, Failing
  <2>3. Spent(job[j].p)
    BY <2>2 DEF RefundsLast
  <2> QED
    BY <1>1, <2>1, <2>3, HeedsLast, KeysDiffer DEF Reversed
<1> QED
  BY <1>2, <1>3

(* A row that is made now is of a payout nothing was given back for: rows  *)
(* are never made twice.                                                   *)
LEMMA CreateLast ==
    ASSUME PayoutTypeOK, Safe, RefundsLast, NEW j \in Jobs, CreatePayout(j) PROVE RefundsLast'
<1> DEFINE p == job[j].p
           Known == \E q \in Payees : Exists(q) /\ RowKey(q) = RowKey(p)
<1>1. /\ Others(j) /\ job[j].step = "create" /\ ~Failing(job'[j]) /\ p \in Payees
      /\ UNCHANGED <<sent, booked>>
  BY CreateJob DEF CreatePayout, Safe, JobsOK
<1>2. \/ Known /\ payout' = payout /\ ~Sends(job'[j])
      \/ /\ ~Known /\ job'[j].p = p /\ payout'[p].status = "PROCESSING"
         /\ \A q \in Payees \ {p} : payout'[q] = payout[q]
  BY <1>1, CreateJob, BankTypes
<1>3. job'[j].step # "record"
  <2>1. job' = [job EXCEPT ![j] = Idle] \/ Goto(j, "settle failed") \/ Goto(j, "mark processing") \/ Goto(j, "send")
    BY DEF CreatePayout
  <2>2. job'[j].step \in {"idle", "settle failed", "mark processing", "send"}
    BY <1>1, <2>1, EndJob, GotoJob, IdleJob
  <2> QED
    BY <2>2, Zenon
<1>4. ASSUME NEW q \in Payees, Spent(q) PROVE SpentNext(q)
  <2>1. payout'[q].status # "ABSENT"
    BY <1>2, <1>4 DEF Spent, Exists
  <2>2. CASE ~Sends(job'[j])
    BY <1>1, <1>4, <2>1, <2>2, SpentStays DEF Others
  <2>3. CASE ~Known /\ job'[j].p = p
    <3>1. q # p
      BY <1>4, <2>3 DEF Spent
    <3> QED
      BY <1>1, <1>4, <2>1, <2>3, <3>1, SpentStays DEF Others
  <2> QED
    BY <1>2, <2>2, <2>3
<1> QED
  BY <1>1, <1>3, <1>4, LastFollows DEF Others, Reversed

(* A gateway that answered has the transfer. *)
LEMMA SendTells ==
    ASSUME PayoutTypeOK, NEW j \in Jobs, Send(j), job[j].p \in Payees, job'[j].step = "record"
    PROVE  sent'[job[j].p] > 0
<1>1. PICK a \in GatewayAnswers :
        /\ sent' = IF a = "errors" THEN sent ELSE [sent EXCEPT ![job[j].p] = @ + 1]
        /\ job' = [job EXCEPT ![j] =
             IF a \in {"errors", "times out"}
             THEN [@ EXCEPT !.step = "mark failed", !.caught = TRUE]
             ELSE [@ EXCEPT !.step = "record",
                            !.said = CASE a = "pays" -> "PAID" [] a = "declines" -> "FAILED"
                                       [] OTHER -> "PROCESSING"]]
  BY DEF Send
<1>2. a # "errors"
  <2> SUFFICES ASSUME a = "errors" PROVE FALSE
    OBVIOUS
  <2>1. job' = [job EXCEPT ![j] = [@ EXCEPT !.step = "mark failed", !.caught = TRUE]]
    BY <1>1
  <2>2. job[j] \in Job
    BY JobFields
  <2>3. job'[j].step = "mark failed"
    BY <2>1, <2>2, BankTypes DEF Job
  <2> QED
    BY <2>3
<1>3. sent' = [sent EXCEPT ![job[j].p] = @ + 1]
  BY <1>1, <1>2
<1> QED
  BY <1>3, BankTypes

LEMMA SendLast ==
    ASSUME PayoutTypeOK, Safe, BankOK, RefundsLast, NEW j \in Jobs, Send(j) PROVE RefundsLast'
<1> DEFINE p == job[j].p
<1>1. /\ p \in Payees /\ Exists(p) /\ Sends(job[j])
      /\ \A i \in Jobs \ {j} : Sends(job[i]) => job[i].p # p
      /\ \A q \in Payees \ {p} : sent'[q] = sent[q]
      /\ Others(j) /\ job'[j].p = p /\ ~Sends(job'[j])
  BY SendFacts
<1>2. UNCHANGED <<payout, booked>>
  BY DEF Send
<1>3. sent[p] = 0
  BY <1>1, SenderFacts
<1>4. \A q \in Payees : sent[q] > 0 => sent'[q] > 0
  <2>1. ~(sent[p] > 0)
    BY <1>3
  <2> QED
    BY <1>1, <2>1
<1>5. \A i \in Jobs : Sends(job'[i]) => Sends(job[i]) /\ job[i].p = job'[i].p
  BY <1>1 DEF Others
<1>6. ASSUME NEW q \in Payees, Spent(q) PROVE SpentNext(q)
  BY <1>2, <1>5, <1>6, SpentStays DEF Spent, Exists
<1>7. SpentNext(p)
  BY <1>1, <1>2 DEF SpentNext, Exists, Others
<1>8. job'[j].step = "record" => sent'[job'[j].p] > 0
  BY <1>1, SendTells
<1> QED
  BY <1>1, <1>2, <1>4, <1>6, <1>7, <1>8, LastFollows DEF Others, Reversed

(* Who has an answer to record sent before, so nobody sends any more.      *)
LEMMA RecordLast ==
    ASSUME PayoutTypeOK, Safe, RefundsLast, NEW j \in Jobs, Record(j) PROVE RefundsLast'
<1> DEFINE p == job[j].p
<1>1. /\ Others(j) /\ job[j].step = "record" /\ p \in Payees /\ UNCHANGED <<sent, booked>>
      /\ payout'[p].status = job[j].said
      /\ \A q \in Payees \ {p} : payout'[q] = payout[q]
  BY RecordJob, BankTypes DEF Record, Safe, JobsOK, Row
<1>2. job[j].said # "ABSENT"
  BY JobFields DEF Job
<1>3. Spent(p)
  BY <1>1, TakenIsSpent DEF RefundsLast
<1>4. ~Sends(job'[j]) /\ job'[j].step # "record" /\ (Failing(job'[j]) => job'[j].p = p)
  <2>1. job'[j].step \in {"mark paid", "mark failed"} => ~Sends(job'[j]) /\ job'[j].step # "record"
    BY Zenon DEF Sends
  <2> QED
    BY <2>1, RecordJob, PlainFacts, Zenon
<1>5. ASSUME NEW q \in Payees, Spent(q) PROVE SpentNext(q)
  <2>1. payout'[q].status # "ABSENT"
    BY <1>1, <1>2, <1>5 DEF Spent, Exists
  <2>2. \A i \in Jobs : Sends(job'[i]) => Sends(job[i]) /\ job[i].p = job'[i].p
    BY <1>1, <1>4 DEF Others
  <2> QED
    BY <1>5, <2>1, <2>2, SpentStays
<1>6. Failing(job'[j]) => SpentNext(job'[j].p)
  BY <1>1, <1>3, <1>4, <1>5
<1> QED
  BY <1>1, <1>4, <1>5, <1>6, LastFollows DEF Others, Reversed

LEMMA MarkLast ==
    ASSUME PayoutTypeOK, Safe, RefundsLast, NEW j \in Jobs, MarkPaid(j) \/ MarkFailed(j)
    PROVE  RefundsLast'
<1> DEFINE p == job[j].p
<1>1. /\ Others(j) /\ ~Sends(job'[j]) /\ UNCHANGED <<sent, booked>> /\ p \in Payees
      /\ job'[j].step # "record"
  <2>1. job[j].step # "idle"
    BY MarkJob, Zenon
  <2>2. job'[j].step # "record"
    BY MarkJob, PlainFacts, Zenon
  <2> QED
    BY <2>1, <2>2, MarkJob DEF MarkPaid, MarkFailed, Safe, JobsOK
<1>2. Failing(job'[j]) => Failing(job[j]) /\ job'[j].p = p
  <2>1. MarkFailed(j) => Failing(job[j])
    BY Zenon DEF MarkFailed, At, Failing
  <2> QED
    BY <2>1, MarkJob, PlainFacts, Zenon
<1>3. \A q \in Payees : Exists(q) => payout'[q].status # "ABSENT"
  <2>1. \/ payout' = payout
        \/ payout' = [payout EXCEPT ![p].status = "PAID"]
        \/ payout' = [payout EXCEPT ![p].status = "FAILED"]
    BY MarkJob, Zenon
  <2> QED
    BY <1>1, <2>1, BankTypes DEF Row, Exists
<1>4. ASSUME NEW q \in Payees, Spent(q) PROVE SpentNext(q)
  <2>1. \A i \in Jobs : Sends(job'[i]) => Sends(job[i]) /\ job[i].p = job'[i].p
    BY <1>1 DEF Others
  <2> QED
    BY <1>3, <1>4, <2>1, SpentStays DEF Spent
<1>5. Failing(job'[j]) => SpentNext(job'[j].p)
  BY <1>1, <1>2, <1>4 DEF RefundsLast
<1> QED
  BY <1>1, <1>4, <1>5, LastFollows DEF Others, Reversed

(* Every step keeps refunds behind the last transfer. *)
LEMMA LastNext ==
    ASSUME EngineInv, Deals, Answers, RefundsLast, Next PROVE RefundsLast'
<1>1. PayoutTypeOK /\ Safe
  BY DEF EngineInv, Ledger
<1>2. ASSUME NEW j \in Jobs, Still(j) PROVE RefundsLast'
  BY <1>1, <1>2, StillLast
<1>3. ASSUME NEW j \in Jobs, SettlementStep(j) PROVE RefundsLast'
  BY <1>2, <1>3, EngineStill
<1>4. ASSUME NEW j \in Jobs, NEW s \in Settlements,
             \/ Calculate(j, s) \/ Cancel(j, s) \/ Execute(j, s)
             \/ PayoutSettlement(j, s) \/ ReleaseReserve(j, s)
             \/ \E u \in Staff : Approve(j, s, u)
      PROVE  RefundsLast'
  BY <1>2, <1>4, RequestStill
<1>5. ASSUME NEW j \in Jobs, PayoutStep(j) PROVE RefundsLast'
  BY <1>1, <1>2, <1>5, LedgerLast, CreateLast, SendLast, RecordLast, MarkLast, PayoutStill
     DEF PayoutStep, DispatchStep, Answers
<1>6. ASSUME NEW j \in Jobs, \/ \E w \in Withdrawals : Withdraw(j, w)
                             \/ \E p \in Payees : TransferEvent(j, p) \/ Reconcile(j, p)
      PROVE  RefundsLast'
  BY <1>1, <1>2, <1>6, PayoutStill
<1>7. ASSUME NEW p \in Payees, BankResolves(p) PROVE RefundsLast'
  <2>1. UNCHANGED <<booked, payout, sent, job>>
    BY <1>1, <1>7, ResolveFacts
  <2>2. \A q \in Payees : Spent(q) => SpentNext(q)
    BY <2>1 DEF Spent, SpentNext, Exists
  <2> QED
    BY <1>1, <2>1, <2>2, LastFollows DEF Reversed
<1>8. ASSUME Crash PROVE RefundsLast'
  <2>1. UNCHANGED <<booked, payout, sent>> /\ \A i \in Jobs : job'[i] = Idle
    BY <1>8 DEF Crash
  <2>2. ~Sends(Idle) /\ ~Failing(Idle) /\ Idle.step # "record"
    BY PlainIdle, PlainFacts
  <2>3. \A q \in Payees : Spent(q) => SpentNext(q)
    BY <2>1, <2>2 DEF Spent, SpentNext, Exists
  <2> QED
    BY <1>1, <2>1, <2>2, <2>3, LastFollows DEF Reversed
<1>9. ASSUME PayoutNext PROVE RefundsLast'
  BY <1>5, <1>6, <1>7, <1>8, <1>9 DEF PayoutNext
<1> QED
  BY <1>3, <1>4, <1>9 DEF Next

LEMMA LastInit == WatchedInit => RefundsLast
<1> SUFFICES ASSUME WatchedInit PROVE RefundsLast
  OBVIOUS
<1>1. booked = {} /\ \A j \in Jobs : job[j] = Idle
  BY DEF WatchedInit, Init, PayoutInit
<1>2. ~Failing(Idle) /\ Idle.step # "record"
  BY PlainIdle, PlainFacts
<1> QED
  BY <1>1, <1>2 DEF RefundsLast, Reversed

LEMMA LastHolds == WatchedSpec => [](EngineInv /\ BusinessInv /\ CashInv /\ RefundsLast)
<1>1. EngineInv /\ BusinessInv /\ CashInv /\ RefundsLast /\ [WatchedNext]_<<vars, clean>> => RefundsLast'
  <2> SUFFICES ASSUME EngineInv, BusinessInv, CashInv, RefundsLast, [WatchedNext]_<<vars, clean>>
               PROVE  RefundsLast'
    OBVIOUS
  <2>1. CASE WatchedNext
    BY <2>1, LastNext DEF WatchedNext, BusinessInv, Deals, CashInv
  <2>2. CASE UNCHANGED <<vars, clean>>
    <3>1. UNCHANGED <<booked, payout, sent, job>>
      BY <2>2 DEF vars
    <3>2. \A q \in Payees : Spent(q) => SpentNext(q)
      BY <3>1 DEF Spent, SpentNext, Exists
    <3>3. Safe
      BY DEF EngineInv, Ledger
    <3> QED
      BY <3>1, <3>2, <3>3, LastFollows DEF Reversed
  <2> QED
    BY <2>1, <2>2
<1> QED
  BY <1>1, LastInit, CashInvHolds, PTL DEF WatchedSpec

----------------------------------------------------------------------------
(* Each step of the system is a step of Disbursements, or none of it.  The *)
(* four moves are first said of the books and the bank.                    *)

DebitsIn(keys) == {key \in keys : \E p \in Payees : key = DebitKey(p)}
RefundsIn(keys) == {p \in Payees : ReversalKey(p) \in keys}

SameDebits == DebitsIn(booked') = DebitsIn(booked)
SameRefunds == RefundsIn(booked') = RefundsIn(booked)

LEMMA Mapped ==
    /\ DebitsIn(booked) = {key \in booked : \E p \in Payees : key = DebitKey(p)}
    /\ RefundsIn(booked) = {p \in Payees : ReversalKey(p) \in booked}
    /\ DebitsIn(booked') = {key \in booked' : \E p \in Payees : key = DebitKey(p)'}
    /\ RefundsIn(booked') = {p \in Payees : ReversalKey(p)' \in booked'}
    /\ \A p \in Payees : [q \in Payees |-> DebitKey(q)][p] = DebitKey(p)
  BY DEF DebitsIn, RefundsIn, DebitKey, ReversalKey

LEMMA MapsDebit ==
    ASSUME NEW p \in Payees, DebitKey(p) \notin DebitsIn(booked),
           DebitsIn(booked') = DebitsIn(booked) \cup {DebitKey(p)}, bank' = bank, SameRefunds
    PROVE  Promised!Debit(p)
  BY Mapped DEF Promised!Debit, SameRefunds

LEMMA MapsTransfer ==
    ASSUME NEW p \in Payees, DebitKey(p) \in DebitsIn(booked), p \notin RefundsIn(booked),
           \A q \in Payees : DebitKey(q) = DebitKey(p) => bank[q] = "none",
           NEW word \in {"pending", "paid", "failed"}, bank' = [bank EXCEPT ![p] = word],
           SameDebits, SameRefunds
    PROVE  Promised!Transfer(p)
  BY Mapped DEF Promised!Transfer, SameDebits, SameRefunds

LEMMA MapsDecide ==
    ASSUME NEW p \in Payees, bank[p] = "pending",
           NEW word \in {"paid", "failed"}, bank' = [bank EXCEPT ![p] = word],
           SameDebits, SameRefunds
    PROVE  Promised!Decide(p)
  BY Mapped DEF Promised!Decide, SameDebits, SameRefunds

LEMMA MapsGiveBack ==
    ASSUME NEW p \in Payees, DebitKey(p) \in DebitsIn(booked), p \notin RefundsIn(booked),
           clean => bank[p] \in {"none", "failed"},
           RefundsIn(booked') = RefundsIn(booked) \cup {p}, bank' = bank, SameDebits
    PROVE  Promised!GiveBack(p)
  BY Mapped DEF Promised!GiveBack, SameDebits

LEMMA MapsNothing ==
    ASSUME clean' \in {clean, FALSE}, bank' = bank, SameDebits, SameRefunds PROVE Promised!Next
  BY Mapped DEF Promised!Next, SameDebits, SameRefunds

----------------------------------------------------------------------------
(* Only debits and reversals matter to it, and a step books at most one.   *)
LEMMA BooksSame ==
    ASSUME \A p \in Payees : DebitKey(p) \in booked' <=> DebitKey(p) \in booked,
           \A p \in Payees : ReversalKey(p) \in booked' <=> ReversalKey(p) \in booked
    PROVE  SameDebits /\ SameRefunds
  BY DEF SameDebits, SameRefunds, DebitsIn, RefundsIn

LEMMA BooksDebit ==
    ASSUME NEW p \in Payees, booked' = booked \cup {DebitKey(p)}
    PROVE  DebitsIn(booked') = DebitsIn(booked) \cup {DebitKey(p)} /\ SameRefunds
  BY KeysDiffer DEF SameRefunds, DebitsIn, RefundsIn

LEMMA BooksRefund ==
    ASSUME NEW p \in Payees, booked' = booked \cup {ReversalKey(p)}
    PROVE  RefundsIn(booked') = RefundsIn(booked) \cup {p} /\ SameDebits
  BY KeysDiffer DEF SameDebits, DebitsIn, RefundsIn

(* A debit, of a withdrawal or of a settlement. *)
LEMMA DebitMaps ==
    ASSUME clean' \in {clean, FALSE}, NEW p \in Payees, bank' = bank,
           \/ booked' = booked
           \/ DebitKey(p) \notin booked /\ booked' = booked \cup {DebitKey(p)}
    PROVE  Promised!Next
<1>1. CASE booked' = booked
  BY <1>1, BooksSame, MapsNothing
<1>2. CASE DebitKey(p) \notin booked /\ booked' = booked \cup {DebitKey(p)}
  <2>1. DebitKey(p) \notin DebitsIn(booked)
    BY <1>2 DEF DebitsIn
  <2>2. Promised!Debit(p)
    BY <1>2, <2>1, BooksDebit, MapsDebit
  <2> QED
    BY <2>2 DEF Promised!Next
<1> QED
  BY <1>1, <1>2

(* The order to the bank: its debit stands, nothing was given back, and no *)
(* payout under the same debit was sent.                                   *)
LEMMA SendMaps ==
    ASSUME PayoutTypeOK, Safe, BankOK, RefundsLast, clean' \in {clean, FALSE}, NEW j \in Jobs, Send(j)
    PROVE  Promised!Next
<1> DEFINE p == job[j].p
<1>1. p \in Payees /\ Exists(p) /\ bank[p] = "none" /\ Sends(job[j]) /\ bank'[p] \in BankStatus
  BY SendFacts
<1>2. booked' = booked /\ \E word : bank' = [bank EXCEPT ![p] = word]
  BY DEF Send
<1>3. SameDebits /\ SameRefunds
  BY <1>2, BooksSame
<1>4. bank' = [bank EXCEPT ![p] = bank'[p]]
  BY <1>1, <1>2, BankTypes
<1>5. CASE bank'[p] = "none"
  <2>1. bank' = bank
    BY <1>1, <1>4, <1>5, BankTypes
  <2> QED
    BY <1>3, <2>1, MapsNothing
<1>6. CASE bank'[p] # "none"
  <2>1. bank'[p] \in {"pending", "paid", "failed"}
    BY <1>1, <1>6 DEF BankStatus
  <2>2. DebitKey(p) \in DebitsIn(booked)
    BY <1>1 DEF Safe, RowsDebited, DebitsIn
  <2>3. p \notin RefundsIn(booked)
    BY <1>1 DEF RefundsLast, Spent, Reversed, RefundsIn
  <2>4. ASSUME NEW q \in Payees, DebitKey(q) = DebitKey(p) PROVE bank[q] = "none"
    <3>1. RowKey(q) = RowKey(p)
      BY <1>1, <2>4, SameDebitSameRow
    <3>2. bank[q] # "none" => q = p
      BY <1>1, <3>1, Taken DEF Safe, RowsUnique
    <3> QED
      BY <1>1, <3>2
  <2>5. Promised!Transfer(p)
    BY <1>1, <1>3, <1>4, <2>1, <2>2, <2>3, <2>4, MapsTransfer
  <2> QED
    BY <1>1, <2>5 DEF Promised!Next
<1> QED
  BY <1>5, <1>6

LEMMA DecideMaps ==
    ASSUME PayoutTypeOK, clean' \in {clean, FALSE}, NEW p \in Payees, BankResolves(p)
    PROVE  Promised!Next
<1>1. PICK word \in {"paid", "failed"} : bank' = [bank EXCEPT ![p] = word]
  BY DEF BankResolves
<1>2. bank[p] = "pending" /\ booked' = booked
  BY DEF BankResolves
<1>3. Promised!Decide(p)
  BY <1>1, <1>2, BooksSame, MapsDecide
<1> QED
  BY <1>3 DEF Promised!Next

(* The reversal, after the last transfer. *)
LEMMA ReverseMaps ==
    ASSUME Safe, RefundsLast, clean => RefundsOK, clean' \in {clean, FALSE}, NEW j \in Jobs, Reverse(j)
    PROVE  Promised!Next
<1> DEFINE p == job[j].p
<1>1. job[j].step = "reverse" /\ bank' = bank
  BY DEF Reverse, At
<1>2. p \in Payees /\ Failing(job[j])
  <2>1. Failing(job[j])
    BY <1>1, Zenon DEF Failing
  <2> QED
    BY <1>1, <2>1 DEF Safe, JobsOK
<1>3. CASE booked' = booked
  BY <1>1, <1>3, BooksSame, MapsNothing
<1>4. CASE booked' # booked
  <2>1. ReversalKey(p) \notin booked /\ booked' = booked \cup {ReversalKey(p)}
    BY <1>4 DEF Reverse
  <2>2. DebitKey(p) \in DebitsIn(booked)
    BY <1>2 DEF RefundsLast, Spent, Safe, RowsDebited, DebitsIn
  <2>3. p \notin RefundsIn(booked)
    BY <2>1 DEF RefundsIn
  <2>4. clean => bank[p] \in {"none", "failed"}
    BY <1>2 DEF RefundsOK, Refused
  <2>5. Promised!GiveBack(p)
    BY <1>1, <1>2, <2>1, <2>2, <2>3, <2>4, BooksRefund, MapsGiveBack
  <2> QED
    BY <1>2, <2>5 DEF Promised!Next
<1> QED
  BY <1>3, <1>4

(* Everything else is none of it. *)
LEMMA OtherMaps ==
    ASSUME clean' \in {clean, FALSE}, bank' = bank,
           \/ booked' = booked
           \/ \E s : booked' = booked \cup {ReleaseKey(s)}
    PROVE  Promised!Next
<1>1. /\ \A p \in Payees : DebitKey(p) \in booked' <=> DebitKey(p) \in booked
      /\ \A p \in Payees : ReversalKey(p) \in booked' <=> ReversalKey(p) \in booked
  BY KeysDiffer
<1> QED
  BY <1>1, BooksSame, MapsNothing

LEMMA EngineMaps ==
    ASSUME Deals, clean' \in {clean, FALSE}, NEW j \in Jobs, SettlementStep(j)
    PROVE  Promised!Next
<1>1. CASE DebitPayable(j)
  <2>1. job[j].p \in Settlements /\ job[j].p \in Payees
    BY <1>1 DEF DebitPayable, Deals, DealOK, Payees
  <2>2. /\ bank' = bank
        /\ \/ booked' = booked
           \/ DebitKey(job[j].p) \notin booked /\ booked' = booked \cup {DebitKey(job[j].p)}
    BY <1>1 DEF DebitPayable
  <2> QED
    BY <2>1, <2>2, DebitMaps
<1>2. CASE ~DebitPayable(j)
  <2>1. bank' = bank /\ (booked' = booked \/ booked' = booked \cup {ReleaseKey(job[j].p)})
    BY <1>2 DEF SettlementStep, MoveToPayable, CreateSettlement, WriteApproval, MoveBack, WriteCancelled,
         MarkProcessing, WriteOutcome, MoveReserve, ClearReserve
  <2> QED
    BY <2>1, OtherMaps
<1> QED
  BY <1>1, <1>2

LEMMA PayoutMaps ==
    ASSUME PayoutTypeOK, Safe, BankOK, RefundsLast, clean => RefundsOK, clean' \in {clean, FALSE},
           PayoutNext
    PROVE  Promised!Next
<1>1. ASSUME NEW j \in Jobs, DebitUser(j) PROVE Promised!Next
  <2>1. job[j].p \in Payees
    BY <1>1 DEF DebitUser, Safe, JobsOK, Payees
  <2>2. /\ bank' = bank
        /\ \/ booked' = booked
           \/ DebitKey(job[j].p) \notin booked /\ booked' = booked \cup {DebitKey(job[j].p)}
    BY <1>1 DEF DebitUser
  <2> QED
    BY <2>1, <2>2, DebitMaps
<1>2. ASSUME NEW j \in Jobs, CreatePayout(j) \/ Record(j) \/ MarkPaid(j) \/ PaySettlement(j)
                             \/ MarkFailed(j) \/ FailSettlement(j) \/ Verify(j)
      PROVE  Promised!Next
  BY <1>2, OtherMaps DEF CreatePayout, Record, MarkPaid, PaySettlement, MarkFailed, FailSettlement, Verify
<1>3. ASSUME NEW j \in Jobs, PayoutStep(j) PROVE Promised!Next
  BY <1>1, <1>2, <1>3, SendMaps, ReverseMaps DEF PayoutStep, DispatchStep
<1>4. ASSUME NEW j \in Jobs, \/ \E w \in Withdrawals : Withdraw(j, w)
                             \/ \E p \in Payees : TransferEvent(j, p) \/ Reconcile(j, p)
      PROVE  Promised!Next
  BY <1>4, OtherMaps DEF Withdraw, TransferEvent, Reconcile
<1>5. CASE Crash
  BY <1>5, OtherMaps DEF Crash
<1> QED
  BY <1>3, <1>4, <1>5, DecideMaps DEF PayoutNext

LEMMA DisbursementsInit == WatchedInit => Promised!Init
<1> SUFFICES ASSUME WatchedInit PROVE Promised!Init
  OBVIOUS
<1>1. booked = {} /\ bank = [p \in Payees |-> "none"] /\ clean = TRUE
  BY DEF WatchedInit, Init, PayoutInit
<1> QED
  BY <1>1 DEF Promised!Init

LEMMA DisbursementsNext ==
    ASSUME EngineInv, BusinessInv, CashInv, RefundsLast, [WatchedNext]_<<vars, clean>>
    PROVE  [Promised!Next]_(Promised!vars)
<1>1. ASSUME WatchedNext PROVE Promised!Next
  <2>1. /\ Next /\ Deals /\ PayoutTypeOK /\ Safe /\ BankOK /\ (clean => RefundsOK)
    BY <1>1 DEF WatchedNext, EngineInv, Ledger, BusinessInv, Deals, CashInv, Answers, Honest
  <2>2. clean' \in {clean, FALSE}
    BY <1>1 DEF WatchedNext
  <2>3. ASSUME NEW j \in Jobs, NEW s \in Settlements,
               \/ Calculate(j, s) \/ Cancel(j, s) \/ Execute(j, s)
               \/ PayoutSettlement(j, s) \/ ReleaseReserve(j, s)
               \/ \E u \in Staff : Approve(j, s, u)
        PROVE  Promised!Next
    BY <2>2, <2>3, OtherMaps DEF Calculate, Cancel, Execute, PayoutSettlement, ReleaseReserve, Approve
  <2> QED
    BY <2>1, <2>2, <2>3, EngineMaps, PayoutMaps DEF Next
<1>2. CASE UNCHANGED <<vars, clean>>
  <2>1. UNCHANGED <<booked, bank, clean>>
    BY <1>2 DEF vars
  <2> QED
    BY <2>1 DEF Promised!vars, DebitKey, ReversalKey
<1> QED
  BY <1>1, <1>2

(* Withdrawals, settlements, retries, webhooks, sweeps and crashes         *)
(* together implement Disbursements: every transfer is of money debited    *)
(* before, at most one is made of a debit and it is decided once, money is *)
(* given back at most once and never before a transfer, and, as long as    *)
(* nothing was lost or killed, never for one the bank has or has paid; for *)
(* any number of payouts and overlapping executions.                       *)
THEOREM PayoutsDisburseAsPromised == WatchedSpec => DisbursesAsPromised
<1>1. WatchedInit => Promised!Init
  BY DisbursementsInit
<1>2. EngineInv /\ BusinessInv /\ CashInv /\ RefundsLast /\ [WatchedNext]_<<vars, clean>>
        => [Promised!Next]_(Promised!vars)
  BY DisbursementsNext
<1> QED
  BY <1>1, <1>2, LastHolds, PTL DEF WatchedSpec, DisbursesAsPromised, Promised!Spec
=============================================================================
