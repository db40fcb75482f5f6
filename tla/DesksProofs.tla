---------------------------- MODULE DesksProofs ----------------------------
(***************************************************************************)
(* What holds of every desk of the warehouse, with all of them open at     *)
(* once and any number of handlers.                                        *)
(*                                                                         *)
(* A handler writes only its own job, and its op says at which desk it     *)
(* stands.  So to the invariant of one desk a step of any other is a step  *)
(* of some job that is not one of its own (Elsewhere): it may make         *)
(* documents overtaken, rows lost or raced, and takes none of that back.   *)
(* PurchaseInv, ReqInv, MaterialInv, OrderInv and GoodsInv are inductive   *)
(* that way, each with what a handler's record entitles it to write        *)
(* ("...Job"), and the desks' theorems follow.                             *)
(***************************************************************************)
EXTENDS Warehouse, FiniteSums

ShelfOps == {"adjust", "transfer"}
OrderOps == {"create", "transition", "refund", "pay"}
CourierOps == {"book", "project", "callback", "follow", "push"}
ReqOps == {"review", "dispatch", "send", "land"}
PurchaseOps == {"move", "deliver", "stow"}
BatchOps == {"output", "hold", "release", "holding", "releasing", "decide"}
MaterialOps == {"run", "issue", "consume", "return", "request", "approve", "pick", "handover",
                "line", "declare", "confirm"}
GoodsOps == {"plan", "receiving", "summing"}

HistoryGrows == overtaken \subseteq overtaken' /\ lost \subseteq lost' /\ raced \subseteq raced'

(* One handler goes on, as a handler of one desk. *)
Works(j, ops) ==
    /\ \E t : t.op \in ops \cup {"idle"} /\ job' = [job EXCEPT ![j] = t]
    /\ HistoryGrows

LEMMA ShelfWorks ==
    ASSUME NEW j, StockStep(j)
    PROVE  Works(j, ShelfOps)
<1>1. ASSUME NEW r, NEW d, ReadForAdjust(j, r, d) PROVE Works(j, ShelfOps)
  BY <1>1 DEF ReadForAdjust, Works, Start, HistoryGrows, ShelfOps
<1>2. ASSUME AdjustStock(j) PROVE Works(j, ShelfOps)
  BY <1>2 DEF AdjustStock, Overwrite, Works, Finish, Idle, HistoryGrows, ShelfOps
<1>3. ASSUME NEW from, NEW to, NEW n, ReadForTransfer(j, from, to, n) PROVE Works(j, ShelfOps)
  BY <1>3 DEF ReadForTransfer, Works, Start, HistoryGrows, ShelfOps
<1>4. ASSUME CreateTransfer(j) PROVE Works(j, ShelfOps)
  BY <1>4 DEF CreateTransfer, Works, Finish, Idle, HistoryGrows, ShelfOps
<1> QED
  BY <1>1, <1>2, <1>3, <1>4 DEF StockStep

LEMMA OrdersWork ==
    ASSUME NEW j, OrderStep(j)
    PROVE  Works(j, OrderOps)
<1> USE DEF Works, Start, Finish, Idle, HistoryGrows, OrderOps, stockVars, Overtaken
<1>1. ASSUME NEW o, NEW coupon, ValidateCoupon(j, o, coupon) PROVE Works(j, OrderOps)
  BY <1>1 DEF ValidateCoupon
<1>2. ASSUME PlaceOrder(j) PROVE Works(j, OrderOps)
  BY <1>2 DEF PlaceOrder
<1>3. ASSUME NEW o, NEW to, ReadForTransition(j, o, to) PROVE Works(j, OrderOps)
  BY <1>3 DEF ReadForTransition
<1>4. ASSUME Transition(j) PROVE Works(j, OrderOps)
  BY <1>4 DEF Transition
<1>5. ASSUME NEW o, ReadForRefund(j, o) PROVE Works(j, OrderOps)
  BY <1>5 DEF ReadForRefund
<1>6. ASSUME Refund(j) PROVE Works(j, OrderOps)
  BY <1>6 DEF Refund
<1>7. ASSUME NEW o, NEW n, ReadForPayment(j, o, n) PROVE Works(j, OrderOps)
  BY <1>7 DEF ReadForPayment
<1>8. ASSUME RecordPayment(j) PROVE Works(j, OrderOps)
  BY <1>8 DEF RecordPayment
<1> QED
  BY <1>1, <1>2, <1>3, <1>4, <1>5, <1>6, <1>7, <1>8 DEF OrderStep

LEMMA CouriersWork ==
    ASSUME NEW j, CourierStep(j)
    PROVE  Works(j, CourierOps)
<1> USE DEF Works, Start, Finish, Goes, Project, Idle, HistoryGrows, CourierOps, stockVars, Overtaken
<1>1. ASSUME NEW o, ReadForBooking(j, o) PROVE Works(j, CourierOps)
  BY <1>1 DEF ReadForBooking
<1>2. ASSUME NEW x, NEW s, BookShipment(j, x, s) PROVE Works(j, CourierOps)
  BY <1>2 DEF BookShipment
<1>3. ASSUME NEW x, NEW s, SetShipmentStatus(j, x, s) PROVE Works(j, CourierOps)
  BY <1>3 DEF SetShipmentStatus
<1>4. ASSUME NEW x, NEW s, NEW e, Callback(j, x, s, e) PROVE Works(j, CourierOps)
  BY <1>4 DEF Callback
<1>5. ASSUME RecordEvent(j) PROVE Works(j, CourierOps)
  BY <1>5 DEF RecordEvent
<1>6. ASSUME FollowEvent(j) PROVE Works(j, CourierOps)
  BY <1>6 DEF FollowEvent
<1>7. ASSUME ReadForProjection(j) PROVE Works(j, CourierOps)
  BY <1>7 DEF ReadForProjection
<1>8. ASSUME PushOrder(j) PROVE Works(j, CourierOps)
  BY <1>8 DEF PushOrder
<1> QED
  BY <1>1, <1>2, <1>3, <1>4, <1>5, <1>6, <1>7, <1>8 DEF CourierStep

LEMMA RequisitionsWork ==
    ASSUME NEW j, ReqStep(j)
    PROVE  Works(j, ReqOps)
<1> USE DEF Works, Start, Finish, Goes, Idle, HistoryGrows, ReqOps, stockVars, Overtook
<1>1. ASSUME NEW r, NEW to, NEW n, ReadForReview(j, r, to, n) PROVE Works(j, ReqOps)
  BY <1>1 DEF ReadForReview
<1>2. ASSUME Review(j) PROVE Works(j, ReqOps)
  BY <1>2 DEF Review
<1>3. ASSUME NEW r, NEW n, NEW k, ReadForDispatch(j, r, n, k) PROVE Works(j, ReqOps)
  BY <1>3 DEF ReadForDispatch
<1>4. ASSUME RecheckShelf(j) PROVE Works(j, ReqOps)
  BY <1>4 DEF RecheckShelf
<1>5. ASSUME Dispatch(j) PROVE Works(j, ReqOps)
  BY <1>5 DEF Dispatch
<1>6. ASSUME NEW r, NEW n, NEW k, ReadForReceipt(j, r, n, k) PROVE Works(j, ReqOps)
  BY <1>6 DEF ReadForReceipt
<1>7. ASSUME Receive(j) PROVE Works(j, ReqOps)
  BY <1>7 DEF Receive
<1> QED
  BY <1>1, <1>2, <1>3, <1>4, <1>5, <1>6, <1>7 DEF ReqStep

LEMMA PurchasingWorks ==
    ASSUME NEW j, PurchaseStep(j)
    PROVE  Works(j, PurchaseOps)
<1> USE DEF Works, Start, Finish, Goes, Idle, HistoryGrows, PurchaseOps, stockVars, OvertookPurchase
<1>1. ASSUME NEW p, NEW to, ReadForMove(j, p, to) PROVE Works(j, PurchaseOps)
  BY <1>1 DEF ReadForMove
<1>2. ASSUME MovePurchase(j) PROVE Works(j, PurchaseOps)
  BY <1>2 DEF MovePurchase
<1>3. ASSUME NEW p, NEW n, NEW k, ReadForDelivery(j, p, n, k) PROVE Works(j, PurchaseOps)
  BY <1>3 DEF ReadForDelivery
<1>4. ASSUME CountShelf(j) PROVE Works(j, PurchaseOps)
  BY <1>4 DEF CountShelf
<1>5. ASSUME BookDelivery(j) PROVE Works(j, PurchaseOps)
  BY <1>5 DEF BookDelivery, Overwrite
<1> QED
  BY <1>1, <1>2, <1>3, <1>4, <1>5 DEF PurchaseStep

LEMMA QualityWorks ==
    ASSUME NEW j, BatchStep(j)
    PROVE  Works(j, BatchOps)
<1> USE DEF Works, Start, Finish, Goes, Idle, HistoryGrows, BatchOps, stockVars, GiveBack,
            Redecided
<1>1. ASSUME NEW b, ReadForOutput(j, b) PROVE Works(j, BatchOps)
  BY <1>1 DEF ReadForOutput
<1>2. ASSUME NEW b, NEW n, ReadForHold(j, b, n) PROVE Works(j, BatchOps)
  BY <1>2 DEF ReadForHold, LoadBatch
<1>3. ASSUME LockBatch(j) PROVE Works(j, BatchOps)
  <2>1. PICK t : /\ t = [op |-> IF job[j].op = "hold" THEN "holding" ELSE "releasing",
                         batch |-> job[j].batch, n |-> job[j].n, saw |-> level[Bay],
                         wanted |-> Atleast0(job[j].n - AlreadyHeld(job[j].batch))]
    OBVIOUS
  <2>2. job' = [job EXCEPT ![j] = t] /\ UNCHANGED <<overtaken, lost, raced>>
    BY <1>3, <2>1 DEF LockBatch
  <2>3. t.op \in BatchOps
    BY <2>1
  <2> QED
    BY <2>2, <2>3
<1>4. ASSUME NEW b, NEW n, ReadForRelease(j, b, n) PROVE Works(j, BatchOps)
  BY <1>4 DEF ReadForRelease, LoadBatch
<1>5. ASSUME NEW q, NEW to, NEW n, ReadForDecision(j, q, to, n) PROVE Works(j, BatchOps)
  BY <1>5 DEF ReadForDecision
<1>6. ASSUME RecordOutput(j) PROVE Works(j, BatchOps)
  BY <1>6 DEF RecordOutput
<1>7. ASSUME HoldBatch(j) PROVE Works(j, BatchOps)
  BY <1>7 DEF HoldBatch
<1>8. ASSUME ReleaseBatch(j) PROVE Works(j, BatchOps)
  BY <1>8 DEF ReleaseBatch
<1>9. ASSUME Rework(j) PROVE Works(j, BatchOps)
  BY <1>9 DEF Rework
<1>10. ASSUME WriteOff(j) PROVE Works(j, BatchOps)
  BY <1>10 DEF WriteOff
<1> QED
  BY <1>1, <1>2, <1>3, <1>4, <1>5, <1>6, <1>7, <1>8, <1>9, <1>10 DEF BatchStep

LEMMA MaterialsWork ==
    ASSUME NEW j, MaterialStep(j)
    PROVE  Works(j, MaterialOps)
<1> USE DEF Works, Start, Finish, Goes, Idle, HistoryGrows, MaterialOps, stockVars, OvertookRun,
            OvertookTotals, OvertookNote, ReadSlip
<1>1. ASSUME NEW p, NEW to, ReadForRun(j, p, to) PROVE Works(j, MaterialOps)
  BY <1>1 DEF ReadForRun
<1>2. ASSUME NEW p, ReadForRequest(j, p) PROVE Works(j, MaterialOps)
  BY <1>2 DEF ReadForRequest
<1>3. ASSUME NEW p, ReadForApproval(j, p) PROVE Works(j, MaterialOps)
  BY <1>3 DEF ReadForApproval
<1>4. ASSUME NEW p, NEW n, NEW k, ReadForIssue(j, p, n, k) PROVE Works(j, MaterialOps)
  BY <1>4 DEF ReadForIssue
<1>5. ASSUME NEW p, NEW n, ReadForConsume(j, p, n) PROVE Works(j, MaterialOps)
  BY <1>5 DEF ReadForConsume
<1>6. ASSUME NEW p, NEW n, ReadForReturn(j, p, n) PROVE Works(j, MaterialOps)
  BY <1>6 DEF ReadForReturn
<1>7. ASSUME NEW p, NEW n, ReadForReturnNote(j, p, n) PROVE Works(j, MaterialOps)
  BY <1>7 DEF ReadForReturnNote
<1>8. ASSUME NEW s, NEW m, ReadForPick(j, s, m) PROVE Works(j, MaterialOps)
  BY <1>8 DEF ReadForPick
<1>9. ASSUME NEW s, NEW n, NEW k, ReadForHandover(j, s, n, k) PROVE Works(j, MaterialOps)
  BY <1>9 DEF ReadForHandover
<1>10. ASSUME NEW s, NEW n, NEW k, ReadForLine(j, s, n, k) PROVE Works(j, MaterialOps)
  BY <1>10 DEF ReadForLine
<1>11. ASSUME NEW b, NEW k, ReadForConfirm(j, b, k) PROVE Works(j, MaterialOps)
  BY <1>11 DEF ReadForConfirm
<1>12. ASSUME MoveRun(j) PROVE Works(j, MaterialOps)
  BY <1>12 DEF MoveRun
<1>13. ASSUME Issue(j) PROVE Works(j, MaterialOps)
  BY <1>13 DEF Issue
<1>14. ASSUME Consume(j) PROVE Works(j, MaterialOps)
  BY <1>14 DEF Consume
<1>15. ASSUME ReturnToStore(j) PROVE Works(j, MaterialOps)
  BY <1>15 DEF ReturnToStore
<1>16. ASSUME Request(j) PROVE Works(j, MaterialOps)
  BY <1>16 DEF Request
<1>17. ASSUME Pick(j) PROVE Works(j, MaterialOps)
  BY <1>17 DEF Pick
<1>18. ASSUME HandOver(j) PROVE Works(j, MaterialOps)
  BY <1>18 DEF HandOver
<1>19. ASSUME ReceiveOnLine(j) PROVE Works(j, MaterialOps)
  BY <1>19 DEF ReceiveOnLine
<1>20. ASSUME DeclareReturn(j) PROVE Works(j, MaterialOps)
  BY <1>20 DEF DeclareReturn
<1>21. ASSUME ConfirmReturn(j) PROVE Works(j, MaterialOps)
  BY <1>21 DEF ConfirmReturn
<1> QED
  BY <1>1, <1>2, <1>3, <1>4, <1>5, <1>6, <1>7, <1>8, <1>9, <1>10, <1>11, <1>12, <1>13, <1>14,
     <1>15, <1>16, <1>17, <1>18, <1>19, <1>20, <1>21 DEF MaterialStep

LEMMA GoodsWork ==
    ASSUME NEW j, GoodsStep(j)
    PROVE  Works(j, GoodsOps)
<1> USE DEF Works, Start, Finish, Goes, Idle, HistoryGrows, GoodsOps, stockVars
<1>1. ASSUME NEW c, NEW plan, ReadForPlan(j, c, plan) PROVE Works(j, GoodsOps)
  BY <1>1 DEF ReadForPlan
<1>2. ASSUME Allocate(j) PROVE Works(j, GoodsOps)
  BY <1>2 DEF Allocate
<1>3. ASSUME NEW k, NEW n, NEW key, LockTask(j, k, n, key) PROVE Works(j, GoodsOps)
  BY <1>3 DEF LockTask
<1>4. ASSUME SumUp(j) PROVE Works(j, GoodsOps)
  BY <1>4 DEF SumUp
<1>5. ASSUME ReceiveGoods(j) PROVE Works(j, GoodsOps)
  BY <1>5 DEF ReceiveGoods
<1> QED
  BY <1>1, <1>2, <1>3, <1>4, <1>5 DEF GoodsStep

(* The job it goes on with was idle, or its own. *)
Minds(j, ops) == job[j].op \in ops \cup {"idle"}

LEMMA ShelfMinds == ASSUME NEW j, StockStep(j) PROVE Minds(j, ShelfOps)
BY DEF StockStep, ReadForAdjust, AdjustStock, ReadForTransfer, CreateTransfer, Minds, Doing, Start, Idle, ShelfOps

LEMMA RequisitionsMind == ASSUME NEW j, ReqStep(j) PROVE Minds(j, ReqOps)
<1>1. \/ job[j] = Idle
      \/ Doing(j, "review") \/ Doing(j, "dispatch") \/ Doing(j, "send") \/ Doing(j, "land")
  BY Zenon DEF ReqStep, ReadForReview, Review, ReadForDispatch, RecheckShelf, Dispatch, ReadForReceipt, Receive,
               Start
<1> QED
  BY <1>1 DEF Minds, Doing, Idle, ReqOps

LEMMA PurchasingMinds == ASSUME NEW j, PurchaseStep(j) PROVE Minds(j, PurchaseOps)
<1>1. job[j] = Idle \/ Doing(j, "move") \/ Doing(j, "deliver") \/ Doing(j, "stow")
  BY Zenon DEF PurchaseStep, ReadForMove, MovePurchase, ReadForDelivery, CountShelf, BookDelivery, Start
<1> QED
  BY <1>1 DEF Minds, Doing, Idle, PurchaseOps

LEMMA QualityMinds == ASSUME NEW j, BatchStep(j) PROVE Minds(j, BatchOps)
BY DEF BatchStep, ReadForOutput, ReadForHold, ReadForRelease, LoadBatch, LockBatch, ReadForDecision,
       RecordOutput, HoldBatch, ReleaseBatch, Rework, WriteOff, Minds, Doing, Start, Idle, BatchOps

LEMMA MaterialsMind == ASSUME NEW j, MaterialStep(j) PROVE Minds(j, MaterialOps)
<1>1. CASE \/ MoveRun(j) \/ Issue(j) \/ Consume(j) \/ ReturnToStore(j) \/ Request(j) \/ Pick(j)
           \/ HandOver(j) \/ ReceiveOnLine(j) \/ DeclareReturn(j) \/ ConfirmReturn(j)
  <2>1. \/ job[j].op \in {"request", "approve"}
        \/ Doing(j, "run") \/ Doing(j, "issue") \/ Doing(j, "consume") \/ Doing(j, "return")
        \/ Doing(j, "pick") \/ Doing(j, "handover") \/ Doing(j, "line") \/ Doing(j, "declare")
        \/ Doing(j, "confirm")
    BY <1>1, Zenon DEF MoveRun, Issue, Consume, ReturnToStore, Request, Pick, HandOver, ReceiveOnLine,
                       DeclareReturn, ConfirmReturn
  <2> QED
    BY <2>1 DEF Minds, Doing, MaterialOps
<1>2. CASE ~ (\/ MoveRun(j) \/ Issue(j) \/ Consume(j) \/ ReturnToStore(j) \/ Request(j) \/ Pick(j)
              \/ HandOver(j) \/ ReceiveOnLine(j) \/ DeclareReturn(j) \/ ConfirmReturn(j))
  <2>1. ASSUME NEW s, NEW n, NEW k, NEW m,
               ReadForPick(j, s, m) \/ ReadForHandover(j, s, n, k) \/ ReadForLine(j, s, n, k)
        PROVE  job[j] = Idle
    BY <2>1, Zenon DEF ReadForPick, ReadForHandover, ReadForLine, ReadSlip, Start
  <2>2. ASSUME NEW p, NEW to, NEW n, NEW k,
               \/ ReadForRun(j, p, to) \/ ReadForRequest(j, p) \/ ReadForApproval(j, p)
               \/ ReadForIssue(j, p, n, k) \/ ReadForConsume(j, p, n) \/ ReadForReturn(j, p, n)
               \/ ReadForReturnNote(j, p, n) \/ ReadForConfirm(j, p, k)
        PROVE  job[j] = Idle
    BY <2>2, Zenon DEF ReadForRun, ReadForRequest, ReadForApproval, ReadForIssue, ReadForConsume,
                       ReadForReturn, ReadForReturnNote, ReadForConfirm, Start
  <2>3. job[j] = Idle
    BY <1>2, <2>1, <2>2, Zenon DEF MaterialStep
  <2> QED
    BY <2>3 DEF Minds, Idle
<1> QED
  BY <1>1, <1>2

LEMMA GoodsMind == ASSUME NEW j, GoodsStep(j) PROVE Minds(j, GoodsOps)
BY DEF GoodsStep, ReadForPlan, Allocate, LockTask, SumUp, ReceiveGoods, Minds, Doing, Start, Idle, GoodsOps

(* A step of other desks, for a desk whose handlers do ops. *)
Elsewhere(ops) ==
    /\ \E j \in Jobs : \E t : t.op \notin ops /\ job' = [job EXCEPT ![j] = t]
    /\ HistoryGrows

LEMMA WorksElsewhere ==
    ASSUME NEW j \in Jobs, NEW theirs, NEW ops, Works(j, theirs), theirs \cap ops = {}, "idle" \notin ops
    PROVE  Elsewhere(ops)
BY DEF Works, Elsewhere

LEMMA DeathElsewhere ==
    ASSUME NEW j \in Jobs, HandlerDies(j), NEW ops, "idle" \notin ops
    PROVE  Elsewhere(ops)
BY DEF HandlerDies, Abandon, Finish, Elsewhere, HistoryGrows, stockVars, Idle

JobsOK == job = [j \in Jobs |-> job[j]]

LEMMA JobsStay ==
    ASSUME JobsOK, [WarehouseNext]_warehouseVars
    PROVE  JobsOK'
<1>1. ASSUME NEW j \in Jobs, NEW ops, Works(j, ops) PROVE JobsOK'
  BY <1>1 DEF JobsOK, Works
<1>2. ASSUME WarehouseNext PROVE JobsOK'
  <2>1. PICK j \in Jobs : \/ HandlerDies(j)
                          \/ AtShelf(j) \/ AtOrders(j) \/ AtCouriers(j) \/ AtRequisitions(j)
                          \/ AtPurchasing(j) \/ AtQuality(j) \/ AtMaterials(j) \/ AtGoods(j)
    BY <1>2 DEF WarehouseNext
  <2>2. HandlerDies(j) => JobsOK'
    BY DEF HandlerDies, Abandon, Finish, JobsOK
  <2>3. HandlerDies(j) \/ \E ops : Works(j, ops)
    BY <2>1, ShelfWorks, OrdersWork, CouriersWork, RequisitionsWork, PurchasingWorks,
       QualityWorks, MaterialsWork, GoodsWork
       DEF AtShelf, AtOrders, AtCouriers, AtRequisitions, AtPurchasing, AtQuality, AtMaterials, AtGoods
  <2> QED
    BY <1>1, <2>2, <2>3
<1>3. ASSUME UNCHANGED warehouseVars PROVE JobsOK'
  BY <1>3 DEF JobsOK, warehouseVars
<1> QED
  BY <1>2, <1>3

LEMMA ImageFinite ==
    ASSUME NEW S, IsFiniteSet(S), NEW T, NEW h, h = [x \in S |-> h[x]],
           \A x \in S : h[x] \in T, \A y \in T : \E x \in S : h[x] = y
    PROVE  IsFiniteSet(T)
<1>1. h \in Surjection(S, T)
  BY DEF Surjection
<1> QED
  BY <1>1, FS_Surjection

LEMMA SumOneMore ==
    ASSUME NEW S, IsFiniteSet(S), NEW x, x \notin S, NEW f, NEW g,
           \A s \in S : g[s] = f[s] /\ f[s] \in Int, g[x] \in Int
    PROVE  SumFunctionOnSet(g, S \cup {x}) = SumFunctionOnSet(f, S) + g[x]
<1>1. SumFunctionOnSet(f, S) = SumFunctionOnSet(g, S)
  BY SumAgree
<1>2. \A y \in S \cup {x} : g[y] \in Int
  OBVIOUS
<1> QED
  BY <1>1, <1>2, SumAdd

----------------------------------------------------------------------------
(* Purchasing *)
PurchaseOrders == [status : PurchaseStatuses, received : Nat]
Pallets == [id : Nat, po : Purchases, key : DeliveryKeys, qty : Nat]

PurchaseTypeOK ==
    /\ po \in [Purchases -> PurchaseOrders]
    /\ deliveries \subseteq Pallets /\ IsFiniteSet(deliveries)
    /\ \A d \in deliveries : d.id < Cardinality(deliveries)

(* What a handler read entitles it to what it is about to write. *)
PurchaseJob(t) ==
    /\ t.op \in PurchaseOps => t.po \in Purchases /\ t.saw \in PurchaseOrders
    /\ t.op = "move" => /\ t.to \in {"ORDERED", "CANCELLED"}
                        /\ t.to = "CANCELLED" => t.saw.received = 0
    /\ t.op \in {"deliver", "stow"} =>
           /\ t.n \in Nat /\ t.key \in DeliveryKeys
           /\ OverReceive \/ t.n <= Ordered - t.saw.received

PurchaseInv ==
    /\ PurchaseTypeOK /\ JobsOK /\ PalletsBookedOnce
    /\ \A j \in Jobs : PurchaseJob(job[j])

LEMMA PurchaseTyped ==
    ASSUME PurchaseInv
    PROVE  /\ po \in [Purchases -> PurchaseOrders] /\ deliveries \subseteq Pallets
           /\ IsFiniteSet(deliveries) /\ Cardinality(deliveries) \in Nat
           /\ \A d \in deliveries : d.id < Cardinality(deliveries)
           /\ \A j \in Jobs : PurchaseJob(job[j])
BY FS_CardinalityType DEF PurchaseInv, PurchaseTypeOK

LEMMA PurchaseElsewhere ==
    ASSUME PurchaseInv, JobsOK', UNCHANGED purchaseVars, Elsewhere(PurchaseOps)
    PROVE  PurchaseInv'
<1>1. PurchaseTypeOK'
  BY DEF PurchaseInv, PurchaseTypeOK, purchaseVars
<1>2. PalletsBookedOnce'
  BY DEF PurchaseInv, PalletsBookedOnce, purchaseVars, Elsewhere, HistoryGrows, DeliveredFor
<1>3. PICK j \in Jobs : \E t : t.op \notin PurchaseOps /\ job' = [job EXCEPT ![j] = t]
  BY DEF Elsewhere
<1>6. PICK t : t.op \notin PurchaseOps /\ job' = [job EXCEPT ![j] = t]
  BY <1>3
<1>4. PurchaseJob(t)
  BY <1>6 DEF PurchaseJob, PurchaseOps
<1>5. \A i \in Jobs : PurchaseJob(job'[i])
  BY <1>4, <1>6 DEF PurchaseInv, JobsOK
<1> QED
  BY <1>1, <1>2, <1>5 DEF PurchaseInv

LEMMA DeliveryAdds ==
    ASSUME deliveries \subseteq Pallets, IsFiniteSet(deliveries),
           NEW d \in Pallets, d \notin deliveries, deliveries' = deliveries \cup {d}
    PROVE  /\ DeliveredFor(d.po)' = DeliveredFor(d.po) + d.qty
           /\ \A p \in Purchases : p # d.po => DeliveredFor(p)' = DeliveredFor(p)
<1>1. ASSUME NEW p \in Purchases, p # d.po PROVE DeliveredFor(p)' = DeliveredFor(p)
  <2>1. {x \in deliveries : x.po = p}' = {x \in deliveries : x.po = p}
    BY <1>1
  <2> QED
    BY <2>1 DEF DeliveredFor
<1>2. DeliveredFor(d.po)' = DeliveredFor(d.po) + d.qty
  <2>1. PICK p : p = d.po
    OBVIOUS
  <2>2. PICK S : S = {x \in deliveries : x.po = p}
    OBVIOUS
  <2>3. S \subseteq deliveries /\ d \notin S
    BY <2>2
  <2>4. {x \in deliveries : x.po = p}' = S \cup {d} /\ IsFiniteSet(S)
    BY <2>1, <2>2, <2>3, FS_Subset
  <2>5. PICK f, g : f = [x \in S |-> x.qty] /\ g = [x \in S \cup {d} |-> x.qty]
    OBVIOUS
  <2>6. \A x \in S \cup {d} : x.qty \in Int
    BY <2>3 DEF Pallets
  <2>7. /\ DOMAIN f = S /\ DOMAIN g = S \cup {d} /\ g[d] = d.qty /\ g[d] \in Int
        /\ \A s \in S : g[s] = f[s] /\ f[s] \in Int
    BY <2>5, <2>6
  <2>8. SumFunctionOnSet(g, S \cup {d}) = SumFunctionOnSet(f, S) + g[d]
    BY <2>3, <2>4, <2>7, SumOneMore
  <2>9. DeliveredFor(p) = SumFunctionOnSet(f, S)
    BY <2>2, <2>5, <2>7 DEF DeliveredFor, SumFunction
  <2>10. DeliveredFor(p)' = SumFunctionOnSet(g, S \cup {d})
    BY <2>4, <2>5, <2>7 DEF DeliveredFor, SumFunction
  <2> QED
    BY <2>1, <2>7, <2>8, <2>9, <2>10
<1> QED
  BY <1>1, <1>2

LEMMA PurchaseJobs ==
    ASSUME PurchaseInv, NEW j \in Jobs, NEW t, job' = [job EXCEPT ![j] = t], PurchaseJob(t)
    PROVE  \A i \in Jobs : PurchaseJob(job'[i])
BY DEF PurchaseInv, JobsOK

LEMMA IdlePurchase == PurchaseJob(Idle)
BY DEF PurchaseJob, PurchaseOps, Idle

(* Handlers that only read. *)
LEMMA PurchaseReads ==
    ASSUME PurchaseInv, JobsOK', NEW j \in Jobs, NEW t, job' = [job EXCEPT ![j] = t], PurchaseJob(t),
           UNCHANGED <<po, deliveries, overtaken>>
    PROVE  PurchaseInv'
<1>1. PurchaseTypeOK'
  BY DEF PurchaseInv, PurchaseTypeOK
<1>2. PalletsBookedOnce'
  BY DEF PurchaseInv, PalletsBookedOnce, DeliveredFor
<1>3. \A i \in Jobs : PurchaseJob(job'[i])
  BY PurchaseJobs
<1> QED
  BY <1>1, <1>2, <1>3 DEF PurchaseInv

LEMMA MovePurchaseHolds ==
    ASSUME PurchaseInv, JobsOK', NEW j \in Jobs, MovePurchase(j)
    PROVE  PurchaseInv'
<1>1. PICK t : t = job[j]
  OBVIOUS
<1>2. /\ t.op = "move" /\ po' = [po EXCEPT ![t.po].status = t.to]
      /\ overtaken' = overtaken \cup (IF po[t.po] = t.saw THEN {} ELSE {t.po})
      /\ job' = [job EXCEPT ![j] = Idle] /\ UNCHANGED deliveries
  BY <1>1 DEF MovePurchase, Doing, OvertookPurchase, Finish
<1>3. PurchaseJob(t) /\ po \in [Purchases -> PurchaseOrders]
  BY <1>1, PurchaseTyped
<1>4. /\ t.po \in Purchases /\ t.to \in {"ORDERED", "CANCELLED"}
      /\ t.to = "CANCELLED" => t.saw.received = 0
  BY <1>2, <1>3 DEF PurchaseJob, PurchaseOps
<1>5. PICK e : e = [po[t.po] EXCEPT !.status = t.to]
  OBVIOUS
<1>6. po' = [po EXCEPT ![t.po] = e]
  BY <1>2, <1>3, <1>4, <1>5
<1>7. "ORDERED" \in PurchaseStatuses /\ "CANCELLED" \in PurchaseStatuses
  <2>1. <<"ORDERED", "CANCELLED">> \in PurchaseMoves
    BY DEF PurchaseMoves
  <2>2. <<"ORDERED", "CANCELLED">>[1] = "ORDERED"
    OBVIOUS
  <2> QED
    BY <2>1, <2>2 DEF PurchaseStatuses
<1>8. e \in PurchaseOrders /\ e.received = po[t.po].received /\ e.status = t.to
  BY <1>3, <1>4, <1>5, <1>7 DEF PurchaseOrders
<1>9. PurchaseTypeOK'
  BY <1>2, <1>3, <1>4, <1>6, <1>8 DEF PurchaseInv, PurchaseTypeOK
<1>10. ASSUME NEW p \in Purchases \ overtaken'
       PROVE  /\ po'[p].received = DeliveredFor(p)'
              /\ OverReceive \/ DeliveredFor(p)' <= Ordered
              /\ po'[p].status = "CANCELLED" => DeliveredFor(p)' = 0
  <2>1. p \notin overtaken /\ DeliveredFor(p)' = DeliveredFor(p)
    BY <1>2 DEF DeliveredFor
  <2>2. /\ po[p].received = DeliveredFor(p) /\ (OverReceive \/ DeliveredFor(p) <= Ordered)
        /\ po[p].status = "CANCELLED" => DeliveredFor(p) = 0
    BY <2>1 DEF PurchaseInv, PalletsBookedOnce
  <2>3. CASE p # t.po
    BY <1>3, <1>6, <2>1, <2>2, <2>3
  <2>4. CASE p = t.po
    <3>1. po'[p] = e
      BY <1>3, <1>4, <1>6, <2>4
    <3>2. po[p] = t.saw
      BY <1>2, <2>4
    <3> QED
      BY <1>4, <1>8, <2>1, <2>2, <2>4, <3>1, <3>2
  <2> QED
    BY <2>3, <2>4
<1>11. PalletsBookedOnce'
  BY <1>10 DEF PalletsBookedOnce
<1>12. \A i \in Jobs : PurchaseJob(job'[i])
  BY <1>2, IdlePurchase, PurchaseJobs
<1> QED
  BY <1>9, <1>11, <1>12 DEF PurchaseInv

LEMMA BookDeliveryHolds ==
    ASSUME PurchaseInv, JobsOK', NEW j \in Jobs, BookDelivery(j)
    PROVE  PurchaseInv'
<1>1. PICK t : t = job[j]
  OBVIOUS
<1>2. PICK n : n = t.saw.received + t.n
  OBVIOUS
<1>3. PICK d : d = [id |-> Cardinality(deliveries), po |-> t.po, key |-> t.key, qty |-> t.n]
  OBVIOUS
<1>4. PICK e : e = [status |-> ReceivedStatus(n), received |-> n]
  OBVIOUS
<1>5. /\ t.op = "stow" /\ DeliveryKeyIsFree(t.key)
      /\ deliveries' = deliveries \cup {d}
      /\ po' = [po EXCEPT ![t.po] = e]
      /\ overtaken' = overtaken \cup (IF po[t.po] = t.saw \/ DeliveryBooked(t.key) THEN {} ELSE {t.po})
      /\ job' = [job EXCEPT ![j] = Idle]
  BY <1>1, <1>2, <1>3, <1>4 DEF BookDelivery, Doing, OvertookPurchase, Finish
<1>6. PurchaseJob(t) /\ po \in [Purchases -> PurchaseOrders] /\ deliveries \subseteq Pallets
      /\ IsFiniteSet(deliveries) /\ Cardinality(deliveries) \in Nat
      /\ \A x \in deliveries : x.id < Cardinality(deliveries)
  BY <1>1, PurchaseTyped
<1>7. /\ t.po \in Purchases /\ t.saw \in PurchaseOrders /\ t.n \in Nat /\ t.key \in DeliveryKeys
      /\ OverReceive \/ t.n <= Ordered - t.saw.received
  BY <1>5, <1>6 DEF PurchaseJob, PurchaseOps
<1>8. t.saw.received \in Nat /\ n \in Nat /\ Ordered \in Nat
  BY <1>2, <1>7, PurchaseAssumption DEF PurchaseOrders
<1>9. ReceivedStatus(n) \in {"OVER_RECEIVED", "RECEIVED", "PARTIALLY_RECEIVED"}
  BY <1>8 DEF ReceivedStatus
<1>10. ReceivedStatus(n) \in PurchaseStatuses /\ ReceivedStatus(n) # "CANCELLED"
  <2>1. <<"PARTIALLY_RECEIVED", "CANCELLED">> \in PurchaseMoves
    BY DEF PurchaseMoves
  <2>2. <<"PARTIALLY_RECEIVED", "CANCELLED">>[1] = "PARTIALLY_RECEIVED"
    OBVIOUS
  <2>3. "PARTIALLY_RECEIVED" \in PurchaseStatuses
    BY <2>1, <2>2 DEF PurchaseStatuses
  <2> QED
    BY <1>9, <2>3 DEF PurchaseStatuses
<1>11. e \in PurchaseOrders
  BY <1>4, <1>8, <1>10 DEF PurchaseOrders
<1>12. d \in Pallets /\ d.po = t.po /\ d.qty = t.n /\ d.id = Cardinality(deliveries)
  BY <1>3, <1>6, <1>7 DEF Pallets
<1>13. d \notin deliveries
  BY <1>6, <1>12
<1>14. /\ IsFiniteSet(deliveries') /\ Cardinality(deliveries') = Cardinality(deliveries) + 1
  <2>1. IsFiniteSet(deliveries \cup {d}) /\ Cardinality(deliveries \cup {d}) = Cardinality(deliveries) + 1
    BY <1>6, <1>13, FS_AddElement
  <2> QED
    BY <1>5, <2>1
<1>15. PurchaseTypeOK'
  <2>1. deliveries' \subseteq Pallets /\ po' \in [Purchases -> PurchaseOrders]
    BY <1>5, <1>6, <1>7, <1>11, <1>12
  <2>2. ASSUME NEW x \in deliveries' PROVE x.id < Cardinality(deliveries')
    <3>1. PICK c \in Nat : c = Cardinality(deliveries)
      BY <1>6
    <3>2. x.id \in Nat /\ x.id <= c
      <4>1. CASE x = d
        BY <1>12, <3>1, <4>1
      <4>2. CASE x \in deliveries
        <5>1. x.id \in Nat /\ x.id < c
          BY <1>6, <3>1, <4>2 DEF Pallets
        <5> QED
          BY <5>1
      <4> QED
        BY <1>5, <4>1, <4>2
    <3>3. Cardinality(deliveries') = c + 1
      BY <1>14, <3>1
    <3> QED
      BY <3>2, <3>3
  <2> QED
    BY <1>14, <2>1, <2>2 DEF PurchaseTypeOK
<1>16. /\ DeliveredFor(t.po)' = DeliveredFor(t.po) + t.n
       /\ \A p \in Purchases : p # t.po => DeliveredFor(p)' = DeliveredFor(p)
  BY <1>5, <1>6, <1>12, <1>13, DeliveryAdds
<1>17. ASSUME NEW p \in Purchases \ overtaken'
       PROVE  /\ po'[p].received = DeliveredFor(p)'
              /\ OverReceive \/ DeliveredFor(p)' <= Ordered
              /\ po'[p].status = "CANCELLED" => DeliveredFor(p)' = 0
  <2>1. p \notin overtaken
    BY <1>5
  <2>2. /\ po[p].received = DeliveredFor(p) /\ (OverReceive \/ DeliveredFor(p) <= Ordered)
        /\ po[p].status = "CANCELLED" => DeliveredFor(p) = 0
    BY <2>1 DEF PurchaseInv, PalletsBookedOnce
  <2>3. CASE p # t.po
    BY <1>5, <1>6, <1>16, <2>2, <2>3
  <2>4. CASE p = t.po
    <3>1. po'[p].received = n /\ po'[p].status # "CANCELLED"
      BY <1>4, <1>5, <1>6, <1>7, <1>10, <2>4
    <3>2. po[p] = t.saw
      BY <1>5, <2>4 DEF DeliveryKeyIsFree
    <3>3. DeliveredFor(p)' = n
      BY <1>2, <1>16, <2>2, <2>4, <3>2
    <3>4. OverReceive \/ n <= Ordered
      <4>1. PICK s \in Nat, m \in Nat : s = t.saw.received /\ m = t.n
        BY <1>7, <1>8
      <4>2. OverReceive \/ m <= Ordered - s
        BY <1>7, <4>1
      <4>3. n = s + m
        BY <1>2, <4>1
      <4> QED
        BY <1>8, <4>2, <4>3
    <3> QED
      BY <3>1, <3>3, <3>4
  <2> QED
    BY <2>3, <2>4
<1>18. PalletsBookedOnce'
  BY <1>17 DEF PalletsBookedOnce
<1>19. \A i \in Jobs : PurchaseJob(job'[i])
  BY <1>5, IdlePurchase, PurchaseJobs
<1> QED
  BY <1>15, <1>18, <1>19 DEF PurchaseInv

LEMMA PurchasingHolds ==
    ASSUME PurchaseInv, JobsOK', NEW j \in Jobs, PurchaseStep(j)
    PROVE  PurchaseInv'
<1>1. ASSUME NEW p \in Purchases, NEW to \in {"ORDERED", "CANCELLED"}, ReadForMove(j, p, to)
      PROVE  PurchaseInv'
  <2>1. PICK t : t = [op |-> "move", po |-> p, to |-> to, saw |-> po[p]]
    OBVIOUS
  <2>2. /\ job' = [job EXCEPT ![j] = t] /\ UNCHANGED <<po, deliveries, overtaken>>
        /\ to = "CANCELLED" => po[p].received = 0
    BY <1>1, <2>1 DEF ReadForMove, Start, stockVars, purchaseVars
  <2>3. PurchaseJob(t)
    BY <2>1, <2>2, PurchaseTyped DEF PurchaseJob, PurchaseOps
  <2> QED
    BY <2>2, <2>3, PurchaseReads
<1>2. ASSUME NEW p \in Purchases, NEW n \in 1 .. Ordered, NEW k \in DeliveryKeys, ReadForDelivery(j, p, n, k)
      PROVE  PurchaseInv'
  <2>1. PICK t : t = [op |-> "deliver", po |-> p, n |-> n, key |-> k, saw |-> po[p]]
    OBVIOUS
  <2>2. /\ job' = [job EXCEPT ![j] = t] /\ UNCHANGED <<po, deliveries, overtaken>>
        /\ n <= Ordered - po[p].received \/ OverReceive
    BY <1>2, <2>1 DEF ReadForDelivery, Start, stockVars, purchaseVars
  <2>3. n \in Nat
    BY PurchaseAssumption
  <2>4. PurchaseJob(t)
    BY <2>1, <2>2, <2>3, PurchaseTyped DEF PurchaseJob, PurchaseOps
  <2> QED
    BY <2>2, <2>4, PurchaseReads
<1>3. ASSUME CountShelf(j) PROVE PurchaseInv'
  <2>1. PICK u : u = job[j]
    OBVIOUS
  <2>2. PICK t : t = [op |-> "stow", po |-> u.po, n |-> u.n, key |-> u.key, saw |-> u.saw, shelf |-> level[Dock]]
    OBVIOUS
  <2>3. /\ u.op = "deliver" /\ job' = [job EXCEPT ![j] = t] /\ UNCHANGED <<po, deliveries, overtaken>>
    BY <1>3, <2>1, <2>2 DEF CountShelf, Doing, Goes, stockVars, purchaseVars
  <2>4. PurchaseJob(u)
    BY <2>1, PurchaseTyped
  <2>5. PurchaseJob(t)
    BY <2>2, <2>3, <2>4 DEF PurchaseJob, PurchaseOps
  <2> QED
    BY <2>3, <2>5, PurchaseReads
<1> QED
  BY <1>1, <1>2, <1>3, MovePurchaseHolds, BookDeliveryHolds DEF PurchaseStep

LEMMA PurchaseStays == PurchaseInv /\ [WarehouseNext]_warehouseVars => PurchaseInv'
<1> SUFFICES ASSUME PurchaseInv, [WarehouseNext]_warehouseVars PROVE PurchaseInv'
  OBVIOUS
<1>1. JobsOK'
  BY JobsStay DEF PurchaseInv
<1>2. CASE UNCHANGED warehouseVars
  BY <1>2 DEF warehouseVars, PurchaseInv, PurchaseTypeOK, JobsOK, PalletsBookedOnce, DeliveredFor
<1>3. CASE WarehouseNext
  <2>1. PICK j \in Jobs : \/ HandlerDies(j)
                          \/ AtShelf(j) \/ AtOrders(j) \/ AtCouriers(j) \/ AtRequisitions(j)
                          \/ AtPurchasing(j) \/ AtQuality(j) \/ AtMaterials(j) \/ AtGoods(j)
    BY <1>3 DEF WarehouseNext
  <2>2. CASE AtPurchasing(j)
    BY <1>1, <2>2, PurchasingHolds DEF AtPurchasing
  <2>3. CASE ~ AtPurchasing(j)
    <3>1. UNCHANGED purchaseVars
      BY <2>1, <2>3 DEF HandlerDies, AtShelf, AtOrders, AtCouriers, AtRequisitions, AtQuality,
                        AtMaterials, AtGoods, StoresRest
    <3>2. \/ HandlerDies(j)
          \/ \E ops : Works(j, ops) /\ ops \in {ShelfOps, OrderOps, CourierOps, ReqOps, BatchOps, MaterialOps, GoodsOps}
      BY <2>1, <2>3, ShelfWorks, OrdersWork, CouriersWork, RequisitionsWork, QualityWorks,
         MaterialsWork, GoodsWork
         DEF AtShelf, AtOrders, AtCouriers, AtRequisitions, AtQuality, AtMaterials, AtGoods
    <3>3. "idle" \notin PurchaseOps /\ \A ops \in {ShelfOps, OrderOps, CourierOps, ReqOps, BatchOps, MaterialOps, GoodsOps} : ops \cap PurchaseOps = {}
      BY DEF ShelfOps, OrderOps, CourierOps, ReqOps, BatchOps, MaterialOps, GoodsOps, PurchaseOps
    <3>5. Elsewhere(PurchaseOps)
      BY <3>2, <3>3, WorksElsewhere, DeathElsewhere
    <3> QED
      BY <1>1, <3>1, <3>5, PurchaseElsewhere
  <2> QED
    BY <2>2, <2>3
<1> QED
  BY <1>2, <1>3

LEMMA PurchaseStarts == WarehouseInit => PurchaseInv
<1> SUFFICES ASSUME WarehouseInit PROVE PurchaseInv
  OBVIOUS
<1>1. /\ po = [p \in Purchases |-> [status |-> "DRAFT", received |-> 0]] /\ deliveries = {}
      /\ job = [j \in Jobs |-> Idle]
  BY DEF WarehouseInit, PurchaseInit, StockInit
<1>2. "DRAFT" \in PurchaseStatuses
  <2>1. <<"DRAFT", "ORDERED">> \in PurchaseMoves
    BY DEF PurchaseMoves
  <2>2. <<"DRAFT", "ORDERED">>[1] = "DRAFT"
    OBVIOUS
  <2> QED
    BY <2>1, <2>2 DEF PurchaseStatuses
<1>3. PurchaseTypeOK
  BY <1>1, <1>2, FS_EmptySet DEF PurchaseTypeOK, PurchaseOrders
<1>4. ASSUME NEW p \in Purchases PROVE DeliveredFor(p) = 0
  <2>1. {d \in deliveries : d.po = p} = {}
    BY <1>1
  <2>2. DeliveredFor(p) = SumFunctionOnSet([d \in {} |-> d.qty], {})
    BY <2>1 DEF DeliveredFor, SumFunction
  <2> QED
    BY <2>2, SumEmpty
<1>5. PalletsBookedOnce
  BY <1>1, <1>4, PurchaseAssumption DEF PalletsBookedOnce
<1>6. JobsOK /\ \A j \in Jobs : PurchaseJob(job[j])
  BY <1>1, IdlePurchase DEF JobsOK
<1> QED
  BY <1>3, <1>5, <1>6 DEF PurchaseInv

(* Whatever the other desks do and however deliveries are retried, a       *)
(* purchase order counts each pallet once and takes no more than was       *)
(* ordered, unless two different requests overlapped on it (receive and    *)
(* updateStatus of the procurement service).                               *)
THEOREM PalletsAreBookedOnce == WarehouseSpec => []PalletsBookedOnce
<1>1. PurchaseInv => PalletsBookedOnce
  BY DEF PurchaseInv
<1> QED
  BY <1>1, PurchaseStarts, PurchaseStays, PTL DEF WarehouseSpec

----------------------------------------------------------------------------
(* Requisitions *)
Lines == [status : ReqStatuses, approved : Nat, dispatched : Nat, received : Nat]
Loads == [id : Nat, req : Reqs, key : LoadKeys, qty : Nat \ {0}, status : {"IN_TRANSIT", "RECEIVED"}]

(* Each load was numbered by the number of loads before it. *)
Numbered(S) ==
    /\ IsFiniteSet(S)
    /\ \A l \in S : l.id < Cardinality(S)
    /\ \A l, m \in S : l.id = m.id => l = m

ReqTypeOK ==
    /\ req \in [Reqs -> Lines] /\ landed \in [Reqs -> Nat]
    /\ loads \subseteq Loads /\ Numbered(loads)

(* What a handler read entitles it to what it is about to write. *)
ReqJob(t) ==
    /\ t.op \in ReqOps => t.req \in Reqs /\ t.saw \in Lines
    /\ t.op = "review" => /\ t.to \in {"SUBMITTED", "APPROVED", "REJECTED", "CANCELLED"} /\ t.n \in Nat
                          /\ MayReview(t.saw, t.to)
    /\ t.op \in {"dispatch", "send"} =>
           /\ t.n \in Nat \ {0} /\ t.key \in LoadKeys
           /\ t.saw.status \notin Closed \cup {"DRAFT", "SUBMITTED"}
           /\ t.n <= t.saw.approved - t.saw.dispatched
    /\ t.op = "land" =>
           /\ t.n \in Nat \ {0}
           /\ t.saw.status \notin Closed \cup {"DRAFT", "SUBMITTED"}
           /\ t.n <= t.saw.dispatched - t.saw.received

(* A requisition nobody overtook. *)
AllHere(r) == \A l \in loads : l.req = r => l.status = "RECEIVED"
LineOK(r) ==
    /\ req[r].dispatched = SentFor(r) /\ req[r].received = landed[r]
    /\ landed[r] <= SentFor(r) /\ SentFor(r) <= req[r].approved
    /\ req[r].status \in {"DRAFT", "SUBMITTED"} => req[r].dispatched = 0
    /\ req[r].received = req[r].dispatched => AllHere(r)
    /\ req[r].status \in Closed => req[r].received = req[r].dispatched

ReqInv ==
    /\ ReqTypeOK /\ JobsOK
    /\ \A r \in Reqs \ overtaken : LineOK(r)
    /\ \A j \in Jobs : ReqJob(job[j])

LEMMA ReqElsewhere ==
    ASSUME ReqInv, JobsOK', UNCHANGED reqVars, Elsewhere(ReqOps)
    PROVE  ReqInv'
<1>1. ReqTypeOK'
  BY DEF ReqInv, ReqTypeOK, reqVars
<1>2. \A r \in Reqs : SentFor(r)' = SentFor(r) /\ AllHere(r)' = AllHere(r)
  BY DEF SentFor, AllHere, reqVars
<1>3. \A r \in Reqs \ overtaken' : LineOK(r)'
  BY <1>2 DEF ReqInv, LineOK, reqVars, Elsewhere, HistoryGrows
<1>4. PICK j \in Jobs : \E t : t.op \notin ReqOps /\ job' = [job EXCEPT ![j] = t]
  BY DEF Elsewhere
<1>5. PICK t : t.op \notin ReqOps /\ job' = [job EXCEPT ![j] = t]
  BY <1>4
<1>6. ReqJob(t)
  BY <1>5 DEF ReqJob, ReqOps
<1>7. \A i \in Jobs : ReqJob(job'[i])
  BY <1>5, <1>6 DEF ReqInv, JobsOK
<1> QED
  BY <1>1, <1>3, <1>7 DEF ReqInv

LEMMA ReqJobs ==
    ASSUME ReqInv, NEW j \in Jobs, NEW t, job' = [job EXCEPT ![j] = t], ReqJob(t)
    PROVE  \A i \in Jobs : ReqJob(job'[i])
BY DEF ReqInv, JobsOK

LEMMA IdleReq == ReqJob(Idle)
BY DEF ReqJob, ReqOps, Idle

LEMMA ReqReads ==
    ASSUME ReqInv, JobsOK', NEW j \in Jobs, NEW t, job' = [job EXCEPT ![j] = t], ReqJob(t),
           UNCHANGED <<reqVars, overtaken>>
    PROVE  ReqInv'
<1>1. ReqTypeOK'
  BY DEF ReqInv, ReqTypeOK, reqVars
<1>2. \A r \in Reqs : SentFor(r)' = SentFor(r) /\ AllHere(r)' = AllHere(r)
  BY DEF SentFor, AllHere, reqVars
<1>3. \A r \in Reqs \ overtaken' : LineOK(r)'
  BY <1>2 DEF ReqInv, LineOK, reqVars
<1>4. \A i \in Jobs : ReqJob(job'[i])
  BY ReqJobs
<1> QED
  BY <1>1, <1>3, <1>4 DEF ReqInv

(* Every status a requisition may be given. *)
LEMMA ReqStatusKnown ==
    ASSUME NEW q \in Lines, NEW other \in ReqStatuses
    PROVE  /\ Progress(q, other) \in ReqStatuses
           /\ Progress(q, other) = other \/ Progress(q, other) \notin {"DRAFT", "SUBMITTED", "REJECTED", "CANCELLED"}
           /\ Progress(q, other) = "COMPLETED" => other = "COMPLETED" \/ q.received >= q.dispatched
<1>1. q.received \in Nat /\ q.dispatched \in Nat /\ q.approved \in Nat
  BY DEF Lines
<1> QED
  BY <1>1 DEF Progress, ReqStatuses

LEMMA LoadAdds ==
    ASSUME loads \subseteq Loads, IsFiniteSet(loads),
           NEW l \in Loads, l \notin loads, loads' = loads \cup {l}
    PROVE  /\ SentFor(l.req)' = SentFor(l.req) + l.qty
           /\ \A r \in Reqs : r # l.req => SentFor(r)' = SentFor(r)
<1>1. ASSUME NEW r \in Reqs, r # l.req PROVE SentFor(r)' = SentFor(r)
  <2>1. {x \in loads : x.req = r}' = {x \in loads : x.req = r}
    BY <1>1
  <2> QED
    BY <2>1 DEF SentFor
<1>2. SentFor(l.req)' = SentFor(l.req) + l.qty
  <2>1. PICK r : r = l.req
    OBVIOUS
  <2>2. PICK S : S = {x \in loads : x.req = r}
    OBVIOUS
  <2>3. S \subseteq loads /\ l \notin S
    BY <2>2
  <2>4. {x \in loads : x.req = r}' = S \cup {l} /\ IsFiniteSet(S)
    BY <2>1, <2>2, <2>3, FS_Subset
  <2>5. PICK f, g : f = [x \in S |-> x.qty] /\ g = [x \in S \cup {l} |-> x.qty]
    OBVIOUS
  <2>6. \A x \in S \cup {l} : x.qty \in Int
    BY <2>3 DEF Loads
  <2>7. /\ DOMAIN f = S /\ DOMAIN g = S \cup {l} /\ g[l] = l.qty /\ g[l] \in Int
        /\ \A s \in S : g[s] = f[s] /\ f[s] \in Int
    BY <2>5, <2>6
  <2>8. SumFunctionOnSet(g, S \cup {l}) = SumFunctionOnSet(f, S) + g[l]
    BY <2>3, <2>4, <2>7, SumOneMore
  <2>9. SentFor(r) = SumFunctionOnSet(f, S)
    BY <2>2, <2>5, <2>7 DEF SentFor, SumFunction
  <2>10. SentFor(r)' = SumFunctionOnSet(g, S \cup {l})
    BY <2>4, <2>5, <2>7 DEF SentFor, SumFunction
  <2> QED
    BY <2>1, <2>7, <2>8, <2>9, <2>10
<1> QED
  BY <1>1, <1>2

(* One more load takes the next number. *)
LEMMA OneMoreLoad ==
    ASSUME Numbered(loads), loads \subseteq Loads, NEW l \in Loads, l.id = Cardinality(loads)
    PROVE  l \notin loads /\ Numbered(loads \cup {l})
<1>1. PICK c \in Nat : c = Cardinality(loads)
  BY FS_CardinalityType DEF Numbered
<1>2. \A x \in loads : x.id \in Nat /\ x.id < c
  BY <1>1 DEF Numbered, Loads
<1>3. l \notin loads
  BY <1>1, <1>2
<1>4. IsFiniteSet(loads \cup {l}) /\ Cardinality(loads \cup {l}) = c + 1
  BY <1>1, <1>3, FS_AddElement DEF Numbered
<1>5. \A x \in loads \cup {l} : x.id < c + 1
  BY <1>1, <1>2
<1>6. \A x, y \in loads \cup {l} : x.id = y.id => x = y
  BY <1>1, <1>2 DEF Numbered
<1> QED
  BY <1>3, <1>4, <1>5, <1>6 DEF Numbered

(* The loads of requisition r are marked received, none is lost or merged. *)
LEMMA LoadsArrive ==
    ASSUME loads \subseteq Loads, Numbered(loads), NEW r,
           loads' = {IF l.req = r THEN [l EXCEPT !.status = "RECEIVED"] ELSE l : l \in loads}
    PROVE  /\ loads' \subseteq Loads /\ Numbered(loads')
           /\ \A q \in Reqs : SentFor(q)' = SentFor(q)
           /\ AllHere(r)' /\ \A q \in Reqs : AllHere(q) => AllHere(q)'
<1>1. PICK h : h = [l \in loads |-> IF l.req = r THEN [l EXCEPT !.status = "RECEIVED"] ELSE l]
  OBVIOUS
<1>2. \A l \in loads : h[l] = IF l.req = r THEN [l EXCEPT !.status = "RECEIVED"] ELSE l
  BY <1>1
<1>3. \A l \in loads : /\ h[l] \in Loads /\ h[l].id = l.id /\ h[l].req = l.req /\ h[l].qty = l.qty
                       /\ h[l].status = IF l.req = r THEN "RECEIVED" ELSE l.status
  <2> SUFFICES ASSUME NEW l \in loads
               PROVE  /\ h[l] \in Loads /\ h[l].id = l.id /\ h[l].req = l.req /\ h[l].qty = l.qty
                      /\ h[l].status = IF l.req = r THEN "RECEIVED" ELSE l.status
    OBVIOUS
  <2>1. l \in Loads
    OBVIOUS
  <2>2. CASE l.req = r
    <3>1. h[l] = [l EXCEPT !.status = "RECEIVED"]
      BY <1>2, <2>2
    <3> QED
      BY <2>1, <2>2, <3>1 DEF Loads
  <2>3. CASE l.req # r
    <3>1. h[l] = l
      BY <1>2, <2>3
    <3> QED
      BY <2>1, <2>3, <3>1
  <2> QED
    BY <2>2, <2>3
<1>4. loads' = {h[l] : l \in loads}
  <2>1. PICK T : T = {IF l.req = r THEN [l EXCEPT !.status = "RECEIVED"] ELSE l : l \in loads}
    OBVIOUS
  <2>2. \A x \in T : \E l \in loads : x = h[l]
    BY <1>2, <2>1
  <2>3. \A l \in loads : h[l] \in T
    BY <1>2, <2>1
  <2>4. T = {h[l] : l \in loads}
    BY <2>2, <2>3
  <2> QED
    BY <2>1, <2>4
<1>5. \A l, m \in loads : h[l] = h[m] => l = m
  BY <1>3 DEF Numbered
<1>6. IsFiniteSet(loads') /\ Cardinality(loads') = Cardinality(loads)
  <2>3. PICK T : T = loads'
    OBVIOUS
  <2>4. h \in [loads -> T] /\ DOMAIN h = loads
    <3>1. \A l \in loads : h[l] \in T
      BY <1>4, <2>3
    <3> QED
      BY <1>1, <3>1
  <2>5. \A x \in T : \E l \in loads : h[l] = x
    BY <1>4, <2>3
  <2>1. h \in Bijection(loads, loads')
    BY <1>5, <2>3, <2>4, <2>5 DEF Bijection, Injection, Surjection, IsInjective
  <2>2. ExistsBijection(loads, loads')
    BY <2>1 DEF ExistsBijection
  <2> QED
    BY <2>2, FS_Bijection DEF Numbered
<1>7. loads' \subseteq Loads /\ Numbered(loads')
  <2>1. \A x \in loads' : \E l \in loads : x = h[l]
    BY <1>4
  <2>2. \A x \in loads' : x \in Loads /\ x.id < Cardinality(loads')
    BY <1>3, <1>6, <2>1 DEF Numbered
  <2>3. \A x, y \in loads' : x.id = y.id => x = y
    BY <1>3, <2>1 DEF Numbered
  <2> QED
    BY <1>6, <2>2, <2>3 DEF Numbered
<1>8. ASSUME NEW q \in Reqs PROVE SentFor(q)' = SentFor(q)
  <2>1. PICK S : S = {x \in loads : x.req = q}
    OBVIOUS
  <2>2. PICK T : T = {h[x] : x \in S}
    OBVIOUS
  <2>3. {x \in loads : x.req = q}' = T
    BY <1>3, <1>4, <2>1, <2>2
  <2>4. S \subseteq loads /\ IsFiniteSet(S)
    BY <2>1, FS_Subset DEF Numbered
  <2>5. PICK f, e : f = [x \in S |-> x.qty] /\ e = [x \in T |-> x.qty]
    OBVIOUS
  <2>6. \A x \in S : f[x] = x.qty /\ f[x] \in Int
    BY <2>4, <2>5 DEF Loads
  <2>7. \A x \in S : e[h[x]] = f[x]
    BY <1>3, <2>2, <2>4, <2>5, <2>6
  <2>8. \A x, y \in S : h[x] = h[y] => x = y
    BY <1>5, <2>4
  <2>9. SumFunctionOnSet(e, {h[x] : x \in S}) = SumFunctionOnSet(f, S)
    BY <2>4, <2>6, <2>7, <2>8, SumReindex
  <2>10. SentFor(q) = SumFunctionOnSet(f, S)
    BY <2>1, <2>5 DEF SentFor, SumFunction
  <2>11. SentFor(q)' = SumFunctionOnSet(e, T)
    BY <2>3, <2>5 DEF SentFor, SumFunction
  <2> QED
    BY <2>2, <2>9, <2>10, <2>11
<1>9. AllHere(r)' /\ \A q \in Reqs : AllHere(q) => AllHere(q)'
  BY <1>3, <1>4 DEF AllHere
<1> QED
  BY <1>7, <1>8, <1>9

LEMMA ReqTyped ==
    ASSUME ReqInv
    PROVE  /\ req \in [Reqs -> Lines] /\ landed \in [Reqs -> Nat] /\ loads \subseteq Loads
           /\ Numbered(loads) /\ Cardinality(loads) \in Nat
           /\ \A j \in Jobs : ReqJob(job[j])
           /\ \A r \in Reqs \ overtaken : LineOK(r)
BY FS_CardinalityType DEF ReqInv, ReqTypeOK, Numbered

LEMMA ReviewHolds ==
    ASSUME ReqInv, JobsOK', NEW j \in Jobs, Review(j)
    PROVE  ReqInv'
<1>1. PICK t : t = job[j]
  OBVIOUS
<1>2. /\ t.op = "review"
      /\ req' = [req EXCEPT ![t.req].status = t.to,
                            ![t.req].approved = IF t.to = "APPROVED" THEN t.n ELSE @]
      /\ overtaken' = overtaken \cup (IF req[t.req] = t.saw THEN {} ELSE {t.req})
      /\ job' = [job EXCEPT ![j] = Idle] /\ UNCHANGED <<loads, landed>>
  BY <1>1 DEF Review, Doing, Overtook, Finish
<1>3. /\ t.req \in Reqs /\ t.saw \in Lines
      /\ t.to \in {"SUBMITTED", "APPROVED", "REJECTED", "CANCELLED"} /\ t.n \in Nat
      /\ MayReview(t.saw, t.to)
  BY <1>1, <1>2, ReqTyped DEF ReqJob, ReqOps
<1>4. PICK r \in Reqs : r = t.req
  BY <1>3
<1>5. req[r] \in Lines
  BY ReqTyped
<1>6. PICK e : e = [req[r] EXCEPT !.status = t.to, !.approved = IF t.to = "APPROVED" THEN t.n ELSE @]
  OBVIOUS
<1>7. req' = [req EXCEPT ![r] = e]
  BY <1>2, <1>4, <1>5, <1>6, ReqTyped
<1>8. /\ e \in Lines /\ e.status = t.to /\ e.dispatched = req[r].dispatched /\ e.received = req[r].received
      /\ e.approved = IF t.to = "APPROVED" THEN t.n ELSE req[r].approved
  BY <1>3, <1>5, <1>6 DEF Lines, ReqStatuses
<1>9. ReqTypeOK'
  BY <1>2, <1>7, <1>8, ReqTyped DEF ReqTypeOK, ReqInv
<1>10. ASSUME NEW q \in Reqs \ overtaken' PROVE LineOK(q)'
  <2>1. LineOK(q) /\ SentFor(q)' = SentFor(q) /\ AllHere(q)' = AllHere(q)
    BY <1>2, ReqTyped DEF SentFor, AllHere
  <2>2. CASE q # r
    <3>1. req'[q] = req[q] /\ landed'[q] = landed[q]
      BY <1>2, <1>7, <2>2, ReqTyped
    <3> QED
      BY <2>1, <3>1 DEF LineOK
  <2>3. CASE q = r
    <3>1. req'[r] = e /\ landed'[r] = landed[r] /\ req[r] = t.saw
      BY <1>2, <1>4, <1>7, <2>3, ReqTyped
    <3>2. PICK d \in Nat, c \in Nat, s \in Nat, a \in Nat :
             d = req[r].dispatched /\ c = req[r].received /\ s = SentFor(r) /\ a = req[r].approved
      BY <1>5, <2>1, <2>3 DEF LineOK, Lines
    <3>3. /\ d = s /\ c = landed[r] /\ c <= d /\ d <= a
          /\ req[r].status \in {"DRAFT", "SUBMITTED"} => d = 0
          /\ c = d => AllHere(r)
      BY <2>1, <2>3, <3>2 DEF LineOK
    <3>4. CASE t.to \in {"SUBMITTED", "APPROVED", "REJECTED"}
      <4>3. t.saw.status \in {"DRAFT", "SUBMITTED"}
        BY <1>3, <3>4 DEF MayReview
      <4>1. d = 0 /\ c = 0
        BY <3>1, <3>3, <4>3
      <4>2. e.approved \in Nat
        BY <1>8 DEF Lines
      <4> QED
        BY <1>8, <2>1, <2>3, <3>1, <3>2, <3>3, <4>1, <4>2 DEF LineOK
    <3>5. CASE t.to = "CANCELLED"
      <4>1. d <= c
        BY <1>3, <3>1, <3>2, <3>5 DEF MayReview
      <4>2. d = c
        BY <3>3, <4>1
      <4> QED
        BY <1>8, <2>1, <2>3, <3>1, <3>2, <3>3, <3>5, <4>2 DEF LineOK
    <3> QED
      BY <1>3, <3>4, <3>5
  <2> QED
    BY <2>2, <2>3
<1>11. \A i \in Jobs : ReqJob(job'[i])
  BY <1>2, IdleReq, ReqJobs
<1> QED
  BY <1>9, <1>10, <1>11 DEF ReqInv

LEMMA DispatchHolds ==
    ASSUME ReqInv, JobsOK', NEW j \in Jobs, Dispatch(j)
    PROVE  ReqInv'
<1>1. PICK t : t = job[j]
  OBVIOUS
<1>2. PICK m : m = t.saw.dispatched + t.n
  OBVIOUS
<1>3. PICK d : d = [req[t.req] EXCEPT !.dispatched = m]
  OBVIOUS
<1>4. PICK e : e = [d EXCEPT !.status = Progress(d, "PARTIALLY_DISPATCHED")]
  OBVIOUS
<1>5. PICK l : l = [id |-> Cardinality(loads), req |-> t.req, key |-> t.key, qty |-> t.n,
                    status |-> "IN_TRANSIT"]
  OBVIOUS
<1>6. /\ t.op = "send" /\ KeyIsFree(t.key)
      /\ loads' = loads \cup {l} /\ req' = [req EXCEPT ![t.req] = e]
      /\ overtaken' = overtaken \cup (IF req[t.req] = t.saw \/ KeyUsed(t.key) THEN {} ELSE {t.req})
      /\ job' = [job EXCEPT ![j] = Idle] /\ UNCHANGED landed
  BY <1>1, <1>2, <1>3, <1>4, <1>5 DEF Dispatch, Doing, Overtook, Finish
<1>7. /\ t.req \in Reqs /\ t.saw \in Lines /\ t.n \in Nat \ {0} /\ t.key \in LoadKeys
      /\ t.saw.status \notin Closed \cup {"DRAFT", "SUBMITTED"}
      /\ t.n <= t.saw.approved - t.saw.dispatched
  BY <1>1, <1>6, ReqTyped DEF ReqJob, ReqOps
<1>8. PICK r \in Reqs : r = t.req
  BY <1>7
<1>9. req[r] \in Lines /\ m \in Nat
  BY <1>2, <1>7, ReqTyped DEF Lines
<1>10. d \in Lines /\ d.dispatched = m /\ d.received = req[r].received /\ d.approved = req[r].approved
  BY <1>3, <1>8, <1>9 DEF Lines
<1>11. /\ e.dispatched = m /\ e.received = req[r].received /\ e.approved = req[r].approved
       /\ e.status = Progress(d, "PARTIALLY_DISPATCHED") /\ e \in Lines
  <2>1. "PARTIALLY_DISPATCHED" \in ReqStatuses
    BY DEF ReqStatuses
  <2>2. Progress(d, "PARTIALLY_DISPATCHED") \in ReqStatuses
    BY <1>10, <2>1, ReqStatusKnown
  <2> QED
    BY <1>4, <1>10, <2>2 DEF Lines
<1>12. /\ e.status \notin {"DRAFT", "SUBMITTED", "REJECTED", "CANCELLED"}
       /\ e.status = "COMPLETED" => d.received >= d.dispatched
  <2>1. "PARTIALLY_DISPATCHED" \in ReqStatuses
    BY DEF ReqStatuses
  <2> QED
    BY <1>10, <1>11, <2>1, ReqStatusKnown
<1>13. l \in Loads /\ l.req = r /\ l.qty = t.n /\ l.id = Cardinality(loads) /\ l.status = "IN_TRANSIT"
  BY <1>5, <1>7, <1>8, ReqTyped DEF Loads
<1>14. l \notin loads /\ Numbered(loads') /\ loads' \subseteq Loads
  BY <1>6, <1>13, OneMoreLoad, ReqTyped
<1>15. ReqTypeOK'
  BY <1>6, <1>11, <1>14, ReqTyped DEF ReqTypeOK
<1>16. /\ SentFor(r)' = SentFor(r) + t.n
       /\ \A q \in Reqs : q # r => SentFor(q)' = SentFor(q)
  BY <1>6, <1>13, <1>14, LoadAdds, ReqTyped DEF Numbered
<1>17. ASSUME NEW q \in Reqs \ overtaken' PROVE LineOK(q)'
  <2>1. LineOK(q)
    BY <1>6, ReqTyped
  <2>2. CASE q # r
    <3>1. req'[q] = req[q] /\ landed'[q] = landed[q] /\ SentFor(q)' = SentFor(q)
      BY <1>6, <1>8, <1>16, <2>2, ReqTyped
    <3>2. AllHere(q)' = AllHere(q)
      BY <1>6, <1>13, <2>2 DEF AllHere
    <3> QED
      BY <2>1, <3>1, <3>2 DEF LineOK
  <2>3. CASE q = r
    <3>1. req'[r] = e /\ landed'[r] = landed[r] /\ req[r] = t.saw
      BY <1>6, <1>8, <2>3, ReqTyped DEF KeyIsFree
    <3>2. PICK dd \in Nat, c \in Nat, s \in Nat, a \in Nat, n \in Nat \ {0} :
             /\ dd = req[r].dispatched /\ c = req[r].received /\ s = SentFor(r) /\ a = req[r].approved
             /\ n = t.n
      BY <1>7, <1>9, <2>1, <2>3 DEF LineOK, Lines
    <3>3. dd = s /\ c = landed[r] /\ c <= s /\ n <= a - dd /\ m = s + n
      BY <1>2, <1>7, <2>1, <2>3, <3>1, <3>2 DEF LineOK
    <3>4. SentFor(r)' = m
      BY <1>16, <3>2, <3>3
    <3>5. c <= m /\ m <= a /\ c # m /\ ~(c >= m)
      BY <1>9, <3>2, <3>3
    <3>6. e.status \notin Closed \cup {"DRAFT", "SUBMITTED"}
      BY <1>10, <1>11, <1>12, <3>2, <3>5 DEF Closed
    <3>7. /\ req'[r].dispatched = m /\ req'[r].received = c /\ req'[r].approved = a
          /\ landed'[r] = c /\ req'[r].status \notin Closed \cup {"DRAFT", "SUBMITTED"}
      BY <1>11, <3>1, <3>2, <3>3, <3>6
    <3> QED
      BY <2>3, <3>4, <3>5, <3>7 DEF LineOK
  <2> QED
    BY <2>2, <2>3
<1>18. \A i \in Jobs : ReqJob(job'[i])
  BY <1>6, IdleReq, ReqJobs
<1> QED
  BY <1>15, <1>17, <1>18 DEF ReqInv

LEMMA ReceiveHolds ==
    ASSUME ReqInv, JobsOK', NEW j \in Jobs, Receive(j)
    PROVE  ReqInv'
<1>1. PICK t : t = job[j]
  OBVIOUS
<1>2. PICK m : m = t.saw.received + t.n
  OBVIOUS
<1>3. PICK d : d = [req[t.req] EXCEPT !.received = m]
  OBVIOUS
<1>4. PICK e : e = [d EXCEPT !.status = Progress(d, t.saw.status)]
  OBVIOUS
<1>6. /\ t.op = "land" /\ req' = [req EXCEPT ![t.req] = e] /\ landed' = [landed EXCEPT ![t.req] = @ + t.n]
      /\ loads' = IF d.received >= d.dispatched
                  THEN {IF l.req = t.req THEN [l EXCEPT !.status = "RECEIVED"] ELSE l : l \in loads}
                  ELSE loads
      /\ overtaken' = overtaken \cup (IF req[t.req] = t.saw THEN {} ELSE {t.req})
      /\ job' = [job EXCEPT ![j] = Idle]
  BY <1>1, <1>2, <1>3, <1>4 DEF Receive, Doing, Overtook, Finish
<1>7. /\ t.req \in Reqs /\ t.saw \in Lines /\ t.n \in Nat \ {0}
      /\ t.saw.status \notin Closed \cup {"DRAFT", "SUBMITTED"}
      /\ t.n <= t.saw.dispatched - t.saw.received
  BY <1>1, <1>6, ReqTyped DEF ReqJob, ReqOps
<1>8. PICK r \in Reqs : r = t.req
  BY <1>7
<1>9. req[r] \in Lines /\ m \in Nat
  BY <1>2, <1>7, ReqTyped DEF Lines
<1>10. d \in Lines /\ d.received = m /\ d.dispatched = req[r].dispatched /\ d.approved = req[r].approved
  BY <1>3, <1>8, <1>9 DEF Lines
<1>11. /\ e.received = m /\ e.dispatched = req[r].dispatched /\ e.approved = req[r].approved
       /\ e.status = Progress(d, t.saw.status) /\ e \in Lines
  <2>1. t.saw.status \in ReqStatuses
    BY <1>7 DEF Lines
  <2>2. Progress(d, t.saw.status) \in ReqStatuses
    BY <1>10, <2>1, ReqStatusKnown
  <2> QED
    BY <1>4, <1>10, <2>2 DEF Lines
<1>12. /\ e.status \notin {"DRAFT", "SUBMITTED", "REJECTED", "CANCELLED"}
       /\ e.status = "COMPLETED" => d.received >= d.dispatched
  <2>1. t.saw.status \in ReqStatuses
    BY <1>7 DEF Lines
  <2> QED
    BY <1>7, <1>10, <1>11, <2>1, ReqStatusKnown DEF Closed
<1>13. /\ loads' \subseteq Loads /\ Numbered(loads')
       /\ \A q \in Reqs : SentFor(q)' = SentFor(q)
       /\ \A q \in Reqs : AllHere(q) => AllHere(q)'
       /\ d.received >= d.dispatched => AllHere(r)'
  <2>1. CASE d.received >= d.dispatched
    <3>1. loads' = {IF l.req = r THEN [l EXCEPT !.status = "RECEIVED"] ELSE l : l \in loads}
      BY <1>6, <1>8, <2>1
    <3> QED
      BY <3>1, LoadsArrive, ReqTyped
  <2>2. CASE ~(d.received >= d.dispatched)
    <3>1. loads' = loads
      BY <1>6, <2>2
    <3> QED
      BY <2>2, <3>1, ReqTyped DEF SentFor, AllHere
  <2> QED
    BY <2>1, <2>2
<1>14. landed' \in [Reqs -> Nat] /\ landed'[r] = landed[r] + t.n /\ \A q \in Reqs : q # r => landed'[q] = landed[q]
  <2>1. PICK v : v = landed[r] + t.n
    OBVIOUS
  <2>2. landed' = [landed EXCEPT ![r] = v] /\ v \in Nat
    BY <1>6, <1>7, <1>8, <2>1, ReqTyped
  <2> QED
    BY <2>1, <2>2, ReqTyped
<1>15. ReqTypeOK'
  BY <1>6, <1>11, <1>13, <1>14, ReqTyped DEF ReqTypeOK
<1>17. ASSUME NEW q \in Reqs \ overtaken' PROVE LineOK(q)'
  <2>1. LineOK(q)
    BY <1>6, ReqTyped
  <2>2. CASE q # r
    <3>1. req'[q] = req[q] /\ landed'[q] = landed[q] /\ SentFor(q)' = SentFor(q)
      BY <1>6, <1>8, <1>13, <1>14, <2>2, ReqTyped
    <3>2. AllHere(q) => AllHere(q)'
      BY <1>13
    <3> QED
      BY <2>1, <3>1, <3>2 DEF LineOK
  <2>3. CASE q = r
    <3>1. req'[r] = e /\ req[r] = t.saw
      BY <1>6, <1>8, <2>3, ReqTyped
    <3>2. PICK dd \in Nat, c \in Nat, s \in Nat, a \in Nat, n \in Nat \ {0} :
             /\ dd = req[r].dispatched /\ c = req[r].received /\ s = SentFor(r) /\ a = req[r].approved
             /\ n = t.n
      BY <1>7, <1>9, <2>1, <2>3 DEF LineOK, Lines
    <3>3. dd = s /\ c = landed[r] /\ s <= a /\ n <= dd - c /\ m = c + n
      BY <1>2, <1>7, <2>1, <2>3, <3>1, <3>2 DEF LineOK
    <3>4. SentFor(r)' = s /\ landed'[r] = m
      BY <1>13, <1>14, <3>2, <3>3
    <3>5. m <= s /\ (m = dd => AllHere(r)')
      BY <1>9, <1>10, <1>13, <3>2, <3>3
    <3>6. e.status \notin {"DRAFT", "SUBMITTED"} /\ (e.status \in Closed => m = dd)
      BY <1>9, <1>10, <1>12, <3>2, <3>3, <3>5 DEF Closed
    <3>7. req'[r].dispatched = dd /\ req'[r].received = m /\ req'[r].approved = a /\ req'[r].status = e.status
      BY <1>11, <3>1, <3>2
    <3> QED
      BY <2>3, <3>3, <3>4, <3>5, <3>6, <3>7 DEF LineOK
  <2> QED
    BY <2>2, <2>3
<1>18. \A i \in Jobs : ReqJob(job'[i])
  BY <1>6, IdleReq, ReqJobs
<1> QED
  BY <1>15, <1>17, <1>18 DEF ReqInv

LEMMA RequisitionsHold ==
    ASSUME ReqInv, JobsOK', NEW j \in Jobs, ReqStep(j)
    PROVE  ReqInv'
<1>1. ASSUME NEW r \in Reqs, NEW to \in {"SUBMITTED", "APPROVED", "REJECTED", "CANCELLED"}, NEW n \in Nat,
             ReadForReview(j, r, to, n)
      PROVE  ReqInv'
  <2>1. PICK t : t = [op |-> "review", req |-> r, to |-> to, n |-> n, saw |-> req[r]]
    OBVIOUS
  <2>2. /\ job' = [job EXCEPT ![j] = t] /\ UNCHANGED <<reqVars, overtaken>> /\ MayReview(req[r], to)
    BY <1>1, <2>1 DEF ReadForReview, Start, stockVars
  <2>3. ReqJob(t)
    BY <2>1, <2>2, ReqTyped DEF ReqJob, ReqOps
  <2> QED
    BY <2>2, <2>3, ReqReads
<1>2. ASSUME NEW r \in Reqs, NEW n \in 1 .. Asked, NEW k \in LoadKeys, ReadForDispatch(j, r, n, k)
      PROVE  ReqInv'
  <2>1. PICK t : t = [op |-> "dispatch", req |-> r, n |-> n, key |-> k, saw |-> req[r]]
    OBVIOUS
  <2>2. /\ job' = [job EXCEPT ![j] = t] /\ UNCHANGED <<reqVars, overtaken>>
        /\ req[r].status \notin Closed \cup {"DRAFT", "SUBMITTED"}
        /\ n <= req[r].approved - req[r].dispatched
    BY <1>2, <2>1 DEF ReadForDispatch, Start, stockVars
  <2>3. n \in Nat \ {0}
    BY RequisitionAssumption
  <2>4. ReqJob(t)
    BY <2>1, <2>2, <2>3, ReqTyped DEF ReqJob, ReqOps
  <2> QED
    BY <2>2, <2>4, ReqReads
<1>3. ASSUME RecheckShelf(j) PROVE ReqInv'
  <2>1. PICK u : u = job[j]
    OBVIOUS
  <2>2. PICK t : t = [op |-> "send", req |-> u.req, n |-> u.n, key |-> u.key, saw |-> u.saw,
                      shelf |-> level[Source]]
    OBVIOUS
  <2>3. u.op = "dispatch" /\ job' = [job EXCEPT ![j] = t] /\ UNCHANGED <<reqVars, overtaken>>
    BY <1>3, <2>1, <2>2 DEF RecheckShelf, Doing, Goes, stockVars
  <2>4. ReqJob(u)
    BY <2>1, ReqTyped
  <2>5. ReqJob(t)
    BY <2>2, <2>3, <2>4 DEF ReqJob, ReqOps
  <2> QED
    BY <2>3, <2>5, ReqReads
<1>4. ASSUME NEW r \in Reqs, NEW n \in 1 .. Asked, NEW k, ReadForReceipt(j, r, n, k)
      PROVE  ReqInv'
  <2>1. PICK t : t = [op |-> "land", req |-> r, n |-> n, key |-> k, saw |-> req[r]]
    OBVIOUS
  <2>2. /\ job' = [job EXCEPT ![j] = t] /\ UNCHANGED <<reqVars, overtaken>>
        /\ req[r].status \notin Closed \cup {"DRAFT", "SUBMITTED"}
        /\ n <= req[r].dispatched - req[r].received
    BY <1>4, <2>1 DEF ReadForReceipt, Start, stockVars, Closed
  <2>3. n \in Nat \ {0}
    BY RequisitionAssumption
  <2>4. ReqJob(t)
    BY <2>1, <2>2, <2>3, ReqTyped DEF ReqJob, ReqOps
  <2> QED
    BY <2>2, <2>4, ReqReads
<1>5. \A n \in 1 .. Asked : n \in Nat
  BY RequisitionAssumption
<1> QED
  BY <1>1, <1>2, <1>3, <1>4, <1>5, ReviewHolds, DispatchHolds, ReceiveHolds DEF ReqStep

LEMMA ReqStays == ReqInv /\ [WarehouseNext]_warehouseVars => ReqInv'
<1> SUFFICES ASSUME ReqInv, [WarehouseNext]_warehouseVars PROVE ReqInv'
  OBVIOUS
<1>1. JobsOK'
  BY JobsStay DEF ReqInv
<1>2. CASE UNCHANGED warehouseVars
  <2>1. UNCHANGED <<req, loads, landed, overtaken, job>>
    BY <1>2 DEF warehouseVars
  <2>2. \A r \in Reqs : LineOK(r)' = LineOK(r)
    BY <2>1 DEF LineOK, SentFor, AllHere
  <2> QED
    BY <1>1, <2>1, <2>2 DEF ReqInv, ReqTypeOK
<1>3. CASE WarehouseNext
  <2>1. PICK j \in Jobs : \/ HandlerDies(j)
                          \/ AtShelf(j) \/ AtOrders(j) \/ AtCouriers(j) \/ AtRequisitions(j)
                          \/ AtPurchasing(j) \/ AtQuality(j) \/ AtMaterials(j) \/ AtGoods(j)
    BY <1>3 DEF WarehouseNext
  <2>2. CASE AtRequisitions(j)
    BY <1>1, <2>2, RequisitionsHold DEF AtRequisitions
  <2>3. CASE ~ AtRequisitions(j)
    <3>1. UNCHANGED reqVars
      BY <2>1, <2>3 DEF HandlerDies, AtShelf, AtOrders, AtCouriers, AtPurchasing, AtQuality,
                        AtMaterials, AtGoods, StoresRest
    <3>2. \/ HandlerDies(j)
          \/ \E ops : Works(j, ops) /\ ops \in {ShelfOps, OrderOps, CourierOps, PurchaseOps, BatchOps, MaterialOps, GoodsOps}
      BY <2>1, <2>3, ShelfWorks, OrdersWork, CouriersWork, PurchasingWorks, QualityWorks,
         MaterialsWork, GoodsWork
         DEF AtShelf, AtOrders, AtCouriers, AtPurchasing, AtQuality, AtMaterials, AtGoods
    <3>3. "idle" \notin ReqOps /\ \A ops \in {ShelfOps, OrderOps, CourierOps, PurchaseOps, BatchOps, MaterialOps, GoodsOps} : ops \cap ReqOps = {}
      BY DEF ShelfOps, OrderOps, CourierOps, ReqOps, BatchOps, MaterialOps, GoodsOps, PurchaseOps
    <3>5. Elsewhere(ReqOps)
      BY <3>2, <3>3, WorksElsewhere, DeathElsewhere
    <3> QED
      BY <1>1, <3>1, <3>5, ReqElsewhere
  <2> QED
    BY <2>2, <2>3
<1> QED
  BY <1>2, <1>3

LEMMA ReqStarts == WarehouseInit => ReqInv
<1> SUFFICES ASSUME WarehouseInit PROVE ReqInv
  OBVIOUS
<1>1. /\ req = [r \in Reqs |-> [status |-> "DRAFT", approved |-> Asked, dispatched |-> 0, received |-> 0]]
      /\ loads = {} /\ landed = [r \in Reqs |-> 0] /\ job = [j \in Jobs |-> Idle]
  BY DEF WarehouseInit, ReqInit, StockInit
<1>2. ReqTypeOK
  BY <1>1, RequisitionAssumption, FS_EmptySet DEF ReqTypeOK, Numbered, Lines, ReqStatuses
<1>3. ASSUME NEW r \in Reqs PROVE SentFor(r) = 0
  <2>1. {l \in loads : l.req = r} = {}
    BY <1>1
  <2>2. SentFor(r) = SumFunctionOnSet([l \in {} |-> l.qty], {})
    BY <2>1 DEF SentFor, SumFunction
  <2> QED
    BY <2>2, SumEmpty
<1>4. \A r \in Reqs : LineOK(r)
  BY <1>1, <1>3, RequisitionAssumption DEF LineOK, AllHere, Closed
<1>5. JobsOK /\ \A j \in Jobs : ReqJob(job[j])
  BY <1>1, IdleReq DEF JobsOK
<1> QED
  BY <1>2, <1>4, <1>5 DEF ReqInv

(* A receipt under way, on a requisition nobody overtook, read a count     *)
(* that has only grown since; if it is the same still, no receipt with its *)
(* key was booked.                                                         *)
UpToDate(t) ==
    t.op = "land" /\ t.req \notin overtaken =>
        /\ t.saw.received <= req[t.req].received
        /\ t.saw.received = req[t.req].received => ~Landed(t.req, t.key)

KeyInv ==
    /\ \A r \in Reqs \ overtaken : r \notin twice
    /\ \A j \in Jobs : UpToDate(job[j])

LEMMA OtherwiseUpToDate == ASSUME NEW t, t.op # "land" PROVE UpToDate(t) /\ UpToDate(t)'
BY DEF UpToDate

LEMMA IdleUpToDate == UpToDate(Idle) /\ UpToDate(Idle)'
<1>1. Idle.op # "land"
  BY DEF Idle
<1> QED
  BY <1>1, OtherwiseUpToDate

(* Handlers stay up to date while counts grow with the keys they are booked *)
(* under.                                                                  *)
LEMMA KeysGrow ==
    ASSUME ReqInv, KeyInv, req' \in [Reqs -> Lines], overtaken \subseteq overtaken',
           NEW j \in Jobs, NEW t, job' = [job EXCEPT ![j] = t], UpToDate(t)',
           \A r \in Reqs \ overtaken' :
               /\ req[r].received <= req'[r].received /\ r \notin twice'
               /\ req[r].received = req'[r].received => \A k : Landed(r, k)' => Landed(r, k)
    PROVE  KeyInv'
<1>1. ASSUME NEW i \in Jobs, i # j PROVE UpToDate(job[i])'
  <2>1. PICK u : u = job[i]
    OBVIOUS
  <2>2. job'[i] = u
    BY <1>1, <2>1 DEF ReqInv, JobsOK
  <2>3. ASSUME u.op = "land", u.req \notin overtaken'
        PROVE  /\ u.saw.received <= req'[u.req].received
               /\ u.saw.received = req'[u.req].received => ~Landed(u.req, u.key)'
    <3>1. u.req \in Reqs /\ u.saw \in Lines /\ u.req \notin overtaken
      BY <2>1, <2>3, ReqTyped DEF ReqJob, ReqOps
    <3>2. /\ u.saw.received <= req[u.req].received
          /\ u.saw.received = req[u.req].received => ~Landed(u.req, u.key)
      BY <2>1, <2>3, <3>1 DEF KeyInv, UpToDate
    <3>3. /\ u.saw.received \in Nat /\ req[u.req].received \in Nat /\ req'[u.req].received \in Nat
      BY <3>1, ReqTyped DEF Lines
    <3>4. /\ req[u.req].received <= req'[u.req].received
          /\ req[u.req].received = req'[u.req].received => \A k : Landed(u.req, k)' => Landed(u.req, k)
      BY <2>3, <3>1
    <3>5. u.saw.received <= req'[u.req].received
      BY <3>2, <3>3, <3>4
    <3>6. ASSUME u.saw.received = req'[u.req].received PROVE ~Landed(u.req, u.key)'
      <4>1. req[u.req].received = req'[u.req].received /\ u.saw.received = req[u.req].received
        BY <3>2, <3>3, <3>4, <3>6
      <4> QED
        BY <3>2, <3>4, <4>1
    <3> QED
      BY <3>5, <3>6
  <2> QED
    BY <2>2, <2>3 DEF UpToDate
<1>2. job'[j] = t
  BY DEF ReqInv, JobsOK
<1>3. \A i \in Jobs : UpToDate(job[i])'
  BY <1>1, <1>2
<1> QED
  BY <1>3 DEF KeyInv

LEMMA KeysRead ==
    ASSUME ReqInv, KeyInv, NEW j \in Jobs, NEW t, job' = [job EXCEPT ![j] = t],
           UpToDate(t)', UNCHANGED <<req, receiptKeys, twice>>, overtaken \subseteq overtaken'
    PROVE  KeyInv'
<1>1. req' \in [Reqs -> Lines] /\ \A r \in Reqs : req[r].received \in Nat
  BY ReqTyped DEF Lines
<1>2. \A r \in Reqs \ overtaken' :
          /\ req[r].received <= req'[r].received /\ r \notin twice'
          /\ \A k : Landed(r, k)' => Landed(r, k)
  BY <1>1 DEF KeyInv, Landed
<1> QED
  BY <1>1, <1>2, KeysGrow

LEMMA ReviewKeepsKeys ==
    ASSUME ReqInv, KeyInv, ReqInv', NEW j \in Jobs, Review(j)
    PROVE  KeyInv'
<1>1. PICK t : t = job[j]
  OBVIOUS
<1>2. /\ req' = [req EXCEPT ![t.req].status = t.to, ![t.req].approved = IF t.to = "APPROVED" THEN t.n ELSE @]
      /\ job' = [job EXCEPT ![j] = Idle] /\ overtaken \subseteq overtaken' /\ UNCHANGED <<receiptKeys, twice>>
      /\ t.op = "review"
  BY <1>1 DEF Review, Doing, Overtook, Finish
<1>3. t.req \in Reqs
  BY <1>1, <1>2, ReqTyped DEF ReqJob, ReqOps
<1>4. \A r \in Reqs : req[r] \in Lines /\ req'[r].received = req[r].received /\ req[r].received \in Nat
  BY <1>2, <1>3, ReqTyped DEF Lines
<1>5. \A r \in Reqs \ overtaken' :
          /\ req[r].received <= req'[r].received /\ r \notin twice'
          /\ \A k : Landed(r, k)' => Landed(r, k)
  <2>1. \A r \in Reqs \ overtaken' : r \notin twice' /\ \A k : Landed(r, k)' => Landed(r, k)
    BY <1>2 DEF KeyInv, Landed
  <2> QED
    BY <1>4, <2>1
<1>6. req' \in [Reqs -> Lines]
  BY DEF ReqInv, ReqTypeOK
<1> QED
  BY <1>2, <1>5, <1>6, IdleUpToDate, KeysGrow

LEMMA DispatchKeepsKeys ==
    ASSUME ReqInv, KeyInv, ReqInv', NEW j \in Jobs, Dispatch(j)
    PROVE  KeyInv'
<1>1. PICK t : t = job[j]
  OBVIOUS
<1>2. PICK q : q = [req[t.req] EXCEPT !.dispatched = t.saw.dispatched + t.n]
  OBVIOUS
<1>3. PICK e : e = [q EXCEPT !.status = Progress(q, "PARTIALLY_DISPATCHED")]
  OBVIOUS
<1>4. /\ req' = [req EXCEPT ![t.req] = e]
      /\ job' = [job EXCEPT ![j] = Idle] /\ overtaken \subseteq overtaken' /\ UNCHANGED <<receiptKeys, twice>>
      /\ t.op = "send"
  BY <1>1, <1>2, <1>3 DEF Dispatch, Doing, Overtook, Finish
<1>5. t.req \in Reqs
  BY <1>1, <1>4, ReqTyped DEF ReqJob, ReqOps
<1>6. req[t.req] \in Lines
  BY <1>5, ReqTyped
<1>7. e.received = req[t.req].received
  BY <1>2, <1>3, <1>6 DEF Lines
<1>8. \A r \in Reqs : req[r] \in Lines /\ req'[r].received = req[r].received /\ req[r].received \in Nat
  BY <1>4, <1>5, <1>7, ReqTyped DEF Lines
<1>9. \A r \in Reqs \ overtaken' :
          /\ req[r].received <= req'[r].received /\ r \notin twice'
          /\ \A k : Landed(r, k)' => Landed(r, k)
  BY <1>4, <1>8 DEF KeyInv, Landed
<1>10. req' \in [Reqs -> Lines]
  BY DEF ReqInv, ReqTypeOK
<1> QED
  BY <1>4, <1>9, <1>10, IdleUpToDate, KeysGrow

LEMMA ReceiveKeepsKeys ==
    ASSUME ReqInv, KeyInv, ReqInv', NEW j \in Jobs, Receive(j)
    PROVE  KeyInv'
<1>1. PICK t : t = job[j]
  OBVIOUS
<1>2. PICK q : q = [req[t.req] EXCEPT !.received = t.saw.received + t.n]
  OBVIOUS
<1>3. PICK e : e = [q EXCEPT !.status = Progress(q, t.saw.status)]
  OBVIOUS
<1>4. /\ t.op = "land" /\ req' = [req EXCEPT ![t.req] = e]
      /\ job' = [job EXCEPT ![j] = Idle]
      /\ receiptKeys' = IF t.key = NoKey THEN receiptKeys ELSE receiptKeys \cup {<<t.req, t.key>>}
      /\ twice' = twice \cup (IF Landed(t.req, t.key) THEN {t.req} ELSE {})
      /\ overtaken' = overtaken \cup (IF req[t.req] = t.saw THEN {} ELSE {t.req})
  BY <1>1, <1>2, <1>3 DEF Receive, Doing, Overtook, Finish
<1>5. t.req \in Reqs /\ t.n \in Nat \ {0} /\ t.saw \in Lines
  BY <1>1, <1>4, ReqTyped DEF ReqJob, ReqOps
<1>6. req[t.req] \in Lines
  BY <1>5, ReqTyped
<1>7. e.received = t.saw.received + t.n
  BY <1>2, <1>3, <1>6 DEF Lines
<1>8. ASSUME NEW r \in Reqs \ overtaken'
      PROVE  /\ req[r].received <= req'[r].received /\ r \notin twice'
             /\ req[r].received = req'[r].received => \A k : Landed(r, k)' => Landed(r, k)
  <2>1. req[r] \in Lines /\ r \notin twice /\ r \notin overtaken
    BY <1>4, ReqTyped DEF KeyInv
  <2>2. CASE r # t.req
    <3>1. req'[r] = req[r] /\ r \notin twice'
      BY <1>4, <1>5, <2>1, <2>2, ReqTyped
    <3>2. \A k : Landed(r, k)' => Landed(r, k)
      BY <1>4, <2>2 DEF Landed
    <3> QED
      BY <2>1, <3>1, <3>2 DEF Lines
  <2>3. CASE r = t.req
    <3>1. req[r] = t.saw
      BY <1>4, <2>3
    <3>2. UpToDate(t)
      BY <1>1 DEF KeyInv
    <3>3. ~Landed(t.req, t.key)
      BY <1>4, <2>1, <2>3, <3>1, <3>2 DEF UpToDate
    <3>4. r \notin twice'
      BY <1>4, <2>1, <2>3, <3>3
    <3>5. req'[r].received = req[r].received + t.n
      BY <1>4, <1>5, <1>7, <2>3, <3>1, ReqTyped
    <3>6. req[r].received < req'[r].received /\ req[r].received # req'[r].received
      BY <1>5, <2>1, <3>5 DEF Lines
    <3> QED
      BY <1>5, <2>1, <3>4, <3>5, <3>6 DEF Lines
  <2> QED
    BY <2>2, <2>3
<1>9. req' \in [Reqs -> Lines] /\ overtaken \subseteq overtaken'
  BY <1>4 DEF ReqInv, ReqTypeOK
<1> QED
  BY <1>4, <1>8, <1>9, IdleUpToDate, KeysGrow

LEMMA RequisitionsKeepKeys ==
    ASSUME ReqInv, KeyInv, ReqInv', NEW j \in Jobs, ReqStep(j)
    PROVE  KeyInv'
<1>1. ASSUME NEW r \in Reqs, NEW to, NEW n, ReadForReview(j, r, to, n)
      PROVE  KeyInv'
  <2>1. PICK t : t = [op |-> "review", req |-> r, to |-> to, n |-> n, saw |-> req[r]]
    OBVIOUS
  <2>2. job' = [job EXCEPT ![j] = t] /\ UNCHANGED <<req, receiptKeys, twice, overtaken>>
    BY <1>1, <2>1 DEF ReadForReview, Start, stockVars, reqVars
  <2>3. UpToDate(t)'
    BY <2>1, OtherwiseUpToDate
  <2> QED
    BY <2>2, <2>3, KeysRead
<1>2. ASSUME NEW r \in Reqs, NEW n, NEW k, ReadForDispatch(j, r, n, k)
      PROVE  KeyInv'
  <2>1. PICK t : t = [op |-> "dispatch", req |-> r, n |-> n, key |-> k, saw |-> req[r]]
    OBVIOUS
  <2>2. job' = [job EXCEPT ![j] = t] /\ UNCHANGED <<req, receiptKeys, twice, overtaken>>
    BY <1>2, <2>1 DEF ReadForDispatch, Start, stockVars, reqVars
  <2>3. UpToDate(t)'
    BY <2>1, OtherwiseUpToDate
  <2> QED
    BY <2>2, <2>3, KeysRead
<1>3. ASSUME RecheckShelf(j) PROVE KeyInv'
  <2>1. PICK t : t = [op |-> "send", req |-> job[j].req, n |-> job[j].n, key |-> job[j].key,
                      saw |-> job[j].saw, shelf |-> level[Source]]
    OBVIOUS
  <2>2. job' = [job EXCEPT ![j] = t] /\ UNCHANGED <<req, receiptKeys, twice, overtaken>>
    BY <1>3, <2>1 DEF RecheckShelf, Goes, stockVars, reqVars
  <2>3. UpToDate(t)'
    BY <2>1, OtherwiseUpToDate
  <2> QED
    BY <2>2, <2>3, KeysRead
<1>4. ASSUME NEW r \in Reqs, NEW n, NEW k, ReadForReceipt(j, r, n, k)
      PROVE  KeyInv'
  <2>1. PICK t : t = [op |-> "land", req |-> r, n |-> n, key |-> k, saw |-> req[r]]
    OBVIOUS
  <2>2. /\ job' = [job EXCEPT ![j] = t] /\ UNCHANGED <<req, receiptKeys, twice, overtaken>>
        /\ ~Landed(r, k)
    BY <1>4, <2>1 DEF ReadForReceipt, Start, stockVars, reqVars
  <2>3. req[r].received \in Nat
    BY ReqTyped DEF Lines
  <2>4. t.req = r /\ t.key = k /\ t.saw = req'[r] /\ ~Landed(r, k)'
    BY <2>1, <2>2 DEF Landed
  <2>5. UpToDate(t)'
    BY <2>2, <2>3, <2>4 DEF UpToDate
  <2> QED
    BY <2>2, <2>5, KeysRead
<1> QED
  BY <1>1, <1>2, <1>3, <1>4, ReviewKeepsKeys, DispatchKeepsKeys, ReceiveKeepsKeys DEF ReqStep

LEMMA KeysStay == ReqInv /\ KeyInv /\ ReqInv' /\ [WarehouseNext]_warehouseVars => KeyInv'
<1> SUFFICES ASSUME ReqInv, KeyInv, ReqInv', [WarehouseNext]_warehouseVars PROVE KeyInv'
  OBVIOUS
<1>1. CASE UNCHANGED warehouseVars
  BY <1>1 DEF warehouseVars, KeyInv, UpToDate, Landed
<1>2. CASE WarehouseNext
  <2>1. PICK j \in Jobs : \/ HandlerDies(j)
                          \/ AtShelf(j) \/ AtOrders(j) \/ AtCouriers(j) \/ AtRequisitions(j)
                          \/ AtPurchasing(j) \/ AtQuality(j) \/ AtMaterials(j) \/ AtGoods(j)
    BY <1>2 DEF WarehouseNext
  <2>2. CASE AtRequisitions(j)
    BY <2>2, RequisitionsKeepKeys DEF AtRequisitions
  <2>3. CASE ~ AtRequisitions(j)
    <3>1. UNCHANGED <<req, receiptKeys, twice>>
      BY <2>1, <2>3 DEF HandlerDies, AtShelf, AtOrders, AtCouriers, AtPurchasing, AtQuality,
                        AtMaterials, AtGoods, StoresRest, reqVars
    <3>2. \/ HandlerDies(j)
          \/ \E ops : Works(j, ops) /\ ops \in {ShelfOps, OrderOps, CourierOps, PurchaseOps, BatchOps, MaterialOps, GoodsOps}
      BY <2>1, <2>3, ShelfWorks, OrdersWork, CouriersWork, PurchasingWorks, QualityWorks,
         MaterialsWork, GoodsWork
         DEF AtShelf, AtOrders, AtCouriers, AtPurchasing, AtQuality, AtMaterials, AtGoods
    <3>3. "idle" \notin ReqOps /\ \A ops \in {ShelfOps, OrderOps, CourierOps, PurchaseOps, BatchOps, MaterialOps, GoodsOps} : ops \cap ReqOps = {}
      BY DEF ShelfOps, OrderOps, CourierOps, ReqOps, BatchOps, MaterialOps, GoodsOps, PurchaseOps
    <3>4. Elsewhere(ReqOps)
      BY <3>2, <3>3, WorksElsewhere, DeathElsewhere
    <3>5. PICK i \in Jobs : \E t : t.op \notin ReqOps /\ job' = [job EXCEPT ![i] = t]
      BY <3>4 DEF Elsewhere
    <3>6. PICK t : t.op \notin ReqOps /\ job' = [job EXCEPT ![i] = t]
      BY <3>5
    <3>7. UpToDate(t)'
      BY <3>6, OtherwiseUpToDate DEF ReqOps
    <3> QED
      BY <3>1, <3>4, <3>6, <3>7, KeysRead DEF Elsewhere, HistoryGrows
  <2> QED
    BY <2>2, <2>3
<1> QED
  BY <1>1, <1>2

LEMMA KeysStart == WarehouseInit => KeyInv
<1> SUFFICES ASSUME WarehouseInit PROVE KeyInv
  OBVIOUS
<1>1. twice = {} /\ job = [j \in Jobs |-> Idle]
  BY DEF WarehouseInit, ReqInit, StockInit
<1> QED
  BY <1>1, IdleUpToDate DEF KeyInv

(* Whatever the other desks do, the dispatched and received counts of a    *)
(* requisition's line are the stock that left and arrived for it, never    *)
(* more than was approved nor more in than out, and no keyed receipt is    *)
(* booked again by a retry that follows it (dispatch and receive of the    *)
(* requisition service), unless two requests overlapped on it: two copies  *)
(* of one receipt may be those two.                                        *)
THEOREM LinesMatchLoadsHolds == WarehouseSpec => []LinesMatchLoads
<1>1. ReqInv /\ KeyInv => LinesMatchLoads
  BY DEF ReqInv, KeyInv, LineOK, LinesMatchLoads
<1> QED
  BY <1>1, ReqStarts, ReqStays, KeysStart, KeysStay, PTL DEF WarehouseSpec

(* And a rejected, cancelled or completed requisition has nothing on the   *)
(* road.                                                                   *)
THEOREM ClosedMeansArrivedHolds == WarehouseSpec => []ClosedMeansArrived
<1>1. ReqInv => ClosedMeansArrived
  BY DEF ReqInv, LineOK, AllHere, ClosedMeansArrived
<1> QED
  BY <1>1, ReqStarts, ReqStays, PTL DEF WarehouseSpec

----------------------------------------------------------------------------
(* Materials *)

(* One row is replaced by another of its number. *)
LEMMA Replaced ==
    ASSUME NEW S, NEW row, NEW new, new.id = row.id
    PROVE  /\ \A x \in S : x.id # row.id => x \in Instead(S, row, new)
           /\ \A x \in Instead(S, row, new) : x = new \/ (x \in S /\ x.id # row.id)
           /\ (\E x \in S : x.id = row.id) => new \in Instead(S, row, new)
<1>1. \A x \in S : (IF x.id = row.id THEN new ELSE x) \in Instead(S, row, new)
  BY DEF Instead
<1>2. \A y \in Instead(S, row, new) : \E x \in S : y = IF x.id = row.id THEN new ELSE x
  BY DEF Instead
<1> QED
  BY <1>1, <1>2

LEMMA StillNumbered ==
    ASSUME NEW S, Numbered(S), NEW row, NEW new, new.id = row.id
    PROVE  Numbered(Instead(S, row, new))
<1>1. PICK h : h = [x \in S |-> IF x.id = row.id THEN new ELSE x]
  OBVIOUS
<1>2. PICK T : T = Instead(S, row, new)
  OBVIOUS
<1>3. \A x \in S : h[x] \in T /\ h[x].id = x.id /\ h[x] = IF x.id = row.id THEN new ELSE x
  BY <1>1, <1>2 DEF Instead
<1>4. \A y \in T : \E x \in S : h[x] = y
  BY <1>2, <1>3 DEF Instead
<1>5. h \in [S -> T] /\ DOMAIN h = S
  BY <1>1, <1>3
<1>6. \A x, y \in S : h[x] = h[y] => x = y
  BY <1>3 DEF Numbered
<1>7. h \in Bijection(S, T)
  BY <1>4, <1>5, <1>6 DEF Bijection, Injection, Surjection, IsInjective
<1>8. IsFiniteSet(T) /\ Cardinality(T) = Cardinality(S)
  BY <1>7, FS_Bijection DEF ExistsBijection, Numbered
<1>9. \A y \in T : y.id < Cardinality(T)
  BY <1>3, <1>4, <1>8 DEF Numbered
<1>10. \A x, y \in T : x.id = y.id => x = y
  BY <1>3, <1>4 DEF Numbered
<1> QED
  BY <1>2, <1>8, <1>9, <1>10 DEF Numbered

(* One more row takes the next number. *)
LEMMA NextNumber ==
    ASSUME NEW S, Numbered(S), \A x \in S : x.id \in Nat, NEW new, new.id = Cardinality(S)
    PROVE  new \notin S /\ Numbered(S \cup {new}) /\ new.id \in Nat
<1>1. PICK c \in Nat : c = Cardinality(S)
  BY FS_CardinalityType DEF Numbered
<1>2. \A x \in S : x.id \in Nat /\ x.id < c
  BY <1>1 DEF Numbered
<1>3. new \notin S
  BY <1>1, <1>2
<1>4. IsFiniteSet(S \cup {new}) /\ Cardinality(S \cup {new}) = c + 1
  BY <1>1, <1>3, FS_AddElement DEF Numbered
<1>5. \A x \in S \cup {new} : x.id < c + 1
  BY <1>1, <1>2
<1>6. \A x, y \in S \cup {new} : x.id = y.id => x = y
  BY <1>1, <1>2 DEF Numbered
<1> QED
  BY <1>1, <1>3, <1>4, <1>5, <1>6 DEF Numbered

Totals == [status : RunStatuses \cup {"DRAFT"}, issued : Int, received : Int, consumed : Int]
ReturnNotes == [id : Nat, run : Runs, n : Nat, open : BOOLEAN, key : IssueKeys \cup {NoKey},
                excess : BOOLEAN]

(* An issue note is a row with a number and a run, whatever else it says. *)
SlipsOK == \A s \in slips : {"id", "run"} \subseteq DOMAIN s /\ s.run \in Runs

MaterialTypeOK ==
    /\ line \in [Runs -> Totals] /\ drawn \in [Runs -> Int]
    /\ SlipsOK
    /\ backs \subseteq ReturnNotes /\ Numbered(backs)

OnFile(row, S) == \E x \in S : x.id = row.id /\ x.run = row.run

(* What a handler read entitles it to what it is about to write. *)
MaterialJob(t) ==
    /\ t.op \in {"run", "issue", "consume", "return", "request", "approve", "declare"} => t.run \in Runs
    /\ t.op = "run" => t.to \in RunStatuses
    /\ t.op \in {"issue", "consume", "return", "declare", "handover", "line"} => t.n \in Nat
    /\ t.op = "consume" => t.saw \in Totals /\ MayConsume(t.saw, t.n)
    /\ t.op = "return" => t.saw \in Totals /\ t.n <= t.saw.issued - t.saw.consumed
    /\ t.op = "issue" => t.key \in IssueKeys \cup {NoKey}
    /\ t.op = "confirm" => t.note \in ReturnNotes /\ t.key \in IssueKeys

(* The note it works on may have changed since, but it is there. *)
NoteJob(t) ==
    /\ t.op \in {"pick", "handover", "line"} => t.slip.run \in Runs /\ \E x \in slips : x.id = t.slip.id
    /\ t.op = "confirm" => OnFile(t.note, backs)

IssuedOnce == \A v, w \in withdrawn : v.key = w.key /\ v.key # NoKey => v = w
NoteBooked(p) == \E b \in backs : b.run = p /\ b.excess
RunOK(p) ==
    /\ drawn[p] = line[p].issued
    /\ p \notin overtaken /\ ~NoteBooked(p) => line[p].consumed <= line[p].issued

MaterialInv ==
    /\ MaterialTypeOK /\ JobsOK /\ IssuedOnce
    /\ \A p \in Runs : RunOK(p)
    /\ \A j \in Jobs : MaterialJob(job[j]) /\ NoteJob(job[j])

LEMMA MaterialTyped ==
    ASSUME MaterialInv
    PROVE  /\ line \in [Runs -> Totals] /\ drawn \in [Runs -> Int] /\ SlipsOK
           /\ backs \subseteq ReturnNotes /\ Numbered(backs)
           /\ \A j \in Jobs : MaterialJob(job[j]) /\ NoteJob(job[j])
           /\ \A p \in Runs : RunOK(p)
BY DEF MaterialInv, MaterialTypeOK

LEMMA IdleMaterial == MaterialJob(Idle) /\ NoteJob(Idle)
BY DEF MaterialJob, NoteJob, Idle

(* The rows a handler may have read are never deleted. *)
RowsStay ==
    /\ \A x \in slips : \E y \in slips' : y.id = x.id
    /\ \A b \in backs : \E c \in backs' : c.id = b.id /\ c.run = b.run

LEMMA MaterialJobs ==
    ASSUME MaterialInv, RowsStay,
           NEW j \in Jobs, NEW t, job' = [job EXCEPT ![j] = t], MaterialJob(t), NoteJob(t)'
    PROVE  \A i \in Jobs : MaterialJob(job'[i]) /\ (NoteJob(job[i]))'
<1> SUFFICES ASSUME NEW i \in Jobs PROVE MaterialJob(job'[i]) /\ (NoteJob(job[i]))'
  OBVIOUS
<1>1. CASE i = j
  <2>1. job'[i] = t
    BY <1>1 DEF MaterialInv, JobsOK
  <2>2. (NoteJob(job[i]))'
    BY <2>1 DEF NoteJob, OnFile
  <2> QED
    BY <2>1, <2>2
<1>2. CASE i # j
  <2>1. job'[i] = job[i]
    BY <1>2 DEF MaterialInv, JobsOK
  <2>2. PICK k : k = job[i]
    OBVIOUS
  <2>3. MaterialJob(k) /\ NoteJob(k)
    BY <2>2, MaterialTyped
  <2>4. k.op \in {"pick", "handover", "line"} => k.slip.run \in Runs /\ \E x \in slips' : x.id = k.slip.id
    <3>1. SUFFICES ASSUME k.op \in {"pick", "handover", "line"}
                   PROVE  k.slip.run \in Runs /\ \E x \in slips' : x.id = k.slip.id
      OBVIOUS
    <3>2. k.slip.run \in Runs /\ \E x \in slips : x.id = k.slip.id
      BY <2>3, <3>1 DEF NoteJob
    <3> QED
      BY <3>2 DEF RowsStay
  <2>5. k.op = "confirm" => OnFile(k.note, backs')
    <3>1. SUFFICES ASSUME k.op = "confirm" PROVE OnFile(k.note, backs')
      OBVIOUS
    <3>2. OnFile(k.note, backs)
      BY <2>3, <3>1 DEF NoteJob
    <3> QED
      BY <3>2 DEF RowsStay, OnFile
  <2>6. (NoteJob(job[i]))'
    BY <2>1, <2>2, <2>4, <2>5 DEF NoteJob, OnFile
  <2> QED
    BY <2>1, <2>2, <2>3, <2>6
<1> QED
  BY <1>1, <1>2

LEMMA MaterialElsewhere ==
    ASSUME MaterialInv, JobsOK', UNCHANGED lineVars, Elsewhere(MaterialOps)
    PROVE  MaterialInv'
<1>1. MaterialTypeOK' /\ IssuedOnce'
  BY DEF MaterialInv, MaterialTypeOK, SlipsOK, IssuedOnce, lineVars
<1>2. \A p \in Runs : RunOK(p)'
  BY DEF MaterialInv, RunOK, NoteBooked, lineVars, Elsewhere, HistoryGrows
<1>3. PICK j \in Jobs : \E t : t.op \notin MaterialOps /\ job' = [job EXCEPT ![j] = t]
  BY DEF Elsewhere
<1>4. PICK t : t.op \notin MaterialOps /\ job' = [job EXCEPT ![j] = t]
  BY <1>3
<1>5. MaterialJob(t) /\ NoteJob(t)'
  BY <1>4 DEF MaterialJob, NoteJob, MaterialOps
<1>6. RowsStay
  BY DEF RowsStay, lineVars
<1>7. \A i \in Jobs : MaterialJob(job'[i]) /\ (NoteJob(job[i]))'
  BY <1>4, <1>5, <1>6, MaterialJobs
<1>8. \A i \in Jobs : MaterialJob(job[i])'
  BY <1>7 DEF MaterialJob, MayConsume
<1> QED
  BY <1>1, <1>2, <1>7, <1>8 DEF MaterialInv

(* A handler that changes no total. *)
LEMMA MaterialReads ==
    ASSUME MaterialInv, JobsOK', NEW j \in Jobs, NEW t, job' = [job EXCEPT ![j] = t], MaterialJob(t),
           NoteJob(t)', UNCHANGED <<line, drawn, withdrawn>>, overtaken \subseteq overtaken', RowsStay,
           SlipsOK', backs' \subseteq ReturnNotes, Numbered(backs'), backs \subseteq backs'
    PROVE  MaterialInv'
<1>1. MaterialTypeOK' /\ IssuedOnce'
  BY DEF MaterialInv, MaterialTypeOK, IssuedOnce
<1>2. \A p \in Runs : RunOK(p)'
  BY DEF MaterialInv, RunOK, NoteBooked
<1>3. \A i \in Jobs : MaterialJob(job'[i]) /\ (NoteJob(job[i]))'
  BY MaterialJobs
<1>4. \A i \in Jobs : MaterialJob(job[i])'
  BY <1>3 DEF MaterialJob, MayConsume
<1> QED
  BY <1>1, <1>2, <1>3, <1>4 DEF MaterialInv

(* A handler that writes the totals of one run, and is done. *)
LEMMA TotalsMove ==
    ASSUME MaterialInv, JobsOK', NEW j \in Jobs, job' = [job EXCEPT ![j] = Idle],
           NEW p \in Runs, NEW e \in Totals, line' = [line EXCEPT ![p] = e],
           NEW x \in Int, drawn' = [drawn EXCEPT ![p] = x], x = e.issued,
           p \notin overtaken' /\ ~NoteBooked(p)' => e.consumed <= e.issued,
           \A q \in Runs : NoteBooked(q) /\ q # p => NoteBooked(q)',
           overtaken \subseteq overtaken', RowsStay, SlipsOK', backs' \subseteq ReturnNotes, Numbered(backs'),
           IssuedOnce'
    PROVE  MaterialInv'
<1>1. MaterialTypeOK'
  BY MaterialTyped DEF MaterialTypeOK
<1>2. ASSUME NEW q \in Runs PROVE RunOK(q)'
  <2>1. CASE q # p
    <3>1. line'[q] = line[q] /\ drawn'[q] = drawn[q]
      BY <2>1, MaterialTyped
    <3>2. RunOK(q)
      BY MaterialTyped
    <3> QED
      BY <2>1, <3>1, <3>2 DEF RunOK
  <2>2. CASE q = p
    <3>1. line'[p] = e /\ drawn'[p] = x
      BY MaterialTyped
    <3> QED
      BY <2>2, <3>1 DEF RunOK
  <2> QED
    BY <2>1, <2>2
<1>3. MaterialJob(Idle) /\ NoteJob(Idle)'
  BY DEF MaterialJob, NoteJob, Idle
<1>4. \A i \in Jobs : MaterialJob(job'[i]) /\ (NoteJob(job[i]))'
  BY <1>3, MaterialJobs
<1>5. \A i \in Jobs : MaterialJob(job[i])'
  BY <1>4 DEF MaterialJob, MayConsume
<1> QED
  BY <1>1, <1>2, <1>4, <1>5 DEF MaterialInv

(* The same, where no note changes. *)
LEMMA NotesRest ==
    ASSUME MaterialInv, UNCHANGED <<slips, backs>>
    PROVE  /\ RowsStay /\ SlipsOK' /\ backs' \subseteq ReturnNotes /\ Numbered(backs')
           /\ \A q \in Runs : NoteBooked(q)' = NoteBooked(q)
BY DEF MaterialInv, MaterialTypeOK, RowsStay, SlipsOK, NoteBooked

LEMMA MoveRunHolds ==
    ASSUME MaterialInv, JobsOK', NEW j \in Jobs, MoveRun(j)
    PROVE  MaterialInv'
<1>1. PICK t : t = job[j]
  OBVIOUS
<1>2. /\ t.op = "run" /\ line' = [line EXCEPT ![t.run].status = t.to]
      /\ job' = [job EXCEPT ![j] = Idle] /\ overtaken \subseteq overtaken'
      /\ UNCHANGED <<slips, backs, withdrawn, drawn>>
  BY <1>1 DEF MoveRun, Doing, OvertookRun, Finish
<1>3. t.run \in Runs /\ t.to \in RunStatuses
  BY <1>1, <1>2, MaterialTyped DEF MaterialJob
<1>4. PICK p \in Runs : p = t.run
  BY <1>3
<1>5. PICK e : e = [line[p] EXCEPT !.status = t.to]
  OBVIOUS
<1>6. line[p] \in Totals
  BY MaterialTyped
<1>7. e \in Totals /\ e.issued = line[p].issued /\ e.consumed = line[p].consumed
  BY <1>3, <1>5, <1>6 DEF Totals
<1>8. line' = [line EXCEPT ![p] = e]
  BY <1>2, <1>4, <1>5, MaterialTyped
<1>9. drawn' = [drawn EXCEPT ![p] = drawn[p]] /\ drawn[p] \in Int /\ drawn[p] = e.issued
  BY <1>2, <1>7, MaterialTyped DEF RunOK
<1>10. p \notin overtaken' /\ ~NoteBooked(p)' => e.consumed <= e.issued
  BY <1>2, <1>7, NotesRest, MaterialTyped DEF RunOK
<1>11. IssuedOnce'
  BY <1>2 DEF MaterialInv, IssuedOnce
<1> QED
  BY <1>2, <1>7, <1>8, <1>9, <1>10, <1>11, NotesRest, TotalsMove

LEMMA IssueHolds ==
    ASSUME MaterialInv, JobsOK', NEW j \in Jobs, Issue(j)
    PROVE  MaterialInv'
<1>1. PICK t : t = job[j]
  OBVIOUS
<1>4. PICK p : p = t.run
  OBVIOUS
<1>5. PICK e : e = [line[p] EXCEPT !.issued = @ + t.n]
  OBVIOUS
<1>12. PICK x : x = drawn[p] + t.n
  OBVIOUS
<1>13. PICK w : w = [id |-> Cardinality(withdrawn), run |-> t.run, key |-> t.key]
  OBVIOUS
<1>2. /\ t.op = "issue" /\ IssueIsNew(t.key)
      /\ line' = [line EXCEPT ![p] = e] /\ drawn' = [drawn EXCEPT ![p] = x]
      /\ withdrawn' = withdrawn \cup {w}
      /\ job' = [job EXCEPT ![j] = Idle] /\ UNCHANGED <<overtaken, slips, backs>>
  BY <1>1, <1>4, <1>5, <1>12, <1>13 DEF Issue, Doing, Draw, Finish
<1>3. p \in Runs /\ t.n \in Nat
  BY <1>1, <1>2, <1>4, MaterialTyped DEF MaterialJob
<1>6. line[p] \in Totals /\ drawn[p] \in Int /\ RunOK(p)
  BY <1>3, MaterialTyped
<1>7. e \in Totals /\ e.issued = line[p].issued + t.n /\ e.consumed = line[p].consumed
  <2>1. line[p].issued + t.n \in Int
    BY <1>3, <1>6 DEF Totals
  <2> QED
    BY <1>5, <1>6, <2>1 DEF Totals
<1>8. x \in Int /\ x = e.issued
  BY <1>3, <1>6, <1>7, <1>12 DEF RunOK
<1>10. p \notin overtaken' /\ ~NoteBooked(p)' => e.consumed <= e.issued
  <2>1. PICK i \in Int, c \in Int, n \in Nat : i = line[p].issued /\ c = line[p].consumed /\ n = t.n
    BY <1>3, <1>6 DEF Totals
  <2>2. p \notin overtaken' /\ ~NoteBooked(p)' => c <= i
    BY <1>2, <1>3, <1>6, <2>1, NotesRest DEF RunOK
  <2> QED
    BY <1>7, <2>1, <2>2
<1>11. IssuedOnce'
  <2>1. w.key = t.key
    BY <1>13
  <2>2. t.key # NoKey => \A v \in withdrawn : v.key # t.key
    BY <1>2 DEF IssueIsNew, Withdrawn
  <2> QED
    BY <1>2, <2>1, <2>2 DEF MaterialInv, IssuedOnce
<1> QED
  BY <1>2, <1>3, <1>7, <1>8, <1>10, <1>11, NotesRest, TotalsMove

LEMMA ConsumeHolds ==
    ASSUME MaterialInv, JobsOK', NEW j \in Jobs, Consume(j)
    PROVE  MaterialInv'
<1>1. PICK t : t = job[j]
  OBVIOUS
<1>4. PICK p : p = t.run
  OBVIOUS
<1>2. /\ t.op = "consume" /\ line' = [line EXCEPT ![p].consumed = @ + t.n]
      /\ overtaken' = overtaken \cup (IF <<line[p].issued, line[p].consumed>> # <<t.saw.issued, t.saw.consumed>>
                                      THEN {p} ELSE {})
      /\ job' = [job EXCEPT ![j] = Idle] /\ UNCHANGED <<slips, backs, withdrawn, drawn>>
  BY <1>1, <1>4 DEF Consume, Doing, OvertookTotals, OvertookRun, Finish
<1>3. p \in Runs /\ t.n \in Nat /\ t.saw \in Totals /\ MayConsume(t.saw, t.n)
  BY <1>1, <1>2, <1>4, MaterialTyped DEF MaterialJob
<1>6. line[p] \in Totals /\ drawn[p] \in Int /\ RunOK(p)
  BY <1>3, MaterialTyped
<1>5. PICK e : e = [line[p] EXCEPT !.consumed = @ + t.n]
  OBVIOUS
<1>7. e \in Totals /\ e.issued = line[p].issued /\ e.consumed = line[p].consumed + t.n
  <2>1. line[p].consumed + t.n \in Int
    BY <1>3, <1>6 DEF Totals
  <2> QED
    BY <1>5, <1>6, <2>1 DEF Totals
<1>8. line' = [line EXCEPT ![p] = e]
  BY <1>2, <1>3, <1>5, MaterialTyped
<1>13. PICK x \in Int : x = drawn[p]
  BY <1>6
<1>9. drawn' = [drawn EXCEPT ![p] = x] /\ x = e.issued
  BY <1>2, <1>6, <1>7, <1>13, MaterialTyped DEF RunOK
<1>10. p \notin overtaken' => e.consumed <= e.issued
  <2>1. SUFFICES ASSUME p \notin overtaken' PROVE e.consumed <= e.issued
    OBVIOUS
  <2>2. line[p].issued = t.saw.issued /\ line[p].consumed = t.saw.consumed
    BY <1>2, <2>1
  <2> QED
    BY <1>3, <1>7, <2>2 DEF MayConsume
<1>11. IssuedOnce'
  BY <1>2 DEF MaterialInv, IssuedOnce
<1>12. overtaken \subseteq overtaken'
  BY <1>2
<1> QED
  BY <1>2, <1>3, <1>7, <1>8, <1>9, <1>10, <1>11, <1>12, NotesRest, TotalsMove

LEMMA ReturnToStoreHolds ==
    ASSUME MaterialInv, JobsOK', NEW j \in Jobs, ReturnToStore(j)
    PROVE  MaterialInv'
<1>1. PICK t : t = job[j]
  OBVIOUS
<1>4. PICK p : p = t.run
  OBVIOUS
<1>5. PICK e : e = [line[p] EXCEPT !.issued = @ - t.n]
  OBVIOUS
<1>12. PICK x : x = drawn[p] + (-t.n)
  OBVIOUS
<1>2. /\ t.op = "return"
      /\ line' = [line EXCEPT ![p] = e] /\ drawn' = [drawn EXCEPT ![p] = x]
      /\ overtaken' = overtaken \cup (IF <<line[p].issued, line[p].consumed>> # <<t.saw.issued, t.saw.consumed>>
                                      THEN {p} ELSE {})
      /\ job' = [job EXCEPT ![j] = Idle] /\ UNCHANGED <<slips, backs, withdrawn>>
  BY <1>1, <1>4, <1>5, <1>12 DEF ReturnToStore, Doing, Draw, OvertookTotals, OvertookRun, Finish
<1>3. p \in Runs /\ t.n \in Nat /\ t.saw \in Totals /\ t.n <= t.saw.issued - t.saw.consumed
  BY <1>1, <1>2, <1>4, MaterialTyped DEF MaterialJob
<1>6. line[p] \in Totals /\ drawn[p] \in Int /\ RunOK(p)
  BY <1>3, MaterialTyped
<1>7. e \in Totals /\ e.issued = line[p].issued - t.n /\ e.consumed = line[p].consumed
  <2>1. line[p].issued - t.n \in Int
    BY <1>3, <1>6 DEF Totals
  <2> QED
    BY <1>5, <1>6, <2>1 DEF Totals
<1>8. x \in Int /\ x = e.issued
  BY <1>3, <1>6, <1>7, <1>12 DEF RunOK
<1>10. p \notin overtaken' => e.consumed <= e.issued
  <2>1. SUFFICES ASSUME p \notin overtaken' PROVE e.consumed <= e.issued
    OBVIOUS
  <2>2. line[p].issued = t.saw.issued /\ line[p].consumed = t.saw.consumed
    BY <1>2, <2>1
  <2>3. PICK i \in Int, c \in Int, n \in Nat : i = t.saw.issued /\ c = t.saw.consumed /\ n = t.n
    BY <1>3 DEF Totals
  <2> QED
    BY <1>3, <1>7, <2>2, <2>3
<1>11. IssuedOnce'
  BY <1>2 DEF MaterialInv, IssuedOnce
<1>13. overtaken \subseteq overtaken'
  BY <1>2
<1> QED
  BY <1>2, <1>3, <1>7, <1>8, <1>10, <1>11, <1>13, NotesRest, TotalsMove

LEMMA SlipSwapped ==
    ASSUME SlipsOK, NEW row, NEW new, new.id = row.id,
           {"id", "run"} \subseteq DOMAIN new, new.run \in Runs, slips' = Instead(slips, row, new)
    PROVE  SlipsOK' /\ \A x \in slips : \E y \in slips' : y.id = x.id
<1>1. \A x \in slips' : x = new \/ (x \in slips /\ x.id # row.id)
  BY Replaced
<1>2. SlipsOK'
  BY <1>1 DEF SlipsOK
<1>3. \A x \in slips : x.id # row.id => x \in slips'
  BY Replaced
<1>4. (\E x \in slips : x.id = row.id) => new \in slips'
  BY Replaced
<1>5. ASSUME NEW x \in slips PROVE \E y \in slips' : y.id = x.id
  <2>1. CASE x.id # row.id
    BY <1>3, <2>1
  <2>2. CASE x.id = row.id
    BY <1>4, <2>2
  <2> QED
    BY <2>1, <2>2
<1> QED
  BY <1>2, <1>5

LEMMA SlipNow ==
    ASSUME SlipsOK, NEW row, \E x \in slips : x.id = row.id
    PROVE  /\ Now(slips, row) \in slips /\ Now(slips, row).id = row.id
           /\ {"id", "run"} \subseteq DOMAIN Now(slips, row) /\ Now(slips, row).run \in Runs
BY DEF Now, SlipsOK

LEMMA HandOverHolds ==
    ASSUME MaterialInv, JobsOK', NEW j \in Jobs, HandOver(j)
    PROVE  MaterialInv'
<1>1. PICK t : t = job[j]
  OBVIOUS
<1>4. PICK p : p = t.slip.run
  OBVIOUS
<1>5. PICK e : e = [line[p] EXCEPT !.issued = @ + t.n]
  OBVIOUS
<1>12. PICK x : x = drawn[p] + t.n
  OBVIOUS
<1>13. PICK s : s = Now(slips, t.slip)
  OBVIOUS
<1>14. PICK n, status, u : /\ n = s.issued + t.n /\ status = (IF n >= s.asked THEN "ISSUED" ELSE "PARTIALLY_ISSUED")
                           /\ u = [s EXCEPT !.status = status, !.issued = n, !.key = t.key,
                                             !.keys = @ \cup {t.key}, !.again = @ \/ t.key \in s.keys]
  OBVIOUS
<1>2. /\ t.op = "handover"
      /\ line' = [line EXCEPT ![p] = e] /\ drawn' = [drawn EXCEPT ![p] = x]
      /\ slips' = Instead(slips, s, u)
      /\ overtaken \subseteq overtaken'
      /\ job' = [job EXCEPT ![j] = Idle] /\ UNCHANGED <<backs, withdrawn>>
  BY <1>1, <1>4, <1>5, <1>12, <1>13, <1>14 DEF HandOver, Doing, Draw, OvertookNote, OvertookRun, Finish
<1>3. p \in Runs /\ t.n \in Nat /\ \E y \in slips : y.id = t.slip.id
  BY <1>1, <1>2, <1>4, MaterialTyped DEF MaterialJob, NoteJob
<1>6. line[p] \in Totals /\ drawn[p] \in Int /\ RunOK(p)
  BY <1>3, MaterialTyped
<1>7. e \in Totals /\ e.issued = line[p].issued + t.n /\ e.consumed = line[p].consumed
  <2>1. line[p].issued + t.n \in Int
    BY <1>3, <1>6 DEF Totals
  <2> QED
    BY <1>5, <1>6, <2>1 DEF Totals
<1>8. x \in Int /\ x = e.issued
  BY <1>3, <1>6, <1>7, <1>12 DEF RunOK
<1>15. {"id", "run"} \subseteq DOMAIN s /\ s.run \in Runs
  BY <1>3, <1>13, SlipNow, MaterialTyped
<1>16. {"id", "run"} \subseteq DOMAIN u /\ u.run = s.run /\ u.id = s.id
  BY <1>14, <1>15
<1>17. SlipsOK' /\ \A y \in slips : \E z \in slips' : z.id = y.id
  BY <1>2, <1>15, <1>16, SlipSwapped, MaterialTyped
<1>18. \A q \in Runs : NoteBooked(q)' = NoteBooked(q)
  BY <1>2 DEF NoteBooked
<1>10. p \notin overtaken' /\ ~NoteBooked(p)' => e.consumed <= e.issued
  <2>1. PICK i \in Int, c \in Int, m \in Nat : i = line[p].issued /\ c = line[p].consumed /\ m = t.n
    BY <1>3, <1>6 DEF Totals
  <2>2. p \notin overtaken' /\ ~NoteBooked(p)' => c <= i
    BY <1>2, <1>3, <1>6, <1>18, <2>1 DEF RunOK
  <2> QED
    BY <1>7, <2>1, <2>2
<1>11. IssuedOnce'
  BY <1>2 DEF MaterialInv, IssuedOnce
<1>19. RowsStay /\ backs' \subseteq ReturnNotes /\ Numbered(backs')
  BY <1>2, <1>17, MaterialTyped DEF RowsStay
<1> QED
  BY <1>2, <1>3, <1>7, <1>8, <1>10, <1>11, <1>17, <1>18, <1>19, TotalsMove

LEMMA ReceiveOnLineHolds ==
    ASSUME MaterialInv, JobsOK', NEW j \in Jobs, ReceiveOnLine(j)
    PROVE  MaterialInv'
<1>1. PICK t : t = job[j]
  OBVIOUS
<1>4. PICK p : p = t.slip.run
  OBVIOUS
<1>5. PICK e : e = [line[p] EXCEPT !.received = @ + t.n]
  OBVIOUS
<1>13. PICK s : s = Now(slips, t.slip)
  OBVIOUS
<1>14. PICK u : u = [s EXCEPT !.status = "RECEIVED", !.receipt = t.key]
  OBVIOUS
<1>2. /\ t.op = "line" /\ line' = [line EXCEPT ![p].received = @ + t.n]
      /\ slips' = Instead(slips, s, u)
      /\ overtaken \subseteq overtaken'
      /\ job' = [job EXCEPT ![j] = Idle] /\ UNCHANGED <<backs, withdrawn, drawn>>
  BY <1>1, <1>4, <1>13, <1>14 DEF ReceiveOnLine, Doing, OvertookNote, OvertookRun, Finish
<1>3. p \in Runs /\ t.n \in Nat /\ \E y \in slips : y.id = t.slip.id
  BY <1>1, <1>2, <1>4, MaterialTyped DEF MaterialJob, NoteJob
<1>6. line[p] \in Totals /\ drawn[p] \in Int /\ RunOK(p)
  BY <1>3, MaterialTyped
<1>7. e \in Totals /\ e.issued = line[p].issued /\ e.consumed = line[p].consumed
  <2>1. line[p].received + t.n \in Int
    BY <1>3, <1>6 DEF Totals
  <2> QED
    BY <1>5, <1>6, <2>1 DEF Totals
<1>20. line' = [line EXCEPT ![p] = e]
  BY <1>2, <1>3, <1>5, MaterialTyped
<1>12. PICK x \in Int : x = drawn[p]
  BY <1>6
<1>8. drawn' = [drawn EXCEPT ![p] = x] /\ x = e.issued
  BY <1>2, <1>6, <1>7, <1>12, MaterialTyped DEF RunOK
<1>15. {"id", "run"} \subseteq DOMAIN s /\ s.run \in Runs
  BY <1>3, <1>13, SlipNow, MaterialTyped
<1>16. {"id", "run"} \subseteq DOMAIN u /\ u.run = s.run /\ u.id = s.id
  BY <1>14, <1>15
<1>17. SlipsOK' /\ \A y \in slips : \E z \in slips' : z.id = y.id
  BY <1>2, <1>15, <1>16, SlipSwapped, MaterialTyped
<1>18. \A q \in Runs : NoteBooked(q)' = NoteBooked(q)
  BY <1>2 DEF NoteBooked
<1>10. p \notin overtaken' /\ ~NoteBooked(p)' => e.consumed <= e.issued
  BY <1>2, <1>3, <1>6, <1>7, <1>18 DEF RunOK
<1>11. IssuedOnce'
  BY <1>2 DEF MaterialInv, IssuedOnce
<1>19. RowsStay /\ backs' \subseteq ReturnNotes /\ Numbered(backs')
  BY <1>2, <1>17, MaterialTyped DEF RowsStay
<1> QED
  BY <1>2, <1>3, <1>7, <1>8, <1>10, <1>11, <1>17, <1>18, <1>19, <1>20, TotalsMove

LEMMA ConfirmReturnHolds ==
    ASSUME MaterialInv, JobsOK', NEW j \in Jobs, ConfirmReturn(j)
    PROVE  MaterialInv'
<1>1. PICK t : t = job[j]
  OBVIOUS
<1>13. PICK b : b = t.note
  OBVIOUS
<1>4. PICK p : p = b.run
  OBVIOUS
<1>5. PICK e : e = [line[p] EXCEPT !.issued = @ - b.n, !.received = @ - b.n]
  OBVIOUS
<1>12. PICK x : x = drawn[p] + (-b.n)
  OBVIOUS
<1>22. PICK over : over = (b.n > line[p].issued - line[p].consumed)
  OBVIOUS
<1>14. PICK u : u = [b EXCEPT !.open = FALSE, !.key = t.key, !.excess = @ \/ over]
  OBVIOUS
<1>2. /\ t.op = "confirm" /\ line' = [line EXCEPT ![p] = e] /\ drawn' = [drawn EXCEPT ![p] = x]
      /\ backs' = Instead(backs, b, u)
      /\ overtaken \subseteq overtaken'
      /\ job' = [job EXCEPT ![j] = Idle] /\ UNCHANGED <<slips, withdrawn>>
  BY <1>1, <1>4, <1>5, <1>12, <1>13, <1>14, <1>22 DEF ConfirmReturn, Doing, Draw, OvertookNote, OvertookRun, Finish
<1>3. b \in ReturnNotes /\ t.key \in IssueKeys /\ OnFile(b, backs)
  BY <1>1, <1>2, <1>13, MaterialTyped DEF MaterialJob, NoteJob
<1>21. p \in Runs /\ b.n \in Nat
  BY <1>3, <1>4 DEF ReturnNotes
<1>6. line[p] \in Totals /\ drawn[p] \in Int /\ RunOK(p)
  BY <1>21, MaterialTyped
<1>7. e \in Totals /\ e.issued = line[p].issued - b.n /\ e.consumed = line[p].consumed
  <2>1. line[p].issued - b.n \in Int /\ line[p].received - b.n \in Int
    BY <1>6, <1>21 DEF Totals
  <2> QED
    BY <1>5, <1>6, <2>1 DEF Totals
<1>8. x \in Int /\ x = e.issued
  BY <1>6, <1>7, <1>12, <1>21 DEF RunOK
<1>23. over \in BOOLEAN
  BY <1>22
<1>15. u \in ReturnNotes /\ u.id = b.id /\ u.run = p /\ (over => u.excess)
  BY <1>3, <1>4, <1>14, <1>23 DEF ReturnNotes
<1>16. /\ \A y \in backs : y.id # b.id => y \in backs'
       /\ \A y \in backs' : y = u \/ (y \in backs /\ y.id # b.id)
       /\ u \in backs'
  BY <1>2, <1>3, <1>15, Replaced DEF OnFile
<1>17. \A y \in backs : y.id = b.id => y.run = p
  BY <1>3, <1>4, MaterialTyped DEF OnFile, Numbered
<1>18. \A q \in Runs : NoteBooked(q) /\ q # p => NoteBooked(q)'
  BY <1>15, <1>16, <1>17 DEF NoteBooked
<1>10. ~NoteBooked(p)' => e.consumed <= e.issued
  <2>1. over => NoteBooked(p)'
    BY <1>15, <1>16 DEF NoteBooked
  <2>2. PICK i \in Int, c \in Int, n \in Nat : i = line[p].issued /\ c = line[p].consumed /\ n = b.n
    BY <1>6, <1>21 DEF Totals
  <2>3. ~over => ~(n > i - c)
    BY <1>22, <2>2, Zenon
  <2> QED
    BY <1>7, <2>1, <2>2, <2>3
<1>19. RowsStay
  BY <1>2, <1>15, <1>16, <1>17 DEF RowsStay
<1>20. backs' \subseteq ReturnNotes /\ Numbered(backs') /\ SlipsOK'
  <2>1. Numbered(Instead(backs, b, u))
    BY <1>15, StillNumbered, MaterialTyped
  <2>2. Numbered(backs')
    BY <1>2, <2>1 DEF Numbered
  <2>3. SlipsOK'
    BY <1>2, MaterialTyped DEF SlipsOK
  <2>4. backs' \subseteq ReturnNotes
    BY <1>15, <1>16, MaterialTyped
  <2> QED
    BY <2>2, <2>3, <2>4
<1>11. IssuedOnce'
  BY <1>2 DEF MaterialInv, IssuedOnce
<1> QED
  BY <1>2, <1>7, <1>8, <1>10, <1>11, <1>18, <1>19, <1>20, <1>21, TotalsMove

(* A handler that only reads. *)
LEMMA MaterialLooks ==
    ASSUME MaterialInv, JobsOK', NEW j \in Jobs, NEW t, job' = [job EXCEPT ![j] = t],
           MaterialJob(t), NoteJob(t),
           UNCHANGED <<line, slips, backs, withdrawn, drawn, overtaken>>
    PROVE  MaterialInv'
<1>1. NoteJob(t)'
  BY DEF NoteJob, OnFile
<1> QED
  BY <1>1, MaterialTyped, NotesRest, MaterialReads

LEMMA RequestHolds ==
    ASSUME MaterialInv, JobsOK', NEW j \in Jobs, Request(j)
    PROVE  MaterialInv'
<1>1. PICK t : t = job[j]
  OBVIOUS
<1>2. PICK s : s = [id |-> Cardinality(slips), run |-> t.run, status |-> "READY_FOR_PICKING",
                    asked |-> t.n, issued |-> 0, key |-> NoKey, receipt |-> NoKey,
                    keys |-> {}, again |-> FALSE]
  OBVIOUS
<1>3. /\ t.op \in {"request", "approve"}
      /\ slips' = slips \/ slips' = slips \cup {s}
      /\ job' = [job EXCEPT ![j] = Idle] /\ overtaken \subseteq overtaken'
      /\ UNCHANGED <<line, drawn, withdrawn, backs>>
  BY <1>1, <1>2 DEF Request, AddSlip, OvertookRun, Finish
<1>4. t.run \in Runs
  BY <1>1, <1>3, MaterialTyped DEF MaterialJob
<1>5. {"id", "run"} \subseteq DOMAIN s /\ s.run \in Runs
  BY <1>2, <1>4
<1>6. SlipsOK' /\ RowsStay
  BY <1>3, <1>5, MaterialTyped DEF SlipsOK, RowsStay
<1>7. MaterialJob(Idle) /\ NoteJob(Idle)'
  BY DEF MaterialJob, NoteJob, Idle
<1>8. backs' \subseteq ReturnNotes /\ Numbered(backs') /\ backs \subseteq backs'
  BY <1>3, MaterialTyped
<1> QED
  BY <1>3, <1>6, <1>7, <1>8, MaterialReads

LEMMA PickHolds ==
    ASSUME MaterialInv, JobsOK', NEW j \in Jobs, Pick(j)
    PROVE  MaterialInv'
<1>1. PICK t : t = job[j]
  OBVIOUS
<1>2. PICK s : s = Now(slips, t.slip)
  OBVIOUS
<1>3. PICK u : u = [s EXCEPT !.status = t.to]
  OBVIOUS
<1>4. /\ t.op = "pick" /\ slips' = Instead(slips, t.slip, u)
      /\ job' = [job EXCEPT ![j] = Idle] /\ overtaken \subseteq overtaken'
      /\ UNCHANGED <<line, drawn, withdrawn, backs>>
  BY <1>1, <1>2, <1>3 DEF Pick, Doing, OvertookNote, OvertookRun, Finish
<1>5. \E x \in slips : x.id = t.slip.id
  BY <1>1, <1>4, MaterialTyped DEF NoteJob
<1>6. {"id", "run"} \subseteq DOMAIN s /\ s.run \in Runs /\ s.id = t.slip.id
  BY <1>2, <1>5, SlipNow, MaterialTyped
<1>7. {"id", "run"} \subseteq DOMAIN u /\ u.run \in Runs /\ u.id = t.slip.id
  BY <1>3, <1>6
<1>8. SlipsOK' /\ \A x \in slips : \E y \in slips' : y.id = x.id
  BY <1>4, <1>7, SlipSwapped, MaterialTyped
<1>9. RowsStay /\ backs' \subseteq ReturnNotes /\ Numbered(backs') /\ backs \subseteq backs'
  BY <1>4, <1>8, MaterialTyped DEF RowsStay
<1>10. MaterialJob(Idle) /\ NoteJob(Idle)'
  BY DEF MaterialJob, NoteJob, Idle
<1> QED
  BY <1>4, <1>8, <1>9, <1>10, MaterialReads

LEMMA DeclareReturnHolds ==
    ASSUME MaterialInv, JobsOK', NEW j \in Jobs, DeclareReturn(j)
    PROVE  MaterialInv'
<1>1. PICK t : t = job[j]
  OBVIOUS
<1>2. PICK b : b = [id |-> Cardinality(backs), run |-> t.run, n |-> t.n, open |-> TRUE, key |-> NoKey,
                 excess |-> FALSE]
  OBVIOUS
<1>3. /\ t.op = "declare" /\ backs' = backs \cup {b}
      /\ job' = [job EXCEPT ![j] = Idle] /\ UNCHANGED <<line, slips, drawn, withdrawn, overtaken>>
  BY <1>1, <1>2 DEF DeclareReturn, Doing, Finish, stockVars
<1>4. t.run \in Runs /\ t.n \in Nat
  BY <1>1, <1>3, MaterialTyped DEF MaterialJob
<1>5. b.id = Cardinality(backs)
  BY <1>2
<1>6. \A x \in backs : x.id \in Nat
  BY MaterialTyped DEF ReturnNotes
<1>7. Numbered(backs \cup {b}) /\ b.id \in Nat
  BY <1>5, <1>6, NextNumber, MaterialTyped
<1>8. b \in ReturnNotes
  BY <1>2, <1>4, <1>7 DEF ReturnNotes
<1>9. backs' \subseteq ReturnNotes /\ Numbered(backs') /\ backs \subseteq backs'
  BY <1>3, <1>7, <1>8, MaterialTyped DEF Numbered
<1>10. MaterialJob(Idle) /\ NoteJob(Idle)'
  BY DEF MaterialJob, NoteJob, Idle
<1>11. SlipsOK' /\ RowsStay
  BY <1>3, <1>9, MaterialTyped DEF SlipsOK, RowsStay
<1> QED
  BY <1>3, <1>9, <1>10, <1>11, MaterialReads

LEMMA MaterialLooksHold ==
    ASSUME MaterialInv, JobsOK', NEW j \in Jobs,
           NEW p \in Runs, NEW n \in Nat, NEW k \in IssueKeys \cup {NoKey},
           \/ \E to \in RunStatuses : ReadForRun(j, p, to)
           \/ ReadForRequest(j, p) \/ ReadForApproval(j, p)
           \/ ReadForIssue(j, p, n, k) \/ ReadForConsume(j, p, n) \/ ReadForReturn(j, p, n)
           \/ ReadForReturnNote(j, p, n)
    PROVE  MaterialInv'
<1>1. ASSUME NEW to \in RunStatuses, ReadForRun(j, p, to) PROVE MaterialInv'
  <2>1. PICK t : t = [op |-> "run", run |-> p, to |-> to, saw |-> line[p].status]
    OBVIOUS
  <2>2. job' = [job EXCEPT ![j] = t] /\ UNCHANGED <<line, slips, backs, withdrawn, drawn, overtaken>>
    BY <1>1, <2>1 DEF ReadForRun, Start, stockVars, lineVars
  <2>3. MaterialJob(t) /\ NoteJob(t)
    BY <2>1 DEF MaterialJob, NoteJob
  <2> QED
    BY <2>2, <2>3, MaterialLooks
<1>2. ASSUME ReadForRequest(j, p) PROVE MaterialInv'
  <2>1. PICK t : t = [op |-> "request", run |-> p, saw |-> wanted[p], n |-> Allocated]
    OBVIOUS
  <2>2. job' = [job EXCEPT ![j] = t] /\ UNCHANGED <<line, slips, backs, withdrawn, drawn, overtaken>>
    BY <1>2, <2>1 DEF ReadForRequest, Start, stockVars, lineVars
  <2>3. MaterialJob(t) /\ NoteJob(t)
    BY <2>1 DEF MaterialJob, NoteJob
  <2> QED
    BY <2>2, <2>3, MaterialLooks
<1>3. ASSUME ReadForApproval(j, p) PROVE MaterialInv'
  <2>1. PICK t : t = [op |-> "approve", run |-> p, saw |-> wanted[p], n |-> wanted[p].n]
    OBVIOUS
  <2>2. job' = [job EXCEPT ![j] = t] /\ UNCHANGED <<line, slips, backs, withdrawn, drawn, overtaken>>
    BY <1>3, <2>1 DEF ReadForApproval, Start, stockVars, lineVars
  <2>3. MaterialJob(t) /\ NoteJob(t)
    BY <2>1 DEF MaterialJob, NoteJob
  <2> QED
    BY <2>2, <2>3, MaterialLooks
<1>4. ASSUME ReadForIssue(j, p, n, k) PROVE MaterialInv'
  <2>1. PICK t : t = [op |-> "issue", run |-> p, n |-> n, key |-> k]
    OBVIOUS
  <2>2. job' = [job EXCEPT ![j] = t] /\ UNCHANGED <<line, slips, backs, withdrawn, drawn, overtaken>>
    BY <1>4, <2>1 DEF ReadForIssue, Start, stockVars
  <2>3. MaterialJob(t) /\ NoteJob(t)
    BY <2>1 DEF MaterialJob, NoteJob
  <2> QED
    BY <2>2, <2>3, MaterialLooks
<1>5. ASSUME ReadForConsume(j, p, n) PROVE MaterialInv'
  <2>1. PICK t : t = [op |-> "consume", run |-> p, n |-> n, saw |-> line[p]]
    OBVIOUS
  <2>2. /\ job' = [job EXCEPT ![j] = t] /\ UNCHANGED <<line, slips, backs, withdrawn, drawn, overtaken>>
        /\ MayConsume(line[p], n)
    BY <1>5, <2>1 DEF ReadForConsume, Start, stockVars, lineVars
  <2>3. MaterialJob(t) /\ NoteJob(t)
    BY <2>1, <2>2, MaterialTyped DEF MaterialJob, NoteJob
  <2> QED
    BY <2>2, <2>3, MaterialLooks
<1>6. ASSUME ReadForReturn(j, p, n) PROVE MaterialInv'
  <2>1. PICK t : t = [op |-> "return", run |-> p, n |-> n, saw |-> line[p]]
    OBVIOUS
  <2>2. /\ job' = [job EXCEPT ![j] = t] /\ UNCHANGED <<line, slips, backs, withdrawn, drawn, overtaken>>
        /\ n <= line[p].issued - line[p].consumed
    BY <1>6, <2>1 DEF ReadForReturn, Start, stockVars, lineVars
  <2>3. MaterialJob(t) /\ NoteJob(t)
    BY <2>1, <2>2, MaterialTyped DEF MaterialJob, NoteJob
  <2> QED
    BY <2>2, <2>3, MaterialLooks
<1>7. ASSUME ReadForReturnNote(j, p, n) PROVE MaterialInv'
  <2>1. PICK t : t = [op |-> "declare", run |-> p, n |-> n]
    OBVIOUS
  <2>2. job' = [job EXCEPT ![j] = t] /\ UNCHANGED <<line, slips, backs, withdrawn, drawn, overtaken>>
    BY <1>7, <2>1 DEF ReadForReturnNote, Start, stockVars, lineVars
  <2>3. MaterialJob(t) /\ NoteJob(t)
    BY <2>1 DEF MaterialJob, NoteJob
  <2> QED
    BY <2>2, <2>3, MaterialLooks
<1> QED
  BY <1>1, <1>2, <1>3, <1>4, <1>5, <1>6, <1>7

LEMMA NoteLooksHold ==
    ASSUME MaterialInv, JobsOK', NEW j \in Jobs, NEW n \in Nat, NEW k \in IssueKeys,
           \/ \E s \in slips : \/ \E m \in Picks : ReadForPick(j, s, m)
                               \/ ReadForHandover(j, s, n, k) \/ ReadForLine(j, s, n, k)
           \/ \E b \in backs : ReadForConfirm(j, b, k)
    PROVE  MaterialInv'
<1>1. ASSUME NEW s \in slips, NEW t, t.slip = s, job' = [job EXCEPT ![j] = t],
             t.op \in {"pick", "handover", "line"}, t.op # "pick" => t.n = n,
             UNCHANGED <<line, slips, backs, withdrawn, drawn, overtaken>>
      PROVE  MaterialInv'
  <2>1. MaterialJob(t)
    BY <1>1 DEF MaterialJob
  <2>2. NoteJob(t)
    BY <1>1, MaterialTyped DEF NoteJob, SlipsOK
  <2> QED
    BY <1>1, <2>1, <2>2, MaterialLooks
<1>2. ASSUME NEW s \in slips, NEW m \in Picks, ReadForPick(j, s, m) PROVE MaterialInv'
  <2>1. PICK t : t = [[op |-> "pick", slip |-> s, to |-> m[2]] EXCEPT !.slip = s]
    OBVIOUS
  <2>2. job' = [job EXCEPT ![j] = t] /\ UNCHANGED <<line, slips, backs, withdrawn, drawn, overtaken>>
    BY <1>2, <2>1 DEF ReadForPick, ReadSlip, Start, stockVars
  <2>3. t.slip = s /\ t.op = "pick"
    BY <2>1
  <2> QED
    BY <1>1, <2>2, <2>3
<1>3. ASSUME NEW s \in slips, ReadForHandover(j, s, n, k) PROVE MaterialInv'
  <2>1. PICK t : t = [[op |-> "handover", slip |-> s, n |-> n, key |-> k] EXCEPT !.slip = s]
    OBVIOUS
  <2>2. job' = [job EXCEPT ![j] = t] /\ UNCHANGED <<line, slips, backs, withdrawn, drawn, overtaken>>
    BY <1>3, <2>1 DEF ReadForHandover, ReadSlip, Start, stockVars
  <2>3. t.slip = s /\ t.op = "handover" /\ t.n = n
    BY <2>1
  <2> QED
    BY <1>1, <2>2, <2>3
<1>4. ASSUME NEW s \in slips, ReadForLine(j, s, n, k) PROVE MaterialInv'
  <2>1. PICK t : t = [[op |-> "line", slip |-> s, n |-> n, key |-> k] EXCEPT !.slip = s]
    OBVIOUS
  <2>2. job' = [job EXCEPT ![j] = t] /\ UNCHANGED <<line, slips, backs, withdrawn, drawn, overtaken>>
    BY <1>4, <2>1 DEF ReadForLine, ReadSlip, Start, stockVars
  <2>3. t.slip = s /\ t.op = "line" /\ t.n = n
    BY <2>1
  <2> QED
    BY <1>1, <2>2, <2>3
<1>5. ASSUME NEW b \in backs, ReadForConfirm(j, b, k) PROVE MaterialInv'
  <2>1. PICK t : t = [op |-> "confirm", note |-> b, key |-> k]
    OBVIOUS
  <2>2. job' = [job EXCEPT ![j] = t] /\ UNCHANGED <<line, slips, backs, withdrawn, drawn, overtaken>>
    BY <1>5, <2>1 DEF ReadForConfirm, Start, stockVars, lineVars
  <2>3. MaterialJob(t) /\ NoteJob(t)
    BY <2>1, MaterialTyped DEF MaterialJob, NoteJob, OnFile
  <2> QED
    BY <2>2, <2>3, MaterialLooks
<1> QED
  BY <1>2, <1>3, <1>4, <1>5

LEMMA MaterialsHold ==
    ASSUME MaterialInv, JobsOK', NEW j \in Jobs, MaterialStep(j)
    PROVE  MaterialInv'
<1>1. \A n \in 1 .. Required : n \in Nat
  BY MaterialAssumption
<1>2. 0 \in Nat /\ NoKey \in IssueKeys \cup {NoKey}
  OBVIOUS
<1>3. CASE \E p \in Runs : \/ \E to \in RunStatuses : ReadForRun(j, p, to)
                           \/ ReadForRequest(j, p) \/ ReadForApproval(j, p)
  BY <1>2, <1>3, MaterialLooksHold
<1>4. CASE \E p \in Runs, n \in 1 .. Required :
             \/ \E k \in IssueKeys \cup {NoKey} : ReadForIssue(j, p, n, k)
             \/ ReadForConsume(j, p, n) \/ ReadForReturn(j, p, n) \/ ReadForReturnNote(j, p, n)
  BY <1>1, <1>2, <1>4, MaterialLooksHold
<1>5. CASE \E s \in slips : \E m \in Picks : ReadForPick(j, s, m)
  <2>1. PICK s \in slips, m \in Picks : ReadForPick(j, s, m)
    BY <1>5
  <2>2. PICK t : t = [[op |-> "pick", slip |-> s, to |-> m[2]] EXCEPT !.slip = s]
    OBVIOUS
  <2>3. job' = [job EXCEPT ![j] = t] /\ UNCHANGED <<line, slips, backs, withdrawn, drawn, overtaken>>
    BY <2>1, <2>2 DEF ReadForPick, ReadSlip, Start, stockVars
  <2>4. t.slip = s /\ t.op = "pick"
    BY <2>2
  <2>5. MaterialJob(t) /\ NoteJob(t)
    BY <2>4, MaterialTyped DEF MaterialJob, NoteJob, SlipsOK
  <2> QED
    BY <2>3, <2>5, MaterialLooks
<1>6. CASE \E n \in 1 .. Required, k \in IssueKeys :
             \E s \in slips : ReadForHandover(j, s, n, k) \/ ReadForLine(j, s, n, k)
  BY <1>1, <1>6, NoteLooksHold
<1>7. CASE \E b \in backs, k \in IssueKeys : ReadForConfirm(j, b, k)
  BY <1>2, <1>7, NoteLooksHold
<1>8. CASE \/ MoveRun(j) \/ Issue(j) \/ Consume(j) \/ ReturnToStore(j) \/ Request(j) \/ Pick(j)
           \/ HandOver(j) \/ ReceiveOnLine(j) \/ DeclareReturn(j) \/ ConfirmReturn(j)
  BY <1>8, MoveRunHolds, IssueHolds, ConsumeHolds, ReturnToStoreHolds, RequestHolds, PickHolds,
     HandOverHolds, ReceiveOnLineHolds, DeclareReturnHolds, ConfirmReturnHolds
<1> QED
  BY <1>3, <1>4, <1>5, <1>6, <1>7, <1>8 DEF MaterialStep

LEMMA MaterialStays == MaterialInv /\ [WarehouseNext]_warehouseVars => MaterialInv'
<1> SUFFICES ASSUME MaterialInv, [WarehouseNext]_warehouseVars PROVE MaterialInv'
  OBVIOUS
<1>1. JobsOK'
  BY JobsStay DEF MaterialInv
<1>2. CASE UNCHANGED warehouseVars
  <2>1. UNCHANGED <<lineVars, overtaken, job>>
    BY <1>2 DEF warehouseVars, lineVars
  <2>2. MaterialTypeOK' /\ IssuedOnce' /\ \A p \in Runs : RunOK(p)'
    BY <2>1 DEF MaterialInv, MaterialTypeOK, SlipsOK, IssuedOnce, RunOK, NoteBooked, lineVars
  <2>3. \A j \in Jobs : (MaterialJob(job[j]) /\ NoteJob(job[j]))'
    BY <2>1 DEF MaterialInv, MaterialJob, NoteJob, OnFile, MayConsume, lineVars
  <2> QED
    BY <1>1, <2>2, <2>3 DEF MaterialInv
<1>3. CASE WarehouseNext
  <2>1. PICK j \in Jobs : \/ HandlerDies(j)
                          \/ AtShelf(j) \/ AtOrders(j) \/ AtCouriers(j) \/ AtRequisitions(j)
                          \/ AtPurchasing(j) \/ AtQuality(j) \/ AtMaterials(j) \/ AtGoods(j)
    BY <1>3 DEF WarehouseNext
  <2>2. CASE AtMaterials(j)
    BY <1>1, <2>2, MaterialsHold DEF AtMaterials
  <2>3. CASE ~ AtMaterials(j)
    <3>1. UNCHANGED lineVars
      BY <2>1, <2>3 DEF HandlerDies, AtShelf, AtOrders, AtCouriers, AtRequisitions, AtPurchasing,
                        AtQuality, AtGoods, StoresRest
    <3>2. \/ HandlerDies(j)
          \/ \E ops : Works(j, ops) /\ ops \in {ShelfOps, OrderOps, CourierOps, ReqOps, PurchaseOps, BatchOps, GoodsOps}
      BY <2>1, <2>3, ShelfWorks, OrdersWork, CouriersWork, RequisitionsWork, PurchasingWorks,
         QualityWorks, GoodsWork
         DEF AtShelf, AtOrders, AtCouriers, AtRequisitions, AtPurchasing, AtQuality, AtGoods
    <3>3. "idle" \notin MaterialOps /\ \A ops \in {ShelfOps, OrderOps, CourierOps, ReqOps, PurchaseOps, BatchOps, GoodsOps} : ops \cap MaterialOps = {}
      BY DEF ShelfOps, OrderOps, CourierOps, ReqOps, BatchOps, MaterialOps, GoodsOps, PurchaseOps
    <3>5. Elsewhere(MaterialOps)
      BY <3>2, <3>3, WorksElsewhere, DeathElsewhere
    <3> QED
      BY <1>1, <3>1, <3>5, MaterialElsewhere
  <2> QED
    BY <2>2, <2>3
<1> QED
  BY <1>2, <1>3

LEMMA MaterialStarts == WarehouseInit => MaterialInv
<1> SUFFICES ASSUME WarehouseInit PROVE MaterialInv
  OBVIOUS
<1>1. /\ line = [p \in Runs |-> [status |-> "DRAFT", issued |-> 0, received |-> 0, consumed |-> 0]]
      /\ slips = {} /\ backs = {} /\ withdrawn = {} /\ drawn = [p \in Runs |-> 0]
      /\ job = [j \in Jobs |-> Idle]
  BY DEF WarehouseInit, MaterialInit, StockInit
<1>2. Numbered(backs)
  BY <1>1, FS_EmptySet DEF Numbered
<1>3. MaterialTypeOK /\ IssuedOnce
  BY <1>1, <1>2 DEF MaterialTypeOK, Totals, SlipsOK, IssuedOnce
<1>4. \A p \in Runs : RunOK(p)
  BY <1>1 DEF RunOK
<1>5. JobsOK /\ \A j \in Jobs : MaterialJob(job[j]) /\ NoteJob(job[j])
  BY <1>1, IdleMaterial DEF JobsOK
<1> QED
  BY <1>3, <1>4, <1>5 DEF MaterialInv

(* An issue note names its last key, and none of its keys moved material   *)
(* again but as MaterialsBalance allows.                                   *)
NoteFields == {"id", "run", "key", "keys", "again"}
SlipKeys(s) ==
    /\ NoteFields \subseteq DOMAIN s /\ s.id \in Nat /\ s.run \in Runs /\ s.again \in BOOLEAN
    /\ s.keys # {} => s.key \in s.keys
    /\ s.again => s.run \in overtaken \/ \E k, l \in s.keys : k # l

(* A handover has another key than the note's last one, as it was read.    *)
SlipJob(t) ==
    t.op = "handover" => t.slip.key # t.key /\ \E x \in slips : x.id = t.slip.id /\ x.run = t.slip.run

SlipInv ==
    /\ Numbered(slips) /\ \A s \in slips : SlipKeys(s)
    /\ \A j \in Jobs : SlipJob(job[j])

LEMMA OtherwiseNoSlip == ASSUME NEW t, t.op # "handover" PROVE SlipJob(t) /\ SlipJob(t)'
BY DEF SlipJob

LEMMA IdleNoSlip == SlipJob(Idle) /\ SlipJob(Idle)'
<1>1. Idle.op # "handover"
  BY DEF Idle
<1> QED
  BY <1>1, OtherwiseNoSlip

(* The handlers keep what they read while the notes they read stay.        *)
LEMMA SlipsKept ==
    ASSUME JobsOK, SlipInv, NEW j \in Jobs, NEW t, job' = [job EXCEPT ![j] = t], SlipJob(t)',
           \A x \in slips : \E y \in slips' : y.id = x.id /\ y.run = x.run,
           Numbered(slips'), \A s \in slips' : SlipKeys(s)'
    PROVE  SlipInv'
<1>1. ASSUME NEW i \in Jobs, i # j PROVE SlipJob(job[i])'
  <2>1. PICK u : u = job[i]
    OBVIOUS
  <2>2. job'[i] = u
    BY <1>1, <2>1 DEF JobsOK
  <2>3. SlipJob(u)
    BY <2>1 DEF SlipInv
  <2>4. SlipJob(u)'
    BY <2>3 DEF SlipJob
  <2> QED
    BY <2>2, <2>4 DEF SlipJob
<1>2. job'[j] = t
  BY DEF JobsOK
<1>3. \A i \in Jobs : SlipJob(job[i])'
  BY <1>1, <1>2
<1>4. Numbered(slips)'
  BY DEF Numbered
<1> QED
  BY <1>3, <1>4 DEF SlipInv

LEMMA NoteStays ==
    ASSUME NEW s, SlipKeys(s), overtaken \subseteq overtaken'
    PROVE  SlipKeys(s)'
BY DEF SlipKeys

LEMMA SlipsRead ==
    ASSUME JobsOK, SlipInv, NEW j \in Jobs, NEW t, job' = [job EXCEPT ![j] = t], SlipJob(t)',
           UNCHANGED slips, overtaken \subseteq overtaken'
    PROVE  SlipInv'
<1>1. \A s \in slips' : SlipKeys(s)'
  BY NoteStays DEF SlipInv
<1>2. Numbered(slips')
  BY DEF SlipInv, Numbered
<1>3. \A x \in slips : \E y \in slips' : y.id = x.id /\ y.run = x.run
  OBVIOUS
<1> QED
  BY <1>1, <1>2, <1>3, SlipsKept

(* A handler writes over one note, and is done.                            *)
LEMMA SlipWritten ==
    ASSUME JobsOK, SlipInv, NEW j \in Jobs, job' = [job EXCEPT ![j] = Idle],
           NEW s \in slips, NEW row, row.id = s.id, NEW new, new.id = s.id, new.run = s.run,
           SlipKeys(new)', slips' = Instead(slips, row, new), overtaken \subseteq overtaken'
    PROVE  SlipInv'
<1>1. Numbered(slips')
  BY StillNumbered DEF SlipInv
<1>2. /\ \A x \in slips : x.id # row.id => x \in slips'
      /\ \A x \in slips' : x = new \/ (x \in slips /\ x.id # row.id)
      /\ new \in slips'
  BY Replaced
<1>3. \A x \in slips' : SlipKeys(x)'
  BY <1>2, NoteStays DEF SlipInv
<1>4. ASSUME NEW x \in slips PROVE \E y \in slips' : y.id = x.id /\ y.run = x.run
  <2>1. CASE x.id # row.id
    BY <1>2, <2>1
  <2>2. CASE x.id = row.id
    <3>1. x = s
      BY <2>2 DEF SlipInv, Numbered
    <3> QED
      BY <1>2, <3>1
  <2> QED
    BY <2>1, <2>2
<1> QED
  BY <1>1, <1>3, <1>4, IdleNoSlip, SlipsKept

LEMMA SlipTyped ==
    ASSUME SlipInv, NEW row, \E x \in slips : x.id = row.id
    PROVE  Now(slips, row) \in slips /\ Now(slips, row).id = row.id /\ SlipKeys(Now(slips, row))
<1>1. Now(slips, row) \in slips /\ Now(slips, row).id = row.id
  BY DEF Now
<1> QED
  BY <1>1 DEF SlipInv

LEMMA HandOverKeepsKeys ==
    ASSUME MaterialInv, SlipInv, NEW j \in Jobs, HandOver(j)
    PROVE  SlipInv'
<1>1. PICK t : t = job[j]
  OBVIOUS
<1>2. PICK s : s = Now(slips, t.slip)
  OBVIOUS
<1>3. PICK n, status, u : u = [s EXCEPT !.status = status, !.issued = n, !.key = t.key,
                                        !.keys = @ \cup {t.key}, !.again = @ \/ t.key \in s.keys]
                          /\ slips' = Instead(slips, s, u)
  BY <1>1, <1>2 DEF HandOver
<1>4. /\ t.op = "handover" /\ job' = [job EXCEPT ![j] = Idle]
      /\ overtaken' = overtaken \cup (IF t.slip \notin slips THEN {t.slip.run} ELSE {})
  BY <1>1 DEF HandOver, Doing, OvertookNote, OvertookRun, Finish
<1>5. t.slip.key # t.key /\ \E x \in slips : x.id = t.slip.id /\ x.run = t.slip.run
  BY <1>1, <1>4 DEF SlipInv, SlipJob
<1>6. s \in slips /\ s.id = t.slip.id /\ SlipKeys(s)
  BY <1>2, <1>5, SlipTyped
<1>7. s.run = t.slip.run
  BY <1>5, <1>6 DEF SlipInv, Numbered
<1>8. NoteFields \subseteq DOMAIN s /\ s.id \in Nat /\ s.run \in Runs
  BY <1>6 DEF SlipKeys
<1>9. /\ NoteFields \subseteq DOMAIN u /\ u.id = s.id /\ u.run = s.run /\ u.key = t.key
      /\ u.keys = s.keys \cup {t.key} /\ u.again = (s.again \/ t.key \in s.keys)
  BY <1>3, <1>8 DEF NoteFields
<1>10. ASSUME u.again PROVE u.run \in overtaken' \/ \E k, l \in u.keys : k # l
  <2>1. CASE s.again
    BY <1>4, <1>6, <1>9, <2>1 DEF SlipKeys
  <2>2. CASE ~s.again
    <3>1. t.key \in s.keys
      BY <1>9, <1>10, <2>2
    <3>2. CASE t.slip \notin slips
      BY <1>4, <1>7, <1>9, <3>2
    <3>3. CASE t.slip \in slips
      <4>1. t.slip = s
        BY <1>6, <3>3 DEF SlipInv, Numbered
      <4>2. s.key \in s.keys /\ s.key # t.key
        BY <1>5, <1>6, <3>1, <4>1 DEF SlipKeys
      <4> QED
        BY <1>9, <4>2
    <3> QED
      BY <3>2, <3>3
  <2> QED
    BY <2>1, <2>2
<1>11. SlipKeys(u)'
  BY <1>8, <1>9, <1>10 DEF SlipKeys
<1> QED
  BY <1>3, <1>4, <1>6, <1>9, <1>11, SlipWritten DEF MaterialInv

LEMMA ReceiptKeepsKeys ==
    ASSUME MaterialInv, SlipInv, NEW j \in Jobs, ReceiveOnLine(j) \/ Pick(j)
    PROVE  SlipInv'
<1>1. PICK t : t = job[j]
  OBVIOUS
<1>2. PICK s : s = Now(slips, t.slip)
  OBVIOUS
<1>3. PICK status, key, u, row :
          /\ u = [s EXCEPT !.status = status, !.receipt = key] \/ u = [s EXCEPT !.status = status]
          /\ row \in {s, t.slip} /\ slips' = Instead(slips, row, u)
  <2>1. CASE ReceiveOnLine(j)
    <3>1. slips' = Instead(slips, s, [s EXCEPT !.status = "RECEIVED", !.receipt = t.key])
      BY <1>1, <1>2, <2>1 DEF ReceiveOnLine
    <3> QED
      BY <3>1
  <2>2. CASE Pick(j)
    <3>1. slips' = Instead(slips, t.slip, [s EXCEPT !.status = t.to])
      BY <1>1, <1>2, <2>2 DEF Pick
    <3> QED
      BY <3>1
  <2> QED
    BY <2>1, <2>2
<1>4. /\ t.op \in {"line", "pick"} /\ job' = [job EXCEPT ![j] = Idle] /\ overtaken \subseteq overtaken'
  BY <1>1 DEF ReceiveOnLine, Pick, Doing, OvertookNote, OvertookRun, Finish
<1>5. \E x \in slips : x.id = t.slip.id
  BY <1>1, <1>4, MaterialTyped DEF NoteJob
<1>6. s \in slips /\ s.id = t.slip.id /\ SlipKeys(s)
  BY <1>2, <1>5, SlipTyped
<1>7. NoteFields \subseteq DOMAIN s
  BY <1>6 DEF SlipKeys
<1>8. /\ NoteFields \subseteq DOMAIN u /\ u.id = s.id /\ u.run = s.run /\ u.key = s.key
      /\ u.keys = s.keys /\ u.again = s.again
  BY <1>3, <1>7 DEF NoteFields
<1>9. SlipKeys(u)'
  BY <1>4, <1>6, <1>8 DEF SlipKeys
<1> QED
  BY <1>3, <1>4, <1>6, <1>8, <1>9, SlipWritten DEF MaterialInv

LEMMA RequestKeepsKeys ==
    ASSUME MaterialInv, SlipInv, NEW j \in Jobs, Request(j)
    PROVE  SlipInv'
<1>1. PICK t : t = job[j]
  OBVIOUS
<1>2. PICK s : s = [id |-> Cardinality(slips), run |-> t.run, status |-> "READY_FOR_PICKING",
                    asked |-> t.n, issued |-> 0, key |-> NoKey, receipt |-> NoKey,
                    keys |-> {}, again |-> FALSE]
  OBVIOUS
<1>3. /\ t.op \in {"request", "approve"}
      /\ slips' = slips \/ slips' = slips \cup {s}
      /\ job' = [job EXCEPT ![j] = Idle] /\ overtaken \subseteq overtaken'
  BY <1>1, <1>2 DEF Request, AddSlip, OvertookRun, Finish
<1>4. t.run \in Runs
  BY <1>1, <1>3, MaterialTyped DEF MaterialJob
<1>5. \A x \in slips : x.id \in Nat
  BY DEF SlipInv, SlipKeys
<1>6. Numbered(slips \cup {s}) /\ s.id \in Nat
  <2>1. s.id = Cardinality(slips)
    BY <1>2
  <2> QED
    BY <1>5, <2>1, NextNumber DEF SlipInv
<1>7. SlipKeys(s)'
  BY <1>2, <1>4, <1>6 DEF SlipKeys, NoteFields
<1>8. CASE slips' = slips
  BY <1>3, <1>8, IdleNoSlip, SlipsRead DEF MaterialInv
<1>9. CASE slips' = slips \cup {s}
  <2>1. \A x \in slips' : SlipKeys(x)'
    BY <1>3, <1>7, <1>9, NoteStays DEF SlipInv
  <2>2. \A x \in slips : \E y \in slips' : y.id = x.id /\ y.run = x.run
    BY <1>9
  <2> QED
    BY <1>3, <1>6, <1>9, <2>1, <2>2, IdleNoSlip, SlipsKept DEF MaterialInv
<1> QED
  BY <1>3, <1>8, <1>9

LEMMA MaterialsKeepKeys ==
    ASSUME MaterialInv, SlipInv, NEW j \in Jobs, MaterialStep(j)
    PROVE  SlipInv'
<1>1. overtaken \subseteq overtaken'
  BY MaterialsWork DEF Works, HistoryGrows
<1>2. ASSUME UNCHANGED slips, NEW t, job' = [job EXCEPT ![j] = t], SlipJob(t)' PROVE SlipInv'
  BY <1>1, <1>2, SlipsRead DEF MaterialInv
<1>3. ASSUME NEW p, NEW n, NEW k, NEW to,
             \/ ReadForRun(j, p, to) \/ ReadForRequest(j, p) \/ ReadForApproval(j, p)
             \/ ReadForIssue(j, p, n, k) \/ ReadForConsume(j, p, n) \/ ReadForReturn(j, p, n)
             \/ ReadForReturnNote(j, p, n) \/ ReadForConfirm(j, p, k)
      PROVE  SlipInv'
  <2>1. PICK t : /\ \/ t = [op |-> "run", run |-> p, to |-> to, saw |-> line[p].status]
                    \/ t = [op |-> "request", run |-> p, saw |-> wanted[p], n |-> Allocated]
                    \/ t = [op |-> "approve", run |-> p, saw |-> wanted[p], n |-> wanted[p].n]
                    \/ t = [op |-> "issue", run |-> p, n |-> n, key |-> k]
                    \/ t = [op |-> "consume", run |-> p, n |-> n, saw |-> line[p]]
                    \/ t = [op |-> "return", run |-> p, n |-> n, saw |-> line[p]]
                    \/ t = [op |-> "declare", run |-> p, n |-> n]
                    \/ t = [op |-> "confirm", note |-> p, key |-> k]
                 /\ job' = [job EXCEPT ![j] = t]
    BY <1>3, Zenon DEF ReadForRun, ReadForRequest, ReadForApproval, ReadForIssue, ReadForConsume,
                       ReadForReturn, ReadForReturnNote, ReadForConfirm, Start
  <2>2. UNCHANGED slips
    BY <1>3 DEF ReadForRun, ReadForRequest, ReadForApproval, ReadForIssue, ReadForConsume,
                ReadForReturn, ReadForReturnNote, ReadForConfirm, lineVars
  <2>3. t.op # "handover"
    BY <2>1
  <2> QED
    BY <1>2, <2>1, <2>2, <2>3, OtherwiseNoSlip
<1>4. ASSUME NEW s \in slips, NEW m, NEW n, NEW k,
             ReadForPick(j, s, m) \/ ReadForLine(j, s, n, k)
      PROVE  SlipInv'
  <2>1. PICK t : /\ \/ t = [[op |-> "pick", slip |-> s, to |-> m[2]] EXCEPT !.slip = s]
                    \/ t = [[op |-> "line", slip |-> s, n |-> n, key |-> k] EXCEPT !.slip = s]
                 /\ job' = [job EXCEPT ![j] = t]
    BY <1>4, Zenon DEF ReadForPick, ReadForLine, ReadSlip, Start
  <2>2. UNCHANGED slips
    BY <1>4 DEF ReadForPick, ReadForLine, ReadSlip
  <2>3. t.op # "handover"
    BY <2>1
  <2> QED
    BY <1>2, <2>1, <2>2, <2>3, OtherwiseNoSlip
<1>5. ASSUME NEW s \in slips, NEW n, NEW k, ReadForHandover(j, s, n, k)
      PROVE  SlipInv'
  <2>1. PICK t : t = [[op |-> "handover", slip |-> s, n |-> n, key |-> k] EXCEPT !.slip = s]
    OBVIOUS
  <2>2. job' = [job EXCEPT ![j] = t] /\ UNCHANGED slips /\ s.key # k
    BY <1>5, <2>1 DEF ReadForHandover, ReadSlip, Start
  <2>3. t.slip = s /\ t.key = k
    BY <2>1
  <2>4. SlipJob(t)'
    BY <2>2, <2>3 DEF SlipJob
  <2> QED
    BY <1>2, <2>2, <2>4
<1>6. CASE MoveRun(j) \/ Issue(j) \/ Consume(j) \/ ReturnToStore(j) \/ DeclareReturn(j) \/ ConfirmReturn(j)
  <2>1. UNCHANGED slips /\ job' = [job EXCEPT ![j] = Idle]
    BY <1>6 DEF MoveRun, Issue, Consume, ReturnToStore, DeclareReturn, ConfirmReturn, Finish
  <2> QED
    BY <1>2, <2>1, IdleNoSlip
<1>7. CASE Request(j) \/ Pick(j) \/ HandOver(j) \/ ReceiveOnLine(j)
  BY <1>7, RequestKeepsKeys, HandOverKeepsKeys, ReceiptKeepsKeys
<1> QED
  BY <1>3, <1>4, <1>5, <1>6, <1>7 DEF MaterialStep

LEMMA SlipsStay == MaterialInv /\ SlipInv /\ [WarehouseNext]_warehouseVars => SlipInv'
<1> SUFFICES ASSUME MaterialInv, SlipInv, [WarehouseNext]_warehouseVars PROVE SlipInv'
  OBVIOUS
<1>1. CASE UNCHANGED warehouseVars
  <2>1. UNCHANGED <<slips, overtaken, job>>
    BY <1>1 DEF warehouseVars
  <2> QED
    BY <2>1 DEF SlipInv, SlipKeys, SlipJob, Numbered
<1>2. CASE WarehouseNext
  <2>1. PICK j \in Jobs : \/ HandlerDies(j)
                          \/ AtShelf(j) \/ AtOrders(j) \/ AtCouriers(j) \/ AtRequisitions(j)
                          \/ AtPurchasing(j) \/ AtQuality(j) \/ AtMaterials(j) \/ AtGoods(j)
    BY <1>2 DEF WarehouseNext
  <2>2. CASE AtMaterials(j)
    BY <2>2, MaterialsKeepKeys DEF AtMaterials
  <2>3. CASE ~ AtMaterials(j)
    <3>1. UNCHANGED slips
      BY <2>1, <2>3 DEF HandlerDies, AtShelf, AtOrders, AtCouriers, AtRequisitions, AtPurchasing,
                        AtQuality, AtGoods, StoresRest, lineVars
    <3>2. \/ HandlerDies(j)
          \/ \E ops : Works(j, ops) /\ ops \in {ShelfOps, OrderOps, CourierOps, ReqOps, PurchaseOps, BatchOps, GoodsOps}
      BY <2>1, <2>3, ShelfWorks, OrdersWork, CouriersWork, RequisitionsWork, PurchasingWorks,
         QualityWorks, GoodsWork
         DEF AtShelf, AtOrders, AtCouriers, AtRequisitions, AtPurchasing, AtQuality, AtGoods
    <3>3. "idle" \notin MaterialOps /\ \A ops \in {ShelfOps, OrderOps, CourierOps, ReqOps, PurchaseOps, BatchOps, GoodsOps} : ops \cap MaterialOps = {}
      BY DEF ShelfOps, OrderOps, CourierOps, ReqOps, BatchOps, MaterialOps, GoodsOps, PurchaseOps
    <3>4. Elsewhere(MaterialOps)
      BY <3>2, <3>3, WorksElsewhere, DeathElsewhere
    <3>5. PICK i \in Jobs : \E t : t.op \notin MaterialOps /\ job' = [job EXCEPT ![i] = t]
      BY <3>4 DEF Elsewhere
    <3>6. PICK t : t.op \notin MaterialOps /\ job' = [job EXCEPT ![i] = t]
      BY <3>5
    <3>7. SlipJob(t)'
      BY <3>6, OtherwiseNoSlip DEF MaterialOps
    <3> QED
      BY <3>1, <3>4, <3>6, <3>7, SlipsRead DEF MaterialInv, Elsewhere, HistoryGrows
  <2> QED
    BY <2>2, <2>3
<1> QED
  BY <1>1, <1>2

LEMMA SlipsStart == WarehouseInit => SlipInv
<1> SUFFICES ASSUME WarehouseInit PROVE SlipInv
  OBVIOUS
<1>1. slips = {} /\ job = [j \in Jobs |-> Idle]
  BY DEF WarehouseInit, MaterialInit, StockInit
<1>2. Numbered(slips)
  BY <1>1, FS_EmptySet DEF Numbered
<1> QED
  BY <1>1, <1>2, IdleNoSlip DEF SlipInv

(* What is issued to a run is what left the store for it less what came    *)
(* back, however requests overlap.  A direct issue with a key takes        *)
(* material out once, and a handover takes it out again for a key only if  *)
(* requests for the run overlapped or its note has another key since.  A   *)
(* run consumes no more than it was issued, unless requests for it         *)
(* overlapped or a return note gave back too much (issue, consume,         *)
(* returnToStore and the issue and return notes of the manufacturing       *)
(* services).                                                              *)
THEOREM MaterialsBalanceHolds == WarehouseSpec => []MaterialsBalance
<1>1. MaterialInv /\ SlipInv => MaterialsBalance
  <2> SUFFICES ASSUME MaterialInv, SlipInv PROVE MaterialsBalance
    OBVIOUS
  <2>1. \A s \in slips : s.again => s.run \in overtaken \/ \E k, l \in s.keys : k # l
    BY DEF SlipInv, SlipKeys
  <2> QED
    BY <2>1 DEF MaterialInv, IssuedOnce, RunOK, NoteBooked, MaterialsBalance
<1> QED
  BY <1>1, MaterialStarts, MaterialStays, SlipsStart, SlipsStay, PTL DEF WarehouseSpec

----------------------------------------------------------------------------
(* Orders and their couriers *)
LEMMA OrderStatusesAre ==
    OrderStatuses = {"ABSENT", "PENDING", "CONFIRMED", "PROCESSING", "PICKING", "PACKING",
                     "READY_FOR_DISPATCH", "DISPATCHED", "IN_TRANSIT", "DELIVERED", "COMPLETED",
                     "CANCELLED", "REFUNDED"}
<1> DEFINE Known == {"ABSENT", "PENDING", "CONFIRMED", "PROCESSING", "PICKING", "PACKING",
                     "READY_FOR_DISPATCH", "DISPATCHED", "IN_TRANSIT", "DELIVERED", "COMPLETED",
                     "CANCELLED", "REFUNDED"}
<1>1. \A t \in TRANSITIONS : t[2] \in Known
  BY DEF TRANSITIONS, ToCancel
<1>2. /\ <<"READY_FOR_DISPATCH", "DISPATCHED">> \in TRANSITIONS /\ <<"DISPATCHED", "IN_TRANSIT">> \in TRANSITIONS
      /\ <<"DISPATCHED", "DELIVERED">> \in TRANSITIONS
  BY DEF TRANSITIONS
<1>3. <<"PENDING", "CANCELLED">> \in TRANSITIONS
  <2>1. "PENDING" \in ToCancel
    BY DEF ToCancel
  <2> QED
    BY <2>1 DEF TRANSITIONS
<1>4. \A a, b : <<a, b>>[2] = b
  OBVIOUS
<1>5. {"DISPATCHED", "IN_TRANSIT", "DELIVERED", "CANCELLED"} \subseteq {t[2] : t \in TRANSITIONS}
  <2>1. ASSUME NEW a, NEW b, <<a, b>> \in TRANSITIONS PROVE b \in {t[2] : t \in TRANSITIONS}
    BY <1>4, <2>1
  <2> QED
    BY <1>2, <1>3, <2>1
<1>6. OrderStatuses \subseteq Known
  BY <1>1 DEF OrderStatuses, ToCancel
<1>7. Known \subseteq OrderStatuses
  BY <1>5 DEF OrderStatuses, ToCancel
<1> QED
  BY <1>6, <1>7

LEMMA RanksAre ==
    /\ ORDER_RANK["PENDING"] = 0 /\ ORDER_RANK["CONFIRMED"] = 1 /\ ORDER_RANK["PROCESSING"] = 2
    /\ ORDER_RANK["PICKING"] = 3 /\ ORDER_RANK["PACKING"] = 4 /\ ORDER_RANK["READY_FOR_DISPATCH"] = 5
    /\ ORDER_RANK["DISPATCHED"] = 6 /\ ORDER_RANK["IN_TRANSIT"] = 7 /\ ORDER_RANK["DELIVERED"] = 8
    /\ ORDER_RANK["COMPLETED"] = 9 /\ ORDER_RANK["CANCELLED"] = 99 /\ ORDER_RANK["REFUNDED"] = 99
<1> DEFINE S == OrderStatuses \ {"ABSENT"}
<1>1. /\ "PENDING" \in S /\ "CONFIRMED" \in S /\ "PROCESSING" \in S /\ "PICKING" \in S /\ "PACKING" \in S
      /\ "READY_FOR_DISPATCH" \in S /\ "DISPATCHED" \in S /\ "IN_TRANSIT" \in S /\ "DELIVERED" \in S
      /\ "COMPLETED" \in S /\ "CANCELLED" \in S /\ "REFUNDED" \in S
  BY OrderStatusesAre
<1> QED
  BY <1>1 DEF ORDER_RANK

(* The statuses a transition, and a courier, can give an order. *)
LEMMA TransitionsAre ==
    ASSUME NEW a, NEW b, <<a, b>> \in TRANSITIONS
    PROVE  /\ a \in OrderStatuses \ {"ABSENT", "CANCELLED", "REFUNDED", "COMPLETED"}
           /\ b \in OrderStatuses \ {"ABSENT", "REFUNDED", "PENDING"}
           /\ b = "CANCELLED" => a \in ToCancel
           /\ b = "DISPATCHED" => a = "READY_FOR_DISPATCH"
           /\ b \in ToCancel => a \in ToCancel
           /\ ORDER_RANK[a] <= ORDER_RANK[b]
<1>1. \/ a \in ToCancel /\ b = "CANCELLED"
      \/ a = "PENDING" /\ b = "CONFIRMED"
      \/ a = "CONFIRMED" /\ b = "PROCESSING"
      \/ a = "CONFIRMED" /\ b = "PICKING"
      \/ a = "PROCESSING" /\ b = "PICKING"
      \/ a = "PICKING" /\ b = "PACKING"
      \/ a = "PACKING" /\ b = "READY_FOR_DISPATCH"
      \/ a = "READY_FOR_DISPATCH" /\ b = "DISPATCHED"
      \/ a = "DISPATCHED" /\ b = "IN_TRANSIT"
      \/ a = "DISPATCHED" /\ b = "DELIVERED"
      \/ a = "IN_TRANSIT" /\ b = "DELIVERED"
      \/ a = "DELIVERED" /\ b = "COMPLETED"
  BY DEF TRANSITIONS
<1>2. "PENDING" \in ToCancel /\ "CONFIRMED" \in ToCancel /\ "PROCESSING" \in ToCancel /\ "PICKING" \in ToCancel
      /\ "PACKING" \in ToCancel /\ "READY_FOR_DISPATCH" \in ToCancel
      /\ ToCancel \subseteq {"PENDING", "CONFIRMED", "PROCESSING", "PICKING", "PACKING", "READY_FOR_DISPATCH"}
  BY DEF ToCancel
<1>3. /\ a \in OrderStatuses \ {"ABSENT", "CANCELLED", "REFUNDED", "COMPLETED"}
      /\ b \in OrderStatuses \ {"ABSENT", "REFUNDED", "PENDING"}
  BY <1>1, <1>2, OrderStatusesAre
<1>4. /\ b = "CANCELLED" => a \in ToCancel
      /\ b = "DISPATCHED" => a = "READY_FOR_DISPATCH"
      /\ b \in ToCancel => a \in ToCancel
  BY <1>1, <1>2
<1>5. ORDER_RANK[a] <= ORDER_RANK[b]
  <2>1. CASE b = "CANCELLED"
    <3>1. a \in {"PENDING", "CONFIRMED", "PROCESSING", "PICKING", "PACKING", "READY_FOR_DISPATCH"}
      BY <1>2, <1>4, <2>1
    <3> QED
      BY <2>1, <3>1, RanksAre
  <2>2. CASE b # "CANCELLED"
    <3>1. \/ a = "PENDING" /\ b = "CONFIRMED"
          \/ a = "CONFIRMED" /\ b = "PROCESSING"
          \/ a = "CONFIRMED" /\ b = "PICKING"
          \/ a = "PROCESSING" /\ b = "PICKING"
          \/ a = "PICKING" /\ b = "PACKING"
          \/ a = "PACKING" /\ b = "READY_FOR_DISPATCH"
          \/ a = "READY_FOR_DISPATCH" /\ b = "DISPATCHED"
          \/ a = "DISPATCHED" /\ b = "IN_TRANSIT"
          \/ a = "DISPATCHED" /\ b = "DELIVERED"
          \/ a = "IN_TRANSIT" /\ b = "DELIVERED"
          \/ a = "DELIVERED" /\ b = "COMPLETED"
      BY <1>1, <2>2
    <3> QED
      BY <3>1, RanksAre
  <2> QED
    BY <2>1, <2>2
<1> QED
  BY <1>3, <1>4, <1>5

StagesFor == {"READY_FOR_DISPATCH", "DISPATCHED", "IN_TRANSIT", "DELIVERED"}

LEMMA StagesAre ==
    /\ Stages = {"LABEL_CREATED", "PICKED_UP", "IN_TRANSIT", "DELIVERED"}
    /\ \A s \in Stages : SHIPMENT_TO_ORDER[s] \in StagesFor
    /\ Stages \subseteq ShipmentStatuses
BY DEF Stages, SHIPMENT_TO_ORDER, StagesFor, ShipmentStatuses

LEMMA RankTyped ==
    /\ \A s \in OrderStatuses \ {"ABSENT"} : ORDER_RANK[s] \in Nat /\ ORDER_RANK[s] <= 99
    /\ \A s \in StagesFor : s \in OrderStatuses \ {"ABSENT", "CANCELLED", "REFUNDED"} /\ ORDER_RANK[s] <= 8
    /\ \A s \in OrderStatuses \ {"ABSENT"} : s \in {"CANCELLED", "REFUNDED", "COMPLETED"} => ORDER_RANK[s] >= 9
<1>1. \A s \in OrderStatuses \ {"ABSENT"} : ORDER_RANK[s] \in Nat /\ ORDER_RANK[s] <= 99
  BY RanksAre, OrderStatusesAre
<1>2. \A s \in StagesFor : s \in OrderStatuses \ {"ABSENT", "CANCELLED", "REFUNDED"} /\ ORDER_RANK[s] <= 8
  BY RanksAre, OrderStatusesAre DEF StagesFor
<1>3. \A s \in OrderStatuses \ {"ABSENT"} : s \in {"CANCELLED", "REFUNDED", "COMPLETED"} => ORDER_RANK[s] >= 9
  BY RanksAre
<1> QED
  BY <1>1, <1>2, <1>3

LEMMA PushGoesForward ==
    ASSUME NEW a \in OrderStatuses \ {"ABSENT"}, NEW b \in StagesFor, Advances(a, b)
    PROVE  /\ b \in OrderStatuses \ {"ABSENT", "CANCELLED", "REFUNDED"}
           /\ b \in ToCancel => a \in ToCancel
           /\ ORDER_RANK[a] <= ORDER_RANK[b]
<1>1. a \notin {"CANCELLED", "REFUNDED", "COMPLETED"} /\ ORDER_RANK[b] > ORDER_RANK[a]
  BY DEF Advances
<1>2. b \in OrderStatuses \ {"ABSENT", "CANCELLED", "REFUNDED"} /\ ORDER_RANK[a] \in Nat /\ ORDER_RANK[b] \in Nat
  BY RankTyped
<1>3. b \in ToCancel => b = "READY_FOR_DISPATCH"
  BY DEF StagesFor, ToCancel
<1>4. b = "READY_FOR_DISPATCH" => a \in ToCancel
  BY <1>1, RanksAre, OrderStatusesAre DEF ToCancel
<1> QED
  BY <1>1, <1>2, <1>3, <1>4

OrderRows == [status : OrderStatuses, payStatus : {"PENDING", "PAID", "PARTIALLY_PAID", "REFUNDED"},
              paid : Int, shipped : BOOLEAN, cancelled : BOOLEAN]

OrderTypeOK ==
    /\ order \in [Orders -> OrderRows] /\ customerOrders \in Int
    /\ shipment \in [Shipments -> [status : ShipmentStatuses \cup {"ABSENT"}, order : Orders \cup {"none"}]]
    /\ reported \subseteq [shipment : Shipments, id : EventIds \cup {NoEventId}, status : ShipmentStatuses]
    /\ \A x \in Shipments : Booked(x) => shipment[x].order \in Orders /\ Exists(shipment[x].order)
    /\ \A v \in reported : Booked(v.shipment)

(* What a handler read entitles it to what it is about to write. *)
OrderJob(t) ==
    /\ t.op = "create" => t.order \in Orders /\ ~Exists(t.order)
    /\ t.op \in {"transition", "refund", "pay", "book", "project", "push"} => t.order \in Orders /\ Exists(t.order)
    /\ t.op = "transition" => <<t.from, t.to>> \in TRANSITIONS
    /\ t.op = "pay" => /\ t.saw \in Int /\ t.n \in Nat \ {0}
                       /\ t.saw <= order[t.order].paid /\ t.n <= OrderTotal - t.saw
    /\ t.op \in {"callback", "follow"} => t.shipment \in Shipments /\ Booked(t.shipment)
    /\ t.op \in {"callback", "follow", "project"} => t.to \in ShipmentStatuses
    /\ t.op = "callback" => t.event \in EventIds \cup {NoEventId}
    /\ t.op = "push" => t.from \in OrderStatuses \ {"ABSENT"} /\ t.to \in StagesFor /\ Advances(t.from, t.to)

CreatesOnce == \A i, k \in Jobs :
    job[i].op = "create" /\ job[k].op = "create" /\ job[i].order = job[k].order => i = k

(* A new order has left nothing yet, and one that nobody overtook has      *)
(* neither left the shelf nor been cancelled while it can be cancelled.    *)
StandsFor(o) ==
    /\ ~Exists(o) => ~order[o].shipped /\ ~order[o].cancelled
    /\ o \notin overtaken /\ order[o].status \in ToCancel => ~order[o].shipped /\ ~order[o].cancelled
    /\ o \notin overtaken /\ order[o].cancelled => order[o].status \in {"CANCELLED", "REFUNDED"}

(* A handler is bringing event v to order o. *)
Carries(t, v, o) ==
    \/ t.op = "follow" /\ t.shipment = v.shipment /\ t.to = v.status
    \/ t.op = "project" /\ t.order = o /\ t.to = v.status
    \/ t.op = "push" /\ t.order = o /\ ORDER_RANK[t.to] >= ORDER_RANK[SHIPMENT_TO_ORDER[v.status]]

(* It has been brought, is on its way, or the handler that had it is gone. *)
HeardOf(v) == v.status \in Stages =>
    \/ shipment[v.shipment].order \in overtaken \cup unheard
    \/ ORDER_RANK[order[shipment[v.shipment].order].status] >= ORDER_RANK[SHIPMENT_TO_ORDER[v.status]]
    \/ \E j \in Jobs : Carries(job[j], v, shipment[v.shipment].order)

OrderInv ==
    /\ OrderTypeOK /\ JobsOK /\ PaidInFull /\ CreatesOnce
    /\ \A o \in Orders : StandsFor(o)
    /\ \A v \in reported : HeardOf(v)
    /\ \A j \in Jobs : OrderJob(job[j])

LEMMA OrderTyped ==
    ASSUME OrderInv
    PROVE  /\ order \in [Orders -> OrderRows] /\ customerOrders \in Int
           /\ shipment \in [Shipments -> [status : ShipmentStatuses \cup {"ABSENT"}, order : Orders \cup {"none"}]]
           /\ reported \subseteq [shipment : Shipments, id : EventIds \cup {NoEventId}, status : ShipmentStatuses]
           /\ \A x \in Shipments : Booked(x) => shipment[x].order \in Orders /\ Exists(shipment[x].order)
           /\ \A v \in reported : Booked(v.shipment) /\ HeardOf(v)
           /\ \A j \in Jobs : OrderJob(job[j])
           /\ \A o \in Orders : StandsFor(o)
           /\ CreatesOnce /\ PaidInFull
BY DEF OrderInv, OrderTypeOK

LEMMA IdleOrder == OrderJob(Idle)
BY DEF OrderJob, Idle

(* Orders only come about, go forward and get paid. *)
Forward ==
    /\ \A o \in Orders : Exists(o) => Exists(o)' /\ order[o].paid <= order'[o].paid
    /\ \A o \in Orders : Exists(o) /\ o \notin overtaken' =>
           ORDER_RANK[order[o].status] <= ORDER_RANK[order'[o].status]
ShipmentsStay == \A x \in Shipments : Booked(x) => Booked(x)' /\ shipment'[x].order = shipment[x].order

(* Nobody but the handler that is creating it puts an order there. *)
OnlyPlaces(j) == \A o \in Orders : ~Exists(o) => ~Exists(o)' \/ (job[j].op = "create" /\ job[j].order = o)
CreatesAlone(t, j) == t.op = "create" => \A i \in Jobs \ {j} : ~(job[i].op = "create" /\ job[i].order = t.order)

LEMMA OrderJobStays ==
    ASSUME OrderTypeOK, OrderTypeOK', Forward, ShipmentsStay, NEW t, OrderJob(t),
           t.op = "create" => ~Exists(t.order)'
    PROVE  OrderJob(t)'
<1>1. t.op = "create" => t.order \in Orders /\ ~Exists(t.order)'
  BY DEF OrderJob
<1>2. t.op \in {"transition", "refund", "pay", "book", "project", "push"} => t.order \in Orders /\ Exists(t.order)'
  BY DEF OrderJob, Forward
<1>3. t.op = "transition" => <<t.from, t.to>> \in TRANSITIONS
  BY DEF OrderJob
<1>4. t.op = "pay" => /\ t.saw \in Int /\ t.n \in Nat \ {0}
                      /\ t.saw <= order'[t.order].paid /\ t.n <= OrderTotal - t.saw
  <2> SUFFICES ASSUME t.op = "pay"
               PROVE  /\ t.saw \in Int /\ t.n \in Nat \ {0}
                      /\ t.saw <= order'[t.order].paid /\ t.n <= OrderTotal - t.saw
    OBVIOUS
  <2>1. /\ t.saw \in Int /\ t.n \in Nat \ {0} /\ t.order \in Orders /\ Exists(t.order)
        /\ t.saw <= order[t.order].paid /\ t.n <= OrderTotal - t.saw
    BY DEF OrderJob
  <2>2. order[t.order].paid <= order'[t.order].paid
    BY <2>1 DEF Forward
  <2>3. order[t.order].paid \in Int /\ order'[t.order].paid \in Int
    BY <2>1 DEF OrderTypeOK, OrderRows
  <2> QED
    BY <2>1, <2>2, <2>3
<1>5. /\ t.op \in {"callback", "follow"} => t.shipment \in Shipments /\ Booked(t.shipment)'
      /\ t.op \in {"callback", "follow", "project"} => t.to \in ShipmentStatuses
      /\ t.op = "callback" => t.event \in EventIds \cup {NoEventId}
      /\ t.op = "push" => t.from \in OrderStatuses \ {"ABSENT"} /\ t.to \in StagesFor /\ Advances(t.from, t.to)
  BY DEF OrderJob, ShipmentsStay
<1> QED
  BY <1>1, <1>2, <1>3, <1>4, <1>5 DEF OrderJob

LEMMA OrderJobs ==
    ASSUME OrderInv, OrderTypeOK', Forward, ShipmentsStay, NEW j \in Jobs, OnlyPlaces(j),
           NEW t, job' = [job EXCEPT ![j] = t], OrderJob(t)', CreatesAlone(t, j)
    PROVE  (\A i \in Jobs : OrderJob(job[i]))' /\ CreatesOnce'
<1>1. \A i \in Jobs : job'[i] = IF i = j THEN t ELSE job[i]
  BY DEF OrderInv, JobsOK
<1>2. ASSUME NEW i \in Jobs PROVE OrderJob(job[i])'
  <2>1. CASE i = j
    <3>1. job'[i] = t
      BY <1>1, <2>1
    <3> QED
      BY <3>1 DEF OrderJob
  <2>2. CASE i # j
    <3>1. PICK k : k = job[i]
      OBVIOUS
    <3>2. job'[i] = k /\ OrderJob(k)
      BY <1>1, <2>2, <3>1, OrderTyped
    <3>3. k.op = "create" => ~Exists(k.order)'
      <4>1. k.op = "create" => k.order \in Orders /\ ~Exists(k.order)
        BY <3>2 DEF OrderJob
      <4>2. k.op = "create" => ~(job[j].op = "create" /\ job[j].order = k.order)
        BY <2>2, <3>1, OrderTyped DEF CreatesOnce
      <4> QED
        BY <4>1, <4>2 DEF OnlyPlaces
    <3>4. OrderJob(k)'
      BY <3>2, <3>3, OrderJobStays DEF OrderInv
    <3> QED
      BY <3>2, <3>4 DEF OrderJob
  <2> QED
    BY <2>1, <2>2
<1>3. CreatesOnce'
  BY <1>1, OrderTyped DEF CreatesOnce, CreatesAlone
<1> QED
  BY <1>2, <1>3

(* What the handler was carrying it has delivered, or still carries. *)
HandsOn(u, t) == \A v \in reported :
    v.status \in Stages /\ Carries(u, v, shipment[v.shipment].order) =>
        \/ shipment[v.shipment].order \in overtaken' \cup unheard'
        \/ ORDER_RANK[order'[shipment[v.shipment].order].status] >= ORDER_RANK[SHIPMENT_TO_ORDER[v.status]]
        \/ Carries(t, v, shipment[v.shipment].order)

LEMMA NewsStays ==
    ASSUME OrderInv, OrderTypeOK', Forward, ShipmentsStay, overtaken \subseteq overtaken', unheard \subseteq unheard',
           NEW j \in Jobs, NEW t, job' = [job EXCEPT ![j] = t], HandsOn(job[j], t), NEW v \in reported
    PROVE  HeardOf(v)'
<1>1. PICK o : o = shipment[v.shipment].order
  OBVIOUS
<1>2. v.shipment \in Shipments /\ Booked(v.shipment) /\ HeardOf(v) /\ o \in Orders /\ Exists(o)
  BY <1>1, OrderTyped
<1>3. shipment'[v.shipment].order = o
  BY <1>1, <1>2 DEF ShipmentsStay
<1> SUFFICES ASSUME v.status \in Stages, o \notin overtaken', o \notin unheard',
                    ~(\E i \in Jobs : Carries(job'[i], v, o))
             PROVE  ORDER_RANK[order'[o].status] >= ORDER_RANK[SHIPMENT_TO_ORDER[v.status]]
  BY <1>3 DEF HeardOf, Carries
<1>4. \/ ORDER_RANK[order[o].status] >= ORDER_RANK[SHIPMENT_TO_ORDER[v.status]]
      \/ \E i \in Jobs : Carries(job[i], v, o)
  BY <1>1, <1>2 DEF HeardOf
<1>5. ASSUME NEW i \in Jobs, Carries(job[i], v, o)
      PROVE  ORDER_RANK[order'[o].status] >= ORDER_RANK[SHIPMENT_TO_ORDER[v.status]]
  <2>1. i = j
    <3>1. i # j => job'[i] = job[i]
      BY DEF OrderInv, JobsOK
    <3> QED
      BY <1>5, <3>1
  <2>2. job'[j] = t
    BY DEF OrderInv, JobsOK
  <2>3. ~Carries(t, v, o)
    BY <2>2
  <2> QED
    BY <1>1, <1>5, <2>1, <2>3 DEF HandsOn
<1>6. ASSUME ORDER_RANK[order[o].status] >= ORDER_RANK[SHIPMENT_TO_ORDER[v.status]]
      PROVE  ORDER_RANK[order'[o].status] >= ORDER_RANK[SHIPMENT_TO_ORDER[v.status]]
  <2>1. ORDER_RANK[order[o].status] <= ORDER_RANK[order'[o].status]
    BY <1>2 DEF Forward
  <2>2. /\ order[o].status \in OrderStatuses \ {"ABSENT"} /\ order'[o].status \in OrderStatuses \ {"ABSENT"}
        /\ SHIPMENT_TO_ORDER[v.status] \in OrderStatuses \ {"ABSENT"}
    BY <1>2, StagesAre, RankTyped DEF OrderInv, OrderTypeOK, OrderRows, Exists, Forward
  <2>3. PICK a \in Nat, b \in Nat, c \in Nat : /\ a = ORDER_RANK[order[o].status] /\ b = ORDER_RANK[order'[o].status]
                                               /\ c = ORDER_RANK[SHIPMENT_TO_ORDER[v.status]]
    BY <2>2, RankTyped
  <2> QED
    BY <1>6, <2>1, <2>3
<1> QED
  BY <1>4, <1>5, <1>6

LEMMA PaidStays ==
    ASSUME OrderInv, overtaken \subseteq overtaken', UNCHANGED customerOrders,
           \A o \in Orders : order'[o].paid = order[o].paid /\ (order'[o].payStatus = "PAID" => order[o].payStatus = "PAID")
    PROVE  PaidInFull'
<1>1. {o \in Orders : order[o].paid >= OrderTotal}' = {o \in Orders : order[o].paid >= OrderTotal}
  OBVIOUS
<1> QED
  BY <1>1, OrderTyped DEF PaidInFull

(* A handler that leaves the orders alone. *)
LEMMA OrderLooks ==
    ASSUME OrderInv, JobsOK', OrderTypeOK', ShipmentsStay,
           UNCHANGED <<order, customerOrders>>, overtaken \subseteq overtaken', unheard \subseteq unheard',
           NEW j \in Jobs, NEW t, job' = [job EXCEPT ![j] = t], OrderJob(t)', CreatesAlone(t, j),
           HandsOn(job[j], t),
           \A v \in reported' \ reported : Carries(t, v, shipment'[v.shipment].order)
    PROVE  OrderInv'
<1>1. Forward
  <2>1. \A o \in Orders : order[o].paid \in Int
    BY OrderTyped DEF OrderRows
  <2>2. \A o \in Orders : Exists(o) => ORDER_RANK[order[o].status] \in Nat
    BY OrderTyped, RankTyped DEF OrderRows, Exists
  <2> QED
    BY <2>1, <2>2 DEF Forward, Exists
<1>2. (\A i \in Jobs : OrderJob(job[i]))' /\ CreatesOnce'
  <2>1. OnlyPlaces(j)
    BY DEF OnlyPlaces, Exists
  <2> QED
    BY <1>1, <2>1, OrderJobs
<1>3. PaidInFull'
  BY PaidStays
<1>4. \A o \in Orders : StandsFor(o)'
  BY OrderTyped DEF StandsFor, Exists
<1>5. ASSUME NEW v \in reported' PROVE HeardOf(v)'
  <2>1. CASE v \in reported
    BY <1>1, <2>1, NewsStays
  <2>2. CASE v \notin reported
    <3>1. Carries(t, v, shipment'[v.shipment].order)
      BY <2>2
    <3>2. job'[j] = t
      BY DEF OrderInv, JobsOK
    <3> QED
      BY <3>1, <3>2 DEF HeardOf, Carries
  <2> QED
    BY <2>1, <2>2
<1> QED
  BY <1>2, <1>3, <1>4, <1>5 DEF OrderInv

LEMMA OrderPeeks ==
    ASSUME OrderInv, NEW j \in Jobs, NEW t, job' = [job EXCEPT ![j] = t], OrderJob(t), CreatesAlone(t, j),
           job[j].op \notin {"follow", "project", "push"}, overtaken \subseteq overtaken',
           UNCHANGED <<order, customerOrders, shipment, reported, unheard>>
    PROVE  OrderInv'
<1>1. JobsOK'
  BY DEF OrderInv, JobsOK
<1>2. OrderTypeOK'
  BY DEF OrderInv, OrderTypeOK, Booked, Exists
<1>3. ShipmentsStay
  BY DEF ShipmentsStay, Booked
<1>4. OrderJob(t)'
  BY DEF OrderJob, Exists, Booked
<1>5. HandsOn(job[j], t)
  BY DEF HandsOn, Carries
<1> QED
  BY <1>1, <1>2, <1>3, <1>4, <1>5, OrderLooks

LEMMA OrderReads ==
    ASSUME OrderInv, NEW j \in Jobs,
           \/ \E o \in Orders, coupon \in BOOLEAN : ValidateCoupon(j, o, coupon)
           \/ \E o \in Orders, to \in OrderStatuses : ReadForTransition(j, o, to)
           \/ \E o \in Orders : ReadForRefund(j, o)
           \/ \E o \in Orders, amount \in {1, OrderTotal} : ReadForPayment(j, o, amount),
           UNCHANGED courierVars
    PROVE  OrderInv'
<1>1. /\ job[j].op \notin {"follow", "project", "push"}
      /\ UNCHANGED <<order, customerOrders, shipment, reported, unheard, overtaken>>
  <2>1. job[j] = Idle /\ UNCHANGED <<stockVars, orderVars>>
    BY DEF ValidateCoupon, ReadForTransition, ReadForRefund, ReadForPayment, Start
  <2> QED
    BY <2>1 DEF Idle, stockVars, orderVars, courierVars
<1>2. ASSUME NEW o \in Orders, NEW coupon \in BOOLEAN, ValidateCoupon(j, o, coupon) PROVE OrderInv'
  <2>1. PICK t : t = [op |-> "create", order |-> o, coupon |-> coupon]
    OBVIOUS
  <2>2. job' = [job EXCEPT ![j] = t] /\ OrderJob(t)
    BY <1>2, <2>1 DEF ValidateCoupon, Start, OrderJob
  <2>3. CreatesAlone(t, j)
    BY <1>2, <2>1 DEF ValidateCoupon, CreatesAlone, Doing, Idle
  <2> QED
    BY <1>1, <2>2, <2>3, OrderPeeks
<1>3. ASSUME NEW o \in Orders, NEW to \in OrderStatuses, ReadForTransition(j, o, to) PROVE OrderInv'
  <2>1. PICK t : t = [op |-> "transition", order |-> o, from |-> order[o].status, to |-> to]
    OBVIOUS
  <2>2. <<order[o].status, to>> \in TRANSITIONS /\ job' = [job EXCEPT ![j] = t]
    BY <1>3, <2>1 DEF ReadForTransition, Start
  <2>3. Exists(o)
    BY <2>2, TransitionsAre DEF Exists
  <2>4. OrderJob(t) /\ CreatesAlone(t, j)
    BY <2>1, <2>2, <2>3 DEF OrderJob, CreatesAlone
  <2> QED
    BY <1>1, <2>2, <2>4, OrderPeeks
<1>4. ASSUME NEW o \in Orders, ReadForRefund(j, o) PROVE OrderInv'
  <2>1. PICK t : t = [op |-> "refund", order |-> o, from |-> order[o].status]
    OBVIOUS
  <2>2. job' = [job EXCEPT ![j] = t] /\ OrderJob(t) /\ CreatesAlone(t, j)
    BY <1>4, <2>1 DEF ReadForRefund, Start, OrderJob, CreatesAlone
  <2> QED
    BY <1>1, <2>2, OrderPeeks
<1>5. ASSUME NEW o \in Orders, NEW n \in {1, OrderTotal}, ReadForPayment(j, o, n) PROVE OrderInv'
  <2>1. PICK t : t = [op |-> "pay", order |-> o, n |-> n, saw |-> order[o].paid]
    OBVIOUS
  <2>2. order[o].paid \in Int /\ n \in Nat \ {0}
    BY OrderTyped, OrderAssumption DEF OrderRows
  <2>3. job' = [job EXCEPT ![j] = t] /\ Exists(o) /\ n <= OrderTotal - order[o].paid
    BY <1>5, <2>1 DEF ReadForPayment, Start
  <2>4. OrderJob(t) /\ CreatesAlone(t, j)
    BY <2>1, <2>2, <2>3 DEF OrderJob, CreatesAlone
  <2> QED
    BY <1>1, <2>3, <2>4, OrderPeeks
<1> QED
  BY <1>2, <1>3, <1>4, <1>5

LEMMA ShipmentBooked ==
    ASSUME OrderInv, NEW j \in Jobs, NEW x \in Shipments, NEW s \in ShipmentStatuses, BookShipment(j, x, s)
    PROVE  OrderInv'
<1>1. PICK o : o = job[j].order
  OBVIOUS
<1>2. PICK t : t = [op |-> "project", order |-> o, to |-> s]
  OBVIOUS
<1>3. o \in Orders /\ Exists(o) /\ job[j].op = "book"
  BY <1>1, OrderTyped DEF OrderJob, BookShipment, Doing
<1>4. /\ ~Booked(x) /\ shipment' = [shipment EXCEPT ![x] = [status |-> s, order |-> o]]
      /\ reported' = reported \cup {[shipment |-> x, id |-> NoEventId, status |-> s]}
      /\ UNCHANGED <<order, customerOrders, overtaken, unheard>>
  BY <1>1 DEF BookShipment, Record, stockVars, orderVars
<1>5. shipment' \in [Shipments -> [status : ShipmentStatuses \cup {"ABSENT"}, order : Orders \cup {"none"}]]
  BY <1>3, <1>4, OrderTyped
<1>6. shipment'[x] = [status |-> s, order |-> o] /\ \A y \in Shipments \ {x} : shipment'[y] = shipment[y]
  BY <1>4, OrderTyped
<1>7. job' = [job EXCEPT ![j] = t]
  <2>1. shipment'[x].order = o
    BY <1>6
  <2>2. job' = [job EXCEPT ![j] = [op |-> "project", order |-> shipment'[x].order, to |-> s]]
    BY DEF BookShipment, Project, Goes
  <2> QED
    BY <1>2, <2>1, <2>2
<1>8. s # "ABSENT"
  BY StagesAre DEF ShipmentStatuses
<1>9. ShipmentsStay
  BY <1>4, <1>6 DEF ShipmentsStay, Booked
<1>10. OrderTypeOK'
  <2>1. \A y \in Shipments : (Booked(y) => shipment[y].order \in Orders /\ Exists(shipment[y].order))'
    BY <1>3, <1>4, <1>6, OrderTyped DEF Booked, Exists
  <2>2. \A v \in reported' : Booked(v.shipment)'
    BY <1>4, <1>6, <1>8, <1>9, OrderTyped DEF ShipmentsStay, Booked
  <2>3. reported' \subseteq [shipment : Shipments, id : EventIds \cup {NoEventId}, status : ShipmentStatuses]
    BY <1>4, OrderTyped
  <2> QED
    BY <1>4, <1>5, <2>1, <2>2, <2>3 DEF OrderInv, OrderTypeOK
<1>11. JobsOK'
  BY <1>7 DEF OrderInv, JobsOK
<1>12. OrderJob(t)' /\ CreatesAlone(t, j)
  BY <1>2, <1>3, <1>4 DEF OrderJob, CreatesAlone, Exists
<1>13. HandsOn(job[j], t)
  BY <1>3 DEF HandsOn, Carries
<1>14. \A v \in reported' \ reported : Carries(t, v, shipment'[v.shipment].order)
  BY <1>2, <1>4, <1>6 DEF Carries
<1> QED
  BY <1>4, <1>7, <1>9, <1>10, <1>11, <1>12, <1>13, <1>14, OrderLooks

(* A shipment whose status is written, by staff or after an event. *)
LEMMA ShipmentMoves ==
    ASSUME OrderInv, NEW x \in Shipments, NEW s \in ShipmentStatuses, Booked(x),
           shipment' = [shipment EXCEPT ![x].status = s]
    PROVE  /\ shipment' \in [Shipments -> [status : ShipmentStatuses \cup {"ABSENT"}, order : Orders \cup {"none"}]]
           /\ ShipmentsStay /\ \A y \in Shipments : shipment'[y].order = shipment[y].order /\ (Booked(y)' => Booked(y))
           /\ \A y \in Shipments : Booked(y)' => shipment'[y].order \in Orders /\ Exists(shipment'[y].order)
<1>1. PICK e : e = [shipment[x] EXCEPT !.status = s]
  OBVIOUS
<1>2. shipment' = [shipment EXCEPT ![x] = e]
  BY <1>1
<1>3. e \in [status : ShipmentStatuses \cup {"ABSENT"}, order : Orders \cup {"none"}]
      /\ e.order = shipment[x].order /\ e.status = s
  BY <1>1, OrderTyped
<1>4. shipment'[x] = e /\ \A y \in Shipments \ {x} : shipment'[y] = shipment[y]
  BY <1>2, OrderTyped
<1>5. shipment' \in [Shipments -> [status : ShipmentStatuses \cup {"ABSENT"}, order : Orders \cup {"none"}]]
  BY <1>2, <1>3, OrderTyped
<1>6. s # "ABSENT"
  BY StagesAre DEF ShipmentStatuses
<1>7. \A y \in Shipments : shipment'[y].order = shipment[y].order /\ (Booked(y)' <=> Booked(y))
  BY <1>3, <1>4, <1>6 DEF Booked
<1> QED
  BY <1>5, <1>7, OrderTyped DEF ShipmentsStay

LEMMA ShipmentStatusSet ==
    ASSUME OrderInv, NEW j \in Jobs, NEW x \in Shipments, NEW s \in ShipmentStatuses, SetShipmentStatus(j, x, s)
    PROVE  OrderInv'
<1>1. PICK o : o = shipment[x].order
  OBVIOUS
<1>2. PICK t : t = [op |-> "project", order |-> o, to |-> s]
  OBVIOUS
<1>3. /\ Booked(x) /\ shipment' = [shipment EXCEPT ![x].status = s]
      /\ reported' = reported \cup {[shipment |-> x, id |-> NoEventId, status |-> s]}
      /\ UNCHANGED <<order, customerOrders, overtaken, unheard>> /\ job[j] = Idle
  BY DEF SetShipmentStatus, Record, stockVars, orderVars
<1>4. o \in Orders /\ Exists(o)
  BY <1>1, <1>3, OrderTyped
<1>5. /\ shipment' \in [Shipments -> [status : ShipmentStatuses \cup {"ABSENT"}, order : Orders \cup {"none"}]]
      /\ ShipmentsStay /\ \A y \in Shipments : shipment'[y].order = shipment[y].order
      /\ \A y \in Shipments : Booked(y)' => shipment'[y].order \in Orders /\ Exists(shipment'[y].order)
  BY <1>3, ShipmentMoves
<1>6. job' = [job EXCEPT ![j] = t]
  BY <1>1, <1>2, <1>5 DEF SetShipmentStatus, Project, Goes
<1>7. OrderTypeOK'
  <2>1. \A y \in Shipments : (Booked(y) => Exists(shipment[y].order))'
    BY <1>3, <1>5 DEF Exists
  <2>2. \A v \in reported' : Booked(v.shipment)'
    BY <1>3, <1>5, OrderTyped DEF ShipmentsStay
  <2>3. reported' \subseteq [shipment : Shipments, id : EventIds \cup {NoEventId}, status : ShipmentStatuses]
    BY <1>3, OrderTyped
  <2> QED
    BY <1>3, <1>5, <2>1, <2>2, <2>3 DEF OrderInv, OrderTypeOK
<1>8. JobsOK'
  BY <1>6 DEF OrderInv, JobsOK
<1>9. OrderJob(t)' /\ CreatesAlone(t, j)
  BY <1>2, <1>3, <1>4 DEF OrderJob, CreatesAlone, Exists
<1>10. HandsOn(job[j], t)
  BY <1>3 DEF HandsOn, Carries, Idle
<1>11. \A v \in reported' \ reported : Carries(t, v, shipment'[v.shipment].order)
  BY <1>1, <1>2, <1>3, <1>5 DEF Carries
<1> QED
  BY <1>3, <1>5, <1>6, <1>7, <1>8, <1>9, <1>10, <1>11, OrderLooks

LEMMA CourierReads ==
    ASSUME OrderInv, NEW j \in Jobs,
           \/ \E o \in Orders : ReadForBooking(j, o)
           \/ \E x \in Shipments, s \in ShipmentStatuses, e \in EventIds \cup {NoEventId} : Callback(j, x, s, e)
    PROVE  OrderInv'
<1>1. /\ job[j].op \notin {"follow", "project", "push"}
      /\ UNCHANGED <<order, customerOrders, shipment, reported, unheard, overtaken>>
  BY DEF ReadForBooking, Callback, Start, Idle, stockVars, orderVars, courierVars
<1>2. ASSUME NEW o \in Orders, ReadForBooking(j, o) PROVE OrderInv'
  <2>1. PICK t : t = [op |-> "book", order |-> o]
    OBVIOUS
  <2>2. job' = [job EXCEPT ![j] = t] /\ OrderJob(t) /\ CreatesAlone(t, j)
    BY <1>2, <2>1 DEF ReadForBooking, Start, OrderJob, CreatesAlone
  <2> QED
    BY <1>1, <2>2, OrderPeeks
<1>3. ASSUME NEW x \in Shipments, NEW s \in ShipmentStatuses, NEW e \in EventIds \cup {NoEventId},
             Callback(j, x, s, e)
      PROVE  OrderInv'
  <2>1. PICK t : t = [op |-> "callback", shipment |-> x, to |-> s, event |-> e]
    OBVIOUS
  <2>2. job' = [job EXCEPT ![j] = t] /\ OrderJob(t) /\ CreatesAlone(t, j)
    BY <1>3, <2>1 DEF Callback, Start, OrderJob, CreatesAlone
  <2> QED
    BY <1>1, <2>2, OrderPeeks
<1> QED
  BY <1>2, <1>3

LEMMA EventRecorded ==
    ASSUME OrderInv, NEW j \in Jobs, RecordEvent(j)
    PROVE  OrderInv'
<1>1. PICK x, s, e : x = job[j].shipment /\ s = job[j].to /\ e = job[j].event
  OBVIOUS
<1>2. PICK t : t = [op |-> "follow", shipment |-> x, to |-> s]
  OBVIOUS
<1>3. /\ job[j].op = "callback" /\ reported' = reported \cup {[shipment |-> x, id |-> e, status |-> s]}
      /\ job' = [job EXCEPT ![j] = t] /\ UNCHANGED <<order, customerOrders, shipment, overtaken, unheard>>
  BY <1>1, <1>2 DEF RecordEvent, Doing, Record, Goes, stockVars, orderVars
<1>4. x \in Shipments /\ Booked(x) /\ s \in ShipmentStatuses /\ e \in EventIds \cup {NoEventId}
  BY <1>1, <1>3, OrderTyped DEF OrderJob
<1>5. OrderTypeOK'
  <2>1. reported' \subseteq [shipment : Shipments, id : EventIds \cup {NoEventId}, status : ShipmentStatuses]
    BY <1>3, <1>4, OrderTyped
  <2>2. \A v \in reported' : Booked(v.shipment)'
    BY <1>3, <1>4, OrderTyped DEF Booked
  <2>3. \A y \in Shipments : (Booked(y) => shipment[y].order \in Orders /\ Exists(shipment[y].order))'
    BY <1>3, OrderTyped DEF Booked, Exists
  <2> QED
    BY <1>3, <2>1, <2>2, <2>3 DEF OrderInv, OrderTypeOK
<1>6. JobsOK'
  BY <1>3 DEF OrderInv, JobsOK
<1>7. ShipmentsStay
  BY <1>3 DEF ShipmentsStay, Booked
<1>8. OrderJob(t)' /\ CreatesAlone(t, j)
  BY <1>2, <1>3, <1>4 DEF OrderJob, CreatesAlone, Booked
<1>9. HandsOn(job[j], t)
  BY <1>3 DEF HandsOn, Carries
<1>10. \A v \in reported' \ reported : Carries(t, v, shipment'[v.shipment].order)
  BY <1>2, <1>3 DEF Carries
<1> QED
  BY <1>3, <1>5, <1>6, <1>7, <1>8, <1>9, <1>10, OrderLooks

LEMMA EventFollowed ==
    ASSUME OrderInv, NEW j \in Jobs, FollowEvent(j)
    PROVE  OrderInv'
<1>1. PICK x, s : x = job[j].shipment /\ s = job[j].to
  OBVIOUS
<1>2. PICK o : o = shipment[x].order
  OBVIOUS
<1>3. PICK t : t = [op |-> "project", order |-> o, to |-> s]
  OBVIOUS
<1>4. /\ job[j].op = "follow" /\ shipment' = [shipment EXCEPT ![x].status = s]
      /\ UNCHANGED <<order, customerOrders, reported, overtaken, unheard>>
  BY <1>1 DEF FollowEvent, Doing, stockVars, orderVars
<1>5. x \in Shipments /\ Booked(x) /\ s \in ShipmentStatuses
  BY <1>1, <1>4, OrderTyped DEF OrderJob
<1>6. o \in Orders /\ Exists(o)
  BY <1>2, <1>5, OrderTyped
<1>7. /\ shipment' \in [Shipments -> [status : ShipmentStatuses \cup {"ABSENT"}, order : Orders \cup {"none"}]]
      /\ ShipmentsStay /\ \A y \in Shipments : shipment'[y].order = shipment[y].order
      /\ \A y \in Shipments : Booked(y)' => shipment'[y].order \in Orders /\ Exists(shipment'[y].order)
  BY <1>4, <1>5, ShipmentMoves
<1>8. job' = [job EXCEPT ![j] = t]
  BY <1>1, <1>2, <1>3, <1>5, <1>7 DEF FollowEvent, Project, Goes
<1>9. OrderTypeOK'
  <2>1. \A y \in Shipments : (Booked(y) => Exists(shipment[y].order))'
    BY <1>4, <1>7 DEF Exists
  <2>2. \A v \in reported' : Booked(v.shipment)'
    BY <1>4, <1>7, OrderTyped DEF ShipmentsStay
  <2> QED
    BY <1>4, <1>7, <2>1, <2>2 DEF OrderInv, OrderTypeOK
<1>10. JobsOK'
  BY <1>8 DEF OrderInv, JobsOK
<1>11. OrderJob(t)' /\ CreatesAlone(t, j)
  BY <1>3, <1>4, <1>5, <1>6 DEF OrderJob, CreatesAlone, Exists
<1>12. HandsOn(job[j], t)
  BY <1>1, <1>2, <1>3, <1>4 DEF HandsOn, Carries
<1> QED
  BY <1>4, <1>7, <1>8, <1>9, <1>10, <1>11, <1>12, OrderLooks

(* A handler that writes one order and is done. *)
LEMMA OrderRewritten ==
    ASSUME OrderInv, NEW j \in Jobs, NEW o \in Orders, NEW e \in OrderRows, order' = [order EXCEPT ![o] = e],
           e.status # "ABSENT", order[o].paid <= e.paid,
           Exists(o) => o \in overtaken' \/ ORDER_RANK[order[o].status] <= ORDER_RANK[e.status],
           ~Exists(o) => job[j].op = "create" /\ job[j].order = o,
           o \notin overtaken' /\ e.status \in ToCancel => ~e.shipped /\ ~e.cancelled,
           o \notin overtaken' /\ e.cancelled => e.status \in {"CANCELLED", "REFUNDED"},
           overtaken \subseteq overtaken', UNCHANGED <<shipment, reported, unheard>>, customerOrders' \in Int,
           Finish(j), HandsOn(job[j], Idle), PaidInFull'
    PROVE  OrderInv'
<1>1. order'[o] = e /\ \A p \in Orders \ {o} : order'[p] = order[p]
  BY OrderTyped
<1>2. order' \in [Orders -> OrderRows]
  BY OrderTyped
<1>3. \A p \in Orders : Exists(p) => Exists(p)'
  BY <1>1 DEF Exists
<1>4. OrderTypeOK'
  <2>1. \A y \in Shipments : (Booked(y) => shipment[y].order \in Orders /\ Exists(shipment[y].order))'
    BY <1>3, OrderTyped DEF Booked
  <2> QED
    BY <1>2, <2>1 DEF OrderInv, OrderTypeOK, Booked
<1>5. Forward
  <2>1. \A p \in Orders : Exists(p) => order[p].paid <= order'[p].paid
    <3>1. \A p \in Orders : order[p].paid \in Int
      BY OrderTyped DEF OrderRows
    <3> QED
      BY <1>1, <3>1
  <2>2. \A p \in Orders : Exists(p) /\ p \notin overtaken' =>
            ORDER_RANK[order[p].status] <= ORDER_RANK[order'[p].status]
    <3>1. \A p \in Orders : Exists(p) => ORDER_RANK[order[p].status] \in Nat
      BY OrderTyped, RankTyped DEF OrderRows, Exists
    <3> QED
      BY <1>1, <3>1
  <2> QED
    BY <1>3, <2>1, <2>2 DEF Forward
<1>6. ShipmentsStay
  BY DEF ShipmentsStay, Booked
<1>7. OnlyPlaces(j)
  BY <1>1 DEF OnlyPlaces, Exists
<1>8. job' = [job EXCEPT ![j] = Idle]
  BY DEF Finish
<1>9. JobsOK'
  BY <1>8 DEF OrderInv, JobsOK
<1>10. (\A i \in Jobs : OrderJob(job[i]))' /\ CreatesOnce'
  <2>1. OrderJob(Idle)' /\ CreatesAlone(Idle, j)
    BY DEF OrderJob, CreatesAlone, Idle
  <2> QED
    BY <1>4, <1>5, <1>6, <1>7, <1>8, <2>1, OrderJobs
<1>11. \A p \in Orders : StandsFor(p)'
  <2>1. StandsFor(o)'
    BY <1>1 DEF StandsFor, Exists
  <2>2. \A p \in Orders \ {o} : StandsFor(p)'
    BY <1>1, OrderTyped DEF StandsFor, Exists
  <2> QED
    BY <2>1, <2>2
<1>12. \A v \in reported : HeardOf(v)'
  BY <1>4, <1>5, <1>6, <1>8, NewsStays
<1> QED
  BY <1>4, <1>9, <1>10, <1>11, <1>12 DEF OrderInv

LEMMA OrderPlaced ==
    ASSUME OrderInv, NEW j \in Jobs, PlaceOrder(j), UNCHANGED courierVars
    PROVE  OrderInv'
<1>1. PICK o : o = job[j].order
  OBVIOUS
<1>2. job[j].op = "create" /\ o \in Orders /\ ~Exists(o)
  BY <1>1, OrderTyped DEF OrderJob, PlaceOrder, Doing
<1>3. PICK e : e = [order[o] EXCEPT !.status = "PENDING"]
  OBVIOUS
<1>4. /\ order' = [order EXCEPT ![o] = e] /\ Finish(j)
      /\ UNCHANGED <<overtaken, customerOrders, shipment, reported, unheard>>
  BY <1>1, <1>3 DEF PlaceOrder, courierVars
<1>5. /\ e \in OrderRows /\ e.status = "PENDING" /\ e.paid = order[o].paid /\ e.payStatus = order[o].payStatus
      /\ e.shipped = order[o].shipped /\ e.cancelled = order[o].cancelled
  BY <1>2, <1>3, OrderTyped, OrderStatusesAre DEF OrderRows
<1>6. order[o].paid <= e.paid /\ customerOrders \in Int
  BY <1>2, <1>5, OrderTyped DEF OrderRows
<1>7. ~e.shipped /\ ~e.cancelled
  BY <1>2, <1>5, OrderTyped DEF StandsFor
<1>8. HandsOn(job[j], Idle)
  BY <1>2 DEF HandsOn, Carries
<1>9. PaidInFull'
  <2>1. \A p \in Orders : order'[p].paid = order[p].paid /\ order'[p].payStatus = order[p].payStatus
    BY <1>4, <1>5, OrderTyped
  <2> QED
    BY <1>4, <2>1, PaidStays
<1> QED
  BY <1>1, <1>2, <1>4, <1>5, <1>6, <1>7, <1>8, <1>9, OrderRewritten

LEMMA OrderTransitions ==
    ASSUME OrderInv, NEW j \in Jobs, Transition(j), UNCHANGED courierVars
    PROVE  OrderInv'
<1>1. PICK o, from, to : o = job[j].order /\ from = job[j].from /\ to = job[j].to
  OBVIOUS
<1>2. job[j].op = "transition" /\ o \in Orders /\ Exists(o) /\ <<from, to>> \in TRANSITIONS
  BY <1>1, OrderTyped DEF OrderJob, Transition, Doing
<1>3. PICK e : e = [order[o] EXCEPT !.status = to, !.shipped = @ \/ to = "DISPATCHED",
                                    !.cancelled = @ \/ to = "CANCELLED"]
  OBVIOUS
<1>4. /\ order' = [order EXCEPT ![o] = e] /\ Finish(j)
      /\ overtaken' = overtaken \cup (IF order[o].status # from THEN {o} ELSE {})
      /\ UNCHANGED <<customerOrders, shipment, reported, unheard>>
  <2>1. order' = [order EXCEPT ![o].status = to, ![o].shipped = @ \/ to = "DISPATCHED",
                               ![o].cancelled = @ \/ to = "CANCELLED"]
    BY <1>1 DEF Transition
  <2>2. order' = [order EXCEPT ![o] = e]
    BY <1>3, <2>1
  <2> QED
    BY <1>1, <2>2 DEF Transition, Overtaken, courierVars
<1>5. /\ from \in OrderStatuses \ {"ABSENT", "CANCELLED", "REFUNDED", "COMPLETED"}
      /\ to \in OrderStatuses \ {"ABSENT", "REFUNDED", "PENDING"}
      /\ to = "CANCELLED" => from \in ToCancel
      /\ to = "DISPATCHED" => from = "READY_FOR_DISPATCH"
      /\ to \in ToCancel => from \in ToCancel
      /\ ORDER_RANK[from] <= ORDER_RANK[to]
  BY <1>2, TransitionsAre
<1>6. /\ e \in OrderRows /\ e.status = to /\ e.paid = order[o].paid /\ e.payStatus = order[o].payStatus
      /\ e.shipped = (order[o].shipped \/ to = "DISPATCHED")
      /\ e.cancelled = (order[o].cancelled \/ to = "CANCELLED")
  <2>1. order[o] \in OrderRows
    BY <1>2, OrderTyped
  <2>2. to \in OrderStatuses
    BY <1>5
  <2> QED
    BY <1>3, <2>1, <2>2 DEF OrderRows
<1>7. order[o].paid <= e.paid /\ customerOrders \in Int
  BY <1>2, <1>6, OrderTyped DEF OrderRows
<1>8. o \notin overtaken' => o \notin overtaken /\ order[o].status = from
  BY <1>4
<1>9. o \notin overtaken' /\ to \in ToCancel => ~e.shipped /\ ~e.cancelled
  <2>1. to \in ToCancel => to # "DISPATCHED" /\ to # "CANCELLED"
    BY DEF ToCancel
  <2> QED
    BY <1>2, <1>5, <1>6, <1>8, <2>1, OrderTyped DEF StandsFor
<1>10. o \notin overtaken' /\ e.cancelled => to \in {"CANCELLED", "REFUNDED"}
  BY <1>2, <1>5, <1>6, <1>8, OrderTyped DEF StandsFor
<1>11. HandsOn(job[j], Idle)
  BY <1>2 DEF HandsOn, Carries
<1>12. overtaken \subseteq overtaken' /\ PaidInFull'
  <2>1. \A p \in Orders : order'[p].paid = order[p].paid /\ order'[p].payStatus = order[p].payStatus
    BY <1>4, <1>6, OrderTyped
  <2> QED
    BY <1>4, <2>1, PaidStays
<1> QED
  BY <1>2, <1>4, <1>5, <1>6, <1>7, <1>8, <1>9, <1>10, <1>11, <1>12, OrderRewritten

LEMMA OrderRefunded ==
    ASSUME OrderInv, NEW j \in Jobs, Refund(j), UNCHANGED courierVars
    PROVE  OrderInv'
<1>1. PICK o : o = job[j].order
  OBVIOUS
<1>2. job[j].op = "refund" /\ o \in Orders /\ Exists(o)
  BY <1>1, OrderTyped DEF OrderJob, Refund, Doing
<1>3. PICK e : e = [order[o] EXCEPT !.status = "REFUNDED", !.payStatus = "REFUNDED"]
  OBVIOUS
<1>4. /\ order' = [order EXCEPT ![o] = e] /\ Finish(j) /\ overtaken \subseteq overtaken'
      /\ UNCHANGED <<customerOrders, shipment, reported, unheard>>
  <2>1. order' = [order EXCEPT ![o].status = "REFUNDED", ![o].payStatus = "REFUNDED"]
    BY <1>1 DEF Refund
  <2>2. order' = [order EXCEPT ![o] = e]
    BY <1>3, <2>1
  <2> QED
    BY <2>2 DEF Refund, Overtaken, courierVars
<1>5. /\ e \in OrderRows /\ e.status = "REFUNDED" /\ e.paid = order[o].paid /\ e.payStatus = "REFUNDED"
  BY <1>2, <1>3, OrderTyped, OrderStatusesAre DEF OrderRows
<1>6. order[o].paid <= e.paid /\ customerOrders \in Int
  BY <1>2, <1>5, OrderTyped DEF OrderRows
<1>7. ORDER_RANK[order[o].status] <= ORDER_RANK["REFUNDED"]
  BY <1>2, OrderTyped, RankTyped, RanksAre DEF OrderRows, Exists
<1>8. HandsOn(job[j], Idle)
  BY <1>2 DEF HandsOn, Carries
<1>9. PaidInFull'
  <2>1. \A p \in Orders : order'[p].paid = order[p].paid
                          /\ (order'[p].payStatus = "PAID" => order[p].payStatus = "PAID")
    BY <1>4, <1>5, OrderTyped
  <2> QED
    BY <1>4, <2>1, PaidStays
<1>10. "REFUNDED" \notin ToCancel
  BY DEF ToCancel
<1> QED
  BY <1>2, <1>4, <1>5, <1>6, <1>7, <1>8, <1>9, <1>10, OrderRewritten

LEMMA PaymentRecorded ==
    ASSUME OrderInv, NEW j \in Jobs, RecordPayment(j), UNCHANGED courierVars
    PROVE  OrderInv'
<1>1. PICK o, n, saw : o = job[j].order /\ n = job[j].n /\ saw = job[j].saw
  OBVIOUS
<1>2. /\ job[j].op = "pay" /\ o \in Orders /\ Exists(o) /\ saw \in Int /\ n \in Nat \ {0}
      /\ saw <= order[o].paid /\ n <= OrderTotal - saw
  BY <1>1, OrderTyped DEF OrderJob, RecordPayment, Doing
<1> DEFINE full == saw + n >= OrderTotal
<1>3. PICK word : word = IF full THEN "PAID" ELSE "PARTIALLY_PAID"
  OBVIOUS
<1>4. PICK e : e = [order[o] EXCEPT !.paid = @ + n, !.payStatus = word]
  OBVIOUS
<1>5. /\ order' = [order EXCEPT ![o] = e] /\ Finish(j)
      /\ overtaken' = overtaken \cup (IF order[o].paid # saw THEN {Payment(o)} ELSE {})
      /\ customerOrders' = customerOrders + (IF full THEN 1 ELSE 0)
      /\ UNCHANGED <<shipment, reported, unheard>>
  <2>1. order' = [order EXCEPT ![o].paid = @ + n, ![o].payStatus = word]
    BY <1>1, <1>3 DEF RecordPayment, FullyPaid
  <2>2. order' = [order EXCEPT ![o] = e]
    BY <1>4, <2>1
  <2> QED
    BY <1>1, <1>3, <2>2 DEF RecordPayment, Overtaken, courierVars, FullyPaid
<1>6. PICK paid \in Int : paid = order[o].paid
  BY <1>2, OrderTyped DEF OrderRows
<1>7. /\ e \in OrderRows /\ e.status = order[o].status /\ e.paid = paid + n
      /\ e.payStatus = word
      /\ e.shipped = order[o].shipped /\ e.cancelled = order[o].cancelled
  <2>1. order[o] \in OrderRows /\ word \in {"PAID", "PARTIALLY_PAID"} /\ paid + n \in Int
    BY <1>2, <1>3, <1>6, OrderTyped
  <2> QED
    BY <1>4, <1>6, <2>1 DEF OrderRows
<1>8. order[o].paid <= e.paid /\ customerOrders \in Int /\ customerOrders' \in Int /\ OrderTotal \in Nat
  BY <1>2, <1>5, <1>6, <1>7, OrderTyped, OrderAssumption
<1>9. ORDER_RANK[order[o].status] <= ORDER_RANK[e.status]
  BY <1>2, <1>7, OrderTyped, RankTyped DEF OrderRows, Exists
<1>10. HandsOn(job[j], Idle)
  BY <1>2 DEF HandsOn, Carries
<1>11. overtaken \subseteq overtaken' /\ order'[o] = e /\ \A p \in Orders \ {o} : order'[p] = order[p]
  BY <1>2, <1>5, OrderTyped
<1>12. PaidInFull'
  <2>1. ASSUME NEW p \in Orders, order'[p].payStatus = "PAID" PROVE order'[p].paid >= OrderTotal
    <3>1. CASE p = o
      <4>1. word = "PAID" /\ order'[p].paid = paid + n
        BY <1>7, <1>11, <2>1, <3>1
      <4>2. full
        BY <1>3, <4>1
      <4> QED
        BY <1>2, <1>6, <1>8, <4>1, <4>2
    <3>2. CASE p # o
      BY <1>11, <2>1, <3>2, OrderTyped DEF PaidInFull
    <3> QED
      BY <3>1, <3>2
  <2>2. ASSUME \A p \in Orders : Payment(p) \notin overtaken'
        PROVE  customerOrders' = Cardinality({p \in Orders : order'[p].paid >= OrderTotal})
    <3>1. PICK S : S = {p \in Orders : order[p].paid >= OrderTotal}
      OBVIOUS
    <3>2. customerOrders = Cardinality(S) /\ IsFiniteSet(S)
      <4>1. customerOrders = Cardinality(S)
        BY <1>11, <2>2, <3>1, OrderTyped DEF PaidInFull
      <4> QED
        BY <3>1, <4>1, FS_Subset, WarehouseIsFinite
    <3>3. paid = saw
      BY <1>2, <1>5, <1>6, <2>2
    <3>4. o \notin S
      <4>1. ~(paid >= OrderTotal)
        BY <1>2, <1>6, <1>8, <3>3
      <4> QED
        BY <1>6, <3>1, <4>1
    <3>5. {p \in Orders : order'[p].paid >= OrderTotal} = IF full THEN S \cup {o} ELSE S
      <4>1. \A p \in Orders \ {o} : p \in S <=> order'[p].paid >= OrderTotal
        BY <1>11, <3>1
      <4>2. order'[o].paid >= OrderTotal <=> full
        BY <1>3, <1>7, <1>11, <3>3
      <4>3. S \subseteq Orders
        BY <3>1
      <4> QED
        BY <1>2, <3>4, <4>1, <4>2, <4>3
    <3>6. Cardinality(S \cup {o}) = Cardinality(S) + 1
      BY <3>2, <3>4, FS_AddElement
    <3>7. CASE full
      BY <1>5, <3>2, <3>5, <3>6, <3>7
    <3>8. CASE ~full
      <4>1. customerOrders' = customerOrders + 0 /\ customerOrders \in Int
        BY <1>5, <1>8, <3>8
      <4>2. customerOrders' = customerOrders
        BY <4>1
      <4>3. {p \in Orders : order'[p].paid >= OrderTotal} = S
        BY <3>5, <3>8
      <4> QED
        BY <3>2, <4>2, <4>3
    <3> QED
      BY <3>7, <3>8
  <2> QED
    BY <2>1, <2>2 DEF PaidInFull
<1>13. /\ o \notin overtaken' /\ e.status \in ToCancel => ~e.shipped /\ ~e.cancelled
       /\ o \notin overtaken' /\ e.cancelled => e.status \in {"CANCELLED", "REFUNDED"}
  BY <1>2, <1>7, <1>11, OrderTyped DEF StandsFor
<1>14. e.status # "ABSENT"
  BY <1>2, <1>7 DEF Exists
<1> QED
  BY <1>2, <1>5, <1>7, <1>8, <1>9, <1>10, <1>11, <1>12, <1>13, <1>14, OrderRewritten

LEMMA OrderPushed ==
    ASSUME OrderInv, NEW j \in Jobs, PushOrder(j)
    PROVE  OrderInv'
<1>1. PICK o, from, to : o = job[j].order /\ from = job[j].from /\ to = job[j].to
  OBVIOUS
<1>2. /\ job[j].op = "push" /\ o \in Orders /\ Exists(o)
      /\ from \in OrderStatuses \ {"ABSENT"} /\ to \in StagesFor /\ Advances(from, to)
  BY <1>1, OrderTyped DEF OrderJob, PushOrder, Doing
<1>3. PICK e : e = [order[o] EXCEPT !.status = to]
  OBVIOUS
<1>4. /\ order' = [order EXCEPT ![o] = e] /\ Finish(j)
      /\ overtaken' = overtaken \cup (IF order[o].status # from THEN {o} ELSE {})
      /\ UNCHANGED <<customerOrders, shipment, reported, unheard>>
  BY <1>1, <1>3 DEF PushOrder, Overtaken, courierVars
<1>5. /\ to \in OrderStatuses \ {"ABSENT", "CANCELLED", "REFUNDED"}
      /\ to \in ToCancel => from \in ToCancel
      /\ ORDER_RANK[from] <= ORDER_RANK[to]
  BY <1>2, PushGoesForward
<1>6. /\ e \in OrderRows /\ e.status = to /\ e.paid = order[o].paid /\ e.payStatus = order[o].payStatus
      /\ e.shipped = order[o].shipped /\ e.cancelled = order[o].cancelled
  BY <1>2, <1>3, <1>5, OrderTyped DEF OrderRows
<1>7. order[o].paid <= e.paid /\ customerOrders \in Int
  BY <1>2, <1>6, OrderTyped DEF OrderRows
<1>8. o \notin overtaken' => o \notin overtaken /\ order[o].status = from
  BY <1>4
<1>9. o \notin overtaken' /\ to \in ToCancel => ~e.shipped /\ ~e.cancelled
  BY <1>2, <1>5, <1>6, <1>8, OrderTyped DEF StandsFor
<1>10. o \notin overtaken' /\ e.cancelled => to \in {"CANCELLED", "REFUNDED"}
  BY <1>2, <1>6, <1>8, OrderTyped DEF StandsFor, Advances
<1>11. HandsOn(job[j], Idle)
  <2> SUFFICES ASSUME NEW v \in reported, v.status \in Stages, Carries(job[j], v, shipment[v.shipment].order)
               PROVE  ORDER_RANK[order'[shipment[v.shipment].order].status] >= ORDER_RANK[SHIPMENT_TO_ORDER[v.status]]
    BY DEF HandsOn
  <2>1. shipment[v.shipment].order = o /\ ORDER_RANK[to] >= ORDER_RANK[SHIPMENT_TO_ORDER[v.status]]
    BY <1>1, <1>2 DEF Carries
  <2>2. order'[o].status = to
    BY <1>2, <1>4, <1>6, OrderTyped
  <2> QED
    BY <2>1, <2>2
<1>12. overtaken \subseteq overtaken' /\ PaidInFull'
  <2>1. \A p \in Orders : order'[p].paid = order[p].paid /\ order'[p].payStatus = order[p].payStatus
    BY <1>4, <1>6, OrderTyped
  <2> QED
    BY <1>4, <2>1, PaidStays
<1> QED
  BY <1>2, <1>4, <1>5, <1>6, <1>7, <1>8, <1>9, <1>10, <1>11, <1>12, OrderRewritten

LEMMA OrderFollows ==
    ASSUME OrderInv, NEW j \in Jobs, ReadForProjection(j)
    PROVE  OrderInv'
<1>1. PICK o, to : o = job[j].order /\ to = job[j].to
  OBVIOUS
<1>2. PICK status : status = order[o].status
  OBVIOUS
<1>3. job[j].op = "project" /\ o \in Orders /\ Exists(o) /\ to \in ShipmentStatuses
  BY <1>1, OrderTyped DEF OrderJob, ReadForProjection, Doing
<1>4. status \in OrderStatuses \ {"ABSENT"}
  BY <1>2, <1>3, OrderTyped DEF OrderRows, Exists
<1>5. UNCHANGED <<order, customerOrders, shipment, reported, unheard, overtaken>>
  BY DEF ReadForProjection, stockVars, orderVars, courierVars
<1>6. OrderTypeOK' /\ ShipmentsStay
  BY <1>5 DEF OrderInv, OrderTypeOK, Booked, Exists, ShipmentsStay
<1>7. ASSUME NEW t, job' = [job EXCEPT ![j] = t], OrderJob(t), t.op # "create", HandsOn(job[j], t)
      PROVE  OrderInv'
  <2>1. JobsOK'
    BY <1>7 DEF OrderInv, JobsOK
  <2>2. OrderJob(t)' /\ CreatesAlone(t, j)
    BY <1>5, <1>7 DEF OrderJob, CreatesAlone, Exists, Booked
  <2> QED
    BY <1>5, <1>6, <1>7, <2>1, <2>2, OrderLooks
<1>8. CASE to \in Stages /\ Advances(status, SHIPMENT_TO_ORDER[to])
  <2>1. PICK next : next = SHIPMENT_TO_ORDER[to]
    OBVIOUS
  <2>2. PICK t : t = [op |-> "push", order |-> o, from |-> status, to |-> next]
    OBVIOUS
  <2>3. job' = [job EXCEPT ![j] = t]
    BY <1>1, <1>2, <1>8, <2>1, <2>2 DEF ReadForProjection, Goes
  <2>4. OrderJob(t)
    BY <1>3, <1>4, <1>8, <2>1, <2>2, StagesAre DEF OrderJob
  <2>5. ORDER_RANK[next] \in Nat
    BY <1>8, <2>1, StagesAre, RankTyped
  <2>6. HandsOn(job[j], t)
    <3> SUFFICES ASSUME NEW v \in reported, v.status \in Stages, Carries(job[j], v, shipment[v.shipment].order)
                 PROVE  Carries(t, v, shipment[v.shipment].order)
      BY DEF HandsOn
    <3>1. shipment[v.shipment].order = o /\ v.status = to
      BY <1>1, <1>3 DEF Carries
    <3> QED
      BY <2>1, <2>2, <2>5, <3>1 DEF Carries
  <2> QED
    BY <1>7, <2>2, <2>3, <2>4, <2>6
<1>9. CASE ~(to \in Stages /\ Advances(status, SHIPMENT_TO_ORDER[to]))
  <2>1. job' = [job EXCEPT ![j] = Idle]
    BY <1>1, <1>2, <1>9 DEF ReadForProjection, Finish
  <2>2. HandsOn(job[j], Idle)
    <3> SUFFICES ASSUME NEW v \in reported, v.status \in Stages, Carries(job[j], v, shipment[v.shipment].order)
                 PROVE  ORDER_RANK[order'[shipment[v.shipment].order].status] >= ORDER_RANK[SHIPMENT_TO_ORDER[v.status]]
      BY DEF HandsOn
    <3>1. shipment[v.shipment].order = o /\ v.status = to
      BY <1>1, <1>3 DEF Carries
    <3>2. SHIPMENT_TO_ORDER[to] \in StagesFor
      BY <3>1, StagesAre
    <3>3. PICK a \in Nat, b \in Nat : a = ORDER_RANK[status] /\ b = ORDER_RANK[SHIPMENT_TO_ORDER[to]] /\ b <= 8
      BY <1>4, <3>2, RankTyped
    <3>4. a >= b
      <4>1. CASE status \in {"CANCELLED", "REFUNDED", "COMPLETED"}
        BY <1>4, <3>3, <4>1, RankTyped
      <4>2. CASE status \notin {"CANCELLED", "REFUNDED", "COMPLETED"}
        BY <1>9, <3>1, <3>3, <4>2 DEF Advances
      <4> QED
        BY <4>1, <4>2
    <3>5. order'[o].status = status
      BY <1>2, <1>5
    <3> QED
      BY <3>1, <3>3, <3>4, <3>5
  <2> QED
    BY <1>7, <2>1, <2>2, IdleOrder DEF Idle
<1> QED
  BY <1>8, <1>9

(* A handler that dies over an event takes it along. *)
LEMMA OrderHandlerDies ==
    ASSUME OrderInv, NEW j \in Jobs, HandlerDies(j)
    PROVE  OrderInv'
<1>1. PICK k : k = job[j]
  OBVIOUS
<1>2. /\ UNCHANGED <<order, customerOrders, shipment, reported, overtaken>>
      /\ job' = [job EXCEPT ![j] = Idle]
      /\ unheard' = unheard \cup (IF k.op \in {"follow", "project", "push"} THEN {OrderOf(k)} ELSE {})
  BY <1>1 DEF HandlerDies, Abandon, CourierDies, Finish, stockVars, orderVars
<1>3. JobsOK' /\ ShipmentsStay
  BY <1>2 DEF OrderInv, JobsOK, ShipmentsStay, Booked
<1>4. OrderTypeOK'
  BY <1>2 DEF OrderInv, OrderTypeOK, Booked, Exists
<1>5. OrderJob(Idle)' /\ CreatesAlone(Idle, j)
  BY DEF OrderJob, CreatesAlone, Idle
<1>6. HandsOn(job[j], Idle)
  <2> SUFFICES ASSUME NEW v \in reported, v.status \in Stages, Carries(k, v, shipment[v.shipment].order)
               PROVE  shipment[v.shipment].order \in unheard'
    BY <1>1 DEF HandsOn
  <2>1. k.op \in {"follow", "project", "push"}
    BY DEF Carries
  <2>2. OrderOf(k) = shipment[v.shipment].order
    BY DEF Carries, OrderOf
  <2> QED
    BY <1>2, <2>1, <2>2
<1> QED
  BY <1>2, <1>3, <1>4, <1>5, <1>6, OrderLooks

LEMMA OrdersHold ==
    ASSUME OrderInv, NEW j \in Jobs, AtOrders(j) \/ AtCouriers(j)
    PROVE  OrderInv'
<1>1. CASE AtOrders(j)
  <2>1. OrderStep(j) /\ UNCHANGED courierVars
    BY <1>1 DEF AtOrders
  <2> QED
    BY <2>1, OrderReads, OrderPlaced, OrderTransitions, OrderRefunded, PaymentRecorded DEF OrderStep
<1>2. CASE AtCouriers(j)
  <2>1. CourierStep(j)
    BY <1>2 DEF AtCouriers
  <2>2. {"PENDING"} \cup Stages \subseteq ShipmentStatuses
    BY DEF ShipmentStatuses
  <2>3. CASE \/ \E o \in Orders : ReadForBooking(j, o)
             \/ \E x \in Shipments, s \in ShipmentStatuses, e \in EventIds \cup {NoEventId} : Callback(j, x, s, e)
    BY <2>3, CourierReads
  <2>4. CASE \/ \E x \in Shipments, s \in {"PENDING"} \cup Stages : BookShipment(j, x, s)
             \/ \E x \in Shipments, s \in ShipmentStatuses : SetShipmentStatus(j, x, s)
    BY <2>2, <2>4, ShipmentBooked, ShipmentStatusSet
  <2>5. CASE RecordEvent(j) \/ FollowEvent(j) \/ ReadForProjection(j) \/ PushOrder(j)
    BY <2>5, EventRecorded, EventFollowed, OrderFollows, OrderPushed
  <2> QED
    BY <2>1, <2>3, <2>4, <2>5 DEF CourierStep
<1> QED
  BY <1>1, <1>2

LEMMA OrderStays == OrderInv /\ [WarehouseNext]_warehouseVars => OrderInv'
<1> SUFFICES ASSUME OrderInv, [WarehouseNext]_warehouseVars PROVE OrderInv'
  OBVIOUS
<1> DEFINE Ours == OrderOps \cup CourierOps
<1>1. ASSUME NEW j \in Jobs, NEW ops, Works(j, ops), Minds(j, ops), ops \cap Ours = {},
             UNCHANGED <<orderVars, courierVars>>
      PROVE  OrderInv'
  <2>1. PICK t : t.op \in ops \cup {"idle"} /\ job' = [job EXCEPT ![j] = t]
    BY <1>1 DEF Works
  <2>2. t.op \notin Ours
    BY <1>1, <2>1 DEF OrderOps, CourierOps
  <2>3. OrderJob(t) /\ CreatesAlone(t, j)
    BY <2>2 DEF OrderJob, CreatesAlone, OrderOps, CourierOps
  <2>4. job[j].op \notin {"follow", "project", "push"}
    BY <1>1 DEF Minds, CourierOps
  <2>5. UNCHANGED <<order, customerOrders, shipment, reported, unheard>> /\ overtaken \subseteq overtaken'
    BY <1>1 DEF orderVars, courierVars, Works, HistoryGrows
  <2> QED
    BY <2>1, <2>3, <2>4, <2>5, OrderPeeks
<1>2. CASE WarehouseNext
  <2>1. PICK j \in Jobs : \/ HandlerDies(j)
                          \/ AtShelf(j) \/ AtOrders(j) \/ AtCouriers(j) \/ AtRequisitions(j)
                          \/ AtPurchasing(j) \/ AtQuality(j) \/ AtMaterials(j) \/ AtGoods(j)
    BY <1>2 DEF WarehouseNext
  <2>2. CASE HandlerDies(j)
    BY <2>2, OrderHandlerDies
  <2>3. CASE AtOrders(j) \/ AtCouriers(j)
    BY <2>3, OrdersHold
  <2>4. CASE ~HandlerDies(j) /\ ~AtOrders(j) /\ ~AtCouriers(j)
    <3>1. UNCHANGED <<orderVars, courierVars>>
      BY <2>1, <2>4 DEF AtShelf, AtRequisitions, AtPurchasing, AtQuality, AtMaterials, AtGoods, OrdersRest
    <3>2. \E ops : /\ Works(j, ops) /\ Minds(j, ops)
                   /\ ops \in {ShelfOps, ReqOps, PurchaseOps, BatchOps, MaterialOps, GoodsOps}
      BY <2>1, <2>4, ShelfWorks, RequisitionsWork, PurchasingWorks, QualityWorks, MaterialsWork, GoodsWork,
         ShelfMinds, RequisitionsMind, PurchasingMinds, QualityMinds, MaterialsMind, GoodsMind
         DEF AtShelf, AtRequisitions, AtPurchasing, AtQuality, AtMaterials, AtGoods
    <3>3. \A ops \in {ShelfOps, ReqOps, PurchaseOps, BatchOps, MaterialOps, GoodsOps} : ops \cap Ours = {}
      BY DEF ShelfOps, OrderOps, CourierOps, ReqOps, PurchaseOps, BatchOps, MaterialOps, GoodsOps
    <3> QED
      BY <1>1, <3>1, <3>2, <3>3
  <2> QED
    BY <2>2, <2>3, <2>4
<1>3. CASE UNCHANGED warehouseVars
  <2>1. UNCHANGED <<order, customerOrders, shipment, reported, overtaken, unheard, job>>
    BY <1>3 DEF warehouseVars
  <2>2. OrderTypeOK' /\ JobsOK' /\ CreatesOnce' /\ PaidInFull'
    BY <2>1 DEF OrderInv, OrderTypeOK, JobsOK, CreatesOnce, PaidInFull, Booked, Exists
  <2>3. (\A o \in Orders : StandsFor(o))' /\ (\A v \in reported : HeardOf(v))'
    BY <2>1 DEF OrderInv, StandsFor, HeardOf, Exists, Carries
  <2>4. (\A j \in Jobs : OrderJob(job[j]))'
    BY <2>1 DEF OrderInv, OrderJob, Exists, Booked
  <2> QED
    BY <2>2, <2>3, <2>4 DEF OrderInv
<1> QED
  BY <1>2, <1>3

LEMMA OrderStarts == WarehouseInit => OrderInv
<1> SUFFICES ASSUME WarehouseInit PROVE OrderInv
  OBVIOUS
<1>1. /\ order = [o \in Orders |-> [status |-> "ABSENT", payStatus |-> "PENDING", paid |-> 0,
                                    shipped |-> FALSE, cancelled |-> FALSE]]
      /\ customerOrders = 0 /\ shipment = [x \in Shipments |-> [status |-> "ABSENT", order |-> "none"]]
      /\ reported = {} /\ job = [j \in Jobs |-> Idle]
  BY DEF WarehouseInit, StockInit, OrderInit, CourierInit
<1>2. JobsOK /\ CreatesOnce /\ \A j \in Jobs : OrderJob(job[j])
  BY <1>1, IdleOrder DEF JobsOK, CreatesOnce, Idle
<1>3. OrderTypeOK
  <2>1. order \in [Orders -> OrderRows]
    BY <1>1, OrderStatusesAre DEF OrderRows
  <2>2. \A x \in Shipments : ~Booked(x)
    BY <1>1 DEF Booked
  <2> QED
    BY <1>1, <2>1, <2>2 DEF OrderTypeOK
<1>4. \A o \in Orders : StandsFor(o)
  BY <1>1 DEF StandsFor, Exists, ToCancel
<1>5. PaidInFull
  <2>1. OrderTotal \in Nat \ {0}
    BY OrderAssumption
  <2>2. {o \in Orders : order[o].paid >= OrderTotal} = {}
    BY <1>1, <2>1
  <2> QED
    BY <1>1, <2>2, FS_EmptySet DEF PaidInFull
<1> QED
  BY <1>1, <1>2, <1>3, <1>4, <1>5 DEF OrderInv

(* "PAID" is said only of orders whose payments cover their total, however *)
(* payments overlap, and the customer's count takes each order once.       *)
THEOREM PaidInFullHolds == WarehouseSpec => []PaidInFull
<1>1. OrderInv => PaidInFull
  BY DEF OrderInv
<1> QED
  BY <1>1, OrderStarts, OrderStays, PTL DEF WarehouseSpec

(* However often and in whatever order a courier's events come, an order   *)
(* has come at least as far as the furthest of them, and a cancelled one   *)
(* stays cancelled or refunded.                                            *)
THEOREM CouriersHeardHolds == WarehouseSpec => []CouriersHeard
<1>1. OrderInv => CouriersHeard
  <2> SUFFICES ASSUME OrderInv, NEW o \in Orders \ overtaken
               PROVE  /\ order[o].cancelled => order[o].status \in {"CANCELLED", "REFUNDED"}
                      /\ o \notin unheard /\ ~Hearing(o) =>
                           \A v \in reported : shipment[v.shipment].order = o /\ v.status \in Stages =>
                               ORDER_RANK[order[o].status] >= ORDER_RANK[SHIPMENT_TO_ORDER[v.status]]
    BY DEF CouriersHeard
  <2>1. order[o].cancelled => order[o].status \in {"CANCELLED", "REFUNDED"}
    BY OrderTyped DEF StandsFor
  <2>2. ASSUME NEW v \in reported, NEW j \in Jobs, Carries(job[j], v, o), shipment[v.shipment].order = o
        PROVE  Hearing(o)
    BY <2>2 DEF Carries, Hearing, OrderOf
  <2>3. ASSUME o \notin unheard, ~Hearing(o), NEW v \in reported, shipment[v.shipment].order = o, v.status \in Stages
        PROVE  ORDER_RANK[order[o].status] >= ORDER_RANK[SHIPMENT_TO_ORDER[v.status]]
    BY <2>2, <2>3, OrderTyped DEF HeardOf
  <2> QED
    BY <2>1, <2>3
<1> QED
  BY <1>1, OrderStarts, OrderStays, PTL DEF WarehouseSpec

----------------------------------------------------------------------------
(* Finished goods *)
TaskRows == [id : Nat \X Rows, receipt : Receipts, row : Rows, allocated : Nat, received : Nat]
Arrivals == [key : GoodsKeys, task : Nat \X Rows, n : Nat]
GoodsStatuses == {"PENDING_ALLOCATION", "AWAITING_RECEIPT", "PARTIALLY_RECEIVED", "RECEIVED"}

(* A set of task rows as the table may hold them. *)
TaskSet(S) ==
    /\ S \subseteq TaskRows /\ IsFiniteSet(S)
    /\ \A k, m \in S : k.id = m.id => k = m

GoodsTypeOK ==
    /\ TaskSet(tasks)
    /\ arrived \subseteq Arrivals /\ IsFiniteSet(arrived)
    /\ receipt \in [Receipts -> [status : GoodsStatuses, allocated : Int, received : Int]]
    /\ plans \in Nat

(* A task's id carries the number of the allocation that made it.  No      *)
(* delivery is of a task that is gone, and a receipt has one task a row.   *)
TasksInPlace ==
    /\ \A k \in tasks : k.id[1] < plans
    /\ \A d \in arrived : \E k \in tasks : k.id = d.task
    /\ \A c \in Receipts \ overtaken : \A k, m \in TasksOf(c) : k.row = m.row => k = m

(* What an earlier reading of a receipt's tasks has become. *)
StillThere(S, c) == \A m \in S : \E k \in TasksOf(c) : k.id = m.id /\ m.received <= k.received

PlanJob(t) == t.op = "plan" =>
    /\ t.receipt \in Receipts /\ t.plan \in Plans
    /\ t.no \in Nat /\ t.no < plans
    /\ \A k \in tasks : k.id[1] # t.no
    /\ TaskSet(t.saw) /\ KeepsTasks(t.saw, t.plan)

Holds(t) == t.op \in {"receiving", "summing"}

(* The lock: nobody else moves what the task has received. *)
HoldJob(t) == Holds(t) =>
    /\ t.task \in TaskRows /\ t.n \in Nat \ {0} /\ t.key \in GoodsKeys
    /\ t.task.id[1] < plans
    /\ t.task.received + t.n <= t.task.allocated
    /\ \A k \in tasks : k.id = t.task.id =>
           k.receipt = t.task.receipt /\ k.row = t.task.row /\ k.received = t.task.received

SumJob(t) == t.op = "summing" =>
    /\ TaskSet(t.sum)
    /\ \A m \in t.sum : m.id = t.task.id => m = Mine(t)
    /\ t.task.receipt \notin overtaken /\ (\E k \in tasks : k.id = t.task.id) =>
           StillThere({m \in t.sum : m.id # t.task.id}, t.task.receipt)

GoodsJob(t) == PlanJob(t) /\ HoldJob(t) /\ SumJob(t)

(* Two handlers never work on the same allocation or the same task. *)
Apart(t, u) ==
    /\ t.op = "plan" /\ u.op = "plan" => t.no # u.no
    /\ Holds(t) /\ Holds(u) => t.task.id # u.task.id
    /\ t.op = "plan" /\ Holds(u) => u.task.id[1] # t.no
    /\ u.op = "plan" /\ Holds(t) => t.task.id[1] # u.no

GoodsInv ==
    /\ GoodsTypeOK /\ TasksInPlace /\ GoodsArriveOnce
    /\ \A j \in Jobs : GoodsJob(job[j])
    /\ \A i, j \in Jobs : i # j => Apart(job[i], job[j])
    /\ JobsOK

LEMMA TotalIs ==
    ASSUME NEW S, IsFiniteSet(S), NEW field, NEW g, \A k \in S : g[k] = k[field]
    PROVE  Total(S, field) = SumFunctionOnSet(g, S)
<1>1. PICK f : f = [k \in S |-> k[field]]
  OBVIOUS
<1>2. Total(S, field) = SumFunctionOnSet(f, S)
  BY <1>1 DEF Total, SumFunction
<1> QED
  BY <1>1, <1>2, SumAgree

LEMMA TotalTyped ==
    ASSUME NEW S, TaskSet(S)
    PROVE  Total(S, "received") \in Nat /\ Total(S, "allocated") \in Nat
<1>1. PICK f : f = [k \in S |-> k.received]
  OBVIOUS
<1>2. PICK g : g = [k \in S |-> k.allocated]
  OBVIOUS
<1>3. \A k \in S : f[k] \in Nat /\ g[k] \in Nat /\ f[k] = k["received"] /\ g[k] = k["allocated"]
  BY <1>1, <1>2 DEF TaskSet, TaskRows
<1>4. Total(S, "received") = SumFunctionOnSet(f, S) /\ Total(S, "allocated") = SumFunctionOnSet(g, S)
  BY <1>3, TotalIs DEF TaskSet
<1> QED
  BY <1>3, <1>4, SumNat DEF TaskSet

(* The total over the rows is the total over their ids. *)
LEMMA TotalById ==
    ASSUME NEW S, TaskSet(S), NEW e, \A k \in S : e[k.id] = k.received
    PROVE  Total(S, "received") = SumFunctionOnSet(e, {k.id : k \in S})
<1>1. PICK f : f = [k \in S |-> k.received]
  OBVIOUS
<1>2. PICK h : h = [k \in S |-> k.id]
  OBVIOUS
<1>3. /\ \A k \in S : f[k] \in Int /\ f[k] = k["received"] /\ e[h[k]] = f[k]
      /\ \A k, m \in S : h[k] = h[m] => k = m
  BY <1>1, <1>2 DEF TaskSet, TaskRows
<1>4. Total(S, "received") = SumFunctionOnSet(f, S)
  BY <1>3, TotalIs DEF TaskSet
<1>5. {h[k] : k \in S} = {k.id : k \in S}
  BY <1>2
<1>6. SumFunctionOnSet(e, {h[k] : k \in S}) = SumFunctionOnSet(f, S)
  BY <1>3, SumReindex DEF TaskSet
<1> QED
  BY <1>4, <1>5, <1>6

LEMMA IdsFinite ==
    ASSUME NEW S, IsFiniteSet(S)
    PROVE  IsFiniteSet({k.id : k \in S})
<1>1. PICK h : h = [k \in S |-> k.id]
  OBVIOUS
<1> QED
  BY <1>1, ImageFinite

(* Tasks that are all still there, and received no less, total no less. *)
LEMMA TotalGrows ==
    ASSUME NEW S, TaskSet(S), NEW T, TaskSet(T),
           \A k \in S : \E m \in T : m.id = k.id /\ k.received <= m.received
    PROVE  Total(S, "received") <= Total(T, "received")
<1>1. PICK I : I = {k.id : k \in S}
  OBVIOUS
<1>2. PICK L : L = {k.id : k \in T}
  OBVIOUS
<1>3. PICK e : e = [x \in I |-> (CHOOSE k \in S : k.id = x).received]
  OBVIOUS
<1>4. PICK g : g = [x \in L |-> (CHOOSE k \in T : k.id = x).received]
  OBVIOUS
<1>5. \A k \in S : e[k.id] = k.received
  <2> TAKE k \in S
  <2>1. k.id \in I
    BY <1>1
  <2>2. \A m \in S : m.id = k.id => m = k
    BY DEF TaskSet
  <2>3. (CHOOSE m \in S : m.id = k.id) = k
    BY <2>2
  <2> QED
    BY <1>3, <2>1, <2>3
<1>6. \A k \in T : g[k.id] = k.received
  <2> TAKE k \in T
  <2>1. k.id \in L
    BY <1>2
  <2>2. \A m \in T : m.id = k.id => m = k
    BY DEF TaskSet
  <2>3. (CHOOSE m \in T : m.id = k.id) = k
    BY <2>2
  <2> QED
    BY <1>4, <2>1, <2>3
<1>7. Total(S, "received") = SumFunctionOnSet(e, I) /\ Total(T, "received") = SumFunctionOnSet(g, L)
  BY <1>1, <1>2, <1>5, <1>6, TotalById
<1>8. I \subseteq L
  BY <1>1, <1>2
<1>9. IsFiniteSet(I) /\ IsFiniteSet(L)
  BY <1>1, <1>2, IdsFinite DEF TaskSet
<1>10. \A x \in I : e[x] \in Int /\ g[x] \in Int /\ e[x] <= g[x]
  <2> TAKE x \in I
  <2>1. PICK k \in S : k.id = x
    BY <1>1
  <2>2. PICK m \in T : m.id = x /\ k.received <= m.received
    BY <2>1
  <2>3. k.received \in Nat /\ m.received \in Nat
    BY DEF TaskSet, TaskRows
  <2> QED
    BY <1>5, <1>6, <2>1, <2>2, <2>3
<1>11. \A x \in L : g[x] \in Nat
  BY <1>2, <1>6 DEF TaskSet, TaskRows
<1>12. SumFunctionOnSet(e, I) <= SumFunctionOnSet(g, I)
  BY <1>9, <1>10, SumMonotone
<1>13. SumFunctionOnSet(g, I) <= SumFunctionOnSet(g, L)
  BY <1>8, <1>9, <1>11, SumSubset
<1>14. SumFunctionOnSet(e, I) \in Nat /\ SumFunctionOnSet(g, I) \in Nat /\ SumFunctionOnSet(g, L) \in Nat
  <2>1. \A x \in I : e[x] \in Nat /\ g[x] \in Nat
    <3> TAKE x \in I
    <3>1. PICK k \in S : k.id = x
      BY <1>1
    <3>2. k.received \in Nat
      BY DEF TaskSet, TaskRows
    <3> QED
      BY <1>5, <1>8, <1>11, <3>1, <3>2
  <2> QED
    BY <2>1, <1>9, <1>11, SumNat
<1> QED
  BY <1>7, <1>12, <1>13, <1>14

(* One task a row, each with what the plan gives its row. *)
LEMMA TotalPlanned ==
    ASSUME NEW S, TaskSet(S), NEW plan \in Plans, \A k \in S : k.allocated = plan[k.row],
           \A k, m \in S : k.row = m.row => k = m
    PROVE  Total(S, "allocated") <= Approved
<1>1. plan \in [Rows -> 0 .. Approved] /\ SumFunction(plan) \in 1 .. Approved /\ Approved \in Nat
  BY FinishedGoodsAssumption DEF Plans
<1>2. PICK f : f = [k \in S |-> k.allocated]
  OBVIOUS
<1>3. PICK h : h = [k \in S |-> k.row]
  OBVIOUS
<1>4. /\ \A k \in S : f[k] \in Int /\ f[k] = k["allocated"] /\ plan[h[k]] = f[k]
      /\ \A k, m \in S : h[k] = h[m] => k = m
  BY <1>2, <1>3 DEF TaskSet, TaskRows
<1>5. Total(S, "allocated") = SumFunctionOnSet(f, S)
  BY <1>4, TotalIs DEF TaskSet
<1>6. SumFunctionOnSet(plan, {h[k] : k \in S}) = SumFunctionOnSet(f, S)
  BY <1>4, SumReindex DEF TaskSet
<1>7. {h[k] : k \in S} \subseteq Rows
  BY <1>3 DEF TaskSet, TaskRows
<1>8. IsFiniteSet(Rows) /\ \A r \in Rows : plan[r] \in Nat
  BY <1>1, WarehouseIsFinite
<1>9. SumFunctionOnSet(plan, {h[k] : k \in S}) <= SumFunctionOnSet(plan, Rows)
  BY <1>7, <1>8, SumSubset
<1>10. SumFunctionOnSet(plan, Rows) = SumFunction(plan)
  BY <1>1 DEF SumFunction
<1>11. SumFunctionOnSet(f, S) \in Nat
  <2>1. \A k \in S : f[k] \in Nat
    BY <1>2 DEF TaskSet, TaskRows
  <2> QED
    BY <2>1, SumNat DEF TaskSet
<1> QED
  BY <1>1, <1>5, <1>6, <1>9, <1>10, <1>11

(* Where every task is full, what was received is what was allocated. *)
LEMMA TotalOfFull ==
    ASSUME NEW S, TaskSet(S), \A k \in S : k.allocated <= k.received
    PROVE  Total(S, "allocated") <= Total(S, "received")
<1>1. PICK f : f = [k \in S |-> k.received]
  OBVIOUS
<1>2. PICK g : g = [k \in S |-> k.allocated]
  OBVIOUS
<1>3. \A k \in S : f[k] \in Int /\ g[k] \in Int /\ g[k] <= f[k] /\ f[k] = k["received"] /\ g[k] = k["allocated"]
  BY <1>1, <1>2 DEF TaskSet, TaskRows
<1>4. Total(S, "received") = SumFunctionOnSet(f, S) /\ Total(S, "allocated") = SumFunctionOnSet(g, S)
  BY <1>3, TotalIs DEF TaskSet
<1> QED
  BY <1>3, <1>4, SumMonotone DEF TaskSet

LEMMA TotalWithin ==
    ASSUME NEW S, TaskSet(S), \A k \in S : k.received <= k.allocated
    PROVE  Total(S, "received") <= Total(S, "allocated")
<1>1. PICK f : f = [k \in S |-> k.received]
  OBVIOUS
<1>2. PICK g : g = [k \in S |-> k.allocated]
  OBVIOUS
<1>3. \A k \in S : f[k] \in Int /\ g[k] \in Int /\ f[k] <= g[k] /\ f[k] = k["received"] /\ g[k] = k["allocated"]
  BY <1>1, <1>2 DEF TaskSet, TaskRows
<1>4. Total(S, "received") = SumFunctionOnSet(f, S) /\ Total(S, "allocated") = SumFunctionOnSet(g, S)
  BY <1>3, TotalIs DEF TaskSet
<1> QED
  BY <1>3, <1>4, SumMonotone DEF TaskSet

LEMMA NothingTotalled ==
    ASSUME NEW S, IsFiniteSet(S), NEW field, \A k \in S : k[field] = 0
    PROVE  Total(S, field) = 0
<1>1. PICK g : g = [k \in S |-> k[field]]
  OBVIOUS
<1> QED
  BY <1>1, TotalIs, SumZero

LEMMA DeliveryTotals ==
    ASSUME NEW S, S \subseteq Arrivals, IsFiniteSet(S), NEW d \in Arrivals, d \notin S
    PROVE  Total(S \cup {d}, "n") = Total(S, "n") + d.n
<1>1. PICK g : g = [x \in S \cup {d} |-> x.n]
  OBVIOUS
<1>2. \A x \in S \cup {d} : g[x] \in Int /\ g[x] = x["n"]
  BY <1>1 DEF Arrivals
<1>3. IsFiniteSet(S \cup {d})
  BY FS_AddElement
<1>4. Total(S, "n") = SumFunctionOnSet(g, S) /\ Total(S \cup {d}, "n") = SumFunctionOnSet(g, S \cup {d})
  BY <1>2, <1>3, TotalIs
<1>5. \A y \in S \cup {d} : g[y] \in Int
  BY <1>2
<1>6. SumFunctionOnSet(g, S \cup {d}) = SumFunctionOnSet(g, S) + g[d]
  BY <1>5, SumAdd
<1>7. g[d] = d.n
  BY <1>1
<1> QED
  BY <1>4, <1>6, <1>7

(* What GoodsArriveOnce says of one receipt. *)
Brought(k) == {d \in arrived : d.task = k.id}

ReceiptOK(c) ==
    /\ \A k \in TasksOf(c) : k.received = Total(Brought(k), "n") /\ k.received <= k.allocated
    /\ Total(TasksOf(c), "allocated") <= Approved
    /\ receipt[c].received <= Total(TasksOf(c), "received")
    /\ receipt[c].status = "RECEIVED" => Total(TasksOf(c), "received") = Approved

LEMMA ReceiptsOK == GoodsArriveOnce <=> \A c \in Receipts \ overtaken : ReceiptOK(c)
BY DEF GoodsArriveOnce, ReceiptOK, Brought

LEMMA ReceiptStays ==
    ASSUME NEW c, ReceiptOK(c), TasksOf(c)' = TasksOf(c), receipt'[c] = receipt[c],
           \A k \in TasksOf(c) : {d \in arrived' : d.task = k.id} = {d \in arrived : d.task = k.id}
    PROVE  ReceiptOK(c)'
<1>1. PICK S : S = TasksOf(c)
  OBVIOUS
<1>2. \A k \in S : k.received = Total({d \in arrived' : d.task = k.id}, "n") /\ k.received <= k.allocated
  <2> TAKE k \in S
  <2>1. k.received = Total({d \in arrived : d.task = k.id}, "n") /\ k.received <= k.allocated
    BY <1>1 DEF ReceiptOK, Brought
  <2>2. {d \in arrived' : d.task = k.id} = {d \in arrived : d.task = k.id}
    BY <1>1
  <2> QED
    BY <2>1, <2>2
<1>3. /\ Total(S, "allocated") <= Approved /\ receipt'[c].received <= Total(S, "received")
      /\ receipt'[c].status = "RECEIVED" => Total(S, "received") = Approved
  BY <1>1 DEF ReceiptOK
<1> QED
  BY <1>1, <1>2, <1>3 DEF ReceiptOK, Brought

LEMMA IdleGoods == GoodsJob(Idle) /\ \A t : Apart(Idle, t) /\ Apart(t, Idle)
BY DEF GoodsJob, PlanJob, HoldJob, SumJob, Holds, Apart, Idle

LEMMA ElseGoods == ASSUME NEW t, t.op \notin GoodsOps PROVE GoodsJob(t) /\ \A u : Apart(t, u) /\ Apart(u, t)
BY DEF GoodsJob, PlanJob, HoldJob, SumJob, Holds, Apart, GoodsOps

LEMMA TasksOfTyped ==
    ASSUME GoodsTypeOK, NEW c
    PROVE  TaskSet(TasksOf(c)) /\ \A k \in TasksOf(c) : k.receipt = c /\ k \in tasks /\ k \in TaskRows
BY FS_Subset DEF GoodsTypeOK, TaskSet, TasksOf

LEMMA StaysApart ==
    ASSUME JobsOK, \A i, k \in Jobs : i # k => Apart(job[i], job[k]),
           NEW j \in Jobs, NEW t, job' = [job EXCEPT ![j] = t],
           \A i \in Jobs \ {j} : Apart(t, job[i])
    PROVE  \A i, k \in Jobs : i # k => Apart(job'[i], job'[k])
<1> TAKE i, k \in Jobs
<1> HAVE i # k
<1>1. \A u, v : Apart(u, v) <=> Apart(v, u)
  BY DEF Apart
<1>2. \A x \in Jobs : job'[x] = IF x = j THEN t ELSE job[x]
  BY DEF JobsOK
<1> QED
  BY <1>1, <1>2, Zenon

(* Handlers of this desk that only read, and every step of the others. *)
LEMMA GoodsLooks ==
    ASSUME GoodsInv, JobsOK', UNCHANGED <<tasks, arrived, receipt>>,
           plans' \in Nat, plans <= plans', overtaken \subseteq overtaken',
           NEW j \in Jobs, NEW t, job' = [job EXCEPT ![j] = t],
           GoodsJob(t)', \A i \in Jobs \ {j} : Apart(t, job[i])
    PROVE  GoodsInv'
<1>1. GoodsTypeOK'
  BY DEF GoodsInv, GoodsTypeOK, TaskSet, TaskRows
<1>2. TasksInPlace'
  <2>1. \A k \in tasks : k.id[1] < plans'
    <3> TAKE k \in tasks
    <3>1. k.id[1] \in Nat /\ k.id[1] < plans /\ plans \in Nat
      BY DEF GoodsInv, GoodsTypeOK, TaskSet, TaskRows, TasksInPlace
    <3> QED
      BY <3>1
  <2> QED
    BY <2>1 DEF GoodsInv, TasksInPlace, TasksOf
<1>3. GoodsArriveOnce'
  BY DEF GoodsInv, GoodsArriveOnce, TasksOf
<1>4. ASSUME NEW i \in Jobs \ {j} PROVE GoodsJob(job[i])'
  <2>1. job'[i] = job[i]
    BY DEF GoodsInv, JobsOK
  <2>2. PICK u : u = job[i]
    OBVIOUS
  <2>3. GoodsJob(u)
    BY <2>2 DEF GoodsInv
  <2>4. PlanJob(u)'
    <3>1. u.op = "plan" => u.no \in Nat /\ u.no < plans /\ plans \in Nat
      BY <2>3 DEF GoodsJob, PlanJob, GoodsInv, GoodsTypeOK
    <3> QED
      BY <2>3, <3>1 DEF GoodsJob, PlanJob
  <2>5. HoldJob(u)'
    <3>1. Holds(u) => u.task.id[1] \in Nat /\ u.task.id[1] < plans /\ plans \in Nat
      BY <2>3 DEF GoodsJob, HoldJob, GoodsInv, GoodsTypeOK, TaskRows
    <3> QED
      BY <2>3, <3>1 DEF GoodsJob, HoldJob
  <2>6. SumJob(u)'
    BY <2>3 DEF GoodsJob, SumJob, StillThere, TasksOf
  <2> QED
    BY <2>1, <2>2, <2>4, <2>5, <2>6 DEF GoodsJob
<1>5. GoodsJob(job[j])'
  BY DEF GoodsInv, JobsOK
<1>6. \A i, k \in Jobs : i # k => Apart(job'[i], job'[k])
  BY StaysApart DEF GoodsInv
<1> QED
  BY <1>1, <1>2, <1>3, <1>4, <1>5, <1>6 DEF GoodsInv

LEMMA GoodsElsewhere ==
    ASSUME GoodsInv, JobsOK', UNCHANGED goodsVars, Elsewhere(GoodsOps)
    PROVE  GoodsInv'
<1>1. PICK j \in Jobs : \E t : t.op \notin GoodsOps /\ job' = [job EXCEPT ![j] = t]
  BY DEF Elsewhere
<1>2. PICK t : t.op \notin GoodsOps /\ job' = [job EXCEPT ![j] = t]
  BY <1>1
<1>3. GoodsJob(t)' /\ \A i \in Jobs \ {j} : Apart(t, job[i])
  <2>1. GoodsJob(t)'
    BY <1>2 DEF GoodsJob, PlanJob, HoldJob, SumJob, Holds, GoodsOps
  <2> QED
    BY <1>2, <2>1, ElseGoods
<1>4. UNCHANGED <<tasks, arrived, receipt>> /\ plans' \in Nat /\ plans <= plans' /\ overtaken \subseteq overtaken'
  BY DEF goodsVars, GoodsInv, GoodsTypeOK, Elsewhere, HistoryGrows
<1> QED
  BY <1>2, <1>3, <1>4, GoodsLooks

LEMMA PlanReads ==
    ASSUME GoodsInv, JobsOK', NEW j \in Jobs, NEW c \in Receipts, NEW plan \in Plans, ReadForPlan(j, c, plan)
    PROVE  GoodsInv'
<1>1. PICK t : t = [op |-> "plan", no |-> plans, receipt |-> c, plan |-> plan, saw |-> TasksOf(c)]
  OBVIOUS
<1>2. /\ job' = [job EXCEPT ![j] = t] /\ plans' = plans + 1 /\ plans \in Nat
      /\ UNCHANGED <<tasks, arrived, receipt, overtaken>> /\ KeepsTasks(TasksOf(c), plan)
  BY <1>1 DEF ReadForPlan, Start, stockVars, GoodsInv, GoodsTypeOK
<1>3. t.op = "plan" /\ t.no = plans /\ t.receipt = c /\ t.plan = plan /\ t.saw = TasksOf(c)
  BY <1>1
<1>4. GoodsJob(t)'
  <2>1. \A k \in tasks : k.id[1] # plans
    <3> TAKE k \in tasks
    <3>1. k.id[1] \in Nat /\ k.id[1] < plans
      BY DEF GoodsInv, GoodsTypeOK, TaskSet, TaskRows, TasksInPlace
    <3> QED
      BY <1>2, <3>1
  <2>2. TaskSet(t.saw)
    BY <1>3, TasksOfTyped DEF GoodsInv
  <2>3. PlanJob(t)'
    BY <1>2, <1>3, <2>1, <2>2 DEF PlanJob
  <2> QED
    BY <1>3, <2>3 DEF GoodsJob, HoldJob, SumJob, Holds
<1>5. \A i \in Jobs \ {j} : Apart(t, job[i])
  <2> TAKE i \in Jobs \ {j}
  <2>1. PICK u : u = job[i]
    OBVIOUS
  <2>2. GoodsJob(u)
    BY <2>1 DEF GoodsInv
  <2>3. u.op = "plan" => u.no \in Nat /\ u.no < plans
    BY <2>2 DEF GoodsJob, PlanJob
  <2>4. Holds(u) => u.task.id[1] \in Nat /\ u.task.id[1] < plans
    BY <2>2 DEF GoodsJob, HoldJob, TaskRows
  <2>5. Apart(t, u)
    BY <1>2, <1>3, <2>3, <2>4 DEF Apart, Holds
  <2> QED
    BY <2>1, <2>5
<1>6. plans' \in Nat /\ plans <= plans' /\ overtaken \subseteq overtaken'
  BY <1>2
<1> QED
  BY <1>2, <1>4, <1>5, <1>6, GoodsLooks

LEMMA LockHolds ==
    ASSUME GoodsInv, JobsOK', NEW j \in Jobs, NEW k \in tasks, NEW n \in 1 .. Approved, NEW key \in GoodsKeys,
           LockTask(j, k, n, key)
    PROVE  GoodsInv'
<1>1. PICK t : t = [op |-> "receiving", task |-> k, n |-> n, key |-> key]
  OBVIOUS
<1>2. /\ job' = [job EXCEPT ![j] = t] /\ LockFree(k) /\ n <= k.allocated - k.received
      /\ UNCHANGED <<tasks, arrived, receipt, plans, overtaken>>
  BY <1>1 DEF LockTask, Start, stockVars, goodsVars
<1>3. t.op = "receiving" /\ t.task = k /\ t.n = n /\ t.key = key
  BY <1>1
<1>4. k \in TaskRows /\ n \in Nat \ {0} /\ plans \in Nat /\ k.id[1] < plans
  BY FinishedGoodsAssumption DEF GoodsInv, GoodsTypeOK, TaskSet, TasksInPlace
<1>5. k.received + n <= k.allocated
  BY <1>2, <1>4 DEF TaskRows
<1>6. \A m \in tasks : m.id = k.id => m = k
  BY DEF GoodsInv, GoodsTypeOK, TaskSet
<1>7. GoodsJob(t)'
  <2>1. HoldJob(t)'
    BY <1>2, <1>3, <1>4, <1>5, <1>6 DEF HoldJob
  <2> QED
    BY <1>3, <2>1 DEF GoodsJob, PlanJob, SumJob
<1>8. \A i \in Jobs \ {j} : Apart(t, job[i])
  <2> TAKE i \in Jobs \ {j}
  <2>1. Holds(job[i]) => job[i].task.id # k.id
    BY <1>2 DEF LockFree, Holds
  <2>2. job[i].op = "plan" => k.id[1] # job[i].no
    BY DEF GoodsInv, GoodsJob, PlanJob
  <2> QED
    BY <1>3, <2>1, <2>2 DEF Apart, Holds
<1>9. plans' \in Nat /\ plans <= plans' /\ overtaken \subseteq overtaken'
  BY <1>2, <1>4
<1> QED
  BY <1>2, <1>7, <1>8, <1>9, GoodsLooks

LEMMA SumHolds ==
    ASSUME GoodsInv, JobsOK', NEW j \in Jobs, SumUp(j)
    PROVE  GoodsInv'
<1>1. PICK u : u = job[j]
  OBVIOUS
<1>2. PICK c : c = u.task.receipt
  OBVIOUS
<1>3. PICK S : S = {k \in TasksOf(c) : k.id # u.task.id}
  OBVIOUS
<1>4. PICK t : t = [op |-> "summing", task |-> u.task, n |-> u.n, key |-> u.key, sum |-> S \cup {Mine(u)}]
  OBVIOUS
<1>5. u.op = "receiving" /\ job' = [job EXCEPT ![j] = t] /\ UNCHANGED <<tasks, arrived, receipt, plans, overtaken>>
  BY <1>1, <1>2, <1>3, <1>4 DEF SumUp, Doing, Goes, stockVars, goodsVars
<1>6. t.op = "summing" /\ t.task = u.task /\ t.n = u.n /\ t.key = u.key /\ t.sum = S \cup {Mine(u)}
  BY <1>4
<1>7. GoodsJob(u) /\ Holds(u) /\ Holds(t)
  BY <1>1, <1>5, <1>6 DEF GoodsInv, Holds
<1>8. /\ u.task \in TaskRows /\ u.n \in Nat \ {0} /\ u.key \in GoodsKeys
      /\ u.task.id[1] < plans /\ u.task.received + u.n <= u.task.allocated
  BY <1>7 DEF GoodsJob, HoldJob
<1>9. Mine(t) = Mine(u) /\ Mine(u) \in TaskRows /\ Mine(u).id = u.task.id
  BY <1>6, <1>8 DEF Mine, TaskRows
<1>10. TaskSet(t.sum)
  <2>1. TaskSet(TasksOf(c))
    BY TasksOfTyped DEF GoodsInv
  <2>2. S \subseteq TaskRows /\ IsFiniteSet(S) /\ \A k, m \in S : k.id = m.id => k = m
    BY <1>3, <2>1, FS_Subset DEF TaskSet
  <2>3. IsFiniteSet(S \cup {Mine(u)})
    BY <2>2, FS_AddElement
  <2>4. \A k \in S : k.id # Mine(u).id
    BY <1>3, <1>9
  <2> QED
    BY <1>6, <1>9, <2>2, <2>3, <2>4 DEF TaskSet
<1>11. HoldJob(t)'
  BY <1>5, <1>6, <1>7, <1>8 DEF GoodsJob, HoldJob
<1>12. SumJob(t)'
  <2>1. \A m \in t.sum : m.id = t.task.id => m = Mine(t)
    BY <1>3, <1>6, <1>9
  <2>2. {m \in t.sum : m.id # t.task.id} \subseteq TasksOf(c)
    BY <1>3, <1>6, <1>9
  <2>3. \A k \in TasksOf(c) : k.received \in Nat
    BY TasksOfTyped DEF GoodsInv, TaskRows
  <2>4. StillThere({m \in t.sum : m.id # t.task.id}, c)
    BY <2>2, <2>3 DEF StillThere
  <2>5. StillThere({m \in t.sum : m.id # t.task.id}, c)'
    BY <1>5, <2>4 DEF StillThere, TasksOf
  <2> QED
    BY <1>2, <1>6, <1>10, <2>1, <2>5 DEF SumJob
<1>13. GoodsJob(t)'
  BY <1>6, <1>11, <1>12 DEF GoodsJob, PlanJob
<1>14. \A i \in Jobs \ {j} : Apart(t, job[i])
  <2> TAKE i \in Jobs \ {j}
  <2>1. Apart(u, job[i])
    BY <1>1 DEF GoodsInv
  <2> QED
    BY <1>5, <1>6, <1>7, <2>1 DEF Apart
<1>15. plans' \in Nat /\ plans <= plans' /\ overtaken \subseteq overtaken'
  BY <1>5 DEF GoodsInv, GoodsTypeOK
<1> QED
  BY <1>5, <1>13, <1>14, <1>15, GoodsLooks

(* allocate *)
Kept(t) == IF Started(t.saw) THEN {Raised(k, t) : k \in TasksOf(t.receipt)} ELSE {}
Fresh(t) == NewTasks(t, IF Started(t.saw) THEN t.saw ELSE {})
Others(t) == tasks \ TasksOf(t.receipt)

LEMMA PlanTyped ==
    ASSUME NEW plan \in Plans
    PROVE  plan \in [Rows -> Nat] /\ SumFunction(plan) \in Nat
BY FinishedGoodsAssumption DEF Plans

LEMMA RaisedKeeps ==
    ASSUME NEW k \in TaskRows, NEW t, t.plan \in Plans
    PROVE  /\ Raised(k, t) \in TaskRows
           /\ Raised(k, t).id = k.id /\ Raised(k, t).receipt = k.receipt
           /\ Raised(k, t).row = k.row /\ Raised(k, t).received = k.received
           /\ k \in t.saw => Raised(k, t).allocated = t.plan[k.row]
<1>1. k.row \in Rows /\ t.plan[k.row] \in Nat
  BY PlanTyped DEF TaskRows
<1> QED
  BY <1>1 DEF Raised, TaskRows

LEMMA FreshTasks ==
    ASSUME NEW t, PlanJob(t), t.op = "plan"
    PROVE  /\ Fresh(t) \subseteq TaskRows /\ IsFiniteSet(Fresh(t))
           /\ \A k \in Fresh(t) : /\ k.id = <<t.no, k.row>> /\ k.id[1] = t.no /\ k.receipt = t.receipt
                                  /\ k.received = 0 /\ k.allocated = t.plan[k.row]
           /\ Started(t.saw) => \A k \in Fresh(t), m \in t.saw : m.row # k.row
           /\ \A k, m \in Fresh(t) : k.row = m.row => k = m
           /\ \A k, m \in Fresh(t) : k.id = m.id => k = m
<1>1. t.plan \in [Rows -> Nat] /\ t.no \in Nat /\ t.receipt \in Receipts
  BY PlanTyped DEF PlanJob
<1>2. PICK seen : seen = IF Started(t.saw) THEN t.saw ELSE {}
  OBVIOUS
<1>3. PICK R : R = {x \in Rows : t.plan[x] > 0 /\ \A k \in seen : k.row # x}
  OBVIOUS
<1>4. PICK h : h = [r \in R |-> [id |-> <<t.no, r>>, receipt |-> t.receipt, row |-> r,
                                 allocated |-> t.plan[r], received |-> 0]]
  OBVIOUS
<1>5. Fresh(t) = {h[r] : r \in R}
  BY <1>2, <1>3, <1>4 DEF Fresh, NewTasks
<1>6. IsFiniteSet(R)
  BY <1>3, WarehouseIsFinite, FS_Subset
<1>7. IsFiniteSet(Fresh(t))
  BY <1>4, <1>5, <1>6, ImageFinite
<1>8. ASSUME NEW r \in R
      PROVE  /\ h[r] \in TaskRows /\ h[r].id = <<t.no, r>> /\ h[r].id[1] = t.no /\ h[r].row = r
             /\ h[r].receipt = t.receipt /\ h[r].received = 0 /\ h[r].allocated = t.plan[r]
  <2>1. r \in Rows /\ t.plan[r] \in Nat /\ <<t.no, r>> \in Nat \X Rows
    BY <1>1, <1>3
  <2>2. h[r] = [id |-> <<t.no, r>>, receipt |-> t.receipt, row |-> r, allocated |-> t.plan[r], received |-> 0]
    BY <1>4
  <2> QED
    BY <1>1, <2>1, <2>2 DEF TaskRows
<1>9. \A k \in Fresh(t) : \E r \in R : k = h[r]
  BY <1>5
<1>10. Started(t.saw) => \A r \in R, m \in t.saw : m.row # r
  BY <1>2, <1>3
<1>11. \A k \in Fresh(t) : /\ k \in TaskRows /\ k.id = <<t.no, k.row>> /\ k.id[1] = t.no /\ k.row \in R
                           /\ k = h[k.row]
                           /\ k.receipt = t.receipt /\ k.received = 0 /\ k.allocated = t.plan[k.row]
  BY <1>8, <1>9
<1>12. \A k, m \in Fresh(t) : k.row = m.row => k = m
  BY <1>11
<1>13. \A k, m \in Fresh(t) : k.id = m.id => k.row = m.row
  <2> TAKE k, m \in Fresh(t)
  <2>1. k.id = <<t.no, k.row>> /\ m.id = <<t.no, m.row>>
    BY <1>11
  <2> QED
    BY <2>1
<1> QED
  BY <1>7, <1>10, <1>11, <1>12, <1>13

(* What an allocation makes of the tasks: those of other receipts are      *)
(* left, those it keeps are still there and received what they had, and    *)
(* the rest are of its own number.                                         *)
LEMMA AllocatedTasks ==
    ASSUME GoodsInv, NEW j \in Jobs, Allocate(j), NEW t, t = job[j]
    PROVE  /\ t.op = "plan" /\ PlanJob(t)
           /\ tasks' = Others(t) \cup Kept(t) \cup Fresh(t)
           /\ \A k \in Kept(t) : \E m \in TasksOf(t.receipt) : k = Raised(m, t)
           /\ \A m \in TasksOf(t.receipt) : Started(t.saw) => Raised(m, t) \in Kept(t)
           /\ ~ Started(t.saw) => Kept(t) = {}
           /\ \A m \in tasks : m.id[1] # t.no
           /\ TaskSet(tasks')
<1>1. t.op = "plan" /\ PlanJob(t)
  BY DEF Allocate, Doing, GoodsInv, GoodsJob
<1>2. tasks' = Others(t) \cup Kept(t) \cup Fresh(t)
  BY DEF Allocate, Others, Kept, Fresh
<1>3. t.plan \in Plans /\ \A m \in tasks : m.id[1] # t.no
  BY <1>1 DEF PlanJob
<1>4. TaskSet(tasks) /\ \A m \in TasksOf(t.receipt) : m \in tasks /\ m \in TaskRows
  BY TasksOfTyped DEF GoodsInv, GoodsTypeOK
<1>5. \A k \in Kept(t) : \E m \in TasksOf(t.receipt) : k = Raised(m, t)
  BY DEF Kept
<1>6. \A k \in Kept(t) : \E m \in TasksOf(t.receipt) : k = Raised(m, t) /\ k \in TaskRows /\ k.id = m.id
  BY <1>3, <1>4, <1>5, RaisedKeeps
<1>7. \A m \in TasksOf(t.receipt) : Started(t.saw) => Raised(m, t) \in Kept(t)
  BY DEF Kept
<1>8. ~ Started(t.saw) => Kept(t) = {}
  BY DEF Kept
<1>9. IsFiniteSet(Kept(t))
  <2>1. CASE Started(t.saw)
    <3>1. PICK h : h = [k \in TasksOf(t.receipt) |-> Raised(k, t)]
      OBVIOUS
    <3>2. IsFiniteSet(TasksOf(t.receipt))
      BY TasksOfTyped DEF GoodsInv, TaskSet
    <3> QED
      BY <1>5, <1>7, <2>1, <3>1, <3>2, ImageFinite
  <2> QED
    BY <1>8, <2>1, FS_EmptySet
<1>10. /\ Fresh(t) \subseteq TaskRows /\ IsFiniteSet(Fresh(t))
       /\ \A k \in Fresh(t) : k.id[1] = t.no
       /\ \A k, m \in Fresh(t) : k.id = m.id => k = m
  BY <1>1, FreshTasks
<1>11. IsFiniteSet(Others(t) \cup Kept(t) \cup Fresh(t))
  BY <1>4, <1>9, <1>10, FS_Subset, FS_Union DEF Others, TaskSet
<1>12. Others(t) \cup Kept(t) \cup Fresh(t) \subseteq TaskRows
  BY <1>4, <1>6, <1>10 DEF Others, TaskSet
<1>13. ASSUME NEW k \in Others(t) \cup Kept(t) \cup Fresh(t), NEW m \in Others(t) \cup Kept(t) \cup Fresh(t),
              k.id = m.id
       PROVE  k = m
  <2>1. \A x \in Others(t) : x \in tasks /\ x \notin TasksOf(t.receipt)
    BY DEF Others
  <2>2. \A x, y \in tasks : x.id = y.id => x = y
    BY <1>4 DEF TaskSet
  <2>3. \A x \in Others(t) \cup Kept(t) : \E y \in tasks : x.id = y.id
    BY <1>4, <1>6, <2>1
  <2>4. CASE k \in Fresh(t) \/ m \in Fresh(t)
    BY <1>3, <1>10, <1>13, <2>3, <2>4
  <2>5. CASE k \in Others(t) /\ m \in Others(t)
    BY <1>13, <2>1, <2>2, <2>5
  <2>6. CASE k \in Kept(t) /\ m \in Kept(t)
    BY <1>4, <1>6, <1>13, <2>2, <2>6
  <2>7. CASE (k \in Others(t) /\ m \in Kept(t)) \/ (k \in Kept(t) /\ m \in Others(t))
    BY <1>4, <1>6, <1>13, <2>1, <2>2, <2>7
  <2> QED
    BY <2>4, <2>5, <2>6, <2>7
<1>14. TaskSet(tasks')
  <2>1. PICK T : T = Others(t) \cup Kept(t) \cup Fresh(t)
    OBVIOUS
  <2>2. TaskSet(T)
    BY <1>11, <1>12, <1>13, <2>1 DEF TaskSet
  <2> QED
    BY <1>2, <2>1, <2>2
<1> QED
  BY <1>1, <1>2, <1>3, <1>5, <1>7, <1>8, <1>14

LEMMA AllocatedReceipts ==
    ASSUME GoodsInv, NEW j \in Jobs, Allocate(j), NEW t, t = job[j]
    PROVE  /\ TasksOf(t.receipt)' = Kept(t) \cup Fresh(t)
           /\ \A c \in Receipts \ {t.receipt} : TasksOf(c)' = TasksOf(c) /\ receipt'[c] = receipt[c]
           /\ \A k \in tasks' : {d \in arrived' : d.task = k.id} = {d \in arrived : d.task = k.id}
           /\ \A k \in Fresh(t) : {d \in arrived : d.task = k.id} = {}
<1>1. /\ t.op = "plan" /\ PlanJob(t)
      /\ tasks' = Others(t) \cup Kept(t) \cup Fresh(t)
      /\ \A k \in Kept(t) : \E m \in TasksOf(t.receipt) : k = Raised(m, t)
      /\ \A m \in tasks : m.id[1] # t.no
  BY AllocatedTasks
<1>2. t.plan \in Plans
  BY <1>1 DEF PlanJob
<1>3. \A k \in Kept(t) : k.receipt = t.receipt
  BY <1>1, <1>2, RaisedKeeps, TasksOfTyped DEF GoodsInv
<1>4. \A k \in Fresh(t) : k.receipt = t.receipt /\ k.id[1] = t.no
  BY <1>1, FreshTasks
<1>5. \A k \in Others(t) : k \in tasks /\ k.receipt # t.receipt
  BY DEF Others, TasksOf
<1>6. TasksOf(t.receipt)' = Kept(t) \cup Fresh(t)
  <2>1. TasksOf(t.receipt)' = {k \in tasks' : k.receipt = t.receipt}
    BY DEF TasksOf
  <2> QED
    BY <1>1, <1>3, <1>4, <1>5, <2>1
<1>7. ASSUME NEW c \in Receipts \ {t.receipt} PROVE TasksOf(c)' = TasksOf(c) /\ receipt'[c] = receipt[c]
  <2>1. TasksOf(c)' = {k \in tasks' : k.receipt = c}
    BY DEF TasksOf
  <2>2. \A k \in tasks : k.receipt = c => k \in Others(t)
    BY DEF Others, TasksOf
  <2>3. TasksOf(c)' = TasksOf(c)
    BY <1>1, <1>3, <1>4, <1>5, <2>1, <2>2 DEF TasksOf
  <2>4. receipt'[c] = receipt[c]
    BY DEF Allocate, GoodsInv, GoodsTypeOK
  <2> QED
    BY <2>3, <2>4
<1>8. arrived' = {d \in arrived : \E k \in tasks' : k.id = d.task}
  BY DEF Allocate
<1>9. \A k \in tasks' : {d \in arrived' : d.task = k.id} = {d \in arrived : d.task = k.id}
  BY <1>8
<1>10. \A d \in arrived : \E m \in tasks : m.id = d.task
  BY DEF GoodsInv, TasksInPlace
<1>11. \A k \in Fresh(t) : {d \in arrived : d.task = k.id} = {}
  BY <1>1, <1>4, <1>10
<1> QED
  BY <1>6, <1>7, <1>9, <1>11

(* The receipt planned again, where nobody received in between. *)
LEMMA AllocatedReceiptOK ==
    ASSUME GoodsInv, NEW j \in Jobs, Allocate(j), NEW t, t = job[j], t.receipt \notin overtaken'
    PROVE  ReceiptOK(t.receipt)' /\ \A k, m \in TasksOf(t.receipt)' : k.row = m.row => k = m
<1>1. PICK c : c = t.receipt
  OBVIOUS
<1>2. PICK S : S = TasksOf(c)'
  OBVIOUS
<1>3. c \notin overtaken /\ t.saw = TasksOf(c)
  BY <1>1 DEF Allocate
<1>4. /\ t.op = "plan" /\ PlanJob(t)
      /\ tasks' = Others(t) \cup Kept(t) \cup Fresh(t)
      /\ \A k \in Kept(t) : \E m \in TasksOf(c) : k = Raised(m, t)
      /\ \A m \in TasksOf(c) : Started(t.saw) => Raised(m, t) \in Kept(t)
      /\ ~ Started(t.saw) => Kept(t) = {}
      /\ TaskSet(tasks')
  BY <1>1, AllocatedTasks
<1>5. c \in Receipts /\ t.plan \in Plans /\ TaskSet(t.saw) /\ KeepsTasks(t.saw, t.plan)
  BY <1>1, <1>4 DEF PlanJob
<1>6. /\ S = Kept(t) \cup Fresh(t)
      /\ \A k \in S : {d \in arrived' : d.task = k.id} = {d \in arrived : d.task = k.id}
      /\ \A k \in Fresh(t) : {d \in arrived : d.task = k.id} = {}
  BY <1>1, <1>2, <1>4, AllocatedReceipts
<1>7. S \subseteq tasks'
  BY <1>4, <1>6
<1>8. TaskSet(S)
  BY <1>4, <1>7, FS_Subset DEF TaskSet
<1>9. /\ \A k \in Fresh(t) : k.received = 0 /\ k.allocated = t.plan[k.row]
      /\ Started(t.saw) => \A k \in Fresh(t), m \in t.saw : m.row # k.row
      /\ \A k, m \in Fresh(t) : k.row = m.row => k = m
  BY <1>4, FreshTasks
<1>10. ReceiptOK(c) /\ \A k, m \in TasksOf(c) : k.row = m.row => k = m
  BY <1>3, <1>5, ReceiptsOK DEF GoodsInv, TasksInPlace
<1>11. ASSUME NEW m \in TasksOf(c)
       PROVE  /\ Raised(m, t).id = m.id /\ Raised(m, t).row = m.row /\ Raised(m, t).received = m.received
              /\ Raised(m, t).allocated = t.plan[m.row] /\ m \in TaskRows
              /\ m.received = Total({d \in arrived : d.task = m.id}, "n")
              /\ Started(t.saw) => m.received <= t.plan[m.row]
  <2>1. m \in TaskRows /\ m.received \in Nat /\ m.allocated \in Nat /\ m.row \in Rows
    BY TasksOfTyped DEF GoodsInv, TaskRows
  <2>2. m.received = Total({d \in arrived : d.task = m.id}, "n") /\ m.received <= m.allocated
    BY <1>10 DEF ReceiptOK, Brought
  <2>3. Started(t.saw) => t.plan[m.row] >= m.allocated
    BY <1>3, <1>5 DEF KeepsTasks
  <2>4. t.plan[m.row] \in Nat
    BY <1>5, <2>1, PlanTyped
  <2>5. m.received <= m.allocated /\ t.plan[m.row] >= m.allocated => m.received <= t.plan[m.row]
    BY <2>1, <2>4
  <2> QED
    BY <1>3, <1>5, <2>1, <2>2, <2>3, <2>5, RaisedKeeps
<1>12. Kept(t) # {} => Started(t.saw)
  BY <1>4
<1>21. ASSUME NEW k \in Kept(t)
       PROVE  \E m \in TasksOf(c) : k = Raised(m, t) /\ k.row = m.row /\ k.allocated = t.plan[k.row] /\ m \in t.saw
  <2>1. PICK m \in TasksOf(c) : k = Raised(m, t)
    BY <1>4
  <2> QED
    BY <1>3, <1>11, <2>1
<1>13. \A k \in S : k.allocated = t.plan[k.row]
  BY <1>6, <1>9, <1>21
<1>14. \A k, m \in S : k.row = m.row => k = m
  <2> TAKE k, m \in S
  <2> HAVE k.row = m.row
  <2>1. CASE k \in Kept(t) /\ m \in Kept(t)
    <3>1. PICK x \in TasksOf(c) : k = Raised(x, t) /\ k.row = x.row
      BY <1>21, <2>1
    <3>2. PICK y \in TasksOf(c) : m = Raised(y, t) /\ m.row = y.row
      BY <1>21, <2>1
    <3>3. x = y
      BY <1>10, <3>1, <3>2
    <3> QED
      BY <3>1, <3>2, <3>3
  <2>2. CASE k \in Fresh(t) /\ m \in Fresh(t)
    BY <1>9, <2>2
  <2>3. \A x \in Kept(t), y \in Fresh(t) : x.row # y.row
    BY <1>9, <1>12, <1>21
  <2> QED
    BY <1>6, <2>1, <2>2, <2>3
<1>15. \A k \in S : k.received = Total({d \in arrived' : d.task = k.id}, "n") /\ k.received <= k.allocated
  <2> TAKE k \in S
  <2>1. {d \in arrived' : d.task = k.id} = {d \in arrived : d.task = k.id}
    BY <1>6
  <2>2. CASE k \in Kept(t)
    <3>1. PICK m \in TasksOf(c) : k = Raised(m, t)
      BY <1>4, <2>2
    <3>2. k.id = m.id /\ k.received = m.received /\ k.allocated = t.plan[m.row]
      BY <1>11, <3>1
    <3> QED
      BY <1>11, <1>12, <2>1, <2>2, <3>2
  <2>3. CASE k \in Fresh(t)
    <3>1. {d \in arrived : d.task = k.id} = {} /\ k.received = 0
      BY <1>6, <1>9, <2>3
    <3>2. Total({}, "n") = 0
      BY NothingTotalled, FS_EmptySet
    <3>3. k.allocated \in Nat
      BY <1>8 DEF TaskSet, TaskRows
    <3>4. Total({d \in arrived' : d.task = k.id}, "n") = 0
      BY <2>1, <3>1, <3>2, Zenon
    <3> QED
      BY <3>1, <3>3, <3>4
  <2> QED
    BY <1>6, <2>2, <2>3
<1>16. Total(S, "allocated") <= Approved
  BY <1>5, <1>8, <1>13, <1>14, TotalPlanned
<1>17. /\ receipt'[c].received = Total(t.saw, "received")
       /\ receipt'[c].status \in {"PARTIALLY_RECEIVED", "AWAITING_RECEIPT"}
  BY <1>1, <1>5 DEF Allocate, GoodsInv, GoodsTypeOK
<1>18. Total(t.saw, "received") <= Total(S, "received")
  <2>1. CASE Started(t.saw)
    <3>1. \A k \in t.saw : \E m \in S : m.id = k.id /\ k.received <= m.received
      <4> TAKE k \in t.saw
      <4>1. Raised(k, t) \in S /\ Raised(k, t).id = k.id /\ Raised(k, t).received = k.received
        BY <1>3, <1>4, <1>6, <1>11, <2>1
      <4>2. k.received \in Nat
        BY <1>5 DEF TaskSet, TaskRows
      <4> QED
        BY <4>1, <4>2
    <3> QED
      BY <1>5, <1>8, <3>1, TotalGrows
  <2>2. CASE ~ Started(t.saw)
    <3>1. \A k \in t.saw : k.received \in Nat /\ ~ (k.received > 0)
      BY <1>5, <2>2 DEF Started, TaskSet, TaskRows
    <3>2. \A k \in t.saw : k["received"] = 0
      BY <3>1
    <3>3. Total(t.saw, "received") = 0
      BY <1>5, <3>2, NothingTotalled DEF TaskSet
    <3> QED
      BY <1>8, <3>3, TotalTyped
  <2> QED
    BY <2>1, <2>2
<1>19. /\ \A k \in TasksOf(c)' : k.received = Total(Brought(k)', "n") /\ k.received <= k.allocated
       /\ Total(TasksOf(c)', "allocated") <= Approved
       /\ receipt'[c].received <= Total(TasksOf(c)', "received")
       /\ receipt'[c].status # "RECEIVED"
  BY <1>2, <1>15, <1>16, <1>17, <1>18 DEF Brought
<1>20. ReceiptOK(c)'
  BY <1>19 DEF ReceiptOK, Total, Brought, TasksOf
<1> QED
  BY <1>1, <1>2, <1>14, <1>20

LEMMA AllocateTypes ==
    ASSUME GoodsInv, NEW j \in Jobs, Allocate(j)
    PROVE  GoodsTypeOK' /\ TasksInPlace'
<1>1. PICK t : t = job[j]
  OBVIOUS
<1>2. /\ t.op = "plan" /\ PlanJob(t)
      /\ tasks' = Others(t) \cup Kept(t) \cup Fresh(t)
      /\ \A k \in Kept(t) : \E m \in TasksOf(t.receipt) : k = Raised(m, t)
      /\ \A m \in tasks : m.id[1] # t.no
      /\ TaskSet(tasks')
  BY <1>1, AllocatedTasks
<1>3. t.receipt \in Receipts /\ t.plan \in Plans /\ TaskSet(t.saw) /\ t.no \in Nat /\ t.no < plans
  BY <1>2 DEF PlanJob
<1>4. plans' = plans /\ plans \in Nat
  BY DEF Allocate, GoodsInv, GoodsTypeOK
<1>5. arrived' \subseteq arrived /\ \A d \in arrived' : \E k \in tasks' : k.id = d.task
  BY DEF Allocate
<1>6. GoodsTypeOK'
  <2>1. arrived' \subseteq Arrivals /\ IsFiniteSet(arrived')
    BY <1>5, FS_Subset DEF GoodsInv, GoodsTypeOK
  <2>2. receipt' \in [Receipts -> [status : GoodsStatuses, allocated : Int, received : Int]]
    <3>1. PICK total, done, next : total = SumFunction(t.plan) /\ done = Total(t.saw, "received")
              /\ next = IF done > 0 THEN "PARTIALLY_RECEIVED" ELSE "AWAITING_RECEIPT"
      OBVIOUS
    <3>2. receipt' = [receipt EXCEPT ![t.receipt] = [status |-> next, allocated |-> total, received |-> done]]
      BY <1>1, <3>1 DEF Allocate
    <3>3. total \in Int /\ done \in Int /\ next \in GoodsStatuses
      BY <1>3, <3>1, PlanTyped, TotalTyped DEF GoodsStatuses
    <3> QED
      BY <1>3, <3>2, <3>3 DEF GoodsInv, GoodsTypeOK
  <2> QED
    BY <1>2, <1>4, <2>1, <2>2 DEF GoodsTypeOK, TaskSet, TaskRows
<1>7. \A k \in tasks' : k.id[1] < plans
  <2>1. \A k \in tasks : k.id[1] < plans
    BY DEF GoodsInv, TasksInPlace
  <2>2. \A k \in Fresh(t) : k.id[1] < plans
    BY <1>2, <1>3, FreshTasks
  <2>3. \A k \in Kept(t) : \E m \in tasks : k.id = m.id
    BY <1>2, <1>3, RaisedKeeps, TasksOfTyped DEF GoodsInv
  <2> QED
    BY <1>2, <2>1, <2>2, <2>3 DEF Others
<1>8. ASSUME NEW c \in Receipts \ overtaken' PROVE \A k, m \in TasksOf(c)' : k.row = m.row => k = m
  <2>1. CASE c = t.receipt
    BY <1>1, <1>8, <2>1, AllocatedReceiptOK
  <2>2. CASE c # t.receipt
    <3>1. TasksOf(c)' = TasksOf(c)
      BY <1>1, <2>2, AllocatedReceipts
    <3>2. c \notin overtaken
      BY <1>8 DEF Allocate
    <3> QED
      BY <3>1, <3>2 DEF GoodsInv, TasksInPlace
  <2> QED
    BY <2>1, <2>2
<1> QED
  BY <1>4, <1>5, <1>6, <1>7, <1>8 DEF TasksInPlace

LEMMA AllocateArrives ==
    ASSUME GoodsInv, NEW j \in Jobs, Allocate(j)
    PROVE  GoodsArriveOnce'
<1>1. PICK t : t = job[j]
  OBVIOUS
<1>2. ASSUME NEW c \in Receipts \ overtaken' PROVE ReceiptOK(c)'
  <2>1. CASE c = t.receipt
    BY <1>1, <1>2, <2>1, AllocatedReceiptOK
  <2>2. CASE c # t.receipt
    <3>1. /\ TasksOf(c)' = TasksOf(c) /\ receipt'[c] = receipt[c]
          /\ \A k \in tasks' : {d \in arrived' : d.task = k.id} = {d \in arrived : d.task = k.id}
      BY <1>1, <2>2, AllocatedReceipts
    <3>2. c \in Receipts \ overtaken
      BY <1>2 DEF Allocate
    <3>3. ReceiptOK(c)
      BY <3>2, ReceiptsOK DEF GoodsInv
    <3>4. \A k \in TasksOf(c)' : k \in tasks'
      BY DEF TasksOf
    <3> QED
      BY <3>1, <3>3, <3>4, ReceiptStays
  <2> QED
    BY <2>1, <2>2
<1>3. overtaken' = overtaken' /\ \A c \in Receipts \ overtaken' : ReceiptOK(c)'
  BY <1>2
<1> QED
  BY <1>3 DEF GoodsArriveOnce, ReceiptOK, Brought, TasksOf, Total

(* The handlers that wait while an allocation is written. *)
LEMMA AllocateOthers ==
    ASSUME GoodsInv, NEW j \in Jobs, Allocate(j), NEW i \in Jobs \ {j}
    PROVE  GoodsJob(job[i])'
<1>1. PICK t : t = job[j]
  OBVIOUS
<1>2. PICK u : u = job[i]
  OBVIOUS
<1>3. /\ t.op = "plan" /\ PlanJob(t)
      /\ tasks' = Others(t) \cup Kept(t) \cup Fresh(t)
      /\ \A k \in Kept(t) : \E m \in TasksOf(t.receipt) : k = Raised(m, t)
      /\ \A m \in TasksOf(t.receipt) : Started(t.saw) => Raised(m, t) \in Kept(t)
      /\ ~ Started(t.saw) => Kept(t) = {}
  BY <1>1, AllocatedTasks
<1>4. t.receipt \in Receipts /\ t.plan \in Plans
  BY <1>3 DEF PlanJob
<1>5. GoodsJob(u) /\ Apart(u, t)
  BY <1>1, <1>2 DEF GoodsInv
<1>6. job'[i] = u /\ plans' = plans /\ overtaken \subseteq overtaken'
  BY <1>2 DEF Allocate, Finish, GoodsInv, JobsOK
<1>7. \A k \in Fresh(t) : k.id[1] = t.no /\ k.receipt = t.receipt
  BY <1>3, FreshTasks
<1>8. \A k \in Others(t) : k \in tasks /\ k.receipt # t.receipt
  BY DEF Others, TasksOf
<1>9. ASSUME NEW m \in TasksOf(t.receipt)
      PROVE  /\ Raised(m, t).id = m.id /\ Raised(m, t).receipt = m.receipt /\ Raised(m, t).row = m.row
             /\ Raised(m, t).received = m.received /\ m \in tasks /\ m.receipt = t.receipt
  <2>1. m \in TaskRows /\ m \in tasks /\ m.receipt = t.receipt
    BY TasksOfTyped DEF GoodsInv
  <2> QED
    BY <1>4, <2>1, RaisedKeeps
<1>10. \A k \in Kept(t) : \E m \in tasks : k.id = m.id /\ k.receipt = m.receipt /\ k.row = m.row
                                           /\ k.received = m.received /\ k.receipt = t.receipt
  BY <1>3, <1>9
<1>11. PlanJob(u)'
  <2>1. ASSUME u.op = "plan" PROVE \A k \in tasks' : k.id[1] # u.no
    <3>1. \A k \in tasks : k.id[1] # u.no
      BY <1>5, <2>1 DEF GoodsJob, PlanJob
    <3>2. t.no # u.no
      BY <1>3, <1>5, <2>1 DEF Apart
    <3> QED
      BY <1>3, <1>7, <1>8, <1>10, <3>1, <3>2
  <2> QED
    BY <1>5, <1>6, <2>1 DEF GoodsJob, PlanJob
<1>12. Holds(u) => u.task.id[1] # t.no
  BY <1>3, <1>5 DEF Apart
<1>13. HoldJob(u)'
  <2>1. ASSUME Holds(u)
        PROVE  \A k \in tasks' : k.id = u.task.id =>
                   k.receipt = u.task.receipt /\ k.row = u.task.row /\ k.received = u.task.received
    <3>1. \A k \in tasks : k.id = u.task.id =>
              k.receipt = u.task.receipt /\ k.row = u.task.row /\ k.received = u.task.received
      BY <1>5, <2>1 DEF GoodsJob, HoldJob
    <3>2. \A k \in Fresh(t) : k.id # u.task.id
      BY <1>7, <1>12, <2>1
    <3>3. \A k \in Kept(t) : k.id = u.task.id =>
              k.receipt = u.task.receipt /\ k.row = u.task.row /\ k.received = u.task.received
      BY <1>10, <3>1
    <3> QED
      BY <1>3, <1>8, <3>1, <3>2, <3>3
  <2> QED
    BY <1>5, <1>6, <2>1 DEF GoodsJob, HoldJob
<1>14. SumJob(u)'
  <2>1. PICK c : c = u.task.receipt
    OBVIOUS
  <2>2. PICK M : M = {m \in u.sum : m.id # u.task.id}
    OBVIOUS
  <2>3. ASSUME u.op = "summing", c \notin overtaken', NEW k \in tasks', k.id = u.task.id
        PROVE  StillThere(M, c)'
    <3>1. Holds(u) /\ \A x \in tasks : x.id = u.task.id => x.receipt = c
      BY <1>5, <2>1, <2>3 DEF Holds, GoodsJob, HoldJob
    <3>2. k \notin Fresh(t)
      BY <1>7, <1>12, <2>3, <3>1
    <3>3. \E x \in tasks : x.id = u.task.id
      BY <1>3, <1>8, <1>10, <2>3, <3>2
    <3>4. StillThere(M, c)
      BY <1>5, <1>6, <2>1, <2>2, <2>3, <3>3 DEF GoodsJob, SumJob
    <3>5. CASE c # t.receipt
      <4>1. \A x \in TasksOf(c) : x \in tasks' /\ x.receipt = c
        BY <1>3, <3>5 DEF TasksOf, Others
      <4>2. \A x \in TasksOf(c) : x \in TasksOf(c)'
        BY <4>1 DEF TasksOf
      <4> QED
        BY <3>4, <4>2 DEF StillThere
    <3>6. CASE c = t.receipt
      <4>1. Started(t.saw)
        <5>1. k \in Kept(t) \/ k \in Others(t)
          BY <1>3, <3>2
        <5>2. k \in Others(t) => k \in tasks /\ k.receipt # c
          BY <1>8, <3>6
        <5> QED
          BY <1>3, <2>3, <3>1, <5>1, <5>2
      <4>2. \A x \in TasksOf(c) : Raised(x, t) \in TasksOf(c)' /\ Raised(x, t).id = x.id /\ Raised(x, t).received = x.received
        BY <1>3, <1>9, <3>6, <4>1 DEF TasksOf
      <4>3. \A m \in M : \E y \in TasksOf(c)' : y.id = m.id /\ m.received <= y.received
        <5> TAKE m \in M
        <5>1. PICK x \in TasksOf(c) : x.id = m.id /\ m.received <= x.received
          BY <3>4 DEF StillThere
        <5> QED
          BY <4>2, <5>1
      <4> QED
        BY <4>3 DEF StillThere
    <3> QED
      BY <3>5, <3>6
  <2>4. u.op = "summing" /\ c \notin overtaken' /\ (\E k \in tasks' : k.id = u.task.id) => StillThere(M, c)'
    BY <2>3
  <2>5. u.op = "summing" => TaskSet(u.sum) /\ \A m \in u.sum : m.id = u.task.id => m = Mine(u)
    BY <1>5 DEF GoodsJob, SumJob
  <2> QED
    BY <2>1, <2>2, <2>4, <2>5 DEF SumJob
<1> QED
  BY <1>2, <1>6, <1>11, <1>13, <1>14 DEF GoodsJob

LEMMA AllocateHolds ==
    ASSUME GoodsInv, JobsOK', NEW j \in Jobs, Allocate(j)
    PROVE  GoodsInv'
<1>1. GoodsTypeOK' /\ TasksInPlace' /\ GoodsArriveOnce'
  BY AllocateTypes, AllocateArrives
<1>2. job' = [job EXCEPT ![j] = Idle]
  BY DEF Allocate, Finish
<1>3. \A i \in Jobs : GoodsJob(job[i])'
  <2> TAKE i \in Jobs
  <2>1. CASE i # j
    BY <2>1, AllocateOthers
  <2>2. CASE i = j
    <3>1. job'[i] = Idle
      BY <1>2, <2>2 DEF GoodsInv, JobsOK
    <3> QED
      BY <3>1 DEF GoodsJob, PlanJob, HoldJob, SumJob, Holds, Idle
  <2> QED
    BY <2>1, <2>2
<1>4. \A i, k \in Jobs : i # k => Apart(job'[i], job'[k])
  BY <1>2, IdleGoods, StaysApart DEF GoodsInv
<1> QED
  BY <1>1, <1>3, <1>4 DEF GoodsInv

(* receive, at its last write *)
Filled(k, t) == IF k.id = t.task.id THEN [k EXCEPT !.received = t.task.received + t.n] ELSE k
Delivery(t) == [key |-> t.key, task |-> t.task.id, n |-> t.n]

LEMMA FilledKeeps ==
    ASSUME NEW t, HoldJob(t), Holds(t), NEW k \in tasks, k \in TaskRows
    PROVE  /\ Filled(k, t) \in TaskRows
           /\ Filled(k, t).id = k.id /\ Filled(k, t).receipt = k.receipt /\ Filled(k, t).row = k.row
           /\ Filled(k, t).allocated = k.allocated
           /\ k.received <= Filled(k, t).received
           /\ k.id # t.task.id => Filled(k, t) = k
           /\ k.id = t.task.id => Filled(k, t).received = k.received + t.n
<1>1. t.task.received \in Nat /\ t.n \in Nat /\ k.received \in Nat /\ t.task.received + t.n \in Nat
  BY DEF HoldJob, TaskRows
<1>2. k.id = t.task.id => k.received = t.task.received
  BY DEF HoldJob
<1> QED
  BY <1>1, <1>2 DEF Filled, TaskRows

LEMMA FilledTasks ==
    ASSUME GoodsInv, NEW j \in Jobs, ReceiveGoods(j), NEW t, t = job[j]
    PROVE  /\ t.op = "summing" /\ Holds(t) /\ HoldJob(t) /\ SumJob(t)
           /\ tasks' = {Filled(k, t) : k \in tasks}
           /\ TaskSet(tasks')
           /\ arrived' = arrived \cup {Delivery(t)} /\ Delivery(t) \notin arrived /\ Delivery(t) \in Arrivals
           /\ \E k \in tasks : k.id = t.task.id
           /\ \A k \in tasks : k \in TaskRows
<1>1. t.op = "summing" /\ Holds(t) /\ HoldJob(t) /\ SumJob(t)
  BY DEF ReceiveGoods, Doing, Holds, GoodsInv, GoodsJob
<1>2. tasks' = {Filled(k, t) : k \in tasks}
  BY DEF ReceiveGoods, Filled
<1>3. arrived' = arrived \cup {Delivery(t)} /\ \A d \in arrived : d.key # t.key
  BY DEF ReceiveGoods, Delivery
<1>4. \E k \in tasks : k.id = t.task.id
  BY DEF ReceiveGoods
<1>5. Delivery(t) \in Arrivals /\ Delivery(t) \notin arrived
  BY <1>1, <1>3 DEF Delivery, Arrivals, HoldJob, TaskRows
<1>6. TaskSet(tasks) /\ \A k \in tasks : k \in TaskRows
  BY DEF GoodsInv, GoodsTypeOK, TaskSet
<1>7. TaskSet({Filled(k, t) : k \in tasks})
  <2>1. PICK T : T = {Filled(k, t) : k \in tasks}
    OBVIOUS
  <2>2. \A k \in tasks : Filled(k, t) \in TaskRows /\ Filled(k, t).id = k.id
    BY <1>1, <1>6, FilledKeeps
  <2>3. IsFiniteSet(T)
    <3>1. PICK h : h = [k \in tasks |-> Filled(k, t)]
      OBVIOUS
    <3> QED
      BY <1>6, <2>1, <3>1, ImageFinite DEF TaskSet
  <2>4. \A x, y \in T : x.id = y.id => x = y
    <3> TAKE x, y \in T
    <3>1. PICK k \in tasks : x = Filled(k, t)
      BY <2>1
    <3>2. PICK m \in tasks : y = Filled(m, t)
      BY <2>1
    <3>3. x.id = y.id => k = m
      BY <1>6, <2>2, <3>1, <3>2 DEF TaskSet
    <3> QED
      BY <3>1, <3>2, <3>3
  <2> QED
    BY <2>1, <2>2, <2>3, <2>4 DEF TaskSet
<1> QED
  BY <1>1, <1>2, <1>3, <1>4, <1>5, <1>6, <1>7

LEMMA FilledReceipts ==
    ASSUME GoodsInv, NEW j \in Jobs, ReceiveGoods(j), NEW t, t = job[j]
    PROVE  /\ \A c \in Receipts : TasksOf(c)' = {Filled(k, t) : k \in TasksOf(c)}
           /\ \A c \in Receipts \ {t.task.receipt} :
                  /\ TasksOf(c)' = TasksOf(c) /\ receipt'[c] = receipt[c]
                  /\ \A k \in TasksOf(c) : k.id # t.task.id
<1>1. /\ t.op = "summing" /\ Holds(t) /\ HoldJob(t)
      /\ tasks' = {Filled(k, t) : k \in tasks} /\ \A k \in tasks : k \in TaskRows
  BY FilledTasks
<1>2. \A k \in tasks : Filled(k, t).receipt = k.receipt /\ (k.id # t.task.id => Filled(k, t) = k)
  BY <1>1, FilledKeeps
<1>3. ASSUME NEW c \in Receipts PROVE TasksOf(c)' = {Filled(k, t) : k \in TasksOf(c)}
  <2>1. TasksOf(c)' = {x \in tasks' : x.receipt = c} /\ TasksOf(c) = {k \in tasks : k.receipt = c}
    BY DEF TasksOf
  <2> QED
    BY <1>1, <1>2, <2>1
<1>4. ASSUME NEW c \in Receipts \ {t.task.receipt}
      PROVE  TasksOf(c)' = TasksOf(c) /\ receipt'[c] = receipt[c] /\ \A k \in TasksOf(c) : k.id # t.task.id
  <2>1. \A k \in TasksOf(c) : k \in tasks /\ k.receipt = c
    BY DEF TasksOf
  <2>2. \A k \in TasksOf(c) : k.id # t.task.id
    BY <1>1, <2>1 DEF HoldJob
  <2>3. \A k \in TasksOf(c) : Filled(k, t) = k
    BY <1>2, <2>1, <2>2
  <2>4. TasksOf(c)' = TasksOf(c)
    BY <1>3, <2>3
  <2>5. receipt'[c] = receipt[c]
    BY DEF ReceiveGoods, GoodsInv, GoodsTypeOK
  <2> QED
    BY <2>2, <2>4, <2>5
<1> QED
  BY <1>3, <1>4

(* What a task was brought: one delivery more for the one that was locked. *)
LEMMA FilledBrought ==
    ASSUME GoodsInv, NEW j \in Jobs, ReceiveGoods(j), NEW t, t = job[j], NEW id
    PROVE  /\ id # t.task.id => {d \in arrived' : d.task = id} = {d \in arrived : d.task = id}
           /\ id = t.task.id => Total({d \in arrived' : d.task = id}, "n")
                                    = Total({d \in arrived : d.task = id}, "n") + t.n
<1>1. arrived' = arrived \cup {Delivery(t)} /\ Delivery(t) \notin arrived /\ Delivery(t) \in Arrivals
  BY FilledTasks
<1>2. Delivery(t).task = t.task.id /\ Delivery(t).n = t.n
  BY DEF Delivery
<1>3. ASSUME id # t.task.id PROVE {d \in arrived' : d.task = id} = {d \in arrived : d.task = id}
  BY <1>1, <1>2, <1>3
<1>4. ASSUME id = t.task.id
      PROVE  Total({d \in arrived' : d.task = id}, "n") = Total({d \in arrived : d.task = id}, "n") + t.n
  <2>1. PICK S : S = {d \in arrived : d.task = id}
    OBVIOUS
  <2>2. {d \in arrived' : d.task = id} = S \cup {Delivery(t)}
    BY <1>1, <1>2, <1>4, <2>1
  <2>3. S \subseteq Arrivals /\ IsFiniteSet(S) /\ Delivery(t) \notin S
    BY <1>1, <2>1, FS_Subset DEF GoodsInv, GoodsTypeOK
  <2>4. Total(S \cup {Delivery(t)}, "n") = Total(S, "n") + Delivery(t).n
    BY <1>1, <2>3, DeliveryTotals
  <2> QED
    BY <1>2, <2>1, <2>2, <2>4
<1> QED
  BY <1>3, <1>4

LEMMA FilledAllocated ==
    ASSUME GoodsInv, NEW j \in Jobs, ReceiveGoods(j), NEW t, t = job[j], NEW c \in Receipts
    PROVE  Total(TasksOf(c)', "allocated") = Total(TasksOf(c), "allocated")
<1>1. PICK S : S = TasksOf(c)
  OBVIOUS
<1>2. PICK T : T = TasksOf(c)'
  OBVIOUS
<1>3. /\ Holds(t) /\ HoldJob(t) /\ T = {Filled(k, t) : k \in S} /\ TaskSet(tasks')
  BY <1>1, <1>2, FilledTasks, FilledReceipts
<1>4. TaskSet(S) /\ \A k \in S : k \in tasks /\ k \in TaskRows
  BY <1>1, TasksOfTyped DEF GoodsInv
<1>5. T \subseteq tasks'
  BY <1>2 DEF TasksOf
<1>6. TaskSet(T)
  BY <1>3, <1>5, FS_Subset DEF TaskSet
<1>7. PICK h : h = [k \in S |-> Filled(k, t)]
  OBVIOUS
<1>8. PICK f : f = [k \in S |-> k.allocated]
  OBVIOUS
<1>9. PICK e : e = [k \in T |-> k.allocated]
  OBVIOUS
<1>10. ASSUME NEW k \in S PROVE h[k] \in T /\ h[k].id = k.id /\ h[k].allocated = k.allocated
  BY <1>3, <1>4, <1>7, FilledKeeps
<1>11. /\ \A k \in S : f[k] \in Int /\ f[k] = k["allocated"] /\ e[h[k]] = f[k]
       /\ \A x \in T : e[x] = x["allocated"]
  BY <1>4, <1>8, <1>9, <1>10 DEF TaskRows
<1>12. \A k, m \in S : h[k] = h[m] => k = m
  <2> TAKE k, m \in S
  <2>1. h[k] = h[m] => k.id = m.id
    BY <1>10
  <2> QED
    BY <1>4, <2>1 DEF TaskSet
<1>13. {h[k] : k \in S} = T
  BY <1>3, <1>7
<1>14. SumFunctionOnSet(e, {h[k] : k \in S}) = SumFunctionOnSet(f, S)
  BY <1>4, <1>11, <1>12, SumReindex DEF TaskSet
<1>15. Total(S, "allocated") = SumFunctionOnSet(f, S) /\ Total(T, "allocated") = SumFunctionOnSet(e, T)
  BY <1>4, <1>6, <1>11, TotalIs DEF TaskSet
<1> QED
  BY <1>1, <1>2, <1>13, <1>14, <1>15

LEMMA FilledReceiptOK ==
    ASSUME GoodsInv, NEW j \in Jobs, ReceiveGoods(j), NEW t, t = job[j], t.task.receipt \notin overtaken'
    PROVE  ReceiptOK(t.task.receipt)'
<1>1. PICK c : c = t.task.receipt
  OBVIOUS
<1>2. PICK S : S = TasksOf(c)'
  OBVIOUS
<1>3. /\ t.op = "summing" /\ Holds(t) /\ HoldJob(t) /\ SumJob(t)
      /\ tasks' = {Filled(k, t) : k \in tasks} /\ TaskSet(tasks')
      /\ \A k \in tasks : k \in TaskRows
  BY FilledTasks
<1>4. /\ t.task \in TaskRows /\ c \in Receipts /\ t.n \in Nat /\ t.task.received \in Nat
      /\ t.task.received + t.n <= t.task.allocated
  BY <1>1, <1>3 DEF HoldJob, TaskRows
<1>5. PICK k0 \in tasks : k0.id = t.task.id /\ k0.allocated = t.task.allocated
  BY <1>1 DEF ReceiveGoods
<1>6. /\ k0.receipt = c /\ k0.received = t.task.received /\ c \notin overtaken
      /\ \A k \in tasks : k.id = t.task.id => k = k0
  BY <1>1, <1>3, <1>5 DEF HoldJob, ReceiveGoods, GoodsInv, GoodsTypeOK, TaskSet
<1>7. S = {Filled(k, t) : k \in TasksOf(c)} /\ \A k \in TasksOf(c) : k \in tasks /\ k \in TaskRows
  BY <1>2, <1>3, <1>4, FilledReceipts DEF TasksOf
<1>8. TaskSet(S)
  <2>1. S \subseteq tasks'
    BY <1>2 DEF TasksOf
  <2> QED
    BY <1>3, <2>1, FS_Subset DEF TaskSet
<1>9. ReceiptOK(c)
  BY <1>4, <1>6, ReceiptsOK DEF GoodsInv
<1>10. ASSUME NEW k \in TasksOf(c)
       PROVE  /\ Filled(k, t).received = Total({d \in arrived' : d.task = Filled(k, t).id}, "n")
              /\ Filled(k, t).received <= Filled(k, t).allocated
  <2>1. k.received = Total({d \in arrived : d.task = k.id}, "n") /\ k.received <= k.allocated
    BY <1>9 DEF ReceiptOK, Brought
  <2>2. Filled(k, t).id = k.id /\ Filled(k, t).allocated = k.allocated
    BY <1>3, <1>7, FilledKeeps
  <2>3. CASE k.id = t.task.id
    <3>1. Total({d \in arrived' : d.task = k.id}, "n") = Total({d \in arrived : d.task = k.id}, "n") + t.n
      BY <2>3, FilledBrought
    <3>2. Filled(k, t).received = k.received + t.n
      BY <1>3, <1>7, <2>3, FilledKeeps
    <3>3. k = k0
      BY <1>6, <1>7, <2>3
    <3> QED
      BY <1>4, <1>5, <1>6, <2>1, <2>2, <3>1, <3>2, <3>3
  <2>4. CASE k.id # t.task.id
    <3>1. {d \in arrived' : d.task = k.id} = {d \in arrived : d.task = k.id}
      BY <2>4, FilledBrought
    <3>2. Filled(k, t) = k
      BY <1>3, <1>7, <2>4, FilledKeeps
    <3> QED
      BY <2>1, <3>1, <3>2
  <2> QED
    BY <2>3, <2>4
<1>11. \A x \in S : x.received = Total({d \in arrived' : d.task = x.id}, "n") /\ x.received <= x.allocated
  BY <1>7, <1>10
<1>12. Total(S, "allocated") <= Approved
  <2>1. Total(TasksOf(c)', "allocated") = Total(TasksOf(c), "allocated")
    BY <1>4, FilledAllocated
  <2>2. Total(TasksOf(c), "allocated") <= Approved
    BY <1>9 DEF ReceiptOK
  <2> QED
    BY <1>2, <2>1, <2>2
<1>13. \A m \in t.sum : \E x \in S : x.id = m.id /\ m.received <= x.received
  <2> TAKE m \in t.sum
  <2>1. CASE m.id = t.task.id
    <3>1. m = Mine(t)
      BY <1>3, <2>1 DEF SumJob
    <3>2. m.received = t.task.received + t.n
      BY <1>4, <3>1 DEF Mine, TaskRows
    <3>3. k0 \in TasksOf(c)
      BY <1>6 DEF TasksOf
    <3>4. Filled(k0, t) \in S /\ Filled(k0, t).id = m.id /\ Filled(k0, t).received = m.received
      BY <1>3, <1>5, <1>6, <1>7, <2>1, <3>2, <3>3, FilledKeeps
    <3>5. m.received \in Nat
      BY <1>4, <3>2
    <3> QED
      BY <3>4, <3>5
  <2>2. CASE m.id # t.task.id
    <3>1. StillThere({x \in t.sum : x.id # t.task.id}, c)
      BY <1>1, <1>3, <1>5, <1>6 DEF SumJob
    <3>2. PICK k \in TasksOf(c) : k.id = m.id /\ m.received <= k.received
      BY <2>2, <3>1 DEF StillThere
    <3>3. Filled(k, t) = k /\ Filled(k, t) \in S
      BY <1>3, <1>7, <2>2, <3>2, FilledKeeps
    <3> QED
      BY <3>2, <3>3
  <2> QED
    BY <2>1, <2>2
<1>14. TaskSet(t.sum)
  BY <1>3 DEF SumJob
<1>15. Total(t.sum, "received") <= Total(S, "received")
  BY <1>8, <1>13, <1>14, TotalGrows
<1>16. /\ receipt'[c].received = Total(t.sum, "received")
       /\ receipt'[c].status = DerivedStatus(t.sum)
  BY <1>1, <1>4 DEF ReceiveGoods, GoodsInv, GoodsTypeOK
<1>17. DerivedStatus(t.sum) = "RECEIVED" => Total(S, "received") = Approved
  <2>1. ASSUME DerivedStatus(t.sum) = "RECEIVED" PROVE Total(S, "received") = Approved
    <3>1. Total(t.sum, "allocated") >= Approved /\ \A k \in t.sum : k.received >= k.allocated
      BY <2>1 DEF DerivedStatus
    <3>2. \A k \in t.sum : k.allocated <= k.received
      BY <1>14, <3>1 DEF TaskSet, TaskRows
    <3>3. Total(t.sum, "allocated") <= Total(t.sum, "received")
      BY <1>14, <3>2, TotalOfFull
    <3>4. Total(S, "received") <= Total(S, "allocated")
      BY <1>8, <1>11, TotalWithin
    <3>5. /\ Total(S, "received") \in Nat /\ Total(S, "allocated") \in Nat
          /\ Total(t.sum, "received") \in Nat /\ Total(t.sum, "allocated") \in Nat
      BY <1>8, <1>14, TotalTyped
    <3>6. Approved \in Nat
      BY FinishedGoodsAssumption
    <3> QED
      BY <1>12, <1>15, <3>1, <3>3, <3>4, <3>5, <3>6
  <2> QED
    BY <2>1
<1>18. /\ \A k \in TasksOf(c)' : k.received = Total(Brought(k)', "n") /\ k.received <= k.allocated
       /\ Total(TasksOf(c)', "allocated") <= Approved
       /\ receipt'[c].received <= Total(TasksOf(c)', "received")
       /\ receipt'[c].status = "RECEIVED" => Total(TasksOf(c)', "received") = Approved
  BY <1>2, <1>11, <1>12, <1>15, <1>16, <1>17 DEF Brought
<1> QED
  BY <1>1, <1>18 DEF ReceiptOK, Total, Brought, TasksOf

LEMMA ReceiveTypes ==
    ASSUME GoodsInv, NEW j \in Jobs, ReceiveGoods(j)
    PROVE  GoodsTypeOK' /\ TasksInPlace'
<1>1. PICK t : t = job[j]
  OBVIOUS
<1>2. /\ Holds(t) /\ HoldJob(t) /\ SumJob(t) /\ t.op = "summing"
      /\ tasks' = {Filled(k, t) : k \in tasks} /\ TaskSet(tasks')
      /\ arrived' = arrived \cup {Delivery(t)} /\ Delivery(t) \in Arrivals
      /\ \E k \in tasks : k.id = t.task.id
      /\ \A k \in tasks : k \in TaskRows
  BY <1>1, FilledTasks
<1>3. plans' = plans /\ plans \in Nat /\ overtaken \subseteq overtaken'
  BY DEF ReceiveGoods, GoodsInv, GoodsTypeOK
<1>4. \A k \in tasks : /\ Filled(k, t).id = k.id /\ Filled(k, t).receipt = k.receipt
                       /\ Filled(k, t).row = k.row
  BY <1>2, FilledKeeps
<1>5. GoodsTypeOK'
  <2>1. arrived' \subseteq Arrivals /\ IsFiniteSet(arrived')
    BY <1>2, FS_AddElement DEF GoodsInv, GoodsTypeOK
  <2>2. receipt' \in [Receipts -> [status : GoodsStatuses, allocated : Int, received : Int]]
    <3>1. PICK planned, done, next : /\ planned = Total(t.sum, "allocated") /\ done = Total(t.sum, "received")
                                     /\ next = DerivedStatus(t.sum)
      OBVIOUS
    <3>2. receipt' = [receipt EXCEPT ![t.task.receipt] = [status |-> next, allocated |-> planned, received |-> done]]
      BY <1>1, <3>1 DEF ReceiveGoods
    <3>3. planned \in Int /\ done \in Int /\ next \in GoodsStatuses
      BY <1>2, <3>1, TotalTyped DEF SumJob, DerivedStatus, GoodsStatuses
    <3> QED
      BY <3>2, <3>3 DEF GoodsInv, GoodsTypeOK
  <2> QED
    BY <1>2, <1>3, <2>1, <2>2 DEF GoodsTypeOK, TaskSet, TaskRows
<1>6. \A k \in tasks' : k.id[1] < plans
  BY <1>2, <1>4 DEF GoodsInv, TasksInPlace
<1>7. \A d \in arrived' : \E k \in tasks' : k.id = d.task
  <2>1. \A d \in arrived : \E k \in tasks : k.id = d.task
    BY DEF GoodsInv, TasksInPlace
  <2>2. Delivery(t).task = t.task.id
    BY DEF Delivery
  <2>3. \A d \in arrived' : \E k \in tasks : k.id = d.task
    BY <1>2, <2>1, <2>2
  <2> QED
    BY <1>2, <1>4, <2>3
<1>8. ASSUME NEW c \in Receipts \ overtaken' PROVE \A k, m \in TasksOf(c)' : k.row = m.row => k = m
  <2>1. TasksOf(c)' = {Filled(k, t) : k \in TasksOf(c)}
    BY <1>1, FilledReceipts
  <2>2. \A k, m \in TasksOf(c) : k.row = m.row => k = m
    BY <1>3, <1>8 DEF GoodsInv, TasksInPlace
  <2>3. \A k \in TasksOf(c) : Filled(k, t).row = k.row
    BY <1>4 DEF TasksOf
  <2> QED
    BY <2>1, <2>2, <2>3
<1> QED
  BY <1>3, <1>5, <1>6, <1>7, <1>8 DEF TasksInPlace

LEMMA ReceiveArrives ==
    ASSUME GoodsInv, NEW j \in Jobs, ReceiveGoods(j)
    PROVE  GoodsArriveOnce'
<1>1. PICK t : t = job[j]
  OBVIOUS
<1>2. ASSUME NEW c \in Receipts \ overtaken' PROVE ReceiptOK(c)'
  <2>1. CASE c = t.task.receipt
    BY <1>1, <1>2, <2>1, FilledReceiptOK
  <2>2. CASE c # t.task.receipt
    <3>1. /\ TasksOf(c)' = TasksOf(c) /\ receipt'[c] = receipt[c]
          /\ \A k \in TasksOf(c) : k.id # t.task.id
      BY <1>1, <2>2, FilledReceipts
    <3>2. c \in Receipts \ overtaken
      BY <1>2 DEF ReceiveGoods
    <3>3. ReceiptOK(c)
      BY <3>2, ReceiptsOK DEF GoodsInv
    <3>4. \A k \in TasksOf(c) : {d \in arrived' : d.task = k.id} = {d \in arrived : d.task = k.id}
      BY <1>1, <3>1, FilledBrought
    <3> QED
      BY <3>1, <3>3, <3>4, ReceiptStays
  <2> QED
    BY <2>1, <2>2
<1> QED
  BY <1>2 DEF GoodsArriveOnce, ReceiptOK, Brought, TasksOf, Total

LEMMA ReceiveOthers ==
    ASSUME GoodsInv, NEW j \in Jobs, ReceiveGoods(j), NEW i \in Jobs \ {j}
    PROVE  GoodsJob(job[i])'
<1>1. PICK t : t = job[j]
  OBVIOUS
<1>2. PICK u : u = job[i]
  OBVIOUS
<1>3. /\ Holds(t) /\ HoldJob(t) /\ tasks' = {Filled(k, t) : k \in tasks} /\ \A k \in tasks : k \in TaskRows
  BY <1>1, FilledTasks
<1>4. GoodsJob(u) /\ Apart(u, t)
  BY <1>1, <1>2 DEF GoodsInv
<1>5. job'[i] = u /\ plans' = plans /\ overtaken \subseteq overtaken'
  BY <1>2 DEF ReceiveGoods, Finish, GoodsInv, JobsOK
<1>6. \A k \in tasks : /\ Filled(k, t).id = k.id /\ Filled(k, t).receipt = k.receipt /\ Filled(k, t).row = k.row
                       /\ k.received <= Filled(k, t).received
                       /\ k.id # t.task.id => Filled(k, t) = k
  BY <1>3, FilledKeeps
<1>7. PlanJob(u)'
  BY <1>3, <1>4, <1>5, <1>6 DEF GoodsJob, PlanJob
<1>8. Holds(u) => u.task.id # t.task.id
  BY <1>3, <1>4 DEF Apart
<1>9. HoldJob(u)'
  <2>1. ASSUME Holds(u)
        PROVE  \A k \in tasks' : k.id = u.task.id =>
                   k.receipt = u.task.receipt /\ k.row = u.task.row /\ k.received = u.task.received
    <3>1. \A k \in tasks : k.id = u.task.id =>
              k.receipt = u.task.receipt /\ k.row = u.task.row /\ k.received = u.task.received
      BY <1>4, <2>1 DEF GoodsJob, HoldJob
    <3>2. \A k \in tasks' : k.id = u.task.id => k \in tasks
      BY <1>3, <1>6, <1>8, <2>1
    <3> QED
      BY <3>1, <3>2
  <2> QED
    BY <1>4, <1>5, <2>1 DEF GoodsJob, HoldJob
<1>10. SumJob(u)'
  <2>1. PICK c : c = u.task.receipt
    OBVIOUS
  <2>2. PICK M : M = {m \in u.sum : m.id # u.task.id}
    OBVIOUS
  <2>3. ASSUME u.op = "summing", c \notin overtaken', NEW k \in tasks', k.id = u.task.id
        PROVE  StillThere(M, c)'
    <3>1. \E x \in tasks : x.id = u.task.id
      BY <1>3, <1>6, <2>3
    <3>2. StillThere(M, c) /\ TaskSet(u.sum)
      BY <1>4, <1>5, <2>1, <2>2, <2>3, <3>1 DEF GoodsJob, SumJob
    <3>3. \A m \in M : m.received \in Nat
      BY <2>2, <3>2 DEF TaskSet, TaskRows
    <3>4. ASSUME NEW x \in TasksOf(c)
          PROVE  Filled(x, t) \in TasksOf(c)' /\ Filled(x, t).id = x.id /\ x.received <= Filled(x, t).received
                 /\ x.received \in Nat /\ Filled(x, t).received \in Nat
      <4>1. x \in tasks /\ x.receipt = c
        BY DEF TasksOf
      <4>2. Filled(x, t) \in tasks' /\ Filled(x, t).receipt = c
        BY <1>3, <1>6, <4>1
      <4>3. x \in TaskRows /\ Filled(x, t) \in TaskRows
        BY <1>3, <4>1, FilledKeeps
      <4> QED
        BY <1>6, <4>1, <4>2, <4>3 DEF TasksOf, TaskRows
    <3>5. \A m \in M : \E y \in TasksOf(c)' : y.id = m.id /\ m.received <= y.received
      <4> TAKE m \in M
      <4>1. PICK x \in TasksOf(c) : x.id = m.id /\ m.received <= x.received
        BY <3>2 DEF StillThere
      <4>2. m.received <= Filled(x, t).received
        BY <3>3, <3>4, <4>1
      <4> QED
        BY <3>4, <4>1, <4>2
    <3> QED
      BY <3>5 DEF StillThere
  <2>4. u.op = "summing" /\ c \notin overtaken' /\ (\E k \in tasks' : k.id = u.task.id) => StillThere(M, c)'
    BY <2>3
  <2>5. u.op = "summing" => TaskSet(u.sum) /\ \A m \in u.sum : m.id = u.task.id => m = Mine(u)
    BY <1>4 DEF GoodsJob, SumJob
  <2> QED
    BY <2>1, <2>2, <2>4, <2>5 DEF SumJob
<1> QED
  BY <1>2, <1>5, <1>7, <1>9, <1>10 DEF GoodsJob

LEMMA ReceiveHoldsGoods ==
    ASSUME GoodsInv, JobsOK', NEW j \in Jobs, ReceiveGoods(j)
    PROVE  GoodsInv'
<1>1. GoodsTypeOK' /\ TasksInPlace' /\ GoodsArriveOnce'
  BY ReceiveTypes, ReceiveArrives
<1>2. job' = [job EXCEPT ![j] = Idle]
  BY DEF ReceiveGoods, Finish
<1>3. \A i \in Jobs : GoodsJob(job[i])'
  <2> TAKE i \in Jobs
  <2>1. CASE i # j
    BY <2>1, ReceiveOthers
  <2>2. CASE i = j
    <3>1. job'[i] = Idle
      BY <1>2, <2>2 DEF GoodsInv, JobsOK
    <3> QED
      BY <3>1 DEF GoodsJob, PlanJob, HoldJob, SumJob, Holds, Idle
  <2> QED
    BY <2>1, <2>2
<1>4. \A i, k \in Jobs : i # k => Apart(job'[i], job'[k])
  BY <1>2, IdleGoods, StaysApart DEF GoodsInv
<1> QED
  BY <1>1, <1>3, <1>4 DEF GoodsInv

LEMMA GoodsHold ==
    ASSUME GoodsInv, JobsOK', NEW j \in Jobs, GoodsStep(j)
    PROVE  GoodsInv'
BY PlanReads, AllocateHolds, LockHolds, SumHolds, ReceiveHoldsGoods DEF GoodsStep

LEMMA GoodsStay == GoodsInv /\ [WarehouseNext]_warehouseVars => GoodsInv'
<1> SUFFICES ASSUME GoodsInv, [WarehouseNext]_warehouseVars PROVE GoodsInv'
  OBVIOUS
<1>1. JobsOK'
  BY JobsStay DEF GoodsInv
<1>2. CASE UNCHANGED warehouseVars
  <2>1. UNCHANGED <<receipt, tasks, arrived, plans, overtaken, job>>
    BY <1>2 DEF warehouseVars
  <2>2. GoodsTypeOK' /\ TasksInPlace' /\ GoodsArriveOnce'
    <3>1. GoodsTypeOK'
      BY <2>1 DEF GoodsInv, GoodsTypeOK, TaskSet, TaskRows
    <3>2. TasksInPlace'
      BY <2>1 DEF GoodsInv, TasksInPlace, TasksOf
    <3>3. GoodsArriveOnce'
      BY <2>1 DEF GoodsInv, GoodsArriveOnce, TasksOf
    <3> QED
      BY <3>1, <3>2, <3>3
  <2>3. \A j \in Jobs : GoodsJob(job[j])'
    BY <2>1 DEF GoodsInv, GoodsJob, PlanJob, HoldJob, SumJob, StillThere, TasksOf
  <2> QED
    BY <1>1, <2>1, <2>2, <2>3 DEF GoodsInv
<1>3. CASE WarehouseNext
  <2>1. PICK j \in Jobs : \/ HandlerDies(j)
                          \/ AtShelf(j) \/ AtOrders(j) \/ AtCouriers(j) \/ AtRequisitions(j)
                          \/ AtPurchasing(j) \/ AtQuality(j) \/ AtMaterials(j) \/ AtGoods(j)
    BY <1>3 DEF WarehouseNext
  <2>2. CASE AtGoods(j)
    BY <1>1, <2>2, GoodsHold DEF AtGoods
  <2>3. CASE ~ AtGoods(j)
    <3>1. UNCHANGED goodsVars
      BY <2>1, <2>3 DEF HandlerDies, AtShelf, AtOrders, AtCouriers, AtRequisitions, AtPurchasing,
                        AtQuality, AtMaterials, StoresRest
    <3>2. \/ HandlerDies(j)
          \/ \E ops : Works(j, ops) /\ ops \in {ShelfOps, OrderOps, CourierOps, ReqOps, PurchaseOps, BatchOps, MaterialOps}
      BY <2>1, <2>3, ShelfWorks, OrdersWork, CouriersWork, RequisitionsWork, PurchasingWorks,
         QualityWorks, MaterialsWork
         DEF AtShelf, AtOrders, AtCouriers, AtRequisitions, AtPurchasing, AtQuality, AtMaterials
    <3>3. "idle" \notin GoodsOps /\ \A ops \in {ShelfOps, OrderOps, CourierOps, ReqOps, PurchaseOps, BatchOps, MaterialOps} : ops \cap GoodsOps = {}
      BY DEF ShelfOps, OrderOps, CourierOps, ReqOps, PurchaseOps, BatchOps, MaterialOps, GoodsOps
    <3>5. Elsewhere(GoodsOps)
      BY <3>2, <3>3, WorksElsewhere, DeathElsewhere
    <3> QED
      BY <1>1, <3>1, <3>5, GoodsElsewhere
  <2> QED
    BY <2>2, <2>3
<1> QED
  BY <1>2, <1>3

LEMMA GoodsStart == WarehouseInit => GoodsInv
<1> SUFFICES ASSUME WarehouseInit PROVE GoodsInv
  OBVIOUS
<1>1. /\ receipt = [c \in Receipts |-> [status |-> "PENDING_ALLOCATION", allocated |-> 0, received |-> 0]]
      /\ tasks = {} /\ arrived = {} /\ plans = 0 /\ job = [j \in Jobs |-> Idle]
  BY DEF WarehouseInit, GoodsInit, StockInit
<1>2. GoodsTypeOK /\ TasksInPlace
  BY <1>1, FS_EmptySet DEF GoodsTypeOK, TaskSet, TasksInPlace, TasksOf, GoodsStatuses
<1>3. GoodsArriveOnce
  <2>1. \A c \in Receipts : TasksOf(c) = {} /\ receipt[c].received = 0 /\ receipt[c].status = "PENDING_ALLOCATION"
    BY <1>1 DEF TasksOf
  <2>2. Total({}, "allocated") = 0 /\ Total({}, "received") = 0
    BY NothingTotalled, FS_EmptySet
  <2>3. \A c \in Receipts : ReceiptOK(c)
    BY <2>1, <2>2, FinishedGoodsAssumption DEF ReceiptOK
  <2> QED
    BY <2>3, ReceiptsOK
<1>4. JobsOK /\ \A j \in Jobs : job[j] = Idle
  BY <1>1 DEF JobsOK
<1>5. (\A j \in Jobs : GoodsJob(job[j])) /\ \A i, j \in Jobs : Apart(job[i], job[j])
  BY <1>4, IdleGoods
<1> QED
  BY <1>2, <1>3, <1>4, <1>5 DEF GoodsInv

(* What the tasks say arrived is what their deliveries brought, within     *)
(* what was allocated and approved, and a receipt claims no more than its  *)
(* tasks, however many devices scan at once: the advisory lock of a task   *)
(* keeps its outstanding quantity, and receipts whose allocation           *)
(* overlapped a delivery are the only exception (allocate and receive of   *)
(* the finished goods receipts service).                                   *)
THEOREM GoodsArriveOnceHolds == WarehouseSpec => []GoodsArriveOnce
<1>1. GoodsInv => GoodsArriveOnce
  BY DEF GoodsInv
<1> QED
  BY <1>1, GoodsStart, GoodsStay, PTL DEF WarehouseSpec
=============================================================================
