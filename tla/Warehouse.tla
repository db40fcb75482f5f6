------------------------------ MODULE Warehouse ------------------------------
(***************************************************************************)
(* All the desks of one business at once.  Each keeps its own documents,   *)
(* and all of them write the same StockLevel rows.                         *)
(***************************************************************************)
EXTENDS Couriers, Requisitions, Purchasing, Materials, FinishedGoods

(* Tables have finitely many rows.                                         *)
ASSUME WarehouseIsFinite ==
    /\ IsFiniteSet(Orders) /\ IsFiniteSet(Reqs) /\ IsFiniteSet(Purchases)
    /\ IsFiniteSet(Batches) /\ IsFiniteSet(Runs) /\ IsFiniteSet(Rows)

warehouseVars ==
    <<level, byHand, edits, job, lost, raced, overtaken, order, couponUsed, customerOrders,
      shipment, reported, reports, unheard, req, loads, receiptKeys, landed, twice, po, deliveries,
      batch, records, scrapped, hold, eaten, line, wanted, slips, backs, withdrawn, drawn, issues,
      receipt, tasks, arrived, shelved, plans>>

WarehouseInit ==
    /\ StockInit /\ OrderInit /\ CourierInit /\ ReqInit /\ PurchaseInit /\ QuarantineInit
    /\ MaterialInit /\ GoodsInit

StoresRest == UNCHANGED <<reqVars, purchaseVars, batchVars, lineVars, goodsVars>>
OrdersRest == UNCHANGED <<orderVars, courierVars>>

HandlerDies(j) == Abandon(j) /\ CourierDies(j) /\ StoresRest /\ UNCHANGED orderVars

AtShelf(j) == StockStep(j) /\ StoresRest /\ OrdersRest
AtOrders(j) == OrderStep(j) /\ StoresRest /\ UNCHANGED courierVars
AtCouriers(j) == CourierStep(j) /\ StoresRest
AtRequisitions(j) == ReqStep(j) /\ OrdersRest /\ UNCHANGED <<purchaseVars, batchVars, lineVars, goodsVars>>
AtPurchasing(j) == PurchaseStep(j) /\ OrdersRest /\ UNCHANGED <<reqVars, batchVars, lineVars, goodsVars>>
AtQuality(j) == BatchStep(j) /\ OrdersRest /\ UNCHANGED <<reqVars, purchaseVars, lineVars, goodsVars>>
AtMaterials(j) == MaterialStep(j) /\ OrdersRest /\ UNCHANGED <<reqVars, purchaseVars, goodsVars>>
AtGoods(j) == GoodsStep(j) /\ OrdersRest /\ UNCHANGED <<reqVars, purchaseVars, lineVars>>

WarehouseNext == \E j \in Jobs :
    \/ HandlerDies(j)
    \/ AtShelf(j) \/ AtOrders(j) \/ AtCouriers(j) \/ AtRequisitions(j) \/ AtPurchasing(j)
    \/ AtQuality(j) \/ AtMaterials(j) \/ AtGoods(j)

WarehouseSpec == WarehouseInit /\ [][WarehouseNext]_warehouseVars

----------------------------------------------------------------------------
(* No order or run was moved, and no batch decided, by two requests that   *)
(* had both read it before either wrote.                                   *)
InTurn == overtaken \cap (Orders \cup Batches \cup Runs) = {}

At0(r, row, n) == IF r = row THEN n ELSE 0

(* What is on a shelf is what the documents say went on it and came off    *)
(* it, and the movements record every unit: no order ships twice, no load  *)
(* or delivery is counted twice, unless a row was overwritten from an old  *)
(* reading.                                                                *)
OnHandIsExplained == InTurn => \A r \in Rows \ lost :
    level[r].quantity = OpeningStock[r] + byHand[r]
        - At0(r, Shelf, SumFunction([o \in Orders |-> Shipped(o)]))
        - At0(r, Source, SumFunction([q \in Reqs |-> SentFor(q)]))
        + At0(r, Destination, SumFunction(landed))
        + At0(r, Dock, SumFunction([p \in Purchases |-> DeliveredFor(p)]))
        - At0(r, Store, SumFunction(drawn))
        + shelved[r]
        + At0(r, Bay, BatchQty * Cardinality({b \in Batches : batch[b].made}) - SumFunction(scrapped))

(* Every reserved unit is the claim of one order that may still be         *)
(* dispatched or cancelled, or held for one batch, or was stranded by an   *)
(* order that ended otherwise: a refund before the dispatch releases       *)
(* nothing, nor does a courier's report of an order never dispatched.      *)
(* Nothing else strands a unit, no claim is released twice by a            *)
(* cancellation or a dispatch, and none is taken by the release of a       *)
(* batch.                                                                  *)
ReservedIsSpokenFor == InTurn /\ ~eaten => \A r \in Rows :
    level[r].reserved = At0(r, Shelf, SumFunction([o \in Orders |-> Claim(o) + Stranded(o)]))
                        + At0(r, Bay, SumFunction(hold))

(* Stock is never promised beyond what is there, however placements,       *)
(* dispatches, adjustments, transfers, deliveries and holds interleave,    *)
(* unless one of them acted on a row that changed after it was checked.    *)
NeverOversold == InTurn /\ ~eaten => \A r \in Rows \ raced :
    0 <= level[r].reserved /\ level[r].reserved <= level[r].quantity
=============================================================================
