------------------------------ MODULE MCStock ------------------------------
(***************************************************************************)
(* One product in two warehouses.  Every document writes the same rows;    *)
(* each initial state opens one or two desks, and the others stay shut.    *)
(***************************************************************************)
EXTENDS Warehouse, TLC

CONSTANTS main, shop, k1, Desks,
          Rivals  \* orders placed only where the order desk works alone

VARIABLE open   \* the desks that work in this behaviour

MCOpening == [r \in Rows |-> IF r = main THEN 2 ELSE 0]
MCQty == [o \in Orders |-> 2]
MCSymmetry == Permutations(Jobs) \cup Permutations(IssueKeys)

vars == <<warehouseVars, open>>

MCInit == WarehouseInit /\ open \in Desks

(* A production run is neither put into READY nor paused; a hold takes     *)
(* what is left of its batch, and beside the order desk a decision all of  *)
(* its record.  Where the shelf is shut no order is paid for, carries a    *)
(* coupon or is put into PROCESSING or COMPLETED by hand; couriers collect *)
(* an order that was not picked and packed by hand.  A rival order is      *)
(* placed only where the order desk works alone.                           *)
NotMovedTo(j, statuses) == job'[j].op = "transition" => job'[j].to \notin statuses

Simple == \A j \in Jobs :
    /\ job'[j].op = "run" => job'[j].to \notin {"READY", "PAUSED"}
    /\ job'[j].op = "hold" /\ job[j].op # "hold" => job'[j].n = batch[job'[j].batch].left
    /\ job'[j].op = "decide" /\ "orders" \in open => job'[j].n = job'[j].record.qty
    /\ job'[j].op = "create" /\ job'[j].order \in Rivals => open = {"orders"}
    /\ "couriers" \in open => NotMovedTo(j, {"PICKING", "PACKING"})
    /\ "shelf" \notin open =>
         /\ job'[j].op # "pay"
         /\ job'[j].op = "create" => ~job'[j].coupon
         /\ NotMovedTo(j, {"PROCESSING", "COMPLETED"})

At(desk, step) == desk \in open /\ step /\ UNCHANGED open

Moves == \E j \in Jobs :
    \/ HandlerDies(j) /\ UNCHANGED open
    \/ At("shelf", AtShelf(j))
    \/ At("orders", AtOrders(j))
    \/ At("couriers", AtCouriers(j))
    \/ At("requisitions", AtRequisitions(j))
    \/ At("purchasing", AtPurchasing(j))
    \/ At("quality", AtQuality(j))
    \/ At("materials", AtMaterials(j))
    \/ At("goods", AtGoods(j))

(* A behaviour ends where two requests were not handled in turn, or a      *)
(* release gave back what another batch held.                              *)
MCNext == InTurn /\ ~eaten /\ Moves /\ Simple
MCSpec == MCInit /\ [][MCNext]_vars
=============================================================================
