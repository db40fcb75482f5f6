------------------------------- MODULE Orders -------------------------------
(***************************************************************************)
(* Sales orders: placing one claims its stock, dispatching it takes the    *)
(* stock, cancelling it releases the claim, and payments recorded by staff *)
(* mark it paid and count it for the customer.                             *)
(***************************************************************************)
EXTENDS Stock

CONSTANTS Orders,      \* order rows that may be placed
          OrderQty,    \* units each order claims
          OrderTotal,  \* its price
          Shelf,       \* the row the orders sell from
          CouponLimit  \* usageLimit of the coupon the orders may carry

ASSUME OrderAssumption ==
    /\ OrderQty \in [Orders -> Nat \ {0}] /\ OrderTotal \in Nat \ {0}
    /\ CouponLimit \in Nat /\ (Orders # {} => Shelf \in Rows)

VARIABLES order,          \* status, payStatus, paid, shipped (fulfilledQty), cancelled (cancelledAt)
          couponUsed,     \* Coupon.usedCount
          customerOrders  \* Customer.totalOrders

orderVars == <<order, couponUsed, customerOrders>>

ToCancel == {"PENDING", "CONFIRMED", "PROCESSING", "PICKING", "PACKING", "READY_FOR_DISPATCH"}

TRANSITIONS ==
    {<<"PENDING", "CONFIRMED">>, <<"CONFIRMED", "PROCESSING">>, <<"CONFIRMED", "PICKING">>,
     <<"PROCESSING", "PICKING">>, <<"PICKING", "PACKING">>, <<"PACKING", "READY_FOR_DISPATCH">>,
     <<"READY_FOR_DISPATCH", "DISPATCHED">>, <<"DISPATCHED", "IN_TRANSIT">>,
     <<"DISPATCHED", "DELIVERED">>, <<"IN_TRANSIT", "DELIVERED">>, <<"DELIVERED", "COMPLETED">>}
    \cup {<<s, "CANCELLED">> : s \in ToCancel}

OrderStatuses == {"ABSENT", "COMPLETED", "REFUNDED"} \cup ToCancel \cup {t[2] : t \in TRANSITIONS}

OrderInit ==
    /\ order = [o \in Orders |-> [status |-> "ABSENT", payStatus |-> "PENDING", paid |-> 0,
                                  shipped |-> FALSE, cancelled |-> FALSE]]
    /\ couponUsed = 0
    /\ customerOrders = 0

Exists(o) == order[o].status # "ABSENT"

(* create checks the coupon before its transaction ...                     *)
ValidateCoupon(j, o, coupon) ==
    /\ ~Exists(o) /\ \A i \in Jobs : job[i] # Idle => ~(Doing(i, "create") /\ job[i].order = o)
    /\ coupon => couponUsed < CouponLimit
    /\ Start(j, [op |-> "create", order |-> o, coupon |-> coupon])
    /\ UNCHANGED <<stockVars, orderVars>>

(* ... and claims the stock in it with an UPDATE that carries the check: a *)
(* second claimant matches no row and is turned away.                      *)
ClaimStock(r, n) ==
    /\ Available(level[r]) >= n
    /\ level' = [level EXCEPT ![r] = Shift(@, 0, n)]

PlaceOrder(j) ==
    LET t == job[j] IN
    /\ Doing(j, "create")
    /\ ClaimStock(Shelf, OrderQty[t.order])
    /\ order' = [order EXCEPT ![t.order].status = "PENDING"]
    /\ couponUsed' = couponUsed + (IF t.coupon THEN 1 ELSE 0)
    /\ Finish(j)
    /\ UNCHANGED <<byHand, edits, lost, raced, overtaken, customerOrders>>

(* transition reads the order and consults the map before its transaction, *)
(* whose update of the order is unconditional.                             *)
ReadForTransition(j, o, to) ==
    /\ <<order[o].status, to>> \in TRANSITIONS
    /\ Start(j, [op |-> "transition", order |-> o, from |-> order[o].status, to |-> to])
    /\ UNCHANGED <<stockVars, orderVars>>

ReleaseOnly(to, n) == \* mistake: dispatch releases the claim and forgets the stock
    IF to \in {"DISPATCHED", "CANCELLED"} THEN level' = [level EXCEPT ![Shelf] = Shift(@, 0, -n)] ELSE UNCHANGED level
NoRelease(to, n) == \* mistake: cancelling keeps the claim
    IF to = "DISPATCHED" THEN level' = [level EXCEPT ![Shelf] = Shift(@, -n, -n)] ELSE UNCHANGED level
StockEffect(to, n) ==
    CASE to = "DISPATCHED" -> level' = [level EXCEPT ![Shelf] = Shift(@, -n, -n)]
      [] to = "CANCELLED"  -> level' = [level EXCEPT ![Shelf] = Shift(@, 0, -n)]
      [] OTHER             -> UNCHANGED level

Overtaken(doc, changed) == overtaken' = overtaken \cup (IF changed THEN {doc} ELSE {})

Transition(j) ==
    LET t == job[j] IN
    /\ Doing(j, "transition")
    /\ StockEffect(t.to, OrderQty[t.order])
    /\ order' = [order EXCEPT ![t.order].status = t.to,
                              ![t.order].shipped = @ \/ t.to = "DISPATCHED",
                              ![t.order].cancelled = @ \/ t.to = "CANCELLED"]
    /\ Overtaken(t.order, order[t.order].status # t.from)
    /\ Finish(j)
    /\ UNCHANGED <<byHand, edits, lost, raced, couponUsed, customerOrders>>

(* refund looks at the status and the payment status, and writes both.     *)
ReadForRefund(j, o) ==
    /\ Exists(o) /\ order[o].status # "REFUNDED" /\ order[o].payStatus # "PENDING"
    /\ Start(j, [op |-> "refund", order |-> o, from |-> order[o].status])
    /\ UNCHANGED <<stockVars, orderVars>>

Refund(j) ==
    LET t == job[j] IN
    /\ Doing(j, "refund")
    /\ order' = [order EXCEPT ![t.order].status = "REFUNDED", ![t.order].payStatus = "REFUNDED"]
    /\ Overtaken(t.order, order[t.order].status # t.from)
    /\ Finish(j)
    /\ UNCHANGED <<level, byHand, edits, lost, raced, couponUsed, customerOrders>>

(* recordPayment decides what is outstanding before its transaction.       *)
Payment(o) == <<"payment", o>>

ReadForPaymentUnchecked(j, o, amount) == \* mistake: more than is outstanding is accepted
    /\ Exists(o) /\ order[o].status # "CANCELLED"
    /\ Start(j, [op |-> "pay", order |-> o, n |-> amount, saw |-> order[o].paid])
    /\ UNCHANGED <<stockVars, orderVars>>

ReadForPayment(j, o, amount) ==
    /\ Exists(o) /\ order[o].status # "CANCELLED"
    /\ amount <= OrderTotal - order[o].paid
    /\ Start(j, [op |-> "pay", order |-> o, n |-> amount, saw |-> order[o].paid])
    /\ UNCHANGED <<stockVars, orderVars>>

AlmostPaid(t) == t.saw + t.n >= OrderTotal - 1 \* mistake: off by one
FullyPaid(t) == t.saw + t.n >= OrderTotal

RecordPayment(j) ==
    LET t == job[j] IN
    /\ Doing(j, "pay")
    /\ order' = [order EXCEPT ![t.order].paid = @ + t.n,
                              ![t.order].payStatus = IF FullyPaid(t) THEN "PAID" ELSE "PARTIALLY_PAID"]
    /\ customerOrders' = customerOrders + (IF FullyPaid(t) THEN 1 ELSE 0)
    /\ Overtaken(Payment(t.order), order[t.order].paid # t.saw)
    /\ Finish(j)
    /\ UNCHANGED <<level, byHand, edits, lost, raced, couponUsed>>

OrderStep(j) ==
    \/ \E o \in Orders, coupon \in BOOLEAN : ValidateCoupon(j, o, coupon)
    \/ PlaceOrder(j)
    \/ \E o \in Orders, to \in OrderStatuses : ReadForTransition(j, o, to)
    \/ Transition(j)
    \/ \E o \in Orders : ReadForRefund(j, o)
    \/ Refund(j)
    \/ \E o \in Orders, amount \in {1, OrderTotal} : ReadForPayment(j, o, amount)
    \/ RecordPayment(j)

(* Units of an order that were reserved, and neither shipped nor released. *)
Unreleased(o) == IF Exists(o) /\ ~order[o].shipped /\ ~order[o].cancelled THEN OrderQty[o] ELSE 0

(* They are the claim of an order that may still be dispatched or          *)
(* cancelled.  One that was refunded before its dispatch, or that couriers *)
(* reported on its way without one, is past both: its units are stranded,  *)
(* and nothing releases them.                                              *)
Claim(o) == IF order[o].status \in ToCancel THEN Unreleased(o) ELSE 0
Stranded(o) == IF order[o].status \in ToCancel THEN 0 ELSE Unreleased(o)
Shipped(o) == IF order[o].shipped THEN OrderQty[o] ELSE 0

(* "PAID" is said only of an order whose payments cover its total, however *)
(* payments overlap (the sum an overlapping payment misses only adds); and *)
(* a customer's order count and lifetime value take each order once, when  *)
(* its payments did not overlap.                                           *)
PaidInFull ==
    /\ \A o \in Orders : order[o].payStatus = "PAID" => order[o].paid >= OrderTotal
    /\ (\A o \in Orders : Payment(o) \notin overtaken) =>
           customerOrders = Cardinality({o \in Orders : order[o].paid >= OrderTotal})
=============================================================================
