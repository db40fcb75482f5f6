----------------------------- MODULE Purchasing -----------------------------
(***************************************************************************)
(* Purchase orders: placed with a supplier, received in one or more        *)
(* deliveries that put the goods on a shelf.                               *)
(***************************************************************************)
EXTENDS Stock, FiniteSetsExt

CONSTANTS Purchases,      \* purchase orders of one line
          Ordered,        \* units ordered
          Dock,           \* the row deliveries are booked into
          DeliveryKeys,   \* idempotency keys clients send with a delivery
          OverReceive,    \* settings.receiving.allowOverReceive
          MaxOver         \* bound: units a delivery may bring beyond the order

ASSUME PurchaseAssumption ==
    /\ Ordered \in Nat \ {0} /\ MaxOver \in Nat /\ OverReceive \in BOOLEAN
    /\ Purchases # {} => Dock \in Rows

VARIABLES po,           \* status and receivedQty of the line
          deliveries    \* PurchaseOrderReceipt rows with their one line

purchaseVars == <<po, deliveries>>

PurchaseMoves ==
    {<<"DRAFT", "ORDERED">>, <<"DRAFT", "CANCELLED">>, <<"ORDERED", "CANCELLED">>,
     <<"PARTIALLY_RECEIVED", "CANCELLED">>}
PurchaseStatuses == {m[1] : m \in PurchaseMoves} \cup {"CANCELLED", "RECEIVED", "OVER_RECEIVED", "CLOSED"}

PurchaseInit ==
    /\ po = [p \in Purchases |-> [status |-> "DRAFT", received |-> 0]]
    /\ deliveries = {}

(* place and cancel; cancel refuses an order some of which has arrived.    *)
ReadForMove(j, p, to) ==
    /\ <<po[p].status, to>> \in PurchaseMoves
    /\ to = "CANCELLED" => po[p].received = 0
    /\ Start(j, [op |-> "move", po |-> p, to |-> to, saw |-> po[p]])
    /\ UNCHANGED <<stockVars, purchaseVars>>

OvertookPurchase(p, saw, retry) ==
    overtaken' = overtaken \cup (IF po[p] = saw \/ retry THEN {} ELSE {p})

MovePurchase(j) ==
    LET t == job[j] IN
    /\ Doing(j, "move")
    /\ po' = [po EXCEPT ![t.po].status = t.to]
    /\ OvertookPurchase(t.po, t.saw, FALSE)
    /\ Finish(j)
    /\ UNCHANGED <<level, byHand, edits, lost, raced, deliveries>>

DeliveryBooked(k) == k # NoKey /\ \E d \in deliveries : d.key = k

(* PurchaseOrderReceipt is unique by organization and key.                 *)
AnyDelivery(k) == TRUE \* mistake: the key is not unique
DeliveryKeyIsFree(k) == ~DeliveryBooked(k)

(* receive refuses a finished order, answers a replayed key with what it   *)
(* booked before, and takes more than is outstanding only where the        *)
(* business allows it.                                                     *)
ReadForDelivery(j, p, n, k) ==
    /\ po[p].status \notin {"DRAFT", "CANCELLED", "CLOSED", "RECEIVED"}
    /\ ~DeliveryBooked(k)
    /\ n <= Ordered - po[p].received \/ (OverReceive /\ po[p].received + n <= Ordered + MaxOver)
    /\ Start(j, [op |-> "deliver", po |-> p, n |-> n, key |-> k, saw |-> po[p]])
    /\ UNCHANGED <<stockVars, purchaseVars>>

(* Its transaction creates the receipt, reads the shelf with an upsert     *)
(* that changes nothing, and writes the sum.                               *)
CountShelf(j) ==
    LET t == job[j] IN
    /\ Doing(j, "deliver")
    /\ Goes(j, [op |-> "stow", po |-> t.po, n |-> t.n, key |-> t.key, saw |-> t.saw, shelf |-> level[Dock]])
    /\ UNCHANGED <<stockVars, purchaseVars>>

ReceivedStatus(n) ==
    CASE n > Ordered -> "OVER_RECEIVED" [] n = Ordered -> "RECEIVED" [] n < Ordered -> "PARTIALLY_RECEIVED"

BookDelivery(j) ==
    LET t == job[j]
        n == t.saw.received + t.n
    IN
    /\ Doing(j, "stow")
    /\ DeliveryKeyIsFree(t.key)
    /\ deliveries' = deliveries \cup {[id |-> Cardinality(deliveries), po |-> t.po, key |-> t.key, qty |-> t.n]}
    /\ Overwrite(Dock, t.shelf, t.n)
    /\ po' = [po EXCEPT ![t.po] = [status |-> ReceivedStatus(n), received |-> n]]
    /\ OvertookPurchase(t.po, t.saw, DeliveryBooked(t.key))
    /\ Finish(j)
    /\ UNCHANGED <<byHand, edits>>

PurchaseStep(j) ==
    \/ \E p \in Purchases, to \in {"ORDERED", "CANCELLED"} : ReadForMove(j, p, to)
    \/ MovePurchase(j)
    \/ \E p \in Purchases, n \in 1 .. Ordered, k \in DeliveryKeys : ReadForDelivery(j, p, n, k)
    \/ CountShelf(j)
    \/ BookDelivery(j)

DeliveredFor(p) == SumFunction([d \in {x \in deliveries : x.po = p} |-> d.qty])

(* "A warehouse tablet that double-taps, an offline queue that replays, or *)
(* an HTTP retry must not book the same pallet twice": the line counts     *)
(* what was booked onto the shelf, no more than ordered where the business *)
(* takes no more, and nothing for a cancelled order.                       *)
PalletsBookedOnce == \A p \in Purchases \ overtaken :
    /\ po[p].received = DeliveredFor(p)
    /\ OverReceive \/ DeliveredFor(p) <= Ordered
    /\ po[p].status = "CANCELLED" => DeliveredFor(p) = 0
=============================================================================
