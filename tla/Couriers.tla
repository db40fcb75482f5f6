------------------------------ MODULE Couriers ------------------------------
(***************************************************************************)
(* Deliveries booked for sales orders, the courier's callbacks about them, *)
(* and what both do to the order.  Every statement is an await of its own: *)
(* no transaction holds a callback together.                               *)
(***************************************************************************)
EXTENDS Orders

CONSTANTS Shipments,  \* shipment rows that may be created
          EventIds,   \* ids couriers give their events; a retry repeats one
          NoEventId,  \* the callback carries none
          MaxReports  \* bound: callbacks and moves by hand

ASSUME CourierAssumption == MaxReports \in Nat /\ NoEventId \notin EventIds

VARIABLES shipment,  \* its order and status
          reported,  \* DeliveryEvent rows
          reports,
          unheard    \* history: orders a handler died over after recording an event

courierVars == <<shipment, reported, reports, unheard>>

ORDER_RANK == [s \in OrderStatuses \ {"ABSENT"} |->
    CASE s = "PENDING" -> 0 [] s = "CONFIRMED" -> 1 [] s = "PROCESSING" -> 2 [] s = "PICKING" -> 3
      [] s = "PACKING" -> 4 [] s = "READY_FOR_DISPATCH" -> 5 [] s = "DISPATCHED" -> 6
      [] s = "IN_TRANSIT" -> 7 [] s = "DELIVERED" -> 8 [] s = "COMPLETED" -> 9
      [] s \in {"CANCELLED", "REFUNDED"} -> 99]

SHIPMENT_TO_ORDER == [s \in {"LABEL_CREATED", "PICKED_UP", "IN_TRANSIT", "DELIVERED"} |->
    CASE s = "LABEL_CREATED" -> "READY_FOR_DISPATCH" [] s = "PICKED_UP" -> "DISPATCHED" [] OTHER -> s]
Stages == DOMAIN SHIPMENT_TO_ORDER
ShipmentStatuses == {"PENDING", "FAILED"} \cup Stages  \* FAILED: the order is left alone

CourierInit ==
    /\ shipment = [x \in Shipments |-> [status |-> "ABSENT", order |-> "none"]]
    /\ reported = {} /\ reports = 0 /\ unheard = {}

Booked(x) == shipment[x].status # "ABSENT"
Seen(x, e) == e # NoEventId /\ \E v \in reported : v.shipment = x /\ v.id = e

Record(x, e, s) == reported' = reported \cup {[shipment |-> x, id |-> e, status |-> s]}
Project(j, x, s) == Goes(j, [op |-> "project", order |-> shipment'[x].order, to |-> s])

(* dispatchOrder: the order is read, the courier is called, and only then  *)
(* are the shipment and its first event created.                           *)
ReadForBooking(j, o) ==
    /\ Exists(o) /\ order[o].status \notin {"CANCELLED", "REFUNDED"}
    /\ Start(j, [op |-> "book", order |-> o])
    /\ UNCHANGED <<stockVars, orderVars, courierVars>>

BookShipment(j, x, s) ==
    /\ Doing(j, "book") /\ ~Booked(x)
    /\ shipment' = [shipment EXCEPT ![x] = [status |-> s, order |-> job[j].order]]
    /\ Record(x, NoEventId, s)
    /\ Project(j, x, s)
    /\ UNCHANGED <<stockVars, orderVars, reports, unheard>>

(* setShipmentStatus: staff move the delivery on.                          *)
SetShipmentStatus(j, x, s) ==
    /\ Booked(x) /\ reports < MaxReports /\ reports' = reports + 1
    /\ shipment' = [shipment EXCEPT ![x].status = s]
    /\ Record(x, NoEventId, s)
    /\ job[j] = Idle /\ Project(j, x, s)
    /\ UNCHANGED <<stockVars, orderVars, unheard>>

(* handleWebhook: an event already recorded is a duplicate ...             *)
Callback(j, x, s, e) ==
    /\ Booked(x) /\ reports < MaxReports /\ reports' = reports + 1
    /\ ~Seen(x, e)
    /\ Start(j, [op |-> "callback", shipment |-> x, to |-> s, event |-> e])
    /\ UNCHANGED <<stockVars, orderVars, shipment, reported, unheard>>

(* ... and so says the unique index to one that was recorded meanwhile.    *)
RecordEvent(j) ==
    LET t == job[j] IN
    /\ Doing(j, "callback") /\ ~Seen(t.shipment, t.event)
    /\ Record(t.shipment, t.event, t.to)
    /\ Goes(j, [op |-> "follow", shipment |-> t.shipment, to |-> t.to])
    /\ UNCHANGED <<stockVars, orderVars, shipment, reports, unheard>>

FollowEvent(j) ==
    LET t == job[j] IN
    /\ Doing(j, "follow")
    /\ shipment' = [shipment EXCEPT ![t.shipment].status = t.to]
    /\ Project(j, t.shipment, t.to)
    /\ UNCHANGED <<stockVars, orderVars, reported, reports, unheard>>

(* projectOntoOrder: forward only, and never out of a terminal state, by   *)
(* what the order says when it is read.  No stock moves here.              *)
Pushes(status, target) == \* mistake: an event that comes late drags the order back
    status \notin {"CANCELLED", "REFUNDED", "COMPLETED"}
Advances(status, target) ==
    /\ status \notin {"CANCELLED", "REFUNDED", "COMPLETED"}
    /\ ORDER_RANK[target] > ORDER_RANK[status]

ReadForProjection(j) ==
    LET t == job[j] IN
    /\ Doing(j, "project")
    /\ IF t.to \in Stages /\ Advances(order[t.order].status, SHIPMENT_TO_ORDER[t.to])
       THEN Goes(j, [op |-> "push", order |-> t.order, from |-> order[t.order].status,
                     to |-> SHIPMENT_TO_ORDER[t.to]])
       ELSE Finish(j)
    /\ UNCHANGED <<stockVars, orderVars, courierVars>>

PushOrder(j) ==
    LET t == job[j] IN
    /\ Doing(j, "push")
    /\ order' = [order EXCEPT ![t.order].status = t.to]
    /\ Overtaken(t.order, order[t.order].status # t.from)
    /\ Finish(j)
    /\ UNCHANGED <<level, byHand, edits, lost, raced, couponUsed, customerOrders, courierVars>>

CourierStep(j) ==
    \/ \E o \in Orders : ReadForBooking(j, o)
    \/ \E x \in Shipments, s \in {"PENDING"} \cup Stages : BookShipment(j, x, s)
    \/ \E x \in Shipments, s \in ShipmentStatuses :
         SetShipmentStatus(j, x, s) \/ \E e \in EventIds \cup {NoEventId} : Callback(j, x, s, e)
    \/ RecordEvent(j) \/ FollowEvent(j) \/ ReadForProjection(j) \/ PushOrder(j)

(* The handler dies: an event it had recorded is a duplicate when the      *)
(* courier sends it again.                                                 *)
OrderOf(t) == IF t.op = "follow" THEN shipment[t.shipment].order ELSE t.order
CourierDies(j) ==
    /\ unheard' = unheard \cup (IF job[j].op \in {"follow", "project", "push"} THEN {OrderOf(job[j])} ELSE {})
    /\ UNCHANGED <<shipment, reported, reports>>

----------------------------------------------------------------------------
Hearing(o) == \E j \in Jobs : job[j].op \in {"follow", "project", "push"} /\ OrderOf(job[j]) = o

(* "Only ever forward, and never over a terminal state, so a late callback *)
(* can't resurrect a cancelled order": in whatever order, and however      *)
(* often, events arrive, an order has come at least as far as the furthest *)
(* of them, and a cancelled one stays cancelled or refunded.               *)
CouriersHeard == \A o \in Orders \ overtaken :
    /\ order[o].cancelled => order[o].status \in {"CANCELLED", "REFUNDED"}
    /\ o \notin unheard /\ ~Hearing(o) =>
         \A v \in reported : shipment[v.shipment].order = o /\ v.status \in Stages =>
             ORDER_RANK[order[o].status] >= ORDER_RANK[SHIPMENT_TO_ORDER[v.status]]

(* "dispatch decrements stock and releases the reservation": an order that *)
(* is on its way, or has arrived, has left the shelf.                      *)
DispatchedLeftTheShelf == \A o \in Orders :
    order[o].status \in {"DISPATCHED", "IN_TRANSIT", "DELIVERED", "COMPLETED"} => order[o].shipped
=============================================================================
