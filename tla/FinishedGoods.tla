---------------------------- MODULE FinishedGoods ----------------------------
(***************************************************************************)
(* Finished goods under manual receiving: what quality control passed is   *)
(* allocated to warehouses, one task each, and booked in when it is        *)
(* physically received, in one or more deliveries.  A delivery holds an    *)
(* advisory lock of its task to the end of its transaction; allocate       *)
(* holds none.                                                             *)
(***************************************************************************)
EXTENDS Quarantine

CONSTANTS Receipts,    \* finished goods receipts, one per production output
          Approved,    \* units quality control passed
          GoodsKeys,   \* idempotency keys of deliveries
          MaxPlans     \* bound: allocations made

ASSUME FinishedGoodsAssumption == Approved \in Nat \ {0} /\ MaxPlans \in Nat

VARIABLES receipt,  \* status, allocated, received of each receipt
          tasks,    \* FinishedGoodsReceiptTask rows
          arrived,  \* FinishedGoodsReceiptDelivery rows
          shelved,  \* per row: units the FINISHED_GOODS_RECEIPT movements booked in
          plans     \* allocations begun: each makes tasks of its own number

goodsVars == <<receipt, tasks, arrived, shelved, plans>>

GoodsInit ==
    /\ receipt = [c \in Receipts |-> [status |-> "PENDING_ALLOCATION", allocated |-> 0, received |-> 0]]
    /\ tasks = {} /\ arrived = {} /\ plans = 0
    /\ shelved = [r \in Rows |-> 0]

TasksOf(c) == {k \in tasks : k.receipt = c}
Total(S, field) == SumFunction([k \in S |-> k[field]])

(* allocate reads the receipt with its tasks.  Once receiving has started  *)
(* no task may be dropped or reduced.                                      *)
Plans == {plan \in [Rows -> 0 .. Approved] : SumFunction(plan) \in 1 .. Approved}
Started(S) == \E k \in S : k.received > 0

DropsTasks(S, plan) == TRUE \* mistake: a task that has received may be dropped
KeepsTasks(S, plan) == Started(S) => \A k \in S : plan[k.row] >= k.allocated

ReadForPlan(j, c, plan) ==
    /\ plans < MaxPlans /\ plans' = plans + 1
    /\ KeepsTasks(TasksOf(c), plan)
    /\ Start(j, [op |-> "plan", no |-> plans, receipt |-> c, plan |-> plan, saw |-> TasksOf(c)])
    /\ UNCHANGED <<stockVars, batchVars, receipt, tasks, arrived, shelved>>

NewTasks(t, S) ==
    {[id |-> <<t.no, r>>, receipt |-> t.receipt, row |-> r, allocated |-> t.plan[r], received |-> 0] :
        r \in {x \in Rows : t.plan[x] > 0 /\ \A k \in S : k.row # x}}

Raised(k, t) == IF \E x \in t.saw : x.id = k.id THEN [k EXCEPT !.allocated = t.plan[k.row]] ELSE k

(* Before anything was received the tasks are deleted and made anew, with  *)
(* their deliveries; afterwards the allocations are raised, each task as   *)
(* it is now.                                                              *)
Allocate(j) ==
    LET t == job[j]
        started == Started(t.saw)
        total == SumFunction(t.plan)
        received == Total(t.saw, "received")
    IN
    /\ Doing(j, "plan")
    /\ started => \A k \in t.saw : \E x \in tasks : x.id = k.id
    /\ tasks' = (tasks \ TasksOf(t.receipt))
          \cup (IF started THEN {Raised(k, t) : k \in TasksOf(t.receipt)} ELSE {})
          \cup NewTasks(t, IF started THEN t.saw ELSE {})
    /\ arrived' = {d \in arrived : \E k \in tasks' : k.id = d.task}
    /\ receipt' = [receipt EXCEPT ![t.receipt] =
          [status |-> IF received > 0 THEN "PARTIALLY_RECEIVED" ELSE "AWAITING_RECEIPT",
           allocated |-> total, received |-> received]]
    /\ overtaken' = overtaken \cup (IF TasksOf(t.receipt) = t.saw THEN {} ELSE {t.receipt})
    /\ Finish(j)
    /\ UNCHANGED <<level, byHand, edits, lost, raced, batchVars, shelved, plans>>

(* receive takes the lock of the task, and under it looks for its key,     *)
(* reads the task and takes no more than is outstanding.                   *)
NoLock(k) == TRUE \* mistake: two devices scan against the same outstanding quantity
LockFree(k) == \A i \in Jobs : ~(job[i].op \in {"receiving", "summing"} /\ job[i].task.id = k.id)

LockTask(j, k, n, key) ==
    /\ LockFree(k)
    /\ \A d \in arrived : d.key # key
    /\ n <= k.allocated - k.received
    /\ Start(j, [op |-> "receiving", task |-> k, n |-> n, key |-> key])
    /\ UNCHANGED <<stockVars, batchVars, goodsVars>>

(* Before its own writes are visible to others it sums up the tasks of the *)
(* receipt, its own as it will be.                                         *)
Mine(t) == [t.task EXCEPT !.received = @ + t.n]

SumUp(j) ==
    LET t == job[j] IN
    /\ Doing(j, "receiving")
    /\ \E k \in tasks : k.id = t.task.id
    /\ Goes(j, [op |-> "summing", task |-> t.task, n |-> t.n, key |-> t.key,
                sum |-> {k \in TasksOf(t.task.receipt) : k.id # t.task.id} \cup {Mine(t)}])
    /\ UNCHANGED <<stockVars, batchVars, goodsVars>>

DerivedStatus(S) ==
    IF Total(S, "allocated") >= Approved /\ \A k \in S : k.received >= k.allocated
    THEN "RECEIVED" ELSE "PARTIALLY_RECEIVED"

ReceiveGoods(j) ==
    LET t == job[j] IN
    /\ Doing(j, "summing")
    /\ \A d \in arrived : d.key # t.key
    /\ \E k \in tasks : k.id = t.task.id
    /\ MovementFits(level[t.task.row], t.n)
    /\ level' = [level EXCEPT ![t.task.row] = Shift(@, t.n, 0)]
    /\ shelved' = [shelved EXCEPT ![t.task.row] = @ + t.n]
    /\ tasks' = {IF k.id = t.task.id THEN [k EXCEPT !.received = t.task.received + t.n] ELSE k : k \in tasks}
    /\ arrived' = arrived \cup {[key |-> t.key, task |-> t.task.id, n |-> t.n]}
    /\ receipt' = [receipt EXCEPT ![t.task.receipt] =
          [status |-> DerivedStatus(t.sum), allocated |-> Total(t.sum, "allocated"),
           received |-> Total(t.sum, "received")]]
    /\ overtaken' = overtaken \cup
          (IF \E k \in tasks : k.id = t.task.id /\ k.allocated = t.task.allocated THEN {} ELSE {t.task.receipt})
    /\ Finish(j)
    /\ UNCHANGED <<byHand, edits, lost, raced, batchVars, plans>>

GoodsStep(j) ==
    \/ \E c \in Receipts, plan \in Plans : ReadForPlan(j, c, plan)
    \/ Allocate(j)
    \/ \E k \in tasks, n \in 1 .. Approved, key \in GoodsKeys : LockTask(j, k, n, key)
    \/ SumUp(j) \/ ReceiveGoods(j)

(* "Without this lock two devices can both validate against the same       *)
(* outstanding quantity and over-receive": what the tasks say arrived is   *)
(* what the deliveries brought and the shelves took in, never more than    *)
(* allocated, nor in all than was approved, and the receipt claims no more *)
(* than its tasks, unless an allocation overlapped a delivery.             *)
GoodsArriveOnce == \A c \in Receipts \ overtaken :
    /\ \A k \in TasksOf(c) : /\ k.received = Total({d \in arrived : d.task = k.id}, "n")
                             /\ k.received <= k.allocated
    /\ Total(TasksOf(c), "allocated") <= Approved
    /\ receipt[c].received <= Total(TasksOf(c), "received")
    /\ receipt[c].status = "RECEIVED" => Total(TasksOf(c), "received") = Approved
=============================================================================
