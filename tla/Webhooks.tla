------------------------------ MODULE Webhooks ------------------------------
(***************************************************************************)
(* Webhooks sent out to a customer's endpoint.  A delivery is written, and *)
(* attempted in the background at once; a sweep every minute retries what  *)
(* is due, without waiting for the sweep before it, and the console may    *)
(* replay a delivery as a new one.                                         *)
(***************************************************************************)
EXTENDS Integers, FiniteSetsExt

CONSTANTS
    Deliveries,       \* WebhookDelivery rows, numbered as they are created
    Couriers,         \* background attempts and sweeps that may run at once
    WebhookAttempts,  \* MAX_ATTEMPTS
    MaxMishaps         \* bound: process exits, and attempts that end in an exception

ASSUME WebhookAssumption ==
    /\ Deliveries \subseteq Nat \ {0} /\ WebhookAttempts \in Nat \ {0} /\ MaxMishaps \in Nat

VARIABLES
    delivery,   \* the rows; next is "none", "waiting" or "due" for nextAttemptAt
    endpoint,   \* whether the endpoint is "active", "inactive" or "deleted"
    courier,    \* rows still to attempt, the row in hand and the attempts read
    calls,      \* how often the endpoint was called for a row, up to WebhookAttempts
    closed,     \* whether the endpoint was ever switched off or deleted
    mishaps

webhookVars == <<delivery, endpoint, courier, calls, closed, mishaps>>

NoCourier == [step |-> "idle", todo |-> {}, x |-> 0, attempt |-> 0]
Busy(w, step) == courier[w].step = step
Hand(w) == courier[w].x
Unused == {x \in Deliveries : delivery[x].status = "ABSENT"}

(* dispatch, when the endpoint is active and subscribes; and replay, which *)
(* copies a row of any status without looking at the endpoint.  Either     *)
(* writes the row and starts an attempt.                                   *)
NewDelivery(w) ==
    /\ courier[w] = NoCourier /\ Unused # {}
    /\ endpoint = "active" \/ \E x \in Deliveries : delivery[x].status # "ABSENT"
    /\ delivery' = [delivery EXCEPT ![Min(Unused)].status = "PENDING"]
    /\ courier' = [courier EXCEPT ![w] = [step |-> "load", todo |-> {}, x |-> Min(Unused), attempt |-> 0]]
    /\ UNCHANGED <<endpoint, calls, closed, mishaps>>

BackoffElapses(x) ==
    /\ delivery[x].next = "waiting"
    /\ delivery' = [delivery EXCEPT ![x].next = "due"]
    /\ UNCHANGED <<endpoint, courier, calls, closed, mishaps>>

(* retryDue: the rows that are due, attempted one after the other.         *)
RetryDue(w) ==
    LET due == {x \in Deliveries : delivery[x].status = "PENDING" /\ delivery[x].next = "due"} IN
    /\ courier[w] = NoCourier /\ due # {}
    /\ courier' = [courier EXCEPT ![w] = [step |-> "next", todo |-> due, x |-> 0, attempt |-> 0]]
    /\ UNCHANGED <<delivery, endpoint, calls, closed, mishaps>>

NextDue(w) ==
    LET todo == courier[w].todo IN
    /\ Busy(w, "next")
    /\ courier' = IF todo = {} THEN [courier EXCEPT ![w] = NoCourier]
                  ELSE [courier EXCEPT ![w] = [step |-> "load", todo |-> todo \ {Min(todo)},
                                               x |-> Min(todo), attempt |-> 0]]
    /\ UNCHANGED <<delivery, endpoint, calls, closed, mishaps>>

AttemptOver(w) == courier' = [courier EXCEPT ![w] = [step |-> "next", todo |-> @.todo, x |-> 0, attempt |-> 0]]

(* attemptDelivery: the row, the endpoint, the call, the record of it.     *)
LoadDelivery(w) ==
    /\ Busy(w, "load")
    /\ IF delivery[Hand(w)].status = "DELIVERED" THEN AttemptOver(w)
       ELSE courier' = [courier EXCEPT ![w] = [step |-> "endpoint", todo |-> @.todo, x |-> @.x,
                                               attempt |-> delivery[Hand(w)].attempts + 1]]
    /\ UNCHANGED <<delivery, endpoint, calls, closed, mishaps>>

LoadEndpoint(w) ==
    /\ Busy(w, "endpoint")
    /\ courier' = [courier EXCEPT ![w].step = IF endpoint = "active" THEN "call" ELSE "give up"]
    /\ UNCHANGED <<delivery, endpoint, calls, closed, mishaps>>

GiveUp(w) ==
    /\ Busy(w, "give up")
    /\ delivery' = [delivery EXCEPT ![Hand(w)] = [status |-> "FAILED", attempts |-> @.attempts, next |-> "none"]]
    /\ AttemptOver(w)
    /\ UNCHANGED <<endpoint, calls, closed, mishaps>>

CallEndpoint(w) ==
    /\ Busy(w, "call")
    /\ calls' = IF calls[Hand(w)] < WebhookAttempts THEN [calls EXCEPT ![Hand(w)] = @ + 1] ELSE calls
    /\ \E outcome \in {"delivered", "refused", "failed"} : courier' = [courier EXCEPT ![w].step = outcome]
    /\ UNCHANGED <<delivery, endpoint, closed, mishaps>>

RecordDelivered(w) ==
    /\ Busy(w, "delivered")
    /\ delivery' = [delivery EXCEPT ![Hand(w)] = [status |-> "DELIVERED", attempts |-> courier[w].attempt,
                                                  next |-> "none"]]
    /\ courier' = [courier EXCEPT ![w].step = "counters"]
    /\ UNCHANGED <<endpoint, calls, closed, mishaps>>

(* The endpoint's counters after an answer, good or bad; when it was       *)
(* deleted meanwhile the update throws and the row is recorded as failed.  *)
UpdateEndpoint(w) ==
    /\ Busy(w, "counters")
    /\ IF endpoint = "deleted" THEN courier' = [courier EXCEPT ![w].step = "failed"] ELSE AttemptOver(w)
    /\ UNCHANGED <<delivery, endpoint, calls, closed, mishaps>>

RecordAttemptUndated(w) == \* mistake: no date for the next attempt
    LET attempt == courier[w].attempt IN
    /\ courier[w].step \in {"refused", "failed"}
    /\ delivery' = [delivery EXCEPT ![Hand(w)] =
         [status |-> IF attempt >= WebhookAttempts THEN "FAILED" ELSE "PENDING", attempts |-> attempt,
          next |-> "none"]]
    /\ IF Busy(w, "refused") THEN courier' = [courier EXCEPT ![w].step = "counters"] ELSE AttemptOver(w)
    /\ UNCHANGED <<endpoint, calls, closed, mishaps>>

RecordAttempt(w) ==
    LET attempt == courier[w].attempt IN
    /\ courier[w].step \in {"refused", "failed"}
    /\ delivery' = [delivery EXCEPT ![Hand(w)] =
         IF attempt >= WebhookAttempts
         THEN [status |-> "FAILED", attempts |-> attempt, next |-> "none"]
         ELSE [status |-> "PENDING", attempts |-> attempt, next |-> "waiting"]]
    /\ IF Busy(w, "refused") THEN courier' = [courier EXCEPT ![w].step = "counters"] ELSE AttemptOver(w)
    /\ UNCHANGED <<endpoint, calls, closed, mishaps>>

(* A developer switches the endpoint off, on again, or deletes it.         *)
ToggleEndpoint ==
    /\ endpoint # "deleted"
    /\ \/ endpoint' = IF endpoint = "active" THEN "inactive" ELSE "active"
       \/ endpoint' = "deleted"
    /\ closed' = TRUE
    /\ UNCHANGED <<delivery, courier, calls, mishaps>>

WebhookCrash ==
    /\ mishaps < MaxMishaps /\ mishaps' = mishaps + 1
    /\ \E w \in Couriers : courier[w] # NoCourier
    /\ courier' = [w \in Couriers |-> NoCourier]
    /\ UNCHANGED <<delivery, endpoint, calls, closed>>

WebhookInit ==
    /\ delivery = [x \in Deliveries |-> [status |-> "ABSENT", attempts |-> 0, next |-> "none"]]
    /\ endpoint = "active"
    /\ courier = [w \in Couriers |-> NoCourier]
    /\ calls = [x \in Deliveries |-> 0]
    /\ closed = FALSE /\ mishaps = 0

(* A statement outside attemptDelivery's try throws, before the call or in *)
(* recordFailure: dispatch swallows it, a sweep ends with it.              *)
AttemptThrows(w) ==
    /\ courier[w].step \in {"load", "endpoint", "give up", "failed"}
    /\ mishaps < MaxMishaps /\ mishaps' = mishaps + 1
    /\ courier' = [courier EXCEPT ![w] = NoCourier]
    /\ UNCHANGED <<delivery, endpoint, calls, closed>>

CourierStep(w) ==
    \/ RetryDue(w) \/ NextDue(w) \/ LoadDelivery(w) \/ LoadEndpoint(w) \/ GiveUp(w)
    \/ CallEndpoint(w) \/ RecordDelivered(w) \/ UpdateEndpoint(w) \/ RecordAttempt(w)

WebhookNext ==
    \/ \E w \in Couriers : NewDelivery(w) \/ CourierStep(w) \/ AttemptThrows(w)
    \/ \E x \in Deliveries : BackoffElapses(x)
    \/ ToggleEndpoint \/ WebhookCrash

----------------------------------------------------------------------------
InHand(x) == \E w \in Couriers : courier[w].x = x \/ x \in courier[w].todo

(* "A crash mid-flight leaves a record the retry sweep can pick up rather  *)
(* than a silently dropped event": however sweeps, replays and changes to  *)
(* the endpoint overlap, and whatever attempt was cut off, a delivery that *)
(* is not settled has a date for its next attempt or is in somebody's      *)
(* hands, and one given up was called WebhookAttempts times or lost its    *)
(* endpoint.  (The claim does not hold of the very first attempt: a row    *)
(* whose first attempt was cut off, by a crash or by a statement that      *)
(* threw, has no date yet and is dropped.)                                 *)
Recoverable == \A x \in Deliveries :
    /\ delivery[x].status = "PENDING" /\ delivery[x].next = "none"
         => InHand(x) \/ (mishaps > 0 /\ delivery[x].attempts = 0)
    /\ delivery[x].status = "FAILED" => closed \/ calls[x] = WebhookAttempts
=============================================================================
