---------------------------- MODULE Requisitions ----------------------------
(***************************************************************************)
(* One warehouse asking another for stock: asked, approved, dispatched in  *)
(* one or more loads, received against the printed note.  The stock leaves *)
(* the source at dispatch and lands at the destination at receipt.         *)
(***************************************************************************)
EXTENDS Stock, FiniteSetsExt

CONSTANTS Reqs,         \* requisitions, each of one line
          Asked,        \* units a line asks for
          Source, Destination,
          LoadKeys      \* idempotency keys clients send with a load

ASSUME RequisitionAssumption ==
    /\ Asked \in Nat \ {0}
    /\ Reqs # {} => Source \in Rows /\ Destination \in Rows /\ Source # Destination

VARIABLES req,         \* status, approved, dispatched, received: the requisition and its line
          loads,       \* its StockTransfer rows
          receiptKeys, \* keys written into the reasons of its receipt movements
          landed,      \* units its receipt movements brought to the destination
          twice        \* history: requisitions for which one keyed receipt was booked again

reqVars == <<req, loads, receiptKeys, landed, twice>>

ReqStatuses == {"DRAFT", "SUBMITTED", "APPROVED", "REJECTED", "PARTIALLY_DISPATCHED", "DISPATCHED",
                "PARTIALLY_RECEIVED", "COMPLETED", "CANCELLED"}
Closed == {"REJECTED", "CANCELLED", "COMPLETED"}

ReqInit ==
    /\ req = [r \in Reqs |-> [status |-> "DRAFT", approved |-> Asked, dispatched |-> 0, received |-> 0]]
    /\ loads = {} /\ receiptKeys = {} /\ twice = {}
    /\ landed = [r \in Reqs |-> 0]

(* submit, approve, reject and cancel read the requisition, decide and     *)
(* write.  Approval may agree to less than was asked; stock in transit     *)
(* refuses a cancellation.                                                 *)
MayReviewInTransit(q, to) == \* mistake: stock in transit does not refuse a cancellation
    CASE to = "SUBMITTED" -> q.status = "DRAFT"
      [] to \in {"APPROVED", "REJECTED"} -> q.status = "SUBMITTED"
      [] to = "CANCELLED" -> q.status \notin Closed
MayReview(q, to) ==
    CASE to = "SUBMITTED" -> q.status = "DRAFT"
      [] to \in {"APPROVED", "REJECTED"} -> q.status = "SUBMITTED"
      [] to = "CANCELLED" -> q.status \notin Closed /\ q.dispatched <= q.received

ReadForReview(j, r, to, n) ==
    /\ MayReview(req[r], to)
    /\ Start(j, [op |-> "review", req |-> r, to |-> to, n |-> n, saw |-> req[r]])
    /\ UNCHANGED <<stockVars, reqVars>>

(* Two requests overlapped on the requisition.  Not so the retry of a load *)
(* that is booked already, which its key stops.                            *)
Overtook(r, saw, retry) ==
    overtaken' = overtaken \cup (IF req[r] = saw \/ retry THEN {} ELSE {r})

Review(j) ==
    LET t == job[j] IN
    /\ Doing(j, "review")
    /\ req' = [req EXCEPT ![t.req].status = t.to,
                          ![t.req].approved = IF t.to = "APPROVED" THEN t.n ELSE @]
    /\ Overtook(t.req, t.saw, FALSE)
    /\ Finish(j)
    /\ UNCHANGED <<level, byHand, edits, lost, raced, loads, receiptKeys, landed, twice>>

(* The status that follows from what has moved.                            *)
Progress(q, otherwise) ==
    LET sent == q.dispatched >= q.approved
        done == sent /\ q.received >= q.dispatched
    IN  CASE q.received > 0 /\ done -> "COMPLETED"
          [] q.received > 0 /\ ~done -> "PARTIALLY_RECEIVED"
          [] q.received = 0 /\ q.dispatched > 0 /\ sent -> "DISPATCHED"
          [] q.received = 0 /\ q.dispatched > 0 /\ ~sent -> "PARTIALLY_DISPATCHED"
          [] q.received = 0 /\ q.dispatched = 0 -> otherwise

(* dispatch looks for a transfer with its key and checks what is approved  *)
(* and available; its transaction creates the transfer, reads the shelf    *)
(* again without a lock, then takes from it.                               *)
KeyUsed(k) == k # NoKey /\ \E l \in loads : l.key = k

(* StockTransfer is unique by organization and key.                        *)
AnyKey(k) == TRUE \* mistake: the key is not unique
KeyIsFree(k) == ~KeyUsed(k)

ReadForDispatch(j, r, n, k) ==
    /\ req[r].status \notin Closed \cup {"DRAFT", "SUBMITTED"}
    /\ ~KeyUsed(k)
    /\ n <= req[r].approved - req[r].dispatched
    /\ n <= Available(level[Source])
    /\ Start(j, [op |-> "dispatch", req |-> r, n |-> n, key |-> k, saw |-> req[r]])
    /\ UNCHANGED <<stockVars, reqVars>>

RecheckShelf(j) ==
    LET t == job[j] IN
    /\ Doing(j, "dispatch")
    /\ t.n <= Available(level[Source])
    /\ Goes(j, [op |-> "send", req |-> t.req, n |-> t.n, key |-> t.key, saw |-> t.saw,
                shelf |-> level[Source]])
    /\ UNCHANGED <<stockVars, reqVars>>

Dispatch(j) ==
    LET t == job[j]
        q == [req[t.req] EXCEPT !.dispatched = t.saw.dispatched + t.n]
    IN
    /\ Doing(j, "send")
    /\ KeyIsFree(t.key)
    /\ loads' = loads \cup {[id |-> Cardinality(loads), req |-> t.req, key |-> t.key, qty |-> t.n,
                             status |-> "IN_TRANSIT"]}
    /\ level' = [level EXCEPT ![Source] = Shift(@, -t.n, 0)]
    /\ req' = [req EXCEPT ![t.req] = [q EXCEPT !.status = Progress(q, "PARTIALLY_DISPATCHED")]]
    /\ raced' = raced \cup Stale(Source, t.shelf)
    /\ Overtook(t.req, t.saw, KeyUsed(t.key))
    /\ Finish(j)
    /\ UNCHANGED <<byHand, edits, lost, receiptKeys, landed, twice>>

(* receive takes no more than it reads as in transit; a key already named  *)
(* by a receipt movement is a replay.  Nothing else stops one: two copies  *)
(* of a keyed receipt that both looked before either wrote are both        *)
(* booked.                                                                 *)
Landed(r, k) == k # NoKey /\ <<r, k>> \in receiptKeys

ReadForReceipt(j, r, n, k) ==
    /\ req[r].status \in {"DISPATCHED", "PARTIALLY_DISPATCHED", "PARTIALLY_RECEIVED"}
    /\ ~Landed(r, k)
    /\ n <= req[r].dispatched - req[r].received
    /\ Start(j, [op |-> "land", req |-> r, n |-> n, key |-> k, saw |-> req[r]])
    /\ UNCHANGED <<stockVars, reqVars>>

Receive(j) ==
    LET t == job[j]
        q == [req[t.req] EXCEPT !.received = t.saw.received + t.n]
    IN
    /\ Doing(j, "land")
    /\ level' = [level EXCEPT ![Destination] = Shift(@, t.n, 0)]
    /\ landed' = [landed EXCEPT ![t.req] = @ + t.n]
    /\ receiptKeys' = IF t.key = NoKey THEN receiptKeys ELSE receiptKeys \cup {<<t.req, t.key>>}
    /\ twice' = twice \cup (IF Landed(t.req, t.key) THEN {t.req} ELSE {})
    /\ req' = [req EXCEPT ![t.req] = [q EXCEPT !.status = Progress(q, t.saw.status)]]
    /\ loads' = IF q.received >= q.dispatched
                THEN {IF l.req = t.req THEN [l EXCEPT !.status = "RECEIVED"] ELSE l : l \in loads}
                ELSE loads
    /\ Overtook(t.req, t.saw, FALSE)
    /\ Finish(j)
    /\ UNCHANGED <<byHand, edits, lost, raced>>

ReqStep(j) ==
    \/ \E r \in Reqs, to \in {"SUBMITTED", "REJECTED", "CANCELLED"} : ReadForReview(j, r, to, 0)
    \/ \E r \in Reqs, n \in 1 .. Asked : ReadForReview(j, r, "APPROVED", n)
    \/ Review(j)
    \/ \E r \in Reqs, n \in 1 .. Asked, k \in LoadKeys : ReadForDispatch(j, r, n, k)
    \/ RecheckShelf(j)
    \/ Dispatch(j)
    \/ \E r \in Reqs, n \in 1 .. Asked, k \in LoadKeys : ReadForReceipt(j, r, n, k)
    \/ Receive(j)

SentFor(r) == SumFunction([l \in {x \in loads : x.req = r} |-> l.qty])

(* What the line says was dispatched and received is what left the source  *)
(* and reached the destination, never more than was approved, and never    *)
(* more received than sent, with partial loads and receipts, copies of a   *)
(* keyed load at any time and retries of a keyed receipt one after the     *)
(* other, none of which is booked twice.  Not so where two other requests  *)
(* overlapped on the requisition: two copies of one receipt are such       *)
(* requests, and both are booked.                                          *)
LinesMatchLoads == \A r \in Reqs \ overtaken :
    /\ req[r].dispatched = SentFor(r) /\ req[r].received = landed[r] /\ r \notin twice
    /\ landed[r] <= SentFor(r) /\ SentFor(r) <= req[r].approved

(* Closing the paperwork strands nothing: a closed requisition has no load *)
(* still on the road.                                                      *)
ClosedMeansArrived == \A r \in Reqs \ overtaken :
    req[r].status \in Closed => SentFor(r) = landed[r] /\ \A l \in loads : l.req = r => l.status = "RECEIVED"
=============================================================================
