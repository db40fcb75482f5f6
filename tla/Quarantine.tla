----------------------------- MODULE Quarantine -----------------------------
(***************************************************************************)
(* Finished batches booked in by production (automatic receiving), held    *)
(* for inspection, and released, reworked or written off.  Held stock is   *)
(* reserved stock: the same counter the sales orders claim from.           *)
(***************************************************************************)
EXTENDS Stock, FiniteSetsExt

CONSTANTS Batches,    \* batches production may book in
          BatchQty,   \* good units of each
          Bay,        \* the row they are booked into
          NeedsQc,    \* settings.requireQcBeforeRelease
          MaxRecords  \* bound: quarantine records

ASSUME QuarantineAssumption ==
    /\ BatchQty \in Nat \ {0} /\ MaxRecords \in Nat /\ NeedsQc \in BOOLEAN
    /\ Batches # {} => Bay \in Rows

VARIABLES batch,    \* made, left (quantityAvailable), flagged (isQuarantined)
          records,  \* quarantine records
          scrapped, \* units its SCRAP movements took out
          hold,     \* history: units of Bay.reserved taken for each batch
          eaten     \* history: a release gave back more than its batch had reserved

batchVars == <<batch, records, scrapped, hold, eaten>>

QuarantineInit ==
    /\ batch = [b \in Batches |-> [made |-> FALSE, left |-> 0, flagged |-> FALSE]]
    /\ records = {}
    /\ scrapped = [b \in Batches |-> 0]
    /\ hold = [b \in Batches |-> 0]
    /\ eaten = FALSE

Smaller(m, n) == IF m < n THEN m ELSE n
Atleast0(n) == IF n < 0 THEN 0 ELSE n

Open(b) == {q \in records : q.batch = b /\ q.status \in {"HELD", "REWORK"}}
HeldRecords(b) == {q \in Open(b) : q.status = "HELD"}
AlreadyHeld(b) == SumFunction([q \in Open(b) |-> q.qty])

NewRecord(b, n) == [id |-> Cardinality(records), batch |-> b, status |-> "HELD", qty |-> n]
Decided(S, status) == (records \ S) \cup {[q EXCEPT !.status = status] : q \in S}

(***************************************************************************)
(* applyMovement: read the row, refuse to go below zero or below what is   *)
(* reserved, then update it where quantity and reserved are still what was *)
(* read (compare-and-swap); a row that changed fails the transaction.      *)
(***************************************************************************)
MovementFits(l, q) == l.quantity + q >= 0 /\ l.quantity + q >= l.reserved
RowUnchanged(r, saw) == level[r] = saw

(* Output is booked in and, where inspection is required, held at once.    *)
ReadForOutput(j, b) ==
    /\ ~batch[b].made /\ \A i \in Jobs : ~(Doing(i, "output") /\ job[i].batch = b)
    /\ Start(j, [op |-> "output", batch |-> b, saw |-> level[Bay]])
    /\ UNCHANGED <<stockVars, batchVars>>

RecordOutput(j) ==
    LET t == job[j]
        kept == IF NeedsQc THEN BatchQty ELSE 0
    IN
    /\ Doing(j, "output")
    /\ RowUnchanged(Bay, t.saw)
    /\ NeedsQc => Cardinality(records) < MaxRecords
    /\ level' = [level EXCEPT ![Bay] = Shift(@, BatchQty, kept)]
    /\ batch' = [batch EXCEPT ![t.batch] = [made |-> TRUE, left |-> BatchQty, flagged |-> FALSE]]
    /\ records' = IF NeedsQc THEN records \cup {NewRecord(t.batch, BatchQty)} ELSE records
    /\ hold' = [hold EXCEPT ![t.batch] = kept]
    /\ Finish(j)
    /\ UNCHANGED <<byHand, edits, lost, raced, overtaken, scrapped, eaten>>

(***************************************************************************)
(* holdBatch and releaseBatch load the batch, then open a transaction      *)
(* whose first write is the batch row: its lock keeps other holds and      *)
(* releases of the batch out while this one reads what is held and what    *)
(* the row has reserved, and writes both.  The row itself it reads without *)
(* a lock.                                                                 *)
(***************************************************************************)
Unlocked(b) == \A i \in Jobs : ~(job[i].op \in {"holding", "releasing"} /\ job[i].batch = b)

LoadBatch(j, b, op, n) ==
    /\ batch[b].made
    /\ Start(j, [op |-> op, batch |-> b, n |-> n])
    /\ UNCHANGED <<stockVars, batchVars>>

(* A failed inspection holds what is left of its batch; staff who spot a   *)
(* problem, that or a quantity they name.                                  *)
ReadForHold(j, b, n) == LoadBatch(j, b, "hold", n)

(* An inspection that passes releases what is left of its batch; a record  *)
(* decided RELEASED, the quantity of the decision.                         *)
ReadForRelease(j, b, n) ==
    (n = batch[b].left \/ Open(b) # {}) /\ LoadBatch(j, b, "release", n)

LockBatch(j) ==
    LET t == job[j] IN
    /\ t.op \in {"hold", "release"} /\ Unlocked(t.batch)
    /\ Goes(j, [op |-> IF t.op = "hold" THEN "holding" ELSE "releasing", batch |-> t.batch, n |-> t.n,
                saw |-> level[Bay], wanted |-> Atleast0(t.n - AlreadyHeld(t.batch))])
    /\ UNCHANGED <<stockVars, batchVars>>

(* What no record holds yet is reserved, as far as the row has that much   *)
(* free; the HELD record, a new one if need be, says the whole quantity.   *)
ToReserve(t) == Smaller(Atleast0(Available(t.saw)), t.wanted)

HoldBatch(j) ==
    LET t == job[j]
        S == HeldRecords(t.batch)
    IN
    /\ Doing(j, "holding")
    /\ S = {} => Cardinality(records) < MaxRecords
    /\ level' = [level EXCEPT ![Bay] = Shift(@, 0, ToReserve(t))]
    /\ batch' = [batch EXCEPT ![t.batch].flagged = TRUE]
    /\ records' = IF S = {} THEN records \cup {NewRecord(t.batch, t.n)}
                  ELSE (records \ S) \cup {[q EXCEPT !.qty = t.n] : q \in S}
    /\ hold' = [hold EXCEPT ![t.batch] = @ + ToReserve(t)]
    /\ raced' = raced \cup Stale(Bay, t.saw)
    /\ Finish(j)
    /\ UNCHANGED <<byHand, edits, lost, overtaken, scrapped, eaten>>

(* A release gives back as much of the quantity as the row has reserved,   *)
(* and closes the HELD record.                                             *)
ToRelease(b, saw, n) == Smaller(saw.reserved, n)

GiveBack(t) ==
    /\ hold' = [hold EXCEPT ![t.batch] = Atleast0(@ - ToRelease(t.batch, t.saw, t.n))]
    /\ eaten' = (eaten \/ ToRelease(t.batch, t.saw, t.n) > hold[t.batch])
    /\ raced' = raced \cup Stale(Bay, t.saw)

ReleaseBatch(j) ==
    LET t == job[j] IN
    /\ Doing(j, "releasing")
    /\ level' = [level EXCEPT ![Bay] = Shift(@, 0, -ToRelease(t.batch, t.saw, t.n))]
    /\ batch' = [batch EXCEPT ![t.batch].flagged = FALSE]
    /\ records' = Decided(HeldRecords(t.batch), "RELEASED")
    /\ GiveBack(t)
    /\ Finish(j)
    /\ UNCHANGED <<byHand, edits, lost, overtaken, scrapped>>

(* decide: rework keeps the stock held; a write-off releases the hold and  *)
(* takes the stock out through the same compare-and-swap, the quantity of  *)
(* the record or one that staff name.                                      *)
ReadForDecision(j, q, to, n) ==
    /\ q.status \in {"HELD", "REWORK"}
    /\ to = "REWORK" => n = q.qty
    /\ Start(j, [op |-> "decide", batch |-> q.batch, record |-> q, to |-> to, n |-> n,
                 left |-> batch[q.batch].left, saw |-> level[Bay]])
    /\ UNCHANGED <<stockVars, batchVars>>

Same(q) == {x \in records : x.id = q.id}
Redecided(t) ==
    overtaken' = overtaken \cup (IF t.record \notin records \/ batch[t.batch].left # t.left THEN {t.batch} ELSE {})

Rework(j) ==
    LET t == job[j] IN
    /\ Doing(j, "decide") /\ t.to = "REWORK"
    /\ records' = Decided(Same(t.record), "REWORK")
    /\ Redecided(t)
    /\ Finish(j)
    /\ UNCHANGED <<level, byHand, edits, lost, raced, batch, scrapped, hold, eaten>>

WriteOff(j) ==
    LET t == job[j]
        freed == Shift(level[Bay], 0, -ToRelease(t.batch, t.saw, t.n))
    IN
    /\ Doing(j, "decide") /\ t.to # "REWORK" /\ Unlocked(t.batch)
    /\ MovementFits(freed, -t.n)
    /\ level' = [level EXCEPT ![Bay] = Shift(freed, -t.n, 0)]
    /\ batch' = [batch EXCEPT ![t.batch].flagged = FALSE, ![t.batch].left = @ - Smaller(t.n, t.left)]
    /\ scrapped' = [scrapped EXCEPT ![t.batch] = @ + t.n]
    /\ records' = Decided(Same(t.record), t.to)
    /\ GiveBack(t)
    /\ Redecided(t)
    /\ Finish(j)
    /\ UNCHANGED <<byHand, edits, lost>>

BatchStep(j) ==
    \/ \E b \in Batches : ReadForOutput(j, b)
    \/ LockBatch(j)
    \/ \E b \in Batches, n \in 1 .. BatchQty : ReadForHold(j, b, n) \/ ReadForRelease(j, b, n)
    \/ \E q \in records, to \in {"REWORK", "REJECTED"}, n \in 1 .. BatchQty : ReadForDecision(j, q, to, n)
    \/ RecordOutput(j) \/ HoldBatch(j) \/ ReleaseBatch(j) \/ Rework(j) \/ WriteOff(j)

(* A release gives back what was reserved for its own batch: "Never        *)
(* release more than is actually held, or the reserve on other batches in  *)
(* the same warehouse would be eaten".                                     *)
NoReserveEaten == ~eaten
=============================================================================
