------------------------------- MODULE Stock -------------------------------
(***************************************************************************)
(* The StockLevel rows every warehouse document writes, and the two        *)
(* operations that write them by hand: an adjustment and a transfer.       *)
(*                                                                         *)
(* A handler is a job.  It reads what it checks, and writes in a later     *)
(* transaction; under READ COMMITTED a plain read takes no lock, so any    *)
(* number of other jobs may commit in between.  The rows a transaction     *)
(* writes are locked until it commits, so its writes are one step, with    *)
(* the unlocked reads that came before it in the job's record "saw".       *)
(*                                                                         *)
(* Two history variables name what the code leaves open: lost holds the    *)
(* rows whose quantity was overwritten from an older reading, raced the    *)
(* rows changed on the strength of a check that was out of date by then.   *)
(* overtaken holds the documents a job wrote from an out-of-date reading.  *)
(***************************************************************************)
EXTENDS Integers, FiniteSets

CONSTANTS Rows,         \* one variant in one warehouse each
          OpeningStock, \* what each row holds at the start
          Jobs,         \* handlers running at once
          MaxEdits,     \* bound: adjustments and manual transfers
          NoKey         \* a request without an idempotency key

ASSUME StockAssumption == OpeningStock \in [Rows -> Nat] /\ MaxEdits \in Nat

VARIABLES level,     \* StockLevel: quantity and reserved
          byHand,    \* sum of the ADJUSTMENT and manual TRANSFER movements
          edits,     \* adjustments and transfers begun
          job,
          lost, raced, overtaken

stockVars == <<level, byHand, edits, lost, raced, overtaken>>

Idle == [op |-> "idle"]

Available(l) == l.quantity - l.reserved

Shift(l, q, r) == [l EXCEPT !.quantity = @ + q, !.reserved = @ + r]

(* Rows whose reading is out of date. *)
Stale(r, saw) == IF level[r] = saw THEN {} ELSE {r}

Start(j, task) == job[j] = Idle /\ job' = [job EXCEPT ![j] = task]
Doing(j, op) == job[j].op = op
Goes(j, task) == job' = [job EXCEPT ![j] = task]
Finish(j) == job' = [job EXCEPT ![j] = Idle]

StockInit ==
    /\ level = [r \in Rows |-> [quantity |-> OpeningStock[r], reserved |-> 0]]
    /\ byHand = [r \in Rows |-> 0]
    /\ edits = 0
    /\ job = [j \in Jobs |-> Idle]
    /\ lost = {} /\ raced = {} /\ overtaken = {}

(***************************************************************************)
(* adjustStock reads the row in its transaction with an upsert that        *)
(* changes nothing, checks the sum it is about to write, and writes it as  *)
(* an absolute value.                                                      *)
(***************************************************************************)
MayAdjustPromised(l, d) == l.quantity + d >= 0 \* mistake: what is reserved is not kept back
MayAdjust(l, d) == l.quantity + d >= 0 /\ l.quantity + d >= l.reserved

ReadForAdjust(j, r, d) ==
    /\ edits < MaxEdits /\ edits' = edits + 1
    /\ MayAdjust(level[r], d)
    /\ Start(j, [op |-> "adjust", row |-> r, n |-> d, saw |-> level[r]])
    /\ UNCHANGED <<level, byHand, lost, raced, overtaken>>

(* What an absolute write of a row leaves behind. *)
Overwrite(r, saw, d) ==
    /\ level' = [level EXCEPT ![r].quantity = saw.quantity + d]
    /\ lost' = lost \cup (IF level[r].quantity = saw.quantity THEN {} ELSE {r})
    /\ raced' = raced \cup Stale(r, saw)

AdjustStock(j) ==
    /\ Doing(j, "adjust")
    /\ Overwrite(job[j].row, job[j].saw, job[j].n)
    /\ byHand' = [byHand EXCEPT ![job[j].row] = @ + job[j].n]
    /\ Finish(j)
    /\ UNCHANGED <<edits, overtaken>>

(***************************************************************************)
(* createTransfer checks the source in its transaction, then takes from    *)
(* it with a decrement that repeats no check, and adds at the destination. *)
(***************************************************************************)
ReadForTransfer(j, from, to, n) ==
    /\ edits < MaxEdits /\ edits' = edits + 1
    /\ from # to /\ Available(level[from]) >= n
    /\ Start(j, [op |-> "transfer", row |-> from, to |-> to, n |-> n, saw |-> level[from]])
    /\ UNCHANGED <<level, byHand, lost, raced, overtaken>>

CreateTransfer(j) ==
    LET t == job[j] IN
    /\ Doing(j, "transfer")
    /\ level' = [level EXCEPT ![t.row] = Shift(@, -t.n, 0), ![t.to] = Shift(@, t.n, 0)]
    /\ byHand' = [byHand EXCEPT ![t.row] = @ - t.n, ![t.to] = @ + t.n]
    /\ raced' = raced \cup Stale(t.row, t.saw)
    /\ Finish(j)
    /\ UNCHANGED <<edits, lost, overtaken>>

(* A handler that fails, is refused in its transaction or dies with the    *)
(* process before the commit has changed nothing.                          *)
Abandon(j) == job[j] # Idle /\ Finish(j) /\ UNCHANGED stockVars

StockStep(j) ==
    \/ \E r \in Rows, d \in {-1, 1} : ReadForAdjust(j, r, d)
    \/ AdjustStock(j)
    \/ \E from, to \in Rows : ReadForTransfer(j, from, to, 1)
    \/ CreateTransfer(j)
=============================================================================
