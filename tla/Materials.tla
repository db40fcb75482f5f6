------------------------------ MODULE Materials ------------------------------
(***************************************************************************)
(* Raw material on its way to a production run and back: handed out        *)
(* directly or against an issue note, received by the line, consumed, and  *)
(* returned directly or against a return note.  Stock moves through        *)
(* applyMovement (module Quarantine), whose compare-and-swap makes reading *)
(* and moving the row one step; the running totals are incremented in the  *)
(* same transaction.  What a handler checks, it read before.               *)
(***************************************************************************)
EXTENDS Quarantine

CONSTANTS Runs,        \* production orders of one material
          Required,    \* units the recipe asks for
          Store,       \* the row they come from
          Approval,    \* settings.materialIssueApprovalMode # 'NONE'
          IssueKeys,   \* idempotency keys of issues, receipts and returns
          MaxNotes,    \* bound: issue notes, and return notes
          MaxIssues    \* bound: issues made

ASSUME MaterialAssumption ==
    /\ Required \in Nat \ {0} /\ Approval \in BOOLEAN
    /\ MaxNotes \in Nat /\ MaxIssues \in Nat
    /\ Runs # {} => Store \in Rows

VARIABLES line,     \* per run: status, and issued, received, consumed of its material
          wanted,   \* per run: its material requisition, status and units allocated
          slips,    \* ProductionMaterialIssue notes, each of one line; history: keys it was handed over with, again
          backs,    \* ProductionMaterialReturn notes, each of one line; history: excess
          withdrawn,\* direct issues: the MaterialConsumption row, with its run and key
          drawn,    \* per run: units MATERIAL_ISSUE took out less MATERIAL_RETURN brought back
          issues    \* issues made

lineVars == <<line, wanted, slips, backs, withdrawn, drawn, issues>>

RunMoves ==
    {<<"DRAFT", "APPROVED">>, <<"APPROVED", "READY">>, <<"APPROVED", "IN_PROGRESS">>,
     <<"READY", "IN_PROGRESS">>, <<"IN_PROGRESS", "PAUSED">>, <<"PAUSED", "IN_PROGRESS">>,
     <<"IN_PROGRESS", "COMPLETED">>}
    \cup {<<s, "CANCELLED">> : s \in {"DRAFT", "APPROVED", "READY", "IN_PROGRESS", "PAUSED"}}
RunStatuses == {m[2] : m \in RunMoves}

MaterialInit ==
    /\ line = [p \in Runs |-> [status |-> "DRAFT", issued |-> 0, received |-> 0, consumed |-> 0]]
    /\ wanted = [p \in Runs |-> [status |-> "NONE", n |-> 0]]
    /\ slips = {} /\ backs = {} /\ withdrawn = {}
    /\ drawn = [p \in Runs |-> 0]
    /\ issues = 0

(* canStartProduction and canCompleteProduction; that output was recorded  *)
(* is taken as given.                                                      *)
MayRun(p, to) ==
    /\ to = "IN_PROGRESS" => line[p].received > 0
    /\ to = "COMPLETED" => line[p].received >= Required

OvertookRun(p, changed) == overtaken' = overtaken \cup (IF changed THEN {p} ELSE {})
OvertookTotals(p, saw) == OvertookRun(p, <<line[p].issued, line[p].consumed>> # <<saw.issued, saw.consumed>>)
OvertookNote(p, note, notes) == OvertookRun(p, note \notin notes)

ReadForRun(j, p, to) ==
    /\ <<line[p].status, to>> \in RunMoves /\ MayRun(p, to)
    /\ Start(j, [op |-> "run", run |-> p, to |-> to, saw |-> line[p].status])
    /\ UNCHANGED <<stockVars, batchVars, lineVars>>

MoveRun(j) ==
    LET t == job[j] IN
    /\ Doing(j, "run")
    /\ line' = [line EXCEPT ![t.run].status = t.to]
    /\ OvertookRun(t.run, line[t.run].status # t.saw)
    /\ Finish(j)
    /\ UNCHANGED <<level, byHand, edits, lost, raced, batchVars, wanted, slips, backs, withdrawn, drawn, issues>>

----------------------------------------------------------------------------
(* One movement of the store and the run's totals, in one transaction.     *)
Draw(p, n, totals) ==
    /\ MovementFits(level[Store], -n)
    /\ level' = [level EXCEPT ![Store] = Shift(@, -n, 0)]
    /\ drawn' = [drawn EXCEPT ![p] = @ + n]
    /\ line' = [line EXCEPT ![p] = totals]

Withdrawn(k) == k # NoKey /\ \E w \in withdrawn : w.key = k

(* ProductionOperation is unique by organization, kind and key.            *)
AnyIssue(k) == TRUE \* mistake: the operation is not unique by its key
IssueIsNew(k) == ~Withdrawn(k)

(* issue: direct, only where no requisition manages the run's material.    *)
ReadForIssue(j, p, n, k) ==
    /\ wanted[p].status = "NONE" /\ line[p].status \in {"APPROVED", "READY", "IN_PROGRESS", "PAUSED"}
    /\ ~\E w \in withdrawn : w.run = p /\ k # NoKey /\ w.key = k
    /\ issues < MaxIssues /\ issues' = issues + 1
    /\ Start(j, [op |-> "issue", run |-> p, n |-> n, key |-> k])
    /\ UNCHANGED <<stockVars, batchVars, line, wanted, slips, backs, withdrawn, drawn>>

Issue(j) ==
    LET t == job[j] IN
    /\ Doing(j, "issue") /\ IssueIsNew(t.key)
    /\ Draw(t.run, t.n, [line[t.run] EXCEPT !.issued = @ + t.n])
    /\ withdrawn' = withdrawn \cup {[id |-> Cardinality(withdrawn), run |-> t.run, key |-> t.key]}
    /\ Finish(j)
    /\ UNCHANGED <<byHand, edits, lost, raced, overtaken, batchVars, wanted, slips, backs, issues>>

(* consume: no more than was issued, as the totals were read.              *)
ConsumesAnything(q, n) == TRUE \* mistake: not compared with what was issued
MayConsume(q, n) == q.consumed + n <= q.issued

ReadForConsume(j, p, n) ==
    /\ line[p].status \in {"IN_PROGRESS", "PAUSED"} /\ MayConsume(line[p], n)
    /\ Start(j, [op |-> "consume", run |-> p, n |-> n, saw |-> line[p]])
    /\ UNCHANGED <<stockVars, batchVars, lineVars>>

Consume(j) ==
    LET t == job[j] IN
    /\ Doing(j, "consume")
    /\ line' = [line EXCEPT ![t.run].consumed = @ + t.n]
    /\ OvertookTotals(t.run, t.saw)
    /\ Finish(j)
    /\ UNCHANGED <<level, byHand, edits, lost, raced, batchVars, wanted, slips, backs, withdrawn, drawn, issues>>

(* returnToStore: no more than is issued and not consumed.                 *)
ReadForReturn(j, p, n) ==
    /\ n <= line[p].issued - line[p].consumed
    /\ Start(j, [op |-> "return", run |-> p, n |-> n, saw |-> line[p]])
    /\ UNCHANGED <<stockVars, batchVars, lineVars>>

ReturnToStore(j) ==
    LET t == job[j] IN
    /\ Doing(j, "return")
    /\ Draw(t.run, -t.n, [line[t.run] EXCEPT !.issued = @ - t.n])
    /\ OvertookTotals(t.run, t.saw)
    /\ Finish(j)
    /\ UNCHANGED <<byHand, edits, lost, raced, batchVars, wanted, slips, backs, withdrawn, issues>>

----------------------------------------------------------------------------
(* The requisition of a run and the issue note made from it: one store, so *)
(* one note, for what could be allocated.                                  *)
AddSlip(p, n) ==
    IF n = 0 THEN UNCHANGED slips
    ELSE /\ Cardinality(slips) < MaxNotes
         /\ slips' = slips \cup {[id |-> Cardinality(slips), run |-> p, status |-> "READY_FOR_PICKING",
                                  asked |-> n, issued |-> 0, key |-> NoKey, receipt |-> NoKey,
                                  keys |-> {}, again |-> FALSE]}

Allocated == Smaller(Required, Atleast0(Available(level[Store])))

(* create answers with the requisition there is; approve insists on        *)
(* SUBMITTED.  Both looked before their transaction.                       *)
ReadForRequest(j, p) ==
    /\ wanted[p].status = "NONE"
    /\ Start(j, [op |-> "request", run |-> p, saw |-> wanted[p], n |-> Allocated])
    /\ UNCHANGED <<stockVars, batchVars, lineVars>>

ReadForApproval(j, p) ==
    /\ wanted[p].status = "SUBMITTED"
    /\ Start(j, [op |-> "approve", run |-> p, saw |-> wanted[p], n |-> wanted[p].n])
    /\ UNCHANGED <<stockVars, batchVars, lineVars>>

Request(j) ==
    LET t == job[j]
        ready == t.op = "approve" \/ ~Approval
    IN
    /\ t.op \in {"request", "approve"}
    /\ IF ready THEN AddSlip(t.run, t.n) ELSE UNCHANGED slips
    /\ wanted' = [wanted EXCEPT ![t.run] = [status |-> IF ready THEN "READY_FOR_ISSUE" ELSE "SUBMITTED", n |-> t.n]]
    /\ OvertookRun(t.run, wanted[t.run] # t.saw)
    /\ Finish(j)
    /\ UNCHANGED <<level, byHand, edits, lost, raced, batchVars, line, backs, withdrawn, drawn, issues>>

(* startPicking and finishPicking.                                         *)
Picks == {<<"READY_FOR_PICKING", "PICKING">>, <<"PICKING", "READY_FOR_HANDOVER">>}

ReadSlip(j, s, task) ==
    /\ Start(j, [task EXCEPT !.slip = s])
    /\ UNCHANGED <<stockVars, batchVars, line, wanted, slips, backs, withdrawn, drawn>>

Instead(S, row, new) == {IF x.id = row.id THEN new ELSE x : x \in S}
Now(S, row) == CHOOSE x \in S : x.id = row.id

ReadForPick(j, s, m) ==
    /\ s.status = m[1]
    /\ ReadSlip(j, s, [op |-> "pick", slip |-> s, to |-> m[2]])
    /\ UNCHANGED issues

Pick(j) ==
    LET t == job[j] IN
    /\ Doing(j, "pick")
    /\ slips' = Instead(slips, t.slip, [Now(slips, t.slip) EXCEPT !.status = t.to])
    /\ OvertookNote(t.slip.run, t.slip, slips)
    /\ Finish(j)
    /\ UNCHANGED <<level, byHand, edits, lost, raced, batchVars, line, wanted, backs, withdrawn, drawn, issues>>

(* confirmIssue: the key compared is that of the last issue of the note,   *)
(* as it was read before the transaction.                                  *)
ReadForHandover(j, s, n, k) ==
    /\ s.key # k /\ s.status \in {"READY_FOR_HANDOVER", "PARTIALLY_ISSUED"}
    /\ n <= s.asked - s.issued
    /\ issues < MaxIssues /\ issues' = issues + 1
    /\ ReadSlip(j, s, [op |-> "handover", slip |-> s, n |-> n, key |-> k])

KeyFree(k, s, field) == \A x \in slips : x.id # s.id => x[field] # k

HandOver(j) ==
    LET t == job[j]
        s == Now(slips, t.slip)
        n == s.issued + t.n
        p == t.slip.run
        status == IF n >= s.asked THEN "ISSUED" ELSE "PARTIALLY_ISSUED"
    IN
    /\ Doing(j, "handover") /\ KeyFree(t.key, s, "key")
    /\ Draw(p, t.n, [line[p] EXCEPT !.issued = @ + t.n])
    /\ slips' = Instead(slips, s, [s EXCEPT !.status = status, !.issued = n, !.key = t.key,
                                               !.keys = @ \cup {t.key}, !.again = @ \/ t.key \in s.keys])
    /\ wanted' = [wanted EXCEPT ![p].status = status]
    /\ OvertookNote(p, t.slip, slips)
    /\ Finish(j)
    /\ UNCHANGED <<byHand, edits, lost, raced, batchVars, backs, withdrawn, issues>>

(* confirmReceipt: the line counts what the note says was issued, or what  *)
(* it reports.                                                             *)
ReadForLine(j, s, n, k) ==
    /\ s.receipt # k /\ s.status = "ISSUED"
    /\ ReadSlip(j, s, [op |-> "line", slip |-> s, n |-> n, key |-> k])
    /\ UNCHANGED issues

ReceiveOnLine(j) ==
    LET t == job[j]
        s == Now(slips, t.slip)
        p == t.slip.run
    IN
    /\ Doing(j, "line") /\ KeyFree(t.key, s, "receipt")
    /\ slips' = Instead(slips, s, [s EXCEPT !.status = "RECEIVED", !.receipt = t.key])
    /\ line' = [line EXCEPT ![p].received = @ + t.n]
    /\ wanted' = [wanted EXCEPT ![p].status = "RECEIVED"]
    /\ OvertookNote(p, t.slip, slips)
    /\ Finish(j)
    /\ UNCHANGED <<level, byHand, edits, lost, raced, batchVars, backs, withdrawn, drawn, issues>>

----------------------------------------------------------------------------
(* createReturn declares what was received and not consumed, and promises  *)
(* nothing to the next one; confirmReturn books what is declared.          *)
ReadForReturnNote(j, p, n) ==
    /\ n <= line[p].received - line[p].consumed
    /\ Start(j, [op |-> "declare", run |-> p, n |-> n])
    /\ UNCHANGED <<stockVars, batchVars, lineVars>>

DeclareReturn(j) ==
    LET t == job[j] IN
    /\ Doing(j, "declare") /\ Cardinality(backs) < MaxNotes
    /\ backs' = backs \cup {[id |-> Cardinality(backs), run |-> t.run, n |-> t.n, open |-> TRUE, key |-> NoKey, excess |-> FALSE]}
    /\ Finish(j)
    /\ UNCHANGED <<stockVars, batchVars, line, wanted, slips, withdrawn, drawn, issues>>

ReadForConfirm(j, b, k) ==
    /\ b.key # k /\ b.open
    /\ Start(j, [op |-> "confirm", note |-> b, key |-> k])
    /\ UNCHANGED <<stockVars, batchVars, lineVars>>

ConfirmReturn(j) ==
    LET t == job[j]
        p == t.note.run
        excess == t.note.n > line[p].issued - line[p].consumed
    IN
    /\ Doing(j, "confirm") /\ \A b \in backs : b.id # t.note.id => b.key # t.key
    /\ Draw(p, -t.note.n, [line[p] EXCEPT !.issued = @ - t.note.n, !.received = @ - t.note.n])
    /\ backs' = Instead(backs, t.note, [t.note EXCEPT !.open = FALSE, !.key = t.key, !.excess = @ \/ excess])
    /\ OvertookNote(p, t.note, backs)
    /\ Finish(j)
    /\ UNCHANGED <<byHand, edits, lost, raced, batchVars, wanted, slips, withdrawn, issues>>

MaterialStep(j) ==
    \/ \E p \in Runs, to \in RunStatuses : ReadForRun(j, p, to)
    \/ \E p \in Runs : ReadForRequest(j, p) \/ ReadForApproval(j, p)
    \/ \E p \in Runs, n \in 1 .. Required :
         \/ \E k \in IssueKeys \cup {NoKey} : ReadForIssue(j, p, n, k)
         \/ ReadForConsume(j, p, n) \/ ReadForReturn(j, p, n) \/ ReadForReturnNote(j, p, n)
    \/ \E s \in slips :
         \/ \E m \in Picks : ReadForPick(j, s, m)
         \/ \E n \in 1 .. Required, k \in IssueKeys : ReadForHandover(j, s, n, k) \/ ReadForLine(j, s, n, k)
    \/ \E b \in backs, k \in IssueKeys : ReadForConfirm(j, b, k)
    \/ MoveRun(j) \/ Issue(j) \/ Consume(j) \/ ReturnToStore(j) \/ Request(j) \/ Pick(j)
    \/ HandOver(j) \/ ReceiveOnLine(j) \/ DeclareReturn(j) \/ ConfirmReturn(j)

(* Units issued are units that left the store, less those that came back,  *)
(* however requests overlap.  A direct issue with a key takes them out     *)
(* once, at any time.  A handover does where its copies follow one         *)
(* another: it is booked again only if two requests for the run            *)
(* overlapped, or the note was handed over with another key since, for     *)
(* only the last key is compared.  Nothing is used that was not issued,    *)
(* unless two requests for the run overlapped, or a return note, which is  *)
(* not checked again when it is booked, gave back more than was by then    *)
(* issued and not consumed.                                                *)
MaterialsBalance ==
    /\ \A v, w \in withdrawn : v.key = w.key /\ v.key # NoKey => v = w
    /\ \A s \in slips : s.again => s.run \in overtaken \/ \E k, l \in s.keys : k # l
    /\ \A p \in Runs :
         /\ drawn[p] = line[p].issued
         /\ p \notin overtaken /\ (\A b \in backs : b.run = p => ~b.excess) => line[p].consumed <= line[p].issued
=============================================================================
