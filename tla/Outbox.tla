------------------------------- MODULE Outbox -------------------------------
(***************************************************************************)
(* The event outbox: business actions append rows, a timer drains them     *)
(* every three seconds.  The timer does not wait for the drain before it,  *)
(* so several drains may work on overlapping snapshots; every statement    *)
(* and every call of the handlers is an await, and a step of its own.      *)
(***************************************************************************)
EXTENDS Integers, FiniteSetsExt

CONSTANTS
    Events,      \* rows, numbered as they occur
    Drains,      \* drains that may run at once
    MAX_ATTEMPTS,
    BatchSize,
    MaxFaults    \* crashes, and statements the database fails to execute

ASSUME OutboxAssumption ==
    /\ Events \subseteq Nat /\ MAX_ATTEMPTS \in Nat \ {0}
    /\ BatchSize \in Nat \ {0} /\ MaxFaults \in Nat

VARIABLES
    outbox,     \* the DomainEvent rows
    drain,      \* the running drains: rows still to do and the attempts read
    accepted,   \* events all of whose handlers have once returned normally
    tries,      \* how often an event was handed out, counted up to MAX_ATTEMPTS
    faults

outboxVars == <<outbox, drain, accepted, tries, faults>>

NoTodo == [e \in {} |-> 0]
NoDrain == [step |-> "idle", todo |-> NoTodo, e |-> 0]

Without(f, e) == [x \in DOMAIN f \ {e} |-> f[x]]
Pending == {e \in Events : outbox[e].status = "PENDING" /\ outbox[e].attempts < MAX_ATTEMPTS}

(* emitEvent: best effort, so the row may also never be written.           *)
EmitEvent(e) ==
    /\ outbox[e].status = "ABSENT"
    /\ outbox' = [outbox EXCEPT ![e].status = "PENDING"]
    /\ UNCHANGED <<drain, accepted, tries, faults>>

(* The oldest rows of the backlog, with the attempts they show.            *)
TakeBatch(d) ==
    LET batch == {e \in Pending : Cardinality({f \in Pending : f < e}) < BatchSize} IN
    /\ drain[d] = NoDrain /\ batch # {}
    /\ drain' = [drain EXCEPT ![d] = [step |-> "next", todo |-> [e \in batch |-> outbox[e].attempts],
                                      e |-> 0]]
    /\ UNCHANGED <<outbox, accepted, tries, faults>>

(* The rows are handed to the handlers one by one, oldest first; what the  *)
(* row says by now is not looked at.                                       *)
Deliver(d) ==
    LET todo == drain[d].todo IN
    /\ drain[d].step = "next"
    /\ IF DOMAIN todo = {} THEN drain' = [drain EXCEPT ![d] = NoDrain] /\ UNCHANGED tries
       ELSE \E e \in DOMAIN todo :
              /\ \A f \in DOMAIN todo : e <= f
              /\ drain' = [drain EXCEPT ![d] = [step |-> "handlers", todo |-> todo, e |-> e]]
              /\ tries' = IF tries[e] < MAX_ATTEMPTS THEN [tries EXCEPT ![e] = @ + 1] ELSE tries
    /\ UNCHANGED <<outbox, accepted, faults>>

(* deliver: every handler runs; one that throws fails the delivery.        *)
HandlersReturn(d, ok) ==
    /\ drain[d].step = "handlers"
    /\ drain' = [drain EXCEPT ![d].step = IF ok THEN "publish" ELSE "fail"]
    /\ accepted' = IF ok THEN accepted \cup {drain[d].e} ELSE accepted
    /\ UNCHANGED <<outbox, tries, faults>>

NextRow(d) == drain' = [drain EXCEPT ![d] = [step |-> "next", todo |-> Without(@.todo, @.e), e |-> 0]]

RecordPublished(d) ==
    LET e == drain[d].e IN
    /\ drain[d].step = "publish"
    /\ outbox' = [outbox EXCEPT ![e] = [status |-> "PUBLISHED", attempts |-> @.attempts + 1]]
    /\ NextRow(d)
    /\ UNCHANGED <<accepted, tries, faults>>

RecordFailureEarly(d) == \* mistake: parked one attempt too early
    LET e == drain[d].e
        attempts == drain[d].todo[e] + 1 IN
    /\ drain[d].step = "fail"
    /\ outbox' = [outbox EXCEPT ![e] = [status |-> IF attempts + 1 >= MAX_ATTEMPTS THEN "FAILED" ELSE @.status,
                                        attempts |-> attempts]]
    /\ NextRow(d)
    /\ UNCHANGED <<accepted, tries, faults>>

RecordFailureNeverParked(d) == \* mistake: out of attempts, and still PENDING
    LET e == drain[d].e IN
    /\ drain[d].step = "fail"
    /\ outbox' = [outbox EXCEPT ![e].attempts = drain[d].todo[e] + 1]
    /\ NextRow(d)
    /\ UNCHANGED <<accepted, tries, faults>>

(* The attempts written are those read with the snapshot, plus one.        *)
RecordFailure(d) ==
    LET e == drain[d].e
        attempts == drain[d].todo[e] + 1 IN
    /\ drain[d].step = "fail"
    /\ outbox' = [outbox EXCEPT ![e] = [status |-> IF attempts >= MAX_ATTEMPTS THEN "FAILED" ELSE @.status,
                                        attempts |-> attempts]]
    /\ NextRow(d)
    /\ UNCHANGED <<accepted, tries, faults>>

(* The update to PUBLISHED is inside the try: when it throws the event     *)
(* counts as failed.  When the update after a failure throws, the tick     *)
(* ends and the rest of the snapshot is dropped.                           *)
RecordThrows(d) ==
    /\ faults < MaxFaults /\ faults' = faults + 1
    /\ \/ drain[d].step = "publish" /\ drain' = [drain EXCEPT ![d].step = "fail"]
       \/ drain[d].step = "fail" /\ drain' = [drain EXCEPT ![d] = NoDrain]
    /\ UNCHANGED <<outbox, accepted, tries>>

OutboxCrash ==
    /\ faults < MaxFaults /\ faults' = faults + 1
    /\ \E d \in Drains : drain[d] # NoDrain
    /\ drain' = [d \in Drains |-> NoDrain]
    /\ UNCHANGED <<outbox, accepted, tries>>

OutboxInit ==
    /\ outbox = [e \in Events |-> [status |-> "ABSENT", attempts |-> 0]]
    /\ drain = [d \in Drains |-> NoDrain]
    /\ accepted = {}
    /\ tries = [e \in Events |-> 0]
    /\ faults = 0

DrainStep(d) == TakeBatch(d) \/ Deliver(d) \/ RecordPublished(d) \/ RecordFailure(d)

OutboxNext ==
    \/ \E e \in Events : EmitEvent(e)
    \/ \E d \in Drains :
         \/ DrainStep(d) \/ RecordThrows(d)
         \/ \E ok \in BOOLEAN : HandlersReturn(d, ok)
    \/ OutboxCrash

OutboxSpec == OutboxInit /\ [][OutboxNext]_outboxVars

(* The timer fires for ever, a drain goes on, and a handler comes back.    *)
OutboxFairness == \A d \in Drains :
    WF_outboxVars(DrainStep(d) \/ \E ok \in BOOLEAN : HandlersReturn(d, ok))

----------------------------------------------------------------------------
(* "Marks PUBLISHED on success; ... parks as FAILED after MAX_ATTEMPTS":   *)
(* however drains overlap, restart or lose a statement, an event shown as  *)
(* published was once taken by every handler, and one parked as failed was *)
(* handed out MAX_ATTEMPTS times.                                          *)
OutcomeEarned == \A e \in Events :
    /\ outbox[e].status = "PUBLISHED" => e \in accepted
    /\ outbox[e].status = "FAILED" => tries[e] = MAX_ATTEMPTS

(* Every event recorded is in the end delivered or parked, although drains *)
(* overwrite each other's count of attempts.                               *)
EventsSettle == \A e \in Events :
    outbox[e].status = "PENDING" ~> outbox[e].status \in {"PUBLISHED", "FAILED"}
=============================================================================
