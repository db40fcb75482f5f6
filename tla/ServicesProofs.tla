--------------------------- MODULE ServicesProofs ---------------------------
(***************************************************************************)
(* Safety of the services beside payments and stock, one section for each: *)
(* keyed requests, the outbox, outgoing webhooks, WhatsApp campaigns, SMS  *)
(* credits, points.                                                        *)
(* Every theorem is about the specification of one component, for all      *)
(* values of its constants.                                                *)
(***************************************************************************)
EXTENDS Outbox, Rewards, Idempotency, Webhooks, SmsCampaigns, WhatsAppCampaigns, FiniteSums

----------------------------------------------------------------------------
(***************************************************************************)
(* Keyed requests.  An Idempotency-Key runs its operation once and replays *)
(* its answer, for every set of requests, keys and answers and any number  *)
(* of restarts.                                                            *)
(*                                                                         *)
(* The property relates two requests; the row both share carries the       *)
(* proof: it exists from the moment one of them runs, and once COMPLETED   *)
(* it holds what that one answered and never changes.                      *)
(***************************************************************************)

Exchange == [step : {"new", "running", "seen", "answered", "replayed", "refused", "cut off"},
          answer : Answers \cup {"none"}]

IdempotencyTypeOK ==
    /\ keyRow \in [Keys -> [status : {"ABSENT", "IN_PROGRESS", "COMPLETED"},
                            answer : Answers \cup {"none"}]]
    /\ request \in [Requests -> Exchange]
    /\ ran \subseteq Requests /\ storing \subseteq Requests

(* Where a request is tells whether it reached the operation. *)
StepsOK == \A r \in Requests :
    /\ request[r].step = "running" => r \in ran
    /\ r \in storing => r \in ran /\ request[r].step = "answered"
    /\ r \in ran => request[r].step \in {"running", "answered", "cut off"}

(* The row of a key belongs to the one request that ran under it. *)
RowsOK == \A r \in ran :
    /\ keyRow[KeyOf[r]].status # "ABSENT"
    /\ \A s \in ran : KeyOf[r] = KeyOf[s] => r = s
    /\ keyRow[KeyOf[r]].status = "COMPLETED" =>
         request[r].step = "answered" /\ request[r].answer = keyRow[KeyOf[r]].answer

ReplaysOK == \A r \in Requests : request[r].step = "replayed" =>
    /\ keyRow[KeyOf[r]].status = "COMPLETED"
    /\ request[r].answer = keyRow[KeyOf[r]].answer

IdempotencyInv == IdempotencyTypeOK /\ StepsOK /\ RowsOK /\ ReplaysOK

----------------------------------------------------------------------------
LEMMA IdempotencyInitInv == IdempotencyInit => IdempotencyInv
BY IdempotencyAssumption
   DEF IdempotencyInit, IdempotencyInv, IdempotencyTypeOK, StepsOK, RowsOK, ReplaysOK, NoRow, Exchange

(* Inserting the row: no other request ran under a key without a row.      *)
LEMMA ClaimStep ==
    ASSUME IdempotencyInv, NEW r \in Requests, Claim(r)
    PROVE  IdempotencyInv'
<1> DEFINE k == KeyOf[r]
<1> USE IdempotencyAssumption DEF IdempotencyInv
<1>1. k \in Keys /\ r \notin ran /\ request[r].step = "new" /\ UNCHANGED storing
  BY DEF Claim, StepsOK
<1>2. CASE keyRow[k] = NoRow
  <2>1. /\ keyRow' = [keyRow EXCEPT ![k].status = "IN_PROGRESS"] /\ ran' = ran \cup {r}
        /\ request' = [request EXCEPT ![r] = [step |-> "running", answer |-> "none"]]
    BY <1>2 DEF Claim, Told
  <2>2. IdempotencyTypeOK'
    BY <1>1, <2>1 DEF IdempotencyTypeOK, Exchange
  <2>3. StepsOK'
    BY <1>1, <2>1 DEF StepsOK, IdempotencyTypeOK
  <2>4. \A s \in ran : KeyOf[s] # k
    BY <1>1, <1>2 DEF RowsOK, NoRow, IdempotencyTypeOK
  <2>5. RowsOK'
    BY <1>1, <2>1, <2>4 DEF RowsOK, IdempotencyTypeOK
  <2>6. ReplaysOK'
    BY <1>1, <1>2, <2>1 DEF ReplaysOK, IdempotencyTypeOK, NoRow
  <2> QED
    BY <2>2, <2>3, <2>5, <2>6
<1>3. CASE keyRow[k] # NoRow
  <2>1. /\ request' = [request EXCEPT ![r] = [step |-> "seen", answer |-> "none"]]
        /\ UNCHANGED <<keyRow, ran>>
    BY <1>3 DEF Claim, Told
  <2> QED
    BY <1>1, <2>1 DEF IdempotencyTypeOK, Exchange, StepsOK, RowsOK, ReplaysOK
<1> QED
  BY <1>2, <1>3

LEMMA ReplayStep ==
    ASSUME IdempotencyInv, NEW r \in Requests, Replay(r)
    PROVE  IdempotencyInv'
<1> USE IdempotencyAssumption DEF IdempotencyInv
<1>1. /\ r \notin ran /\ request[r].step = "seen" /\ UNCHANGED <<keyRow, ran, storing>>
      /\ keyRow[KeyOf[r]].answer \in Answers \cup {"none"}
  BY DEF Replay, StepsOK, IdempotencyTypeOK
<1>2. CASE keyRow[KeyOf[r]].status = "COMPLETED"
  <2>1. request' = [request EXCEPT ![r] = [step |-> "replayed", answer |-> keyRow[KeyOf[r]].answer]]
    BY <1>2 DEF Replay, Told
  <2> QED
    BY <1>1, <1>2, <2>1 DEF IdempotencyTypeOK, Exchange, StepsOK, RowsOK, ReplaysOK
<1>3. CASE keyRow[KeyOf[r]].status # "COMPLETED"
  <2>1. request' = [request EXCEPT ![r] = [step |-> "refused", answer |-> "none"]]
    BY <1>3 DEF Replay, Told
  <2> QED
    BY <1>1, <2>1 DEF IdempotencyTypeOK, Exchange, StepsOK, RowsOK, ReplaysOK
<1> QED
  BY <1>2, <1>3

LEMMA RespondStep ==
    ASSUME IdempotencyInv, NEW r \in Requests, NEW a \in Answers, Respond(r, a)
    PROVE  IdempotencyInv'
<1> USE IdempotencyAssumption DEF IdempotencyInv
<1>1. /\ request[r].step = "running" /\ r \in ran /\ storing' = storing \cup {r}
      /\ request' = [request EXCEPT ![r] = [step |-> "answered", answer |-> a]]
      /\ UNCHANGED <<keyRow, ran>>
  BY DEF Respond, Told, StepsOK
<1>2. IdempotencyTypeOK' /\ StepsOK' /\ ReplaysOK'
  BY <1>1 DEF IdempotencyTypeOK, Exchange, StepsOK, ReplaysOK
<1>3. RowsOK'
  BY <1>1 DEF RowsOK, IdempotencyTypeOK
<1> QED
  BY <1>2, <1>3

(* Storing an answer never changes one already stored. *)
LEMMA StoreStep ==
    ASSUME IdempotencyInv, NEW r \in Requests, StoreAnswer(r)
    PROVE  IdempotencyInv'
<1> DEFINE k == KeyOf[r]
<1> USE IdempotencyAssumption DEF IdempotencyInv
<1>1. /\ r \in ran /\ request[r].step = "answered" /\ k \in Keys
      /\ storing' = storing \ {r}
      /\ keyRow' = [keyRow EXCEPT ![k] = [status |-> "COMPLETED", answer |-> request[r].answer]]
      /\ UNCHANGED <<request, ran>>
  BY DEF StoreAnswer, StepsOK
<1>3. keyRow[k].status = "COMPLETED" => keyRow[k].answer = request[r].answer
  BY <1>1 DEF RowsOK, IdempotencyTypeOK
<1>4. IdempotencyTypeOK' /\ StepsOK'
  BY <1>1 DEF IdempotencyTypeOK, Exchange, StepsOK
<1>5. RowsOK'
  BY <1>1 DEF RowsOK, IdempotencyTypeOK
<1>6. ReplaysOK'
  BY <1>1, <1>3 DEF ReplaysOK, IdempotencyTypeOK
<1> QED
  BY <1>4, <1>5, <1>6

LEMMA IdempotencyNextInv == IdempotencyInv /\ [IdempotencyNext]_idempotencyVars => IdempotencyInv'
<1> SUFFICES ASSUME IdempotencyInv, [IdempotencyNext]_idempotencyVars PROVE IdempotencyInv'
  OBVIOUS
<1> USE DEF IdempotencyInv
<1>1. ASSUME NEW r \in Requests, Claim(r) PROVE IdempotencyInv'
  BY <1>1, ClaimStep
<1>2. ASSUME NEW r \in Requests, Replay(r) PROVE IdempotencyInv'
  BY <1>2, ReplayStep
<1>3. ASSUME NEW r \in Requests, NEW a \in Answers, Respond(r, a) PROVE IdempotencyInv'
  BY <1>3, RespondStep
<1>4. ASSUME NEW r \in Requests, StoreAnswer(r) PROVE IdempotencyInv'
  BY <1>4, StoreStep
<1>5. ASSUME NEW r \in Requests, StoreFails(r) PROVE IdempotencyInv'
  BY <1>5 DEF StoreFails, IdempotencyTypeOK, StepsOK, RowsOK, ReplaysOK
<1>6. ASSUME Restart PROVE IdempotencyInv'
  <2>1. /\ request' = [r \in Requests |->
             IF request[r].step \in {"running", "seen", "unseen"}
             THEN [step |-> "cut off", answer |-> "none"] ELSE request[r]]
        /\ storing' = {} /\ UNCHANGED <<keyRow, ran>>
    BY <1>6 DEF Restart
  <2>2. \A r \in Requests :
          IF request[r].step \in {"running", "seen", "unseen"} THEN request'[r].step = "cut off"
          ELSE request'[r] = request[r]
    BY <2>1
  <2>3. IdempotencyTypeOK'
    BY <2>1 DEF IdempotencyTypeOK, Exchange
  <2>4. StepsOK'
    BY <2>1, <2>2 DEF StepsOK
  <2>5. \A r \in ran : request[r].step = "answered" => request'[r] = request[r]
    BY <2>2 DEF IdempotencyTypeOK
  <2>6. RowsOK'
    BY <2>1, <2>5 DEF RowsOK
  <2>7. ReplaysOK'
    BY <2>1, <2>2 DEF ReplaysOK
  <2> QED
    BY <2>3, <2>4, <2>6, <2>7
<1>7. CASE UNCHANGED idempotencyVars
  BY <1>7 DEF idempotencyVars, IdempotencyTypeOK, StepsOK, RowsOK, ReplaysOK
<1> QED
  BY <1>1, <1>2, <1>3, <1>4, <1>5, <1>6, <1>7 DEF IdempotencyNext

(* "Any retry with the same key replays the stored response instead of     *)
(* repeating the operation", for any number of retries and restarts.       *)
THEOREM OperationRunsOnce == IdempotencySpec => []OnceOnly
<1>1. IdempotencyInv => OnceOnly
  BY DEF IdempotencyInv, IdempotencyTypeOK, RowsOK, ReplaysOK, OnceOnly
<1> QED
  BY <1>1, IdempotencyInitInv, IdempotencyNextInv, PTL DEF IdempotencySpec

----------------------------------------------------------------------------
(***************************************************************************)
(* The outbox.  What it shows of an event was earned, for every set of     *)
(* events and any number of overlapping drains, crashes and failed         *)
(* statements.                                                             *)
(*                                                                         *)
(* A drain writes back the attempts it read with its snapshot, so the rows *)
(* say nothing exact.  What survives is an inequality: as long as a row is *)
(* PENDING, its attempts, and those in any snapshot, are no more than the  *)
(* times it was handed out, and strictly fewer for the event a drain has   *)
(* in hand.                                                                *)
(***************************************************************************)

HandedOut == {"handlers", "publish", "fail"}

Snapshots == UNION {[batch -> Nat] : batch \in SUBSET Events}

OutboxTypeOK ==
    /\ outbox \in [Events -> [status : {"ABSENT", "PENDING", "PUBLISHED", "FAILED"}, attempts : Nat]]
    /\ drain \in [Drains -> [step : {"idle", "next"} \cup HandedOut, todo : Snapshots, e : Nat]]
    /\ tries \in [Events -> 0 .. MAX_ATTEMPTS]

(* Of the m times an event was handed out, counted up to MAX_ATTEMPTS, n   *)
(* attempts have really been made.                                         *)
Made(n, m) == n <= m \/ m = MAX_ATTEMPTS

AttemptsMade == \A e \in Events : outbox[e].status \in {"ABSENT", "PENDING"} => Made(outbox[e].attempts, tries[e])

SnapshotsMade == \A d \in Drains :
    /\ \A e \in DOMAIN drain[d].todo : Made(drain[d].todo[e], tries[e])
    /\ drain[d].step \in HandedOut => /\ drain[d].e \in DOMAIN drain[d].todo
                                   /\ Made(drain[d].todo[drain[d].e] + 1, tries[drain[d].e])
    /\ drain[d].step = "publish" => drain[d].e \in accepted

OutboxInv == OutboxTypeOK /\ AttemptsMade /\ SnapshotsMade /\ OutcomeEarned

----------------------------------------------------------------------------
LEMMA NoTodoIsSnapshot == NoTodo \in Snapshots /\ DOMAIN NoTodo = {}
<1>1. NoTodo \in [{} -> Nat]
  BY DEF NoTodo
<1> QED
  BY <1>1 DEF Snapshots, NoTodo

LEMMA SnapshotType ==
    ASSUME NEW s \in Snapshots
    PROVE  DOMAIN s \subseteq Events /\ \A e \in DOMAIN s : s[e] \in Nat
BY DEF Snapshots

(* Changing a drain's step is replacing its record. *)
LEMMA DrainRecord ==
    ASSUME OutboxTypeOK, NEW d \in Drains, NEW step
    PROVE  [drain EXCEPT ![d].step = step] =
             [drain EXCEPT ![d] = [step |-> step, todo |-> drain[d].todo, e |-> drain[d].e]]
<1> DEFINE Steps == {"idle", "next"} \cup HandedOut
<1>1. drain \in [Drains -> [step : Steps, todo : Snapshots, e : Nat]]
  BY DEF OutboxTypeOK
<1> HIDE DEF Steps
<1>2. drain[d] \in [step : Steps, todo : Snapshots, e : Nat]
  BY <1>1
<1>3. [drain[d] EXCEPT !.step = step] = [step |-> step, todo |-> drain[d].todo, e |-> drain[d].e]
  BY <1>2
<1>4. [drain EXCEPT ![d].step = step] = [drain EXCEPT ![d] = [drain[d] EXCEPT !.step = step]]
  BY <1>1
<1> QED
  BY <1>3, <1>4

LEMMA OutboxInitInv == OutboxInit => OutboxInv
<1> SUFFICES ASSUME OutboxInit PROVE OutboxInv
  OBVIOUS
<1>1. OutboxTypeOK
  BY OutboxAssumption, NoTodoIsSnapshot DEF OutboxInit, OutboxTypeOK, NoDrain, HandedOut
<1>2. AttemptsMade /\ OutcomeEarned
  BY DEF OutboxInit, AttemptsMade, OutcomeEarned, Made
<1>3. SnapshotsMade
  BY NoTodoIsSnapshot DEF OutboxInit, SnapshotsMade, NoDrain, HandedOut
<1> QED
  BY <1>1, <1>2, <1>3 DEF OutboxInv

(* A drain that goes on, or starts, leaves the rows alone. *)
LEMMA DrainMoves ==
    ASSUME OutboxInv, NEW d \in Drains, UNCHANGED outbox,
           accepted \subseteq accepted', tries' \in [Events -> 0 .. MAX_ATTEMPTS],
           \A e \in Events : tries[e] <= tries'[e],
           NEW next \in [step : {"idle", "next"} \cup HandedOut, todo : Snapshots, e : Nat],
           drain' = [drain EXCEPT ![d] = next],
           \A e \in DOMAIN next.todo : Made(next.todo[e], tries'[e]),
           next.step \in HandedOut => next.e \in DOMAIN next.todo /\ Made(next.todo[next.e] + 1, tries'[next.e]),
           next.step = "publish" => next.e \in accepted'
    PROVE  OutboxInv'
<1> USE OutboxAssumption DEF OutboxInv
<1>1. \A e \in Events : tries[e] = MAX_ATTEMPTS => tries'[e] = MAX_ATTEMPTS
  BY DEF OutboxTypeOK
<1>2. \A e \in Events, n \in Nat : Made(n, tries[e]) => Made(n, tries'[e])
  BY <1>1 DEF Made, OutboxTypeOK
<1>3. OutboxTypeOK'
  BY DEF OutboxTypeOK
<1>4. AttemptsMade'
  BY <1>2 DEF AttemptsMade, OutboxTypeOK
<1>5. SnapshotsMade'
  <2> SUFFICES ASSUME NEW f \in Drains
      PROVE /\ \A e \in DOMAIN drain'[f].todo : Made(drain'[f].todo[e], tries'[e])
            /\ drain'[f].step \in HandedOut => /\ drain'[f].e \in DOMAIN drain'[f].todo
                                            /\ Made(drain'[f].todo[drain'[f].e] + 1, tries'[drain'[f].e])
            /\ drain'[f].step = "publish" => drain'[f].e \in accepted'
    BY DEF SnapshotsMade, Made
  <2>1. CASE f = d
    BY <2>1 DEF OutboxTypeOK
  <2>2. CASE f # d
    <3>1. drain'[f] = drain[f] /\ drain[f].todo \in Snapshots
      BY <2>2 DEF OutboxTypeOK
    <3>2. DOMAIN drain[f].todo \subseteq Events /\ \A e \in DOMAIN drain[f].todo : drain[f].todo[e] \in Nat
      BY <3>1, SnapshotType
    <3>3. \A e \in DOMAIN drain[f].todo : Made(drain[f].todo[e], tries'[e])
      BY <1>2, <3>2 DEF SnapshotsMade
    <3>4. drain[f].step \in HandedOut => /\ drain[f].e \in DOMAIN drain[f].todo
                                      /\ Made(drain[f].todo[drain[f].e] + 1, tries'[drain[f].e])
      <4> SUFFICES ASSUME drain[f].step \in HandedOut
                   PROVE  /\ drain[f].e \in DOMAIN drain[f].todo
                          /\ Made(drain[f].todo[drain[f].e] + 1, tries'[drain[f].e])
        OBVIOUS
      <4>1. /\ drain[f].e \in DOMAIN drain[f].todo
            /\ Made(drain[f].todo[drain[f].e] + 1, tries[drain[f].e])
        BY DEF SnapshotsMade
      <4>2. drain[f].e \in Events /\ drain[f].todo[drain[f].e] + 1 \in Nat
        BY <3>2, <4>1
      <4> QED
        BY <1>2, <4>1, <4>2
    <3> QED
      BY <3>1, <3>3, <3>4 DEF SnapshotsMade
  <2> QED
    BY <2>1, <2>2
<1>6. OutcomeEarned'
  BY <1>1 DEF OutcomeEarned
<1> QED
  BY <1>3, <1>4, <1>5, <1>6

(* Taking an event off a snapshot. *)
LEMMA Shorter ==
    ASSUME NEW s \in Snapshots, NEW x
    PROVE  /\ Without(s, x) \in Snapshots
           /\ DOMAIN Without(s, x) \subseteq DOMAIN s
           /\ \A e \in DOMAIN Without(s, x) : Without(s, x)[e] = s[e]
<1>1. Without(s, x) \in [DOMAIN s \ {x} -> Nat]
  BY SnapshotType DEF Without
<1>2. DOMAIN s \ {x} \in SUBSET Events
  BY SnapshotType
<1> QED
  BY <1>1, <1>2 DEF Snapshots, Without

(* Writing the outcome of the event in hand. *)
LEMMA RecordStep ==
    ASSUME OutboxInv, NEW d \in Drains, drain[d].step \in HandedOut, NextRow(d),
           NEW new \in [status : {"ABSENT", "PENDING", "PUBLISHED", "FAILED"}, attempts : Nat],
           outbox' = [outbox EXCEPT ![drain[d].e] = new],
           UNCHANGED <<accepted, tries>>,
           new.status \in {"ABSENT", "PENDING"} => Made(new.attempts, tries[drain[d].e]),
           new.status = "PUBLISHED" => drain[d].e \in accepted,
           new.status = "FAILED" => tries[drain[d].e] = MAX_ATTEMPTS
    PROVE  OutboxInv'
<1> DEFINE s == drain[d].todo
           next == [step |-> "next", todo |-> Without(s, drain[d].e), e |-> 0]
<1> USE OutboxAssumption DEF OutboxInv
<1>1. s \in Snapshots /\ drain[d].e \in DOMAIN s /\ drain[d].e \in Events
  BY SnapshotType DEF OutboxTypeOK, SnapshotsMade
<1>2. drain' = [drain EXCEPT ![d] = next] /\ Without(s, drain[d].e) \in Snapshots
  BY <1>1, Shorter DEF NextRow
<1>3. OutboxTypeOK'
  BY <1>1, <1>2 DEF OutboxTypeOK
<1>4. AttemptsMade' /\ OutcomeEarned'
  BY <1>1 DEF AttemptsMade, OutcomeEarned, Made, OutboxTypeOK
<1>5. SnapshotsMade'
  <2> SUFFICES ASSUME NEW f \in Drains
      PROVE /\ \A e \in DOMAIN drain'[f].todo : Made(drain'[f].todo[e], tries'[e])
            /\ drain'[f].step \in HandedOut => /\ drain'[f].e \in DOMAIN drain'[f].todo
                                            /\ Made(drain'[f].todo[drain'[f].e] + 1, tries'[drain'[f].e])
            /\ drain'[f].step = "publish" => drain'[f].e \in accepted
    BY DEF SnapshotsMade, Made
  <2>1. CASE f = d
    <3>1. drain'[f] = next
      BY <1>2, <2>1 DEF OutboxTypeOK
    <3>2. \A e \in DOMAIN Without(s, drain[d].e) : Made(Without(s, drain[d].e)[e], tries[e])
      BY <1>1, Shorter DEF SnapshotsMade
    <3> QED
      BY <3>1, <3>2 DEF HandedOut
  <2>2. CASE f # d
    <3>1. drain'[f] = drain[f]
      BY <1>2, <2>2 DEF OutboxTypeOK
    <3> QED
      BY <3>1 DEF SnapshotsMade
  <2> QED
    BY <2>1, <2>2
<1> QED
  BY <1>3, <1>4, <1>5

----------------------------------------------------------------------------
LEMMA TakeBatchInv ==
    ASSUME OutboxInv, NEW d \in Drains, TakeBatch(d)
    PROVE  OutboxInv'
<1> USE DEF OutboxInv
<1>1. PICK batch \in SUBSET Pending :
        /\ drain' = [drain EXCEPT ![d] = [step |-> "next", todo |-> [e \in batch |-> outbox[e].attempts],
                                          e |-> 0]]
        /\ UNCHANGED <<outbox, accepted, tries>>
  BY DEF TakeBatch
<1> DEFINE s == [e \in batch |-> outbox[e].attempts]
           next == [step |-> "next", todo |-> s, e |-> 0]
<1>2. batch \subseteq Events /\ s \in [batch -> Nat]
  BY DEF Pending, OutboxTypeOK
<1>3. s \in Snapshots
  BY <1>2 DEF Snapshots
<1>4. \A e \in DOMAIN s : Made(s[e], tries'[e])
  BY <1>1, <1>2 DEF Pending, AttemptsMade, Made
<1>5. next \in [step : {"idle", "next"} \cup HandedOut, todo : Snapshots, e : Nat]
  BY <1>3
<1>6. \A e \in Events : tries[e] <= tries'[e]
  BY <1>1 DEF OutboxTypeOK
<1> HIDE DEF s
<1> QED
  BY <1>1, <1>4, <1>5, <1>6, DrainMoves DEF OutboxTypeOK, HandedOut, s

LEMMA DeliverInv ==
    ASSUME OutboxInv, NEW d \in Drains, Deliver(d)
    PROVE  OutboxInv'
<1> DEFINE s == drain[d].todo
<1> USE OutboxAssumption DEF OutboxInv
<1>1. drain[d].step = "next" /\ UNCHANGED <<outbox, accepted>> /\ s \in Snapshots
  BY DEF Deliver, OutboxTypeOK
<1>2. CASE DOMAIN s = {}
  <2>1. drain' = [drain EXCEPT ![d] = NoDrain] /\ UNCHANGED tries
    BY <1>2 DEF Deliver
  <2>2. NoDrain \in [step : {"idle", "next"} \cup HandedOut, todo : Snapshots, e : Nat]
    BY NoTodoIsSnapshot DEF NoDrain
  <2>3. \A e \in Events : tries[e] <= tries'[e]
    BY <2>1 DEF OutboxTypeOK
  <2> QED
    BY <1>1, <2>1, <2>2, <2>3, NoTodoIsSnapshot, DrainMoves DEF OutboxTypeOK, NoDrain, HandedOut
<1>3. CASE DOMAIN s # {}
  <2>1. PICK x \in DOMAIN s :
          /\ drain' = [drain EXCEPT ![d] = [step |-> "handlers", todo |-> s, e |-> x]]
          /\ tries' = IF tries[x] < MAX_ATTEMPTS THEN [tries EXCEPT ![x] = @ + 1] ELSE tries
    BY <1>3 DEF Deliver
  <2>2. x \in Events /\ x \in Nat /\ \A e \in DOMAIN s : e \in Events /\ s[e] \in Nat
    BY <1>1, <2>1, SnapshotType
  <2> DEFINE next == [step |-> "handlers", todo |-> s, e |-> x]
  <2>3. drain' = [drain EXCEPT ![d] = next]
    BY <2>1
  <2>4. /\ tries' \in [Events -> 0 .. MAX_ATTEMPTS]
        /\ \A e \in Events : tries[e] <= tries'[e]
        /\ tries'[x] = MAX_ATTEMPTS \/ tries'[x] = tries[x] + 1
        /\ tries[x] = MAX_ATTEMPTS => tries'[x] = MAX_ATTEMPTS
    <3>1. tries \in [Events -> 0 .. MAX_ATTEMPTS] /\ MAX_ATTEMPTS \in Nat
      BY DEF OutboxTypeOK
    <3>2. tries' = IF tries[x] < MAX_ATTEMPTS THEN [tries EXCEPT ![x] = tries[x] + 1] ELSE tries
      BY <2>1
    <3>3. CASE tries[x] < MAX_ATTEMPTS
      <4>1. tries' = [tries EXCEPT ![x] = tries[x] + 1] /\ tries[x] + 1 \in 0 .. MAX_ATTEMPTS
        BY <2>2, <3>1, <3>2, <3>3
      <4>2. tries' \in [Events -> 0 .. MAX_ATTEMPTS]
        BY <2>2, <3>1, <4>1
      <4>3. tries'[x] = tries[x] + 1 /\ \A e \in Events : e # x => tries'[e] = tries[e]
        BY <2>2, <3>1, <4>1
      <4>4. \A e \in Events : tries[e] \in 0 .. MAX_ATTEMPTS
        BY <3>1
      <4>5. \A e \in Events : tries[e] <= tries'[e]
        BY <3>1, <4>3, <4>4
      <4> QED
        BY <3>3, <4>2, <4>3, <4>5
    <3>4. CASE ~ (tries[x] < MAX_ATTEMPTS)
      BY <2>2, <3>1, <3>2, <3>4
    <3> QED
      BY <3>3, <3>4
  <2>5. \A e \in DOMAIN s : Made(s[e], tries'[e])
    <3> SUFFICES ASSUME NEW e \in DOMAIN s PROVE Made(s[e], tries'[e])
      OBVIOUS
    <3>1. Made(s[e], tries[e]) /\ s[e] \in Nat /\ e \in Events
      BY <2>2 DEF SnapshotsMade
    <3>2. tries[e] \in 0 .. MAX_ATTEMPTS /\ tries'[e] \in 0 .. MAX_ATTEMPTS /\ tries[e] <= tries'[e]
      BY <2>4, <3>1 DEF OutboxTypeOK
    <3> HIDE DEF s
    <3> QED
      BY <3>1, <3>2 DEF Made
  <2>6. Made(s[x] + 1, tries'[x])
    BY <2>1, <2>2, <2>4 DEF SnapshotsMade, Made, OutboxTypeOK
  <2>7. next \in [step : {"idle", "next"} \cup HandedOut, todo : Snapshots, e : Nat]
    BY <1>1, <2>2 DEF HandedOut
  <2> HIDE DEF s
  <2> QED
    BY <1>1, <2>1, <2>3, <2>4, <2>5, <2>6, <2>7, DrainMoves
<1> QED
  BY <1>2, <1>3

LEMMA HandlersInv ==
    ASSUME OutboxInv, NEW d \in Drains, NEW ok \in BOOLEAN, HandlersReturn(d, ok)
    PROVE  OutboxInv'
<1> USE DEF OutboxInv
<1> DEFINE next == [step |-> IF ok THEN "publish" ELSE "fail", todo |-> drain[d].todo, e |-> drain[d].e]
<1>1. /\ drain[d].step = "handlers" /\ UNCHANGED <<outbox, tries>>
      /\ accepted' = IF ok THEN accepted \cup {drain[d].e} ELSE accepted
      /\ drain' = [drain EXCEPT ![d] = next]
  BY DrainRecord DEF HandlersReturn
<1>2. next \in [step : {"idle", "next"} \cup HandedOut, todo : Snapshots, e : Nat]
  BY DEF OutboxTypeOK, HandedOut
<1>3. \A e \in Events : tries[e] <= tries'[e]
  BY <1>1 DEF OutboxTypeOK
<1>4. /\ \A e \in DOMAIN next.todo : Made(next.todo[e], tries'[e])
      /\ next.e \in DOMAIN next.todo /\ Made(next.todo[next.e] + 1, tries'[next.e])
      /\ next.step = "publish" => next.e \in accepted'
  BY <1>1 DEF SnapshotsMade, HandedOut, Made
<1> HIDE DEF next
<1> QED
  BY <1>1, <1>2, <1>3, <1>4, DrainMoves DEF OutboxTypeOK

LEMMA PublishInv ==
    ASSUME OutboxInv, NEW d \in Drains, RecordPublished(d)
    PROVE  OutboxInv'
<1> USE DEF OutboxInv
<1> DEFINE e == drain[d].e
           new == [status |-> "PUBLISHED", attempts |-> outbox[e].attempts + 1]
<1>1. drain[d].step = "publish" /\ drain[d].step \in HandedOut /\ e \in accepted /\ e \in Events
  BY SnapshotType DEF RecordPublished, SnapshotsMade, HandedOut, OutboxTypeOK
<1>2. outbox' = [outbox EXCEPT ![e] = new] /\ NextRow(d) /\ UNCHANGED <<accepted, tries>>
  BY DEF RecordPublished
<1>3. new \in [status : {"ABSENT", "PENDING", "PUBLISHED", "FAILED"}, attempts : Nat]
  BY <1>1 DEF OutboxTypeOK
<1> QED
  BY <1>1, <1>2, <1>3, RecordStep

LEMMA FailureInv ==
    ASSUME OutboxInv, NEW d \in Drains, RecordFailure(d)
    PROVE  OutboxInv'
<1> USE OutboxAssumption DEF OutboxInv
<1> DEFINE e == drain[d].e
           n == drain[d].todo[e] + 1
           new == [status |-> IF n >= MAX_ATTEMPTS THEN "FAILED" ELSE outbox[e].status, attempts |-> n]
<1>1. /\ drain[d].step = "fail" /\ drain[d].step \in HandedOut /\ e \in Events /\ n \in Nat
      /\ Made(n, tries[e])
  BY SnapshotType DEF RecordFailure, SnapshotsMade, HandedOut, OutboxTypeOK
<1>2. outbox' = [outbox EXCEPT ![e] = new] /\ NextRow(d) /\ UNCHANGED <<accepted, tries>>
  BY DEF RecordFailure
<1>3. new \in [status : {"ABSENT", "PENDING", "PUBLISHED", "FAILED"}, attempts : Nat]
  BY <1>1 DEF OutboxTypeOK
<1>4. n >= MAX_ATTEMPTS => tries[e] = MAX_ATTEMPTS
  BY <1>1 DEF Made, OutboxTypeOK
<1>5. outbox[e].status \in {"PUBLISHED", "FAILED"} =>
        /\ outbox[e].status = "PUBLISHED" => e \in accepted
        /\ outbox[e].status = "FAILED" => tries[e] = MAX_ATTEMPTS
  BY <1>1 DEF OutcomeEarned
<1> QED
  BY <1>1, <1>2, <1>3, <1>4, <1>5, RecordStep

LEMMA OutboxNextInv == OutboxInv /\ [OutboxNext]_outboxVars => OutboxInv'
<1> SUFFICES ASSUME OutboxInv, [OutboxNext]_outboxVars PROVE OutboxInv'
  OBVIOUS
<1> USE OutboxAssumption DEF OutboxInv
<1>1. ASSUME NEW e \in Events, EmitEvent(e) PROVE OutboxInv'
  <2>1. /\ outbox[e].status = "ABSENT" /\ outbox' = [outbox EXCEPT ![e].status = "PENDING"]
        /\ UNCHANGED <<drain, accepted, tries>>
    BY <1>1 DEF EmitEvent
  <2> QED
    BY <2>1 DEF OutboxTypeOK, AttemptsMade, SnapshotsMade, OutcomeEarned, Made
<1>2. ASSUME NEW d \in Drains, RecordThrows(d) PROVE OutboxInv'
  <2>0. UNCHANGED <<outbox, accepted, tries>> /\ \A e \in Events : tries[e] <= tries'[e]
    BY <1>2 DEF RecordThrows, OutboxTypeOK
  <2>1. CASE drain[d].step = "publish" /\ drain' = [drain EXCEPT ![d].step = "fail"]
    <3> DEFINE next == [step |-> "fail", todo |-> drain[d].todo, e |-> drain[d].e]
    <3>1. drain' = [drain EXCEPT ![d] = next]
      BY <2>1, DrainRecord
    <3>2. next \in [step : {"idle", "next"} \cup HandedOut, todo : Snapshots, e : Nat]
      BY DEF OutboxTypeOK, HandedOut
    <3>3. /\ \A e \in DOMAIN next.todo : Made(next.todo[e], tries'[e])
          /\ next.e \in DOMAIN next.todo /\ Made(next.todo[next.e] + 1, tries'[next.e])
          /\ next.step # "publish"
      BY <2>0, <2>1 DEF SnapshotsMade, HandedOut, Made
    <3> HIDE DEF next
    <3> QED
      BY <2>0, <3>1, <3>2, <3>3, DrainMoves DEF OutboxTypeOK
  <2>2. CASE drain' = [drain EXCEPT ![d] = NoDrain]
    <3>1. NoDrain \in [step : {"idle", "next"} \cup HandedOut, todo : Snapshots, e : Nat]
      BY NoTodoIsSnapshot DEF NoDrain
    <3> QED
      BY <2>0, <2>2, <3>1, NoTodoIsSnapshot, DrainMoves DEF OutboxTypeOK, NoDrain, HandedOut
  <2> QED
    BY <1>2, <2>1, <2>2 DEF RecordThrows
<1>3. ASSUME OutboxCrash PROVE OutboxInv'
  <2>1. drain' = [d \in Drains |-> NoDrain] /\ UNCHANGED <<outbox, accepted, tries>>
    BY <1>3 DEF OutboxCrash
  <2>2. OutboxTypeOK'
    BY <2>1, NoTodoIsSnapshot DEF OutboxTypeOK, NoDrain
  <2>3. SnapshotsMade'
    BY <2>1, NoTodoIsSnapshot DEF SnapshotsMade, NoDrain, HandedOut
  <2> QED
    BY <2>1, <2>2, <2>3 DEF AttemptsMade, OutcomeEarned, Made
<1>4. CASE UNCHANGED outboxVars
  BY <1>4 DEF outboxVars, OutboxTypeOK, AttemptsMade, SnapshotsMade, OutcomeEarned, Made
<1> QED
  BY <1>1, <1>2, <1>3, <1>4, TakeBatchInv, DeliverInv, HandlersInv, PublishInv, FailureInv
     DEF OutboxNext, DrainStep

(* "Marks PUBLISHED on success; ... parks as FAILED after MAX_ATTEMPTS",   *)
(* for any number of events, of overlapping drains and of faults.          *)
THEOREM OutcomesAreEarned == OutboxSpec => []OutcomeEarned
<1>1. OutboxInv => OutcomeEarned
  BY DEF OutboxInv
<1> QED
  BY <1>1, OutboxInitInv, OutboxNextInv, PTL DEF OutboxSpec

----------------------------------------------------------------------------
(***************************************************************************)
(* Outgoing webhooks.  No delivery is dropped or given up early, for any   *)
(* number of deliveries, overlapping attempts, sweeps, replays, failing    *)
(* statements and process exits.                                           *)
(*                                                                         *)
(* A row has no date for its next attempt only until its first attempt is  *)
(* recorded, so a courier that has recorded one may leave it; and a row,   *)
(* or a courier's reading of it, counts no more attempts than the endpoint *)
(* was called.                                                             *)
(***************************************************************************)

WebhookSpec == WebhookInit /\ [][WebhookNext]_webhookVars

ErrandSteps == {"idle", "next", "load", "endpoint", "give up", "call", "delivered", "refused", "failed",
          "counters"}

Records == [status : {"ABSENT", "PENDING", "DELIVERED", "FAILED"}, attempts : Nat,
            next : {"none", "waiting", "due"}]
Errands == [step : ErrandSteps, todo : SUBSET Deliveries, x : Deliveries \cup {0}, attempt : Nat]

WebhookTypeOK ==
    /\ delivery \in [Deliveries -> Records]
    /\ endpoint \in {"active", "inactive", "deleted"}
    /\ courier \in [Couriers -> Errands]
    /\ calls \in [Deliveries -> 0 .. WebhookAttempts]
    /\ closed \in BOOLEAN /\ mishaps \in Nat

(* Of the m calls counted, n attempts have really been made. *)
CallsMade(n, m) == n <= m \/ m = WebhookAttempts

(* A row nobody has set a date for. *)
Undated(r) == r.status = "PENDING" /\ r.next = "none"

DeliveriesOK == \A x \in Deliveries :
    /\ CallsMade(delivery[x].attempts, calls[x])
    /\ delivery[x].status = "ABSENT" \/ Undated(delivery[x]) => delivery[x].attempts = 0
    /\ delivery[x].status = "ABSENT" => delivery[x].next = "none"

(* What a courier knows of the rows it has to do. *)
ErrandOK(c, of, called) ==
    /\ IF c.step \in {"idle", "next"} THEN c.x = 0
       ELSE c.x \in Deliveries /\ of[c.x].status # "ABSENT"
    /\ \A x \in c.todo : of[x].status # "ABSENT"
    /\ c.step \in {"endpoint", "call"} => c.attempt > 0 /\ CallsMade(c.attempt - 1, called[c.x])
    /\ c.step \in {"delivered", "refused", "failed", "counters"} =>
         c.attempt > 0 /\ CallsMade(c.attempt, called[c.x])
    /\ c.step = "counters" => of[c.x].status # "PENDING" \/ of[c.x].next # "none"
    /\ c.step = "give up" => closed

CouriersOK == \A w \in Couriers : ErrandOK(courier[w], delivery, calls)

EndpointOK == endpoint # "active" => closed

WebhookInv == WebhookTypeOK /\ DeliveriesOK /\ CouriersOK /\ EndpointOK /\ Recoverable

----------------------------------------------------------------------------
LEMMA MinIsMember ==
    ASSUME NEW S, S \subseteq Nat, S # {}
    PROVE  Min(S) \in S
BY LeastNatural DEF Min

LEMMA WebhookInitInv == WebhookInit => WebhookInv
<1> SUFFICES ASSUME WebhookInit PROVE WebhookInv
  OBVIOUS
<1> USE WebhookAssumption DEF WebhookInit
<1>1. WebhookTypeOK
  <2>1. /\ delivery \in [Deliveries -> Records] /\ courier \in [Couriers -> Errands]
        /\ calls \in [Deliveries -> 0 .. WebhookAttempts]
    BY DEF NoCourier, ErrandSteps, Records, Errands
  <2>2. endpoint \in {"active", "inactive", "deleted"} /\ closed \in BOOLEAN /\ mishaps \in Nat
    OBVIOUS
  <2> QED
    BY <2>1, <2>2 DEF WebhookTypeOK
<1>2. DeliveriesOK /\ EndpointOK /\ Recoverable
  BY DEF DeliveriesOK, EndpointOK, Recoverable, Undated, CallsMade
<1>3. CouriersOK
  BY DEF CouriersOK, ErrandOK, NoCourier
<1> QED
  BY <1>1, <1>2, <1>3 DEF WebhookInv

(* Attempts that have been made stay made. *)
LEMMA StaysCallsMade ==
    ASSUME WebhookTypeOK, calls' \in [Deliveries -> 0 .. WebhookAttempts],
           \A y \in Deliveries : calls[y] <= calls'[y],
           NEW x \in Deliveries, NEW n \in Int, CallsMade(n, calls[x])
    PROVE  CallsMade(n, calls'[x])
<1>1. calls[x] \in 0 .. WebhookAttempts /\ calls'[x] \in 0 .. WebhookAttempts /\ calls[x] <= calls'[x]
  BY DEF WebhookTypeOK
<1> QED
  BY <1>1, WebhookAssumption DEF CallsMade

(* One courier moves on: it may call the endpoint, and record what came of *)
(* it or create a row; it keeps in hand what has no date yet.              *)
LEMMA CourierMoves ==
    ASSUME WebhookInv, NEW w \in Couriers, NEW c \in Errands, courier' = [courier EXCEPT ![w] = c],
           delivery' \in [Deliveries -> Records], calls' \in [Deliveries -> 0 .. WebhookAttempts],
           UNCHANGED <<endpoint, closed, mishaps>>,
           \A x \in Deliveries : calls[x] <= calls'[x],
           \A x \in Deliveries :
              \/ delivery'[x] = delivery[x]
              \/ /\ delivery'[x].status # "ABSENT" /\ ~Undated(delivery'[x])
                 /\ CallsMade(delivery'[x].attempts, calls'[x])
                 /\ delivery'[x].status = "FAILED" => closed \/ calls'[x] = WebhookAttempts
              \/ /\ delivery[x].status = "ABSENT" /\ Undated(delivery'[x])
                 /\ delivery'[x].attempts = 0 /\ c.x = x,
           ErrandOK(c, delivery', calls'),
           \A x \in Deliveries : Undated(delivery[x]) /\ Undated(delivery'[x]) /\ (Hand(w) = x \/ x \in courier[w].todo)
                                   => c.x = x \/ x \in c.todo
    PROVE  WebhookInv'
<1> USE WebhookAssumption DEF WebhookInv
<1>1. \A v \in Couriers : courier'[v] = IF v = w THEN c ELSE courier[v]
  BY DEF WebhookTypeOK
<1>2. WebhookTypeOK'
  BY DEF WebhookTypeOK
<1>3. \A x \in Deliveries : calls[x] \in 0 .. WebhookAttempts /\ calls'[x] \in 0 .. WebhookAttempts
  BY DEF WebhookTypeOK
<1>4. \A x \in Deliveries : delivery[x] \in Records /\ delivery'[x] \in Records
  BY DEF WebhookTypeOK
<1>5. DeliveriesOK'
  <2> SUFFICES ASSUME NEW x \in Deliveries
               PROVE  /\ CallsMade(delivery'[x].attempts, calls'[x])
                      /\ delivery'[x].status = "ABSENT" \/ Undated(delivery'[x]) => delivery'[x].attempts = 0
                      /\ delivery'[x].status = "ABSENT" => delivery'[x].next = "none"
    BY DEF DeliveriesOK
  <2>1. CASE delivery'[x] = delivery[x]
    <3>1. delivery[x].attempts \in Int
      BY <1>4 DEF Records
    <3>2. CallsMade(delivery'[x].attempts, calls'[x])
      BY <2>1, <3>1, StaysCallsMade DEF DeliveriesOK
    <3> QED
      BY <2>1, <3>2 DEF DeliveriesOK, Undated
  <2>2. CASE delivery[x].status = "ABSENT" /\ Undated(delivery'[x]) /\ delivery'[x].attempts = 0 /\ c.x = x
    BY <1>3, <2>2 DEF CallsMade, Undated
  <2> QED
    BY <2>1, <2>2 DEF Undated
<1>6. ASSUME NEW v \in Couriers, v # w PROVE ErrandOK(courier[v], delivery', calls')
  <2>0. ErrandOK(courier[v], delivery, calls) /\ courier[v] \in Errands
    BY DEF CouriersOK, WebhookTypeOK
  <2>10. \A x \in courier[v].todo : delivery'[x].status # "ABSENT"
    <3>1. \A x \in courier[v].todo : x \in Deliveries /\ delivery[x].status # "ABSENT"
      BY <2>0 DEF ErrandOK, Errands
    <3> QED
      BY <3>1
  <2>1. CASE courier[v].step \in {"idle", "next"}
    BY <2>0, <2>1, <2>10 DEF ErrandOK
  <2>2. CASE courier[v].step \notin {"idle", "next"}
    <3> DEFINE x == courier[v].x
    <3>1. x \in Deliveries /\ delivery[x].status # "ABSENT"
      BY <2>0, <2>2 DEF ErrandOK
    <3>2. delivery'[x].status # "ABSENT"
      BY <3>1 DEF Undated
    <3>3. \A n \in Int : CallsMade(n, calls[x]) => CallsMade(n, calls'[x])
      BY <3>1, StaysCallsMade
    <3>4. courier[v].attempt \in Int
      BY <2>0 DEF Errands
    <3>5. courier[v].step = "counters" => ~Undated(delivery[x])
      BY <2>0 DEF ErrandOK, Undated
    <3>6. ~Undated(delivery[x]) => ~Undated(delivery'[x])
      <4>1. delivery'[x] = delivery[x] => (Undated(delivery'[x]) <=> Undated(delivery[x]))
        BY DEF Undated
      <4> QED
        BY <3>1, <4>1
    <3>7. courier[v].step = "counters" => delivery'[x].status # "PENDING" \/ delivery'[x].next # "none"
      BY <3>5, <3>6 DEF Undated
    <3>8. courier[v].step \in {"endpoint", "call"} =>
            courier[v].attempt > 0 /\ CallsMade(courier[v].attempt - 1, calls'[x])
      <4>1. courier[v].attempt - 1 \in Int
        BY <3>4
      <4> QED
        BY <2>0, <3>3, <4>1 DEF ErrandOK
    <3>9. courier[v].step \in {"delivered", "refused", "failed", "counters"} =>
            courier[v].attempt > 0 /\ CallsMade(courier[v].attempt, calls'[x])
      BY <2>0, <3>3, <3>4 DEF ErrandOK
    <3>10. courier[v].step = "give up" => closed
      BY <2>0 DEF ErrandOK
    <3> QED
      BY <2>2, <2>10, <3>1, <3>2, <3>7, <3>8, <3>9, <3>10 DEF ErrandOK
  <2> QED
    BY <2>1, <2>2
<1>7. CouriersOK'
  <2>1. \A v \in Couriers : ErrandOK(courier'[v], delivery', calls')
    BY <1>1, <1>6
  <2> QED
    BY <2>1, Zenon DEF CouriersOK, ErrandOK
<1>8. ASSUME NEW x \in Deliveries, Undated(delivery'[x])
      PROVE  InHand(x)' \/ (mishaps > 0 /\ delivery'[x].attempts = 0)
  <2>1. CASE c.x = x
    BY <1>1, <2>1 DEF InHand
  <2>2. CASE c.x # x
    <3>1. delivery'[x] = delivery[x] /\ Undated(delivery[x])
      BY <1>8, <2>2 DEF Undated
    <3>2. InHand(x) \/ (mishaps > 0 /\ delivery[x].attempts = 0)
      BY <3>1 DEF Recoverable, Undated
    <3>3. ASSUME NEW v \in Couriers, courier[v].x = x \/ x \in courier[v].todo PROVE InHand(x)'
      <4>1. CASE v = w
        <5>1. x \in c.todo
          BY <1>8, <2>2, <3>1, <3>3, <4>1 DEF Hand
        <5> QED
          BY <1>1, <5>1 DEF InHand
      <4>2. CASE v # w
        BY <1>1, <3>3, <4>2 DEF InHand
      <4> QED
        BY <4>1, <4>2
    <3> QED
      BY <3>1, <3>2, <3>3 DEF InHand
  <2> QED
    BY <2>1, <2>2
<1>9. \A x \in Deliveries : delivery'[x].status = "FAILED" => closed \/ calls'[x] = WebhookAttempts
  <2> SUFFICES ASSUME NEW x \in Deliveries, delivery'[x].status = "FAILED"
               PROVE  closed \/ calls'[x] = WebhookAttempts
    OBVIOUS
  <2>1. CASE delivery'[x] = delivery[x]
    BY <1>3, <2>1 DEF Recoverable
  <2> QED
    BY <2>1 DEF Undated
<1>10. Recoverable' /\ EndpointOK'
  BY <1>8, <1>9 DEF Recoverable, Undated, EndpointOK
<1> QED
  BY <1>2, <1>5, <1>7, <1>10

(* The record of an errand, field by field. *)
LEMMA ErrandFields ==
    ASSUME WebhookTypeOK, NEW w \in Couriers
    PROVE  /\ courier[w] \in Errands
           /\ courier[w].step \in ErrandSteps /\ courier[w].todo \subseteq Deliveries
           /\ Hand(w) \in Deliveries \cup {0} /\ courier[w].attempt \in Nat
           /\ \A step : [courier EXCEPT ![w].step = step] =
                [courier EXCEPT ![w] = [step |-> step, todo |-> courier[w].todo, x |-> Hand(w),
                                        attempt |-> courier[w].attempt]]
<1>1. courier \in [Couriers -> Errands]
  BY DEF WebhookTypeOK
<1>2. courier[w] \in Errands
  BY <1>1
<1>3. \A step : [courier[w] EXCEPT !.step = step] =
        [step |-> step, todo |-> courier[w].todo, x |-> courier[w].x, attempt |-> courier[w].attempt]
  BY <1>2 DEF Errands
<1>4. \A step : [courier EXCEPT ![w].step = step] = [courier EXCEPT ![w] = [courier[w] EXCEPT !.step = step]]
  BY <1>1
<1>5. \A step : [courier EXCEPT ![w].step = step] =
        [courier EXCEPT ![w] = [step |-> step, todo |-> courier[w].todo, x |-> courier[w].x,
                                attempt |-> courier[w].attempt]]
  BY <1>3, <1>4
<1> QED
  BY <1>2, <1>5 DEF Errands, Hand

----------------------------------------------------------------------------
LEMMA NewDeliveryStep ==
    ASSUME WebhookInv, NEW w \in Couriers, NewDelivery(w)
    PROVE  WebhookInv'
<1> USE WebhookAssumption DEF WebhookInv
<1> DEFINE x == Min(Unused)
           c == [step |-> "load", todo |-> {}, x |-> x, attempt |-> 0]
<1>1. x \in Unused
  <2>1. Unused \subseteq Nat /\ Unused # {}
    BY DEF NewDelivery, Unused
  <2> QED
    BY <2>1, MinIsMember
<1>2. x \in Deliveries /\ delivery[x].status = "ABSENT"
  BY <1>1 DEF Unused
<1> HIDE DEF x
<1>3. /\ courier[w] = NoCourier /\ courier' = [courier EXCEPT ![w] = c]
      /\ delivery' = [delivery EXCEPT ![x].status = "PENDING"]
      /\ UNCHANGED <<endpoint, calls, closed, mishaps>>
  BY DEF NewDelivery, x
<1>4. c \in Errands
  BY <1>2 DEF Errands, ErrandSteps
<1>5. delivery' \in [Deliveries -> Records]
  BY <1>2, <1>3 DEF WebhookTypeOK, Records
<1>6. delivery'[x].attempts = 0 /\ Undated(delivery'[x])
  BY <1>2, <1>3 DEF WebhookTypeOK, DeliveriesOK, Records, Undated
<1>7. \A y \in Deliveries : y # x => delivery'[y] = delivery[y]
  BY <1>2, <1>3 DEF WebhookTypeOK
<1>8. ErrandOK(c, delivery', calls')
  BY <1>2, <1>6 DEF ErrandOK, Undated
<1>9. \A y \in Deliveries : calls[y] <= calls'[y]
  BY <1>3 DEF WebhookTypeOK
<1>10. Hand(w) \notin Deliveries /\ courier[w].todo = {}
  BY <1>3 DEF NoCourier, Hand
<1>11. c.x = x
  OBVIOUS
<1>12. calls' \in [Deliveries -> 0 .. WebhookAttempts]
  BY <1>3 DEF WebhookTypeOK
<1> HIDE DEF c
<1>13. \A y \in Deliveries :
         \/ delivery'[y] = delivery[y]
         \/ /\ delivery'[y].status # "ABSENT" /\ ~Undated(delivery'[y])
            /\ CallsMade(delivery'[y].attempts, calls'[y])
            /\ delivery'[y].status = "FAILED" => closed \/ calls'[y] = WebhookAttempts
         \/ /\ delivery[y].status = "ABSENT" /\ Undated(delivery'[y])
            /\ delivery'[y].attempts = 0 /\ c.x = y
  BY <1>2, <1>6, <1>7, <1>11
<1>14. \A y \in Deliveries : Undated(delivery[y]) /\ Undated(delivery'[y])
         /\ (Hand(w) = y \/ y \in courier[w].todo) => c.x = y \/ y \in c.todo
  BY <1>10
<1> QED
  BY <1>3, <1>4, <1>5, <1>8, <1>9, <1>12, <1>13, <1>14, CourierMoves

LEMMA CallsCount ==
    \A n \in 0 .. WebhookAttempts :
        n <= n /\ (n < WebhookAttempts => n + 1 \in 0 .. WebhookAttempts)
BY WebhookAssumption

(* Steps that only move a courier. *)
LEMMA OnlyCourier ==
    ASSUME WebhookInv, NEW w \in Couriers, NEW c \in Errands, courier' = [courier EXCEPT ![w] = c],
           UNCHANGED <<delivery, endpoint, calls, closed, mishaps>>, ErrandOK(c, delivery, calls),
           \A x \in Deliveries : Undated(delivery[x]) /\ (Hand(w) = x \/ x \in courier[w].todo)
                                   => c.x = x \/ x \in c.todo
    PROVE  WebhookInv'
<1>1. /\ delivery' \in [Deliveries -> Records] /\ calls' \in [Deliveries -> 0 .. WebhookAttempts]
      /\ \A x \in Deliveries : delivery'[x] = delivery[x] /\ calls[x] <= calls'[x]
  BY CallsCount DEF WebhookInv, WebhookTypeOK
<1>2. ErrandOK(c, delivery', calls')
  BY DEF ErrandOK
<1> QED
  BY <1>1, <1>2, CourierMoves

(* Steps that write the row in hand, with its outcome or a date. *)
LEMMA OnlyRecord ==
    ASSUME WebhookInv, NEW w \in Couriers, NEW c \in Errands, courier' = [courier EXCEPT ![w] = c],
           NEW r \in Records, Hand(w) \in Deliveries, delivery' = [delivery EXCEPT ![Hand(w)] = r],
           UNCHANGED <<endpoint, calls, closed, mishaps>>,
           r.status # "ABSENT", ~Undated(r), CallsMade(r.attempts, calls[Hand(w)]),
           r.status = "FAILED" => closed \/ calls[Hand(w)] = WebhookAttempts,
           c.todo = courier[w].todo, (c.step = "next" /\ c.x = 0) \/ (c.step = "counters" /\ c.x = Hand(w)),
           c.step = "counters" => c.attempt > 0 /\ CallsMade(c.attempt, calls[Hand(w)])
    PROVE  WebhookInv'
<1> DEFINE h == Hand(w)
<1>1. /\ delivery' \in [Deliveries -> Records] /\ calls' \in [Deliveries -> 0 .. WebhookAttempts]
      /\ \A x \in Deliveries : calls[x] <= calls'[x]
  BY WebhookAssumption DEF WebhookInv, WebhookTypeOK
<1>2. delivery'[h] = r /\ \A x \in Deliveries : x # h => delivery'[x] = delivery[x]
  BY DEF WebhookInv, WebhookTypeOK
<1>3. ErrandOK(c, delivery', calls')
  <2>1. ErrandOK(courier[w], delivery, calls) /\ c.todo \subseteq Deliveries
    BY DEF WebhookInv, CouriersOK, Errands
  <2>2. \A x \in c.todo : delivery'[x].status # "ABSENT"
    BY <1>2, <2>1 DEF ErrandOK
  <2> QED
    BY <1>2, <2>2 DEF ErrandOK, Undated
<1>4. \A x \in Deliveries :
        \/ delivery'[x] = delivery[x]
        \/ /\ delivery'[x].status # "ABSENT" /\ ~Undated(delivery'[x])
           /\ CallsMade(delivery'[x].attempts, calls'[x])
           /\ delivery'[x].status = "FAILED" => closed \/ calls'[x] = WebhookAttempts
        \/ /\ delivery[x].status = "ABSENT" /\ Undated(delivery'[x])
           /\ delivery'[x].attempts = 0 /\ c.x = x
  BY <1>2
<1>5. \A x \in Deliveries : Undated(delivery[x]) /\ Undated(delivery'[x])
        /\ (Hand(w) = x \/ x \in courier[w].todo) => c.x = x \/ x \in c.todo
  BY <1>2
<1>6. UNCHANGED <<endpoint, closed, mishaps>>
  OBVIOUS
<1> HIDE DEF h
<1> QED
  BY <1>1, <1>3, <1>4, <1>5, <1>6, CourierMoves, Zenon

----------------------------------------------------------------------------
LEMMA CourierStepInv ==
    ASSUME WebhookInv, NEW w \in Couriers, CourierStep(w)
    PROVE  WebhookInv'
<1> USE WebhookAssumption DEF WebhookInv
<1> DEFINE h == Hand(w)
           n == courier[w].attempt
           over == [step |-> "next", todo |-> courier[w].todo, x |-> 0, attempt |-> 0]
           at(step) == [step |-> step, todo |-> courier[w].todo, x |-> h, attempt |-> n]
<1>1. /\ courier[w].step \in ErrandSteps /\ courier[w].todo \subseteq Deliveries
      /\ h \in Deliveries \cup {0} /\ n \in Nat
      /\ \A step : [courier EXCEPT ![w].step = step] = [courier EXCEPT ![w] = at(step)]
  BY ErrandFields
<1>2. over \in Errands /\ \A step \in ErrandSteps : at(step) \in Errands
  BY <1>1 DEF Errands, ErrandSteps
<1>3. AttemptOver(w) => courier' = [courier EXCEPT ![w] = over]
  BY DEF AttemptOver
<1>4. ErrandOK(courier[w], delivery, calls) /\ ErrandOK(over, delivery, calls)
  BY DEF CouriersOK, ErrandOK
<1>5. IF courier[w].step \in {"idle", "next"} THEN h = 0 ELSE h \in Deliveries /\ delivery[h].status # "ABSENT"
  BY <1>4 DEF ErrandOK, Hand
<1>6. /\ over.todo = courier[w].todo /\ over.step = "next" /\ over.x = 0
      /\ \A step : /\ at(step).step = step /\ at(step).todo = courier[w].todo
                   /\ at(step).x = h /\ at(step).attempt = n
  OBVIOUS
<1>7. CallsMade(n, calls[h]) \in BOOLEAN /\ h = courier[w].x
  BY DEF CallsMade, Hand
<1> HIDE DEF over, at, h, n
<1>8. ASSUME RetryDue(w) PROVE WebhookInv'
  <2> DEFINE due == {x \in Deliveries : delivery[x].status = "PENDING" /\ delivery[x].next = "due"}
             c == [step |-> "next", todo |-> due, x |-> 0, attempt |-> 0]
  <2>1. c \in Errands /\ ErrandOK(c, delivery, calls)
    BY DEF Errands, ErrandSteps, ErrandOK
  <2>2. courier[w] = NoCourier /\ courier' = [courier EXCEPT ![w] = c]
        /\ UNCHANGED <<delivery, endpoint, calls, closed, mishaps>>
    BY <1>8 DEF RetryDue
  <2>3. \A x \in Deliveries : ~ (Hand(w) = x \/ x \in courier[w].todo)
    BY <2>2 DEF NoCourier, Hand
  <2> HIDE DEF c
  <2> QED
    BY <2>1, <2>2, <2>3, OnlyCourier
<1>9. ASSUME NextDue(w) PROVE WebhookInv'
  <2> DEFINE todo == courier[w].todo
             c == [step |-> "load", todo |-> todo \ {Min(todo)}, x |-> Min(todo), attempt |-> 0]
  <2>1. courier[w].step = "next" /\ UNCHANGED <<delivery, endpoint, calls, closed, mishaps>>
    BY <1>9 DEF NextDue, Busy
  <2>2. CASE todo = {}
    <3>1. courier' = [courier EXCEPT ![w] = NoCourier]
      BY <1>9, <2>2 DEF NextDue
    <3>2. NoCourier \in Errands /\ ErrandOK(NoCourier, delivery, calls)
      BY DEF NoCourier, Errands, ErrandSteps, ErrandOK
    <3>3. \A x \in Deliveries : ~ (Hand(w) = x \/ x \in courier[w].todo)
      BY <1>5, <2>1, <2>2 DEF h
    <3> QED
      BY <2>1, <3>1, <3>2, <3>3, OnlyCourier
  <2>3. CASE todo # {}
    <3>1. Min(todo) \in todo /\ Min(todo) \in Deliveries
      BY <1>1, <2>3, MinIsMember
    <3>2. courier' = [courier EXCEPT ![w] = c]
      BY <1>9, <2>3 DEF NextDue
    <3>3. c \in Errands /\ c.x = Min(todo) /\ c.todo = todo \ {Min(todo)}
      BY <1>1, <3>1 DEF Errands, ErrandSteps
    <3>4. ErrandOK(c, delivery, calls)
      BY <1>4, <3>1 DEF ErrandOK
    <3>5. \A x \in Deliveries : (Hand(w) = x \/ x \in courier[w].todo) => c.x = x \/ x \in c.todo
      BY <1>5, <2>1, <3>3 DEF h
    <3> HIDE DEF c
    <3> QED
      BY <2>1, <3>2, <3>3, <3>4, <3>5, OnlyCourier
  <2> QED
    BY <2>2, <2>3
(* The row in hand is kept, and the courier goes on to another step. *)
<1>10. ASSUME NEW step \in ErrandSteps, courier' = [courier EXCEPT ![w].step = step],
              UNCHANGED <<delivery, endpoint, calls, closed, mishaps>>, ErrandOK(at(step), delivery, calls)
       PROVE  WebhookInv'
  <2>1. courier' = [courier EXCEPT ![w] = at(step)] /\ at(step) \in Errands
    BY <1>1, <1>2, <1>10
  <2>2. \A x \in Deliveries : (Hand(w) = x \/ x \in courier[w].todo) => at(step).x = x \/ x \in at(step).todo
    BY <1>6 DEF h
  <2> QED
    BY <1>10, <2>1, <2>2, OnlyCourier
<1>11. ASSUME LoadDelivery(w) PROVE WebhookInv'
  <2>1. courier[w].step = "load" /\ UNCHANGED <<delivery, endpoint, calls, closed, mishaps>>
    BY <1>11 DEF LoadDelivery, Busy
  <2>2. h \in Deliveries /\ delivery[h].status # "ABSENT"
    BY <1>5, <2>1
  <2>3. CASE delivery[h].status = "DELIVERED"
    <3>1. courier' = [courier EXCEPT ![w] = over]
      BY <1>3, <1>11, <2>3 DEF LoadDelivery, h
    <3>2. \A x \in Deliveries : Undated(delivery[x]) /\ (Hand(w) = x \/ x \in courier[w].todo)
                                  => over.x = x \/ x \in over.todo
      BY <1>6, <2>3 DEF Undated, h
    <3> QED
      BY <1>2, <1>4, <2>1, <3>1, <3>2, OnlyCourier
  <2>4. CASE delivery[h].status # "DELIVERED"
    <3> DEFINE c == [step |-> "endpoint", todo |-> courier[w].todo, x |-> h,
                     attempt |-> delivery[h].attempts + 1]
    <3>2. courier' = [courier EXCEPT ![w] = c]
      BY <1>11, <2>4 DEF LoadDelivery, h, Hand
    <3>3. delivery[h].attempts \in Nat /\ CallsMade(delivery[h].attempts, calls[h])
      BY <2>2 DEF WebhookTypeOK, Records, DeliveriesOK
    <3>4. delivery[h].attempts + 1 \in Nat /\ delivery[h].attempts + 1 > 0
          /\ delivery[h].attempts + 1 - 1 = delivery[h].attempts
      BY <3>3
    <3>5. c \in Errands
      BY <1>1, <2>2, <3>4 DEF Errands, ErrandSteps
    <3>7. \A x \in courier[w].todo : delivery[x].status # "ABSENT"
      BY <1>4 DEF ErrandOK
    <3>8. /\ c.step = "endpoint" /\ c.todo = courier[w].todo /\ c.x = h
          /\ c.attempt > 0 /\ CallsMade(c.attempt - 1, calls[h])
      BY <3>3, <3>4
    <3>9. ErrandOK(c, delivery, calls)
      <4> HIDE DEF c
      <4> QED
        BY <2>2, <3>7, <3>8 DEF ErrandOK
    <3>6. \A x \in Deliveries : (Hand(w) = x \/ x \in courier[w].todo) => c.x = x \/ x \in c.todo
      BY DEF h
    <3> HIDE DEF c
    <3> QED
      BY <2>1, <3>2, <3>5, <3>6, <3>9, OnlyCourier
  <2> QED
    BY <2>3, <2>4
<1>12. ASSUME LoadEndpoint(w) PROVE WebhookInv'
  <2> DEFINE step == IF endpoint = "active" THEN "call" ELSE "give up"
  <2>1. /\ courier[w].step = "endpoint" /\ UNCHANGED <<delivery, endpoint, calls, closed, mishaps>>
        /\ courier' = [courier EXCEPT ![w].step = step]
    BY <1>12 DEF LoadEndpoint, Busy
  <2>2. step \in ErrandSteps
    BY DEF ErrandSteps
  <2>3. ErrandOK(at(step), delivery, calls)
    <3>1. step = "give up" => closed
      BY DEF EndpointOK
    <3>2. n > 0 /\ CallsMade(n - 1, calls[h])
      BY <1>4, <2>1 DEF ErrandOK, h, n, Hand
    <3>3. \A x \in courier[w].todo : delivery[x].status # "ABSENT"
      BY <1>4 DEF ErrandOK
    <3>4. step \in {"call", "give up"}
      OBVIOUS
    <3> HIDE DEF step
    <3> QED
      BY <1>5, <1>6, <2>1, <3>1, <3>2, <3>3, <3>4 DEF ErrandOK
  <2> HIDE DEF step
  <2> QED
    BY <1>10, <2>1, <2>2, <2>3
<1>13. ASSUME GiveUp(w) PROVE WebhookInv'
  <2>1. courier[w].step = "give up" /\ courier' = [courier EXCEPT ![w] = over]
        /\ UNCHANGED <<endpoint, calls, closed, mishaps>>
    BY <1>3, <1>13 DEF GiveUp, Busy
  <2>2. h \in Deliveries /\ closed
    BY <1>4, <1>5, <2>1 DEF ErrandOK
  <2>3. delivery' = [delivery EXCEPT ![h] = [status |-> "FAILED", attempts |-> delivery[h].attempts,
                                             next |-> "none"]]
    BY <1>13 DEF GiveUp, h
  <2>4. delivery[h].attempts \in Nat /\ CallsMade(delivery[h].attempts, calls[h])
    BY <2>2 DEF WebhookTypeOK, Records, DeliveriesOK
  <2> DEFINE rec == [status |-> "FAILED", attempts |-> delivery[h].attempts, next |-> "none"]
  <2>5. rec \in Records /\ rec.status = "FAILED" /\ ~Undated(rec) /\ rec.attempts = delivery[h].attempts
    BY <2>4 DEF Records, Undated
  <2>6. delivery' = [delivery EXCEPT ![Hand(w)] = rec] /\ Hand(w) = h
    BY <2>3 DEF h
  <2> HIDE DEF rec
  <2> QED
    BY <1>2, <1>6, <2>1, <2>2, <2>4, <2>5, <2>6, OnlyRecord
<1>14. ASSUME CallEndpoint(w) PROVE WebhookInv'
  <2>1. PICK step \in {"delivered", "refused", "failed"} : courier' = [courier EXCEPT ![w].step = step]
    BY <1>14 DEF CallEndpoint
  <2>2. /\ courier[w].step = "call" /\ UNCHANGED <<delivery, endpoint, closed, mishaps>>
        /\ calls' = IF calls[h] < WebhookAttempts THEN [calls EXCEPT ![h] = calls[h] + 1] ELSE calls
    BY <1>14 DEF CallEndpoint, Busy, h
  <2>3. h \in Deliveries /\ delivery[h].status # "ABSENT" /\ n > 0 /\ CallsMade(n - 1, calls[h])
    BY <1>4, <1>5, <1>7, <2>2 DEF ErrandOK, n
  <2>4. calls \in [Deliveries -> 0 .. WebhookAttempts] /\ WebhookAttempts \in Nat
    BY DEF WebhookTypeOK
  <2>5. /\ calls' \in [Deliveries -> 0 .. WebhookAttempts] /\ \A x \in Deliveries : calls[x] <= calls'[x]
        /\ calls'[h] = WebhookAttempts \/ calls'[h] = calls[h] + 1
        /\ calls[h] \in Nat /\ (calls[h] = WebhookAttempts => calls'[h] = WebhookAttempts)
    <3>1. CASE calls[h] < WebhookAttempts
      <4>0. calls[h] + 1 \in 0 .. WebhookAttempts
        BY <2>3, <2>4, <3>1, CallsCount
      <4>1. calls' = [calls EXCEPT ![h] = calls[h] + 1]
        BY <2>2, <3>1
      <4>2. calls' \in [Deliveries -> 0 .. WebhookAttempts]
        BY <2>3, <2>4, <4>0, <4>1
      <4>3. calls'[h] = calls[h] + 1 /\ \A x \in Deliveries : x # h => calls'[x] = calls[x]
        BY <2>3, <2>4, <4>1
      <4>4. \A x \in Deliveries : calls[x] \in 0 .. WebhookAttempts
        BY <2>4
      <4>5. \A x \in Deliveries : calls[x] <= calls'[x]
        <5> TAKE x \in Deliveries
        <5>1. calls[x] \in Nat
          BY <2>4, <4>4
        <5> QED
          BY <4>3, <5>1
      <4>6. calls[h] \in Nat /\ calls[h] # WebhookAttempts
        BY <2>3, <2>4, <3>1, <4>4
      <4> QED
        BY <4>2, <4>3, <4>5, <4>6
    <3>2. CASE ~ (calls[h] < WebhookAttempts)
      <4>1. calls' = calls
        BY <2>2, <3>2
      <4>2. \A x \in Deliveries : calls[x] \in 0 .. WebhookAttempts
        BY <2>4
      <4>3. calls[h] = WebhookAttempts
        BY <2>3, <2>4, <3>2, <4>2
      <4>4. \A x \in Deliveries : calls[x] <= calls[x]
        BY <4>2
      <4> QED
        BY <2>3, <2>4, <4>1, <4>2, <4>3, <4>4
    <3> QED
      BY <3>1, <3>2
  <2>6. CallsMade(n, calls'[h])
    BY <1>1, <2>3, <2>4, <2>5 DEF CallsMade
  <2>7. ErrandOK(at(step), delivery', calls')
    <3>1. \A x \in courier[w].todo : delivery[x].status # "ABSENT"
      BY <1>4 DEF ErrandOK
    <3> QED
      BY <1>6, <2>1, <2>2, <2>3, <2>6, <3>1 DEF ErrandOK
  <2>8. courier' = [courier EXCEPT ![w] = at(step)] /\ at(step) \in Errands
    BY <1>1, <1>2, <2>1 DEF ErrandSteps
  <2>9. /\ delivery' \in [Deliveries -> Records]
        /\ \A x \in Deliveries : delivery'[x] = delivery[x]
    BY <2>2 DEF WebhookTypeOK
  <2>10. \A x \in Deliveries : (Hand(w) = x \/ x \in courier[w].todo) => at(step).x = x \/ x \in at(step).todo
    BY <1>6 DEF h
  <2> QED
    BY <2>2, <2>5, <2>7, <2>8, <2>9, <2>10, CourierMoves
<1>15. ASSUME RecordDelivered(w) PROVE WebhookInv'
  <2> DEFINE rec == [status |-> "DELIVERED", attempts |-> n, next |-> "none"]
  <2>1. /\ courier[w].step = "delivered" /\ courier' = [courier EXCEPT ![w] = at("counters")]
        /\ delivery' = [delivery EXCEPT ![Hand(w)] = rec]
        /\ UNCHANGED <<endpoint, calls, closed, mishaps>>
    BY <1>1, <1>15 DEF RecordDelivered, Busy, n
  <2>2. Hand(w) \in Deliveries /\ Hand(w) = h /\ n > 0 /\ CallsMade(n, calls[h])
    BY <1>4, <1>5, <1>7, <2>1 DEF ErrandOK, n, h
  <2>3. rec \in Records /\ rec.status = "DELIVERED" /\ ~Undated(rec) /\ rec.attempts = n
    BY <1>1 DEF Records, Undated
  <2>4. at("counters") \in Errands
    BY <1>2 DEF ErrandSteps
  <2> HIDE DEF rec
  <2> QED
    BY <1>6, <2>1, <2>2, <2>3, <2>4, OnlyRecord
<1>16. ASSUME UpdateEndpoint(w) PROVE WebhookInv'
  <2>1. courier[w].step = "counters" /\ UNCHANGED <<delivery, endpoint, calls, closed, mishaps>>
    BY <1>16 DEF UpdateEndpoint, Busy
  <2>2. h \in Deliveries /\ delivery[h].status # "ABSENT" /\ ~Undated(delivery[h]) /\ n > 0 /\ CallsMade(n, calls[h])
    BY <1>4, <1>5, <1>7, <2>1 DEF ErrandOK, n, Undated
  <2>3. CASE endpoint = "deleted"
    <3>1. courier' = [courier EXCEPT ![w].step = "failed"] /\ "failed" \in ErrandSteps
      BY <1>16, <2>3 DEF UpdateEndpoint, ErrandSteps
    <3>2. \A x \in courier[w].todo : delivery[x].status # "ABSENT"
      BY <1>4 DEF ErrandOK
    <3>3. ErrandOK(at("failed"), delivery, calls)
      BY <1>6, <2>2, <3>2 DEF ErrandOK
    <3> QED
      BY <1>10, <2>1, <3>1, <3>3
  <2>4. CASE endpoint # "deleted"
    <3>1. courier' = [courier EXCEPT ![w] = over]
      BY <1>3, <1>16, <2>4 DEF UpdateEndpoint
    <3>2. \A x \in Deliveries : Undated(delivery[x]) /\ (Hand(w) = x \/ x \in courier[w].todo)
                                  => over.x = x \/ x \in over.todo
      BY <1>6, <2>2 DEF h
    <3> QED
      BY <1>2, <1>4, <2>1, <3>1, <3>2, OnlyCourier
  <2> QED
    BY <2>3, <2>4
<1>17. ASSUME RecordAttempt(w) PROVE WebhookInv'
  <2> DEFINE rec == IF n >= WebhookAttempts THEN [status |-> "FAILED", attempts |-> n, next |-> "none"]
                    ELSE [status |-> "PENDING", attempts |-> n, next |-> "waiting"]
             c == IF courier[w].step = "refused" THEN at("counters") ELSE over
  <2>1. /\ courier[w].step \in {"refused", "failed"}
        /\ delivery' = [delivery EXCEPT ![Hand(w)] = rec]
        /\ UNCHANGED <<endpoint, calls, closed, mishaps>>
    BY <1>17 DEF RecordAttempt, n
  <2>2. courier' = [courier EXCEPT ![w] = c]
    BY <1>1, <1>3, <1>17 DEF RecordAttempt, Busy
  <2>3. Hand(w) \in Deliveries /\ Hand(w) = h /\ n > 0 /\ CallsMade(n, calls[h])
    BY <1>4, <1>5, <1>7, <2>1 DEF ErrandOK, n, h
  <2>4. calls[h] \in 0 .. WebhookAttempts
    BY <2>3 DEF WebhookTypeOK
  <2>5. /\ rec \in Records /\ rec.status # "ABSENT" /\ ~Undated(rec) /\ rec.attempts = n
        /\ rec.status = "FAILED" => calls[h] = WebhookAttempts
    BY <1>1, <2>3, <2>4 DEF Records, Undated, CallsMade
  <2>6. /\ c \in Errands /\ c.todo = courier[w].todo
        /\ (c.step = "next" /\ c.x = 0) \/ (c.step = "counters" /\ c.x = h /\ c.attempt = n)
    BY <1>2, <1>6 DEF ErrandSteps
  <2>7. c.step = "counters" => c.attempt = n
    BY <1>6
  <2> HIDE DEF rec, c
  <2> QED
    BY <2>1, <2>2, <2>3, <2>5, <2>6, <2>7, OnlyRecord
<1> QED
  BY <1>8, <1>9, <1>11, <1>12, <1>13, <1>14, <1>15, <1>16, <1>17 DEF CourierStep

LEMMA WebhookNextInv == WebhookInv /\ [WebhookNext]_webhookVars => WebhookInv'
<1> SUFFICES ASSUME WebhookInv, [WebhookNext]_webhookVars PROVE WebhookInv'
  OBVIOUS
<1> USE WebhookAssumption DEF WebhookInv
<1>1. ASSUME NEW w \in Couriers, NewDelivery(w) PROVE WebhookInv'
  BY <1>1, NewDeliveryStep
<1>2. ASSUME NEW w \in Couriers, CourierStep(w) PROVE WebhookInv'
  BY <1>2, CourierStepInv
<1>3. ASSUME NEW x \in Deliveries, BackoffElapses(x) PROVE WebhookInv'
  <2>1. /\ delivery[x].next = "waiting" /\ delivery' = [delivery EXCEPT ![x].next = "due"]
        /\ UNCHANGED <<endpoint, courier, calls, closed, mishaps>>
    BY <1>3 DEF BackoffElapses
  <2>2. \A y \in Deliveries : /\ delivery'[y].status = delivery[y].status
                              /\ delivery'[y].attempts = delivery[y].attempts
                              /\ Undated(delivery'[y]) <=> Undated(delivery[y])
                              /\ y # x => delivery'[y] = delivery[y]
    BY <2>1 DEF WebhookTypeOK, Records, Undated
  <2>3. WebhookTypeOK'
    BY <2>1 DEF WebhookTypeOK, Records
  <2>4. DeliveriesOK'
    BY <2>1, <2>2 DEF DeliveriesOK, Undated
  <2>5. CouriersOK'
    <3> SUFFICES ASSUME NEW w \in Couriers PROVE ErrandOK(courier[w], delivery', calls)
      BY <2>1, Zenon DEF CouriersOK, ErrandOK
    <3>1. ErrandOK(courier[w], delivery, calls) /\ courier[w].todo \subseteq Deliveries
      BY ErrandFields DEF CouriersOK
    <3> QED
      BY <2>2, <3>1 DEF ErrandOK, Undated
  <2>6. \A y \in Deliveries : InHand(y)' <=> InHand(y)
    BY <2>1 DEF InHand
  <2>7. Recoverable' /\ EndpointOK'
    BY <2>1, <2>2, <2>6 DEF Recoverable, EndpointOK, Undated
  <2> QED
    BY <2>3, <2>4, <2>5, <2>7
<1>4. ASSUME ToggleEndpoint PROVE WebhookInv'
  <2>1. /\ endpoint' \in {"active", "inactive", "deleted"} /\ closed'
        /\ UNCHANGED <<delivery, courier, calls, mishaps>>
    BY <1>4 DEF ToggleEndpoint
  <2>2. closed' \in BOOLEAN
    BY <1>4 DEF ToggleEndpoint
  <2>3. WebhookTypeOK' /\ DeliveriesOK'
    BY <2>1, <2>2 DEF WebhookTypeOK, DeliveriesOK
  <2>4. CouriersOK'
    BY <2>1 DEF CouriersOK, ErrandOK
  <2>5. Recoverable' /\ EndpointOK'
    BY <2>1 DEF Recoverable, InHand, EndpointOK
  <2> QED
    BY <2>3, <2>4, <2>5
<1>5. ASSUME WebhookCrash \/ \E w \in Couriers : AttemptThrows(w) PROVE WebhookInv'
  <2>1. mishaps' = mishaps + 1 /\ UNCHANGED <<delivery, endpoint, calls, closed>>
    BY <1>5 DEF WebhookCrash, AttemptThrows
  <2>7. NoCourier \in Errands
    BY DEF NoCourier, Errands, ErrandSteps
  <2>8. courier' \in [Couriers -> Errands] /\ \A w \in Couriers : courier'[w] \in {courier[w], NoCourier}
    <3>1. CASE WebhookCrash
      BY <2>7, <3>1 DEF WebhookCrash
    <3>2. CASE \E w \in Couriers : AttemptThrows(w)
      <4>1. PICK w \in Couriers : courier' = [courier EXCEPT ![w] = NoCourier]
        BY <3>2 DEF AttemptThrows
      <4> QED
        BY <2>7, <4>1 DEF WebhookTypeOK
    <3> QED
      BY <1>5, <3>1, <3>2
  <2>2. WebhookTypeOK'
    <3>2. mishaps' \in Nat
      BY <2>1 DEF WebhookTypeOK
    <3>3. delivery' \in [Deliveries -> Records] /\ calls' \in [Deliveries -> 0 .. WebhookAttempts]
      BY <2>1 DEF WebhookTypeOK
    <3>4. endpoint' \in {"active", "inactive", "deleted"}
      BY <2>1 DEF WebhookTypeOK
    <3>5. closed' \in BOOLEAN
      BY <2>1, Zenon DEF WebhookTypeOK
    <3> QED
      BY <2>8, <3>2, <3>3, <3>4, <3>5 DEF WebhookTypeOK
  <2>3. DeliveriesOK' /\ EndpointOK'
    BY <2>1 DEF DeliveriesOK, EndpointOK
  <2>4. CouriersOK'
    <3> SUFFICES ASSUME NEW w \in Couriers PROVE ErrandOK(courier'[w], delivery, calls)
      BY <2>1, Zenon DEF CouriersOK, ErrandOK
    <3>1. ErrandOK(courier[w], delivery, calls) /\ ErrandOK(NoCourier, delivery, calls)
      BY DEF CouriersOK, ErrandOK, NoCourier
    <3> QED
      BY <2>8, <3>1
  <2>5. mishaps' > 0
    BY <2>1 DEF WebhookTypeOK
  <2>6. Recoverable'
    BY <2>1, <2>5 DEF Recoverable, DeliveriesOK, Undated
  <2> QED
    BY <2>2, <2>3, <2>4, <2>6
<1>6. CASE UNCHANGED webhookVars
  BY <1>6 DEF webhookVars, WebhookTypeOK, DeliveriesOK, CouriersOK, ErrandOK, EndpointOK, Recoverable, InHand
<1> QED
  BY <1>1, <1>2, <1>3, <1>4, <1>5, <1>6 DEF WebhookNext

(* "A crash mid-flight leaves a record the retry sweep can pick up rather  *)
(* than a silently dropped event", for any number of deliveries, of        *)
(* attempts at a time, of exits and of failing statements, with the        *)
(* exemption Recoverable states.                                           *)
THEOREM NothingIsDropped == WebhookSpec => []Recoverable
<1>1. WebhookInv => Recoverable
  BY DEF WebhookInv
<1> QED
  BY <1>1, WebhookInitInv, WebhookNextInv, PTL DEF WebhookSpec

----------------------------------------------------------------------------
(***************************************************************************)
(* WhatsApp campaigns.  Nobody is messaged twice, for any number of        *)
(* recipients, passes, attempts, resumes and switches.                     *)
(*                                                                         *)
(* A pass works from a list it read; what protects a recipient is that     *)
(* whoever was reached is either shown as SENT or in the hand of the pass  *)
(* that reached them, so that no later list has them.  The rows are        *)
(* written once, because only the launch writes them.                      *)
(***************************************************************************)

(* The campaign alone. *)
WhatsAppSpec == WhatsAppInit /\ [][WhatsAppNext]_blastVars

PassSteps == {"idle", "write down", "write down and start", "start", "dispatch", "park", "mark",
              "load", "reset", "cancel"} \cup Working
Writing == {"write down", "write down and start"}
InHandSteps == {"send", "accepted", "transient", "permanent", "halt"}
BlastStates == {"NONE", "SCHEDULED", "SENDING", "PAUSED", "CANCELLED", "PARTIALLY_SENT", "SENT",
                "FAILED"}

WhatsAppTypeOK ==
    /\ blast \in [status : BlastStates, dated : BOOLEAN, parked : BOOLEAN]
    /\ row \in [Recipients -> [status : {"NONE", "PENDING", "SENT", "FAILED", "UNSUBSCRIBED"},
                               attempts : Nat]]
    /\ optedIn \subseteq Recipients
    /\ pass \in [Passes -> [step : PassSteps, todo : SUBSET Recipients, r : Nat, seen : Nat,
                            status : BlastStates]]
    /\ reached \in [Recipients -> 0 .. 2]
    /\ overlap \in BOOLEAN
    /\ tally \in [resumes : Nat, exits : Nat, switches : Nat, refusals : Nat]

(* Recipients are written down once, before any pass can find one.         *)
NoneWritten == \A r \in Recipients : row[r].status = "NONE"
WrittenOnce ==
    /\ \A p \in Passes : pass[p].step \in Writing =>
         /\ NoneWritten
         /\ blast.status # "NONE"
         /\ \A q \in Passes : pass[q].step \in Writing => q = p
    /\ blast.status = "NONE" => NoneWritten
    /\ NoneWritten => \A r \in Recipients : reached[r] = 0

(* What a pass has in hand.                                                *)
PassFine(p) ==
    /\ pass[p].todo # {} => pass[p].step \in Working /\ ~ NoneWritten
    /\ pass[p].step \in InHandSteps => /\ pass[p].r \in Recipients \ pass[p].todo
                                       /\ ~ NoneWritten
    /\ Is(p, "accepted") => reached[pass[p].r] > 0
    /\ Is(p, "settle") => pass[p].status # "NONE"
PassesFine == \A p \in Passes : PassFine(p)

SentWasReached == \A r \in Recipients : row[r].status = "SENT" => reached[r] > 0

(* While one pass works at a time, who was reached is SENT or in its hand. *)
OneAtATime == \A p, q \in Passes : pass[p].step \in Working /\ pass[q].step \in Working => p = q
NobodyTwice ==
    /\ \A r \in Recipients : reached[r] <= 1
    /\ \A r \in Recipients : row[r].status # "SENT" /\ reached[r] > 0 =>
         \E p \in Passes : Is(p, "accepted") /\ pass[p].r = r
    /\ \A p \in Passes :
         /\ \A r \in pass[p].todo : reached[r] = 0
         /\ pass[p].step \in InHandSteps \ {"accepted"} => reached[pass[p].r] = 0

BlastInv ==
    /\ WhatsAppTypeOK /\ WrittenOnce /\ PassesFine /\ SentWasReached
    /\ Undisturbed => OneAtATime /\ NobodyTwice

----------------------------------------------------------------------------
PassRecords == [step : PassSteps, todo : SUBSET Recipients, r : Nat, seen : Nat,
                status : BlastStates]

LEMMA OneMoreReached ==
    ASSUME NEW n \in 0 .. 2
    PROVE  /\ Min({2, n + 1}) \in 0 .. 2 /\ Min({2, n + 1}) > 0
           /\ n = 0 => Min({2, n + 1}) = 1
<1> DEFINE S == {2, n + 1}
<1>1. Min(S) \in S /\ \A y \in S : Min(S) <= y
  BY MinIsLeast
<1>2. n = 0 => 1 \in S
  OBVIOUS
<1> QED
  BY <1>1, <1>2

LEMMA BlastInit == WhatsAppInit => BlastInv
<1> SUFFICES ASSUME WhatsAppInit PROVE BlastInv
  OBVIOUS
<1> USE DEF WhatsAppInit
<1>1. NoPass \in PassRecords
  BY DEF NoPass, PassRecords, PassSteps, BlastStates
<1>2. WhatsAppTypeOK
  <2>1. pass \in [Passes -> PassRecords]
    BY <1>1
  <2>2. blast \in [status : BlastStates, dated : BOOLEAN, parked : BOOLEAN]
    BY DEF BlastStates
  <2>3. row \in [Recipients -> [status : {"NONE", "PENDING", "SENT", "FAILED", "UNSUBSCRIBED"},
                                attempts : Nat]]
    OBVIOUS
  <2>4. reached \in [Recipients -> 0 .. 2] /\ optedIn \subseteq Recipients
    OBVIOUS
  <2>6. overlap \in BOOLEAN
    OBVIOUS
  <2>5. tally \in [resumes : Nat, exits : Nat, switches : Nat, refusals : Nat]
    OBVIOUS
  <2> QED
    BY <2>1, <2>2, <2>3, <2>4, <2>5, <2>6 DEF WhatsAppTypeOK, PassRecords
<1>3. WrittenOnce /\ SentWasReached
  BY DEF WrittenOnce, SentWasReached, NoneWritten, Writing, NoPass
<1>4. PassesFine /\ OneAtATime /\ NobodyTwice
  BY DEF PassesFine, PassFine, OneAtATime, NobodyTwice, NoPass, Working, InHandSteps, Is
<1> QED
  BY <1>2, <1>3, <1>4 DEF BlastInv

(* A step that changes neither rows nor messages and starts no new work.   *)
LEMMA PassMoves ==
    ASSUME BlastInv, NEW p \in Passes, NEW q \in PassRecords,
           pass' = [pass EXCEPT ![p] = q],
           UNCHANGED <<row, reached, overlap>>,
           optedIn' \subseteq Recipients,
           blast' \in [status : BlastStates, dated : BOOLEAN, parked : BOOLEAN],
           blast'.status = "NONE" => blast.status = "NONE",
           tally' \in [resumes : Nat, exits : Nat, switches : Nat, refusals : Nat],
           tally'.exits = 0 => tally.exits = 0,
           q.step \in Writing => pass[p].step \in Writing,
           q.step \in Working => pass[p].step \in Working,
           q.todo \subseteq pass[p].todo,
           q.todo # {} => q.step \in Working,
           q.step \in InHandSteps =>
               /\ q.r \in Recipients \ q.todo
               /\ pass[p].step \in InHandSteps \/ pass[p].todo # {}
               /\ q.step # "accepted"
               /\ ~ overlap /\ tally'.exits = 0 => reached[q.r] = 0,
           pass[p].step = "accepted" => tally'.exits # 0,
           q.step = "settle" => q.status # "NONE"
    PROVE  BlastInv'
<1> USE DEF BlastInv
<1>1. pass \in [Passes -> PassRecords]
  BY DEF WhatsAppTypeOK, PassRecords
<1>2. pass' \in [Passes -> PassRecords] /\ pass'[p] = q /\ \A z \in Passes \ {p} : pass'[z] = pass[z]
  BY <1>1
<1>3. WhatsAppTypeOK'
  BY <1>2 DEF WhatsAppTypeOK, PassRecords
<1>4. NoneWritten' <=> NoneWritten
  BY DEF NoneWritten
<1>5. WrittenOnce'
  BY <1>2, <1>4 DEF WrittenOnce
<1>6. PassesFine'
  <2> SUFFICES ASSUME NEW z \in Passes PROVE PassFine(z)'
    BY DEF PassesFine
  <2>1. CASE z = p
    <3>1. PassFine(p)
      BY DEF PassesFine
    <3> QED
      BY <2>1, <3>1, <1>2, <1>4 DEF PassFine, Is, InHandSteps
  <2>2. CASE z # p
    <3>1. PassFine(z)
      BY DEF PassesFine
    <3> QED
      BY <2>2, <3>1, <1>2, <1>4 DEF PassFine, Is
  <2> QED
    BY <2>1, <2>2
<1>7. SentWasReached'
  BY DEF SentWasReached
<1>8. ASSUME Undisturbed' PROVE OneAtATime' /\ NobodyTwice'
  <2>1. Undisturbed /\ ~ overlap /\ tally'.exits = 0
    BY <1>8 DEF Undisturbed
  <2>2. OneAtATime'
    BY <1>2, <2>1 DEF OneAtATime
  <2>3. ASSUME NEW r \in Recipients, row[r].status # "SENT", reached[r] > 0
        PROVE  \E z \in Passes : Is(z, "accepted")' /\ pass'[z].r = r
    <3>1. PICK z \in Passes : Is(z, "accepted") /\ pass[z].r = r
      BY <2>1, <2>3 DEF NobodyTwice
    <3> QED
      BY <1>2, <2>1, <3>1 DEF Is
  <2>4. ASSUME NEW z \in Passes
        PROVE  /\ \A r \in pass'[z].todo : reached[r] = 0
               /\ pass'[z].step \in InHandSteps \ {"accepted"} => reached[pass'[z].r] = 0
    <3>1. /\ \A r \in pass[z].todo : reached[r] = 0
          /\ pass[z].step \in InHandSteps \ {"accepted"} => reached[pass[z].r] = 0
          /\ \A r \in pass[p].todo : reached[r] = 0
      BY <2>1 DEF NobodyTwice
    <3> QED
      BY <1>2, <2>1, <3>1
  <2>5. \A r \in Recipients : reached[r] <= 1
    BY <2>1 DEF NobodyTwice
  <2> QED
    BY <2>2, <2>3, <2>4, <2>5 DEF NobodyTwice
<1> QED
  BY <1>3, <1>5, <1>6, <1>7, <1>8

LEMMA PassTyped == ASSUME BlastInv PROVE pass \in [Passes -> PassRecords]
BY DEF BlastInv, WhatsAppTypeOK, PassRecords

RestSteps == {"idle", "start", "dispatch", "park", "mark", "load", "reset", "cancel"}

(* A pass that stops, or goes on to a step with nothing in hand.           *)
LEMMA PassRests ==
    ASSUME BlastInv, NEW p \in Passes, NEW s \in RestSteps,
           \/ pass' = [pass EXCEPT ![p] = NoPass]
           \/ pass' = [pass EXCEPT ![p] = [NoPass EXCEPT !.step = s]]
           \/ pass[p].todo = {} /\ pass' = [pass EXCEPT ![p].step = s],
           UNCHANGED <<row, reached, overlap, optedIn>>,
           blast' \in [status : BlastStates, dated : BOOLEAN, parked : BOOLEAN],
           blast'.status = "NONE" => blast.status = "NONE",
           tally' \in [resumes : Nat, exits : Nat, switches : Nat, refusals : Nat],
           tally'.exits = tally.exits,
           pass[p].step # "accepted"
    PROVE  BlastInv'
<1>1. pass \in [Passes -> PassRecords] /\ optedIn \subseteq Recipients
  BY PassTyped DEF BlastInv, WhatsAppTypeOK
<1>2. /\ s \in PassSteps /\ s # "settle"
      /\ s \notin Writing /\ s \notin Working /\ s \notin InHandSteps
  BY DEF PassSteps, Writing, Working, InHandSteps, RestSteps
<1>3. CASE pass[p].todo = {} /\ pass' = [pass EXCEPT ![p].step = s]
  <2>1. PICK q : q = [pass[p] EXCEPT !.step = s]
    OBVIOUS
  <2>2. q \in PassRecords /\ q.step = s /\ q.todo = {} /\ pass' = [pass EXCEPT ![p] = q]
    BY <1>1, <1>2, <1>3, <2>1 DEF PassRecords
  <2> QED
    BY <1>1, <1>2, <2>2, PassMoves
<1>4. CASE \/ pass' = [pass EXCEPT ![p] = NoPass]
           \/ pass' = [pass EXCEPT ![p] = [NoPass EXCEPT !.step = s]]
  <2>1. PICK q : /\ q = NoPass \/ q = [NoPass EXCEPT !.step = s]
                 /\ pass' = [pass EXCEPT ![p] = q]
    BY <1>4
  <2>4. NoPass \in PassRecords /\ NoPass.todo = {} /\ NoPass.step = "idle"
    BY DEF PassRecords, NoPass, PassSteps, BlastStates
  <2>2. q \in PassRecords /\ q.step \in {s, "idle"} /\ q.todo = {}
    BY <1>2, <2>1, <2>4 DEF PassRecords
  <2>3. q.step # "settle" /\ q.step \notin Writing \cup Working \cup InHandSteps
    BY <1>2, <2>2 DEF Writing, Working, InHandSteps
  <2> QED
    BY <1>1, <2>1, <2>2, <2>3, PassMoves
<1> QED
  BY <1>3, <1>4

LEMMA RestStart ==
    ASSUME BlastInv, NEW p \in Passes, StartPass(p) \/ WorkerPass(p) \/ Dispatch(p)
    PROVE  BlastInv'
<1>1. PassFine(p) /\ pass[p] \in PassRecords
  BY PassTyped DEF BlastInv, PassesFine
<1>2. UNCHANGED <<blast, row, optedIn, reached, overlap, tally>>
  BY DEF StartPass, WorkerPass, Dispatch
<1>3. /\ blast' \in [status : BlastStates, dated : BOOLEAN, parked : BOOLEAN]
      /\ tally' \in [resumes : Nat, exits : Nat, switches : Nat, refusals : Nat]
  BY <1>2 DEF BlastInv, WhatsAppTypeOK
<1>4. pass[p].step \in {"start", "dispatch", "idle"} /\ pass[p].todo = {}
  BY <1>1 DEF StartPass, WorkerPass, Dispatch, Is, Open, NoPass, PassFine, Working
<1>5. PICK s \in RestSteps : \/ pass' = [pass EXCEPT ![p] = NoPass]
                           \/ pass' = [pass EXCEPT ![p].step = s]
  <2>1. CASE StartPass(p)
    BY <2>1 DEF StartPass, RestSteps, Then, Stop
  <2>2. CASE WorkerPass(p)
    BY <2>2 DEF WorkerPass, RestSteps, Open
  <2>3. CASE Dispatch(p)
    BY <2>3 DEF Dispatch, RestSteps, Then, Stop
  <2> QED
    BY <2>1, <2>2, <2>3
<1> QED
  BY <1>2, <1>3, <1>4, <1>5, PassRests

LEMMA RestMark ==
    ASSUME BlastInv, NEW p \in Passes,
           Park(p) \/ MarkSendingNow(p) \/ WriteCancel(p) \/ RequireEligible(p)
    PROVE  BlastInv'
<1>1. PassFine(p) /\ pass[p] \in PassRecords
  BY PassTyped DEF BlastInv, PassesFine
<1>2. UNCHANGED <<row, optedIn, reached, overlap>>
  BY DEF Park, MarkSendingNow, WriteCancel, RequireEligible
<1>3. /\ blast \in [status : BlastStates, dated : BOOLEAN, parked : BOOLEAN]
      /\ tally \in [resumes : Nat, exits : Nat, switches : Nat, refusals : Nat]
  BY DEF BlastInv, WhatsAppTypeOK
<1>4. pass[p].step \in {"park", "mark", "cancel"} /\ pass[p].todo = {}
  BY <1>1 DEF Park, MarkSendingNow, WriteCancel, RequireEligible, Is, PassFine, Working
<1>5. PICK s \in RestSteps : \/ pass' = [pass EXCEPT ![p] = NoPass]
                           \/ pass' = [pass EXCEPT ![p].step = s]
  BY DEF Park, MarkSendingNow, WriteCancel, RequireEligible, RestSteps, Then, Stop
<1>6. /\ blast' \in [status : BlastStates, dated : BOOLEAN, parked : BOOLEAN]
      /\ blast'.status = "NONE" => blast.status = "NONE"
  BY <1>3 DEF Park, MarkSendingNow, WriteCancel, RequireEligible, SetStatus, BlastStates
<1>7. /\ tally' \in [resumes : Nat, exits : Nat, switches : Nat, refusals : Nat]
      /\ tally'.exits = tally.exits
  BY <1>3 DEF Park, MarkSendingNow, WriteCancel, RequireEligible
<1> QED
  BY <1>2, <1>4, <1>5, <1>6, <1>7, PassRests

LEMMA RestOpen ==
    ASSUME BlastInv, NEW p \in Passes, SweepDue(p) \/ Resume(p) \/ CancelCampaign(p)
    PROVE  BlastInv'
<1>1. PassFine(p) /\ pass[p] \in PassRecords
  BY PassTyped DEF BlastInv, PassesFine
<1>2. UNCHANGED <<blast, row, optedIn, reached, overlap>>
  BY DEF SweepDue, Resume, CancelCampaign
<1>3. /\ blast' \in [status : BlastStates, dated : BOOLEAN, parked : BOOLEAN]
      /\ tally \in [resumes : Nat, exits : Nat, switches : Nat, refusals : Nat]
  BY <1>2 DEF BlastInv, WhatsAppTypeOK
<1>4. pass[p].step = "idle" /\ pass[p].todo = {}
  BY DEF SweepDue, Resume, CancelCampaign, Open, NoPass
<1>5. PICK s \in RestSteps : pass' = [pass EXCEPT ![p].step = s]
  BY DEF SweepDue, Resume, CancelCampaign, RestSteps, Open
<1>6. /\ tally' \in [resumes : Nat, exits : Nat, switches : Nat, refusals : Nat]
      /\ tally'.exits = tally.exits
  BY <1>3 DEF SweepDue, Resume, CancelCampaign
<1> QED
  BY <1>2, <1>3, <1>4, <1>5, <1>6, PassRests

LEMMA SettleSteps ==
    ASSUME BlastInv, NEW p \in Passes, CountRows(p) \/ Settle(p) \/ RecordSentFails(p)
    PROVE  BlastInv'
<1>1. PassFine(p) /\ pass[p] \in PassRecords
  BY PassTyped DEF BlastInv, PassesFine
<1>2. /\ blast \in [status : BlastStates, dated : BOOLEAN, parked : BOOLEAN]
      /\ tally \in [resumes : Nat, exits : Nat, switches : Nat, refusals : Nat]
      /\ optedIn \subseteq Recipients
  BY DEF BlastInv, WhatsAppTypeOK
<1>3. CASE CountRows(p)
  <2>1. PICK st \in {"SENDING", "SENT", "FAILED", "PARTIALLY_SENT"} :
             pass' = [pass EXCEPT ![p] = [pass[p] EXCEPT !.step = "settle", !.status = st]]
    BY <1>3, PassTyped DEF CountRows, PassRecords
  <2>2. PICK q : q = [pass[p] EXCEPT !.step = "settle", !.status = st]
    OBVIOUS
  <2>3. /\ q \in PassRecords /\ q.step = "settle" /\ q.status # "NONE" /\ q.todo = pass[p].todo
    BY <1>1, <2>2 DEF PassRecords, PassSteps, BlastStates, Working
  <2>4. pass[p].step = "tally" /\ UNCHANGED <<row, reached, overlap, optedIn, blast, tally>>
    BY <1>3 DEF CountRows, Is
  <2>5. /\ "settle" \in Working /\ "tally" \in Working
        /\ "settle" \notin Writing /\ "settle" \notin InHandSteps
    BY DEF Working, Writing, InHandSteps
  <2>6. pass' = [pass EXCEPT ![p] = q]
    BY <2>1, <2>2
  <2> QED
    BY <1>2, <2>3, <2>4, <2>5, <2>6, PassMoves
<1>4. CASE Settle(p)
  <2>1. /\ pass[p].step = "settle" /\ UNCHANGED <<row, reached, overlap, optedIn, tally>>
        /\ blast' = [blast EXCEPT !.status = pass[p].status]
    BY <1>4 DEF Settle, Is, SetStatus
  <2>2. \/ pass' = [pass EXCEPT ![p] = NoPass]
        \/ pass' = [pass EXCEPT ![p] = [NoPass EXCEPT !.step = "start"]]
    BY <1>4 DEF Settle
  <2>3. /\ blast' \in [status : BlastStates, dated : BOOLEAN, parked : BOOLEAN]
        /\ blast'.status # "NONE"
    BY <1>1, <1>2, <2>1 DEF PassFine, Is, PassRecords
  <2>4. "start" \in RestSteps
    BY DEF RestSteps
  <2> QED
    BY <1>2, <2>1, <2>2, <2>3, <2>4, PassRests
<1>5. CASE RecordSentFails(p)
  <2>1. PICK q : q = [pass[p] EXCEPT !.step = "transient"]
    OBVIOUS
  <2>2. /\ pass[p].step = "accepted" /\ pass' = [pass EXCEPT ![p] = q]
        /\ tally' = [tally EXCEPT !.exits = @ + 1]
        /\ UNCHANGED <<row, reached, overlap, optedIn, blast>>
    BY <1>5, <2>1 DEF RecordSentFails, Is, Then
  <2>3. /\ q \in PassRecords /\ q.step = "transient" /\ q.todo = pass[p].todo /\ q.r = pass[p].r
    BY <1>1, <2>1 DEF PassRecords, PassSteps, Working
  <2>4. /\ tally' \in [resumes : Nat, exits : Nat, switches : Nat, refusals : Nat]
        /\ tally'.exits # 0
    BY <1>2, <2>2
  <2>5. /\ "transient" \in Working /\ "accepted" \in Working /\ "transient" \notin Writing
        /\ "transient" \in InHandSteps /\ "accepted" \in InHandSteps
    BY DEF Working, Writing, InHandSteps
  <2>6. q.r \in Recipients \ q.todo
    BY <1>1, <2>2, <2>3, <2>5 DEF PassFine
  <2> QED
    BY <1>2, <2>2, <2>3, <2>4, <2>5, <2>6, PassMoves
<1> QED
  BY <1>3, <1>4, <1>5

RowRecords == [status : {"NONE", "PENDING", "SENT", "FAILED", "UNSUBSCRIBED"}, attempts : Nat]

(* A working pass writes the row of a recipient it has or had in hand.     *)
LEMMA RowWritten ==
    ASSUME BlastInv, NEW p \in Passes, NEW r \in Recipients, NEW v \in RowRecords,
           NEW q \in PassRecords,
           ~ NoneWritten, v.status # "NONE",
           row' = [row EXCEPT ![r] = v], pass' = [pass EXCEPT ![p] = q],
           UNCHANGED <<blast, optedIn, reached, overlap, tally>>,
           pass[p].step \in Working,
           q.step \in Working, q.step \notin InHandSteps, q.step # "settle",
           q.todo \subseteq pass[p].todo,
           v.status = "SENT" => reached[r] > 0,
           v.status # "SENT" => (Undisturbed => reached[r] = 0),
           pass[p].step = "accepted" => v.status = "SENT" /\ pass[p].r = r
    PROVE  BlastInv'
<1> USE DEF BlastInv
<1>1. pass \in [Passes -> PassRecords] /\ row \in [Recipients -> RowRecords]
  BY DEF WhatsAppTypeOK, PassRecords, RowRecords
<1>2. pass' \in [Passes -> PassRecords] /\ pass'[p] = q /\ \A z \in Passes \ {p} : pass'[z] = pass[z]
  BY <1>1
<1>3. row' \in [Recipients -> RowRecords] /\ row'[r] = v /\ \A y \in Recipients \ {r} : row'[y] = row[y]
  BY <1>1
<1>4. WhatsAppTypeOK'
  BY <1>2, <1>3 DEF WhatsAppTypeOK, PassRecords, RowRecords
<1>5. ~ NoneWritten'
  BY <1>3 DEF NoneWritten
<1>6. /\ \A z \in Passes : pass[z].step \notin Writing
      /\ q.step \notin Writing
      /\ blast.status # "NONE"
  BY DEF WrittenOnce, Writing, Working
<1>7. WrittenOnce'
  BY <1>2, <1>5, <1>6 DEF WrittenOnce
<1>8. PassesFine'
  <2> SUFFICES ASSUME NEW z \in Passes PROVE PassFine(z)'
    BY DEF PassesFine
  <2>1. PassFine(z)
    BY DEF PassesFine
  <2>2. CASE z = p
    BY <2>1, <2>2, <1>2, <1>5 DEF PassFine, Is, InHandSteps
  <2>3. CASE z # p
    BY <2>1, <2>3, <1>2, <1>5 DEF PassFine, Is
  <2> QED
    BY <2>2, <2>3
<1>9. SentWasReached'
  BY <1>3 DEF SentWasReached
<1>10. ASSUME Undisturbed PROVE OneAtATime' /\ NobodyTwice'
  <2>1. OneAtATime'
    BY <1>2, <1>10 DEF OneAtATime
  <2>2. ASSUME NEW y \in Recipients, row'[y].status # "SENT", reached[y] > 0
        PROVE  \E z \in Passes : Is(z, "accepted")' /\ pass'[z].r = y
    <3>1. y # r
      BY <1>3, <1>10, <2>2
    <3>2. PICK z \in Passes : Is(z, "accepted") /\ pass[z].r = y
      BY <1>3, <1>10, <2>2, <3>1 DEF NobodyTwice
    <3>3. z # p
      BY <3>1, <3>2 DEF Is
    <3> QED
      BY <1>2, <3>2, <3>3 DEF Is
  <2>3. ASSUME NEW z \in Passes
        PROVE  /\ \A y \in pass'[z].todo : reached[y] = 0
               /\ pass'[z].step \in InHandSteps \ {"accepted"} => reached[pass'[z].r] = 0
    BY <1>2, <1>10 DEF NobodyTwice
  <2>4. \A y \in Recipients : reached[y] <= 1
    BY <1>10 DEF NobodyTwice
  <2> QED
    BY <2>1, <2>2, <2>3, <2>4 DEF NobodyTwice
<1> QED
  BY <1>4, <1>7, <1>8, <1>9, <1>10 DEF Undisturbed

LEMMA RecordSteps ==
    ASSUME BlastInv, NEW p \in Passes, RecordSent(p) \/ RecordRefusal(p)
    PROVE  BlastInv'
<1>1. /\ pass[p] \in PassRecords /\ row \in [Recipients -> RowRecords] /\ PassFine(p)
  BY PassTyped DEF BlastInv, PassesFine, WhatsAppTypeOK, RowRecords
<1>2. pass[p].step \in InHandSteps /\ UNCHANGED <<blast, optedIn, reached, overlap, tally>>
  BY DEF RecordSent, RecordRefusal, Is, InHandSteps
<1>3. /\ pass[p].r \in Recipients /\ ~ NoneWritten /\ pass[p].step \in Working
  BY <1>1, <1>2 DEF PassFine, InHandSteps, Working
<1>4. CASE RecordSent(p)
  <2>1. PICK v, q : /\ v = [status |-> "SENT", attempts |-> row[pass[p].r].attempts + 1]
                    /\ q = [pass[p] EXCEPT !.step = "next"]
    OBVIOUS
  <2>2. row' = [row EXCEPT ![pass[p].r] = v] /\ pass' = [pass EXCEPT ![p] = q]
    BY <1>4, <2>1 DEF RecordSent, Then
  <2>6. v \in RowRecords /\ v.status = "SENT"
    BY <1>1, <1>3, <2>1 DEF RowRecords
  <2>3. q \in PassRecords /\ q.step = "next" /\ q.todo = pass[p].todo
    BY <1>1, <2>1 DEF PassRecords, PassSteps, Working
  <2>4. reached[pass[p].r] > 0
    BY <1>1, <1>4 DEF RecordSent, PassFine, Is
  <2>5. "next" \in Working /\ "next" \notin InHandSteps
    BY DEF Working, InHandSteps
  <2> QED
    BY <1>2, <1>3, <2>2, <2>3, <2>4, <2>5, <2>6, RowWritten
<1>5. CASE RecordRefusal(p)
  <2>1. PICK again : again = (Is(p, "transient") /\ pass[p].seen + 1 < SendAttempts)
    OBVIOUS
  <2>2. PICK v, q : /\ v = [status |-> IF again THEN "PENDING" ELSE "FAILED",
                            attempts |-> row[pass[p].r].attempts + 1]
                    /\ q = [pass[p] EXCEPT
                              !.step = IF Is(p, "halt") THEN "tally" ELSE "next",
                              !.status = IF Is(p, "halt") THEN "PARTIALLY_SENT" ELSE @]
    OBVIOUS
  <2>3. row' = [row EXCEPT ![pass[p].r] = v]
    BY <1>1, <1>3, <1>5, <2>1, <2>2 DEF RecordRefusal
  <2>4. pass' = [pass EXCEPT ![p] = q]
    BY <1>1, <1>5, <2>2, PassTyped DEF RecordRefusal, PassRecords
  <2>5. /\ v \in RowRecords /\ v.status \in {"PENDING", "FAILED"}
    BY <1>1, <1>3, <2>2 DEF RowRecords
  <2>6. /\ q \in PassRecords /\ q.step \in {"tally", "next"} /\ q.todo = pass[p].todo
    BY <1>1, <2>2 DEF PassRecords, PassSteps, Working, BlastStates
  <2>7. pass[p].step \in {"transient", "permanent", "halt"}
    BY <1>5 DEF RecordRefusal
  <2>8. Undisturbed => reached[pass[p].r] = 0
    BY <2>7 DEF BlastInv, NobodyTwice, InHandSteps
  <2>9. /\ {"next", "tally"} \subseteq Working /\ "next" \notin InHandSteps
        /\ "tally" \notin InHandSteps /\ pass[p].step # "accepted"
    BY <2>7 DEF Working, InHandSteps
  <2> QED
    BY <1>2, <1>3, <2>3, <2>4, <2>5, <2>6, <2>8, <2>9, RowWritten
<1> QED
  BY <1>4, <1>5

LEMMA NextRecipientStep ==
    ASSUME BlastInv, NEW p \in Passes, NextRecipient(p)
    PROVE  BlastInv'
<1>1. /\ pass[p] \in PassRecords /\ row \in [Recipients -> RowRecords] /\ PassFine(p)
      /\ tally \in [resumes : Nat, exits : Nat, switches : Nat, refusals : Nat]
      /\ blast \in [status : BlastStates, dated : BOOLEAN, parked : BOOLEAN]
      /\ optedIn \subseteq Recipients
  BY PassTyped DEF BlastInv, PassesFine, WhatsAppTypeOK, RowRecords
<1>2. pass[p].step = "next" /\ UNCHANGED <<blast, optedIn, reached, overlap, tally>>
  BY DEF NextRecipient, Is
<1>3. PICK r : r = Min(pass[p].todo)
  OBVIOUS
<1>4. /\ {"next", "tally", "send"} \subseteq Working
      /\ "next" \notin InHandSteps /\ "tally" \notin InHandSteps
      /\ "send" \notin Writing /\ "tally" \notin Writing /\ "next" \notin Writing
  BY DEF Working, InHandSteps, Writing
<1>5. CASE pass[p].todo = {}
  <2>1. PICK q : q = [pass[p] EXCEPT !.step = "tally"]
    OBVIOUS
  <2>2. pass' = [pass EXCEPT ![p] = q] /\ UNCHANGED row
    BY <1>5, <2>1 DEF NextRecipient, Then
  <2>3. q \in PassRecords /\ q.step = "tally" /\ q.todo = {}
    BY <1>1, <1>5, <2>1 DEF PassRecords, PassSteps, Working
  <2> QED
    BY <1>1, <1>2, <1>4, <2>2, <2>3, PassMoves
<1>6. CASE pass[p].todo # {} /\ r \in optedIn
  <2>1. r \in pass[p].todo
    <3>1. pass[p].todo \subseteq Nat
      BY <1>1, WhatsAppAssumption DEF PassRecords
    <3> QED
      BY <1>3, <1>6, <3>1, MinIsLeast
  <2>2. PICK q : q = [pass[p] EXCEPT !.step = "send", !.todo = @ \ {r}, !.r = r, !.seen = row[r].attempts]
    OBVIOUS
  <2>3. pass' = [pass EXCEPT ![p] = q] /\ UNCHANGED row
    <3>1. /\ pass' = [pass EXCEPT ![p].step = "send", ![p].todo = @ \ {r}, ![p].r = r,
                                  ![p].seen = row[r].attempts]
          /\ UNCHANGED row
      BY <1>3, <1>6 DEF NextRecipient
    <3> QED
      BY <2>2, <3>1, PassTyped DEF PassRecords
  <2>4. r \in Recipients /\ r \in Nat /\ row[r].attempts \in Nat
    BY <1>1, <2>1, WhatsAppAssumption DEF PassRecords, RowRecords
  <2>5. q \in PassRecords /\ q.step = "send" /\ q.todo = pass[p].todo \ {r} /\ q.r = r
    <3>1. "send" \in PassSteps /\ pass[p].todo \ {r} \in SUBSET Recipients
      BY <1>1 DEF PassRecords, PassSteps, Working
    <3> QED
      BY <1>1, <2>2, <2>4, <3>1 DEF PassRecords
  <2>6. ~ overlap /\ tally'.exits = 0 => reached[r] = 0
    BY <1>2, <2>1 DEF BlastInv, Undisturbed, NobodyTwice
  <2> QED
    BY <1>1, <1>2, <1>4, <1>6, <2>3, <2>4, <2>5, <2>6, PassMoves
<1>7. CASE pass[p].todo # {} /\ r \notin optedIn
  <2>1. r \in pass[p].todo
    <3>1. pass[p].todo \subseteq Nat
      BY <1>1, WhatsAppAssumption DEF PassRecords
    <3> QED
      BY <1>3, <1>7, <3>1, MinIsLeast
  <2>2. PICK v, q : v = [row[r] EXCEPT !.status = "UNSUBSCRIBED"] /\ q = [pass[p] EXCEPT !.todo = @ \ {r}]
    OBVIOUS
  <2>3. pass' = [pass EXCEPT ![p] = q] /\ row' = [row EXCEPT ![r] = v]
    BY <1>3, <1>7, <2>2 DEF NextRecipient
  <2>4. r \in Recipients
    BY <1>1, <2>1 DEF PassRecords
  <2>5. v \in RowRecords /\ v.status = "UNSUBSCRIBED"
    BY <1>1, <2>2, <2>4 DEF RowRecords
  <2>6. q \in PassRecords /\ q.step = "next" /\ q.todo = pass[p].todo \ {r}
    BY <1>1, <1>2, <2>2 DEF PassRecords
  <2>7. Undisturbed => reached[r] = 0
    BY <2>1 DEF BlastInv, NobodyTwice
  <2>8. ~ NoneWritten
    BY <1>1, <1>7 DEF PassFine
  <2> QED
    BY <1>2, <1>4, <2>3, <2>4, <2>5, <2>6, <2>7, <2>8, RowWritten
<1> QED
  BY <1>5, <1>6, <1>7

LEMMA SendRefused ==
    ASSUME BlastInv, NEW p \in Passes, NEW kind \in {"transient", "permanent", "halt"},
           Is(p, "send"), Then(p, kind),
           UNCHANGED <<row, reached, overlap, optedIn, blast, tally>>
    PROVE  BlastInv'
<1>1. /\ pass[p] \in PassRecords /\ PassFine(p)
      /\ tally \in [resumes : Nat, exits : Nat, switches : Nat, refusals : Nat]
      /\ blast \in [status : BlastStates, dated : BOOLEAN, parked : BOOLEAN]
      /\ optedIn \subseteq Recipients
  BY PassTyped DEF BlastInv, PassesFine, WhatsAppTypeOK
<1>2. PICK q : q = [pass[p] EXCEPT !.step = kind]
  OBVIOUS
<1>3. pass' = [pass EXCEPT ![p] = q] /\ pass[p].step = "send"
  BY <1>2 DEF Is, Then
<1>4. /\ kind \in Working /\ "send" \in Working /\ kind \notin Writing /\ kind \in InHandSteps
      /\ "send" \in InHandSteps /\ kind \in PassSteps /\ kind # "settle" /\ kind # "accepted"
  BY DEF Working, Writing, InHandSteps, PassSteps
<1>5. q \in PassRecords /\ q.step = kind /\ q.todo = pass[p].todo /\ q.r = pass[p].r
  BY <1>1, <1>2, <1>4 DEF PassRecords
<1>6. pass[p].r \in Recipients \ pass[p].todo
  BY <1>1, <1>3, <1>4 DEF PassFine
<1>7. ~ overlap /\ tally.exits = 0 => reached[pass[p].r] = 0
  BY <1>3, <1>4 DEF BlastInv, Undisturbed, NobodyTwice
<1> QED
  BY <1>1, <1>3, <1>4, <1>5, <1>6, <1>7, PassMoves

LEMMA SendAccepted ==
    ASSUME BlastInv, NEW p \in Passes, Is(p, "send"), Then(p, "accepted"),
           reached' = [reached EXCEPT ![pass[p].r] = Min({2, @ + 1})],
           UNCHANGED <<row, overlap, optedIn, blast, tally>>
    PROVE  BlastInv'
<1> USE DEF BlastInv
<1>1. /\ pass \in [Passes -> PassRecords] /\ PassFine(p) /\ reached \in [Recipients -> 0 .. 2]
  BY PassTyped DEF PassesFine, WhatsAppTypeOK
<1>2. PICK r, n : r = pass[p].r /\ n = Min({2, reached[r] + 1})
  OBVIOUS
<1>3. /\ "send" \in Working /\ "accepted" \in Working /\ "accepted" \notin Writing
      /\ "accepted" \in InHandSteps /\ "send" \in InHandSteps /\ "accepted" \in PassSteps
  BY DEF Working, Writing, InHandSteps, PassSteps
<1>4. /\ r \in Recipients \ pass[p].todo /\ ~ NoneWritten
  BY <1>1, <1>2, <1>3 DEF PassFine, Is
<1>5. /\ n \in 0 .. 2 /\ n > 0 /\ (reached[r] = 0 => n = 1)
  BY <1>1, <1>2, <1>4, OneMoreReached
<1>6. /\ reached' \in [Recipients -> 0 .. 2] /\ reached'[r] = n
      /\ \A y \in Recipients \ {r} : reached'[y] = reached[y]
  BY <1>1, <1>2, <1>4, <1>5
<1>7. PICK q : q = [pass[p] EXCEPT !.step = "accepted"]
  OBVIOUS
<1>8. q \in PassRecords /\ q.step = "accepted" /\ q.todo = pass[p].todo /\ q.r = r
  BY <1>1, <1>2, <1>3, <1>7 DEF PassRecords
<1>9. pass' \in [Passes -> PassRecords] /\ pass'[p] = q /\ \A z \in Passes \ {p} : pass'[z] = pass[z]
  BY <1>1, <1>7, <1>8 DEF Then
<1>10. WhatsAppTypeOK'
  BY <1>6, <1>9 DEF WhatsAppTypeOK, PassRecords
<1>11. ~ NoneWritten'
  BY <1>4 DEF NoneWritten
<1>12. WrittenOnce'
  BY <1>3, <1>4, <1>8, <1>9, <1>11 DEF WrittenOnce
<1>13. PassesFine'
  <2> SUFFICES ASSUME NEW z \in Passes PROVE PassFine(z)'
    BY DEF PassesFine
  <2>1. PassFine(z)
    BY DEF PassesFine
  <2>2. CASE z = p
    BY <2>1, <2>2, <1>3, <1>4, <1>5, <1>6, <1>8, <1>9, <1>11 DEF PassFine, Is, InHandSteps
  <2>3. CASE z # p
    <3>1. pass'[z] = pass[z] /\ (Is(z, "accepted") => pass[z].r \in Recipients)
      BY <1>9, <2>1, <2>3 DEF PassFine, Is, InHandSteps
    <3>2. Is(z, "accepted") => reached'[pass[z].r] > 0
      BY <1>5, <1>6, <2>1, <3>1 DEF PassFine
    <3> QED
      BY <2>1, <3>1, <3>2, <1>11 DEF PassFine, Is
  <2> QED
    BY <2>2, <2>3
<1>14. SentWasReached'
  BY <1>5, <1>6 DEF SentWasReached
<1>15. ASSUME Undisturbed PROVE OneAtATime' /\ NobodyTwice'
  <2>1. OneAtATime'
    BY <1>3, <1>8, <1>9, <1>15 DEF OneAtATime, Is
  <2>2. reached[r] = 0 /\ n = 1
    BY <1>2, <1>3, <1>5, <1>15 DEF NobodyTwice, Is
  <2>3. \A y \in Recipients : reached'[y] <= 1
    BY <1>6, <1>15, <2>2 DEF NobodyTwice
  <2>4. ASSUME NEW y \in Recipients, row'[y].status # "SENT", reached'[y] > 0
        PROVE  \E z \in Passes : Is(z, "accepted")' /\ pass'[z].r = y
    <3>1. CASE y = r
      BY <3>1, <1>8, <1>9 DEF Is
    <3>2. CASE y # r
      <4>1. PICK z \in Passes : Is(z, "accepted") /\ pass[z].r = y
        BY <1>6, <1>15, <2>4, <3>2 DEF NobodyTwice
      <4>2. z # p
        BY <4>1 DEF Is
      <4> QED
        BY <1>9, <4>1, <4>2 DEF Is
    <3> QED
      BY <3>1, <3>2
  <2>5. ASSUME NEW z \in Passes
        PROVE  /\ \A y \in pass'[z].todo : reached'[y] = 0
               /\ pass'[z].step \in InHandSteps \ {"accepted"} => reached'[pass'[z].r] = 0
    <3>1. CASE z = p
      BY <1>1, <1>4, <1>6, <1>8, <1>9, <1>15, <3>1 DEF NobodyTwice, PassRecords
    <3>2. CASE z # p
      <4>1. pass[z].step \notin Working
        BY <1>3, <1>15, <3>2 DEF OneAtATime, Is
      <4>2. PassFine(z) /\ pass'[z] = pass[z] /\ InHandSteps \subseteq Working
        BY <1>9, <3>2 DEF PassesFine, InHandSteps, Working
      <4> QED
        BY <4>1, <4>2 DEF PassFine
    <3> QED
      BY <3>1, <3>2
  <2> QED
    BY <2>1, <2>3, <2>4, <2>5 DEF NobodyTwice
<1> QED
  BY <1>10, <1>12, <1>13, <1>14, <1>15 DEF Undisturbed

LEMMA LoadStep ==
    ASSUME BlastInv, NEW p \in Passes, LoadPending(p)
    PROVE  BlastInv'
<1> USE DEF BlastInv
<1>1. /\ pass \in [Passes -> PassRecords] /\ row \in [Recipients -> RowRecords]
      /\ PassFine(p) /\ pass[p].step = "load"
  BY PassTyped DEF PassesFine, WhatsAppTypeOK, RowRecords, LoadPending, Is
<1>2. UNCHANGED <<blast, row, optedIn, reached, tally>>
  BY DEF LoadPending
<1>3. PICK todo, q :
        /\ todo \in SUBSET Recipients
        /\ todo = {r \in Recipients : row[r].status \in {"PENDING", "FAILED"} /\ row[r].attempts < SendAttempts}
        /\ q = [pass[p] EXCEPT !.step = "next", !.todo = todo]
  OBVIOUS
<1>4. pass' = [pass EXCEPT ![p] = q]
  BY <1>1, <1>3 DEF LoadPending, PassRecords
<1>5. q \in PassRecords /\ q.step = "next" /\ q.todo = todo
  <2>1. "next" \in PassSteps
    BY DEF PassSteps, Working
  <2> QED
    BY <1>1, <1>3, <2>1 DEF PassRecords
<1>6. pass' \in [Passes -> PassRecords] /\ pass'[p] = q /\ \A z \in Passes \ {p} : pass'[z] = pass[z]
  BY <1>1, <1>4, <1>5
<1>7. "next" \in Working /\ "next" \notin Writing /\ "next" \notin InHandSteps /\ InHandSteps \subseteq Working
  BY DEF Working, Writing, InHandSteps
<1>8. overlap' \in BOOLEAN
  BY DEF LoadPending, WhatsAppTypeOK
<1>9. WhatsAppTypeOK'
  BY <1>2, <1>6, <1>8 DEF WhatsAppTypeOK, PassRecords
<1>10. WrittenOnce'
  BY <1>2, <1>5, <1>6, <1>7 DEF WrittenOnce, NoneWritten
<1>11. PassesFine'
  <2> SUFFICES ASSUME NEW z \in Passes PROVE PassFine(z)'
    BY DEF PassesFine
  <2>1. PassFine(z) /\ (NoneWritten' <=> NoneWritten)
    BY <1>2 DEF PassesFine, NoneWritten
  <2>2. todo # {} => ~ NoneWritten
    BY <1>3 DEF NoneWritten
  <2>3. CASE z = p
    BY <2>1, <2>2, <2>3, <1>2, <1>5, <1>6, <1>7 DEF PassFine, Is
  <2>4. CASE z # p
    BY <2>1, <2>4, <1>2, <1>6 DEF PassFine, Is
  <2> QED
    BY <2>3, <2>4
<1>12. SentWasReached'
  BY <1>2 DEF SentWasReached
<1>13. ASSUME Undisturbed' PROVE OneAtATime' /\ NobodyTwice'
  <2>1. Undisturbed /\ \A z \in Passes \ {p} : pass[z].step \notin Working
    BY <1>2, <1>13 DEF Undisturbed, LoadPending, WhatsAppTypeOK
  <2>2. OneAtATime'
    BY <1>6, <2>1 DEF OneAtATime
  <2>3. \A z \in Passes : ~ Is(z, "accepted")
    BY <1>1, <2>1 DEF Is, Working
  <2>4. \A r \in Recipients : row[r].status # "SENT" => ~ (reached[r] > 0)
    BY <2>1, <2>3 DEF NobodyTwice
  <2>5. \A r \in todo : reached[r] = 0
    BY <1>3, <2>4 DEF WhatsAppTypeOK
  <2>6. \A z \in Passes \ {p} : pass'[z].todo = {} /\ pass'[z].step \notin InHandSteps
    BY <1>6, <1>7, <2>1 DEF PassesFine, PassFine
  <2> QED
    BY <1>2, <1>5, <1>6, <1>7, <2>1, <2>2, <2>4, <2>5, <2>6 DEF NobodyTwice
<1> QED
  BY <1>9, <1>10, <1>11, <1>12, <1>13

(* The rows are written down, or failed ones start over.                   *)
LEMMA WriteStep ==
    ASSUME BlastInv, NEW p \in Passes, WriteRecipients(p)
    PROVE  BlastInv'
<1> USE DEF BlastInv
<1>1. /\ pass \in [Passes -> PassRecords] /\ PassFine(p) /\ pass[p].step \in Writing
      /\ UNCHANGED <<blast, optedIn, reached, overlap, tally>>
  BY PassTyped DEF PassesFine, WriteRecipients, Writing
<1>2. /\ NoneWritten /\ blast.status # "NONE"
      /\ \A z \in Passes \ {p} : pass[z].step \notin Writing
      /\ \A r \in Recipients : reached[r] = 0
  BY <1>1 DEF WrittenOnce
<1>3. /\ \A z \in Passes : pass[z].todo = {} /\ pass[z].step \notin InHandSteps
  BY <1>2 DEF PassesFine, PassFine
<1>4. PICK q : /\ q = NoPass \/ q = [pass[p] EXCEPT !.step = "start"]
               /\ pass' = [pass EXCEPT ![p] = q]
  BY DEF WriteRecipients, Stop, Then
<1>5. NoPass \in PassRecords /\ NoPass.todo = {} /\ NoPass.step = "idle" /\ "start" \in PassSteps
  BY DEF PassRecords, NoPass, PassSteps, BlastStates
<1>6. q \in PassRecords /\ q.todo = {} /\ q.step \in {"idle", "start"}
  BY <1>1, <1>3, <1>4, <1>5 DEF PassRecords
<1>7. q.step \notin Writing /\ q.step \notin Working /\ q.step \notin InHandSteps
      /\ q.step # "settle" /\ q.step # "accepted"
  BY <1>6 DEF Writing, Working, InHandSteps
<1>8. pass' \in [Passes -> PassRecords] /\ pass'[p] = q /\ \A z \in Passes \ {p} : pass'[z] = pass[z]
  BY <1>1, <1>4, <1>6
<1>9. /\ row' \in [Recipients -> RowRecords]
      /\ \A r \in Recipients : row'[r].status = "PENDING"
  BY DEF WriteRecipients, RowRecords
<1>10. WhatsAppTypeOK'
  BY <1>1, <1>8, <1>9 DEF WhatsAppTypeOK, PassRecords, RowRecords
<1>11. WrittenOnce'
  BY <1>1, <1>2, <1>7, <1>8 DEF WrittenOnce
<1>12. PassesFine'
  <2> SUFFICES ASSUME NEW z \in Passes PROVE PassFine(z)'
    BY DEF PassesFine
  <2>1. PassFine(z)
    BY DEF PassesFine
  <2> QED
    BY <2>1, <1>1, <1>3, <1>6, <1>7, <1>8 DEF PassFine, Is, InHandSteps
<1>13. SentWasReached'
  BY <1>9 DEF SentWasReached
<1>14. ASSUME Undisturbed PROVE OneAtATime' /\ NobodyTwice'
  BY <1>1, <1>2, <1>3, <1>6, <1>7, <1>8, <1>14 DEF OneAtATime, NobodyTwice
<1> QED
  BY <1>1, <1>10, <1>11, <1>12, <1>13, <1>14 DEF Undisturbed

LEMMA ResetStep ==
    ASSUME BlastInv, NEW p \in Passes, ResetFailed(p)
    PROVE  BlastInv'
<1> USE DEF BlastInv
<1>1. /\ pass \in [Passes -> PassRecords] /\ PassFine(p) /\ pass[p].step = "reset"
      /\ row \in [Recipients -> RowRecords]
      /\ UNCHANGED <<blast, optedIn, reached, overlap, tally>>
  BY PassTyped DEF PassesFine, ResetFailed, Is, WhatsAppTypeOK, RowRecords
<1>2. PICK q : q = [pass[p] EXCEPT !.step = "dispatch"]
  OBVIOUS
<1>3. pass[p].todo = {} /\ "dispatch" \in PassSteps
  BY <1>1 DEF PassFine, Working, PassSteps
<1>4. q \in PassRecords /\ q.todo = {} /\ q.step = "dispatch"
  BY <1>1, <1>2, <1>3 DEF PassRecords
<1>5. pass' \in [Passes -> PassRecords] /\ pass'[p] = q /\ \A z \in Passes \ {p} : pass'[z] = pass[z]
  BY <1>1, <1>2, <1>4 DEF ResetFailed, Then
<1>6. /\ row' \in [Recipients -> RowRecords]
      /\ \A r \in Recipients : /\ row'[r].status = "NONE" <=> row[r].status = "NONE"
                               /\ row'[r].status = "SENT" <=> row[r].status = "SENT"
  BY <1>1 DEF ResetFailed, RowRecords
<1>7. WhatsAppTypeOK'
  BY <1>1, <1>5, <1>6 DEF WhatsAppTypeOK, PassRecords, RowRecords
<1>8. NoneWritten' <=> NoneWritten
  BY <1>6 DEF NoneWritten
<1>9. /\ "dispatch" \notin Writing /\ "dispatch" \notin Working /\ "dispatch" \notin InHandSteps
      /\ "reset" \notin Working
  BY DEF Writing, Working, InHandSteps
<1>10. WrittenOnce'
  BY <1>1, <1>4, <1>5, <1>8, <1>9 DEF WrittenOnce
<1>11. PassesFine'
  <2> SUFFICES ASSUME NEW z \in Passes PROVE PassFine(z)'
    BY DEF PassesFine
  <2>1. PassFine(z)
    BY DEF PassesFine
  <2> QED
    BY <2>1, <1>1, <1>4, <1>5, <1>8, <1>9 DEF PassFine, Is
<1>12. SentWasReached'
  BY <1>1, <1>6 DEF SentWasReached
<1>13. ASSUME Undisturbed PROVE OneAtATime' /\ NobodyTwice'
  <2>1. OneAtATime'
    BY <1>4, <1>5, <1>9, <1>13 DEF OneAtATime
  <2>2. ASSUME NEW r \in Recipients, row'[r].status # "SENT", reached[r] > 0
        PROVE  \E z \in Passes : Is(z, "accepted")' /\ pass'[z].r = r
    <3>1. PICK z \in Passes : Is(z, "accepted") /\ pass[z].r = r
      BY <1>6, <1>13, <2>2 DEF NobodyTwice
    <3> QED
      BY <1>1, <1>5, <3>1 DEF Is
  <2>3. ASSUME NEW z \in Passes
        PROVE  /\ \A r \in pass'[z].todo : reached[r] = 0
               /\ pass'[z].step \in InHandSteps \ {"accepted"} => reached[pass'[z].r] = 0
    BY <1>4, <1>5, <1>9, <1>13 DEF NobodyTwice
  <2> QED
    BY <1>1, <1>13, <2>1, <2>2, <2>3 DEF NobodyTwice
<1> QED
  BY <1>1, <1>7, <1>10, <1>11, <1>12, <1>13 DEF Undisturbed

LEMMA LaunchStep ==
    ASSUME BlastInv, NEW p \in Passes, NEW dated \in BOOLEAN, Launch(p, dated)
    PROVE  BlastInv'
<1> USE DEF BlastInv
<1>1. /\ pass \in [Passes -> PassRecords] /\ blast.status = "NONE" /\ pass[p] = NoPass
      /\ UNCHANGED <<row, optedIn, reached, overlap, tally>>
  BY PassTyped DEF Launch, Open
<1>14. pass[p].step = "idle" /\ pass[p].todo = {}
  BY <1>1 DEF NoPass
<1>2. NoneWritten /\ (\A z \in Passes : pass[z].step \notin Writing)
  BY <1>1 DEF WrittenOnce
<1>3. PICK s \in Writing : pass' = [pass EXCEPT ![p].step = s]
  BY DEF Launch, Open, Writing
<1>4. PICK q : q = [pass[p] EXCEPT !.step = s]
  OBVIOUS
<1>5. /\ s \in PassSteps /\ s \notin Working /\ s \notin InHandSteps /\ "idle" \notin Working
  BY DEF Writing, Working, InHandSteps, PassSteps
<1>6. q \in PassRecords /\ q.todo = {} /\ q.step = s
  BY <1>1, <1>4, <1>5, <1>14 DEF PassRecords
<1>7. pass' \in [Passes -> PassRecords] /\ pass'[p] = q /\ \A z \in Passes \ {p} : pass'[z] = pass[z]
  BY <1>1, <1>3, <1>4, <1>6
<1>8. blast' \in [status : BlastStates, dated : BOOLEAN, parked : BOOLEAN] /\ blast'.status # "NONE"
  <2>1. blast' \in [status : {"SCHEDULED", "SENDING"}, dated : BOOLEAN, parked : BOOLEAN]
    BY DEF Launch
  <2> QED
    BY <2>1 DEF BlastStates
<1>9. WhatsAppTypeOK'
  BY <1>1, <1>7, <1>8 DEF WhatsAppTypeOK, PassRecords
<1>10. WrittenOnce'
  BY <1>1, <1>2, <1>7, <1>8 DEF WrittenOnce, NoneWritten
<1>11. PassesFine'
  <2> SUFFICES ASSUME NEW z \in Passes PROVE PassFine(z)'
    BY DEF PassesFine
  <2>1. PassFine(z) /\ (NoneWritten' <=> NoneWritten)
    BY <1>1 DEF PassesFine, NoneWritten
  <2>2. s # "accepted" /\ s # "settle"
    BY <1>5 DEF Working
  <2> QED
    BY <2>1, <2>2, <1>1, <1>5, <1>6, <1>7, <1>14 DEF PassFine, Is
<1>12. SentWasReached'
  BY <1>1 DEF SentWasReached
<1>13. ASSUME Undisturbed PROVE OneAtATime' /\ NobodyTwice'
  <2>1. OneAtATime'
    BY <1>5, <1>6, <1>7, <1>14, <1>13 DEF OneAtATime
  <2>2. \A r \in Recipients : reached[r] = 0
    BY <1>2 DEF WrittenOnce
  <2>3. ASSUME NEW z \in Passes
        PROVE  /\ \A r \in pass'[z].todo : reached[r] = 0
               /\ pass'[z].step \in InHandSteps \ {"accepted"} => reached[pass'[z].r] = 0
    BY <1>5, <1>6, <1>7, <1>14, <1>13 DEF NobodyTwice
  <2> QED
    BY <1>1, <2>1, <2>2, <2>3 DEF NobodyTwice
<1> QED
  BY <1>1, <1>9, <1>10, <1>11, <1>12, <1>13 DEF Undisturbed

(* Steps outside the passes, which leave rows and messages alone, and the  *)
(* exit, which only ends passes.                                           *)
LEMMA OutsideStep ==
    ASSUME BlastInv,
           \/ \E r \in Recipients : OptOut(r)
           \/ RestoreParked \/ FlipSwitch \/ UNCHANGED blastVars
    PROVE  BlastInv'
<1> USE DEF BlastInv
<1>1. UNCHANGED <<row, pass, reached, overlap>> /\ tally'.exits = tally.exits
  BY DEF OptOut, RestoreParked, FlipSwitch, blastVars, WhatsAppTypeOK
<1>2. /\ optedIn' \subseteq Recipients
      /\ blast' \in [status : BlastStates, dated : BOOLEAN, parked : BOOLEAN]
      /\ blast'.status = "NONE" => blast.status = "NONE"
  BY DEF OptOut, RestoreParked, FlipSwitch, blastVars, WhatsAppTypeOK, BlastStates
<1>3. tally' \in [resumes : Nat, exits : Nat, switches : Nat, refusals : Nat]
  BY DEF OptOut, RestoreParked, FlipSwitch, blastVars, WhatsAppTypeOK
<1>4. WhatsAppTypeOK'
  BY <1>1, <1>2, <1>3 DEF WhatsAppTypeOK
<1>5. WrittenOnce' /\ PassesFine' /\ SentWasReached'
  BY <1>1, <1>2 DEF WrittenOnce, PassesFine, SentWasReached, PassFine, NoneWritten, Is
<1>6. Undisturbed' = Undisturbed
  BY <1>1 DEF Undisturbed
<1>7. Undisturbed => OneAtATime' /\ NobodyTwice'
  BY <1>1 DEF OneAtATime, NobodyTwice, Is
<1> QED
  BY <1>4, <1>5, <1>6, <1>7

LEMMA ExitStep ==
    ASSUME BlastInv, Exit
    PROVE  BlastInv'
<1> USE DEF BlastInv
<1>1. /\ pass' = [p \in Passes |-> NoPass] /\ tally' = [tally EXCEPT !.exits = @ + 1]
      /\ UNCHANGED <<blast, row, optedIn, reached, overlap>>
  BY DEF Exit
<1>2. /\ NoPass \in PassRecords /\ NoPass.todo = {} /\ NoPass.step = "idle"
      /\ "idle" \notin Writing \cup InHandSteps
  BY DEF PassRecords, NoPass, PassSteps, BlastStates, Writing, InHandSteps
<1>3. /\ tally' \in [resumes : Nat, exits : Nat, switches : Nat, refusals : Nat]
      /\ tally'.exits # 0
  BY <1>1 DEF WhatsAppTypeOK
<1>4. pass' \in [Passes -> PassRecords]
  BY <1>1, <1>2
<1>5. WhatsAppTypeOK'
  BY <1>1, <1>3, <1>4 DEF WhatsAppTypeOK, PassRecords
<1>6. WrittenOnce' /\ SentWasReached'
  BY <1>1, <1>2 DEF WrittenOnce, SentWasReached, NoneWritten
<1>7. PassesFine'
  BY <1>1, <1>2 DEF PassesFine, PassFine, Is
<1> QED
  BY <1>3, <1>5, <1>6, <1>7 DEF Undisturbed

LEMMA BlastNextInv == BlastInv /\ [WhatsAppNext]_blastVars => BlastInv'
<1> SUFFICES ASSUME BlastInv, [WhatsAppNext]_blastVars PROVE BlastInv'
  OBVIOUS
<1>1. ASSUME NEW p \in Passes, PassStep(p) PROVE BlastInv'
  <2>1. CASE \/ WriteRecipients(p) \/ LoadPending(p) \/ NextRecipient(p) \/ ResetFailed(p)
    BY <2>1, WriteStep, LoadStep, NextRecipientStep, ResetStep
  <2>2. CASE \/ StartPass(p) \/ Dispatch(p) \/ Park(p) \/ MarkSendingNow(p) \/ WriteCancel(p)
    BY <2>2, RestStart, RestMark
  <2>3. CASE \/ RecordSent(p) \/ RecordRefusal(p) \/ CountRows(p) \/ Settle(p)
    BY <2>3, RecordSteps, SettleSteps
  <2>4. CASE SendTemplate(p)
    BY <2>4, SendAccepted, SendRefused DEF SendTemplate
  <2> QED
    BY <1>1, <2>1, <2>2, <2>3, <2>4 DEF PassStep
<1>2. ASSUME NEW p \in Passes,
             \/ RequireEligible(p) \/ RecordSentFails(p) \/ WorkerPass(p) \/ SweepDue(p)
             \/ Resume(p) \/ CancelCampaign(p)
      PROVE  BlastInv'
  BY <1>2, RestMark, RestStart, RestOpen, SettleSteps
<1>3. ASSUME NEW p \in Passes, NEW dated \in BOOLEAN, Launch(p, dated) PROVE BlastInv'
  BY <1>3, LaunchStep
<1>4. CASE Exit
  BY <1>4, ExitStep
<1>5. CASE \/ \E r \in Recipients : OptOut(r)
           \/ RestoreParked \/ FlipSwitch \/ UNCHANGED blastVars
  BY <1>5, OutsideStep
<1> QED
  BY <1>1, <1>2, <1>3, <1>4, <1>5 DEF WhatsAppNext

(* "A campaign that stops halfway and is resumed does not message anyone   *)
(* twice", for any number of recipients, passes, resumes and switches, as  *)
(* long as passes do not overlap and none is cut off after a message.      *)
THEOREM NobodyIsMessagedTwice == WhatsAppSpec => []ReachedOnce
<1>1. BlastInv => ReachedOnce
  BY DEF BlastInv, NobodyTwice, SentWasReached, ReachedOnce
<1> QED
  BY <1>1, BlastInit, BlastNextInv, PTL DEF WhatsAppSpec

----------------------------------------------------------------------------
(***************************************************************************)
(* SMS credits.  Every credit that was bought is in the balance, with a    *)
(* send that runs, with a message the provider accepted, or kept from a    *)
(* send that was cut off, for any number of campaigns, workers, purchases, *)
(* failing statements and exits.                                           *)
(*                                                                         *)
(* The property speaks of rest.  In between, a send has taken its quote    *)
(* and not settled it, so the invariant is an equation with one more term, *)
(* what each execution still owes (Outstanding); every step moves both     *)
(* sides alike, and one that cuts an execution off moves its term to kept. *)
(***************************************************************************)

SmsSpec == SmsInit /\ [][SmsNext]_smsVars

CampaignSteps == {"quote", "mark", "hand over", "sender", "reserve", "record", "provider",
                  "settle", "refund all", "mark sent"}
SmsSteps == {"idle", "buy"} \cup CampaignSteps
Portions == 0 .. Cost
SendRecords == [step : SmsSteps, c : Campaigns \cup Receipts \cup {"none"}, runs : Nat,
                accepted : Portions]
JobRecords == [c : Campaigns, runs : Nat, by : Senders]

SmsTypeOK ==
    /\ credit \in Nat
    /\ campaign \in [Campaigns -> {"NONE", "DRAFT", "SCHEDULED", "SENDING", "SENT"}]
    /\ send \in [Senders -> SendRecords]
    /\ jobs \subseteq JobRecords
    /\ delivered \in [Campaigns -> Nat]
    /\ IsFiniteSet(bought)
    /\ unpaid \in Nat /\ kept \in Nat /\ stops \in Nat

AboutACampaign(e) == e.step \in CampaignSteps => e.c \in Campaigns

Reserved(sends) == [s \in Senders |-> Outstanding(sends[s])]

Books == SumFunctionOnSet(Reserved(send), Senders) + SumFunctionOnSet(delivered, Campaigns) + credit + kept
            = OpeningCredit + Package * Cardinality(bought) + unpaid

SmsInv ==
    /\ SmsTypeOK
    /\ \A s \in Senders : AboutACampaign(send[s])
    /\ Books
    /\ stops = 0 => kept = 0

LEMMA PortionsFit ==
    0 \in Portions /\ \A n \in Portions : n \in Nat /\ Cost - n \in Nat
BY SmsAssumption DEF Portions

LEMMA OutstandingIsNat ==
    ASSUME NEW e \in SendRecords
    PROVE  Outstanding(e) \in Nat
<1>1. Cost \in Nat /\ e.accepted \in 0 .. Cost
  BY SmsAssumption DEF SendRecords, Portions
<1>2. Cost - e.accepted \in Nat
  BY <1>1
<1> QED
  BY <1>1, <1>2 DEF Outstanding

LEMMA NothingReserved ==
    /\ NoSend \in SendRecords /\ Outstanding(NoSend) = 0 /\ AboutACampaign(NoSend)
    /\ NoSend.accepted = 0 /\ NoSend.step = "idle"
<1>1. 0 \in Portions
  BY SmsAssumption DEF Portions
<1> QED
  BY <1>1 DEF NoSend, SendRecords, SmsSteps, CampaignSteps, Outstanding, AboutACampaign

LEMMA ReservedChanges ==
    ASSUME NEW sends \in [Senders -> SendRecords], NEW s \in Senders, NEW e \in SendRecords,
           NEW after, after = [sends EXCEPT ![s] = e]
    PROVE  /\ SumFunctionOnSet(Reserved(sends), Senders) \in Int
           /\ SumFunctionOnSet(Reserved(after), Senders)
                = SumFunctionOnSet(Reserved(sends), Senders) - Outstanding(sends[s]) + Outstanding(e)
<1>1. PICK f, g : f = Reserved(sends) /\ g = Reserved(after)
  OBVIOUS
<1>2. after \in [Senders -> SendRecords] /\ after[s] = e /\ \A z \in Senders \ {s} : after[z] = sends[z]
  OBVIOUS
<1>3. /\ \A z \in Senders : f[z] = Outstanding(sends[z]) /\ f[z] \in Int
      /\ \A z \in Senders : g[z] = Outstanding(after[z]) /\ g[z] \in Int
  BY <1>1, <1>2, OutstandingIsNat DEF Reserved
<1>4. \A z \in Senders \ {s} : g[z] = f[z]
  BY <1>2, <1>3
<1>5. IsFiniteSet(Senders)
  BY SmsAssumption
<1>6. SumFunctionOnSet(f, Senders) \in Int
  BY <1>3, <1>5, SumRemove
<1>7. SumFunctionOnSet(g, Senders) = SumFunctionOnSet(f, Senders) - f[s] + g[s]
  BY <1>3, <1>4, <1>5, SumChange
<1> QED
  BY <1>1, <1>2, <1>3, <1>6, <1>7

LEMMA SmsInitInv == SmsInit => SmsInv
<1> SUFFICES ASSUME SmsInit PROVE SmsInv
  OBVIOUS
<1>1. SmsTypeOK
  BY NothingReserved, SmsAssumption, FS_EmptySet DEF SmsInit, SmsTypeOK
<1>2. \A s \in Senders : AboutACampaign(send[s])
  BY NothingReserved DEF SmsInit
<1>3. /\ \A s \in Senders : Reserved(send)[s] = 0
      /\ \A c \in Campaigns : delivered[c] = 0
  BY NothingReserved DEF SmsInit, Reserved
<1>4. /\ SumFunctionOnSet(Reserved(send), Senders) = 0
      /\ SumFunctionOnSet(delivered, Campaigns) = 0
  BY <1>3, SumZero, SmsAssumption
<1>5. credit = OpeningCredit /\ Cardinality(bought) = 0 /\ OpeningCredit \in Nat /\ Package \in Nat
  BY FS_EmptySet, SmsAssumption DEF SmsInit
<1>6. unpaid = 0 /\ kept = 0
  BY DEF SmsInit
<1>7. Books
  BY <1>4, <1>5, <1>6 DEF Books
<1> QED
  BY <1>1, <1>2, <1>6, <1>7 DEF SmsInv

LEMMA OneMorePackage == \A n, m \in Nat : m * (n + 1) = m * n + m /\ m * n \in Nat
OBVIOUS

(* A step of one execution that leaves purchases and deliveries alone: it  *)
(* moves between the credit and what the execution has reserved.           *)
LEMMA ReservationMoves ==
    ASSUME SmsInv, NEW s \in Senders, NEW e \in SendRecords,
           send' = [send EXCEPT ![s] = e], AboutACampaign(e),
           credit' \in Nat, jobs' \subseteq JobRecords,
           campaign' \in [Campaigns -> {"NONE", "DRAFT", "SCHEDULED", "SENDING", "SENT"}],
           UNCHANGED <<delivered, bought>>, unpaid' \in Nat, kept' \in Nat,
           stops' \in Nat, stops' = 0 => kept' = 0,
           credit' + kept' + Outstanding(e) + unpaid = credit + kept + Outstanding(send[s]) + unpaid'
    PROVE  SmsInv'
<1> USE DEF SmsInv
<1>1. /\ send \in [Senders -> SendRecords] /\ credit \in Nat /\ delivered \in [Campaigns -> Nat]
      /\ unpaid \in Nat /\ kept \in Nat
  BY DEF SmsTypeOK
<1>2. send' \in [Senders -> SendRecords] /\ send'[s] = e /\ \A z \in Senders \ {s} : send'[z] = send[z]
  BY <1>1
<1>3. SmsTypeOK'
  BY <1>2 DEF SmsTypeOK
<1>4. \A z \in Senders : AboutACampaign(send'[z])
  BY <1>2
<1>5. Books'
  <2>1. PICK f, g : f = SumFunctionOnSet(Reserved(send), Senders)
                    /\ g = SumFunctionOnSet(Reserved(send'), Senders)
    OBVIOUS
  <2>2. f \in Int /\ g = f - Outstanding(send[s]) + Outstanding(e)
    BY <1>1, <2>1, ReservedChanges
  <2>3. PICK o \in Nat, o2 \in Nat : o = Outstanding(send[s]) /\ o2 = Outstanding(e)
    BY <1>1, OutstandingIsNat
  <2>4. PICK d, b : d = SumFunctionOnSet(delivered, Campaigns)
                    /\ b = OpeningCredit + Package * Cardinality(bought)
    OBVIOUS
  <2>5. d \in Int
    BY <1>1, <2>4, SumRemove, SmsAssumption
  <2>6. f + d + credit + kept = b + unpaid
    BY <2>1, <2>4 DEF Books
  <2>7. b \in Int
    <3>1. Cardinality(bought) \in Nat /\ Package \in Nat /\ OpeningCredit \in Nat
      BY FS_CardinalityType, SmsAssumption DEF SmsTypeOK
    <3> QED
      BY <2>4, <3>1, OneMorePackage
  <2>8. g + d + credit' + kept' = b + unpaid'
    <3>1. credit' + kept' + o2 + unpaid = credit + kept + o + unpaid'
      BY <2>3
    <3>2. g = f - o + o2
      BY <2>2, <2>3
    <3> QED
      BY <1>1, <2>2, <2>3, <2>5, <2>6, <2>7, <3>1, <3>2
  <2> QED
    BY <2>1, <2>4, <2>8 DEF Books
<1> QED
  BY <1>3, <1>4, <1>5

Statuses == {"NONE", "DRAFT", "SCHEDULED", "SENDING", "SENT"}

LEMMA SmsTyped ==
    ASSUME SmsInv
    PROVE  /\ credit \in Nat /\ campaign \in [Campaigns -> Statuses] /\ jobs \subseteq JobRecords
           /\ send \in [Senders -> SendRecords] /\ delivered \in [Campaigns -> Nat] /\ stops \in Nat
           /\ unpaid \in Nat /\ kept \in Nat /\ (stops = 0 => kept = 0)
           /\ \A s \in Senders : AboutACampaign(send[s])
BY DEF SmsInv, SmsTypeOK, Statuses

(* The execution goes on to another step for the same campaign. *)
LEMMA GoesOn ==
    ASSUME SmsInv, NEW s \in Senders, NEW step \in CampaignSteps,
           send[s].step \in CampaignSteps, ThenDo(s, step),
           credit' \in Nat, unpaid' \in Nat, UNCHANGED <<jobs, delivered, bought, kept>>,
           campaign' \in [Campaigns -> Statuses],
           stops' \in Nat, stops' = 0 => stops = 0,
           credit' + Outstanding([send[s] EXCEPT !.step = step]) + unpaid
               = credit + Outstanding(send[s]) + unpaid'
    PROVE  SmsInv'
<1>1. PICK e : e = [send[s] EXCEPT !.step = step]
  OBVIOUS
<1>2. e \in SendRecords /\ e.step = step /\ e.c = send[s].c
  BY <1>1, SmsTyped DEF SendRecords, SmsSteps
<1>3. AboutACampaign(e)
  BY <1>2, SmsTyped DEF AboutACampaign
<1>4. send' = [send EXCEPT ![s] = e]
  BY <1>1 DEF ThenDo
<1>5. /\ jobs' \subseteq JobRecords /\ credit \in Nat /\ unpaid \in Nat /\ kept \in Nat
      /\ send[s] \in SendRecords /\ kept' \in Nat /\ (stops' = 0 => kept' = 0)
  BY SmsTyped
<1>6. PICK o \in Nat, o2 \in Nat : o = Outstanding(send[s]) /\ o2 = Outstanding(e)
  BY <1>2, <1>5, OutstandingIsNat
<1>7. credit' + o2 + unpaid = credit + o + unpaid'
  BY <1>1, <1>6
<1>8. credit' + kept' + o2 + unpaid = credit + kept + o + unpaid'
  BY <1>5, <1>7
<1> QED
  BY <1>2, <1>3, <1>4, <1>5, <1>6, <1>8, ReservationMoves DEF Statuses

(* The execution ends, perhaps leaving a job behind. *)
LEMMA Ends ==
    ASSUME SmsInv, NEW s \in Senders, Close(s), credit' \in Nat, jobs' \subseteq JobRecords,
           campaign' \in [Campaigns -> Statuses],
           UNCHANGED <<delivered, bought, unpaid, kept, stops>>,
           credit' = credit + Outstanding(send[s])
    PROVE  SmsInv'
<1>1. /\ credit \in Nat /\ unpaid \in Nat /\ kept \in Nat /\ send[s] \in SendRecords /\ stops \in Nat
      /\ (stops = 0 => kept = 0)
  BY SmsTyped
<1>2. PICK o \in Nat : o = Outstanding(send[s])
  BY <1>1, OutstandingIsNat
<1>3. credit' + kept' + 0 + unpaid = credit + kept + o + unpaid'
  BY <1>1, <1>2
<1> QED
  BY <1>1, <1>2, <1>3, NothingReserved, ReservationMoves DEF Close, Statuses

(* The execution is cut off, and what it has reserved stays taken. *)
LEMMA BreaksOff ==
    ASSUME SmsInv, NEW s \in Senders, Close(s), jobs' \subseteq JobRecords, stops' = stops + 1,
           UNCHANGED <<credit, campaign, delivered, bought, unpaid>>,
           kept' = kept + Outstanding(send[s])
    PROVE  SmsInv'
<1>1. /\ credit \in Nat /\ unpaid \in Nat /\ kept \in Nat /\ send[s] \in SendRecords /\ stops \in Nat
      /\ campaign \in [Campaigns -> Statuses]
  BY SmsTyped
<1>2. PICK o \in Nat : o = Outstanding(send[s])
  BY <1>1, OutstandingIsNat
<1>3. credit' + kept' + 0 + unpaid = credit + kept + o + unpaid' /\ kept' \in Nat
  BY <1>1, <1>2
<1>4. stops' \in Nat /\ stops' # 0
  BY <1>1
<1> QED
  BY <1>1, <1>2, <1>3, <1>4, NothingReserved, ReservationMoves DEF Close, Statuses

(* An idle execution takes something up. *)
LEMMA Begins ==
    ASSUME SmsInv, NEW s \in Senders, NEW step \in {"quote", "sender", "buy"}, NEW c, NEW runs \in Nat,
           Begin(s, step, c, runs), c \in Campaigns \/ (step = "buy" /\ c \in Receipts),
           jobs' \subseteq JobRecords,
           UNCHANGED <<credit, campaign, delivered, bought, unpaid, kept, stops>>
    PROVE  SmsInv'
<1>1. PICK e : e = [step |-> step, c |-> c, runs |-> runs, accepted |-> 0]
  OBVIOUS
<1>2. 0 \in Portions /\ step \in SmsSteps
  BY PortionsFit DEF SmsSteps, CampaignSteps
<1>3. e \in SendRecords
  BY <1>1, <1>2 DEF SendRecords
<1>4. AboutACampaign(e)
  BY <1>1 DEF AboutACampaign, CampaignSteps
<1>5. Outstanding(e) = 0 /\ Outstanding(send[s]) = 0
  BY <1>1, NothingReserved DEF Begin, Outstanding
<1>6. send' = [send EXCEPT ![s] = e]
  BY <1>1 DEF Begin
<1>7. credit' + kept' + 0 + unpaid = credit + kept + 0 + unpaid'
  OBVIOUS
<1> QED
  BY <1>3, <1>4, <1>5, <1>6, <1>7, SmsTyped, ReservationMoves DEF Statuses

(* What a job that threw leaves in the queue. *)
LEMMA ThrowLeaves ==
    ASSUME SmsInv, NEW s \in Senders, Throw(s), send[s].step \in CampaignSteps
    PROVE  jobs' \subseteq JobRecords /\ Close(s)
<1>1. send[s].c \in Campaigns /\ send[s].runs \in Nat /\ jobs \subseteq JobRecords
  BY SmsTyped DEF AboutACampaign, SendRecords
<1>2. send[s].runs > 1 => send[s].runs - 1 \in Nat
  BY <1>1
<1>3. send[s].runs > 1 => [c |-> On(s), runs |-> send[s].runs - 1, by |-> s] \in JobRecords
  BY <1>1, <1>2 DEF On, JobRecords
<1> QED
  BY <1>1, <1>3 DEF Throw

LEMMA SendOrder ==
    ASSUME SmsInv, NEW s \in Senders,
           \/ Quote(s) \/ MarkSending(s) \/ HandToQueue(s) \/ HandToSelf(s) \/ RequireApproved(s)
    PROVE  SmsInv'
<1> USE DEF Doing
<1>1. send[s].step \in {"quote", "mark", "hand over", "sender"}
  BY DEF Quote, MarkSending, HandToQueue, HandToSelf, RequireApproved
<1>2. send[s].step \in CampaignSteps /\ Outstanding(send[s]) = 0
  BY <1>1 DEF CampaignSteps, Outstanding
<1>3. send[s].c \in Campaigns
  BY <1>2, SmsTyped DEF AboutACampaign
<1>4. UNCHANGED <<credit, delivered, bought, unpaid, kept, stops>>
  BY DEF Quote, MarkSending, HandToQueue, HandToSelf, RequireApproved
<1>5. campaign' \in [Campaigns -> Statuses]
  BY <1>3, SmsTyped DEF Quote, MarkSending, HandToQueue, HandToSelf, RequireApproved, On, Statuses
<1>6. ASSUME NEW step \in {"mark", "hand over", "sender", "reserve"}, ThenDo(s, step), UNCHANGED jobs
      PROVE  SmsInv'
  <2>1. [send[s] EXCEPT !.step = step].step = step
    BY SmsTyped DEF SendRecords
  <2>2. step \in CampaignSteps /\ Outstanding([send[s] EXCEPT !.step = step]) = 0
    BY <2>1 DEF CampaignSteps, Outstanding
  <2> QED
    BY <1>2, <1>4, <1>5, <1>6, <2>2, SmsTyped, GoesOn
<1>7. ASSUME Close(s), jobs' \subseteq JobRecords PROVE SmsInv'
  BY <1>2, <1>4, <1>5, <1>7, SmsTyped, Ends
<1>8. CASE Quote(s)
  BY <1>6, <1>7, <1>8, SmsTyped DEF Quote
<1>9. CASE MarkSending(s)
  BY <1>6, <1>9 DEF MarkSending
<1>10. CASE HandToQueue(s)
  <2>1. [c |-> On(s), runs |-> QueueAttempts, by |-> s] \in JobRecords
    BY <1>3, SmsAssumption DEF On, JobRecords
  <2> QED
    BY <1>7, <1>10, <2>1, SmsTyped DEF HandToQueue
<1>11. CASE HandToSelf(s)
  BY <1>6, <1>11 DEF HandToSelf
<1>12. CASE RequireApproved(s)
  BY <1>2, <1>6, <1>7, <1>12, ThrowLeaves DEF RequireApproved
<1> QED
  BY <1>8, <1>9, <1>10, <1>11, <1>12

LEMMA MoneySteps ==
    ASSUME SmsInv, NEW s \in Senders,
           \/ Reserve(s) \/ RecordMessages(s) \/ SettleReservation(s) \/ RefundAll(s) \/ AnswerLost(s)
           \/ MarkSent(s) \/ MarkSentFails(s)
    PROVE  SmsInv'
<1> USE DEF Doing
<1>1. send[s].step \in {"reserve", "record", "settle", "refund all", "mark sent"}
  BY DEF Reserve, RecordMessages, SettleReservation, RefundAll, AnswerLost, MarkSent, MarkSentFails
<1>2. send[s].step \in CampaignSteps /\ send[s] \in SendRecords
  BY <1>1, SmsTyped DEF CampaignSteps
<1>3. /\ send[s].c \in Campaigns /\ Cost \in Nat /\ credit \in Nat /\ stops \in Nat
      /\ send[s].accepted \in Nat /\ Cost - send[s].accepted \in Nat
      /\ unpaid \in Nat /\ kept \in Nat
  BY <1>2, SmsTyped, SmsAssumption, PortionsFit DEF AboutACampaign, SendRecords
<1>4. UNCHANGED <<delivered, bought, kept>>
  BY DEF Reserve, RecordMessages, SettleReservation, RefundAll, AnswerLost, MarkSent, MarkSentFails
<1>5. campaign' \in [Campaigns -> Statuses]
  BY <1>3, SmsTyped DEF Reserve, RecordMessages, SettleReservation, RefundAll, AnswerLost, MarkSent, MarkSentFails, On, Statuses
<1>6. ASSUME NEW step \in CampaignSteps
      PROVE  Outstanding([send[s] EXCEPT !.step = step])
               = CASE step \in {"record", "provider", "refund all"} -> Cost
                   [] step = "settle" -> Cost - send[s].accepted
                   [] OTHER -> 0
  BY <1>2 DEF SendRecords, Outstanding
<1>7. CASE Reserve(s)
  <2>1. Outstanding(send[s]) = 0
    BY <1>7 DEF Reserve, Outstanding
  <2>2. CASE credit >= Cost
    <3>1. credit' = credit - Cost /\ ThenDo(s, "record") /\ UNCHANGED <<jobs, unpaid, stops>>
      BY <1>7, <2>2 DEF Reserve
    <3>2. "record" \in CampaignSteps
      BY DEF CampaignSteps
    <3>3. Outstanding([send[s] EXCEPT !.step = "record"]) = Cost
      BY <1>6, <3>2
    <3>4. credit' \in Nat /\ credit' + Cost + unpaid = credit + 0 + unpaid'
      BY <1>3, <2>2, <3>1
    <3> QED
      BY <1>2, <1>3, <1>4, <1>5, <2>1, <3>1, <3>2, <3>3, <3>4, GoesOn
  <2>3. CASE ~ (credit >= Cost)
    BY <1>2, <1>3, <1>4, <1>5, <1>7, <2>1, <2>3, ThrowLeaves, Ends DEF Reserve
  <2> QED
    BY <2>2, <2>3
<1>8. CASE SettleReservation(s)
  <2>1. /\ Outstanding(send[s]) = Cost - send[s].accepted
        /\ credit' = credit + (Cost - send[s].accepted) /\ ThenDo(s, "mark sent")
        /\ UNCHANGED <<jobs, unpaid, stops>>
    BY <1>8 DEF SettleReservation, Outstanding
  <2>2. "mark sent" \in CampaignSteps
    BY DEF CampaignSteps
  <2>3. Outstanding([send[s] EXCEPT !.step = "mark sent"]) = 0
    BY <1>6, <2>2
  <2>5. PICK m \in Nat : m = Cost - send[s].accepted
    BY <1>3
  <2>6. /\ credit' = credit + m /\ Outstanding(send[s]) = m /\ credit \in Nat
        /\ unpaid' = unpaid /\ unpaid \in Nat
    BY <1>3, <2>1, <2>5
  <2>4. credit' \in Nat /\ credit' + 0 + unpaid = credit + Outstanding(send[s]) + unpaid'
    BY <2>6
  <2> QED
    BY <1>2, <1>3, <1>4, <1>5, <2>1, <2>2, <2>3, <2>4, GoesOn
<1>9. CASE RefundAll(s)
  <2>1. Outstanding(send[s]) = Cost /\ credit' = credit + Cost /\ Throw(s) /\ UNCHANGED <<unpaid, stops>>
    BY <1>9 DEF RefundAll, Outstanding
  <2> QED
    BY <1>2, <1>3, <1>4, <1>5, <2>1, ThrowLeaves, Ends
<1>10. CASE AnswerLost(s)
  <2>1. /\ ThenDo(s, "refund all") /\ stops' = stops + 1 /\ UNCHANGED <<credit, jobs>>
        /\ Outstanding(send[s]) = Cost - send[s].accepted /\ unpaid' = unpaid + send[s].accepted
    BY <1>10 DEF AnswerLost, Outstanding
  <2>2. "refund all" \in CampaignSteps
    BY DEF CampaignSteps
  <2>3. Outstanding([send[s] EXCEPT !.step = "refund all"]) = Cost
    BY <1>6, <2>2
  <2>8. stops \in Nat /\ stops' = stops + 1
    BY <1>3, <2>1
  <2>4. stops' \in Nat /\ stops' # 0
    BY <2>8
  <2>5. PICK m \in Nat, a \in Nat : m = Cost /\ a = send[s].accepted
    BY <1>3
  <2>6. unpaid + a \in Nat /\ credit + m + unpaid = credit + (m - a) + (unpaid + a)
    BY <1>3
  <2>7. unpaid' \in Nat /\ credit' + Cost + unpaid = credit + Outstanding(send[s]) + unpaid'
    BY <2>1, <2>5, <2>6
  <2> QED
    BY <1>2, <1>3, <1>4, <1>5, <2>1, <2>2, <2>3, <2>4, <2>7, GoesOn
<1>11. CASE MarkSent(s) \/ MarkSentFails(s)
  <2>1. Outstanding(send[s]) = 0 /\ UNCHANGED <<credit, unpaid, stops>>
    BY <1>11 DEF MarkSent, MarkSentFails, Outstanding
  <2>2. jobs' \subseteq JobRecords /\ Close(s)
    BY <1>2, <1>11, SmsTyped, ThrowLeaves DEF MarkSent, MarkSentFails
  <2> QED
    BY <1>3, <1>4, <1>5, <2>1, <2>2, Ends
<1>12. CASE RecordMessages(s)
  <2>1. ThenDo(s, "provider") /\ UNCHANGED <<credit, jobs, unpaid, stops>> /\ Outstanding(send[s]) = Cost
    BY <1>12 DEF RecordMessages, Outstanding
  <2>2. "provider" \in CampaignSteps
    BY DEF CampaignSteps
  <2>3. Outstanding([send[s] EXCEPT !.step = "provider"]) = Cost
    BY <1>6, <2>2
  <2>4. credit' \in Nat /\ credit' + Cost + unpaid = credit + Outstanding(send[s]) + unpaid'
    BY <1>3, <2>1
  <2> QED
    BY <1>2, <1>3, <1>4, <1>5, <2>1, <2>2, <2>3, <2>4, GoesOn
<1> QED
  BY <1>7, <1>8, <1>9, <1>10, <1>11, <1>12

LEMMA ReservationStaysStep ==
    ASSUME SmsInv, NEW s \in Senders, ReservationStays(s)
    PROVE  SmsInv'
<1>1. send[s].step \in CampaignSteps
  BY DEF ReservationStays, CampaignSteps
<1>2. /\ Throw(s) /\ stops' = stops + 1 /\ kept' = kept + Outstanding(send[s])
      /\ UNCHANGED <<credit, campaign, delivered, bought, unpaid>>
  BY DEF ReservationStays
<1> QED
  BY <1>1, <1>2, ThrowLeaves, BreaksOff

(* The provider has taken n of the messages; what the execution owes less  *)
(* the credit to be given back falls by as many.                           *)
LEMMA ProviderTakes ==
    ASSUME SmsInv, NEW s \in Senders, NEW n \in 0 .. Cost, NEW e \in SendRecords,
           send[s].c \in Campaigns, AboutACampaign(e), send' = [send EXCEPT ![s] = e],
           delivered' = [delivered EXCEPT ![On(s)] = @ + n],
           UNCHANGED <<credit, campaign, jobs, bought, kept, stops>>, unpaid' \in Nat,
           Outstanding(e) + n + unpaid = Outstanding(send[s]) + unpaid'
    PROVE  SmsInv'
<1> USE DEF SmsInv
<1>1. send' \in [Senders -> SendRecords] /\ send'[s] = e /\ \A z \in Senders \ {s} : send'[z] = send[z]
  BY SmsTyped
<1>2. PICK c \in Campaigns : c = send[s].c
  OBVIOUS
<1>3. n \in Nat
  BY SmsAssumption
<1>4. /\ delivered' \in [Campaigns -> Nat] /\ delivered'[c] = delivered[c] + n
      /\ \A y \in Campaigns \ {c} : delivered'[y] = delivered[y]
  BY <1>2, <1>3, SmsTyped DEF On
<1>5. SmsTypeOK'
  BY <1>1, <1>4 DEF SmsTypeOK
<1>6. \A z \in Senders : AboutACampaign(send'[z])
  BY <1>1
<1>7. Books'
  <2>1. PICK f, g : f = SumFunctionOnSet(Reserved(send), Senders)
                    /\ g = SumFunctionOnSet(Reserved(send'), Senders)
    OBVIOUS
  <2>2. f \in Int /\ g = f - Outstanding(send[s]) + Outstanding(e)
    BY <2>1, SmsTyped, ReservedChanges
  <2>3. PICK d, x : d = SumFunctionOnSet(delivered, Campaigns)
                    /\ x = SumFunctionOnSet(delivered', Campaigns)
    OBVIOUS
  <2>4. /\ \A y \in Campaigns : delivered[y] \in Int
        /\ \A y \in Campaigns : delivered'[y] \in Int
        /\ IsFiniteSet(Campaigns)
    BY <1>4, SmsTyped, SmsAssumption
  <2>5. d \in Int /\ x = d - delivered[c] + delivered'[c]
    <3>1. PICK k, l : k = delivered /\ l = delivered'
      OBVIOUS
    <3>2. /\ \A y \in Campaigns : k[y] \in Int
          /\ \A y \in Campaigns : l[y] \in Int
          /\ \A y \in Campaigns \ {c} : l[y] = k[y]
      BY <1>4, <2>4, <3>1
    <3>3. SumFunctionOnSet(k, Campaigns) \in Int
      BY <2>4, <3>2, SumRemove
    <3>4. SumFunctionOnSet(l, Campaigns) = SumFunctionOnSet(k, Campaigns) - k[c] + l[c]
      BY <2>4, <3>2, SumChange
    <3> QED
      BY <2>3, <3>1, <3>3, <3>4
  <2>6. x = d + n
    <3>1. delivered[c] \in Nat
      BY SmsTyped
    <3> QED
      BY <1>3, <1>4, <2>5, <3>1
  <2>7. PICK o \in Nat, o2 \in Nat : o = Outstanding(send[s]) /\ o2 = Outstanding(e)
    BY SmsTyped, OutstandingIsNat
  <2>8. o2 + n + unpaid = o + unpaid' /\ g = f - o + o2
    BY <2>2, <2>7
  <2>9. PICK b \in Int : b = OpeningCredit + Package * Cardinality(bought)
    <3>1. Cardinality(bought) \in Nat /\ Package \in Nat /\ OpeningCredit \in Nat
      BY FS_CardinalityType, SmsAssumption DEF SmsTypeOK
    <3> QED
      BY <3>1, OneMorePackage
  <2>10. f + d + credit + kept = b + unpaid
    BY <2>1, <2>3, <2>9 DEF Books
  <2>11. g + x + credit + kept = b + unpaid'
    <3>1. PICK a \in Nat, k \in Nat, u \in Nat, u2 \in Nat :
               a = credit /\ k = kept /\ u = unpaid /\ u2 = unpaid'
      BY SmsTyped
    <3>2. o2 + n + u = o + u2 /\ g = f - o + o2 /\ f + d + a + k = b + u
      BY <2>8, <2>10, <3>1
    <3>3. g + (d + n) + a + k = b + u2
      BY <1>3, <2>2, <2>5, <3>2
    <3> QED
      BY <2>6, <3>1, <3>3
  <2> QED
    BY <2>1, <2>3, <2>9, <2>11 DEF Books
<1> QED
  BY <1>5, <1>6, <1>7

LEMMA ProviderStep ==
    ASSUME SmsInv, NEW s \in Senders, CallProvider(s)
    PROVE  SmsInv'
<1> USE DEF Doing
<1>1. /\ send[s].step = "provider" /\ send[s] \in SendRecords /\ send[s].c \in Campaigns
      /\ Outstanding(send[s]) = Cost /\ "provider" \in CampaignSteps
      /\ UNCHANGED <<credit, campaign, jobs, bought, kept, stops>>
  BY SmsTyped DEF CallProvider, AboutACampaign, CampaignSteps, Outstanding
<1>2. PICK n \in 0 .. Cost :
        /\ delivered' = [delivered EXCEPT ![On(s)] = @ + n]
        /\ \/ \E answered \in 0 .. n :
                 /\ send' = [send EXCEPT ![s].step = "settle", ![s].accepted = answered]
                 /\ unpaid' = unpaid + (n - answered)
           \/ ThenDo(s, "refund all") /\ unpaid' = unpaid + n
  BY DEF CallProvider
<1>3. unpaid \in Nat /\ Cost \in Nat /\ n \in Nat /\ n <= Cost /\ send \in [Senders -> SendRecords]
  BY SmsTyped, SmsAssumption
<1>4. CASE ThenDo(s, "refund all") /\ unpaid' = unpaid + n
  <2>1. PICK e : e = [send[s] EXCEPT !.step = "refund all"]
    OBVIOUS
  <2>2. /\ e.step = "refund all" /\ e.c = send[s].c /\ e \in SendRecords
    BY <1>1, <2>1 DEF SendRecords, SmsSteps, CampaignSteps
  <2>3. AboutACampaign(e) /\ Outstanding(e) = Cost
    BY <1>1, <2>2 DEF AboutACampaign, Outstanding
  <2>4. send' = [send EXCEPT ![s] = e]
    BY <1>4, <2>1 DEF ThenDo
  <2>5. unpaid' = unpaid + n
    BY <1>4
  <2>6. unpaid' \in Nat /\ Cost + n + unpaid = Cost + unpaid'
    BY <1>3, <2>5
  <2> QED
    BY <1>1, <1>2, <2>2, <2>3, <2>4, <2>6, ProviderTakes
<1>5. ASSUME NEW answered \in 0 .. n,
             send' = [send EXCEPT ![s].step = "settle", ![s].accepted = answered],
             unpaid' = unpaid + (n - answered)
      PROVE  SmsInv'
  <2>1. PICK e : e = [send[s] EXCEPT !.step = "settle", !.accepted = answered]
    OBVIOUS
  <2>2. /\ answered \in Portions /\ answered \in Nat /\ Cost - answered \in Nat /\ n - answered \in Nat
    BY <1>3 DEF Portions
  <2>3. "settle" \in SmsSteps
    BY DEF SmsSteps, CampaignSteps
  <2>4. e \in SendRecords /\ e.step = "settle" /\ e.accepted = answered /\ e.c = send[s].c
    BY <1>1, <2>1, <2>2, <2>3 DEF SendRecords
  <2>5. send' = [send EXCEPT ![s] = e]
    BY <1>3, <1>5, <2>1 DEF SendRecords
  <2>6. AboutACampaign(e) /\ Outstanding(e) = Cost - answered
    BY <1>1, <2>4 DEF AboutACampaign, Outstanding
  <2>7. unpaid' \in Nat /\ (Cost - answered) + n + unpaid = Cost + unpaid'
    BY <1>3, <1>5, <2>2
  <2> QED
    BY <1>1, <1>2, <2>4, <2>5, <2>6, <2>7, ProviderTakes
<1> QED
  BY <1>2, <1>4, <1>5

LEMMA PurchaseStep ==
    ASSUME SmsInv, NEW s \in Senders, CreditPurchase(s)
    PROVE  SmsInv'
<1> USE DEF Doing, SmsInv
<1>1. /\ send[s].step = "buy" /\ send' = [send EXCEPT ![s] = NoSend]
      /\ UNCHANGED <<campaign, jobs, delivered, unpaid, kept, stops>>
  BY DEF CreditPurchase, Close
<1>2. Outstanding(send[s]) = 0
  BY <1>1 DEF Outstanding
<1>3. CASE On(s) \in bought
  <2>1. UNCHANGED <<credit, bought>>
    BY <1>3 DEF CreditPurchase
  <2>2. credit \in Nat /\ credit' \in Nat /\ credit' = credit + Outstanding(send[s])
    BY <1>2, <2>1, SmsTyped
  <2>3. Close(s) /\ jobs' \subseteq JobRecords /\ campaign' \in [Campaigns -> Statuses]
    BY <1>1, SmsTyped DEF Close
  <2> QED
    BY <1>1, <2>1, <2>2, <2>3, Ends
<1>4. CASE On(s) \notin bought
  <2>1. bought' = bought \cup {On(s)} /\ credit' = credit + Package
    BY <1>4 DEF CreditPurchase
  <2>2. IsFiniteSet(bought)
    BY DEF SmsTypeOK
  <2>3. IsFiniteSet(bought') /\ Cardinality(bought') = Cardinality(bought) + 1 /\ Cardinality(bought) \in Nat
    BY <1>4, <2>1, <2>2, FS_AddElement, FS_CardinalityType
  <2>4. credit \in Nat /\ Package \in Nat /\ credit' \in Nat
    BY <2>1, SmsTyped, SmsAssumption
  <2>5. send' \in [Senders -> SendRecords] /\ \A z \in Senders : send'[z] \in {send[z], NoSend}
    BY <1>1, NothingReserved, SmsTyped
  <2>6. SmsTypeOK'
    BY <1>1, <2>3, <2>4, <2>5 DEF SmsTypeOK
  <2>7. \A z \in Senders : AboutACampaign(send'[z])
    BY <2>5, NothingReserved
  <2>8. Books'
    <3>1. PICK f, g, d : /\ f = SumFunctionOnSet(Reserved(send), Senders)
                         /\ g = SumFunctionOnSet(Reserved(send'), Senders)
                         /\ d = SumFunctionOnSet(delivered, Campaigns)
      OBVIOUS
    <3>2. f \in Int /\ g = f - Outstanding(send[s]) + Outstanding(NoSend)
      BY <1>1, <3>1, SmsTyped, NothingReserved, ReservedChanges
    <3>3. g = f
      BY <1>2, <3>2, NothingReserved
    <3>4. d \in Int
      BY <3>1, SumRemove, SmsTyped, SmsAssumption
    <3>5. PICK b : b = OpeningCredit + Package * Cardinality(bought)
      OBVIOUS
    <3>6. b \in Int /\ OpeningCredit + Package * Cardinality(bought') = b + Package
      BY <2>3, <2>4, <3>5, OneMorePackage, SmsAssumption
    <3>7. f + d + credit + kept = b + unpaid
      BY <3>1, <3>5 DEF Books
    <3>8. f + d + credit' + kept = b + Package + unpaid
      <4>1. kept \in Nat /\ unpaid \in Nat
        BY SmsTyped
      <4> QED
        BY <2>1, <2>4, <3>2, <3>4, <3>6, <3>7, <4>1
    <3> QED
      BY <1>1, <3>1, <3>3, <3>6, <3>8 DEF Books
  <2> QED
    BY <1>1, <2>6, <2>7, <2>8
<1> QED
  BY <1>3, <1>4

LEMMA SmsCrashStep ==
    ASSUME SmsInv, SmsCrash
    PROVE  SmsInv'
<1> USE DEF SmsInv
<1>1. /\ send' = [s \in Senders |-> NoSend] /\ stops' = stops + 1 /\ stops \in Nat
      /\ UNCHANGED <<credit, campaign, jobs, delivered, unpaid, bought>>
  BY SmsTyped DEF SmsCrash
<1>2. stops' \in Nat /\ stops' # 0
  BY <1>1
<1>3. send' \in [Senders -> SendRecords] /\ \A s \in Senders : AboutACampaign(send'[s])
  BY <1>1, NothingReserved
<1>4. PICK f : f = SumFunctionOnSet(Reserved(send), Senders)
  OBVIOUS
<1>5. f \in Nat
  <2>1. \A s \in Senders : Reserved(send)[s] \in Nat
    BY SmsTyped, OutstandingIsNat DEF Reserved
  <2> QED
    BY <1>4, <2>1, SumNat, SmsAssumption
<1>6. kept' = kept + f
  BY <1>4 DEF SmsCrash, SumFunction, Reserved
<1>7. credit \in Nat /\ kept \in Nat /\ unpaid \in Nat /\ kept' \in Nat
  BY <1>5, <1>6, SmsTyped
<1>8. SmsTypeOK'
  BY <1>1, <1>2, <1>3, <1>7 DEF SmsTypeOK
<1>9. SumFunctionOnSet(Reserved(send'), Senders) = 0
  <2>1. \A s \in Senders : Reserved(send')[s] = 0
    BY <1>1, NothingReserved DEF Reserved
  <2> QED
    BY <2>1, SumZero, SmsAssumption
<1>10. Books'
  <2>1. PICK d : d = SumFunctionOnSet(delivered, Campaigns)
    OBVIOUS
  <2>2. d \in Int
    BY <2>1, SumRemove, SmsTyped, SmsAssumption
  <2>3. f + d + credit + kept = OpeningCredit + Package * Cardinality(bought) + unpaid
    BY <1>4, <2>1 DEF Books
  <2>4. 0 + d + credit + (kept + f) = OpeningCredit + Package * Cardinality(bought) + unpaid
    BY <1>5, <1>7, <2>2, <2>3
  <2> QED
    BY <1>1, <1>6, <1>9, <2>1, <2>4 DEF Books
<1> QED
  BY <1>2, <1>3, <1>8, <1>10

(* Steps that touch neither the executions nor the money. *)
LEMMA SmsOutside ==
    ASSUME SmsInv,
           (\E c \in Campaigns : NewCampaign(c) \/ GraceEnds(c)) \/ ReviewSender \/ UNCHANGED smsVars
    PROVE  SmsInv'
<1>1. UNCHANGED <<credit, send, jobs, delivered, unpaid, kept, bought, stops>>
  BY DEF NewCampaign, GraceEnds, ReviewSender, smsVars
<1>2. campaign' \in [Campaigns -> {"NONE", "DRAFT", "SCHEDULED", "SENDING", "SENT"}]
  BY DEF SmsInv, SmsTypeOK, NewCampaign, GraceEnds, ReviewSender, smsVars
<1>3. SmsTypeOK'
  BY <1>1, <1>2 DEF SmsInv, SmsTypeOK
<1>4. Reserved(send') = Reserved(send)
  BY <1>1 DEF Reserved
<1> QED
  BY <1>1, <1>3, <1>4 DEF SmsInv, Books

LEMMA SmsNextInv == SmsInv /\ [SmsNext]_smsVars => SmsInv'
<1> SUFFICES ASSUME SmsInv, [SmsNext]_smsVars PROVE SmsInv'
  OBVIOUS
<1>1. ASSUME NEW s \in Senders, SendStep(s) \/ AnswerLost(s) \/ MarkSentFails(s) PROVE SmsInv'
  BY <1>1, SendOrder, MoneySteps, ProviderStep, PurchaseStep DEF SendStep
<1>7. ASSUME NEW s \in Senders, ReservationStays(s) PROVE SmsInv'
  BY <1>7, ReservationStaysStep
<1>2. ASSUME NEW s \in Senders, NEW c \in Campaigns, StartSend(s, c) \/ SweepScheduled(s, c) PROVE SmsInv'
  <2>1. Begin(s, "quote", c, 1) /\ UNCHANGED <<credit, campaign, jobs, delivered, unpaid, kept, bought, stops>>
    BY <1>2 DEF StartSend, SweepScheduled
  <2> QED
    BY <2>1, SmsTyped, Begins
<1>3. ASSUME NEW s \in Senders, NEW job \in jobs, WorkerTakes(s, job) PROVE SmsInv'
  <2>1. /\ Begin(s, "sender", job.c, job.runs) /\ jobs' \subseteq jobs
        /\ UNCHANGED <<credit, campaign, delivered, unpaid, kept, bought, stops>>
    BY <1>3 DEF WorkerTakes
  <2>2. job.c \in Campaigns /\ job.runs \in Nat /\ jobs' \subseteq JobRecords
    BY <1>3, <2>1, SmsTyped DEF JobRecords
  <2>3. PICK c, runs : c = job.c /\ runs = job.runs
    OBVIOUS
  <2> QED
    BY <2>1, <2>2, <2>3, Begins
<1>4. ASSUME NEW s \in Senders, NEW ref \in Receipts, VerifyPurchase(s, ref) PROVE SmsInv'
  <2>1. Begin(s, "buy", ref, 1) /\ UNCHANGED <<credit, campaign, jobs, delivered, unpaid, kept, bought, stops>>
    BY <1>4 DEF VerifyPurchase
  <2> QED
    BY <2>1, SmsTyped, Begins
<1>5. CASE SmsCrash
  BY <1>5, SmsCrashStep
<1>6. CASE (\E c \in Campaigns : NewCampaign(c) \/ GraceEnds(c)) \/ ReviewSender \/ UNCHANGED smsVars
  BY <1>6, SmsOutside
<1> QED
  BY <1>1, <1>2, <1>3, <1>4, <1>5, <1>6, <1>7 DEF SmsNext

(* "The business must not pay for a send that never left": the credit is   *)
(* explained by purchases, accepted messages and the two counted           *)
(* departures, for any number of campaigns, executions, retries,           *)
(* purchases, lost answers, failing statements and exits.                  *)
THEOREM CreditIsExplained == SmsSpec => []CreditsExplained
<1>1. SmsInv => CreditsExplained
  <2> SUFFICES ASSUME SmsInv PROVE CreditsExplained
    OBVIOUS
  <2>1. /\ credit \in Nat /\ delivered \in [Campaigns -> Nat] /\ unpaid \in Nat /\ kept \in Nat
        /\ stops = 0 => kept = 0
    BY SmsTyped
  <2>2. ASSUME \A s \in Senders : send[s] = NoSend
        PROVE  credit + kept
                 = OpeningCredit + Package * Cardinality(bought) - (SumFunction(delivered) - unpaid)
    <3>1. \A s \in Senders : Reserved(send)[s] = 0
      BY <2>2, NothingReserved DEF Reserved
    <3>2. SumFunctionOnSet(Reserved(send), Senders) = 0
      BY <3>1, SumZero, SmsAssumption
    <3>3. PICK d : d = SumFunctionOnSet(delivered, Campaigns)
      OBVIOUS
    <3>4. SumFunction(delivered) = d
      BY <2>1, <3>3 DEF SumFunction
    <3>5. d \in Int
      BY <2>1, <3>3, SumRemove, SmsAssumption
    <3>6. 0 + d + credit + kept = OpeningCredit + Package * Cardinality(bought) + unpaid
      BY <3>2, <3>3 DEF SmsInv, Books
    <3>7. PICK o \in Int, q \in Int : o = OpeningCredit /\ q = Package * Cardinality(bought)
      <4>1. Cardinality(bought) \in Nat /\ Package \in Nat /\ OpeningCredit \in Nat
        BY FS_CardinalityType, SmsAssumption DEF SmsInv, SmsTypeOK
      <4>2. Package * Cardinality(bought) \in Nat
        BY <4>1, OneMorePackage
      <4> QED
        BY <4>1, <4>2
    <3>8. 0 + d + credit + kept = o + q + unpaid
      BY <3>6, <3>7
    <3>9. credit + kept = o + q - (d - unpaid)
      BY <2>1, <3>5, <3>8
    <3> QED
      BY <3>4, <3>7, <3>9, Zenon
  <2>3. credit >= 0
    BY <2>1
  <2> QED
    BY <2>1, <2>2, <2>3 DEF CreditsExplained
<1> QED
  BY <1>1, SmsInitInv, SmsNextInv, PTL DEF SmsSpec

----------------------------------------------------------------------------
(***************************************************************************)
(* Points.  A customer's points are explained, for any number of payments, *)
(* redemptions and sweeps at once.                                         *)
(*                                                                         *)
(* A posting is a balance update and a ledger entry, and a redemption is a *)
(* posting and a wallet credit, none in a transaction: at most moments the *)
(* books disagree.  The invariant therefore adds to each equation what the *)
(* running operations have done on one side and not yet on the other       *)
(* (Unwritten, Unpaid), and allows an expiry that claimed its entry the    *)
(* points it may still remove (Claimed).  Points are lost only to expiry,  *)
(* and to no entry more than it earned.  An operation that is broken off   *)
(* moves its two terms to unposted and astray; at rest the three terms are *)
(* zero, and what is left is the property.                                 *)
(***************************************************************************)
(* The points alone: payments complete and requests come at any time, and  *)
(* a process may exit.                                                     *)
RewardsNext ==
    \/ \E j \in Tills :
         \/ TillStep(j) \/ ExpireStale(j) \/ Heard(j)
         \/ \E p \in Payments : Earn(j, p)
         \/ \E points \in Nat \ {0} : Redeem(j, points)
    \/ MillisecondPasses \/ RewardsCrash

RewardsSpec == RewardsInit /\ [][RewardsNext]_rewardVars

Milliseconds == 0 .. MaxRedeems
TillSteps == {"idle", "look", "mint", "entry", "burn", "credit", "answer", "claim", "measure",
              "done"}
TillRecords == [op : {"none", "earn", "redeem", "give back", "expire", "ok", "failed"},
                step : TillSteps, points : Nat, for : Payments \cup {0}]
EntryRecords == [payment : Payments \cup {0}, copy : Nat, expires : BOOLEAN]
Expired == {t \in earned : ~ t.expires}

RewardsTypeOK ==
    /\ balance \in Nat /\ ledger \in Int
    /\ earned \subseteq EntryRecords /\ IsFiniteSet(earned)
    /\ till \in [Tills -> TillRecords]
    /\ clock \in Milliseconds /\ credited \in [Milliseconds -> Nat]
    /\ shared \in BOOLEAN /\ breaks \in Nat
    /\ unposted \in Int /\ astray \in Int

(* What an operation does at a step, and for how many points.              *)
TillFine(e) ==
    /\ e.step = "look" => e.op = "earn"
    /\ e.step = "mint" => e.op \in {"earn", "give back"}
    /\ e.step = "entry" => e.op \in {"earn", "redeem", "give back", "expire"}
    /\ e.step = "burn" => e.op \in {"redeem", "expire"}
    /\ e.step \in {"credit", "answer"} => e.op = "redeem"
    /\ e.step \in {"claim", "measure"} => e.op = "expire"
    /\ e.op = "earn" => e.points = Points
    /\ e.op = "expire" /\ e.step \in {"burn", "entry"} => e.points <= Points

(* The copies of the entry for one payment are numbered from 0.            *)
EntriesOK ==
    /\ \A t, u \in earned : t.payment = u.payment /\ t.copy = u.copy => t = u
    /\ \A t \in earned : t.copy < Cardinality(Entries(t.payment))

(* What an operation may still remove for the entry that it claimed.       *)
Claimed(e) == IF e.op = "expire" /\ e.step \in {"measure", "burn"} THEN Points ELSE 0

AllUnwritten(tills) == SumFunctionOnSet([j \in Tills |-> Unwritten(tills[j])], Tills)
AllUnpaid(tills) == SumFunctionOnSet([j \in Tills |-> Unpaid(tills[j])], Tills)
AllClaimed(tills) == SumFunctionOnSet([j \in Tills |-> Claimed(tills[j])], Tills)

LedgerAgrees == balance = TotalEarned + ledger + unposted + AllUnwritten(till)
Lost == TotalEarned + astray + AllUnpaid(till) - Redeemed - balance
LossesAreExpiries == 0 <= Lost /\ Lost + AllClaimed(till) <= Points * Cardinality(Expired)
AllPosted == breaks = 0 => unposted = 0 /\ (~ shared => astray = 0)

RewardsInv ==
    /\ RewardsTypeOK /\ EntriesOK
    /\ \A j \in Tills : TillFine(till[j])
    /\ LedgerAgrees /\ LossesAreExpiries /\ AllPosted

LEMMA OneMoreTimes == \A n, m \in Nat : m * (n + 1) = m * n + m /\ m * n \in Nat
OBVIOUS

LEMMA Negated == \A n \in Nat : n \in Int /\ 0 - n \in Int
OBVIOUS

LEMMA TillCounts ==
    ASSUME NEW e \in TillRecords
    PROVE  Unwritten(e) \in Int /\ Unpaid(e) \in Int /\ Claimed(e) \in Nat
<1>1. e.points \in Nat /\ Points \in Nat
  BY RewardsAssumption DEF TillRecords
<1>2. e.points \in Int /\ 0 - e.points \in Int
  BY <1>1, Negated
<1>3. /\ Unwritten(e) = e.points \/ Unwritten(e) = 0 - e.points \/ Unwritten(e) = 0
      /\ Unpaid(e) = e.points \/ Unpaid(e) = 0 - e.points \/ Unpaid(e) = 0
      /\ Claimed(e) = Points \/ Claimed(e) = 0
  BY DEF Unwritten, Unpaid, Claimed
<1> QED
  BY <1>1, <1>2, <1>3

LEMMA RestingTills ==
    ASSUME NEW e, e = NoTill \/ \E ok \in BOOLEAN : e = DoneTill(ok)
    PROVE  /\ e \in TillRecords /\ TillFine(e)
           /\ Unwritten(e) = 0 /\ Unpaid(e) = 0 /\ Claimed(e) = 0
<1>1. PICK op \in {"none", "ok", "failed"}, step \in {"idle", "done"} :
           e = [op |-> op, step |-> step, points |-> 0, for |-> 0]
  BY DEF NoTill, DoneTill
<1>3. e.op \notin {"earn", "redeem", "give back", "expire"}
      /\ e.step \notin {"look", "mint", "entry", "burn", "credit", "answer", "claim", "measure"}
  BY <1>1
<1>4. e \in TillRecords
  BY <1>1 DEF TillRecords, TillSteps
<1>5. TillFine(e)
  BY <1>3 DEF TillFine
<1> QED
  BY <1>3, <1>4, <1>5 DEF Unwritten, Unpaid, Claimed

LEMMA SumsMove ==
    ASSUME NEW tills \in [Tills -> TillRecords], NEW j \in Tills, NEW e \in TillRecords,
           NEW after, after = [tills EXCEPT ![j] = e]
    PROVE  /\ AllUnwritten(tills) \in Int /\ AllUnpaid(tills) \in Int /\ AllClaimed(tills) \in Nat
           /\ AllUnwritten(after) = AllUnwritten(tills) - Unwritten(tills[j]) + Unwritten(e)
           /\ AllUnpaid(after) = AllUnpaid(tills) - Unpaid(tills[j]) + Unpaid(e)
           /\ AllClaimed(after) = AllClaimed(tills) - Claimed(tills[j]) + Claimed(e)
<1>1. after \in [Tills -> TillRecords] /\ after[j] = e /\ \A i \in Tills \ {j} : after[i] = tills[i]
  OBVIOUS
<1>2. IsFiniteSet(Tills)
  BY RewardsAssumption
<1>3. PICK f, g : f = [i \in Tills |-> Unwritten(tills[i])] /\ g = [i \in Tills |-> Unwritten(after[i])]
  OBVIOUS
<1>4. /\ \A i \in Tills : f[i] \in Int /\ g[i] \in Int
      /\ \A i \in Tills \ {j} : g[i] = f[i]
      /\ f[j] = Unwritten(tills[j]) /\ g[j] = Unwritten(e)
  BY <1>1, <1>3, TillCounts
<1>5. SumFunctionOnSet(f, Tills) \in Int /\ SumFunctionOnSet(g, Tills) = SumFunctionOnSet(f, Tills) - f[j] + g[j]
  BY <1>2, <1>4, SumRemove, SumChange
<1>6. PICK k, l : k = [i \in Tills |-> Unpaid(tills[i])] /\ l = [i \in Tills |-> Unpaid(after[i])]
  OBVIOUS
<1>7. /\ \A i \in Tills : k[i] \in Int /\ l[i] \in Int
      /\ \A i \in Tills \ {j} : l[i] = k[i]
      /\ k[j] = Unpaid(tills[j]) /\ l[j] = Unpaid(e)
  BY <1>1, <1>6, TillCounts
<1>8. SumFunctionOnSet(k, Tills) \in Int /\ SumFunctionOnSet(l, Tills) = SumFunctionOnSet(k, Tills) - k[j] + l[j]
  BY <1>2, <1>7, SumRemove, SumChange
<1>9. PICK m, n : m = [i \in Tills |-> Claimed(tills[i])] /\ n = [i \in Tills |-> Claimed(after[i])]
  OBVIOUS
<1>10. /\ \A i \in Tills : m[i] \in Nat /\ m[i] \in Int /\ n[i] \in Int
       /\ \A i \in Tills \ {j} : n[i] = m[i]
       /\ m[j] = Claimed(tills[j]) /\ n[j] = Claimed(e)
  BY <1>1, <1>9, TillCounts
<1>11. SumFunctionOnSet(m, Tills) \in Nat
  BY <1>2, <1>10, SumNat
<1>12. SumFunctionOnSet(n, Tills) = SumFunctionOnSet(m, Tills) - m[j] + n[j]
  BY <1>2, <1>10, SumChange
<1> QED
  BY <1>3, <1>4, <1>5, <1>6, <1>7, <1>8, <1>9, <1>10, <1>11, <1>12
     DEF AllUnwritten, AllUnpaid, AllClaimed

LEMMA RewardsTyped ==
    ASSUME RewardsInv
    PROVE  /\ balance \in Nat /\ ledger \in Int /\ earned \subseteq EntryRecords
           /\ IsFiniteSet(earned) /\ till \in [Tills -> TillRecords] /\ clock \in Milliseconds
           /\ credited \in [Milliseconds -> Nat] /\ shared \in BOOLEAN /\ breaks \in Nat
           /\ unposted \in Int /\ astray \in Int
           /\ \A j \in Tills : TillFine(till[j])
BY DEF RewardsInv, RewardsTypeOK

(* The numbers the two equations relate. *)
LEMMA Amounts ==
    ASSUME RewardsTypeOK
    PROVE  /\ TotalEarned \in Nat /\ Redeemed \in Int /\ Points * Cardinality(Expired) \in Nat
           /\ IsFiniteSet(Expired)
<1>1. IsFiniteSet(earned) /\ Expired \subseteq earned
  BY DEF RewardsTypeOK, Expired
<1>2. /\ IsFiniteSet(Expired) /\ Cardinality(earned) \in Nat /\ Cardinality(Expired) \in Nat
  BY <1>1, FS_Subset, FS_CardinalityType
<1>3. IsFiniteSet(Milliseconds)
  BY FS_Interval, RewardsAssumption DEF Milliseconds
<1>4. DOMAIN credited = Milliseconds /\ \A t \in Milliseconds : credited[t] \in Int
  BY DEF RewardsTypeOK
<1>5. SumFunctionOnSet(credited, Milliseconds) \in Int
  BY <1>3, <1>4, SumRemove
<1>6. Redeemed \in Int
  BY <1>4, <1>5 DEF Redeemed, SumFunction
<1> QED
  BY <1>2, <1>6, OneMoreTimes, RewardsAssumption DEF TotalEarned

LEMMA BooksTyped ==
    ASSUME RewardsInv
    PROVE  /\ TotalEarned \in Int /\ Redeemed \in Int /\ Points * Cardinality(Expired) \in Nat
           /\ balance \in Nat /\ balance \in Int /\ ledger \in Int
           /\ astray \in Int /\ unposted \in Int
<1>1. TotalEarned \in Nat /\ Redeemed \in Int /\ Points * Cardinality(Expired) \in Nat
  BY Amounts DEF RewardsInv
<1>2. balance \in Nat /\ ledger \in Int /\ astray \in Int /\ unposted \in Int
  BY DEF RewardsInv, RewardsTypeOK
<1> QED
  BY <1>1, <1>2

LEMMA AmountsThen ==
    RewardsTypeOK' => TotalEarned' \in Nat /\ Redeemed' \in Int /\ (Points * Cardinality(Expired))' \in Nat
<1>1. RewardsTypeOK => TotalEarned \in Nat /\ Redeemed \in Int /\ Points * Cardinality(Expired) \in Nat
  BY Amounts
<1>2. (RewardsTypeOK => TotalEarned \in Nat /\ Redeemed \in Int /\ Points * Cardinality(Expired) \in Nat)'
  BY <1>1, PTL
<1> QED
  BY <1>2

LEMMA RewardsInitInv == RewardsInit => RewardsInv
<1> SUFFICES ASSUME RewardsInit PROVE RewardsInv
  OBVIOUS
<1>1. till \in [Tills -> TillRecords] /\ \A j \in Tills : TillFine(till[j])
  BY RestingTills DEF RewardsInit
<1>2. 0 \in Milliseconds /\ IsFiniteSet(Milliseconds)
  BY FS_Interval, RewardsAssumption DEF Milliseconds
<1>3. credited = [t \in Milliseconds |-> 0]
  BY DEF RewardsInit, Milliseconds
<1>4. RewardsTypeOK
  <2>1. balance \in Nat /\ ledger \in Int /\ breaks \in Nat /\ clock \in Milliseconds
    BY <1>2 DEF RewardsInit
  <2>2. earned \subseteq EntryRecords /\ IsFiniteSet(earned)
    BY FS_EmptySet DEF RewardsInit
  <2>3. credited \in [Milliseconds -> Nat]
    BY <1>3
  <2>4. shared \in BOOLEAN
    BY DEF RewardsInit
  <2>5. unposted \in Int /\ astray \in Int
    BY DEF RewardsInit
  <2> QED
    BY <1>1, <2>1, <2>2, <2>3, <2>4, <2>5 DEF RewardsTypeOK
<1>5. EntriesOK
  BY DEF RewardsInit, EntriesOK
<1>6. /\ \A j \in Tills : [i \in Tills |-> Unwritten(till[i])][j] = 0
      /\ \A j \in Tills : [i \in Tills |-> Unpaid(till[i])][j] = 0
      /\ \A j \in Tills : [i \in Tills |-> Claimed(till[i])][j] = 0
  BY RestingTills DEF RewardsInit
<1>7. AllUnwritten(till) = 0 /\ AllUnpaid(till) = 0 /\ AllClaimed(till) = 0
  BY <1>6, SumZero, RewardsAssumption DEF AllUnwritten, AllUnpaid, AllClaimed
<1>8. Redeemed = 0
  <2>1. \A t \in Milliseconds : credited[t] = 0
    BY <1>3
  <2>2. SumFunctionOnSet(credited, Milliseconds) = 0
    BY <1>2, <2>1, SumZero
  <2> QED
    BY <1>3, <2>2 DEF Redeemed, SumFunction
<1>9. Expired = {} /\ Cardinality({}) = 0
  BY FS_EmptySet DEF RewardsInit, Expired
<1>10. TotalEarned = 0 /\ Points * Cardinality(Expired) = 0
  BY <1>9, RewardsAssumption DEF TotalEarned, RewardsInit
<1>11. LedgerAgrees
  BY <1>7, <1>10 DEF LedgerAgrees, RewardsInit
<1>12. LossesAreExpiries
  BY <1>7, <1>8, <1>10 DEF LossesAreExpiries, Lost, RewardsInit
<1>13. AllPosted
  BY DEF AllPosted, RewardsInit
<1> QED
  BY <1>1, <1>4, <1>5, <1>11, <1>12, <1>13 DEF RewardsInv

(* One operation goes on; what it has left undone and what the books say   *)
(* change together.                                                        *)
LEMMA TillMoves ==
    ASSUME RewardsInv, RewardsTypeOK', EntriesOK', AllPosted', NEW j \in Tills,
           NEW e \in TillRecords, TillFine(e), till' = [till EXCEPT ![j] = e],
           balance' - TotalEarned' - ledger' - unposted' - Unwritten(e)
               = balance - TotalEarned - ledger - unposted - Unwritten(till[j]),
           TotalEarned + astray + Unpaid(till[j]) - Redeemed - balance
               <= TotalEarned' + astray' + Unpaid(e) - Redeemed' - balance',
           (TotalEarned' + astray' + Unpaid(e) - Redeemed' - balance') + Claimed(e)
                  - (Points * Cardinality(Expired))'
               <= (TotalEarned + astray + Unpaid(till[j]) - Redeemed - balance) + Claimed(till[j])
                  - Points * Cardinality(Expired)
    PROVE  RewardsInv'
<1>1. RewardsTypeOK /\ till[j] \in TillRecords /\ till \in [Tills -> TillRecords]
  BY RewardsTyped DEF RewardsInv
<1>2. PICK t \in Nat, t2 \in Nat, r \in Int, r2 \in Int, k \in Nat, k2 \in Nat :
           /\ t = TotalEarned /\ t2 = TotalEarned' /\ r = Redeemed /\ r2 = Redeemed'
           /\ k = Points * Cardinality(Expired) /\ k2 = (Points * Cardinality(Expired))'
  <2>1. TotalEarned \in Nat /\ Redeemed \in Int /\ Points * Cardinality(Expired) \in Nat
    BY <1>1, Amounts
  <2>2. TotalEarned' \in Nat /\ Redeemed' \in Int /\ (Points * Cardinality(Expired))' \in Nat
    BY AmountsThen
  <2> QED
    BY <2>1, <2>2
<1>3. PICK b \in Int, b2 \in Int, l \in Int, l2 \in Int, n \in Int, n2 \in Int, a \in Int, a2 \in Int :
           /\ b = balance /\ b2 = balance' /\ l = ledger /\ l2 = ledger'
           /\ n = unposted /\ n2 = unposted' /\ a = astray /\ a2 = astray'
  BY <1>1 DEF RewardsTypeOK
<1>4. PICK w \in Int, w2 \in Int, u \in Int, u2 \in Int, c \in Nat, c2 \in Nat :
           /\ w = Unwritten(till[j]) /\ w2 = Unwritten(e) /\ u = Unpaid(till[j]) /\ u2 = Unpaid(e)
           /\ c = Claimed(till[j]) /\ c2 = Claimed(e)
  BY <1>1, TillCounts
<1>5. PICK after : after = [till EXCEPT ![j] = e]
  OBVIOUS
<1>6. PICK aw \in Int, ap \in Int, ac \in Nat :
           /\ aw = AllUnwritten(till) /\ ap = AllUnpaid(till) /\ ac = AllClaimed(till)
           /\ AllUnwritten(after) = aw - w + w2
           /\ AllUnpaid(after) = ap - u + u2
           /\ AllClaimed(after) = ac - c + c2
  <2>1. /\ AllUnwritten(till) \in Int /\ AllUnpaid(till) \in Int /\ AllClaimed(till) \in Nat
        /\ AllUnwritten(after) = AllUnwritten(till) - Unwritten(till[j]) + Unwritten(e)
        /\ AllUnpaid(after) = AllUnpaid(till) - Unpaid(till[j]) + Unpaid(e)
        /\ AllClaimed(after) = AllClaimed(till) - Claimed(till[j]) + Claimed(e)
    BY <1>1, <1>5, SumsMove
  <2> QED
    BY <1>4, <2>1
<1>7. /\ AllUnwritten(till)' = aw - w + w2
      /\ AllUnpaid(till)' = ap - u + u2
      /\ AllClaimed(till)' = ac - c + c2
  BY <1>5, <1>6 DEF AllUnwritten, AllUnpaid, AllClaimed
<1>8. \A i \in Tills : TillFine(till'[i])
  BY <1>1 DEF RewardsInv
<1>9. b2 - t2 - l2 - n2 - w2 = b - t - l - n - w
  BY <1>2, <1>3, <1>4
<1>10. LedgerAgrees'
  <2>1. b = t + l + n + aw
    BY <1>2, <1>3, <1>6 DEF RewardsInv, LedgerAgrees
  <2>2. b2 = t2 + l2 + n2 + (aw - w + w2)
    BY <1>9, <2>1
  <2> QED
    BY <1>2, <1>3, <1>7, <2>2 DEF LedgerAgrees
<1>11. LossesAreExpiries'
  <2>1. 0 <= t + a + ap - r - b /\ t + a + ap - r - b + ac <= k
    BY <1>2, <1>3, <1>6 DEF RewardsInv, LossesAreExpiries, Lost
  <2>2. /\ t + a + u - r - b <= t2 + a2 + u2 - r2 - b2
        /\ t2 + a2 + u2 - r2 - b2 + c2 - k2 <= t + a + u - r - b + c - k
    BY <1>2, <1>3, <1>4
  <2>3. 0 <= t2 + a2 + (ap - u + u2) - r2 - b2
    BY <2>1, <2>2
  <2>4. t2 + a2 + (ap - u + u2) - r2 - b2 + (ac - c + c2) <= k2
    BY <2>1, <2>2
  <2> QED
    BY <1>2, <1>3, <1>7, <2>3, <2>4 DEF LossesAreExpiries, Lost
<1> QED
  BY <1>8, <1>10, <1>11 DEF RewardsInv

(* The same where nothing goes unposted or astray.                         *)
LEMMA TillMovesOn ==
    ASSUME RewardsInv, RewardsTypeOK', EntriesOK', NEW j \in Tills, NEW e \in TillRecords,
           TillFine(e), till' = [till EXCEPT ![j] = e],
           UNCHANGED <<shared, breaks, unposted, astray>>,
           balance' - TotalEarned' - ledger' - Unwritten(e)
               = balance - TotalEarned - ledger - Unwritten(till[j]),
           TotalEarned + Unpaid(till[j]) - Redeemed - balance
               <= TotalEarned' + Unpaid(e) - Redeemed' - balance',
           (TotalEarned' + Unpaid(e) - Redeemed' - balance') + Claimed(e)
                  - (Points * Cardinality(Expired))'
               <= (TotalEarned + Unpaid(till[j]) - Redeemed - balance) + Claimed(till[j])
                  - Points * Cardinality(Expired)
    PROVE  RewardsInv'
<1>1. RewardsTypeOK /\ till[j] \in TillRecords
  BY RewardsTyped DEF RewardsInv
<1>2. PICK t \in Int, t2 \in Int, r \in Int, r2 \in Int, k \in Int, k2 \in Int :
           /\ t = TotalEarned /\ t2 = TotalEarned' /\ r = Redeemed /\ r2 = Redeemed'
           /\ k = Points * Cardinality(Expired) /\ k2 = (Points * Cardinality(Expired))'
  BY <1>1, Amounts, AmountsThen
<1>3. PICK b \in Int, b2 \in Int, l \in Int, l2 \in Int, n \in Int, a \in Int :
           /\ b = balance /\ b2 = balance' /\ l = ledger /\ l2 = ledger'
           /\ n = unposted /\ n = unposted' /\ a = astray /\ a = astray'
  BY <1>1 DEF RewardsTypeOK
<1>4. PICK w \in Int, w2 \in Int, u \in Int, u2 \in Int, c \in Int, c2 \in Int :
           /\ w = Unwritten(till[j]) /\ w2 = Unwritten(e) /\ u = Unpaid(till[j]) /\ u2 = Unpaid(e)
           /\ c = Claimed(till[j]) /\ c2 = Claimed(e)
  BY <1>1, TillCounts
<1>5. b2 - t2 - l2 - w2 = b - t - l - w
  BY <1>2, <1>3, <1>4
<1>6. t + u - r - b <= t2 + u2 - r2 - b2 /\ t2 + u2 - r2 - b2 + c2 - k2 <= t + u - r - b + c - k
  BY <1>2, <1>3, <1>4
<1>7. /\ b2 - t2 - l2 - n - w2 = b - t - l - n - w
      /\ t + a + u - r - b <= t2 + a + u2 - r2 - b2
      /\ t2 + a + u2 - r2 - b2 + c2 - k2 <= t + a + u - r - b + c - k
  BY <1>5, <1>6
<1>8. AllPosted'
  BY DEF RewardsInv, AllPosted
<1> QED
  BY <1>2, <1>3, <1>4, <1>7, <1>8, TillMoves

(* One operation goes on and writes nothing. *)
LEMMA TillAlone ==
    ASSUME RewardsInv, NEW j \in Tills, NEW e \in TillRecords,
           TillFine(e), till' = [till EXCEPT ![j] = e],
           UNCHANGED <<balance, ledger, earned, clock, credited, shared, breaks, unposted, astray>>,
           Unwritten(e) = Unwritten(till[j]), Unpaid(e) = Unpaid(till[j]),
           Claimed(e) <= Claimed(till[j])
    PROVE  RewardsInv'
<1>1. RewardsTypeOK /\ till[j] \in TillRecords /\ till \in [Tills -> TillRecords]
  BY RewardsTyped DEF RewardsInv
<1>2. RewardsTypeOK' /\ EntriesOK'
  <2>1. till' \in [Tills -> TillRecords]
    BY <1>1
  <2> QED
    BY <2>1 DEF RewardsInv, RewardsTypeOK, EntriesOK, Entries
<1>3. TotalEarned' = TotalEarned /\ Redeemed' = Redeemed
      /\ (Points * Cardinality(Expired))' = Points * Cardinality(Expired)
  BY DEF TotalEarned, Redeemed, Expired
<1>4. PICK t \in Int, r \in Int, k \in Int, b \in Int :
           t = TotalEarned /\ r = Redeemed /\ k = Points * Cardinality(Expired) /\ b = balance
  BY <1>1, Amounts DEF RewardsTypeOK
<1>5. PICK u \in Int, c \in Int, c2 \in Int : u = Unpaid(till[j]) /\ c = Claimed(till[j]) /\ c2 = Claimed(e)
  BY <1>1, TillCounts
<1>6. t + u - r - b <= t + u - r - b /\ t + u - r - b + c2 - k <= t + u - r - b + c - k
  BY <1>5
<1> QED
  BY <1>2, <1>3, <1>4, <1>5, <1>6, TillMovesOn

(* A new entry: one more that is earned, with the next number of its       *)
(* payment.                                                                *)
LEMMA EarnedGrows ==
    ASSUME RewardsTypeOK, EntriesOK, NEW p \in Payments \cup {0},
           earned' = earned \cup {[payment |-> p, copy |-> Cardinality(Entries(p)), expires |-> TRUE]}
    PROVE  /\ earned' \subseteq EntryRecords /\ IsFiniteSet(earned')
           /\ EntriesOK' /\ TotalEarned' = TotalEarned + Points /\ Expired' = Expired
<1>1. /\ earned \subseteq EntryRecords /\ IsFiniteSet(earned)
      /\ \A t, u \in earned : t.payment = u.payment /\ t.copy = u.copy => t = u
      /\ \A t \in earned : t.copy < Cardinality(Entries(t.payment))
  BY DEF RewardsTypeOK, EntriesOK
<1>2. /\ \A q : IsFiniteSet(Entries(q)) /\ Cardinality(Entries(q)) \in Nat
      /\ Cardinality(earned) \in Nat
  <2>1. \A q : Entries(q) \subseteq earned
    BY DEF Entries
  <2> QED
    BY <1>1, <2>1, FS_Subset, FS_CardinalityType
<1>3. PICK n \in Nat : n = Cardinality(Entries(p))
  BY <1>2
<1>4. PICK new : new = [payment |-> p, copy |-> n, expires |-> TRUE]
  OBVIOUS
<1>5. new.payment = p /\ new.copy = n /\ new.expires = TRUE /\ new \in EntryRecords
  BY <1>4 DEF EntryRecords
<1>6. earned' = earned \cup {new}
  BY <1>3, <1>4
<1>7. \A t \in earned : t.payment = p => t.copy < n
  BY <1>1, <1>3
<1>8. \A t \in earned : t.copy \in Nat
  BY <1>1 DEF EntryRecords
<1>9. new \notin earned /\ \A t \in earned : t.payment = p => t.copy # n
  BY <1>5, <1>7, <1>8, <1>3
<1>10. IsFiniteSet(earned') /\ Cardinality(earned') = Cardinality(earned) + 1
  <2>1. IsFiniteSet(earned \cup {new}) /\ Cardinality(earned \cup {new}) = Cardinality(earned) + 1
    BY <1>1, <1>9, FS_AddElement
  <2> QED
    BY <1>6, <2>1
<1>11. Expired' = Expired
  BY <1>5, <1>6 DEF Expired
<1>12. TotalEarned' = TotalEarned + Points
  <2>1. PICK c \in Nat : c = Cardinality(earned)
    BY <1>2
  <2>2. Points * (c + 1) = Points * c + Points
    BY OneMoreTimes, RewardsAssumption
  <2> QED
    BY <1>10, <2>1, <2>2 DEF TotalEarned
<1>13. \A t, u \in earned' : t.payment = u.payment /\ t.copy = u.copy => t = u
  BY <1>1, <1>5, <1>6, <1>9
<1>14. ASSUME NEW t \in earned' PROVE t.copy < Cardinality(Entries(t.payment)')
  <2>1. PICK q : q = t.payment
    OBVIOUS
  <2>2. CASE q = p
    <3>1. Entries(p)' = Entries(p) \cup {new} /\ new \notin Entries(p)
      BY <1>5, <1>6, <1>9 DEF Entries
    <3>2. Cardinality(Entries(p)') = n + 1
      BY <1>2, <1>3, <3>1, FS_AddElement
    <3>3. t.copy \in Nat /\ t.copy <= n
      <4>1. t = new \/ (t \in earned /\ t.payment = p)
        BY <1>6, <2>1, <2>2
      <4>2. CASE t = new
        BY <1>3, <1>5, <4>2
      <4>3. CASE t \in earned /\ t.payment = p
        <5>1. t.copy \in Nat /\ t.copy < n
          BY <1>7, <1>8, <4>3
        <5> QED
          BY <1>3, <5>1
      <4> QED
        BY <4>1, <4>2, <4>3
    <3>4. Entries(t.payment)' = Entries(p)'
      BY <2>1, <2>2
    <3> QED
      BY <1>3, <3>2, <3>3, <3>4
  <2>3. CASE q # p
    <3>1. t \in earned /\ Entries(q)' = Entries(q)
      BY <1>5, <1>6, <2>1, <2>3 DEF Entries
    <3>2. Entries(t.payment)' = Entries(t.payment)
      BY <2>1, <3>1
    <3> QED
      BY <1>1, <3>1, <3>2
  <2> QED
    BY <2>2, <2>3
<1>15. \A t \in earned' : (t.copy < Cardinality(Entries(t.payment)'))
  BY <1>14
<1>16. EntriesOK'
  BY <1>13, <1>15 DEF EntriesOK
<1>17. earned' \subseteq EntryRecords
  BY <1>1, <1>5, <1>6
<1> QED
  BY <1>10, <1>11, <1>12, <1>16, <1>17

(* An entry is expired: as many are earned, one more has expired.          *)
LEMMA EntryExpires ==
    ASSUME RewardsTypeOK, EntriesOK, NEW t \in earned, t.expires = TRUE,
           earned' = (earned \ {t}) \cup {[t EXCEPT !.expires = FALSE]}
    PROVE  /\ earned' \subseteq EntryRecords /\ IsFiniteSet(earned')
           /\ EntriesOK' /\ TotalEarned' = TotalEarned
           /\ (Points * Cardinality(Expired))' = Points * Cardinality(Expired) + Points
<1>1. /\ earned \subseteq EntryRecords /\ IsFiniteSet(earned)
      /\ \A x, u \in earned : x.payment = u.payment /\ x.copy = u.copy => x = u
      /\ \A x \in earned : x.copy < Cardinality(Entries(x.payment))
  BY DEF RewardsTypeOK, EntriesOK
<1>2. PICK u : u = [t EXCEPT !.expires = FALSE]
  OBVIOUS
<1>3. t \in EntryRecords
  BY <1>1
<1>4. /\ u.payment = t.payment /\ u.copy = t.copy /\ u.expires = FALSE /\ u # t
      /\ u \in EntryRecords
  BY <1>2, <1>3 DEF EntryRecords
<1>5. u \notin earned
  BY <1>1, <1>4
<1>6. earned' = (earned \ {t}) \cup {u}
  BY <1>2
<1>7. \A S : IsFiniteSet(S) /\ t \in S /\ u \notin S =>
         /\ IsFiniteSet((S \ {t}) \cup {u})
         /\ Cardinality((S \ {t}) \cup {u}) = Cardinality(S)
  <2> SUFFICES ASSUME NEW S, IsFiniteSet(S), t \in S, u \notin S
               PROVE  /\ IsFiniteSet((S \ {t}) \cup {u})
                      /\ Cardinality((S \ {t}) \cup {u}) = Cardinality(S)
    OBVIOUS
  <2>1. PICK R : R = S \ {t}
    OBVIOUS
  <2>2. IsFiniteSet(R) /\ Cardinality(R) = Cardinality(S) - 1 /\ u \notin R
    BY <2>1, FS_RemoveElement
  <2>3. IsFiniteSet(R \cup {u}) /\ Cardinality(R \cup {u}) = Cardinality(R) + 1
    BY <2>2, FS_AddElement
  <2>4. Cardinality(S) \in Nat
    BY FS_CardinalityType
  <2> QED
    BY <2>1, <2>2, <2>3, <2>4
<1>8. IsFiniteSet(earned') /\ Cardinality(earned') = Cardinality(earned)
  BY <1>1, <1>5, <1>6, <1>7
<1>9. /\ Expired' = Expired \cup {u} /\ u \notin Expired /\ Expired \subseteq earned
  BY <1>4, <1>5, <1>6 DEF Expired
<1>10. IsFiniteSet(Expired) /\ Cardinality(Expired) \in Nat /\ Cardinality(Expired') = Cardinality(Expired) + 1
  BY <1>1, <1>9, FS_Subset, FS_AddElement, FS_CardinalityType
<1>11. (Points * Cardinality(Expired))' = Points * Cardinality(Expired) + Points
  <2>1. PICK c \in Nat : c = Cardinality(Expired)
    BY <1>10
  <2>2. Points * (c + 1) = Points * c + Points
    BY OneMoreTimes, RewardsAssumption
  <2> QED
    BY <1>10, <2>1, <2>2
<1>12. \A x, y \in earned' : x.payment = y.payment /\ x.copy = y.copy => x = y
  <2>1. \A x \in earned \ {t} : ~ (x.payment = u.payment /\ x.copy = u.copy)
    BY <1>1, <1>4
  <2> QED
    BY <1>1, <1>6, <2>1
<1>13. \A q : Cardinality(Entries(q)') = Cardinality(Entries(q))
  <2> SUFFICES ASSUME NEW q PROVE Cardinality(Entries(q)') = Cardinality(Entries(q))
    OBVIOUS
  <2>1. CASE q = t.payment
    <3>1. /\ Entries(q)' = (Entries(q) \ {t}) \cup {u}
          /\ t \in Entries(q) /\ u \notin Entries(q) /\ Entries(q) \subseteq earned
      BY <1>4, <1>5, <1>6, <2>1 DEF Entries
    <3>2. IsFiniteSet(Entries(q))
      BY <1>1, <3>1, FS_Subset
    <3> QED
      BY <1>7, <3>1, <3>2
  <2>2. CASE q # t.payment
    <3>1. Entries(q)' = Entries(q)
      BY <1>4, <1>6, <2>2 DEF Entries
    <3> QED
      BY <3>1
  <2> QED
    BY <2>1, <2>2
<1>14. \A x \in earned' : x.copy < Cardinality(Entries(x.payment)')
  <2> SUFFICES ASSUME NEW x \in earned' PROVE x.copy < Cardinality(Entries(x.payment)')
    OBVIOUS
  <2>1. PICK y \in earned : y.payment = x.payment /\ y.copy = x.copy
    BY <1>4, <1>6
  <2>2. PICK q : q = x.payment
    OBVIOUS
  <2>3. y.copy < Cardinality(Entries(q))
    BY <1>1, <2>1, <2>2
  <2>4. x.copy < Cardinality(Entries(q)')
    BY <1>13, <2>1, <2>3
  <2> QED
    BY <2>2, <2>4
<1>15. EntriesOK'
  BY <1>12, <1>14 DEF EntriesOK
<1>16. earned' \subseteq EntryRecords
  BY <1>1, <1>4, <1>6
<1> QED
  BY <1>8, <1>11, <1>15, <1>16 DEF TotalEarned

LEMMA Proceeds ==
    ASSUME till \in [Tills -> TillRecords], NEW j \in Tills, NEW step \in TillSteps, Proceed(j, step)
    PROVE  \E e \in TillRecords :
              /\ e.op = till[j].op /\ e.points = till[j].points /\ e.for = till[j].for
              /\ e.step = step
              /\ till' = [till EXCEPT ![j] = e]
<1>1. PICK t \in TillRecords : t = till[j]
  OBVIOUS
<1>2. PICK e : e = [t EXCEPT !.step = step]
  OBVIOUS
<1>3. e \in TillRecords /\ e.op = t.op /\ e.points = t.points /\ e.for = t.for /\ e.step = step
  BY <1>1, <1>2 DEF TillRecords
<1>4. till' = [till EXCEPT ![j] = e]
  BY <1>1, <1>2 DEF Proceed
<1> QED
  BY <1>1, <1>3, <1>4

LEMMA Kinds ==
    /\ \A ok \in BOOLEAN : DoneTill(ok) \in TillRecords
    /\ NoTill \in TillRecords
    /\ \A ok \in BOOLEAN : TillFine(DoneTill(ok))
    /\ TillFine(NoTill)
BY RestingTills

(* An operation ends, or is forgotten, where it leaves nothing undone.     *)
LEMMA RestingHolds ==
    ASSUME RewardsInv, NEW j \in Tills, NEW e, e = NoTill \/ \E ok \in BOOLEAN : e = DoneTill(ok),
           till' = [till EXCEPT ![j] = e],
           UNCHANGED <<balance, ledger, earned, clock, credited, shared, breaks, unposted, astray>>,
           till[j].step \in {"look", "answer", "claim", "measure", "idle", "done", "burn"}
    PROVE  RewardsInv'
<1>1. till[j] \in TillRecords /\ TillFine(till[j])
  BY RewardsTyped
<1>2. e \in TillRecords /\ TillFine(e) /\ Unwritten(e) = 0 /\ Unpaid(e) = 0 /\ Claimed(e) = 0
  BY RestingTills
<1>3. /\ till[j].step # "entry" /\ till[j].step # "mint" /\ till[j].step # "credit"
  OBVIOUS
<1>4. Unwritten(till[j]) = 0
  BY <1>3 DEF Unwritten
<1>5. Unpaid(till[j]) = 0
  BY <1>3 DEF Unpaid
<1>6. Claimed(till[j]) \in Nat
  BY <1>1, TillCounts
<1>7. Claimed(e) <= Claimed(till[j])
  BY <1>2, <1>6
<1> QED
  BY <1>2, <1>4, <1>5, <1>7, TillAlone

LEMMA AskHolds ==
    ASSUME RewardsInv, NEW j \in Tills, NEW op, NEW step, NEW points \in Nat,
           NEW for \in Payments \cup {0},
           <<op, step, points>> = <<"earn", "look", Points>>
             \/ <<op, step>> \in {<<"redeem", "burn">>, <<"expire", "claim">>},
           Ask(j, op, step, points, for),
           UNCHANGED <<balance, ledger, earned, clock, credited, shared, breaks, unposted, astray>>
    PROVE  RewardsInv'
<1>1. PICK e : e = [op |-> op, step |-> step, points |-> points, for |-> for]
  OBVIOUS
<1>2. /\ e.op = op /\ e.step = step /\ e.points = points /\ e.for = for
  BY <1>1
<1>3. \/ op = "earn" /\ step = "look" /\ points = Points
      \/ op = "redeem" /\ step = "burn"
      \/ op = "expire" /\ step = "claim"
  OBVIOUS
<1>4. e \in TillRecords
  BY <1>1, <1>3 DEF TillRecords, TillSteps
<1>5. TillFine(e) /\ Unwritten(e) = 0 /\ Unpaid(e) = 0 /\ Claimed(e) = 0
  BY <1>2, <1>3 DEF TillFine, Unwritten, Unpaid, Claimed
<1>6. till[j] = NoTill /\ till' = [till EXCEPT ![j] = e]
  BY <1>1 DEF Ask
<1>7. Unwritten(till[j]) = 0 /\ Unpaid(till[j]) = 0 /\ Claimed(till[j]) = 0
  BY <1>6, RestingTills
<1>8. Claimed(e) <= Claimed(till[j])
  BY <1>5, <1>7
<1> QED
  BY <1>4, <1>5, <1>6, <1>7, <1>8, TillAlone

LEMMA StartHolds ==
    ASSUME RewardsInv, NEW j \in Tills,
           \/ \E p \in Payments : Earn(j, p)
           \/ \E points \in Nat \ {0} : Redeem(j, points)
           \/ ExpireStale(j)
    PROVE  RewardsInv'
<1>1. CASE \E p \in Payments : Earn(j, p)
  <2>1. PICK p \in Payments : Earn(j, p)
    BY <1>1
  <2>2. Points \in Nat
    BY RewardsAssumption
  <2> QED
    BY <2>1, <2>2, AskHolds DEF Earn
<1>2. CASE \E points \in Nat \ {0} : Redeem(j, points)
  <2>1. PICK points \in Nat \ {0} : Redeem(j, points)
    BY <1>2
  <2> QED
    BY <2>1, AskHolds DEF Redeem
<1>3. CASE ExpireStale(j)
  <2>1. PICK t \in earned : Ask(j, "expire", "claim", t.copy, t.payment)
    BY <1>3 DEF ExpireStale
  <2>2. t.copy \in Nat /\ t.payment \in Payments \cup {0}
    BY <2>1, RewardsTyped DEF EntryRecords
  <2> QED
    BY <1>3, <2>1, <2>2, AskHolds DEF ExpireStale
<1> QED
  BY <1>1, <1>2, <1>3

LEMMA ProceedHolds ==
    ASSUME RewardsInv, NEW j \in Tills, NEW step,
           Proceed(j, step), till[j].step = "look", step = "mint",
           UNCHANGED <<balance, ledger, earned, clock, credited, shared, breaks, unposted, astray>>
    PROVE  RewardsInv'
<1>1. till[j] \in TillRecords /\ TillFine(till[j]) /\ till \in [Tills -> TillRecords]
  BY RewardsTyped
<1>2. step \in TillSteps
  BY DEF TillSteps
<1>3. PICK e \in TillRecords :
              /\ e.op = till[j].op /\ e.points = till[j].points /\ e.step = step
              /\ till' = [till EXCEPT ![j] = e]
  BY <1>1, <1>2, Proceeds
<1>4. e.op = "earn" /\ e.points = Points
  BY <1>1, <1>3 DEF TillFine
<1>5. TillFine(e)
  BY <1>3, <1>4 DEF TillFine
<1>6. /\ Unwritten(e) = 0 /\ Unpaid(e) = 0 /\ Claimed(e) = 0
      /\ Unwritten(till[j]) = 0 /\ Unpaid(till[j]) = 0 /\ Claimed(till[j]) = 0
  BY <1>3, <1>4 DEF Unwritten, Unpaid, Claimed
<1>7. Claimed(e) <= Claimed(till[j])
  BY <1>6
<1> QED
  BY <1>3, <1>5, <1>6, <1>7, TillAlone

LEMMA LookForEntryHolds ==
    ASSUME RewardsInv, NEW j \in Tills, LookForEntry(j)
    PROVE  RewardsInv'
<1>1. /\ till[j].step = "look"
      /\ Finish(j, TRUE) \/ Proceed(j, "mint")
      /\ UNCHANGED <<balance, ledger, earned, clock, credited, shared, breaks, unposted, astray>>
  BY DEF LookForEntry, Standing
<1>2. CASE Finish(j, TRUE)
  <2>1. till' = [till EXCEPT ![j] = DoneTill(TRUE)]
    BY <1>2 DEF Finish
  <2>2. \E ok \in BOOLEAN : DoneTill(TRUE) = DoneTill(ok)
    OBVIOUS
  <2> QED
    BY <1>1, <2>1, <2>2, RestingHolds
<1>3. CASE Proceed(j, "mint")
  BY <1>1, <1>3, ProceedHolds
<1> QED
  BY <1>1, <1>2, <1>3

LEMMA MintHolds ==
    ASSUME RewardsInv, NEW j \in Tills, Mint(j)
    PROVE  RewardsInv'
<1>1. till[j] \in TillRecords /\ TillFine(till[j]) /\ till \in [Tills -> TillRecords]
  BY RewardsTyped
<1>2. "entry" \in TillSteps
  BY DEF TillSteps
<1>3. PICK e \in TillRecords :
              /\ e.op = till[j].op /\ e.points = till[j].points /\ e.for = till[j].for
              /\ e.step = "entry"
              /\ till' = [till EXCEPT ![j] = e]
  BY <1>1, <1>2, Proceeds DEF Mint
<1>4. /\ till[j].step = "mint" /\ till[j].op \in {"earn", "give back"}
      /\ balance' = balance + till[j].points
      /\ UNCHANGED <<ledger, earned, clock, credited, shared, breaks, unposted, astray>>
  BY <1>1 DEF Mint, Standing, TillFine
<1>5. PICK n \in Nat, b \in Nat : n = till[j].points /\ b = balance
  BY <1>1, RewardsTyped DEF TillRecords
<1>6. TillFine(e)
  BY <1>1, <1>3, <1>4 DEF TillFine
<1>7. RewardsTypeOK' /\ EntriesOK'
  <2>1. balance' \in Nat
    <3>1. balance' = balance + till[j].points
      BY <1>4
    <3>2. b + n \in Nat
      OBVIOUS
    <3>3. balance + till[j].points = b + n
      BY <1>5
    <3> QED
      BY <3>1, <3>2, <3>3
  <2>2. till' \in [Tills -> TillRecords]
    BY <1>1, <1>3
  <2> QED
    BY <1>4, <2>1, <2>2 DEF RewardsInv, RewardsTypeOK, EntriesOK, Entries
<1>8. /\ Unwritten(till[j]) = 0 /\ Unwritten(e) = n
      /\ Claimed(till[j]) = 0 /\ Claimed(e) = 0
  BY <1>3, <1>4, <1>5 DEF Unwritten, Claimed
<1>9. PICK u \in Int, u2 \in Int : u = Unpaid(till[j]) /\ u2 = Unpaid(e) /\ u2 = u + n
  <2>1. CASE till[j].op = "earn"
    <3>1. Unpaid(till[j]) = 0 /\ Unpaid(e) = n
      BY <1>3, <1>4, <1>5, <2>1 DEF Unpaid
    <3>2. 0 \in Int /\ n \in Int /\ n = 0 + n
      OBVIOUS
    <3> QED
      BY <3>1, <3>2
  <2>2. CASE till[j].op = "give back"
    <3>1. Unpaid(till[j]) = 0 - n /\ Unpaid(e) = 0
      BY <1>3, <1>4, <1>5, <2>2 DEF Unpaid
    <3>2. 0 - n \in Int /\ 0 \in Int /\ 0 = (0 - n) + n
      BY <1>5
    <3> QED
      BY <3>1, <3>2
  <2> QED
    BY <1>4, <2>1, <2>2
<1>10. TotalEarned' = TotalEarned /\ Redeemed' = Redeemed
       /\ (Points * Cardinality(Expired))' = Points * Cardinality(Expired)
  BY <1>4 DEF TotalEarned, Redeemed, Expired
<1>11. PICK t \in Int, r \in Int, k \in Int, l \in Int :
            t = TotalEarned /\ r = Redeemed /\ k = Points * Cardinality(Expired) /\ l = ledger
  BY RewardsTyped, Amounts DEF RewardsInv
<1>12. balance' - TotalEarned' - ledger' - Unwritten(e)
           = balance - TotalEarned - ledger - Unwritten(till[j])
  <2>1. (b + n) - t - l - n = b - t - l - 0
    BY <1>5, <1>11
  <2> QED
    BY <1>4, <1>5, <1>8, <1>10, <1>11, <2>1
<1>13. /\ TotalEarned + Unpaid(till[j]) - Redeemed - balance
              <= TotalEarned' + Unpaid(e) - Redeemed' - balance'
       /\ (TotalEarned' + Unpaid(e) - Redeemed' - balance') + Claimed(e)
              - (Points * Cardinality(Expired))'
          <= (TotalEarned + Unpaid(till[j]) - Redeemed - balance) + Claimed(till[j])
              - Points * Cardinality(Expired)
  <2>1. t + u - r - b <= t + u2 - r - (b + n)
        /\ t + u2 - r - (b + n) + 0 - k <= t + u - r - b + 0 - k
    BY <1>5, <1>9, <1>11
  <2> QED
    BY <1>4, <1>5, <1>8, <1>9, <1>10, <1>11, <2>1
<1> QED
  BY <1>3, <1>4, <1>6, <1>7, <1>12, <1>13, TillMovesOn

LEMMA WriteEarnedHolds ==
    ASSUME RewardsInv, NEW j \in Tills, WriteEarned(j)
    PROVE  RewardsInv'
<1>1. till[j] \in TillRecords /\ TillFine(till[j]) /\ till \in [Tills -> TillRecords]
  BY RewardsTyped
<1>2. PICK e : e = DoneTill(TRUE)
  OBVIOUS
<1>3. /\ e \in TillRecords /\ TillFine(e)
      /\ Unwritten(e) = 0 /\ Unpaid(e) = 0 /\ Claimed(e) = 0
  BY <1>2, RestingTills
<1>4. /\ till[j].step = "entry" /\ till[j].op = "earn" /\ till[j].points = Points
      /\ till' = [till EXCEPT ![j] = e]
      /\ UNCHANGED <<balance, ledger, clock, credited, shared, breaks, unposted, astray>>
  BY <1>1, <1>2 DEF WriteEarned, Standing, Finish, TillFine
<1>5. till[j].for \in Payments \cup {0}
  BY <1>1 DEF TillRecords
<1>6. earned' = earned \cup {[payment |-> till[j].for, copy |-> Cardinality(Entries(till[j].for)), expires |-> TRUE]}
  BY DEF WriteEarned
<1>7. /\ earned' \subseteq EntryRecords /\ IsFiniteSet(earned')
      /\ EntriesOK' /\ TotalEarned' = TotalEarned + Points /\ Expired' = Expired
  BY <1>5, <1>6, EarnedGrows DEF RewardsInv
<1>8. RewardsTypeOK'
  <2>1. till' \in [Tills -> TillRecords]
    BY <1>1, <1>3, <1>4
  <2> QED
    BY <1>4, <1>7, <2>1 DEF RewardsInv, RewardsTypeOK
<1>9. /\ Unwritten(till[j]) = Points /\ Unpaid(till[j]) = Points /\ Claimed(till[j]) = 0
  BY <1>4 DEF Unwritten, Unpaid, Claimed
<1>10. Redeemed' = Redeemed /\ (Points * Cardinality(Expired))' = Points * Cardinality(Expired)
  BY <1>4, <1>7 DEF Redeemed
<1>11. PICK n \in Nat, t \in Int, r \in Int, k \in Int, l \in Int, b \in Int :
            /\ t = TotalEarned /\ r = Redeemed /\ k = Points * Cardinality(Expired) /\ l = ledger
            /\ b = balance /\ n = Points
  BY RewardsTyped, Amounts, RewardsAssumption DEF RewardsInv
<1>12. balance' - TotalEarned' - ledger' - Unwritten(e)
           = balance - TotalEarned - ledger - Unwritten(till[j])
  <2>1. b - (t + n) - l - 0 = b - t - l - n
    BY <1>11
  <2> QED
    BY <1>3, <1>4, <1>7, <1>9, <1>11, <2>1
<1>13. /\ TotalEarned + Unpaid(till[j]) - Redeemed - balance
              <= TotalEarned' + Unpaid(e) - Redeemed' - balance'
       /\ (TotalEarned' + Unpaid(e) - Redeemed' - balance') + Claimed(e)
              - (Points * Cardinality(Expired))'
          <= (TotalEarned + Unpaid(till[j]) - Redeemed - balance) + Claimed(till[j])
              - Points * Cardinality(Expired)
  <2>1. t + n - r - b <= (t + n) + 0 - r - b
        /\ (t + n) + 0 - r - b + 0 - k <= t + n - r - b + 0 - k
    BY <1>11
  <2> QED
    BY <1>3, <1>4, <1>7, <1>9, <1>10, <1>11, <2>1
<1> QED
  BY <1>3, <1>4, <1>7, <1>8, <1>12, <1>13, TillMovesOn

LEMMA BurnHolds ==
    ASSUME RewardsInv, NEW j \in Tills, Burn(j)
    PROVE  RewardsInv'
<1>1. till[j] \in TillRecords /\ TillFine(till[j]) /\ till \in [Tills -> TillRecords]
  BY RewardsTyped
<1>2. /\ till[j].step = "burn" /\ till[j].op \in {"redeem", "expire"}
      /\ UNCHANGED <<ledger, earned, clock, credited, shared, breaks, unposted, astray>>
  BY <1>1 DEF Burn, Standing, TillFine
<1>3. CASE Finish(j, FALSE) /\ UNCHANGED balance
  <2>1. till' = [till EXCEPT ![j] = DoneTill(FALSE)]
    BY <1>3 DEF Finish
  <2>2. \E ok \in BOOLEAN : DoneTill(FALSE) = DoneTill(ok)
    OBVIOUS
  <2> QED
    BY <1>2, <1>3, <2>1, <2>2, RestingHolds
<1>4. CASE balance >= till[j].points /\ balance' = balance - till[j].points /\ Proceed(j, "entry")
  <2>1. "entry" \in TillSteps
    BY DEF TillSteps
  <2>2. PICK e \in TillRecords :
              /\ e.op = till[j].op /\ e.points = till[j].points /\ e.for = till[j].for
              /\ e.step = "entry"
              /\ till' = [till EXCEPT ![j] = e]
    BY <1>1, <1>4, <2>1, Proceeds
  <2>3. PICK n \in Nat, b \in Nat : n = till[j].points /\ b = balance
    BY <1>1, RewardsTyped DEF TillRecords
  <2>4. b - n \in Nat /\ balance' = b - n
    <3>1. balance' = balance - till[j].points /\ balance >= till[j].points
      BY <1>4
    <3>2. b >= n
      BY <2>3, <3>1
    <3>3. b - n \in Nat
      BY <3>2
    <3>4. balance - till[j].points = b - n
      BY <2>3
    <3> QED
      BY <3>1, <3>3, <3>4
  <2>5. TillFine(e)
    BY <1>1, <1>2, <2>2 DEF TillFine
  <2>6. RewardsTypeOK' /\ EntriesOK'
    <3>1. till' \in [Tills -> TillRecords]
      BY <1>1, <2>2
    <3>2. balance' \in Nat
      BY <2>4
    <3> QED
      BY <1>2, <3>1, <3>2 DEF RewardsInv, RewardsTypeOK, EntriesOK, Entries
  <2>7. Unwritten(till[j]) = 0 /\ Unpaid(till[j]) = 0 /\ Unwritten(e) = 0 - n /\ Claimed(e) = 0
    BY <1>2, <2>2, <2>3 DEF Unwritten, Unpaid, Claimed
  <2>8. PICK u2 \in Int, c \in Int : u2 = Unpaid(e) /\ c = Claimed(till[j])
                                     /\ 0 - n <= u2 /\ u2 + n <= c
    <3>1. CASE till[j].op = "redeem"
      <4>1. Unpaid(e) = 0 - n /\ Claimed(till[j]) = 0
        BY <1>2, <2>2, <2>3, <3>1 DEF Unpaid, Claimed
      <4>2. 0 - n \in Int /\ 0 \in Int /\ 0 - n <= 0 - n /\ (0 - n) + n <= 0
        BY <2>3
      <4> QED
        BY <4>1, <4>2
    <3>2. CASE till[j].op = "expire"
      <4>1. Unpaid(e) = 0 /\ Claimed(till[j]) = Points /\ e.points <= Points
        <5>1. TillFine(till[j]) => till[j].points <= Points
          BY <1>2, <3>2 DEF TillFine
        <5> QED
          BY <1>1, <1>2, <2>2, <3>2, <5>1 DEF Unpaid, Claimed
      <4>2. PICK m \in Nat : m = Points
        BY RewardsAssumption
      <4>3. n <= m
        BY <2>2, <2>3, <4>1, <4>2
      <4>4. m \in Int /\ 0 \in Int /\ 0 - n <= 0 /\ 0 + n <= m
        BY <4>3
      <4> QED
        BY <4>1, <4>2, <4>4
    <3> QED
      BY <1>2, <3>1, <3>2
  <2>9. TotalEarned' = TotalEarned /\ Redeemed' = Redeemed
       /\ (Points * Cardinality(Expired))' = Points * Cardinality(Expired)
    BY <1>2 DEF TotalEarned, Redeemed, Expired
  <2>10. PICK t \in Int, r \in Int, k \in Int, l \in Int :
            t = TotalEarned /\ r = Redeemed /\ k = Points * Cardinality(Expired) /\ l = ledger
    BY RewardsTyped, Amounts DEF RewardsInv
  <2>11. balance' - TotalEarned' - ledger' - Unwritten(e)
           = balance - TotalEarned - ledger - Unwritten(till[j])
    <3>1. (b - n) - t - l - (0 - n) = b - t - l - 0
      OBVIOUS
    <3> QED
      BY <1>2, <2>3, <2>4, <2>7, <2>9, <2>10, <3>1
  <2>12. /\ TotalEarned + Unpaid(till[j]) - Redeemed - balance
              <= TotalEarned' + Unpaid(e) - Redeemed' - balance'
         /\ (TotalEarned' + Unpaid(e) - Redeemed' - balance') + Claimed(e)
              - (Points * Cardinality(Expired))'
            <= (TotalEarned + Unpaid(till[j]) - Redeemed - balance) + Claimed(till[j])
              - Points * Cardinality(Expired)
    <3>1. t + 0 - r - b <= t + u2 - r - (b - n)
          /\ t + u2 - r - (b - n) + 0 - k <= t + 0 - r - b + c - k
      BY <2>8
    <3> QED
      BY <2>3, <2>4, <2>7, <2>8, <2>9, <2>10, <3>1
  <2> QED
    BY <1>2, <2>2, <2>5, <2>6, <2>11, <2>12, TillMovesOn
<1> QED
  BY <1>3, <1>4 DEF Burn

LEMMA WriteEntryHolds ==
    ASSUME RewardsInv, NEW j \in Tills, WriteEntry(j)
    PROVE  RewardsInv'
<1>1. till[j] \in TillRecords /\ TillFine(till[j]) /\ till \in [Tills -> TillRecords]
  BY RewardsTyped
<1>2. /\ till[j].step = "entry" /\ till[j].op \in {"redeem", "expire", "give back"}
      /\ UNCHANGED <<balance, earned, clock, credited, shared, breaks, unposted, astray>>
      /\ ledger' = IF till[j].op = "give back" THEN ledger + till[j].points ELSE ledger - till[j].points
      /\ till[j].op = "redeem" => Proceed(j, "credit")
      /\ till[j].op = "expire" => Finish(j, TRUE)
      /\ till[j].op = "give back" => Finish(j, FALSE)
  BY DEF WriteEntry, Standing
<1>3. PICK n \in Nat, l \in Int : n = till[j].points /\ l = ledger
  BY <1>1, RewardsTyped DEF TillRecords
<1>4. PICK e \in TillRecords :
              /\ till' = [till EXCEPT ![j] = e] /\ TillFine(e)
              /\ Unwritten(e) = 0 /\ Unpaid(e) = Unpaid(till[j])
              /\ Claimed(e) = 0 /\ Claimed(till[j]) = 0
  <2>1. CASE till[j].op = "redeem"
    <3>1. "credit" \in TillSteps
      BY DEF TillSteps
    <3>2. PICK e \in TillRecords :
              /\ e.op = till[j].op /\ e.points = till[j].points /\ e.for = till[j].for
              /\ e.step = "credit"
              /\ till' = [till EXCEPT ![j] = e]
      BY <1>1, <1>2, <2>1, <3>1, Proceeds
    <3>3. TillFine(e)
      BY <2>1, <3>2 DEF TillFine
    <3>4. Unwritten(e) = 0 /\ Claimed(e) = 0 /\ Claimed(till[j]) = 0 /\ Unpaid(e) = Unpaid(till[j])
      BY <1>2, <2>1, <3>2 DEF Unwritten, Claimed, Unpaid
    <3> QED
      BY <3>2, <3>3, <3>4
  <2>2. CASE till[j].op # "redeem"
    <3>1. PICK ok \in BOOLEAN : Finish(j, ok)
      BY <1>2, <2>2
    <3>2. PICK e : e = DoneTill(ok)
      OBVIOUS
    <3>3. /\ till' = [till EXCEPT ![j] = e] /\ e \in TillRecords /\ TillFine(e)
          /\ Unwritten(e) = 0 /\ Unpaid(e) = 0 /\ Claimed(e) = 0
      BY <3>1, <3>2, RestingTills DEF Finish
    <3>4. Unpaid(till[j]) = 0 /\ Claimed(till[j]) = 0
      BY <1>2, <2>2 DEF Unpaid, Claimed
    <3> QED
      BY <3>3, <3>4
  <2> QED
    BY <2>1, <2>2
<1>5. PICK w \in Int : w = Unwritten(till[j]) /\ ledger' = l + w
  <2>1. CASE till[j].op = "give back"
    <3>1. Unwritten(till[j]) = n
      BY <1>2, <1>3, <2>1 DEF Unwritten
    <3>2. ledger' = ledger + till[j].points
      BY <1>2, <2>1
    <3>3. ledger + till[j].points = l + n /\ n \in Int
      BY <1>3
    <3> QED
      BY <3>1, <3>2, <3>3
  <2>2. CASE till[j].op # "give back"
    <3>1. Unwritten(till[j]) = 0 - n
      BY <1>2, <1>3, <2>2 DEF Unwritten
    <3>2. ledger' = ledger - till[j].points
      BY <1>2, <2>2
    <3>3. ledger - till[j].points = l + (0 - n) /\ 0 - n \in Int
      BY <1>3
    <3> QED
      BY <3>1, <3>2, <3>3
  <2> QED
    BY <2>1, <2>2
<1>6. RewardsTypeOK' /\ EntriesOK'
  <2>1. till' \in [Tills -> TillRecords]
    BY <1>1, <1>4
  <2>2. ledger' \in Int
    BY <1>5
  <2> QED
    BY <1>2, <2>1, <2>2 DEF RewardsInv, RewardsTypeOK, EntriesOK, Entries
<1>7. TotalEarned' = TotalEarned /\ Redeemed' = Redeemed
      /\ (Points * Cardinality(Expired))' = Points * Cardinality(Expired)
  BY <1>2 DEF TotalEarned, Redeemed, Expired
<1>8. PICK t \in Int, r \in Int, k \in Int, b \in Int, u \in Int :
            /\ t = TotalEarned /\ r = Redeemed /\ k = Points * Cardinality(Expired) /\ b = balance
            /\ u = Unpaid(till[j])
  BY <1>1, RewardsTyped, Amounts, TillCounts DEF RewardsInv
<1>9. balance' - TotalEarned' - ledger' - Unwritten(e)
         = balance - TotalEarned - ledger - Unwritten(till[j])
  <2>1. b - t - (l + w) - 0 = b - t - l - w
    OBVIOUS
  <2> QED
    BY <1>2, <1>3, <1>4, <1>5, <1>7, <1>8, <2>1
<1>10. /\ TotalEarned + Unpaid(till[j]) - Redeemed - balance
              <= TotalEarned' + Unpaid(e) - Redeemed' - balance'
       /\ (TotalEarned' + Unpaid(e) - Redeemed' - balance') + Claimed(e)
              - (Points * Cardinality(Expired))'
            <= (TotalEarned + Unpaid(till[j]) - Redeemed - balance) + Claimed(till[j])
              - Points * Cardinality(Expired)
  <2>1. t + u - r - b <= t + u - r - b /\ t + u - r - b + 0 - k <= t + u - r - b + 0 - k
    OBVIOUS
  <2> QED
    BY <1>2, <1>4, <1>7, <1>8, <2>1
<1> QED
  BY <1>2, <1>4, <1>6, <1>9, <1>10, TillMovesOn

LEMMA CreditWalletHolds ==
    ASSUME RewardsInv, NEW j \in Tills, CreditWallet(j)
    PROVE  RewardsInv'
<1>1. till[j] \in TillRecords /\ TillFine(till[j]) /\ till \in [Tills -> TillRecords]
  BY RewardsTyped
<1>2. /\ till[j].step = "credit" /\ till[j].op = "redeem"
      /\ UNCHANGED <<balance, ledger, earned, clock, breaks, unposted>>
  BY <1>1 DEF CreditWallet, Standing, TillFine
<1>3. "answer" \in TillSteps
  BY DEF TillSteps
<1>4. PICK e \in TillRecords :
              /\ e.op = till[j].op /\ e.points = till[j].points /\ e.for = till[j].for
              /\ e.step = "answer"
              /\ till' = [till EXCEPT ![j] = e]
  BY <1>1, <1>3, Proceeds DEF CreditWallet
<1>5. PICK n \in Nat : n = till[j].points
  BY <1>1 DEF TillRecords
<1>6. TillFine(e)
  BY <1>2, <1>4 DEF TillFine
<1>7. /\ Unwritten(e) = 0 /\ Unwritten(till[j]) = 0 /\ Claimed(e) = 0 /\ Claimed(till[j]) = 0
      /\ Unpaid(e) = 0 /\ Unpaid(till[j]) = 0 - n
  BY <1>2, <1>4, <1>5 DEF Unwritten, Claimed, Unpaid
<1>8. credited \in [Milliseconds -> Nat] /\ clock \in Milliseconds
  BY RewardsTyped
<1>9. \/ /\ credited[clock] = 0 /\ credited' = [credited EXCEPT ![clock] = n]
         /\ UNCHANGED <<shared, astray>>
      \/ shared' = TRUE /\ astray' = astray - n /\ UNCHANGED credited
  BY <1>5 DEF CreditWallet
<1>10. credited' \in [Milliseconds -> Nat] /\ shared' \in BOOLEAN /\ astray' \in Int
  <2>1. credited' \in [Milliseconds -> Nat]
    BY <1>8, <1>9
  <2>2. shared' \in BOOLEAN
    BY <1>9, RewardsTyped
  <2>3. PICK a \in Int : a = astray
    BY RewardsTyped
  <2>4. a - n \in Int
    OBVIOUS
  <2>5. astray' = a - n \/ astray' = a
    BY <1>9, <2>3
  <2> QED
    BY <2>1, <2>2, <2>4, <2>5
<1>11. RewardsTypeOK' /\ EntriesOK' /\ AllPosted'
  <2>1. till' \in [Tills -> TillRecords]
    BY <1>1, <1>4
  <2>2. RewardsTypeOK' /\ EntriesOK'
    BY <1>2, <1>10, <2>1 DEF RewardsInv, RewardsTypeOK, EntriesOK, Entries
  <2>3. AllPosted'
    BY <1>2, <1>9, <1>10, RewardsTyped DEF RewardsInv, AllPosted
  <2> QED
    BY <2>2, <2>3
<1>12. TotalEarned' = TotalEarned /\ (Points * Cardinality(Expired))' = Points * Cardinality(Expired)
  BY <1>2 DEF TotalEarned, Expired
<1>13. PICK t \in Int, r \in Int, k \in Nat, b \in Nat, l \in Int, a \in Int, m \in Int :
            /\ t = TotalEarned /\ r = Redeemed /\ k = Points * Cardinality(Expired) /\ b = balance
            /\ l = ledger /\ a = astray /\ m = unposted
  BY BooksTyped
<1>14. balance' - TotalEarned' - ledger' - unposted' - Unwritten(e)
         = balance - TotalEarned - ledger - unposted - Unwritten(till[j])
  BY <1>2, <1>7, <1>12, <1>13
<1>15. PICK a2 \in Int, r2 \in Int : a2 = astray' /\ r2 = Redeemed' /\ a2 - r2 = a - r - n
  <2>1. CASE shared' = TRUE /\ astray' = astray - n /\ UNCHANGED credited
    <3>1. Redeemed' = r
      BY <1>13, <2>1 DEF Redeemed
    <3>2. astray' = a - n
      BY <1>13, <2>1
    <3>3. a - n \in Int /\ a - n - r = a - r - n
      OBVIOUS
    <3> QED
      BY <3>1, <3>2, <3>3
  <2>2. CASE /\ credited[clock] = 0 /\ credited' = [credited EXCEPT ![clock] = n]
             /\ UNCHANGED <<shared, astray>>
    <3>1. IsFiniteSet(Milliseconds)
      BY FS_Interval, RewardsAssumption DEF Milliseconds
    <3>2. PICK f, g, c : f = credited /\ g = credited' /\ c = clock
      OBVIOUS
    <3>3. /\ c \in Milliseconds /\ f[c] = 0 /\ g[c] = n
          /\ \A i \in Milliseconds \ {c} : g[i] = f[i]
          /\ \A i \in Milliseconds : f[i] \in Int
          /\ \A i \in Milliseconds : g[i] \in Int
      BY <1>8, <1>10, <2>2, <3>2
    <3>4. SumFunctionOnSet(g, Milliseconds) = SumFunctionOnSet(f, Milliseconds) - f[c] + g[c]
      BY <3>1, <3>3, SumChange
    <3>5. Redeemed = SumFunctionOnSet(f, Milliseconds) /\ Redeemed' = SumFunctionOnSet(g, Milliseconds)
      BY <1>8, <1>10, <3>2 DEF Redeemed, SumFunction
    <3>6. Redeemed' = r - 0 + n /\ astray' = a
      BY <1>13, <2>2, <3>3, <3>4, <3>5
    <3>7. r - 0 + n \in Int /\ a - (r - 0 + n) = a - r - n
      OBVIOUS
    <3> QED
      BY <3>6, <3>7
  <2> QED
    BY <1>9, <2>1, <2>2
<1>16. /\ TotalEarned + astray + Unpaid(till[j]) - Redeemed - balance
              <= TotalEarned' + astray' + Unpaid(e) - Redeemed' - balance'
       /\ (TotalEarned' + astray' + Unpaid(e) - Redeemed' - balance') + Claimed(e)
              - (Points * Cardinality(Expired))'
          <= (TotalEarned + astray + Unpaid(till[j]) - Redeemed - balance) + Claimed(till[j])
              - Points * Cardinality(Expired)
  <2>1. a2 - r2 = a - r - n
    BY <1>15
  <2>2. t + a + (0 - n) - r - b = t + a2 + 0 - r2 - b
    BY <2>1
  <2>3. /\ t + a + (0 - n) - r - b <= t + a2 + 0 - r2 - b
        /\ t + a2 + 0 - r2 - b + 0 - k <= t + a + (0 - n) - r - b + 0 - k
    BY <2>2
  <2> QED
    BY <1>2, <1>7, <1>12, <1>13, <1>15, <2>3
<1> QED
  BY <1>4, <1>6, <1>11, <1>14, <1>16, TillMoves

(* The points are handed back: the wallet refused, or the answer failed.   *)
LEMMA CreditRefusedHolds ==
    ASSUME RewardsInv, NEW j \in Tills, CreditRefused(j)
    PROVE  RewardsInv'
<1>1. till[j] \in TillRecords /\ TillFine(till[j]) /\ till \in [Tills -> TillRecords]
  BY RewardsTyped
<1>2. /\ till[j].step = "credit" /\ till[j].op = "redeem"
      /\ UNCHANGED <<balance, ledger, earned, clock, credited, shared, breaks, unposted, astray>>
      /\ till' = [till EXCEPT ![j].op = "give back", ![j].step = "mint"]
  BY <1>1 DEF CreditRefused, Standing, TillFine
<1>3. PICK e : e = [till[j] EXCEPT !.op = "give back", !.step = "mint"]
  OBVIOUS
<1>4. till' = [till EXCEPT ![j] = e]
  BY <1>1, <1>2, <1>3
<1>5. e.op = "give back" /\ e.step = "mint" /\ e.points = till[j].points /\ e \in TillRecords
  BY <1>1, <1>3 DEF TillRecords, TillSteps
<1>6. TillFine(e)
  BY <1>5 DEF TillFine
<1>7. /\ Unwritten(e) = Unwritten(till[j])
      /\ Unpaid(e) = Unpaid(till[j]) /\ Claimed(e) = 0 /\ Claimed(till[j]) = 0
  BY <1>2, <1>5 DEF Unwritten, Unpaid, Claimed
<1>8. Claimed(e) <= Claimed(till[j])
  BY <1>7
<1> QED
  BY <1>2, <1>4, <1>5, <1>6, <1>7, <1>8, TillAlone

LEMMA AnswerHolds ==
    ASSUME RewardsInv, NEW j \in Tills, Answer(j) \/ Heard(j)
    PROVE  RewardsInv'
<1>1. /\ till[j].step \in {"answer", "done"}
      /\ UNCHANGED <<balance, ledger, earned, clock, credited, shared, breaks, unposted, astray>>
  BY DEF Answer, Heard, Standing
<1>2. PICK e : (e = NoTill \/ \E ok \in BOOLEAN : e = DoneTill(ok)) /\ till' = [till EXCEPT ![j] = e]
  BY DEF Answer, Heard, Finish, Leave
<1> QED
  BY <1>1, <1>2, RestingHolds

LEMMA ClaimEntryHolds ==
    ASSUME RewardsInv, NEW j \in Tills, ClaimEntry(j)
    PROVE  RewardsInv'
<1>1. till[j] \in TillRecords /\ TillFine(till[j]) /\ till \in [Tills -> TillRecords]
  BY RewardsTyped
<1>2. /\ till[j].step = "claim" /\ till[j].op = "expire"
      /\ UNCHANGED <<balance, ledger, clock, credited, shared, breaks, unposted, astray>>
  BY <1>1 DEF ClaimEntry, Standing, TillFine
<1>3. PICK t : t = [payment |-> till[j].for, copy |-> till[j].points, expires |-> TRUE]
  OBVIOUS
<1>4. \/ /\ t \in earned /\ Proceed(j, "measure")
         /\ earned' = (earned \ {t}) \cup {[t EXCEPT !.expires = FALSE]}
      \/ Finish(j, TRUE) /\ UNCHANGED earned
  BY <1>3 DEF ClaimEntry
<1>5. CASE Finish(j, TRUE) /\ UNCHANGED earned
  <2>1. till' = [till EXCEPT ![j] = DoneTill(TRUE)]
    BY <1>5 DEF Finish
  <2>2. \E ok \in BOOLEAN : DoneTill(TRUE) = DoneTill(ok)
    OBVIOUS
  <2> QED
    BY <1>2, <1>5, <2>1, <2>2, RestingHolds
<1>6. CASE /\ t \in earned /\ Proceed(j, "measure")
           /\ earned' = (earned \ {t}) \cup {[t EXCEPT !.expires = FALSE]}
  <2>1. "measure" \in TillSteps
    BY DEF TillSteps
  <2>2. PICK e \in TillRecords :
              /\ e.op = till[j].op /\ e.points = till[j].points /\ e.for = till[j].for
              /\ e.step = "measure"
              /\ till' = [till EXCEPT ![j] = e]
    BY <1>1, <1>6, <2>1, Proceeds
  <2>3. TillFine(e)
    BY <1>2, <2>2 DEF TillFine
  <2>4. t.expires = TRUE
    BY <1>3
  <2>5. /\ earned' \subseteq EntryRecords /\ IsFiniteSet(earned')
        /\ EntriesOK' /\ TotalEarned' = TotalEarned
        /\ (Points * Cardinality(Expired))' = Points * Cardinality(Expired) + Points
    BY <1>6, <2>4, EntryExpires DEF RewardsInv
  <2>6. RewardsTypeOK'
    <3>1. till' \in [Tills -> TillRecords]
      BY <1>1, <2>2
    <3> QED
      BY <1>2, <2>5, <3>1 DEF RewardsInv, RewardsTypeOK
  <2>7. /\ Unwritten(e) = 0 /\ Unwritten(till[j]) = 0 /\ Unpaid(e) = 0 /\ Unpaid(till[j]) = 0
        /\ Claimed(till[j]) = 0 /\ Claimed(e) = Points
    BY <1>2, <2>2 DEF Unwritten, Unpaid, Claimed
  <2>8. Redeemed' = Redeemed
    BY <1>2 DEF Redeemed
  <2>9. PICK n \in Nat, x \in Int, r \in Int, k \in Int, b \in Int :
            /\ x = TotalEarned /\ r = Redeemed /\ k = Points * Cardinality(Expired) /\ b = balance
            /\ n = Points
    BY RewardsTyped, Amounts, RewardsAssumption DEF RewardsInv
  <2>10. balance' - TotalEarned' - ledger' - Unwritten(e)
         = balance - TotalEarned - ledger - Unwritten(till[j])
    BY <1>2, <2>5, <2>7
  <2>11. /\ TotalEarned + Unpaid(till[j]) - Redeemed - balance
              <= TotalEarned' + Unpaid(e) - Redeemed' - balance'
         /\ (TotalEarned' + Unpaid(e) - Redeemed' - balance') + Claimed(e)
              - (Points * Cardinality(Expired))'
            <= (TotalEarned + Unpaid(till[j]) - Redeemed - balance) + Claimed(till[j])
              - Points * Cardinality(Expired)
    <3>1. x + 0 - r - b <= x + 0 - r - b /\ x + 0 - r - b + n - (k + n) <= x + 0 - r - b + 0 - k
      OBVIOUS
    <3> QED
      BY <1>2, <2>5, <2>7, <2>8, <2>9, <3>1
  <2> QED
    BY <1>2, <2>2, <2>3, <2>5, <2>6, <2>10, <2>11, TillMovesOn
<1> QED
  BY <1>4, <1>5, <1>6

(* The least of the entry's points and the balance is at most either. *)
LEMMA Removable ==
    ASSUME NEW n \in Nat, NEW b \in Nat
    PROVE  Min({n, b}) \in Nat /\ Min({n, b}) <= n
<1> DEFINE S == {n, b}
<1>1. S \subseteq Nat /\ S # {} /\ n \in S
  OBVIOUS
<1> HIDE DEF S
<1>2. Min(S) \in S /\ Min(S) <= n
  BY <1>1, MinIsLeast
<1> QED
  BY <1>1, <1>2 DEF S

LEMMA MeasureExpiryHolds ==
    ASSUME RewardsInv, NEW j \in Tills, MeasureExpiry(j)
    PROVE  RewardsInv'
<1>1. till[j] \in TillRecords /\ TillFine(till[j]) /\ till \in [Tills -> TillRecords]
  BY RewardsTyped
<1>2. /\ till[j].step = "measure" /\ till[j].op = "expire"
      /\ UNCHANGED <<balance, ledger, earned, clock, credited, shared, breaks, unposted, astray>>
  BY <1>1 DEF MeasureExpiry, Standing, TillFine
<1>3. PICK m : m = Min({Points, balance})
  OBVIOUS
<1>4. m \in Nat /\ m <= Points
  <2>1. PICK n \in Nat, b \in Nat : n = Points /\ b = balance
    BY RewardsTyped, RewardsAssumption
  <2>2. Min({n, b}) \in Nat /\ Min({n, b}) <= n
    BY Removable
  <2>3. m = Min({n, b})
    BY <1>3, <2>1
  <2> QED
    BY <2>1, <2>2, <2>3
<1>5. \/ till' = [till EXCEPT ![j].step = "burn", ![j].points = m]
      \/ Finish(j, TRUE)
  BY <1>3 DEF MeasureExpiry
<1>6. CASE Finish(j, TRUE)
  <2>1. till' = [till EXCEPT ![j] = DoneTill(TRUE)]
    BY <1>6 DEF Finish
  <2>2. \E ok \in BOOLEAN : DoneTill(TRUE) = DoneTill(ok)
    OBVIOUS
  <2> QED
    BY <1>2, <2>1, <2>2, RestingHolds
<1>7. CASE till' = [till EXCEPT ![j].step = "burn", ![j].points = m]
  <2>1. PICK e : e = [till[j] EXCEPT !.step = "burn", !.points = m]
    OBVIOUS
  <2>2. till' = [till EXCEPT ![j] = e]
    BY <1>1, <1>7, <2>1
  <2>3. e.op = "expire" /\ e.step = "burn" /\ e.points = m /\ e \in TillRecords
    BY <1>1, <1>2, <1>4, <2>1 DEF TillRecords, TillSteps
  <2>4. TillFine(e)
    BY <1>4, <2>3 DEF TillFine
  <2>5. /\ Unwritten(e) = 0 /\ Unwritten(till[j]) = 0 /\ Unpaid(e) = 0 /\ Unpaid(till[j]) = 0
        /\ Claimed(e) = Points /\ Claimed(till[j]) = Points
    BY <1>2, <2>3 DEF Unwritten, Unpaid, Claimed
  <2>6. Claimed(e) <= Claimed(till[j])
    <3>1. Points <= Points
      BY RewardsAssumption
    <3> QED
      BY <2>5, <3>1
  <2> QED
    BY <1>2, <2>2, <2>3, <2>4, <2>5, <2>6, TillAlone
<1> QED
  BY <1>5, <1>6, <1>7

(* The books, where a step breaks an operation off.                        *)
LEMMA BreakTypes ==
    ASSUME RewardsInv, breaks' = breaks + 1, till' \in [Tills -> TillRecords],
           unposted' \in Int, astray' \in Int,
           UNCHANGED <<balance, ledger, earned, clock, credited, shared>>
    PROVE  /\ RewardsTypeOK' /\ EntriesOK' /\ AllPosted'
           /\ TotalEarned' = TotalEarned /\ Redeemed' = Redeemed
           /\ (Points * Cardinality(Expired))' = Points * Cardinality(Expired)
<1>1. breaks' \in Nat /\ breaks' # 0
  BY RewardsTyped
<1>2. RewardsTypeOK'
  BY <1>1 DEF RewardsInv, RewardsTypeOK
<1>3. EntriesOK'
  BY DEF RewardsInv, EntriesOK, Entries
<1>4. AllPosted'
  BY <1>1 DEF AllPosted
<1> QED
  BY <1>2, <1>3, <1>4 DEF TotalEarned, Redeemed, Expired

(* A statement fails: what the operation had written on one side only      *)
(* stays so, and is counted.                                               *)
LEMMA StatementThrowsHolds ==
    ASSUME RewardsInv, NEW j \in Tills, StatementThrows(j)
    PROVE  RewardsInv'
<1>1. till[j] \in TillRecords /\ TillFine(till[j]) /\ till \in [Tills -> TillRecords]
  BY RewardsTyped
<1>2. breaks' = breaks + 1 /\ UNCHANGED <<balance, ledger, earned, clock, credited, shared>>
  BY DEF StatementThrows
<1>3. PICK w \in Int, u \in Int, c \in Nat, n \in Nat :
           w = Unwritten(till[j]) /\ u = Unpaid(till[j]) /\ c = Claimed(till[j]) /\ n = till[j].points
  BY <1>1, TillCounts DEF TillRecords
<1>4. PICK t \in Int, r \in Int, k \in Nat, b \in Nat, l \in Int, a \in Int, m \in Int :
            /\ t = TotalEarned /\ r = Redeemed /\ k = Points * Cardinality(Expired) /\ b = balance
            /\ l = ledger /\ a = astray /\ m = unposted
  BY BooksTyped
<1>5. PICK e \in TillRecords, w2 \in Int, u2 \in Int, a2 \in Int, m2 \in Int :
            /\ TillFine(e) /\ till' = [till EXCEPT ![j] = e]
            /\ w2 = Unwritten(e) /\ u2 = Unpaid(e) /\ Claimed(e) = 0
            /\ a2 = astray' /\ m2 = unposted'
            /\ m2 + w2 = m + w /\ a2 + u2 = a + u
  <2>1. CASE Standing(j, "answer")
    <3>1. PICK e : e = [till[j] EXCEPT !.op = "give back", !.step = "mint"]
      OBVIOUS
    <3>2. /\ till' = [till EXCEPT ![j].op = "give back", ![j].step = "mint"]
          /\ astray' = astray + till[j].points /\ unposted' = unposted
      BY <2>1 DEF StatementThrows
    <3>3. till' = [till EXCEPT ![j] = e]
      BY <1>1, <3>1, <3>2
    <3>4. e.op = "give back" /\ e.step = "mint" /\ e.points = till[j].points /\ e \in TillRecords
      BY <1>1, <3>1 DEF TillRecords, TillSteps
    <3>5. TillFine(e)
      BY <3>4 DEF TillFine
    <3>6. /\ Unwritten(e) = 0 /\ Unwritten(till[j]) = 0
          /\ Unpaid(e) = 0 - n /\ Unpaid(till[j]) = 0 /\ Claimed(e) = 0
      BY <1>3, <2>1, <3>4 DEF Unwritten, Unpaid, Claimed, Standing
    <3>7. astray' = a + n /\ unposted' = m
      BY <1>3, <1>4, <3>2
    <3>8. /\ 0 \in Int /\ 0 - n \in Int /\ a + n \in Int /\ w = 0 /\ u = 0
          /\ m + 0 = m + w /\ (a + n) + (0 - n) = a + u
      BY <1>3, <3>6
    <3> QED
      BY <3>3, <3>4, <3>5, <3>6, <3>7, <3>8
  <2>2. CASE ~ Standing(j, "answer")
    <3>1. /\ till' = [till EXCEPT ![j] = DoneTill(FALSE)]
          /\ unposted' = unposted + Unwritten(till[j])
          /\ astray' = astray + Unpaid(till[j])
      BY <2>2 DEF StatementThrows, Finish
    <3>2. PICK e : e = DoneTill(FALSE)
      OBVIOUS
    <3>3. /\ e \in TillRecords /\ TillFine(e)
          /\ Unwritten(e) = 0 /\ Unpaid(e) = 0 /\ Claimed(e) = 0
      BY <3>2, RestingTills
    <3>4. unposted' = m + w /\ astray' = a + u
      BY <1>3, <1>4, <3>1
    <3>5. m + w \in Int /\ a + u \in Int /\ (m + w) + 0 = m + w /\ (a + u) + 0 = a + u /\ 0 \in Int
      OBVIOUS
    <3> QED
      BY <3>1, <3>2, <3>3, <3>4, <3>5
  <2> QED
    BY <2>1, <2>2
<1>6. till' \in [Tills -> TillRecords] /\ unposted' \in Int /\ astray' \in Int
  BY <1>1, <1>5
<1>7. /\ RewardsTypeOK' /\ EntriesOK' /\ AllPosted'
      /\ TotalEarned' = TotalEarned /\ Redeemed' = Redeemed
      /\ (Points * Cardinality(Expired))' = Points * Cardinality(Expired)
  BY <1>2, <1>6, BreakTypes
<1>8. balance' - TotalEarned' - ledger' - unposted' - Unwritten(e)
        = balance - TotalEarned - ledger - unposted - Unwritten(till[j])
  <2>1. b - t - l - m2 - w2 = b - t - l - m - w
    BY <1>5
  <2> QED
    BY <1>2, <1>3, <1>4, <1>5, <1>7, <2>1
<1>9. /\ TotalEarned + astray + Unpaid(till[j]) - Redeemed - balance
             <= TotalEarned' + astray' + Unpaid(e) - Redeemed' - balance'
      /\ (TotalEarned' + astray' + Unpaid(e) - Redeemed' - balance') + Claimed(e)
             - (Points * Cardinality(Expired))'
         <= (TotalEarned + astray + Unpaid(till[j]) - Redeemed - balance) + Claimed(till[j])
             - Points * Cardinality(Expired)
  <2>1. t + a + u - r - b <= t + a2 + u2 - r - b
        /\ t + a2 + u2 - r - b + 0 - k <= t + a + u - r - b + c - k
    BY <1>5
  <2> QED
    BY <1>2, <1>3, <1>4, <1>5, <1>7, <2>1
<1> QED
  BY <1>5, <1>7, <1>8, <1>9, TillMoves

(* Where every operation rests nothing is left undone.                     *)
LEMMA NothingLeftUndone ==
    ASSUME NEW tills, \A j \in Tills : Unwritten(tills[j]) = 0 /\ Unpaid(tills[j]) = 0 /\ Claimed(tills[j]) = 0
    PROVE  AllUnwritten(tills) = 0 /\ AllUnpaid(tills) = 0 /\ AllClaimed(tills) = 0
<1>1. /\ \A j \in Tills : [i \in Tills |-> Unwritten(tills[i])][j] = 0
      /\ \A j \in Tills : [i \in Tills |-> Unpaid(tills[i])][j] = 0
      /\ \A j \in Tills : [i \in Tills |-> Claimed(tills[i])][j] = 0
  OBVIOUS
<1> QED
  BY <1>1, SumZero, RewardsAssumption DEF AllUnwritten, AllUnpaid, AllClaimed

LEMMA AllCounts ==
    ASSUME NEW tills \in [Tills -> TillRecords]
    PROVE  AllUnwritten(tills) \in Int /\ AllUnpaid(tills) \in Int /\ AllClaimed(tills) \in Nat
<1>1. /\ \A j \in Tills : [i \in Tills |-> Unwritten(tills[i])][j] \in Int
      /\ \A j \in Tills : [i \in Tills |-> Unpaid(tills[i])][j] \in Int
      /\ \A j \in Tills : [i \in Tills |-> Claimed(tills[i])][j] \in Nat
  BY TillCounts
<1> QED
  BY <1>1, SumRemove, SumNat, RewardsAssumption DEF AllUnwritten, AllUnpaid, AllClaimed

(* The process exits: what every operation had written on one side only    *)
(* stays so, and is counted.                                               *)
LEMMA RewardsCrashHolds ==
    ASSUME RewardsInv, RewardsCrash
    PROVE  RewardsInv'
<1>1. till \in [Tills -> TillRecords]
  BY RewardsTyped
<1>2. /\ breaks' = breaks + 1 /\ UNCHANGED <<balance, ledger, earned, clock, credited, shared>>
      /\ till' = [j \in Tills |-> NoTill]
  BY DEF RewardsCrash
<1>3. /\ SumFunction([j \in Tills |-> Unwritten(till[j])]) = AllUnwritten(till)
      /\ SumFunction([j \in Tills |-> Unpaid(till[j])]) = AllUnpaid(till)
  BY DEF SumFunction, AllUnwritten, AllUnpaid
<1>4. unposted' = unposted + AllUnwritten(till) /\ astray' = astray + AllUnpaid(till)
  BY <1>3 DEF RewardsCrash
<1>5. PICK aw \in Int, ap \in Int, ac \in Nat, a \in Int, m \in Int :
           /\ aw = AllUnwritten(till) /\ ap = AllUnpaid(till) /\ ac = AllClaimed(till)
           /\ a = astray /\ m = unposted
  BY <1>1, AllCounts, RewardsTyped
<1>6. astray' = a + ap /\ unposted' = m + aw /\ astray' \in Int /\ unposted' \in Int
  BY <1>4, <1>5
<1>7. /\ till' \in [Tills -> TillRecords] /\ \A i \in Tills : TillFine(till'[i])
      /\ \A i \in Tills : Unwritten(till'[i]) = 0 /\ Unpaid(till'[i]) = 0 /\ Claimed(till'[i]) = 0
  BY <1>2, Kinds, RestingTills
<1>8. PICK after : after = till'
  OBVIOUS
<1>9. AllUnwritten(after) = 0 /\ AllUnpaid(after) = 0 /\ AllClaimed(after) = 0
  BY <1>7, <1>8, NothingLeftUndone
<1>10. AllUnwritten(till)' = 0 /\ AllUnpaid(till)' = 0 /\ AllClaimed(till)' = 0
  BY <1>8, <1>9 DEF AllUnwritten, AllUnpaid, AllClaimed
<1>11. /\ RewardsTypeOK' /\ EntriesOK' /\ AllPosted'
       /\ TotalEarned' = TotalEarned /\ Redeemed' = Redeemed
       /\ (Points * Cardinality(Expired))' = Points * Cardinality(Expired)
  BY <1>2, <1>6, <1>7, BreakTypes
<1>12. PICK t \in Int, r \in Int, k \in Int, b \in Int, l \in Int :
            /\ t = TotalEarned /\ r = Redeemed /\ k = Points * Cardinality(Expired) /\ b = balance
            /\ l = ledger
  BY RewardsTyped, Amounts DEF RewardsInv
<1>13. LedgerAgrees'
  <2>1. b = t + l + m + aw
    BY <1>5, <1>12 DEF RewardsInv, LedgerAgrees
  <2>2. b = t + l + (m + aw) + 0
    BY <2>1
  <2> QED
    BY <1>2, <1>6, <1>10, <1>11, <1>12, <2>2 DEF LedgerAgrees
<1>14. LossesAreExpiries'
  <2>1. 0 <= t + a + ap - r - b /\ t + a + ap - r - b + ac <= k
    BY <1>5, <1>12 DEF RewardsInv, LossesAreExpiries, Lost
  <2>2. 0 <= t + (a + ap) + 0 - r - b /\ t + (a + ap) + 0 - r - b + 0 <= k
    BY <2>1
  <2> QED
    BY <1>2, <1>6, <1>10, <1>11, <1>12, <2>2 DEF LossesAreExpiries, Lost
<1> QED
  BY <1>7, <1>11, <1>13, <1>14 DEF RewardsInv

LEMMA MillisecondHolds ==
    ASSUME RewardsInv, MillisecondPasses
    PROVE  RewardsInv'
<1>1. clock' \in Milliseconds
  BY RewardsTyped, RewardsAssumption DEF Milliseconds, MillisecondPasses
<1>2. UNCHANGED <<balance, ledger, earned, till, credited, shared, breaks, unposted, astray>>
  BY DEF MillisecondPasses
<1> QED
  BY <1>1, <1>2 DEF RewardsInv, RewardsTypeOK, EntriesOK, Entries, LedgerAgrees, LossesAreExpiries,
                    AllPosted, Lost, TotalEarned, Redeemed, Expired

LEMMA RewardsStep == RewardsInv /\ [RewardsNext]_rewardVars => RewardsInv'
<1> SUFFICES ASSUME RewardsInv, [RewardsNext]_rewardVars PROVE RewardsInv'
  OBVIOUS
<1>1. CASE \E j \in Tills :
             \/ TillStep(j) \/ ExpireStale(j) \/ Heard(j)
             \/ \E p \in Payments : Earn(j, p)
             \/ \E points \in Nat \ {0} : Redeem(j, points)
  <2>1. PICK j \in Tills :
             \/ TillStep(j) \/ ExpireStale(j) \/ Heard(j)
             \/ \E p \in Payments : Earn(j, p)
             \/ \E points \in Nat \ {0} : Redeem(j, points)
    BY <1>1
  <2>2. CASE \/ ExpireStale(j)
             \/ \E p \in Payments : Earn(j, p)
             \/ \E points \in Nat \ {0} : Redeem(j, points)
    BY <2>2, StartHolds
  <2>3. CASE LookForEntry(j)
    BY <2>3, LookForEntryHolds
  <2>4. CASE Mint(j)
    BY <2>4, MintHolds
  <2>5. CASE WriteEarned(j)
    BY <2>5, WriteEarnedHolds
  <2>6. CASE Burn(j)
    BY <2>6, BurnHolds
  <2>7. CASE WriteEntry(j)
    BY <2>7, WriteEntryHolds
  <2>8. CASE CreditWallet(j)
    BY <2>8, CreditWalletHolds
  <2>9. CASE CreditRefused(j)
    BY <2>9, CreditRefusedHolds
  <2>10. CASE Answer(j) \/ Heard(j)
    BY <2>10, AnswerHolds
  <2>11. CASE ClaimEntry(j)
    BY <2>11, ClaimEntryHolds
  <2>12. CASE MeasureExpiry(j)
    BY <2>12, MeasureExpiryHolds
  <2>13. CASE StatementThrows(j)
    BY <2>13, StatementThrowsHolds
  <2> QED
    BY <2>1, <2>2, <2>3, <2>4, <2>5, <2>6, <2>7, <2>8, <2>9, <2>10, <2>11, <2>12, <2>13
       DEF TillStep
<1>2. CASE MillisecondPasses
  BY <1>2, MillisecondHolds
<1>3. CASE RewardsCrash
  BY <1>3, RewardsCrashHolds
<1>4. CASE UNCHANGED rewardVars
  BY <1>4 DEF rewardVars, RewardsInv, RewardsTypeOK, EntriesOK, Entries, LedgerAgrees,
              LossesAreExpiries, AllPosted, Lost, TotalEarned, Redeemed, Expired
<1> QED
  BY <1>1, <1>2, <1>3, <1>4 DEF RewardsNext

(* With every operation ended, nothing is left undone. *)
LEMMA RestExplains == RewardsInv => PointsExplained
<1> SUFFICES ASSUME RewardsInv
             PROVE  /\ (\A j \in Tills : till[j].step \in {"idle", "done"}) =>
                         /\ balance >= 0
                         /\ balance = TotalEarned + ledger + unposted
                         /\ TotalEarned + astray - Redeemed - balance
                                \in 0 .. Points * Cardinality({t \in earned : ~ t.expires})
                    /\ breaks = 0 => unposted = 0 /\ (~ shared => astray = 0)
  BY DEF PointsExplained
<1>1. ASSUME \A j \in Tills : till[j].step \in {"idle", "done"}
      PROVE  /\ balance >= 0
             /\ balance = TotalEarned + ledger + unposted
             /\ TotalEarned + astray - Redeemed - balance
                    \in 0 .. Points * Cardinality({t \in earned : ~ t.expires})
  <2>1. \A j \in Tills : Unwritten(till[j]) = 0 /\ Unpaid(till[j]) = 0 /\ Claimed(till[j]) = 0
    <3> SUFFICES ASSUME NEW j \in Tills
                 PROVE  Unwritten(till[j]) = 0 /\ Unpaid(till[j]) = 0 /\ Claimed(till[j]) = 0
      OBVIOUS
    <3>1. till[j].step \notin {"entry", "mint", "credit", "measure", "burn"}
      BY <1>1
    <3> QED
      BY <3>1 DEF Unwritten, Unpaid, Claimed
  <2>2. AllUnwritten(till) = 0 /\ AllUnpaid(till) = 0 /\ AllClaimed(till) = 0
    BY <2>1, NothingLeftUndone
  <2>3. PICK t \in Int, r \in Int, k \in Nat, b \in Nat, l \in Int, a \in Int, m \in Int :
              /\ t = TotalEarned /\ r = Redeemed /\ k = Points * Cardinality(Expired) /\ b = balance
              /\ l = ledger /\ a = astray /\ m = unposted
    BY BooksTyped
  <2>4. b = t + l + m + 0
    BY <2>2, <2>3 DEF RewardsInv, LedgerAgrees
  <2>5. 0 <= t + a + 0 - r - b /\ t + a + 0 - r - b + 0 <= k
    BY <2>2, <2>3 DEF RewardsInv, LossesAreExpiries, Lost
  <2>6. b >= 0 /\ b = t + l + m /\ t + a - r - b \in 0 .. k
    BY <2>4, <2>5
  <2> QED
    BY <2>3, <2>6 DEF Expired
<1>2. breaks = 0 => unposted = 0 /\ (~ shared => astray = 0)
  BY DEF RewardsInv, AllPosted
<1> QED
  BY <1>1, <1>2

(* The points of a customer are explained, for any number of payments,     *)
(* redemptions and sweeps at once, of any amounts, with any number of      *)
(* failing statements and exits: what a broken-off operation left on one   *)
(* side only, and nothing else, separates balance, entries and wallet.     *)
THEOREM PointsAreExplained == RewardsSpec => []PointsExplained
<1>1. RewardsInit => RewardsInv
  BY RewardsInitInv
<1>2. RewardsInv /\ [RewardsNext]_rewardVars => RewardsInv'
  BY RewardsStep
<1>3. RewardsInv => PointsExplained
  BY RestExplains
<1> QED
  BY <1>1, <1>2, <1>3, PTL DEF RewardsSpec
=============================================================================
