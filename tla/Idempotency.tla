---------------------------- MODULE Idempotency ----------------------------
(***************************************************************************)
(* Requests that carry an Idempotency-Key.  The first one inserts the row  *)
(* that the unique index (scope, key) allows once, runs, and stores what   *)
(* it answered in the background; the others replay the stored answer or   *)
(* are told that a request is in progress.                                 *)
(***************************************************************************)
EXTENDS Naturals, FiniteSets

CONSTANTS
    Keys,
    Requests,    \* HTTP requests, retries included
    KeyOf,       \* the scope and key each request carries
    Answers,     \* what running the operation may answer, errors included
    MaxRestarts  \* bound

ASSUME IdempotencyAssumption ==
    /\ KeyOf \in [Requests -> Keys]
    /\ "none" \notin Answers /\ MaxRestarts \in Nat

VARIABLES
    keyRow,    \* the IdempotencyKey rows
    request,
    ran,       \* requests that reached the operation behind the middleware
    storing,   \* answers given whose updateMany has not happened yet
    restarts

idempotencyVars == <<keyRow, request, ran, storing, restarts>>

NoRow == [status |-> "ABSENT", answer |-> "none"]
Told(r, step, answer) == request' = [request EXCEPT ![r] = [step |-> step, answer |-> answer]]

ClaimIfUnseen(r) == \* mistake: the key is looked up first and inserted later
    LET k == KeyOf[r] IN
    /\ \/ /\ request[r].step = "new" /\ keyRow[k] = NoRow
          /\ Told(r, "unseen", "none") /\ UNCHANGED <<keyRow, ran>>
       \/ /\ request[r].step = "unseen"
          /\ keyRow' = [keyRow EXCEPT ![k].status = "IN_PROGRESS"]
          /\ ran' = ran \cup {r} /\ Told(r, "running", "none")
       \/ request[r].step = "new" /\ keyRow[k] # NoRow /\ Told(r, "seen", "none") /\ UNCHANGED <<keyRow, ran>>
    /\ UNCHANGED <<storing, restarts>>

(* The insert, and the P2002 of the unique index.                          *)
Claim(r) ==
    LET k == KeyOf[r] IN
    /\ request[r].step = "new"
    /\ IF keyRow[k] = NoRow
       THEN /\ keyRow' = [keyRow EXCEPT ![k].status = "IN_PROGRESS"]
            /\ ran' = ran \cup {r} /\ Told(r, "running", "none")
       ELSE Told(r, "seen", "none") /\ UNCHANGED <<keyRow, ran>>
    /\ UNCHANGED <<storing, restarts>>

(* A key seen before: the stored answer, or 409.                           *)
Replay(r) ==
    LET row == keyRow[KeyOf[r]] IN
    /\ request[r].step = "seen"
    /\ IF row.status = "COMPLETED" THEN Told(r, "replayed", row.answer) ELSE Told(r, "refused", "none")
    /\ UNCHANGED <<keyRow, ran, storing, restarts>>

(* res.json: the answer leaves while its storing is only begun.            *)
Respond(r, answer) ==
    /\ request[r].step = "running"
    /\ Told(r, "answered", answer)
    /\ storing' = storing \cup {r}
    /\ UNCHANGED <<keyRow, ran, restarts>>

StoreAnswer(r) ==
    /\ r \in storing /\ storing' = storing \ {r}
    /\ keyRow' = [keyRow EXCEPT ![KeyOf[r]] = [status |-> "COMPLETED", answer |-> request[r].answer]]
    /\ UNCHANGED <<request, ran, restarts>>

(* An update that fails is caught and forgotten.                           *)
StoreFails(r) ==
    /\ r \in storing /\ storing' = storing \ {r}
    /\ UNCHANGED <<keyRow, request, ran, restarts>>

(* The process goes down: clients get no answer and answers are not stored. *)
Restart ==
    /\ restarts < MaxRestarts /\ restarts' = restarts + 1
    /\ request' = [r \in Requests |->
         IF request[r].step \in {"running", "seen", "unseen"} THEN [step |-> "cut off", answer |-> "none"] ELSE request[r]]
    /\ storing' = {}
    /\ UNCHANGED <<keyRow, ran>>

IdempotencyInit ==
    /\ keyRow = [k \in Keys |-> NoRow]
    /\ request = [r \in Requests |-> [step |-> "new", answer |-> "none"]]
    /\ ran = {} /\ storing = {} /\ restarts = 0

IdempotencyNext ==
    \/ \E r \in Requests :
         \/ Claim(r) \/ Replay(r) \/ StoreAnswer(r) \/ StoreFails(r)
         \/ \E answer \in Answers : Respond(r, answer)
    \/ Restart

IdempotencySpec == IdempotencyInit /\ [][IdempotencyNext]_idempotencyVars

----------------------------------------------------------------------------
(* "Any retry with the same key replays the stored response instead of     *)
(* repeating the operation": however requests with one key overlap, and    *)
(* whatever is lost in a restart, at most one of them runs the operation,  *)
(* and what the others are told is what that one answered.                 *)
OnceOnly == \A r, s \in Requests : KeyOf[r] = KeyOf[s] =>
    /\ r \in ran /\ s \in ran => r = s
    /\ request[r].step = "replayed" /\ s \in ran => request[r].answer = request[s].answer
=============================================================================
