------------------------- MODULE WhatsAppCampaigns -------------------------
(***************************************************************************)
(* One WhatsApp campaign: its recipients are written down when it is       *)
(* launched, and passes over those still pending send it, in the worker or *)
(* inline, until nobody is pending or Meta says stop.  Passes are started  *)
(* by the launch, the schedule, the queue, the pass before, and resume.    *)
(***************************************************************************)
EXTENDS Integers, FiniteSetsExt

CONSTANTS
    Recipients,   \* numbered in the order of their rows
    Passes,       \* executions that may run at once
    SendAttempts, \* MAX_ATTEMPTS for one recipient
    Queued,       \* whether there is a queue
    MaxResumes,   \* bounds: resumes, process exits or failing statements, changes of the
    MaxExits,     \* platform switch
    MaxSwitches

ASSUME WhatsAppAssumption ==
    /\ Recipients \subseteq Nat \ {0} /\ SendAttempts \in Nat \ {0} /\ Queued \in BOOLEAN
    /\ {MaxResumes, MaxExits, MaxSwitches} \subseteq Nat

VARIABLES
    blast,     \* the Campaign row: status, whether it has a date, whether it is parked
    row,       \* the CampaignRecipient rows
    optedIn,   \* recipients who may still be messaged
    pass,
    backlog,   \* queued whatsapp-dispatch jobs
    switch,    \* whether the platform offers WhatsApp campaigns
    reached,   \* messages Meta accepted, by recipient
    overlap,   \* whether two passes have worked at the same time
    tally      \* resumes, exits, switches and refused dispatches so far

blastVars == <<blast, row, optedIn, pass, backlog, switch, reached, overlap, tally>>

NoPass == [step |-> "idle", todo |-> {}, r |-> 0, seen |-> 0, status |-> "NONE"]
Is(p, step) == pass[p].step = step
Then(p, step) == pass' = [pass EXCEPT ![p].step = step]
Stop(p) == pass' = [pass EXCEPT ![p] = NoPass]
Open(p, step) == pass[p] = NoPass /\ pass' = [pass EXCEPT ![p].step = step]
SetStatus(s) == blast' = [blast EXCEPT !.status = s]
Working == {"next", "send", "accepted", "transient", "permanent", "halt", "tally", "settle"}

----------------------------------------------------------------------------
(* launch: the campaign, then its recipients, then the first pass.         *)

Launch(p, dated) ==
    /\ blast.status = "NONE" /\ switch
    /\ blast' = [status |-> IF dated THEN "SCHEDULED" ELSE "SENDING", dated |-> dated, parked |-> FALSE]
    /\ Open(p, IF dated THEN "write down" ELSE "write down and start")
    /\ UNCHANGED <<row, optedIn, backlog, switch, reached, overlap, tally>>

WriteRecipients(p) ==
    /\ pass[p].step \in {"write down", "write down and start"}
    /\ row' = [r \in Recipients |-> [status |-> "PENDING", attempts |-> 0]]
    /\ IF Is(p, "write down") THEN Stop(p) ELSE Then(p, "start")
    /\ UNCHANGED <<blast, optedIn, backlog, switch, reached, overlap, tally>>

(* enqueue, or dispatch inline when there is no queue or it fails.         *)
StartPass(p) ==
    /\ Is(p, "start")
    /\ \/ Queued /\ backlog' = backlog + 1 /\ Stop(p)
       \/ Then(p, "dispatch") /\ UNCHANGED backlog
    /\ UNCHANGED <<blast, row, optedIn, switch, reached, overlap, tally>>

WorkerPass(p) ==
    /\ backlog > 0 /\ backlog' = backlog - 1
    /\ Open(p, "dispatch")
    /\ UNCHANGED <<blast, row, optedIn, switch, reached, overlap, tally>>

(* The sweep: give back what the platform switch parked, then dispatch     *)
(* what is due; it reads the list first and works through it.              *)
RestoreParked ==
    /\ switch /\ blast.status = "PAUSED" /\ blast.parked
    /\ blast' = [blast EXCEPT !.parked = FALSE, !.status = IF blast.dated THEN "SCHEDULED" ELSE @]
    /\ UNCHANGED <<row, optedIn, pass, backlog, switch, reached, overlap, tally>>

SweepDue(p) ==
    /\ blast.status = "SCHEDULED"
    /\ Open(p, "dispatch")
    /\ UNCHANGED <<blast, row, optedIn, backlog, switch, reached, overlap, tally>>

----------------------------------------------------------------------------
(* dispatch. *)

Dispatch(p) ==
    /\ Is(p, "dispatch")
    /\ IF blast.status = "CANCELLED" THEN Stop(p)
       ELSE Then(p, IF switch THEN "mark" ELSE "park")
    /\ UNCHANGED <<blast, row, optedIn, backlog, switch, reached, overlap, tally>>

Park(p) ==
    /\ Is(p, "park")
    /\ blast' = [blast EXCEPT !.status = "PAUSED", !.parked = TRUE]
    /\ Stop(p)
    /\ UNCHANGED <<row, optedIn, backlog, switch, reached, overlap, tally>>

(* The account or the template is not eligible any more: dispatch throws   *)
(* and leaves the status as it is.                                         *)
RequireEligible(p) ==
    /\ Is(p, "mark")
    /\ tally.refusals = 0 /\ tally' = [tally EXCEPT !.refusals = 1]
    /\ Stop(p)
    /\ UNCHANGED <<blast, row, optedIn, backlog, switch, reached, overlap>>

MarkSendingNow(p) ==
    /\ Is(p, "mark")
    /\ SetStatus("SENDING") /\ Then(p, "load")
    /\ UNCHANGED <<row, optedIn, backlog, switch, reached, overlap, tally>>

LoadEveryone(p) == \* mistake: recipients who were sent to are picked up again
    /\ Is(p, "load")
    /\ pass' = [pass EXCEPT ![p].step = "next",
         ![p].todo = {r \in Recipients : row[r].status # "NONE" /\ row[r].attempts < SendAttempts}]
    /\ overlap' = (overlap \/ \E q \in Passes : q # p /\ pass[q].step \in Working)
    /\ UNCHANGED <<blast, row, optedIn, backlog, switch, reached, tally>>

LoadPending(p) ==
    /\ Is(p, "load")
    /\ pass' = [pass EXCEPT ![p].step = "next",
         ![p].todo = {r \in Recipients : row[r].status \in {"PENDING", "FAILED"} /\ row[r].attempts < SendAttempts}]
    /\ overlap' = (overlap \/ \E q \in Passes : q # p /\ pass[q].step \in Working)
    /\ UNCHANGED <<blast, row, optedIn, backlog, switch, reached, tally>>

(* The next recipient, whose consent is read again now.                    *)
NextRecipient(p) ==
    LET r == Min(pass[p].todo) IN
    /\ Is(p, "next")
    /\ IF pass[p].todo = {} THEN Then(p, "tally") /\ UNCHANGED row
       ELSE IF r \in optedIn
       THEN /\ pass' = [pass EXCEPT ![p].step = "send", ![p].todo = @ \ {r}, ![p].r = r, ![p].seen = row[r].attempts]
            /\ UNCHANGED row
       ELSE /\ row' = [row EXCEPT ![r].status = "UNSUBSCRIBED"]
            /\ pass' = [pass EXCEPT ![p].todo = @ \ {r}]
    /\ UNCHANGED <<blast, optedIn, backlog, switch, reached, overlap, tally>>

SendTemplate(p) ==
    /\ Is(p, "send")
    /\ \/ reached' = [reached EXCEPT ![pass[p].r] = Min({2, @ + 1})] /\ Then(p, "accepted")
       \/ \E kind \in {"transient", "permanent", "halt"} : Then(p, kind) /\ UNCHANGED reached
    /\ UNCHANGED <<blast, row, optedIn, backlog, switch, overlap, tally>>

RecordSent(p) ==
    /\ Is(p, "accepted")
    /\ row' = [row EXCEPT ![pass[p].r] = [status |-> "SENT", attempts |-> @.attempts + 1]]
    /\ Then(p, "next")
    /\ UNCHANGED <<blast, optedIn, backlog, switch, reached, overlap, tally>>

(* Meta accepted the message but the row cannot be written: the catch      *)
(* takes it for a refusal.                                                 *)
RecordSentFails(p) ==
    /\ Is(p, "accepted")
    /\ tally.exits < MaxExits /\ tally' = [tally EXCEPT !.exits = @ + 1]
    /\ Then(p, "transient")
    /\ UNCHANGED <<blast, row, optedIn, backlog, switch, reached, overlap>>

RecordRefusalUncounted(p) == \* mistake: a transient failure does not count as an attempt
    /\ pass[p].step \in {"transient", "permanent", "halt"}
    /\ row' = [row EXCEPT ![pass[p].r].status = IF Is(p, "transient") THEN "PENDING" ELSE "FAILED"]
    /\ pass' = [pass EXCEPT ![p].step = IF Is(p, "halt") THEN "tally" ELSE "next",
                            ![p].status = IF Is(p, "halt") THEN "PARTIALLY_SENT" ELSE @]
    /\ UNCHANGED <<blast, optedIn, backlog, switch, reached, overlap, tally>>

(* A refusal leaves the recipient PENDING while attempts are left and the  *)
(* kind allows a retry; a billing, credentials or template refusal halts.  *)
RecordRefusal(p) ==
    LET again == Is(p, "transient") /\ pass[p].seen + 1 < SendAttempts IN
    /\ pass[p].step \in {"transient", "permanent", "halt"}
    /\ row' = [row EXCEPT ![pass[p].r] = [status |-> IF again THEN "PENDING" ELSE "FAILED",
                                          attempts |-> @.attempts + 1]]
    /\ pass' = [pass EXCEPT ![p].step = IF Is(p, "halt") THEN "tally" ELSE "next",
                            ![p].status = IF Is(p, "halt") THEN "PARTIALLY_SENT" ELSE @]
    /\ UNCHANGED <<blast, optedIn, backlog, switch, reached, overlap, tally>>

(* settle: count the rows, then write what follows from the counts, over   *)
(* whatever the status is by then; with somebody pending, pass again.      *)
CountRows(p) ==
    LET Has(s) == \E r \in Recipients : row[r].status = s IN
    /\ Is(p, "tally")
    /\ pass' = [pass EXCEPT ![p].step = "settle",
         ![p].status = IF @ = "PARTIALLY_SENT" THEN @
                       ELSE IF Has("PENDING") THEN "SENDING" ELSE IF Has("SENT") THEN "SENT" ELSE "FAILED"]
    /\ UNCHANGED <<blast, row, optedIn, backlog, switch, reached, overlap, tally>>

Settle(p) ==
    /\ Is(p, "settle")
    /\ SetStatus(pass[p].status)
    /\ pass' = [pass EXCEPT ![p] = IF pass[p].status = "SENDING" THEN [NoPass EXCEPT !.step = "start"] ELSE NoPass]
    /\ UNCHANGED <<row, optedIn, backlog, switch, reached, overlap, tally>>

----------------------------------------------------------------------------
(* resume, cancel, and what happens outside. *)

Resume(p) ==
    /\ tally.resumes < MaxResumes /\ tally' = [tally EXCEPT !.resumes = @ + 1]
    /\ switch /\ blast.status \in {"PARTIALLY_SENT", "PAUSED", "FAILED"}
    /\ Open(p, "reset")
    /\ UNCHANGED <<blast, row, optedIn, backlog, switch, reached, overlap>>

ResetAll(p) == \* mistake: everyone gets another chance, also those sent to
    /\ Is(p, "reset")
    /\ row' = [r \in Recipients |-> IF row[r].status \in {"FAILED", "SENT"}
                                    THEN [status |-> "PENDING", attempts |-> 0] ELSE row[r]]
    /\ Then(p, "dispatch")
    /\ UNCHANGED <<blast, optedIn, backlog, switch, reached, overlap, tally>>

ResetFailed(p) ==
    /\ Is(p, "reset")
    /\ row' = [r \in Recipients |-> IF row[r].status = "FAILED"
                                    THEN [status |-> "PENDING", attempts |-> 0] ELSE row[r]]
    /\ Then(p, "dispatch")
    /\ UNCHANGED <<blast, optedIn, backlog, switch, reached, overlap, tally>>

CancelCampaign(p) ==
    /\ blast.status \notin {"NONE", "SENT"}
    /\ Open(p, "cancel")
    /\ UNCHANGED <<blast, row, optedIn, backlog, switch, reached, overlap, tally>>

WriteCancel(p) ==
    /\ Is(p, "cancel")
    /\ SetStatus("CANCELLED") /\ Stop(p)
    /\ UNCHANGED <<row, optedIn, backlog, switch, reached, overlap, tally>>

OptOut(r) ==
    /\ r \in optedIn /\ optedIn' = optedIn \ {r}
    /\ UNCHANGED <<blast, row, pass, backlog, switch, reached, overlap, tally>>

FlipSwitch ==
    /\ tally.switches < MaxSwitches /\ tally' = [tally EXCEPT !.switches = @ + 1]
    /\ switch' = ~switch
    /\ UNCHANGED <<blast, row, optedIn, pass, backlog, reached, overlap>>

(* The process exits; the queue runs a job it was working on once more.    *)
Exit ==
    /\ tally.exits < MaxExits /\ tally' = [tally EXCEPT !.exits = @ + 1]
    /\ \E p \in Passes : pass[p] # NoPass
    /\ pass' = [p \in Passes |-> NoPass]
    /\ backlog' \in IF Queued THEN {backlog, backlog + 1} ELSE {backlog}
    /\ UNCHANGED <<blast, row, optedIn, switch, reached, overlap>>

WhatsAppInit ==
    /\ blast = [status |-> "NONE", dated |-> FALSE, parked |-> FALSE]
    /\ row = [r \in Recipients |-> [status |-> "NONE", attempts |-> 0]]
    /\ optedIn = Recipients
    /\ pass = [p \in Passes |-> NoPass]
    /\ backlog = 0 /\ switch = TRUE
    /\ reached = [r \in Recipients |-> 0]
    /\ overlap = FALSE
    /\ tally = [resumes |-> 0, exits |-> 0, switches |-> 0, refusals |-> 0]

PassStep(p) ==
    \/ WriteRecipients(p) \/ StartPass(p) \/ Dispatch(p) \/ Park(p) \/ MarkSendingNow(p) \/ LoadPending(p)
    \/ NextRecipient(p) \/ SendTemplate(p) \/ RecordSent(p) \/ RecordRefusal(p)
    \/ CountRows(p) \/ Settle(p) \/ ResetFailed(p) \/ WriteCancel(p)

WhatsAppNext ==
    \/ \E p \in Passes :
         \/ PassStep(p) \/ RequireEligible(p) \/ RecordSentFails(p) \/ WorkerPass(p) \/ SweepDue(p) \/ Resume(p) \/ CancelCampaign(p)
         \/ \E dated \in BOOLEAN : Launch(p, dated)
    \/ \E r \in Recipients : OptOut(r)
    \/ RestoreParked \/ FlipSwitch \/ Exit

(* What has begun goes on, and the worker takes the jobs of the queue.     *)
WhatsAppFairness ==
    /\ \A p \in Passes : WF_blastVars(PassStep(p))
    /\ SF_blastVars(\E p \in Passes : WorkerPass(p))

----------------------------------------------------------------------------
Undisturbed == ~overlap /\ tally.exits = 0

(* "A campaign that stops halfway and is resumed does not message anyone   *)
(* twice": through halts, parking, resumes, cancellations and opt-outs,    *)
(* nobody gets two messages, and who is shown as sent to got one.  (Two    *)
(* passes at a time, and a crash or a failing statement before an accepted *)
(* message is recorded, do message people twice.)                          *)
ReachedOnce == \A r \in Recipients :
    /\ Undisturbed => reached[r] <= 1
    /\ row[r].status = "SENT" => reached[r] > 0

(* "More to do and nothing blocking: come back for the next batch": a      *)
(* campaign does not stay SENDING; passes repeat until it has an outcome   *)
(* (unless two of them overlap, the process exits, or a dispatch finds its *)
(* account or template refused).                                           *)
CampaignFinishes ==
    blast.status = "SENDING" ~> blast.status # "SENDING" \/ ~Undisturbed \/ tally.refusals > 0
=============================================================================
