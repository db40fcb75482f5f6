------------------------------ MODULE Rewards ------------------------------
(***************************************************************************)
(* The points of one customer: earned when a payment completes, redeemed   *)
(* for wallet credit, expired by a daily sweep.  A posting is a balance    *)
(* update and a ledger entry in two statements, without a transaction.     *)
(***************************************************************************)
EXTENDS Integers, FiniteSetsExt

CONSTANTS
    Tills,      \* executions that may run at once: event deliveries, requests, the sweep
    Payments,
    Points,     \* what one payment earns
    MaxRedeems, \* bound: redemptions asked for
    MaxBreaks   \* bound: statements the database fails to execute

ASSUME RewardsAssumption ==
    /\ Points \in Nat \ {0} /\ {MaxRedeems, MaxBreaks} \subseteq Nat
    /\ IsFiniteSet(Tills)

VARIABLES
    balance,
    ledger,    \* sum of the RewardLedger entries that are not EARN
    earned,    \* the EARN entries: payment, which one, whether its expiry is open
    till,
    clock,     \* milliseconds, as far as redemptions tell them apart
    credited,  \* points for which the wallet ledger holds a posting, by its key
    shared,    \* whether two redemptions used one key
    redeems,
    breaks,
    unposted,  \* changes of the balance whose entry was never written
    astray     \* points that came, or went if negative, and were neither earned, paid out nor expired

rewardVars == <<balance, ledger, earned, till, clock, credited, shared, redeems, breaks, unposted, astray>>

NoTill == [op |-> "none", step |-> "idle", points |-> 0, for |-> 0]
DoneTill(ok) == [op |-> IF ok THEN "ok" ELSE "failed", step |-> "done", points |-> 0, for |-> 0]

Ask(j, op, step, points, for) ==
    /\ till[j] = NoTill
    /\ till' = [till EXCEPT ![j] = [op |-> op, step |-> step, points |-> points, for |-> for]]
Standing(j, step) == till[j].step = step
Proceed(j, step) == till' = [till EXCEPT ![j].step = step]
Finish(j, ok) == till' = [till EXCEPT ![j] = DoneTill(ok)]
Leave(j) == till' = [till EXCEPT ![j] = NoTill]

Entries(p) == {t \in earned : t.payment = p}
TotalEarned == Points * Cardinality(earned)

(* What an operation has done to the balance and not yet to the entries.   *)
Unwritten(e) ==
    CASE e.step = "entry" /\ e.op \in {"earn", "give back"} -> e.points
      [] e.step = "entry" /\ e.op \in {"redeem", "expire"} -> 0 - e.points
      [] OTHER -> 0

(* What it has done to the balance and not yet to the earned entries or to *)
(* the wallet.                                                             *)
Unpaid(e) ==
    CASE e.step = "entry" /\ e.op = "earn" -> e.points
      [] e.op = "redeem" /\ e.step \in {"entry", "credit"} -> 0 - e.points
      [] e.op = "give back" /\ e.step = "mint" -> 0 - e.points
      [] OTHER -> 0

----------------------------------------------------------------------------
(* earnForPayment: an entry for the payment means that it was done before. *)

Earn(j, p) ==
    /\ Ask(j, "earn", "look", Points, p)
    /\ UNCHANGED <<balance, ledger, earned, clock, credited, shared, redeems, breaks, unposted, astray>>

LookForEntry(j) ==
    /\ Standing(j, "look")
    /\ IF Entries(till[j].for) # {} THEN Finish(j, TRUE) ELSE Proceed(j, "mint")
    /\ UNCHANGED <<balance, ledger, earned, clock, credited, shared, redeems, breaks, unposted, astray>>

Mint(j) ==
    /\ Standing(j, "mint")
    /\ balance' = balance + till[j].points
    /\ Proceed(j, "entry")
    /\ UNCHANGED <<ledger, earned, clock, credited, shared, redeems, breaks, unposted, astray>>

WriteEarned(j) ==
    LET p == till[j].for IN
    /\ Standing(j, "entry") /\ till[j].op = "earn"
    /\ earned' = earned \cup {[payment |-> p, copy |-> Cardinality(Entries(p)), expires |-> TRUE]}
    /\ Finish(j, TRUE)
    /\ UNCHANGED <<balance, ledger, clock, credited, shared, redeems, breaks, unposted, astray>>

----------------------------------------------------------------------------
(* redeem: burn, credit the wallet, hand the points back if that fails.    *)

Redeem(j, points) ==
    /\ redeems < MaxRedeems /\ redeems' = redeems + 1
    /\ Ask(j, "redeem", "burn", points, 0)
    /\ UNCHANGED <<balance, ledger, earned, clock, credited, shared, breaks, unposted, astray>>

BurnUnguarded(j) == \* mistake: the balance is decremented without a condition
    /\ Standing(j, "burn")
    /\ balance' = balance - till[j].points
    /\ Proceed(j, "entry")
    /\ UNCHANGED <<ledger, earned, clock, credited, shared, redeems, breaks, unposted, astray>>

(* The guarded decrement, of a redemption or of an expiry.                 *)
Burn(j) ==
    /\ Standing(j, "burn")
    /\ IF balance >= till[j].points
       THEN balance' = balance - till[j].points /\ Proceed(j, "entry")
       ELSE Finish(j, FALSE) /\ UNCHANGED balance
    /\ UNCHANGED <<ledger, earned, clock, credited, shared, redeems, breaks, unposted, astray>>

WriteEntry(j) ==
    /\ Standing(j, "entry") /\ till[j].op \in {"redeem", "expire", "give back"}
    /\ ledger' = IF till[j].op = "give back" THEN ledger + till[j].points ELSE ledger - till[j].points
    /\ CASE till[j].op = "redeem" -> Proceed(j, "credit")
         [] till[j].op = "expire" -> Finish(j, TRUE)
         [] till[j].op = "give back" -> Finish(j, FALSE)
    /\ UNCHANGED <<balance, earned, clock, credited, shared, redeems, breaks, unposted, astray>>

(* The wallet ledger posts the value under reward-redeem:<id>:<now>; asked *)
(* for a key it knows, it answers with the posting it has.                 *)
CreditWallet(j) ==
    /\ Standing(j, "credit")
    /\ IF credited[clock] = 0
       THEN credited' = [credited EXCEPT ![clock] = till[j].points] /\ UNCHANGED <<shared, astray>>
       ELSE shared' = TRUE /\ astray' = astray - till[j].points /\ UNCHANGED credited
    /\ Proceed(j, "answer")
    /\ UNCHANGED <<balance, ledger, earned, clock, redeems, breaks, unposted>>

CreditRefused(j) ==
    /\ Standing(j, "credit")
    /\ till' = [till EXCEPT ![j].op = "give back", ![j].step = "mint"]
    /\ UNCHANGED <<balance, ledger, earned, clock, credited, shared, redeems, breaks, unposted, astray>>

Answer(j) ==
    /\ Standing(j, "answer") /\ Finish(j, TRUE)
    /\ UNCHANGED <<balance, ledger, earned, clock, credited, shared, redeems, breaks, unposted, astray>>

(* The caller has the result, and may come again.                          *)
Heard(j) ==
    /\ Standing(j, "done") /\ Leave(j)
    /\ UNCHANGED <<balance, ledger, earned, clock, credited, shared, redeems, breaks, unposted, astray>>

MillisecondPasses ==
    /\ clock < MaxRedeems
    /\ clock' = clock + 1
    /\ UNCHANGED <<balance, ledger, earned, till, credited, shared, redeems, breaks, unposted, astray>>

----------------------------------------------------------------------------
(* expireStale, for one entry that is due: claim it, read the balance,     *)
(* remove what is still there.                                             *)

ExpireStale(j) ==
    /\ \E t \in earned : t.expires /\ Ask(j, "expire", "claim", t.copy, t.payment)
    /\ UNCHANGED <<balance, ledger, earned, clock, credited, shared, redeems, breaks, unposted, astray>>

ClaimEntryAlways(j) == \* mistake: an entry that was expired before is expired again
    LET t == [payment |-> till[j].for, copy |-> till[j].points, expires |-> TRUE] IN
    /\ Standing(j, "claim")
    /\ earned' = (earned \ {t}) \cup {[t EXCEPT !.expires = FALSE]}
    /\ Proceed(j, "measure")
    /\ UNCHANGED <<balance, ledger, clock, credited, shared, redeems, breaks, unposted, astray>>

ClaimEntry(j) ==
    LET t == [payment |-> till[j].for, copy |-> till[j].points, expires |-> TRUE] IN
    /\ Standing(j, "claim")
    /\ IF t \in earned
       THEN earned' = (earned \ {t}) \cup {[t EXCEPT !.expires = FALSE]} /\ Proceed(j, "measure")
       ELSE Finish(j, TRUE) /\ UNCHANGED earned
    /\ UNCHANGED <<balance, ledger, clock, credited, shared, redeems, breaks, unposted, astray>>

MeasureExpiry(j) ==
    LET removable == Min({Points, balance}) IN
    /\ Standing(j, "measure")
    /\ IF removable > 0
       THEN till' = [till EXCEPT ![j].step = "burn", ![j].points = removable]
       ELSE Finish(j, TRUE)
    /\ UNCHANGED <<balance, ledger, earned, clock, credited, shared, redeems, breaks, unposted, astray>>

----------------------------------------------------------------------------
(* A statement that throws ends the operation where it is; only redeem     *)
(* catches, from the wallet credit on, and then hands the points back even *)
(* if the wallet has the credit.                                           *)
StatementThrows(j) ==
    /\ breaks < MaxBreaks /\ breaks' = breaks + 1
    /\ till[j].step \in {"look", "mint", "entry", "burn", "claim", "measure", "answer"}
    /\ IF Standing(j, "answer")
       THEN /\ till' = [till EXCEPT ![j].op = "give back", ![j].step = "mint"]
            /\ astray' = astray + till[j].points
            /\ UNCHANGED unposted
       ELSE /\ Finish(j, FALSE)
            /\ unposted' = unposted + Unwritten(till[j])
            /\ astray' = astray + Unpaid(till[j])
    /\ UNCHANGED <<balance, ledger, earned, clock, credited, shared, redeems>>

(* The process exits, between any two statements.                          *)
RewardsCrash ==
    /\ till' = [j \in Tills |-> NoTill]
    /\ breaks' = breaks + 1
    /\ unposted' = unposted + SumFunction([j \in Tills |-> Unwritten(till[j])])
    /\ astray' = astray + SumFunction([j \in Tills |-> Unpaid(till[j])])
    /\ UNCHANGED <<balance, ledger, earned, clock, credited, shared, redeems>>

RewardsInit ==
    /\ balance = 0 /\ ledger = 0 /\ earned = {}
    /\ till = [j \in Tills |-> NoTill]
    /\ clock = 0
    /\ credited = [t \in 0 .. MaxRedeems |-> 0]
    /\ shared = FALSE /\ redeems = 0 /\ breaks = 0 /\ unposted = 0 /\ astray = 0

TillStep(j) ==
    \/ LookForEntry(j) \/ Mint(j) \/ WriteEarned(j)
    \/ Burn(j) \/ WriteEntry(j) \/ CreditWallet(j) \/ CreditRefused(j) \/ Answer(j)
    \/ ClaimEntry(j) \/ MeasureExpiry(j)
    \/ StatementThrows(j)

----------------------------------------------------------------------------
Redeemed == SumFunction(credited)

(* "The customer never loses points without getting value", and "the       *)
(* balance is always explainable": once every operation has ended, and     *)
(* whatever ran beside it or failed on the way, the balance is what the    *)
(* ledger's entries add up to and is not negative, no entry was expired    *)
(* for more than it earned, and what was redeemed is in the wallet.  Where *)
(* the code departs from that, the points are counted: unposted, when an   *)
(* operation ended between the halves of a posting; astray, when it ended  *)
(* between burn and credit, when points were handed back although the      *)
(* wallet had the credit, and when two redemptions fell in one millisecond *)
(* (shared).  Without a failure or such a millisecond both are zero.       *)
PointsExplained ==
    /\ (\A j \in Tills : till[j].step \in {"idle", "done"}) =>
         /\ balance >= 0
         /\ balance = TotalEarned + ledger + unposted
         /\ TotalEarned + astray - Redeemed - balance
              \in 0 .. Points * Cardinality({t \in earned : ~t.expires})
    /\ breaks = 0 => unposted = 0 /\ (~shared => astray = 0)

(* "A replayed event must never mint points twice."  (It may.)             *)
EarnedOnce == \A p \in Payments : Cardinality(Entries(p)) <= 1
=============================================================================
