--------------------------- MODULE Disbursements ---------------------------
(***************************************************************************)
(* What paying money out to banks promises, without saying how: a transfer *)
(* is made of money that was debited before, of each debit at most one; it *)
(* is decided once; and money is given back at most once for a payout, and *)
(* never before a transfer of it.  As long as nothing was lost or killed   *)
(* (clean), money is not given back for a transfer that is on its way or   *)
(* was paid.                                                               *)
(***************************************************************************)
CONSTANTS
    Payouts,  \* what may be paid out
    DebitOf   \* DebitOf[p]: the ledger debit that pays for p

VARIABLES
    debited,   \* debits that were made
    fate,      \* fate[p]: the bank's side of p, "none" before it was told
    refunded,  \* payouts whose debit was given back
    clean      \* nothing was lost or killed so far

vars == <<debited, fate, refunded, clean>>

Init ==
    /\ debited = {}
    /\ fate = [p \in Payouts |-> "none"]
    /\ refunded = {}
    /\ clean = TRUE

Debit(p) ==
    /\ DebitOf[p] \notin debited
    /\ debited' = debited \cup {DebitOf[p]}
    /\ UNCHANGED <<fate, refunded>>

Transfer(p) ==
    /\ DebitOf[p] \in debited /\ p \notin refunded
    /\ \A q \in Payouts : DebitOf[q] = DebitOf[p] => fate[q] = "none"
    /\ \E word \in {"pending", "paid", "failed"} : fate' = [fate EXCEPT ![p] = word]
    /\ UNCHANGED <<debited, refunded>>

Decide(p) ==
    /\ fate[p] = "pending"
    /\ \E word \in {"paid", "failed"} : fate' = [fate EXCEPT ![p] = word]
    /\ UNCHANGED <<debited, refunded>>

GiveBack(p) ==
    /\ DebitOf[p] \in debited /\ p \notin refunded
    /\ clean => fate[p] \in {"none", "failed"}
    /\ refunded' = refunded \cup {p}
    /\ UNCHANGED <<debited, fate>>

Next ==
    /\ clean' \in {clean, FALSE}
    /\ \/ \E p \in Payouts : Debit(p) \/ Transfer(p) \/ Decide(p) \/ GiveBack(p)
       \/ UNCHANGED <<debited, fate, refunded>>

Spec == Init /\ [][Next]_vars
=============================================================================
