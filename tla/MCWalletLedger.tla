--------------------------- MODULE MCWalletLedger ---------------------------
(***************************************************************************)
(* A user, a merchant with a fee account, and a gateway clearing account,  *)
(* with the postings the payment code makes between them: a keyed top-up,  *)
(* a keyed payment, a split payment, an un-keyed refund that takes the     *)
(* rows in the opposite order, a reservation (AVAILABLE to LOCKED) and its *)
(* capture; and the postings post must refuse.                             *)
(***************************************************************************)
EXTENDS WalletLedger, SequencesExt

CONSTANTS c1, c2, c3, user, merchant, fees, clearing, dollars, frozen, ghost, k1, k2, NGN, USD

MCWallets == {user, merchant, fees, clearing, dollars, frozen}
MCWalletIds == MCWallets \cup {ghost}
MCCurrencyOf == [w \in MCWallets |-> IF w = dollars THEN USD ELSE NGN]
MCBuckets == {"AVAILABLE", "LOCKED"}
MCOpening == [w \in MCWallets |-> [b \in MCBuckets |->
                IF w = user THEN (IF b = "AVAILABLE" THEN 2 ELSE 1) ELSE 0]]

Debit(w, b, n) == [wallet |-> w, bucket |-> b, direction |-> "DEBIT", amount |-> n]
Credit(w, b, n) == [wallet |-> w, bucket |-> b, direction |-> "CREDIT", amount |-> n]
Move(k, from, to, n) == [currency |-> NGN, key |-> k,
                         legs |-> <<Debit(from, "AVAILABLE", n), Credit(to, "AVAILABLE", n)>>]

TopUp == Move(k1, clearing, user, 1)
Pay == Move(k2, user, merchant, 2)
Refund == Move(NoKey, merchant, user, 1)
SplitPay == [currency |-> NGN, key |-> k1,
             legs |-> <<Debit(user, "AVAILABLE", 2), Credit(merchant, "AVAILABLE", 1),
                        Credit(fees, "AVAILABLE", 1)>>]
Reserve == [currency |-> NGN, key |-> NoKey,
            legs |-> <<Debit(user, "AVAILABLE", 1), Credit(user, "LOCKED", 1)>>]
Capture == [currency |-> NGN, key |-> NoKey,
            legs |-> <<Debit(user, "LOCKED", 2), Credit(clearing, "AVAILABLE", 2)>>]
Unbalanced == [currency |-> NGN, key |-> NoKey,
               legs |-> <<Debit(user, "AVAILABLE", 1), Credit(merchant, "AVAILABLE", 2)>>]

PlainRequests == {TopUp, Pay, Refund, SplitPay, Reserve, Capture}
RefusedRequests == {Unbalanced, Move(NoKey, user, ghost, 1), Move(NoKey, user, dollars, 1),
                    Move(k2, user, frozen, 1)}
MCRequests == PlainRequests \cup RefusedRequests

LiveRequests == {Pay, Refund, SplitPay}

(* The calls are alike: each mix of three requests is started once, with   *)
(* no more than one that post must refuse, next to two that share a wallet. *)
MCRequestList == SetToSeq(PlainRequests) \o SetToSeq(RefusedRequests)
Rank(c) == CHOOSE i \in DOMAIN MCRequestList : MCRequestList[i] = req[c]
MCInit ==
    /\ Init
    /\ req[c3] \in RefusedRequests => {req[c1], req[c2]} \subseteq LiveRequests
    /\ Rank(c1) <= Rank(c2) /\ Rank(c2) <= Rank(c3)
FairMCSpec == MCInit /\ [][Next]_vars /\ CallsAnswer
=============================================================================
