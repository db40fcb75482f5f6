---------------------------- MODULE AtomicLedger ----------------------------
(***************************************************************************)
(* What the wallet ledger promises its callers, without saying how: a      *)
(* posting moves money between accounts in one step or not at all, moves   *)
(* it at most once per idempotency key, and never overdraws an account     *)
(* that is not one of the platform's suspense accounts.                    *)
(*                                                                         *)
(* An account is one column of one wallet row: <<wallet, bucket>>.         *)
(***************************************************************************)
EXTENDS Integers, Sequences

CONSTANTS
    Wallets,          \* wallet rows
    NegativeAllowed,  \* suspense wallets, which may run negative
    Buckets,          \* AVAILABLE, LOCKED, REWARD, CASHBACK
    NoKey,            \* the key of a posting that carries none
    Calls,            \* invocations of post
    Requests,         \* what they may ask for
    OpeningBalance    \* the balances the system starts from

VARIABLES
    balance,   \* balance[w][b]: money in bucket b of wallet w
    booked     \* booked[c]: the request call c has booked (a partial function)

vars == <<balance, booked>>

SignedAmount(leg) == IF leg.direction = "CREDIT" THEN leg.amount ELSE -leg.amount

Effect(leg, w, b) == IF leg.wallet = w /\ leg.bucket = b THEN SignedAmount(leg) ELSE 0

(* The net effect on one account of the first n legs of a posting. *)
Running(legs, w, b) ==
    LET upTo[n \in 0 .. Len(legs)] == IF n = 0 THEN 0 ELSE upTo[n - 1] + Effect(legs[n], w, b)
    IN  upTo

Net(legs, w, b) == Running(legs, w, b)[Len(legs)]

Moved(legs) == [w \in Wallets |-> [b \in Buckets |-> balance[w][b] + Net(legs, w, b)]]

Init ==
    /\ balance = OpeningBalance
    /\ booked = << >>

Book(c, r) ==
    /\ c \notin DOMAIN booked
    /\ r.key = NoKey \/ \A d \in DOMAIN booked : booked[d].key # r.key
    /\ \A i \in DOMAIN r.legs : r.legs[i].wallet \in Wallets
    /\ \A w \in Wallets \ NegativeAllowed, b \in Buckets : Moved(r.legs)[w][b] >= 0
    /\ balance' = Moved(r.legs)
    /\ booked' = [d \in DOMAIN booked \cup {c} |-> IF d = c THEN r ELSE booked[d]]

Next == \E c \in Calls, r \in Requests : Book(c, r)

Spec == Init /\ [][Next]_vars
=============================================================================
